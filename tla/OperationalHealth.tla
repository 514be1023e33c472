-------------------------- MODULE OperationalHealth --------------------------
(***************************************************************************)
(* Operational health of one organization: signals, incidents and their    *)
(* history (platform/migrations/4015_operational_health.sql,               *)
(* platform/src/operations/operational-health.ts, api routes/              *)
(* operational-health.ts, worker jobs.ts #withOperationalHealth).          *)
(*                                                                         *)
(* Triggers on other tables and the worker's schedule append signals; a    *)
(* worker job drains them, in the order they were made, into incidents;    *)
(* operators acknowledge and resolve these.  Draining, the triggers of     *)
(* critical facts, the operators' transactions and the promotion take the  *)
(* advisory lock "operational-health-authority", so each is one step       *)
(* (ProductionControl says who may hold it for longer).                    *)
(*                                                                         *)
(* Measurements are counted in total instead of by kind and 5 minutes.     *)
(* The operators' requests are recorded and replayed as in                 *)
(* IdempotentRequest.                                                      *)
(***************************************************************************)
EXTENDS Integers, Sequences, FiniteSets, SequencesExt

CONSTANTS
  Facts,          \* consensus checks, ledger reconciliations, attempts to deliver
  KindOf,         \* what a fact is
  ScopeOf,        \* the scope_key of a fact: the check, the delivery, ...
  Conditions,     \* worker_stale, ingestion_gap: scopes watched on schedule
  Jobs,           \* the jobs that the worker processes run
  Actors,         \* the sessions and API keys of the organization
  RoleOf,         \* their roles
  Threshold,      \* the age at which a condition is reported
  PageSize,       \* signals per transaction (100)
  Pages,          \* transactions per maintenance (10)
  MaxTime,        \* bound: the clock stops here
  MaxSignals,     \* bound: the schedule adds no more signals than this
  None

ASSUME HealthAssumption ==
  /\ KindOf \in [Facts ->
       {"rpc_disagreement", "ledger_mismatch", "webhook_dead_letter"}]
  /\ Conditions \cap {ScopeOf[f] : f \in Facts} = {}
  /\ IsFiniteSet(Conditions)
  /\ Threshold \in Nat /\ PageSize \in Nat \ {0} /\ Pages \in Nat \ {0}
  /\ MaxTime \in Nat /\ MaxSignals \in Nat
  /\ None \notin Nat

VARIABLES
  clock,
  last,       \* per condition: the last heartbeat or success, if any
  happened,   \* the facts that were recorded
  signals,    \* operational_health_signals, ordered by created_at
  incidents,  \* operational_incidents, in the order they were opened
  log,        \* operational_incident_events, per incident by version
  measured,   \* operational_measurements: the samples
  job,        \* the maintenance that a job is in
  seen        \* what an operator was shown last

healthVars ==
  <<clock, last, happened, signals, incidents, log, measured, job, seen>>

Scopes == Conditions \cup {ScopeOf[f] : f \in Facts}
Time == 0..MaxTime

Signal ==
  [scope : Scopes, severity : {"warning", "critical"},
   action : {"observe", "resolve"}, at : Time, done : BOOLEAN]

IncidentState == {"open", "acknowledged", "resolved"}
Incident ==
  [scope : Scopes, severity : {"warning", "critical"}, state : IncidentState,
   version : Nat \ {0}, count : Nat \ {0}, first : Time,
   resolved : Time \cup {None},
   code : {None, "condition_cleared", "operator_resolved"}]

Active(i) == i.state \in {"open", "acknowledged"}

(* The CHECK of the table that a transition may break. *)
RowAllowed(i) == i.resolved # None => i.resolved >= i.first

Event(action, from, to, count) ==
  [action |-> action, from |-> from, to |-> to, count |-> count]

IdleJob == [at |-> "idle", time |-> 0, pages |-> 0]

HealthInit ==
  /\ clock = 0
  /\ last = [c \in Conditions |-> None]
  /\ happened = {}
  /\ signals = <<>>
  /\ incidents = <<>>
  /\ log = <<>>
  /\ measured = 0
  /\ job = [j \in Jobs |-> IdleJob]
  /\ seen = [a \in Actors |-> None]

-----------------------------------------------------------------------------
(* Signals. *)

Observation(f, severity) ==
  [scope |-> ScopeOf[f], severity |-> severity, action |-> "observe",
   at |-> clock, done |-> FALSE]

(* The facts whose triggers take the lock. *)
CriticalFacts == {f \in Facts : KindOf[f] # "webhook_dead_letter"}

(* payops_enqueue_rpc_consensus_health_signal: a check ends as disagreed.   *)
(* This trigger and the next one take the lock, the third does not.         *)
Disagreement(f) == Observation(f, "critical")

(* payops_enqueue_ledger_health_signal: a reconciliation of the ledger is   *)
(* complete and does not balance.                                           *)
Mismatch(f) == Observation(f, "critical")

(* payops_enqueue_webhook_health_signal: an attempt to deliver is the last. *)
DeadLetter(f) == Observation(f, "warning")

Record(f) ==
  /\ f \notin happened
  /\ happened' = happened \cup {f}
  /\ signals' = Append(signals,
       CASE KindOf[f] = "rpc_disagreement" -> Disagreement(f)
         [] KindOf[f] = "ledger_mismatch" -> Mismatch(f)
         [] KindOf[f] = "webhook_dead_letter" -> DeadLetter(f))
  /\ UNCHANGED <<clock, last, incidents, log, measured, job, seen>>

(* The report of a condition by a job whose clock said t. *)
Report(c, t) ==
  [scope |-> c, severity |-> "warning",
   action |-> IF last[c] = None \/ t - last[c] > Threshold
              THEN "observe" ELSE "resolve",
   at |-> t, done |-> FALSE]

(* dedupe_key: one signal per scope, action and time of a schedule. *)
Known(s) ==
  \E i \in 1..Len(signals) :
    /\ signals[i].scope = s.scope
    /\ signals[i].action = s.action
    /\ signals[i].at = s.at

(* A maintenance starts: the job takes new Date(), then sends the statement. *)
StartMaintenance(j) ==
  /\ job[j].at = "idle"
  /\ job' = [job EXCEPT ![j] = [at |-> "enqueue", time |-> clock, pages |-> 0]]
  /\ UNCHANGED <<clock, last, happened, signals, incidents, log, measured, seen>>

EnqueueScheduled(j) ==
  /\ job[j].at = "enqueue"
  /\ LET reports == {Report(c, job[j].time) : c \in Conditions}
         new == {s \in reports : ~Known(s)}
     IN  signals' = IF Len(signals) + Cardinality(new) > MaxSignals
                    THEN signals ELSE signals \o SetToSeq(new)
  /\ job' = [job EXCEPT ![j] = [at |-> "drain", time |-> 0, pages |-> 0]]
  /\ UNCHANGED <<clock, last, happened, incidents, log, measured, seen>>

-----------------------------------------------------------------------------
(* Draining.  A transaction works on h = [incidents, log, measured, ok].    *)

ActiveOf(h, scope) ==
  {i \in 1..Len(h.incidents) :
     h.incidents[i].scope = scope /\ Active(h.incidents[i])}

Opened(h, s) ==
  [h EXCEPT
     !.incidents = Append(@,
        [scope |-> s.scope, severity |-> s.severity, state |-> "open",
         version |-> 1, count |-> 1, first |-> s.at,
         resolved |-> None, code |-> None]),
     !.log = Append(@, <<Event("opened", None, "open", 1)>>)]

Earlier(a, b) == IF a < b THEN a ELSE b
Worse(a, b) == IF "critical" \in {a, b} THEN "critical" ELSE "warning"

(* The i-th incident becomes row, and its history says so. *)
Changed(h, i, action, row) ==
  [h EXCEPT
     !.incidents[i] = row,
     !.log[i] = Append(@, Event(action, h.incidents[i].state, row.state, row.count))]

(* Mutant: the version stays, as the state does. *)
Reobserved_SameVersion(h, i, s) ==
  Changed(h, i, "reobserved",
    [h.incidents[i] EXCEPT !.severity = Worse(@, s.severity),
                           !.first = Earlier(@, s.at), !.count = @ + 1])

Reobserved(h, i, s) ==
  Changed(h, i, "reobserved",
    [h.incidents[i] EXCEPT !.severity = Worse(@, s.severity), !.version = @ + 1,
                           !.first = Earlier(@, s.at), !.count = @ + 1])

(* payops_observe_operational_incident *)
Observe(h, s) ==
  IF ActiveOf(h, s.scope) = {} THEN Opened(h, s)
  ELSE Reobserved(h, CHOOSE i \in ActiveOf(h, s.scope) : TRUE, s)

(* payops_resolve_operational_incident *)
Resolved(h, i, t, code) ==
  LET row == [h.incidents[i] EXCEPT !.state = "resolved", !.version = @ + 1,
                                    !.resolved = t, !.code = code]
  IN  [Changed(h, i, "resolved", row) EXCEPT !.ok = @ /\ RowAllowed(row)]

(* payops_record_operational_measurement: one more sample in its bucket. *)
Measured(h) == [h EXCEPT !.measured = @ + 1]

(* One round of the loop of payops_process_operational_health_signals. *)
Processed(h, s) ==
  LET m == Measured(h)
  IN  IF s.action = "observe" THEN Observe(m, s)
      ELSE IF ActiveOf(m, s.scope) = {} THEN m
      ELSE Resolved(m, CHOOSE i \in ActiveOf(m, s.scope) : TRUE, s.at,
                    "condition_cleared")

Here == [incidents |-> incidents, log |-> log, measured |-> measured, ok |-> TRUE]

Pending == {i \in 1..Len(signals) : ~signals[i].done}

(* The first PageSize of them. *)
Page == {i \in Pending : Cardinality({k \in Pending : k < i}) < PageSize}

(* They are processed in their order: After[n] is what the first n leave. *)
AfterPage ==
  LET After[n \in 0..Len(signals)] ==
        IF n = 0 THEN Here
        ELSE IF n \in Page THEN Processed(After[n - 1], signals[n])
        ELSE After[n - 1]
  IN  After[Len(signals)]

MarkPage ==
  [i \in 1..Len(signals) |->
     [signals[i] EXCEPT !.done = @ \/ i \in Page]]

(* One transaction; a job stops after a page that was not full. *)
DrainPage(j) ==
  /\ job[j].at = "drain"
  /\ AfterPage.ok
  /\ incidents' = AfterPage.incidents
  /\ log' = AfterPage.log
  /\ measured' = AfterPage.measured
  /\ signals' = MarkPage
  /\ job' = [job EXCEPT ![j] =
       IF Cardinality(Page) < PageSize \/ job[j].pages + 1 = Pages
       THEN IdleJob ELSE [job[j] EXCEPT !.pages = @ + 1]]
  /\ UNCHANGED <<clock, last, happened, seen>>

(* A CHECK fails: the page is rolled back, and the job fails with it. *)
DrainFails(j) ==
  /\ job[j].at = "drain"
  /\ ~AfterPage.ok
  /\ job' = [job EXCEPT ![j] = IdleJob]
  /\ UNCHANGED <<clock, last, happened, signals, incidents, log, measured, seen>>

(* The worker dies. *)
JobDies(j) ==
  /\ job[j].at # "idle"
  /\ job' = [job EXCEPT ![j] = IdleJob]
  /\ UNCHANGED <<clock, last, happened, signals, incidents, log, measured, seen>>

-----------------------------------------------------------------------------
(* Operators: sessions of an owner or an operator, no API keys. *)

Operators == {a \in Actors : RoleOf[a] \in {"owner", "operator"}}

(* An operator lists the incidents. *)
Look(o) ==
  /\ \E i \in 1..Len(incidents) :
       /\ Active(incidents[i])
       /\ seen' = [seen EXCEPT ![o] =
            [incident |-> i, version |-> incidents[i].version,
             count |-> incidents[i].count]]
  /\ UNCHANGED <<clock, last, happened, signals, incidents, log, measured, job>>

(* transitionError: the incident is there in the version expected. *)
Expected(o) ==
  seen[o] # None /\ incidents[seen[o].incident].version = seen[o].version

(* payops_acknowledge_operational_incident *)
Acknowledged(h, i) ==
  Changed(h, i, "acknowledged",
    [h.incidents[i] EXCEPT !.state = "acknowledged", !.version = @ + 1])

(* POST .../acknowledge; anything else than an open incident is refused. *)
Acknowledge(o) ==
  /\ Expected(o)
  /\ LET h == Acknowledged(Here, seen[o].incident)
     IN  /\ incidents[seen[o].incident].state = "open"
         /\ incidents' = h.incidents
         /\ log' = h.log
  /\ seen' = [seen EXCEPT ![o] = None]
  /\ UNCHANGED <<clock, last, happened, signals, measured, job>>

(* POST .../resolve, with resolutionCode operator_resolved. *)
ResolveByOperator(o) ==
  /\ Expected(o)
  /\ LET i == seen[o].incident
         h == Resolved(Here, i, clock, "operator_resolved")
     IN  /\ Active(incidents[i])
         /\ h.ok
         /\ incidents' = h.incidents
         /\ log' = h.log
  /\ seen' = [seen EXCEPT ![o] = None]
  /\ UNCHANGED <<clock, last, happened, signals, measured, job>>

-----------------------------------------------------------------------------
(* A heartbeat or a success is recorded, or time passes. *)

Refresh(c) ==
  /\ last[c] # clock
  /\ last' = [last EXCEPT ![c] = clock]
  /\ UNCHANGED <<clock, happened, signals, incidents, log, measured, job, seen>>

Tick ==
  /\ clock < MaxTime
  /\ clock' = clock + 1
  /\ UNCHANGED <<last, happened, signals, incidents, log, measured, job, seen>>

Drain(j) == DrainPage(j) \/ DrainFails(j)

(* The steps that take operational-health-authority, and those that do not. *)
WithHealthLock ==
  \/ \E f \in CriticalFacts : Record(f)
  \/ \E j \in Jobs : Drain(j)
  \/ \E o \in Operators : Acknowledge(o) \/ ResolveByOperator(o)

WithoutHealthLock ==
  \/ \E f \in Facts \ CriticalFacts : Record(f)
  \/ \E j \in Jobs : StartMaintenance(j) \/ EnqueueScheduled(j) \/ JobDies(j)
  \/ \E o \in Operators : Look(o)
  \/ \E c \in Conditions : Refresh(c)
  \/ Tick

HealthNext == WithHealthLock \/ WithoutHealthLock

-----------------------------------------------------------------------------
(* Properties. *)

(* Type invariant. *)
HealthTypeOK ==
  /\ clock \in Time
  /\ last \in [Conditions -> Time \cup {None}]
  /\ happened \subseteq Facts
  /\ signals \in Seq(Signal)
  /\ incidents \in Seq(Incident)
  /\ Len(log) = Len(incidents)
  /\ measured \in Nat
  /\ DOMAIN job = Jobs /\ DOMAIN seen = Actors

(* The history of an incident leads to its row: there is one event per      *)
(* version, each starts in the state the one before ended in, and the last  *)
(* one has the state and the count of the row; only one incident of a scope *)
(* is active (operational_incident_events, operational_incidents_one_       *)
(* active_scope).                                                           *)
HistoryTellsIncident ==
  \A i \in 1..Len(incidents) :
    LET row == incidents[i]  events == log[i]
    IN  /\ row.version = Len(events)
        /\ events[row.version].to = row.state
        /\ events[row.version].count = row.count
        /\ \A v \in 2..row.version : events[v].from = events[v - 1].to
        /\ \A k \in 1..Len(incidents) :
             Active(row) /\ Active(incidents[k]) /\ incidents[k].scope = row.scope
             => k = i

(* An operator resolves what he was shown: no occurrence that came in after *)
(* he looked is closed with the incident.                                   *)
NothingUnseenIsResolved ==
  [][\A i \in 1..Len(incidents) :
       incidents[i].code # incidents'[i].code
         /\ incidents'[i].code = "operator_resolved"
       => \E o \in Operators :
            /\ seen[o] # None
            /\ seen[o].incident = i
            /\ seen[o].count = incidents'[i].count]_healthVars
=============================================================================
