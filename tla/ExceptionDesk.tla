--------------------------- MODULE ExceptionDesk ---------------------------
(***************************************************************************)
(* The desk at which a merchant's operators settle payment exceptions, the *)
(* queue they walk through, and the evidence packs that are signed over it *)
(* (platform/src/operations/exception-store.ts, evidence-pack.ts,          *)
(* apps/api/src/routes/operations.ts, migration 4010).                     *)
(*                                                                         *)
(* An operator decides on what a page or an earlier answer showed, while   *)
(* others decide too.  Every change is one transaction that locks the case *)
(* and compares its version; a page of the queue is one statement; a pack  *)
(* is put together by many, in one transaction on a snapshot.              *)
(***************************************************************************)
EXTENDS Naturals, Sequences, FiniteSets

CONSTANTS
  Operators,
  Ids,          \* ids of cases, numbers that order like them
  Times,        \* times of their creation
  PageLimit,    \* rows of a page
  MaxVersion,   \* bound on the version of a case
  MaxPacks,     \* bound
  None

ASSUME DeskAssumption ==
  /\ Ids \subseteq Nat /\ IsFiniteSet(Ids) /\ Times \subseteq Nat
  /\ PageLimit \in Nat \ {0} /\ MaxVersion \in Nat \ {0} /\ MaxPacks \in Nat
  /\ None \notin Nat \cup Operators

VARIABLES
  case,     \* hosted_payment_exceptions
  event,    \* exception_case_events of each
  booked,   \* the journal entries (unapplied_receipt) of cases
  view,     \* the case that an operator has on the screen
  walk,     \* a walk through the queue, page by page
  pack      \* evidence packs, being put together or signed

vars == <<case, event, booked, view, walk, pack>>

Active == {"open", "assigned", "investigating", "escalated"}
Closed == {"resolved", "ignored"}
States == Active \cup Closed
Case == [created : Times, state : States, assignee : Operators \cup {None},
         by : Operators \cup {None}, version : 1..MaxVersion]
Event == [from : States, to : States, actor : Operators, seen : Case]
Queue == [filter : SUBSET States, after : {None} \cup (Times \X Ids),
          listed : SUBSET Ids, twice : BOOLEAN, must : SUBSET Ids,
          done : BOOLEAN]
Snapshot == [case : [Ids -> Case \cup {None}], event : [Ids -> Seq(Event)],
             booked : SUBSET Ids]
Screen == [id : Ids, case : Case]

(* None is told from everything it stands in for. *)
ASSUME NoneAssumption ==
  /\ None \notin Case /\ None \notin Screen /\ None \notin Queue
  /\ None \notin Snapshot /\ None \notin Times \X Ids

TypeOK ==
  /\ case \in [Ids -> Case \cup {None}]
  /\ event \in [Ids -> Seq(Event)]
  /\ booked \subseteq Ids
  /\ view \in [Operators -> Screen \cup {None}]
  /\ walk \in Queue \cup {None}
  /\ pack \in Seq([pc : {"cases", "events", "journals", "signed"},
                   snapshot : Snapshot \cup {None}, part : Snapshot])

Raised == {i \in Ids : case[i] # None}

Init ==
  /\ case = [i \in Ids |-> None]
  /\ event = [i \in Ids |-> <<>>]
  /\ booked = {}
  /\ view = [a \in Operators |-> None]
  /\ walk = None
  /\ pack = <<>>

(* projectException, in the worker.  The time is that of the start of its   *)
(* transaction, so a case may appear behind others in the queue.  A receipt *)
(* of the right token in the right account is booked with it.               *)
RaiseCase(i, t, own) ==
  /\ case[i] = None
  /\ case' = [case EXCEPT ![i] =
       [created |-> t, state |-> "open", assignee |-> None, by |-> None, version |-> 1]]
  /\ booked' = IF own THEN booked \cup {i} ELSE booked
  /\ UNCHANGED <<event, view, walk, pack>>

-----------------------------------------------------------------------------
(* The decisions. *)

(* A page or a record of the case on the screen of the operator. *)
Look(a, i) ==
  /\ i \in Raised
  /\ view[a] # [id |-> i, case |-> case[i]]
  /\ view' = [view EXCEPT ![a] = [id |-> i, case |-> case[i]]]
  /\ UNCHANGED <<case, event, booked, walk, pack>>

(* A walk misses no case because of a change that takes it out of the       *)
(* filter: it is then no longer one that the walk must list.                *)
Leaves(i, state) ==
  walk' = IF walk # None /\ state \notin walk.filter
            THEN [walk EXCEPT !.must = @ \ {i}] ELSE walk

(* Mutant: the version is not compared. *)
MayChange_AnyVersion(a) == view[a] # None

(* #mutate: under the lock of the row. *)
MayChange(a) ==
  /\ view[a] # None
  /\ case[view[a].id].version = view[a].case.version

(* The row, its event and the answer, in one transaction. *)
Change(a, row, to) ==
  LET i == view[a].id
  IN /\ case[i].version < MaxVersion
     /\ case' = [case EXCEPT ![i] = [row EXCEPT !.version = case[i].version + 1]]
     /\ event' = [event EXCEPT ![i] = Append(@,
          [from |-> case[i].state, to |-> to, actor |-> a, seen |-> view[a].case])]
     /\ view' = [view EXCEPT ![a] = [id |-> i, case |-> case'[i]]]
     /\ Leaves(i, row.state)
     /\ UNCHANGED <<booked, pack>>

Assign(a, assignee) ==
  LET row == case[view[a].id]
      state == IF row.state = "open" THEN "assigned" ELSE row.state
  IN /\ MayChange(a)
     /\ row.state \notin Closed
     /\ Change(a, [row EXCEPT !.assignee = assignee, !.state = state], state)

Resolve(a, to) ==
  LET row == case[view[a].id]
  IN /\ MayChange(a)
     /\ row.state \notin Closed
     /\ Change(a, [row EXCEPT !.by = a, !.state = to], to)

(* #transition *)
Transition(a, from, to) ==
  LET row == case[view[a].id]
      reopening == to = "open"
  IN /\ MayChange(a)
     /\ row.state \in from
     /\ Change(a, [row EXCEPT !.state = to,
                              !.assignee = IF reopening THEN None ELSE @,
                              !.by = IF reopening THEN None ELSE @], to)

StartInvestigation(a) == Transition(a, {"open", "assigned"}, "investigating")
Escalate(a) == Transition(a, {"open", "assigned", "investigating"}, "escalated")
Reopen(a) == Transition(a, Closed, "open")

(* exception_version_conflict: the operator has to look again. *)
Conflict(a) ==
  /\ view[a] # None /\ case[view[a].id].version # view[a].case.version
  /\ view' = [view EXCEPT ![a] = None]
  /\ UNCHANGED <<case, event, booked, walk, pack>>

-----------------------------------------------------------------------------
(* The queue, newest first. *)

Ahead(p, q) == p[1] > q[1] \/ (p[1] = q[1] /\ p[2] > q[2])
Place(i) == <<case[i].created, i>>
Matching(filter) == {i \in Raised : case[i].state \in filter}

StartWalk(filter) ==
  /\ walk = None
  /\ walk' = [filter |-> filter, after |-> None, listed |-> {}, twice |-> FALSE,
              must |-> Matching(filter), done |-> FALSE]
  /\ UNCHANGED <<case, event, booked, view, pack>>

(* Mutant: the cursor compares times only. *)
Rest_ByTime == {i \in Matching(walk.filter) :
  walk.after # None => walk.after[1] > case[i].created}

(* The rows behind the cursor. *)
Rest == {i \in Matching(walk.filter) : walk.after # None => Ahead(walk.after, Place(i))}

(* One more row than the page has is asked for, to tell whether to go on. *)
NextPage ==
  /\ walk # None /\ ~walk.done
  /\ LET page == {i \in Rest :
           Cardinality({j \in Rest : Ahead(Place(j), Place(i))}) < PageLimit}
     IN walk' =
          [walk EXCEPT
             !.listed = @ \cup page,
             !.twice = @ \/ page \cap walk.listed # {},
             !.done = Cardinality(Rest) <= PageLimit,
             !.after = IF Cardinality(Rest) <= PageLimit THEN None
                       ELSE Place(CHOOSE i \in page :
                              \A j \in page \ {i} : Ahead(Place(j), Place(i)))]
  /\ UNCHANGED <<case, event, booked, view, pack>>

-----------------------------------------------------------------------------
(* Evidence packs. *)

Now == [case |-> case, event |-> event, booked |-> booked]

(* The first statement takes the snapshot of the transaction. *)
BeginPack ==
  /\ Len(pack) < MaxPacks
  /\ pack' = Append(pack, [pc |-> "cases", snapshot |-> Now, part |-> Now])
  /\ UNCHANGED <<case, event, booked, view, walk>>

(* Mutant: read committed, each statement sees the newest rows. *)
Visible_Newest(p) == Now

(* repeatable read *)
Visible(p) == pack[p].snapshot

ReadCases(p) ==
  /\ pack[p].pc = "cases"
  /\ pack' = [pack EXCEPT ![p].part.case = Visible(p).case, ![p].pc = "events"]
  /\ UNCHANGED <<case, event, booked, view, walk>>

ReadEvents(p) ==
  /\ pack[p].pc = "events"
  /\ pack' = [pack EXCEPT ![p].part.event = Visible(p).event, ![p].pc = "journals"]
  /\ UNCHANGED <<case, event, booked, view, walk>>

(* The journal entries; then the manifest is signed and stored. *)
Sign(p) ==
  /\ pack[p].pc = "journals"
  /\ pack' = [pack EXCEPT ![p].part.booked = Visible(p).booked,
                          ![p].snapshot = None, ![p].pc = "signed"]
  /\ UNCHANGED <<case, event, booked, view, walk>>

Decide(a) ==
  \/ \E b \in Operators : Assign(a, b)
  \/ StartInvestigation(a) \/ Escalate(a) \/ Reopen(a)
  \/ \E to \in Closed : Resolve(a, to)
  \/ Conflict(a)

List == (\E filter \in {{s} : s \in States} \cup {States} : StartWalk(filter)) \/ NextPage

Prove == BeginPack \/ \E p \in DOMAIN pack : ReadCases(p) \/ ReadEvents(p) \/ Sign(p)

Raise == \E i \in Ids, t \in Times, own \in BOOLEAN : RaiseCase(i, t, own)

Next ==
  \/ Raise \/ List \/ Prove
  \/ \E a \in Operators : Decide(a) \/ \E i \in Ids : Look(a, i)

Spec == Init /\ [][Next]_vars

-----------------------------------------------------------------------------
(* No operator overwrites what another one did in between: each decision    *)
(* was made by someone who had the whole case on the screen as it was then  *)
(* (exception-store.ts:341).                                                *)
DecidedAsSeen ==
  [][\A i \in Ids : event'[i] # event[i] => event'[i][Len(event'[i])].seen = case[i]]_vars

(* The events that are shown as the history of a case, and signed in packs, *)
(* lead from its beginning to its state, one for each version, and the last *)
(* one closed it if it is closed (exception-store.ts:425).                  *)
TellsCase(c, events) ==
  /\ Len(events) = c.version - 1
  /\ \A k \in DOMAIN events :
       events[k].from = (IF k = 1 THEN "open" ELSE events[k - 1].to)
  /\ c.state = (IF events = <<>> THEN "open" ELSE events[Len(events)].to)

HistoryTellsCase ==
  \A i \in Raised :
    /\ TellsCase(case[i], event[i])
    /\ (case[i].by # None) = (case[i].state \in Closed)
    /\ case[i].by # None => \E k \in DOMAIN event[i] :
         event[i][k].actor = case[i].by /\ event[i][k].to = case[i].state

(* A walk to the end of the queue lists every case that was there all along *)
(* and none twice, though cases appear and change between the pages, and    *)
(* several were created in one millisecond (operations.ts:65).              *)
WalkListsAll ==
  walk # None => ~walk.twice /\ (walk.done => walk.must \subseteq walk.listed)

(* What is signed is the state of one moment: each case with its whole      *)
(* history, each booked receipt with its case (evidence-pack.ts:538).       *)
PackIsOneMoment ==
  \A p \in DOMAIN pack : pack[p].pc = "signed" =>
    /\ \A i \in Ids : pack[p].part.case[i] # None =>
         TellsCase(pack[p].part.case[i], pack[p].part.event[i])
    /\ \A i \in pack[p].part.booked : pack[p].part.case[i] # None
=============================================================================
