--------------------------- MODULE IngestionSweep ---------------------------
(***************************************************************************)
(* How the worker's jobs walk over organizations and watch targets.  Each  *)
(* execution of ingest_watch_targets takes one organization and a batch of *)
(* its active targets; the other jobs take a batch of organizations.  What *)
(* the next execution starts after is the cursor that a job returns, and   *)
(* the runner saves it only when the job succeeds (WorkerLease).           *)
(***************************************************************************)
EXTENDS Naturals, FiniteSets, FiniteSetsExt

CONSTANTS
  Organizations,  \* numbered in the order of their ids
  Targets,        \* numbered in the order of their ids
  OwnerOf,        \* watch_targets.organization_id
  BatchSize,      \* context.batchSize
  NoId            \* NULL, before every id

ASSUME SweepAssumption ==
  /\ Organizations \subseteq Nat \ {0} /\ IsFiniteSet(Organizations)
  /\ Targets \subseteq Nat \ {0} /\ IsFiniteSet(Targets)
  /\ OwnerOf \in [Targets -> Organizations]
  /\ BatchSize \in Nat \ {0}
  /\ NoId = 0

VARIABLES
  listed,   \* the organizations that exist
  active,   \* the targets that are active, and their providers
  at,       \* worker_jobs.cursor of ingest_watch_targets
  after,    \* worker_jobs.cursor of a job over organizations
  waits,    \* history: executions since a target was synced, while active
  passed    \* history: executions since an organization was visited

sweep == <<listed, active, at, after, waits, passed>>

SweepInit ==
  /\ listed = Organizations
  /\ active \in SUBSET Targets
  /\ at = [organization |-> NoId, target |-> NoId]
  /\ after = NoId
  /\ waits = [t \in Targets |-> 0]
  /\ passed = [o \in Organizations |-> 0]

(* ORDER BY id LIMIT n *)
FirstOf(S, n) == {x \in S : Cardinality({y \in S : y < x}) < n}
Beyond(S, id) == {x \in S : x > id}

OrganizationsAfter(id, limit) ==
  FirstOf(IF Beyond(listed, id) = {} THEN listed ELSE Beyond(listed, id), limit)

Due(o, id) == FirstOf(Beyond({t \in active : OwnerOf[t] = o}, id), BatchSize)

-----------------------------------------------------------------------------
(* The organization whose targets were not all reached, or the next one.    *)
Continues == at.target # NoId /\ at.organization \in listed
Chosen == IF Continues THEN {at.organization} ELSE OrganizationsAfter(at.organization, 1)
Batch(o) == Due(o, IF Continues THEN at.target ELSE NoId)

(* Mutant: a full batch is taken for the last one. *)
CursorAfter_Whole(o, rows) == [organization |-> o, target |-> NoId]
CursorAfter(o, rows) ==
  [organization |-> o,
   target |-> IF Cardinality(rows) = BatchSize THEN Max(rows) ELSE NoId]

Waited(S) ==
  [t \in Targets |-> IF t \in S \/ t \notin active THEN 0 ELSE waits[t] + 1]

(* An execution that succeeds has synced every target of its batch. *)
IngestBatch ==
  /\ \E o \in Chosen :
       /\ at' = CursorAfter(o, Batch(o))
       /\ waits' = Waited(Batch(o))
  /\ UNCHANGED <<listed, active, after, passed>>

(* A target that throws fails the job: those synced before it stay synced,  *)
(* the cursor stays.                                                        *)
IngestFails ==
  /\ \E o \in Chosen : \E done \in SUBSET Batch(o) :
       /\ done # Batch(o)
       /\ waits' = [t \in Targets |-> IF t \in done THEN 0 ELSE waits[t]]
  /\ UNCHANGED <<listed, active, at, after, passed>>

(* The other jobs: each organization of the batch in turn. *)
VisitOrganizations ==
  LET batch == OrganizationsAfter(after, BatchSize)
  IN /\ after' = IF batch = {} THEN NoId ELSE Max(batch)
     /\ passed' = [o \in Organizations |->
                     IF o \in batch \/ o \notin listed THEN 0 ELSE passed[o] + 1]
     /\ UNCHANGED <<listed, active, at, waits>>

(* A target is activated or deactivated. *)
Toggle(t) ==
  /\ active' = IF t \in active THEN active \ {t} ELSE active \cup {t}
  /\ waits' = [waits EXCEPT ![t] = 0]
  /\ UNCHANGED <<listed, at, after, passed>>

(* An organization is registered or removed. *)
Register(o) ==
  /\ listed' = IF o \in listed THEN listed \ {o} ELSE listed \cup {o}
  /\ active' = IF o \in listed THEN {t \in active : OwnerOf[t] # o} ELSE active
  /\ waits' = [t \in Targets |-> IF OwnerOf[t] = o THEN 0 ELSE waits[t]]
  /\ passed' = [passed EXCEPT ![o] = 0]
  /\ UNCHANGED <<at, after>>

SweepNext ==
  \/ IngestBatch \/ IngestFails \/ VisitOrganizations
  \/ \E t \in Targets : OwnerOf[t] \in listed /\ Toggle(t)
  \/ \E o \in Organizations : Register(o)

SweepSpec == SweepInit /\ [][SweepNext]_sweep

-----------------------------------------------------------------------------
(* One walk over everything: per organization its batches, and one more     *)
(* that finds the last one was full.                                        *)
Turns(o) == Cardinality({t \in Targets : OwnerOf[t] = o}) \div BatchSize + 1
Walk == {x \in Organizations \X (1..(Cardinality(Targets) + 1)) : x[2] <= Turns(x[1])}

(* Safety: bounded waiting.  A target that stays active is synced within    *)
(* one walk of successful executions, whatever other targets and            *)
(* organizations come and go, and an organization is visited within as many *)
(* executions as it takes to count them off in batches, twice around.       *)
TargetsTakeTurns ==
  /\ \A t \in Targets : waits[t] <= Cardinality(Walk)
  /\ \A o \in Organizations : passed[o] <= Cardinality(Organizations)
=============================================================================
