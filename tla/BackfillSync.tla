---------------------------- MODULE BackfillSync ----------------------------
(***************************************************************************)
(* How the history of one watch target is read up to its newest signature  *)
(* and the cursor of the target (committed_head_signature and _slot) moved *)
(* there.  A sync holds a session lock for the pair of provider and        *)
(* target, captures the newest signature, lists pages newest first from it *)
(* down to the overlap below the cursor, fetches and stores what it found, *)
(* oldest first, and moves the cursor if nothing was blocked.  A lock is   *)
(* lost with its connection, unnoticed: another sync may then run beside   *)
(* the first.                                                              *)
(*                                                                         *)
(* The history grows while it is read, also below its newest signature: a  *)
(* signature may turn up Late slots behind.  What is stored of one         *)
(* signature is the matter of ChainEvidence; here it is stored or not.     *)
(***************************************************************************)
EXTENDS Naturals, FiniteSets

CONSTANTS
  Signatures,  \* 1..N, in the order of the chain
  SlotOf,      \* the slot of each
  Cutover,     \* cutover_slot of the target
  Overlap,     \* overlap_slots
  Late,        \* by how many slots a signature may turn up late
  PageLimit,   \* pageLimit
  Syncs,       \* the workers that sync the target
  Nobody

ASSUME BackfillAssumption ==
  /\ Signatures \subseteq Nat \ {0} /\ IsFiniteSet(Signatures)
  /\ SlotOf \in [Signatures -> Nat]
  /\ \A x, y \in Signatures : x < y => SlotOf[x] <= SlotOf[y]
  /\ Cutover \in Nat /\ Overlap \in Nat
  /\ Late \in 0..Overlap
  /\ PageLimit \in Nat \ {0}
  /\ Nobody \notin Syncs

VARIABLES
  history,   \* the signatures the provider lists for the address
  stored,    \* those with a record that is not pending
  retries,   \* unresolved ingestion_retries; 0 is the one without a signature
  head,      \* the committed head, 0 for the cutover's
  coverage,  \* watch_targets.coverage
  lock,      \* who holds the advisory lock
  sync,      \* what each sync holds
  lost       \* history: a lock was lost while its sync went on

backfill == <<history, stored, retries, head, coverage, lock, sync, lost>>

Idle == [stage |-> "idle"]
HeadSlot == IF head = 0 THEN Cutover ELSE SlotOf[head]

(* The signatures of one page: the newest ones before a signature. *)
PageBefore(x) ==
  {y \in history : y < x /\ Cardinality({z \in history : y < z /\ z < x}) < PageLimit}
Newest(S) == CHOOSE x \in S : \A y \in S : y <= x
Oldest(S) == CHOOSE x \in S : \A y \in S : x <= y

(* Mutant: the scan ends at the cursor. *)
Floor_NoOverlap(slot) == IF slot > Cutover THEN slot ELSE Cutover
Floor(slot) ==
  LET overlapped == IF slot > Overlap THEN slot - Overlap ELSE 0
  IN IF overlapped > Cutover THEN overlapped ELSE Cutover

BackfillInit ==
  /\ history = {}
  /\ stored = {}
  /\ retries = {}
  /\ head = 0
  /\ coverage = "complete"
  /\ lock = Nobody
  /\ sync = [s \in Syncs |-> Idle]
  /\ lost = FALSE

(* The chain. *)
Appear(x) ==
  /\ x \notin history
  /\ \A y \in history : SlotOf[y] <= SlotOf[x] + Late
  /\ history' = history \cup {x}
  /\ UNCHANGED <<stored, retries, head, coverage, lock, sync, lost>>

-----------------------------------------------------------------------------
Becomes(s, r) == sync' = [sync EXCEPT ![s] = r]
Release(s) == lock' = IF lock = s THEN Nobody ELSE lock
End(s) == Becomes(s, Idle) /\ Release(s)

Start(s) ==
  /\ sync[s] = Idle /\ lock = Nobody
  /\ lock' = s
  /\ Becomes(s, [stage |-> "started", from |-> head, floor |-> Floor(HeadSlot),
                 covered |-> coverage])
  /\ UNCHANGED <<history, stored, retries, head, coverage, lost>>

(* An empty history completes the run; a failing request throws. *)
Capture(s) ==
  /\ sync[s].stage = "started"
  /\ IF history = {} THEN End(s)
     ELSE /\ Becomes(s, [stage |-> "listing", from |-> sync[s].from, floor |-> sync[s].floor,
                         covered |-> sync[s].covered, captured |-> Newest(history),
                         before |-> Newest(history), found |-> {Newest(history)}])
          /\ UNCHANGED lock
  /\ UNCHANGED <<history, stored, retries, head, coverage, lost>>

List(s) ==
  LET page == PageBefore(sync[s].before)
      found == sync[s].found \cup {x \in page : SlotOf[x] >= sync[s].floor}
      last == page = {} \/ SlotOf[Oldest(page)] < sync[s].floor
  IN /\ sync[s].stage = "listing"
     /\ IF last
        THEN /\ Becomes(s, [stage |-> "fetching", from |-> sync[s].from,
                            covered |-> sync[s].covered, captured |-> sync[s].captured,
                            todo |-> found, blocked |-> FALSE, refused |-> FALSE])
             /\ retries' = retries \ {0}
        ELSE /\ Becomes(s, [sync[s] EXCEPT !.found = found, !.before = Oldest(page)])
             /\ UNCHANGED retries
     /\ UNCHANGED <<history, stored, head, coverage, lock, lost>>

(* The run completes without the cursor; nothing found is stored. *)
ListFails(s) ==
  /\ sync[s].stage = "listing"
  /\ retries' = retries \cup {0}
  /\ End(s)
  /\ UNCHANGED <<history, stored, head, coverage, lost>>

(* By slot, and in the order of discovery within a slot. *)
EarliestFound(S) ==
  Newest({x \in S : SlotOf[x] = SlotOf[Oldest(S)]})
NextOf(s) == EarliestFound(sync[s].todo)
Fetching(s) == sync[s].stage = "fetching" /\ sync[s].todo # {}
Done(s, blocked, refused) ==
  Becomes(s, [sync[s] EXCEPT !.todo = @ \ {NextOf(s)}, !.blocked = @ \/ blocked,
                             !.refused = @ \/ refused])

(* Stored with its class, or quarantined because its answer is no use. *)
Fetch(s, refused) ==
  /\ Fetching(s)
  /\ stored' = stored \cup {NextOf(s)}
  /\ retries' = retries \ {NextOf(s)}
  /\ Done(s, FALSE, refused)
  /\ UNCHANGED <<history, head, coverage, lock, lost>>

(* An error that a retry may cure. *)
FetchFails(s) ==
  /\ Fetching(s)
  /\ retries' = retries \cup {NextOf(s)}
  /\ Done(s, TRUE, FALSE)
  /\ UNCHANGED <<history, stored, head, coverage, lock, lost>>

(* Mutant: the cursor is not compared with the one the run started from. *)
Advances_NoCompare(s) == ~sync[s].blocked
Advances(s) == ~sync[s].blocked /\ head = sync[s].from

CoverageAfter(s) == IF sync[s].refused THEN "incomplete" ELSE sync[s].covered

Complete(s) ==
  /\ sync[s].stage = "fetching" /\ sync[s].todo = {}
  /\ IF Advances(s) THEN head' = sync[s].captured /\ coverage' = CoverageAfter(s)
     ELSE UNCHANGED <<head, coverage>>
  /\ End(s)
  /\ UNCHANGED <<history, stored, retries, lost>>

(* The process dies, or a request for the head or a statement throws.       *)
Die(s) ==
  /\ sync[s] # Idle
  /\ End(s)
  /\ UNCHANGED <<history, stored, retries, head, coverage, lost>>

(* The connection that holds the lock drops. *)
LoseLock(s) ==
  /\ lock = s /\ lost = FALSE
  /\ lock' = Nobody
  /\ lost' = TRUE
  /\ UNCHANGED <<history, stored, retries, head, coverage, sync>>

SyncStep(s) ==
  \/ Start(s) \/ Capture(s) \/ List(s) \/ ListFails(s)
  \/ \E refused \in BOOLEAN : Fetch(s, refused)
  \/ FetchFails(s) \/ Complete(s) \/ Die(s) \/ LoseLock(s)

BackfillNext ==
  \/ \E x \in Signatures : Appear(x)
  \/ \E s \in Syncs : SyncStep(s)

BackfillSpec == BackfillInit /\ [][BackfillNext]_backfill

-----------------------------------------------------------------------------
Relisted(x) == SlotOf[x] >= Floor(HeadSlot)

(* Safety: what the cursor has passed is stored.  A signature at or after   *)
(* the cutover that is not stored yet lies where the next sync lists, also  *)
(* when it turned up while or after a sync read the pages around it.        *)
NothingLeftBehind ==
  \A x \in history \ stored : SlotOf[x] >= Cutover => Relisted(x)

(* Action property: the cursor never goes back, although the head that a    *)
(* sync commits was captured before it listed and fetched anything, and     *)
(* another sync may have committed a later one since.                       *)
HeadOnlyMovesForward == [][head' >= head]_backfill

=============================================================================
