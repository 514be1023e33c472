--------------------------- MODULE ProjectionScan ---------------------------
(***************************************************************************)
(* projectAvailable over PaymentProjection: a worker reads a batch of the  *)
(* events that may have something to project, in the order of their ids,   *)
(* projects them one by one, and reads on behind the last one until it has *)
(* examined Limit of them.  The next run of the job starts from the first  *)
(* event again.  A batch is read in a transaction of its own, so an event  *)
(* may have nothing left to project when its turn comes.                   *)
(*                                                                         *)
(* There is one scan at a time here: the job's lease sees to that, and     *)
(* PaymentProjection already lets projectors interleave freely.            *)
(***************************************************************************)
EXTENDS PaymentProjection, FiniteSets

CONSTANT Limit  \* input.limit, 1 to 100

ASSUME LimitAssumption == Limit \in Nat \ {0}

VARIABLES
  authorized,  \* hasProjectionAuthority
  batch,       \* the candidates read and not yet projected
  after,       \* afterEventId, 0 for null
  examined

scan == <<batch, after, examined>>
scanVars == <<vars, authorized, scan>>

FreshScan == batch' = {} /\ after' = 0 /\ examined' = 0

ScanInit == Init /\ authorized = FALSE /\ batch = {} /\ after = 0 /\ examined = 0

-----------------------------------------------------------------------------
(* The WHERE of the candidates: what the status has yet to follow. *)
Candidate_Unexpired(e) ==
  /\ InExpectation(e)
  /\ LET s == status[AttemptOf[e]] IN
     \/ chain[e] = "detected" /\ s \in {"awaiting_payment", "confirmation_revoked"}
     \/ chain[e] = "confirmed" /\ s \in {"awaiting_payment", "detected", "confirmation_revoked"}
     \/ chain[e] = "finalized" /\ s \notin Settled \cup {"expired"}
     \/ chain[e] \in Revoked /\ s \in Provisional
Candidate_NotRevoked(e) ==
  /\ InExpectation(e)
  /\ LET s == status[AttemptOf[e]] IN
     \/ chain[e] = "detected" /\ s \in {"awaiting_payment", "confirmation_revoked"}
     \/ chain[e] = "confirmed" /\ s \in {"awaiting_payment", "detected", "confirmation_revoked"}
     \/ chain[e] = "finalized" /\ s \notin Settled
     \/ chain[e] \in Revoked /\ s = "detected"
Candidate(e) ==
  /\ InExpectation(e)
  /\ LET s == status[AttemptOf[e]] IN
     \/ chain[e] = "detected" /\ s \in {"awaiting_payment", "confirmation_revoked"}
     \/ chain[e] = "confirmed" /\ s \in {"awaiting_payment", "detected", "confirmation_revoked"}
     \/ chain[e] = "finalized" /\ s \notin Settled
     \/ chain[e] \in Revoked /\ s \in Provisional

Candidates == {e \in Events : e > after /\ Candidate(e)}

Before(e, S) == {d \in S : d < e}

(* ORDER BY event_id LIMIT limit - examined *)
FirstOf(S) == {e \in S : Cardinality(Before(e, S)) < Limit - examined}

ReadBatch ==
  /\ batch = {}
  /\ Candidates # {}
  /\ batch' = FirstOf(Candidates)
  /\ UNCHANGED <<vars, authorized, after, examined>>

EndOfScan ==
  /\ batch = {}
  /\ Candidates = {}
  /\ after # 0
  /\ FreshScan
  /\ UNCHANGED <<vars, authorized>>

(* The scan is done with e; n is 1 if it counts as examined. *)
MoveOn(e, n) ==
  IF examined + n = Limit
  THEN FreshScan
  ELSE /\ batch' = batch \ {e}
       /\ after' = e
       /\ examined' = examined + n

(* The turn of e: projectOne is awaited, the storing of a draft included. *)
NextInBatch(e) == e \in batch /\ Before(e, batch) = {}
Turn(e) == NextInBatch(e) /\ drafts = {}

MayProject(e) == authorized \/ mode = "shadow"

Changes(e) == CanRevoke(e) \/ CanObserve(e) \/ (MaySettle(e) /\ ~Throws(e))

(* What a proposal counts for: one stored by an earlier scan is passed over. *)
Counts(p) == IF p \in proposals THEN 0 ELSE 1

ProjectNext(e) ==
  /\ Turn(e)
  /\ MayProject(e)
  /\ Revoke(e) \/ Observe(e) \/ Pay(e) \/ SetAside(e)
  /\ MoveOn(e, 1)
  /\ UNCHANGED authorized

DraftNext(e) ==
  /\ Turn(e)
  /\ Draft(e)
  /\ UNCHANGED <<authorized, scan>>

StoreNext(p) ==
  /\ p \in drafts
  /\ Store(p)
  /\ MoveOn(p.event, Counts(p))
  /\ UNCHANGED authorized

(* "unchanged" and "not_found" count as examined. *)
SkipNext(e) ==
  /\ Turn(e)
  /\ ~MayProject(e) \/ (~Changes(e) /\ ~Throws(e) /\ ~CanDraft(e))
  /\ MoveOn(e, 1)
  /\ UNCHANGED <<vars, authorized>>

(* An exception ends the scan, and with it the run of the job. *)
ThrowNext(e) ==
  /\ Turn(e)
  /\ MayProject(e)
  /\ Throws(e)
  /\ FreshScan
  /\ UNCHANGED <<vars, authorized>>

Scan ==
  \/ ReadBatch \/ EndOfScan
  \/ \E e \in batch : ProjectNext(e) \/ DraftNext(e) \/ SkipNext(e) \/ ThrowNext(e)
  \/ \E p \in drafts : StoreNext(p)

(* The instance misses its heartbeats, is stopped or dies; another starts   *)
(* from scratch.                                                            *)
LoseAuthority ==
  /\ authorized
  /\ authorized' = FALSE
  /\ \/ UNCHANGED <<vars, scan>>
     \/ drafts = {} /\ FreshScan /\ UNCHANGED vars
     \/ FreshScan /\ \E p \in drafts : LoseDraft(p)

GainAuthority ==
  /\ ~authorized
  /\ authorized' = TRUE
  /\ UNCHANGED <<vars, scan>>

Environment == (Merchant \/ Chain) /\ UNCHANGED <<authorized, scan>>

ScanNext == Environment \/ Scan \/ LoseAuthority \/ GainAuthority

ScanSpec == ScanInit /\ [][ScanNext]_scanVars

(* The worker runs the job again and again. *)
FairScan == ScanSpec /\ WF_scanVars(Scan)

-----------------------------------------------------------------------------
(* Properties. *)

(* The rest of a batch lies behind the position of the scan, a batch never  *)
(* holds more than what is left to examine, and a draft belongs to the      *)
(* event whose turn it is.                                                  *)
ScanInOrder ==
  /\ examined < Limit
  /\ \A e \in batch : e > after
  /\ Cardinality(batch) <= Limit - examined
  /\ \A p \in drafts : NextInBatch(p.event)

(* The projection of e waits for nobody. *)
Undecided(e) ==
  /\ chain[e] = "finalized"
  /\ InExpectation(e)
  /\ DualProvider => e \in agreed

(* The worker keeps its authority, and every transfer seen on chain becomes *)
(* final in the end.                                                        *)
Steady == <>[](authorized /\ \A e \in Events : chain[e] \in Final \cup {"absent"})

(* No projection throws again and again, and the second provider agrees on  *)
(* every finalized transfer that is awaited.                                *)
NoneHeldUp ==
  <>[](\A e \in Events :
         /\ ~Throws(e)
         /\ chain[e] = "finalized" /\ InExpectation(e) => Undecided(e))

(* Every final transfer is decided where no other one holds the scan up:    *)
(* the order of the ids, the limit, lost authority and restarts keep none   *)
(* from its turn (status-projector.ts:253).                                 *)
DecidedUnlessHeldUp ==
  Steady /\ NoneHeldUp /\ <>(mode = "live") => \A e \in Events : []<>~Undecided(e)

(* A payment that the chain took back is not shown as detected or confirmed *)
(* for ever.                                                                *)
RevocationIsShown ==
  Steady /\ NoneHeldUp => \A e \in Events :
    []<>~(chain[e] \in Revoked /\ InExpectation(e) /\ status[AttemptOf[e]] \in Provisional)

=============================================================================
