--------------------------- MODULE ChainEvidence ---------------------------
(***************************************************************************)
(* How ingestion learns what became of one transaction: the rows of        *)
(* discovered_signatures for the watch targets in whose history it shows   *)
(* up, the archived snapshots of it (raw_transactions), and the state of   *)
(* the transfer parsed from it (chain_events).                             *)
(*                                                                         *)
(* Two kinds of workers write them.  A backfill lists the history of a     *)
(* target, one at a time per target, and records each signature twice: as  *)
(* pending when it is listed and with its class once it is fetched.  A     *)
(* finality refresh claims provisional rows, asks the provider for their   *)
(* statuses and records what it concludes.  A claim lapses after 60        *)
(* seconds, which may pass between any two steps: another refresh may      *)
(* claim the row while the first still holds its answer.                   *)
(*                                                                         *)
(* The provider is one and may answer anything at any time.  A transaction *)
(* is known by its content; contents with the same parsing digest hold the *)
(* same transfers, and one transfer stands for all of them.  With one      *)
(* provider a transfer that differs from the stored one comes from another *)
(* content, which the conflict of raw digests catches first.  Retry and    *)
(* quarantine records, which gate nothing, are left out.                   *)
(***************************************************************************)
EXTENDS Naturals, FiniteSets

CONSTANTS
  Targets,       \* watch targets whose history has the signature
  Refreshers,    \* the claims that finality refreshes hold at a time
  Nobody,        \* NULL in finality_claim_token
  Contents,      \* the versions of the transaction the provider may answer
  ParseOf,       \* createParsingDigest of a content
  ClassOf,       \* what a content is for a target, when it is parsed
  MissingLimit,  \* observations without a status before a reversion: 3
  SlotGap,       \* slots they must span: 64
  MaxSlot,       \* bound: the finalized slots a run explores
  MaxListings    \* bound: how often backfills list the signature

Class == {"parsed", "irrelevant", "failed_transaction", "quarantined"}

ASSUME ConstantsAssumption ==
  /\ Nobody \notin Refreshers
  /\ Contents \subseteq Nat \ {0}
  /\ ParseOf \in [Contents -> Nat \ {0}]
  /\ ClassOf \in [Targets -> [Contents -> Class]]
  /\ MissingLimit \in Nat \ {0} /\ SlotGap \in Nat
  /\ MaxSlot \in Nat /\ MaxListings \in Nat

VARIABLES
  state,     \* finality_state of each target's row, "absent" before it
  class,     \* representation_class
  parse,     \* parse_digest, 0 for NULL
  missing,   \* missing_observation_count, up to MissingLimit
  first,     \* first_missing_finalized_slot + 1, 0 for NULL
  claim,     \* finality_claim_token
  listing,   \* the backfill of a target, between its two records of the row
  archived,  \* the first snapshot of commitment confirmed, 0 before it
  finals,    \* the snapshots of commitment finalized
  event,     \* chain_events.current_state
  source,    \* the content the event was parsed from, 0 before it
  check,     \* the FinalityCandidate a refresh holds
  listed,    \* bound: how often the signature was listed
  silent     \* history: the answers without a status since the last with one

rows == <<state, class, parse>>
absences == <<missing, first, silent>>
backfill == <<listing, listed>>
transfer == <<event, source>>
vars == <<rows, absences, claim, backfill, archived, finals, transfer, check>>

Provisional == {"detected", "confirmed"}
Final == {"finalized", "failed", "reverted", "quarantined"}
Slots == 0..MaxSlot

Candidate ==
  [target : Targets, state : Provisional, parse : Nat, missing : 0..MissingLimit,
   first : 0..(MaxSlot + 1), archived : BOOLEAN]
NoCheck == [target |-> Nobody]

Init ==
  /\ state = [t \in Targets |-> "absent"]
  /\ class = [t \in Targets |-> "none"]
  /\ parse = [t \in Targets |-> 0]
  /\ missing = [t \in Targets |-> 0]
  /\ first = [t \in Targets |-> 0]
  /\ claim = [t \in Targets |-> Nobody]
  /\ listing = [t \in Targets |-> "idle"]
  /\ archived = 0
  /\ finals = {}
  /\ event = "absent"
  /\ source = 0
  /\ check = [k \in Refreshers |-> NoCheck]
  /\ listed = 0
  /\ silent = [t \in Targets |-> 0]

-----------------------------------------------------------------------------
(* Backfill. *)

FinalityOf(c) ==
  CASE c = "pending" -> "detected"
    [] c = "failed_transaction" -> "failed"
    [] c = "quarantined" -> "quarantined"
    [] OTHER -> "confirmed"

(* INSERT ... ON CONFLICT DO UPDATE: a final row keeps its state and class, *)
(* and a class once known does not become pending again.  p is the parsing  *)
(* digest, 0 without a transaction.                                         *)
Stored(t, c, p) ==
  /\ state' = [state EXCEPT ![t] = IF @ \in Final THEN @ ELSE FinalityOf(c)]
  /\ class' = [class EXCEPT ![t] =
       IF state[t] \in Final \/ (c = "pending" /\ @ \in Class) THEN @ ELSE c]
  /\ parse' = [parse EXCEPT ![t] = IF @ = 0 THEN p ELSE @]

(* The signature is listed, at the slot of its row or at another one.       *)
List(t, moved) ==
  /\ listing[t] = "idle"
  /\ listed < MaxListings
  /\ moved => state[t] # "absent"
  /\ listed' = listed + 1
  /\ listing' = [listing EXCEPT ![t] = IF moved THEN "moved" ELSE "same"]
  /\ Stored(t, IF moved THEN "quarantined" ELSE "pending", 0)
  /\ UNCHANGED <<absences, claim, archived, finals, transfer, check>>

(* The class under which content c is stored. *)
Conflict(t, c) == listing[t] = "moved" \/ archived \notin {0, c}
ClassStored(t, c) == IF Conflict(t, c) THEN "quarantined" ELSE ClassOf[t][c]

(* The transfer, once a row of class cl is stored for content c. *)
EventStored(c, cl) ==
  CASE cl = "quarantined" /\ event # "absent" ->
         event' = "quarantined" /\ UNCHANGED source
    [] cl = "parsed" /\ event = "absent" -> event' = "confirmed" /\ source' = c
    [] OTHER -> UNCHANGED transfer

Fetch(t, c) ==
  /\ listing[t] # "idle"
  /\ listing' = [listing EXCEPT ![t] = "idle"]
  /\ archived' = IF archived = 0 THEN c ELSE archived
  /\ Stored(t, ClassStored(t, c), ParseOf[c])
  /\ EventStored(c, ClassStored(t, c))
  /\ UNCHANGED <<absences, claim, finals, check, listed>>

(* The provider has nothing to answer yet, a statement fails, or the worker *)
(* dies: the cursor stays, and a later backfill lists the signature again.  *)
FetchDeferred(t) ==
  /\ listing[t] # "idle"
  /\ listing' = [listing EXCEPT ![t] = "idle"]
  /\ UNCHANGED <<rows, absences, claim, archived, finals, transfer, check, listed>>

(* The answer cannot be used, and a retry would not help. *)
FetchRefused(t) ==
  /\ listing[t] # "idle"
  /\ listing' = [listing EXCEPT ![t] = "idle"]
  /\ Stored(t, "quarantined", 0)
  /\ UNCHANGED <<absences, claim, archived, finals, transfer, check, listed>>

-----------------------------------------------------------------------------
(* Finality.  claimFinalityCandidates: the claim is given what the row says *)
(* now.                                                                     *)
Claimable_Confirmed(t) == state[t] = "confirmed" /\ class[t] \in Class
Claimable(t) == state[t] \in Provisional /\ class[t] \in Class

Claim(k, t) ==
  /\ check[k] = NoCheck
  /\ Claimable(t)
  /\ claim' = [claim EXCEPT ![t] = k]
  /\ check' = [check EXCEPT ![k] =
       [target |-> t, state |-> state[t], parse |-> parse[t], missing |-> missing[t],
        first |-> first[t], archived |-> finals # {}]]
  /\ UNCHANGED <<rows, absences, backfill, archived, finals, transfer>>

(* The refresh throws or dies; the claim lapses. *)
Abandon(k) ==
  /\ check[k] # NoCheck
  /\ check' = [check EXCEPT ![k] = NoCheck]
  /\ UNCHANGED <<rows, absences, claim, backfill, archived, finals, transfer>>

(* shouldTestReversion, at the finalized slot s. *)
ShouldTestReversion(x, s) ==
  /\ x.missing + 1 >= MissingLimit
  /\ s >= (IF x.first = 0 THEN s ELSE x.first - 1) + SlotGap
  /\ s >= SlotGap

(* A finalized snapshot counts if it parses as the row did. *)
Judged(x, c) == IF ParseOf[c] = x.parse THEN "finalized" ELSE "quarantined"

(* What the provider's answers may amount to for candidate x: with a status *)
(* (the transaction failed, is confirmed, is processed or cannot be fetched *)
(* yet, cannot be used, or is final with content c) or without one (and     *)
(* then, if a reversion is tested, gone, unusable, or found after all).     *)
Shown(next, c) == [status |-> TRUE, next |-> next, snapshot |-> c]
Silence(next, c) == [status |-> FALSE, next |-> next, snapshot |-> c]
Answers(x, s) ==
  {Shown(n, 0) : n \in {"failed", "confirmed", "quarantined", x.state}}
  \cup {Shown(Judged(x, c), c) : c \in Contents}
  \cup {Silence(x.state, 0)}
  \cup IF ShouldTestReversion(x, s) /\ ~x.archived
       THEN {Silence("reverted", 0), Silence("quarantined", 0)}
              \cup {Silence(x.state, c) : c \in Contents}
       ELSE {}

(* recordFinalityObservation.  The finalized snapshots are read again: one  *)
(* that differs is a conflict, and any at all rules a reversion out.        *)
Effective_NoConflict(x, a) ==
  IF a.next = "reverted" /\ finals # {} THEN x.state ELSE a.next
Effective(x, a) ==
  IF a.snapshot # 0 /\ finals \ {a.snapshot} # {} THEN "quarantined"
  ELSE IF a.next = "reverted" /\ finals # {} THEN x.state
  ELSE a.next

EventAfter_Any(next) == IF event = "absent" THEN event ELSE next
EventAfter(next) ==
  IF event = "absent" \/ (event \in Final /\ next # "quarantined") THEN event ELSE next

(* The row is still in the state and under the token of the claim. *)
Fenced(k, x) == state[x.target] = x.state /\ claim[x.target] = k

AtMost(n, limit) == IF n < limit THEN n ELSE limit

Recorded(x, s, a) ==
  LET t == x.target IN
  /\ state' = [state EXCEPT ![t] = Effective(x, a)]
  /\ missing' = [missing EXCEPT ![t] = IF a.status THEN 0 ELSE AtMost(@ + 1, MissingLimit)]
  /\ first' = [first EXCEPT ![t] = IF a.status THEN 0 ELSE IF @ = 0 THEN s + 1 ELSE @]
  /\ silent' = [silent EXCEPT ![t] = IF a.status THEN 0 ELSE AtMost(@ + 1, MissingLimit)]
  /\ claim' = [claim EXCEPT ![t] = Nobody]
  /\ finals' = finals \cup ({a.snapshot} \ {0})
  /\ event' = EventAfter(Effective(x, a))
  /\ UNCHANGED <<class, parse, source>>

RecordAnswer(k, s, a) ==
  /\ Fenced(k, check[k])
  /\ Recorded(check[k], s, a)
  /\ check' = [check EXCEPT ![k] = NoCheck]
  /\ UNCHANGED <<backfill, archived>>

Record(k) ==
  /\ check[k] # NoCheck
  /\ \E s \in Slots : \E a \in Answers(check[k], s) : RecordAnswer(k, s, a)

RecordRefused(k) ==
  /\ check[k] # NoCheck
  /\ ~Fenced(k, check[k])
  /\ check' = [check EXCEPT ![k] = NoCheck]
  /\ UNCHANGED <<rows, absences, claim, backfill, archived, finals, transfer>>

(* completeFinalizedConsensus: the second provider tells another story of a *)
(* finalized transfer.                                                      *)
Disagree ==
  /\ event = "finalized"
  /\ event' = "quarantined"
  /\ UNCHANGED <<rows, absences, claim, backfill, archived, finals, source, check>>

-----------------------------------------------------------------------------
Backfill(t) ==
  \/ \E moved \in BOOLEAN : List(t, moved)
  \/ \E c \in Contents : Fetch(t, c)
  \/ FetchDeferred(t) \/ FetchRefused(t)

EndCheck(k) == Record(k) \/ RecordRefused(k) \/ Abandon(k)

Next ==
  \/ \E t \in Targets : Backfill(t)
  \/ \E k \in Refreshers : (\E t \in Targets : Claim(k, t)) \/ EndCheck(k)
  \/ Disagree

Spec == Init /\ [][Next]_vars

(* The provider, asked about t, answers that the archived content is final. *)
Truthful(t) ==
  \E k \in Refreshers :
    /\ check[k].target = t
    /\ RecordAnswer(k, 0, Shown(Judged(check[k], archived), archived))

(* Refreshes run again and again, each of them ends, and a provider that is *)
(* asked again and again tells the truth in the end.                        *)
FairSpec ==
  /\ Spec
  /\ \A t \in Targets : WF_vars(\E k \in Refreshers : Claim(k, t))
  /\ \A k \in Refreshers : WF_vars(EndCheck(k))
  /\ \A t \in Targets : SF_vars(Truthful(t))

-----------------------------------------------------------------------------
(* Properties. *)

TypeOK ==
  /\ state \in [Targets -> {"absent"} \cup Provisional \cup Final]
  /\ class \in [Targets -> {"none", "pending"} \cup Class]
  /\ parse \in [Targets -> Nat]
  /\ missing \in [Targets -> 0..MissingLimit]
  /\ first \in [Targets -> 0..(MaxSlot + 1)]
  /\ claim \in [Targets -> Refreshers \cup {Nobody}]
  /\ listing \in [Targets -> {"idle", "same", "moved"}]
  /\ archived \in Contents \cup {0}
  /\ finals \subseteq Contents
  /\ event \in {"absent"} \cup Provisional \cup Final
  /\ source \in Contents \cup {0}
  /\ check \in [Refreshers -> Candidate \cup {NoCheck}]
  /\ listed \in 0..MaxListings
  /\ silent \in [Targets -> 0..MissingLimit]

(* A finalized transfer rests on one finalized snapshot, which holds the    *)
(* transfer as it was parsed from the confirmed one, and on a row that was  *)
(* finalized with it: no order of backfills and refreshes of several        *)
(* targets leaves a transfer finalized over two different snapshots.        *)
FinalizedIsBacked ==
  event = "finalized" =>
    /\ \E c \in finals : finals = {c} /\ ParseOf[c] = ParseOf[source]
    /\ \E t \in Targets : state[t] = "finalized"

(* A row is reverted only when no finalized snapshot is stored and the      *)
(* provider gave MissingLimit answers without a status in a row, however    *)
(* claims lapse and answers come late.                                      *)
RevertedIsGone ==
  [][\A t \in Targets : state[t] # "reverted" /\ state'[t] = "reverted" =>
       finals = {} /\ silent'[t] >= MissingLimit]_vars

(* A transfer with a row still under way is final in the end: claims that   *)
(* lapse, rows listed again in the middle of a check and answers without a  *)
(* status delay it, but do not leave it behind.  It may stay as it was only *)
(* if every row that was fetched is put in quarantine.                      *)
EventSettles ==
  (event \in Provisional /\ \E t \in Targets : Claimable(t))
    ~> (event \in Final
          \/ \A t \in Targets : class[t] \in Class => state[t] = "quarantined")

(* postgres-store.integration.test.ts: "does not allow replay to move a     *)
(* quarantined signature to confirmed".                                     *)
QuarantinedIsNotConfirmed ==
  [][event = "absent" /\ event' = "confirmed" =>
       \E t \in Targets : state'[t] # "quarantined" /\ state'[t] # "absent"]_vars

Promise == INSTANCE Evidence WITH chain <- event

(* The transfer's state implements Evidence, which is what the projector    *)
(* builds on.                                                               *)
ImplementsEvidence == Promise!Spec
=============================================================================
