--------------------------- MODULE ConsensusCheck ---------------------------
(***************************************************************************)
(* Whether two RPC providers agree on one finalized transaction: the       *)
(* latest generation of its rows in rpc_consensus_checks, the verifiers    *)
(* that claim, ask and complete it, and what a disagreement does to the    *)
(* transfer.  The primary has finalized the transaction before a check     *)
(* begins, the secondary may follow later.                                 *)
(*                                                                         *)
(* A claim holds for 60 seconds and is shared: whoever asks for one while  *)
(* another is open gets its generation and token.  A verifier's claim is   *)
(* "latest" while no newer generation exists and "stale" then, which is    *)
(* all a generation is compared for.  The pair of providers of a cluster   *)
(* is set once (setProviderRole refuses another), and all digests of an    *)
(* answer are one value, its content.                                      *)
(***************************************************************************)
EXTENDS Naturals

CONSTANTS
  Verifiers,
  Providers,     \* the primary and the secondary
  Primary,
  Versions,      \* what a provider may have finalized for the signature
  Foreign,       \* a version: the answer is for another signature
  MaxFaults      \* bound: failed requests, lapses and deaths

ASSUME ConsensusAssumption ==
  /\ Primary \in Providers
  /\ Foreign \in Versions
  /\ MaxFaults \in Nat

VARIABLES
  has,       \* what each provider has finalized
  shows,     \* how far each provider is with the transaction
  check,     \* the latest row: its state, whether completed, its lease
  verifier,  \* what each verifier is at
  transfer,  \* chain_events.current_state
  faults     \* bound

consensus == <<has, shows, check, verifier, transfer, faults>>

NoCheck == [state |-> "none", done |-> TRUE, live |-> FALSE]
Settled == {"agreed", "disagreed"}
Asked == "asked"   \* a request without an answer yet
Away == [stage |-> "away"]

ConsensusInit ==
  /\ has \in [Providers -> Versions] /\ has[Primary] # Foreign
  /\ shows \in [Providers -> {"nothing", "confirmed", "finalized"}]
  /\ shows[Primary] = "finalized"
  /\ check = NoCheck
  /\ verifier = [v \in Verifiers |-> Away]
  /\ transfer = "finalized"
  /\ faults = 0

Follow(p) ==
  /\ shows[p] # "finalized"
  /\ shows' = [shows EXCEPT ![p] = IF @ = "nothing" THEN "confirmed" ELSE "finalized"]
  /\ UNCHANGED <<has, check, verifier, transfer, faults>>

-----------------------------------------------------------------------------
Selectable ==
  check.state = "none" \/ (check.state = "pending" /\ (check.done \/ ~check.live))

Select(v) ==
  /\ verifier[v] = Away /\ Selectable
  /\ verifier' = [verifier EXCEPT ![v] = [stage |-> "selected"]]
  /\ UNCHANGED <<has, shows, check, transfer, faults>>

Holding(claim) ==
  [stage |-> "asking", claim |-> claim,
   status |-> [p \in Providers |-> Asked], answer |-> [p \in Providers |-> Asked]]

(* A new generation leaves the claims on the one before it stale. *)
NewGeneration(v) ==
  /\ check' = [state |-> "pending", done |-> FALSE, live |-> TRUE]
  /\ verifier' = [w \in Verifiers |->
       CASE w = v -> Holding("latest")
         [] verifier[w].stage = "asking" /\ w # v -> [verifier[w] EXCEPT !.claim = "stale"]
         [] OTHER -> verifier[w]]

(* Mutant: a settled check is claimed like any other. *)
ClaimStep_Unsettled(v) ==
  IF check.live /\ ~check.done
  THEN verifier' = [verifier EXCEPT ![v] = Holding("latest")] /\ UNCHANGED check
  ELSE NewGeneration(v)
ClaimStep(v) ==
  CASE check.state \in Settled ->
         verifier' = [verifier EXCEPT ![v] = Away] /\ UNCHANGED check
    [] check.state \notin Settled /\ ~check.done /\ check.live ->
         verifier' = [verifier EXCEPT ![v] = Holding("latest")] /\ UNCHANGED check
    [] OTHER -> NewGeneration(v)

Claim(v) ==
  /\ verifier[v].stage = "selected"
  /\ ClaimStep(v)
  /\ UNCHANGED <<has, shows, transfer, faults>>

(* What getSignatureStatuses and getTransaction of a provider answer.       *)
StatusOf(p) == shows[p]
TransactionOf(p) == IF shows[p] = "finalized" THEN has[p] ELSE "nothing"

(* observeProvider asks for the status and for the finalized transaction at *)
(* the same time, so the two answers may lie on either side of a change.    *)
AnswerStatus(v, p) ==
  /\ verifier[v].stage = "asking" /\ verifier[v].status[p] = Asked
  /\ verifier' = [verifier EXCEPT ![v].status[p] = StatusOf(p)]
  /\ UNCHANGED <<has, shows, check, transfer, faults>>

AnswerTransaction(v, p) ==
  /\ verifier[v].stage = "asking" /\ verifier[v].answer[p] = Asked
  /\ verifier' = [verifier EXCEPT ![v].answer[p] = TransactionOf(p)]
  /\ UNCHANGED <<has, shows, check, transfer, faults>>

(* Any failure of a request counts as no answer. *)
RequestFails(v, p) ==
  /\ verifier[v].stage = "asking" /\ verifier[v].answer[p] = Asked
  /\ faults < MaxFaults /\ faults' = faults + 1
  /\ verifier' = [verifier EXCEPT ![v].answer[p] = "nothing"]
  /\ UNCHANGED <<has, shows, check, transfer>>

(* The verdict of two observations. *)
Available(v, p) == verifier[v].status[p] # "nothing" /\ verifier[v].answer[p] # "nothing"
Finalized(v, p) == verifier[v].status[p] = "finalized"
SameAnswers(v) == \A p, q \in Providers : verifier[v].answer[p] = verifier[v].answer[q]

(* Mutant: a provider without an answer is outvoted. *)
Verdict_Single(v) ==
  CASE \E p \in Providers : verifier[v].answer[p] = Foreign -> "disagreed"
    [] \E p \in Providers : ~Available(v, p) -> "agreed"
    [] OTHER -> IF SameAnswers(v) THEN "agreed" ELSE "disagreed"
Verdict(v) ==
  CASE \E p \in Providers : verifier[v].answer[p] = Foreign -> "disagreed"
    [] \A p \in Providers : verifier[v].answer[p] # Foreign /\ Available(v, p) ->
         IF (\A p \in Providers : Finalized(v, p)) /\ SameAnswers(v)
         THEN "agreed" ELSE "disagreed"
    [] OTHER -> "pending"

Applies(v) ==
  /\ verifier[v].claim = "latest"
  /\ check.state = "pending" /\ ~check.done /\ check.live

Answered(v) ==
  /\ verifier[v].stage = "asking"
  /\ \A p \in Providers : verifier[v].status[p] # Asked /\ verifier[v].answer[p] # Asked

(* One transaction: the lease is compared again by its last statement.      *)
CompleteCheck(v) ==
  /\ Answered(v)
  /\ IF Applies(v)
     THEN /\ check' = [check EXCEPT !.state = Verdict(v), !.done = TRUE]
          /\ transfer' = IF Verdict(v) = "disagreed" THEN "quarantined" ELSE transfer
     ELSE UNCHANGED <<check, transfer>>
  /\ verifier' = [verifier EXCEPT ![v] = Away]
  /\ UNCHANGED <<has, shows, faults>>

(* 60 seconds pass.  Under a verifier that still asks they count as a fault. *)
Asking == \E v \in Verifiers : verifier[v].stage = "asking" /\ verifier[v].claim = "latest"
Lapse ==
  /\ check.live /\ ~check.done
  /\ IF Asking THEN faults < MaxFaults /\ faults' = faults + 1 ELSE UNCHANGED faults
  /\ check' = [check EXCEPT !.live = FALSE]
  /\ UNCHANGED <<has, shows, verifier, transfer>>

(* A verifier that dies leaves its claim to lapse. *)
VerifierDies(v) ==
  /\ verifier[v] # Away
  /\ faults < MaxFaults /\ faults' = faults + 1
  /\ verifier' = [verifier EXCEPT ![v] = Away]
  /\ UNCHANGED <<has, shows, check, transfer>>

VerifierStep(v) ==
  \/ Select(v) \/ Claim(v) \/ CompleteCheck(v)
  \/ \E p \in Providers : AnswerStatus(v, p) \/ AnswerTransaction(v, p)

ConsensusNext ==
  \/ \E p \in Providers : Follow(p)
  \/ \E v \in Verifiers :
       \/ VerifierStep(v) \/ VerifierDies(v)
       \/ \E p \in Providers : RequestFails(v, p)
  \/ Lapse

(* A job that is due is run, a request is answered or times out, the        *)
(* secondary finalizes what the primary has, and a lease runs out.          *)
ConsensusFairness ==
  /\ \A v \in Verifiers : WF_consensus(VerifierStep(v))
  /\ \A p \in Providers : WF_consensus(Follow(p))
  /\ WF_consensus(~Asking /\ Lapse)

ConsensusSpec == ConsensusInit /\ [][ConsensusNext]_consensus
ConsensusFairSpec == ConsensusSpec /\ ConsensusFairness

-----------------------------------------------------------------------------
(* Safety: a check agrees only if both providers have finalized the same    *)
(* transaction.                                                             *)
AgreedIsShown ==
  check.state = "agreed" =>
    \A p, q \in Providers : shows[p] = "finalized" /\ has[p] = has[q]

(* Action property: a verdict is for good, and the transfer is quarantined  *)
(* with a disagreement and by nothing else: no late verifier, of this or of *)
(* an earlier generation, completes a check again.  It agrees only with     *)
(* AgreedIsShown.                                                           *)
VerdictIsForGood ==
  [][/\ check.state \in Settled => check' = check
     /\ (transfer' = "quarantined") = (check'.state = "disagreed")
     /\ AgreedIsShown']_consensus

=============================================================================
