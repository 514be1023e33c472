-------------------------- MODULE MCReconciliation --------------------------
(***************************************************************************)
(* TLC instance of what reads the chain without the hosted platform:       *)
(* StandaloneReconciliation, PilotAudit, PublicAnalysis and PaymentCheck.  *)
(* They share no state (the audit uses a reconciliation only for what it   *)
(* leaves in the database), so each is checked by itself: "part" tells     *)
(* which one runs in a behaviour.                                          *)
(***************************************************************************)
EXTENDS StandaloneReconciliation, PilotAudit, PublicAnalysis, PaymentCheck, TLC

VARIABLE part

mcVars == <<reconciliation, pilot, analysis, payment, part>>

(* One transfer carries the reference of the first invoice, the other both. *)
MCRefsOf == <<{"p"}, {"p", "q"}>>
MCFits == <<{"a"}, {"a", "b"}>>
Line(i, r, t) == [id |-> i, ref |-> r, terms |-> t]
(* The second file repeats a line, the third meets both with other data. *)
MCFiles == {<<Line(1, "p", "a")>>, <<Line(1, "p", "a"), Line(2, "q", "b")>>,
            <<Line(2, "p", "b")>>}

(* Three transactions in the order of their times: plain ones, failed ones, *)
(* some without a time in the listing, one with another instruction on the  *)
(* second account and too many references.                                  *)
Both == {1, 2}
Tx(w, t) == [touches |-> w, time |-> t, undated |-> FALSE, ok |-> TRUE,
             odd |-> {}, crowded |-> FALSE]
MCKinds ==
  {Tx(Both, "within"), Tx(Both, "early"),
   [Tx({2}, "late") EXCEPT !.ok = FALSE],
   [Tx(Both, "within") EXCEPT !.undated = TRUE],
   [Tx({1}, "early") EXCEPT !.undated = TRUE],
   [Tx(Both, "within") EXCEPT !.odd = {2}, !.crowded = TRUE]}
TimeRank(t) == CASE t = "early" -> 0 [] t = "within" -> 1 [] OTHER -> 2
MCChains == {c \in [1..3 -> MCKinds] :
  \A i, j \in 1..3 : i < j => TimeRank(c[i].time) <= TimeRank(c[j].time)}
MCMaxSignatures == [d \in Doors |-> IF d = "api" THEN 6 ELSE 3]
MCMaxTransactions == [d \in Doors |-> IF d = "api" THEN 4 ELSE 2]

MCOpening == [a \in Accounts |->
  CASE a = "payer" -> 2 [] a = "shop" -> 1 [] OTHER -> Absent]

Quiet == CHOOSE c \in Chains : TRUE
MCInit ==
  /\ ReconciliationInit /\ PilotInit /\ CheckInit /\ AnalysisInit
  /\ part \in {"reconciliation", "pilot", "analysis", "check"}
  /\ part # "analysis" => txs = Quiet /\ count = 0

MCNext ==
  \/ part = "reconciliation" /\ ReconciliationNext /\ UNCHANGED <<pilot, analysis, payment, part>>
  \/ part = "pilot" /\ PilotNext /\ UNCHANGED <<reconciliation, analysis, payment, part>>
  \/ part = "analysis" /\ AnalysisNext /\ UNCHANGED <<reconciliation, pilot, payment, part>>
  \/ part = "check" /\ CheckNext /\ UNCHANGED <<reconciliation, pilot, analysis, part>>

MCSpec == MCInit /\ [][MCNext]_mcVars

Symmetry == Permutations(Runners) \cup Permutations(Commands)
=============================================================================
