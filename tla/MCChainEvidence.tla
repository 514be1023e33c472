------------------------- MODULE MCChainEvidence -------------------------
EXTENDS ChainEvidence

(* The second content parses as the first; the third is that of another     *)
(* execution, which failed.                                                 *)
TwoAlike == [c \in Contents |-> IF c = 3 THEN 2 ELSE 1]
ThirdFails ==
  [t \in Targets |-> [c \in Contents |-> IF c = 3 THEN "failed_transaction" ELSE "parsed"]]
=============================================================================
