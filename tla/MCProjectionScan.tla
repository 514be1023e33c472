------------------------- MODULE MCProjectionScan -------------------------
EXTENDS ProjectionScan

CONSTANT inv

(* One invoice, quoted in both assets. *)
OneInvoice == [a \in Attempts |-> inv]
TwoAssets == [a \in Attempts |-> IF a = 1 THEN "USDC" ELSE "USDT"]

(* Two transfers whose ids are not in the order of the quotes, and how they *)
(* compare with them.                                                       *)
Swapped == <<2, 1>>
BothExact == <<"exact", "exact">>
=============================================================================
