------------------------ MODULE MCIdempotentRequest ------------------------
(* TLC instance of IdempotentRequest: three requests with one key, of which *)
(* one has another body, and one with another key.                          *)
EXTENDS IdempotentRequest

TwoKeys == [r \in Requests |-> IF r = 4 THEN 2 ELSE 1]
TwoBodies == [r \in Requests |-> IF r = 3 THEN 2 ELSE 1]
=============================================================================
