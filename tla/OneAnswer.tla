----------------------------- MODULE OneAnswer -----------------------------
(***************************************************************************)
(* What an idempotency key promises to its client: the operation behind it *)
(* has one outcome, found in one step together with what it does to the    *)
(* object, however often the request is sent.                              *)
(***************************************************************************)
EXTENDS Naturals

CONSTANT Keys

VARIABLES open,     \* whether the object admits the operation
          outcome,  \* per key, what came of it
          effects   \* per key, how often the operation took effect

Init ==
  /\ open \in BOOLEAN
  /\ effects = [k \in Keys |-> 0]
  /\ outcome = [k \in Keys |-> "none"]

Apply(k) ==
  /\ outcome[k] = "none"
  /\ open
  /\ open' = FALSE
  /\ outcome' = [outcome EXCEPT ![k] = "applied"]
  /\ effects' = [effects EXCEPT ![k] = @ + 1]

Refuse(k) ==
  /\ outcome[k] = "none"
  /\ outcome' = [outcome EXCEPT ![k] = "refused"]
  /\ UNCHANGED <<open, effects>>

Others ==
  /\ open' = ~open
  /\ UNCHANGED <<outcome, effects>>

Next == Others \/ \E k \in Keys : Apply(k) \/ Refuse(k)

Spec == Init /\ [][Next]_<<open, outcome, effects>>
=============================================================================
