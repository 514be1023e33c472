------------------------------ MODULE Evidence ------------------------------
(***************************************************************************)
(* What the recorded chain state of a transfer promises to those who read  *)
(* it (the projector above all): it appears as confirmed, moves freely     *)
(* while it is provisional, and is final for good, except that a final     *)
(* state may still be put in quarantine.  These are the steps Discover and *)
(* Observed of PaymentProjection.                                          *)
(***************************************************************************)
VARIABLE chain

Provisional == {"detected", "confirmed"}
Final == {"finalized", "failed", "reverted", "quarantined"}

Init == chain = "absent"

Discover == chain = "absent" /\ chain' = "confirmed"

Observed ==
  \/ chain \in Provisional /\ chain' \in Provisional \cup Final
  \/ chain \in Final /\ chain' = "quarantined"

Next == Discover \/ Observed

Spec == Init /\ [][Next]_chain
=============================================================================
