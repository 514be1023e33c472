----------------------------- MODULE Settlement -----------------------------
(***************************************************************************)
(* What the hosted payment tables promise, with quotes, statuses, workers, *)
(* and the chain's provisional states left out: a transfer is settled at   *)
(* most once, a payment reference takes at most one transfer, and an       *)
(* invoice is paid by exactly one exact transfer while it is open.         *)
(***************************************************************************)
CONSTANTS Invoices, Attempts, Events, InvoiceOf, AttemptOf, Match

VARIABLES
  owed,       \* "draft", "issued", "paid" or "cancelled" for each invoice
  paying,     \* the transfers that paid an invoice
  unmatched   \* the transfers that were set aside for review

vars == <<owed, paying, unmatched>>

InvoicePaidBy(e) == InvoiceOf[AttemptOf[e]]

Init ==
  /\ owed = [i \in Invoices |-> "draft"]
  /\ paying = {}
  /\ unmatched = {}

(* The reference of e has taken no transfer. *)
Free(e) == \A d \in paying \cup unmatched : AttemptOf[d] # AttemptOf[e]

Open(i) ==
  /\ owed[i] = "draft"
  /\ owed' = [owed EXCEPT ![i] = "issued"]
  /\ UNCHANGED <<paying, unmatched>>

Cancel(i) ==
  /\ owed[i] \in {"draft", "issued"}
  /\ owed' = [owed EXCEPT ![i] = "cancelled"]
  /\ UNCHANGED <<paying, unmatched>>

Pay(e) ==
  /\ Free(e)
  /\ Match[e] = "exact"
  /\ owed[InvoicePaidBy(e)] = "issued"
  /\ owed' = [owed EXCEPT ![InvoicePaidBy(e)] = "paid"]
  /\ paying' = paying \cup {e}
  /\ UNCHANGED unmatched

SetAside(e) ==
  /\ Free(e)
  /\ Match[e] # "exact" \/ owed[InvoicePaidBy(e)] = "paid"
  /\ unmatched' = unmatched \cup {e}
  /\ UNCHANGED <<owed, paying>>

Next ==
  \/ \E i \in Invoices : Open(i) \/ Cancel(i)
  \/ \E e \in Events : Pay(e) \/ SetAside(e)

Spec == Init /\ [][Next]_vars
=============================================================================
