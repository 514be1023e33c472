----------------------- MODULE PaymentProjectionProofs -----------------------
(***************************************************************************)
(* Proofs about PaymentProjection, for any invoices, attempts and          *)
(* transfers: its type invariant, who pays an invoice and what the ledger  *)
(* and the history hold of it, that verdicts stay, and that it implements  *)
(* Settlement; and about ProjectionScan, for any limit: the order it goes  *)
(* in, and that it does what PaymentProjection allows.                     *)
(***************************************************************************)
EXTENDS ProjectionScan, FiniteSetTheorems, WellFoundedInduction, TLAPS

(* Exceptions are shown on the attempts whose reference took the transfer:  *)
(* with PaidByOneTransfer, what ties the settled transfers to the attempts. *)
ExceptionIsShown ==
  \A a \in Attempts :
    status[a] = "exception" <=> \E e \in exceptions : AttemptOf[e] = a

IInv ==
  /\ TypeOK
  /\ WatchedUntilSettled
  /\ PaidByOneTransfer
  /\ ExceptionIsShown
  /\ ReceiptsMatchDecisions

-----------------------------------------------------------------------------
(* The ledger's entries. *)

LEMMA ReceiptInjective ==
  ASSUME NEW t, NEW u, NEW d, NEW e, Receipt(t, d) = Receipt(u, e)
  PROVE  t = u /\ d = e
  BY DEF Receipt

LEMMA ReceiptIsNoInvoiceEntry ==
  ASSUME NEW t \in {"payment_received", "unapplied_receipt"}, NEW e, NEW i, NEW v
  PROVE  Receipt(t, e) # IssueEntry(i, v) /\ Receipt(t, e) # CancelEntry(i, v)
  BY DEF Receipt, IssueEntry, CancelEntry

LEMMA EntryTypes ==
  /\ \A i \in Invoices, v \in Nat : IssueEntry(i, v) \in Entry /\ CancelEntry(i, v) \in Entry
  /\ \A t \in {"payment_received", "unapplied_receipt"}, e \in Events : Receipt(t, e) \in Entry
  BY DEF IssueEntry, CancelEntry, Receipt, Entry

LEMMA PostingType ==
  ASSUME TypeOK, NEW e \in Events, NEW t \in {"payment_received", "unapplied_receipt"}
  PROVE  Posting(e, t) \subseteq Entry
<1>1. InvoicePaidBy(e) \in Invoices BY ConstantsAssumption DEF InvoicePaidBy
<1>2. revision[InvoicePaidBy(e)] \in Nat BY <1>1 DEF TypeOK
<1> QED BY <1>1, <1>2, EntryTypes DEF Posting, ReceiptEntries

LEMMA PostedReceipts ==
  ASSUME NEW e \in Events, NEW d \in Events,
         NEW t \in {"payment_received", "unapplied_receipt"},
         NEW u \in {"payment_received", "unapplied_receipt"}
  PROVE  Receipt(u, d) \in Posting(e, t) <=> d = e /\ u = t /\ Match[e] # "foreign"
<1>1. Receipt(u, d) # IssueEntry(InvoicePaidBy(e), revision[InvoicePaidBy(e)])
  BY ReceiptIsNoInvoiceEntry
<1>2. Receipt(u, d) = Receipt(t, e) <=> d = e /\ u = t
  BY ReceiptInjective
<1> QED BY <1>1, <1>2 DEF Posting, ReceiptEntries

-----------------------------------------------------------------------------
(* Type correctness. *)

LEMMA ChangeType ==
  ASSUME NEW a \in Attempts, NEW v \in Nat, NEW e \in Events \cup {0},
         NEW to \in (Status \cup {"finalized"}) \ {"none"}
  PROVE  Change(a, v, to, e) \in ChangeRow
  BY DEF Change, ChangeRow

LEMMA SetStatusType ==
  ASSUME TypeOK, NEW a \in Attempts, NEW to \in Status \ {"none"},
         NEW e \in Events \cup {0}, SetStatus(a, to, e)
  PROVE  /\ status' \in [Attempts -> Status]
         /\ version' \in [Attempts -> Nat]
         /\ history' \subseteq ChangeRow
<1>1. version[a] + 1 \in Nat BY DEF TypeOK
<1>2. Change(a, version[a] + 1, to, e) \in ChangeRow BY <1>1, ChangeType
<1> QED BY <1>1, <1>2 DEF SetStatus, TypeOK

LEMMA SettleStatusType ==
  ASSUME TypeOK, NEW a \in Attempts, NEW to \in Settled,
         NEW e \in Events, SettleStatus(a, to, e)
  PROVE  /\ status' \in [Attempts -> Status]
         /\ version' \in [Attempts -> Nat]
         /\ history' \subseteq ChangeRow
<1>0. to \in Status \ {"none"} BY DEF Settled, Status
<1>1. CASE ~CanAdvance(status[a], "finalized")
  BY <1>0, <1>1, SetStatusType DEF SettleStatus
<1>2. CASE CanAdvance(status[a], "finalized")
  <2>1. version[a] + 1 \in Nat /\ version[a] + 2 \in Nat BY DEF TypeOK
  <2>2. /\ Change(a, version[a] + 1, "finalized", e) \in ChangeRow
        /\ Change(a, version[a] + 2, to, e) \in ChangeRow
    BY <1>0, <2>1, ChangeType
  <2> QED BY <1>0, <1>2, <2>1, <2>2 DEF SettleStatus, TypeOK
<1> QED BY <1>1, <1>2

LEMMA SetInvoiceType ==
  ASSUME TypeOK, NEW i \in Invoices, NEW s \in InvoiceStatus,
         NEW entries \in SUBSET Entry, SetInvoice(i, s, entries)
  PROVE  /\ invoice' \in [Invoices -> InvoiceStatus]
         /\ revision' \in [Invoices -> Nat]
         /\ journal' \subseteq Entry
  BY DEF SetInvoice, TypeOK

LEMMA SettledAttempt ==
  ASSUME NEW e \in Events
  PROVE  AttemptOf[e] \in Attempts /\ InvoicePaidBy(e) \in Invoices
  BY ConstantsAssumption DEF InvoicePaidBy

(* Every step keeps the types. *)
THEOREM TypeStep == TypeOK /\ [Next]_vars => TypeOK'
<1> SUFFICES ASSUME TypeOK, [Next]_vars PROVE TypeOK' OBVIOUS
<1>1. ASSUME NEW i \in Invoices, Issue(i) PROVE TypeOK'
  <2>1. {IssueEntry(i, revision[i] + 1)} \in SUBSET Entry
    BY EntryTypes DEF TypeOK
  <2>2. SetInvoice(i, "issued", {IssueEntry(i, revision[i] + 1)}) BY <1>1 DEF Issue
  <2>3. "issued" \in InvoiceStatus BY DEF InvoiceStatus
  <2>4. /\ invoice' \in [Invoices -> InvoiceStatus]
        /\ revision' \in [Invoices -> Nat]
        /\ journal' \subseteq Entry
    BY <2>1, <2>2, <2>3, SetInvoiceType
  <2> QED BY <1>1, <2>4 DEF Issue, TypeOK, projection, evidence, shadow
<1>2. ASSUME NEW i \in Invoices, Cancel(i) PROVE TypeOK'
  <2> DEFINE entries ==
        IF invoice[i] = "issued" THEN {CancelEntry(i, revision[i] + 1)} ELSE {}
  <2>1. entries \in SUBSET Entry BY EntryTypes DEF TypeOK
  <2>2. SetInvoice(i, "cancelled", entries) BY <1>2 DEF Cancel
  <2>3. "cancelled" \in InvoiceStatus BY DEF InvoiceStatus
  <2>4. /\ invoice' \in [Invoices -> InvoiceStatus]
        /\ revision' \in [Invoices -> Nat]
        /\ journal' \subseteq Entry
    BY <2>1, <2>2, <2>3, SetInvoiceType
  <2> QED BY <1>2, <2>4 DEF Cancel, TypeOK, projection, evidence, shadow
<1>3. ASSUME NEW a \in Attempts, Create(a) PROVE TypeOK'
  <2>1. "awaiting_payment" \in Status \ {"none"} BY DEF Status, Pending
  <2>2. /\ status' \in [Attempts -> Status]
        /\ version' \in [Attempts -> Nat]
        /\ history' \subseteq ChangeRow
    BY <1>3, <2>1, SetStatusType DEF Create
  <2> QED BY <1>3, <2>2 DEF Create, TypeOK, evidence, shadow
<1>4. ASSUME NEW a \in Attempts, Expire(a) PROVE TypeOK'
  <2>1. "expired" \in Status \ {"none"} BY DEF Status
  <2>2. /\ status' \in [Attempts -> Status]
        /\ version' \in [Attempts -> Nat]
        /\ history' \subseteq ChangeRow
    BY <1>4, <2>1, SetStatusType DEF Expire
  <2> QED BY <1>4, <2>2 DEF Expire, TypeOK, settlement, evidence, shadow
<1>5. ASSUME Promote PROVE TypeOK'
  BY <1>5 DEF Promote, TypeOK, settlement, projection, evidence, shadow
<1>6. ASSUME NEW e \in Events, Discover(e) PROVE TypeOK'
  BY <1>6 DEF Discover, TypeOK, ChainState, Provisional, settlement, projection, shadow
<1>7. ASSUME NEW e \in Events, NEW s \in Provisional \cup Outcomes, Observed(e, s) PROVE TypeOK'
  <2>1. s \in ChainState BY ConstantsAssumption DEF ChainState
  <2> QED BY <1>7, <2>1 DEF Observed, TypeOK, settlement, projection, shadow
<1>8. ASSUME NEW e \in Events, Agree(e) PROVE TypeOK'
  BY <1>8 DEF Agree, TypeOK, settlement, projection, shadow
<1>9. ASSUME NEW e \in Events, Revoke(e) PROVE TypeOK'
  <2>1. "confirmation_revoked" \in Status \ {"none"} BY DEF Status, Pending
  <2>2. /\ status' \in [Attempts -> Status]
        /\ version' \in [Attempts -> Nat]
        /\ history' \subseteq ChangeRow
    BY <1>9, <2>1, SetStatusType, SettledAttempt DEF Revoke
  <2> QED BY <1>9, <2>2 DEF Revoke, TypeOK, settlement, evidence, shadow
<1>10. ASSUME NEW e \in Events, Observe(e) PROVE TypeOK'
  <2>1. chain[e] \in Status \ {"none"}
    BY <1>10 DEF Observe, CanObserve, Provisional, Status, Pending
  <2>2. /\ status' \in [Attempts -> Status]
        /\ version' \in [Attempts -> Nat]
        /\ history' \subseteq ChangeRow
    BY <1>10, <2>1, SetStatusType, SettledAttempt DEF Observe
  <2> QED BY <1>10, <2>2 DEF Observe, TypeOK, settlement, evidence, shadow
<1>11. ASSUME NEW e \in Events, Pay(e) PROVE TypeOK'
  <2>1. /\ invoice' \in [Invoices -> InvoiceStatus]
        /\ revision' \in [Invoices -> Nat]
        /\ journal' \subseteq Entry
    <3>1. Posting(e, "payment_received") \in SUBSET Entry BY PostingType
    <3>2. "paid" \in InvoiceStatus BY DEF InvoiceStatus
    <3>3. SetInvoice(InvoicePaidBy(e), "paid", Posting(e, "payment_received"))
      BY <1>11 DEF Pay
    <3> QED BY <3>1, <3>2, <3>3, SetInvoiceType, SettledAttempt
  <2>2. /\ status' \in [Attempts -> Status]
        /\ version' \in [Attempts -> Nat]
        /\ history' \subseteq ChangeRow
    <3>1. "paid" \in Settled BY DEF Settled
    <3>2. SettleStatus(AttemptOf[e], "paid", e) BY <1>11 DEF Pay
    <3> QED BY <3>1, <3>2, SettleStatusType, SettledAttempt
  <2> QED BY <1>11, <2>1, <2>2 DEF Pay, Deactivated, TypeOK, evidence, shadow
<1>12. ASSUME NEW e \in Events, SetAside(e) PROVE TypeOK'
  <2>1. journal' \subseteq Entry
    BY <1>12, PostingType DEF SetAside, TypeOK
  <2>2. /\ status' \in [Attempts -> Status]
        /\ version' \in [Attempts -> Nat]
        /\ history' \subseteq ChangeRow
    <3>1. "exception" \in Settled BY DEF Settled
    <3>2. SettleStatus(AttemptOf[e], "exception", e) BY <1>12 DEF SetAside
    <3> QED BY <3>1, <3>2, SettleStatusType, SettledAttempt
  <2> QED BY <1>12, <2>1, <2>2 DEF SetAside, Deactivated, TypeOK, evidence, shadow
<1>13. ASSUME NEW e \in Events, Draft(e) PROVE TypeOK'
  <2>1. Decision(e) \in Proposal
    BY SettledAttempt DEF Decision, Proposal, TypeOK
  <2> QED BY <1>13, <2>1 DEF Draft, TypeOK, settlement, projection, evidence
<1>14. ASSUME NEW p \in drafts, Store(p) PROVE TypeOK'
  BY <1>14 DEF Store, TypeOK, settlement, projection, evidence
<1>15. ASSUME NEW p \in drafts, LoseDraft(p) PROVE TypeOK'
  BY <1>15 DEF LoseDraft, TypeOK, settlement, projection, evidence
<1>16. CASE UNCHANGED vars
  BY <1>16 DEF vars, TypeOK, settlement, projection, evidence, shadow
<1> QED
  BY <1>1, <1>2, <1>3, <1>4, <1>5, <1>6, <1>7, <1>8, <1>9, <1>10, <1>11, <1>12,
     <1>13, <1>14, <1>15, <1>16
  DEF Next, Merchant, Chain, ProjectOne

LEMMA InitType == Init => TypeOK
  BY DEF Init, TypeOK, InvoiceStatus, Status, ChainState

(* Every variable has its type, in every reachable state. *)
THEOREM TypeCorrect == Spec => []TypeOK
  BY InitType, TypeStep, PTL DEF Spec

-----------------------------------------------------------------------------
(* Who pays an invoice, and what the books say. *)

(* A step that settles nothing: the settled transfers, the receipts, the    *)
(* paid invoices and the settled attempts are what they were.               *)
SettlesNothing ==
  /\ allocations' = allocations /\ exceptions' = exceptions
  /\ \A i \in Invoices : invoice'[i] = "paid" <=> invoice[i] = "paid"
  /\ \A a \in Attempts :
       /\ status'[a] = "paid" <=> status[a] = "paid"
       /\ status'[a] = "exception" <=> status[a] = "exception"
  /\ \A e \in Events, t \in {"payment_received", "unapplied_receipt"} :
       Receipt(t, e) \in journal' <=> Receipt(t, e) \in journal

LEMMA SettlesNothingKeeps ==
  ASSUME IInv, SettlesNothing
  PROVE  PaidByOneTransfer' /\ ExceptionIsShown' /\ ReceiptsMatchDecisions'
<1>1. PaidByOneTransfer'
  BY DEF IInv, SettlesNothing, PaidByOneTransfer, InvoicePaidBy
<1>2. ExceptionIsShown'
  BY DEF IInv, SettlesNothing, ExceptionIsShown
<1>3. ReceiptsMatchDecisions'
  BY DEF IInv, SettlesNothing, ReceiptsMatchDecisions
<1> QED BY <1>1, <1>2, <1>3

(* A transfer that may settle is new, and its reference is unused. *)
LEMMA SettlingIsNew ==
  ASSUME IInv, NEW e \in Events, MaySettle(e)
  PROVE  \A d \in allocations \cup exceptions : AttemptOf[d] # AttemptOf[e]
  BY SettledAttempt DEF IInv, TypeOK, PaidByOneTransfer, ExceptionIsShown, MaySettle, Settled

LEMMA SettledStatus ==
  ASSUME TypeOK, NEW a \in Attempts, NEW to, NEW e, SettleStatus(a, to, e)
  PROVE  status' = [status EXCEPT ![a] = to]
  BY DEF SettleStatus, SetStatus

(* The steps that settle nothing. *)
LEMMA QuietStep ==
  ASSUME IInv, [Next]_vars, ~\E e \in Events : Pay(e) \/ SetAside(e)
  PROVE  SettlesNothing /\ WatchedUntilSettled'
<1> USE DEF IInv, TypeOK
<1>1. ASSUME NEW i \in Invoices, NEW entries, NEW s \in InvoiceStatus \ {"paid"},
             SetInvoice(i, s, entries), invoice[i] # "paid",
             \A t \in {"payment_received", "unapplied_receipt"}, e \in Events :
               Receipt(t, e) \notin entries,
             UNCHANGED <<expected, allocations, exceptions, status>>
      PROVE  SettlesNothing /\ WatchedUntilSettled'
  BY <1>1 DEF SetInvoice, SettlesNothing, WatchedUntilSettled
<1>2. ASSUME NEW i \in Invoices, Issue(i) PROVE SettlesNothing /\ WatchedUntilSettled'
  <2>1. "issued" \in InvoiceStatus \ {"paid"} BY DEF InvoiceStatus
  <2> QED BY <1>1, <1>2, <2>1, ReceiptIsNoInvoiceEntry DEF Issue, projection
<1>3. ASSUME NEW i \in Invoices, Cancel(i) PROVE SettlesNothing /\ WatchedUntilSettled'
  <2>1. "cancelled" \in InvoiceStatus \ {"paid"} BY DEF InvoiceStatus
  <2>2. \A t \in {"payment_received", "unapplied_receipt"}, e \in Events :
          Receipt(t, e) \notin
            IF invoice[i] = "issued" THEN {CancelEntry(i, revision[i] + 1)} ELSE {}
    BY ReceiptIsNoInvoiceEntry
  <2> QED BY <1>1, <1>3, <2>1, <2>2 DEF Cancel, projection
<1>4. ASSUME NEW a \in Attempts, NEW to \in Status \ ({"none"} \cup Settled), NEW e,
             SetStatus(a, to, e), status[a] \notin Settled,
             expected' = expected \cup {a},
             UNCHANGED <<invoice, allocations, exceptions, journal>>
      PROVE  SettlesNothing /\ WatchedUntilSettled'
  BY <1>4 DEF SetStatus, SettlesNothing, WatchedUntilSettled, Settled
<1>5. ASSUME NEW a \in Attempts, Create(a) PROVE SettlesNothing /\ WatchedUntilSettled'
  <2>1. "awaiting_payment" \in Status \ ({"none"} \cup Settled)
    BY DEF Status, Pending, Settled
  <2> QED BY <1>4, <1>5, <2>1 DEF Create, Settled
<1>6. ASSUME NEW a \in Attempts, Expire(a) PROVE SettlesNothing /\ WatchedUntilSettled'
  <2>1. "expired" \in Status \ ({"none"} \cup Settled) BY DEF Status, Settled
  <2>2. a \in expected BY <1>6 DEF Expire, Expirable, WatchedUntilSettled, Settled
  <2> QED BY <1>4, <1>6, <2>1, <2>2 DEF Expire, Expirable, Settled, settlement
<1>7. ASSUME NEW e \in Events, Revoke(e) PROVE SettlesNothing /\ WatchedUntilSettled'
  <2>1. "confirmation_revoked" \in Status \ ({"none"} \cup Settled)
    BY DEF Status, Pending, Settled
  <2>2. AttemptOf[e] \in expected /\ status[AttemptOf[e]] \notin Settled
    BY <1>7 DEF Revoke, CanRevoke, InExpectation, Provisional, Settled
  <2> QED BY <1>4, <1>7, <2>1, <2>2, SettledAttempt DEF Revoke, settlement
<1>8. ASSUME NEW e \in Events, Observe(e) PROVE SettlesNothing /\ WatchedUntilSettled'
  <2>1. chain[e] \in Status \ ({"none"} \cup Settled)
    BY <1>8 DEF Observe, CanObserve, Provisional, Status, Pending, Settled
  <2>2. AttemptOf[e] \in expected /\ status[AttemptOf[e]] \notin Settled
    BY <1>8 DEF Observe, CanObserve, InExpectation, WatchedUntilSettled
  <2> QED BY <1>4, <1>8, <2>1, <2>2, SettledAttempt DEF Observe, settlement
<1>9. ASSUME UNCHANGED <<settlement, status>> PROVE SettlesNothing /\ WatchedUntilSettled'
  BY <1>9 DEF settlement, SettlesNothing, WatchedUntilSettled
<1>10. ASSUME Promote \/ UNCHANGED vars \/ (\E p \in drafts : Store(p) \/ LoseDraft(p))
       PROVE  SettlesNothing /\ WatchedUntilSettled'
  BY <1>9, <1>10 DEF Promote, vars, Store, LoseDraft, projection
<1>11. ASSUME NEW e \in Events,
              Discover(e) \/ Agree(e) \/ Draft(e)
                \/ (\E s \in Provisional \cup Outcomes : Observed(e, s))
       PROVE  SettlesNothing /\ WatchedUntilSettled'
  BY <1>9, <1>11 DEF Discover, Agree, Draft, Observed, projection
<1> QED
  BY <1>2, <1>3, <1>5, <1>6, <1>7, <1>8, <1>10, <1>11
  DEF Next, Merchant, Chain, ProjectOne

LEMMA PayKeeps ==
  ASSUME IInv, NEW e \in Events, Pay(e)
  PROVE  WatchedUntilSettled' /\ PaidByOneTransfer' /\ ExceptionIsShown'
           /\ ReceiptsMatchDecisions'
<1> DEFINE a == AttemptOf[e]
           i == InvoicePaidBy(e)
<1>0. a \in Attempts /\ i \in Invoices BY SettledAttempt
<1>1. \A d \in allocations \cup exceptions : AttemptOf[d] # a
  BY SettlingIsNew DEF Pay
<1>2. /\ status' = [status EXCEPT ![a] = "paid"]
      /\ invoice' = [invoice EXCEPT ![i] = "paid"]
      /\ allocations' = allocations \cup {e}
      /\ exceptions' = exceptions
      /\ expected' = expected \ {a}
      /\ journal' = journal \cup Posting(e, "payment_received")
  BY <1>0, SettledStatus DEF Pay, SetInvoice, Deactivated, IInv
<1>3. invoice[i] = "issued" /\ Match[e] = "exact" /\ status[a] \notin Settled
  BY DEF Pay, IsAllocation, InvoiceOpen, MaySettle
<1>4. WatchedUntilSettled'
  BY <1>0, <1>2 DEF WatchedUntilSettled, Settled, IInv, TypeOK
<1>5. PaidByOneTransfer'
  <2>1. \A d \in allocations : InvoicePaidBy(d) # i
    BY <1>0, <1>3 DEF IInv, PaidByOneTransfer
  <2>2. \A j \in Invoices :
          invoice'[j] = "paid" <=> \E d \in allocations' : InvoicePaidBy(d) = j
    BY <1>0, <1>2 DEF IInv, TypeOK, PaidByOneTransfer
  <2>3. \A c, d \in allocations' : InvoicePaidBy(c) = InvoicePaidBy(d) => c = d
    BY <1>2, <2>1 DEF IInv, PaidByOneTransfer
  <2>4. \A b \in Attempts :
          status'[b] = "paid" <=> \E d \in allocations' : AttemptOf[d] = b
    BY <1>0, <1>2 DEF IInv, TypeOK, PaidByOneTransfer
  <2> QED BY <2>2, <2>3, <2>4 DEF PaidByOneTransfer, InvoicePaidBy
<1>6. ExceptionIsShown'
  BY <1>0, <1>1, <1>2, <1>3 DEF IInv, TypeOK, ExceptionIsShown, Settled
<1>7. ReceiptsMatchDecisions'
  <2>1. \A d \in Events :
          /\ Receipt("payment_received", d) \in Posting(e, "payment_received") <=> d = e
          /\ Receipt("unapplied_receipt", d) \notin Posting(e, "payment_received")
    BY <1>3, PostedReceipts
  <2>2. e \notin allocations \cup exceptions BY <1>1
  <2> QED BY <1>1, <1>2, <2>1, <2>2 DEF IInv, TypeOK, ReceiptsMatchDecisions
<1> QED BY <1>4, <1>5, <1>6, <1>7

LEMMA SetAsideKeeps ==
  ASSUME IInv, NEW e \in Events, SetAside(e)
  PROVE  WatchedUntilSettled' /\ PaidByOneTransfer' /\ ExceptionIsShown'
           /\ ReceiptsMatchDecisions'
<1> DEFINE a == AttemptOf[e]
<1>0. a \in Attempts BY SettledAttempt
<1>1. \A d \in allocations \cup exceptions : AttemptOf[d] # a
  BY SettlingIsNew DEF SetAside
<1>2. /\ status' = [status EXCEPT ![a] = "exception"]
      /\ invoice' = invoice
      /\ allocations' = allocations
      /\ exceptions' = exceptions \cup {e}
      /\ expected' = expected \ {a}
      /\ journal' = journal \cup Posting(e, "unapplied_receipt")
  BY <1>0, SettledStatus DEF SetAside, Deactivated, IInv
<1>3. status[a] \notin Settled BY DEF SetAside, MaySettle
<1>4. WatchedUntilSettled'
  BY <1>0, <1>2 DEF WatchedUntilSettled, Settled, IInv, TypeOK
<1>5. PaidByOneTransfer'
  BY <1>0, <1>1, <1>2, <1>3 DEF IInv, TypeOK, PaidByOneTransfer, InvoicePaidBy, Settled
<1>6. ExceptionIsShown'
  BY <1>0, <1>2 DEF IInv, TypeOK, ExceptionIsShown
<1>7. ReceiptsMatchDecisions'
  <2>1. \A d \in Events :
          /\ Receipt("unapplied_receipt", d) \in Posting(e, "unapplied_receipt")
               <=> d = e /\ Match[e] # "foreign"
          /\ Receipt("payment_received", d) \notin Posting(e, "unapplied_receipt")
    BY PostedReceipts
  <2>2. e \notin allocations \cup exceptions BY <1>1
  <2> QED BY <1>1, <1>2, <2>1, <2>2 DEF IInv, TypeOK, ReceiptsMatchDecisions
<1> QED BY <1>4, <1>5, <1>6, <1>7

LEMMA InitInvariant == Init => IInv
<1> SUFFICES ASSUME Init PROVE IInv OBVIOUS
<1>1. WatchedUntilSettled BY DEF Init, WatchedUntilSettled
<1>2. PaidByOneTransfer BY DEF Init, PaidByOneTransfer
<1>3. ExceptionIsShown BY DEF Init, ExceptionIsShown
<1>4. ReceiptsMatchDecisions BY DEF Init, ReceiptsMatchDecisions
<1> QED BY InitType, <1>1, <1>2, <1>3, <1>4 DEF IInv

THEOREM InvariantStep == IInv /\ [Next]_vars => IInv'
<1> SUFFICES ASSUME IInv, [Next]_vars PROVE IInv' OBVIOUS
<1>1. TypeOK' BY TypeStep DEF IInv
<1>2. CASE \E e \in Events : Pay(e) \/ SetAside(e)
  BY <1>1, <1>2, PayKeeps, SetAsideKeeps DEF IInv
<1>3. CASE ~\E e \in Events : Pay(e) \/ SetAside(e)
  BY <1>1, <1>3, QuietStep, SettlesNothingKeeps DEF IInv
<1> QED BY <1>2, <1>3

LEMMA Invariance == Spec => []IInv
  BY InitInvariant, InvariantStep, PTL DEF Spec

(* An invoice is paid exactly when one transfer was allocated to it, and    *)
(* never by two.                                                            *)
THEOREM InvoicesPaidOnce == Spec => []PaidByOneTransfer
<1>1. IInv => PaidByOneTransfer BY DEF IInv
<1> QED BY <1>1, Invariance, PTL

(* The ledger holds the receipt of exactly the transfers that were decided, *)
(* and no transfer or reference is decided twice.                           *)
THEOREM BooksMatchDecisions == Spec => []ReceiptsMatchDecisions
<1>1. IInv => ReceiptsMatchDecisions BY DEF IInv
<1> QED BY <1>1, Invariance, PTL

(* A reference is watched from the creation of its attempt to its verdict.  *)
THEOREM ReferencesWatched == Spec => []WatchedUntilSettled
<1>1. IInv => WatchedUntilSettled BY DEF IInv
<1> QED BY <1>1, Invariance, PTL

-----------------------------------------------------------------------------
(* The tables implement Settlement. *)

(* The steps that settle nothing leave the abstract state alone, but for    *)
(* the issue and the cancellation of an invoice.                            *)
LEMMA QuietStepImplements ==
  ASSUME IInv, [Next]_vars, ~\E e \in Events : Pay(e) \/ SetAside(e)
  PROVE  [Abstract!Next]_(Abstract!vars)
<1>1. ASSUME NEW i \in Invoices, Issue(i) PROVE Abstract!Open(i)
  BY <1>1 DEF Issue, SetInvoice, Abstract!Open
<1>2. ASSUME NEW i \in Invoices, Cancel(i) PROVE Abstract!Cancel(i)
  BY <1>2 DEF Cancel, SetInvoice, Abstract!Cancel
<1>3. ASSUME ~\E i \in Invoices : Issue(i) \/ Cancel(i)
      PROVE  UNCHANGED <<invoice, allocations, exceptions>>
  BY <1>3 DEF Next, Merchant, Chain, ProjectOne, Create, Expire, Promote, Discover, Observed,
     Agree, Revoke, Observe, Draft, Store, LoseDraft, settlement, vars
<1> QED BY <1>1, <1>2, <1>3 DEF Abstract!Next, Abstract!vars

LEMMA PayImplements ==
  ASSUME IInv, NEW e \in Events, Pay(e)
  PROVE  Abstract!Pay(e)
<1>1. Abstract!InvoicePaidBy(e) = InvoicePaidBy(e)
  BY DEF InvoicePaidBy, Abstract!InvoicePaidBy
<1>2. Abstract!Free(e) BY SettlingIsNew DEF Pay, Abstract!Free
<1>3. /\ Match[e] = "exact"
      /\ invoice[InvoicePaidBy(e)] = "issued"
      /\ invoice' = [invoice EXCEPT ![InvoicePaidBy(e)] = "paid"]
      /\ allocations' = allocations \cup {e}
      /\ exceptions' = exceptions
  BY DEF Pay, IsAllocation, InvoiceOpen, SetInvoice
<1> QED BY <1>1, <1>2, <1>3 DEF Abstract!Pay

LEMMA SetAsideImplements ==
  ASSUME IInv, NEW e \in Events, SetAside(e)
  PROVE  Abstract!SetAside(e)
<1>1. Abstract!InvoicePaidBy(e) = InvoicePaidBy(e)
  BY DEF InvoicePaidBy, Abstract!InvoicePaidBy
<1>2. Abstract!Free(e) BY SettlingIsNew DEF SetAside, Abstract!Free
<1> QED BY <1>1, <1>2 DEF SetAside, IsAllocation, Abstract!SetAside

(* Every behaviour of the projector is one of Settlement. *)
THEOREM Refinement == Spec => ImplementsSettlement
<1>1. Init => Abstract!Init BY DEF Init, Abstract!Init
<1>2. IInv /\ [Next]_vars => [Abstract!Next]_(Abstract!vars)
  <2> SUFFICES ASSUME IInv, [Next]_vars PROVE [Abstract!Next]_(Abstract!vars) OBVIOUS
  <2>1. CASE \E e \in Events : Pay(e) \/ SetAside(e)
    BY <2>1, PayImplements, SetAsideImplements DEF Abstract!Next
  <2>2. CASE ~\E e \in Events : Pay(e) \/ SetAside(e)
    BY <2>2, QuietStepImplements
  <2> QED BY <2>1, <2>2
<1> QED BY <1>1, <1>2, Invariance, PTL DEF Spec, ImplementsSettlement, Abstract!Spec

-----------------------------------------------------------------------------
(* Verdicts. *)

Verdicts ==
  /\ \A a \in Attempts : status[a] \in Settled => status'[a] = status[a]
  /\ \A i \in Invoices : invoice[i] \in {"paid", "cancelled"} => invoice'[i] = invoice[i]
  /\ journal \subseteq journal'

(* The attempt whose status a step changes has no verdict yet, and neither  *)
(* has the invoice.                                                         *)
LEMMA VerdictStep == IInv /\ [Next]_vars => Verdicts
<1> SUFFICES ASSUME IInv, [Next]_vars PROVE Verdicts OBVIOUS
<1> USE DEF IInv, TypeOK
<1>1. ASSUME NEW i \in Invoices, NEW s, NEW entries, SetInvoice(i, s, entries),
             invoice[i] \notin {"paid", "cancelled"}, UNCHANGED status
      PROVE  Verdicts
  BY <1>1 DEF SetInvoice, Verdicts
<1>2. ASSUME NEW i \in Invoices, Issue(i) \/ Cancel(i) PROVE Verdicts
  BY <1>1, <1>2 DEF Issue, Cancel, projection
<1>3. ASSUME NEW a \in Attempts, NEW to, status' = [status EXCEPT ![a] = to],
             status[a] \notin Settled, UNCHANGED <<invoice, journal>>
      PROVE  Verdicts
  BY <1>3 DEF Verdicts
<1>4. ASSUME NEW a \in Attempts, Create(a) \/ Expire(a) PROVE Verdicts
  BY <1>3, <1>4 DEF Create, Expire, Expirable, SetStatus, Settled, settlement
<1>5. ASSUME NEW e \in Events, Revoke(e) PROVE Verdicts
  BY <1>3, <1>5, SettledAttempt
  DEF Revoke, CanRevoke, SetStatus, Provisional, Settled, settlement
<1>6. ASSUME NEW e \in Events, Observe(e) PROVE Verdicts
  BY <1>3, <1>6, SettledAttempt
  DEF Observe, CanObserve, InExpectation, WatchedUntilSettled, SetStatus, settlement
<1>7. ASSUME NEW e \in Events, Pay(e) PROVE Verdicts
  <2>1. status' = [status EXCEPT ![AttemptOf[e]] = "paid"]
    BY <1>7, SettledAttempt, SettledStatus DEF Pay
  <2>2. status[AttemptOf[e]] \notin Settled /\ invoice[InvoicePaidBy(e)] = "issued"
    BY <1>7 DEF Pay, MaySettle, InvoiceOpen
  <2>3. invoice' = [invoice EXCEPT ![InvoicePaidBy(e)] = "paid"] /\ journal \subseteq journal'
    BY <1>7 DEF Pay, SetInvoice
  <2> QED BY <2>1, <2>2, <2>3, SettledAttempt DEF Verdicts
<1>8. ASSUME NEW e \in Events, SetAside(e) PROVE Verdicts
  <2>1. status' = [status EXCEPT ![AttemptOf[e]] = "exception"]
    BY <1>8, SettledAttempt, SettledStatus DEF SetAside
  <2>2. status[AttemptOf[e]] \notin Settled BY <1>8 DEF SetAside, MaySettle
  <2>3. invoice' = invoice /\ journal \subseteq journal' BY <1>8 DEF SetAside
  <2> QED BY <2>1, <2>2, <2>3, SettledAttempt DEF Verdicts
<1>9. ASSUME UNCHANGED <<status, invoice, journal>> PROVE Verdicts
  BY <1>9 DEF Verdicts
<1> QED
  BY <1>2, <1>4, <1>5, <1>6, <1>7, <1>8, <1>9
  DEF Next, Merchant, Chain, ProjectOne, Promote, Discover, Observed, Agree, Draft, Store,
      LoseDraft, vars, settlement, projection

(* A verdict is never taken back, and nothing leaves the ledger. *)
THEOREM VerdictsNeverChange == Spec => VerdictsStay
<1>1. IInv /\ [Next]_vars => [Verdicts]_vars BY VerdictStep
<1> QED BY <1>1, Invariance, PTL DEF Spec, VerdictsStay, Verdicts

LEMMA FinalStep == TypeOK /\ SettledIsFinal /\ [Next]_vars => SettledIsFinal'
<1> SUFFICES ASSUME TypeOK, SettledIsFinal, [Next]_vars PROVE SettledIsFinal' OBVIOUS
<1>1. ASSUME NEW e \in Events, Pay(e) PROVE SettledIsFinal'
  BY <1>1 DEF Pay, MaySettle, IsAllocation, SettledIsFinal, evidence
<1>2. ASSUME NEW e \in Events, SetAside(e) PROVE SettledIsFinal'
  BY <1>2 DEF SetAside, MaySettle, SettledIsFinal, evidence
<1>3. ASSUME NEW e \in Events, Discover(e) PROVE SettledIsFinal'
  BY <1>3 DEF Discover, SettledIsFinal, TypeOK, settlement
<1>4. ASSUME NEW e \in Events, NEW s \in Provisional \cup Outcomes, Observed(e, s)
      PROVE  SettledIsFinal'
  BY <1>4 DEF Observed, Supersedes, Final, SettledIsFinal, TypeOK, settlement
<1>5. ASSUME NEW e \in Events, Agree(e) PROVE SettledIsFinal'
  BY <1>5 DEF Agree, SettledIsFinal, settlement
<1>6. ASSUME UNCHANGED <<allocations, exceptions, evidence>> PROVE SettledIsFinal'
  BY <1>6 DEF SettledIsFinal, evidence
<1> QED
  BY <1>1, <1>2, <1>3, <1>4, <1>5, <1>6
  DEF Next, Merchant, Chain, ProjectOne, Issue, Cancel, Create, Expire, Promote,
      Revoke, Observe, Draft, Store, LoseDraft, vars, settlement

(* Only a transfer that is final, and stays so, settles an attempt.         *)
THEOREM OnlyFinalSettles == Spec => []SettledIsFinal
<1>1. Init => SettledIsFinal BY DEF Init, SettledIsFinal
<1> QED BY <1>1, FinalStep, TypeCorrect, PTL DEF Spec

-----------------------------------------------------------------------------
(* Cancelled invoices, and organizations in shadow mode. *)

(* An attempt that advances to what was observed was pending before. *)
LEMMA ObservedWasPending ==
  ASSUME TypeOK, NEW e \in Events, Observe(e)
  PROVE  status[AttemptOf[e]] \in Pending
  BY SettledAttempt
  DEF Observe, CanObserve, CanAdvance, Rank, TypeOK, Status, Pending, Settled, Provisional

LEMMA CancelledStep ==
  IInv /\ CancelledIsUncollected /\ [Next]_vars => CancelledIsUncollected'
<1> SUFFICES ASSUME IInv, CancelledIsUncollected, [Next]_vars
             PROVE  CancelledIsUncollected'
  OBVIOUS
<1> USE DEF IInv, TypeOK
<1>1. ASSUME NEW i \in Invoices, Issue(i) PROVE CancelledIsUncollected'
  BY <1>1 DEF Issue, SetInvoice, CancelledIsUncollected, InvoicePaidBy, projection
<1>2. ASSUME NEW i \in Invoices, Cancel(i) PROVE CancelledIsUncollected'
  <2>1. \A a \in Attempts : InvoiceOf[a] = i => status[a] \in {"none", "expired", "exception"}
    BY <1>2 DEF Cancel, HasHostedPayment, Status, Settled
  <2>2. \A e \in allocations : InvoicePaidBy(e) # i
    BY <1>2 DEF Cancel, HasHostedPayment
  <2> QED BY <1>2, <2>1, <2>2
        DEF Cancel, SetInvoice, CancelledIsUncollected, InvoicePaidBy, projection
<1>3. ASSUME NEW a \in Attempts, NEW to, status' = [status EXCEPT ![a] = to],
             to \in {"expired", "exception"} \/ invoice[InvoiceOf[a]] # "cancelled",
             UNCHANGED <<invoice, allocations>>
      PROVE  CancelledIsUncollected'
  BY <1>3 DEF CancelledIsUncollected, InvoicePaidBy
<1>4. ASSUME NEW a \in Attempts, Create(a) \/ Expire(a) PROVE CancelledIsUncollected'
  BY <1>3, <1>4 DEF Create, Expire, SetStatus, settlement
<1>5. ASSUME NEW a \in Attempts, status[a] \in Pending
      PROVE  invoice[InvoiceOf[a]] # "cancelled"
  BY <1>5, ConstantsAssumption DEF CancelledIsUncollected, Pending, Provisional
<1>6. ASSUME NEW e \in Events, Revoke(e) PROVE CancelledIsUncollected'
  <2>1. status[AttemptOf[e]] \in Pending BY <1>6 DEF Revoke, CanRevoke, Pending
  <2> QED BY <1>3, <1>5, <1>6, <2>1, SettledAttempt DEF Revoke, SetStatus, settlement
<1>7. ASSUME NEW e \in Events, Observe(e) PROVE CancelledIsUncollected'
  BY <1>3, <1>5, <1>7, ObservedWasPending, SettledAttempt DEF Observe, SetStatus, settlement
<1>8. ASSUME NEW e \in Events, Pay(e) PROVE CancelledIsUncollected'
  <2>1. status' = [status EXCEPT ![AttemptOf[e]] = "paid"]
    BY <1>8, SettledAttempt, SettledStatus DEF Pay
  <2>2. /\ invoice[InvoicePaidBy(e)] = "issued"
        /\ invoice' = [invoice EXCEPT ![InvoicePaidBy(e)] = "paid"]
        /\ allocations' = allocations \cup {e}
    BY <1>8 DEF Pay, InvoiceOpen, SetInvoice
  <2> QED BY <2>1, <2>2, SettledAttempt DEF CancelledIsUncollected, InvoicePaidBy
<1>9. ASSUME NEW e \in Events, SetAside(e) PROVE CancelledIsUncollected'
  <2>1. status' = [status EXCEPT ![AttemptOf[e]] = "exception"]
    BY <1>9, SettledAttempt, SettledStatus DEF SetAside
  <2> QED BY <1>3, <1>9, <2>1, SettledAttempt DEF SetAside
<1>10. ASSUME UNCHANGED <<status, invoice, allocations>> PROVE CancelledIsUncollected'
  BY <1>10 DEF CancelledIsUncollected, InvoicePaidBy
<1> QED
  BY <1>1, <1>2, <1>4, <1>6, <1>7, <1>8, <1>9, <1>10
  DEF Next, Merchant, Chain, ProjectOne, Promote, Discover, Observed, Agree, Draft, Store,
      LoseDraft, vars, settlement, projection

(* Nobody can still be asked to pay a cancelled invoice. *)
THEOREM CancelledUncollected == Spec => []CancelledIsUncollected
<1>1. Init => CancelledIsUncollected BY DEF Init, CancelledIsUncollected
<1> QED BY <1>1, CancelledStep, Invariance, PTL DEF Spec

LEMMA ShadowStep ==
  IInv /\ ShadowChangesNothing /\ [Next]_vars => ShadowChangesNothing'
<1> SUFFICES ASSUME IInv, ShadowChangesNothing, [Next]_vars, mode' = "shadow"
             PROVE  ShadowChangesNothing'
  BY DEF ShadowChangesNothing
<1> USE DEF IInv, TypeOK
<1>0. mode = "shadow" BY DEF Next, Merchant, Chain, ProjectOne, Issue, Cancel, Create, Expire,
     Promote, Discover, Observed, Agree, Revoke, Observe, Pay, SetAside, Draft, Store,
     LoseDraft, vars
<1>1. ASSUME NEW i \in Invoices, Issue(i) \/ Cancel(i) PROVE ShadowChangesNothing'
  <2>1. \A x \in journal' \ journal : x.type \in {"invoice_issued", "invoice_cancelled"}
    BY <1>1 DEF Issue, Cancel, SetInvoice, IssueEntry, CancelEntry
  <2> QED BY <1>0, <1>1, <2>1 DEF Issue, Cancel, ShadowChangesNothing, projection
<1>2. ASSUME NEW a \in Attempts, Create(a) \/ Expire(a) PROVE ShadowChangesNothing'
  BY <1>0, <1>2 DEF Create, Expire, SetStatus, ShadowChangesNothing, settlement
<1>3. ASSUME NEW e \in Events PROVE ~Revoke(e) /\ ~Observe(e) /\ ~Pay(e) /\ ~SetAside(e)
  BY <1>0, SettledAttempt DEF ShadowChangesNothing, Revoke, CanRevoke, Provisional, Observe,
     CanObserve, Pay, SetAside, MaySettle
<1>4. ASSUME UNCHANGED <<status, allocations, exceptions, journal>>
      PROVE  ShadowChangesNothing'
  BY <1>0, <1>4 DEF ShadowChangesNothing
<1> QED
  BY <1>1, <1>2, <1>3, <1>4
  DEF Next, Merchant, Chain, ProjectOne, Promote, Discover, Observed, Agree, Draft, Store,
      LoseDraft, vars, settlement, projection

(* An organization in shadow mode settles nothing and shows no progress. *)
THEOREM ShadowIsHarmless == Spec => []ShadowChangesNothing
<1>1. Init => ShadowChangesNothing BY DEF Init, ShadowChangesNothing
<1> QED BY <1>1, ShadowStep, Invariance, PTL DEF Spec

-----------------------------------------------------------------------------
(* The history of an attempt. *)

(* The rows of a in h are one for each version up to v, and the last of     *)
(* them says s.                                                             *)
Tells(h, a, v, s) ==
  /\ \A r \in h : r.attempt = a => r.version \in 1..v
  /\ \A n \in 1..v : \E r \in h : r.attempt = a /\ r.version = n
  /\ \A r, q \in h : r.attempt = a /\ q.attempt = a /\ r.version = q.version => r = q
  /\ \A r \in h : r.attempt = a /\ r.version = v => r.to = s

LEMMA HistoriesTell ==
  HistoryTellsStatus <=> \A a \in Attempts : Tells(history, a, version[a], status[a])
  BY DEF HistoryTellsStatus, Tells

LEMMA HistoriesTellNext ==
  HistoryTellsStatus' <=> \A a \in Attempts : Tells(history', a, version'[a], status'[a])
  BY DEF HistoryTellsStatus, Tells

LEMMA RowAppended ==
  ASSUME NEW h, NEW a, NEW v \in Nat, NEW s, Tells(h, a, v, s), NEW to, NEW e
  PROVE  Tells(h \cup {Change(a, v + 1, to, e)}, a, v + 1, to)
<1> DEFINE c == Change(a, v + 1, to, e)
<1>1. c.attempt = a /\ c.version = v + 1 /\ c.to = to BY DEF Change
<1> HIDE DEF c
<1>2. \A r \in h : r.attempt = a => r.version \in 1..v /\ r.version # v + 1 BY DEF Tells
<1>3. \A r \in h \cup {c} : r.attempt = a => r.version \in 1..(v + 1) BY <1>1, <1>2
<1>4. ASSUME NEW n \in 1..(v + 1)
      PROVE  \E r \in h \cup {c} : r.attempt = a /\ r.version = n
  <2>1. CASE n = v + 1 BY <1>1, <2>1
  <2>2. CASE n \in 1..v BY <2>2 DEF Tells
  <2> QED BY <2>1, <2>2
<1>5. \A r, q \in h \cup {c} :
        r.attempt = a /\ q.attempt = a /\ r.version = q.version => r = q
  BY <1>1, <1>2 DEF Tells
<1>6. \A r \in h \cup {c} : r.attempt = a /\ r.version = v + 1 => r.to = to BY <1>1, <1>2
<1>7. Tells(h \cup {c}, a, v + 1, to) BY <1>3, <1>4, <1>5, <1>6 DEF Tells
<1> QED BY <1>7 DEF c

LEMMA RowOfAnother ==
  ASSUME NEW h, NEW a, NEW b, a # b, NEW v, NEW s, Tells(h, b, v, s), NEW n, NEW to, NEW e
  PROVE  Tells(h \cup {Change(a, n, to, e)}, b, v, s)
<1>1. Change(a, n, to, e).attempt # b BY DEF Change
<1> QED BY <1>1 DEF Tells

LEMMA SetStatusTells ==
  ASSUME TypeOK, HistoryTellsStatus, NEW a \in Attempts, NEW to, NEW e, SetStatus(a, to, e)
  PROVE  HistoryTellsStatus'
<1> SUFFICES ASSUME NEW b \in Attempts
             PROVE  Tells(history', b, version'[b], status'[b])
  BY HistoriesTellNext
<1>1. Tells(history, b, version[b], status[b]) BY HistoriesTell
<1>2. history' = history \cup {Change(a, version[a] + 1, to, e)} BY DEF SetStatus
<1>3. CASE b = a
  <2>1. version[a] \in Nat /\ version'[a] = version[a] + 1 /\ status'[a] = to
    BY DEF SetStatus, TypeOK
  <2> QED BY <1>1, <1>2, <1>3, <2>1, RowAppended
<1>4. CASE b # a
  <2>1. version'[b] = version[b] /\ status'[b] = status[b] BY <1>4 DEF SetStatus, TypeOK
  <2> QED BY <1>1, <1>2, <1>4, <2>1, RowOfAnother
<1> QED BY <1>3, <1>4

LEMMA SettleStatusTells ==
  ASSUME TypeOK, HistoryTellsStatus, NEW a \in Attempts, NEW to, NEW e, SettleStatus(a, to, e)
  PROVE  HistoryTellsStatus'
<1>1. CASE ~CanAdvance(status[a], "finalized")
  BY <1>1, SetStatusTells DEF SettleStatus
<1>2. CASE CanAdvance(status[a], "finalized")
  <2> SUFFICES ASSUME NEW b \in Attempts
               PROVE  Tells(history', b, version'[b], status'[b])
    BY HistoriesTellNext
  <2> DEFINE first == Change(a, version[a] + 1, "finalized", e)
             second == Change(a, version[a] + 2, to, e)
  <2>1. Tells(history, b, version[b], status[b]) BY HistoriesTell
  <2>2. history' = (history \cup {first}) \cup {second} BY <1>2 DEF SettleStatus
  <2>3. CASE b = a
    <3>1. version[a] \in Nat /\ version[a] + 1 \in Nat /\ (version[a] + 1) + 1 = version[a] + 2
      BY DEF TypeOK
    <3>2. version'[a] = version[a] + 2 /\ status'[a] = to
      BY <1>2 DEF SettleStatus, TypeOK
    <3>3. Tells(history \cup {first}, a, version[a] + 1, "finalized")
      BY <2>1, <2>3, <3>1, RowAppended
    <3>4. Tells((history \cup {first}) \cup {Change(a, (version[a] + 1) + 1, to, e)},
                a, (version[a] + 1) + 1, to)
      BY <3>1, <3>3, RowAppended
    <3> QED BY <2>2, <2>3, <3>1, <3>2, <3>4
  <2>4. CASE b # a
    <3>1. version'[b] = version[b] /\ status'[b] = status[b]
      BY <1>2, <2>4 DEF SettleStatus, TypeOK
    <3>2. Tells(history \cup {first}, b, version[b], status[b])
      BY <2>1, <2>4, RowOfAnother
    <3>3. Tells((history \cup {first}) \cup {second}, b, version[b], status[b])
      BY <2>4, <3>2, RowOfAnother
    <3> QED BY <2>2, <3>1, <3>3
  <2> QED BY <2>3, <2>4
<1> QED BY <1>1, <1>2

LEMMA HistoryStep ==
  TypeOK /\ HistoryTellsStatus /\ [Next]_vars => HistoryTellsStatus'
<1> SUFFICES ASSUME TypeOK, HistoryTellsStatus, [Next]_vars PROVE HistoryTellsStatus'
  OBVIOUS
<1>1. ASSUME NEW a \in Attempts, Create(a) \/ Expire(a) PROVE HistoryTellsStatus'
  BY <1>1, SetStatusTells DEF Create, Expire
<1>2. ASSUME NEW e \in Events, Revoke(e) \/ Observe(e) PROVE HistoryTellsStatus'
  BY <1>2, SettledAttempt, SetStatusTells DEF Revoke, Observe
<1>3. ASSUME NEW e \in Events, Pay(e) \/ SetAside(e) PROVE HistoryTellsStatus'
  BY <1>3, SettledAttempt, SettleStatusTells DEF Pay, SetAside
<1>4. ASSUME UNCHANGED projection PROVE HistoryTellsStatus'
  BY <1>4 DEF projection, HistoryTellsStatus
<1>5. ASSUME NEW i \in Invoices, Issue(i) \/ Cancel(i) PROVE HistoryTellsStatus'
  BY <1>4, <1>5 DEF Issue, Cancel
<1>6. ASSUME Promote \/ UNCHANGED vars \/ (\E p \in drafts : Store(p) \/ LoseDraft(p))
      PROVE  HistoryTellsStatus'
  BY <1>4, <1>6 DEF Promote, vars, Store, LoseDraft
<1>7. ASSUME NEW e \in Events,
             Discover(e) \/ Agree(e) \/ Draft(e)
               \/ (\E s \in Provisional \cup Outcomes : Observed(e, s))
      PROVE  HistoryTellsStatus'
  BY <1>4, <1>7 DEF Discover, Agree, Draft, Observed
<1> QED
  BY <1>1, <1>2, <1>3, <1>5, <1>6, <1>7 DEF Next, Merchant, Chain, ProjectOne

(* The status history of an attempt, from which its lifecycle events are    *)
(* announced, has one row for each version and ends with what is shown.     *)
THEOREM HistoriesAreWhole == Spec => []HistoryTellsStatus
<1>1. Init => HistoryTellsStatus BY DEF Init, HistoryTellsStatus
<1> QED BY <1>1, HistoryStep, TypeCorrect, PTL DEF Spec

-----------------------------------------------------------------------------
(* ProjectionScan. *)

(* Of n numbers that come first in a set, there are at most n.              *)
First(S, n) == {e \in S : Cardinality(Before(e, S)) < n}

LEMMA BeforeIsFinite ==
  ASSUME NEW S \in SUBSET Nat, NEW e \in Nat
  PROVE  IsFiniteSet(Before(e, S)) /\ Cardinality(Before(e, S)) \in Nat
<1>1. IsFiniteSet(0..e) BY FS_Interval
<1>2. Before(e, S) \subseteq 0..e
  <2> SUFFICES ASSUME NEW d \in Before(e, S) PROVE d \in 0..e OBVIOUS
  <2>1. d \in S /\ d < e BY DEF Before
  <2>2. d \in Nat BY <2>1
  <2> QED BY <2>1, <2>2
<1>3. IsFiniteSet(Before(e, S)) BY <1>1, <1>2, FS_Subset
<1> QED BY <1>3, FS_CardinalityType

LEMMA CountsDiffer ==
  ASSUME NEW S \in SUBSET Nat, NEW d \in S, NEW e \in S, d < e
  PROVE  Cardinality(Before(d, S)) < Cardinality(Before(e, S))
<1>1. IsFiniteSet(Before(d, S)) /\ Cardinality(Before(d, S)) \in Nat BY BeforeIsFinite
<1>2. IsFiniteSet(Before(e, S)) /\ Cardinality(Before(e, S)) \in Nat BY BeforeIsFinite
<1>3. d \notin Before(d, S) BY DEF Before
<1>4. Cardinality(Before(d, S) \cup {d}) = Cardinality(Before(d, S)) + 1
  BY <1>1, <1>3, FS_AddElement
<1>5. Before(d, S) \cup {d} \subseteq Before(e, S)
  <2> SUFFICES ASSUME NEW c \in Before(d, S) \cup {d} PROVE c \in Before(e, S) OBVIOUS
  <2>1. c \in S /\ (c = d \/ c < d) BY DEF Before
  <2>2. c \in Nat /\ d \in Nat /\ e \in Nat BY <2>1
  <2>3. c < e BY <2>1, <2>2
  <2> QED BY <2>1, <2>3 DEF Before
<1>6. Cardinality(Before(d, S) \cup {d}) <= Cardinality(Before(e, S))
  BY <1>2, <1>5, FS_Subset
<1> QED BY <1>1, <1>2, <1>4, <1>6

LEMMA FirstAreFew ==
  ASSUME NEW S \in SUBSET Nat, NEW n \in Nat
  PROVE  IsFiniteSet(First(S, n)) /\ Cardinality(First(S, n)) <= n
<1> DEFINE Good(k) == IsFiniteSet(First(S, k)) /\ Cardinality(First(S, k)) <= k
<1>1. Good(0)
  <2>1. ASSUME NEW e \in First(S, 0) PROVE FALSE
    <3>1. e \in S /\ Cardinality(Before(e, S)) < 0 BY DEF First
    <3>2. Cardinality(Before(e, S)) \in Nat BY <3>1, BeforeIsFinite
    <3> QED BY <3>1, <3>2
  <2>2. First(S, 0) = {} BY <2>1
  <2> QED BY <2>2, FS_EmptySet
<1>2. ASSUME NEW k \in Nat, Good(k) PROVE Good(k + 1)
  <2> DEFINE Kth == {e \in S : Cardinality(Before(e, S)) = k}
  <2>1. First(S, k + 1) = First(S, k) \cup Kth
    <3>1. ASSUME NEW e \in S PROVE Cardinality(Before(e, S)) < k + 1
                                     <=> \/ Cardinality(Before(e, S)) < k
                                         \/ Cardinality(Before(e, S)) = k
      <4>1. Cardinality(Before(e, S)) \in Nat BY BeforeIsFinite
      <4> QED BY <4>1
    <3> QED BY <3>1 DEF First
  <2>2. \A d, e \in Kth : d = e
    <3> SUFFICES ASSUME NEW d \in Kth, NEW e \in Kth, d < e PROVE FALSE OBVIOUS
    <3>1. Cardinality(Before(d, S)) < Cardinality(Before(e, S)) BY CountsDiffer
    <3> QED BY <3>1
  <2> HIDE DEF Kth
  <2>3. IsFiniteSet(First(S, k)) /\ Cardinality(First(S, k)) \in Nat
          /\ Cardinality(First(S, k)) <= k
    BY <1>2, FS_CardinalityType
  <2>4. CASE Kth = {}
    <3>1. First(S, k + 1) = First(S, k) BY <2>1, <2>4
    <3> QED BY <2>3, <3>1
  <2>5. CASE Kth # {}
    <3>1. PICK e : Kth = {e} BY <2>2, <2>5
    <3>2. First(S, k + 1) = First(S, k) \cup {e} BY <2>1, <3>1
    <3>3. IsFiniteSet(First(S, k) \cup {e})
            /\ Cardinality(First(S, k) \cup {e}) <= Cardinality(First(S, k)) + 1
      <4>1. CASE e \in First(S, k)
        <5>1. First(S, k) \cup {e} = First(S, k) BY <4>1
        <5> QED BY <2>3, <5>1
      <4>2. CASE e \notin First(S, k) BY <2>3, <4>2, FS_AddElement
      <4> QED BY <4>1, <4>2
    <3>4. Cardinality(First(S, k) \cup {e}) \in Nat BY <3>3, FS_CardinalityType
    <3> QED BY <2>3, <3>2, <3>3, <3>4
  <2> QED BY <2>4, <2>5
<1> HIDE DEF Good
<1>3. Good(n)
  <2> DEFINE Wrong == {k \in Nat : ~Good(k)}
  <2>1. SUFFICES ASSUME Wrong # {} PROVE FALSE OBVIOUS
  <2>2. PICK k \in Wrong : \A m \in Wrong : ~(<<m, k>> \in OpToRel(<, Nat))
    BY <2>1, NatLessThanWellFounded, WFMin
  <2>3. k \in Nat /\ k # 0 /\ ~Good(k) BY <1>1, <2>2
  <2>4. k - 1 \in Nat /\ <<k - 1, k>> \in OpToRel(<, Nat) BY <2>3 DEF OpToRel
  <2>5. Good(k - 1) BY <2>2, <2>4
  <2>6. Good((k - 1) + 1) BY <1>2, <2>4, <2>5
  <2> QED BY <2>3, <2>6
<1> QED BY <1>3 DEF Good

(* The scan has at most one draft to store, of the event whose turn it is,  *)
(* and reads no more than it may still examine.                             *)
ScanInv ==
  /\ batch \subseteq Events /\ IsFiniteSet(batch)
  /\ after \in Nat /\ examined \in Nat
  /\ \A p, q \in drafts : p = q
  /\ ScanInOrder

LEMMA MovesOn ==
  ASSUME ScanInv, NEW e, NextInBatch(e), NEW n \in {0, 1}, MoveOn(e, n), drafts' = {}
  PROVE  ScanInv'
<1> USE LimitAssumption, ConstantsAssumption DEF ScanInv, ScanInOrder
<1>1. CASE examined + n = Limit
  <2>1. batch' = {} /\ after' = 0 /\ examined' = 0 BY <1>1 DEF MoveOn, FreshScan
  <2> QED BY <2>1, FS_EmptySet
<1>2. CASE examined + n # Limit
  <2>1. batch' = batch \ {e} /\ after' = e /\ examined' = examined + n
    BY <1>2 DEF MoveOn
  <2>2. e \in batch /\ e \in Nat /\ \A d \in batch : ~(d < e)
    BY DEF NextInBatch, Before
  <2>3. examined' \in Nat /\ examined' < Limit BY <1>2, <2>1
  <2>4. \A d \in batch' : d > after' BY <2>1, <2>2
  <2>5. IsFiniteSet(batch \ {e}) /\ Cardinality(batch \ {e}) = Cardinality(batch) - 1
    BY <2>2, FS_RemoveElement
  <2>6. Cardinality(batch) \in Nat BY FS_CardinalityType
  <2>7. Cardinality(batch') <= Limit - examined' BY <2>1, <2>5, <2>6
  <2> QED BY <2>1, <2>2, <2>3, <2>4, <2>5, <2>7
<1> QED BY <1>1, <1>2

LEMMA FreshKeeps ==
  ASSUME FreshScan, drafts' = {}
  PROVE  ScanInv'
  BY FS_EmptySet, LimitAssumption DEF FreshScan, ScanInv, ScanInOrder

LEMMA ScanKeeps ==
  ASSUME ScanInv, UNCHANGED <<drafts, scan>>
  PROVE  ScanInv'
  BY DEF scan, ScanInv, ScanInOrder, NextInBatch, Before

LEMMA DraftsKept ==
  ASSUME Merchant \/ Chain \/ \E e \in Events : Revoke(e) \/ Observe(e) \/ Pay(e) \/ SetAside(e)
  PROVE  drafts' = drafts
  BY DEF Merchant, Chain, Issue, Cancel, Create, Expire, Promote, Discover, Agree, Observed,
         Revoke, Observe, Pay, SetAside, shadow

LEMMA ScanStep == ScanInv /\ [ScanNext]_scanVars => ScanInv'
<1> SUFFICES ASSUME ScanInv, [ScanNext]_scanVars PROVE ScanInv' OBVIOUS
<1>1. ASSUME ReadBatch PROVE ScanInv'
  <2>1. batch = {} /\ batch' = FirstOf(Candidates) /\ drafts' = drafts
          /\ after' = after /\ examined' = examined
    BY <1>1 DEF ReadBatch, vars, shadow
  <2>2. Candidates \in SUBSET Nat /\ Candidates \subseteq Events
          /\ \A e \in Candidates : e > after
    BY ConstantsAssumption DEF Candidates
  <2>3. FirstOf(Candidates) = First(Candidates, Limit - examined)
          /\ First(Candidates, Limit - examined) \subseteq Candidates
    BY DEF FirstOf, First
  <2>4. Limit - examined \in Nat BY LimitAssumption DEF ScanInv, ScanInOrder
  <2>5. IsFiniteSet(batch') /\ Cardinality(batch') <= Limit - examined
    BY <2>1, <2>2, <2>3, <2>4, FirstAreFew
  <2>6. drafts = {} BY <2>1 DEF ScanInv, ScanInOrder, NextInBatch
  <2> QED BY <2>1, <2>2, <2>3, <2>5, <2>6 DEF ScanInv, ScanInOrder
<1>2. ASSUME EndOfScan PROVE ScanInv'
  <2>1. batch = {} /\ FreshScan /\ drafts' = drafts BY <1>2 DEF EndOfScan, vars, shadow
  <2>2. drafts = {} BY <2>1 DEF ScanInv, ScanInOrder, NextInBatch
  <2> QED BY <2>1, <2>2, FreshKeeps
<1>3. ASSUME NEW e \in batch, ProjectNext(e) PROVE ScanInv'
  <2>1. e \in Events BY DEF ScanInv
  <2>2. drafts' = {} /\ NextInBatch(e) /\ MoveOn(e, 1)
    BY <1>3, <2>1, DraftsKept DEF ProjectNext, Turn
  <2> QED BY <2>2, MovesOn
<1>4. ASSUME NEW e \in batch, DraftNext(e) PROVE ScanInv'
  <2>1. drafts = {} /\ NextInBatch(e) /\ drafts' = {Decision(e)}
          /\ batch' = batch /\ after' = after /\ examined' = examined
    BY <1>4 DEF DraftNext, Turn, Draft, scan
  <2>2. Decision(e).event = e BY DEF Decision
  <2> QED BY <2>1, <2>2 DEF ScanInv, ScanInOrder, NextInBatch, Before
<1>5. ASSUME NEW e \in batch, SkipNext(e) \/ ThrowNext(e) PROVE ScanInv'
  <2>1. drafts' = {} /\ NextInBatch(e) /\ (MoveOn(e, 1) \/ FreshScan)
    BY <1>5 DEF SkipNext, ThrowNext, Turn, vars, shadow
  <2> QED BY <2>1, MovesOn, FreshKeeps
<1>6. ASSUME NEW p \in drafts, StoreNext(p) PROVE ScanInv'
  <2>1. drafts' = {} BY <1>6 DEF StoreNext, Store, ScanInv
  <2>2. NextInBatch(p.event) /\ Counts(p) \in {0, 1} BY DEF ScanInv, ScanInOrder, Counts
  <2> QED BY <1>6, <2>1, <2>2, MovesOn DEF StoreNext
<1>7. ASSUME LoseAuthority PROVE ScanInv'
  <2>1. CASE UNCHANGED <<vars, scan>> BY <2>1, ScanKeeps DEF vars, shadow
  <2>2. CASE drafts = {} /\ FreshScan /\ UNCHANGED vars
    BY <2>2, FreshKeeps DEF vars, shadow
  <2>3. CASE FreshScan /\ \E p \in drafts : LoseDraft(p)
    <3>1. drafts' = {} BY <2>3 DEF LoseDraft, ScanInv
    <3> QED BY <2>3, <3>1, FreshKeeps
  <2> QED BY <1>7, <2>1, <2>2, <2>3 DEF LoseAuthority
<1>8. ASSUME Environment PROVE ScanInv'
  BY <1>8, DraftsKept, ScanKeeps DEF Environment
<1>9. ASSUME GainAuthority \/ UNCHANGED scanVars PROVE ScanInv'
  BY <1>9, ScanKeeps DEF GainAuthority, scanVars, vars, shadow
<1> QED BY <1>1, <1>2, <1>3, <1>4, <1>5, <1>6, <1>7, <1>8, <1>9 DEF ScanNext, Scan

LEMMA ScanInvariant == ScanSpec => []ScanInv
<1>1. ScanInit => ScanInv
  BY FS_EmptySet, LimitAssumption DEF ScanInit, Init, ScanInv, ScanInOrder
<1> QED BY <1>1, ScanStep, PTL DEF ScanSpec

(* A scan never examines more than its limit nor reads more than it may     *)
(* still examine, goes through the events in the order of their ids, and    *)
(* stores a draft before it goes on (projectAvailable).                     *)
THEOREM ScanGoesInOrder == ScanSpec => []ScanInOrder
<1>1. ScanInv => ScanInOrder BY DEF ScanInv
<1> QED BY <1>1, ScanInvariant, PTL

(* What the worker's scan does is what PaymentProjection lets projectors    *)
(* do, so that all that is proved of it holds of the scan.                  *)
THEOREM ScanImplementsProjection == ScanSpec => Spec
<1>1. ScanInit => Init BY DEF ScanInit
<1>2. ScanInv /\ [ScanNext]_scanVars => [Next]_vars
  <2> SUFFICES ASSUME ScanInv, [ScanNext]_scanVars PROVE [Next]_vars OBVIOUS
  <2>1. ASSUME NEW e \in batch, ProjectNext(e) \/ DraftNext(e) PROVE Next
    <3>1. e \in Events BY DEF ScanInv
    <3> QED BY <2>1, <3>1 DEF ProjectNext, DraftNext, Next, ProjectOne
  <2>2. ASSUME NEW p \in drafts, StoreNext(p) PROVE Next BY <2>2 DEF StoreNext, Next
  <2>3. ASSUME NEW e \in batch, SkipNext(e) \/ ThrowNext(e) PROVE UNCHANGED vars
    BY <2>3 DEF SkipNext, ThrowNext
  <2>4. ASSUME ReadBatch \/ EndOfScan \/ GainAuthority PROVE UNCHANGED vars
    BY <2>4 DEF ReadBatch, EndOfScan, GainAuthority
  <2>5. ASSUME LoseAuthority PROVE Next \/ UNCHANGED vars
    BY <2>5 DEF LoseAuthority, Next
  <2>6. ASSUME Environment PROVE Next BY <2>6 DEF Environment, Next
  <2>7. ASSUME UNCHANGED scanVars PROVE UNCHANGED vars BY <2>7 DEF scanVars
  <2> QED BY <2>1, <2>2, <2>3, <2>4, <2>5, <2>6, <2>7 DEF ScanNext, Scan
<1> QED BY <1>1, <1>2, ScanInvariant, PTL DEF ScanSpec, Spec
=============================================================================
