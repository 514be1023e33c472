-------------------------- MODULE PaymentProjection --------------------------
(***************************************************************************)
(* Hosted payments: invoices, payment attempts, the transfers seen on      *)
(* chain, and the projector (PaymentStatusProjector.projectOne) that turns *)
(* a transfer into the public status of its attempt and, once final, into  *)
(* a paid invoice or an exception, with the ledger entries that go with    *)
(* it.                                                                     *)
(*                                                                         *)
(* Every action is one transaction: the code locks the event, expectation, *)
(* attempt, invoice and projection rows before it reads them, and a throw  *)
(* rolls everything back.  Any number of projectors run at any time, so    *)
(* projectOne may be called for any event in any order.                    *)
(*                                                                         *)
(* A transfer carries the reference of one attempt; Match says how it      *)
(* compares with that attempt's quote, block time included.  An attempt's  *)
(* row and its projection are written together and are one status here     *)
(* ("allocated" in one is "paid" in the other), as are its expectation and *)
(* the watch target of its reference.  Every history row is written with   *)
(* the lifecycle event that announces it.                                  *)
(***************************************************************************)
EXTENDS Naturals

CONSTANTS
  Invoices,
  Attempts,
  Events,        \* event_id of the transfers, in the order of their text
  Assets,        \* asset symbols
  InvoiceOf,     \* the invoice an attempt is for
  AssetOf,       \* the asset an attempt is quoted in
  AttemptOf,     \* the attempt whose reference a transfer carries
  Match,         \* "exact", "inexact", "dust" or "foreign", for each transfer
  DualProvider,  \* rpc.mode = 'dual_provider'
  Outcomes,      \* bound: the final chain states a run explores
  Cancellable,   \* bound: the invoices that may be cancelled in a run
  MaxVersion     \* bound: the provisional status changes of an attempt

Final == {"finalized", "failed", "reverted", "quarantined"}

(* A "dust" transfer is partial and worth less than half a minor unit; a    *)
(* "foreign" one is in another mint, or to another token account.           *)
ASSUME ConstantsAssumption ==
  /\ Events \subseteq Nat \ {0}
  /\ InvoiceOf \in [Attempts -> Invoices]
  /\ AssetOf \in [Attempts -> Assets]
  /\ AttemptOf \in [Events -> Attempts]
  /\ Match \in [Events -> {"exact", "inexact", "dust", "foreign"}]
  /\ DualProvider \in BOOLEAN
  /\ Outcomes \subseteq Final
  /\ Cancellable \subseteq Invoices
  /\ MaxVersion \in Nat

VARIABLES
  mode,         \* activation_mode of the organization
  invoice,      \* merchant_invoices.status
  revision,     \* merchant_invoices.version
  status,       \* payment_projections.public_status; "none" before the attempt
  version,      \* payment_projections.version
  expected,     \* attempts whose hosted_payment_expectations row is active
  chain,        \* chain_events.current_state; "absent" before the transfer
  agreed,       \* transfers both providers agree on (rpc_consensus_checks)
  allocations,  \* transfers with a row in hosted_payment_allocations
  exceptions,   \* transfers with a row in hosted_payment_exceptions
  journal,      \* journal_entries
  history,      \* payment_status_history
  drafts,       \* shadow decisions taken and not yet stored
  proposals     \* shadow_projection_decisions

settlement == <<invoice, revision, expected, allocations, exceptions, journal>>
projection == <<status, version, history>>
evidence == <<chain, agreed>>
shadow == <<drafts, proposals>>
vars == <<mode, settlement, projection, evidence, shadow>>

-----------------------------------------------------------------------------
(* Types. *)

InvoiceStatus == {"draft", "issued", "paid", "cancelled"}
Provisional == {"detected", "confirmed"}
Pending == {"awaiting_payment", "confirmation_revoked"} \cup Provisional
Settled == {"paid", "exception"}
Status == {"none", "expired"} \cup Pending \cup Settled
Revoked == {"failed", "reverted", "quarantined"}
ChainState == {"absent"} \cup Provisional \cup Final

IssueEntry(i, v) == [type |-> "invoice_issued", source |-> i, version |-> v]
CancelEntry(i, v) == [type |-> "invoice_cancelled", source |-> i, version |-> v]
Receipt(type, e) == [type |-> type, source |-> e, version |-> 1]

Entry ==
  [type : {"invoice_issued", "invoice_cancelled"}, source : Invoices, version : Nat]
  \cup [type : {"payment_received", "unapplied_receipt"}, source : Events, version : {1}]

(* A row of payment_status_history; the event is 0 when there is none. *)
Change(a, v, to, e) == [attempt |-> a, version |-> v, to |-> to, event |-> e]
ChangeRow == [attempt : Attempts, version : Nat,
              to : (Status \cup {"finalized"}) \ {"none"}, event : Events \cup {0}]

(* What canonicalInputDigest of a transfer varies with is the invoice.      *)
Proposal == [event : Events, invoice : InvoiceStatus]

InvoicePaidBy(e) == InvoiceOf[AttemptOf[e]]

-----------------------------------------------------------------------------
(* Invoices and attempts. *)

Init ==
  /\ mode = "shadow"
  /\ invoice = [i \in Invoices |-> "draft"]
  /\ revision = [i \in Invoices |-> 1]
  /\ status = [a \in Attempts |-> "none"]
  /\ version = [a \in Attempts |-> 0]
  /\ expected = {}
  /\ chain = [e \in Events |-> "absent"]
  /\ agreed = {}
  /\ allocations = {}
  /\ exceptions = {}
  /\ journal = {}
  /\ history = {}
  /\ drafts = {}
  /\ proposals = {}

SetInvoice(i, s, entries) ==
  /\ invoice' = [invoice EXCEPT ![i] = s]
  /\ revision' = [revision EXCEPT ![i] = @ + 1]
  /\ journal' = journal \cup entries

Issue(i) ==
  /\ invoice[i] = "draft"
  /\ SetInvoice(i, "issued", {IssueEntry(i, revision[i] + 1)})
  /\ UNCHANGED <<mode, expected, allocations, exceptions, projection, evidence, shadow>>

(* What keeps an invoice from being cancelled: an attempt that may still be *)
(* paid or was, or an allocation.                                           *)
HasHostedPayment_Provisional(i) ==
  \E a \in Attempts : InvoiceOf[a] = i /\ status[a] \in Provisional \cup {"paid"}
HasHostedPayment(i) ==
  \/ \E a \in Attempts : InvoiceOf[a] = i /\ status[a] \in Pending \cup {"paid"}
  \/ \E e \in allocations : InvoicePaidBy(e) = i

Cancel(i) ==
  /\ i \in Cancellable
  /\ invoice[i] \in {"draft", "issued"}
  /\ ~HasHostedPayment(i)
  /\ SetInvoice(i, "cancelled",
       IF invoice[i] = "issued" THEN {CancelEntry(i, revision[i] + 1)} ELSE {})
  /\ UNCHANGED <<mode, expected, allocations, exceptions, projection, evidence, shadow>>

SetStatus(a, to, e) ==
  /\ status' = [status EXCEPT ![a] = to]
  /\ version' = [version EXCEPT ![a] = @ + 1]
  /\ history' = history \cup {Change(a, version[a] + 1, to, e)}

(* The unique index payment_attempts_active_asset. *)
AssetTaken(a) ==
  \E b \in Attempts \ {a} :
    InvoiceOf[b] = InvoiceOf[a] /\ AssetOf[b] = AssetOf[a] /\ status[b] \in Pending

Create(a) ==
  /\ status[a] = "none"
  /\ invoice[InvoiceOf[a]] = "issued"
  /\ ~AssetTaken(a)
  /\ SetStatus(a, "awaiting_payment", 0)
  /\ expected' = expected \cup {a}
  /\ UNCHANGED <<mode, invoice, revision, allocations, exceptions, journal, evidence, shadow>>

(* expireAvailable: the expectation stays active for a late payment. *)
Expirable_Any(a) == status[a] \notin {"none", "expired"}
Expirable(a) == status[a] = "awaiting_payment"
Expire(a) ==
  /\ Expirable(a)
  /\ SetStatus(a, "expired", 0)
  /\ UNCHANGED <<mode, settlement, evidence, shadow>>

Promote ==
  /\ mode = "shadow"
  /\ mode' = "live"
  /\ UNCHANGED <<settlement, projection, evidence, shadow>>

-----------------------------------------------------------------------------
(* The chain, as ingestion records it. *)

Discover(e) ==
  /\ chain[e] = "absent"
  /\ status[AttemptOf[e]] # "none"
  /\ chain' = [chain EXCEPT ![e] = "confirmed"]
  /\ UNCHANGED <<mode, settlement, projection, agreed, shadow>>

(* A finality observation, or another representation of the transaction: a  *)
(* final state is kept, but for quarantine.                                 *)
Supersedes(s, old) == old \notin Final \/ s = "quarantined"

Observed(e, s) ==
  /\ chain[e] # "absent"
  /\ s # chain[e]
  /\ Supersedes(s, chain[e])
  /\ chain' = [chain EXCEPT ![e] = s]
  /\ UNCHANGED <<mode, settlement, projection, agreed, shadow>>

Agree(e) ==
  /\ DualProvider
  /\ chain[e] = "finalized"
  /\ e \notin agreed
  /\ agreed' = agreed \cup {e}
  /\ UNCHANGED <<mode, settlement, projection, chain, shadow>>

-----------------------------------------------------------------------------
(* projectOne(e), given that the projector may act on this organization     *)
(* (hasProjectionAuthority), which the revocation of a shadow organization  *)
(* does not ask for.                                                        *)

Rank == [s \in {"awaiting_payment", "detected", "confirmed", "finalized"} |->
           CASE s = "awaiting_payment" -> 0
             [] s = "detected" -> 1
             [] s = "confirmed" -> 2
             [] s = "finalized" -> 3]

CanAdvance(current, target) ==
  \/ current = "confirmation_revoked"
  \/ current \in DOMAIN Rank /\ Rank[current] < Rank[target]

InExpectation(e) == AttemptOf[e] \in expected

(* projectRevocation *)
CanRevoke(e) ==
  /\ InExpectation(e)
  /\ chain[e] \in Revoked
  /\ status[AttemptOf[e]] \in Provisional

Revoke(e) ==
  /\ CanRevoke(e)
  /\ version[AttemptOf[e]] < MaxVersion
  /\ SetStatus(AttemptOf[e], "confirmation_revoked", e)
  /\ UNCHANGED <<mode, settlement, evidence, shadow>>

(* advanceObservedState, for a transfer that is not final *)
CanObserve(e) ==
  /\ mode = "live"
  /\ InExpectation(e)
  /\ chain[e] \in Provisional
  /\ CanAdvance(status[AttemptOf[e]], chain[e])

Observe(e) ==
  /\ CanObserve(e)
  /\ version[AttemptOf[e]] < MaxVersion
  /\ SetStatus(AttemptOf[e], chain[e], e)
  /\ UNCHANGED <<mode, settlement, evidence, shadow>>

(* reconcileEvent *)
IsAllocation(e) == Match[e] = "exact" /\ invoice[InvoicePaidBy(e)] # "paid"

(* The transfer reaches projectAllocation or projectException. *)
MaySettle(e) ==
  /\ mode = "live"
  /\ InExpectation(e)
  /\ chain[e] = "finalized"
  /\ DualProvider => e \in agreed
  /\ status[AttemptOf[e]] \notin Settled

(* The statement that marks the invoice paid finds it issued. *)
InvoiceOpen_Any(i) == TRUE
InvoiceOpen(i) == invoice[i] = "issued"

(* The throws: an exact transfer finds the invoice neither issued nor paid, *)
(* or the receipt rounds to no minor unit.                                  *)
Throws(e) ==
  /\ MaySettle(e)
  /\ \/ IsAllocation(e) /\ ~InvoiceOpen(InvoicePaidBy(e))
     \/ ~IsAllocation(e) /\ Match[e] = "dust"

(* The history of a transfer that settles: "finalized" first, where the     *)
(* attempt can still advance to it.                                         *)
SettleStatus(a, to, e) ==
  IF CanAdvance(status[a], "finalized")
  THEN /\ status' = [status EXCEPT ![a] = to]
       /\ version' = [version EXCEPT ![a] = @ + 2]
       /\ history' = history \cup {Change(a, version[a] + 1, "finalized", e),
                                   Change(a, version[a] + 2, to, e)}
  ELSE SetStatus(a, to, e)

(* deactivated_at: the reference takes no other transfer. *)
Deactivated_Kept(a) == expected
Deactivated(a) == expected \ {a}

(* ensureInvoiceIssuedJournal and postReceiptJournal *)
ReceiptEntries(e, type) == IF Match[e] = "foreign" THEN {} ELSE {Receipt(type, e)}
Posting(e, type) ==
  {IssueEntry(InvoicePaidBy(e), revision[InvoicePaidBy(e)])} \cup ReceiptEntries(e, type)

Pay(e) ==
  /\ MaySettle(e)
  /\ IsAllocation(e)
  /\ InvoiceOpen(InvoicePaidBy(e))
  /\ allocations' = allocations \cup {e}
  /\ SetInvoice(InvoicePaidBy(e), "paid", Posting(e, "payment_received"))
  /\ SettleStatus(AttemptOf[e], "paid", e)
  /\ expected' = Deactivated(AttemptOf[e])
  /\ UNCHANGED <<mode, exceptions, evidence, shadow>>

SetAside(e) ==
  /\ MaySettle(e)
  /\ ~IsAllocation(e)
  /\ Match[e] # "dust"
  /\ exceptions' = exceptions \cup {e}
  /\ journal' = journal \cup Posting(e, "unapplied_receipt")
  /\ SettleStatus(AttemptOf[e], "exception", e)
  /\ expected' = Deactivated(AttemptOf[e])
  /\ UNCHANGED <<mode, invoice, revision, allocations, evidence, shadow>>

(* A shadow organization: the decision is taken in one transaction and      *)
(* stored in another, by another role.                                      *)
Decision(e) == [event |-> e, invoice |-> invoice[InvoicePaidBy(e)]]

CanDraft(e) ==
  /\ mode = "shadow"
  /\ InExpectation(e)
  /\ chain[e] = "finalized"

Draft(e) ==
  /\ CanDraft(e)
  /\ drafts' = drafts \cup {Decision(e)}
  /\ UNCHANGED <<mode, settlement, projection, evidence, proposals>>

Store(p) ==
  /\ drafts' = drafts \ {p}
  /\ proposals' = proposals \cup {p}
  /\ UNCHANGED <<mode, settlement, projection, evidence>>

LoseDraft(p) ==
  /\ drafts' = drafts \ {p}
  /\ UNCHANGED <<mode, settlement, projection, evidence, proposals>>

ProjectOne(e) == Revoke(e) \/ Observe(e) \/ Pay(e) \/ SetAside(e) \/ Draft(e)

Merchant ==
  \/ \E i \in Invoices : Issue(i) \/ Cancel(i)
  \/ \E a \in Attempts : Create(a) \/ Expire(a)
  \/ Promote

Chain == \E e \in Events :
  Discover(e) \/ Agree(e) \/ \E s \in Provisional \cup Outcomes : Observed(e, s)

Next ==
  \/ Merchant
  \/ Chain
  \/ \E e \in Events : ProjectOne(e)
  \/ \E p \in drafts : Store(p) \/ LoseDraft(p)

Spec == Init /\ [][Next]_vars

-----------------------------------------------------------------------------
(* Properties. *)

TypeOK ==
  /\ mode \in {"shadow", "live"}
  /\ invoice \in [Invoices -> InvoiceStatus]
  /\ revision \in [Invoices -> Nat]
  /\ status \in [Attempts -> Status]
  /\ version \in [Attempts -> Nat]
  /\ expected \subseteq Attempts
  /\ chain \in [Events -> ChainState]
  /\ agreed \subseteq Events
  /\ allocations \subseteq Events
  /\ exceptions \subseteq Events
  /\ journal \subseteq Entry
  /\ history \subseteq ChangeRow
  /\ drafts \subseteq Proposal
  /\ proposals \subseteq Proposal

(* An invoice is paid exactly when one transfer was allocated to it, no     *)
(* second one ever is, and the attempt that is shown as paid is the one     *)
(* whose reference that transfer carries: an expired quote, its successor   *)
(* and a quote in the other asset may all be paid by the customer.          *)
PaidByOneTransfer ==
  /\ \A i \in Invoices :
       invoice[i] = "paid" <=> \E e \in allocations : InvoicePaidBy(e) = i
  /\ \A d, e \in allocations : InvoicePaidBy(d) = InvoicePaidBy(e) => d = e
  /\ \A a \in Attempts :
       status[a] = "paid" <=> \E e \in allocations : AttemptOf[e] = a

(* A transfer is decided once, a reference takes one transfer, and the      *)
(* ledger holds the receipt of exactly the transfers that were decided: as  *)
(* a payment of the receivable if allocated, as unapplied cash if not.      *)
ReceiptsMatchDecisions ==
  /\ allocations \cap exceptions = {}
  /\ \A d, e \in allocations \cup exceptions : AttemptOf[d] = AttemptOf[e] => d = e
  /\ \A e \in Events :
       /\ Receipt("payment_received", e) \in journal <=> e \in allocations
       /\ Receipt("unapplied_receipt", e) \in journal
            <=> e \in exceptions /\ Match[e] # "foreign"

(* Nobody can still be asked to pay a cancelled invoice, and none was paid: *)
(* its attempts have expired or ended in an exception.                      *)
CancelledIsUncollected ==
  \A i \in Invoices : invoice[i] = "cancelled" =>
    /\ \A a \in Attempts : InvoiceOf[a] = i => status[a] \in {"none", "expired", "exception"}
    /\ \A e \in allocations : InvoicePaidBy(e) # i

(* The reference of an attempt is watched from its creation to its verdict, *)
(* an expired attempt's included, and never after.                          *)
WatchedUntilSettled ==
  expected = {a \in Attempts : status[a] \notin {"none"} \cup Settled}

(* Before its promotion an organization only proposes: no transfer moves a  *)
(* status, the ledger or an invoice.                                        *)
ShadowChangesNothing ==
  mode = "shadow" =>
    /\ allocations = {} /\ exceptions = {}
    /\ \A a \in Attempts : status[a] \in {"none", "awaiting_payment", "expired"}
    /\ \A x \in journal : x.type \in {"invoice_issued", "invoice_cancelled"}

(* The history of an attempt has one row for each version of its            *)
(* projection, without gaps, and the last one is the public status.         *)
HistoryTellsStatus ==
  \A a \in Attempts :
    LET rows == {r \in history : r.attempt = a} IN
    /\ {r.version : r \in rows} = 1..version[a]
    /\ \A r, s \in rows : r.version = s.version => r = s
    /\ \A r \in rows : r.version = version[a] => r.to = status[a]

(* What an attempt was settled by is final for good: no later observation   *)
(* makes it less, at most it is quarantined; both providers agreed on it    *)
(* where there are two; and only an exact transfer pays an invoice.         *)
SettledIsFinal ==
  /\ \A e \in allocations \cup exceptions :
       chain[e] \in {"finalized", "quarantined"} /\ (DualProvider => e \in agreed)
  /\ \A e \in allocations : Match[e] = "exact"

(* A verdict is never taken back, whatever the chain says later, and a      *)
(* decision and its ledger entries are never removed.                       *)
VerdictsStay ==
  [][ /\ \A a \in Attempts : status[a] \in Settled => status'[a] = status[a]
      /\ \A i \in Invoices : invoice[i] \in {"paid", "cancelled"} => invoice'[i] = invoice[i]
      /\ journal \subseteq journal' ]_vars

Abstract == INSTANCE Settlement WITH
  owed <- invoice, paying <- allocations, unmatched <- exceptions

(* The tables implement Settlement: whatever the order of quotes, expiries, *)
(* cancellations and transfers, each is settled at most once.               *)
ImplementsSettlement == Abstract!Spec
=============================================================================
