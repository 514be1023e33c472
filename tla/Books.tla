------------------------------- MODULE Books -------------------------------
(***************************************************************************)
(* The journal of a merchant, what is compared and what is exported from   *)
(* it (platform/src/operations/ledger-store.ts, accounting-export.ts,      *)
(* migration 4010).                                                        *)
(*                                                                         *)
(* An entry belongs to one version of its source: an invoice's issue or    *)
(* cancellation, a receipt, an opening balance, an adjustment.  Any        *)
(* transaction may post, one source or several; the same one may be posted *)
(* by several at a time (the issue of an invoice by whoever issues it and  *)
(* by the projector of each of its payments), and again after an answer    *)
(* was lost.  Two versions of one source are two sources here, as in the   *)
(* code: the books do not know that they are of one thing.                 *)
(*                                                                         *)
(* Transactions are READ COMMITTED; what one has inserted is seen by       *)
(* others when it commits, and its locks last until it ends.               *)
(***************************************************************************)
EXTENDS Integers, Sequences, FiniteSetsExt

CONSTANTS
  Posters,      \* transactions that post at a time
  Sources,      \* source type, id and version of a journal entry
  Contents,     \* of entries: what their digest is of
  Plans,        \* what a transaction posts, one after the other
  Observed,     \* balances a caller of a comparison may have been told
  MaxSlot, MaxTime, MaxExports,   \* bounds
  MaxRows       \* of an export (100 000)

Slots == 1..MaxSlot
Moments == 0..MaxTime

(* A normalized entry: the token units that its lines put on the cash       *)
(* account of the wallet at each slot (less what they take off), and when   *)
(* it occurred, which a caller says and may lie in the past.                *)
Posting == [source : Sources, content : Contents]

ASSUME BooksAssumption ==
  /\ {MaxSlot, MaxTime, MaxExports, MaxRows} \subseteq Nat
  /\ Contents \subseteq [cash : [Slots -> Int], occurred : Moments]
  /\ Observed \subseteq Nat
  /\ Plans \subseteq Seq(Posting) \ {<<>>}
  /\ \A plan \in Plans : \A k, l \in DOMAIN plan : plan[k].source = plan[l].source => k = l

VARIABLES
  journal,      \* journal_entries and their lines, committed
  tx,           \* the transactions that post
  posted,       \* history: what callers were told is posted
  refused,      \* history: postings refused because of what the books hold
  comparison,   \* ledger_reconciliations
  export        \* accounting_exports

books == <<journal, tx, posted, refused, comparison, export>>

Ended == [pc |-> "ended", plan |-> <<>>, at |-> 0, rows |-> {}]

BooksTypeOK ==
  /\ journal \subseteq Posting
  /\ tx \in [Posters -> [pc : {"ended", "waiting", "locked", "absent", "done"},
                         plan : Plans \cup {<<>>}, at : Nat, rows : SUBSET Posting]]
  /\ posted \subseteq Posting /\ refused \subseteq Posting
  /\ \A c \in comparison : c.slot \in Slots /\ c.observed \in Observed
  /\ export \in Seq([from : Moments, through : Moments, rows : SUBSET Posting])

BooksInit ==
  /\ journal = {} /\ tx = [p \in Posters |-> Ended] /\ posted = {} /\ refused = {}
  /\ comparison = {} /\ export = <<>>

-----------------------------------------------------------------------------
(* postJournalEntry, statement by statement. *)

Current(p) == tx[p].plan[tx[p].at]

(* The advisory locks of a transaction. *)
Holds(p, source) ==
  \E k \in 1..tx[p].at :
    /\ tx[p].plan[k].source = source
    /\ k < tx[p].at \/ tx[p].pc \in {"locked", "absent", "done"}

(* Mutant: the lock is not waited for. *)
LockIsFree_Any(p) == TRUE
LockIsFree(p) == \A q \in Posters \ {p} : ~Holds(q, Current(p).source)

(* What a statement of the transaction sees under the source. *)
Existing(p) == {e \in journal \cup tx[p].rows : e.source = Current(p).source}

Goes(p, pc) == tx' = [tx EXCEPT ![p].pc = pc]

(* An error ends the transaction, and what it had inserted is gone. *)
Refuse(p) ==
  /\ refused' = refused \cup {Current(p)}
  /\ tx' = [tx EXCEPT ![p] = Ended]

BeginPosting(p, plan) ==
  /\ tx[p].pc = "ended"
  /\ tx' = [tx EXCEPT ![p] = [Ended EXCEPT !.pc = "waiting", !.plan = plan, !.at = 1]]
  /\ UNCHANGED refused

Lock(p) ==
  /\ tx[p].pc = "waiting" /\ LockIsFree(p)
  /\ Goes(p, "locked") /\ UNCHANGED refused

(* The same content is the answer; another is journal_source_conflict. *)
ReadExisting(p) ==
  /\ tx[p].pc = "locked"
  /\ \/ Existing(p) = {} /\ Goes(p, "absent") /\ UNCHANGED refused
     \/ Current(p) \in Existing(p) /\ Goes(p, "done") /\ UNCHANGED refused
     \/ Existing(p) # {} /\ Current(p) \notin Existing(p) /\ Refuse(p)

(* The unique index makes an insertion wait for another one that is not     *)
(* committed, and fail (ledger_store_unavailable) when there is an entry.   *)
Insert(p) ==
  /\ tx[p].pc = "absent"
  /\ \A q \in Posters \ {p} : \A e \in tx[q].rows : e.source # Current(p).source
  /\ IF Existing(p) # {} THEN Refuse(p)
     ELSE /\ tx' = [tx EXCEPT ![p] =
               [tx[p] EXCEPT !.pc = "done", !.rows = tx[p].rows \cup {Current(p)}]]
          /\ UNCHANGED refused

NextPosting(p) ==
  /\ tx[p].pc = "done" /\ tx[p].at < Len(tx[p].plan)
  /\ tx' = [tx EXCEPT ![p] = [tx[p] EXCEPT !.pc = "waiting", !.at = tx[p].at + 1]]
  /\ UNCHANGED refused

(* Another statement of the transaction fails, it is chosen as the victim   *)
(* of a deadlock, or its process dies.                                      *)
Rollback(p) ==
  /\ tx[p].pc # "ended"
  /\ tx' = [tx EXCEPT ![p] = Ended] /\ UNCHANGED refused

(* The answer may be lost. *)
Commit(p) ==
  /\ tx[p].pc = "done" /\ tx[p].at = Len(tx[p].plan)
  /\ journal' = journal \cup tx[p].rows
  /\ posted' \in {posted, posted \cup {tx[p].plan[k] : k \in 1..tx[p].at}}
  /\ tx' = [tx EXCEPT ![p] = Ended]
  /\ UNCHANGED <<refused, comparison, export>>

Statement(p) ==
  /\ \/ \E plan \in Plans : BeginPosting(p, plan)
     \/ Lock(p) \/ ReadExisting(p) \/ Insert(p) \/ NextPosting(p) \/ Rollback(p)
  /\ UNCHANGED <<journal, posted, comparison, export>>

-----------------------------------------------------------------------------
(* The cash lines up to a slot, of whatever entries. *)
LedgerAt(slot) ==
  MapThenSumSet(LAMBDA e : MapThenSumSet(LAMBDA s : e.content.cash[s], 1..slot), journal)

(* reconcileWallet, in one statement, with the balance its caller was told  *)
(* of.  A slot is compared once.                                            *)
ReconcileWallet(slot, balance) ==
  /\ \A c \in comparison : c.slot # slot
  /\ comparison' = comparison \cup
       {[slot |-> slot, observed |-> balance, difference |-> balance - LedgerAt(slot)]}
  /\ UNCHANGED <<journal, tx, posted, refused, export>>

InRange(e, from, through) ==
  from <= e.content.occurred /\ e.content.occurred < through

(* One row more than allowed is asked for, and refuses the export           *)
(* (accounting_export_too_large); the rows are stored as they are.  A row   *)
(* is a line of the code's; here it is an entry.                            *)
Generate(from, through) ==
  LET rows == {e \in journal : InRange(e, from, through)}
  IN /\ from < through
     /\ Len(export) < MaxExports
     /\ Cardinality(rows) <= MaxRows
     /\ export' = Append(export, [from |-> from, through |-> through, rows |-> rows])
     /\ UNCHANGED <<journal, tx, posted, refused, comparison>>

BooksNext ==
  \/ \E p \in Posters : Statement(p) \/ Commit(p)
  \/ \E slot \in Slots, balance \in Observed : ReconcileWallet(slot, balance)
  \/ \E from, through \in Moments : Generate(from, through)

BooksSpec == BooksInit /\ [][BooksNext]_books

-----------------------------------------------------------------------------
(* Safety: whoever is told that a version of a source is posted finds his   *)
(* own lines in the books, under it no others, and nobody is refused but by *)
(* one who posted something else under it: so the issue of an invoice, its  *)
(* receipts, and a posting sent again are not turned away by a transaction  *)
(* that posts the same at the same time, or that began to and was rolled    *)
(* back (ledger-store.ts:239-252).  Under another version the same thing    *)
(* may be booked again.                                                     *)
BookedAsTold ==
  /\ posted \subseteq journal
  /\ \A d, e \in journal : d.source = e.source => d = e
  /\ \A r \in refused : \E e \in journal : e.source = r.source /\ e # r

=============================================================================
