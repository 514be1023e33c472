---------------------- MODULE StandaloneReconciliation ----------------------
(***************************************************************************)
(* Matching of finalized transfers with imported invoices                  *)
(* (packages/reconciliation/src: reconciliation-service.ts, engine/,       *)
(* storage/postgres-reconciliation-store.ts, import/invoice-csv.ts).       *)
(*                                                                         *)
(* A run lists the invoices and the undecided finalized events with two    *)
(* statements, decides in memory, and writes one decision per transaction. *)
(* The transaction decides again on the rows it locks and writes only what *)
(* it agrees with.  Runs of several processes overlap, files are imported  *)
(* and the chain moves between any two statements.                         *)
(*                                                                         *)
(* The tests of reconcile-event.ts on asset, destination, time and amount  *)
(* are one: whether the event fits the terms of the invoice.  The two      *)
(* codes for an event without an invoice are one.                          *)
(***************************************************************************)
EXTENDS Naturals, FiniteSets, SequencesExt

CONSTANTS
  Ids, References, Terms,   \* what a line of a file holds
  Files,        \* the files an operator may import: sequences of lines
  Events,       \* numbered in the order of their ids
  RefsOf,       \* the references each event carries
  Fits,         \* the terms each event fits
  Runners,
  None

ASSUME ReconciliationAssumption ==
  /\ Events \subseteq Nat /\ IsFiniteSet(Events)
  /\ RefsOf \in [Events -> SUBSET References]
  /\ Fits \in [Events -> SUBSET Terms]
  /\ None \notin Ids

(* parseInvoiceCsv: no id and no reference twice in a file. *)
ParsedFile(file) ==
  \A k, l \in DOMAIN file :
    k # l => file[k].id # file[l].id /\ file[k].ref # file[l].ref

ASSUME FilesAssumption ==
  \A file \in Files :
    file \in Seq([id : Ids, ref : References, terms : Terms]) /\ ParsedFile(file)

VARIABLES
  invoices,     \* reconciliation_invoices
  chain,        \* current_state of chain_events
  decided,      \* reconciliation_allocations and _exceptions, per event
  run,          \* what each runner holds
  result,       \* reconciliation_runs, the last run of each runner
  quiet         \* history: nothing moved since the run began but the run

reconciliation == <<invoices, chain, decided, run, result, quiet>>

Invoice == [ref : References, terms : Terms, status : {"open", "matched", "exception"}]
Codes == {"exact", "unreferenced", "ambiguous", "duplicate", "mismatch"}
Decision == [event : Events, code : Codes, invoice : Ids \cup {None}]
NoRun == [pc |-> "idle", invoices |-> None, found |-> None, todo |-> <<>>]

ReconciliationTypeOK ==
  /\ invoices \in [Ids -> Invoice \cup {None}]
  /\ chain \in [Events -> {"pending", "finalized", "gone"}]
  /\ decided \in [Events -> Decision \cup {None}]
  /\ \A r \in Runners : /\ run[r].pc \in {"idle", "listing", "deciding", "writing"}
                        /\ run[r].todo \in Seq(Decision)
  /\ result \in [Runners -> {"none", "running", "complete", "failed"}]
  /\ quiet \in [Runners -> BOOLEAN]

ReconciliationInit ==
  /\ invoices = [i \in Ids |-> None]
  /\ chain = [e \in Events |-> "pending"]
  /\ decided = [e \in Events |-> None]
  /\ run = [r \in Runners |-> NoRun]
  /\ result = [r \in Runners |-> "none"]
  /\ quiet = [r \in Runners |-> FALSE]

-----------------------------------------------------------------------------
(* The rule *)

ReferredBy(e, table) == {i \in Ids : table[i] # None /\ table[i].ref \in RefsOf[e]}

Rule(e, table) ==
  LET referred == ReferredBy(e, table)
      i == CHOOSE x \in referred : TRUE
      On(code, invoice) == [event |-> e, code |-> code, invoice |-> invoice]
  IN  CASE referred = {}               -> On("unreferenced", None)
        [] Cardinality(referred) > 1   -> On("ambiguous", None)
        [] OTHER -> On(IF table[i].status = "matched" THEN "duplicate"
                       ELSE IF table[i].terms \in Fits[e] THEN "exact" ELSE "mismatch", i)

(* What a decision does to the table the batch keeps. *)
Matched(table, d) ==
  IF d.code = "exact" THEN [table EXCEPT ![d.invoice].status = "matched"] ELSE table

(* reconcileBatch: one decision after the other, in the order of event ids *)
Batch(events, table) ==
  LET Next1(acc, e) == LET d == Rule(e, acc.table)
                       IN  [table |-> Matched(acc.table, d), out |-> Append(acc.out, d)]
  IN  FoldLeft(Next1, [table |-> table, out |-> <<>>], SetToSortSeq(events, <)).out

-----------------------------------------------------------------------------
(* Locks of the transactions under way: the event and the invoices it refers *)
(* to when they are read.                                                    *)

Writing == {r \in Runners : run[r].pc = "writing"}
EventFree(e) == \A r \in Writing : Head(run[r].todo).event # e
LockedInvoices == UNION {ReferredBy(Head(run[r].todo).event, run[r].invoices) : r \in Writing}

Disturbed(others) == quiet' = [r \in Runners |-> quiet[r] /\ r \notin others]

(* importInvoices: one transaction; a line that meets other data undoes it. *)
SameLine(line, i) == /\ i = line.id
                     /\ invoices[i].ref = line.ref /\ invoices[i].terms = line.terms

Met(line) == {i \in Ids : invoices[i] # None /\ (i = line.id \/ invoices[i].ref = line.ref)}

Import(file) ==
  LET lines == ToSet(file)
      new == {line \in lines : Met(line) = {}}
  IN  /\ \A line \in lines : /\ \A i \in Met(line) : SameLine(line, i)
                             /\ Met(line) \cap LockedInvoices = {}
      /\ new # {}
      /\ invoices' = [i \in Ids |->
           IF \E line \in new : line.id = i
           THEN LET line == CHOOSE l \in new : l.id = i
                IN  [ref |-> line.ref, terms |-> line.terms, status |-> "open"]
           ELSE invoices[i]]
      /\ Disturbed(Runners)
      /\ UNCHANGED <<chain, decided, run, result>>

(* External: the finality engine and the consensus of providers. *)
ChainMoves(e) ==
  /\ EventFree(e)
  /\ \/ chain[e] = "pending" /\ chain' = [chain EXCEPT ![e] = "finalized"]
     \/ chain[e] = "finalized" /\ chain' = [chain EXCEPT ![e] = "gone"]
  /\ Disturbed(Runners)
  /\ UNCHANGED <<invoices, decided, run, result>>

-----------------------------------------------------------------------------
(* runReconciliation *)

Candidates == {e \in Events : chain[e] = "finalized" /\ decided[e] = None}

StartRun(r) ==
  /\ run[r].pc = "idle"
  /\ run' = [run EXCEPT ![r].pc = "listing"]
  /\ result' = [result EXCEPT ![r] = "running"]
  /\ quiet' = [quiet EXCEPT ![r] = TRUE]
  /\ UNCHANGED <<invoices, chain, decided>>

(* The two statements are sent together and run in either order. *)
ListInvoices(r) ==
  /\ run[r].pc = "listing" /\ run[r].invoices = None
  /\ run' = [run EXCEPT ![r].invoices = invoices]
  /\ UNCHANGED <<invoices, chain, decided, result, quiet>>

ListCandidates(r) ==
  /\ run[r].pc = "listing" /\ run[r].found = None
  /\ run' = [run EXCEPT ![r].found = Candidates]
  /\ UNCHANGED <<invoices, chain, decided, result, quiet>>

Decide(r) ==
  /\ run[r].pc = "listing" /\ run[r].invoices # None /\ run[r].found # None
  /\ run' = [run EXCEPT ![r].pc = "deciding", ![r].invoices = None,
                        ![r].todo = Batch(run[r].found, run[r].invoices)]
  /\ UNCHANGED <<invoices, chain, decided, result, quiet>>

(* Mutant: the transaction takes the decision it is given. *)
Agrees_Given(d) == TRUE

(* decisionsMatch with loadCanonicalDecision, which finds finalized events *)
Agrees(d) == chain[d.event] = "finalized" /\ Rule(d.event, invoices) = d

(* A transaction of recordDecision that writes nothing: its event has a    *)
(* decision, is not finalized any more, or is now decided otherwise.       *)
Skip(r) ==
  /\ run[r].pc = "deciding" /\ run[r].todo # <<>>
  /\ LET d == Head(run[r].todo)
     IN  /\ EventFree(d.event)
         /\ decided[d.event] # None \/
            (ReferredBy(d.event, invoices) \cap LockedInvoices = {} /\ ~Agrees(d))
  /\ run' = [run EXCEPT ![r].todo = Tail(@)]
  /\ UNCHANGED <<invoices, chain, decided, result, quiet>>

(* One that agrees, up to its INSERT: it holds its locks. *)
Load(r) ==
  /\ run[r].pc = "deciding" /\ run[r].todo # <<>>
  /\ LET d == Head(run[r].todo)
     IN  /\ EventFree(d.event) /\ decided[d.event] = None
         /\ ReferredBy(d.event, invoices) \cap LockedInvoices = {}
         /\ Agrees(d)
  /\ run' = [run EXCEPT ![r].pc = "writing", ![r].invoices = invoices]
  /\ UNCHANGED <<invoices, chain, decided, result, quiet>>

Excepted(d) == invoices[d.invoice].status = "open"

StatusAfter(d) ==
  CASE d.code = "exact"                        -> [invoices EXCEPT ![d.invoice].status = "matched"]
    [] d.invoice # None /\ d.code # "exact"    ->
         IF Excepted(d) THEN [invoices EXCEPT ![d.invoice].status = "exception"] ELSE invoices
    [] OTHER                                   -> invoices

(* The rows and the status of the invoice at commit.  An allocation whose  *)
(* invoice has one would insert nothing and return.                        *)
Write(r) ==
  LET d == Head(run[r].todo)
      taken == d.code = "exact" /\ \E e \in Events : /\ decided[e] # None
                                                     /\ decided[e].code = "exact"
                                                     /\ decided[e].invoice = d.invoice
  IN  /\ run[r].pc = "writing"
      /\ run' = [run EXCEPT ![r].pc = "deciding", ![r].invoices = None, ![r].todo = Tail(@)]
      /\ IF taken THEN UNCHANGED <<invoices, decided>>
                  ELSE /\ decided' = [decided EXCEPT ![d.event] = d]
                       /\ invoices' = StatusAfter(d)
      /\ Disturbed(Runners \ {r})
      /\ UNCHANGED <<chain, result>>

Complete(r) ==
  /\ run[r].pc = "deciding" /\ run[r].todo = <<>>
  /\ run' = [run EXCEPT ![r] = NoRun]
  /\ result' = [result EXCEPT ![r] = "complete"]
  /\ Disturbed({r})
  /\ UNCHANGED <<invoices, chain, decided>>

(* A statement fails, or the process dies: its transaction is undone. *)
Stop(r, how) ==
  /\ run[r].pc # "idle"
  /\ run' = [run EXCEPT ![r] = NoRun]
  /\ result' = [result EXCEPT ![r] = how]
  /\ Disturbed({r})
  /\ UNCHANGED <<invoices, chain, decided>>

Fail(r) == Stop(r, "failed")
Crash(r) == Stop(r, "running")

RunnerStep(r) ==
  \/ StartRun(r) \/ ListInvoices(r) \/ ListCandidates(r) \/ Decide(r)
  \/ Skip(r) \/ Load(r) \/ Write(r) \/ Complete(r)

ReconciliationNext ==
  \/ \E file \in Files : Import(file)
  \/ \E e \in Events : ChainMoves(e)
  \/ \E r \in Runners : RunnerStep(r) \/ Fail(r) \/ Crash(r)

ReconciliationSpec == ReconciliationInit /\ [][ReconciliationNext]_reconciliation

-----------------------------------------------------------------------------
(* Properties *)

(* A transfer pays an invoice only while it is final, and only an invoice   *)
(* that is not paid yet (open, or set aside as an exception before), whose  *)
(* reference it carries and whose terms it fits, whatever a run had read:   *)
(* between reading and writing the chain and other runs move.               *)
AllocatedWhenDue ==
  [][\A e \in Events : decided[e] = None /\ decided'[e] # None /\ decided'[e].code = "exact" =>
       LET i == decided'[e].invoice
       IN  /\ chain[e] = "finalized"
           /\ invoices[i].ref \in RefsOf[e] /\ invoices[i].terms \in Fits[e]
           /\ invoices[i].status # "matched"]_reconciliation

=============================================================================
