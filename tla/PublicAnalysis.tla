---------------------------- MODULE PublicAnalysis ----------------------------
(***************************************************************************)
(* The public analysis of a wallet: one request walks the transactions of  *)
(* the wallet's two token accounts through an RPC node, newest first and   *)
(* page by page, fetches what it found and answers with the transfers of   *)
(* the range.  Its signatures, its transactions and its pages are limited, *)
(* the node may refuse an answer, and the chain goes on meanwhile: the     *)
(* answer tells whether it is "complete" or "partial".                     *)
(*                                                                         *)
(* The chain is a sequence of transactions in the order of their slots, of *)
(* which the node shows the first "shown" and has finalized the first      *)
(* "final".  A transaction that touches an account holds one transfer of   *)
(* it.  Requests share nothing but the counter of the rate limit, so a     *)
(* behaviour is about one; others have counted before it.                  *)
(***************************************************************************)
EXTENDS Naturals, Sequences, FiniteSets

CONSTANTS
  Chains,          \* sequences of transactions a behaviour may be about
  PageLimit,       \* most entries a page is asked for
  MaxSignatures,   \* [Doors -> Nat]
  MaxTransactions, \* [Doors -> Nat]
  WindowLimit      \* requests through the API in one window

Doors == {"api", "web"}
Times == {"early", "within", "late"}

(* The associated accounts of the wallet, in the order they are walked: the *)
(* one for USDC and the one for USDT.                                       *)
Watched == 1..2

(* How a transaction may be: whether its time is left out of a listing, the *)
(* accounts on which it has an instruction that cannot be read, and whether *)
(* it has more references than a transfer shows.                            *)
Transactions ==
  [touches : SUBSET Watched, time : Times, undated : BOOLEAN, ok : BOOLEAN,
   odd : SUBSET Watched, crowded : BOOLEAN]

(* Time does not run backwards. *)
IsOrdered(c) ==
  \A i, j \in 1..Len(c) : i < j /\ c[j].time = "early" => c[i].time = "early"

ASSUME AnalysisAssumption ==
  /\ PageLimit \in Nat \ {0}
  /\ MaxSignatures \in [Doors -> Nat \ {0}]
  /\ MaxTransactions \in [Doors -> Nat \ {0}]
  /\ \A c \in Chains : c \in Seq(Transactions) /\ IsOrdered(c)

VARIABLES
  txs,   \* transactions by slot: what they touch, when, and how they are made
  shown,   \* how many of them the node shows
  final,   \* how many of them it has finalized
  count,   \* requests counted in the window of the rate limit
  req      \* the request

analysis == <<txs, shown, final, count, req>>

Txs == 1..Len(txs)
Results == {"missing", "dated", "undated"}     \* of a fetch

NoRequest == [stage |-> "none"]
AnalysisInit ==
  /\ txs \in Chains
  /\ shown = 0 /\ final = 0
  /\ count \in {0, WindowLimit}
  /\ req = NoRequest

-----------------------------------------------------------------------------
(* The chain: a transaction is shown, and later finalized, and neither is   *)
(* taken back here.                                                         *)
Show ==
  /\ shown < Len(txs)
  /\ shown' = shown + 1
  /\ UNCHANGED <<txs, final, count, req>>

FinalizeNext ==
  /\ final < shown
  /\ final' = final + 1
  /\ UNCHANGED <<txs, shown, count, req>>

-----------------------------------------------------------------------------
Fresh(door) ==
  [stage |-> "list", door |-> door, since |-> final, account |-> 1,
   before |-> Len(txs) + 1, inspected |-> 0, partial |-> FALSE,
   on |-> [t \in Txs |-> {}], kept |-> {}, got |-> [t \in Txs |-> "unread"]]

InFlight == req.stage \in {"list", "fetch"}

(* The route of the API counts a request, a refused one too, before it is   *)
(* begun; the handler of the web application has smaller limits instead.    *)
Ask ==
  /\ req = NoRequest
  /\ count' = count + 1
  /\ req' = IF count' <= WindowLimit THEN Fresh("api") ELSE [stage |-> "limited"]
  /\ UNCHANGED <<txs, shown, final>>

AskEmbedded ==
  /\ req = NoRequest
  /\ req' = Fresh("web")
  /\ UNCHANGED <<txs, shown, final, count>>

NextWindow ==
  /\ count > 0
  /\ req = NoRequest
  /\ count' = 0
  /\ UNCHANGED <<txs, shown, final, req>>

-----------------------------------------------------------------------------
(* Entries of an account older than a signature.                            *)
Entries(account, before) ==
  {t \in Txs : t <= shown /\ t < before /\ account \in txs[t].touches}

(* The n newest ones of S. *)
Newest(S, n) == {t \in S : Cardinality({s \in S : s > t}) < n}
Oldest(S) == CHOOSE t \in S : \A s \in S : t <= s

Remaining(r) == MaxSignatures[r.door] - r.inspected
Limit(r) == IF PageLimit < Remaining(r) THEN PageLimit ELSE Remaining(r)

(* The node answers what it was asked for, or one entry more. *)
Pages(r) == {Newest(Entries(r.account, r.before), n) : n \in {Limit(r), Limit(r) + 1}}
Inspected(r, page) == Newest(page, Limit(r))

(* An entry without a block time neither ends the walk nor is left out.     *)
EndsWalk(t) == ~txs[t].undated /\ txs[t].time = "early"

IsCandidate(t) ==
  /\ txs[t].ok /\ t <= final
  /\ txs[t].undated \/ txs[t].time # "late"

(* Entries of a page up to the first before the range.                      *)
Walked(page) == {t \in page : \A s \in page : EndsWalk(s) => t > s}
ReachesBoundary(page) == \E t \in page : EndsWalk(t)

(* What the walk of a page adds to the candidates. *)
Noted(r, page) ==
  [r EXCEPT
    !.inspected = @ + Cardinality(page),
    !.partial = @ \/ \E t \in Walked(page) : txs[t].undated,
    !.on = [t \in Txs |-> IF t \in Walked(page) /\ IsCandidate(t)
                          THEN @[t] \cup {r.account} ELSE @[t]]]

(* The candidates, in the order they were found: by the first account that  *)
(* they were found on, and newest first.                                    *)
Found(r) == {t \in Txs : r.on[t] # {}}
FoundBefore(r, s, t) ==
  LET first(x) == IF 1 \in r.on[x] THEN 1 ELSE 2
  IN  first(s) < first(t) \/ (first(s) = first(t) /\ s > t)

(* After the last account the candidates are cut. *)
NextAccount(r) ==
  LET most == MaxTransactions[r.door]
  IN  IF r.account = 1
      THEN [r EXCEPT !.account = 2, !.before = Len(txs) + 1]
      ELSE [r EXCEPT
             !.stage = "fetch",
             !.partial = @ \/ Cardinality(Found(r)) > most,
             !.kept = {t \in Found(r) :
                         Cardinality({s \in Found(r) : FoundBefore(r, s, t)}) < most}]

Partial(r) == [r EXCEPT !.partial = TRUE]

(* What follows a page.                                                     *)
(* Mutant: a walk that its limit ends counts as one to the end. *)
AfterPage_Silent(r, page) ==
  LET s == Noted(IF Cardinality(page) > Limit(r) THEN Partial(r) ELSE r, Inspected(r, page))
  IN  IF page = {} THEN NextAccount(r)
      ELSE IF \/ ReachesBoundary(Inspected(r, page)) \/ Cardinality(page) < Limit(r)
              \/ Remaining(s) = 0
           THEN NextAccount(s)
      ELSE [s EXCEPT !.before = Oldest(page)]
AfterPage(r, page) ==
  LET s == Noted(IF Cardinality(page) > Limit(r) THEN Partial(r) ELSE r, Inspected(r, page))
  IN  IF page = {} THEN NextAccount(r)
      ELSE IF ReachesBoundary(Inspected(r, page)) \/ Cardinality(page) < Limit(r)
           THEN NextAccount(s)
      ELSE IF Remaining(s) = 0 THEN NextAccount(Partial(s))
      ELSE [s EXCEPT !.before = Oldest(page)]

ListPage ==
  /\ req.stage = "list"
  /\ IF Remaining(req) = 0
     THEN req' = NextAccount(Partial(req))
     ELSE \/ \E page \in Pages(req) : req' = AfterPage(req, page)
          \/ req' = NextAccount(Partial(req))     \* refused by the node's rate limit
  /\ UNCHANGED <<txs, shown, final, count>>

-----------------------------------------------------------------------------
(* Candidates are fetched in any order.  A refused fetch is a missing one,  *)
(* and a fetched transaction may have no block time of its own.             *)
FetchTransaction(t) ==
  /\ req.stage = "fetch"
  /\ t \in req.kept /\ req.got[t] = "unread"
  /\ \E g \in Results : (g = "missing" \/ t <= final) /\ req' = [req EXCEPT !.got[t] = g]
  /\ UNCHANGED <<txs, shown, final, count>>

Dated(r, t) == r.got[t] = "dated" \/ (r.got[t] = "undated" /\ ~txs[t].undated)
InRange(r, t) == Dated(r, t) /\ txs[t].time = "within"

(* An instruction of a token program that is no transfer and names the      *)
(* account fails the whole analysis.                                        *)
Unreadable(r) == \E t \in r.kept :
  InRange(r, t) /\ txs[t].odd \cap r.on[t] # {}

(* Transfers of the transactions on the accounts they were found on, in the *)
(* order of the candidates and of the accounts.                             *)
Transfers(r) ==
  {x \in r.kept \X Watched : InRange(r, x[1]) /\ x[2] \in r.on[x[1]]}
TransferBefore(r, x, y) ==
  FoundBefore(r, x[1], y[1]) \/ (x[1] = y[1] /\ x[2] < y[2])

Answer(r) ==
  LET all == Transfers(r)
      most == MaxTransactions[r.door]
  IN  [stage |-> "answered", since |-> r.since,
       transfers |-> {x \in all : Cardinality({y \in all : TransferBefore(r, y, x)}) < most},
       partial |-> \/ r.partial
                   \/ Cardinality(all) > most
                   \/ \E t \in r.kept : ~InRange(r, t) \/ txs[t].crowded]

Reply ==
  /\ req.stage = "fetch"
  /\ \A t \in req.kept : req.got[t] # "unread"
  /\ req' = IF Unreadable(req) THEN [stage |-> "unavailable"] ELSE Answer(req)
  /\ UNCHANGED <<txs, shown, final, count>>

(* The node fails otherwise, or twenty seconds are over. *)
Unavailable ==
  /\ InFlight
  /\ req' = [stage |-> "unavailable"]
  /\ UNCHANGED <<txs, shown, final, count>>

AnalysisNext ==
  \/ Show \/ FinalizeNext \/ NextWindow
  \/ Ask \/ AskEmbedded
  \/ ListPage
  \/ \E t \in Txs : FetchTransaction(t)
  \/ Reply \/ Unavailable

AnalysisSpec == AnalysisInit /\ [][AnalysisNext]_analysis

-----------------------------------------------------------------------------
(* Safety: what an answer lists is of the range, finalized and without an   *)
(* error, and one that says it is complete lists every such transfer that   *)
(* was finalized when the request began, however the walk was cut into      *)
(* pages, whatever the node left out and while the chain goes on.  One that *)
(* is finalized during the request may be missing, although the answer says *)
(* it is complete (wallet-analysis.ts:172-258).                             *)
CompleteIsWhole ==
  LET listed(t, a) == /\ t \in Txs /\ a \in txs[t].touches
                      /\ txs[t].ok /\ txs[t].time = "within"
  IN  req.stage = "answered" =>
        /\ \A x \in req.transfers : x[1] <= final /\ listed(x[1], x[2])
        /\ ~req.partial => \A t \in 1..req.since, a \in Watched :
                             listed(t, a) => <<t, a>> \in req.transfers

=============================================================================
