--------------------------- MODULE MCMerchantDesk ---------------------------
(***************************************************************************)
(* TLC instance of what a merchant sees of his payments: ExceptionDesk,    *)
(* Books and WebhookExchange.  They share no variable, and walks, packs    *)
(* and the screens of operators only read the cases: one part of them runs *)
(* in each behaviour, with bounds of its own.                              *)
(***************************************************************************)
EXTENDS ExceptionDesk, Books, WebhookExchange, TLC

CONSTANTS WalkIds, PackIds   \* the ids of cases in those parts

VARIABLE part

mcVars == <<vars, books, exchange, part>>

MCInit ==
  /\ Init /\ BooksInit /\ ExchangeInit
  /\ part \in {"decisions", "walk", "pack", "posting", "figures", "exchange"}
  /\ part # "exchange" => receiver = NewReceiver(CHOOSE S \in SecretPairs : TRUE)

OneOperator == CHOOSE a \in Operators : TRUE

RaiseIn(ids) ==
  \E i \in ids, t \in Times, own \in BOOLEAN :
    /\ part = "walk" => ~own
    /\ part # "walk" => t = 1
    /\ RaiseCase(i, t, own)

(* One operator works, with a step of each direction, while others read. *)
Work(ids, version) ==
  \E a \in {OneOperator} :
    \/ Escalate(a) \/ Resolve(a, "resolved") \/ Reopen(a)
    \/ \E i \in ids : case[i] # None /\ case[i].version < version /\ Look(a, i)

(* Comparisons and exports only read what is committed: one transaction at  *)
(* a time posts beside them.                                                *)
MCNext ==
  \/ /\ part = "decisions"
     /\ \/ RaiseIn({1})
        \/ \E a \in Operators : Decide(a) \/ Look(a, 1)
     /\ UNCHANGED <<books, exchange, part>>
  \/ /\ part = "walk"
     /\ \/ RaiseIn(WalkIds) \/ NextPage \/ Work(WalkIds, 2)
        \/ \E filter \in {{"open"}, States} : StartWalk(filter)
     /\ UNCHANGED <<books, exchange, part>>
  \/ /\ part = "pack"
     /\ RaiseIn(PackIds) \/ Prove \/ Work(PackIds, 3)
     /\ UNCHANGED <<books, exchange, part>>
  \/ /\ part \in {"posting", "figures"} /\ BooksNext
     /\ part = "posting" => UNCHANGED <<comparison, export>>
     /\ part = "figures" => Cardinality({p \in Posters : tx'[p] # Ended}) <= 1
     /\ UNCHANGED <<vars, exchange, part>>
  \/ part = "exchange" /\ ExchangeNext /\ UNCHANGED <<vars, books, part>>

MCSpec == MCInit /\ [][MCNext]_mcVars

Symmetry == Permutations(Posters)

(* An issue, its receipt as two projections would post it, and an opening   *)
(* balance that was corrected between two attempts to post it.              *)
Lines(slot, amount, occurred) ==
  [cash |-> [s \in Slots |-> IF s = slot THEN amount ELSE 0], occurred |-> occurred]
Issue == [source |-> "issue", content |-> Lines(0, 0, 0)]
Receipt(t) == [source |-> "receipt", content |-> Lines(2, 2, t)]
Opening(amount) == [source |-> "opening", content |-> Lines(1, amount, 0)]

MCSources == {"issue", "receipt", "opening"}
MCPlans == {<<Issue>>, <<Issue, Receipt(0)>>, <<Issue, Receipt(1)>>,
            <<Opening(1)>>, <<Opening(-1)>>}
MCContents == UNION {{plan[k].content : k \in DOMAIN plan} : plan \in MCPlans}
=============================================================================
