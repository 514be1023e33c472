-------------------------- MODULE ReceivingProofs --------------------------
(***************************************************************************)
(* Proofs about how an organization comes to be paid: MerchantWallets,     *)
(* Checkout and QuoteAmounts, for any organizations, addresses, assets,    *)
(* keys, requests, times, numbers of rows, lines, prices and rates.        *)
(***************************************************************************)
EXTENDS MerchantWallets, Checkout, QuoteAmounts, SequenceTheorems, WellFoundedInduction, TLAPS

-----------------------------------------------------------------------------
(* MerchantWallets. *)

Replacing == {"request", "activate"}
InTransaction == {"locked", "waiting"}

(* What a request on a server can rely on: its challenge and its wallet are *)
(* its organization's, and what its transaction has locked stays so.        *)
GoodRequest(q) ==
  /\ challenge[q.challenge] # None /\ challenge[q.challenge].org = q.org
  /\ q.now <= clock
  /\ q.kind \in Replacing =>
       q.wallet \in Wallets /\ wallet[q.wallet] # None /\ wallet[q.wallet].org = q.org
  /\ q.kind = "request" /\ q.pc \in InTransaction => Active(q.wallet)
  /\ q.kind = "activate" /\ q.pc \in InTransaction =>
       pending[q.wallet] # None /\ pending[q.wallet].activates <= q.now
  /\ q.pc = "waiting" => ~challenge[q.challenge].used
  /\ q.pc = "waiting" /\ q.kind = "activate" =>
       challenge[q.challenge].address = pending[q.wallet].address

RequestsAreGood == \A r \in Requests : req[r] # None => GoodRequest(req[r])

(* Two requests that one of a challenge's or a pending row's lock keeps     *)
(* apart.                                                                   *)
Meet(q, s) ==
  \/ q.pc = "waiting" /\ s.pc = "waiting" /\ q.challenge = s.challenge
  \/ /\ q.kind = "activate" /\ s.kind = "activate" /\ q.wallet = s.wallet
     /\ q.pc \in InTransaction /\ s.pc \in InTransaction

LocksExclude ==
  \A r, s \in Requests :
    req[r] # None /\ req[s] # None /\ Meet(req[r], req[s]) => r = s

(* A pending replacement is of an active wallet, and was proven.            *)
PendingIsProven ==
  \A w \in Wallets : pending[w] # None =>
    /\ Active(w)
    /\ challenge[pending[w].challenge] # None /\ challenge[pending[w].challenge].used
    /\ challenge[pending[w].challenge].org = wallet[w].org
    /\ challenge[pending[w].challenge].address = pending[w].address
    /\ pending[w].activates >= Cooling

OneIsActive ==
  /\ \A w \in Wallets : wallet[w] # None => (wallet[w].watched <=> wallet[w].status = "active")
  /\ \A v, w \in Wallets : Active(v) /\ Active(w) /\ wallet[v].org = wallet[w].org => v = w
  /\ \A w \in Wallets : wallet[w] # None =>
       \E v \in Wallets : Active(v) /\ wallet[v].org = wallet[w].org

ProvenTwice(w) ==
  \E p, q \in proofs[w] :
    /\ p.challenge # q.challenge /\ p.at + Cooling <= q.at
    /\ challenge[p.challenge] # None /\ challenge[q.challenge] # None
    /\ challenge[p.challenge].address = wallet[w].address
    /\ challenge[q.challenge].address = wallet[w].address
    /\ challenge[p.challenge].org = wallet[w].org
    /\ challenge[q.challenge].org = wallet[w].org

(* A wallet that is not its organization's only one was proven twice.       *)
ChangesAreProven ==
  \A w, old \in Wallets :
    w # old /\ Active(w) /\ wallet[old] # None /\ wallet[w].org = wallet[old].org
      => ProvenTwice(w)

UsesAreCounted ==
  \A c \in Challenges :
    uses[c] = IF challenge[c] # None /\ challenge[c].used THEN 1 ELSE 0

WalletsInv ==
  /\ TypeOK
  /\ RequestsAreGood /\ LocksExclude /\ PendingIsProven
  /\ OneIsActive /\ ChangesAreProven /\ UsesAreCounted

LEMMA WalletsInit == Init => WalletsInv
<1> SUFFICES ASSUME Init PROVE WalletsInv
  OBVIOUS
<1>1. TypeOK
  BY WalletsAssumption DEF Init, TypeOK
<1>2. RequestsAreGood /\ LocksExclude /\ PendingIsProven
  BY DEF Init, RequestsAreGood, LocksExclude, PendingIsProven
<1>3. OneIsActive /\ ChangesAreProven /\ UsesAreCounted
  BY DEF Init, OneIsActive, ChangesAreProven, UsesAreCounted, Active
<1> QED
  BY <1>1, <1>2, <1>3 DEF WalletsInv

(* A request goes on, or ends without a commit. *)
LEMMA RequestMoves ==
  ASSUME WalletsInv, NEW r \in Requests, NEW q \in Request \cup {None},
         req' = [req EXCEPT ![r] = q],
         UNCHANGED <<clock, challenge, wallet, pending, uses, proofs>>,
         q # None => GoodRequest(q),
         \A s \in Requests \ {r} : req[s] # None /\ q # None => ~Meet(q, req[s])
  PROVE  WalletsInv'
<1> USE DEF WalletsInv
<1>1. TypeOK'
  BY DEF TypeOK
<1>2. \A s \in Requests : req'[s] = IF s = r THEN q ELSE req[s]
  BY DEF TypeOK
<1>3. RequestsAreGood'
  <2>1. ASSUME NEW s \in Requests, req'[s] # None PROVE GoodRequest(req'[s])
    BY <1>2, <2>1 DEF RequestsAreGood
  <2> QED
    BY <2>1 DEF RequestsAreGood, GoodRequest, Active
<1>4. LocksExclude'
  BY <1>2 DEF LocksExclude, Meet
<1>5. PendingIsProven' /\ OneIsActive' /\ UsesAreCounted'
  BY DEF PendingIsProven, OneIsActive, UsesAreCounted, Active
<1>6. ChangesAreProven'
  BY DEF ChangesAreProven, ProvenTwice, Active
<1> QED
  BY <1>1, <1>3, <1>4, <1>5, <1>6

LEMMA AskedKeeps ==
  ASSUME WalletsInv, NEW r \in Requests, NEW o \in Orgs, NEW c \in Challenges,
         NEW kind \in Kinds, NEW w \in Wallets \cup {None}, Asked(r, kind, o, c, w),
         kind \in Replacing => w \in WalletsOf(o)
  PROVE  WalletsInv'
<1> DEFINE q == [kind |-> kind, org |-> o, challenge |-> c,
                 wallet |-> w, now |-> clock, pc |-> "asked"]
<1>1. clock \in Time /\ clock \in Nat
  BY WalletsAssumption DEF WalletsInv, TypeOK, Time
<1>2. q \in Request
  BY <1>1 DEF Request
<1>3. GoodRequest(q)
  BY <1>1 DEF GoodRequest, Asked, WalletsOf, InTransaction
<1>4. \A s \in Requests : ~Meet(q, req[s])
  BY DEF Meet, InTransaction
<1>5. req' = [req EXCEPT ![r] = q] /\ UNCHANGED <<clock, challenge, wallet, pending, uses, proofs>>
  BY DEF Asked
<1> HIDE DEF q
<1> QED
  BY <1>2, <1>3, <1>4, <1>5, RequestMoves

LEMMA LockKeeps ==
  ASSUME WalletsInv, NEW r \in Requests, Lock(r)
  PROVE  WalletsInv'
<1> DEFINE q == [req[r] EXCEPT !.pc = "locked"]
<1>1. req[r] \in Request /\ GoodRequest(req[r]) /\ req[r] # None
  BY DEF WalletsInv, TypeOK, RequestsAreGood, Lock
<1>2. /\ q \in Request /\ q.pc = "locked"
      /\ q.kind = req[r].kind /\ q.org = req[r].org /\ q.challenge = req[r].challenge
      /\ q.wallet = req[r].wallet /\ q.now = req[r].now
  BY <1>1 DEF Request
<1>3. req' = [req EXCEPT ![r] = q] /\ UNCHANGED <<clock, challenge, wallet, pending, uses, proofs>>
  BY DEF Lock, WalletsInv, TypeOK
<1>4. CASE req[r].kind = "register"
  <2> HIDE DEF q
  <2>1. GoodRequest(q)
    BY <1>1, <1>2, <1>4 DEF GoodRequest, Replacing
  <2>2. \A s \in Requests : ~Meet(q, req[s])
    BY <1>2, <1>4 DEF Meet
  <2> QED
    BY <1>2, <1>3, <2>1, <2>2, RequestMoves
<1>5. CASE req[r].kind = "request"
  <2>1. Active(req[r].wallet)
    BY <1>5 DEF Lock
  <2> HIDE DEF q
  <2>2. GoodRequest(q)
    BY <1>1, <1>2, <1>5, <2>1 DEF GoodRequest
  <2>3. \A s \in Requests : ~Meet(q, req[s])
    BY <1>2, <1>5 DEF Meet
  <2> QED
    BY <1>2, <1>3, <2>2, <2>3, RequestMoves
<1>6. CASE req[r].kind = "activate"
  <2>1. PendingFree(req[r].wallet) /\ Cooled(req[r].wallet, req[r].now)
    BY <1>6 DEF Lock
  <2> HIDE DEF q
  <2>2. GoodRequest(q)
    BY <1>1, <1>2, <1>6, <2>1 DEF GoodRequest, Cooled
  <2>3. \A s \in Requests : req[s] # None => ~Meet(q, req[s])
    BY <1>2, <1>6, <2>1 DEF Meet, PendingFree, Doing, Past, InTransaction
  <2> QED
    BY <1>2, <1>3, <2>2, <2>3, RequestMoves
<1> QED
  BY <1>1, <1>4, <1>5, <1>6 DEF Request, Kinds

LEMMA ProveKeeps ==
  ASSUME WalletsInv, NEW r \in Requests, Prove(r)
  PROVE  WalletsInv'
<1> DEFINE q == [req[r] EXCEPT !.pc = "waiting"]
<1>1. req[r] \in Request /\ GoodRequest(req[r]) /\ req[r] # None /\ req[r].pc = "locked"
  BY DEF WalletsInv, TypeOK, RequestsAreGood, Prove
<1>2. /\ q \in Request /\ q.pc = "waiting"
      /\ q.kind = req[r].kind /\ q.org = req[r].org /\ q.challenge = req[r].challenge
      /\ q.wallet = req[r].wallet /\ q.now = req[r].now
  BY <1>1 DEF Request
<1>3. req' = [req EXCEPT ![r] = q] /\ UNCHANGED <<clock, challenge, wallet, pending, uses, proofs>>
  BY DEF Prove, WalletsInv, TypeOK
<1> HIDE DEF q
<1>4. GoodRequest(q)
  BY <1>1, <1>2 DEF GoodRequest, Prove, Valid, AddressAgrees, InTransaction
<1>5. ASSUME NEW s \in Requests \ {r}, req[s] # None PROVE ~Meet(q, req[s])
  <2>1. ~(req[s].pc = "waiting" /\ req[s].challenge = q.challenge)
    BY <1>2, <1>5 DEF Prove, Valid, ChallengeFree
  <2>2. ~Meet(req[r], req[s])
    BY <1>1, <1>5 DEF WalletsInv, LocksExclude
  <2> QED
    BY <1>1, <1>2, <2>1, <2>2 DEF Meet, InTransaction
<1> QED
  BY <1>2, <1>3, <1>4, <1>5, RequestMoves

LEMMA RollbackKeeps ==
  ASSUME WalletsInv, NEW r \in Requests, Rollback(r)
  PROVE  WalletsInv'
<1> QED
  BY RequestMoves DEF Rollback

LEMMA CreateChallengeKeeps ==
  ASSUME WalletsInv, NEW o \in Orgs, NEW a \in Addresses, CreateChallenge(o, a)
  PROVE  WalletsInv'
<1> USE DEF WalletsInv
<1> DEFINE n == [org |-> o, address |-> a, expires |-> clock + Lifetime, used |-> FALSE]
<1>1. PICK c \in Challenges : challenge[c] = None /\ challenge' = [challenge EXCEPT ![c] = n]
  BY DEF CreateChallenge, NextOf, TypeOK
<1>2. UNCHANGED <<clock, wallet, pending, req, uses, proofs>>
  BY DEF CreateChallenge
<1>3. n \in Challenge /\ n # None /\ ~n.used
  <2>1. clock + Lifetime \in Time
    BY WalletsAssumption DEF TypeOK, Time
  <2>2. n \in Challenge
    BY <2>1 DEF Challenge
  <2> QED
    BY <2>2, NoneAssumption
<1> HIDE DEF n
<1>4. \A d \in Challenges : challenge'[d] = IF d = c THEN n ELSE challenge[d]
  BY <1>1 DEF TypeOK
<1>5. TypeOK'
  BY <1>1, <1>2, <1>3 DEF TypeOK
<1>6. RequestsAreGood'
  <2> SUFFICES ASSUME NEW r \in Requests, req[r] # None PROVE GoodRequest(req[r])'
    BY <1>2 DEF RequestsAreGood
  <2>1. GoodRequest(req[r]) /\ req[r] \in Request
    BY DEF RequestsAreGood, TypeOK
  <2>2. challenge'[req[r].challenge] = challenge[req[r].challenge]
    BY <1>1, <1>4, <2>1 DEF GoodRequest, Request
  <2> QED
    BY <1>2, <2>1, <2>2 DEF GoodRequest, Active
<1>7. LocksExclude' /\ OneIsActive'
  BY <1>2 DEF LocksExclude, OneIsActive, Active, Meet
<1>8. PendingIsProven'
  <2> SUFFICES ASSUME NEW w \in Wallets, pending[w] # None
               PROVE  challenge'[pending[w].challenge] = challenge[pending[w].challenge]
    BY <1>2 DEF PendingIsProven, Active
  <2>1. pending[w] \in Replacement
    BY DEF TypeOK
  <2> QED
    BY <1>1, <1>4, <2>1 DEF PendingIsProven, Replacement
<1>9. ChangesAreProven'
  <2> SUFFICES ASSUME NEW w \in Wallets, ProvenTwice(w) PROVE ProvenTwice(w)'
    BY <1>2 DEF ChangesAreProven, Active
  <2>1. PICK p \in proofs[w], q \in proofs[w] :
          /\ p.challenge # q.challenge /\ p.at + Cooling <= q.at
          /\ challenge[p.challenge] # None /\ challenge[q.challenge] # None
          /\ challenge[p.challenge].address = wallet[w].address
          /\ challenge[q.challenge].address = wallet[w].address
          /\ challenge[p.challenge].org = wallet[w].org
          /\ challenge[q.challenge].org = wallet[w].org
    BY DEF ProvenTwice
  <2>2. p \in Proof /\ q \in Proof
    BY DEF TypeOK
  <2>3. challenge'[p.challenge] = challenge[p.challenge]
        /\ challenge'[q.challenge] = challenge[q.challenge]
    BY <1>1, <1>4, <2>1, <2>2 DEF Proof
  <2> QED
    BY <1>2, <2>1, <2>3 DEF ProvenTwice
<1>10. UsesAreCounted'
  BY <1>1, <1>2, <1>3, <1>4 DEF UsesAreCounted
<1> QED
  BY <1>5, <1>6, <1>7, <1>8, <1>9, <1>10

-----------------------------------------------------------------------------
(* A commit. *)

(* What the use of a challenge does to the tables and the requests. *)
LEMMA UsedFacts ==
  ASSUME WalletsInv, NEW r \in Requests, req[r] # None, req[r].pc = "waiting", Used(r)
  PROVE  /\ req[r] \in Request /\ GoodRequest(req[r])
         /\ challenge' \in [Challenges -> Challenge \cup {None}]
         /\ \A d \in Challenges : challenge'[d] = None <=> challenge[d] = None
         /\ \A d \in Challenges : challenge[d] # None =>
              /\ challenge'[d].org = challenge[d].org
              /\ challenge'[d].address = challenge[d].address
              /\ challenge'[d].used <=> challenge[d].used \/ d = req[r].challenge
         /\ uses' \in [Challenges -> Nat] /\ UsesAreCounted'
         /\ req' \in [Requests -> Request \cup {None}]
         /\ \A s \in Requests : req'[s] = IF s = r THEN None ELSE req[s]
         /\ \A s \in Requests \ {r} : req[s] # None /\ req[s].pc = "waiting"
                                        => req[s].challenge # req[r].challenge
         /\ LocksExclude'
<1> USE DEF WalletsInv
<1> DEFINE c == req[r].challenge
           n == [challenge[c] EXCEPT !.used = TRUE]
<1>1. req[r] \in Request /\ GoodRequest(req[r]) /\ c \in Challenges
  BY DEF TypeOK, RequestsAreGood, Request
<1>2. challenge[c] \in Challenge /\ challenge[c] # None /\ ~challenge[c].used
  BY <1>1 DEF TypeOK, GoodRequest
<1>3. /\ n \in Challenge /\ n # None /\ n.used
      /\ n.org = challenge[c].org /\ n.address = challenge[c].address
  <2>1. /\ n \in Challenge /\ n.used
        /\ n.org = challenge[c].org /\ n.address = challenge[c].address
    BY <1>2 DEF Challenge
  <2> HIDE DEF n
  <2> QED
    BY <2>1, NoneAssumption
<1>4. challenge' = [challenge EXCEPT ![c] = n]
  BY DEF Used
<1>5. /\ uses' = [uses EXCEPT ![c] = uses[c] + 1]
      /\ req' = [req EXCEPT ![r] = None]
  BY DEF Used
<1> HIDE DEF n
<1>6. \A d \in Challenges : challenge'[d] = IF d = c THEN n ELSE challenge[d]
  BY <1>1, <1>4 DEF TypeOK
<1>7. challenge' \in [Challenges -> Challenge \cup {None}]
  BY <1>3, <1>4 DEF TypeOK
<1>8. \A d \in Challenges : challenge'[d] = None <=> challenge[d] = None
  BY <1>2, <1>3, <1>6
<1>9. ASSUME NEW d \in Challenges, challenge[d] # None
      PROVE  /\ challenge'[d].org = challenge[d].org
             /\ challenge'[d].address = challenge[d].address
             /\ challenge'[d].used <=> challenge[d].used \/ d = c
  BY <1>2, <1>3, <1>6
<1>10. uses' \in [Challenges -> Nat] /\ UsesAreCounted'
  <2> DEFINE k == uses[c] + 1
  <2>a. k \in Nat
    BY <1>1 DEF TypeOK
  <2>b. uses' = [uses EXCEPT ![c] = k]
    BY <1>5
  <2>1. uses' \in [Challenges -> Nat]
    <3> HIDE DEF k
    <3> QED
      BY <2>a, <2>b DEF TypeOK
  <2>2. \A d \in Challenges : uses'[d] = IF d = c THEN uses[c] + 1 ELSE uses[d]
    BY <1>1, <1>5 DEF TypeOK
  <2>3. uses[c] = 0
    BY <1>1, <1>2 DEF UsesAreCounted
  <2> QED
    BY <1>2, <1>3, <1>6, <2>1, <2>2, <2>3 DEF UsesAreCounted
<1>11. req' \in [Requests -> Request \cup {None}]
  BY <1>5 DEF TypeOK
<1>12. \A s \in Requests : req'[s] = IF s = r THEN None ELSE req[s]
  BY <1>5 DEF TypeOK
<1>13. \A s \in Requests \ {r} : req[s] # None /\ req[s].pc = "waiting" => req[s].challenge # c
  BY DEF LocksExclude, Meet
<1>14. LocksExclude'
  BY <1>12 DEF LocksExclude, Meet
<1> QED
  BY <1>1, <1>7, <1>8, <1>9, <1>10, <1>11, <1>12, <1>13, <1>14

(* The requests that go on are as good as before: the commit took none of   *)
(* the rows that they had locked.                                           *)
LEMMA OthersStayGood ==
  ASSUME WalletsInv, NEW r \in Requests, req[r] # None, req[r].pc = "waiting", Used(r),
         clock' = clock,
         \A w \in Wallets : wallet[w] # None => wallet'[w] # None /\ wallet'[w].org = wallet[w].org,
         \A s \in Requests \ {r} :
           req[s] # None /\ req[s].kind = "request" /\ req[s].pc \in InTransaction
             => wallet'[req[s].wallet] = wallet[req[s].wallet],
         \A s \in Requests \ {r} :
           req[s] # None /\ req[s].kind = "activate" /\ req[s].pc \in InTransaction
             => pending'[req[s].wallet] = pending[req[s].wallet]
  PROVE  RequestsAreGood'
<1> SUFFICES ASSUME NEW s \in Requests, req'[s] # None PROVE GoodRequest(req[s])'
  BY DEF RequestsAreGood
<1>1. /\ s # r /\ req'[s] = req[s] /\ req[s] # None
      /\ req[s].pc = "waiting" => req[s].challenge # req[r].challenge
  BY UsedFacts
<1> DEFINE q == req[s]
<1>2. q \in Request /\ GoodRequest(q) /\ q.challenge \in Challenges
  BY <1>1 DEF WalletsInv, TypeOK, RequestsAreGood, Request
<1>3. challenge[q.challenge] # None /\ challenge[q.challenge].org = q.org
  BY <1>2 DEF GoodRequest
<1>4. /\ challenge'[q.challenge] # None
      /\ challenge'[q.challenge].org = challenge[q.challenge].org
      /\ challenge'[q.challenge].address = challenge[q.challenge].address
      /\ challenge'[q.challenge].used <=> challenge[q.challenge].used \/ q.challenge = req[r].challenge
  BY <1>2, <1>3, UsedFacts
<1>5. q.pc = "waiting" => ~challenge'[q.challenge].used
  BY <1>1, <1>2, <1>4 DEF GoodRequest
<1>6. q.kind \in Replacing =>
        q.wallet \in Wallets /\ wallet'[q.wallet] # None /\ wallet'[q.wallet].org = q.org
  BY <1>2 DEF GoodRequest
<1>7. q.kind = "request" /\ q.pc \in InTransaction => Active(req[s].wallet)'
  BY <1>1, <1>2 DEF GoodRequest, Active
<1>8. q.kind = "activate" /\ q.pc \in InTransaction =>
        pending'[q.wallet] = pending[q.wallet]
  BY <1>1
<1>9. q.pc = "waiting" => q.pc \in InTransaction
  BY DEF InTransaction
<1>10. q = req'[s]
  BY <1>1
<1> QED
  BY <1>2, <1>3, <1>4, <1>5, <1>6, <1>7, <1>8, <1>9, <1>10 DEF GoodRequest

(* A wallet's proofs stay proofs of its address. *)
LEMMA ProvenStays ==
  ASSUME WalletsInv, NEW w \in Wallets, ProvenTwice(w),
         wallet'[w].org = wallet[w].org, wallet'[w].address = wallet[w].address,
         proofs'[w] = proofs[w],
         \A d \in Challenges : challenge'[d] = None <=> challenge[d] = None,
         \A d \in Challenges : challenge[d] # None =>
           challenge'[d].org = challenge[d].org /\ challenge'[d].address = challenge[d].address
  PROVE  ProvenTwice(w)'
<1>1. PICK p \in proofs[w], q \in proofs[w] :
        /\ p.challenge # q.challenge /\ p.at + Cooling <= q.at
        /\ challenge[p.challenge] # None /\ challenge[q.challenge] # None
        /\ challenge[p.challenge].address = wallet[w].address
        /\ challenge[q.challenge].address = wallet[w].address
        /\ challenge[p.challenge].org = wallet[w].org
        /\ challenge[q.challenge].org = wallet[w].org
  BY DEF ProvenTwice
<1>2. p.challenge \in Challenges /\ q.challenge \in Challenges
  BY DEF WalletsInv, TypeOK, Proof
<1> QED
  BY <1>1, <1>2 DEF ProvenTwice

(* A pending replacement stays proven when its row and its wallet stay. *)
LEMMA PendingStays ==
  ASSUME WalletsInv, NEW r \in Requests, req[r] # None, req[r].pc = "waiting", Used(r),
         NEW w \in Wallets, pending[w] # None, wallet'[w] = wallet[w]
  PROVE  /\ Active(w)'
         /\ challenge'[pending[w].challenge] # None
         /\ challenge'[pending[w].challenge].used
         /\ challenge'[pending[w].challenge].org = wallet'[w].org
         /\ challenge'[pending[w].challenge].address = pending[w].address
         /\ pending[w].activates >= Cooling
<1>1. pending[w].challenge \in Challenges
  BY DEF WalletsInv, TypeOK, Replacement
<1>2. /\ Active(w)
      /\ challenge[pending[w].challenge] # None /\ challenge[pending[w].challenge].used
      /\ challenge[pending[w].challenge].org = wallet[w].org
      /\ challenge[pending[w].challenge].address = pending[w].address
      /\ pending[w].activates >= Cooling
  BY DEF WalletsInv, PendingIsProven
<1>3. Active(w)'
  BY <1>2 DEF Active
<1> QED
  BY <1>1, <1>2, <1>3, UsedFacts

LEMMA RequestReplacementKeeps ==
  ASSUME WalletsInv, NEW r \in Requests, RequestReplacement(r)
  PROVE  WalletsInv'
<1> DEFINE w == req[r].wallet
           c == req[r].challenge
           n == [address |-> challenge[c].address,
                 activates |-> req[r].now + Cooling, challenge |-> c]
<1>1. /\ req[r] # None /\ req[r].pc = "waiting" /\ req[r].kind = "request" /\ Used(r)
      /\ pending[w] = None /\ pending' = [pending EXCEPT ![w] = n]
      /\ UNCHANGED <<clock, wallet, proofs>>
  BY DEF RequestReplacement
<1>2. req[r] \in Request /\ GoodRequest(req[r]) /\ c \in Challenges /\ req[r].now \in Nat
  BY <1>1, UsedFacts DEF Request, Time
<1>3. /\ w \in Wallets /\ wallet[w].org = req[r].org /\ Active(w)
      /\ challenge[c] # None /\ challenge[c].org = req[r].org /\ challenge[c] \in Challenge
      /\ req[r].now <= clock
  BY <1>1, <1>2 DEF GoodRequest, Replacing, InTransaction, WalletsInv, TypeOK
<1>4. n \in Replacement /\ n # None
  <2>1. req[r].now + Cooling \in Time
    BY <1>2, <1>3, WalletsAssumption DEF WalletsInv, TypeOK, Time
  <2>2. n \in Replacement
    BY <1>2, <1>3, <2>1 DEF Replacement, Challenge
  <2> HIDE DEF n
  <2> QED
    BY <2>2, NoneAssumption
<1>5. n.activates >= Cooling /\ n.challenge = c /\ n.address = challenge[c].address
  BY <1>2, WalletsAssumption
<1> HIDE DEF n
<1>6. \A v \in Wallets : pending'[v] = IF v = w THEN n ELSE pending[v]
  BY <1>1, <1>3 DEF WalletsInv, TypeOK
<1>7. TypeOK'
  BY <1>1, <1>4, UsedFacts DEF WalletsInv, TypeOK
<1>8. RequestsAreGood'
  <2>1. \A v \in Wallets : wallet[v] # None => wallet'[v] # None /\ wallet'[v].org = wallet[v].org
    BY <1>1
  <2>2. ASSUME NEW s \in Requests \ {r}, req[s] # None, req[s].kind = "request",
               req[s].pc \in InTransaction
        PROVE  wallet'[req[s].wallet] = wallet[req[s].wallet]
    <3>1. Active(req[s].wallet)
      BY <2>2 DEF WalletsInv, RequestsAreGood, GoodRequest
    <3> QED
      BY <1>1, <3>1 DEF Active
  <2>3. ASSUME NEW s \in Requests \ {r}, req[s] # None, req[s].kind = "activate",
               req[s].pc \in InTransaction
        PROVE  pending'[req[s].wallet] = pending[req[s].wallet]
    <3>1. req[s].wallet \in Wallets /\ pending[req[s].wallet] # None
      BY <2>3 DEF WalletsInv, RequestsAreGood, GoodRequest, Replacing
    <3> QED
      BY <1>1, <1>6, <3>1
  <2>4. clock' = clock
    BY <1>1
  <2> QED
    BY <1>1, <2>1, <2>2, <2>3, <2>4, OthersStayGood
<1>9. PendingIsProven'
  <2> SUFFICES ASSUME NEW v \in Wallets, pending'[v] # None
               PROVE  /\ Active(v)'
                      /\ challenge'[pending'[v].challenge] # None
                      /\ challenge'[pending'[v].challenge].used
                      /\ challenge'[pending'[v].challenge].org = wallet'[v].org
                      /\ challenge'[pending'[v].challenge].address = pending'[v].address
                      /\ pending'[v].activates >= Cooling
    BY DEF PendingIsProven
  <2>1. CASE v = w
    <3>1. pending'[v] = n
      BY <1>6, <2>1
    <3>2. /\ challenge'[c] # None /\ challenge'[c].used
          /\ challenge'[c].org = challenge[c].org
          /\ challenge'[c].address = challenge[c].address
      BY <1>1, <1>2, <1>3, UsedFacts
    <3>3. Active(v)' /\ wallet'[v].org = req[r].org
      BY <1>1, <1>3, <2>1 DEF Active
    <3> QED
      BY <1>3, <1>5, <3>1, <3>2, <3>3
  <2>2. CASE v # w
    <3>1. pending'[v] = pending[v] /\ pending[v] # None /\ wallet'[v] = wallet[v]
      BY <1>1, <1>6, <2>2
    <3> QED
      BY <1>1, <3>1, PendingStays
  <2> QED
    BY <2>1, <2>2
<1>10. OneIsActive'
  BY <1>1 DEF WalletsInv, OneIsActive, Active
<1>11. ChangesAreProven'
  <2> SUFFICES ASSUME NEW v \in Wallets, ProvenTwice(v) PROVE ProvenTwice(v)'
    BY <1>1 DEF WalletsInv, ChangesAreProven, Active
  <2>1. wallet'[v].org = wallet[v].org /\ wallet'[v].address = wallet[v].address
        /\ proofs'[v] = proofs[v]
    BY <1>1
  <2> QED
    BY <1>1, <2>1, UsedFacts, ProvenStays
<1> QED
  BY <1>1, <1>7, <1>8, <1>9, <1>10, <1>11, UsedFacts DEF WalletsInv

LEMMA RegisterKeeps ==
  ASSUME WalletsInv, NEW r \in Requests, NEW new \in Wallets, Register(r, new)
  PROVE  WalletsInv'
<1> DEFINE o == req[r].org
           c == req[r].challenge
           a == challenge[c].address
           n == NewWallet(o, a)
<1>1. /\ req[r] # None /\ req[r].pc = "waiting" /\ req[r].kind = "register" /\ Used(r)
      /\ wallet[new] = None /\ Free(o, a, Wallets)
      /\ wallet' = [wallet EXCEPT ![new] = n]
      /\ proofs' = [proofs EXCEPT ![new] = {ProofOf(r)}]
      /\ UNCHANGED <<clock, pending>>
  BY DEF Register, NextOf
<1>2. /\ req[r] \in Request /\ GoodRequest(req[r]) /\ c \in Challenges /\ o \in Orgs
      /\ req[r].now \in Time
  BY <1>1, UsedFacts DEF Request
<1>3. challenge[c] \in Challenge /\ a \in Addresses
  BY <1>2 DEF WalletsInv, TypeOK, GoodRequest, Challenge
<1>4. /\ n \in Wallet /\ n # None
      /\ n.org = o /\ n.status = "active" /\ n.watched
  <2>1. n \in Wallet /\ n.org = o /\ n.status = "active" /\ n.watched
    BY <1>2, <1>3 DEF Wallet, NewWallet
  <2> HIDE DEF n
  <2> QED
    BY <2>1, NoneAssumption
<1>5. ProofOf(r) \in Proof
  BY <1>2 DEF ProofOf, Proof
<1> HIDE DEF n
<1>6. \A v \in Wallets : wallet'[v] = IF v = new THEN n ELSE wallet[v]
  BY <1>1 DEF WalletsInv, TypeOK
<1>7. \A v \in Wallets : wallet[v] # None => wallet'[v] = wallet[v]
  BY <1>1, <1>6
<1>8. TypeOK'
  <2>1. wallet' \in [Wallets -> Wallet \cup {None}]
    BY <1>1, <1>4 DEF WalletsInv, TypeOK
  <2>2. proofs' \in [Wallets -> SUBSET Proof]
    BY <1>1, <1>5 DEF WalletsInv, TypeOK
  <2> QED
    BY <1>1, <2>1, <2>2, UsedFacts DEF WalletsInv, TypeOK
<1>9. RequestsAreGood'
  <2>1. \A v \in Wallets : wallet[v] # None => wallet'[v] # None /\ wallet'[v].org = wallet[v].org
    BY <1>7
  <2>2. ASSUME NEW s \in Requests \ {r}, req[s] # None, req[s].kind = "request",
               req[s].pc \in InTransaction
        PROVE  wallet'[req[s].wallet] = wallet[req[s].wallet]
    <3>1. Active(req[s].wallet) /\ req[s].wallet \in Wallets
      BY <2>2 DEF WalletsInv, RequestsAreGood, GoodRequest, Replacing
    <3> QED
      BY <1>7, <3>1 DEF Active
  <2>3. \A s \in Requests \ {r} :
          req[s] # None /\ req[s].kind = "activate" /\ req[s].pc \in InTransaction
            => pending'[req[s].wallet] = pending[req[s].wallet]
    BY <1>1
  <2>4. clock' = clock
    BY <1>1
  <2> QED
    BY <1>1, <2>1, <2>2, <2>3, <2>4, OthersStayGood
<1>10. PendingIsProven'
  <2>1. ASSUME NEW v \in Wallets, pending[v] # None PROVE wallet'[v] = wallet[v]
    BY <1>7, <2>1 DEF WalletsInv, PendingIsProven, Active
  <2> QED
    BY <1>1, <2>1, PendingStays DEF PendingIsProven
<1>11. \A v \in Wallets : wallet[v] # None => wallet[v].org # o
  BY <1>1 DEF WalletsInv, OneIsActive, Free
<1>12. OneIsActive'
  BY <1>4, <1>6, <1>7, <1>11 DEF WalletsInv, OneIsActive, Active
<1>13. ChangesAreProven'
  <2> SUFFICES ASSUME NEW v \in Wallets, NEW old \in Wallets, v # old, Active(v)',
                      wallet'[old] # None, wallet'[v].org = wallet'[old].org
               PROVE  ProvenTwice(v)'
    BY DEF ChangesAreProven
  <2>1. v # new /\ old # new
    BY <1>4, <1>6, <1>11 DEF Active
  <2>2. wallet'[v] = wallet[v] /\ wallet'[old] = wallet[old] /\ proofs'[v] = proofs[v]
    BY <1>1, <1>6, <2>1 DEF WalletsInv, TypeOK
  <2>3. ProvenTwice(v)
    BY <2>2 DEF WalletsInv, ChangesAreProven, Active
  <2> QED
    BY <1>1, <2>2, <2>3, UsedFacts, ProvenStays
<1> QED
  BY <1>1, <1>8, <1>9, <1>10, <1>12, <1>13, UsedFacts DEF WalletsInv

LEMMA ActivateReplacementKeeps ==
  ASSUME WalletsInv, NEW r \in Requests, NEW new \in Wallets, ActivateReplacement(r, new)
  PROVE  WalletsInv'
<1> DEFINE w == req[r].wallet
           o == wallet[w].org
           c == req[r].challenge
           p == pending[w]
           x == [wallet[w] EXCEPT !.status = "replaced", !.watched = FALSE]
           n == NewWallet(o, p.address)
           f == [challenge |-> p.challenge, at |-> p.activates - Cooling]
<1>1. /\ req[r] # None /\ req[r].pc = "waiting" /\ req[r].kind = "activate" /\ Used(r)
      /\ WalletFree(w) /\ Active(w) /\ wallet[new] = None
      /\ wallet' = Replaced(w, new)
      /\ pending' = [pending EXCEPT ![w] = None]
      /\ proofs' = [proofs EXCEPT ![new] = {ProofOf(r), f}]
      /\ clock' = clock
  BY DEF ActivateReplacement, NextOf
<1>2. /\ req[r] \in Request /\ GoodRequest(req[r]) /\ c \in Challenges
      /\ req[r].now \in Time /\ req[r].now \in Nat
  BY <1>1, UsedFacts DEF Request, Time
<1>3. /\ w \in Wallets /\ w # new /\ wallet[w] \in Wallet /\ wallet[w] # None /\ o \in Orgs
      /\ req[r].org = o
  BY <1>1, <1>2 DEF GoodRequest, Replacing, WalletsInv, TypeOK, Active, Wallet
<1>4. /\ p \in Replacement /\ p # None /\ p.activates <= req[r].now
      /\ p.address \in Addresses /\ p.challenge \in Challenges /\ p.activates \in Time
      /\ challenge[c] # None /\ ~challenge[c].used
      /\ challenge[c].org = o /\ challenge[c].address = p.address
  BY <1>1, <1>2, <1>3 DEF GoodRequest, InTransaction, WalletsInv, TypeOK, Replacement
<1>5. /\ challenge[p.challenge] # None /\ challenge[p.challenge].used
      /\ challenge[p.challenge].org = o
      /\ challenge[p.challenge].address = p.address
      /\ p.activates >= Cooling
  BY <1>3, <1>4 DEF WalletsInv, PendingIsProven
<1>6. /\ n \in Wallet /\ n # None
      /\ n.org = o /\ n.status = "active" /\ n.watched /\ n.address = p.address
  <2>1. /\ n \in Wallet
        /\ n.org = o /\ n.status = "active" /\ n.watched /\ n.address = p.address
    BY <1>3, <1>4 DEF Wallet, NewWallet
  <2> HIDE DEF n
  <2> QED
    BY <2>1, NoneAssumption
<1>7. /\ x \in Wallet /\ x # None
      /\ x.org = o /\ x.status = "replaced" /\ x.watched = FALSE
  <2>1. x \in Wallet /\ x.org = o /\ x.status = "replaced" /\ x.watched = FALSE
    BY <1>3 DEF Wallet
  <2> HIDE DEF x
  <2> QED
    BY <2>1, NoneAssumption
<1>8. wallet' = [[wallet EXCEPT ![w] = x] EXCEPT ![new] = n]
  BY <1>1, <1>3 DEF Replaced, WalletsInv, TypeOK
<1>9. ProofOf(r) \in Proof /\ f \in Proof /\ f.at + Cooling = p.activates
      /\ ProofOf(r).at = req[r].now /\ ProofOf(r).challenge = c /\ f.challenge = p.challenge
  <2>1. p.activates - Cooling \in Time /\ (p.activates - Cooling) + Cooling = p.activates
    BY <1>4, <1>5, WalletsAssumption DEF Time
  <2> QED
    BY <1>2, <1>4, <2>1 DEF Proof, ProofOf
<1> HIDE DEF n, x, f
<1>10. \A v \in Wallets : wallet'[v] = IF v = new THEN n ELSE IF v = w THEN x ELSE wallet[v]
  BY <1>3, <1>8 DEF WalletsInv, TypeOK
<1>11. \A v \in Wallets : pending'[v] = IF v = w THEN None ELSE pending[v]
  BY <1>1, <1>3 DEF WalletsInv, TypeOK
<1>12. \A v \in Wallets : proofs'[v] = IF v = new THEN {ProofOf(r), f} ELSE proofs[v]
  BY <1>1 DEF WalletsInv, TypeOK
<1>13. \A v \in Wallets : wallet[v] # None => wallet'[v] # None /\ wallet'[v].org = wallet[v].org
  BY <1>1, <1>3, <1>7, <1>10
<1>14. ASSUME NEW v \in Wallets, wallet[v] # None, v # w PROVE wallet'[v] = wallet[v]
  BY <1>1, <1>10, <1>14
<1>15. TypeOK'
  <2>1. wallet' \in [Wallets -> Wallet \cup {None}]
    BY <1>6, <1>7, <1>8 DEF WalletsInv, TypeOK
  <2>2. proofs' \in [Wallets -> SUBSET Proof]
    BY <1>1, <1>9 DEF WalletsInv, TypeOK
  <2>3. pending' \in [Wallets -> Replacement \cup {None}]
    BY <1>1 DEF WalletsInv, TypeOK
  <2> QED
    BY <1>1, <2>1, <2>2, <2>3, UsedFacts DEF WalletsInv, TypeOK
<1>16. RequestsAreGood'
  <2>1. ASSUME NEW s \in Requests \ {r}, req[s] # None, req[s].kind = "request",
               req[s].pc \in InTransaction
        PROVE  wallet'[req[s].wallet] = wallet[req[s].wallet]
    <3>1. Active(req[s].wallet) /\ req[s].wallet \in Wallets
      BY <2>1 DEF WalletsInv, RequestsAreGood, GoodRequest, Replacing
    <3>2. req[s].wallet # w
      BY <1>1, <2>1 DEF WalletFree, Doing, Past, InTransaction
    <3> QED
      BY <1>14, <3>1, <3>2 DEF Active
  <2>2. ASSUME NEW s \in Requests \ {r}, req[s] # None, req[s].kind = "activate",
               req[s].pc \in InTransaction
        PROVE  pending'[req[s].wallet] = pending[req[s].wallet]
    <3>1. req[s].wallet \in Wallets
      BY <2>2 DEF WalletsInv, RequestsAreGood, GoodRequest, Replacing
    <3>2. req[s].wallet # w
      BY <1>1, <2>2 DEF WalletsInv, LocksExclude, Meet, InTransaction
    <3> QED
      BY <1>11, <3>1, <3>2
  <2>3. clock' = clock
    BY <1>1
  <2> QED
    BY <1>1, <1>13, <2>1, <2>2, <2>3, OthersStayGood
<1>17. PendingIsProven'
  <2> SUFFICES ASSUME NEW v \in Wallets, pending'[v] # None
               PROVE  /\ Active(v)'
                      /\ challenge'[pending'[v].challenge] # None
                      /\ challenge'[pending'[v].challenge].used
                      /\ challenge'[pending'[v].challenge].org = wallet'[v].org
                      /\ challenge'[pending'[v].challenge].address = pending'[v].address
                      /\ pending'[v].activates >= Cooling
    BY DEF PendingIsProven
  <2>1. v # w /\ pending'[v] = pending[v] /\ pending[v] # None
    BY <1>11
  <2>2. wallet'[v] = wallet[v]
    BY <1>14, <2>1 DEF WalletsInv, PendingIsProven, Active
  <2> QED
    BY <1>1, <2>1, <2>2, PendingStays
<1>18. ASSUME NEW v \in Wallets, Active(v)'
       PROVE  v = new \/ (v # new /\ v # w /\ wallet'[v] = wallet[v] /\ Active(v)
                          /\ wallet[v].org # o)
  <2>1. CASE v = new
    BY <2>1
  <2>2. CASE v # new
    <3>1. v # w /\ wallet'[v] = wallet[v] /\ Active(v)
      BY <1>7, <1>10, <1>18, <2>2 DEF Active
    <3> QED
      BY <1>1, <1>3, <2>2, <3>1 DEF WalletsInv, OneIsActive
  <2> QED
    BY <2>1, <2>2
<1>19. Active(new)' /\ wallet'[new] = n /\ wallet'[w] = x
  BY <1>3, <1>6, <1>10 DEF Active
<1>20. OneIsActive'
  <2>1. ASSUME NEW v \in Wallets, wallet'[v] # None
        PROVE  wallet'[v].watched <=> wallet'[v].status = "active"
    BY <1>6, <1>7, <1>10, <2>1 DEF WalletsInv, OneIsActive
  <2>2. ASSUME NEW u \in Wallets, NEW v \in Wallets, Active(u)', Active(v)',
               wallet'[u].org = wallet'[v].org
        PROVE  u = v
    BY <1>6, <1>18, <1>19, <2>2 DEF WalletsInv, OneIsActive
  <2>3. ASSUME NEW v \in Wallets, wallet'[v] # None
        PROVE  \E u \in Wallets : Active(u)' /\ wallet'[u].org = wallet'[v].org
    <3>1. CASE wallet'[v].org = o
      BY <1>6, <1>19, <3>1
    <3>2. CASE wallet'[v].org # o
      <4>1. v # new /\ v # w /\ wallet'[v] = wallet[v]
        BY <1>6, <1>7, <1>10, <3>2
      <4>2. PICK u \in Wallets : Active(u) /\ wallet[u].org = wallet[v].org
        BY <2>3, <4>1 DEF WalletsInv, OneIsActive
      <4>3. wallet'[u] = wallet[u]
        BY <1>14, <3>2, <4>1, <4>2 DEF Active
      <4> QED
        BY <4>1, <4>2, <4>3 DEF Active
    <3> QED
      BY <3>1, <3>2
  <2> QED
    BY <2>1, <2>2, <2>3 DEF OneIsActive, Active
<1>21. ChangesAreProven'
  <2> SUFFICES ASSUME NEW v \in Wallets, NEW old \in Wallets, v # old, Active(v)',
                      wallet'[old] # None, wallet'[v].org = wallet'[old].org
               PROVE  ProvenTwice(v)'
    BY DEF ChangesAreProven
  <2>1. CASE v = new
    <3>1. ProofOf(r) \in proofs'[v] /\ f \in proofs'[v]
      BY <1>12, <2>1
    <3>2. /\ challenge'[c] # None /\ challenge'[p.challenge] # None
          /\ challenge'[c].org = o /\ challenge'[p.challenge].org = o
          /\ challenge'[c].address = p.address /\ challenge'[p.challenge].address = p.address
      BY <1>1, <1>2, <1>4, <1>5, UsedFacts
    <3>3. wallet'[v].org = o /\ wallet'[v].address = p.address
      BY <1>6, <1>19, <2>1
    <3>4. p.challenge # c
      BY <1>4, <1>5
    <3>5. f.at + Cooling <= ProofOf(r).at
      BY <1>4, <1>9
    <3> QED
      BY <1>9, <3>1, <3>2, <3>3, <3>4, <3>5 DEF ProvenTwice
  <2>2. CASE v # new
    <3>1. v # w /\ wallet'[v] = wallet[v] /\ Active(v) /\ wallet[v].org # o
      BY <1>18, <2>2
    <3>2. old # new /\ old # w /\ wallet'[old] = wallet[old]
      BY <1>6, <1>7, <1>10, <3>1
    <3>3. proofs'[v] = proofs[v]
      BY <1>12, <2>2
    <3>4. ProvenTwice(v)
      BY <3>1, <3>2 DEF WalletsInv, ChangesAreProven
    <3> QED
      BY <1>1, <3>1, <3>3, <3>4, UsedFacts, ProvenStays
  <2> QED
    BY <2>1, <2>2
<1> QED
  BY <1>1, <1>15, <1>16, <1>17, <1>20, <1>21, UsedFacts DEF WalletsInv

LEMMA TickKeeps ==
  ASSUME WalletsInv, Tick
  PROVE  WalletsInv'
<1> USE DEF WalletsInv
<1>1. clock \in Nat /\ clock' = clock + 1 /\ clock' \in 0..MaxTime
  BY WalletsAssumption DEF Tick, TypeOK
<1>2. UNCHANGED <<challenge, wallet, pending, req, uses, proofs>>
  BY DEF Tick
<1>3. TypeOK'
  BY <1>1, <1>2 DEF TypeOK
<1>4. RequestsAreGood'
  <2> SUFFICES ASSUME NEW r \in Requests, req[r] # None PROVE GoodRequest(req[r])'
    BY <1>2 DEF RequestsAreGood
  <2>1. req[r].now \in Nat /\ GoodRequest(req[r])
    BY DEF TypeOK, Request, Time, RequestsAreGood
  <2>2. req[r].now <= clock'
    BY <1>1, <2>1 DEF GoodRequest
  <2> QED
    BY <1>2, <2>1, <2>2 DEF GoodRequest, Active
<1>5. LocksExclude' /\ OneIsActive' /\ UsesAreCounted'
  BY <1>2 DEF LocksExclude, Meet, OneIsActive, UsesAreCounted, Active
<1>6. PendingIsProven' /\ ChangesAreProven'
  BY <1>2 DEF PendingIsProven, ChangesAreProven, ProvenTwice, Active
<1> QED
  BY <1>3, <1>4, <1>5, <1>6

LEMMA WalletsStep == WalletsInv /\ [Next]_vars => WalletsInv'
<1> SUFFICES ASSUME WalletsInv, [Next]_vars PROVE WalletsInv'
  OBVIOUS
<1>1. CASE Tick
  BY <1>1, TickKeeps
<1>2. ASSUME NEW o \in Orgs, NEW a \in Addresses, CreateChallenge(o, a) PROVE WalletsInv'
  BY <1>2, CreateChallengeKeeps
<1>3. ASSUME NEW w \in Wallets, NEW a \in Addresses, ChallengeToReplace(w, a) PROVE WalletsInv'
  <2>1. wallet[w].org \in Orgs
    BY <1>3 DEF ChallengeToReplace, Active, WalletsInv, TypeOK, Wallet
  <2> QED
    BY <1>3, <2>1, CreateChallengeKeeps DEF ChallengeToReplace
<1>4. ASSUME NEW r \in Requests, NEW o \in Orgs, NEW c \in Challenges, AskRegister(r, o, c)
      PROVE  WalletsInv'
  BY <1>4, AskedKeeps DEF AskRegister, Kinds, Replacing
<1>5. ASSUME NEW r \in Requests, NEW o \in Orgs, NEW c \in Challenges, NEW w \in Wallets,
             AskReplace(r, o, c, w)
      PROVE  WalletsInv'
  BY <1>5, AskedKeeps DEF AskReplace, Kinds
<1>6. ASSUME NEW r \in Requests, Lock(r) PROVE WalletsInv'
  BY <1>6, LockKeeps
<1>7. ASSUME NEW r \in Requests, Prove(r) PROVE WalletsInv'
  BY <1>7, ProveKeeps
<1>8. ASSUME NEW r \in Requests, Refuse(r) \/ AccountsFail(r) PROVE WalletsInv'
  BY <1>8, RollbackKeeps DEF Refuse, AccountsFail
<1>9. ASSUME NEW r \in Requests, RequestReplacement(r) PROVE WalletsInv'
  BY <1>9, RequestReplacementKeeps
<1>10. ASSUME NEW r \in Requests, NEW new \in Wallets, Register(r, new) PROVE WalletsInv'
  BY <1>10, RegisterKeeps
<1>11. ASSUME NEW r \in Requests, NEW new \in Wallets, ActivateReplacement(r, new)
       PROVE  WalletsInv'
  BY <1>11, ActivateReplacementKeeps
<1>12. CASE UNCHANGED vars
  <2> USE <1>12 DEF vars
  <2>1. TypeOK' /\ LocksExclude' /\ OneIsActive' /\ UsesAreCounted'
    BY DEF WalletsInv, TypeOK, LocksExclude, Meet, OneIsActive, UsesAreCounted, Active
  <2>2. RequestsAreGood' /\ PendingIsProven' /\ ChangesAreProven'
    BY DEF WalletsInv, RequestsAreGood, GoodRequest, PendingIsProven, ChangesAreProven,
           ProvenTwice, Active
  <2> QED
    BY <2>1, <2>2 DEF WalletsInv
<1> QED
  BY <1>1, <1>2, <1>3, <1>4, <1>5, <1>6, <1>7, <1>8, <1>9, <1>10, <1>11, <1>12 DEF Next

LEMMA WalletsInvariant == Spec => []WalletsInv
<1> QED
  BY WalletsInit, WalletsStep, PTL DEF Spec

(* The tables, the requests and the histories keep their types. *)
THEOREM WalletTypes == Spec => []TypeOK
<1>1. WalletsInv => TypeOK
  BY DEF WalletsInv
<1> QED
  BY <1>1, WalletsInvariant, PTL

(* No payment address changes on one signature: a wallet that took the      *)
(* place of another rests on two proofs of its address, by two challenges   *)
(* of its organization, a cooling time apart, whatever requests ran at the  *)
(* same time (wallet-store.ts:276, 356).                                    *)
THEOREM ChangesTakeTwoProofs == Spec => []ChangeIsProvenTwice
<1>1. ASSUME WalletsInv PROVE ChangeIsProvenTwice
  <2> SUFFICES ASSUME NEW w \in Wallets, NEW old \in Wallets \ {w},
                      wallet[w] # None, wallet[old] # None,
                      wallet[w].org = wallet[old].org, Active(w)
               PROVE  \E p, q \in proofs[w] :
                        /\ p.challenge # q.challenge
                        /\ p.at + Cooling <= q.at
                        /\ {challenge[p.challenge].address, challenge[q.challenge].address}
                             = {wallet[w].address}
                        /\ {challenge[p.challenge].org, challenge[q.challenge].org}
                             = {wallet[w].org}
    BY DEF ChangeIsProvenTwice
  <2>1. ProvenTwice(w)
    BY <1>1 DEF WalletsInv, ChangesAreProven
  <2> QED
    BY <2>1 DEF ProvenTwice
<1> QED
  BY <1>1, WalletsInvariant, PTL

(* An organization that has a wallet has exactly one active wallet, and     *)
(* what is watched for it is that wallet alone: payments to a replaced      *)
(* wallet are not taken for its own, and none is missed.                    *)
THEOREM OrganizationIsWatchedOnce == Spec => []OneWalletWatched
<1>1. ASSUME WalletsInv PROVE OneWalletWatched
  <2> SUFFICES ASSUME NEW o \in Orgs, WalletsOf(o) # {}
               PROVE  \E w \in WalletsOf(o) :
                        /\ {v \in WalletsOf(o) : Active(v)} = {w}
                        /\ {v \in WalletsOf(o) : wallet[v].watched} = {w}
    BY DEF OneWalletWatched
  <2>1. PICK w \in Wallets : Active(w) /\ wallet[w].org = o
    BY <1>1 DEF WalletsInv, OneIsActive, WalletsOf
  <2>2. w \in WalletsOf(o)
    BY <2>1 DEF WalletsOf, Active
  <2>3. \A v \in WalletsOf(o) : Active(v) <=> v = w
    BY <1>1, <2>1 DEF WalletsInv, OneIsActive, WalletsOf
  <2>4. \A v \in WalletsOf(o) : wallet[v].watched <=> v = w
    BY <1>1, <2>3 DEF WalletsInv, OneIsActive, WalletsOf, Active
  <2> QED
    BY <2>2, <2>3, <2>4
<1> QED
  BY <1>1, WalletsInvariant, PTL

(* Of two requests that hold one challenge, one at most is committed, and a *)
(* replacement that waits is of a wallet that is still active.              *)
THEOREM ProofsServeOnce == Spec => [](ProofUsedOnce /\ PendingIsForActive)
<1>1. WalletsInv => ProofUsedOnce /\ PendingIsForActive
  BY DEF WalletsInv, UsesAreCounted, ProofUsedOnce, PendingIsProven, PendingIsForActive
<1> QED
  BY <1>1, WalletsInvariant, PTL

-----------------------------------------------------------------------------
(* Checkout. *)

(* A key of a checkout has one attempt, whichever requests brought it. *)
KeysAreTakenOnce ==
  \A i, j \in DOMAIN attempt :
    attempt[i].checkout = attempt[j].checkout /\ attempt[i].key = attempt[j].key => i = j

AnswersAreTrue ==
  \A x \in said :
    /\ x.attempt \in DOMAIN attempt
    /\ attempt[x.attempt].checkout = x.checkout
    /\ attempt[x.attempt].key = x.key
    /\ attempt[x.attempt].asset = x.asset

CheckoutInv == CheckoutTypeOK /\ KeysAreTakenOnce /\ AnswersAreTrue

(* An element of a sequence is replaced. *)
LEMMA ReplacedElement ==
  ASSUME NEW S, NEW s \in Seq(S), NEW i \in DOMAIN s, NEW e \in S
  PROVE  /\ [s EXCEPT ![i] = e] \in Seq(S)
         /\ Len([s EXCEPT ![i] = e]) = Len(s)
         /\ DOMAIN [s EXCEPT ![i] = e] = DOMAIN s
         /\ \A j \in DOMAIN s : [s EXCEPT ![i] = e][j] = IF j = i THEN e ELSE s[j]
<1>1. s \in [1..Len(s) -> S] /\ DOMAIN s = 1..Len(s) /\ i \in 1..Len(s)
  OBVIOUS
<1> QED
  BY <1>1, ExceptSeq

LEMMA CheckoutStarts == CheckoutInit => CheckoutInv
<1> SUFFICES ASSUME CheckoutInit PROVE CheckoutInv
  OBVIOUS
<1>1. CheckoutTypeOK
  BY CheckoutAssumption DEF CheckoutInit, CheckoutTypeOK, Moments
<1>2. KeysAreTakenOnce /\ AnswersAreTrue
  BY DEF CheckoutInit, KeysAreTakenOnce, AnswersAreTrue
<1> QED
  BY <1>1, <1>2 DEF CheckoutInv

(* A step that opens no attempt, ends none and answers nothing. *)
LEMMA NothingSaid ==
  ASSUME CheckoutInv, CheckoutTypeOK', UNCHANGED <<attempt, said>>
  PROVE  CheckoutInv'
<1> QED
  BY DEF CheckoutInv, KeysAreTakenOnce, AnswersAreTrue

(* What a request on a server is while it is after an attempt. *)
LEMMA VisitTypes ==
  ASSUME CheckoutInv, NEW r \in Visits, visit[r] # Null,
         visit[r].pc \in {"asked", "new", "previewed", "observed"}
  PROVE  /\ visit[r] \in AttemptRequest
         /\ visit[r].checkout \in 1..MaxCheckouts /\ visit[r].key \in Keys
         /\ visit[r].asset \in Assets
         /\ visit[r].now \in Moments /\ visit[r].now \in Nat
<1>1. visit[r] \in AttemptRequest
  BY DEF CheckoutInv, CheckoutTypeOK, LinkRequest
<1> QED
  BY <1>1 DEF AttemptRequest, Moments

(* A request ends, or goes on with another pc. *)
LEMMA VisitMoves ==
  ASSUME CheckoutInv, NEW r \in Visits,
         NEW v \in AttemptRequest \cup LinkRequest \cup {Null},
         visit' = [visit EXCEPT ![r] = v]
  PROVE  visit' \in [Visits -> AttemptRequest \cup LinkRequest \cup {Null}]
<1> QED
  BY DEF CheckoutInv, CheckoutTypeOK

LEMMA EndsTypes ==
  ASSUME CheckoutInv, NEW r \in Visits, Ends(r)
  PROVE  visit' \in [Visits -> AttemptRequest \cup LinkRequest \cup {Null}]
<1> QED
  BY VisitMoves DEF Ends

LEMMA GoesTypes ==
  ASSUME CheckoutInv, NEW r \in Visits, NEW pc, Goes(r, pc), visit[r] # Null,
         \/ visit[r].pc \in {"asked", "new", "previewed"} /\ pc \in {"new", "previewed"}
         \/ visit[r].pc \in {"link", "insert", "lost"} /\ pc \in {"insert", "lost"}
  PROVE  visit' \in [Visits -> AttemptRequest \cup LinkRequest \cup {Null}]
<1> DEFINE v == [visit[r] EXCEPT !.pc = pc]
<1>1. visit' = [visit EXCEPT ![r] = v]
  BY DEF Goes, CheckoutInv, CheckoutTypeOK
<1>2. visit[r] \in AttemptRequest \cup LinkRequest
  BY DEF CheckoutInv, CheckoutTypeOK
<1>3. CASE visit[r].pc \in {"asked", "new", "previewed"} /\ pc \in {"new", "previewed"}
  <2>1. visit[r] \in AttemptRequest
    BY <1>2, <1>3 DEF LinkRequest
  <2>2. v \in AttemptRequest
    BY <1>3, <2>1 DEF AttemptRequest
  <2> HIDE DEF v
  <2> QED
    BY <1>1, <2>2, VisitMoves
<1>4. CASE visit[r].pc \in {"link", "insert", "lost"} /\ pc \in {"insert", "lost"}
  <2>1. visit[r] \in LinkRequest
    BY <1>2, <1>4 DEF AttemptRequest
  <2>2. v \in LinkRequest
    BY <1>4, <2>1 DEF LinkRequest
  <2> HIDE DEF v
  <2> QED
    BY <1>1, <2>2, VisitMoves
<1> QED
  BY <1>3, <1>4

(* The invoice, its wallet and its links change, and time passes. *)
LEMMA SurroundingsKeep ==
  ASSUME CheckoutInv,
         \/ MomentPasses \/ Issue \/ Cancel \/ ReplaceWallet
         \/ \E k \in DOMAIN checkout : Revoke(k)
  PROVE  CheckoutInv' /\ UNCHANGED attempt
<1>1. UNCHANGED <<accepted, attempt, visit, said>>
  BY DEF MomentPasses, Issue, Cancel, ReplaceWallet, Revoke
<1>2. moment' \in Moments
  BY CheckoutAssumption DEF CheckoutInv, CheckoutTypeOK, Moments,
     MomentPasses, Issue, Cancel, ReplaceWallet, Revoke
<1>3. invoice' \in {"draft", "issued", "paid", "cancelled"} /\ settlement' \in {"active", "replaced"}
  BY DEF CheckoutInv, CheckoutTypeOK, MomentPasses, Issue, Cancel, ReplaceWallet, Revoke
<1>4. checkout' \in Seq({"active", "revoked"}) /\ Len(checkout') <= MaxCheckouts
  <2>1. CASE checkout' = checkout
    BY <2>1 DEF CheckoutInv, CheckoutTypeOK
  <2>2. ASSUME NEW k \in DOMAIN checkout, checkout' = [checkout EXCEPT ![k] = "revoked"]
        PROVE  checkout' \in Seq({"active", "revoked"}) /\ Len(checkout') <= MaxCheckouts
    BY <2>2, ReplacedElement DEF CheckoutInv, CheckoutTypeOK
  <2> QED
    BY <2>1, <2>2 DEF MomentPasses, Issue, Cancel, ReplaceWallet, Revoke
<1>5. CheckoutTypeOK'
  BY <1>1, <1>2, <1>3, <1>4 DEF CheckoutInv, CheckoutTypeOK
<1> QED
  BY <1>1, <1>5, NothingSaid

(* A request that changes nothing but itself. *)
LEMMA OnlyTheVisit ==
  ASSUME CheckoutInv, visit' \in [Visits -> AttemptRequest \cup LinkRequest \cup {Null}],
         UNCHANGED <<moment, invoice, accepted, settlement, checkout, attempt, said>>
  PROVE  CheckoutInv'
<1>1. CheckoutTypeOK'
  BY DEF CheckoutInv, CheckoutTypeOK
<1> QED
  BY <1>1, NothingSaid

LEMMA LinksKeep ==
  ASSUME CheckoutInv, NEW r \in Visits, AskLink(r) \/ LookForLink(r) \/ InsertLink(r)
  PROVE  CheckoutInv' /\ UNCHANGED attempt
<1>1. CASE AskLink(r)
  <2>1. [pc |-> "link"] \in LinkRequest
    BY DEF LinkRequest
  <2> QED
    BY <1>1, <2>1, VisitMoves, OnlyTheVisit DEF AskLink
<1>2. CASE LookForLink(r)
  <2>1. /\ visit[r] # Null /\ visit[r].pc \in {"link", "insert", "lost"}
        /\ Ends(r) \/ Goes(r, "insert")
    BY <1>2 DEF LookForLink, At
  <2>2. visit' \in [Visits -> AttemptRequest \cup LinkRequest \cup {Null}]
    BY <2>1, EndsTypes, GoesTypes
  <2> QED
    BY <1>2, <2>2, OnlyTheVisit DEF LookForLink
<1>3. CASE InsertLink(r)
  <2>1. /\ visit[r] # Null /\ visit[r].pc \in {"link", "insert", "lost"}
        /\ Ends(r) \/ Goes(r, "lost")
        /\ UNCHANGED <<moment, invoice, accepted, settlement, attempt, said>>
    BY <1>3 DEF InsertLink, At
  <2>2. visit' \in [Visits -> AttemptRequest \cup LinkRequest \cup {Null}]
    BY <2>1, EndsTypes, GoesTypes
  <2>3. checkout \in Seq({"active", "revoked"}) /\ Len(checkout) \in Nat
    BY DEF CheckoutInv, CheckoutTypeOK
  <2>4. checkout' = checkout \/ (checkout' = Append(checkout, "active") /\ Len(checkout) < MaxCheckouts)
    BY <1>3 DEF InsertLink
  <2>5. checkout' \in Seq({"active", "revoked"}) /\ Len(checkout') <= MaxCheckouts
    <3>1. MaxCheckouts \in Nat
      BY CheckoutAssumption
    <3>2. /\ Append(checkout, "active") \in Seq({"active", "revoked"})
          /\ Len(Append(checkout, "active")) = Len(checkout) + 1
      BY <2>3
    <3>3. CASE checkout' = checkout
      BY <3>3 DEF CheckoutInv, CheckoutTypeOK
    <3>4. CASE checkout' = Append(checkout, "active") /\ Len(checkout) < MaxCheckouts
      BY <2>3, <3>1, <3>2, <3>4
    <3> QED
      BY <2>4, <3>3, <3>4
  <2>6. CheckoutTypeOK'
    BY <2>1, <2>2, <2>5 DEF CheckoutInv, CheckoutTypeOK
  <2> QED
    BY <2>1, <2>6, NothingSaid
<1> QED
  BY <1>1, <1>2, <1>3

LEMMA AskKeeps ==
  ASSUME CheckoutInv, NEW r \in Visits, NEW k \in DOMAIN checkout, NEW key \in Keys,
         NEW asset \in Assets, Ask(r, k, key, asset)
  PROVE  CheckoutInv' /\ UNCHANGED attempt
<1> DEFINE v == [pc |-> "asked", checkout |-> k, key |-> key, asset |-> asset,
                 now |-> moment, published |-> 0, received |-> 0]
<1>1. k \in 1..MaxCheckouts
  <2>1. k \in 1..Len(checkout) /\ Len(checkout) \in Nat /\ Len(checkout) <= MaxCheckouts
    BY DEF CheckoutInv, CheckoutTypeOK
  <2> QED
    BY <2>1, CheckoutAssumption
<1>2. moment \in Moments /\ 0 \in Moments
  BY CheckoutAssumption DEF CheckoutInv, CheckoutTypeOK, Moments
<1>3. v \in AttemptRequest
  BY <1>1, <1>2 DEF AttemptRequest
<1>4. visit' = [visit EXCEPT ![r] = v]
      /\ UNCHANGED <<moment, invoice, accepted, settlement, checkout, attempt, said>>
  BY DEF Ask
<1> HIDE DEF v
<1> QED
  BY <1>3, <1>4, VisitMoves, OnlyTheVisit

LEMMA ReadsKeep ==
  ASSUME CheckoutInv, NEW r \in Visits,
         Preview(r) \/ Fail(r) \/ (\E t \in Moments : Observe(r, t))
  PROVE  CheckoutInv' /\ UNCHANGED attempt
<1>1. CASE Preview(r)
  <2>1. /\ visit[r] # Null /\ visit[r].pc \in {"asked", "new", "previewed"}
        /\ Ends(r) \/ Goes(r, "previewed")
    BY <1>1 DEF Preview, At
  <2>2. visit' \in [Visits -> AttemptRequest \cup LinkRequest \cup {Null}]
    BY <2>1, EndsTypes, GoesTypes
  <2> QED
    BY <1>1, <2>2, OnlyTheVisit DEF Preview
<1>2. CASE Fail(r)
  BY <1>2, EndsTypes, OnlyTheVisit DEF Fail
<1>3. ASSUME NEW t \in Moments, Observe(r, t) PROVE CheckoutInv' /\ UNCHANGED attempt
  <2> DEFINE v == [visit[r] EXCEPT !.pc = "observed", !.published = t, !.received = moment]
  <2>1. visit[r] \in AttemptRequest
    BY <1>3, VisitTypes DEF Observe, At
  <2>2. v \in AttemptRequest
    BY <2>1 DEF AttemptRequest, CheckoutInv, CheckoutTypeOK
  <2>3. visit' = [visit EXCEPT ![r] = v]
        /\ UNCHANGED <<moment, invoice, accepted, settlement, checkout, attempt, said>>
    BY <1>3 DEF Observe, CheckoutInv, CheckoutTypeOK
  <2> HIDE DEF v
  <2> QED
    BY <2>2, <2>3, VisitMoves, OnlyTheVisit
<1> QED
  BY <1>1, <1>2, <1>3

(* An answer with the attempt that is already there. *)
LEMMA ReplayKeeps ==
  ASSUME CheckoutInv, NEW r \in Visits, Replayed(r), visit[r] \in AttemptRequest,
         visit' \in [Visits -> AttemptRequest \cup LinkRequest \cup {Null}],
         UNCHANGED <<moment, invoice, accepted, settlement, checkout, attempt>>
  PROVE  CheckoutInv'
<1> DEFINE Said == [checkout : 1..MaxCheckouts, key : Keys, asset : Assets,
                    attempt : 1..MaxAttempts]
<1>1. ASSUME NEW x \in said', x \notin said
      PROVE  /\ x \in Said
             /\ x.attempt \in DOMAIN attempt
             /\ attempt[x.attempt].checkout = x.checkout
             /\ attempt[x.attempt].key = x.key
             /\ attempt[x.attempt].asset = x.asset
  <2>1. PICK i \in {j \in Known(r) : attempt[j].asset = visit[r].asset} : x = Answer(r, i)
    BY <1>1 DEF Replayed
  <2>2. /\ i \in DOMAIN attempt /\ attempt[i].asset = visit[r].asset
        /\ attempt[i].checkout = visit[r].checkout /\ attempt[i].key = visit[r].key
    BY <2>1 DEF Known
  <2>3. i \in 1..MaxAttempts
    <3>1. i \in 1..Len(attempt) /\ Len(attempt) \in Nat /\ Len(attempt) <= MaxAttempts
      BY <2>2 DEF CheckoutInv, CheckoutTypeOK
    <3> QED
      BY <3>1, CheckoutAssumption
  <2> QED
    BY <2>1, <2>2, <2>3 DEF Answer, AttemptRequest
<1>2. CheckoutTypeOK'
  <2>1. said' \subseteq Said
    BY <1>1 DEF CheckoutInv, CheckoutTypeOK
  <2> QED
    BY <2>1 DEF CheckoutInv, CheckoutTypeOK
<1>3. AnswersAreTrue'
  BY <1>1 DEF CheckoutInv, AnswersAreTrue
<1>4. KeysAreTakenOnce'
  BY DEF CheckoutInv, KeysAreTakenOnce
<1> QED
  BY <1>2, <1>3, <1>4 DEF CheckoutInv

LEMMA LookUpKeeps ==
  ASSUME CheckoutInv, NEW r \in Visits, LookUp(r) \/ ReplayLate(r)
  PROVE  CheckoutInv' /\ UNCHANGED attempt
<1>1. CASE LookUp(r)
  <2>1. /\ visit[r] # Null /\ visit[r].pc \in {"asked", "new", "previewed"}
        /\ Ends(r) \/ Goes(r, "new")
    BY <1>1 DEF LookUp, At
  <2>2. visit' \in [Visits -> AttemptRequest \cup LinkRequest \cup {Null}]
    BY <2>1, EndsTypes, GoesTypes
  <2>3. visit[r] \in AttemptRequest
    BY <2>1, VisitTypes
  <2> QED
    BY <1>1, <2>2, <2>3, ReplayKeeps DEF LookUp
<1>2. CASE ReplayLate(r)
  <2>1. visit[r] \in AttemptRequest
    BY <1>2, VisitTypes DEF ReplayLate, At
  <2> QED
    BY <1>2, <2>1, EndsTypes, ReplayKeeps DEF ReplayLate
<1> QED
  BY <1>1, <1>2

LEMMA OpenKeeps ==
  ASSUME CheckoutInv, NEW r \in Visits, Open(r)
  PROVE  /\ CheckoutInv' /\ Len(attempt') = Len(attempt) + 1
         /\ checkout[attempt'[Len(attempt')].checkout] = "active"
         /\ invoice = "issued" /\ settlement = "active"
<1> DEFINE v == visit[r]
           a == Opened(r)
           n == Len(attempt) + 1
           x == Answer(r, n)
<1>1. /\ v \in AttemptRequest /\ v.checkout \in 1..MaxCheckouts /\ v.key \in Keys
      /\ v.asset \in Assets /\ v.now \in Nat
  BY VisitTypes DEF Open, At
<1>2. MaxAttempts \in Nat /\ QuoteLife \in Nat /\ MaxMoment \in Nat
  BY CheckoutAssumption
<1>3. /\ attempt \in Seq(Attempt) /\ Len(attempt) \in Nat /\ DOMAIN attempt = 1..Len(attempt)
  BY <1>2 DEF CheckoutInv, CheckoutTypeOK
<1>4. /\ checkout[v.checkout] = "active" /\ invoice = "issued" /\ settlement = "active"
      /\ Known(r) = {} /\ Len(attempt) < MaxAttempts
      /\ attempt' = Append(attempt, a) /\ said' = said \cup {x} /\ Ends(r)
      /\ UNCHANGED <<moment, invoice, accepted, settlement, checkout>>
  BY DEF Open, Payable
<1>5. /\ a \in Attempt /\ a.checkout = v.checkout /\ a.key = v.key /\ a.asset = v.asset
  BY <1>1, <1>2, <1>3 DEF Opened, Attempt, AttemptState
<1>6. /\ x.checkout = v.checkout /\ x.key = v.key /\ x.asset = v.asset /\ x.attempt = n
      /\ x \in [checkout : 1..MaxCheckouts, key : Keys, asset : Assets, attempt : 1..MaxAttempts]
  BY <1>1, <1>2, <1>3, <1>4 DEF Answer
<1> HIDE DEF a, x
<1>7. /\ attempt' \in Seq(Attempt) /\ Len(attempt') = n /\ DOMAIN attempt' = 1..n
      /\ attempt'[n] = a /\ \A i \in DOMAIN attempt : attempt'[i] = attempt[i]
  BY <1>3, <1>4, <1>5
<1>8. \A i \in DOMAIN attempt' : i = n \/ i \in DOMAIN attempt
  BY <1>3, <1>7
<1>9. CheckoutTypeOK'
  <2>1. Len(attempt') <= MaxAttempts
    BY <1>2, <1>3, <1>4, <1>7
  <2>2. visit' \in [Visits -> AttemptRequest \cup LinkRequest \cup {Null}]
    BY <1>4, EndsTypes
  <2> QED
    BY <1>4, <1>6, <1>7, <2>1, <2>2 DEF CheckoutInv, CheckoutTypeOK
<1>10. KeysAreTakenOnce'
  <2>1. ASSUME NEW i \in DOMAIN attempt
        PROVE  ~(attempt[i].checkout = v.checkout /\ attempt[i].key = v.key)
    BY <1>4 DEF Known
  <2> QED
    BY <1>5, <1>7, <1>8, <2>1 DEF CheckoutInv, KeysAreTakenOnce
<1>11. AnswersAreTrue'
  <2> SUFFICES ASSUME NEW y \in said'
               PROVE  /\ y.attempt \in DOMAIN attempt'
                      /\ attempt'[y.attempt].checkout = y.checkout
                      /\ attempt'[y.attempt].key = y.key
                      /\ attempt'[y.attempt].asset = y.asset
    BY DEF AnswersAreTrue
  <2>1. CASE y = x
    BY <1>3, <1>5, <1>6, <1>7, <2>1
  <2>2. CASE y \in said
    <3>1. y.attempt \in DOMAIN attempt /\ y.attempt \in DOMAIN attempt'
      BY <1>3, <1>7, <2>2 DEF CheckoutInv, AnswersAreTrue
    <3> QED
      BY <1>7, <2>2, <3>1 DEF CheckoutInv, AnswersAreTrue
  <2> QED
    BY <1>4, <2>1, <2>2
<1> QED
  BY <1>4, <1>5, <1>7, <1>9, <1>10, <1>11 DEF CheckoutInv

(* An attempt expires, is paid, or ends in an exception. *)
LEMMA EndKeeps ==
  ASSUME CheckoutInv, NEW i \in DOMAIN attempt,
         Expire(i) \/ Allocate(i) \/ RaiseException(i)
  PROVE  CheckoutInv' /\ Len(attempt') = Len(attempt)
<1>1. PICK state \in AttemptState \ {"awaiting"} : Becomes(i, state)
  BY DEF Expire, Allocate, RaiseException, AttemptState
<1> DEFINE b == [attempt[i] EXCEPT !.state = state, !.watched = state = "expired"]
<1>2. attempt \in Seq(Attempt) /\ attempt[i] \in Attempt
      /\ attempt \in [1..Len(attempt) -> Attempt] /\ i \in 1..Len(attempt)
  BY DEF CheckoutInv, CheckoutTypeOK
<1>3. /\ b \in Attempt /\ b.state = state
      /\ b.checkout = attempt[i].checkout /\ b.key = attempt[i].key
      /\ b.asset = attempt[i].asset
  BY <1>2 DEF Attempt
<1>4. attempt' = [attempt EXCEPT ![i] = b]
  BY <1>1, <1>2 DEF Becomes
<1>5. UNCHANGED <<moment, accepted, settlement, checkout, visit, said>>
      /\ invoice' \in {"draft", "issued", "paid", "cancelled"}
  BY DEF Expire, Allocate, RaiseException, CheckoutInv, CheckoutTypeOK
<1> HIDE DEF b
<1>6. /\ attempt' \in Seq(Attempt) /\ Len(attempt') = Len(attempt)
      /\ DOMAIN attempt' = DOMAIN attempt
      /\ \A j \in DOMAIN attempt : attempt'[j] = IF j = i THEN b ELSE attempt[j]
  BY <1>2, <1>3, <1>4, ReplacedElement
<1>7. \A j \in DOMAIN attempt :
        /\ attempt'[j].checkout = attempt[j].checkout /\ attempt'[j].key = attempt[j].key
        /\ attempt'[j].asset = attempt[j].asset
  BY <1>1, <1>3, <1>6
<1>8. CheckoutTypeOK'
  BY <1>5, <1>6 DEF CheckoutInv, CheckoutTypeOK
<1>9. KeysAreTakenOnce'
  BY <1>6, <1>7 DEF CheckoutInv, KeysAreTakenOnce
<1>10. AnswersAreTrue'
  BY <1>5, <1>6, <1>7 DEF CheckoutInv, AnswersAreTrue
<1> QED
  BY <1>6, <1>8, <1>9, <1>10 DEF CheckoutInv

(* What any step of CheckoutNext does: the invariant goes on, and no        *)
(* attempt comes but while it can be paid.                                  *)
LEMMA CheckoutStep ==
  ASSUME CheckoutInv, [CheckoutNext]_checkoutVars
  PROVE  /\ CheckoutInv'
         /\ Len(attempt') > Len(attempt) =>
              /\ checkout[attempt'[Len(attempt')].checkout] = "active"
              /\ invoice = "issued" /\ settlement = "active"
<1> DEFINE Goal == /\ CheckoutInv'
                   /\ Len(attempt') > Len(attempt) =>
                        /\ checkout[attempt'[Len(attempt')].checkout] = "active"
                        /\ invoice = "issued" /\ settlement = "active"
<1>1. Len(attempt) \in Nat
  BY DEF CheckoutInv, CheckoutTypeOK
<1>2. ASSUME CheckoutInv', Len(attempt') = Len(attempt) PROVE Goal
  BY <1>1, <1>2
<1>3. ASSUME \/ MomentPasses \/ Issue \/ Cancel \/ ReplaceWallet
             \/ \E k \in DOMAIN checkout : Revoke(k)
      PROVE  Goal
  BY <1>2, <1>3, SurroundingsKeep
<1>4. ASSUME NEW r \in Visits, AskLink(r) \/ LookForLink(r) \/ InsertLink(r) PROVE Goal
  BY <1>2, <1>4, LinksKeep
<1>5. ASSUME NEW r \in Visits, NEW k \in DOMAIN checkout, NEW key \in Keys, NEW asset \in Assets,
             AskPublic(r, k, key, asset) \/ AskMerchant(r, k, key, asset)
      PROVE  Goal
  BY <1>2, <1>5, AskKeeps DEF AskPublic, AskMerchant
<1>6. ASSUME NEW r \in Visits, LookUp(r) \/ ReplayLate(r) PROVE Goal
  BY <1>2, <1>6, LookUpKeeps
<1>7. ASSUME NEW r \in Visits, Preview(r) \/ Fail(r) \/ (\E t \in Moments : Observe(r, t)) PROVE Goal
  BY <1>2, <1>7, ReadsKeep
<1>8. ASSUME NEW r \in Visits, Open(r) PROVE Goal
  BY <1>8, OpenKeeps
<1>9. ASSUME NEW i \in DOMAIN attempt, Expire(i) \/ Allocate(i) \/ RaiseException(i) PROVE Goal
  BY <1>2, <1>9, EndKeeps
<1>10. ASSUME UNCHANGED checkoutVars PROVE Goal
  <2>1. CheckoutTypeOK'
    BY <1>10 DEF checkoutVars, CheckoutInv, CheckoutTypeOK
  <2> QED
    BY <1>2, <1>10, <2>1, NothingSaid DEF checkoutVars
<1> HIDE DEF Goal
<1>11. Goal
  BY <1>3, <1>4, <1>5, <1>6, <1>7, <1>8, <1>9, <1>10 DEF CheckoutNext
<1> QED
  BY <1>11 DEF Goal

LEMMA CheckoutInvariant == CheckoutSpec => []CheckoutInv
<1>1. CheckoutInv /\ [CheckoutNext]_checkoutVars => CheckoutInv'
  BY CheckoutStep
<1> QED
  BY <1>1, CheckoutStarts, PTL DEF CheckoutSpec

(* The tables, the requests and the answers keep their types. *)
THEOREM CheckoutTypes == CheckoutSpec => []CheckoutTypeOK
<1>1. CheckoutInv => CheckoutTypeOK
  BY DEF CheckoutInv
<1> QED
  BY <1>1, CheckoutInvariant, PTL

(* A payer's client that repeats a request with its key, at the same time   *)
(* or after the answer was lost, is never given a second attempt to pay     *)
(* (attempt-service.ts:318).                                                *)
THEOREM KeysAreAnsweredAlike == CheckoutSpec => []OneAnswerPerKey
<1>1. CheckoutInv => OneAnswerPerKey
  BY DEF CheckoutInv, KeysAreTakenOnce, AnswersAreTrue, OneAnswerPerKey
<1> QED
  BY <1>1, CheckoutInvariant, PTL

(* Whatever changes while the price is asked for, no attempt is opened on a *)
(* link that was revoked, an invoice that is not due or a wallet that was   *)
(* replaced (attempt-service.ts:176).                                       *)
THEOREM OpenedIsPayable == CheckoutSpec => OpenedWhilePayable
<1>1. CheckoutInv /\ [CheckoutNext]_checkoutVars =>
        [Len(attempt') > Len(attempt) =>
           /\ checkout[attempt'[Len(attempt')].checkout] = "active"
           /\ invoice = "issued" /\ settlement = "active"]_checkoutVars
  BY CheckoutStep
<1> QED
  BY <1>1, CheckoutInvariant, PTL DEF CheckoutSpec, OpenedWhilePayable

-----------------------------------------------------------------------------
(* QuoteAmounts: powers of ten. *)

LEMMA LeastNat ==
  ASSUME NEW S \in SUBSET Nat, S # {}
  PROVE  \E x \in S : \A y \in S : x <= y
<1>1. PICK x \in S : \A y \in S : ~(<<y, x>> \in OpToRel(<, Nat))
  BY NatLessThanWellFounded, WFMin
<1>2. \A y \in S : ~(y < x) BY <1>1 DEF OpToRel
<1> QED BY <1>2

(* h holds the powers of ten up to the n-th. *)
Powers(n, h) == h = [m \in 0..n |-> IF m = 0 THEN 1 ELSE 10 * h[m - 1]]

LEMMA PowersExist ==
  ASSUME NEW N \in Nat
  PROVE  \E h : Powers(N, h)
<1> DEFINE Wrong == {k \in Nat : ~\E h : Powers(k, h)}
<1>1. SUFFICES ASSUME Wrong # {} PROVE FALSE OBVIOUS
<1>2. PICK k \in Wrong : \A m \in Wrong : k <= m BY <1>1, LeastNat
<1>3. CASE k = 0
  <2> DEFINE h == [n \in 0..0 |-> 1]
  <2>1. Powers(0, h) BY DEF Powers
  <2> QED BY <1>2, <1>3, <2>1
<1>4. CASE k # 0
  <2>1. k - 1 \in Nat /\ k - 1 \notin Wrong /\ k \in Nat BY <1>2, <1>4
  <2>2. PICK g : Powers(k - 1, g) BY <2>1
  <2> DEFINE h == [n \in 0..k |-> IF n = k THEN 10 * g[k - 1] ELSE g[n]]
  <2>3. \A n \in 0..k - 1 : g[n] = IF n = 0 THEN 1 ELSE 10 * g[n - 1]
    BY <2>1, <2>2 DEF Powers
  <2>4. \A n \in 0..k : h[n] = IF n = k THEN 10 * g[k - 1] ELSE g[n] OBVIOUS
  <2>5. h = [n \in 0..k |-> h[n]] OBVIOUS
  <2> HIDE DEF h
  <2>6. ASSUME NEW n \in 0..k PROVE h[n] = IF n = 0 THEN 1 ELSE 10 * h[n - 1]
    <3>1. CASE n = k
      <4>1. h[n - 1] = g[k - 1] BY <2>1, <2>4, <3>1
      <4> QED BY <1>4, <2>1, <2>4, <3>1, <4>1
    <3>2. CASE n # k /\ n # 0
      <4>1. n \in 0..k - 1 /\ n - 1 \in 0..k - 1 /\ n - 1 \in 0..k /\ n - 1 # k
        BY <2>1, <3>2
      <4> QED BY <2>3, <2>4, <3>2, <4>1
    <3>3. CASE n # k /\ n = 0 BY <2>1, <2>3, <2>4, <3>3
    <3> QED BY <3>1, <3>2, <3>3
  <2>7. Powers(k, h) BY <2>5, <2>6 DEF Powers
  <2> QED BY <1>2, <2>7
<1> QED BY <1>3, <1>4

LEMMA TenToIsPower ==
  ASSUME NEW k \in Nat
  PROVE  \E h : h[0] = 1 /\ TenTo(k) = h[k] /\ \A n \in 1..k : h[n] = 10 * h[n - 1]
<1> DEFINE h == CHOOSE g : Powers(k, g)
<1>1. Powers(k, h) BY PowersExist, Zenon
<1>2. TenTo(k) = h[k] BY Zenon DEF TenTo, Powers
<1> HIDE DEF h
<1>3. h[0] = 1 /\ \A n \in 1..k : h[n] = 10 * h[n - 1] BY <1>1 DEF Powers
<1> QED BY <1>2, <1>3

LEMMA TenToNothing == TenTo(0) = 1
<1>1. PICK h : h[0] = 1 /\ TenTo(0) = h[0] BY TenToIsPower
<1> QED BY <1>1

LEMMA TenToPositive ==
  ASSUME NEW k \in Nat
  PROVE  TenTo(k) \in Nat /\ TenTo(k) > 0
<1>1. PICK h : h[0] = 1 /\ TenTo(k) = h[k] /\ \A n \in 1..k : h[n] = 10 * h[n - 1]
  BY TenToIsPower
<1> DEFINE Wrong == {n \in Nat : n <= k /\ ~(h[n] \in Nat /\ h[n] > 0)}
<1>2. Wrong = {}
  <2>1. SUFFICES ASSUME Wrong # {} PROVE FALSE OBVIOUS
  <2>2. PICK n \in Wrong : \A m \in Wrong : n <= m BY <2>1, LeastNat
  <2>3. n # 0 /\ n \in 1..k /\ n - 1 \in Nat /\ n - 1 <= k /\ n - 1 \notin Wrong
    BY <1>1, <2>2
  <2>4. h[n - 1] \in Nat /\ h[n - 1] > 0 /\ h[n] = 10 * h[n - 1] BY <1>1, <2>3
  <2> QED BY <2>2, <2>4
<1> QED BY <1>1, <1>2

LEMMA TenToSplits ==
  ASSUME NEW a \in Nat, NEW b \in Nat
  PROVE  TenTo(a + b) = TenTo(a) * TenTo(b)
<1>0. a + b \in Nat OBVIOUS
<1>1. PICK h : /\ h[0] = 1 /\ TenTo(a + b) = h[a + b]
               /\ \A n \in 1..(a + b) : h[n] = 10 * h[n - 1]
  BY <1>0, TenToIsPower
<1>2. PICK u : u[0] = 1 /\ TenTo(a) = u[a] /\ \A n \in 1..a : u[n] = 10 * u[n - 1]
  BY TenToIsPower
<1>3. PICK v : v[0] = 1 /\ TenTo(b) = v[b] /\ \A n \in 1..b : v[n] = 10 * v[n - 1]
  BY TenToIsPower
<1>4. h[a] = u[a]
  <2> DEFINE Wrong == {n \in Nat : n <= a /\ h[n] # u[n]}
  <2>1. SUFFICES ASSUME Wrong # {} PROVE FALSE OBVIOUS
  <2>2. PICK n \in Wrong : \A m \in Wrong : n <= m BY <2>1, LeastNat
  <2>3. n # 0 /\ n \in 1..a /\ n \in 1..(a + b) /\ n - 1 \in Nat /\ n - 1 <= a
          /\ n - 1 \notin Wrong
    BY <1>1, <1>2, <2>2
  <2>4. h[n - 1] = u[n - 1] BY <2>3
  <2>5. h[n] = 10 * h[n - 1] /\ u[n] = 10 * u[n - 1] BY <1>1, <1>2, <2>3
  <2> QED BY <2>2, <2>4, <2>5
<1>5. h[a + b] = u[a] * v[b]
  <2> DEFINE Good(n) == v[n] \in Int /\ h[a + n] = u[a] * v[n]
             Wrong == {n \in Nat : n <= b /\ ~Good(n)}
  <2>0. u[a] \in Int BY <1>2, TenToPositive
  <2>1. SUFFICES ASSUME Wrong # {} PROVE FALSE OBVIOUS
  <2>2. PICK n \in Wrong : \A m \in Wrong : n <= m BY <2>1, LeastNat
  <2>3. n # 0
    <3>1. Good(0) BY <1>3, <1>4, <2>0
    <3> QED BY <2>2, <3>1
  <2>4. n \in 1..b /\ n - 1 \in Nat /\ n - 1 <= b /\ n - 1 \notin Wrong BY <2>2, <2>3
  <2>5. v[n - 1] \in Int /\ h[a + (n - 1)] = u[a] * v[n - 1] BY <2>4
  <2>6. v[n] = 10 * v[n - 1] BY <1>3, <2>4
  <2>7. h[a + n] = 10 * h[a + (n - 1)]
    <3>1. a + n \in 1..(a + b) /\ (a + n) - 1 = a + (n - 1) BY <2>4
    <3> QED BY <1>1, <3>1
  <2>8. v[n] \in Int /\ h[a + n] = u[a] * v[n] BY <2>0, <2>5, <2>6, <2>7
  <2> QED BY <2>2, <2>8
<1> QED BY <1>1, <1>2, <1>3, <1>5

-----------------------------------------------------------------------------
(* Sums. *)

Sums(n, f, h) == h = [m \in 0..n |-> IF m = 0 THEN 0 ELSE h[m - 1] + f[m]]

LEMMA SumsExist ==
  ASSUME NEW N \in Nat, NEW f
  PROVE  \E h : Sums(N, f, h)
<1> DEFINE Wrong == {k \in Nat : ~\E h : Sums(k, f, h)}
<1>1. SUFFICES ASSUME Wrong # {} PROVE FALSE OBVIOUS
<1>2. PICK k \in Wrong : \A m \in Wrong : k <= m BY <1>1, LeastNat
<1>3. CASE k = 0
  <2> DEFINE h == [n \in 0..0 |-> 0]
  <2>1. Sums(0, f, h) BY DEF Sums
  <2> QED BY <1>2, <1>3, <2>1
<1>4. CASE k # 0
  <2>1. k - 1 \in Nat /\ k - 1 \notin Wrong /\ k \in Nat BY <1>2, <1>4
  <2>2. PICK g : Sums(k - 1, f, g) BY <2>1
  <2> DEFINE h == [n \in 0..k |-> IF n = k THEN g[k - 1] + f[k] ELSE g[n]]
  <2>3. \A n \in 0..k - 1 : g[n] = IF n = 0 THEN 0 ELSE g[n - 1] + f[n]
    BY <2>1, <2>2 DEF Sums
  <2>4. \A n \in 0..k : h[n] = IF n = k THEN g[k - 1] + f[k] ELSE g[n] OBVIOUS
  <2>5. h = [n \in 0..k |-> h[n]] OBVIOUS
  <2> HIDE DEF h
  <2>6. ASSUME NEW n \in 0..k PROVE h[n] = IF n = 0 THEN 0 ELSE h[n - 1] + f[n]
    <3>1. CASE n = k
      <4>1. h[n - 1] = g[k - 1] BY <2>1, <2>4, <3>1
      <4> QED BY <1>4, <2>1, <2>4, <3>1, <4>1
    <3>2. CASE n # k /\ n # 0
      <4>1. n \in 0..k - 1 /\ n - 1 \in 0..k - 1 /\ n - 1 \in 0..k /\ n - 1 # k
        BY <2>1, <3>2
      <4> QED BY <2>3, <2>4, <3>2, <4>1
    <3>3. CASE n # k /\ n = 0 BY <2>1, <2>3, <2>4, <3>3
    <3> QED BY <3>1, <3>2, <3>3
  <2>7. Sums(k, f, h) BY <2>5, <2>6 DEF Sums
  <2> QED BY <1>2, <2>7
<1> QED BY <1>3, <1>4

NumbersTo(N, f) == \A n \in 1..N : f[n] \in Nat

Adds(N, f, h) ==
  /\ h[0] = 0 /\ SumTo(f, N) = h[N]
  /\ \A n \in 0..N : h[n] \in Nat
  /\ \A n \in 1..N : h[n] = h[n - 1] + f[n]

LEMMA SumToIsSum ==
  ASSUME NEW N \in Nat, NEW f, NumbersTo(N, f)
  PROVE  \E h : Adds(N, f, h)
<1> DEFINE h == CHOOSE g : Sums(N, f, g)
<1>1. Sums(N, f, h) BY SumsExist, Zenon
<1>2. SumTo(f, N) = h[N] BY Zenon DEF SumTo, Sums
<1> HIDE DEF h
<1>3. h[0] = 0 /\ \A n \in 1..N : h[n] = h[n - 1] + f[n] BY <1>1 DEF Sums
<1>4. \A n \in 0..N : h[n] \in Nat
  <2> DEFINE Wrong == {k \in Nat : k <= N /\ h[k] \notin Nat}
  <2>1. SUFFICES ASSUME Wrong # {} PROVE FALSE OBVIOUS
  <2>2. PICK k \in Wrong : \A m \in Wrong : k <= m BY <2>1, LeastNat
  <2>3. k # 0 /\ k \in 1..N /\ k - 1 \in Nat /\ k - 1 <= N /\ k - 1 \notin Wrong
    BY <1>3, <2>2
  <2>4. h[k - 1] \in Nat /\ f[k] \in Nat /\ h[k] = h[k - 1] + f[k]
    BY <1>3, <2>3 DEF NumbersTo
  <2> QED BY <2>2, <2>4
<1>5. Adds(N, f, h) BY <1>2, <1>3, <1>4 DEF Adds
<1> QED BY <1>5

(* Each value of f, taken t times, is at least that of g, and by less than  *)
(* t greater.                                                               *)
Covers(N, t, f, g) == \A n \in 1..N : f[n] * t >= g[n] /\ f[n] * t - g[n] < t

LEMMA SumsCover ==
  ASSUME NEW N \in Nat, NEW t \in Nat, N > 0, t > 0, NEW f, NEW g,
         NumbersTo(N, f), NumbersTo(N, g), Covers(N, t, f, g)
  PROVE  /\ SumTo(f, N) \in Nat
         /\ SumTo(f, N) * t >= SumTo(g, N)
         /\ SumTo(f, N) * t - SumTo(g, N) < N * t
<1>1. PICK u : Adds(N, f, u) BY SumToIsSum, Zenon
<1>2. PICK v : Adds(N, g, v) BY SumToIsSum, Zenon
<1> DEFINE Good(n) == u[n] * t >= v[n] /\ u[n] * t - v[n] <= n * (t - 1)
           Wrong == {n \in Nat : n <= N /\ ~Good(n)}
<1>3. Wrong = {}
  <2>1. SUFFICES ASSUME Wrong # {} PROVE FALSE OBVIOUS
  <2>2. PICK k \in Wrong : \A m \in Wrong : k <= m BY <2>1, LeastNat
  <2>3. k # 0
    <3>1. Good(0) BY <1>1, <1>2 DEF Adds
    <3> QED BY <2>2, <3>1
  <2>4. k \in 1..N /\ k - 1 \in Nat /\ k - 1 <= N /\ k - 1 \notin Wrong BY <2>2, <2>3
  <2>5. u[k - 1] * t >= v[k - 1] /\ u[k - 1] * t - v[k - 1] <= (k - 1) * (t - 1)
    BY <2>4
  <2>6. /\ u[k] = u[k - 1] + f[k] /\ v[k] = v[k - 1] + g[k]
        /\ u[k - 1] \in Nat /\ v[k - 1] \in Nat
    BY <1>1, <1>2, <2>4 DEF Adds
  <2>7. f[k] \in Nat /\ g[k] \in Nat /\ f[k] * t >= g[k] /\ f[k] * t - g[k] <= t - 1
    BY <2>4 DEF NumbersTo, Covers
  <2>8. u[k] * t = u[k - 1] * t + f[k] * t BY <2>6, <2>7
  <2>9. k * (t - 1) = (k - 1) * (t - 1) + (t - 1) BY <2>4
  <2>10. Good(k)
    <3> DEFINE a == u[k - 1] * t  b == f[k] * t  c == (k - 1) * (t - 1)
    <3>1. a \in Int /\ b \in Int /\ c \in Int /\ v[k - 1] \in Int /\ g[k] \in Int
      BY <2>4, <2>6, <2>7
    <3> HIDE DEF a, b, c
    <3>2. a + b >= v[k - 1] + g[k] /\ (a + b) - (v[k - 1] + g[k]) <= c + (t - 1)
      BY <2>5, <2>7, <3>1 DEF a, b, c
    <3> QED BY <2>6, <2>8, <2>9, <3>2 DEF a, b, c
  <2> QED BY <2>2, <2>10
<1>4. Good(N) BY <1>3
<1>5. N * (t - 1) < N * t OBVIOUS
<1>6. u[N] \in Nat /\ v[N] \in Nat /\ SumTo(f, N) = u[N] /\ SumTo(g, N) = v[N]
  BY <1>1, <1>2 DEF Adds
<1> QED BY <1>4, <1>5, <1>6

-----------------------------------------------------------------------------
(* Fractions. *)

Divides(d, n) == \E p \in Nat : n = d * p

(* g is Euclid's function for second arguments up to the n-th. *)
Euclids(n, g) == g = [y \in 0..n |-> [x \in Nat |-> IF y = 0 THEN x ELSE g[x % y][y]]]

LEMMA RemainderFacts ==
  ASSUME NEW x \in Nat, NEW y \in Nat, y > 0
  PROVE  /\ x % y \in Nat /\ x % y < y /\ x \div y \in Nat
         /\ x = y * (x \div y) + (x % y)
<1>1. x % y \in Nat /\ x % y < y BY SMT
<1>2. x \div y \in Nat BY SMT
<1>3. x = y * (x \div y) + (x % y) BY SMT
<1> QED BY <1>1, <1>2, <1>3

LEMMA EuclidsExist ==
  ASSUME NEW N \in Nat
  PROVE  \E g : Euclids(N, g)
<1> DEFINE Wrong == {k \in Nat : ~\E g : Euclids(k, g)}
<1>1. SUFFICES ASSUME Wrong # {} PROVE FALSE OBVIOUS
<1>2. PICK k \in Wrong : \A m \in Wrong : k <= m BY <1>1, LeastNat
<1>3. CASE k = 0
  <2> DEFINE g == [y \in 0..0 |-> [x \in Nat |-> x]]
  <2>1. g = [y \in 0..0 |-> g[y]] OBVIOUS
  <2>2. ASSUME NEW y \in 0..0
        PROVE  g[y] = [x \in Nat |-> IF y = 0 THEN x ELSE g[x % y][y]]
    <3>1. y = 0 OBVIOUS
    <3>2. g[y] = [x \in Nat |-> x] OBVIOUS
    <3> HIDE DEF g
    <3> QED BY <3>1, <3>2
  <2> HIDE DEF g
  <2>3. Euclids(0, g) BY <2>1, <2>2 DEF Euclids
  <2> QED BY <1>2, <1>3, <2>3
<1>4. CASE k # 0
  <2>1. k - 1 \in Nat /\ k - 1 \notin Wrong /\ k \in Nat /\ k > 0 BY <1>2, <1>4
  <2>2. PICK g : Euclids(k - 1, g) BY <2>1
  <2> DEFINE h == [y \in 0..k |-> IF y = k THEN [x \in Nat |-> g[x % k][k]] ELSE g[y]]
  <2>3. \A y \in 0..k - 1 :
          g[y] = [x \in Nat |-> IF y = 0 THEN x ELSE g[x % y][y]]
    BY <2>1, <2>2 DEF Euclids
  <2>4. \A y \in 0..k : h[y] = IF y = k THEN [x \in Nat |-> g[x % k][k]] ELSE g[y]
    OBVIOUS
  <2>5. h = [y \in 0..k |-> h[y]] OBVIOUS
  <2> HIDE DEF h
  <2>6. ASSUME NEW z \in 0..k - 1 PROVE h[z] = g[z]
    <3>1. z \in 0..k /\ z # k BY <2>1
    <3> QED BY <2>4, <3>1
  <2>7. ASSUME NEW y \in 0..k
        PROVE  h[y] = [x \in Nat |-> IF y = 0 THEN x ELSE h[x % y][y]]
    <3>1. ASSUME NEW x \in Nat, y # 0 PROVE x % y \in 0..k - 1
      <4>1. y \in Nat /\ y > 0 /\ y <= k BY <2>1, <3>1
      <4>2. x % y \in Nat /\ x % y < y BY <4>1, RemainderFacts
      <4> QED BY <2>1, <4>1, <4>2
    <3>2. \A x \in Nat : y # 0 => h[x % y] = g[x % y] BY <2>6, <3>1
    <3>3. CASE y = k
      <4>1. h[y] = [x \in Nat |-> g[x % k][k]] BY <2>1, <2>4, <3>3
      <4>2. \A x \in Nat : g[x % k][k] = IF y = 0 THEN x ELSE h[x % y][y]
        BY <1>4, <3>2, <3>3
      <4> QED BY <4>1, <4>2
    <3>4. CASE y # k
      <4>1. y \in 0..k - 1 BY <2>1, <3>4
      <4>2. h[y] = [x \in Nat |-> IF y = 0 THEN x ELSE g[x % y][y]] BY <2>3, <2>6, <4>1
      <4>3. \A x \in Nat : (IF y = 0 THEN x ELSE g[x % y][y])
                             = (IF y = 0 THEN x ELSE h[x % y][y])
        BY <3>2
      <4> QED BY <4>2, <4>3
    <3> QED BY <3>3, <3>4
  <2>8. Euclids(k, h) BY <2>5, <2>7 DEF Euclids
  <2> QED BY <1>2, <2>8
<1> QED BY <1>3, <1>4

(* A common divisor that is not 0. *)
Common(d, x, y) == d \in Nat /\ d > 0 /\ Divides(d, x) /\ Divides(d, y)

LEMMA CommonStep ==
  ASSUME NEW x \in Nat, NEW y \in Nat, y > 0, NEW d, Common(d, y, x % y)
  PROVE  Common(d, x, y)
<1>1. PICK p \in Nat : y = d * p BY DEF Common, Divides
<1>2. PICK q \in Nat : x % y = d * q BY DEF Common, Divides
<1>3. x \div y \in Nat /\ x = y * (x \div y) + (x % y) BY RemainderFacts
<1>4. d \in Nat /\ d > 0 BY DEF Common
<1> DEFINE m == x \div y
<1>5. m \in Nat /\ x = (d * p) * m + d * q BY <1>1, <1>2, <1>3
<1> HIDE DEF m
<1>6. (d * p) * m + d * q = d * (p * m + q) BY <1>4, <1>5
<1>7. p * m + q \in Nat BY <1>5
<1> QED BY <1>1, <1>4, <1>5, <1>6, <1>7 DEF Common, Divides

LEMMA GcdIsCommon ==
  ASSUME NEW a \in Nat, NEW b \in Nat, b > 0
  PROVE  Common(Gcd(a, b), a, b)
<1> DEFINE g == CHOOSE h : Euclids(b, h)
<1>1. Euclids(b, g) BY EuclidsExist, Zenon
<1>2. Gcd(a, b) = g[b][a] BY Zenon DEF Gcd, Euclids
<1> HIDE DEF g
<1>3. \A y \in 0..b : \A x \in Nat : g[y][x] = IF y = 0 THEN x ELSE g[x % y][y]
  BY <1>1 DEF Euclids
<1> DEFINE Good(y) == \A x \in Nat : x > 0 \/ y > 0 => Common(g[y][x], x, y)
           Wrong == {y \in Nat : y <= b /\ ~Good(y)}
<1>4. Wrong = {}
  <2>1. SUFFICES ASSUME Wrong # {} PROVE FALSE OBVIOUS
  <2>2. PICK y \in Wrong : \A m \in Wrong : y <= m BY <2>1, LeastNat
  <2>3. ASSUME y = 0 PROVE Good(y)
    <3> SUFFICES ASSUME NEW x \in Nat, x > 0 PROVE Common(g[0][x], x, 0) BY <2>3
    <3>1. g[0][x] = x BY <1>3
    <3>2. x = x * 1 /\ 0 = x * 0 OBVIOUS
    <3> QED BY <3>1, <3>2 DEF Common, Divides
  <2>4. ASSUME y # 0 PROVE Good(y)
    <3> SUFFICES ASSUME NEW x \in Nat PROVE Common(g[y][x], x, y) OBVIOUS
    <3>1. y \in Nat /\ y > 0 /\ y \in 0..b BY <2>2, <2>4
    <3>2. x % y \in Nat /\ x % y < y BY <3>1, RemainderFacts
    <3>3. g[y][x] = g[x % y][y] BY <1>3, <3>1
    <3>4. x % y \notin Wrong /\ x % y <= b BY <2>2, <3>1, <3>2
    <3>5. Common(g[x % y][y], y, x % y) BY <3>1, <3>2, <3>4
    <3> QED BY <3>1, <3>3, <3>5, CommonStep
  <2> QED BY <2>2, <2>3, <2>4
<1>5. Good(b) BY <1>4
<1> QED BY <1>2, <1>5

(* f is the fraction n/d. *)
Is(f, n, d) == f.n \in Nat /\ f.d \in Nat /\ f.d > 0 /\ f.n * d = f.d * n

LEMMA ReduceIs ==
  ASSUME NEW f, f.n \in Nat, f.d \in Nat, f.d > 0
  PROVE  Is(Reduce(f), f.n, f.d)
<1> DEFINE G == Gcd(f.n, f.d)
<1>1. Common(G, f.n, f.d) BY GcdIsCommon
<1>2. PICK p \in Nat : f.n = G * p BY <1>1 DEF Common, Divides
<1>3. PICK q \in Nat : f.d = G * q BY <1>1 DEF Common, Divides
<1>4. G \in Nat /\ G > 0 BY <1>1 DEF Common
<1>5. Reduce(f).n = f.n \div G /\ Reduce(f).d = f.d \div G BY DEF Reduce
<1> HIDE DEF G
<1>6. (G * p) \div G = p /\ (G * q) \div G = q BY <1>4
<1>7. q > 0
  <2>1. q # 0 BY <1>3, <1>4
  <2> QED BY <2>1
<1>8. p * (G * q) = q * (G * p) BY <1>4
<1> QED BY <1>2, <1>3, <1>5, <1>6, <1>7, <1>8 DEF Is

(* A reduced fraction of another one is the same fraction. *)
LEMMA IsOfSame ==
  ASSUME NEW f, NEW m \in Nat, NEW e \in Nat, e > 0, Is(f, m, e),
         NEW n \in Nat, NEW d \in Nat, m * d = e * n
  PROVE  Is(f, n, d)
<1>1. f.n \in Nat /\ f.d \in Nat /\ f.d > 0 /\ f.n * e = f.d * m BY DEF Is
<1> DEFINE x == f.n  y == f.d
<1>2. x \in Nat /\ y \in Nat /\ y > 0 /\ x * e = y * m BY <1>1
<1> HIDE DEF x, y
<1>3. (x * d) * e = (y * n) * e
  <2>1. (x * d) * e = (x * e) * d BY <1>2
  <2>2. (y * m) * d = y * (m * d) BY <1>2
  <2>3. y * (e * n) = (y * n) * e BY <1>2
  <2> QED BY <1>2, <2>1, <2>2, <2>3
<1>4. x * d = y * n
  <2>1. x * d \in Int /\ y * n \in Int BY <1>2
  <2> QED BY <1>3, <2>1
<1> QED BY <1>2, <1>4 DEF Is, x, y

LEMMA MultiplyIs ==
  ASSUME NEW f, NEW g, NEW n \in Nat, NEW d \in Nat, NEW m \in Nat, NEW e \in Nat,
         Is(f, n, d), Is(g, m, e)
  PROVE  Is(Multiply(f, g), n * m, d * e)
<1> DEFINE a == f.n  b == f.d  x == g.n  y == g.d
           h == [n |-> f.n * g.n, d |-> f.d * g.d]
<1>1. /\ a \in Nat /\ b \in Nat /\ b > 0 /\ a * d = b * n
      /\ x \in Nat /\ y \in Nat /\ y > 0 /\ x * e = y * m
  BY DEF Is
<1>2. h.n = a * x /\ h.d = b * y OBVIOUS
<1>3. Multiply(f, g) = Reduce(h) BY DEF Multiply
<1> HIDE DEF a, b, x, y, h
<1>4. a * x \in Nat /\ b * y \in Nat /\ b * y > 0 BY <1>1
<1>5. Is(Reduce(h), a * x, b * y) BY <1>2, <1>4, ReduceIs
<1>6. (a * x) * (d * e) = (b * y) * (n * m)
  <2>1. (a * x) * (d * e) = (a * d) * (x * e) BY <1>1
  <2>2. (b * y) * (n * m) = (b * n) * (y * m) BY <1>1
  <2> QED BY <1>1, <2>1, <2>2
<1>7. n * m \in Nat /\ d * e \in Nat OBVIOUS
<1> QED BY <1>3, <1>4, <1>5, <1>6, <1>7, IsOfSame

LEMMA DivideIs ==
  ASSUME NEW f, NEW g, NEW n \in Nat, NEW d \in Nat, NEW m \in Nat, NEW e \in Nat,
         m > 0, Is(f, n, d), Is(g, m, e)
  PROVE  Is(Divide(f, g), n * e, d * m)
<1> DEFINE a == f.n  b == f.d  x == g.n  y == g.d
           h == [n |-> f.n * g.d, d |-> f.d * g.n]
<1>1. /\ a \in Nat /\ b \in Nat /\ b > 0 /\ a * d = b * n
      /\ x \in Nat /\ y \in Nat /\ y > 0 /\ x * e = y * m
  BY DEF Is
<1>2. h.n = a * y /\ h.d = b * x OBVIOUS
<1>3. Divide(f, g) = Reduce(h) BY DEF Divide
<1> HIDE DEF a, b, x, y, h
<1>4. x > 0
  <2>1. y * m > 0 BY <1>1
  <2>2. x # 0 BY <1>1, <2>1
  <2> QED BY <1>1, <2>2
<1>5. a * y \in Nat /\ b * x \in Nat /\ b * x > 0 BY <1>1, <1>4
<1>6. Is(Reduce(h), a * y, b * x) BY <1>2, <1>5, ReduceIs
<1>7. (a * y) * (d * m) = (b * x) * (n * e)
  <2>1. (a * y) * (d * m) = (a * d) * (y * m) BY <1>1
  <2>2. (b * x) * (n * e) = (b * n) * (x * e) BY <1>1
  <2> QED BY <1>1, <2>1, <2>2
<1>8. n * e \in Nat /\ d * m \in Nat OBVIOUS
<1> QED BY <1>3, <1>5, <1>6, <1>7, <1>8, IsOfSame

(* c is the least number that is not below n/d. *)
IsCeiling(c, n, d) == c \in Int /\ c * d >= n /\ (c - 1) * d < n

LEMMA CeilingOf ==
  ASSUME NEW f, f.n \in Nat, f.d \in Nat, f.d > 0
  PROVE  IsCeiling(CeilFraction(f), f.n, f.d)
<1> DEFINE n == f.n  d == f.d
<1>1. n \in Nat /\ d \in Nat /\ d > 0 OBVIOUS
<1>2. CeilFraction(f) = (n + d - 1) \div d BY DEF CeilFraction
<1> HIDE DEF n, d
<1>3. (n + d - 1) \div d \in Int /\ ((n + d - 1) \div d) * d >= n BY <1>1
<1>4. (((n + d - 1) \div d) - 1) * d < n BY <1>1
<1> QED BY <1>2, <1>3, <1>4 DEF IsCeiling, n, d

LEMMA CeilingOfSame ==
  ASSUME NEW f, NEW n \in Nat, NEW d \in Nat, d > 0, Is(f, n, d)
  PROVE  IsCeiling(CeilFraction(f), n, d)
<1> DEFINE x == f.n  y == f.d  c == CeilFraction(f)
<1>1. x \in Nat /\ y \in Nat /\ y > 0 /\ x * d = y * n BY DEF Is
<1>2. c \in Int /\ c * y >= x /\ (c - 1) * y < x BY <1>1, CeilingOf DEF IsCeiling
<1> HIDE DEF x, y, c
<1>3. c * d >= n
  <2>1. (c * y) * d >= x * d BY <1>1, <1>2
  <2>2. (c * d) * y >= n * y
    <3>1. (c * y) * d = (c * d) * y BY <1>1, <1>2
    <3>2. y * n = n * y BY <1>1
    <3> QED BY <1>1, <2>1, <3>1, <3>2
  <2>3. c * d \in Int BY <1>2
  <2> QED BY <1>1, <2>2, <2>3
<1>4. (c - 1) * d < n
  <2> DEFINE b == c - 1
  <2>0. b \in Int /\ b * y < x BY <1>2
  <2> HIDE DEF b
  <2>1. (b * y) * d < x * d BY <1>1, <2>0
  <2>2. (b * d) * y < n * y
    <3>1. (b * y) * d = (b * d) * y BY <1>1, <2>0
    <3>2. y * n = n * y BY <1>1
    <3> QED BY <1>1, <2>1, <3>1, <3>2
  <2>3. b * d \in Int BY <2>0
  <2>4. b * d < n BY <1>1, <2>2, <2>3
  <2> QED BY <2>4 DEF b
<1> QED BY <1>2, <1>3, <1>4 DEF IsCeiling, c

-----------------------------------------------------------------------------
(* Decimals. *)

LEMMA MaxIsGreatest ==
  ASSUME NEW S \in SUBSET Nat, S # {}, NEW B \in Nat, \A s \in S : s <= B
  PROVE  Max(S) \in S /\ \A s \in S : s <= Max(S)
<1> DEFINE R == {r \in Nat : \E s \in S : r = B - s}
<1>1. R # {}
  <2>1. PICK s \in S : TRUE OBVIOUS
  <2>2. B - s \in Nat OBVIOUS
  <2> QED BY <2>2
<1>2. PICK r \in R : \A q \in R : r <= q
  <2>1. R \in SUBSET Nat OBVIOUS
  <2> HIDE DEF R
  <2> QED BY <1>1, <2>1, LeastNat
<1>3. PICK s \in S : r = B - s BY <1>2
<1>4. \A t \in S : s >= t
  <2> SUFFICES ASSUME NEW t \in S PROVE s >= t OBVIOUS
  <2>1. B - t \in R OBVIOUS
  <2>2. r <= B - t BY <1>2, <2>1
  <2> QED BY <1>3, <2>2
<1>5. Max(S) \in S /\ \A t \in S : Max(S) >= t BY <1>4 DEF Max
<1> QED BY <1>5

LEMMA MaxOfTwo ==
  ASSUME NEW a \in Nat, NEW b \in Nat, a >= b
  PROVE  Max({a, b}) = a /\ Max({b, a}) = a
<1>1. {a, b} = {b, a} OBVIOUS
<1>2. {a, b} \in SUBSET Nat /\ {a, b} # {} /\ \A s \in {a, b} : s <= a OBVIOUS
<1>3. Max({a, b}) \in {a, b} /\ \A s \in {a, b} : s <= Max({a, b}) BY <1>2, MaxIsGreatest
<1> QED BY <1>1, <1>3

(* Zeros are taken from the end of the fraction. *)
LEMMA NormalFacts ==
  ASSUME NEW x, x.digits \in Nat, x.scale \in Nat
  PROVE  \E k \in 0..x.scale :
           /\ Normal(x).digits \in Nat /\ x.digits = TenTo(k) * Normal(x).digits
           /\ Normal(x).scale = x.scale - k
           /\ Normal(x) \in Decimals
<1> DEFINE S == {k \in 0..x.scale : x.digits % TenTo(k) = 0}
<1>1. S \in SUBSET Nat /\ \A s \in S : s <= x.scale OBVIOUS
<1>2. 0 \in S
  <2>1. x.digits % 1 = 0 OBVIOUS
  <2> QED BY <2>1, TenToNothing
<1> DEFINE k == Max(S)
<1>3. k \in S
  <2> HIDE DEF S
  <2> QED BY <1>1, <1>2, MaxIsGreatest
<1>4. k \in 0..x.scale /\ x.digits % TenTo(k) = 0 BY <1>3
<1>5. Normal(x) = Decimal(x.digits \div TenTo(k), x.scale - k) BY DEF Normal
<1> HIDE DEF S, k
<1>6. TenTo(k) \in Nat /\ TenTo(k) > 0 BY <1>4, TenToPositive
<1> DEFINE t == TenTo(k)  d == x.digits
<1>7. t \in Nat /\ t > 0 /\ d \in Nat /\ d % t = 0 BY <1>4, <1>6
<1>8. Normal(x).digits = d \div t /\ Normal(x).scale = x.scale - k
  BY <1>5 DEF Decimal
<1> HIDE DEF t, d
<1>9. d \div t \in Nat /\ d = t * (d \div t) + (d % t) BY <1>7, RemainderFacts
<1>10. d = t * (d \div t) BY <1>7, <1>9
<1>11. x.scale - k \in Nat BY <1>4
<1>12. Normal(x) \in Decimals BY <1>5, <1>9, <1>11 DEF Decimal, Decimals, d, t
<1> QED BY <1>4, <1>8, <1>9, <1>10, <1>12 DEF d, t

LEMMA FromExponentType ==
  ASSUME NEW n \in Nat, NEW e \in Int
  PROVE  FromExponent(n, e) \in Decimals /\ (n > 0 => FromExponent(n, e).digits > 0)
<1>1. CASE e >= 0
  <2>1. TenTo(e) \in Nat /\ TenTo(e) > 0 BY <1>1, TenToPositive
  <2>2. FromExponent(n, e) = Decimal(n * TenTo(e), 0) BY <1>1 DEF FromExponent
  <2> DEFINE m == n * TenTo(e)
  <2>3. m \in Nat /\ (n > 0 => m > 0) BY <2>1
  <2> HIDE DEF m
  <2> QED BY <2>2, <2>3 DEF Decimal, Decimals, m
<1>2. CASE ~(e >= 0)
  <2> DEFINE x == Decimal(n, -e)
  <2>1. x.digits = n /\ x.scale = -e BY DEF Decimal
  <2>2. -e \in Nat BY <1>2
  <2>3. FromExponent(n, e) = Normal(x) BY <1>2 DEF FromExponent
  <2> HIDE DEF x
  <2>4. PICK k \in 0..x.scale :
          /\ Normal(x).digits \in Nat /\ x.digits = TenTo(k) * Normal(x).digits
          /\ Normal(x) \in Decimals
    BY <2>1, <2>2, NormalFacts
  <2>5. TenTo(k) \in Nat BY <2>1, <2>2, TenToPositive
  <2>6. n > 0 => Normal(x).digits > 0
    <3>1. Normal(x).digits = 0 => n = 0 BY <2>1, <2>4, <2>5
    <3> QED BY <2>4, <3>1
  <2> QED BY <2>3, <2>4, <2>6
<1> QED BY <1>1, <1>2

LEMMA ScaledToOne ==
  ASSUME NEW x, x.digits \in Nat, x.scale \in Nat
  PROVE  /\ Scaled(x, Decimal(1, 0)) = x.digits
         /\ Scaled(Decimal(1, 0), x) = TenTo(x.scale)
         /\ Max({x.scale, Decimal(1, 0).scale}) = x.scale
<1>1. Decimal(1, 0).digits = 1 /\ Decimal(1, 0).scale = 0 BY DEF Decimal
<1>2. x.scale >= 0 OBVIOUS
<1>3. Max({x.scale, 0}) = x.scale /\ Max({0, x.scale}) = x.scale BY <1>2, MaxOfTwo
<1>4. TenTo(x.scale) \in Nat BY TenToPositive
<1>5. x.scale - x.scale = 0 /\ x.scale - 0 = x.scale OBVIOUS
<1>6. x.digits * 1 = x.digits /\ 1 * TenTo(x.scale) = TenTo(x.scale) BY <1>4
<1> QED BY <1>1, <1>3, <1>5, <1>6, TenToNothing DEF Scaled

(* A price that is accepted is within a hundredth of one dollar. *)
LEMMA AcceptedIsNearOne ==
  ASSUME price.price.digits \in Nat, price.price.scale \in Nat, PriceAccepted
  PROVE  /\ price.price.digits * 100 <= TenTo(price.price.scale) * 101
         /\ price.price.digits * 100 >= TenTo(price.price.scale) * 99
<1> DEFINE x == price.price  unit == Decimal(1, 0)
           d == x.digits  one == TenTo(x.scale)
           gap == IF d >= one THEN d - one ELSE one - d
           raw == Decimal(gap, x.scale)
           diff == Normal(raw)
<1>1. d \in Nat /\ x.scale \in Nat /\ one \in Nat BY TenToPositive
<1>2. Scaled(x, unit) = d /\ Scaled(unit, x) = one /\ Max({x.scale, unit.scale}) = x.scale
  BY ScaledToOne
<1>3. AbsoluteDifference(x, unit) = diff BY <1>2 DEF AbsoluteDifference
<1>4. RatioAtMost(diff, unit, 1, 100) BY <1>3 DEF PriceAccepted
<1>5. gap \in Nat /\ raw.digits = gap /\ raw.scale = x.scale BY <1>1 DEF Decimal
<1> HIDE DEF unit, d, one, gap, raw
<1>6. PICK k \in 0..x.scale :
        /\ diff.digits \in Nat /\ gap = TenTo(k) * diff.digits
        /\ diff.scale = x.scale - k
  <2>1. PICK k \in 0..raw.scale :
          /\ Normal(raw).digits \in Nat /\ raw.digits = TenTo(k) * Normal(raw).digits
          /\ Normal(raw).scale = raw.scale - k
    BY <1>1, <1>5, NormalFacts
  <2> QED BY <1>5, <2>1
<1> HIDE DEF diff
<1>7. diff.scale \in Nat /\ k \in Nat /\ k + diff.scale = x.scale BY <1>1, <1>6
<1>8. Scaled(diff, unit) = diff.digits /\ Scaled(unit, diff) = TenTo(diff.scale)
  BY <1>6, <1>7, ScaledToOne DEF unit
<1>9. diff.digits * 100 <= TenTo(diff.scale) * 1 BY <1>4, <1>8 DEF RatioAtMost
<1>10. one = TenTo(k) * TenTo(diff.scale) BY <1>7, TenToSplits DEF one
<1> DEFINE t == TenTo(k)  u == TenTo(diff.scale)  y == diff.digits
<1>11. t \in Nat /\ u \in Nat /\ y \in Nat BY <1>6, <1>7, TenToPositive
<1>12. gap = t * y /\ one = t * u /\ y * 100 <= u
  <2>1. u * 1 = u BY <1>11
  <2> QED BY <1>6, <1>9, <1>10, <2>1
<1> HIDE DEF t, u, y
<1>13. t * (y * 100) <= t * u BY <1>11, <1>12
<1>14. gap * 100 <= one BY <1>11, <1>12, <1>13
<1>15. d * 100 <= one * 101 /\ d * 100 >= one * 99
  <2>1. CASE d >= one
    <3>1. gap = d - one BY <2>1 DEF gap
    <3> QED BY <1>1, <1>14, <2>1, <3>1
  <2>2. CASE ~(d >= one)
    <3>1. gap = one - d BY <2>2 DEF gap
    <3> QED BY <1>1, <1>14, <2>2, <3>1
  <2> QED BY <2>1, <2>2
<1> QED BY <1>15 DEF d, one

-----------------------------------------------------------------------------
(* Totals. *)

LEMMA LineCovers ==
  ASSUME NEW line \in [quantity : Decimals, unitPrice : Nat, tax : Nat],
         NEW top \in Nat, line.quantity.scale <= top
  PROVE  LET a == LineSubtotal(line) + line.tax
             b == Exact(line) * TenTo(top - line.quantity.scale) + line.tax * TenTo(top)
         IN  /\ a \in Nat /\ b \in Nat
             /\ a * TenTo(top) >= b /\ a * TenTo(top) - b < TenTo(top)
<1> DEFINE e == Exact(line)  s == line.quantity.scale  x == line.tax
           t == TenTo(s)  r == TenTo(top - s)  c == LineSubtotal(line)
           f == [n |-> e, d |-> t]
<1>1. /\ line.quantity.digits \in Nat /\ s \in Nat /\ x \in Nat /\ line.unitPrice \in Nat
      /\ top - s \in Nat /\ s + (top - s) = top
  BY DEF Decimals
<1>2. e \in Nat
  <2>1. \A m, n \in Nat : m * n \in Nat OBVIOUS
  <2> QED BY <1>1, <2>1 DEF Exact
<1>3. t \in Nat /\ t > 0 /\ r \in Nat /\ r > 0 BY <1>1, TenToPositive
<1>4. TenTo(top) = t * r BY <1>1, TenToSplits
<1>5. c = CeilFraction(f) BY DEF LineSubtotal
<1>6. f.n = e /\ f.d = t OBVIOUS
<1> HIDE DEF e, s, x, t, r, c, f
<1>7. c \in Int /\ c * t >= e /\ (c - 1) * t < e
  BY <1>2, <1>3, <1>5, <1>6, CeilingOf DEF IsCeiling
<1>8. c \in Nat
  <2>1. c * t >= 0 BY <1>2, <1>3, <1>7
  <2>2. c >= 0 BY <1>3, <1>7, <2>1
  <2> QED BY <1>7, <2>2
<1>9. c + x \in Nat /\ e * r + x * (t * r) \in Nat
  <2>1. \A m, n \in Nat : m * n \in Nat OBVIOUS
  <2>2. e * r \in Nat /\ t * r \in Nat BY <1>2, <1>3, <2>1
  <2>3. x * (t * r) \in Nat BY <1>1, <2>1, <2>2 DEF x
  <2> QED BY <1>1, <1>8, <2>2, <2>3 DEF x
<1>10. (c + x) * (t * r) = (c * t) * r + x * (t * r)
  BY <1>1, <1>3, <1>8 DEF x
<1>11. (c * t) * r >= e * r
  <2>1. c * t \in Int BY <1>3, <1>8
  <2> QED BY <1>2, <1>3, <1>7, <2>1
<1>12. (c * t) * r - e * r < t * r
  <2>1. (c - 1) * t = c * t - t BY <1>3, <1>8
  <2> DEFINE m == c * t
  <2>2. m \in Int /\ m - t < e BY <1>3, <1>7, <1>8, <2>1
  <2> HIDE DEF m
  <2>3. (m - t) * r < e * r BY <1>2, <1>3, <2>2
  <2>4. (m - t) * r = m * r - t * r BY <1>3, <2>2
  <2>5. m * r \in Int /\ t * r \in Int /\ e * r \in Int BY <1>2, <1>3, <2>2
  <2>6. m * r - e * r < t * r BY <2>3, <2>4, <2>5
  <2> QED BY <2>6 DEF m
<1> DEFINE p == (c * t) * r  q == e * r  w == x * (t * r)  z == t * r
<1>13. p \in Int /\ q \in Int /\ w \in Int /\ z \in Int /\ p >= q /\ p - q < z
  BY <1>1, <1>2, <1>3, <1>8, <1>11, <1>12 DEF x
<1>14. (c + x) * (t * r) = p + w BY <1>10
<1> HIDE DEF p, q, w, z
<1>15. p + w >= q + w /\ (p + w) - (q + w) < z BY <1>13
<1>16. (c + x) * (t * r) >= e * r + x * (t * r)
         /\ (c + x) * (t * r) - (e * r + x * (t * r)) < t * r
  BY <1>14, <1>15 DEF q, w, z
<1> QED BY <1>4, <1>9, <1>16 DEF c, x, e, r, s

LEMMA TotalCovers ==
  ASSUME NEW n \in Nat, n > 0, NEW lines \in [1..n -> Lines]
  PROVE  Total(lines) \in Nat /\ CoversLines(lines, Total(lines))
<1>1. Len(lines) = n /\ DOMAIN lines = 1..n BY SMT
<1> DEFINE S == {lines[i].quantity.scale : i \in DOMAIN lines}
           top == Max(S)
           line(i) == lines[i]
<1>2. \A i \in 1..n : lines[i] \in [quantity : Decimals, unitPrice : Nat, tax : Nat]
  BY QuoteAmountsAssumption
<1>3. \A i \in 1..n : lines[i].quantity.scale \in Nat BY <1>2 DEF Decimals
<1>4. S \in SUBSET Nat /\ S # {}
  <2>1. 1 \in 1..n OBVIOUS
  <2> QED BY <1>1, <1>3, <2>1
<1>5. top \in Nat /\ \A i \in 1..n : lines[i].quantity.scale <= top
  <2>1. \E B \in Nat : \A s \in S : s <= B
    <3> DEFINE Good(k) == \E B \in Nat : \A i \in 1..k : lines[i].quantity.scale <= B
               Wrong == {k \in Nat : k <= n /\ ~Good(k)}
    <3>1. SUFFICES Wrong = {}
      <4>1. Good(n)
        <5> HIDE DEF Good
        <5> QED BY <3>1
      <4>2. PICK B \in Nat : \A i \in 1..n : lines[i].quantity.scale <= B BY <4>1
      <4>3. \A s \in S : s <= B BY <1>1, <4>2
      <4> QED BY <4>3
    <3>2. SUFFICES ASSUME Wrong # {} PROVE FALSE OBVIOUS
    <3>3. PICK k \in Wrong : \A m \in Wrong : k <= m BY <3>2, LeastNat
    <3>4. k # 0
      <4>1. \A i \in 1..0 : lines[i].quantity.scale <= 0 OBVIOUS
      <4>2. Good(0) BY <4>1
      <4> QED BY <3>3, <4>2
    <3>5. k - 1 \in Nat /\ k - 1 <= n /\ k \in 1..n /\ Good(k - 1)
      <4> HIDE DEF Good
      <4>1. k \in Nat /\ k <= n BY <3>3
      <4>2. k - 1 \in Nat /\ k - 1 <= n /\ k \in 1..n BY <3>4, <4>1
      <4>3. k - 1 \notin Wrong BY <3>3, <4>1
      <4> QED BY <4>2, <4>3
    <3>6. PICK B \in Nat : \A i \in 1..(k - 1) : lines[i].quantity.scale <= B BY <3>5
    <3> DEFINE C == B + lines[k].quantity.scale
    <3>7. C \in Nat /\ B <= C /\ lines[k].quantity.scale <= C BY <1>3, <3>5
    <3> HIDE DEF C
    <3>8. ASSUME NEW i \in 1..k PROVE lines[i].quantity.scale <= C
      <4>1. CASE i = k BY <3>7, <4>1
      <4>2. CASE i # k
        <5>1. i \in 1..(k - 1) /\ i \in 1..n BY <3>5, <4>2
        <5> QED BY <1>3, <3>6, <3>7, <5>1
      <4> QED BY <4>1, <4>2
    <3>9. Good(k) BY <3>7, <3>8
    <3> QED BY <3>3, <3>9
  <2>2. PICK B \in Nat : \A s \in S : s <= B BY <2>1
  <2>3. \A i \in 1..n : lines[i].quantity.scale \in S BY <1>1
  <2>4. top \in S /\ \A s \in S : s <= top
    <3> HIDE DEF S
    <3> QED BY <1>4, <2>2, MaxIsGreatest
  <2> HIDE DEF S, top
  <2> QED BY <1>4, <2>3, <2>4
<1> HIDE DEF top
<1> DEFINE t == TenTo(top)
           f == [i \in DOMAIN lines |-> LineSubtotal(lines[i]) + lines[i].tax]
           g == [i \in DOMAIN lines |->
                   Exact(lines[i]) * TenTo(top - lines[i].quantity.scale)
                     + lines[i].tax * TenTo(top)]
<1>6. ASSUME NEW i \in 1..n
      PROVE  f[i] \in Nat /\ g[i] \in Nat /\ f[i] * t >= g[i] /\ f[i] * t - g[i] < t
  <2>1. /\ f[i] = LineSubtotal(lines[i]) + lines[i].tax
        /\ g[i] = Exact(lines[i]) * TenTo(top - lines[i].quantity.scale)
                    + lines[i].tax * TenTo(top)
    BY <1>1
  <2> HIDE DEF f, g
  <2> QED BY <1>2, <1>5, <2>1, LineCovers
<1>7. t \in Nat /\ t > 0 BY <1>5, TenToPositive
<1> HIDE DEF f, g, t
<1>8. NumbersTo(n, f) /\ NumbersTo(n, g) /\ Covers(n, t, f, g)
  BY <1>6 DEF NumbersTo, Covers
<1>9. SumTo(f, n) \in Nat /\ SumTo(f, n) * t >= SumTo(g, n)
        /\ SumTo(f, n) * t - SumTo(g, n) < n * t
  BY <1>7, <1>8, SumsCover
<1>10. Total(lines) = SumTo(f, n) BY <1>1 DEF Total, f
<1>11. CoversLines(lines, SumTo(f, n)) BY <1>1, <1>9 DEF CoversLines, g, t, top
<1> QED BY <1>9, <1>10, <1>11

-----------------------------------------------------------------------------
(* Quotes. *)

BillIsGood ==
  /\ bill.total \in Nat /\ bill.currency \in Currencies
  /\ CoversLines(bill.lines, bill.total)

(* What was observed is a price and rates, and a quote rests on both.       *)
AmountsInv ==
  /\ bill # Missing => BillIsGood
  /\ price # Missing => /\ bill # Missing
                        /\ price.price \in Decimals /\ price.price.digits > 0
  /\ rates # Missing => rates \in Rates
  /\ quote # Missing => /\ price # Missing
                        /\ bill.currency # "USD" => rates # Missing
  /\ AskedForWhatIsOwed

RatesArePositive ==
  bill.currency # "USD" =>
    \A c \in Currencies \ {"EUR"} : rates[c].digits \in Nat /\ rates[c].digits > 0
                                      /\ rates[c].scale \in Nat

LEMMA FractionOfIs ==
  ASSUME NEW x, x.digits \in Nat, x.scale \in Nat
  PROVE  Is(FractionOf(x), x.digits, TenTo(x.scale))
<1> DEFINE f == [n |-> x.digits, d |-> TenTo(x.scale)]
<1>1. f.n = x.digits /\ f.d = TenTo(x.scale) /\ FractionOf(x) = Reduce(f)
  BY DEF FractionOf
<1> HIDE DEF f
<1>2. TenTo(x.scale) \in Nat /\ TenTo(x.scale) > 0 BY TenToPositive
<1> QED BY <1>1, <1>2, ReduceIs

LEMMA RateIsPositive ==
  ASSUME RatesArePositive, bill.currency \in Currencies
  PROVE  UsdRate[1] \in Nat /\ UsdRate[2] \in Nat /\ UsdRate[2] > 0
<1>1. CASE bill.currency = "USD" BY <1>1 DEF UsdRate
<1>2. CASE bill.currency # "USD"
  <2> DEFINE p(c) == rates[c].digits  t(c) == TenTo(rates[c].scale)
  <2>1. \A c \in Currencies \ {"EUR"} : p(c) \in Nat /\ p(c) > 0 /\ t(c) \in Nat /\ t(c) > 0
    BY <1>2, TenToPositive DEF RatesArePositive
  <2>2. "USD" \in Currencies \ {"EUR"} BY DEF Currencies
  <2>3. CASE bill.currency = "EUR"
    <3>1. UsdRate = <<p("USD"), t("USD")>> BY <2>3 DEF UsdRate
    <3> HIDE DEF p, t
    <3> QED BY <2>1, <2>2, <3>1
  <2>4. CASE bill.currency # "EUR"
    <3> DEFINE c == bill.currency
    <3>1. c \in Currencies \ {"EUR"} BY <2>4
    <3>2. UsdRate = <<p("USD") * t(c), t("USD") * p(c)>> BY <1>2, <2>4 DEF UsdRate
    <3> HIDE DEF p, t, c
    <3>3. p("USD") * t(c) \in Nat /\ t("USD") * p(c) \in Nat /\ t("USD") * p(c) > 0
      <4>1. \A m, n \in Nat : m * n \in Nat /\ (m > 0 /\ n > 0 => m * n > 0) OBVIOUS
      <4> QED BY <2>1, <2>2, <3>1, <4>1
    <3> QED BY <3>2, <3>3
  <2> QED BY <2>3, <2>4
<1> QED BY <1>1, <1>2

(* The dollars of an amount. *)
LEMMA InUsdIs ==
  ASSUME RatesArePositive, bill.currency \in Currencies,
         NEW amount, NEW n \in Nat, NEW d \in Nat, Is(amount, n, d)
  PROVE  Is(InUsd(amount), n * UsdRate[1], d * UsdRate[2])
<1>1. CASE bill.currency = "USD"
  <2>1. InUsd(amount) = amount /\ UsdRate[1] = 1 /\ UsdRate[2] = 1
    BY <1>1 DEF InUsd, UsdRate
  <2>2. n * 1 = n /\ d * 1 = d OBVIOUS
  <2> QED BY <2>1, <2>2
<1>2. CASE bill.currency # "USD"
  <2> DEFINE p(c) == rates[c].digits  t(c) == TenTo(rates[c].scale)
             usd == FractionOf(rates["USD"])
  <2>1. \A c \in Currencies \ {"EUR"} :
          /\ p(c) \in Nat /\ p(c) > 0 /\ t(c) \in Nat /\ t(c) > 0
          /\ Is(FractionOf(rates[c]), p(c), t(c))
    BY <1>2, TenToPositive, FractionOfIs DEF RatesArePositive
  <2>2. "USD" \in Currencies \ {"EUR"} BY DEF Currencies
  <2>3. Is(usd, p("USD"), t("USD")) /\ p("USD") \in Nat /\ t("USD") \in Nat BY <2>1, <2>2
  <2>4. CASE bill.currency = "EUR"
    <3>1. UsdRate = <<p("USD"), t("USD")>> /\ InUsd(amount) = Multiply(amount, usd)
      BY <2>4 DEF UsdRate, InUsd
    <3> HIDE DEF p, t, usd
    <3>2. Is(Multiply(amount, usd), n * p("USD"), d * t("USD")) BY <2>3, MultiplyIs
    <3> QED BY <3>1, <3>2
  <2>5. CASE bill.currency # "EUR"
    <3> DEFINE c == bill.currency  rate == FractionOf(rates[c])
    <3>1. c \in Currencies \ {"EUR"} BY <2>5
    <3>2. UsdRate = <<p("USD") * t(c), t("USD") * p(c)>>
            /\ InUsd(amount) = Divide(Multiply(amount, usd), rate)
      BY <1>2, <2>5 DEF UsdRate, InUsd
    <3>3. p(c) \in Nat /\ p(c) > 0 /\ t(c) \in Nat /\ Is(rate, p(c), t(c)) BY <2>1, <3>1
    <3> HIDE DEF p, t, usd, rate, c
    <3>4. Is(Multiply(amount, usd), n * p("USD"), d * t("USD")) BY <2>3, MultiplyIs
    <3>5. n * p("USD") \in Nat /\ d * t("USD") \in Nat
      <4>1. \A x, y \in Nat : x * y \in Nat OBVIOUS
      <4> QED BY <2>3, <4>1
    <3>6. Is(Divide(Multiply(amount, usd), rate),
             (n * p("USD")) * t(c), (d * t("USD")) * p(c))
      BY <3>3, <3>4, <3>5, DivideIs
    <3>7. (n * p("USD")) * t(c) = n * (p("USD") * t(c))
            /\ (d * t("USD")) * p(c) = d * (t("USD") * p(c))
      BY <2>3, <3>3
    <3> QED BY <3>2, <3>6, <3>7
  <2> QED BY <2>4, <2>5
<1> QED BY <1>1, <1>2

(* Whole and part of what is owed in a token, but for its price. *)
Owed == bill.total * UsdRate[1] * BaseUnits
Worth == MinorUnits * UsdRate[2]

LEMMA AmountIsCeiling ==
  ASSUME bill.total \in Nat, bill.currency \in Currencies, RatesArePositive,
         price.price.digits \in Nat, price.price.digits > 0, price.price.scale \in Nat
  PROVE  /\ Owed \in Nat /\ Worth \in Nat /\ Worth > 0
         /\ IsCeiling(AmountBaseUnits, Owed * TenTo(price.price.scale),
                      Worth * price.price.digits)
<1> DEFINE T == bill.total  u == UsdRate[1]  v == UsdRate[2]
           one == TenTo(price.price.scale)  p == price.price.digits
           start == [n |-> T, d |-> MinorUnits]
           amount == Reduce(start)
           rate == FractionOf(price.price)
           token == Divide(InUsd(amount), rate)
           unit == [n |-> BaseUnits, d |-> 1]
<1>1. u \in Nat /\ v \in Nat /\ v > 0 BY RateIsPositive
<1>2. MinorUnits \in Nat /\ MinorUnits > 0 /\ BaseUnits \in Nat /\ BaseUnits > 0
  BY QuoteAmountsAssumption
<1>3. T \in Nat /\ p \in Nat /\ p > 0 /\ one \in Nat BY TenToPositive
<1>4. Is(amount, T, MinorUnits)
  <2>1. start.n = T /\ start.d = MinorUnits OBVIOUS
  <2> HIDE DEF start
  <2> QED BY <1>2, <2>1, ReduceIs
<1>5. Is(rate, p, one) BY FractionOfIs
<1>6. Is(unit, BaseUnits, 1)
  <2>1. unit.n = BaseUnits /\ unit.d = 1 OBVIOUS
  <2> QED BY <1>2, <2>1 DEF Is
<1>7. AmountBaseUnits = CeilFraction(Multiply(token, unit)) BY DEF AmountBaseUnits
<1>8. Is(InUsd(amount), T * u, MinorUnits * v)
  <2> HIDE DEF amount
  <2> QED BY <1>2, <1>4, InUsdIs
<1> HIDE DEF T, u, v, one, p, amount, rate, token, unit
<1>9. \A x, y \in Nat : x * y \in Nat /\ (x > 0 /\ y > 0 => x * y > 0) OBVIOUS
<1>10. T * u \in Nat /\ MinorUnits * v \in Nat /\ MinorUnits * v > 0 BY <1>1, <1>2, <1>3, <1>9
<1>11. Is(token, (T * u) * one, (MinorUnits * v) * p)
  BY <1>3, <1>5, <1>8, <1>10, DivideIs DEF token
<1>12. (T * u) * one \in Nat /\ (MinorUnits * v) * p \in Nat /\ (MinorUnits * v) * p > 0
  BY <1>3, <1>9, <1>10
<1>13. Is(Multiply(token, unit), ((T * u) * one) * BaseUnits, ((MinorUnits * v) * p) * 1)
  BY <1>2, <1>6, <1>11, <1>12, MultiplyIs
<1>14. ((T * u) * one) * BaseUnits = ((T * u) * BaseUnits) * one
  BY <1>2, <1>3, <1>10
<1>15. ((MinorUnits * v) * p) * 1 = (MinorUnits * v) * p BY <1>12
<1>16. (T * u) * BaseUnits \in Nat BY <1>2, <1>9, <1>10
<1>17. ((T * u) * BaseUnits) * one \in Nat BY <1>3, <1>9, <1>16
<1>18. IsCeiling(CeilFraction(Multiply(token, unit)), ((T * u) * BaseUnits) * one,
                 (MinorUnits * v) * p)
  <2> DEFINE x == ((T * u) * BaseUnits) * one  y == (MinorUnits * v) * p
             z == Multiply(token, unit)
  <2>1. Is(z, x, y) BY <1>13, <1>14, <1>15
  <2>2. x \in Nat /\ y \in Nat /\ y > 0 BY <1>12, <1>17
  <2> HIDE DEF x, y, z
  <2>3. IsCeiling(CeilFraction(z), x, y) BY <2>1, <2>2, CeilingOfSame
  <2> QED BY <2>3 DEF x, y, z
<1>19. Owed = (T * u) * BaseUnits /\ Worth = MinorUnits * v BY DEF Owed, Worth, T, u, v
<1> QED BY <1>7, <1>10, <1>16, <1>18, <1>19 DEF one, p

LEMMA PaysIs ==
  ASSUME bill.total \in Nat, UsdRate[1] \in Nat, UsdRate[2] \in Nat,
         NEW c \in Int, NEW x \in Nat, NEW y \in Nat
  PROVE  Pays(c, x, y) <=> c * (Worth * x) >= Owed * y
<1> DEFINE v == UsdRate[2]
<1>1. v \in Nat /\ MinorUnits \in Nat BY QuoteAmountsAssumption
<1>2. Worth = MinorUnits * v /\ Owed = bill.total * UsdRate[1] * BaseUnits
  BY DEF Worth, Owed
<1>3. Pays(c, x, y) <=> c * x * MinorUnits * v >= bill.total * UsdRate[1] * BaseUnits * y
  BY DEF Pays
<1> HIDE DEF v
<1>4. c * x * MinorUnits * v = c * ((MinorUnits * v) * x) BY <1>1
<1> QED BY <1>2, <1>3, <1>4

(* What is owed at a price near one dollar. *)
LEMMA NearOne ==
  ASSUME NEW c \in Int, c > 0, NEW w \in Nat, NEW v \in Nat, NEW d \in Nat, NEW one \in Nat,
         one > 0, d * 100 <= one * 101, d * 100 >= one * 99,
         c * (w * d) >= v * one, (c - 1) * (w * d) < v * one
  PROVE  c * (w * 101) >= v * 100 /\ (c - 1) * (w * 99) < v * 100
<1>1. c * w \in Nat BY SMT
<1>2. (c - 1) * w \in Nat
  <2>1. c - 1 \in Nat OBVIOUS
  <2>2. \A m, n \in Nat : m * n \in Nat OBVIOUS
  <2> QED BY <2>1, <2>2
<1> DEFINE a == c * w  b == (c - 1) * w
<1>3. c * (w * d) = a * d /\ c * (w * 101) = a * 101 OBVIOUS
<1>4. (c - 1) * (w * d) = b * d /\ (c - 1) * (w * 99) = b * 99 OBVIOUS
<1>5. a \in Nat /\ b \in Nat /\ a * d >= v * one /\ b * d < v * one BY <1>1, <1>2, <1>3, <1>4
<1> HIDE DEF a, b
<1>6. a * 101 >= v * 100
  <2>1. a * (one * 101) >= a * (d * 100) BY <1>5
  <2>2. (a * 101) * one >= (v * 100) * one
    <3>1. a * (one * 101) = (a * 101) * one BY <1>5
    <3>2. a * (d * 100) = (a * d) * 100 BY <1>5
    <3>3. (v * 100) * one = (v * one) * 100 OBVIOUS
    <3> QED BY <1>5, <2>1, <3>1, <3>2, <3>3
  <2> QED BY <1>5, <2>2
<1>7. b * 99 < v * 100
  <2>1. b * (one * 99) <= b * (d * 100) BY <1>5
  <2>2. (b * 99) * one < (v * 100) * one
    <3>1. b * (one * 99) = (b * 99) * one BY <1>5
    <3>2. b * (d * 100) = (b * d) * 100 BY <1>5
    <3>3. (v * 100) * one = (v * one) * 100 OBVIOUS
    <3> QED BY <1>5, <2>1, <3>1, <3>2, <3>3
  <2> QED BY <1>5, <2>2
<1> QED BY <1>3, <1>4, <1>6, <1>7

LEMMA QuotedIsOwed ==
  ASSUME AmountsInv, price # Missing, PriceAccepted, RatesAccepted,
         NEW c, c = AmountBaseUnits, c \in 1..MaxUnits
  PROVE  LET digits == price.price.digits  one == TenTo(price.price.scale)
         IN  /\ CoversLines(bill.lines, bill.total)
             /\ Pays(c, digits, one) /\ ~Pays(c - 1, digits, one)
             /\ Pays(c, 101, 100) /\ ~Pays(c - 1, 99, 100)
<1>1. BillIsGood BY DEF AmountsInv
<1>2. bill.total \in Nat /\ bill.currency \in Currencies BY <1>1 DEF BillIsGood
<1> DEFINE d == price.price.digits  one == TenTo(price.price.scale)
<1>3. d \in Nat /\ d > 0 /\ price.price.scale \in Nat BY DEF AmountsInv, Decimals
<1>4. RatesArePositive
  <2>1. CASE bill.currency = "USD" BY <2>1 DEF RatesArePositive
  <2>2. CASE bill.currency # "USD"
    <3>1. rates \in Rates BY <2>2 DEF AmountsInv, RatesAccepted
    <3>2. \A k \in Currencies \ {"EUR"} : rates[k] \in Decimals /\ rates[k].digits > 0
      BY <3>1, QuoteAmountsAssumption
    <3> QED BY <3>2 DEF RatesArePositive, Decimals
  <2> QED BY <2>1, <2>2
<1>5. one \in Nat /\ one > 0 BY <1>3, TenToPositive
<1>6. d * 100 <= one * 101 /\ d * 100 >= one * 99 BY <1>3, AcceptedIsNearOne
<1>7. Owed \in Nat /\ Worth \in Nat /\ IsCeiling(c, Owed * one, Worth * d)
  BY <1>2, <1>3, <1>4, AmountIsCeiling
<1>8. UsdRate[1] \in Nat /\ UsdRate[2] \in Nat BY <1>2, <1>4, RateIsPositive
<1>9. c \in Int /\ c > 0 /\ c - 1 \in Int
  <2>1. MaxUnits \in Nat BY QuoteAmountsAssumption
  <2> QED BY <2>1
<1>10. c * (Worth * d) >= Owed * one /\ (c - 1) * (Worth * d) < Owed * one
  BY <1>7 DEF IsCeiling
<1> HIDE DEF d, one
<1>11. c * (Worth * 101) >= Owed * 100 /\ (c - 1) * (Worth * 99) < Owed * 100
  BY <1>3, <1>5, <1>6, <1>7, <1>9, <1>10, NearOne
<1>12. Pays(c, d, one) /\ Pays(c, 101, 100)
  BY <1>2, <1>3, <1>5, <1>8, <1>9, <1>10, <1>11, PaysIs
<1>13. ~Pays(c - 1, d, one) /\ ~Pays(c - 1, 99, 100)
  <2> DEFINE b == c - 1
  <2>1. b \in Int BY <1>9
  <2>2. b * (Worth * d) < Owed * one /\ b * (Worth * 99) < Owed * 100 BY <1>10, <1>11
  <2> HIDE DEF b
  <2>3. Pays(b, d, one) <=> b * (Worth * d) >= Owed * one
    BY <1>2, <1>3, <1>5, <1>8, <2>1, PaysIs
  <2>4. Pays(b, 99, 100) <=> b * (Worth * 99) >= Owed * 100
    BY <1>2, <1>8, <2>1, PaysIs
  <2>5. \A m, n \in Int : m < n => ~(m >= n) OBVIOUS
  <2>6. b * (Worth * d) \in Int /\ Owed * one \in Int /\ b * (Worth * 99) \in Int
          /\ Owed * 100 \in Int
    BY <1>3, <1>5, <1>7, <2>1
  <2>7. ~Pays(b, d, one) /\ ~Pays(b, 99, 100) BY <2>2, <2>3, <2>4, <2>5, <2>6
  <2> QED BY <2>7 DEF b
<1> QED BY <1>1, <1>12, <1>13 DEF BillIsGood, d, one

LEMMA AmountsStep == AmountsInv /\ [AmountsNext]_amountVars => AmountsInv'
<1> SUFFICES ASSUME AmountsInv, [AmountsNext]_amountVars PROVE AmountsInv' OBVIOUS
<1>1. ASSUME NEW n \in 1..MaxLines, NEW lines \in [1..n -> Lines], NEW c \in Currencies,
             Bill(lines, c)
      PROVE  AmountsInv'
  <2>1. MaxLines \in Nat BY QuoteAmountsAssumption
  <2>2. n \in Nat /\ n > 0 BY <2>1
  <2>3. Total(lines) \in Nat /\ CoversLines(lines, Total(lines)) BY <2>2, TotalCovers
  <2>4. /\ bill = Missing /\ price' = price /\ rates' = rates /\ quote' = quote
        /\ bill'.lines = lines /\ bill'.total = Total(lines) /\ bill'.currency = c
    BY <1>1 DEF Bill
  <2>5. price = Missing /\ quote = Missing BY <2>4 DEF AmountsInv
  <2>6. BillIsGood' BY <2>3, <2>4 DEF BillIsGood, CoversLines
  <2> QED BY <2>4, <2>5, <2>6 DEF AmountsInv, AskedForWhatIsOwed, Missing
<1>2. ASSUME NEW p \in Prices, ObservePrice(p) PROVE AmountsInv'
  <2>1. /\ bill # Missing /\ price = Missing /\ p.price > 0
        /\ price'.price = FromExponent(p.price, p.exponent)
        /\ bill' = bill /\ rates' = rates /\ quote' = quote
    BY <1>2 DEF ObservePrice
  <2>2. p.price \in Int /\ p.exponent \in Int BY QuoteAmountsAssumption
  <2>3. p.price \in Nat BY <2>1, <2>2
  <2>4. price'.price \in Decimals /\ price'.price.digits > 0
    BY <2>1, <2>2, <2>3, FromExponentType
  <2>5. quote = Missing BY <2>1 DEF AmountsInv
  <2> QED BY <2>1, <2>4, <2>5 DEF AmountsInv, AskedForWhatIsOwed, BillIsGood, Missing
<1>3. ASSUME NEW r \in Rates, ObserveRates(r) PROVE AmountsInv'
  <2>1. /\ price # Missing /\ rates = Missing /\ bill.currency # "USD"
        /\ rates' = r /\ bill' = bill /\ price' = price /\ quote' = quote
    BY <1>3 DEF ObserveRates
  <2>2. quote = Missing BY <2>1 DEF AmountsInv
  <2> QED BY <2>1, <2>2 DEF AmountsInv, AskedForWhatIsOwed, BillIsGood, Missing
<1>4. ASSUME Quote PROVE AmountsInv'
  <2>1. /\ price # Missing /\ PriceAccepted /\ RatesAccepted
        /\ AmountBaseUnits \in 1..MaxUnits /\ quote'.amount = AmountBaseUnits
        /\ bill' = bill /\ price' = price /\ rates' = rates
    BY <1>4 DEF Quote
  <2> DEFINE c == AmountBaseUnits  d == price.price.digits  one == TenTo(price.price.scale)
  <2>2. /\ CoversLines(bill.lines, bill.total)
        /\ Pays(c, d, one) /\ ~Pays(c - 1, d, one)
        /\ Pays(c, 101, 100) /\ ~Pays(c - 1, 99, 100)
    BY <2>1, QuotedIsOwed
  <2>3. UsdRate' = UsdRate BY <2>1 DEF UsdRate
  <2> HIDE DEF c
  <2>4. AskedForWhatIsOwed'
    <3>1. quote'.amount = c BY <2>1 DEF c
    <3> QED BY <2>1, <2>2, <2>3, <3>1 DEF AskedForWhatIsOwed, Pays, CoversLines
  <2>5. bill.currency # "USD" => rates # Missing BY <2>1 DEF RatesAccepted
  <2> QED BY <2>1, <2>4, <2>5 DEF AmountsInv, BillIsGood
<1>5. ASSUME UNCHANGED amountVars PROVE AmountsInv'
  <2>1. bill' = bill /\ price' = price /\ rates' = rates /\ quote' = quote
    BY <1>5 DEF amountVars
  <2>2. UsdRate' = UsdRate BY <2>1 DEF UsdRate
  <2> QED BY <2>1, <2>2 DEF AmountsInv, AskedForWhatIsOwed, Pays, CoversLines, BillIsGood
<1> QED BY <1>1, <1>2, <1>3, <1>4, <1>5 DEF AmountsNext

(* A payer is asked for the least amount that pays the invoice at the       *)
(* observed price, whatever the lines, the rates and the price are, and for *)
(* no more than a token worth 0.99 dollars would make it.                   *)
THEOREM QuotesAreWhatIsOwed == AmountsSpec => []AskedForWhatIsOwed
<1>1. AmountsInit => AmountsInv BY DEF AmountsInit, AmountsInv, AskedForWhatIsOwed
<1>2. AmountsInv => AskedForWhatIsOwed BY DEF AmountsInv
<1> QED BY <1>1, <1>2, AmountsStep, PTL DEF AmountsSpec
=============================================================================
