-------------------------- MODULE MerchantWallets --------------------------
(***************************************************************************)
(* The settlement wallet of an organization: proof of ownership,           *)
(* registration, and replacement after a cooling time                      *)
(* (platform/src/wallets/wallet-store.ts, wallet-proof.ts,                 *)
(* apps/api/src/routes/merchant-wallets.ts).                               *)
(*                                                                         *)
(* Each operation reads the clock of its server, then runs one             *)
(* transaction that locks rows, marks a challenge as used, awaits answers  *)
(* of a Solana RPC with the locks held, and then writes.  Its writes show  *)
(* at its commit, and a request whose transaction fails may be sent again. *)
(*                                                                         *)
(* A signature is not modelled: a request has one for its challenge.  The  *)
(* accepted assets are one, so a wallet has one watch target.              *)
(***************************************************************************)
EXTENDS Naturals, FiniteSets

CONSTANTS
  Orgs,
  Addresses,
  MaxChallenges, MaxWallets,  \* bounds on the rows of the tables
  MaxOpen,      \* bound on the challenges that can be used at a time
  Requests,     \* the requests that servers handle at a time
  Lifetime,     \* of a challenge (10 min)
  Cooling,      \* between a request and its activation (24 h)
  MaxTime,      \* bound of the clock
  None

ASSUME WalletsAssumption ==
  /\ Lifetime \in Nat \ {0} /\ Cooling \in Nat \ {0} /\ MaxTime \in Nat
  /\ MaxChallenges \in Nat /\ MaxWallets \in Nat /\ MaxOpen \in Nat
  /\ None \notin Orgs \cup Addresses \cup Nat

VARIABLES
  clock,
  challenge,    \* wallet_proof_challenges
  wallet,       \* merchant_wallets, with the watch target of each
  pending,      \* wallet_replacement_requests not activated, per wallet
  req,          \* the requests on the servers
  uses,         \* history: committed uses of each challenge
  proofs        \* history: per wallet, the proofs it rests on

vars == <<clock, challenge, wallet, pending, req, uses, proofs>>

(* Rows are numbered in the order they are inserted. *)
Challenges == 1..MaxChallenges
Wallets == 1..MaxWallets
NextOf(table) == {i \in DOMAIN table : /\ table[i] = None
                                      /\ \A j \in DOMAIN table : table[j] = None => i <= j}

Time == 0..(MaxTime + Cooling + Lifetime)
Challenge == [org : Orgs, address : Addresses, expires : Time, used : BOOLEAN]
Wallet == [org : Orgs, address : Addresses, status : {"active", "replaced"},
           watched : BOOLEAN]
Replacement == [address : Addresses, activates : Time, challenge : Challenges]
Kinds == {"register", "request", "activate"}
Request == [kind : Kinds, org : Orgs, challenge : Challenges,
            wallet : Wallets \cup {None}, now : Time,
            pc : {"asked", "locked", "waiting"}]
Proof == [challenge : Challenges, at : Time]

(* No row and no request is the same as none. *)
ASSUME NoneAssumption == None \notin Challenge \cup Wallet \cup Replacement \cup Request

TypeOK ==
  /\ clock \in 0..MaxTime
  /\ challenge \in [Challenges -> Challenge \cup {None}]
  /\ wallet \in [Wallets -> Wallet \cup {None}]
  /\ pending \in [Wallets -> Replacement \cup {None}]
  /\ req \in [Requests -> Request \cup {None}]
  /\ uses \in [Challenges -> Nat]
  /\ proofs \in [Wallets -> SUBSET Proof]

Init ==
  /\ clock = 0
  /\ challenge = [c \in Challenges |-> None]
  /\ wallet = [w \in Wallets |-> None]
  /\ pending = [w \in Wallets |-> None]
  /\ req = [r \in Requests |-> None]
  /\ uses = [c \in Challenges |-> 0]
  /\ proofs = [w \in Wallets |-> {}]

Active(w) == wallet[w] # None /\ wallet[w].status = "active"
WalletsOf(o) == {w \in Wallets : wallet[w] # None /\ wallet[w].org = o}

-----------------------------------------------------------------------------
(* Challenges.  No challenge names what it is for: one asked for before a   *)
(* registration may serve a replacement.                                    *)

(* verifyWalletProof, of a signature over the fields of the challenge *)
Verified(c, now) == challenge[c].expires > now

Usable(c) == challenge[c] # None /\ ~challenge[c].used /\ Verified(c, clock)

CreateChallenge(o, a) ==
  /\ Cardinality({c \in Challenges : Usable(c)}) < MaxOpen
  /\ \E c \in NextOf(challenge) : challenge' = [challenge EXCEPT ![c] =
       [org |-> o, address |-> a, expires |-> clock + Lifetime, used |-> FALSE]]
  /\ UNCHANGED <<clock, wallet, pending, req, uses, proofs>>

(* The route of a replacement looks for the active wallet first. *)
ChallengeToReplace(w, a) == Active(w) /\ CreateChallenge(wallet[w].org, a)

-----------------------------------------------------------------------------
(* The routes.  A session of the owner, with two factors and not older than *)
(* 15 min for a replacement, is taken for granted: he can sign in again.    *)
(* Requests are left out whose challenge is another organization's or has   *)
(* expired when they are sent: both are refused.                            *)

Asked(r, kind, o, c, w) ==
  /\ req[r] = None
  /\ challenge[c] # None /\ challenge[c].org = o /\ Verified(c, clock)
  /\ req' = [req EXCEPT ![r] = [kind |-> kind, org |-> o, challenge |-> c,
               wallet |-> w, now |-> clock, pc |-> "asked"]]
  /\ UNCHANGED <<clock, challenge, wallet, pending, uses, proofs>>

AskRegister(r, o, c) == Asked(r, "register", o, c, None)

AskReplace(r, o, c, w) ==
  /\ w \in WalletsOf(o)
  /\ \E kind \in {"request", "activate"} : Asked(r, kind, o, c, w)

-----------------------------------------------------------------------------
(* Row locks, which a transaction keeps to its end. *)

Doing(kind) == {r \in Requests : req[r] # None /\ req[r].kind = kind}
Past(r) == req[r].pc \in {"locked", "waiting"}
ChallengeFree(c) ==
  \A r \in Requests : req[r] # None => ~(req[r].pc = "waiting" /\ req[r].challenge = c)
PendingFree(w) == \A r \in Doing("activate") : ~(Past(r) /\ req[r].wallet = w)

WalletFree(w) == \A r \in Doing("request") : ~(Past(r) /\ req[r].wallet = w)

(* Mutant: an activation does not wait for the cooling time. *)
Cooled_Always(w, now) == pending[w] # None

Cooled(w, now) == pending[w] # None /\ pending[w].activates <= now

(* requireActiveWallet of a request; the pending row of an activation.  One *)
(* that finds nothing ends (Refuse).                                        *)
Lock(r) ==
  /\ req[r] # None /\ req[r].pc = "asked"
  /\ CASE req[r].kind = "register" -> TRUE
       [] req[r].kind = "request" ->
            WalletFree(req[r].wallet) /\ Active(req[r].wallet)
       [] req[r].kind = "activate" ->
            PendingFree(req[r].wallet) /\ Cooled(req[r].wallet, req[r].now)
  /\ req' = [req EXCEPT ![r].pc = "locked"]
  /\ UNCHANGED <<clock, challenge, wallet, pending, uses, proofs>>

Valid(r) ==
  LET c == req[r].challenge IN
  /\ ChallengeFree(c)
  /\ ~challenge[c].used
  /\ Verified(c, req[r].now)

AddressAgrees(r) ==
  req[r].kind = "activate" =>
    challenge[req[r].challenge].address = pending[req[r].wallet].address

(* #consumeProof; then the RPC is asked for the token account. *)
Prove(r) ==
  /\ req[r] # None /\ req[r].pc = "locked"
  /\ Valid(r)
  /\ AddressAgrees(r)
  /\ req' = [req EXCEPT ![r].pc = "waiting"]
  /\ UNCHANGED <<clock, challenge, wallet, pending, uses, proofs>>

Rollback(r) ==
  /\ req' = [req EXCEPT ![r] = None]
  /\ UNCHANGED <<clock, challenge, wallet, pending, uses, proofs>>

(* A request is refused, or its server dies. *)
Refuse(r) == req[r] # None /\ req[r].pc \in {"asked", "locked"} /\ Rollback(r)

(* The token account is not there or is not the wallet's, the RPC fails, a  *)
(* unique index is violated, or the database ends one of a cycle of waiting *)
(* transactions: the challenge is as good as before.                        *)
AccountsFail(r) == req[r] # None /\ req[r].pc = "waiting" /\ Rollback(r)

-----------------------------------------------------------------------------
(* The rest of each transaction, after the answers of the RPC, to its       *)
(* commit.  What conflicts with a unique index is refused.                  *)

Used(r) ==
  /\ challenge' = [challenge EXCEPT ![req[r].challenge].used = TRUE]
  /\ uses' = [uses EXCEPT ![req[r].challenge] = @ + 1]
  /\ req' = [req EXCEPT ![r] = None]

ProofOf(r) == [challenge |-> req[r].challenge, at |-> req[r].now]

(* merchant_wallets_active_organization, merchant_wallets_active_address *)
Free(o, a, others) ==
  \A w \in others : Active(w) => wallet[w].org # o /\ wallet[w].address # a

NewWallet(o, a) ==
  [org |-> o, address |-> a, status |-> "active", watched |-> TRUE]

Register(r, new) ==
  LET o == req[r].org
      a == challenge[req[r].challenge].address IN
  /\ req[r] # None /\ req[r].pc = "waiting" /\ req[r].kind = "register"
  /\ new \in NextOf(wallet)
  /\ Free(o, a, Wallets)
  /\ wallet' = [wallet EXCEPT ![new] = NewWallet(o, a)]
  /\ proofs' = [proofs EXCEPT ![new] = {ProofOf(r)}]
  /\ Used(r)
  /\ UNCHANGED <<clock, pending>>

RequestReplacement(r) ==
  LET w == req[r].wallet IN
  /\ req[r] # None /\ req[r].pc = "waiting" /\ req[r].kind = "request"
  /\ pending[w] = None
  /\ pending' = [pending EXCEPT ![w] =
       [address |-> challenge[req[r].challenge].address,
        activates |-> req[r].now + Cooling, challenge |-> req[r].challenge]]
  /\ Used(r)
  /\ UNCHANGED <<clock, wallet, proofs>>

(* Mutant: the watch target of the old wallet stays active. *)
Replaced_Watched(w, new) ==
  [wallet EXCEPT ![w].status = "replaced",
                 ![new] = NewWallet(wallet[w].org, pending[w].address)]

Replaced(w, new) ==
  [wallet EXCEPT ![w].status = "replaced",
                 ![w].watched = FALSE,
                 ![new] = NewWallet(wallet[w].org, pending[w].address)]

ActivateReplacement(r, new) ==
  LET w == req[r].wallet IN
  /\ req[r] # None /\ req[r].pc = "waiting" /\ req[r].kind = "activate"
  /\ WalletFree(w) /\ Active(w)
  /\ new \in NextOf(wallet)
  /\ Free(wallet[w].org, pending[w].address, Wallets \ {w})
  /\ wallet' = Replaced(w, new)
  /\ pending' = [pending EXCEPT ![w] = None]
  /\ proofs' = [proofs EXCEPT ![new] =
       {ProofOf(r), [challenge |-> pending[w].challenge,
                     at |-> pending[w].activates - Cooling]}]
  /\ Used(r)
  /\ UNCHANGED clock

-----------------------------------------------------------------------------
Tick ==
  /\ clock < MaxTime
  /\ clock' = clock + 1
  /\ UNCHANGED <<challenge, wallet, pending, req, uses, proofs>>

Next ==
  \/ Tick
  \/ \E o \in Orgs, a \in Addresses : CreateChallenge(o, a)
  \/ \E w \in Wallets, a \in Addresses : ChallengeToReplace(w, a)
  \/ \E r \in Requests, o \in Orgs, c \in Challenges : AskRegister(r, o, c)
  \/ \E r \in Requests, o \in Orgs, c \in Challenges, w \in Wallets :
       AskReplace(r, o, c, w)
  \/ \E r \in Requests : Lock(r) \/ Prove(r) \/ Refuse(r) \/ AccountsFail(r)
  \/ \E r \in Requests : RequestReplacement(r)
  \/ \E r \in Requests, new \in Wallets : Register(r, new) \/ ActivateReplacement(r, new)

Spec == Init /\ [][Next]_vars

-----------------------------------------------------------------------------
(* A wallet that took the place of another rests on two proofs of its       *)
(* address, by two challenges, a cooling time apart (wallet-store.ts:276,   *)
(* 356), whatever requests run at the same time.                            *)
ChangeIsProvenTwice ==
  \A w \in Wallets : \A old \in Wallets \ {w} :
    (/\ wallet[w] # None /\ wallet[old] # None
     /\ wallet[w].org = wallet[old].org
     /\ Active(w)) =>
      \E p, q \in proofs[w] :
        /\ p.challenge # q.challenge
        /\ p.at + Cooling <= q.at
        /\ {challenge[p.challenge].address, challenge[q.challenge].address}
             = {wallet[w].address}
        /\ {challenge[p.challenge].org, challenge[q.challenge].org}
             = {wallet[w].org}

(* A challenge proves one operation: of two requests that hold its nonce    *)
(* at the same time, one at most is committed (wallet-store.ts:487).        *)
ProofUsedOnce == \A c \in Challenges : uses[c] <= 1

(* An organization that registered a wallet has one from then on, and what  *)
(* is watched for it is that wallet alone (wallet-store.ts:406).            *)
OneWalletWatched ==
  \A o \in Orgs : WalletsOf(o) # {} =>
    \E w \in WalletsOf(o) :
      /\ {v \in WalletsOf(o) : Active(v)} = {w}
      /\ {v \in WalletsOf(o) : wallet[v].watched} = {w}

(* What waits for its activation is the replacement of an active wallet: no *)
(* request slips in behind the activation of another, and is then pending   *)
(* for ever for a wallet that is gone (wallet-store.ts:293, 398).           *)
PendingIsForActive == \A w \in Wallets : pending[w] # None => Active(w)
=============================================================================
