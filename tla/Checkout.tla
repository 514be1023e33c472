------------------------------ MODULE Checkout ------------------------------
(***************************************************************************)
(* The public checkout of an invoice: its link, and the payment attempts   *)
(* that payers open with it at a price of the moment                       *)
(* (platform/src/checkouts/checkout-store.ts, payments/attempt-service.ts, *)
(* quotes/quote-store.ts, quote-policy.ts,                                 *)
(* apps/api/src/routes/public-checkout.ts).                                *)
(*                                                                         *)
(* Opening an attempt takes four steps with other requests between them:   *)
(* the key is looked up, the checkout is previewed, the price and the head *)
(* of the chain are asked for, and all is read again under locks.  What    *)
(* happens to an attempt later is told in PaymentProjection: here it       *)
(* expires, is paid, or ends in an exception.                              *)
(***************************************************************************)
EXTENDS Naturals, Sequences

CONSTANTS
  Assets,
  WalletAssets,  \* those that the settlement wallet has an account for
  Keys,          \* idempotency keys
  Visits,      \* the requests that servers handle at a time
  MaxCheckouts, MaxAttempts, MaxMoment,   \* bounds
  MaxAge,        \* of a price (30 s)
  Skew,          \* how far its times may lie after the request's (5 s)
  Timeout,       \* of the signal that ends the waiting for the price (30 s)
  QuoteLife,     \* 15 min
  Null

ASSUME CheckoutAssumption ==
  /\ WalletAssets \subseteq Assets
  /\ {MaxCheckouts, MaxAttempts, MaxMoment, MaxAge, Skew, Timeout, QuoteLife}
       \subseteq Nat
  /\ Null \notin Nat

VARIABLES
  moment,
  invoice,     \* merchant_invoices.status of the one invoice
  accepted,    \*   its accepted_asset_symbols
  settlement,  \* merchant_wallets.status of its settlement wallet
  checkout,    \* public_checkouts of the invoice, with their capabilities
  attempt,     \* payment_attempts, with their quotes
  visit,       \* the requests on the servers
  said         \* history: the attempts given in answers

checkoutVars == <<moment, invoice, accepted, settlement, checkout, attempt, visit, said>>

Moments == 0..MaxMoment
AttemptState == {"awaiting", "expired", "allocated", "exception"}
Attempt == [checkout : 1..MaxCheckouts, key : Keys, asset : Assets,
            state : AttemptState, watched : BOOLEAN, expires : Nat]
AttemptRequest == [pc : {"asked", "new", "previewed", "observed"},
                   checkout : 1..MaxCheckouts, key : Keys, asset : Assets,
                   now : Moments, published : Moments, received : Moments]
LinkRequest == [pc : {"link", "insert", "lost"}]

CheckoutTypeOK ==
  /\ moment \in Moments
  /\ invoice \in {"draft", "issued", "paid", "cancelled"}
  /\ accepted \in SUBSET Assets \ {{}}
  /\ settlement \in {"active", "replaced"}
  /\ checkout \in Seq({"active", "revoked"}) /\ Len(checkout) <= MaxCheckouts
  /\ attempt \in Seq(Attempt) /\ Len(attempt) <= MaxAttempts
  /\ visit \in [Visits -> AttemptRequest \cup LinkRequest \cup {Null}]
  /\ said \subseteq [checkout : 1..MaxCheckouts, key : Keys, asset : Assets,
                     attempt : 1..MaxAttempts]

CheckoutInit ==
  /\ moment = 0
  /\ invoice = "draft"
  /\ accepted \in SUBSET Assets \ {{}}
  /\ settlement = "active"
  /\ checkout = <<>>
  /\ attempt = <<>>
  /\ visit = [r \in Visits |-> Null]
  /\ said = {}

Ends(r) == visit' = [visit EXCEPT ![r] = Null]
At(r, pc) == visit[r] # Null /\ visit[r].pc = pc
Goes(r, pc) == visit' = [visit EXCEPT ![r].pc = pc]

-----------------------------------------------------------------------------
(* The invoice and its wallet. *)

Issue ==
  /\ invoice = "draft"
  /\ settlement = "active" /\ accepted \subseteq WalletAssets
  /\ invoice' = "issued"
  /\ UNCHANGED <<moment, accepted, settlement, checkout, attempt, visit, said>>

(* Not while an attempt is open or was paid. *)
Cancel ==
  /\ invoice \in {"draft", "issued"}
  /\ \A i \in DOMAIN attempt : attempt[i].state \in {"expired", "exception"}
  /\ invoice' = "cancelled"
  /\ UNCHANGED <<moment, accepted, settlement, checkout, attempt, visit, said>>

(* MerchantWallets: another wallet takes its place, and the watch targets   *)
(* of this one become inactive.                                             *)
ReplaceWallet ==
  /\ settlement = "active"
  /\ settlement' = "replaced"
  /\ UNCHANGED <<moment, invoice, accepted, checkout, attempt, visit, said>>

-----------------------------------------------------------------------------
(* Links. *)

ActiveCheckouts == {k \in DOMAIN checkout : checkout[k] = "active"}

AskLink(r) ==
  /\ visit[r] = Null
  /\ visit' = [visit EXCEPT ![r] = [pc |-> "link"]]
  /\ UNCHANGED <<moment, invoice, accepted, settlement, checkout, attempt, said>>

(* getActiveForInvoice: what is found is the answer. *)
LookForLink(r) ==
  /\ At(r, "link") \/ At(r, "lost")
  /\ IF ActiveCheckouts # {} \/ visit[r].pc = "lost" THEN Ends(r) ELSE Goes(r, "insert")
  /\ UNCHANGED <<moment, invoice, accepted, settlement, checkout, attempt, said>>

(* One that meets the checkout of another request looks again. *)
InsertLink(r) ==
  /\ At(r, "insert")
  /\ CASE invoice # "issued" -> Ends(r) /\ UNCHANGED checkout
       [] invoice = "issued" /\ ActiveCheckouts # {} ->
            Goes(r, "lost") /\ UNCHANGED checkout
       [] OTHER ->
            /\ Len(checkout) < MaxCheckouts
            /\ Ends(r)
            /\ checkout' = Append(checkout, "active")
  /\ UNCHANGED <<moment, invoice, accepted, settlement, attempt, said>>

(* Revoked with its capability. *)
Revoke(k) ==
  /\ k \in ActiveCheckouts
  /\ checkout' = [checkout EXCEPT ![k] = "revoked"]
  /\ UNCHANGED <<moment, invoice, accepted, settlement, attempt, visit, said>>

-----------------------------------------------------------------------------
(* Attempts. *)

Ask(r, k, key, asset) ==
  /\ visit[r] = Null
  /\ visit' = [visit EXCEPT ![r] =
       [pc |-> "asked", checkout |-> k, key |-> key, asset |-> asset,
        now |-> moment, published |-> 0, received |-> 0]]
  /\ UNCHANGED <<moment, invoice, accepted, settlement, checkout, attempt, said>>

(* resolve, by the digest of the token: the capability and then the         *)
(* checkout, of an invoice that is not cancelled.                           *)
AskPublic(r, k, key, asset) ==
  k \in ActiveCheckouts /\ invoice \in {"issued", "paid"} /\ Ask(r, k, key, asset)

(* The merchant's route takes the active checkout of any invoice. *)
AskMerchant(r, k, key, asset) == k \in ActiveCheckouts /\ Ask(r, k, key, asset)

(* findIdempotentAttempt *)
Known(r) == {i \in DOMAIN attempt :
  attempt[i].checkout = visit[r].checkout /\ attempt[i].key = visit[r].key}

Answer(r, i) == [checkout |-> visit[r].checkout, key |-> visit[r].key,
                 asset |-> visit[r].asset, attempt |-> i]

(* Mutant: another asset under a key is answered with the first attempt. *)
Replayed_AnyAsset(r) == said' = said \cup {Answer(r, i) : i \in Known(r)}

(* Another asset under the same key is a conflict, and no answer. *)
Replayed(r) ==
  said' = said \cup
    {Answer(r, i) : i \in {j \in Known(r) : attempt[j].asset = visit[r].asset}}

(* The first transaction. *)
LookUp(r) ==
  /\ At(r, "asked")
  /\ Replayed(r)
  /\ IF Known(r) # {} THEN Ends(r) ELSE Goes(r, "new")
  /\ UNCHANGED <<moment, invoice, accepted, settlement, checkout, attempt>>

(* The second one. *)
Preview(r) ==
  /\ At(r, "new")
  /\ IF checkout[visit[r].checkout] = "active" /\ invoice = "issued"
       THEN Goes(r, "previewed") ELSE Ends(r)
  /\ UNCHANGED <<moment, invoice, accepted, settlement, checkout, attempt, said>>

(* The signal of the request bounds the waiting for the price and the head  *)
(* of the chain, and nothing after it.                                      *)
InTime(r) == moment <= visit[r].now + Timeout

(* The price comes in; an older one may be served. *)
Observe(r, published) ==
  /\ At(r, "previewed")
  /\ InTime(r)
  /\ published <= moment
  /\ visit' = [visit EXCEPT ![r].pc = "observed", ![r].published = published,
                        ![r].received = moment]
  /\ UNCHANGED <<moment, invoice, accepted, settlement, checkout, attempt, said>>

(* The signal ends the waiting, a provider fails, the server dies, or the   *)
(* transaction fails.                                                       *)
Fail(r) ==
  /\ visit[r] # Null
  /\ Ends(r)
  /\ UNCHANGED <<moment, invoice, accepted, settlement, checkout, attempt, said>>

-----------------------------------------------------------------------------
(* The third transaction, in which the attempt is opened.  It waits for its *)
(* row locks as long as it takes: what it opens may be over already.        *)

(* Mutant: what the preview found is not read again under locks. *)
Payable_Previewed(r) == TRUE

(* lockPaymentRoot, and requireRecipientWatch *)
Payable(r) ==
  /\ checkout[visit[r].checkout] = "active"
  /\ invoice = "issued"
  /\ settlement = "active"

(* payment_attempts_active_asset *)
AssetFree(asset) ==
  \A i \in DOMAIN attempt : attempt[i].asset = asset => attempt[i].state # "awaiting"

(* evaluateQuoteInputs: by the time the request came in. *)
RateValid(r) ==
  /\ visit[r].received <= visit[r].now + Skew
  /\ visit[r].published <= visit[r].now + Skew
  /\ visit[r].now <= visit[r].published + MaxAge

(* createQuoteInTransaction, the watch target of the reference *)
Opened(r) ==
  [checkout |-> visit[r].checkout, key |-> visit[r].key, asset |-> visit[r].asset,
   state |-> "awaiting", watched |-> TRUE, expires |-> visit[r].now + QuoteLife]

(* Another request with the key came first. *)
ReplayLate(r) ==
  /\ At(r, "observed")
  /\ Payable(r) /\ Known(r) # {}
  /\ Replayed(r)
  /\ Ends(r)
  /\ UNCHANGED <<moment, invoice, accepted, settlement, checkout, attempt>>

(* What fails one of the conditions leaves nothing (Fail). *)
Open(r) ==
  /\ At(r, "observed")
  /\ Payable(r) /\ Known(r) = {}
  /\ visit[r].asset \in accepted
  /\ AssetFree(visit[r].asset)
  /\ RateValid(r)
  /\ Len(attempt) < MaxAttempts
  /\ attempt' = Append(attempt, Opened(r))
  /\ said' = said \cup {Answer(r, Len(attempt) + 1)}
  /\ Ends(r)
  /\ UNCHANGED <<moment, invoice, accepted, settlement, checkout>>

-----------------------------------------------------------------------------
(* The ends of an attempt, by the worker. *)

Becomes(i, state) ==
  attempt' = [attempt EXCEPT ![i].state = state,
                             ![i].watched = state = "expired"]

(* QuoteExpiryService: it stays watched for a late payment. *)
Expire(i) ==
  /\ attempt[i].state = "awaiting" /\ attempt[i].expires <= moment
  /\ Becomes(i, "expired")
  /\ UNCHANGED <<moment, invoice, accepted, settlement, checkout, visit, said>>

(* By a payment in time or a late one that is taken. *)
Allocate(i) ==
  /\ attempt[i].state \in {"awaiting", "expired"} /\ invoice = "issued"
  /\ Becomes(i, "allocated")
  /\ invoice' = "paid"
  /\ UNCHANGED <<moment, accepted, settlement, checkout, visit, said>>

RaiseException(i) ==
  /\ attempt[i].state \in {"awaiting", "expired"}
  /\ Becomes(i, "exception")
  /\ UNCHANGED <<moment, invoice, accepted, settlement, checkout, visit, said>>

MomentPasses ==
  /\ moment < MaxMoment
  /\ moment' = moment + 1
  /\ UNCHANGED <<invoice, accepted, settlement, checkout, attempt, visit, said>>

CheckoutNext ==
  \/ MomentPasses \/ Issue \/ Cancel \/ ReplaceWallet
  \/ \E r \in Visits : AskLink(r) \/ LookForLink(r) \/ InsertLink(r)
  \/ \E k \in DOMAIN checkout : Revoke(k)
  \/ \E r \in Visits, k \in DOMAIN checkout, key \in Keys, asset \in Assets :
       AskPublic(r, k, key, asset) \/ AskMerchant(r, k, key, asset)
  \/ \E r \in Visits : LookUp(r) \/ Preview(r) \/ Fail(r)
  \/ \E r \in Visits, t \in Moments : Observe(r, t)
  \/ \E r \in Visits : ReplayLate(r) \/ Open(r)
  \/ \E i \in DOMAIN attempt : Expire(i) \/ Allocate(i) \/ RaiseException(i)

CheckoutSpec == CheckoutInit /\ [][CheckoutNext]_checkoutVars

-----------------------------------------------------------------------------
(* Whatever requests a payer's client repeats with a key, at the same time  *)
(* or later, it is given one attempt, and of the asset it asked for         *)
(* (attempt-service.ts:318).                                                *)
OneAnswerPerKey ==
  \A x, y \in said :
    (x.checkout = y.checkout /\ x.key = y.key) =>
      x.attempt = y.attempt /\ x.asset = attempt[x.attempt].asset

(* An attempt is opened only while the link is alive, the invoice is due    *)
(* and its wallet receives and is watched, though all this was read before  *)
(* the price was asked for (attempt-service.ts:176).                        *)
OpenedWhilePayable ==
  [][Len(attempt') > Len(attempt) =>
       /\ checkout[attempt'[Len(attempt')].checkout] = "active"
       /\ invoice = "issued" /\ settlement = "active"]_checkoutVars
=============================================================================
