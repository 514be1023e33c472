---------------------------- MODULE MCReceiving ----------------------------
(***************************************************************************)
(* TLC instance of MerchantWallets, Checkout and QuoteAmounts: how an      *)
(* organization comes by the wallets it is paid to, how a payer comes by a *)
(* quote that names one, and how much it asks for.  Checkout has the       *)
(* replacement of a wallet as one step and a price as something with a     *)
(* time, so each is checked by itself: "part" tells which one runs in a    *)
(* behaviour.                                                              *)
(***************************************************************************)
EXTENDS MerchantWallets, Checkout, QuoteAmounts, TLC

VARIABLE part

mcVars == <<vars, checkoutVars, amountVars, part>>

MCInit ==
  /\ Init /\ CheckoutInit /\ AmountsInit
  /\ part \in {"wallets", "checkout", "amounts"}
  /\ part # "checkout" => accepted = Assets

MCNext ==
  \/ part = "wallets" /\ Next /\ UNCHANGED <<checkoutVars, amountVars, part>>
  \/ part = "checkout" /\ CheckoutNext /\ UNCHANGED <<vars, amountVars, part>>
  \/ part = "amounts" /\ AmountsNext /\ UNCHANGED <<vars, checkoutVars, part>>

MCSpec == MCInit /\ [][MCNext]_mcVars

(* The parts use the same model values, so that one permutation serves both: *)
(* those of Requests are also Visits, of Orgs Keys, and of Addresses Assets. *)
Symmetry ==
  Permutations(Requests) \cup Permutations(Orgs) \cup Permutations(Addresses)

(* Lines that need rounding and lines that do not, for nothing and taxed. *)
Line(digits, scale, unitPrice, tax) ==
  [quantity |-> Decimal(digits, scale), unitPrice |-> unitPrice, tax |-> tax]
MCLines == {Line(15, 1, 1, 0), Line(3, 0, 2, 1), Line(25, 2, 1, 0), Line(1, 0, 0, 0),
            Line(20, 1, 3, 2), Line(125, 2, 10, 0)}

(* Prices at the limits of one percent and beyond, written with different   *)
(* exponents, and confidences at the limit of half a percent and beyond.    *)
MCPrices ==
  {[price |-> p, confidence |-> c, exponent |-> -3] :
     p \in {-1, 0, 989, 990, 997, 1000, 1010, 1011}, c \in {0, 4, 5, 6}}
  \cup {[price |-> 1, confidence |-> 0, exponent |-> e] : e \in {0, 1}}

(* The last rate is as a provider may write it, but not normal. *)
MCRates ==
  {[source |-> s, USD |-> d, GBP |-> Decimal(85, 2), INR |-> Decimal(95, 0)] :
     s \in {"ecb_reference", "secondary_commercial"},
     d \in {Decimal(11, 1), Decimal(9, 1), Decimal(110, 2)}}
=============================================================================
