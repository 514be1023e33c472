---------------------------- MODULE QuoteAmounts ----------------------------
(***************************************************************************)
(* The arithmetic between the lines of an invoice and the token amount     *)
(* that a payer is asked for: totals (platform/src/invoices/arithmetic.ts),*)
(* observed prices and rates (quotes/pyth-hermes-adapter.ts,               *)
(* ecb-adapter.ts, commercial-fx-adapter.ts, exact-decimal.ts), the limits *)
(* on them (quote-policy.ts) and the quote (quote-math.ts).                *)
(*                                                                         *)
(* All of it is exact: integers without a width and fractions of them.  A  *)
(* decimal is kept as it is written, its digits and how many of them come  *)
(* after the point, since 1.1 and 1.10 are not treated alike.  The times   *)
(* of prices are in Checkout; no caller gives the policy a second price.   *)
(***************************************************************************)
EXTENDS Integers, Sequences, FiniteSetsExt

CONSTANTS
  Lines,       \* the lines that invoices are made of
  MaxLines,    \* of an invoice (100)
  Prices,      \* answers of the price service: price, confidence, exponent
  Rates,       \* written rates of one euro, by source
  MinorUnits,  \* of a unit of currency (100)
  BaseUnits,   \* of a token (10^6)
  MaxAmount,   \* of an invoice (10^38 - 1)
  MaxUnits,    \* of a transfer (2^64 - 1)
  Production   \* whether the environment is production

Decimals == [digits : Nat, scale : Nat]
Currencies == {"USD", "EUR", "GBP", "INR"}

(* The adapters refuse a rate of zero. *)
ASSUME QuoteAmountsAssumption ==
  /\ {MaxLines, MinorUnits, BaseUnits, MaxAmount, MaxUnits} \subseteq Nat \ {0}
  /\ Lines \subseteq [quantity : Decimals, unitPrice : Nat, tax : Nat]
  /\ Prices \subseteq [price : Int, confidence : Int, exponent : Int]
  /\ \A r \in Rates : \A c \in Currencies \ {"EUR"} :
       r[c] \in Decimals /\ r[c].digits > 0
  /\ Production \in BOOLEAN

VARIABLES
  bill,    \* the invoice: its lines, its currency and its total
  price,   \* the stablecoin observation last made
  rates,   \* the fiat observation last made
  quote    \* the quote last given, with what it was made of

amountVars == <<bill, price, rates, quote>>

Missing == [missing |-> TRUE]

-----------------------------------------------------------------------------
(* Decimals. *)

Decimal(digits, scale) == [digits |-> digits, scale |-> scale]

(* 10 to the k. *)
TenTo(k) ==
  LET ten[n \in 0..k] == IF n = 0 THEN 1 ELSE 10 * ten[n - 1]
  IN  ten[k]

(* Without the zeros at the end of the fraction. *)
Normal(x) ==
  LET cut == Max({k \in 0..x.scale : x.digits % TenTo(k) = 0})
  IN  Decimal(x.digits \div TenTo(cut), x.scale - cut)

(* decimalFromIntegerExponent. *)
FromExponent(integer, exponent) ==
  IF exponent >= 0 THEN Decimal(integer * TenTo(exponent), 0)
                   ELSE Normal(Decimal(integer, -exponent))

(* Both at the greater of their scales. *)
Scaled(x, y) == x.digits * TenTo(Max({x.scale, y.scale}) - x.scale)

AbsoluteDifference(x, y) ==
  LET a == Scaled(x, y)  b == Scaled(y, x)
  IN  Normal(Decimal(IF a >= b THEN a - b ELSE b - a, Max({x.scale, y.scale})))

RatioAtMost(x, y, numerator, denominator) ==
  Scaled(x, y) * denominator <= Scaled(y, x) * numerator

-----------------------------------------------------------------------------
(* Fractions. *)

Gcd(a, b) ==
  LET g[y \in 0..b] == [x \in Nat |-> IF y = 0 THEN x ELSE g[x % y][y]]
  IN  g[b][a]

Reduce(f) == [n |-> f.n \div Gcd(f.n, f.d), d |-> f.d \div Gcd(f.n, f.d)]
Multiply(f, g) == Reduce([n |-> f.n * g.n, d |-> f.d * g.d])
Divide(f, g) == Reduce([n |-> f.n * g.d, d |-> f.d * g.n])
FractionOf(x) == Reduce([n |-> x.digits, d |-> TenTo(x.scale)])

(* Mutant: the amount is cut off where it should be rounded up. *)
CeilFraction_Floor(f) == f.n \div f.d
CeilFraction(f) == (f.n + f.d - 1) \div f.d

-----------------------------------------------------------------------------
(* calculateInvoiceTotals: each line is rounded up by itself, and nothing   *)
(* on the way may be above MaxAmount.                                       *)

Exact(line) == line.quantity.digits * line.unitPrice

LineSubtotal(line) ==
  CeilFraction([n |-> Exact(line), d |-> TenTo(line.quantity.scale)])

(* f[1] + ... + f[N] *)
SumTo(f, N) ==
  LET sum[n \in 0..N] == IF n = 0 THEN 0 ELSE sum[n - 1] + f[n]
  IN  sum[N]

Total(lines) ==
  SumTo([i \in DOMAIN lines |-> LineSubtotal(lines[i]) + lines[i].tax], Len(lines))

Fits(lines) ==
  /\ \A i \in DOMAIN lines : Exact(lines[i]) <= MaxAmount
  /\ Total(lines) <= MaxAmount

Bill(lines, currency) ==
  /\ bill = Missing /\ Fits(lines)
  /\ bill' = [lines |-> lines, currency |-> currency, total |-> Total(lines)]
  /\ UNCHANGED <<price, rates, quote>>

-----------------------------------------------------------------------------
(* The adapters.  A price is brought to a decimal, rates stay as written.   *)

ObservePrice(p) ==
  /\ bill # Missing /\ price = Missing
  /\ p.price > 0 /\ p.confidence >= 0
  /\ price' = [price |-> FromExponent(p.price, p.exponent),
               confidence |-> FromExponent(p.confidence, p.exponent)]
  /\ UNCHANGED <<bill, rates, quote>>

ObserveRates(r) ==
  /\ price # Missing /\ rates = Missing /\ bill.currency # "USD"
  /\ rates' = r
  /\ UNCHANGED <<bill, price, quote>>

-----------------------------------------------------------------------------
(* evaluateQuoteInputs and validateFiat: how sure the price is, how near to *)
(* one dollar, and whose rates production uses.                             *)

PriceAccepted ==
  /\ RatioAtMost(price.confidence, price.price, 5, 1000)
  /\ RatioAtMost(AbsoluteDifference(price.price, Decimal(1, 0)), Decimal(1, 0), 1, 100)

RatesAccepted ==
  bill.currency # "USD" =>
    /\ rates # Missing
    /\ Production => rates.source = "secondary_commercial"

(* normalizeInput takes a decimal only as Normal writes it, and more than   *)
(* nothing to be paid.                                                      *)
InputValid ==
  /\ bill.total > 0
  /\ Normal(price.price) = price.price
  /\ bill.currency # "USD" =>
       \A c \in Currencies \ {"EUR"} : Normal(rates[c]) = rates[c]

(* calculateQuote. *)

InUsd(amount) ==
  LET usd == FractionOf(rates["USD"])
  IN  CASE bill.currency = "USD" -> amount
        [] bill.currency = "EUR" -> Multiply(amount, usd)
        [] OTHER -> Divide(Multiply(amount, usd), FractionOf(rates[bill.currency]))

AmountBaseUnits ==
  LET token == Divide(InUsd(Reduce([n |-> bill.total, d |-> MinorUnits])),
                      FractionOf(price.price))
  IN  CeilFraction(Multiply(token, [n |-> BaseUnits, d |-> 1]))

Quote ==
  /\ price # Missing /\ quote = Missing
  /\ PriceAccepted /\ RatesAccepted /\ InputValid
  /\ AmountBaseUnits \in 1..MaxUnits
  /\ quote' = [amount |-> AmountBaseUnits]
  /\ UNCHANGED <<bill, price, rates>>

-----------------------------------------------------------------------------
AmountsInit == bill = Missing /\ price = Missing /\ rates = Missing /\ quote = Missing

AmountsNext ==
  \/ \E n \in 1..MaxLines : \E lines \in [1..n -> Lines], c \in Currencies : Bill(lines, c)
  \/ \E p \in Prices : ObservePrice(p)
  \/ \E r \in Rates : ObserveRates(r)
  \/ Quote

AmountsSpec == AmountsInit /\ [][AmountsNext]_amountVars

-----------------------------------------------------------------------------
(* What an amount ought to be, without fractions: both sides of each        *)
(* comparison are multiplied until they are whole.                          *)

(* The dollars of one unit of the invoice's currency, as <<x, y>> for x/y. *)
UsdRate ==
  LET Per(c) == rates[c].digits  Ten(c) == TenTo(rates[c].scale)
  IN  CASE bill.currency = "USD" -> <<1, 1>>
        [] bill.currency = "EUR" -> <<Per("USD"), Ten("USD")>>
        [] OTHER -> <<Per("USD") * Ten(bill.currency), Ten("USD") * Per(bill.currency)>>

(* Whether that many base units at x/y dollars a token pay the invoice. *)
Pays(units, x, y) ==
  units * x * MinorUnits * UsdRate[2] >= bill.total * UsdRate[1] * BaseUnits * y

(* The total covers the lines and is less than one minor unit a line above. *)
CoversLines(lines, total) ==
  LET top == Max({lines[i].quantity.scale : i \in DOMAIN lines})
      owed == SumTo([i \in DOMAIN lines |->
                       Exact(lines[i]) * TenTo(top - lines[i].quantity.scale)
                         + lines[i].tax * TenTo(top)], Len(lines))
  IN  /\ total * TenTo(top) >= owed
      /\ total * TenTo(top) - owed < Len(lines) * TenTo(top)

(* A payer is asked for the least amount that pays the invoice at the       *)
(* observed price, though it went through rates, decimals and two           *)
(* roundings; and for no more than a token worth 0.99 dollars would make it *)
(* (calculateInvoiceTotals, evaluateQuoteInputs, calculateQuote).           *)
AskedForWhatIsOwed ==
  quote # Missing =>
    LET digits == price.price.digits  one == TenTo(price.price.scale)
    IN  /\ CoversLines(bill.lines, bill.total)
        /\ Pays(quote.amount, digits, one) /\ ~Pays(quote.amount - 1, digits, one)
        /\ Pays(quote.amount, 101, 100) /\ ~Pays(quote.amount - 1, 99, 100)

=============================================================================
