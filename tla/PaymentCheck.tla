----------------------------- MODULE PaymentCheck -----------------------------
(***************************************************************************)
(* What the parser of transactions reads in one, against what it did: a    *)
(* transaction executes token instructions, some of them called by another *)
(* program, on accounts that may be opened and closed on the way; a node   *)
(* tells its instructions and the balances before and after, perhaps       *)
(* without those that a program called; the parser yields the transfers or *)
(* refuses, and a payment is verified by the transfer it expects.          *)
(*                                                                         *)
(* All accounts hold the expected token: the tests that compare a field of *)
(* the transfer with the same one of the expectation (mint, program, owner *)
(* and decimals) are not distinguished.                                    *)
(***************************************************************************)
EXTENDS Integers, SequencesExt

CONSTANTS
  Accounts,        \* token accounts
  Shop,            \* the expected destination
  Due,             \* the expected amount
  Amounts,         \* of transfers
  Opening,         \* [Accounts -> balance or Absent] before the transaction
  Absent,
  MaxInstructions  \* bound

ASSUME CheckAssumption ==
  /\ Shop \in Accounts
  /\ Amounts \subseteq Nat \ {0} /\ Due \in Amounts
  /\ Absent \notin Int /\ Opening \in [Accounts -> Nat \cup {Absent}]

VARIABLES
  held,   \* balance of each account
  log,    \* instructions of the transaction, executed
  report  \* what the node answers

payment == <<held, log, report>>

(* An instruction names accounts by position; "at" is its outer position    *)
(* and, when a program called it, the position among that one's calls.      *)
Nowhere == <<0, 0>>
Instruction(op, accounts, amount, paid) ==
  [op |-> op, accounts |-> accounts, amount |-> amount, reference |-> paid, at |-> Nowhere]

Moves(n, paid) ==
  {Instruction(op, <<s, d>>, n, paid) : op \in {"transfer", "transferChecked"},
     s \in Accounts, d \in Accounts}
Unsupported == {"mintTo", "burn", "initialize", "close", "approve"}
Others == {Instruction(op, <<a>>, 1, FALSE) : op \in Unsupported, a \in Accounts}
Call == Instruction("program", <<>>, 0, FALSE)

NoReport == [told |-> FALSE]
CheckInit ==
  /\ held = Opening
  /\ log = <<>>
  /\ report = NoReport

Open(a) == held[a] # Absent
Balance(h, a) == IF h[a] = Absent THEN 0 ELSE h[a]

(* What the token program allows, and does. *)
Legal(i) ==
  CASE i.op \in {"transfer", "transferChecked"} ->
         Open(i.accounts[1]) /\ Open(i.accounts[2]) /\ held[i.accounts[1]] >= i.amount
    [] i.op = "burn" -> Open(i.accounts[1]) /\ held[i.accounts[1]] >= i.amount
    [] i.op = "initialize" -> ~Open(i.accounts[1])
    [] i.op = "close" -> held[i.accounts[1]] = 0
    [] i.op \in {"mintTo", "approve"} -> Open(i.accounts[1])
    [] OTHER -> TRUE
Effect(i) ==
  CASE i.op \in {"transfer", "transferChecked"} ->
         [[held EXCEPT ![i.accounts[1]] = @ - i.amount] EXCEPT ![i.accounts[2]] = @ + i.amount]
    [] i.op = "burn" -> [held EXCEPT ![i.accounts[1]] = @ - i.amount]
    [] i.op = "mintTo" -> [held EXCEPT ![i.accounts[1]] = @ + i.amount]
    [] i.op = "initialize" -> [held EXCEPT ![i.accounts[1]] = 0]
    [] i.op = "close" -> [held EXCEPT ![i.accounts[1]] = Absent]
    [] OTHER -> held

(* Where the next instruction stands: of its own, or called by the last. *)
Places ==
  IF log = <<>> THEN {<<1, 0>>}
  ELSE LET p == Last(log).at
       IN  {<<p[1] + 1, 0>>} \cup
           (IF \E k \in 1..Len(log) : log[k].at = <<p[1], 0>> /\ log[k].op = "program"
            THEN {<<p[1], p[2] + 1>>} ELSE {})

Execute(i) ==
  /\ ~report.told /\ Len(log) < MaxInstructions
  /\ Legal(i)
  /\ held' = Effect(i)
  /\ \E p \in Places : log' = Append(log, [i EXCEPT !.at = p])
  /\ UNCHANGED report

(* A transaction that fails changes nothing but is recorded all the same;   *)
(* what a program called may not be.                                        *)
Tell ==
  /\ ~report.told /\ log # <<>>
  /\ \E ok, inner \in BOOLEAN :
       /\ held' = IF ok THEN held ELSE Opening
       /\ report' = [told |-> TRUE, ok |-> ok, inner |-> inner]
  /\ UNCHANGED log

CheckNext ==
  \/ \E n \in Amounts, paid \in BOOLEAN : \E i \in Moves(n, paid) : Execute(i)
  \/ \E i \in Others : Execute(i)
  \/ Execute(Call)
  \/ Tell

CheckSpec == CheckInit /\ [][CheckNext]_payment

-----------------------------------------------------------------------------
(* The parser, by the positions of the instructions it looks at.            *)
(* Instructions of other programs are passed over.                          *)
(* Mutant: what a program called is not looked at. *)
Visible_Outer == {k \in 1..Len(log) : log[k].at[2] = 0}
Visible == {k \in 1..Len(log) : log[k].at[2] = 0 \/ report.inner}
Tokens == {k \in Visible : log[k].op # "program"}
IsTransfer(i) == i.op \in {"transfer", "transferChecked"}

(* Everything counts when no account is watched. *)
Affects(i, watched) == \E k \in 1..Len(i.accounts) : i.accounts[k] \in watched

(* Accounts for which the node told a balance before or after. *)
Evidenced == {a \in Accounts : Opening[a] # Absent \/ held[a] # Absent}

(* resolveAssetEvidence: of both accounts; a checked transfer names its     *)
(* token itself, and is held against the evidence if there is any.          *)
Proven(i) ==
  \/ {i.accounts[1], i.accounts[2]} \subseteq Evidenced
  \/ i.op = "transferChecked" /\ {i.accounts[1], i.accounts[2]} \cap Evidenced = {}

Refused(watched) ==
  \E k \in Tokens : IF IsTransfer(log[k]) THEN ~Proven(log[k]) ELSE Affects(log[k], watched)

Parsed == {k \in Tokens : IsTransfer(log[k])}

(* f[1] + ... + f[N] *)
Total(f, N) ==
  LET sum[n \in 0..N] == IF n = 0 THEN 0 ELSE sum[n - 1] + f[n]
  IN  sum[N]

(* aggregateDestinationDelta *)
Moved(i, a) ==
  (IF i.accounts[2] = a THEN i.amount ELSE 0) - (IF i.accounts[1] = a THEN i.amount ELSE 0)
ParsedDelta(a) ==
  Total([k \in 1..Len(log) |-> IF k \in Parsed THEN Moved(log[k], a) ELSE 0], Len(log))
ActualDelta(a) == Balance(held, a) - Balance(Opening, a)

(* verifyPayment for one transfer, after all were parsed for no account.    *)
Verified(i) ==
  /\ report.ok
  /\ i.accounts[2] = Shop /\ i.amount = Due /\ i.reference
  /\ held[Shop] # Absent
  /\ i.accounts[1] # i.accounts[2]
  /\ ActualDelta(Shop) = ParsedDelta(Shop)

(* evaluateFixture passes with exactly one. *)
Passed ==
  /\ ~Refused(Accounts)
  /\ Cardinality({k \in Parsed : Verified(log[k])}) = 1

-----------------------------------------------------------------------------
(* What an instruction adds to the balance of an account. *)
Change(i, a) ==
  CASE IsTransfer(i) -> Moved(i, a)
    [] i.op = "mintTo" -> IF i.accounts[1] = a THEN i.amount ELSE 0
    [] i.op = "burn" -> IF i.accounts[1] = a THEN -i.amount ELSE 0
    [] OTHER -> 0

(* What a program called and the node left out, and what that changed in    *)
(* the balance of an account.                                               *)
Untold == {k \in 1..Len(log) : log[k].at[2] # 0 /\ ~report.inner}
UntoldDelta(a) ==
  Total([k \in 1..Len(log) |-> IF k \in Untold THEN Change(log[k], a) ELSE 0],
        Len(log))

(* Safety: for each account, the transfers read in a transaction and what   *)
(* the node left out are together the whole change of its balance, or the   *)
(* transaction is refused for it; so nothing that mints, burns, opens,      *)
(* closes or is called goes unnoticed where the node tells what programs    *)
(* called, which it need not: without it called transfers are missed, and   *)
(* nothing refuses them (parse-transaction.ts:87).  One that passes as the  *)
(* expected payment hides nothing of that kind that changed the balance of  *)
(* the shop all the same (verify-payment.ts).                               *)
ExplainedOrRefused ==
  report.told /\ report.ok =>
    /\ \A a \in Accounts :
         Refused({a}) \/ ActualDelta(a) = ParsedDelta(a) + UntoldDelta(a)
    /\ Passed => UntoldDelta(Shop) = 0
=============================================================================
