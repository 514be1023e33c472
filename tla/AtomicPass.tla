----------------------------- MODULE AtomicPass -----------------------------
(***************************************************************************)
(* What the worker job table promises, with workers, leases and time left  *)
(* out.  A job is a register that passes advance one at a time.  A pass is *)
(* granted; it ends exactly once, either by advancing the register by one  *)
(* or by being wasted (it failed, was given back, or another pass was      *)
(* granted over it).                                                       *)
(***************************************************************************)
EXTENDS Naturals

CONSTANT Jobs

VARIABLE pass

(* open is the number of open passes of the job, 0 or 1. *)
Pass == [granted: Nat, open: 0..1, advanced: Nat, wasted: Nat]

Init == pass = [j \in Jobs |->
                  [granted |-> 0, open |-> 0, advanced |-> 0, wasted |-> 0]]

(* A new pass; one that is still open is wasted by it. *)
Grant(j) ==
  pass' = [pass EXCEPT ![j] =
             [granted  |-> pass[j].granted + 1,
              open     |-> 1,
              advanced |-> pass[j].advanced,
              wasted   |-> pass[j].wasted + pass[j].open]]

(* The open pass ends well: the register moves on by exactly one. *)
Advance(j) ==
  /\ pass[j].open = 1
  /\ pass' = [pass EXCEPT ![j] =
                [granted  |-> pass[j].granted,
                 open     |-> 0,
                 advanced |-> pass[j].advanced + 1,
                 wasted   |-> pass[j].wasted]]

(* The open pass ends with nothing to show. *)
Waste(j) ==
  /\ pass[j].open = 1
  /\ pass' = [pass EXCEPT ![j] =
                [granted  |-> pass[j].granted,
                 open     |-> 0,
                 advanced |-> pass[j].advanced,
                 wasted   |-> pass[j].wasted + 1]]

Next == \E j \in Jobs : Grant(j) \/ Advance(j) \/ Waste(j)

Spec == Init /\ [][Next]_pass
=============================================================================
