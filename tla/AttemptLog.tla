----------------------------- MODULE AttemptLog -----------------------------
(***************************************************************************)
(* What the webhook tables promise about a delivery, with workers, leases, *)
(* time and the endpoint left out.  The attempts of a delivery are made    *)
(* one after the other; each is opened once and closed once, and what is   *)
(* recorded of a closed attempt never changes.  After an attempt that      *)
(* settles the delivery there is no other, unless an operator asks.        *)
(***************************************************************************)
EXTENDS Integers

CONSTANTS Deliveries, Attempts

VARIABLES
  log,     \* log[d][n]: what is recorded of the n-th attempt of d
  wanted   \* 1 while a replay that an operator asked for is still to be made

vars == <<log, wanted>>

Outcome == {"none", "open", "abandoned", "succeeded", "retry_wait", "dead"}
Verdict == {"succeeded", "retry_wait", "dead"}

Last(d, n) ==
  /\ log[d][n] # "none"
  /\ n + 1 \in Attempts => log[d][n + 1] = "none"

Init ==
  /\ log = [d \in Deliveries |-> [n \in Attempts |-> "none"]]
  /\ wanted = [d \in Deliveries |-> 0]

(* The first attempt; one that gives up an open attempt, or follows one     *)
(* that is to be retried; or the one that an operator wants.                *)
MayFollow(d, n) ==
  \/ n = 1
  \/ n - 1 \in Attempts /\ log[d][n - 1] \in {"open", "retry_wait"}
  \/ n - 1 \in Attempts /\ log[d][n - 1] # "none" /\ wanted[d] = 1

(* A batch S of deliveries has its next attempts opened together. *)
Open(S, next) ==
  /\ \A d \in S : log[d][next[d]] = "none" /\ MayFollow(d, next[d])
  /\ log' = [d \in Deliveries |-> [m \in Attempts |->
       IF d \in S /\ m = next[d] THEN "open"
       ELSE IF d \in S /\ m = next[d] - 1 /\ log[d][m] = "open" THEN "abandoned"
       ELSE log[d][m]]]
  /\ wanted' = [d \in Deliveries |-> IF d \in S THEN 0 ELSE wanted[d]]

Close(d, n, verdict) ==
  /\ log[d][n] = "open"
  /\ log' = [log EXCEPT ![d][n] = verdict]
  /\ UNCHANGED wanted

Replay(d, n) ==
  /\ Last(d, n) /\ log[d][n] \in Verdict /\ wanted[d] = 0
  /\ wanted' = [wanted EXCEPT ![d] = 1]
  /\ UNCHANGED log

Next ==
  \/ \E S \in SUBSET Deliveries : \E next \in [S -> Attempts] : Open(S, next)
  \/ \E d \in Deliveries, n \in Attempts :
       Replay(d, n) \/ \E verdict \in Verdict : Close(d, n, verdict)

Spec == Init /\ [][Next]_vars
=============================================================================
