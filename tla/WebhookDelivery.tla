-------------------------- MODULE WebhookDelivery --------------------------
(***************************************************************************)
(* Delivery of webhooks: the webhook_deliveries and                        *)
(* webhook_delivery_attempts tables (PostgresWebhookStore), and the        *)
(* workers that claim a batch, send it and record what came of it          *)
(* (runDeliveryBatch, deliverClaim).                                       *)
(*                                                                         *)
(* Each statement of the store is one step.  Its reply may be lost after   *)
(* it committed, or it may fail; a worker may die between any two steps.   *)
(* Nothing stops a worker whose lease ran out while a request was queued   *)
(* or on the wire: another one claims the delivery beside it.              *)
(*                                                                         *)
(* Time is relative: a delivery's age is the time since first_attempt_at,  *)
(* counted up to the end of the automatic retry window; wait and left      *)
(* count down to next_attempt_at and lease_expires_at.  One clock stands   *)
(* for the clocks of all the workers.  A lease token (gen_random_uuid) is  *)
(* named by the attempt that minted it; 0 is NULL.                         *)
(***************************************************************************)
EXTENDS Integers, FiniteSets

CONSTANTS
  Deliveries,    \* webhook_deliveries.id
  Workers,       \* processes that run delivery batches
  NoWorker,      \* of a claim that no worker has in memory
  Window,        \* automaticRetryWindowMs, in ticks
  LeaseTicks,    \* leaseMs, in ticks
  MaxDelay,      \* maximumDelayMs, in ticks
  BatchSize,     \* limit of a claim
  Concurrency,   \* requests of one batch on the wire at a time
  MaxAttempts,   \* bound: the attempts that a run explores
  MaxReplays     \* bound: the replays that a run explores

ASSUME ConstantsAssumption ==
  /\ NoWorker \notin Workers
  /\ Window \in Nat \ {0} /\ LeaseTicks \in Nat \ {0} /\ MaxDelay \in Nat \ {0}
  /\ BatchSize \in Nat \ {0} /\ Concurrency \in Nat \ {0}
  /\ MaxAttempts \in Nat /\ MaxReplays \in Nat

VARIABLES
  delivery,  \* webhook_deliveries
  log,       \* webhook_delivery_attempts.outcome
  claim,     \* the ClaimedDelivery of each attempt, in its worker's memory
  replays,   \* history: the replays of each delivery
  since      \* history: the time since the first attempt of each delivery

vars == <<delivery, log, claim, replays, since>>

Attempts == 1..MaxAttempts
Unset == -1                    \* NULL in first_attempt_at

-----------------------------------------------------------------------------
(* Types. *)

State == {"absent", "pending", "in_flight", "retry_wait", "succeeded", "dead"}
Verdict == {"succeeded", "retry_wait", "dead"}
Outcome == Verdict \cup {"none", "open", "abandoned"}

Delivery == [state: State, attempts: 0..MaxAttempts, age: Unset..Window,
             wait: 0..MaxDelay, token: 0..MaxAttempts, left: 0..LeaseTicks,
             marked: BOOLEAN]

(* Where deliverClaim is.  worker, kind, age and replay are what the claim  *)
(* was given; sent, verdict and wait what it did and means to record.       *)
Claim == [pc: {"none", "queued", "sending", "finishing", "over"},
          worker: Workers \cup {NoWorker}, kind: {"automatic", "manual", "recovery"},
          age: 0..Window, replay: 0..MaxReplays, sent: BOOLEAN,
          verdict: Verdict \cup {"none"}, wait: 0..MaxDelay]

FreshDelivery ==
  [state |-> "absent", attempts |-> 0, age |-> Unset, wait |-> 0, token |-> 0,
   left |-> 0, marked |-> FALSE]

NoClaim ==
  [pc |-> "none", worker |-> NoWorker, kind |-> "automatic", age |-> 0,
   replay |-> 0, sent |-> FALSE, verdict |-> "none", wait |-> 0]

Later(age) == IF age \in 0..(Window - 1) THEN age + 1 ELSE age
Sooner(ticks) == IF ticks > 0 THEN ticks - 1 ELSE 0

-----------------------------------------------------------------------------
(* enqueueLifecycleEvent: one delivery for an event and an active endpoint. *)

Enqueue(d) ==
  /\ delivery[d].state = "absent"
  /\ delivery' = [delivery EXCEPT ![d].state = "pending"]
  /\ UNCHANGED <<log, claim, replays, since>>

-----------------------------------------------------------------------------
(* claimDueDeliveries. *)

Due_OnlyScheduled(r) ==
  r.state \in {"pending", "retry_wait"} /\ r.wait = 0
Due(r) ==
  \/ r.state \in {"pending", "retry_wait"} /\ r.wait = 0
  \/ r.state = "in_flight" /\ r.left = 0

ManualReplay(r) == r.attempts > 0 /\ r.age = Unset
ManualReplayRecovery(r) == r.state = "in_flight" /\ r.marked

Kind(r) ==
  IF ManualReplay(r) THEN "manual"
  ELSE IF ManualReplayRecovery(r) THEN "recovery"
  ELSE "automatic"

(* COALESCE(first_attempt_at, now). *)
FirstAge(r) == IF r.age = Unset THEN 0 ELSE r.age

Marked_OnceOnly(r) == ManualReplay(r)
Marked(r) == ManualReplay(r) \/ ManualReplayRecovery(r) \/ r.marked

Claimed(r) ==
  [state |-> "in_flight", attempts |-> r.attempts + 1, age |-> FirstAge(r),
   wait |-> r.wait, token |-> r.attempts + 1, left |-> LeaseTicks,
   marked |-> Marked(r)]

(* The log as the claim leaves it: an attempt that is still open is         *)
(* abandoned, and a new one is opened.                                      *)
LogClaimed(d) ==
  [n \in Attempts |->
     IF n = delivery[d].attempts + 1 THEN "open"
     ELSE IF n = delivery[d].attempts /\ log[d][n] = "open" THEN "abandoned"
     ELSE log[d][n]]

NewClaim(w, d) ==
  [pc |-> "queued", worker |-> w, kind |-> Kind(delivery[d]),
   age |-> FirstAge(delivery[d]), replay |-> replays[d], sent |-> FALSE,
   verdict |-> "none", wait |-> 0]

(* A batch: at most BatchSize of the due deliveries, those whose rows no    *)
(* other transaction holds (SKIP LOCKED).                                   *)
Batch(S) ==
  /\ S # {} /\ Cardinality(S) <= BatchSize
  /\ \A d \in S : Due(delivery[d]) /\ delivery[d].attempts < MaxAttempts

ClaimRows(S) ==
  /\ delivery' = [d \in Deliveries |->
                    IF d \in S THEN Claimed(delivery[d]) ELSE delivery[d]]
  /\ log' = [d \in Deliveries |-> IF d \in S THEN LogClaimed(d) ELSE log[d]]
  /\ since' = [d \in Deliveries |->
                 IF d \in S /\ since[d] = Unset THEN 0 ELSE since[d]]
  /\ UNCHANGED replays

(* A worker runs one batch at a time. *)
Idle(w) ==
  \A d \in Deliveries, n \in Attempts :
    claim[d][n].worker # w

ClaimBatch(w, S) ==
  /\ Idle(w)
  /\ Batch(S)
  /\ ClaimRows(S)
  /\ claim' = [d \in Deliveries |->
                 IF d \in S
                 THEN [claim[d] EXCEPT ![delivery[d].attempts + 1] = NewClaim(w, d)]
                 ELSE claim[d]]

(* The claim commits, and the worker that asked for it dies or sees an      *)
(* error: the deliveries are in flight and nobody works on them.            *)
ClaimReplyLost(S) ==
  /\ Batch(S)
  /\ ClaimRows(S)
  /\ UNCHANGED claim

-----------------------------------------------------------------------------
(* deliverClaim. *)

(* What a claim does next, keeping what it was given. *)
Finishing(c, verdict, wait) ==
  [pc |-> "finishing", worker |-> c.worker, kind |-> c.kind, age |-> c.age,
   replay |-> c.replay, sent |-> c.sent, verdict |-> verdict, wait |-> wait]
Sending(c) ==
  [pc |-> "sending", worker |-> c.worker, kind |-> c.kind, age |-> c.age,
   replay |-> c.replay, sent |-> TRUE, verdict |-> "none", wait |-> 0]
Over(c) ==
  [pc |-> "over", worker |-> NoWorker, kind |-> c.kind, age |-> 0,
   replay |-> c.replay, sent |-> c.sent, verdict |-> c.verdict, wait |-> 0]

SetClaim(d, n, c) == claim' = [claim EXCEPT ![d][n] = c]

OnTheWire(w) ==
  {x \in Deliveries \X Attempts :
     claim[x[1]][x[2]].worker = w /\ claim[x[1]][x[2]].pc \in {"sending", "finishing"}}

(* canAutomaticallySend. *)
CanAutomaticallySend(c) == c.age < Window

MaySend(c) ==
  /\ c.kind # "recovery"
  /\ c.kind = "automatic" => CanAutomaticallySend(c)

(* The claim is taken up.  It ends without a request when it may not send,  *)
(* or when its signing secret is missing or empty; otherwise the request    *)
(* leaves, whatever has become of the lease meanwhile.                      *)
TakeUp(d, n) ==
  /\ claim[d][n].pc = "queued"
  /\ Cardinality(OnTheWire(claim[d][n].worker)) < Concurrency

Refuse(d, n) ==
  /\ TakeUp(d, n)
  /\ SetClaim(d, n, Finishing(claim[d][n], "dead", 0))
  /\ UNCHANGED <<delivery, log, replays, since>>

Send(d, n) ==
  /\ TakeUp(d, n)
  /\ MaySend(claim[d][n])
  /\ SetClaim(d, n, Sending(claim[d][n]))
  /\ UNCHANGED <<delivery, log, replays, since>>

(* nextAttemptAt: a retry that would fall out of the window is not made. *)
RetryFits(c, wait) == c.age + wait < Window

RetriesAfter(c, wait) == c.kind = "automatic" /\ RetryFits(c, wait)

(* The endpoint answers, or the transport gives up: the result is a         *)
(* success, one that no retry can mend, or one worth a retry.               *)
Answer(d, n) ==
  /\ claim[d][n].pc = "sending"
  /\ \/ SetClaim(d, n, Finishing(claim[d][n], "succeeded", 0))
     \/ SetClaim(d, n, Finishing(claim[d][n], "dead", 0))
     \/ \E wait \in 1..MaxDelay :
          /\ RetriesAfter(claim[d][n], wait)
          /\ SetClaim(d, n, Finishing(claim[d][n], "retry_wait", wait))
  /\ UNCHANGED <<delivery, log, replays, since>>

-----------------------------------------------------------------------------
(* completeDelivery, under the lease token alone. *)

Fenced(d, n) == delivery[d].state = "in_flight" /\ delivery[d].token = n

Completed(r, c) ==
  [state |-> c.verdict, attempts |-> r.attempts, age |-> r.age, wait |-> c.wait,
   token |-> 0, left |-> 0, marked |-> FALSE]

Record(d, n) ==
  IF Fenced(d, n)
  THEN /\ delivery' = [delivery EXCEPT ![d] = Completed(delivery[d], claim[d][n])]
       /\ log' = [log EXCEPT ![d] =
                    [m \in Attempts |->
                       IF m = delivery[d].attempts /\ log[d][m] = "open"
                       THEN claim[d][n].verdict ELSE log[d][m]]]
  ELSE UNCHANGED <<delivery, log>>

Complete(d, n) ==
  /\ claim[d][n].pc = "finishing"
  /\ Record(d, n)
  /\ SetClaim(d, n, Over(claim[d][n]))
  /\ UNCHANGED <<replays, since>>

(* The statement fails, or commits and loses its reply: mapConcurrent takes *)
(* up nothing more of the batch, and what was queued is dropped.            *)
CompleteThrows(d, n) ==
  /\ claim[d][n].pc = "finishing"
  /\ Record(d, n) \/ UNCHANGED <<delivery, log>>
  /\ claim' = [e \in Deliveries |-> [m \in Attempts |->
       IF \/ e = d /\ m = n
          \/ claim[e][m].pc = "queued" /\ claim[e][m].worker = claim[d][n].worker
       THEN Over(claim[e][m]) ELSE claim[e][m]]]
  /\ UNCHANGED <<replays, since>>

(* A worker dies, with all that it has in memory. *)
Crash(w) ==
  /\ ~Idle(w)
  /\ claim' = [d \in Deliveries |-> [n \in Attempts |->
       IF claim[d][n].worker = w THEN Over(claim[d][n]) ELSE claim[d][n]]]
  /\ UNCHANGED <<delivery, log, replays, since>>

-----------------------------------------------------------------------------
(* replayDelivery. *)

Replayable_InFlight(r) ==
  r.state \in {"in_flight", "retry_wait", "succeeded", "dead"}
Replayable(r) == r.state \in {"retry_wait", "succeeded", "dead"}

Replayed(r) ==
  [state |-> "pending", attempts |-> r.attempts, age |-> Unset, wait |-> 0,
   token |-> 0, left |-> 0, marked |-> FALSE]

Replay(d) ==
  /\ Replayable(delivery[d])
  /\ replays[d] < MaxReplays
  /\ delivery' = [delivery EXCEPT ![d] = Replayed(delivery[d])]
  /\ replays' = [replays EXCEPT ![d] = replays[d] + 1]
  /\ UNCHANGED <<log, claim, since>>

-----------------------------------------------------------------------------

Waiting ==
  \/ \E d \in Deliveries :
       \/ delivery[d].wait > 0 \/ delivery[d].left > 0
       \/ delivery[d].age \in 0..(Window - 1) \/ since[d] \in 0..(Window - 1)
  \/ \E d \in Deliveries, n \in Attempts :
       claim[d][n].pc \in {"queued", "sending", "finishing"} /\ claim[d][n].age < Window

(* Time passes, for the rows and for what the workers hold in memory.  A    *)
(* claim that is over keeps what it had.                                    *)
Tick ==
  /\ Waiting
  /\ delivery' = [d \in Deliveries |->
       [delivery[d] EXCEPT !.age = Later(delivery[d].age),
                           !.wait = Sooner(delivery[d].wait),
                           !.left = Sooner(delivery[d].left)]]
  /\ since' = [d \in Deliveries |-> Later(since[d])]
  /\ claim' = [d \in Deliveries |-> [n \in Attempts |->
       IF claim[d][n].pc \in {"none", "over"} THEN claim[d][n]
       ELSE [claim[d][n] EXCEPT !.age = Later(claim[d][n].age),
                                !.wait = Sooner(claim[d][n].wait)]]]
  /\ UNCHANGED <<log, replays>>

Deliver(d, n) ==
  \/ Refuse(d, n) \/ Send(d, n) \/ Answer(d, n)
  \/ Complete(d, n) \/ CompleteThrows(d, n)

Init ==
  /\ delivery = [d \in Deliveries |-> FreshDelivery]
  /\ log = [d \in Deliveries |-> [n \in Attempts |-> "none"]]
  /\ claim = [d \in Deliveries |-> [n \in Attempts |-> NoClaim]]
  /\ replays = [d \in Deliveries |-> 0]
  /\ since = [d \in Deliveries |-> Unset]

Next ==
  \/ Tick
  \/ \E d \in Deliveries : Enqueue(d) \/ Replay(d)
  \/ \E w \in Workers : Crash(w)
  \/ \E S \in SUBSET Deliveries :
       ClaimReplyLost(S) \/ \E w \in Workers : ClaimBatch(w, S)
  \/ \E d \in Deliveries, n \in Attempts : Deliver(d, n)

Spec == Init /\ [][Next]_vars

(* Time passes; a worker takes up what it holds, and its transport has      *)
(* timeouts; and the webhooks job keeps running, so that a delivery that is *)
(* due again and again (its row free, a worker idle) is claimed.            *)
Fairness ==
  /\ WF_vars(Tick)
  /\ \A d \in Deliveries :
       SF_vars(\E w \in Workers, S \in SUBSET Deliveries : d \in S /\ ClaimBatch(w, S))
  /\ \A d \in Deliveries, n \in Attempts : WF_vars(Deliver(d, n))

FairSpec == Spec /\ Fairness

-----------------------------------------------------------------------------
(* Properties. *)

(* The types of the rows, the log, the claims in memory and the histories. *)
TypeOK ==
  /\ delivery \in [Deliveries -> Delivery]
  /\ log \in [Deliveries -> [Attempts -> Outcome]]
  /\ claim \in [Deliveries -> [Attempts -> Claim]]
  /\ replays \in [Deliveries -> 0..MaxReplays]
  /\ since \in [Deliveries -> Unset..Window]

(* The attempts of a delivery are numbered without a gap, at most the last  *)
(* one is open, and it is open exactly while the delivery is in flight; a   *)
(* settled delivery says what its last attempt says.                        *)
LogAgreesWithRow ==
  \A d \in Deliveries :
    /\ \A n \in Attempts :
         /\ log[d][n] = "none" <=> n > delivery[d].attempts
         /\ log[d][n] = "open" =>
              n = delivery[d].attempts /\ delivery[d].state = "in_flight"
    /\ delivery[d].state \in Verdict \cup {"in_flight"} =>
         /\ delivery[d].attempts \in Attempts
         /\ log[d][delivery[d].attempts] =
              IF delivery[d].state = "in_flight" THEN "open" ELSE delivery[d].state

(* The recorded outcome of an attempt is the one its own claim came to: an  *)
(* answer that comes in after the lease was lost is never written over the  *)
(* attempt that took its place.                                             *)
OutcomeIsItsOwn ==
  \A d \in Deliveries, n \in Attempts :
    log[d][n] \in Verdict => log[d][n] = claim[d][n].verdict

(* A replay that an operator asks for is sent at most once, though its      *)
(* worker may die, its lease run out and its recovery be claimed again.     *)
ReplaySendsOnce ==
  \A d \in Deliveries, m, n \in Attempts :
    /\ claim[d][m].sent /\ claim[d][n].sent
    /\ claim[d][m].replay = claim[d][n].replay
    /\ claim[d][m].replay > 0
    => m = n

(* No automatic request leaves later than the window after the first        *)
(* attempt, however late a queued claim is taken up and however often the   *)
(* delivery was abandoned and claimed again.                                *)
NoAutomaticSendAfterWindow ==
  [][\A d \in Deliveries, n \in Attempts :
       claim'[d][n].sent /\ ~claim[d][n].sent /\ claim[d][n].kind = "automatic" =>
         since[d] < Window]_vars

(* The tables implement the attempt log of AttemptLog. *)
Wanted ==
  [d \in Deliveries |->
     IF delivery[d].state = "pending" /\ delivery[d].attempts > 0 THEN 1 ELSE 0]

Abstract == INSTANCE AttemptLog WITH log <- log, wanted <- Wanted

ImplementsAttemptLog == Abstract!Spec

(* Every delivery is settled in the end, as succeeded or as dead: none is   *)
(* left to a worker that died or to a retry that nobody makes.  (Or the     *)
(* bound is met.)                                                           *)
DeliverySettles ==
  \A d \in Deliveries :
    delivery[d].state \in {"pending", "in_flight", "retry_wait"}
      ~> \/ delivery[d].state \in {"succeeded", "dead"}
         \/ delivery[d].attempts = MaxAttempts
=============================================================================
