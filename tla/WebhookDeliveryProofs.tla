----------------------- MODULE WebhookDeliveryProofs -----------------------
(***************************************************************************)
(* Proofs about WebhookDelivery, for any deliveries, workers, leases,      *)
(* windows, sizes of a batch and numbers of attempts and replays.          *)
(***************************************************************************)
EXTENDS WebhookDelivery, TLAPS

Live == {"queued", "sending", "finishing"}

(* The row carries the token of its last attempt while that is in flight,   *)
(* and counts the time since the first.                                     *)
TokenIsLast ==
  \A d \in Deliveries :
    /\ delivery[d].state = "absent" => delivery[d].attempts = 0
    /\ delivery[d].state = "in_flight" =>
         delivery[d].token = delivery[d].attempts /\ delivery[d].age # Unset

(* What a worker holds: nothing of an attempt that was not made; an outcome *)
(* is recorded by the claim that came to it, which then is over.            *)
ClaimsAreSound ==
  \A d \in Deliveries, n \in Attempts :
    /\ n > delivery[d].attempts => claim[d][n] = NoClaim
    /\ claim[d][n].pc = "none" => claim[d][n] = NoClaim
    /\ claim[d][n].pc = "over" => claim[d][n].worker = NoWorker
    /\ claim[d][n].sent => claim[d][n].kind # "recovery"
    /\ claim[d][n].pc = "finishing" =>
         /\ claim[d][n].verdict \in Verdict
         /\ claim[d][n].verdict = "retry_wait" => claim[d][n].kind = "automatic"
    /\ log[d][n] \in Verdict =>
         claim[d][n].pc = "over" /\ log[d][n] = claim[d][n].verdict

(* A delivery that was ever replayed waits for the attempt that was asked   *)
(* for, is marked while that is in flight, or is settled for good.          *)
ReplaysAreMarked ==
  \A d \in Deliveries :
    replays[d] > 0 =>
      /\ delivery[d].attempts > 0
      /\ \/ delivery[d].state = "pending" /\ delivery[d].age = Unset
         \/ delivery[d].state = "in_flight" /\ delivery[d].marked
         \/ delivery[d].state \in {"succeeded", "dead"}

(* A claim knows the replay it is made for, and only the first claim of a   *)
(* replay is the manual one.                                                *)
ClaimsKnowTheirReplay ==
  \A d \in Deliveries, n \in Attempts :
    /\ claim[d][n].replay <= replays[d]
    /\ claim[d][n].replay > 0 => claim[d][n].kind # "automatic"
    /\ delivery[d].state = "pending" /\ replays[d] > 0 => claim[d][n].replay < replays[d]
    /\ delivery[d].state = "in_flight" /\ n = delivery[d].attempts /\ claim[d][n].pc # "none"
         => claim[d][n].replay = replays[d]

OneIsManual ==
  \A d \in Deliveries, m, n \in Attempts :
    /\ claim[d][m].kind = "manual" /\ claim[d][n].kind = "manual"
    /\ claim[d][m].replay = claim[d][n].replay /\ claim[d][m].replay > 0
    => m = n

(* Until a replay the row counts the time since the first attempt, and an   *)
(* automatic claim goes on counting it.                                     *)
WindowIsCounted ==
  \A d \in Deliveries :
    /\ replays[d] = 0 => delivery[d].age = since[d]
    /\ \A n \in Attempts :
         claim[d][n].pc \in Live /\ claim[d][n].kind = "automatic" => claim[d][n].age = since[d]

DeliveryInv ==
  /\ TypeOK
  /\ LogAgreesWithRow /\ TokenIsLast /\ ClaimsAreSound
  /\ ReplaysAreMarked /\ ClaimsKnowTheirReplay /\ OneIsManual /\ WindowIsCounted

-----------------------------------------------------------------------------
LEMMA DeliveryInit == Init => DeliveryInv
<1> SUFFICES ASSUME Init PROVE DeliveryInv
  OBVIOUS
<1> USE ConstantsAssumption
<1>1. FreshDelivery \in Delivery /\ NoClaim \in Claim
  BY DEF FreshDelivery, NoClaim, Delivery, Claim, State, Unset, Verdict
<1>2. TypeOK
  BY <1>1 DEF Init, TypeOK, Outcome, Unset
<1>3. LogAgreesWithRow /\ TokenIsLast
  BY DEF Init, LogAgreesWithRow, TokenIsLast, FreshDelivery, Verdict, Attempts
<1>4. ClaimsAreSound /\ OneIsManual
  BY DEF Init, ClaimsAreSound, OneIsManual, NoClaim, Verdict
<1>5. ReplaysAreMarked /\ ClaimsKnowTheirReplay /\ WindowIsCounted
  BY DEF Init, ReplaysAreMarked, ClaimsKnowTheirReplay, WindowIsCounted, NoClaim,
         FreshDelivery, Live
<1> QED
  BY <1>2, <1>3, <1>4, <1>5 DEF DeliveryInv

-----------------------------------------------------------------------------
(* What a claim in memory does next. *)

Moves(c, e) ==
  \/ e = c
  \/ /\ c.pc \in Live /\ e \in Claim
     /\ e.pc \in {"sending", "finishing", "over"}
     /\ e.kind = c.kind /\ e.replay = c.replay
     /\ e.pc = "over" => e.worker = NoWorker
     /\ e.pc # "over" => e.age = c.age
     /\ e.sent => c.kind # "recovery"
     /\ e.pc = "finishing" =>
          e.verdict \in Verdict /\ (e.verdict = "retry_wait" => e.kind = "automatic")

(* Whatever the claims of the workers do, the invariant is kept while the   *)
(* tables stay as they are.                                                 *)
LEMMA MovesKeep ==
  ASSUME DeliveryInv, UNCHANGED <<delivery, log, replays, since>>,
         NEW f \in [Deliveries -> [Attempts -> Claim]], claim' = f,
         \A d \in Deliveries, n \in Attempts : Moves(claim[d][n], f[d][n])
  PROVE  DeliveryInv'
<1> USE DEF DeliveryInv
<1>1. TypeOK' /\ LogAgreesWithRow' /\ TokenIsLast' /\ ReplaysAreMarked'
  BY DEF TypeOK, LogAgreesWithRow, TokenIsLast, ReplaysAreMarked
<1>2. ClaimsAreSound'
  <2> SUFFICES ASSUME NEW d \in Deliveries, NEW n \in Attempts
               PROVE  (/\ n > delivery[d].attempts => f[d][n] = NoClaim
                       /\ f[d][n].pc = "none" => f[d][n] = NoClaim
                       /\ f[d][n].pc = "over" => f[d][n].worker = NoWorker
                       /\ f[d][n].sent => f[d][n].kind # "recovery"
                       /\ f[d][n].pc = "finishing" =>
                            /\ f[d][n].verdict \in Verdict
                            /\ f[d][n].verdict = "retry_wait" => f[d][n].kind = "automatic"
                       /\ log[d][n] \in Verdict =>
                            f[d][n].pc = "over" /\ log[d][n] = f[d][n].verdict)
    BY DEF ClaimsAreSound
  <2>1. CASE f[d][n] = claim[d][n]
    BY <2>1 DEF ClaimsAreSound
  <2>2. CASE f[d][n] # claim[d][n]
    <3>1. claim[d][n].pc \in Live
      BY <2>2 DEF Moves
    <3>2. claim[d][n] # NoClaim /\ log[d][n] \notin Verdict
      BY <3>1 DEF Live, NoClaim, ClaimsAreSound
    <3>3. ~(n > delivery[d].attempts)
      BY <3>2 DEF ClaimsAreSound
    <3> QED
      BY <2>2, <3>2, <3>3 DEF Moves
  <2> QED
    BY <2>1, <2>2
<1>3. ClaimsKnowTheirReplay'
  <2> SUFFICES ASSUME NEW d \in Deliveries, NEW n \in Attempts
               PROVE  /\ f[d][n].replay = claim[d][n].replay /\ f[d][n].kind = claim[d][n].kind
                      /\ f[d][n].pc # "none" => claim[d][n].pc # "none"
    BY DEF ClaimsKnowTheirReplay
  <2> QED
    BY DEF Moves, Live
<1>4. OneIsManual'
  <2>1. \A d \in Deliveries, n \in Attempts :
          f[d][n].replay = claim[d][n].replay /\ f[d][n].kind = claim[d][n].kind
    BY DEF Moves
  <2> QED
    BY <2>1 DEF OneIsManual
<1>5. WindowIsCounted'
  <2>1. ASSUME NEW d \in Deliveries, NEW n \in Attempts,
               f[d][n].pc \in Live, f[d][n].kind = "automatic"
        PROVE  f[d][n].age = since[d]
    BY <2>1 DEF Moves, Live, WindowIsCounted
  <2> QED
    BY <2>1 DEF WindowIsCounted
<1> QED
  BY <1>1, <1>2, <1>3, <1>4, <1>5

(* The claim (d, n) goes on, and the others stay where they are. *)
LEMMA OneMoves ==
  ASSUME DeliveryInv, NEW d \in Deliveries, NEW n \in Attempts, NEW c \in Claim,
         SetClaim(d, n, c), Moves(claim[d][n], c),
         UNCHANGED <<delivery, log, replays, since>>
  PROVE  DeliveryInv'
<1> DEFINE f == [claim EXCEPT ![d][n] = c]
<1>1. f \in [Deliveries -> [Attempts -> Claim]]
  BY DEF DeliveryInv, TypeOK
<1>2. \A e \in Deliveries, m \in Attempts : Moves(claim[e][m], f[e][m])
  <2> SUFFICES ASSUME NEW e \in Deliveries, NEW m \in Attempts
               PROVE  Moves(claim[e][m], f[e][m])
    OBVIOUS
  <2>1. f[e][m] = IF e = d /\ m = n THEN c ELSE claim[e][m]
    BY DEF DeliveryInv, TypeOK
  <2> QED
    BY <2>1 DEF Moves
<1>3. claim' = f
  BY DEF SetClaim
<1> HIDE DEF f
<1> QED
  BY <1>1, <1>2, <1>3, MovesKeep

LEMMA RefuseKeeps ==
  ASSUME DeliveryInv, NEW d \in Deliveries, NEW n \in Attempts, Refuse(d, n)
  PROVE  DeliveryInv'
<1> DEFINE c == Finishing(claim[d][n], "dead", 0)
<1>1. claim[d][n] \in Claim
  BY DEF DeliveryInv, TypeOK
<1>2. c \in Claim
  BY <1>1, ConstantsAssumption DEF Finishing, Claim, Verdict
<1>3. Moves(claim[d][n], c)
  BY <1>2 DEF Refuse, TakeUp, Moves, Live, Finishing, DeliveryInv, ClaimsAreSound, Verdict
<1> QED
  BY <1>2, <1>3, OneMoves DEF Refuse

LEMMA SendKeeps ==
  ASSUME DeliveryInv, NEW d \in Deliveries, NEW n \in Attempts, Send(d, n)
  PROVE  DeliveryInv'
<1> DEFINE c == Sending(claim[d][n])
<1>1. claim[d][n] \in Claim
  BY DEF DeliveryInv, TypeOK
<1>2. c \in Claim
  BY <1>1, ConstantsAssumption DEF Sending, Claim
<1>3. Moves(claim[d][n], c)
  BY <1>2 DEF Send, TakeUp, MaySend, Moves, Live, Sending
<1> QED
  BY <1>2, <1>3, OneMoves DEF Send

LEMMA AnswerKeeps ==
  ASSUME DeliveryInv, NEW d \in Deliveries, NEW n \in Attempts, Answer(d, n)
  PROVE  DeliveryInv'
<1>1. claim[d][n] \in Claim
  BY DEF DeliveryInv, TypeOK
<1>2. PICK verdict \in Verdict, wait \in 0..MaxDelay :
        /\ SetClaim(d, n, Finishing(claim[d][n], verdict, wait))
        /\ verdict = "retry_wait" => claim[d][n].kind = "automatic"
  BY ConstantsAssumption DEF Answer, Verdict, RetriesAfter
<1> DEFINE c == Finishing(claim[d][n], verdict, wait)
<1>3. c \in Claim
  BY <1>1 DEF Finishing, Claim
<1>4. Moves(claim[d][n], c)
  BY <1>2, <1>3 DEF Answer, Moves, Live, Finishing, DeliveryInv, ClaimsAreSound
<1> QED
  BY <1>2, <1>3, <1>4, OneMoves DEF Answer

LEMMA OverMoves ==
  ASSUME NEW c \in Claim, c.pc \in Live, c.sent => c.kind # "recovery"
  PROVE  Over(c) \in Claim /\ Moves(c, Over(c))
<1>1. Over(c) \in Claim
  BY ConstantsAssumption DEF Over, Claim
<1> QED
  BY <1>1 DEF Moves, Over

LEMMA CrashKeeps ==
  ASSUME DeliveryInv, NEW w \in Workers, Crash(w)
  PROVE  DeliveryInv'
<1> DEFINE f == [d \in Deliveries |-> [n \in Attempts |->
                   IF claim[d][n].worker = w THEN Over(claim[d][n]) ELSE claim[d][n]]]
<1>1. ASSUME NEW d \in Deliveries, NEW n \in Attempts
      PROVE  f[d][n] \in Claim /\ Moves(claim[d][n], f[d][n])
  <2>1. claim[d][n] \in Claim
    BY DEF DeliveryInv, TypeOK
  <2>2. CASE claim[d][n].worker = w
    <3>1. claim[d][n].pc \in Live
      BY <2>1, <2>2, ConstantsAssumption
         DEF Claim, Live, DeliveryInv, ClaimsAreSound, NoClaim
    <3> QED
      BY <2>1, <2>2, <3>1, OverMoves DEF DeliveryInv, ClaimsAreSound
  <2>3. CASE claim[d][n].worker # w
    BY <2>1, <2>3 DEF Moves
  <2> QED
    BY <2>2, <2>3
<1>2. f \in [Deliveries -> [Attempts -> Claim]]
  BY <1>1
<1>3. claim' = f /\ UNCHANGED <<delivery, log, replays, since>>
  BY DEF Crash
<1> HIDE DEF f
<1> QED
  BY <1>1, <1>2, <1>3, MovesKeep

-----------------------------------------------------------------------------
(* Steps of the tables. *)

LEMMA EnqueueKeeps ==
  ASSUME DeliveryInv, NEW d \in Deliveries, Enqueue(d)
  PROVE  DeliveryInv'
<1> USE DEF DeliveryInv, Enqueue
<1>1. delivery[d] \in Delivery
  BY DEF TypeOK
<1> DEFINE r == [delivery[d] EXCEPT !.state = "pending"]
<1>2. /\ r \in Delivery
      /\ r.state = "pending" /\ r.attempts = delivery[d].attempts /\ r.token = delivery[d].token
      /\ r.age = delivery[d].age
  BY <1>1 DEF Delivery, State
<1>3. delivery' = [delivery EXCEPT ![d] = r]
  BY DEF TypeOK
<1> HIDE DEF r
<1>4. TypeOK'
  BY <1>2, <1>3 DEF TypeOK
<1>5. \A e \in Deliveries : delivery'[e] = IF e = d THEN r ELSE delivery[e]
  BY <1>3 DEF TypeOK
<1>6. replays[d] = 0
  BY SMTT(30) DEF ReplaysAreMarked, TypeOK
<1>7. LogAgreesWithRow' /\ TokenIsLast'
  BY <1>2, <1>5 DEF LogAgreesWithRow, TokenIsLast, Verdict
<1>8. ClaimsAreSound' /\ OneIsManual'
  BY <1>2, <1>5 DEF ClaimsAreSound, OneIsManual
<1>9. ReplaysAreMarked' /\ ClaimsKnowTheirReplay' /\ WindowIsCounted'
  BY <1>2, <1>5, <1>6 DEF ReplaysAreMarked, ClaimsKnowTheirReplay, WindowIsCounted
<1> QED
  BY <1>4, <1>7, <1>8, <1>9

LEMMA ReplayKeeps ==
  ASSUME DeliveryInv, NEW d \in Deliveries, Replay(d)
  PROVE  DeliveryInv'
<1> USE ConstantsAssumption DEF DeliveryInv, Replay
<1>1. delivery[d] \in Delivery /\ replays[d] \in 0..MaxReplays
  BY DEF TypeOK
<1> DEFINE r == Replayed(delivery[d])
<1>2. /\ r \in Delivery
      /\ r.state = "pending" /\ r.attempts = delivery[d].attempts /\ r.age = Unset
  BY <1>1 DEF Replayed, Delivery, State, Unset
<1>3. delivery' = [delivery EXCEPT ![d] = r]
  OBVIOUS
<1> HIDE DEF r
<1>4. TypeOK'
  BY <1>1, <1>2, <1>3 DEF TypeOK
<1>5. \A e \in Deliveries : /\ delivery'[e] = IF e = d THEN r ELSE delivery[e]
                            /\ replays'[e] = IF e = d THEN replays[d] + 1 ELSE replays[e]
  BY <1>3 DEF TypeOK
<1>6. delivery[d].attempts \in Attempts
  BY DEF LogAgreesWithRow, Replayable, Verdict
<1>7. LogAgreesWithRow' /\ TokenIsLast'
  BY <1>2, <1>5 DEF LogAgreesWithRow, TokenIsLast, Verdict, Replayable
<1>8. ClaimsAreSound' /\ OneIsManual'
  BY <1>2, <1>5 DEF ClaimsAreSound, OneIsManual
<1>9. ReplaysAreMarked'
  BY <1>2, <1>5, <1>6 DEF ReplaysAreMarked, Attempts
<1>10. ClaimsKnowTheirReplay'
  <2>1. \A n \in Attempts : claim[d][n].replay \in Nat
    BY DEF TypeOK, Claim
  <2> QED
    BY <1>1, <1>2, <1>5, <2>1 DEF ClaimsKnowTheirReplay
<1>11. WindowIsCounted'
  BY <1>1, <1>2, <1>5 DEF WindowIsCounted
<1> QED
  BY <1>4, <1>7, <1>8, <1>9, <1>10, <1>11

(* A claim as it is handed to the worker. *)
Taken(c, d) ==
  /\ c.pc = "queued" /\ c.kind = Kind(delivery[d]) /\ c.age = FirstAge(delivery[d])
  /\ c.replay = replays[d] /\ ~c.sent

(* The rows of a batch are claimed; a worker may have the claims in memory, *)
(* or the reply was lost.                                                   *)
LEMMA ClaimRowsKeep ==
  ASSUME DeliveryInv, NEW S \in SUBSET Deliveries, Batch(S), ClaimRows(S),
         NEW f \in [Deliveries -> [Attempts -> Claim]], claim' = f,
         \A d \in Deliveries, n \in Attempts :
           \/ f[d][n] = claim[d][n]
           \/ d \in S /\ n = delivery[d].attempts + 1 /\ Taken(f[d][n], d)
  PROVE  DeliveryInv'
<1> USE ConstantsAssumption DEF DeliveryInv
<1> DEFINE g == [d \in Deliveries |-> IF d \in S THEN Claimed(delivery[d]) ELSE delivery[d]]
           l == [d \in Deliveries |-> IF d \in S THEN LogClaimed(d) ELSE log[d]]
           t == [d \in Deliveries |-> IF d \in S /\ since[d] = Unset THEN 0 ELSE since[d]]
<1>1. delivery' = g /\ log' = l /\ since' = t /\ UNCHANGED replays
  BY DEF ClaimRows
<1>2. ASSUME NEW d \in Deliveries
      PROVE  /\ d \in S => g[d] = Claimed(delivery[d]) /\ l[d] = LogClaimed(d)
             /\ d \notin S => g[d] = delivery[d] /\ l[d] = log[d]
             /\ t[d] = IF d \in S /\ since[d] = Unset THEN 0 ELSE since[d]
  OBVIOUS
<1>3. ASSUME NEW d \in S
      PROVE  /\ delivery[d] \in Delivery /\ Due(delivery[d])
             /\ delivery[d].attempts \in Nat /\ delivery[d].attempts + 1 \in Attempts
  <2>1. delivery[d] \in Delivery
    BY DEF TypeOK
  <2>2. Due(delivery[d]) /\ delivery[d].attempts < MaxAttempts
    BY DEF Batch
  <2>3. delivery[d].attempts \in 0..MaxAttempts
    BY <2>1 DEF Delivery
  <2> QED
    BY <2>1, <2>2, <2>3 DEF Attempts
<1>4. ASSUME NEW d \in S
      PROVE  /\ g[d] \in Delivery
             /\ g[d].state = "in_flight" /\ g[d].attempts = delivery[d].attempts + 1
             /\ g[d].token = delivery[d].attempts + 1 /\ g[d].age = FirstAge(delivery[d])
             /\ g[d].marked = Marked(delivery[d])
  <2>1. FirstAge(delivery[d]) \in 0..Window
    BY <1>3 DEF FirstAge, Delivery, Unset
  <2>2. Marked(delivery[d]) \in BOOLEAN
    BY DEF Marked, ManualReplay, ManualReplayRecovery
  <2>3. Claimed(delivery[d]) \in Delivery
    BY <1>3, <2>1, <2>2 DEF Claimed, Delivery, State, Attempts, Unset
  <2> QED
    BY <1>2, <2>3 DEF Claimed
<1>5. ASSUME NEW d \in S, NEW n \in Attempts
      PROVE  l[d][n] = IF n = delivery[d].attempts + 1 THEN "open"
                       ELSE IF n = delivery[d].attempts /\ log[d][n] = "open" THEN "abandoned"
                       ELSE log[d][n]
  BY <1>2 DEF LogClaimed
<1> HIDE DEF g, l, t
<1>6. g \in [Deliveries -> Delivery] /\ l \in [Deliveries -> [Attempts -> Outcome]]
      /\ t \in [Deliveries -> Unset..Window]
  <2>1. g \in [Deliveries -> Delivery]
    BY <1>2, <1>4 DEF g, TypeOK
  <2>2. \A d \in S : LogClaimed(d) \in [Attempts -> Outcome]
    BY DEF LogClaimed, TypeOK, Outcome
  <2>3. l \in [Deliveries -> [Attempts -> Outcome]]
    BY <2>2 DEF l, TypeOK
  <2>4. t \in [Deliveries -> Unset..Window]
    BY DEF t, TypeOK, Unset
  <2> QED
    BY <2>1, <2>3, <2>4
<1>7. TypeOK'
  BY <1>1, <1>6 DEF TypeOK
<1>8. LogAgreesWithRow'
  <2> SUFFICES ASSUME NEW d \in Deliveries
               PROVE  /\ \A n \in Attempts :
                           /\ l[d][n] = "none" <=> n > g[d].attempts
                           /\ l[d][n] = "open" =>
                                n = g[d].attempts /\ g[d].state = "in_flight"
                      /\ g[d].state \in Verdict \cup {"in_flight"} =>
                           /\ g[d].attempts \in Attempts
                           /\ l[d][g[d].attempts] =
                                IF g[d].state = "in_flight" THEN "open" ELSE g[d].state
    BY <1>1 DEF LogAgreesWithRow
  <2>1. CASE d \in S
    <3>1. ASSUME NEW n \in Attempts
          PROVE  /\ l[d][n] = "none" <=> n > g[d].attempts
                 /\ l[d][n] = "open" => n = g[d].attempts /\ g[d].state = "in_flight"
      BY <1>3, <1>4, <1>5, <2>1 DEF LogAgreesWithRow, Attempts
    <3> QED
      BY <1>3, <1>4, <1>5, <2>1, <3>1
  <2>2. CASE d \notin S
    BY <1>2, <2>2 DEF LogAgreesWithRow
  <2> QED
    BY <2>1, <2>2
<1>9. TokenIsLast'
  <2>1. ASSUME NEW d \in S PROVE g[d].age # Unset
    BY <1>4, <2>1 DEF FirstAge, Unset
  <2> QED
    BY <1>1, <1>2, <1>4, <2>1 DEF TokenIsLast
<1>11. ClaimsAreSound'
  <2> SUFFICES ASSUME NEW d \in Deliveries, NEW n \in Attempts
               PROVE  (/\ n > g[d].attempts => f[d][n] = NoClaim
                       /\ f[d][n].pc = "none" => f[d][n] = NoClaim
                       /\ f[d][n].pc = "over" => f[d][n].worker = NoWorker
                       /\ f[d][n].sent => f[d][n].kind # "recovery"
                       /\ f[d][n].pc = "finishing" =>
                            /\ f[d][n].verdict \in Verdict
                            /\ f[d][n].verdict = "retry_wait" => f[d][n].kind = "automatic"
                       /\ l[d][n] \in Verdict =>
                            f[d][n].pc = "over" /\ l[d][n] = f[d][n].verdict)
    BY <1>1 DEF ClaimsAreSound
  <2>1. CASE f[d][n] = claim[d][n]
    <3>1. n > g[d].attempts => n > delivery[d].attempts
      BY <1>2, <1>3, <1>4 DEF Attempts
    <3>2. l[d][n] \in Verdict => l[d][n] = log[d][n]
      BY <1>2, <1>5 DEF Verdict
    <3> QED
      BY <2>1, <3>1, <3>2 DEF ClaimsAreSound
  <2>2. CASE d \in S /\ n = delivery[d].attempts + 1 /\ Taken(f[d][n], d)
    <3>1. l[d][n] = "open"
      BY <1>5, <2>2
    <3>2. ~(n > g[d].attempts)
      BY <1>3, <1>4, <2>2
    <3> QED
      BY <2>2, <3>1, <3>2 DEF Taken, Verdict
  <2> QED
    BY <2>1, <2>2
<1>12. ASSUME NEW d \in S, replays[d] > 0
       PROVE  Kind(delivery[d]) # "automatic" /\ Marked(delivery[d])
              /\ (Kind(delivery[d]) = "manual" => delivery[d].state = "pending")
  <2>1. /\ delivery[d].attempts > 0
        /\ \/ delivery[d].state = "pending" /\ delivery[d].age = Unset
           \/ delivery[d].state = "in_flight" /\ delivery[d].marked
    BY <1>3, <1>12 DEF ReplaysAreMarked, Due
  <2>2. CASE delivery[d].state = "pending" /\ delivery[d].age = Unset
    BY <2>1, <2>2 DEF Kind, Marked, ManualReplay, ManualReplayRecovery
  <2>3. CASE delivery[d].state = "in_flight" /\ delivery[d].marked
    BY <2>3 DEF Kind, Marked, ManualReplay, ManualReplayRecovery, TokenIsLast
  <2> QED
    BY <2>1, <2>2, <2>3
<1>13. ReplaysAreMarked'
  BY <1>1, <1>2, <1>3, <1>4, <1>12 DEF ReplaysAreMarked
<1>14. ClaimsKnowTheirReplay'
  <2> SUFFICES ASSUME NEW d \in Deliveries, NEW n \in Attempts
               PROVE  (/\ f[d][n].replay <= replays[d]
                       /\ f[d][n].replay > 0 => f[d][n].kind # "automatic"
                       /\ g[d].state = "pending" /\ replays[d] > 0 => f[d][n].replay < replays[d]
                       /\ g[d].state = "in_flight" /\ n = g[d].attempts /\ f[d][n].pc # "none"
                            => f[d][n].replay = replays[d])
    BY <1>1 DEF ClaimsKnowTheirReplay
  <2>1. CASE f[d][n] = claim[d][n]
    <3>1. CASE d \in S
      <4>1. n = g[d].attempts => claim[d][n] = NoClaim
        BY <1>3, <1>4, <3>1 DEF ClaimsAreSound
      <4> QED
        BY <1>4, <2>1, <3>1, <4>1 DEF ClaimsKnowTheirReplay, NoClaim
    <3>2. CASE d \notin S
      BY <1>2, <2>1, <3>2 DEF ClaimsKnowTheirReplay
    <3> QED
      BY <3>1, <3>2
  <2>2. ASSUME d \in S, Taken(f[d][n], d)
        PROVE  /\ f[d][n].replay = replays[d] /\ g[d].state = "in_flight"
               /\ replays[d] > 0 => f[d][n].kind # "automatic"
    BY <1>4, <1>12, <2>2 DEF Taken
  <2>3. replays[d] \in Nat
    BY DEF TypeOK
  <2> QED
    BY <2>1, <2>2, <2>3
<1>15. OneIsManual'
  <2>1. ASSUME NEW d \in Deliveries, NEW n \in Attempts, NEW m \in Attempts,
               d \in S, Taken(f[d][n], d), f[d][m] = claim[d][m],
               f[d][n].kind = "manual", f[d][n].replay > 0
        PROVE  f[d][m].replay # f[d][n].replay
    <3>1. replays[d] > 0 /\ delivery[d].state = "pending"
      BY <1>12, <2>1 DEF Taken
    <3>2. claim[d][m].replay < replays[d]
      BY <3>1 DEF ClaimsKnowTheirReplay
    <3>3. claim[d][m].replay \in Nat /\ replays[d] \in Nat
      BY DEF TypeOK, Claim
    <3> QED
      BY <2>1, <3>2, <3>3 DEF Taken
  <2> SUFFICES ASSUME NEW d \in Deliveries, NEW m \in Attempts, NEW n \in Attempts,
                      f[d][m].kind = "manual", f[d][n].kind = "manual",
                      f[d][m].replay = f[d][n].replay, f[d][m].replay > 0
               PROVE  m = n
    BY DEF OneIsManual
  <2>2. CASE f[d][m] = claim[d][m] /\ f[d][n] = claim[d][n]
    BY <2>2 DEF OneIsManual
  <2>3. CASE f[d][m] # claim[d][m] /\ f[d][n] # claim[d][n]
    BY <2>3
  <2>4. CASE f[d][m] = claim[d][m] /\ f[d][n] # claim[d][n]
    BY <2>1, <2>4
  <2>5. CASE f[d][m] # claim[d][m] /\ f[d][n] = claim[d][n]
    BY <2>1, <2>5
  <2> QED
    BY <2>2, <2>3, <2>4, <2>5
<1>16. WindowIsCounted'
  <2>1. ASSUME NEW d \in S, replays[d] = 0 PROVE g[d].age = t[d]
    <3>1. delivery[d].age = since[d]
      BY <2>1 DEF WindowIsCounted
    <3> QED
      BY <1>2, <1>4, <3>1 DEF FirstAge
  <2>2. ASSUME NEW d \in Deliveries, NEW n \in Attempts,
               f[d][n].pc \in Live, f[d][n].kind = "automatic", f[d][n] = claim[d][n]
        PROVE  f[d][n].age = t[d]
    <3>1. claim[d][n].age = since[d]
      BY <2>2 DEF WindowIsCounted
    <3>2. since[d] # Unset
      BY <3>1 DEF TypeOK, Claim, Unset
    <3> QED
      BY <1>2, <2>2, <3>1, <3>2
  <2>3. ASSUME NEW d \in S, NEW n \in Attempts, Taken(f[d][n], d), f[d][n].kind = "automatic"
        PROVE  f[d][n].age = t[d]
    <3>1. replays[d] = 0
      <4>1. replays[d] \in Nat
        BY DEF TypeOK
      <4>2. ~(replays[d] > 0)
        BY <1>12, <2>3 DEF Taken
      <4> QED
        BY <4>1, <4>2
    <3> QED
      BY <1>4, <2>1, <2>3, <3>1 DEF Taken
  <2>4. ASSUME NEW d \in Deliveries, NEW n \in Attempts,
               f[d][n].pc \in Live, f[d][n].kind = "automatic"
        PROVE  f[d][n].age = t[d]
    BY <2>2, <2>3, <2>4
  <2>5. ASSUME NEW d \in Deliveries, replays[d] = 0 PROVE g[d].age = t[d]
    BY <1>2, <2>1, <2>5 DEF WindowIsCounted
  <2> QED
    BY <1>1, <2>4, <2>5 DEF WindowIsCounted
<1> QED
  BY <1>7, <1>8, <1>9, <1>11, <1>13, <1>14, <1>15, <1>16

LEMMA NewClaimIsTaken ==
  ASSUME DeliveryInv, NEW d \in Deliveries, NEW w \in Workers
  PROVE  NewClaim(w, d) \in Claim /\ Taken(NewClaim(w, d), d)
<1>1. FirstAge(delivery[d]) \in 0..Window
  BY ConstantsAssumption DEF FirstAge, DeliveryInv, TypeOK, Delivery, Unset
<1>2. Kind(delivery[d]) \in {"automatic", "manual", "recovery"}
  BY DEF Kind
<1>3. replays[d] \in 0..MaxReplays
  BY DEF DeliveryInv, TypeOK
<1> QED
  BY <1>1, <1>2, <1>3, ConstantsAssumption DEF NewClaim, Claim, Taken

LEMMA ClaimBatchKeeps ==
  ASSUME DeliveryInv, NEW S \in SUBSET Deliveries, NEW w \in Workers, ClaimBatch(w, S)
  PROVE  DeliveryInv'
<1> DEFINE f == [d \in Deliveries |->
                   IF d \in S
                   THEN [claim[d] EXCEPT ![delivery[d].attempts + 1] = NewClaim(w, d)]
                   ELSE claim[d]]
<1>1. ASSUME NEW d \in Deliveries, NEW n \in Attempts
      PROVE  f[d][n] = IF d \in S /\ n = delivery[d].attempts + 1
                       THEN NewClaim(w, d) ELSE claim[d][n]
  BY DEF DeliveryInv, TypeOK
<1>2. f \in [Deliveries -> [Attempts -> Claim]]
  <2>1. ASSUME NEW d \in Deliveries PROVE f[d] \in [Attempts -> Claim]
    BY NewClaimIsTaken DEF DeliveryInv, TypeOK
  <2> QED
    BY <2>1
<1>3. claim' = f /\ Batch(S) /\ ClaimRows(S)
  BY DEF ClaimBatch
<1> HIDE DEF f
<1>4. \A d \in Deliveries, n \in Attempts :
        \/ f[d][n] = claim[d][n]
        \/ d \in S /\ n = delivery[d].attempts + 1 /\ Taken(f[d][n], d)
  BY <1>1, NewClaimIsTaken
<1> QED
  BY <1>2, <1>3, <1>4, ClaimRowsKeep

LEMMA ClaimReplyLostKeeps ==
  ASSUME DeliveryInv, NEW S \in SUBSET Deliveries, ClaimReplyLost(S)
  PROVE  DeliveryInv'
<1>1. claim \in [Deliveries -> [Attempts -> Claim]] /\ claim' = claim
  BY DEF DeliveryInv, TypeOK, ClaimReplyLost
<1> QED
  BY <1>1, ClaimRowsKeep DEF ClaimReplyLost

(* A completion that finds its lease closes the last attempt of the row. *)
LEMMA RecordKeeps ==
  ASSUME DeliveryInv, NEW d \in Deliveries, NEW n \in Attempts,
         claim[d][n].pc = "finishing", Record(d, n), UNCHANGED <<replays, since>>,
         NEW f \in [Deliveries -> [Attempts -> Claim]], claim' = f,
         \A e \in Deliveries, m \in Attempts : Moves(claim[e][m], f[e][m]),
         f[d][n] = Over(claim[d][n])
  PROVE  DeliveryInv'
<1> USE ConstantsAssumption DEF DeliveryInv
<1>1. CASE ~Fenced(d, n)
  BY <1>1, MovesKeep DEF Record
<1>2. CASE Fenced(d, n)
  <2> DEFINE v == claim[d][n].verdict
             r == Completed(delivery[d], claim[d][n])
             l == [m \in Attempts |->
                     IF m = delivery[d].attempts /\ log[d][m] = "open" THEN v ELSE log[d][m]]
  <2>1. /\ delivery[d] \in Delivery /\ claim[d][n] \in Claim
        /\ delivery[d].state = "in_flight" /\ delivery[d].attempts = n
        /\ log[d][n] = "open" /\ v \in Verdict
    BY <1>2 DEF Fenced, TypeOK, TokenIsLast, LogAgreesWithRow, ClaimsAreSound
  <2>2. /\ r \in Delivery
        /\ r.state = v /\ r.attempts = n /\ r.age = delivery[d].age
    BY <2>1 DEF Completed, Delivery, Claim, State, Verdict
  <2>3. \A m \in Attempts : l[m] = IF m = n THEN v ELSE log[d][m]
    BY <2>1
  <2>4. delivery' = [delivery EXCEPT ![d] = r] /\ log' = [log EXCEPT ![d] = l]
    BY <1>2 DEF Record
  <2>5. l \in [Attempts -> Outcome]
    BY <2>1 DEF TypeOK, Outcome
  <2>6. v # "none" /\ v # "open" /\ v # "in_flight" /\ v # "absent" /\ v # "pending"
    BY <2>1 DEF Verdict
  <2>7. f[d][n].pc = "over" /\ f[d][n].verdict = v /\ f[d][n].worker = NoWorker
    BY DEF Over
  <2>8. v = "retry_wait" => claim[d][n].kind = "automatic"
    BY DEF ClaimsAreSound
  <2> HIDE DEF r, l, v
  <2>9. TypeOK'
    BY <2>2, <2>4, <2>5 DEF TypeOK
  <2>10. /\ \A e \in Deliveries : delivery'[e] = IF e = d THEN r ELSE delivery[e]
         /\ \A e \in Deliveries, m \in Attempts :
              log'[e][m] = IF e = d /\ m = n THEN v ELSE log[e][m]
    BY <2>3, <2>4, <2>5 DEF TypeOK
  <2>11. LogAgreesWithRow'
    <3>1. ASSUME NEW e \in Deliveries, e # d
          PROVE  delivery'[e] = delivery[e] /\ \A m \in Attempts : log'[e][m] = log[e][m]
      BY <2>10, <3>1
    <3>2. \A m \in Attempts :
            /\ log'[d][m] = "none" <=> m > n
            /\ log'[d][m] # "open"
      BY <2>1, <2>6, <2>10 DEF LogAgreesWithRow
    <3>3. delivery'[d].attempts = n /\ delivery'[d].state = v /\ log'[d][n] = v
      BY <2>2, <2>10
    <3> QED
      BY <2>6, <3>1, <3>2, <3>3 DEF LogAgreesWithRow
  <2>12. TokenIsLast'
    BY <2>2, <2>6, <2>10 DEF TokenIsLast
  <2>13. ClaimsAreSound'
    <3> SUFFICES ASSUME NEW e \in Deliveries, NEW m \in Attempts
                 PROVE  (/\ m > delivery'[e].attempts => f[e][m] = NoClaim
                         /\ f[e][m].pc = "none" => f[e][m] = NoClaim
                         /\ f[e][m].pc = "over" => f[e][m].worker = NoWorker
                         /\ f[e][m].sent => f[e][m].kind # "recovery"
                         /\ f[e][m].pc = "finishing" =>
                              /\ f[e][m].verdict \in Verdict
                              /\ f[e][m].verdict = "retry_wait" => f[e][m].kind = "automatic"
                         /\ log'[e][m] \in Verdict =>
                              f[e][m].pc = "over" /\ log'[e][m] = f[e][m].verdict)
      BY DEF ClaimsAreSound
    <3>1. delivery'[e].attempts = delivery[e].attempts
      BY <2>1, <2>2, <2>10
    <3>2. CASE e = d /\ m = n
      <4>1. f[d][n].sent => f[d][n].kind # "recovery"
        BY DEF Over, ClaimsAreSound
      <4> QED
        BY <2>1, <2>7, <2>10, <3>1, <3>2, <4>1 DEF Attempts
    <3>3. CASE ~(e = d /\ m = n) /\ f[e][m] = claim[e][m]
      BY <2>10, <3>1, <3>3 DEF ClaimsAreSound
    <3>4. CASE ~(e = d /\ m = n) /\ f[e][m] # claim[e][m]
      <4>1. claim[e][m].pc \in Live
        BY <3>4 DEF Moves
      <4>2. claim[e][m] # NoClaim /\ log[e][m] \notin Verdict
        BY <4>1 DEF Live, NoClaim, ClaimsAreSound
      <4>3. ~(m > delivery[e].attempts)
        BY <4>2 DEF ClaimsAreSound
      <4> QED
        BY <2>10, <3>1, <3>4, <4>2, <4>3 DEF Moves
    <3> QED
      BY <3>2, <3>3, <3>4
  <2>14. ReplaysAreMarked'
    <3>1. replays[d] > 0 => v # "retry_wait"
      <4>1. claim[d][n].replay = replays[d]
        BY <2>1 DEF ClaimsKnowTheirReplay
      <4> QED
        BY <2>8, <4>1 DEF ClaimsKnowTheirReplay
    <3> QED
      BY <2>1, <2>2, <2>10, <3>1 DEF ReplaysAreMarked, Verdict
  <2>15. \A e \in Deliveries, m \in Attempts :
           /\ f[e][m].replay = claim[e][m].replay /\ f[e][m].kind = claim[e][m].kind
           /\ f[e][m].pc # "none" => claim[e][m].pc # "none"
    BY DEF Moves, Live
  <2>16. ClaimsKnowTheirReplay' /\ OneIsManual'
    <3>1. ASSUME NEW e \in Deliveries
          PROVE  /\ delivery'[e].state = "pending" => delivery[e].state = "pending"
                 /\ delivery'[e].state = "in_flight" => delivery[e].state = "in_flight"
                 /\ delivery'[e].attempts = delivery[e].attempts
      BY <2>1, <2>2, <2>6, <2>10
    <3>2. ClaimsKnowTheirReplay'
      BY <2>15, <3>1 DEF ClaimsKnowTheirReplay
    <3> QED
      BY <2>15, <3>2 DEF OneIsManual
  <2>17. WindowIsCounted'
    <3>1. ASSUME NEW e \in Deliveries, NEW m \in Attempts,
                 f[e][m].pc \in Live, f[e][m].kind = "automatic"
          PROVE  f[e][m].age = since[e]
      BY <3>1 DEF Moves, Live, WindowIsCounted
    <3> QED
      BY <2>2, <2>10, <3>1 DEF WindowIsCounted
  <2> QED
    BY <2>9, <2>11, <2>12, <2>13, <2>14, <2>16, <2>17
<1> QED
  BY <1>1, <1>2

LEMMA CompleteKeeps ==
  ASSUME DeliveryInv, NEW d \in Deliveries, NEW n \in Attempts, Complete(d, n)
  PROVE  DeliveryInv'
<1> DEFINE f == [claim EXCEPT ![d][n] = Over(claim[d][n])]
<1>1. claim[d][n] \in Claim /\ claim[d][n].pc = "finishing"
  BY DEF DeliveryInv, TypeOK, Complete
<1>2. Over(claim[d][n]) \in Claim /\ Moves(claim[d][n], Over(claim[d][n]))
  BY <1>1, OverMoves DEF Live, DeliveryInv, ClaimsAreSound
<1>3. \A e \in Deliveries, m \in Attempts :
        f[e][m] = IF e = d /\ m = n THEN Over(claim[d][n]) ELSE claim[e][m]
  BY DEF DeliveryInv, TypeOK
<1>4. f \in [Deliveries -> [Attempts -> Claim]]
  BY <1>2 DEF DeliveryInv, TypeOK
<1>5. claim' = f /\ Record(d, n) /\ UNCHANGED <<replays, since>>
  BY DEF Complete, SetClaim
<1> HIDE DEF f
<1>6. \A e \in Deliveries, m \in Attempts : Moves(claim[e][m], f[e][m])
  BY <1>2, <1>3 DEF Moves
<1> QED
  BY <1>1, <1>3, <1>4, <1>5, <1>6, RecordKeeps

LEMMA CompleteThrowsKeeps ==
  ASSUME DeliveryInv, NEW d \in Deliveries, NEW n \in Attempts, CompleteThrows(d, n)
  PROVE  DeliveryInv'
<1> DEFINE f == [e \in Deliveries |-> [m \in Attempts |->
                   IF \/ e = d /\ m = n
                      \/ claim[e][m].pc = "queued" /\ claim[e][m].worker = claim[d][n].worker
                   THEN Over(claim[e][m]) ELSE claim[e][m]]]
<1>1. claim[d][n].pc = "finishing"
  BY DEF CompleteThrows
<1>2. ASSUME NEW e \in Deliveries, NEW m \in Attempts
      PROVE  f[e][m] \in Claim /\ Moves(claim[e][m], f[e][m])
  <2>1. claim[e][m] \in Claim /\ (claim[e][m].sent => claim[e][m].kind # "recovery")
    BY DEF DeliveryInv, TypeOK, ClaimsAreSound
  <2>2. claim[e][m].pc \in Live => Over(claim[e][m]) \in Claim /\ Moves(claim[e][m], Over(claim[e][m]))
    BY <2>1, OverMoves
  <2> QED
    BY <1>1, <2>1, <2>2 DEF Live, Moves
<1>3. f \in [Deliveries -> [Attempts -> Claim]]
  BY <1>2
<1>4. f[d][n] = Over(claim[d][n])
  OBVIOUS
<1>5. /\ claim' = f /\ UNCHANGED <<replays, since>>
      /\ Record(d, n) \/ UNCHANGED <<delivery, log>>
  BY DEF CompleteThrows
<1> HIDE DEF f
<1>6. CASE Record(d, n)
  BY <1>1, <1>2, <1>3, <1>4, <1>5, <1>6, RecordKeeps
<1>7. CASE UNCHANGED <<delivery, log>>
  BY <1>2, <1>3, <1>5, <1>7, MovesKeep
<1> QED
  BY <1>5, <1>6, <1>7

-----------------------------------------------------------------------------
(* Time passes. *)

LEMMA TickKeeps == ASSUME DeliveryInv, Tick PROVE DeliveryInv'
<1> USE ConstantsAssumption DEF DeliveryInv
<1> DEFINE g == [d \in Deliveries |->
                   [delivery[d] EXCEPT !.age = Later(delivery[d].age),
                                       !.wait = Sooner(delivery[d].wait),
                                       !.left = Sooner(delivery[d].left)]]
           f == [d \in Deliveries |-> [n \in Attempts |->
                   IF claim[d][n].pc \in {"none", "over"} THEN claim[d][n]
                   ELSE [claim[d][n] EXCEPT !.age = Later(claim[d][n].age),
                                            !.wait = Sooner(claim[d][n].wait)]]]
           t == [d \in Deliveries |-> Later(since[d])]
<1>1. delivery' = g /\ claim' = f /\ since' = t /\ UNCHANGED <<log, replays>>
  BY DEF Tick
<1>2. /\ \A age \in Unset..Window : Later(age) \in Unset..Window
      /\ \A age \in 0..Window : Later(age) \in 0..Window
      /\ \A k \in Nat : \A ticks \in 0..k : Sooner(ticks) \in 0..k
  BY DEF Later, Sooner, Unset
<1>3. ASSUME NEW d \in Deliveries
      PROVE  /\ g[d] \in Delivery
             /\ g[d].state = delivery[d].state /\ g[d].attempts = delivery[d].attempts
             /\ g[d].token = delivery[d].token /\ g[d].marked = delivery[d].marked
             /\ g[d].age = Later(delivery[d].age)
             /\ g[d].age = Unset <=> delivery[d].age = Unset
  <2> DEFINE a == Later(delivery[d].age)
             w == Sooner(delivery[d].wait)
             k == Sooner(delivery[d].left)
  <2>1. delivery[d] \in Delivery
    BY DEF TypeOK
  <2>2. delivery[d].age \in Unset..Window
    BY <2>1 DEF Delivery
  <2>3. a \in Unset..Window /\ w \in 0..MaxDelay /\ k \in 0..LeaseTicks
    BY <1>2, <2>1 DEF Delivery
  <2>4. a = Unset <=> delivery[d].age = Unset
    BY <2>2 DEF Later, Unset
  <2>5. g[d] = [delivery[d] EXCEPT !.age = a, !.wait = w, !.left = k]
    OBVIOUS
  <2> HIDE DEF a, w, k, g
  <2>6. g[d] \in Delivery
    BY <2>1, <2>3, <2>5 DEF Delivery
  <2>7. /\ g[d].state = delivery[d].state /\ g[d].attempts = delivery[d].attempts
        /\ g[d].token = delivery[d].token /\ g[d].marked = delivery[d].marked
        /\ g[d].age = a
    BY <2>1, <2>5 DEF Delivery
  <2> QED
    BY <2>4, <2>6, <2>7 DEF a
<1>4. ASSUME NEW d \in Deliveries, NEW n \in Attempts, claim[d][n].pc \notin {"none", "over"}
      PROVE  /\ f[d][n] \in Claim
             /\ f[d][n].pc = claim[d][n].pc /\ f[d][n].worker = claim[d][n].worker
             /\ f[d][n].kind = claim[d][n].kind /\ f[d][n].replay = claim[d][n].replay
             /\ f[d][n].sent = claim[d][n].sent /\ f[d][n].verdict = claim[d][n].verdict
             /\ f[d][n].age = Later(claim[d][n].age)
  <2> DEFINE a == Later(claim[d][n].age)
             w == Sooner(claim[d][n].wait)
  <2>1. claim[d][n] \in Claim
    BY DEF TypeOK
  <2>2. a \in 0..Window /\ w \in 0..MaxDelay
    BY <1>2, <2>1 DEF Claim
  <2>3. f[d][n] = [claim[d][n] EXCEPT !.age = a, !.wait = w]
    BY <1>4
  <2> HIDE DEF a, w, f
  <2>4. f[d][n] \in Claim
    BY <2>1, <2>2, <2>3 DEF Claim
  <2>5. /\ f[d][n].pc = claim[d][n].pc /\ f[d][n].worker = claim[d][n].worker
        /\ f[d][n].kind = claim[d][n].kind /\ f[d][n].replay = claim[d][n].replay
        /\ f[d][n].sent = claim[d][n].sent /\ f[d][n].verdict = claim[d][n].verdict
        /\ f[d][n].age = a
    BY <2>1, <2>3 DEF Claim
  <2> QED
    BY <2>4, <2>5 DEF a
<1>5. ASSUME NEW d \in Deliveries, NEW n \in Attempts, claim[d][n].pc \in {"none", "over"}
      PROVE  f[d][n] = claim[d][n]
  BY <1>5
<1>6. \A d \in Deliveries : t[d] = Later(since[d])
  OBVIOUS
<1> HIDE DEF g, f, t
<1>7. ASSUME NEW d \in Deliveries, NEW n \in Attempts
      PROVE  /\ f[d][n] \in Claim
             /\ f[d][n].pc = claim[d][n].pc /\ f[d][n].worker = claim[d][n].worker
             /\ f[d][n].kind = claim[d][n].kind /\ f[d][n].replay = claim[d][n].replay
             /\ f[d][n].sent = claim[d][n].sent /\ f[d][n].verdict = claim[d][n].verdict
             /\ claim[d][n].pc \in {"none", "over"} => f[d][n] = claim[d][n]
  <2>1. claim[d][n] \in Claim
    BY DEF TypeOK
  <2> QED
    BY <1>4, <1>5, <2>1
<1>8. TypeOK'
  <2>1. g \in [Deliveries -> Delivery]
    BY <1>3 DEF g
  <2>2. f \in [Deliveries -> [Attempts -> Claim]]
    BY <1>7 DEF f
  <2>3. t \in [Deliveries -> Unset..Window]
    BY <1>2 DEF t, TypeOK
  <2> QED
    BY <1>1, <2>1, <2>2, <2>3 DEF TypeOK
<1>9. LogAgreesWithRow' /\ TokenIsLast'
  BY <1>1, <1>3 DEF LogAgreesWithRow, TokenIsLast
<1>10. ClaimsAreSound'
  <2> SUFFICES ASSUME NEW d \in Deliveries, NEW n \in Attempts
               PROVE  (/\ n > g[d].attempts => f[d][n] = NoClaim
                       /\ f[d][n].pc = "none" => f[d][n] = NoClaim
                       /\ f[d][n].pc = "over" => f[d][n].worker = NoWorker
                       /\ f[d][n].sent => f[d][n].kind # "recovery"
                       /\ f[d][n].pc = "finishing" =>
                            /\ f[d][n].verdict \in Verdict
                            /\ f[d][n].verdict = "retry_wait" => f[d][n].kind = "automatic"
                       /\ log[d][n] \in Verdict =>
                            f[d][n].pc = "over" /\ log[d][n] = f[d][n].verdict)
    BY <1>1 DEF ClaimsAreSound
  <2>1. NoClaim.pc = "none"
    BY DEF NoClaim
  <2> QED
    BY <1>3, <1>7, <2>1 DEF ClaimsAreSound
<1>11. ReplaysAreMarked'
  BY <1>1, <1>3 DEF ReplaysAreMarked
<1>12. ClaimsKnowTheirReplay' /\ OneIsManual'
  BY <1>1, <1>3, <1>7 DEF ClaimsKnowTheirReplay, OneIsManual
<1>13. WindowIsCounted'
  <2>1. ASSUME NEW d \in Deliveries, NEW n \in Attempts,
               f[d][n].pc \in Live, f[d][n].kind = "automatic"
        PROVE  f[d][n].age = t[d]
    BY <1>4, <1>6, <1>7, <2>1 DEF Live, WindowIsCounted
  <2> QED
    BY <1>1, <1>3, <1>6, <2>1 DEF WindowIsCounted
<1> QED
  BY <1>8, <1>9, <1>10, <1>11, <1>12, <1>13

LEMMA DeliveryStep == DeliveryInv /\ [Next]_vars => DeliveryInv'
<1> SUFFICES ASSUME DeliveryInv, [Next]_vars PROVE DeliveryInv'
  OBVIOUS
<1>1. CASE Tick
  BY <1>1, TickKeeps
<1>2. ASSUME NEW d \in Deliveries, Enqueue(d) \/ Replay(d) PROVE DeliveryInv'
  BY <1>2, EnqueueKeeps, ReplayKeeps
<1>3. ASSUME NEW w \in Workers, Crash(w) PROVE DeliveryInv'
  BY <1>3, CrashKeeps
<1>4. ASSUME NEW S \in SUBSET Deliveries, ClaimReplyLost(S) PROVE DeliveryInv'
  BY <1>4, ClaimReplyLostKeeps
<1>5. ASSUME NEW S \in SUBSET Deliveries, NEW w \in Workers, ClaimBatch(w, S)
      PROVE  DeliveryInv'
  BY <1>5, ClaimBatchKeeps
<1>6. ASSUME NEW d \in Deliveries, NEW n \in Attempts, Deliver(d, n) PROVE DeliveryInv'
  BY <1>6, RefuseKeeps, SendKeeps, AnswerKeeps, CompleteKeeps, CompleteThrowsKeeps DEF Deliver
<1>7. CASE UNCHANGED vars
  BY <1>7 DEF vars, DeliveryInv, TypeOK, LogAgreesWithRow, TokenIsLast, ClaimsAreSound,
     ReplaysAreMarked, ClaimsKnowTheirReplay, OneIsManual, WindowIsCounted
<1> QED
  BY <1>1, <1>2, <1>3, <1>4, <1>5, <1>6, <1>7 DEF Next

LEMMA DeliveryInvariance == Spec => []DeliveryInv
<1> QED
  BY DeliveryInit, DeliveryStep, PTL DEF Spec

-----------------------------------------------------------------------------
(* What the deliveries keep, whatever the workers, the clock and the        *)
(* operators do.                                                            *)

(* The rows, the log, the claims in memory and the histories have their     *)
(* types.                                                                   *)
THEOREM DeliveryTypes == Spec => []TypeOK
<1> QED
  BY DeliveryInvariance, PTL DEF DeliveryInv

(* The log of a delivery always agrees with its row (claimDueDeliveries and *)
(* completeDelivery write both).                                            *)
THEOREM LogFollowsRow == Spec => []LogAgreesWithRow
<1> QED
  BY DeliveryInvariance, PTL DEF DeliveryInv

(* The recorded outcome of an attempt is the one its own claim came to: the *)
(* lease token fences late answers.                                         *)
THEOREM OutcomesAreTheirOwn == Spec => []OutcomeIsItsOwn
<1>1. DeliveryInv => OutcomeIsItsOwn
  BY DEF DeliveryInv, ClaimsAreSound, OutcomeIsItsOwn
<1> QED
  BY <1>1, DeliveryInvariance, PTL

(* A replay that an operator asks for (replayDelivery) is sent at most      *)
(* once, whatever dies, expires or is claimed again.                        *)
THEOREM ReplaysAreSentOnce == Spec => []ReplaySendsOnce
<1>1. DeliveryInv => ReplaySendsOnce
  <2> SUFFICES ASSUME DeliveryInv, NEW d \in Deliveries, NEW m \in Attempts, NEW n \in Attempts,
                      claim[d][m].sent, claim[d][n].sent,
                      claim[d][m].replay = claim[d][n].replay, claim[d][m].replay > 0
               PROVE  m = n
    BY DEF ReplaySendsOnce
  <2>1. ASSUME NEW k \in Attempts, claim[d][k].sent, claim[d][k].replay > 0
        PROVE  claim[d][k].kind = "manual"
    <3>1. claim[d][k].kind \in {"automatic", "manual", "recovery"}
      BY DEF DeliveryInv, TypeOK, Claim
    <3> QED
      BY <2>1, <3>1 DEF DeliveryInv, ClaimsAreSound, ClaimsKnowTheirReplay
  <2> QED
    BY <2>1 DEF DeliveryInv, OneIsManual
<1> QED
  BY <1>1, DeliveryInvariance, PTL

(* No automatic request leaves after the window (canAutomaticallySend).     *)
THEOREM WindowIsKept == Spec => NoAutomaticSendAfterWindow
<1> DEFINE A == \A d \in Deliveries, n \in Attempts :
                  claim'[d][n].sent /\ ~claim[d][n].sent /\ claim[d][n].kind = "automatic" =>
                    since[d] < Window
<1>1. DeliveryInv /\ [Next]_vars => [A]_vars
  <2> SUFFICES ASSUME DeliveryInv, Next, NEW d \in Deliveries, NEW n \in Attempts,
                      claim'[d][n].sent, ~claim[d][n].sent, claim[d][n].kind = "automatic"
               PROVE  since[d] < Window
    OBVIOUS
  <2>1. claim \in [Deliveries -> [Attempts -> Claim]]
    BY DEF DeliveryInv, TypeOK
  <2>2. ASSUME NEW e \in Deliveries, NEW m \in Attempts, Send(e, m)
        PROVE  since[d] < Window
    <3>1. e = d /\ m = n
      BY <2>1, <2>2 DEF Send, SetClaim
    <3>2. claim[d][n].pc = "queued" /\ claim[d][n].age < Window
      BY <2>2, <3>1 DEF Send, TakeUp, MaySend, CanAutomaticallySend
    <3>3. claim[d][n].age = since[d]
      BY <3>2 DEF DeliveryInv, WindowIsCounted, Live
    <3> QED
      BY <3>2, <3>3
  <2>3. ASSUME NEW e \in Deliveries, NEW m \in Attempts, Refuse(e, m) \/ Answer(e, m)
        PROVE  FALSE
    <3>1. PICK v \in Verdict, wait \in Int :
            claim' = [claim EXCEPT ![e][m] = Finishing(claim[e][m], v, wait)]
      BY <2>3 DEF Refuse, Answer, SetClaim, Verdict
    <3>2. Finishing(claim[e][m], v, wait).sent = claim[e][m].sent
      BY DEF Finishing
    <3> QED
      BY <2>1, <3>1, <3>2
  <2>4. ASSUME NEW e \in Deliveries, NEW m \in Attempts, Complete(e, m) \/ CompleteThrows(e, m)
        PROVE  FALSE
    <3>1. claim'[d][n] = claim[d][n] \/ claim'[d][n] = Over(claim[d][n])
      BY <2>1, <2>4 DEF Complete, CompleteThrows, SetClaim
    <3>2. Over(claim[d][n]).sent = claim[d][n].sent
      BY DEF Over
    <3> QED
      BY <3>1, <3>2
  <2>5. ASSUME NEW w \in Workers, Crash(w) PROVE FALSE
    <3>1. claim'[d][n] = claim[d][n] \/ claim'[d][n] = Over(claim[d][n])
      BY <2>5 DEF Crash
    <3>2. Over(claim[d][n]).sent = claim[d][n].sent
      BY DEF Over
    <3> QED
      BY <3>1, <3>2
  <2>6. ASSUME NEW S \in SUBSET Deliveries, NEW w \in Workers, ClaimBatch(w, S) PROVE FALSE
    <3>1. claim'[d][n] = claim[d][n] \/ claim'[d][n] = NewClaim(w, d)
      BY <2>1, <2>6 DEF ClaimBatch
    <3>2. ~NewClaim(w, d).sent
      BY DEF NewClaim
    <3> QED
      BY <3>1, <3>2
  <2>7. ASSUME Tick PROVE FALSE
    <3> DEFINE a == Later(claim[d][n].age)
               w == Sooner(claim[d][n].wait)
    <3>1. \/ claim'[d][n] = claim[d][n]
          \/ claim'[d][n] = [claim[d][n] EXCEPT !.age = a, !.wait = w]
      BY <2>7 DEF Tick
    <3> HIDE DEF a, w
    <3>2. [claim[d][n] EXCEPT !.age = a, !.wait = w].sent = claim[d][n].sent
      BY <2>1 DEF Claim
    <3> QED
      BY <3>1, <3>2
  <2>8. \A S \in SUBSET Deliveries : ~ClaimReplyLost(S)
    BY DEF ClaimReplyLost
  <2>9. \A e \in Deliveries : ~(Enqueue(e) \/ Replay(e))
    BY DEF Enqueue, Replay
  <2> QED
    BY <2>2, <2>3, <2>4, <2>5, <2>6, <2>7, <2>8, <2>9 DEF Next, Deliver
<1> QED
  BY <1>1, DeliveryInvariance, PTL DEF Spec, NoAutomaticSendAfterWindow

-----------------------------------------------------------------------------
(* The tables implement AttemptLog. *)

(* A claim, whether its reply arrives or not, opens the next attempts.      *)
LEMMA ClaimIsOpen ==
  ASSUME DeliveryInv, NEW S \in SUBSET Deliveries, Batch(S), ClaimRows(S)
  PROVE  \E next \in [S -> Attempts] : Abstract!Open(S, next)
<1> DEFINE next == [d \in S |-> delivery[d].attempts + 1]
<1>1. ASSUME NEW d \in S
      PROVE  /\ delivery[d].attempts \in Nat /\ delivery[d].attempts + 1 \in Attempts
             /\ Due(delivery[d])
  <2>1. delivery[d].attempts \in 0..MaxAttempts
    BY DEF DeliveryInv, TypeOK, Delivery
  <2>2. delivery[d].attempts < MaxAttempts /\ Due(delivery[d])
    BY DEF Batch
  <2> QED
    BY <2>1, <2>2, ConstantsAssumption DEF Attempts
<1>2. next \in [S -> Attempts] /\ \A d \in S : next[d] = delivery[d].attempts + 1
  BY <1>1
<1> HIDE DEF next
<1>3. ASSUME NEW d \in S PROVE log[d][next[d]] = "none" /\ Abstract!MayFollow(d, next[d])
  <2>1. log[d][next[d]] = "none"
    BY <1>1, <1>2 DEF DeliveryInv, LogAgreesWithRow
  <2>2. CASE delivery[d].attempts = 0
    BY <1>2, <2>1, <2>2 DEF Abstract!MayFollow
  <2>3. CASE delivery[d].attempts # 0
    <3>1. next[d] - 1 = delivery[d].attempts /\ next[d] - 1 \in Attempts
      <4>1. next[d] = delivery[d].attempts + 1
        BY <1>2
      <4> QED
        BY <1>1, <2>3, <4>1, ConstantsAssumption DEF Attempts
    <3>2. log[d][delivery[d].attempts] # "none"
      BY <1>1, <3>1 DEF DeliveryInv, LogAgreesWithRow
    <3>3. CASE delivery[d].state = "pending"
      <4>1. Wanted[d] = 1
        BY <1>1, <2>3, <3>3 DEF Wanted
      <4> QED
        BY <2>1, <3>1, <3>2, <4>1 DEF Abstract!MayFollow
    <3>4. CASE delivery[d].state \in {"retry_wait", "in_flight"}
      <4>1. log[d][delivery[d].attempts] \in {"open", "retry_wait"}
        BY <3>4 DEF DeliveryInv, LogAgreesWithRow, Verdict
      <4> QED
        BY <2>1, <3>1, <4>1 DEF Abstract!MayFollow
    <3> QED
      BY <1>1, <3>3, <3>4 DEF Due
  <2> QED
    BY <2>1, <2>2, <2>3
<1>4. log' = [d \in Deliveries |-> [m \in Attempts |->
                IF d \in S /\ m = next[d] THEN "open"
                ELSE IF d \in S /\ m = next[d] - 1 /\ log[d][m] = "open" THEN "abandoned"
                ELSE log[d][m]]]
  <2> DEFINE new(d) == [m \in Attempts |->
                IF d \in S /\ m = next[d] THEN "open"
                ELSE IF d \in S /\ m = next[d] - 1 /\ log[d][m] = "open" THEN "abandoned"
                ELSE log[d][m]]
  <2>1. ASSUME NEW d \in S PROVE LogClaimed(d) = new(d)
    <3>1. next[d] - 1 = delivery[d].attempts /\ next[d] = delivery[d].attempts + 1
      BY <1>1, <1>2
    <3> QED
      BY <3>1 DEF LogClaimed
  <2>2. ASSUME NEW d \in Deliveries, d \notin S PROVE log[d] = new(d)
    BY <2>2 DEF DeliveryInv, TypeOK
  <2>3. log' = [d \in Deliveries |-> IF d \in S THEN LogClaimed(d) ELSE log[d]]
    BY DEF ClaimRows
  <2> HIDE DEF new
  <2>4. log' = [d \in Deliveries |-> new(d)]
    BY <2>1, <2>2, <2>3
  <2> QED
    BY <2>4 DEF new
<1>5. Wanted' = [d \in Deliveries |-> IF d \in S THEN 0 ELSE Wanted[d]]
  <2>1. ASSUME NEW d \in Deliveries
        PROVE  delivery'[d] = IF d \in S THEN Claimed(delivery[d]) ELSE delivery[d]
    BY DEF ClaimRows
  <2>2. ASSUME NEW d \in S PROVE delivery'[d].state = "in_flight"
    <3>1. Claimed(delivery[d]).state = "in_flight"
      BY DEF Claimed
    <3> QED
      BY <2>1, <3>1
  <2> QED
    BY <2>1, <2>2 DEF Wanted
<1> QED
  BY <1>2, <1>3, <1>4, <1>5 DEF Abstract!Open

LEMMA RecordIsClose ==
  ASSUME DeliveryInv, NEW d \in Deliveries, NEW n \in Attempts,
         claim[d][n].pc = "finishing", Record(d, n)
  PROVE  \/ \E verdict \in Verdict : Abstract!Close(d, n, verdict)
         \/ UNCHANGED <<log, Wanted>>
<1>1. CASE ~Fenced(d, n)
  BY <1>1 DEF Record, Wanted
<1>2. CASE Fenced(d, n)
  <2> DEFINE v == claim[d][n].verdict
             l == [m \in Attempts |->
                     IF m = delivery[d].attempts /\ log[d][m] = "open" THEN v ELSE log[d][m]]
  <2>1. /\ delivery[d].state = "in_flight" /\ delivery[d].attempts = n
        /\ log[d][n] = "open" /\ v \in Verdict
    BY <1>2 DEF Fenced, DeliveryInv, TypeOK, TokenIsLast, LogAgreesWithRow, ClaimsAreSound
  <2>2. log' = [log EXCEPT ![d] = l]
    BY <1>2 DEF Record
  <2>3. log[d] \in [Attempts -> Outcome]
    BY DEF DeliveryInv, TypeOK
  <2>4. l = [log[d] EXCEPT ![n] = v]
    BY <2>1, <2>3
  <2>5. log' = [log EXCEPT ![d][n] = v]
    BY <2>2, <2>4
  <2>6. /\ delivery' = [delivery EXCEPT ![d] = Completed(delivery[d], claim[d][n])]
        /\ Completed(delivery[d], claim[d][n]).state = v
        /\ delivery \in [Deliveries -> Delivery]
    BY <1>2 DEF Record, Completed, DeliveryInv, TypeOK
  <2> HIDE DEF v, l
  <2>7. \A e \in Deliveries : delivery'[e] = delivery[e]
          \/ (e = d /\ delivery'[e].state \in Verdict /\ delivery[e].state = "in_flight")
    BY <2>1, <2>6
  <2>8. UNCHANGED Wanted
    BY <2>7 DEF Wanted, Verdict
  <2> QED
    BY <2>1, <2>5, <2>8 DEF Abstract!Close
<1> QED
  BY <1>1, <1>2

LEMMA ReplayIsReplay ==
  ASSUME DeliveryInv, NEW d \in Deliveries, Replay(d)
  PROVE  \E n \in Attempts : Abstract!Replay(d, n)
<1> DEFINE n == delivery[d].attempts
<1>1. /\ n \in Attempts /\ log[d][n] = delivery[d].state /\ log[d][n] \in Verdict
      /\ delivery[d].state # "pending"
  BY DEF Replay, Replayable, DeliveryInv, LogAgreesWithRow, Verdict
<1>2. Abstract!Last(d, n)
  BY <1>1 DEF Abstract!Last, DeliveryInv, LogAgreesWithRow, Attempts, Verdict
<1>3. Wanted[d] = 0
  BY <1>1 DEF Wanted
<1>4. /\ delivery' = [delivery EXCEPT ![d] = Replayed(delivery[d])]
      /\ Replayed(delivery[d]).state = "pending" /\ Replayed(delivery[d]).attempts = n
      /\ delivery \in [Deliveries -> Delivery] /\ UNCHANGED log
  BY DEF Replay, Replayed, DeliveryInv, TypeOK
<1>5. Wanted' = [Wanted EXCEPT ![d] = 1]
  <2>1. delivery'[d].state = "pending" /\ delivery'[d].attempts > 0
    BY <1>1, <1>4 DEF Attempts
  <2>2. \A e \in Deliveries : e # d => delivery'[e] = delivery[e]
    BY <1>4
  <2> HIDE DEF n
  <2> QED
    BY <2>1, <2>2 DEF Wanted
<1> QED
  BY <1>1, <1>2, <1>3, <1>4, <1>5 DEF Abstract!Replay, Verdict, Abstract!Verdict

LEMMA StepIsOfTheLog ==
  DeliveryInv /\ [Next]_vars => [Abstract!Next]_(Abstract!vars)
<1> SUFFICES ASSUME DeliveryInv, [Next]_vars
             PROVE  Abstract!Next \/ UNCHANGED <<log, Wanted>>
  BY DEF Abstract!vars
<1> USE DEF Abstract!Next
<1>1. CASE UNCHANGED vars
  BY <1>1 DEF vars, Wanted
<1>2. CASE Tick
  <2>1. \A d \in Deliveries : delivery'[d].state = delivery[d].state
                              /\ delivery'[d].attempts = delivery[d].attempts
    BY <1>2 DEF Tick, DeliveryInv, TypeOK, Delivery
  <2> QED
    BY <1>2, <2>1 DEF Tick, Wanted
<1>3. ASSUME NEW d \in Deliveries, Enqueue(d) PROVE UNCHANGED <<log, Wanted>>
  <2>1. delivery[d].attempts = 0
    BY <1>3 DEF Enqueue, DeliveryInv, TokenIsLast
  <2>2. \A e \in Deliveries : delivery'[e].attempts = delivery[e].attempts
                              /\ (e # d => delivery'[e].state = delivery[e].state)
    BY <1>3 DEF Enqueue, DeliveryInv, TypeOK, Delivery
  <2> QED
    BY <1>3, <2>1, <2>2 DEF Enqueue, Wanted
<1>4. ASSUME NEW d \in Deliveries, Replay(d) PROVE Abstract!Next
  BY <1>4, ReplayIsReplay
<1>5. ASSUME NEW w \in Workers, Crash(w) PROVE UNCHANGED <<log, Wanted>>
  BY <1>5 DEF Crash, Wanted
<1>6. ASSUME NEW S \in SUBSET Deliveries,
             ClaimReplyLost(S) \/ \E w \in Workers : ClaimBatch(w, S)
      PROVE  Abstract!Next
  BY <1>6, ClaimIsOpen DEF ClaimReplyLost, ClaimBatch
<1>7. ASSUME NEW d \in Deliveries, NEW n \in Attempts, Deliver(d, n)
      PROVE  Abstract!Next \/ UNCHANGED <<log, Wanted>>
  <2>1. CASE Refuse(d, n) \/ Send(d, n) \/ Answer(d, n)
    BY <2>1 DEF Refuse, Send, Answer, Wanted
  <2>2. CASE Complete(d, n) \/ CompleteThrows(d, n)
    <3>1. claim[d][n].pc = "finishing" /\ (Record(d, n) \/ UNCHANGED <<delivery, log>>)
      BY <2>2 DEF Complete, CompleteThrows
    <3>2. CASE Record(d, n)
      <4>1. Verdict = Abstract!Verdict
        BY DEF Verdict, Abstract!Verdict
      <4> QED
        BY <3>1, <3>2, <4>1, RecordIsClose
    <3>3. CASE UNCHANGED <<delivery, log>>
      BY <3>3 DEF Wanted
    <3> QED
      BY <3>1, <3>2, <3>3
  <2> QED
    BY <1>7, <2>1, <2>2 DEF Deliver
<1> QED
  BY <1>1, <1>2, <1>3, <1>4, <1>5, <1>6, <1>7 DEF Next

(* webhook_deliveries and webhook_delivery_attempts implement the log that  *)
(* AttemptLog promises: attempts one after the other, each closed once, and *)
(* none after a settled one unless an operator asks.                        *)
THEOREM TablesImplementAttemptLog == Spec => ImplementsAttemptLog
<1>1. Init => Abstract!Init
  <2> SUFFICES ASSUME Init PROVE Abstract!Init
    OBVIOUS
  <2>1. Wanted = [d \in Deliveries |-> 0]
    BY DEF Init, Wanted, FreshDelivery
  <2> QED
    BY <2>1 DEF Init, Abstract!Init
<1> QED
  BY <1>1, StepIsOfTheLog, DeliveryInvariance, PTL
     DEF Spec, ImplementsAttemptLog, Abstract!Spec
=============================================================================
