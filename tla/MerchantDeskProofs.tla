------------------------- MODULE MerchantDeskProofs -------------------------
(***************************************************************************)
(* Proofs about what a merchant sees of his payments (ExceptionDesk, Books *)
(* and WebhookExchange), for any operators, cases, pages, sources of       *)
(* entries, secrets and attempts.                                          *)
(***************************************************************************)
EXTENDS ExceptionDesk, Books, WebhookExchange, TLAPS, FiniteSetTheorems,
        WellFoundedInduction

-----------------------------------------------------------------------------
(* WebhookExchange. *)

Send ==
  [pc : {"idle", "claimed", "resolving", "requesting", "reading", "over"},
   secret : Secrets \cup {NoSecret}, turns : 0..2,
   outcome : {"none", "succeeded", "retry", "dead"}]

Request ==
  [at : {"none", "sent", "applying", "waiting", "answered", "lost"},
   status : {0, 204, 400, 500}]

ExchangeTypeOK ==
  /\ endpoint \in [secret : Secrets \cup {NoSecret}, previous : Secrets \cup {NoSecret}]
  /\ send \in [Sends -> Send]
  /\ request \in [Sends -> Request]
  /\ receiver \in [secrets : SUBSET Secrets, processed : BOOLEAN,
                   active : SUBSET Sends, acts : Nat]
  /\ acted \in BOOLEAN

(* The receiver is at the requests it says it is, one at a time, and only   *)
(* while the event was not applied.                                         *)
OneIsApplied ==
  /\ \A n \in Sends : request[n].at = "applying" <=> n \in receiver.active
  /\ \A n, m \in receiver.active : n = m
  /\ receiver.active # {} => ~receiver.processed
  /\ receiver.acts = (IF receiver.processed THEN 1 ELSE 0)

(* What the receiver remembers and what it acknowledged was applied. *)
ToldTruly ==
  /\ receiver.processed => acted
  /\ \A n \in Sends :
       /\ request[n].status = 204 => acted
       /\ send[n].outcome = "succeeded" => acted

(* The secret of an attempt is the one the endpoint had when it was claimed, *)
(* and its request leaves once.                                             *)
ClaimedFairly ==
  \A n \in Sends :
    /\ IF send[n].pc = "idle" THEN send[n] = Unsent
       ELSE /\ endpoint # NoEndpoint
            /\ send[n].turns = 0 => send[n].secret = endpoint.secret
            /\ send[n].turns = 1 => send[n].secret = endpoint.previous
    /\ send[n].pc \in {"idle", "claimed", "resolving"} => request[n] = NoRequest

ExchangeInv == ExchangeTypeOK /\ OneIsApplied /\ ToldTruly /\ ClaimedFairly

LEMMA ExchangeInitInv == ExchangeInit => ExchangeInv
<1> SUFFICES ASSUME ExchangeInit PROVE ExchangeInv
  OBVIOUS
<1>1. PICK S \in SecretPairs : receiver = NewReceiver(S)
  BY DEF ExchangeInit
<1>2. S \subseteq Secrets
  BY DEF SecretPairs
<1>3. Unsent \in Send /\ NoRequest \in Request
  BY DEF Unsent, NoRequest, Send, Request
<1>4. ExchangeTypeOK
  BY <1>1, <1>2, <1>3 DEF ExchangeInit, ExchangeTypeOK, NoEndpoint, NewReceiver
<1>5. OneIsApplied /\ ToldTruly /\ ClaimedFairly
  BY <1>1 DEF ExchangeInit, OneIsApplied, ToldTruly, ClaimedFairly, NewReceiver,
              NoRequest, Unsent
<1> QED
  BY <1>4, <1>5 DEF ExchangeInv

(* A step of an attempt after it was claimed. *)
LEMMA SenderKeeps ==
  ASSUME ExchangeInv, NEW n \in Sends, NEW s \in Send,
         send' = [send EXCEPT ![n] = s], s.pc # "idle", send[n].pc # "idle",
         s.secret = send[n].secret /\ s.turns = send[n].turns,
         s.outcome = "succeeded" => acted,
         UNCHANGED <<endpoint, receiver, acted>>,
         \/ /\ request' = request
            /\ s.pc \in {"claimed", "resolving"} =>
                 send[n].pc \in {"claimed", "resolving"}
         \/ /\ request' = [request EXCEPT ![n].at = "sent"]
            /\ send[n].pc = "resolving" /\ s.pc = "requesting"
  PROVE  ExchangeInv'
<1> USE DEF ExchangeInv
<1>1. ExchangeTypeOK'
  BY DEF ExchangeTypeOK, Request
<1>2. OneIsApplied'
  BY DEF OneIsApplied, ExchangeTypeOK, ClaimedFairly, NoRequest
<1>3. ToldTruly'
  <2>1. \A m \in Sends : request'[m].status = request[m].status
    BY DEF ExchangeTypeOK, Request
  <2>2. \A m \in Sends : send'[m] = (IF m = n THEN s ELSE send[m])
    BY DEF ExchangeTypeOK
  <2> QED
    BY <2>1, <2>2 DEF ToldTruly
<1>4. ClaimedFairly'
  BY DEF ClaimedFairly, ExchangeTypeOK
<1> QED
  BY <1>1, <1>2, <1>3, <1>4

(* The end of an attempt. *)
LEMMA EndsKeep ==
  ASSUME ExchangeInv, NEW n \in Sends, NEW o \in {"none", "succeeded", "retry", "dead"},
         Ends(n, o), send[n].pc # "idle", o = "succeeded" => acted,
         UNCHANGED <<endpoint, request, receiver, acted>>
  PROVE  ExchangeInv'
<1> DEFINE s == [send[n] EXCEPT !.pc = "over", !.outcome = o]
<1>1. send[n] \in Send
  BY DEF ExchangeInv, ExchangeTypeOK
<1>2. s \in Send /\ s.pc = "over" /\ s.outcome = o
        /\ s.secret = send[n].secret /\ s.turns = send[n].turns
  BY <1>1 DEF Send
<1>3. send' = [send EXCEPT ![n] = s]
  BY DEF Ends
<1> QED
  BY <1>2, <1>3, SenderKeeps

(* A step to the next place in the code. *)
LEMMA GoesOn ==
  ASSUME ExchangeInv, NEW n \in Sends, NEW pc \in {"resolving", "requesting", "reading"},
         send' = [send EXCEPT ![n].pc = pc],
         send[n].pc \in {"claimed", "resolving", "requesting"},
         UNCHANGED <<endpoint, receiver, acted>>,
         \/ request' = request /\ (pc = "resolving" => send[n].pc = "claimed")
         \/ /\ request' = [request EXCEPT ![n].at = "sent"]
            /\ send[n].pc = "resolving" /\ pc = "requesting"
  PROVE  ExchangeInv'
<1> DEFINE s == [send[n] EXCEPT !.pc = pc]
<1>1. send[n] \in Send
  BY DEF ExchangeInv, ExchangeTypeOK
<1>2. s \in Send /\ s.pc = pc /\ s.outcome = send[n].outcome
        /\ s.secret = send[n].secret /\ s.turns = send[n].turns
  BY <1>1 DEF Send
<1>3. send' = [send EXCEPT ![n] = s]
  OBVIOUS
<1>4. s.outcome = "succeeded" => acted
  BY <1>2 DEF ExchangeInv, ToldTruly
<1> QED
  BY <1>2, <1>3, <1>4, SenderKeeps, ZenonT(40)

(* The operator's commands and claims. *)
LEMMA CommandsKeep ==
  ASSUME ExchangeInv, NEW c \in Secrets, AddEndpoint(c) \/ RotateSecret(c)
  PROVE  ExchangeInv'
<1> USE ExchangeAssumption DEF ExchangeInv
<1>1. CASE AddEndpoint(c)
  <2>1. ExchangeTypeOK' /\ OneIsApplied' /\ ToldTruly'
    BY <1>1 DEF AddEndpoint, ExchangeTypeOK, OneIsApplied, ToldTruly
  <2>2. ClaimedFairly'
    BY <1>1 DEF AddEndpoint, ClaimedFairly, NoEndpoint
  <2> QED
    BY <2>1, <2>2
<1>2. CASE RotateSecret(c)
  <2>0. endpoint' = [secret |-> c, previous |-> endpoint.secret]
        /\ UNCHANGED <<request, receiver, acted>>
    BY <1>2 DEF RotateSecret
  <2>1. \A n \in Sends :
          /\ send'[n] \in Send /\ send'[n].pc = send[n].pc
          /\ send'[n].secret = send[n].secret /\ send'[n].outcome = send[n].outcome
          /\ send[n].pc = "idle" => send'[n] = send[n]
          /\ send[n].pc # "idle" =>
               send'[n].turns = (IF send[n].turns = 2 THEN 2 ELSE send[n].turns + 1)
    BY <1>2 DEF RotateSecret, ExchangeTypeOK, Send
  <2>2. ExchangeTypeOK'
    BY <1>2, <2>0, <2>1 DEF RotateSecret, ExchangeTypeOK
  <2>3. OneIsApplied' /\ ToldTruly'
    BY <2>0, <2>1 DEF OneIsApplied, ToldTruly
  <2>4. ClaimedFairly'
    <3>1. endpoint' # NoEndpoint
      BY <2>0 DEF NoEndpoint
    <3>2. \A n \in Sends : send[n].turns \in 0..2
      BY DEF ExchangeTypeOK, Send
    <3> QED
      BY <2>0, <2>1, <3>1, <3>2 DEF ClaimedFairly
  <2> QED
    BY <2>2, <2>3, <2>4
<1> QED
  BY <1>1, <1>2

LEMMA ClaimKeeps ==
  ASSUME ExchangeInv, NEW n \in Sends, ClaimSend(n)
  PROVE  ExchangeInv'
<1> DEFINE s == [send[n] EXCEPT !.pc = "claimed", !.secret = endpoint.secret]
<1> USE DEF ExchangeInv
<1>1. /\ send[n] = Unsent /\ endpoint # NoEndpoint /\ request[n] = NoRequest
      /\ send \in [Sends -> Send] /\ endpoint.secret \in Secrets \cup {NoSecret}
  BY DEF ClaimedFairly, ClaimSend, ExchangeTypeOK
<1>2. send' = [send EXCEPT ![n] = s]
  BY <1>1 DEF ClaimSend
<1>3. s \in Send
  BY <1>1 DEF Send
<1>4. s.pc = "claimed" /\ s.secret = endpoint.secret /\ s.turns = 0 /\ s.outcome = "none"
  BY <1>1 DEF Send, Unsent
<1>5. UNCHANGED <<endpoint, request, receiver, acted>>
  BY DEF ClaimSend
<1> HIDE DEF s
<1>6. ExchangeTypeOK'
  BY <1>1, <1>2, <1>3, <1>5 DEF ExchangeTypeOK
<1>7. \A m \in Sends : send'[m] = (IF m = n THEN s ELSE send[m])
  BY <1>2 DEF ExchangeTypeOK
<1>8. OneIsApplied' /\ ToldTruly'
  BY <1>4, <1>5, <1>7 DEF OneIsApplied, ToldTruly
<1>9. ClaimedFairly'
  BY <1>1, <1>4, <1>5, <1>7 DEF ClaimedFairly
<1> QED
  BY <1>6, <1>8, <1>9

(* A step of the receiver: what it says of each request, and that it says   *)
(* so of none that has not reached it.                                      *)
LEMMA ReceiverStepKeeps ==
  ASSUME ExchangeInv, NEW f \in [Sends -> Request], request' = f,
         receiver' \in [secrets : SUBSET Secrets, processed : BOOLEAN,
                        active : SUBSET Sends, acts : Nat],
         acted' \in BOOLEAN, acted => acted',
         UNCHANGED <<endpoint, send>>,
         \A m \in Sends : request[m] = NoRequest => f[m] = NoRequest,
         \A m \in Sends : f[m].status = 204 => request[m].status = 204 \/ acted',
         receiver'.processed => acted',
         OneIsApplied'
  PROVE  ExchangeInv'
<1> USE DEF ExchangeInv
<1>1. ExchangeTypeOK'
  BY DEF ExchangeTypeOK
<1>2. ToldTruly'
  BY DEF ToldTruly
<1>3. ClaimedFairly'
  BY DEF ClaimedFairly
<1> QED
  BY <1>1, <1>2, <1>3

LEMMA Answering ==
  ASSUME NEW q \in Request, NEW status \in {204, 400, 500}
  PROVE  /\ Answer(q, status) \in Request
         /\ Answer(q, status).at = "answered" /\ Answer(q, status).status = status
<1>1. ASSUME NEW A, NEW S, q \in [at : A, status : S], "answered" \in A, status \in S
      PROVE  /\ Answer(q, status) \in [at : A, status : S]
             /\ Answer(q, status).at = "answered" /\ Answer(q, status).status = status
  BY <1>1 DEF Answer
<1> DEFINE A == {"none", "sent", "applying", "waiting", "answered", "lost"}
           S == {0, 204, 400, 500}
<1>2. q \in [at : A, status : S] /\ status \in S /\ "answered" \in A
  BY DEF Request
<1>3. Request = [at : A, status : S]
  BY DEF Request
<1> HIDE DEF A, S
<1> QED
  BY <1>1, <1>2, <1>3

LEMMA RefuseKeeps ==
  ASSUME ExchangeInv, NEW n \in Sends, RefuseRequest(n)
  PROVE  ExchangeInv'
<1> DEFINE f == [request EXCEPT ![n] = Answer(@, 400)]
<1>1. request[n] \in Request /\ request \in [Sends -> Request]
  BY DEF ExchangeInv, ExchangeTypeOK
<1>2. /\ f \in [Sends -> Request] /\ request' = f
      /\ \A m \in Sends : f[m] = (IF m = n THEN Answer(request[n], 400) ELSE request[m])
  BY <1>1, Answering DEF RefuseRequest
<1>3. OneIsApplied'
  BY <1>1, <1>2, Answering DEF RefuseRequest, ExchangeInv, OneIsApplied
<1>4. request[n] # NoRequest
  BY DEF RefuseRequest, NoRequest
<1> QED
  BY <1>1, <1>2, <1>3, <1>4, Answering, ReceiverStepKeeps
     DEF RefuseRequest, ExchangeInv, ExchangeTypeOK, ToldTruly

LEMMA HandleKeeps ==
  ASSUME ExchangeInv, NEW n \in Sends, HandleRequest(n)
  PROVE  ExchangeInv'
<1>1. /\ request[n] \in Request /\ request \in [Sends -> Request]
      /\ request[n] # NoRequest /\ request[n].at = "sent"
  BY DEF ExchangeInv, ExchangeTypeOK, HandleRequest, NoRequest
<1>2. /\ receiver \in [secrets : SUBSET Secrets, processed : BOOLEAN,
                       active : SUBSET Sends, acts : Nat]
      /\ acted \in BOOLEAN /\ acted' = acted /\ UNCHANGED <<endpoint, send>>
      /\ receiver.processed => acted
  BY DEF ExchangeInv, ExchangeTypeOK, HandleRequest, ToldTruly
<1>3. CASE receiver.processed
  <2> DEFINE f == [request EXCEPT ![n] = Answer(@, 204)]
  <2>1. /\ f \in [Sends -> Request] /\ request' = f /\ receiver' = receiver
        /\ \A m \in Sends : f[m] = (IF m = n THEN Answer(request[n], 204) ELSE request[m])
    BY <1>1, <1>3, Answering DEF HandleRequest
  <2>2. OneIsApplied'
    BY <1>1, <2>1, Answering DEF ExchangeInv, OneIsApplied
  <2> QED
    BY <1>1, <1>2, <1>3, <2>1, <2>2, ReceiverStepKeeps
<1>4. CASE ~receiver.processed /\ Duplicate(n)
  <2> DEFINE f == [request EXCEPT ![n].at = "waiting"]
  <2>1. /\ f \in [Sends -> Request] /\ request' = f /\ receiver' = receiver
        /\ \A m \in Sends : m # n => f[m] = request[m]
        /\ f[n].at = "waiting" /\ f[n].status = request[n].status
    BY <1>1, <1>4 DEF HandleRequest, Request
  <2>2. OneIsApplied'
    BY <1>1, <2>1 DEF ExchangeInv, OneIsApplied
  <2>3. \A m \in Sends : f[m].status = request[m].status
    BY <2>1
  <2> HIDE DEF f
  <2> QED
    BY <1>1, <1>2, <2>1, <2>2, <2>3, ReceiverStepKeeps
<1>5. CASE ~receiver.processed /\ ~Duplicate(n)
  <2> DEFINE f == [request EXCEPT ![n].at = "applying"]
  <2>1. /\ f \in [Sends -> Request] /\ request' = f
        /\ \A m \in Sends : m # n => f[m] = request[m]
        /\ f[n].at = "applying" /\ f[n].status = request[n].status
    BY <1>1, <1>5 DEF HandleRequest, Request
  <2>2. /\ receiver' \in [secrets : SUBSET Secrets, processed : BOOLEAN,
                          active : SUBSET Sends, acts : Nat]
        /\ receiver'.active = {n} /\ receiver'.processed = receiver.processed
        /\ receiver'.acts = receiver.acts
    BY <1>2, <1>5 DEF HandleRequest
  <2>3. OneIsApplied'
    BY <1>1, <1>5, <2>1, <2>2 DEF ExchangeInv, OneIsApplied, Duplicate
  <2>4. \A m \in Sends : f[m].status = request[m].status
    BY <2>1
  <2> HIDE DEF f
  <2> QED
    BY <1>1, <1>2, <2>1, <2>2, <2>3, <2>4, ReceiverStepKeeps
<1> QED
  BY <1>3, <1>4, <1>5

LEMMA ApplyKeeps ==
  ASSUME ExchangeInv, NEW n \in Sends, NEW ok \in BOOLEAN, ApplyOnce(n, ok)
  PROVE  ExchangeInv'
<1> DEFINE told == IF ok THEN 204 ELSE 500
           f == [m \in Sends |-> IF m = n \/ request[m].at = "waiting"
                                 THEN Answer(request[m], told) ELSE request[m]]
<1>1. /\ \A m \in Sends : request[m] \in Request
      /\ receiver \in [secrets : SUBSET Secrets, processed : BOOLEAN,
                       active : SUBSET Sends, acts : Nat]
      /\ acted \in BOOLEAN
  BY DEF ExchangeInv, ExchangeTypeOK
<1>2. /\ request' = f /\ told \in {204, 400, 500} /\ acted' = (acted \/ ok)
      /\ receiver' = [receiver EXCEPT !.active = {}, !.processed = @ \/ ok,
                                      !.acts = IF ok THEN @ + 1 ELSE @]
      /\ UNCHANGED <<endpoint, send>> /\ request[n].at = "applying"
  BY DEF ApplyOnce
<1>3. n \in receiver.active /\ ~receiver.processed /\ receiver.acts = 0
  BY <1>1, <1>2 DEF ExchangeInv, OneIsApplied
<1>4. \A m \in Sends :
        /\ f[m] \in Request
        /\ (m = n \/ request[m].at = "waiting") =>
             f[m].at = "answered" /\ f[m].status = told
        /\ ~(m = n \/ request[m].at = "waiting") => f[m] = request[m]
  BY <1>1, <1>2, Answering
<1>5. f \in [Sends -> Request]
  BY <1>4
<1>6. /\ receiver' \in [secrets : SUBSET Secrets, processed : BOOLEAN,
                        active : SUBSET Sends, acts : Nat]
      /\ receiver'.active = {} /\ receiver'.processed = ok
      /\ receiver'.acts = (IF ok THEN 1 ELSE 0)
  <2>1. (receiver.processed \/ ok) = ok /\ (receiver.processed \/ ok) \in BOOLEAN
    BY <1>1, <1>3
  <2>2. (IF ok THEN receiver.acts + 1 ELSE receiver.acts) = (IF ok THEN 1 ELSE 0)
    BY <1>3
  <2>3. receiver' = [secrets |-> receiver.secrets, processed |-> receiver.processed \/ ok,
                     active |-> {}, acts |-> IF ok THEN receiver.acts + 1 ELSE receiver.acts]
    BY <1>1, <1>2, ZenonT(40)
  <2>4. receiver.secrets \in SUBSET Secrets
    BY <1>1
  <2> QED
    BY <2>1, <2>2, <2>3, <2>4
<1>7. OneIsApplied'
  <2>1. \A m \in Sends : f[m].at # "applying"
    BY <1>3, <1>4 DEF ExchangeInv, OneIsApplied
  <2> HIDE DEF f
  <2> QED
    BY <1>2, <1>6, <2>1 DEF OneIsApplied
<1>8. \A m \in Sends : request[m] = NoRequest => f[m] = NoRequest
  BY <1>2, <1>4 DEF NoRequest
<1>9. \A m \in Sends : f[m].status = 204 => request[m].status = 204 \/ acted'
  BY <1>2, <1>4
<1>10. acted' \in BOOLEAN /\ (acted => acted') /\ (receiver'.processed => acted')
  BY <1>1, <1>2, <1>6
<1> HIDE DEF f
<1> QED
  BY <1>2, <1>5, <1>6, <1>7, <1>8, <1>9, <1>10, ReceiverStepKeeps

LEMMA RestartKeeps ==
  ASSUME ExchangeInv, NEW S \in SecretPairs, RestartReceiver(S)
  PROVE  ExchangeInv'
<1> USE DEF ExchangeInv, RestartReceiver, NewReceiver
<1>1. ExchangeTypeOK'
  BY DEF ExchangeTypeOK, Request, SecretPairs
<1>2. OneIsApplied' /\ ToldTruly'
  BY DEF ExchangeTypeOK, OneIsApplied, ToldTruly, Request
<1>3. ClaimedFairly'
  BY DEF ClaimedFairly, NoRequest, ExchangeTypeOK
<1> QED
  BY <1>1, <1>2, <1>3

LEMMA ExchangeStep == ExchangeInv /\ [ExchangeNext]_exchange => ExchangeInv'
<1> SUFFICES ASSUME ExchangeInv, [ExchangeNext]_exchange PROVE ExchangeInv'
  OBVIOUS
<1>1. ASSUME NEW c \in Secrets, AddEndpoint(c) \/ RotateSecret(c) PROVE ExchangeInv'
  BY <1>1, CommandsKeep
<1>2. ASSUME NEW n \in Sends, ClaimSend(n) PROVE ExchangeInv'
  BY <1>2, ClaimKeeps
<1>3. ASSUME NEW n \in Sends, SignOrEnd(n) PROVE ExchangeInv'
  BY <1>3, EndsKeep, GoesOn DEF SignOrEnd
<1>4. ASSUME NEW n \in Sends, Connect(n) \/ ReadHeaders(n) PROVE ExchangeInv'
  BY <1>4, GoesOn DEF Connect, ReadHeaders
<1>5. ASSUME NEW n \in Sends, ReadBody(n) PROVE ExchangeInv'
  <2>1. Class(request[n].status) \in {"none", "succeeded", "retry", "dead"}
    BY DEF Class
  <2>2. Class(request[n].status) = "succeeded" => acted
    BY DEF Class, ExchangeInv, ExchangeTypeOK, Request, ToldTruly
  <2> QED
    BY <1>5, <2>1, <2>2, EndsKeep DEF ReadBody
<1>6. ASSUME NEW n \in Sends, TransportFails(n) \/ WorkerDies(n) PROVE ExchangeInv'
  BY <1>6, EndsKeep DEF TransportFails, WorkerDies
<1>7. ASSUME NEW n \in Sends,
             RefuseRequest(n) \/ HandleRequest(n) \/ (\E ok \in BOOLEAN : ApplyOnce(n, ok))
      PROVE  ExchangeInv'
  BY <1>7, RefuseKeeps, HandleKeeps, ApplyKeeps
<1>8. ASSUME NEW S \in SecretPairs, RestartReceiver(S) PROVE ExchangeInv'
  BY <1>8, RestartKeeps
<1>9. CASE UNCHANGED exchange
  BY <1>9 DEF exchange, ExchangeInv, ExchangeTypeOK, OneIsApplied, ToldTruly, ClaimedFairly
<1> QED
  BY <1>1, <1>2, <1>3, <1>4, <1>5, <1>6, <1>7, <1>8, <1>9 DEF ExchangeNext

(* A receiver applies an event once, what was recorded as delivered was     *)
(* applied, and one rotation does not outdate an attempt under way.         *)
THEOREM EventsAreAppliedOnce == ExchangeSpec => []DeliveredIsApplied
<1>1. ExchangeInv => DeliveredIsApplied
  <2> SUFFICES ASSUME ExchangeInv PROVE DeliveredIsApplied
    OBVIOUS
  <2>1. AppliedOnceHere /\ ToldIsApplied
    BY DEF ExchangeInv, OneIsApplied, ToldTruly, AppliedOnceHere, ToldIsApplied
  <2>2. SecretsOverlap
    BY DEF ExchangeInv, ExchangeTypeOK, Send, ClaimedFairly, SecretsOverlap
  <2> QED
    BY <2>1, <2>2 DEF DeliveredIsApplied
<1> QED
  BY <1>1, ExchangeInitInv, ExchangeStep, PTL DEF ExchangeSpec

-----------------------------------------------------------------------------
(* Books. *)

(* The locks of a transaction, and the places of its plan that it has done. *)
HeldIn(t, source) ==
  \E k \in 1..t.at : /\ t.plan[k].source = source
                     /\ k < t.at \/ t.pc \in {"locked", "absent", "done"}

DoneIn(t) == {k \in 1..t.at : k < t.at \/ t.pc = "done"}

Tx == [pc : {"ended", "waiting", "locked", "absent", "done"},
       plan : Plans \cup {<<>>}, at : Nat, rows : SUBSET Posting]

(* A transaction has inserted what it has done of its plan and did not find *)
(* in the books, and when it has found nothing then there is nothing.       *)
SoundIn(t) ==
  /\ \/ t = Ended
     \/ t.plan \in Plans /\ t.at \in 1..Len(t.plan) /\ t.pc # "ended"
  /\ \A e \in t.rows : /\ \E k \in DoneIn(t) : e = t.plan[k]
                       /\ \A d \in journal : d.source # e.source
  /\ t.pc = "absent" => \A e \in journal \cup t.rows : e.source # t.plan[t.at].source
  /\ \A k \in DoneIn(t) : t.plan[k] \in journal \cup t.rows

PostersExclude ==
  \A p, q \in Posters : p # q =>
    \A s \in Sources : ~(HeldIn(tx[p], s) /\ HeldIn(tx[q], s))

BooksInv ==
  /\ BooksTypeOK /\ PostersExclude /\ BookedAsTold
  /\ \A p \in Posters : SoundIn(tx[p])

LEMMA BooksInitInv == BooksInit => BooksInv
<1> SUFFICES ASSUME BooksInit PROVE BooksInv
  OBVIOUS
<1>1. \A p \in Posters : tx[p] = Ended
  BY DEF BooksInit
<1>2. DoneIn(Ended) = {} /\ \A s \in Sources : ~HeldIn(Ended, s)
  BY DEF Ended, DoneIn, HeldIn
<1>3. SoundIn(Ended)
  BY <1>2 DEF SoundIn, Ended
<1>4. BooksTypeOK
  BY DEF BooksInit, BooksTypeOK, Ended
<1> QED
  BY <1>1, <1>2, <1>3, <1>4 DEF BooksInit, BooksInv, PostersExclude, BookedAsTold

(* Where a plan is, and that it names each source once. *)
LEMMA PlanIsGood ==
  ASSUME BooksTypeOK, NEW p \in Posters, SoundIn(tx[p]), tx[p].pc # "ended"
  PROVE  /\ tx[p] \in Tx /\ tx[p].plan \in Plans
         /\ Len(tx[p].plan) \in Nat /\ tx[p].at \in 1..Len(tx[p].plan)
         /\ \A k \in 1..Len(tx[p].plan) : tx[p].plan[k] \in Posting
         /\ \A k, l \in 1..Len(tx[p].plan) :
              tx[p].plan[k].source = tx[p].plan[l].source => k = l
<1>1. tx[p] \in Tx
  BY DEF BooksTypeOK, Tx
<1>2. tx[p].plan \in Plans /\ tx[p].at \in 1..Len(tx[p].plan)
  BY DEF SoundIn, Ended
<1>3. tx[p].plan \in Seq(Posting)
  BY <1>2, BooksAssumption
<1>4. DOMAIN tx[p].plan = 1..Len(tx[p].plan) /\ Len(tx[p].plan) \in Nat
  BY <1>3
<1> QED
  BY <1>1, <1>2, <1>3, <1>4, BooksAssumption

(* A step of one transaction before its commit. *)
LEMMA StatementKeeps ==
  ASSUME BooksInv, NEW p \in Posters, NEW t \in Tx, tx' = [tx EXCEPT ![p] = t], SoundIn(t),
         \A q \in Posters \ {p} : \A s \in Sources : HeldIn(t, s) => ~HeldIn(tx[q], s),
         UNCHANGED <<journal, posted, comparison, export>>,
         refused' \subseteq Posting,
         \A r \in refused' : \E e \in journal : e.source = r.source /\ e # r
  PROVE  BooksInv'
<1> USE DEF BooksInv
<1>1. \A q \in Posters : tx'[q] = IF q = p THEN t ELSE tx[q]
  BY DEF BooksTypeOK
<1>2. BooksTypeOK'
  BY DEF BooksTypeOK, Tx
<1>3. PostersExclude'
  BY <1>1 DEF PostersExclude, HeldIn
<1>4. BookedAsTold'
  BY DEF BookedAsTold
<1>5. \A q \in Posters : SoundIn(tx[q])'
  BY <1>1 DEF SoundIn, DoneIn
<1> QED
  BY <1>2, <1>3, <1>4, <1>5

(* A transaction that ends without a commit. *)
LEMMA EndKeeps ==
  ASSUME BooksInv, NEW p \in Posters, tx' = [tx EXCEPT ![p] = Ended],
         UNCHANGED <<journal, posted, comparison, export>>,
         refused' \subseteq Posting,
         \A r \in refused' : \E e \in journal : e.source = r.source /\ e # r
  PROVE  BooksInv'
<1>1. Ended \in Tx /\ DoneIn(Ended) = {} /\ \A s \in Sources : ~HeldIn(Ended, s)
  BY DEF Ended, Tx, DoneIn, HeldIn
<1>2. SoundIn(Ended)
  BY <1>1 DEF SoundIn, Ended
<1> QED
  BY <1>1, <1>2, StatementKeeps

(* Whatever is there under the source, when the transaction did not insert  *)
(* it, was committed.                                                       *)
LEMMA ExistingIsCommitted ==
  ASSUME BooksInv, NEW p \in Posters, tx[p].pc \in {"locked", "absent"}
  PROVE  \A e \in Existing(p) : e \in journal
<1> USE DEF BooksInv
<1>1. SoundIn(tx[p]) /\ tx[p].pc # "ended"
  OBVIOUS
<1>2. SUFFICES ASSUME NEW e \in tx[p].rows, e.source = Current(p).source PROVE FALSE
  BY DEF Existing
<1>3. PICK k \in DoneIn(tx[p]) : e = tx[p].plan[k]
  BY <1>1, <1>2 DEF SoundIn
<1>4. k \in 1..tx[p].at /\ k < tx[p].at
  BY DEF DoneIn
<1> QED
  BY <1>1, <1>2, <1>3, <1>4, PlanIsGood DEF Current

LEMMA LockKeeps ==
  ASSUME BooksInv, NEW p \in Posters, Lock(p), UNCHANGED <<journal, posted, comparison, export>>
  PROVE  BooksInv'
<1> DEFINE t == [tx[p] EXCEPT !.pc = "locked"]
<1> USE DEF BooksInv, Lock, Goes
<1>1. SoundIn(tx[p]) /\ tx[p].pc # "ended"
  OBVIOUS
<1>2. /\ tx[p] \in Tx /\ t \in Tx /\ tx' = [tx EXCEPT ![p] = t]
      /\ t.pc = "locked" /\ t.plan = tx[p].plan /\ t.at = tx[p].at /\ t.rows = tx[p].rows
      /\ t.at \in Nat
  BY <1>1, PlanIsGood DEF Tx
<1>3. DoneIn(t) = DoneIn(tx[p])
  BY <1>2 DEF DoneIn
<1> HIDE DEF t
<1>4. SoundIn(t)
  BY <1>1, <1>2, <1>3 DEF SoundIn, Ended
<1>5. ASSUME NEW q \in Posters \ {p}, NEW s \in Sources, HeldIn(t, s) PROVE ~HeldIn(tx[q], s)
  <2>1. HeldIn(tx[p], s) \/ s = Current(p).source
    BY <1>2, <1>5 DEF HeldIn, Current
  <2>2. s = Current(p).source => ~HeldIn(tx[q], s)
    BY DEF LockIsFree, Holds, HeldIn
  <2> QED
    BY <2>1, <2>2 DEF PostersExclude
<1>6. refused' \subseteq Posting /\ \A r \in refused' : \E e \in journal : e.source = r.source /\ e # r
  BY DEF BooksTypeOK, BookedAsTold
<1> QED
  BY <1>2, <1>4, <1>5, <1>6, StatementKeeps

(* The answer of the books, or the lack of one. *)
LEMMA ReadKeeps ==
  ASSUME BooksInv, NEW p \in Posters, ReadExisting(p),
         UNCHANGED <<journal, posted, comparison, export>>
  PROVE  BooksInv'
<1> USE DEF BooksInv, ReadExisting
<1>1. SoundIn(tx[p]) /\ tx[p].pc = "locked"
  OBVIOUS
<1>2. /\ tx[p] \in Tx /\ tx[p].at \in 1..Len(tx[p].plan) /\ Len(tx[p].plan) \in Nat
      /\ Current(p) \in Posting
  BY <1>1, PlanIsGood DEF Current
<1>3. \A r \in refused : \E e \in journal : e.source = r.source /\ e # r
  BY DEF BookedAsTold
<1>4. refused \subseteq Posting
  BY DEF BooksTypeOK
<1>5. ASSUME NEW pc \in {"absent", "done"}, Goes(p, pc), UNCHANGED refused,
             pc = "absent" => Existing(p) = {}, pc = "done" => Current(p) \in Existing(p)
      PROVE  BooksInv'
  <2> DEFINE t == [tx[p] EXCEPT !.pc = pc]
  <2>1. /\ t \in Tx /\ tx' = [tx EXCEPT ![p] = t]
        /\ t.pc = pc /\ t.plan = tx[p].plan /\ t.at = tx[p].at /\ t.rows = tx[p].rows
    BY <1>2, <1>5 DEF Tx, Goes
  <2> HIDE DEF t
  <2>2. DoneIn(t) = IF pc = "done" THEN DoneIn(tx[p]) \cup {t.at} ELSE DoneIn(tx[p])
    BY <1>1, <1>2, <1>5, <2>1 DEF DoneIn
  <2>3. \A s \in Sources : HeldIn(t, s) => HeldIn(tx[p], s)
    BY <1>1, <2>1 DEF HeldIn
  <2>4. SoundIn(t)
    <3>1. \A k \in DoneIn(t) : t.plan[k] \in journal \cup t.rows
      BY <1>1, <1>5, <2>1, <2>2 DEF SoundIn, Existing, Current
    <3>2. pc = "absent" => \A e \in journal \cup t.rows : e.source # t.plan[t.at].source
      BY <1>5, <2>1 DEF Existing, Current
    <3>3. \A e \in t.rows : /\ \E k \in DoneIn(t) : e = t.plan[k]
                            /\ \A d \in journal : d.source # e.source
      BY <1>1, <2>1, <2>2 DEF SoundIn
    <3>4. t.plan \in Plans /\ t.at \in 1..Len(t.plan) /\ t.pc # "ended"
      BY <1>1, <1>5, <2>1 DEF SoundIn, Ended
    <3> QED
      BY <2>1, <3>1, <3>2, <3>3, <3>4 DEF SoundIn
  <2>5. \A q \in Posters \ {p} : \A s \in Sources : HeldIn(t, s) => ~HeldIn(tx[q], s)
    BY <2>3 DEF PostersExclude
  <2> QED
    BY <1>3, <1>4, <1>5, <2>1, <2>4, <2>5, StatementKeeps
<1>6. ASSUME Existing(p) # {}, Current(p) \notin Existing(p), Refuse(p) PROVE BooksInv'
  <2>1. PICK e \in Existing(p) : e \in journal /\ e.source = Current(p).source /\ e # Current(p)
    BY <1>1, <1>6, ExistingIsCommitted DEF Existing
  <2> QED
    BY <1>2, <1>3, <1>4, <1>6, <2>1, EndKeeps DEF Refuse
<1> QED
  BY <1>5, <1>6

(* The unique index has nothing to refuse: what was not there when the lock *)
(* was had is not there.                                                    *)
LEMMA InsertKeeps ==
  ASSUME BooksInv, NEW p \in Posters, Insert(p), UNCHANGED <<journal, posted, comparison, export>>
  PROVE  BooksInv'
<1> DEFINE t == [tx[p] EXCEPT !.pc = "done", !.rows = tx[p].rows \cup {Current(p)}]
<1> USE DEF BooksInv
<1>1. SoundIn(tx[p]) /\ tx[p].pc = "absent"
  BY DEF Insert
<1>2. /\ tx[p] \in Tx /\ tx[p].at \in 1..Len(tx[p].plan) /\ Len(tx[p].plan) \in Nat
      /\ Current(p) \in Posting
  BY <1>1, PlanIsGood DEF Current
<1>3. Existing(p) = {}
  BY <1>1 DEF SoundIn, Existing, Current
<1>4. /\ t \in Tx /\ tx' = [tx EXCEPT ![p] = t] /\ UNCHANGED refused
      /\ t.pc = "done" /\ t.plan = tx[p].plan /\ t.at = tx[p].at
      /\ t.rows = tx[p].rows \cup {Current(p)}
  <2>1. tx[p].rows \cup {Current(p)} \in SUBSET Posting
    BY <1>2 DEF Tx
  <2>2. tx' = [tx EXCEPT ![p] = t] /\ UNCHANGED refused
    BY <1>3 DEF Insert
  <2>3. t \in Tx
    BY <1>2, <2>1 DEF Tx
  <2>4. /\ t.pc = "done" /\ t.plan = tx[p].plan /\ t.at = tx[p].at
        /\ t.rows = tx[p].rows \cup {Current(p)}
    BY <1>2 DEF Tx
  <2> QED
    BY <2>2, <2>3, <2>4
<1> HIDE DEF t
<1>5. DoneIn(t) = DoneIn(tx[p]) \cup {t.at} /\ Current(p) = t.plan[t.at]
  BY <1>1, <1>2, <1>4 DEF DoneIn, Current
<1>6. SoundIn(t)
  <2>1. \A k \in DoneIn(t) : t.plan[k] \in journal \cup t.rows
    BY <1>1, <1>4, <1>5 DEF SoundIn
  <2>2. \A e \in t.rows : /\ \E k \in DoneIn(t) : e = t.plan[k]
                          /\ \A d \in journal : d.source # e.source
    BY <1>1, <1>3, <1>4, <1>5 DEF SoundIn, Existing
  <2>3. t.plan \in Plans /\ t.at \in 1..Len(t.plan) /\ t.pc = "done"
    BY <1>1, <1>4 DEF SoundIn, Ended
  <2> QED
    BY <2>1, <2>2, <2>3 DEF SoundIn
<1>7. \A s \in Sources : HeldIn(t, s) => HeldIn(tx[p], s)
  BY <1>1, <1>4 DEF HeldIn
<1>8. \A q \in Posters \ {p} : \A s \in Sources : HeldIn(t, s) => ~HeldIn(tx[q], s)
  BY <1>7 DEF PostersExclude
<1>9. refused' \subseteq Posting /\ \A r \in refused' : \E e \in journal : e.source = r.source /\ e # r
  BY <1>4 DEF BooksTypeOK, BookedAsTold
<1> QED
  BY <1>4, <1>6, <1>8, <1>9, StatementKeeps

(* A transaction that begins, or goes on to the next of its plan. *)
LEMMA BeginKeeps ==
  ASSUME BooksInv, NEW p \in Posters,
         (\E plan \in Plans : BeginPosting(p, plan)) \/ NextPosting(p),
         UNCHANGED <<journal, posted, comparison, export>>
  PROVE  BooksInv'
<1> USE DEF BooksInv
<1>1. refused' \subseteq Posting /\ \A r \in refused' : \E e \in journal : e.source = r.source /\ e # r
  BY DEF BooksTypeOK, BookedAsTold, BeginPosting, NextPosting
<1>2. ASSUME NEW plan \in Plans, BeginPosting(p, plan) PROVE BooksInv'
  <2> DEFINE t == [Ended EXCEPT !.pc = "waiting", !.plan = plan, !.at = 1]
  <2>1. plan \in Seq(Posting) /\ plan # <<>>
    BY BooksAssumption
  <2>2. 1 \in 1..Len(plan)
    BY <2>1
  <2>3. /\ t \in Tx /\ tx' = [tx EXCEPT ![p] = t]
        /\ t.pc = "waiting" /\ t.plan = plan /\ t.at = 1 /\ t.rows = {}
    BY <1>2 DEF BeginPosting, Tx, Ended
  <2> HIDE DEF t
  <2>4. DoneIn(t) = {} /\ \A s \in Sources : ~HeldIn(t, s)
    BY <2>3 DEF DoneIn, HeldIn
  <2>5. SoundIn(t)
    BY <2>2, <2>3, <2>4 DEF SoundIn
  <2> QED
    BY <1>1, <2>3, <2>4, <2>5, StatementKeeps
<1>3. ASSUME NextPosting(p) PROVE BooksInv'
  <2> DEFINE t == [tx[p] EXCEPT !.pc = "waiting", !.at = tx[p].at + 1]
  <2>1. SoundIn(tx[p]) /\ tx[p].pc = "done" /\ tx[p].at < Len(tx[p].plan)
    BY <1>3 DEF NextPosting
  <2>2. /\ tx[p] \in Tx /\ tx[p].plan \in Plans
        /\ tx[p].at \in 1..Len(tx[p].plan) /\ Len(tx[p].plan) \in Nat
    BY <2>1, PlanIsGood
  <2>3. /\ t \in Tx /\ tx' = [tx EXCEPT ![p] = t]
        /\ t.pc = "waiting" /\ t.plan = tx[p].plan /\ t.at = tx[p].at + 1 /\ t.rows = tx[p].rows
    <3>1. tx[p].at + 1 \in Nat
      BY <2>2
    <3>2. tx' = [tx EXCEPT ![p] = t]
      BY <1>3 DEF NextPosting
    <3>3. t \in Tx
      BY <2>2, <3>1 DEF Tx
    <3>4. t.pc = "waiting" /\ t.plan = tx[p].plan /\ t.at = tx[p].at + 1 /\ t.rows = tx[p].rows
      BY <2>2 DEF Tx
    <3> QED
      BY <3>2, <3>3, <3>4
  <2> HIDE DEF t
  <2>4. DoneIn(t) = DoneIn(tx[p]) /\ t.at \in 1..Len(t.plan)
    BY <2>1, <2>2, <2>3 DEF DoneIn
  <2>5. \A s \in Sources : HeldIn(t, s) => HeldIn(tx[p], s)
    BY <2>1, <2>2, <2>3 DEF HeldIn
  <2>6. SoundIn(t)
    BY <2>1, <2>2, <2>3, <2>4 DEF SoundIn
  <2>7. \A q \in Posters \ {p} : \A s \in Sources : HeldIn(t, s) => ~HeldIn(tx[q], s)
    BY <2>5 DEF PostersExclude
  <2> QED
    BY <1>1, <2>3, <2>6, <2>7, StatementKeeps
<1> QED
  BY <1>2, <1>3

(* What is committed is under sources that no other transaction has locked. *)
LEMMA CommitKeeps ==
  ASSUME BooksInv, NEW p \in Posters, Commit(p)
  PROVE  BooksInv'
<1> USE DEF BooksInv
<1>1. SoundIn(tx[p]) /\ tx[p].pc = "done" /\ tx[p].at = Len(tx[p].plan)
  BY DEF Commit
<1>2. /\ tx[p] \in Tx /\ tx[p].at \in 1..Len(tx[p].plan) /\ Len(tx[p].plan) \in Nat
      /\ \A k \in 1..tx[p].at : tx[p].plan[k] \in Posting
      /\ \A k, l \in 1..tx[p].at : tx[p].plan[k].source = tx[p].plan[l].source => k = l
  BY <1>1, PlanIsGood
<1>3. /\ journal' = journal \cup tx[p].rows /\ tx' = [tx EXCEPT ![p] = Ended]
      /\ UNCHANGED <<refused, comparison, export>>
      /\ \A d \in posted' : d \in posted \/ \E k \in 1..tx[p].at : d = tx[p].plan[k]
  BY DEF Commit
<1>4. \A q \in Posters : tx'[q] = IF q = p THEN Ended ELSE tx[q]
  BY <1>3 DEF BooksTypeOK
<1>5. DoneIn(tx[p]) = 1..tx[p].at
  BY <1>1 DEF DoneIn
<1>6. BooksTypeOK'
  <2>1. journal' \subseteq Posting /\ posted' \subseteq Posting
    BY <1>2, <1>3 DEF BooksTypeOK, Tx
  <2>2. Ended \in Tx
    BY DEF Ended, Tx
  <2> QED
    BY <1>3, <2>1, <2>2 DEF BooksTypeOK, Tx
<1>7. DoneIn(Ended) = {} /\ \A s \in Sources : ~HeldIn(Ended, s)
  BY DEF Ended, DoneIn, HeldIn
<1>8. PostersExclude'
  BY <1>4, <1>7 DEF PostersExclude, HeldIn
<1>9. BookedAsTold'
  <2>1. posted' \subseteq journal'
    BY <1>1, <1>3, <1>5 DEF SoundIn, BookedAsTold
  <2>2. ASSUME NEW d \in journal', NEW e \in journal', d.source = e.source PROVE d = e
    <3>1. CASE d \in journal /\ e \in journal
      BY <2>2, <3>1 DEF BookedAsTold
    <3>2. CASE d \in tx[p].rows /\ e \in tx[p].rows
      BY <1>1, <1>2, <1>5, <2>2, <3>2 DEF SoundIn
    <3>3. CASE (d \in journal /\ e \in tx[p].rows) \/ (e \in journal /\ d \in tx[p].rows)
      BY <1>1, <2>2, <3>3 DEF SoundIn
    <3>4. d \in journal \cup tx[p].rows /\ e \in journal \cup tx[p].rows
      BY <1>3
    <3> QED
      BY <3>1, <3>2, <3>3, <3>4
  <2> QED
    BY <1>3, <2>1, <2>2 DEF BookedAsTold
<1>10. ASSUME NEW q \in Posters PROVE SoundIn(tx[q])'
  <2>1. CASE q = p
    BY <1>4, <1>7, <2>1 DEF SoundIn, Ended, DoneIn
  <2>2. CASE q # p
    <3>1. tx'[q] = tx[q] /\ SoundIn(tx[q])
      BY <1>4, <2>2
    <3>2. \A e \in tx[p].rows : e.source \in Sources /\ HeldIn(tx[p], e.source)
      <4>1. \A e \in tx[p].rows : e \in Posting /\ \E k \in 1..tx[p].at : e = tx[p].plan[k]
        BY <1>1, <1>2, <1>5 DEF SoundIn, Tx
      <4> QED
        BY <1>1, <4>1 DEF HeldIn, Posting
    <3>3. \A e \in tx[p].rows : ~HeldIn(tx[q], e.source)
      BY <2>2, <3>2 DEF PostersExclude
    <3>4. \A e \in tx[q].rows : \A d \in tx[p].rows : d.source # e.source
      <4>1. \A e \in tx[q].rows : HeldIn(tx[q], e.source)
        BY <3>1 DEF SoundIn, DoneIn, HeldIn
      <4> QED
        BY <3>3, <4>1
    <3>5. tx[q].pc = "absent" => \A e \in tx[p].rows : e.source # tx[q].plan[tx[q].at].source
      <4>1. tx[q].pc = "absent" => HeldIn(tx[q], tx[q].plan[tx[q].at].source)
        BY <3>1 DEF SoundIn, HeldIn, Ended
      <4> QED
        BY <3>3, <4>1
    <3> QED
      BY <1>3, <3>1, <3>4, <3>5 DEF SoundIn, DoneIn
  <2> QED
    BY <2>1, <2>2
<1> QED
  BY <1>6, <1>8, <1>9, <1>10

LEMMA BooksStep == BooksInv /\ [BooksNext]_books => BooksInv'
<1> SUFFICES ASSUME BooksInv, [BooksNext]_books PROVE BooksInv'
  OBVIOUS
<1>1. ASSUME NEW p \in Posters, Statement(p) PROVE BooksInv'
  <2>1. CASE Rollback(p)
    <3>1. refused \subseteq Posting /\ \A r \in refused : \E e \in journal : e.source = r.source /\ e # r
      BY DEF BooksInv, BooksTypeOK, BookedAsTold
    <3> QED
      BY <1>1, <2>1, <3>1, EndKeeps DEF Statement, Rollback
  <2> QED
    BY <1>1, <2>1, BeginKeeps, LockKeeps, ReadKeeps, InsertKeeps DEF Statement
<1>2. ASSUME UNCHANGED <<journal, tx, posted, refused>>,
             \A c \in comparison' : c.slot \in Slots /\ c.observed \in Observed,
             export' \in Seq([from : Moments, through : Moments, rows : SUBSET Posting])
      PROVE  BooksInv'
  <2>1. BooksTypeOK'
    BY <1>2 DEF BooksInv, BooksTypeOK
  <2>2. PostersExclude' /\ BookedAsTold'
    BY <1>2 DEF BooksInv, PostersExclude, BookedAsTold, HeldIn
  <2>3. \A p \in Posters : SoundIn(tx[p])'
    BY <1>2 DEF BooksInv, SoundIn, DoneIn
  <2> QED
    BY <2>1, <2>2, <2>3 DEF BooksInv
<1>3. ASSUME NEW slot \in Slots, NEW balance \in Observed, ReconcileWallet(slot, balance)
      PROVE  BooksInv'
  BY <1>2, <1>3 DEF ReconcileWallet, BooksInv, BooksTypeOK
<1>4. ASSUME NEW from \in Moments, NEW through \in Moments, Generate(from, through)
      PROVE  BooksInv'
  <2> DEFINE rows == {e \in journal : InRange(e, from, through)}
             x == [from |-> from, through |-> through, rows |-> rows]
  <2>1. /\ export' = Append(export, x) /\ UNCHANGED <<journal, tx, posted, refused, comparison>>
        /\ journal \subseteq Posting
        /\ export \in Seq([from : Moments, through : Moments, rows : SUBSET Posting])
    BY <1>4 DEF Generate, BooksInv, BooksTypeOK
  <2>2. x \in [from : Moments, through : Moments, rows : SUBSET Posting]
    BY <2>1
  <2>3. export' \in Seq([from : Moments, through : Moments, rows : SUBSET Posting])
    BY <2>1, <2>2
  <2> QED
    BY <1>2, <2>1, <2>3 DEF BooksInv, BooksTypeOK
<1>5. CASE UNCHANGED books
  BY <1>2, <1>5 DEF books, BooksInv, BooksTypeOK
<1> QED
  BY <1>1, <1>3, <1>4, <1>5, CommitKeeps DEF BooksNext

(* Whoever posts to the books, and whatever fails or comes at the same      *)
(* time, is told the truth, and is turned away only by another content.     *)
THEOREM ToldIsBooked == BooksSpec => []BookedAsTold
<1>1. BooksInv => BookedAsTold
  BY DEF BooksInv
<1> QED
  BY <1>1, BooksInitInv, BooksStep, PTL DEF BooksSpec

-----------------------------------------------------------------------------
(* ExceptionDesk: the decisions and the packs. *)

(* What is on a screen was the case once, and is it still if the version    *)
(* is.                                                                      *)
ScreensAreOld ==
  \A a \in Operators : view[a] # None =>
    LET i == view[a].id
    IN /\ i \in Raised
       /\ view[a].case.version <= case[i].version
       /\ view[a].case.version = case[i].version => view[a].case = case[i]

(* The history of a case leads to it, and names who closed it. *)
EventsTell ==
  \A i \in Ids :
    IF case[i] = None THEN event[i] = <<>>
    ELSE /\ TellsCase(case[i], event[i])
         /\ (case[i].by # None) = (case[i].state \in Closed)
         /\ case[i].by # None => \E k \in DOMAIN event[i] :
              event[i][k].actor = case[i].by /\ event[i][k].to = case[i].state

(* A snapshot or a pack in which cases and histories go together. *)
OneMoment(s) ==
  /\ \A i \in Ids : s.case[i] # None => TellsCase(s.case[i], s.event[i])
  /\ \A i \in s.booked : s.case[i] # None

PacksAreOneMoment ==
  \A p \in DOMAIN pack :
    /\ OneMoment(pack[p].part)
    /\ pack[p].pc # "signed" => pack[p].snapshot = pack[p].part

DeskInv ==
  TypeOK /\ ScreensAreOld /\ EventsTell /\ booked \subseteq Raised /\ PacksAreOneMoment

LEMMA DeskInitInv == Init => DeskInv
  BY DeskAssumption
  DEF Init, DeskInv, TypeOK, ScreensAreOld, EventsTell, PacksAreOneMoment, Raised

(* The queue is not part of it. *)
LEMMA QueueStepKeeps ==
  ASSUME DeskInv, walk' \in Queue \cup {None}, UNCHANGED <<case, event, booked, view, pack>>
  PROVE  DeskInv'
  BY DEF DeskInv, TypeOK, ScreensAreOld, EventsTell, PacksAreOneMoment, Raised, OneMoment,
         TellsCase

LEMMA RaiseKeeps ==
  ASSUME DeskInv, NEW i \in Ids, NEW t \in Times, NEW own \in BOOLEAN, RaiseCase(i, t, own)
  PROVE  DeskInv'
<1> DEFINE c == [created |-> t, state |-> "open", assignee |-> None, by |-> None, version |-> 1]
<1> USE DEF DeskInv
<1>1. c \in Case /\ c # None
  BY DeskAssumption, NoneAssumption DEF Case, States, Active
<1>2. /\ case[i] = None /\ event[i] = <<>>
      /\ case' = [case EXCEPT ![i] = c] /\ booked' = (IF own THEN booked \cup {i} ELSE booked)
      /\ UNCHANGED <<event, view, walk, pack>>
  BY DEF RaiseCase, EventsTell
<1>3. /\ case' \in [Ids -> Case \cup {None}] /\ case'[i] = c
      /\ \A j \in Ids : j # i => case'[j] = case[j]
  BY <1>1, <1>2 DEF TypeOK
<1>4. TypeOK'
  BY <1>2, <1>3 DEF TypeOK
<1>5. Raised' = Raised \cup {i} /\ i \notin Raised
  BY <1>1, <1>2, <1>3 DEF Raised
<1>6. ScreensAreOld'
  BY <1>2, <1>3, <1>5 DEF ScreensAreOld, Raised
<1>7. EventsTell'
  <2>1. TellsCase(c, <<>>)
    BY DEF TellsCase
  <2>2. c.by = None /\ c.state \notin Closed
    BY DEF Closed
  <2> HIDE DEF c
  <2> QED
    BY <1>1, <1>2, <1>3, <2>1, <2>2 DEF EventsTell
<1>8. booked' \subseteq Raised'
  BY <1>2, <1>5
<1>9. PacksAreOneMoment'
  BY <1>2 DEF PacksAreOneMoment, OneMoment, TellsCase
<1> QED
  BY <1>4, <1>6, <1>7, <1>8, <1>9

LEMMA LookKeeps ==
  ASSUME DeskInv, NEW a \in Operators, NEW i \in Ids, Look(a, i)
  PROVE  DeskInv'
<1> DEFINE s == [id |-> i, case |-> case[i]]
<1> USE DEF DeskInv, Look
<1>1. i \in Raised /\ case[i] \in Case
  BY DEF TypeOK, Raised
<1>2. s \in Screen
  BY <1>1 DEF Screen
<1>3. \A b \in Operators : view'[b] = (IF b = a THEN s ELSE view[b])
  BY DEF TypeOK
<1>4. TypeOK'
  BY <1>2 DEF TypeOK
<1>5. ScreensAreOld'
  <2>1. case[i].version \in Nat
    BY <1>1, DeskAssumption DEF Case
  <2> QED
    BY <1>1, <1>3, <2>1 DEF ScreensAreOld, Raised
<1>6. EventsTell' /\ booked' \subseteq Raised' /\ PacksAreOneMoment'
  BY DEF EventsTell, Raised, PacksAreOneMoment, OneMoment, TellsCase
<1> QED
  BY <1>4, <1>5, <1>6
(* A decision on the case that is on the screen. *)
LEMMA ChangeKeeps ==
  ASSUME DeskInv, NEW a \in Operators, NEW to \in States, NEW row \in Case,
         MayChange(a), Change(a, row, to),
         row.state = to, (row.by # None) = (to \in Closed), row.by # None => row.by = a
  PROVE  DeskInv'
<1> DEFINE i == view[a].id
           c == [row EXCEPT !.version = case[i].version + 1]
           e == [from |-> case[i].state, to |-> to, actor |-> a, seen |-> view[a].case]
           s == [id |-> i, case |-> case'[i]]
<1> USE DEF DeskInv
<1>1. /\ view[a] \in Screen /\ i \in Raised /\ case[i] \in Case /\ i \in Ids
      /\ case[i].version < MaxVersion /\ case[i].version \in 1..MaxVersion
  BY DEF MayChange, ScreensAreOld, Raised, TypeOK, Change, Case, Screen
<1>2. /\ case' = [case EXCEPT ![i] = c] /\ event' = [event EXCEPT ![i] = Append(@, e)]
      /\ view' = [view EXCEPT ![a] = s] /\ Leaves(i, row.state)
      /\ UNCHANGED <<booked, pack>>
  BY DEF Change
<1>3. /\ c \in Case /\ c # None /\ c.state = to /\ c.by = row.by
      /\ c.version = case[i].version + 1
  BY <1>1, DeskAssumption, NoneAssumption DEF Case
<1>4. e \in Event /\ e.to = to /\ e.actor = a /\ e.from = case[i].state
  BY <1>1 DEF Event, Screen, Case
<1> HIDE DEF c, e
<1>5. /\ case' \in [Ids -> Case \cup {None}] /\ case'[i] = c
      /\ \A j \in Ids : j # i => case'[j] = case[j]
  BY <1>1, <1>2, <1>3 DEF TypeOK
<1>6. Raised' = Raised
  BY <1>1, <1>3, <1>5 DEF Raised
<1>7. s \in Screen
  BY <1>1, <1>3, <1>5 DEF Screen
<1>8. /\ event' \in [Ids -> Seq(Event)] /\ event'[i] = Append(event[i], e)
      /\ \A j \in Ids : j # i => event'[j] = event[j]
  BY <1>1, <1>2, <1>4 DEF TypeOK
<1>9. walk' \in Queue \cup {None}
  <2>1. ASSUME walk \in Queue PROVE [walk EXCEPT !.must = @ \ {i}] \in Queue
    BY <2>1 DEF Queue
  <2> QED
    BY <1>2, <2>1 DEF Leaves, TypeOK
<1>10. TypeOK'
  <2>1. view' \in [Operators -> Screen \cup {None}]
    BY <1>2, <1>7 DEF TypeOK
  <2> QED
    BY <1>2, <1>5, <1>8, <1>9, <2>1 DEF TypeOK
<1>11. ScreensAreOld'
  <2>1. \A b \in Operators : view'[b] = (IF b = a THEN s ELSE view[b])
    BY <1>2 DEF TypeOK
  <2>2. \A b \in Operators : view[b] # None =>
          view[b].id \in Ids /\ view[b].case.version \in Nat
    BY DeskAssumption DEF TypeOK, Screen, Case
  <2>3. s.id = i /\ s.case = c
    BY <1>5
  <2> HIDE DEF s
  <2> QED
    BY <1>1, <1>3, <1>5, <1>6, <2>1, <2>2, <2>3 DEF ScreensAreOld
<1>12. EventsTell'
  <2>1. TellsCase(case[i], event[i]) /\ event[i] \in Seq(Event)
    BY <1>1 DEF EventsTell, Raised, TypeOK
  <2>2. /\ Len(event'[i]) = Len(event[i]) + 1 /\ Len(event[i]) \in Nat
        /\ DOMAIN event[i] = 1..Len(event[i]) /\ DOMAIN event'[i] = 1..Len(event'[i])
        /\ \A k \in DOMAIN event[i] : event'[i][k] = event[i][k]
        /\ event'[i][Len(event'[i])] = e
    BY <1>4, <1>8, <2>1
  <2>3. TellsCase(c, event'[i])
    <3>1. Len(event'[i]) = c.version - 1
      BY <1>1, <1>3, <2>1, <2>2 DEF TellsCase
    <3>2. event[i] = <<>> <=> Len(event[i]) = 0
      BY <2>1
    <3>3. \A k \in DOMAIN event'[i] :
            event'[i][k].from = (IF k = 1 THEN "open" ELSE event'[i][k - 1].to)
      <4> SUFFICES ASSUME NEW k \in DOMAIN event'[i]
                   PROVE  event'[i][k].from =
                            (IF k = 1 THEN "open" ELSE event'[i][k - 1].to)
        OBVIOUS
      <4>1. CASE k \in DOMAIN event[i]
        <5>1. event[i][k].from = (IF k = 1 THEN "open" ELSE event[i][k - 1].to)
          BY <2>1, <4>1 DEF TellsCase
        <5>2. k # 1 => k - 1 \in DOMAIN event[i]
          BY <2>2, <4>1
        <5> QED
          BY <2>2, <4>1, <5>1, <5>2
      <4>2. CASE k = Len(event[i]) + 1
        <5>1. case[i].state = (IF Len(event[i]) = 0 THEN "open" ELSE event[i][Len(event[i])].to)
          BY <2>1, <3>2 DEF TellsCase
        <5>2. event'[i][k] = e /\ k - 1 = Len(event[i])
          BY <2>2, <4>2
        <5>3. Len(event[i]) # 0 => event'[i][k - 1] = event[i][Len(event[i])]
          BY <2>2, <5>2
        <5> QED
          BY <1>4, <2>2, <4>2, <5>1, <5>2, <5>3
      <4>3. k \in DOMAIN event[i] \/ k = Len(event[i]) + 1
        BY <2>2
      <4> QED
        BY <4>1, <4>2, <4>3
    <3>4. event'[i] # <<>>
      BY <2>2
    <3> QED
      BY <1>3, <1>4, <2>2, <3>1, <3>3, <3>4 DEF TellsCase
  <2>4. c.by # None => \E k \in DOMAIN event'[i] :
          event'[i][k].actor = c.by /\ event'[i][k].to = c.state
    <3>1. Len(event'[i]) \in DOMAIN event'[i]
      BY <2>2
    <3> QED
      BY <1>3, <1>4, <2>2, <3>1
  <2>5. (c.by # None) = (c.state \in Closed)
    BY <1>3
  <2> SUFFICES ASSUME NEW j \in Ids
               PROVE  IF case'[j] = None THEN event'[j] = <<>>
                      ELSE /\ TellsCase(case'[j], event'[j])
                           /\ (case'[j].by # None) = (case'[j].state \in Closed)
                           /\ case'[j].by # None => \E k \in DOMAIN event'[j] :
                                event'[j][k].actor = case'[j].by /\ event'[j][k].to = case'[j].state
    BY DEF EventsTell, TellsCase
  <2>6. CASE j = i
    BY <1>3, <1>5, <2>3, <2>4, <2>5, <2>6
  <2>7. CASE j # i
    <3>1. case'[j] = case[j] /\ event'[j] = event[j]
      BY <1>5, <1>8, <2>7
    <3> QED
      BY <3>1 DEF EventsTell
  <2> QED
    BY <2>6, <2>7
<1>13. booked' \subseteq Raised' /\ PacksAreOneMoment'
  BY <1>2, <1>6 DEF PacksAreOneMoment, OneMoment, TellsCase
<1> QED
  BY <1>10, <1>11, <1>12, <1>13

(* Each decision is such a change. *)
Decides(a) ==
  \E row \in Case, to \in States :
    /\ MayChange(a) /\ Change(a, row, to)
    /\ row.created = case[view[a].id].created /\ row.state = to
    /\ (row.by # None) = (to \in Closed) /\ (row.by # None => row.by = a)

LEMMA DecideIsChange ==
  ASSUME DeskInv, NEW a \in Operators, Decide(a), ~Conflict(a)
  PROVE  Decides(a)
<1> DEFINE i == view[a].id
<1>1. MayChange(a) => case[i] \in Case /\ view[a] \in Screen /\ i \in Ids
  BY DEF MayChange, DeskInv, ScreensAreOld, Raised, TypeOK
<1>2. MayChange(a) => (case[i].by # None) = (case[i].state \in Closed)
  BY <1>1 DEF DeskInv, EventsTell, MayChange, ScreensAreOld, Raised
<1>3. ASSUME NEW b \in Operators, Assign(a, b) PROVE Decides(a)
  <2> DEFINE to == IF case[i].state = "open" THEN "assigned" ELSE case[i].state
             row == [case[i] EXCEPT !.assignee = b, !.state = to]
  <2>1. MayChange(a) /\ case[i].state \notin Closed /\ Change(a, row, to)
    BY <1>3 DEF Assign
  <2>2. to \in States /\ to \notin Closed
    BY <1>1, <2>1 DEF Case, States, Active, Closed
  <2> HIDE DEF to
  <2>3. row \in Case /\ row.state = to /\ row.by = case[i].by /\ row.created = case[i].created
    BY <1>1, <2>1, <2>2 DEF Case
  <2> HIDE DEF row
  <2> QED
    BY <1>2, <2>1, <2>2, <2>3 DEF Decides
<1>4. ASSUME NEW to \in Closed, Resolve(a, to) PROVE Decides(a)
  <2> DEFINE row == [case[i] EXCEPT !.by = a, !.state = to]
  <2>1. MayChange(a) /\ Change(a, row, to) /\ to \in States /\ a # None
    BY <1>4, DeskAssumption DEF Resolve, States
  <2>2. row \in Case /\ row.state = to /\ row.by = a /\ row.created = case[i].created
    BY <1>1, <2>1 DEF Case
  <2> HIDE DEF row
  <2> QED
    BY <2>1, <2>2 DEF Decides
<1>5. ASSUME NEW from \in SUBSET States, NEW to \in States, Transition(a, from, to),
             \/ from \subseteq Active /\ to \in Active \ {"open"}
             \/ to = "open"
      PROVE  Decides(a)
  <2> DEFINE assignee == IF to = "open" THEN None ELSE case[i].assignee
             by == IF to = "open" THEN None ELSE case[i].by
             row == [case[i] EXCEPT !.state = to, !.assignee = assignee, !.by = by]
  <2>1. MayChange(a) /\ case[i].state \in from /\ Change(a, row, to)
    BY <1>5 DEF Transition
  <2>2. assignee \in Operators \cup {None} /\ by = None
    BY <1>1, <1>2, <1>5, <2>1 DEF Case, Active, Closed
  <2> HIDE DEF assignee, by
  <2>3. row \in Case /\ row.state = to /\ row.by = by /\ row.created = case[i].created
    BY <1>1, <2>1, <2>2 DEF Case
  <2>4. to \notin Closed
    BY <1>5 DEF Active, Closed
  <2> HIDE DEF row
  <2> QED
    BY <2>1, <2>2, <2>3, <2>4 DEF Decides
<1>6. CASE StartInvestigation(a) \/ Escalate(a) \/ Reopen(a)
  BY <1>5, <1>6 DEF StartInvestigation, Escalate, Reopen, States, Active, Closed
<1> QED
  BY <1>3, <1>4, <1>6 DEF Decide

LEMMA DecideKeeps ==
  ASSUME DeskInv, NEW a \in Operators, Decide(a)
  PROVE  DeskInv'
<1>1. CASE Conflict(a)
  BY <1>1 DEF Conflict, DeskInv, TypeOK, ScreensAreOld, EventsTell, Raised,
              PacksAreOneMoment, OneMoment, TellsCase
<1>2. CASE ~Conflict(a)
  BY <1>2, DecideIsChange, ChangeKeeps DEF Decides
<1> QED
  BY <1>1, <1>2

(* The statements of a pack: what they find of the snapshot is what the     *)
(* pack has already.                                                        *)
Pack == [pc : {"cases", "events", "journals", "signed"},
         snapshot : Snapshot \cup {None}, part : Snapshot]

LEMMA PackStepKeeps ==
  ASSUME DeskInv, NEW p \in DOMAIN pack, NEW q \in Pack, pack' = [pack EXCEPT ![p] = q],
         q.part = pack[p].part, q.pc # "signed" => q.snapshot = q.part,
         UNCHANGED <<case, event, booked, view, walk>>
  PROVE  DeskInv'
<1> USE DEF DeskInv
<1>1. pack \in Seq(Pack)
  BY DEF TypeOK, Pack
<1>2. /\ pack' \in Seq(Pack) /\ DOMAIN pack' = DOMAIN pack
      /\ \A r \in DOMAIN pack : pack'[r] = (IF r = p THEN q ELSE pack[r])
  BY <1>1
<1>3. TypeOK'
  BY <1>2 DEF TypeOK, Pack
<1>4. PacksAreOneMoment'
  BY <1>2, SMTT(30) DEF PacksAreOneMoment, OneMoment, TellsCase
<1>5. ScreensAreOld' /\ EventsTell' /\ booked' \subseteq Raised'
  BY DEF ScreensAreOld, EventsTell, Raised, TellsCase
<1> QED
  BY <1>3, <1>4, <1>5

LEMMA ProveKeeps ==
  ASSUME DeskInv, Prove
  PROVE  DeskInv'
<1>1. CASE BeginPack
  <2> DEFINE q == [pc |-> "cases", snapshot |-> Now, part |-> Now]
  <2> USE DEF DeskInv
  <2>1. pack \in Seq(Pack) /\ pack' = Append(pack, q)
        /\ UNCHANGED <<case, event, booked, view, walk>>
    BY <1>1 DEF TypeOK, Pack, BeginPack
  <2>2. Now \in Snapshot /\ Now.case = case /\ Now.event = event /\ Now.booked = booked
    BY DEF Now, Snapshot, TypeOK
  <2>3. OneMoment(Now)
    BY <2>2 DEF OneMoment, EventsTell, Raised
  <2>4. q \in Pack /\ q.part = Now /\ q.snapshot = Now
    BY <2>2 DEF Pack
  <2> HIDE DEF q
  <2>5. /\ pack' \in Seq(Pack)
        /\ \A p \in DOMAIN pack' : pack'[p] = q \/ (p \in DOMAIN pack /\ pack'[p] = pack[p])
    BY <2>1, <2>4
  <2>6. TypeOK'
    BY <2>1, <2>5 DEF TypeOK, Pack
  <2>7. PacksAreOneMoment'
    BY <2>3, <2>4, <2>5, SMTT(30) DEF PacksAreOneMoment, OneMoment, TellsCase
  <2>8. ScreensAreOld' /\ EventsTell' /\ booked' \subseteq Raised'
    BY <2>1 DEF ScreensAreOld, EventsTell, Raised, TellsCase
  <2> QED
    BY <2>6, <2>7, <2>8
<1>2. ASSUME NEW p \in DOMAIN pack
      PROVE  /\ pack[p] \in Pack
             /\ pack[p].pc # "signed" => Visible(p) = pack[p].part
             /\ pack[p].pc # "signed" => pack[p].snapshot = pack[p].part
  <2>1. pack \in Seq(Pack)
    BY DEF DeskInv, TypeOK, Pack
  <2>2. pack[p] \in Pack
    BY <1>2, <2>1
  <2> QED
    BY <1>2, <2>2 DEF DeskInv, PacksAreOneMoment, Visible
<1>3. ASSUME NEW p \in DOMAIN pack, ReadCases(p) PROVE DeskInv'
  <2> DEFINE part == [pack[p].part EXCEPT !.case = Visible(p).case]
             q == [pack[p] EXCEPT !.part = part, !.pc = "events"]
  <2>1. part = pack[p].part
    BY <1>2, <1>3 DEF ReadCases, Pack, Snapshot
  <2>2. pack' = [pack EXCEPT ![p] = q] /\ UNCHANGED <<case, event, booked, view, walk>>
    BY <1>3 DEF ReadCases
  <2>3. q \in Pack /\ q.part = pack[p].part /\ q.snapshot = pack[p].part
    BY <1>2, <1>3, <2>1 DEF ReadCases, Pack
  <2> QED
    BY <2>2, <2>3, PackStepKeeps
<1>4. ASSUME NEW p \in DOMAIN pack, ReadEvents(p) PROVE DeskInv'
  <2> DEFINE part == [pack[p].part EXCEPT !.event = Visible(p).event]
             q == [pack[p] EXCEPT !.part = part, !.pc = "journals"]
  <2>1. part = pack[p].part
    BY <1>2, <1>4 DEF ReadEvents, Pack, Snapshot
  <2>2. pack' = [pack EXCEPT ![p] = q] /\ UNCHANGED <<case, event, booked, view, walk>>
    BY <1>4 DEF ReadEvents
  <2>3. q \in Pack /\ q.part = pack[p].part /\ q.snapshot = pack[p].part
    BY <1>2, <1>4, <2>1 DEF ReadEvents, Pack
  <2> QED
    BY <2>2, <2>3, PackStepKeeps
<1>5. ASSUME NEW p \in DOMAIN pack, Sign(p) PROVE DeskInv'
  <2> DEFINE part == [pack[p].part EXCEPT !.booked = Visible(p).booked]
             q == [pack[p] EXCEPT !.part = part, !.snapshot = None, !.pc = "signed"]
  <2>1. part = pack[p].part
    BY <1>2, <1>5 DEF Sign, Pack, Snapshot
  <2>2. pack' = [pack EXCEPT ![p] = q] /\ UNCHANGED <<case, event, booked, view, walk>>
    BY <1>5 DEF Sign
  <2>3. q \in Pack /\ q.part = pack[p].part /\ q.pc = "signed"
    BY <1>2, <1>5, <2>1 DEF Sign, Pack
  <2> QED
    BY <2>2, <2>3, PackStepKeeps
<1> QED
  BY <1>1, <1>3, <1>4, <1>5 DEF Prove

(* The pages of the queue.  A page is named by the rows it is cut from.     *)
Before(R, i) == {j \in R : Ahead(Place(j), Place(i))}
Page(R) == {i \in R : Cardinality(Before(R, i)) < PageLimit}
IsLast(l, S) == l \in S /\ \A j \in S \ {l} : Ahead(Place(j), Place(l))

(* The order of the queue. *)
LEMMA AheadIsOrder ==
  /\ \A p, q \in Nat \X Nat : p = q \/ Ahead(p, q) \/ Ahead(q, p)
  /\ \A p, q, r \in Nat \X Nat : Ahead(p, q) /\ Ahead(q, r) => Ahead(p, r)
  /\ \A p \in Nat \X Nat : ~Ahead(p, p)
  BY DEF Ahead

LEMMA PlacesOfCases ==
  ASSUME TypeOK, NEW i \in Raised
  PROVE  /\ Place(i) \in Times \X Ids /\ Place(i) \in Nat \X Nat /\ Place(i)[2] = i
         /\ Place(i) # None
<1>1. case[i].created \in Times /\ i \in Ids
  BY DEF TypeOK, Raised, Case
<1>2. Place(i) = <<case[i].created, i>>
  BY DEF Place
<1>3. Place(i) \in Times \X Ids /\ Place(i)[2] = i
  BY <1>1, <1>2
<1> QED
  BY <1>1, <1>2, <1>3, DeskAssumption, NoneAssumption

LEMMA LeastNat ==
  ASSUME NEW S \in SUBSET Nat, S # {}
  PROVE  \E x \in S : \A y \in S : x <= y
<1>1. PICK x \in S : \A y \in S : ~(<<y, x>> \in OpToRel(<, Nat))
  BY NatLessThanWellFounded, WFMin
<1>2. \A y \in S : ~(y < x)
  BY <1>1 DEF OpToRel
<1> QED
  BY <1>2

(* The rows ahead of a row are fewer than those ahead of a later one. *)
LEMMA RanksGrow ==
  ASSUME TypeOK, NEW R \in SUBSET Raised
  PROVE  /\ IsFiniteSet(R)
         /\ \A i \in R : /\ Cardinality(Before(R, i)) \in Nat
                         /\ Cardinality(Before(R, i)) < Cardinality(R)
         /\ \A i, j \in R : Ahead(Place(i), Place(j)) =>
              Cardinality(Before(R, i)) < Cardinality(Before(R, j))
<1>1. IsFiniteSet(R)
  BY DeskAssumption, FS_Subset DEF Raised
<1>2. \A i \in R : Place(i) \in Nat \X Nat
  BY PlacesOfCases
<1>3. ASSUME NEW S \in SUBSET R, NEW i \in R, Before(R, i) \subseteq S, i \in S
      PROVE  /\ Cardinality(Before(R, i)) \in Nat
             /\ Cardinality(Before(R, i)) < Cardinality(S)
  <2>1. i \notin Before(R, i)
    BY <1>2, AheadIsOrder DEF Before
  <2>2. IsFiniteSet(Before(R, i)) /\ IsFiniteSet(S)
    BY <1>1, <1>3, FS_Subset
  <2>3. Cardinality(Before(R, i) \cup {i}) = Cardinality(Before(R, i)) + 1
    BY <2>1, <2>2, FS_AddElement
  <2>4. Cardinality(Before(R, i) \cup {i}) <= Cardinality(S)
    BY <1>3, <2>2, FS_Subset
  <2> QED
    BY <2>2, <2>3, <2>4, FS_CardinalityType
<1>4. ASSUME NEW i \in R, NEW j \in R, Ahead(Place(i), Place(j))
      PROVE  Cardinality(Before(R, i)) < Cardinality(Before(R, j))
  <2>1. Before(R, i) \subseteq Before(R, j) /\ i \in Before(R, j)
    BY <1>2, <1>4, AheadIsOrder DEF Before
  <2>2. Before(R, j) \subseteq R
    BY DEF Before
  <2> QED
    BY <1>3, <2>1, <2>2
<1>5. \A i \in R : Before(R, i) \subseteq R
  BY DEF Before
<1> QED
  BY <1>1, <1>3, <1>4, <1>5

(* A page has all the rows or ends with one that is ahead of the others. *)
LEMMA PageOfRows ==
  ASSUME TypeOK, NEW R \in SUBSET Raised
  PROVE  /\ Cardinality(R) <= PageLimit => Page(R) = R
         /\ ~(Cardinality(R) <= PageLimit) =>
              /\ \E l : IsLast(l, Page(R))
              /\ \A l : IsLast(l, Page(R)) =>
                   \A i \in R \ Page(R) : Ahead(Place(l), Place(i))
<1> DEFINE rank(i) == Cardinality(Before(R, i))
<1>1. /\ IsFiniteSet(R) /\ Cardinality(R) \in Nat
      /\ \A i \in R : rank(i) \in Nat /\ rank(i) < Cardinality(R)
      /\ \A i, j \in R : Ahead(Place(i), Place(j)) => rank(i) < rank(j)
  BY RanksGrow, FS_CardinalityType
<1>2. /\ \A i \in R : Place(i) \in Nat \X Nat /\ Place(i)[2] = i
      /\ PageLimit \in Nat \ {0}
  BY PlacesOfCases, DeskAssumption
<1>3. \A i, j \in R : i # j => Ahead(Place(i), Place(j)) \/ Ahead(Place(j), Place(i))
  BY <1>2, AheadIsOrder
<1>4. \A i : i \in Page(R) <=> i \in R /\ rank(i) < PageLimit
  BY DEF Page
<1>5. Cardinality(R) <= PageLimit => Page(R) = R
  BY <1>1, <1>2, <1>4
<1>6. ASSUME ~(Cardinality(R) <= PageLimit) PROVE \E m \in R : rank(m) < PageLimit
  <2>1. R # {}
    BY <1>2, <1>6, FS_EmptySet
  <2> DEFINE S == {rank(i) : i \in R}
  <2>2. S \in SUBSET Nat /\ S # {}
    BY <1>1, <2>1
  <2>3. PICK x \in S : \A y \in S : x <= y
    BY <2>2, LeastNat
  <2>4. PICK m \in R : x = rank(m)
    BY <2>3
  <2>5. \A i \in R : ~Ahead(Place(i), Place(m))
    <3>1. \A i \in R : rank(m) <= rank(i)
      BY <2>3, <2>4
    <3> QED
      BY <1>1, <3>1
  <2>6. Before(R, m) = {}
    BY <2>5 DEF Before
  <2>7. rank(m) = 0
    BY <2>6, FS_EmptySet
  <2> QED
    BY <1>2, <2>7
<1>7. ASSUME ~(Cardinality(R) <= PageLimit) PROVE \E l : IsLast(l, Page(R))
  <2> DEFINE S == {PageLimit - rank(i) : i \in Page(R)}
  <2>1. S \in SUBSET Nat /\ S # {}
    BY <1>1, <1>2, <1>4, <1>6, <1>7
  <2>2. PICK x \in S : \A y \in S : x <= y
    BY <2>1, LeastNat
  <2>3. PICK l \in Page(R) : x = PageLimit - rank(l)
    BY <2>2
  <2>4. \A j \in Page(R) : rank(j) <= rank(l)
    BY <1>1, <1>2, <1>4, <2>2, <2>3
  <2> QED
    BY <1>1, <1>3, <1>4, <2>3, <2>4 DEF IsLast
<1>8. ASSUME NEW l, IsLast(l, Page(R)), NEW i \in R \ Page(R)
      PROVE  Ahead(Place(l), Place(i))
  <2>1. l \in R /\ l # i /\ rank(l) < PageLimit /\ ~(rank(i) < PageLimit)
    BY <1>4, <1>8 DEF IsLast
  <2>2. ~(rank(i) < rank(l))
    BY <1>1, <1>2, <2>1
  <2> QED
    BY <1>1, <1>3, <2>1, <2>2
<1> QED
  BY <1>5, <1>7, <1>8

LEMMA ListTypes ==
  ASSUME TypeOK, List
  PROVE  walk' \in Queue \cup {None} /\ UNCHANGED <<case, event, booked, view, pack>>
<1>1. ASSUME NEW filter \in SUBSET States, StartWalk(filter) PROVE walk' \in Queue
  <2>1. Matching(filter) \subseteq Ids
    BY DEF Matching, Raised
  <2> QED
    BY <1>1, <2>1 DEF StartWalk, Queue
<1>2. ASSUME NextPage PROVE walk' \in Queue
  <2> DEFINE page == Page(Rest)
             l == CHOOSE i \in page : \A j \in page \ {i} : Ahead(Place(j), Place(i))
             after == IF Cardinality(Rest) <= PageLimit THEN None ELSE Place(l)
  <2>1. Rest \in SUBSET Raised /\ page \subseteq Ids /\ Rest \in SUBSET Ids
    BY DEF Rest, Matching, Raised, Page
  <2>2. after \in {None} \cup (Times \X Ids)
    <3>1. ~(Cardinality(Rest) <= PageLimit) => IsLast(l, page)
      BY <2>1, PageOfRows DEF IsLast
    <3>2. IsLast(l, page) => l \in Raised
      BY <2>1 DEF IsLast, Page
    <3> QED
      BY <3>1, <3>2, PlacesOfCases
  <2>3. walk \in Queue
    BY <1>2 DEF NextPage, TypeOK
  <2>4. walk' = [walk EXCEPT !.listed = @ \cup page,
                             !.twice = @ \/ page \cap walk.listed # {},
                             !.done = Cardinality(Rest) <= PageLimit,
                             !.after = after]
    BY <1>2 DEF NextPage, Page, Before
  <2>5. ASSUME NEW q \in Queue, NEW listed \in SUBSET Ids, NEW twice \in BOOLEAN,
               NEW done \in BOOLEAN, NEW a \in {None} \cup (Times \X Ids)
        PROVE  [q EXCEPT !.listed = listed, !.twice = twice, !.done = done,
                         !.after = a] \in Queue
    BY DEF Queue
  <2>6. walk.listed \cup page \in SUBSET Ids
    BY <2>1, <2>3 DEF Queue
  <2>7. (walk.twice \/ page \cap walk.listed # {}) \in BOOLEAN
        /\ (Cardinality(Rest) <= PageLimit) \in BOOLEAN
    OBVIOUS
  <2> HIDE DEF page, after
  <2> QED
    BY <2>2, <2>3, <2>4, <2>5, <2>6, <2>7
<1> QED
  BY <1>1, <1>2 DEF List, StartWalk, NextPage

LEMMA DeskStep == DeskInv /\ [Next]_vars => DeskInv'
<1> SUFFICES ASSUME DeskInv, [Next]_vars PROVE DeskInv'
  OBVIOUS
<1>1. CASE Raise
  BY <1>1, RaiseKeeps DEF Raise
<1>2. CASE List
  BY <1>2, ListTypes, QueueStepKeeps DEF DeskInv
<1>3. CASE Prove
  BY <1>3, ProveKeeps
<1>4. ASSUME NEW a \in Operators, Decide(a) PROVE DeskInv'
  BY <1>4, DecideKeeps
<1>5. ASSUME NEW a \in Operators, NEW i \in Ids, Look(a, i) PROVE DeskInv'
  BY <1>5, LookKeeps
<1>6. CASE UNCHANGED vars
  BY <1>6, QueueStepKeeps DEF vars, DeskInv, TypeOK
<1> QED
  BY <1>1, <1>2, <1>3, <1>4, <1>5, <1>6 DEF Next

LEMMA DeskInvariance == Spec => []DeskInv
  BY DeskInitInv, DeskStep, PTL DEF Spec

(* Type correctness of the desk. *)
THEOREM DeskTypes == Spec => []TypeOK
  BY DeskInvariance, PTL DEF DeskInv

(* The events of a case lead to its state, one for each version, and say    *)
(* who closed it.                                                           *)
THEOREM HistoryIsTold == Spec => []HistoryTellsCase
<1>1. DeskInv => HistoryTellsCase
  BY DEF DeskInv, EventsTell, HistoryTellsCase, Raised
<1> QED
  BY <1>1, DeskInvariance, PTL

(* A pack that was signed is the state of one moment. *)
THEOREM PackIsSignedWhole == Spec => []PackIsOneMoment
<1>1. DeskInv => PackIsOneMoment
  BY DEF DeskInv, PacksAreOneMoment, OneMoment, PackIsOneMoment
<1> QED
  BY <1>1, DeskInvariance, PTL

LEMMA ChangeAsSeen ==
  ASSUME DeskInv, NEW a \in Operators, NEW row, NEW to \in States,
         MayChange(a), Change(a, row, to), NEW i \in Ids, event'[i] # event[i]
  PROVE  event'[i][Len(event'[i])].seen = case[i]
<1> DEFINE e == [from |-> case[i].state, to |-> to, actor |-> a, seen |-> view[a].case]
<1>1. event \in [Ids -> Seq(Event)] /\ event[i] \in Seq(Event)
  BY DEF DeskInv, TypeOK
<1>2. i = view[a].id /\ event'[i] = Append(event[i], e)
  BY <1>1 DEF Change
<1>3. e.seen = case[i]
  BY <1>2 DEF MayChange, DeskInv, ScreensAreOld
<1> HIDE DEF e
<1>4. event'[i][Len(event'[i])] = e
  BY <1>1, <1>2
<1> QED
  BY <1>3, <1>4

(* No operator overwrites what another one did in between. *)
THEOREM DecisionsAreAsSeen == Spec => DecidedAsSeen
<1> DEFINE Seen == \A i \in Ids : event'[i] # event[i] =>
                     event'[i][Len(event'[i])].seen = case[i]
<1>1. DeskInv /\ [Next]_vars => [Seen]_vars
  <2> SUFFICES ASSUME DeskInv, Next, NEW i \in Ids, event'[i] # event[i]
               PROVE  event'[i][Len(event'[i])].seen = case[i]
    OBVIOUS
  <2>1. ASSUME NEW a \in Operators, Decide(a)
        PROVE  event'[i][Len(event'[i])].seen = case[i]
    <3>1. ~Conflict(a)
      BY SMTT(30) DEF Conflict
    <3> QED
      BY <2>1, <3>1, DecideIsChange, ChangeAsSeen DEF Decides
  <2>2. ~Raise /\ ~Prove /\ ~List /\ \A a \in Operators, j \in Ids : ~Look(a, j)
    BY DEF Raise, RaiseCase, Prove, BeginPack, ReadCases, ReadEvents, Sign, List, StartWalk,
           NextPage, Look
  <2> QED
    BY <2>1, <2>2 DEF Next
<1> QED
  BY <1>1, DeskInvariance, PTL DEF Spec, DecidedAsSeen

(* What a walk has listed lies before its cursor, and what it must still    *)
(* list lies behind it.                                                     *)
WalkIsOrderly ==
  walk # None =>
    /\ walk.listed \subseteq Raised /\ ~walk.twice
    /\ IF walk.done THEN walk.must \subseteq walk.listed
       ELSE /\ walk.after = None => walk.listed = {}
            /\ walk.after # None => \A i \in walk.listed : ~Ahead(walk.after, Place(i))
            /\ walk.must \subseteq walk.listed \cup Rest

(* A step of the walk: the rows of a page are new, and those that are not   *)
(* listed yet lie behind the new cursor.                                    *)
LEMMA NextPageKeeps ==
  ASSUME TypeOK, WalkIsOrderly, NextPage
  PROVE  WalkIsOrderly'
<1> DEFINE page == Page(Rest)
           all == Cardinality(Rest) <= PageLimit
           l == CHOOSE i \in page : \A j \in page \ {i} : Ahead(Place(j), Place(i))
           after == IF all THEN None ELSE Place(l)
<1>1. /\ walk \in Queue /\ ~walk.done /\ walk # None /\ ~walk.twice
      /\ walk.listed \subseteq Raised
      /\ walk.after = None => walk.listed = {}
      /\ walk.after # None => \A i \in walk.listed : ~Ahead(walk.after, Place(i))
      /\ walk.must \subseteq walk.listed \cup Rest
  BY DEF NextPage, TypeOK, WalkIsOrderly
<1>2. /\ Rest \in SUBSET Raised /\ page \subseteq Rest /\ Rest \subseteq Matching(walk.filter)
      /\ \A i \in Rest : walk.after # None => Ahead(walk.after, Place(i))
  BY DEF Rest, Matching, Page
<1>3. /\ all => page = Rest
      /\ ~all => IsLast(l, page) /\ \A i \in Rest \ page : Ahead(Place(l), Place(i))
  BY <1>2, PageOfRows DEF IsLast
<1>4. page \cap walk.listed = {}
  BY <1>1, <1>2
<1>5. /\ walk' = [walk EXCEPT !.listed = @ \cup page,
                              !.twice = @ \/ page \cap walk.listed # {},
                              !.done = all, !.after = after]
      /\ UNCHANGED case
  BY DEF NextPage, Page, Before
<1>6. /\ walk'.listed = walk.listed \cup page /\ walk'.must = walk.must
      /\ walk'.after = after /\ walk'.filter = walk.filter
      /\ walk'.done = all /\ walk'.twice = (walk.twice \/ page \cap walk.listed # {})
  <2> DEFINE listed == walk.listed \cup page
             twice == walk.twice \/ page \cap walk.listed # {}
  <2>1. twice \in BOOLEAN /\ all \in BOOLEAN
    OBVIOUS
  <2>2. walk' = [walk EXCEPT !.listed = listed, !.twice = twice, !.done = all, !.after = after]
    BY <1>5
  <2> HIDE DEF page, after, all, listed, twice
  <2>3. /\ walk'.listed = listed /\ walk'.must = walk.must /\ walk'.filter = walk.filter
        /\ walk'.after = after /\ walk'.done = all /\ walk'.twice = twice
    BY <1>1, <2>1, <2>2 DEF Queue
  <2> QED
    BY <2>3 DEF listed, twice
<1>7. Raised' = Raised /\ \A i : Place(i)' = Place(i)
  BY <1>5 DEF Raised, Place
<1>8. \A i \in Raised : Place(i) \in Nat \X Nat /\ Place(i) # None
  BY PlacesOfCases
<1> HIDE DEF page, all, l
<1>9. CASE all
  <2>1. walk.must \subseteq walk.listed \cup page
    BY <1>1, <1>3, <1>9
  <2> QED
    BY <1>1, <1>2, <1>4, <1>6, <1>7, <1>9, <2>1 DEF WalkIsOrderly
<1>10. CASE ~all
  <2>1. l \in page /\ l \in Rest /\ l \in Raised /\ after = Place(l) /\ after # None
    BY <1>2, <1>3, <1>8, <1>10 DEF IsLast
  <2>2. \A i \in page : ~Ahead(Place(l), Place(i))
    <3> SUFFICES ASSUME NEW i \in page PROVE ~Ahead(Place(l), Place(i))
      OBVIOUS
    <3>1. i = l \/ Ahead(Place(i), Place(l))
      BY <1>3, <1>10 DEF IsLast
    <3> QED
      BY <1>2, <1>8, <2>1, <3>1, AheadIsOrder
  <2>3. \A i \in walk.listed : ~Ahead(Place(l), Place(i))
    <3> SUFFICES ASSUME NEW i \in walk.listed, Ahead(Place(l), Place(i)) PROVE FALSE
      OBVIOUS
    <3>1. walk.after # None /\ Ahead(walk.after, Place(l)) /\ walk.after \in Nat \X Nat
      BY <1>1, <1>2, <2>1, DeskAssumption DEF Queue
    <3> QED
      BY <1>1, <1>8, <2>1, <3>1, AheadIsOrder
  <2>4. \A i \in Rest \ page : i \in Rest'
    BY <1>2, <1>3, <1>5, <1>6, <1>7, <1>10, <2>1 DEF Rest, Matching
  <2>5. walk.must \subseteq walk.listed \cup page \cup Rest'
    BY <1>1, <2>4
  <2> HIDE DEF after
  <2> QED
    BY <1>1, <1>2, <1>4, <1>6, <1>7, <1>10, <2>1, <2>2, <2>3, <2>5 DEF WalkIsOrderly
<1> QED
  BY <1>9, <1>10

(* A change takes a case out of the rows that are left only together with   *)
(* the need to list it.                                                     *)
LEMMA ChangeKeepsWalk ==
  ASSUME DeskInv, WalkIsOrderly, NEW a \in Operators, Decides(a)
  PROVE  WalkIsOrderly'
<1> DEFINE i == view[a].id
<1>1. PICK row \in Case, to \in States :
        /\ MayChange(a) /\ Change(a, row, to)
        /\ row.created = case[i].created /\ row.state = to
  BY DEF Decides
<1> DEFINE c == [row EXCEPT !.version = case[i].version + 1]
<1>2. i \in Raised /\ i \in Ids /\ case \in [Ids -> Case \cup {None}]
  BY <1>1 DEF MayChange, DeskInv, ScreensAreOld, Raised, TypeOK
<1>3. case' = [case EXCEPT ![i] = c] /\ Leaves(i, to)
  BY <1>1 DEF Change
<1>4. c # None /\ c.state = to /\ c.created = case[i].created
  <2>1. c \in Case
    <3>1. case[i] \in Case /\ case[i].version < MaxVersion
      BY <1>1, <1>2 DEF Change, Raised
    <3> QED
      BY <3>1, DeskAssumption DEF Case
  <2> QED
    BY <1>1, <2>1, NoneAssumption DEF Case
<1> HIDE DEF c
<1>5. case'[i] = c /\ \A j \in Ids : j # i => case'[j] = case[j]
  BY <1>2, <1>3
<1>6. Raised' = Raised /\ \A j \in Raised : Place(j)' = Place(j)
  BY <1>2, <1>4, <1>5 DEF Raised, Place
<1>7. ASSUME walk # None
      PROVE  /\ walk' # None /\ walk'.filter = walk.filter /\ walk'.after = walk.after
             /\ walk'.listed = walk.listed /\ walk'.twice = walk.twice
             /\ walk'.done = walk.done
             /\ walk'.must = (IF to \in walk.filter THEN walk.must ELSE walk.must \ {i})
  <2>1. walk \in Queue
    BY <1>7 DEF DeskInv, TypeOK
  <2>2. [walk EXCEPT !.must = @ \ {i}] \in Queue
    BY <2>1 DEF Queue
  <2> QED
    BY <1>3, <1>7, <2>1, <2>2, NoneAssumption DEF Leaves, Queue
<1>8. CASE walk = None
  BY <1>3, <1>8 DEF Leaves, WalkIsOrderly
<1>9. CASE walk # None
  <2>1. \A j \in Rest : j \in Rest' \/ (j = i /\ to \notin walk.filter)
    BY <1>2, <1>4, <1>5, <1>6, <1>7, <1>9 DEF Rest, Matching, Raised
  <2> QED
    BY <1>6, <1>7, <1>9, <2>1 DEF WalkIsOrderly
<1> QED
  BY <1>8, <1>9

LEMMA WalkStep == DeskInv /\ WalkIsOrderly /\ [Next]_vars => WalkIsOrderly'
<1> SUFFICES ASSUME DeskInv, WalkIsOrderly, [Next]_vars PROVE WalkIsOrderly'
  OBVIOUS
<1>1. CASE NextPage
  BY <1>1, NextPageKeeps DEF DeskInv
<1>2. ASSUME NEW filter \in SUBSET States, StartWalk(filter) PROVE WalkIsOrderly'
  BY <1>2 DEF StartWalk, WalkIsOrderly, Rest, Matching, Raised
<1>3. ASSUME NEW i \in Ids, NEW t \in Times, NEW own \in BOOLEAN, RaiseCase(i, t, own)
      PROVE  WalkIsOrderly'
  <2>1. \A j \in Raised : j # i /\ case'[j] = case[j]
    BY <1>3 DEF RaiseCase, Raised, DeskInv, TypeOK
  <2>2. Raised \subseteq Raised' /\ walk' = walk
    BY <1>3, <2>1 DEF RaiseCase, Raised
  <2>3. \A j \in Raised : Place(j)' = Place(j)
    BY <2>1 DEF Place
  <2>4. Rest \subseteq Rest'
    BY <2>1, <2>2, <2>3 DEF Rest, Matching
  <2> QED
    BY <2>2, <2>3, <2>4 DEF WalkIsOrderly
<1>4. ASSUME UNCHANGED <<case, walk>> PROVE WalkIsOrderly'
  BY <1>4 DEF WalkIsOrderly, Rest, Matching, Raised, Place
<1>5. ASSUME NEW a \in Operators, Decide(a) PROVE WalkIsOrderly'
  BY <1>4, <1>5, DecideIsChange, ChangeKeepsWalk, SMTT(30) DEF Conflict
<1>6. CASE Prove \/ UNCHANGED vars \/ \E a \in Operators, i \in Ids : Look(a, i)
  BY <1>4, <1>6 DEF Prove, BeginPack, ReadCases, ReadEvents, Sign, vars, Look
<1>7. \A filter \in {{s} : s \in States} \cup {States} : filter \in SUBSET States
  OBVIOUS
<1> QED
  BY <1>1, <1>2, <1>3, <1>5, <1>6, <1>7 DEF Next, Raise, List

(* A walk to the end of the queue lists every case that was there all along *)
(* and none twice.                                                          *)
THEOREM WalkMissesNone == Spec => []WalkListsAll
<1>1. Init => WalkIsOrderly
  BY DEF Init, WalkIsOrderly
<1>2. WalkIsOrderly => WalkListsAll
  BY DEF WalkIsOrderly, WalkListsAll
<1> QED
  BY <1>1, <1>2, WalkStep, DeskInvariance, PTL DEF Spec
=============================================================================
