-------------------------- MODULE WebhookExchange ---------------------------
(***************************************************************************)
(* One event on its way to the merchant: the endpoint with its signing     *)
(* secrets (webhooks/src/storage/postgres-webhook-store.ts), the request   *)
(* of each attempt through the HTTPS transport (transport/                 *)
(* https-transport.ts), and the receiver that the package exports for      *)
(* merchants (examples/verify-consumer.ts, signing/hmac.ts).               *)
(*                                                                         *)
(* When an attempt is made is told in WebhookDelivery.  Here any number of *)
(* them may be under way at a time, as after lapsed leases and replays.    *)
(* Secrets are known by the names of their environment variables.  A       *)
(* request that has left may reach the receiver after its sender gave up.  *)
(***************************************************************************)
EXTENDS Naturals, FiniteSets

CONSTANTS
  Secrets,
  NoSecret,
  Sends        \* attempts to deliver the event

ASSUME ExchangeAssumption == NoSecret \notin Secrets

VARIABLES
  endpoint,    \* webhook_endpoints: secret_env and previous_secret_env
  send,        \* an attempt in its worker's memory; turns counts rotations since
  request,     \* what became of it at the receiver
  receiver,    \* the consumer's memory; acts counts what it applied
  acted        \* history: the event was applied by this consumer or one before

exchange == <<endpoint, send, request, receiver, acted>>

-----------------------------------------------------------------------------
NoEndpoint == [secret |-> NoSecret, previous |-> NoSecret]
Unsent == [pc |-> "idle", secret |-> NoSecret, turns |-> 0, outcome |-> "none"]
NoRequest == [at |-> "none", status |-> 0]
NewReceiver(S) ==
  [secrets |-> S, processed |-> FALSE, active |-> {}, acts |-> 0]

(* A receiver has its current secret and perhaps the one before. *)
SecretPairs == {S \in SUBSET Secrets : Cardinality(S) \in {1, 2}}

ExchangeInit ==
  /\ endpoint = NoEndpoint
  /\ send = [n \in Sends |-> Unsent]
  /\ request = [n \in Sends |-> NoRequest]
  /\ \E S \in SecretPairs : receiver = NewReceiver(S)
  /\ acted = FALSE

-----------------------------------------------------------------------------
(* The operator's commands.  An endpoint that is there is not added again.  *)
AddEndpoint(s) ==
  /\ endpoint = NoEndpoint
  /\ endpoint' = [secret |-> s, previous |-> NoSecret]
  /\ UNCHANGED <<send, request, receiver, acted>>

(* A command that is repeated changes nothing. *)
Changes(s) == endpoint # NoEndpoint /\ endpoint.secret # s

RotateSecret(s) ==
  /\ Changes(s)
  /\ endpoint' = [secret |-> s, previous |-> endpoint.secret]
  /\ send' = [n \in Sends |->
                IF send[n].pc = "idle" \/ send[n].turns = 2 THEN send[n]
                ELSE [send[n] EXCEPT !.turns = @ + 1]]
  /\ UNCHANGED <<request, receiver, acted>>

-----------------------------------------------------------------------------
(* A claim reads the endpoint's secret with the delivery. *)
ClaimSend(n) ==
  /\ send[n].pc = "idle" /\ endpoint # NoEndpoint
  /\ send' = [send EXCEPT ![n].pc = "claimed", ![n].secret = endpoint.secret]
  /\ UNCHANGED <<endpoint, request, receiver, acted>>

Ends(n, outcome) ==
  send' = [send EXCEPT ![n].pc = "over", ![n].outcome = outcome]

(* It ends without a request when its time is over or the worker's          *)
(* environment lacks the secret.                                            *)
SignOrEnd(n) ==
  /\ send[n].pc = "claimed"
  /\ \/ Ends(n, "dead")
     \/ send' = [send EXCEPT ![n].pc = "resolving"]
  /\ UNCHANGED <<endpoint, request, receiver, acted>>

(* All addresses of the host are allowed, and the first is connected to. *)
Connect(n) ==
  /\ send[n].pc = "resolving"
  /\ send' = [send EXCEPT ![n].pc = "requesting"]
  /\ request' = [request EXCEPT ![n].at = "sent"]
  /\ UNCHANGED <<endpoint, receiver, acted>>

ReadHeaders(n) ==
  /\ send[n].pc = "requesting" /\ request[n].at = "answered"
  /\ send' = [send EXCEPT ![n].pc = "reading"]
  /\ UNCHANGED <<endpoint, request, receiver, acted>>

(* classifyDeliveryResult *)
Class(status) ==
  CASE status \in 200..299 -> "succeeded"
    [] status \in {408, 425, 429} \cup 500..599 -> "retry"
    [] OTHER -> "dead"

ReadBody(n) ==
  /\ send[n].pc = "reading"
  /\ Ends(n, Class(request[n].status))
  /\ UNCHANGED <<endpoint, request, receiver, acted>>

(* The host has no address or one that is not allowed, the connection       *)
(* fails, the body is too large, or one of the timeouts ends the request,   *)
(* the total one at any await: all are worth a retry.                       *)
TransportFails(n) ==
  /\ send[n].pc \in {"resolving", "requesting", "reading"}
  /\ Ends(n, "retry")
  /\ UNCHANGED <<endpoint, request, receiver, acted>>

WorkerDies(n) ==
  /\ send[n].pc \in {"claimed", "resolving", "requesting", "reading"}
  /\ Ends(n, "none")
  /\ UNCHANGED <<endpoint, request, receiver, acted>>

-----------------------------------------------------------------------------
(* verifyWebhook *)
SignatureMatches(n) == send[n].secret \in receiver.secrets

Answer(m, status) == [m EXCEPT !.at = "answered", !.status = status]

(* A signature of another secret, or a timestamp outside the tolerance. *)
RefuseRequest(n) ==
  /\ request[n].at = "sent"
  /\ request' = [request EXCEPT ![n] = Answer(@, 400)]
  /\ UNCHANGED <<endpoint, send, receiver, acted>>

(* Mutant: a request for an event that is being applied is not held back. *)
Duplicate_Processed(n) == FALSE
Duplicate(n) == receiver.active # {}

(* An event that was applied is acknowledged; one that is being applied is  *)
(* waited for; else it is applied.                                          *)
HandleRequest(n) ==
  /\ request[n].at = "sent" /\ SignatureMatches(n)
  /\ \/ /\ receiver.processed
        /\ request' = [request EXCEPT ![n] = Answer(@, 204)]
        /\ UNCHANGED receiver
     \/ /\ ~receiver.processed /\ Duplicate(n)
        /\ request' = [request EXCEPT ![n].at = "waiting"]
        /\ UNCHANGED receiver
     \/ /\ ~receiver.processed /\ ~Duplicate(n)
        /\ request' = [request EXCEPT ![n].at = "applying"]
        /\ receiver' = [receiver EXCEPT !.active = {n}]
  /\ UNCHANGED <<endpoint, send, acted>>

(* applyOnce: it is applied or throws, and all that waited are answered. *)
ApplyOnce(n, ok) ==
  /\ request[n].at = "applying"
  /\ request' = [m \in Sends |->
       IF m = n \/ request[m].at = "waiting"
       THEN Answer(request[m], IF ok THEN 204 ELSE 500) ELSE request[m]]
  /\ receiver' = [receiver EXCEPT !.active = {}, !.processed = @ \/ ok,
                                  !.acts = IF ok THEN @ + 1 ELSE @]
  /\ acted' = (acted \/ ok)
  /\ UNCHANGED <<endpoint, send>>

(* The receiver is started anew, perhaps with other secrets.  It remembers  *)
(* nothing, and the requests it was at are lost.                            *)
RestartReceiver(S) ==
  /\ receiver' = NewReceiver(S)
  /\ request' = [n \in Sends |->
       IF request[n].at \in {"waiting", "applying"}
       THEN [request[n] EXCEPT !.at = "lost"] ELSE request[n]]
  /\ UNCHANGED <<endpoint, send, acted>>

ExchangeNext ==
  \/ \E s \in Secrets : AddEndpoint(s) \/ RotateSecret(s)
  \/ \E n \in Sends :
       \/ ClaimSend(n) \/ SignOrEnd(n) \/ Connect(n)
       \/ ReadHeaders(n) \/ ReadBody(n) \/ TransportFails(n) \/ WorkerDies(n)
       \/ RefuseRequest(n) \/ HandleRequest(n)
       \/ \E ok \in BOOLEAN : ApplyOnce(n, ok)
  \/ \E S \in SecretPairs : RestartReceiver(S)

ExchangeSpec == ExchangeInit /\ [][ExchangeNext]_exchange

-----------------------------------------------------------------------------
(* A receiver applies the event at most once, however many attempts reach   *)
(* it, one after the other or at a time (verify-consumer.ts:66).            *)
AppliedOnceHere == receiver.acts <= 1

(* What is recorded as delivered was applied: no acknowledgement is given   *)
(* on behalf of an attempt whose application then failed.                   *)
ToldIsApplied == (\E n \in Sends : send[n].outcome = "succeeded") => acted

(* An attempt that was claimed before a rotation is signed with a secret    *)
(* that the endpoint still lists, so that a receiver with both accepts it;  *)
(* a rotation that is repeated does not drop the one before.                *)
SecretsOverlap ==
  \A n \in Sends :
    send[n].pc # "idle" /\ send[n].turns <= 1 =>
      send[n].secret \in {endpoint.secret, endpoint.previous}

(* Safety: sending at least once comes to acting once.  An event is applied *)
(* once by a receiver, is so when its delivery counts as succeeded, and     *)
(* survives a rotation of the secret on its way.                            *)
DeliveredIsApplied == AppliedOnceHere /\ ToldIsApplied /\ SecretsOverlap
=============================================================================
