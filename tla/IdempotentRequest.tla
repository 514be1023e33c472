-------------------------- MODULE IdempotentRequest --------------------------
(***************************************************************************)
(* Mutating requests of the API under an Idempotency-Key                   *)
(* (apps/api/src/protocol/idempotent-route.ts,                             *)
(* platform/src/idempotency/idempotency-store.ts).                         *)
(*                                                                         *)
(* A request is claimed in one transaction, executed, and completed: by    *)
(* the operation in its own transaction if it succeeds (and by some if     *)
(* they refuse), by the route in another transaction if it is refused.     *)
(* A lease of 30 s may run out between any two steps, as requests run on   *)
(* several servers with a clock each, so it is no clock but a flag here.   *)
(*                                                                         *)
(* All operations are on one object, which admits them or does not (an     *)
(* invoice in draft, a case of the expected version); others change it.    *)
(***************************************************************************)
EXTENDS Naturals

CONSTANTS
  Requests,   \* the requests that servers handle at a time
  Keys,       \* idempotency keys, with their organization, actor and route
  KeyOf,      \* the key of a request
  DigestOf,   \* the digest of its method, path and body
  None

ASSUME RequestsAssumption ==
  /\ KeyOf \in [Requests -> Keys]
  /\ None \notin Requests \cup {DigestOf[r] : r \in Requests}

VARIABLES
  state,      \* api_idempotency_records, per key: "absent" if there is none
  digest,     \*   request_digest, of the first request
  holder,     \*   lease_token: the execution it was minted for
  live,       \*   lease_expires_at is to come
  response,   \*   the recorded response
  pc,         \* the executions on the servers
  open,       \* whether the object admits the operation
  applied,    \* history: how often the operation of a key was committed
  said        \* history: the answers given under a key

recordVars == <<state, digest, holder, live, response>>
vars == <<recordVars, pc, open, applied, said>>

State == {"absent", "in_progress", "completed"}
Response == {"applied", "refused"}
Digest == {DigestOf[r] : r \in Requests}
Answer == [key : Keys, digest : Digest, answer : Response]

Init ==
  /\ state = [k \in Keys |-> "absent"]
  /\ digest = [k \in Keys |-> None]
  /\ holder = [k \in Keys |-> None]
  /\ live = [k \in Keys |-> FALSE]
  /\ response = [k \in Keys |-> "none"]
  /\ pc = [r \in Requests |-> "idle"]
  /\ open \in BOOLEAN
  /\ applied = [k \in Keys |-> 0]
  /\ said = {}

-----------------------------------------------------------------------------
(* The claim.  A request that meets another digest (409) or a live lease    *)
(* (409) changes nothing.                                                   *)

(* Mutant: a lease that ran out is not taken over. *)
Claimable_New(r) == state[KeyOf[r]] = "absent"

Claimable(r) ==
  \/ state[KeyOf[r]] = "absent"
  \/ /\ state[KeyOf[r]] = "in_progress"
     /\ digest[KeyOf[r]] = DigestOf[r]
     /\ ~live[KeyOf[r]]

(* The transaction commits; its reply may be lost with the server. *)
Claim(r) ==
  /\ pc[r] = "idle"
  /\ Claimable(r)
  /\ state' = [state EXCEPT ![KeyOf[r]] = "in_progress"]
  /\ digest' = [digest EXCEPT ![KeyOf[r]] = DigestOf[r]]
  /\ holder' = [holder EXCEPT ![KeyOf[r]] = r]
  /\ live' = [live EXCEPT ![KeyOf[r]] = TRUE]
  /\ pc' \in {pc, [pc EXCEPT ![r] = "executing"]}
  /\ UNCHANGED <<response, open, applied, said>>

Saying(r, a) ==
  said \cup {[key |-> KeyOf[r], digest |-> DigestOf[r], answer |-> a]}

Replay(r) ==
  /\ pc[r] = "idle"
  /\ state[KeyOf[r]] = "completed"
  /\ digest[KeyOf[r]] = DigestOf[r]
  /\ said' = Saying(r, response[KeyOf[r]])
  /\ UNCHANGED <<recordVars, pc, open, applied>>

(* Time passes. *)
Expire(k) ==
  /\ live[k]
  /\ live' = [live EXCEPT ![k] = FALSE]
  /\ UNCHANGED <<state, digest, holder, response, pc, open, applied, said>>

-----------------------------------------------------------------------------
(* The execution. *)

(* Mutant: the record is looked up by its id only. *)
Fenced_ById(r) == state[KeyOf[r]] # "absent"

(* completeIdempotency finds its record; else it throws, and takes the      *)
(* transaction it is called in with it (Fail).                              *)
Fenced(r) == state[KeyOf[r]] = "in_progress" /\ holder[KeyOf[r]] = r

(* The record is completed with a, and the answer sent if the reply of the  *)
(* commit comes in.                                                         *)
Complete(r, a) ==
  /\ Fenced(r)
  /\ state' = [state EXCEPT ![KeyOf[r]] = "completed"]
  /\ response' = [response EXCEPT ![KeyOf[r]] = a]
  /\ said' \in {said, Saying(r, a)}
  /\ pc' = [pc EXCEPT ![r] = "idle"]
  /\ UNCHANGED <<digest, holder, live>>

(* The operation and its completion commit together. *)
Apply(r) ==
  /\ pc[r] = "executing"
  /\ open
  /\ open' = FALSE
  /\ applied' = [applied EXCEPT ![KeyOf[r]] = @ + 1]
  /\ Complete(r, "applied")

(* An operation that completes its refusal in its own transaction. *)
Refuse(r) ==
  /\ pc[r] = "executing"
  /\ ~open
  /\ Complete(r, "refused")
  /\ UNCHANGED <<open, applied>>

(* An operation that throws its refusal, which the route turns into a       *)
(* result and records in a transaction of its own.                          *)
Reject(r) ==
  /\ pc[r] = "executing"
  /\ ~open
  /\ pc' = [pc EXCEPT ![r] = "rejected"]
  /\ UNCHANGED <<recordVars, open, applied, said>>

RecordRejection(r) ==
  /\ pc[r] = "rejected"
  /\ Complete(r, "refused")
  /\ UNCHANGED <<open, applied>>

(* The execution ends without a trace: the lease was lost, the database or  *)
(* a provider is unavailable (500, or a 503 that may be retried), or the    *)
(* server dies.                                                             *)
Fail(r) ==
  /\ pc[r] # "idle"
  /\ pc' = [pc EXCEPT ![r] = "idle"]
  /\ UNCHANGED <<recordVars, open, applied, said>>

(* Other actors, and requests without a key here, act on the object. *)
Others ==
  /\ open' = ~open
  /\ UNCHANGED <<recordVars, pc, applied, said>>

-----------------------------------------------------------------------------
Commit(r) == Apply(r) \/ Refuse(r) \/ RecordRejection(r)

Handle(r) == Claim(r) \/ Replay(r) \/ Commit(r) \/ Reject(r) \/ Fail(r)

Next ==
  \/ \E r \in Requests : Handle(r)
  \/ \E k \in Keys : Expire(k)
  \/ Others

Spec == Init /\ [][Next]_vars

(* Leases run out and executions end; a client without an answer sends its  *)
(* request again, which is executed in the end; and one that is executed    *)
(* again and again commits in the end before its lease is taken over.       *)
FairSpec ==
  /\ Spec
  /\ \A k \in Keys : WF_vars(Expire(k))
  /\ \A r \in Requests :
       WF_vars(Replay(r)) /\ WF_vars(Commit(r) \/ Fail(r))
  /\ \A k \in Keys :
       /\ SF_vars(\E r \in Requests : KeyOf[r] = k /\ Claim(r) /\ pc'[r] = "executing")
       /\ SF_vars(\E r \in Requests : KeyOf[r] = k /\ Commit(r))

-----------------------------------------------------------------------------
(* Properties. *)

TypeOK ==
  /\ state \in [Keys -> State]
  /\ digest \in [Keys -> Digest \cup {None}]
  /\ holder \in [Keys -> Requests \cup {None}]
  /\ live \in [Keys -> BOOLEAN]
  /\ response \in [Keys -> Response \cup {"none"}]
  /\ pc \in [Requests -> {"idle", "executing", "rejected"}]
  /\ open \in BOOLEAN
  /\ applied \in [Keys -> Nat]
  /\ said \subseteq Answer

(* The operation of a key is committed at most once, and exactly when it    *)
(* is recorded: though its execution outlived its lease and another one ran *)
(* beside it, and though the reply of its commit was lost.                  *)
AppliedOnce ==
  \A k \in Keys : applied[k] = IF response[k] = "applied" THEN 1 ELSE 0

(* All requests with a key that are answered get one answer, which is the   *)
(* recorded one, and only those with the body it was first used with.  With *)
(* AppliedOnce: nobody is told of a refusal who has had the effect.         *)
AnswersAgree ==
  \A x \in said :
    /\ state[x.key] = "completed"
    /\ response[x.key] = x.answer
    /\ digest[x.key] = x.digest

(* A key in use is answered in the end, though executions die and replies   *)
(* are lost.                                                                *)
KeyIsAnswered ==
  \A k \in Keys : state[k] = "in_progress" ~> \E x \in said : x.key = k

Abstract == INSTANCE OneAnswer WITH outcome <- response, effects <- applied

(* The records, the object and the effects on it implement OneAnswer.       *)
ImplementsOneAnswer == Abstract!Spec
=============================================================================
