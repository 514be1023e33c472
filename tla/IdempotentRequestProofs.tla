----------------------- MODULE IdempotentRequestProofs -----------------------
(***************************************************************************)
(* Proofs about IdempotentRequest, for any requests, keys and bodies.      *)
(***************************************************************************)
EXTENDS IdempotentRequest, TLAPS

(* A record holds a response exactly when it is completed (the CHECK of     *)
(* migration 4004).                                                         *)
ResponseWhenCompleted ==
  \A k \in Keys : response[k] = "none" <=> state[k] # "completed"

(* The lease of a key is held by an execution of its first body.            *)
HolderHasBody ==
  \A r \in Requests : holder[KeyOf[r]] = r => digest[KeyOf[r]] = DigestOf[r]

(* The inductive invariant.  Without ResponseWhenCompleted an execution     *)
(* that finds its record in progress could be the second one to apply, and  *)
(* without HolderHasBody it could answer for another body.                  *)
IInv ==
  TypeOK /\ ResponseWhenCompleted /\ HolderHasBody /\ AppliedOnce /\ AnswersAgree

(* The initial records, object and histories satisfy the invariant.         *)
LEMMA InitInvariant == Init => IInv
  BY RequestsAssumption
  DEF Init, IInv, TypeOK, State, Response, Digest, Answer, ResponseWhenCompleted,
      HolderHasBody, AppliedOnce, AnswersAgree

(* A claim touches no completed record, and nothing that was said or done.  *)
LEMMA ClaimKeeps ==
  ASSUME NEW r \in Requests, IInv, Claim(r)
  PROVE  IInv'
<1> USE RequestsAssumption DEF IInv, Claim
<1>1. TypeOK'
  BY DEF TypeOK, State, Digest
<1>2. state[KeyOf[r]] # "completed"
  BY DEF Claimable
<1>3. ResponseWhenCompleted'
  BY <1>2 DEF ResponseWhenCompleted, TypeOK
<1>4. AppliedOnce' /\ HolderHasBody'
  BY DEF AppliedOnce, HolderHasBody, TypeOK
<1>5. AnswersAgree'
  <2> SUFFICES ASSUME NEW x \in said
               PROVE  state'[x.key] = "completed" /\ digest'[x.key] = x.digest
                        /\ response[x.key] = x.answer
    BY DEF AnswersAgree
  <2>1. x.key # KeyOf[r]
    BY <1>2 DEF AnswersAgree
  <2> QED
    BY <2>1 DEF AnswersAgree, TypeOK, Answer
<1> QED
  BY <1>1, <1>3, <1>4, <1>5

(* A replay says what is recorded.                                          *)
LEMMA ReplayKeeps ==
  ASSUME NEW r \in Requests, IInv, Replay(r)
  PROVE  IInv'
<1> DEFINE x == [key |-> KeyOf[r], digest |-> DigestOf[r], answer |-> response[KeyOf[r]]]
<1>1. response[KeyOf[r]] \in Response
  BY RequestsAssumption DEF IInv, TypeOK, Replay, ResponseWhenCompleted
<1>2. x \in Answer
  BY <1>1, RequestsAssumption DEF Answer, Digest
<1>3. said' = said \cup {x}
  BY DEF Replay, Saying
<1>4. TypeOK'
  BY <1>2, <1>3 DEF IInv, TypeOK, Replay, recordVars
<1>5. ResponseWhenCompleted' /\ HolderHasBody' /\ AppliedOnce'
  BY DEF IInv, ResponseWhenCompleted, HolderHasBody, AppliedOnce, Replay, recordVars
<1>6. AnswersAgree'
  BY <1>3 DEF IInv, AnswersAgree, Replay, recordVars
<1> QED
  BY <1>4, <1>5, <1>6 DEF IInv

(* A completion records the first response of its key, which then is what   *)
(* was said and what was done.                                              *)
LEMMA CompletionKeeps ==
  ASSUME NEW r \in Requests, NEW a \in Response, IInv, Complete(r, a), open' \in BOOLEAN,
         applied' = [applied EXCEPT ![KeyOf[r]] = @ + (IF a = "applied" THEN 1 ELSE 0)]
  PROVE  IInv'
<1> DEFINE y == [key |-> KeyOf[r], digest |-> DigestOf[r], answer |-> a]
<1> USE RequestsAssumption DEF IInv, Complete, Response
<1>1. /\ state[KeyOf[r]] # "completed" /\ response[KeyOf[r]] = "none"
      /\ digest[KeyOf[r]] = DigestOf[r]
  BY DEF Fenced, ResponseWhenCompleted, HolderHasBody
<1>2. y \in Answer
  BY DEF Answer, Digest
<1>3. said' = said \/ said' = said \cup {y}
  BY DEF Saying
<1>4. TypeOK'
  <2>1. said' \subseteq Answer
    BY <1>2, <1>3 DEF TypeOK
  <2>2. state' \in [Keys -> State] /\ response' \in [Keys -> Response \cup {"none"}]
    BY DEF TypeOK, State
  <2>3. applied' \in [Keys -> Nat]
    <3>1. (IF a = "applied" THEN 1 ELSE 0) \in Nat
      OBVIOUS
    <3> HIDE DEF Complete
    <3> QED
      BY <3>1 DEF TypeOK
  <2>4. pc' \in [Requests -> {"idle", "executing", "rejected"}]
    BY DEF TypeOK
  <2> QED
    BY <2>1, <2>2, <2>3, <2>4 DEF TypeOK
<1>5. ResponseWhenCompleted' /\ HolderHasBody'
  BY DEF ResponseWhenCompleted, HolderHasBody, TypeOK
<1>6. AppliedOnce'
  BY <1>1 DEF AppliedOnce, TypeOK
<1>7. AnswersAgree'
  <2> SUFFICES ASSUME NEW x \in said'
               PROVE  state'[x.key] = "completed" /\ digest[x.key] = x.digest
                        /\ response'[x.key] = x.answer
    BY DEF AnswersAgree
  <2>1. CASE x \in said
    <3>1. x.key # KeyOf[r]
      BY <1>1, <2>1 DEF AnswersAgree
    <3> QED
      BY <2>1, <3>1 DEF AnswersAgree, TypeOK, Answer
  <2>2. CASE x = y
    BY <1>1, <2>2 DEF TypeOK
  <2> QED
    BY <1>3, <2>1, <2>2
<1> QED
  BY <1>4, <1>5, <1>6, <1>7

(* The other steps change neither the records, but for a lease that runs    *)
(* out, nor what was said or done.                                          *)
LEMMA QuietKeeps ==
  ASSUME IInv, UNCHANGED <<state, digest, holder, response, applied, said>>,
         live' \in [Keys -> BOOLEAN], open' \in BOOLEAN,
         pc' \in [Requests -> {"idle", "executing", "rejected"}]
  PROVE  IInv'
  BY DEF IInv, TypeOK, ResponseWhenCompleted, HolderHasBody, AppliedOnce, AnswersAgree

(* Every step of the requests, the clock and the other actors keeps the     *)
(* invariant.                                                               *)
LEMMA StepInvariant == IInv /\ [Next]_vars => IInv'
<1> SUFFICES ASSUME IInv, [Next]_vars PROVE IInv'
  OBVIOUS
<1> USE RequestsAssumption DEF recordVars
<1>1. ASSUME NEW r \in Requests, Claim(r) \/ Replay(r) PROVE IInv'
  BY <1>1, ClaimKeeps, ReplayKeeps
<1>2. ASSUME NEW r \in Requests, Apply(r) PROVE IInv'
  <2>1. Complete(r, "applied") /\ open' \in BOOLEAN
    BY <1>2 DEF Apply
  <2>2. applied' = [applied EXCEPT ![KeyOf[r]] = @ + (IF "applied" = "applied" THEN 1 ELSE 0)]
    BY <1>2 DEF Apply
  <2> QED
    BY <2>1, <2>2, CompletionKeeps DEF Response
<1>3. ASSUME NEW r \in Requests, Refuse(r) \/ RecordRejection(r) PROVE IInv'
  <2>1. Complete(r, "refused") /\ open' \in BOOLEAN
    BY <1>3 DEF Refuse, RecordRejection, IInv, TypeOK
  <2>2. applied' = [applied EXCEPT ![KeyOf[r]] = @ + (IF "refused" = "applied" THEN 1 ELSE 0)]
    BY <1>3 DEF Refuse, RecordRejection, IInv, TypeOK
  <2> QED
    BY <2>1, <2>2, CompletionKeeps DEF Response
<1>4. ASSUME NEW r \in Requests, Reject(r) \/ Fail(r) PROVE IInv'
  BY <1>4, QuietKeeps DEF Reject, Fail, IInv, TypeOK
<1>5. ASSUME NEW k \in Keys, Expire(k) PROVE IInv'
  BY <1>5, QuietKeeps DEF Expire, IInv, TypeOK
<1>6. CASE Others \/ UNCHANGED vars
  BY <1>6, QuietKeeps DEF Others, vars, IInv, TypeOK
<1> QED
  BY <1>1, <1>2, <1>3, <1>4, <1>5, <1>6 DEF Next, Handle, Commit

(* The invariant holds of every reachable state.                            *)
LEMMA Invariance == Spec => []IInv
  BY InitInvariant, StepInvariant, PTL DEF Spec

(* The effect of a key is committed at most once, with its record.          *)
THEOREM KeysApplyOnce == Spec => []AppliedOnce
  BY Invariance, PTL DEF IInv

(* All the answers under a key are the recorded one, for its first body.    *)
THEOREM OneAnswerPerKey == Spec => []AnswersAgree
  BY Invariance, PTL DEF IInv

-----------------------------------------------------------------------------
(* The response, the object and the effect change together, once, or the    *)
(* step is one of the others or none.                                       *)
LEMMA StepImplements ==
  IInv /\ [Next]_vars => [Abstract!Next]_<<open, response, applied>>
<1> SUFFICES ASSUME IInv, Next PROVE Abstract!Next \/ UNCHANGED <<open, response, applied>>
  BY DEF vars, recordVars
<1> USE RequestsAssumption DEF recordVars
<1>1. ASSUME NEW r \in Requests, NEW a \in Response, Complete(r, a)
      PROVE  response[KeyOf[r]] = "none"
               /\ response' = [response EXCEPT ![KeyOf[r]] = a]
  BY <1>1 DEF Complete, Fenced, IInv, ResponseWhenCompleted
<1>2. ASSUME NEW r \in Requests, Apply(r) PROVE Abstract!Apply(KeyOf[r])
  BY <1>1, <1>2 DEF Apply, Response, Abstract!Apply
<1>3. ASSUME NEW r \in Requests, Refuse(r) \/ RecordRejection(r)
      PROVE  Abstract!Refuse(KeyOf[r])
  BY <1>1, <1>3 DEF Refuse, RecordRejection, Response, Abstract!Refuse
<1>4. ASSUME NEW r \in Requests, Claim(r) \/ Replay(r) \/ Reject(r) \/ Fail(r)
      PROVE  UNCHANGED <<open, response, applied>>
  BY <1>4 DEF Claim, Replay, Reject, Fail
<1>5. ASSUME NEW k \in Keys, Expire(k) PROVE UNCHANGED <<open, response, applied>>
  BY <1>5 DEF Expire
<1>6. CASE Others
  BY <1>6 DEF Others, Abstract!Next, Abstract!Others
<1> QED
  BY <1>2, <1>3, <1>4, <1>5, <1>6 DEF Next, Handle, Commit, Abstract!Next

(* The idempotency records implement OneAnswer.                             *)
THEOREM RecordsImplementOneAnswer == Spec => ImplementsOneAnswer
<1>1. Init => Abstract!Init
  BY DEF Init, Abstract!Init
<1> QED
  BY <1>1, Invariance, StepImplements, PTL DEF Spec, ImplementsOneAnswer, Abstract!Spec
=============================================================================
