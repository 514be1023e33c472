------------------------ MODULE ChainEvidenceProofs ------------------------
(***************************************************************************)
(* Proofs about the evidence of payments and what is made of it.           *)
(*                                                                         *)
(* ChainEvidence, for any watch targets, claims, contents of the           *)
(* transaction and limits: type correctness, what a finalized transfer     *)
(* rests on, what a reversion took, and that the recorded state of the     *)
(* transfer implements Evidence, on which the projector builds.            *)
(*                                                                         *)
(* StandaloneReconciliation, for any files, events and runners, and        *)
(* PilotAudit, for any commands, stages and reports.                       *)
(*                                                                         *)
(* PaymentCheck, for any accounts, amounts and length of a transaction.    *)
(* PublicAnalysis, for any chains, limits and lengths of a page.           *)
(***************************************************************************)
EXTENDS ChainEvidence, StandaloneReconciliation, PilotAudit, PaymentCheck, PublicAnalysis,
        TLAPS, FiniteSetTheorems, WellFoundedInduction

(* A refresh knows the first digest of its row, and as long as it holds the *)
(* claim, how often the row was missing.                                    *)
ChecksAreTrue ==
  \A k \in Refreshers : check[k] # NoCheck =>
    LET x == check[k]
    IN /\ x.parse # 0 => parse[x.target] = x.parse
       /\ claim[x.target] = k => missing[x.target] = x.missing

(* The count in the row is that of the answers in a row without a status. *)
MissingIsSilence == \A t \in Targets : missing[t] = silent[t]

(* A row that is not final was parsed from the archived content, and the    *)
(* transfer from the same one.                                              *)
OneContent ==
  /\ \A t \in Targets : state[t] \notin Final /\ parse[t] # 0 =>
       archived # 0 /\ parse[t] = ParseOf[archived]
  /\ event # "absent" => source # 0
  /\ source # 0 => source = archived

EvidenceInv ==
  TypeOK /\ ChecksAreTrue /\ MissingIsSilence /\ OneContent /\ FinalizedIsBacked

LEMMA EvidenceInit == Init => EvidenceInv
  BY ConstantsAssumption
  DEF Init, EvidenceInv, TypeOK, ChecksAreTrue, MissingIsSilence, OneContent,
      FinalizedIsBacked, Provisional

-----------------------------------------------------------------------------
(* The backfill. *)

(* What storing a row makes of it.  The event and its source may change, as *)
(* long as they agree with what is archived.                                *)
LEMMA StoredKeeps ==
  ASSUME EvidenceInv, NEW t \in Targets, NEW c \in {"pending"} \cup Class,
         NEW p \in {0} \cup (Nat \ {0}), Stored(t, c, p),
         UNCHANGED <<absences, claim, finals, check>>,
         listing' \in [Targets -> {"idle", "same", "moved"}], listed' \in 0..MaxListings,
         archived' \in Contents \cup {0}, archived # 0 => archived' = archived,
         p # 0 /\ c # "quarantined" => archived' # 0 /\ p = ParseOf[archived'],
         event' \in {"absent"} \cup Provisional \cup Final, source' \in Contents \cup {0},
         event' = "finalized" => event = "finalized",
         source # 0 => source' = source,
         source' # 0 => source' = archived', event' # "absent" => source' # 0
  PROVE  EvidenceInv'
<1> USE DEF EvidenceInv
<1>1. /\ state \in [Targets -> {"absent"} \cup Provisional \cup Final]
      /\ class \in [Targets -> {"none", "pending"} \cup Class]
      /\ parse \in [Targets -> Nat]
  BY DEF TypeOK
<1>2. FinalityOf(c) \in Provisional \cup Final
      /\ (c = "quarantined" => FinalityOf(c) \in Final)
  BY DEF FinalityOf, Class, Provisional, Final
<1>3. /\ \A u \in Targets : u # t => state'[u] = state[u] /\ parse'[u] = parse[u]
      /\ state[t] \in Final => state'[t] = state[t]
      /\ state[t] \notin Final => state'[t] = FinalityOf(c)
      /\ parse'[t] = (IF parse[t] = 0 THEN p ELSE parse[t])
  BY <1>1 DEF Stored
<1>4. /\ state' \in [Targets -> {"absent"} \cup Provisional \cup Final]
      /\ class' \in [Targets -> {"none", "pending"} \cup Class]
      /\ parse' \in [Targets -> Nat]
  BY <1>1, <1>2 DEF Stored
<1>5. TypeOK'
  BY <1>4 DEF TypeOK, absences
<1>6. ChecksAreTrue' /\ MissingIsSilence'
  BY <1>3 DEF ChecksAreTrue, MissingIsSilence, absences, TypeOK, Candidate
<1>7. OneContent'
  <2>1. ASSUME NEW u \in Targets, state'[u] \notin Final, parse'[u] # 0
        PROVE  archived' # 0 /\ parse'[u] = ParseOf[archived']
    <3>1. state[u] \notin Final
      BY <1>3, <2>1
    <3>2. CASE parse[u] # 0
      BY <1>3, <3>1, <3>2 DEF OneContent
    <3>3. CASE parse[u] = 0
      <4>1. u = t /\ c # "quarantined" /\ parse'[u] = p
        BY <1>2, <1>3, <2>1, <3>1, <3>3
      <4> QED
        BY <2>1, <4>1
    <3> QED
      BY <3>2, <3>3
  <2> QED
    BY <2>1 DEF OneContent
<1>8. FinalizedIsBacked'
  <2>1. \A u \in Targets : state[u] = "finalized" => state'[u] = "finalized"
    BY <1>3 DEF Final
  <2> QED
    BY <2>1 DEF FinalizedIsBacked, OneContent
<1> QED
  BY <1>5, <1>6, <1>7, <1>8

LEMMA BackfillKeeps ==
  ASSUME EvidenceInv, NEW t \in Targets, Backfill(t)
  PROVE  EvidenceInv'
<1> USE ConstantsAssumption
<1>1. TypeOK /\ OneContent
  BY DEF EvidenceInv
<1>2. \A w \in {"idle", "same", "moved"} :
        [listing EXCEPT ![t] = w] \in [Targets -> {"idle", "same", "moved"}]
  BY <1>1 DEF TypeOK
<1>3. ASSUME NEW moved \in BOOLEAN, List(t, moved) PROVE EvidenceInv'
  <2> DEFINE c == IF moved THEN "quarantined" ELSE "pending"
  <2>1. c \in {"pending"} \cup Class
    BY DEF Class
  <2>2. listing' \in [Targets -> {"idle", "same", "moved"}] /\ listed' \in 0..MaxListings
    BY <1>1, <1>2, <1>3 DEF List, TypeOK
  <2>3. Stored(t, c, 0) /\ UNCHANGED <<absences, claim, archived, finals, transfer, check>>
    BY <1>3 DEF List
  <2> HIDE DEF c
  <2> QED
    BY <1>1, <2>1, <2>2, <2>3, StoredKeeps DEF transfer, OneContent, TypeOK
<1>4. ASSUME NEW c \in Contents, Fetch(t, c) PROVE EvidenceInv'
  <2> DEFINE cl == ClassStored(t, c)
  <2>1. cl \in Class /\ cl \in {"pending"} \cup Class
    BY DEF ClassStored, Class
  <2>2. ParseOf[c] \in Nat \ {0} /\ c # 0
    OBVIOUS
  <2>3. /\ archived' = (IF archived = 0 THEN c ELSE archived)
        /\ Stored(t, cl, ParseOf[c]) /\ EventStored(c, cl)
        /\ UNCHANGED <<absences, claim, finals, check, listed>>
    BY <1>4 DEF Fetch
  <2>4. cl # "quarantined" => archived' = c
    BY <2>3 DEF ClassStored, Conflict
  <2>5. listing' \in [Targets -> {"idle", "same", "moved"}] /\ listed' \in 0..MaxListings
    BY <1>1, <1>2, <1>4 DEF Fetch, TypeOK
  <2>6. archived' \in Contents \cup {0} /\ (archived # 0 => archived' = archived)
    BY <1>1, <2>3 DEF TypeOK
  <2> HIDE DEF cl
  <2>7. /\ event' \in {"absent"} \cup Provisional \cup Final
        /\ source' \in Contents \cup {0}
        /\ event' = "finalized" => event = "finalized"
        /\ event' # "absent" => source' # 0
        /\ source # 0 => source' = source
        /\ source' # 0 => source' = archived'
    <3>1. CASE cl = "quarantined" /\ event # "absent"
      BY <1>1, <2>2, <2>3, <3>1 DEF EventStored, TypeOK, OneContent, Final
    <3>2. CASE cl = "parsed" /\ event = "absent" /\ source = 0
      BY <1>1, <2>2, <2>3, <2>4, <3>2 DEF EventStored, Provisional
    <3>3. CASE cl = "parsed" /\ event = "absent" /\ source # 0
      BY <1>1, <2>2, <2>3, <2>4, <3>3 DEF EventStored, Provisional, OneContent
    <3>4. CASE ~(cl = "quarantined" /\ event # "absent") /\ ~(cl = "parsed" /\ event = "absent")
      BY <1>1, <2>3, <3>4 DEF EventStored, transfer, TypeOK, OneContent
    <3> QED
      BY <3>1, <3>2, <3>3, <3>4
  <2> QED
    BY <2>1, <2>2, <2>3, <2>4, <2>5, <2>6, <2>7, StoredKeeps
<1>5. CASE FetchDeferred(t)
  <2>1. listing' \in [Targets -> {"idle", "same", "moved"}]
    BY <1>2, <1>5 DEF FetchDeferred
  <2> QED
    BY <1>5, <2>1
    DEF FetchDeferred, EvidenceInv, TypeOK, ChecksAreTrue, MissingIsSilence, OneContent,
        FinalizedIsBacked, rows, absences, transfer
<1>6. CASE FetchRefused(t)
  <2>1. listing' \in [Targets -> {"idle", "same", "moved"}] /\ "quarantined" \in Class
    BY <1>2, <1>6 DEF FetchRefused, Class
  <2>2. Stored(t, "quarantined", 0)
        /\ UNCHANGED <<absences, claim, archived, finals, transfer, check, listed>>
    BY <1>6 DEF FetchRefused
  <2> QED
    BY <1>1, <2>1, <2>2, StoredKeeps DEF transfer, OneContent, TypeOK
<1> QED
  BY <1>3, <1>4, <1>5, <1>6 DEF Backfill

-----------------------------------------------------------------------------
(* Finality. *)

LEMMA CandidatesOfChecks ==
  ASSUME TypeOK, NEW k \in Refreshers, check[k] # NoCheck
  PROVE  check[k] \in Candidate /\ check[k].target \in Targets
  BY DEF TypeOK, Candidate

LEMMA ClaimKeeps ==
  ASSUME EvidenceInv, NEW k \in Refreshers, NEW t \in Targets, Claim(k, t)
  PROVE  EvidenceInv'
<1> DEFINE x == [target |-> t, state |-> state[t], parse |-> parse[t], missing |-> missing[t],
                 first |-> first[t], archived |-> finals # {}]
<1> USE ConstantsAssumption DEF EvidenceInv
<1>1. x \in Candidate
  BY DEF TypeOK, Candidate, Claim, Claimable
<1>2. /\ x.target = t /\ x.parse = parse[t] /\ x.missing = missing[t]
      /\ check' = [check EXCEPT ![k] = x] /\ claim' = [claim EXCEPT ![t] = k]
      /\ UNCHANGED <<rows, absences, backfill, archived, finals, transfer>>
  BY DEF Claim
<1> HIDE DEF x
<1>3. /\ \A j \in Refreshers : check'[j] = (IF j = k THEN x ELSE check[j])
      /\ \A u \in Targets : claim'[u] = (IF u = t THEN k ELSE claim[u])
  BY <1>2 DEF TypeOK
<1>4. TypeOK'
  BY <1>1, <1>2 DEF TypeOK, rows, absences, backfill, transfer
<1>5. ChecksAreTrue'
  <2> SUFFICES ASSUME NEW j \in Refreshers, check'[j] # NoCheck
               PROVE  /\ check'[j].parse # 0 => parse'[check'[j].target] = check'[j].parse
                      /\ claim'[check'[j].target] = j =>
                           missing'[check'[j].target] = check'[j].missing
    BY DEF ChecksAreTrue
  <2>1. CASE j = k
    BY <1>2, <1>3, <2>1 DEF rows, absences
  <2>2. CASE j # k
    <3>1. check'[j] = check[j] /\ check[j].target \in Targets
      BY <1>3, <2>2, CandidatesOfChecks
    <3> QED
      BY <1>2, <1>3, <2>2, <3>1 DEF ChecksAreTrue, rows, absences
  <2> QED
    BY <2>1, <2>2
<1>6. MissingIsSilence' /\ OneContent' /\ FinalizedIsBacked'
  BY <1>2 DEF MissingIsSilence, OneContent, FinalizedIsBacked, rows, absences, transfer
<1> QED
  BY <1>4, <1>5, <1>6

(* The end of a check without a record. *)
LEMMA DroppingKeeps ==
  ASSUME EvidenceInv, NEW k \in Refreshers, check' = [check EXCEPT ![k] = NoCheck],
         UNCHANGED <<rows, absences, claim, backfill, archived, finals, transfer>>
  PROVE  EvidenceInv'
<1> USE DEF EvidenceInv, rows, absences, backfill, transfer
<1>1. \A j \in Refreshers : check'[j] = (IF j = k THEN NoCheck ELSE check[j])
  BY DEF TypeOK
<1>2. TypeOK'
  BY DEF TypeOK
<1>3. ChecksAreTrue'
  BY <1>1 DEF ChecksAreTrue
<1>4. MissingIsSilence' /\ OneContent' /\ FinalizedIsBacked'
  BY DEF MissingIsSilence, OneContent, FinalizedIsBacked
<1> QED
  BY <1>2, <1>3, <1>4

(* What an answer may say of a candidate: final only with a snapshot that   *)
(* parses as the row did, gone only without a status and at the limit.      *)
LEMMA AnswersAreSound ==
  ASSUME NEW x \in Candidate, NEW s \in Slots, NEW a \in Answers(x, s)
  PROVE  /\ a.status \in BOOLEAN /\ a.next \in Provisional \cup Final
         /\ a.snapshot \in Contents \cup {0}
         /\ a.next = "finalized" => a.snapshot \in Contents /\ ParseOf[a.snapshot] = x.parse
         /\ a.next = "reverted" => ~a.status /\ a.snapshot = 0 /\ x.missing + 1 >= MissingLimit
<1>1. x.state \in Provisional
  BY DEF Candidate
<1>2. ASSUME NEW n \in {"failed", "confirmed", "quarantined", x.state}, a = Shown(n, 0)
      PROVE  /\ a.status = TRUE /\ a.next \in (Provisional \cup Final) \ {"finalized", "reverted"}
             /\ a.snapshot = 0
  BY <1>1, <1>2 DEF Shown, Provisional, Final
<1>3. ASSUME NEW c \in Contents, a = Shown(Judged(x, c), c)
      PROVE  /\ a.status = TRUE /\ a.next \in {"finalized", "quarantined"} /\ a.snapshot = c
             /\ a.next = "finalized" => ParseOf[c] = x.parse
  BY <1>3 DEF Shown, Judged
<1>4. ASSUME NEW n \in {x.state, "quarantined", "reverted"}, NEW c \in Contents \cup {0},
             a = Silence(n, c),
             n = "reverted" => c = 0 /\ ShouldTestReversion(x, s)
      PROVE  /\ a.status = FALSE /\ a.next \in (Provisional \cup Final) \ {"finalized"}
             /\ a.snapshot = c
             /\ a.next = "reverted" => a.snapshot = 0 /\ x.missing + 1 >= MissingLimit
  BY <1>1, <1>4 DEF Silence, ShouldTestReversion, Provisional, Final
<1>5. \/ \E n \in {"failed", "confirmed", "quarantined", x.state} : a = Shown(n, 0)
      \/ \E c \in Contents : a = Shown(Judged(x, c), c)
      \/ \E n \in {x.state, "quarantined", "reverted"}, c \in Contents \cup {0} :
           /\ a = Silence(n, c)
           /\ n = "reverted" => c = 0 /\ ShouldTestReversion(x, s)
  <2>1. x.state # "reverted"
    BY <1>1 DEF Provisional
  <2> QED
    BY <2>1 DEF Answers
<1> QED
  BY <1>2, <1>3, <1>4, <1>5 DEF Final

(* What is recorded of an answer. *)
LEMMA RecordKeeps ==
  ASSUME EvidenceInv, NEW k \in Refreshers, check[k] # NoCheck, NEW s \in Slots,
         NEW a \in Answers(check[k], s), RecordAnswer(k, s, a)
  PROVE  EvidenceInv'
<1> DEFINE x == check[k]
           t == check[k].target
           e == Effective(check[k], a)
<1> USE ConstantsAssumption DEF EvidenceInv
<1>1. x \in Candidate /\ t \in Targets /\ x.state \in Provisional
  BY CandidatesOfChecks DEF Candidate
<1>2. /\ a.status \in BOOLEAN /\ a.next \in Provisional \cup Final
      /\ a.snapshot \in Contents \cup {0}
      /\ a.next = "finalized" => a.snapshot \in Contents /\ ParseOf[a.snapshot] = x.parse
  BY <1>1, AnswersAreSound
<1>3. /\ state[t] = x.state /\ claim[t] = k
      /\ state' = [state EXCEPT ![t] = e]
      /\ missing' = [missing EXCEPT ![t] = IF a.status THEN 0 ELSE AtMost(@ + 1, MissingLimit)]
      /\ first' = [first EXCEPT ![t] = IF a.status THEN 0 ELSE IF @ = 0 THEN s + 1 ELSE @]
      /\ silent' = [silent EXCEPT ![t] = IF a.status THEN 0 ELSE AtMost(@ + 1, MissingLimit)]
      /\ claim' = [claim EXCEPT ![t] = Nobody]
      /\ finals' = finals \cup ({a.snapshot} \ {0})
      /\ event' = EventAfter(e)
      /\ check' = [check EXCEPT ![k] = NoCheck]
      /\ UNCHANGED <<class, parse, source, listing, listed, archived>>
  BY DEF RecordAnswer, Fenced, Recorded, backfill
<1>4. /\ e \in Provisional \cup Final
      /\ e = "finalized" => /\ a.snapshot \in Contents /\ ParseOf[a.snapshot] = x.parse
                            /\ finals' = {a.snapshot}
      /\ a.snapshot # 0 /\ finals' # {a.snapshot} => e = "quarantined"
  <2>1. x.state # "finalized" /\ "quarantined" \in Final
    BY <1>1 DEF Provisional, Final
  <2> QED
    BY <1>1, <1>2, <1>3, <2>1 DEF Effective
<1> HIDE DEF e
<1>5. ASSUME NEW n \in 0..MissingLimit PROVE AtMost(n + 1, MissingLimit) \in 0..MissingLimit
  BY DEF AtMost
<1>6. TypeOK'
  <2>1. event' \in {"absent"} \cup Provisional \cup Final
    BY <1>3, <1>4 DEF EventAfter, TypeOK
  <2>2. missing' \in [Targets -> 0..MissingLimit] /\ silent' \in [Targets -> 0..MissingLimit]
    <3>1. ASSUME NEW f \in [Targets -> 0..MissingLimit]
          PROVE  [f EXCEPT ![t] = IF a.status THEN 0 ELSE AtMost(@ + 1, MissingLimit)]
                   \in [Targets -> 0..MissingLimit]
      <4>1. f[t] \in 0..MissingLimit /\ 0 \in 0..MissingLimit
        BY <1>1
      <4>2. (IF a.status THEN 0 ELSE AtMost(f[t] + 1, MissingLimit)) \in 0..MissingLimit
        BY <1>5, <4>1
      <4> QED
        BY <4>2
    <3> QED
      BY <1>3, <3>1 DEF TypeOK
  <2>3. first' \in [Targets -> 0..(MaxSlot + 1)]
    <3>1. first[t] \in 0..(MaxSlot + 1) /\ 0 \in 0..(MaxSlot + 1) /\ s + 1 \in 0..(MaxSlot + 1)
      BY <1>1 DEF TypeOK, Slots
    <3>2. (IF a.status THEN 0 ELSE IF first[t] = 0 THEN s + 1 ELSE first[t]) \in 0..(MaxSlot + 1)
      BY <3>1
    <3> QED
      BY <1>3, <3>2 DEF TypeOK
  <2>4. finals' \subseteq Contents
    BY <1>2, <1>3 DEF TypeOK
  <2>5. /\ state' \in [Targets -> {"absent"} \cup Provisional \cup Final]
        /\ claim' \in [Targets -> Refreshers \cup {Nobody}]
        /\ check' \in [Refreshers -> Candidate \cup {NoCheck}]
    BY <1>3, <1>4 DEF TypeOK
  <2> QED
    BY <1>3, <2>1, <2>2, <2>3, <2>4, <2>5 DEF TypeOK
<1>7. ChecksAreTrue'
  <2> SUFFICES ASSUME NEW j \in Refreshers, check'[j] # NoCheck
               PROVE  /\ check'[j].parse # 0 => parse'[check'[j].target] = check'[j].parse
                      /\ claim'[check'[j].target] = j =>
                           missing'[check'[j].target] = check'[j].missing
    BY DEF ChecksAreTrue
  <2>1. j # k /\ check'[j] = check[j] /\ check[j].target \in Targets
    BY <1>3, CandidatesOfChecks DEF TypeOK
  <2>2. check[j].target = t => claim'[check[j].target] # j
    BY <1>1, <1>3, <2>1 DEF TypeOK
  <2>3. check[j].target # t => /\ claim'[check[j].target] = claim[check[j].target]
                              /\ missing'[check[j].target] = missing[check[j].target]
    BY <1>3, <2>1 DEF TypeOK
  <2> QED
    BY <1>3, <2>1, <2>2, <2>3 DEF ChecksAreTrue
<1>8. MissingIsSilence'
  BY <1>1, <1>3 DEF MissingIsSilence, TypeOK
<1>9. OneContent'
  <2>1. \A u \in Targets : state'[u] \notin Final => state[u] \notin Final
    BY <1>1, <1>3 DEF TypeOK, Provisional, Final
  <2>2. event' # "absent" => event # "absent"
    BY <1>3 DEF EventAfter
  <2> QED
    BY <1>3, <2>1, <2>2 DEF OneContent
<1>10. FinalizedIsBacked'
  <2> SUFFICES ASSUME event' = "finalized"
               PROVE  /\ \E c \in finals' : finals' = {c} /\ ParseOf[c] = ParseOf[source']
                      /\ \E u \in Targets : state'[u] = "finalized"
    BY DEF FinalizedIsBacked
  <2>1. CASE event = "finalized"
    <3>1. PICK c \in finals : finals = {c} /\ ParseOf[c] = ParseOf[source]
      BY <2>1 DEF FinalizedIsBacked
    <3>2. PICK u \in Targets : state[u] = "finalized"
      BY <2>1 DEF FinalizedIsBacked
    <3>3. u # t
      BY <1>1, <1>3, <3>2 DEF Provisional
    <3>4. state'[u] = "finalized"
      BY <1>3, <3>2, <3>3 DEF TypeOK
    <3>5. e # "quarantined"
      BY <1>3, <2>1 DEF EventAfter, Final
    <3>6. finals' = finals
      BY <1>3, <1>4, <3>1, <3>5
    <3> QED
      BY <1>3, <3>1, <3>4, <3>6
  <2>2. CASE event # "finalized"
    <3>1. e = "finalized" /\ event # "absent"
      BY <1>3, <2>2 DEF EventAfter
    <3>2. finals' = {a.snapshot} /\ ParseOf[a.snapshot] = x.parse /\ x.parse # 0
      BY <1>4, <3>1
    <3>3. x.parse = parse[t]
      BY <3>2 DEF ChecksAreTrue
    <3>4. parse[t] = ParseOf[source]
      <4>1. state[t] \notin Final
        BY <1>1, <1>3 DEF Provisional, Final
      <4> QED
        BY <1>1, <3>1, <3>2, <3>3, <4>1 DEF OneContent
    <3>5. state'[t] = "finalized"
      BY <1>1, <1>3, <3>1 DEF TypeOK
    <3> QED
      BY <1>1, <1>3, <3>2, <3>3, <3>4, <3>5
  <2> QED
    BY <2>1, <2>2
<1> QED
  BY <1>6, <1>7, <1>8, <1>9, <1>10

LEMMA EvidenceStep == EvidenceInv /\ [Next]_vars => EvidenceInv'
<1> SUFFICES ASSUME EvidenceInv, [Next]_vars PROVE EvidenceInv'
  OBVIOUS
<1>1. ASSUME NEW t \in Targets, Backfill(t) PROVE EvidenceInv'
  BY <1>1, BackfillKeeps
<1>2. ASSUME NEW k \in Refreshers, NEW t \in Targets, Claim(k, t) PROVE EvidenceInv'
  BY <1>2, ClaimKeeps
<1>3. ASSUME NEW k \in Refreshers, Record(k) PROVE EvidenceInv'
  BY <1>3, RecordKeeps DEF Record
<1>4. ASSUME NEW k \in Refreshers, RecordRefused(k) \/ Abandon(k) PROVE EvidenceInv'
  BY <1>4, DroppingKeeps DEF RecordRefused, Abandon
<1>5. CASE Disagree
  BY <1>5 DEF Disagree, EvidenceInv, TypeOK, ChecksAreTrue, MissingIsSilence, OneContent,
              FinalizedIsBacked, rows, absences, backfill, Final
<1>6. CASE UNCHANGED vars
  BY <1>6 DEF vars, EvidenceInv, TypeOK, ChecksAreTrue, MissingIsSilence, OneContent,
              FinalizedIsBacked, rows, absences, backfill, transfer
<1> QED
  BY <1>1, <1>2, <1>3, <1>4, <1>5, <1>6 DEF Next, EndCheck

LEMMA EvidenceInvariance == Spec => []EvidenceInv
  BY EvidenceInit, EvidenceStep, PTL DEF Spec

-----------------------------------------------------------------------------
(* Type correctness of the records about a transaction. *)
THEOREM EvidenceTypes == Spec => []TypeOK
  BY EvidenceInvariance, PTL DEF EvidenceInv

(* A finalized transfer rests on one finalized snapshot, which holds the    *)
(* transfer as it was parsed, and on a row that was finalized with it.      *)
THEOREM FinalizedRestsOnOne == Spec => []FinalizedIsBacked
  BY EvidenceInvariance, PTL DEF EvidenceInv

(* A row is reverted only after MissingLimit answers in a row without a     *)
(* status, and when no finalized snapshot is stored.                        *)
THEOREM RevertedWasGone == Spec => RevertedIsGone
<1> DEFINE Gone == \A t \in Targets : state[t] # "reverted" /\ state'[t] = "reverted" =>
                     finals = {} /\ silent'[t] >= MissingLimit
<1>1. EvidenceInv /\ [Next]_vars => [Gone]_vars
  <2> SUFFICES ASSUME EvidenceInv, Next, NEW t \in Targets, state[t] # "reverted",
                      state'[t] = "reverted"
               PROVE  finals = {} /\ silent'[t] >= MissingLimit
    OBVIOUS
  <2>1. ~(\E u \in Targets : Backfill(u))
    <3>1. ASSUME NEW u \in Targets, NEW c, NEW p, Stored(u, c, p) PROVE FALSE
      BY <3>1 DEF Stored, FinalityOf, EvidenceInv, TypeOK
    <3> QED
      BY <3>1 DEF Backfill, List, Fetch, FetchDeferred, FetchRefused, rows
  <2>2. PICK k \in Refreshers : Record(k)
    BY <2>1 DEF Next, EndCheck, Claim, RecordRefused, Abandon, Disagree, rows
  <2> PICK s \in Slots : \E b \in Answers(check[k], s) :
        check[k] # NoCheck /\ RecordAnswer(k, s, b)
    BY <2>2 DEF Record
  <2>3. PICK a \in Answers(check[k], s) : check[k] # NoCheck /\ RecordAnswer(k, s, a)
    OBVIOUS
  <2>4. check[k] \in Candidate /\ check[k].target \in Targets /\ TypeOK
        /\ check[k].state \in Provisional
    BY <2>3, CandidatesOfChecks DEF EvidenceInv, Candidate
  <2>5. t = check[k].target /\ Effective(check[k], a) = "reverted"
    BY <2>3, <2>4 DEF RecordAnswer, Recorded, TypeOK
  <2>6. a.next = "reverted" /\ finals = {}
    BY <2>4, <2>5 DEF Effective, Provisional
  <2>7. ~a.status /\ check[k].missing + 1 >= MissingLimit
    BY <2>4, <2>6, AnswersAreSound
  <2>8. silent[t] = check[k].missing /\ silent[t] \in Nat
    BY <2>3, <2>4, <2>5, ConstantsAssumption
    DEF RecordAnswer, Fenced, EvidenceInv, ChecksAreTrue, MissingIsSilence, TypeOK
  <2>9. silent'[t] = AtMost(silent[t] + 1, MissingLimit)
    BY <2>3, <2>4, <2>5, <2>7 DEF RecordAnswer, Recorded, TypeOK
  <2> QED
    BY <2>6, <2>7, <2>8, <2>9, ConstantsAssumption DEF AtMost
<1> QED
  BY <1>1, EvidenceInvariance, PTL DEF Spec, RevertedIsGone

(* The recorded state of the transfer takes only the steps of Evidence.     *)
LEMMA StepIsEvidence == EvidenceInv /\ [Next]_vars => [Promise!Next]_event
<1> SUFFICES ASSUME EvidenceInv, Next, event' # event PROVE Promise!Next
  BY DEF vars, transfer
<1> USE DEF Provisional, Final, Promise!Provisional, Promise!Final
<1>1. event \in {"absent"} \cup Provisional \cup Final
  BY DEF EvidenceInv, TypeOK
<1>2. ASSUME NEW c \in Contents, NEW cl, EventStored(c, cl) PROVE Promise!Next
  BY <1>1, <1>2 DEF EventStored, transfer, Promise!Next, Promise!Discover, Promise!Observed
<1>3. ASSUME NEW k \in Refreshers, Record(k) PROVE Promise!Next
  <2> PICK s \in Slots : \E b \in Answers(check[k], s) :
        check[k] # NoCheck /\ RecordAnswer(k, s, b)
    BY <1>3 DEF Record
  <2>1. PICK a \in Answers(check[k], s) : check[k] # NoCheck /\ RecordAnswer(k, s, a)
    OBVIOUS
  <2>2. check[k] \in Candidate /\ check[k].state \in {"detected", "confirmed"}
    BY <2>1, CandidatesOfChecks DEF EvidenceInv, Candidate
  <2>3. Effective(check[k], a) \in {"detected", "confirmed"}
          \cup {"finalized", "failed", "reverted", "quarantined"}
    BY <2>2, AnswersAreSound DEF Effective
  <2>4. event' = EventAfter(Effective(check[k], a))
    BY <2>1 DEF RecordAnswer, Recorded
  <2> QED
    BY <1>1, <2>3, <2>4 DEF EventAfter, Promise!Next, Promise!Observed
<1>4. CASE Disagree
  BY <1>4 DEF Disagree, Promise!Next, Promise!Observed
<1> QED
  BY <1>2, <1>3, <1>4
  DEF Next, Backfill, List, Fetch, FetchDeferred, FetchRefused, Claim, EndCheck, RecordRefused,
      Abandon, transfer

(* The recorded state implements what the projector builds on. *)
THEOREM RecordsImplementEvidence == Spec => ImplementsEvidence
<1>1. Init => Promise!Init
  BY DEF Init, Promise!Init
<1> QED
  BY <1>1, StepIsEvidence, EvidenceInvariance, PTL DEF Spec, ImplementsEvidence, Promise!Spec
-----------------------------------------------------------------------------
(* StandaloneReconciliation.  What the batch decides in memory is a fold of *)
(* which nothing is assumed: any list of decisions may be written.          *)

IsRun(x) ==
  x \in [pc : {x.pc}, invoices : {x.invoices}, found : {x.found}, todo : {x.todo}]

TablesAreTyped ==
  /\ invoices \in [Ids -> Invoice \cup {None}]
  /\ chain \in [Events -> {"pending", "finalized", "gone"}]
  /\ decided \in [Events -> Decision \cup {None}]
  /\ run = [r \in Runners |-> run[r]]
  /\ \A r \in Runners : IsRun(run[r])

(* The decision that a transaction is about to write, and what it locked.   *)
Deciding(r) == Head(run[r].todo)
LockedBy(r) == ReferredBy(Deciding(r).event, run[r].invoices)

(* An open invoice that the decision is right to pay. *)
MayPay(d) ==
  /\ invoices[d.invoice] # None
  /\ invoices[d.invoice].ref \in RefsOf[d.event]
  /\ invoices[d.invoice].terms \in Fits[d.event]
  /\ invoices[d.invoice].status # "matched"

(* Until it commits, what a transaction agreed with stays so. *)
WritersAgree ==
  \A r \in Writing :
    LET d == Deciding(r)
    IN  /\ d = [event |-> d.event, code |-> d.code, invoice |-> d.invoice]
        /\ d.code \in Codes
        /\ d.event \in Events => chain[d.event] = "finalized"
        /\ d.invoice \in LockedBy(r) \cup {None}
        /\ d.invoice # None => invoices[d.invoice] # None
        /\ d.code = "exact" => d.invoice \in LockedBy(r) /\ MayPay(d)

WritersApart == \A r, s \in Writing : r # s => LockedBy(r) \cap LockedBy(s) = {}

ReconciliationInv == TablesAreTyped /\ WritersAgree /\ WritersApart

(* What the rule says of an event. *)
LEMMA RuleFacts ==
  ASSUME NEW e, NEW table
  PROVE  LET d == Rule(e, table)
         IN  /\ d = [event |-> d.event, code |-> d.code, invoice |-> d.invoice]
             /\ d.event = e /\ d.code \in Codes
             /\ d.invoice \in ReferredBy(e, table) \cup {None}
             /\ d.code = "exact" => /\ d.invoice \in ReferredBy(e, table)
                                    /\ table[d.invoice].status # "matched"
                                    /\ table[d.invoice].terms \in Fits[e]
<1> DEFINE i == CHOOSE x \in ReferredBy(e, table) : TRUE
           On(code, invoice) == [event |-> e, code |-> code, invoice |-> invoice]
<1>1. ReferredBy(e, table) # {} => i \in ReferredBy(e, table)
  OBVIOUS
<1>2. CASE ReferredBy(e, table) = {}
  BY <1>2 DEF Rule, Codes
<1>3. CASE ReferredBy(e, table) # {} /\ Cardinality(ReferredBy(e, table)) > 1
  BY <1>3 DEF Rule, Codes
<1>4. CASE ReferredBy(e, table) # {} /\ ~(Cardinality(ReferredBy(e, table)) > 1)
  <2>1. Rule(e, table) = On(IF table[i].status = "matched" THEN "duplicate"
                            ELSE IF table[i].terms \in Fits[e] THEN "exact" ELSE "mismatch", i)
    BY <1>4 DEF Rule
  <2> QED
    BY <1>1, <1>4, <2>1 DEF Codes
<1> QED
  BY <1>2, <1>3, <1>4

LEMMA ReconciliationStarts == ReconciliationInit => ReconciliationInv
<1> SUFFICES ASSUME ReconciliationInit PROVE ReconciliationInv
  OBVIOUS
<1>1. IsRun(NoRun) /\ NoRun.pc = "idle"
  BY DEF IsRun, NoRun
<1>2. TablesAreTyped
  BY <1>1 DEF ReconciliationInit, TablesAreTyped
<1>3. Writing = {}
  BY <1>1 DEF ReconciliationInit, Writing
<1> QED
  BY <1>2, <1>3 DEF ReconciliationInv, WritersAgree, WritersApart

(* A run that goes on and holds no lock. *)
LEMMA RunMoves ==
  ASSUME ReconciliationInv, NEW r \in Runners, NEW x, run' = [run EXCEPT ![r] = x],
         IsRun(x), x.pc # "writing", UNCHANGED <<invoices, chain, decided>>
  PROVE  ReconciliationInv'
<1>1. \A s \in Runners : run'[s] = IF s = r THEN x ELSE run[s]
  BY DEF ReconciliationInv, TablesAreTyped
<1>2. TablesAreTyped'
  <2>1. run' = [s \in Runners |-> run'[s]]
    BY <1>1 DEF ReconciliationInv, TablesAreTyped
  <2>2. \A s \in Runners : IsRun(run'[s])
    BY <1>1 DEF ReconciliationInv, TablesAreTyped
  <2> QED
    BY <2>1, <2>2 DEF ReconciliationInv, TablesAreTyped
<1>3. \A s \in Writing' : s \in Writing /\ s \in Runners /\ run'[s] = run[s]
  BY <1>1 DEF Writing
<1>4. \A s \in Writing' : LockedBy(s)' = LockedBy(s) /\ Deciding(s)' = Deciding(s)
  BY <1>3 DEF LockedBy, Deciding, ReferredBy
<1>5. WritersAgree' /\ WritersApart'
  BY <1>3, <1>4 DEF ReconciliationInv, WritersAgree, WritersApart, MayPay
<1> QED
  BY <1>2, <1>5 DEF ReconciliationInv

(* A file with new lines: no row is replaced. *)
LEMMA ImportKeeps ==
  ASSUME ReconciliationInv, NEW file \in Files, Import(file)
  PROVE  ReconciliationInv' /\ UNCHANGED decided
<1> DEFINE new == {line \in ToSet(file) : Met(line) = {}}
           Row(line) == [ref |-> line.ref, terms |-> line.terms, status |-> "open"]
<1>1. /\ invoices' = [i \in Ids |-> IF \E line \in new : line.id = i
                                    THEN Row(CHOOSE l \in new : l.id = i) ELSE invoices[i]]
      /\ UNCHANGED <<chain, decided, run>>
  BY DEF Import
<1>2. ASSUME NEW i \in Ids, invoices[i] # None PROVE invoices'[i] = invoices[i]
  <2>1. ~\E line \in new : line.id = i
    BY <1>2 DEF Met
  <2> QED
    BY <1>1, <2>1
<1>3. ASSUME NEW l \in new PROVE Row(l) \in Invoice
  <2>1. PICK k \in DOMAIN file : l = file[k]
    BY DEF ToSet
  <2> DEFINE Lines == [id : Ids, ref : References, terms : Terms]
  <2>2. file \in Seq(Lines)
    BY FilesAssumption
  <2>3. l \in Lines
    <3> HIDE DEF Lines
    <3> QED
      BY <2>1, <2>2
  <2> QED
    BY <2>3 DEF Invoice
<1>4. TablesAreTyped'
  BY <1>1, <1>3 DEF ReconciliationInv, TablesAreTyped
<1>5. \A r \in Runners : Deciding(r)' = Deciding(r) /\ LockedBy(r)' = LockedBy(r)
  BY <1>1 DEF Deciding, LockedBy, ReferredBy
<1>6. WritersApart'
  BY <1>1, <1>5 DEF ReconciliationInv, WritersApart, Writing
<1>7. WritersAgree'
  <2>1. ASSUME NEW r \in Writing, Deciding(r).invoice # None
        PROVE  invoices'[Deciding(r).invoice] = invoices[Deciding(r).invoice]
    BY <1>2, <2>1 DEF LockedBy, ReferredBy, ReconciliationInv, WritersAgree
  <2>2. ASSUME NEW r \in Writing, Deciding(r).code = "exact"
        PROVE  MayPay(Deciding(r))' <=> MayPay(Deciding(r))
    <3>1. invoices'[Deciding(r).invoice] = invoices[Deciding(r).invoice]
      BY <1>2, <2>2 DEF LockedBy, ReferredBy, MayPay, ReconciliationInv, WritersAgree
    <3> QED
      BY <1>1, <1>5, <3>1 DEF MayPay, Deciding
  <2>3. Writing' = Writing
    BY <1>1 DEF Writing
  <2> QED
    BY <1>1, <1>5, <2>1, <2>2, <2>3, ZenonT(40) DEF ReconciliationInv, WritersAgree, Writing
<1> QED
  BY <1>1, <1>4, <1>6, <1>7 DEF ReconciliationInv

(* The chain moves on no event that a transaction has locked. *)
LEMMA ChainMovesKeeps ==
  ASSUME ReconciliationInv, NEW e \in Events, ChainMoves(e)
  PROVE  ReconciliationInv' /\ UNCHANGED decided
<1>1. /\ UNCHANGED <<invoices, decided, run>> /\ EventFree(e)
      /\ \E c \in {"finalized", "gone"} : chain' = [chain EXCEPT ![e] = c]
  BY DEF ChainMoves
<1>2. TablesAreTyped'
  BY <1>1 DEF ReconciliationInv, TablesAreTyped
<1>3. \A r \in Runners : Deciding(r)' = Deciding(r) /\ LockedBy(r)' = LockedBy(r)
  BY <1>1 DEF Deciding, LockedBy, ReferredBy
<1>4. WritersApart'
  BY <1>1, <1>3 DEF ReconciliationInv, WritersApart, Writing
<1>5. ASSUME NEW r \in Writing, Deciding(r).event \in Events
      PROVE  chain'[Deciding(r).event] = chain[Deciding(r).event]
  BY <1>1, <1>5 DEF EventFree, Deciding, ReconciliationInv, TablesAreTyped
<1>6. WritersAgree'
  BY <1>1, <1>3, <1>5 DEF ReconciliationInv, WritersAgree, Writing, MayPay
<1> QED
  BY <1>1, <1>2, <1>4, <1>6 DEF ReconciliationInv

LEMMA QuietSteps ==
  ASSUME ReconciliationInv, NEW r \in Runners,
         \/ StartRun(r) \/ ListInvoices(r) \/ ListCandidates(r) \/ Decide(r)
         \/ Skip(r) \/ Complete(r) \/ Fail(r) \/ Crash(r)
  PROVE  ReconciliationInv' /\ UNCHANGED decided
<1> DEFINE x == run[r]
<1>1. x \in [pc : {x.pc}, invoices : {x.invoices}, found : {x.found}, todo : {x.todo}]
      /\ run = [s \in Runners |-> run[s]]
  BY DEF ReconciliationInv, TablesAreTyped, IsRun
<1>2. UNCHANGED <<invoices, chain, decided>>
  BY DEF StartRun, ListInvoices, ListCandidates, Decide, Skip, Complete, Fail, Crash, Stop
<1>3. CASE StartRun(r)
  <2>1. run' = [run EXCEPT ![r] = [x EXCEPT !.pc = "listing"]]
    BY <1>1, <1>3 DEF StartRun
  <2>2. IsRun([x EXCEPT !.pc = "listing"]) /\ [x EXCEPT !.pc = "listing"].pc # "writing"
    BY <1>1 DEF IsRun
  <2> QED
    BY <1>2, <2>1, <2>2, RunMoves
<1>4. CASE ListInvoices(r)
  <2>1. run' = [run EXCEPT ![r] = [x EXCEPT !.invoices = invoices]] /\ x.pc = "listing"
    BY <1>1, <1>4 DEF ListInvoices
  <2>2. IsRun([x EXCEPT !.invoices = invoices]) /\ [x EXCEPT !.invoices = invoices].pc # "writing"
    BY <1>1, <2>1 DEF IsRun
  <2> QED
    BY <1>2, <2>1, <2>2, RunMoves
<1>5. CASE ListCandidates(r)
  <2>1. run' = [run EXCEPT ![r] = [x EXCEPT !.found = Candidates]] /\ x.pc = "listing"
    BY <1>1, <1>5 DEF ListCandidates
  <2>2. IsRun([x EXCEPT !.found = Candidates]) /\ [x EXCEPT !.found = Candidates].pc # "writing"
    BY <1>1, <2>1 DEF IsRun
  <2> QED
    BY <1>2, <2>1, <2>2, RunMoves
<1>6. CASE Decide(r)
  <2> DEFINE todo == Batch(x.found, x.invoices)
             y == [x EXCEPT !.pc = "deciding", !.invoices = None, !.todo = todo]
  <2>1. run' = [run EXCEPT ![r] = y]
    BY <1>1, <1>6 DEF Decide
  <2>2. IsRun(y) /\ y.pc # "writing"
    <3> HIDE DEF todo
    <3> QED
      BY <1>1 DEF IsRun
  <2> QED
    BY <1>2, <2>1, <2>2, RunMoves
<1>7. CASE Skip(r)
  <2>1. run' = [run EXCEPT ![r] = [x EXCEPT !.todo = Tail(x.todo)]] /\ x.pc = "deciding"
    BY <1>1, <1>7 DEF Skip
  <2>2. IsRun([x EXCEPT !.todo = Tail(x.todo)]) /\ [x EXCEPT !.todo = Tail(x.todo)].pc # "writing"
    BY <1>1, <2>1 DEF IsRun
  <2> QED
    BY <1>2, <2>1, <2>2, RunMoves
<1>8. CASE Complete(r) \/ Fail(r) \/ Crash(r)
  <2>1. run' = [run EXCEPT ![r] = NoRun]
    BY <1>8 DEF Complete, Fail, Crash, Stop
  <2>2. IsRun(NoRun) /\ NoRun.pc # "writing"
    BY DEF IsRun, NoRun
  <2> QED
    BY <1>2, <2>1, <2>2, RunMoves
<1> QED
  BY <1>3, <1>4, <1>5, <1>6, <1>7, <1>8

(* A transaction that agrees takes its locks. *)
LEMMA LoadKeeps ==
  ASSUME ReconciliationInv, NEW r \in Runners, Load(r)
  PROVE  ReconciliationInv' /\ UNCHANGED decided
<1> DEFINE x == [run[r] EXCEPT !.pc = "writing", !.invoices = invoices]
           d == Deciding(r)
<1>1. /\ run[r].pc = "deciding" /\ Agrees(d)
      /\ ReferredBy(d.event, invoices) \cap LockedInvoices = {}
      /\ UNCHANGED <<invoices, chain, decided>>
  BY DEF Load, Deciding
<1>2. IsRun(run[r]) /\ run = [s \in Runners |-> run[s]]
  BY DEF ReconciliationInv, TablesAreTyped
<1>3. run' = [run EXCEPT ![r] = x]
  BY <1>2 DEF Load
<1>4. IsRun(x) /\ x.pc = "writing" /\ x.invoices = invoices /\ x.todo = run[r].todo
  BY <1>2 DEF IsRun
<1> HIDE DEF x
<1>5. \A s \in Runners : run'[s] = IF s = r THEN x ELSE run[s]
  BY <1>2, <1>3
<1>6. TablesAreTyped'
  <2>1. run' = [s \in Runners |-> run'[s]] /\ \A s \in Runners : IsRun(run'[s])
    BY <1>2, <1>3, <1>4, <1>5 DEF ReconciliationInv, TablesAreTyped
  <2> QED
    BY <1>1, <2>1 DEF ReconciliationInv, TablesAreTyped
<1>7. /\ Writing' = Writing \cup {r} /\ r \notin Writing
      /\ Deciding(r)' = d /\ LockedBy(r)' = ReferredBy(d.event, invoices)
  BY <1>1, <1>4, <1>5 DEF Writing, Deciding, LockedBy, ReferredBy
<1>8. ASSUME NEW s \in Writing
      PROVE  s # r /\ Deciding(s)' = Deciding(s) /\ LockedBy(s)' = LockedBy(s)
  BY <1>5, <1>7 DEF Writing, Deciding, LockedBy, ReferredBy
<1>9. \A s \in Writing : ReferredBy(d.event, invoices) \cap LockedBy(s) = {}
  BY <1>1 DEF LockedInvoices, LockedBy, Deciding
<1>10. WritersApart'
  BY <1>7, <1>8, <1>9 DEF ReconciliationInv, WritersApart
<1>11. WritersAgree'
  <2> SUFFICES ASSUME NEW s \in Writing'
               PROVE  LET e == Deciding(s)'
                      IN  /\ e = [event |-> e.event, code |-> e.code, invoice |-> e.invoice]
                          /\ e.code \in Codes
                          /\ e.event \in Events => chain'[e.event] = "finalized"
                          /\ e.invoice \in LockedBy(s)' \cup {None}
                          /\ e.invoice # None => invoices'[e.invoice] # None
                          /\ e.code = "exact" => e.invoice \in LockedBy(s)' /\ MayPay(Deciding(s))'
    BY DEF WritersAgree
  <2>1. CASE s = r
    <3>1. chain[d.event] = "finalized" /\ Rule(d.event, invoices) = d
      BY <1>1 DEF Agrees
    <3>2. d.code = "exact" => MayPay(d)
      BY <3>1, RuleFacts DEF MayPay, ReferredBy
    <3>3. MayPay(Deciding(s))' <=> MayPay(d)
      BY <1>1, <1>7, <2>1 DEF MayPay
    <3>4. d.invoice # None => invoices[d.invoice] # None
      BY <3>1, RuleFacts DEF ReferredBy
    <3> QED
      BY <1>1, <1>7, <2>1, <3>1, <3>2, <3>3, <3>4, RuleFacts
  <2>2. CASE s \in Writing
    <3>1. MayPay(Deciding(s))' <=> MayPay(Deciding(s))
      BY <1>1, <1>8, <2>2 DEF MayPay
    <3> QED
      BY <1>1, <1>8, <2>2, <3>1 DEF ReconciliationInv, WritersAgree
  <2> QED
    BY <1>7, <2>1, <2>2
<1> QED
  BY <1>1, <1>6, <1>10, <1>11 DEF ReconciliationInv

(* What a commit decides, it was right to, and it touches no invoice that   *)
(* another transaction has locked.                                          *)
LEMMA WriteKeeps ==
  ASSUME ReconciliationInv, NEW r \in Runners, Write(r), None \notin Ids
  PROVE  /\ ReconciliationInv'
         /\ UNCHANGED decided \/ decided' = [decided EXCEPT ![Deciding(r).event] = Deciding(r)]
         /\ Deciding(r).code = "exact" => MayPay(Deciding(r))
         /\ Deciding(r).event \in Events => chain[Deciding(r).event] = "finalized"
<1> DEFINE x == [run[r] EXCEPT !.pc = "deciding", !.invoices = None, !.todo = Tail(run[r].todo)]
           d == Deciding(r)
<1>1. /\ run[r].pc = "writing" /\ r \in Writing /\ UNCHANGED chain
      /\ \/ UNCHANGED <<invoices, decided>>
         \/ decided' = [decided EXCEPT ![d.event] = d] /\ invoices' = StatusAfter(d)
  BY DEF Write, Writing, Deciding
<1>2. IsRun(run[r]) /\ run = [s \in Runners |-> run[s]]
  BY DEF ReconciliationInv, TablesAreTyped
<1>3. run' = [run EXCEPT ![r] = x]
  BY <1>2 DEF Write
<1>4. IsRun(x) /\ x.pc = "deciding"
  BY <1>2 DEF IsRun
<1> HIDE DEF x
<1>5. \A s \in Runners : run'[s] = IF s = r THEN x ELSE run[s]
  BY <1>2, <1>3
<1>6. /\ d = [event |-> d.event, code |-> d.code, invoice |-> d.invoice] /\ d.code \in Codes
      /\ d.event \in Events => chain[d.event] = "finalized"
      /\ d.invoice \in LockedBy(r) \cup {None}
      /\ d.invoice # None => invoices[d.invoice] # None
      /\ d.code = "exact" => d.invoice \in LockedBy(r) /\ MayPay(d)
  BY <1>1 DEF ReconciliationInv, WritersAgree
<1>7. LockedBy(r) \subseteq Ids
  BY DEF LockedBy, ReferredBy
<1>8. /\ invoices' \in [Ids -> Invoice \cup {None}]
      /\ \A i \in Ids : i # d.invoice => invoices'[i] = invoices[i]
  <2>1. CASE invoices' = invoices
    BY <2>1 DEF ReconciliationInv, TablesAreTyped
  <2>2. ASSUME NEW status \in {"matched", "exception"}, d.invoice \in Ids,
               invoices[d.invoice] # None,
               invoices' = [invoices EXCEPT ![d.invoice].status = status]
        PROVE  /\ invoices' \in [Ids -> Invoice \cup {None}]
               /\ \A i \in Ids : i # d.invoice => invoices'[i] = invoices[i]
    <3>1. invoices[d.invoice] \in Invoice
      BY <2>2 DEF ReconciliationInv, TablesAreTyped
    <3>2. [invoices[d.invoice] EXCEPT !.status = status] \in Invoice
      BY <3>1 DEF Invoice
    <3>3. invoices' = [invoices EXCEPT ![d.invoice] = [invoices[d.invoice] EXCEPT !.status = status]]
      BY <2>2
    <3> QED
      BY <2>2, <3>2, <3>3 DEF ReconciliationInv, TablesAreTyped
  <2>3. CASE d.code = "exact" /\ invoices' = StatusAfter(d)
    <3>1. invoices' = [invoices EXCEPT ![d.invoice].status = "matched"]
      BY <2>3 DEF StatusAfter
    <3> QED
      BY <1>6, <1>7, <2>2, <2>3, <3>1 DEF MayPay
  <2>4. CASE d.code # "exact" /\ d.invoice # None /\ invoices' = StatusAfter(d)
    <3>1. invoices' = IF invoices[d.invoice].status = "open"
                      THEN [invoices EXCEPT ![d.invoice].status = "exception"] ELSE invoices
      BY <2>4 DEF StatusAfter, Excepted
    <3>2. d.invoice \in Ids
      BY <1>6, <1>7, <2>4
    <3> QED
      BY <1>6, <2>1, <2>2, <2>4, <3>1, <3>2
  <2>5. CASE d.code # "exact" /\ d.invoice = None /\ invoices' = StatusAfter(d)
    BY <2>1, <2>5 DEF StatusAfter
  <2> QED
    BY <1>1, <2>1, <2>3, <2>4, <2>5
<1>9. decided' \in [Events -> Decision \cup {None}]
  <2>1. d.event \in Events => d \in Decision
    <3>1. d.invoice \in Ids \cup {None}
      BY <1>6, <1>7
    <3> QED
      BY <1>6, <3>1 DEF Decision
  <2> QED
    BY <1>1, <2>1 DEF ReconciliationInv, TablesAreTyped
<1>10. TablesAreTyped'
  <2>1. run' = [s \in Runners |-> run'[s]] /\ \A s \in Runners : IsRun(run'[s])
    BY <1>2, <1>3, <1>4, <1>5 DEF ReconciliationInv, TablesAreTyped
  <2> QED
    BY <1>1, <1>8, <1>9, <2>1 DEF ReconciliationInv, TablesAreTyped
<1>11. ASSUME NEW s \in Writing'
       PROVE  s \in Writing /\ s # r /\ Deciding(s)' = Deciding(s) /\ LockedBy(s)' = LockedBy(s)
  BY <1>4, <1>5 DEF Writing, Deciding, LockedBy, ReferredBy
<1>12. WritersApart'
  BY <1>11 DEF ReconciliationInv, WritersApart
<1>13. WritersAgree'
  <2>1. ASSUME NEW s \in Writing', Deciding(s).invoice \in LockedBy(s)
        PROVE  invoices'[Deciding(s).invoice] = invoices[Deciding(s).invoice]
    <3>1. s \in Writing /\ s # r
      BY <1>11, <2>1
    <3>2. LockedBy(r) \cap LockedBy(s) = {}
      BY <1>1, <3>1 DEF ReconciliationInv, WritersApart
    <3>3. Deciding(s).invoice \in Ids
      BY <2>1 DEF LockedBy, ReferredBy
    <3>4. None \notin Ids
      OBVIOUS
    <3> QED
      BY <1>6, <1>8, <2>1, <3>2, <3>3, <3>4
  <2>2. ASSUME NEW s \in Writing', Deciding(s).code = "exact"
        PROVE  MayPay(Deciding(s))'
    <3>1. s \in Writing /\ Deciding(s).invoice \in LockedBy(s) /\ MayPay(Deciding(s))
      BY <1>11, <2>2 DEF ReconciliationInv, WritersAgree
    <3> QED
      BY <1>11, <2>1, <2>2, <3>1 DEF MayPay
  <2>3. ASSUME NEW s \in Writing', Deciding(s).invoice # None
        PROVE  invoices'[Deciding(s).invoice] # None
    <3>1. /\ s \in Writing /\ Deciding(s).invoice \in LockedBy(s)
          /\ invoices[Deciding(s).invoice] # None
      BY <1>11, <2>3 DEF ReconciliationInv, WritersAgree
    <3> QED
      BY <2>1, <3>1
  <2> QED
    BY <1>1, <1>11, <2>2, <2>3 DEF ReconciliationInv, WritersAgree
<1> QED
  BY <1>1, <1>6, <1>10, <1>12, <1>13 DEF ReconciliationInv

(* What a step decides is due. *)
PaidAsDue == \A e \in Events : decided[e] = None /\ decided'[e] # None /\ decided'[e].code = "exact" =>
         LET i == decided'[e].invoice
         IN  /\ chain[e] = "finalized"
             /\ invoices[i].ref \in RefsOf[e] /\ invoices[i].terms \in Fits[e]
             /\ invoices[i].status # "matched"

LEMMA ReconciliationStep ==
  ASSUME ReconciliationInv, [ReconciliationNext]_reconciliation
  PROVE  ReconciliationInv' /\ PaidAsDue
<1>1. ASSUME UNCHANGED decided PROVE PaidAsDue
  BY <1>1 DEF PaidAsDue
<1>2. ASSUME NEW file \in Files, Import(file) PROVE ReconciliationInv' /\ PaidAsDue
  BY <1>1, <1>2, ImportKeeps
<1>3. ASSUME NEW e \in Events, ChainMoves(e) PROVE ReconciliationInv' /\ PaidAsDue
  BY <1>1, <1>3, ChainMovesKeeps
<1>4. ASSUME NEW r \in Runners, RunnerStep(r) \/ Fail(r) \/ Crash(r)
      PROVE  ReconciliationInv' /\ PaidAsDue
  <2>1. CASE Write(r)
    <3>1. /\ ReconciliationInv'
          /\ UNCHANGED decided \/ decided' = [decided EXCEPT ![Deciding(r).event] = Deciding(r)]
          /\ Deciding(r).code = "exact" => MayPay(Deciding(r))
          /\ Deciding(r).event \in Events => chain[Deciding(r).event] = "finalized"
      BY <2>1, WriteKeeps, ReconciliationAssumption
    <3>2. CASE decided' = [decided EXCEPT ![Deciding(r).event] = Deciding(r)]
      <4>1. \A e \in Events : decided'[e] = IF e = Deciding(r).event THEN Deciding(r) ELSE decided[e]
        BY <3>2 DEF ReconciliationInv, TablesAreTyped
      <4> QED
        BY <3>1, <4>1 DEF PaidAsDue, MayPay
    <3> QED
      BY <1>1, <3>1, <3>2
  <2>2. CASE Load(r)
    BY <1>1, <2>2, LoadKeeps
  <2>3. CASE ~Write(r) /\ ~Load(r)
    BY <1>1, <1>4, <2>3, QuietSteps DEF RunnerStep
  <2> QED
    BY <2>1, <2>2, <2>3
<1>5. CASE UNCHANGED reconciliation
  <2> USE <1>5 DEF reconciliation
  <2>1. TablesAreTyped'
    BY DEF ReconciliationInv, TablesAreTyped
  <2>2. \A r \in Runners : Deciding(r)' = Deciding(r) /\ LockedBy(r)' = LockedBy(r)
    BY DEF Deciding, LockedBy, ReferredBy
  <2>3. WritersAgree' /\ WritersApart'
    BY <2>2 DEF ReconciliationInv, WritersAgree, WritersApart, Writing, MayPay
  <2> QED
    BY <1>1, <2>1, <2>3 DEF ReconciliationInv
<1> QED
  BY <1>2, <1>3, <1>4, <1>5 DEF ReconciliationNext

LEMMA ReconciliationInvariant == ReconciliationSpec => []ReconciliationInv
<1>1. ReconciliationInv /\ [ReconciliationNext]_reconciliation => ReconciliationInv'
  BY ReconciliationStep
<1> QED
  BY <1>1, ReconciliationStarts, PTL DEF ReconciliationSpec

(* Whatever a run had read when it decided, and whatever list of decisions  *)
(* it came to, a transfer pays an invoice only while it is final, and only  *)
(* an invoice that was not paid yet, whose reference it carries and whose   *)
(* terms it fits (postgres-reconciliation-store.ts:556).                    *)
THEOREM TransfersPayWhatIsDue == ReconciliationSpec => AllocatedWhenDue
<1>1. ReconciliationInv /\ [ReconciliationNext]_reconciliation => [PaidAsDue]_reconciliation
  BY ReconciliationStep
<1> QED
  BY <1>1, ReconciliationInvariant, PTL DEF ReconciliationSpec, AllocatedWhenDue, PaidAsDue

-----------------------------------------------------------------------------
(* PilotAudit *)

(* What a command holds: the reports it wrote and recorded are of the one   *)
(* content it has read, and it writes none before it has read all of it.    *)
IsInOrder(x) ==
  /\ x.pc \in {"working", "worked"} => x.stage \in Stages
  /\ x.pc = "worked" => x.stage < StageCount
  /\ x.written > 0 => /\ x.pc = "working" /\ x.stage = StageCount
                      /\ Unset \notin {x.content.coverage, x.content.summary, x.content.rows}
  /\ x.recorded > 0 => x.written = ReportCount
  /\ \A p \in 1..x.recorded : reports[p] = x.content

CommandsInOrder == \A c \in Commands : IsInOrder(command[c])

(* The reports are recorded from the first on. *)
ReportsInOrder == \A p \in Reports : reports[p] # Unset => \A q \in 1..p : reports[q] # Unset

(* The report stage succeeds with the content that is recorded. *)
ResultIsRecorded ==
  Succeeded(StageCount) => /\ stage[StageCount].result \in Content
                           /\ \A p \in Reports : reports[p] = stage[StageCount].result

PilotInv ==
  /\ PilotTypeOK /\ CommandsInOrder
  /\ ReportsInOrder /\ ReportsAreOneSet
  /\ ResultIsRecorded /\ FinishedIsWhole

(* The stage to claim is one, and it has not succeeded. *)
LEMMA FirstIsOpen ==
  ASSUME ~AllSucceeded
  PROVE  First \in Stages /\ ~Succeeded(First)
<1> DEFINE Unfinished == {s \in Stages : ~Succeeded(s)}
<1>1. Unfinished # {} /\ Unfinished \subseteq Nat
  BY PilotAssumption DEF AllSucceeded, Stages
<1> HIDE DEF Unfinished
<1>2. PICK s \in Unfinished : \A q \in Unfinished : ~(<<q, s>> \in OpToRel(<, Nat))
  BY <1>1, NatLessThanWellFounded, WFMin
<1> USE DEF Unfinished
<1>3. \A q \in 1..(s - 1) : Succeeded(q)
  <2> SUFFICES ASSUME NEW q \in 1..(s - 1), ~Succeeded(q) PROVE FALSE
    OBVIOUS
  <2>1. q \in Unfinished /\ q < s /\ q \in Nat /\ s \in Nat
    BY PilotAssumption DEF Stages
  <2> QED
    BY <1>2, <2>1 DEF OpToRel
<1> QED
  BY <1>2, <1>3 DEF First

LEMMA PilotStarts == PilotInit => PilotInv
<1> SUFFICES ASSUME PilotInit PROVE PilotInv
  OBVIOUS
<1>1. Idle \in Command /\ IsInOrder(Idle)
  BY PilotAssumption DEF Idle, Command, Unread, Content, Read, IsInOrder, Reports
<1>2. StageCount \in Stages
  BY PilotAssumption DEF Stages
<1>3. PilotTypeOK
  BY <1>1, PilotAssumption DEF PilotInit, PilotTypeOK, Stage
<1> QED
  BY <1>1, <1>2, <1>3
  DEF PilotInit, PilotInv, CommandsInOrder, ReportsInOrder, ReportsAreOneSet, ResultIsRecorded,
      Succeeded, FinishedIsWhole

(* A command that goes on, and the stages and the reports stay. *)
LEMMA CommandMoves ==
  ASSUME PilotInv, NEW c \in Commands, NEW x \in Command, IsInOrder(x),
         command' = [command EXCEPT ![c] = x], UNCHANGED <<stage, reports, claims>>,
         now' \in 0..MaxTime, evidence' \in 1..MaxEvidence,
         runState' \in {"none", "running", "complete", "incomplete"},
         files' \in [Reports -> Content \cup {Unset}], FinishedIsWhole'
  PROVE  PilotInv'
<1>1. PilotTypeOK'
  BY DEF PilotInv, PilotTypeOK
<1>2. CommandsInOrder'
  BY DEF PilotInv, PilotTypeOK, CommandsInOrder, IsInOrder
<1> QED
  BY <1>1, <1>2
  DEF PilotInv, ReportsInOrder, ReportsAreOneSet, ResultIsRecorded, Succeeded

(* Idle, or about to claim or to finish: nothing is held. *)
LEMMA HoldsNothing ==
  ASSUME NEW pc \in {"idle", "claiming", "finishing"}
  PROVE  [Idle EXCEPT !.pc = pc] \in Command /\ IsInOrder([Idle EXCEPT !.pc = pc])
BY PilotAssumption DEF Idle, Command, Unread, Content, Read, IsInOrder, Reports

LEMMA IdleHoldsNothing == Idle \in Command /\ IsInOrder(Idle)
BY PilotAssumption DEF Idle, Command, Unread, Content, Read, IsInOrder, Reports

LEMMA CommandSteps ==
  ASSUME PilotInv, NEW c \in Commands,
         Begin(c) \/ NoClaim(c) \/ Work(c) \/ ReadEvidence(c) \/ WriteFile(c) \/ Finish(c) \/ Die(c)
  PROVE  PilotInv'
<1> DEFINE v == command[c]
<1>1. /\ v \in Command /\ IsInOrder(v) /\ command \in [Commands -> Command]
      /\ now \in 0..MaxTime /\ evidence \in 1..MaxEvidence
      /\ runState \in {"none", "running", "complete", "incomplete"}
      /\ files \in [Reports -> Content \cup {Unset}] /\ FinishedIsWhole
  BY DEF PilotInv, PilotTypeOK, CommandsInOrder
<1>2. CASE Begin(c)
  <2> DEFINE x == [v EXCEPT !.pc = "claiming"]
  <2>1. v.pc = "idle" /\ command' = [command EXCEPT ![c] = x] /\ runState' = "running"
        /\ UNCHANGED <<now, evidence, stage, reports, files, claims>>
    BY <1>2 DEF Begin
  <2>2. x \in Command
    BY <1>1 DEF Command
  <2>3. IsInOrder(x)
    BY <1>1, <2>1 DEF IsInOrder, Command
  <2>4. FinishedIsWhole'
    BY <2>1 DEF FinishedIsWhole
  <2> QED
    BY <1>1, <2>1, <2>2, <2>3, <2>4, CommandMoves
<1>3. CASE NoClaim(c)
  <2>1. UNCHANGED <<now, evidence, runState, stage, reports, files, claims>>
    BY <1>3 DEF NoClaim
  <2>2. FinishedIsWhole'
    BY <1>1, <2>1 DEF FinishedIsWhole, AllSucceeded, Succeeded
  <2>3. PICK x : x \in {[Idle EXCEPT !.pc = "finishing"], Idle} /\ command' = [command EXCEPT ![c] = x]
    BY <1>3 DEF NoClaim
  <2>4. x \in Command /\ IsInOrder(x)
    BY <2>3, HoldsNothing, IdleHoldsNothing
  <2> QED
    BY <1>1, <2>1, <2>2, <2>3, <2>4, CommandMoves
<1>4. CASE Work(c)
  <2> DEFINE x == [v EXCEPT !.pc = "worked"]
  <2>1. v.pc = "working" /\ v.stage < StageCount /\ command' = [command EXCEPT ![c] = x]
        /\ UNCHANGED <<now, runState, stage, reports, files, claims>>
    BY <1>4 DEF Work, AtWork
  <2>2. evidence' \in 1..MaxEvidence
    BY <1>1, <1>4, PilotAssumption DEF Work
  <2>3. x \in Command
    BY <1>1 DEF Command
  <2>4. IsInOrder(x)
    BY <1>1, <2>1, PilotAssumption DEF IsInOrder, Command, Stages, Reports
  <2>5. FinishedIsWhole'
    BY <1>1, <2>1 DEF FinishedIsWhole, AllSucceeded, Succeeded
  <2> QED
    BY <1>1, <2>1, <2>2, <2>3, <2>4, <2>5, CommandMoves
<1>5. CASE ReadEvidence(c)
  <2>1. v.pc = "working" /\ v.stage = StageCount
        /\ UNCHANGED <<now, evidence, runState, stage, reports, files, claims>>
    BY <1>5 DEF ReadEvidence, AtReport, AtWork
  <2>2. FinishedIsWhole'
    BY <1>1, <2>1 DEF FinishedIsWhole, AllSucceeded, Succeeded
  <2>3. PICK part \in {"coverage", "summary", "rows"} :
          v.content[part] = Unset /\ command' = [command EXCEPT ![c].content[part] = evidence]
    BY <1>5 DEF ReadEvidence, Content1
  <2> DEFINE content == [v.content EXCEPT ![part] = evidence]
             x == [v EXCEPT !.content = content]
  <2>4. v.content \in Content
    BY <1>1 DEF Command
  <2>5. content \in Content
    <3>1. evidence \in Read
      BY <1>1 DEF Read
    <3> QED
      BY <2>3, <2>4, <3>1 DEF Content
  <2>6. Unset \in {v.content.coverage, v.content.summary, v.content.rows}
    BY <2>3
  <2>7. command' = [command EXCEPT ![c] = x]
    BY <2>3
  <2> HIDE DEF content
  <2>8. x \in Command
    BY <1>1, <2>5 DEF Command
  <2>9. v.recorded = 0 /\ v.written = 0
    BY <1>1, <2>6, PilotAssumption DEF IsInOrder, Command, Reports
  <2>10. IsInOrder(x)
    <3>1. x.recorded = 0 /\ x.written = 0 /\ x.pc = v.pc /\ x.stage = v.stage
      BY <1>1, <2>9 DEF Command
    <3> QED
      BY <1>1, <2>1, <3>1 DEF IsInOrder
  <2> HIDE DEF x
  <2> QED
    BY <1>1, <2>1, <2>2, <2>7, <2>8, <2>10, CommandMoves
<1>6. CASE WriteFile(c)
  <2> DEFINE w == v.written + 1
             x == [v EXCEPT !.written = w]
  <2>1. v.pc = "working" /\ v.stage = StageCount /\ v.written < ReportCount
        /\ Unset \notin {v.content.coverage, v.content.summary, v.content.rows}
        /\ UNCHANGED <<now, evidence, runState, stage, reports, claims>>
    BY <1>6 DEF WriteFile, AtReport, AtWork, AllRead, Content1
  <2>2. command' = [command EXCEPT ![c] = x] /\ files' = [files EXCEPT ![w] = v.content]
    BY <1>6 DEF WriteFile, Content1
  <2>3. FinishedIsWhole'
    BY <1>1, <2>1 DEF FinishedIsWhole, AllSucceeded, Succeeded
  <2>4. w \in Reports /\ v.content \in Content
    BY <1>1, <2>1, PilotAssumption DEF Command, Reports
  <2>5. x \in Command /\ files' \in [Reports -> Content \cup {Unset}]
    BY <1>1, <2>2, <2>4 DEF Command
  <2>6. v.recorded = 0
    BY <1>1, <2>1, PilotAssumption DEF IsInOrder, Command, Reports
  <2>7. IsInOrder(x)
    <3> HIDE DEF w
    <3>1. x.recorded = 0 /\ x.pc = v.pc /\ x.stage = v.stage /\ x.content = v.content
      BY <1>1, <2>6 DEF Command
    <3> QED
      BY <1>1, <2>1, <3>1 DEF IsInOrder
  <2> HIDE DEF x
  <2> QED
    BY <1>1, <2>1, <2>2, <2>3, <2>5, <2>7, CommandMoves
<1>7. CASE Finish(c)
  <2>1. UNCHANGED <<now, evidence, stage, reports, files, claims>>
        /\ command' = [command EXCEPT ![c] = Idle]
    BY <1>7 DEF Finish
  <2>2. \/ UNCHANGED runState
        \/ /\ AllSucceeded
           /\ runState' = IF Warnings(stage[StageCount].result) THEN "incomplete" ELSE "complete"
    BY <1>7 DEF Finish
  <2>3. runState' \in {"none", "running", "complete", "incomplete"}
    BY <1>1, <2>2
  <2>4. CASE UNCHANGED runState
    <3>1. FinishedIsWhole'
      BY <1>1, <2>1, <2>4 DEF FinishedIsWhole, AllSucceeded, Succeeded
    <3> QED
      BY <1>1, <2>1, <2>3, <3>1, IdleHoldsNothing, CommandMoves
  <2>5. CASE /\ AllSucceeded
             /\ runState' = IF Warnings(stage[StageCount].result) THEN "incomplete" ELSE "complete"
    <3>1. \A p \in Reports : reports[p] = stage[StageCount].result
      BY <2>5, PilotAssumption DEF PilotInv, ResultIsRecorded, AllSucceeded, Stages
    <3>2. FinishedIsWhole'
      BY <2>1, <2>5, <3>1 DEF FinishedIsWhole, AllSucceeded, Succeeded
    <3> QED
      BY <1>1, <2>1, <2>3, <3>2, IdleHoldsNothing, CommandMoves
  <2> QED
    BY <2>2, <2>4, <2>5
<1>8. CASE Die(c)
  <2>1. UNCHANGED <<now, evidence, runState, stage, reports, files, claims>>
        /\ command' = [command EXCEPT ![c] = Idle]
    BY <1>8 DEF Die
  <2>2. FinishedIsWhole'
    BY <1>1, <2>1 DEF FinishedIsWhole, AllSucceeded, Succeeded
  <2> QED
    BY <1>1, <2>1, <2>2, IdleHoldsNothing, CommandMoves
<1> QED
  BY <1>2, <1>3, <1>4, <1>5, <1>6, <1>7, <1>8

(* A stage that has not succeeded changes with the command that holds it,   *)
(* and the last one succeeds only with the content that is recorded.        *)
LEMMA StageMoves ==
  ASSUME PilotInv, NEW c \in Commands, NEW x \in Command, IsInOrder(x),
         command' = [command EXCEPT ![c] = x], UNCHANGED <<now, evidence, runState, reports, files>>,
         NEW s \in Stages, NEW y \in Stage, ~Succeeded(s), stage' = [stage EXCEPT ![s] = y],
         claims' \in 0..MaxClaims,
         y.state = "succeeded" /\ s = StageCount =>
           y.result \in Content /\ \A p \in Reports : reports[p] = y.result
  PROVE  PilotInv'
<1>1. PilotTypeOK'
  BY DEF PilotInv, PilotTypeOK
<1>2. CommandsInOrder'
  BY DEF PilotInv, PilotTypeOK, CommandsInOrder, IsInOrder
<1>3. \A q \in Stages : stage'[q] = IF q = s THEN y ELSE stage[q]
  BY DEF PilotInv, PilotTypeOK
<1>4. StageCount \in Stages
  BY PilotAssumption DEF Stages
<1>5. ResultIsRecorded'
  BY <1>3, <1>4 DEF PilotInv, ResultIsRecorded, Succeeded
<1>6. runState \notin {"complete", "incomplete"}
  BY DEF PilotInv, FinishedIsWhole, AllSucceeded
<1> QED
  BY <1>1, <1>2, <1>5, <1>6 DEF PilotInv, ReportsInOrder, ReportsAreOneSet, FinishedIsWhole

LEMMA StageSteps ==
  ASSUME PilotInv, NEW c \in Commands,
         ClaimStage(c) \/ CompleteStage(c) \/ FailStage(c)
  PROVE  PilotInv'
<1> DEFINE v == command[c]
<1>1. /\ v \in Command /\ IsInOrder(v) /\ stage \in [Stages -> Stage]
      /\ now \in 0..MaxTime /\ claims \in 0..MaxClaims /\ runState = runState'
      /\ UNCHANGED <<now, evidence, runState, reports, files>>
      /\ FinishedIsWhole
  BY DEF PilotInv, PilotTypeOK, CommandsInOrder, ClaimStage, CompleteStage, FailStage
<1>2. CASE ClaimStage(c)
  <2> DEFINE token == claims + 1
             expires == now + Lease
             y == [stage[First] EXCEPT !.state = "in_flight", !.token = token, !.expires = expires]
             x == [Idle EXCEPT !.pc = "working", !.stage = First, !.token = token]
  <2>1. First \in Stages /\ ~Succeeded(First)
    BY <1>2, FirstIsOpen DEF ClaimStage
  <2>2. claims' = token /\ stage' = [stage EXCEPT ![First] = y] /\ command' = [command EXCEPT ![c] = x]
    BY <1>2 DEF ClaimStage
  <2>3. token \in 0..MaxClaims /\ expires \in 0..(MaxTime + Lease)
    BY <1>1, <1>2, PilotAssumption DEF ClaimStage
  <2> HIDE DEF token, expires
  <2>4. y \in Stage /\ y.state = "in_flight"
    <3>1. stage[First] \in Stage
      BY <1>1, <2>1
    <3> QED
      BY <2>3, <3>1 DEF Stage
  <2>5. x \in Command /\ IsInOrder(x)
    <3> DEFINE a == [Idle EXCEPT !.pc = "working"]
               b == [a EXCEPT !.stage = First]
    <3>1. a = [pc |-> "working", stage |-> 0, token |-> 0, content |-> Unread,
               written |-> 0, recorded |-> 0]
      BY DEF Idle
    <3>2. b = [pc |-> "working", stage |-> First, token |-> 0, content |-> Unread,
               written |-> 0, recorded |-> 0]
      <4> HIDE DEF a
      <4> QED
        BY <3>1
    <3>3. x = [b EXCEPT !.token = token]
      OBVIOUS
    <3> HIDE DEF x, b
    <3>4. x = [pc |-> "working", stage |-> First, token |-> token, content |-> Unread,
               written |-> 0, recorded |-> 0]
      BY <3>2, <3>3
    <3>5. Unread \in Content
      BY DEF Unread, Content, Read
    <3>6. x \in Command
      BY <2>1, <2>3, <3>4, <3>5 DEF Command
    <3> QED
      BY <2>1, <3>4, <3>6 DEF IsInOrder
  <2> HIDE DEF x, y
  <2> QED
    BY <1>1, <2>1, <2>2, <2>3, <2>4, <2>5, StageMoves
<1>3. ASSUME NEW how \in {"succeeded", "failed"}, NEW recorded \in Content \cup {Unset},
             v.pc \in {"working", "worked"}, Mark(c, how, recorded),
             NEW x, x \in Command, IsInOrder(x), command' = [command EXCEPT ![c] = x],
             UNCHANGED claims,
             how = "succeeded" /\ v.stage = StageCount =>
               recorded \in Content /\ \A p \in Reports : reports[p] = recorded
      PROVE  PilotInv'
  <2> DEFINE y == [state |-> how, token |-> 0, expires |-> 0, result |-> recorded]
  <2>1. CASE Holds(c)
    <3>1. v.stage \in Stages /\ ~Succeeded(v.stage)
      BY <1>1, <1>3, <2>1 DEF IsInOrder, Holds, Succeeded
    <3>2. stage' = [stage EXCEPT ![v.stage] = y]
      BY <1>3, <2>1 DEF Mark
    <3>3. y \in Stage
      BY <1>3, PilotAssumption DEF Stage
    <3>4. y.state = "succeeded" /\ v.stage = StageCount =>
            y.result \in Content /\ \A p \in Reports : reports[p] = y.result
      BY <1>3
    <3>5. claims' \in 0..MaxClaims
      BY <1>1, <1>3
    <3> HIDE DEF y
    <3> QED
      BY <1>1, <1>3, <3>1, <3>2, <3>3, <3>4, <3>5, StageMoves
  <2>2. CASE ~Holds(c)
    <3>1. UNCHANGED stage
      BY <1>3, <2>2 DEF Mark
    <3>2. FinishedIsWhole'
      BY <1>1, <3>1 DEF FinishedIsWhole, AllSucceeded, Succeeded
    <3>3. /\ now' \in 0..MaxTime /\ evidence' \in 1..MaxEvidence
          /\ runState' \in {"none", "running", "complete", "incomplete"}
          /\ files' \in [Reports -> Content \cup {Unset}]
      BY <1>1 DEF PilotInv, PilotTypeOK
    <3> QED
      BY <1>1, <1>3, <3>1, <3>2, <3>3, CommandMoves
  <2> QED
    BY <2>1, <2>2
<1>4. CASE CompleteStage(c)
  <2> DEFINE recorded == IF AtReport(c) THEN v.content ELSE Unset
             x == IF Holds(c) THEN [Idle EXCEPT !.pc = "claiming"] ELSE Idle
  <2>1. /\ StageDone(c) /\ Mark(c, "succeeded", recorded)
        /\ command' = [command EXCEPT ![c] = x] /\ UNCHANGED claims
    BY <1>4 DEF CompleteStage, Content1
  <2>2. v.pc \in {"working", "worked"}
    BY <2>1 DEF StageDone, AtReport, AtWork
  <2>3. recorded \in Content \cup {Unset}
    BY <1>1 DEF Command
  <2>4. v.stage = StageCount => recorded \in Content /\ \A p \in Reports : reports[p] = recorded
    <3>1. v.stage = StageCount => AtReport(c) /\ v.recorded = ReportCount
      BY <1>1, <2>1, PilotAssumption DEF StageDone, IsInOrder
    <3> QED
      BY <1>1, <3>1 DEF Command, IsInOrder, Reports
  <2>5. x \in Command /\ IsInOrder(x)
    BY HoldsNothing, IdleHoldsNothing
  <2> HIDE DEF x, recorded
  <2> QED
    BY <1>3, <2>1, <2>2, <2>3, <2>4, <2>5
<1>5. CASE FailStage(c)
  <2>1. v.pc \in {"working", "worked"} /\ Mark(c, "failed", Unset)
        /\ command' = [command EXCEPT ![c] = Idle] /\ UNCHANGED claims
    BY <1>5 DEF FailStage
  <2> QED
    BY <1>3, <2>1, IdleHoldsNothing
<1> QED
  BY <1>2, <1>4, <1>5

(* A report is recorded after those before it, and only as they are. *)
LEMMA ReportKeeps ==
  ASSUME PilotInv, NEW c \in Commands, RecordReport(c)
  PROVE  PilotInv'
<1> DEFINE v == command[c]
           p == v.recorded + 1
           x == [v EXCEPT !.recorded = p]
<1>1. /\ v \in Command /\ IsInOrder(v) /\ command \in [Commands -> Command]
      /\ reports \in [Reports -> Content \cup {Unset}]
  BY DEF PilotInv, PilotTypeOK, CommandsInOrder
<1>2. /\ v.pc = "working" /\ v.stage = StageCount
      /\ v.written = ReportCount /\ v.recorded < ReportCount
      /\ UNCHANGED <<now, evidence, runState, stage, files, claims>>
  BY DEF RecordReport, AtReport, AtWork
<1>3. /\ reports[p] \in {Unset, v.content} /\ command' = [command EXCEPT ![c] = x]
      /\ reports' = [reports EXCEPT ![p] = IF reports[p] = Unset THEN v.content ELSE reports[p]]
  BY DEF RecordReport, SameReport, Content1
<1>4. p \in Reports /\ v.content \in Content /\ v.recorded \in Nat
  BY <1>1, <1>2, PilotAssumption DEF Command, Reports
<1>5. \A q \in Reports : reports'[q] = IF q = p THEN v.content ELSE reports[q]
  BY <1>1, <1>3, <1>4
<1>6. \A q \in Reports : reports[q] # Unset => reports'[q] = reports[q]
  BY <1>3, <1>5
<1>7. v.content # Unset
  BY <1>4, UnsetAssumption
<1>8. \A q \in Reports : reports[q] # Unset => reports[q] = v.content
  <2> SUFFICES ASSUME NEW q \in Reports, reports[q] # Unset PROVE reports[q] = v.content
    OBVIOUS
  <2>1. 1 \in Reports /\ reports[1] # Unset
    <3>1. 1 \in 1..q /\ 1 \in Reports
      BY PilotAssumption DEF Reports
    <3> QED
      BY <3>1 DEF PilotInv, ReportsInOrder
  <2>2. reports[1] = v.content
    <3>1. CASE v.recorded = 0
      BY <1>3, <2>1, <3>1
    <3>2. CASE v.recorded > 0
      BY <1>1, <1>4, <3>2 DEF IsInOrder
    <3> QED
      BY <1>4, <3>1, <3>2
  <2> QED
    BY <2>1, <2>2 DEF PilotInv, ReportsAreOneSet
<1>9. ReportsAreOneSet'
  BY <1>5, <1>8 DEF ReportsAreOneSet
<1>10. ReportsInOrder'
  <2> SUFFICES ASSUME NEW q \in Reports, reports'[q] # Unset, NEW k \in 1..q
               PROVE  reports'[k] # Unset
    BY DEF ReportsInOrder
  <2>1. k \in Reports
    BY PilotAssumption DEF Reports
  <2>2. CASE reports[q] # Unset
    BY <1>6, <2>1, <2>2 DEF PilotInv, ReportsInOrder
  <2>3. CASE q = p
    <3>1. k = p \/ k \in 1..v.recorded
      BY <1>4, <2>3
    <3> QED
      BY <1>1, <1>5, <1>7, <2>1, <3>1 DEF IsInOrder
  <2> QED
    BY <1>5, <2>2, <2>3
<1>11. x \in Command
  BY <1>1, <1>4 DEF Command
<1>12. PilotTypeOK'
  <2>1. reports' \in [Reports -> Content \cup {Unset}]
    BY <1>1, <1>3, <1>4
  <2> HIDE DEF x
  <2> QED
    BY <1>2, <1>3, <1>11, <2>1 DEF PilotInv, PilotTypeOK
<1>13. \A q \in 1..p : reports'[q] = v.content
  <2> SUFFICES ASSUME NEW q \in 1..p PROVE reports'[q] = v.content
    OBVIOUS
  <2>1. q \in Reports
    BY <1>1, <1>4, PilotAssumption DEF Reports
  <2>2. q = p \/ q \in 1..v.recorded
    BY <1>4
  <2> QED
    BY <1>1, <1>5, <2>1, <2>2 DEF IsInOrder
<1>14. CommandsInOrder'
  <2> SUFFICES ASSUME NEW d \in Commands PROVE IsInOrder(command[d])'
    BY DEF CommandsInOrder
  <2>1. CASE d = c
    <3>1. /\ command'[d] = x /\ x.pc = v.pc /\ x.stage = v.stage /\ x.content = v.content
          /\ x.written = v.written /\ x.recorded = p
      BY <1>1, <1>3, <2>1 DEF Command
    <3> HIDE DEF x, p
    <3> QED
      BY <1>1, <1>2, <1>13, <3>1 DEF IsInOrder
  <2>2. CASE d # c
    <3>1. command'[d] = command[d] /\ IsInOrder(command[d])
      BY <1>1, <1>3, <2>2 DEF PilotInv, CommandsInOrder
    <3>2. \A q \in 1..command[d].recorded : reports'[q] = command[d].content
      <4> SUFFICES ASSUME NEW q \in 1..command[d].recorded
                   PROVE  reports'[q] = command[d].content
        OBVIOUS
      <4>1. q \in Reports /\ command[d].content \in Content
        BY <1>1, PilotAssumption DEF Command, Reports
      <4> QED
        BY <1>6, <3>1, <4>1, UnsetAssumption DEF IsInOrder
    <3> QED
      BY <3>1, <3>2 DEF IsInOrder
  <2> QED
    BY <2>1, <2>2
<1>15. ResultIsRecorded'
  BY <1>2, <1>6, UnsetAssumption DEF PilotInv, ResultIsRecorded, Succeeded
<1>16. FinishedIsWhole'
  <2> SUFFICES ASSUME runState \in {"complete", "incomplete"}
               PROVE  FinishedIsWhole'
    BY <1>2 DEF FinishedIsWhole
  <2>1. AllSucceeded /\ Succeeded(StageCount)
    BY PilotAssumption DEF PilotInv, FinishedIsWhole, AllSucceeded, Stages
  <2>2. \A q \in Reports : reports'[q] = reports[q]
    BY <1>6, <2>1, UnsetAssumption DEF PilotInv, ResultIsRecorded
  <2> QED
    BY <1>2, <2>2 DEF PilotInv, FinishedIsWhole, AllSucceeded, Succeeded
<1> QED
  BY <1>9, <1>10, <1>12, <1>14, <1>15, <1>16 DEF PilotInv

LEMMA PilotStep ==
  ASSUME PilotInv, [PilotNext]_pilot
  PROVE  PilotInv'
<1>1. ASSUME UNCHANGED <<runState, stage, reports, files, command, claims>>,
             now' \in 0..MaxTime, evidence' \in 1..MaxEvidence
      PROVE  PilotInv'
  BY <1>1
  DEF PilotInv, PilotTypeOK, CommandsInOrder, IsInOrder, ReportsInOrder, ReportsAreOneSet,
      ResultIsRecorded, FinishedIsWhole, AllSucceeded, Succeeded
<1>2. now \in 0..MaxTime /\ evidence \in 1..MaxEvidence
  BY DEF PilotInv, PilotTypeOK
<1>3. CASE Tick
  BY <1>1, <1>2, <1>3, PilotAssumption DEF Tick
<1>4. CASE EvidenceMoves
  BY <1>1, <1>2, <1>4, PilotAssumption DEF EvidenceMoves
<1>5. CASE UNCHANGED pilot
  BY <1>1, <1>2, <1>5 DEF pilot
<1> QED
  BY <1>3, <1>4, <1>5, CommandSteps, StageSteps, ReportKeeps DEF PilotNext

LEMMA PilotInvariant == PilotSpec => []PilotInv
<1>1. PilotInv /\ [PilotNext]_pilot => PilotInv'
  BY PilotStep
<1> QED
  BY <1>1, PilotStarts, PTL DEF PilotSpec

(* Type correctness of the shadow audit. *)
THEOREM PilotTypes == PilotSpec => []PilotTypeOK
  BY PilotInvariant, PTL DEF PilotInv

(* However many commands take up a run between failures, each with the      *)
(* evidence it read, the reports recorded for it are of one content         *)
(* (postgres-pilot-store.ts, recordReport).                                 *)
THEOREM ReportsAgree == PilotSpec => []ReportsAreOneSet
  BY PilotInvariant, PTL DEF PilotInv

(* A finished run has done every stage and recorded every report, and its   *)
(* verdict is the one of the content it recorded (finishRun).               *)
THEOREM FinishedRunsAreWhole == PilotSpec => []FinishedIsWhole
  BY PilotInvariant, PTL DEF PilotInv

-----------------------------------------------------------------------------
(* PaymentCheck. *)
LEMMA LeastNat ==
  ASSUME NEW S \in SUBSET Nat, S # {}
  PROVE  \E x \in S : \A y \in S : x <= y
<1>1. PICK x \in S : \A y \in S : ~(<<y, x>> \in OpToRel(<, Nat))
  BY NatLessThanWellFounded, WFMin
<1>2. \A y \in S : ~(y < x)
  BY <1>1 DEF OpToRel
<1> QED
  BY <1>2

(* h holds the sums of the first values of f, up to the n-th. *)
Sums(n, f, h) == h = [m \in 0..n |-> IF m = 0 THEN 0 ELSE h[m - 1] + f[m]]

LEMMA SumsExist ==
  ASSUME NEW N \in Nat, NEW f
  PROVE  \E h : Sums(N, f, h)
<1> DEFINE Missing == {k \in Nat : ~\E h : Sums(k, f, h)}
<1>1. SUFFICES ASSUME Missing # {} PROVE FALSE
  OBVIOUS
<1>2. PICK k \in Missing : \A m \in Missing : k <= m
  BY <1>1, LeastNat
<1>3. CASE k = 0
  <2> DEFINE h == [n \in 0..0 |-> 0]
  <2>1. Sums(0, f, h)
    BY DEF Sums
  <2> QED
    BY <1>2, <1>3, <2>1
<1>4. CASE k # 0
  <2>1. k - 1 \in Nat /\ k - 1 \notin Missing /\ k \in Nat
    BY <1>2, <1>4
  <2>2. PICK g : Sums(k - 1, f, g)
    BY <2>1
  <2> DEFINE h == [n \in 0..k |-> IF n = k THEN g[k - 1] + f[k] ELSE g[n]]
             Term(n) == IF n = 0 THEN 0 ELSE h[n - 1] + f[n]
  <2>3. \A n \in 0..k - 1 : g[n] = IF n = 0 THEN 0 ELSE g[n - 1] + f[n]
    BY <2>1, <2>2 DEF Sums
  <2>4. \A n \in 0..k : h[n] = IF n = k THEN g[k - 1] + f[k] ELSE g[n]
    OBVIOUS
  <2>5. h = [n \in 0..k |-> h[n]]
    OBVIOUS
  <2>6. ASSUME NEW n \in 0..k PROVE h[n] = IF n = 0 THEN 0 ELSE h[n - 1] + f[n]
    <3> HIDE DEF h
    <3>1. CASE n = k
      <4>1. h[n - 1] = g[k - 1]
        BY <2>1, <2>4, <3>1
      <4> QED
        BY <1>4, <2>1, <2>4, <3>1, <4>1
    <3>2. CASE n # k /\ n # 0
      <4>1. n \in 0..k - 1 /\ n - 1 \in 0..k - 1 /\ n - 1 \in 0..k /\ n - 1 # k
        BY <2>1, <3>2
      <4> QED
        BY <2>3, <2>4, <3>2, <4>1
    <3>3. CASE n # k /\ n = 0
      BY <2>1, <2>3, <2>4, <3>3
    <3> QED
      BY <3>1, <3>2, <3>3
  <2>7. h = [n \in 0..k |-> IF n = 0 THEN 0 ELSE h[n - 1] + f[n]]
    <3> HIDE DEF h
    <3> QED
      BY <2>5, <2>6
  <2>8. Sums(k, f, h)
    <3> HIDE DEF h
    <3> QED
      BY <2>7 DEF Sums
  <2> QED
    BY <1>2, <2>8
<1> QED
  BY <1>3, <1>4

(* The first N values of f are integers; they are those of g and e together. *)
IntegersTo(N, f) == \A n \in 1..N : f[n] \in Int
SplitTo(N, f, g, e) == \A n \in 1..N : f[n] = g[n] + e[n]

(* A total is the last of the sums, and they are integers. *)
Adds(N, f, h) ==
  /\ h[0] = 0 /\ Total(f, N) = h[N]
  /\ \A n \in 0..N : h[n] \in Int
  /\ \A n \in 1..N : h[n] = h[n - 1] + f[n]

LEMMA TotalIsSum ==
  ASSUME NEW N \in Nat, NEW f, IntegersTo(N, f)
  PROVE  \E h : Adds(N, f, h)
<1> DEFINE h == CHOOSE g : Sums(N, f, g)
<1>1. Sums(N, f, h)
  BY SumsExist, Zenon
<1>2. Total(f, N) = h[N]
  BY Zenon DEF Total, Sums
<1> HIDE DEF h
<1>3. h[0] = 0 /\ \A n \in 1..N : h[n] = h[n - 1] + f[n]
  BY <1>1 DEF Sums
<1>4. \A n \in 0..N : h[n] \in Int
  <2> DEFINE Wrong == {k \in Nat : k <= N /\ h[k] \notin Int}
  <2>1. SUFFICES ASSUME Wrong # {} PROVE FALSE
    OBVIOUS
  <2>2. PICK k \in Wrong : \A m \in Wrong : k <= m
    BY <2>1, LeastNat
  <2>3. k # 0 /\ k \in 1..N /\ k - 1 \in Nat /\ k - 1 <= N /\ k - 1 \notin Wrong
    BY <1>3, <2>2
  <2>4. h[k - 1] \in Int /\ f[k] \in Int /\ h[k] = h[k - 1] + f[k]
    BY <1>3, <2>3 DEF IntegersTo
  <2> QED
    BY <2>2, <2>4
<1>5. Adds(N, f, h)
  BY <1>2, <1>3, <1>4 DEF Adds
<1> QED
  BY <1>5

(* Where the terms add up, so do the sums. *)
LEMMA SumsAdd ==
  ASSUME NEW N \in Nat, NEW M \in Nat, N <= M, NEW f, NEW g, NEW e,
         IntegersTo(M, f), IntegersTo(N, g), IntegersTo(N, e), SplitTo(N, f, g, e)
  PROVE  /\ Total(g, N) \in Int /\ Total(e, N) \in Int
         /\ \E u : Adds(M, f, u) /\ u[N] = Total(g, N) + Total(e, N)
<1>1. PICK u : Adds(M, f, u)
  BY TotalIsSum, Zenon
<1>2. PICK v : Adds(N, g, v)
  BY TotalIsSum, Zenon
<1>3. PICK w : Adds(N, e, w)
  BY TotalIsSum, Zenon
<1> USE DEF Adds
<1>4. \A n \in 0..N : u[n] = v[n] + w[n]
  <2> DEFINE Wrong == {k \in Nat : k <= N /\ u[k] # v[k] + w[k]}
  <2>1. SUFFICES ASSUME Wrong # {} PROVE FALSE
    OBVIOUS
  <2>2. PICK k \in Wrong : \A m \in Wrong : k <= m
    BY <2>1, LeastNat
  <2>3. k # 0 /\ k \in 1..N /\ k \in 1..M /\ k - 1 \in 0..N /\ k - 1 \in 0..M /\ k - 1 \notin Wrong
    BY <1>1, <1>2, <1>3, <2>2
  <2>4. u[k - 1] = v[k - 1] + w[k - 1]
    BY <2>3
  <2>5. u[k] = u[k - 1] + f[k] /\ v[k] = v[k - 1] + g[k] /\ w[k] = w[k - 1] + e[k]
    BY <1>1, <1>2, <1>3, <2>3
  <2>6. /\ f[k] = g[k] + e[k] /\ g[k] \in Int /\ e[k] \in Int
        /\ v[k - 1] \in Int /\ w[k - 1] \in Int
    BY <1>2, <1>3, <2>3 DEF IntegersTo, SplitTo
  <2>7. u[k] = v[k] + w[k]
    BY <2>4, <2>5, <2>6
  <2> QED
    BY <2>2, <2>7
<1>5. u[N] = v[N] + w[N] /\ v[N] \in Int /\ w[N] \in Int
  BY <1>2, <1>3, <1>4
<1> QED
  BY <1>1, <1>2, <1>3, <1>5

LEMMA TotalsAdd ==
  ASSUME NEW N \in Nat, NEW f, NEW g, NEW e,
         IntegersTo(N, f), IntegersTo(N, g), IntegersTo(N, e), SplitTo(N, f, g, e)
  PROVE  /\ Total(g, N) \in Int /\ Total(e, N) \in Int
         /\ Total(f, N) = Total(g, N) + Total(e, N)
<1>1. N <= N
  OBVIOUS
<1>2. /\ Total(g, N) \in Int /\ Total(e, N) \in Int
      /\ \E u : Adds(N, f, u) /\ u[N] = Total(g, N) + Total(e, N)
  BY <1>1, SumsAdd
<1> QED
  BY <1>2 DEF Adds

LEMMA NothingTotalsNothing ==
  ASSUME NEW N \in Nat, NEW f, \A n \in 1..N : f[n] = 0
  PROVE  Total(f, N) = 0
<1>1. IntegersTo(N, f)
  BY DEF IntegersTo
<1>2. SplitTo(N, f, f, f)
  BY DEF SplitTo
<1>3. Total(f, N) \in Int /\ Total(f, N) = Total(f, N) + Total(f, N)
  BY <1>1, <1>2, TotalsAdd
<1> QED
  BY <1>3, SMTT(30)

LEMMA TotalGrows ==
  ASSUME NEW N \in Nat, NEW f, NEW g, IntegersTo(N + 1, f), \A n \in 1..N : f[n] = g[n]
  PROVE  Total(g, N) \in Int /\ Total(f, N + 1) = Total(g, N) + f[N + 1]
<1> DEFINE e == [n \in 1..N |-> 0]
<1>1. \A n \in 1..N : e[n] = 0
  OBVIOUS
<1> HIDE DEF e
<1>2. Total(e, N) = 0
  BY <1>1, NothingTotalsNothing
<1>3. \A n \in 1..N : g[n] \in Int
  BY DEF IntegersTo
<1>4. IntegersTo(N, g) /\ IntegersTo(N, e) /\ SplitTo(N, f, g, e)
  BY <1>1, <1>3 DEF IntegersTo, SplitTo
<1>5. N + 1 \in Nat /\ N <= N + 1
  OBVIOUS
<1>7. /\ Total(g, N) \in Int /\ Total(e, N) \in Int
      /\ \E u : Adds(N + 1, f, u) /\ u[N] = Total(g, N) + Total(e, N)
  BY <1>4, <1>5, SumsAdd
<1>8. PICK u : Adds(N + 1, f, u) /\ u[N] = Total(g, N) + Total(e, N)
  BY <1>7
<1>9. N + 1 \in 1..N + 1 /\ N + 1 - 1 = N
  OBVIOUS
<1>10. u[N + 1] = u[N] + f[N + 1] /\ Total(f, N + 1) = u[N + 1]
  BY <1>8, <1>9 DEF Adds
<1> QED
  BY <1>2, <1>7, <1>8, <1>10

-----------------------------------------------------------------------------
Ops ==
  {"transfer", "transferChecked", "mintTo", "burn", "initialize", "close", "approve", "program"}
Instructions ==
  [op : Ops, accounts : Seq(Accounts), amount : Nat, reference : BOOLEAN, at : Nat \X Nat]

(* An instruction that does something names its accounts. *)
IsFormed(i) ==
  /\ i \in Instructions
  /\ IsTransfer(i) => Len(i.accounts) = 2
  /\ i.op \in {"mintTo", "burn", "initialize", "close"} => Len(i.accounts) = 1

CheckTypes ==
  /\ held \in [Accounts -> Int \cup {Absent}]
  /\ log \in Seq(Instructions) /\ \A k \in 1..Len(log) : IsFormed(log[k])
  /\ report = NoReport \/ report \in [told : {TRUE}, ok : BOOLEAN, inner : BOOLEAN]

(* What all instructions changed the balance of an account by. *)
Changes(a) == [k \in 1..Len(log) |-> Change(log[k], a)]

BalancesAddUp ==
  (report.told => report.ok) =>
    \A a \in Accounts : ActualDelta(a) = Total(Changes(a), Len(log))

CheckInv == CheckTypes /\ BalancesAddUp

LEMMA ChangeIsInt ==
  ASSUME NEW i, IsFormed(i), NEW a
  PROVE  Change(i, a) \in Int
<1>1. i.amount \in Int
  BY DEF IsFormed, Instructions
<1> QED
  BY <1>1 DEF Change, Moved

LEMMA CheckStarts == CheckInit => CheckInv
<1> SUFFICES ASSUME CheckInit PROVE CheckInv
  OBVIOUS
<1>1. CheckTypes
  BY CheckAssumption DEF CheckInit, CheckTypes
<1>2. ASSUME NEW a \in Accounts PROVE ActualDelta(a) = Total(Changes(a), Len(log))
  <2>1. Total(Changes(a), 0) = 0
    BY NothingTotalsNothing
  <2>2. Balance(held, a) = Balance(Opening, a) /\ Balance(Opening, a) \in Int
    BY CheckAssumption DEF CheckInit, Balance
  <2>3. Len(log) = 0
    BY DEF CheckInit
  <2> QED
    BY <2>1, <2>2, <2>3 DEF ActualDelta
<1> QED
  BY <1>1, <1>2 DEF CheckInv, BalancesAddUp

(* What an instruction does to the balances is what it changes them by. *)
LEMMA EffectIsChange ==
  ASSUME CheckTypes, NEW i, IsFormed(i), Legal(i)
  PROVE  /\ Effect(i) \in [Accounts -> Int \cup {Absent}]
         /\ \A a \in Accounts :
              /\ Balance(held, a) \in Int
              /\ Balance(Effect(i), a) = Balance(held, a) + Change(i, a)
<1>1. /\ held \in [Accounts -> Int \cup {Absent}] /\ i.amount \in Int
      /\ i.accounts \in Seq(Accounts)
  BY DEF CheckTypes, IsFormed, Instructions
<1>2. Absent \notin Int
  BY CheckAssumption
<1>3. \A a \in Accounts : Balance(held, a) \in Int
  BY <1>1 DEF Balance
<1>4. CASE IsTransfer(i)
  <2> DEFINE s == i.accounts[1]  d == i.accounts[2]
  <2>1. s \in Accounts /\ d \in Accounts
    BY <1>1, <1>4 DEF IsFormed
  <2>2. held[s] # Absent /\ held[d] # Absent
    BY <1>4 DEF Legal, Open, IsTransfer
  <2>3. held[s] \in Int /\ held[d] \in Int
    BY <1>1, <2>1, <2>2
  <2>4. Effect(i) = [[held EXCEPT ![s] = @ - i.amount] EXCEPT ![d] = @ + i.amount]
    BY <1>4 DEF Effect, IsTransfer
  <2>5. \A a \in Accounts : Change(i, a) = (IF d = a THEN i.amount ELSE 0) - (IF s = a THEN i.amount ELSE 0)
    BY <1>4 DEF Change, Moved, IsTransfer
  <2> HIDE DEF s, d
  <2> QED
    BY <1>1, <1>2, <1>3, <2>1, <2>2, <2>3, <2>4, <2>5 DEF Balance
<1>5. CASE i.op \in {"mintTo", "burn", "initialize", "close"}
  <2> DEFINE s == i.accounts[1]
  <2>1. s \in Accounts
    BY <1>1, <1>5 DEF IsFormed
  <2>2. CASE i.op = "mintTo"
    BY <1>1, <1>2, <1>3, <2>1, <2>2 DEF Legal, Open, Effect, Change, IsTransfer, Balance
  <2>3. CASE i.op = "burn"
    BY <1>1, <1>2, <1>3, <2>1, <2>3 DEF Legal, Open, Effect, Change, IsTransfer, Balance
  <2>4. CASE i.op = "initialize"
    BY <1>1, <1>2, <1>3, <2>1, <2>4 DEF Legal, Open, Effect, Change, IsTransfer, Balance
  <2>5. CASE i.op = "close"
    BY <1>1, <1>2, <1>3, <2>1, <2>5 DEF Legal, Open, Effect, Change, IsTransfer, Balance
  <2> QED
    BY <1>5, <2>2, <2>3, <2>4, <2>5
<1>6. CASE ~IsTransfer(i) /\ i.op \notin {"mintTo", "burn", "initialize", "close"}
  <2>1. Effect(i) = held /\ \A a \in Accounts : Change(i, a) = 0
    BY <1>6 DEF Effect, Change, IsTransfer
  <2> QED
    BY <1>1, <1>3, <2>1
<1> QED
  BY <1>4, <1>5, <1>6

LEMMA PlacesAreNumbers ==
  ASSUME CheckTypes
  PROVE  Places \subseteq Nat \X Nat
<1>1. CASE log = <<>>
  BY <1>1 DEF Places
<1>2. CASE log # <<>>
  <2>1. Last(log).at \in Nat \X Nat
    <3>1. Len(log) \in 1..Len(log)
      BY <1>2 DEF CheckTypes
    <3>2. log[Len(log)] \in Instructions
      BY <3>1 DEF CheckTypes, IsFormed
    <3> QED
      BY <3>2 DEF Last, Instructions
  <2> DEFINE p == Last(log).at
  <2>2. p[1] \in Nat /\ p[2] \in Nat
    BY <2>1
  <2>3. \A q \in Places : q = <<p[1] + 1, 0>> \/ q = <<p[1], p[2] + 1>>
    BY <1>2 DEF Places
  <2> HIDE DEF p
  <2> QED
    BY <2>2, <2>3
<1> QED
  BY <1>1, <1>2

LEMMA ExecuteKeeps ==
  ASSUME CheckInv, NEW i, IsFormed(i), Execute(i)
  PROVE  CheckInv'
<1> DEFINE n == Len(log)
<1>1. PICK p \in Places : log' = Append(log, [i EXCEPT !.at = p])
  BY DEF Execute
<1> DEFINE j == [i EXCEPT !.at = p]
<1>2. p \in Nat \X Nat
  BY PlacesAreNumbers DEF CheckInv
<1>3. /\ j \in Instructions /\ j.op = i.op /\ j.accounts = i.accounts /\ j.amount = i.amount
  BY <1>2 DEF IsFormed, Instructions
<1> HIDE DEF j
<1>4. IsFormed(j)
  BY <1>3 DEF IsFormed, IsTransfer
<1>5. log \in Seq(Instructions) /\ n \in Nat
  BY DEF CheckInv, CheckTypes
<1>6. log' = Append(log, j)
  BY <1>1 DEF j
<1>7. /\ log' \in Seq(Instructions) /\ Len(log') = n + 1
      /\ \A k \in 1..n : log'[k] = log[k]
      /\ log'[n + 1] = j
  BY <1>3, <1>5, <1>6
<1> HIDE DEF n
<1>8. /\ held' = Effect(i) /\ report' = report /\ ~report.told
  BY DEF Execute
<1>9. /\ held' \in [Accounts -> Int \cup {Absent}]
      /\ \A a \in Accounts :
           Balance(held, a) \in Int /\ Balance(held', a) = Balance(held, a) + Change(i, a)
  BY <1>8, EffectIsChange DEF CheckInv, Execute
<1>10. \A k \in 1..n + 1 : IsFormed(log'[k])
  <2>1. \A k \in 1..n + 1 : k \in 1..n \/ k = n + 1
    BY <1>5
  <2>2. \A k \in 1..n : IsFormed(log[k])
    BY DEF CheckInv, CheckTypes, n
  <2> QED
    BY <1>4, <1>7, <2>1, <2>2
<1>11. CheckTypes'
  BY <1>7, <1>8, <1>9, <1>10 DEF CheckInv, CheckTypes, IsFormed, IsTransfer
<1>12. ASSUME NEW a \in Accounts PROVE ActualDelta(a)' = Total(Changes(a), Len(log))'
  <2> DEFINE f == [k \in 1..n + 1 |-> Change(log'[k], a)]
             g == [k \in 1..n |-> Change(log[k], a)]
  <2>1. IntegersTo(n + 1, f)
    BY <1>10, ChangeIsInt DEF IntegersTo
  <2>2. \A k \in 1..n : f[k] = g[k]
    BY <1>5, <1>7
  <2>3. f[n + 1] = Change(i, a)
    BY <1>3, <1>5, <1>7 DEF Change, Moved, IsTransfer
  <2>5. Total(g, n) \in Int /\ Total(f, n + 1) = Total(g, n) + Change(i, a)
    <3> HIDE DEF f, g
    <3> QED
      BY <1>5, <2>1, <2>2, <2>3, TotalGrows
  <2>6. ActualDelta(a) = Total(g, n)
    BY <1>8 DEF CheckInv, BalancesAddUp, Changes, n
  <2>7. Total(Changes(a), Len(log))' = Total(f, n + 1)
    BY <1>7 DEF Changes
  <2>8. ActualDelta(a)' = ActualDelta(a) + Change(i, a)
    <3>1. Balance(Opening, a) \in Int /\ Change(i, a) \in Int
      BY CheckAssumption, ChangeIsInt DEF Balance
    <3> QED
      BY <1>9, <3>1 DEF ActualDelta, Balance
  <2> HIDE DEF f, g
  <2> QED
    BY <2>5, <2>6, <2>7, <2>8
<1> QED
  BY <1>11, <1>12 DEF CheckInv, BalancesAddUp

LEMMA TellKeeps ==
  ASSUME CheckInv, Tell
  PROVE  CheckInv'
<1>1. PICK ok \in BOOLEAN, inner \in BOOLEAN :
        /\ held' = IF ok THEN held ELSE Opening
        /\ report' = [told |-> TRUE, ok |-> ok, inner |-> inner]
  BY DEF Tell
<1>2. log' = log /\ ~report.told
  BY DEF Tell
<1>3. CheckTypes'
  <2>1. Opening \in [Accounts -> Int \cup {Absent}]
    BY CheckAssumption
  <2>2. held' \in [Accounts -> Int \cup {Absent}]
    BY <1>1, <2>1 DEF CheckInv, CheckTypes
  <2> QED
    BY <1>1, <1>2, <2>2 DEF CheckInv, CheckTypes, IsFormed, IsTransfer
<1>4. (report.told => report.ok)' => held' = held
  BY <1>1
<1> QED
  BY <1>2, <1>3, <1>4 DEF CheckInv, BalancesAddUp, ActualDelta, Balance, Changes

LEMMA InstructionIsFormed ==
  ASSUME NEW op \in Ops, NEW a \in Seq(Accounts), NEW n \in Nat, NEW paid \in BOOLEAN,
         op \in {"transfer", "transferChecked"} => Len(a) = 2,
         op \in Unsupported => Len(a) = 1
  PROVE  IsFormed(Instruction(op, a, n, paid))
<1> DEFINE i == Instruction(op, a, n, paid)
<1>1. i \in Instructions /\ i.op = op /\ i.accounts = a
  BY DEF Instruction, Instructions, Nowhere
<1> HIDE DEF i
<1>2. IsFormed(i)
  BY <1>1 DEF IsFormed, IsTransfer, Unsupported
<1> QED
  BY <1>2 DEF i

LEMMA CallsAreFormed ==
  /\ \A n \in Amounts, paid \in BOOLEAN : \A i \in Moves(n, paid) : IsFormed(i)
  /\ \A i \in Others : IsFormed(i)
  /\ IsFormed(Call)
<1>1. ASSUME NEW n \in Amounts, NEW paid \in BOOLEAN, NEW op \in {"transfer", "transferChecked"},
             NEW s \in Accounts, NEW d \in Accounts
      PROVE  IsFormed(Instruction(op, <<s, d>>, n, paid))
  <2>1. n \in Nat
    BY CheckAssumption
  <2>2. <<s, d>> \in Seq(Accounts) /\ Len(<<s, d>>) = 2
    OBVIOUS
  <2>3. op \in Ops /\ op \notin Unsupported
    BY DEF Ops, Unsupported
  <2> QED
    BY <2>1, <2>2, <2>3, InstructionIsFormed
<1>2. ASSUME NEW op \in Unsupported, NEW a \in Accounts
      PROVE  IsFormed(Instruction(op, <<a>>, 1, FALSE))
  <2>1. <<a>> \in Seq(Accounts) /\ Len(<<a>>) = 1
    OBVIOUS
  <2>2. op \in Ops /\ op \notin {"transfer", "transferChecked"}
    BY DEF Ops, Unsupported
  <2> QED
    BY <2>1, <2>2, InstructionIsFormed
<1>3. IsFormed(Call)
  <2>1. <<>> \in Seq(Accounts)
    OBVIOUS
  <2>2. "program" \in Ops /\ "program" \notin Unsupported
    BY DEF Ops, Unsupported
  <2> QED
    BY <2>1, <2>2, InstructionIsFormed DEF Call
<1>4. \A n \in Amounts, paid \in BOOLEAN : \A i \in Moves(n, paid) : IsFormed(i)
  <2> SUFFICES ASSUME NEW n \in Amounts, NEW paid \in BOOLEAN, NEW i \in Moves(n, paid)
               PROVE  IsFormed(i)
    OBVIOUS
  <2>1. PICK op \in {"transfer", "transferChecked"}, s \in Accounts, d \in Accounts :
          i = Instruction(op, <<s, d>>, n, paid)
    BY DEF Moves
  <2> QED
    BY <1>1, <2>1
<1>5. \A i \in Others : IsFormed(i)
  <2> DEFINE One(op, a) == Instruction(op, <<a>>, 1, FALSE)
  <2>1. Others = {One(op, a) : op \in Unsupported, a \in Accounts}
    BY DEF Others
  <2>2. \A op \in Unsupported, a \in Accounts : IsFormed(One(op, a))
    BY <1>2
  <2> HIDE DEF One
  <2> QED
    BY <2>1, <2>2
<1> QED
  BY <1>3, <1>4, <1>5

LEMMA CheckInvariant == CheckSpec => []CheckInv
<1>1. CheckInv /\ [CheckNext]_payment => CheckInv'
  <2> SUFFICES ASSUME CheckInv, [CheckNext]_payment PROVE CheckInv'
    OBVIOUS
  <2>1. ASSUME NEW i, IsFormed(i), Execute(i) PROVE CheckInv'
    BY <2>1, ExecuteKeeps
  <2>2. CASE Tell
    BY <2>2, TellKeeps
  <2>3. CASE UNCHANGED payment
    BY <2>3 DEF payment, CheckInv, CheckTypes, BalancesAddUp, ActualDelta, Balance, Changes,
                IsFormed, IsTransfer
  <2> QED
    BY <2>1, <2>2, <2>3, CallsAreFormed DEF CheckNext
<1> QED
  BY <1>1, CheckStarts, PTL DEF CheckSpec

(* What is looked at and what is hidden add up to all. *)
LEMMA PartsAddUp ==
  ASSUME CheckTypes, NEW a \in Accounts, NEW S \in SUBSET (1..Len(log))
  PROVE  LET N == Len(log)
             f == [k \in 1..N |-> IF k \in S THEN Change(log[k], a) ELSE 0]
             g == [k \in 1..N |-> IF k \in S THEN 0 ELSE Change(log[k], a)]
         IN  /\ Total(f, N) \in Int /\ Total(g, N) \in Int
             /\ Total(Changes(a), N) = Total(f, N) + Total(g, N)
<1> DEFINE N == Len(log)
           f == [k \in 1..N |-> IF k \in S THEN Change(log[k], a) ELSE 0]
           g == [k \in 1..N |-> IF k \in S THEN 0 ELSE Change(log[k], a)]
           h == Changes(a)
<1>1. N \in Nat /\ \A k \in 1..N : Change(log[k], a) \in Int
  BY ChangeIsInt DEF CheckTypes
<1>2. \A k \in 1..N : h[k] = Change(log[k], a)
  BY DEF Changes
<1>3. \A k \in 1..N : f[k] \in Int /\ g[k] \in Int /\ h[k] \in Int /\ h[k] = f[k] + g[k]
  <2> SUFFICES ASSUME NEW k \in 1..N
      PROVE  f[k] \in Int /\ g[k] \in Int /\ h[k] \in Int /\ h[k] = f[k] + g[k]
    OBVIOUS
  <2>1. Change(log[k], a) \in Int /\ h[k] = Change(log[k], a)
    BY <1>1, <1>2
  <2>2. f[k] = IF k \in S THEN Change(log[k], a) ELSE 0
    OBVIOUS
  <2>3. g[k] = IF k \in S THEN 0 ELSE Change(log[k], a)
    OBVIOUS
  <2> HIDE DEF f, g, h
  <2> QED
    BY <2>1, <2>2, <2>3
<1> SUFFICES /\ Total(f, N) \in Int /\ Total(g, N) \in Int
             /\ Total(h, N) = Total(f, N) + Total(g, N)
  OBVIOUS
<1> HIDE DEF f, g, h, N
<1>4. IntegersTo(N, f) /\ IntegersTo(N, g) /\ IntegersTo(N, h) /\ SplitTo(N, h, f, g)
  BY <1>3 DEF IntegersTo, SplitTo
<1> QED
  BY <1>1, <1>4, TotalsAdd

(* Totals of the same numbers are the same. *)
LEMMA SameTotals ==
  ASSUME NEW N \in Nat, NEW f, NEW g, IntegersTo(N, f), \A k \in 1..N : f[k] = g[k]
  PROVE  Total(f, N) = Total(g, N)
<1> DEFINE e == [k \in 1..N |-> 0]
<1>1. \A k \in 1..N : e[k] = 0
  OBVIOUS
<1> HIDE DEF e
<1>2. Total(e, N) = 0
  BY <1>1, NothingTotalsNothing
<1>3. IntegersTo(N, g) /\ IntegersTo(N, e)
  BY <1>1 DEF IntegersTo
<1>4. SplitTo(N, f, g, e)
  BY <1>1, <1>3 DEF IntegersTo, SplitTo
<1>5. Total(g, N) \in Int /\ Total(f, N) = Total(g, N) + Total(e, N)
  BY <1>3, <1>4, TotalsAdd
<1> QED
  BY <1>2, <1>5

(* A transaction that is not refused for an account holds no instruction    *)
(* that the parser sees, passes over and that changes the account.          *)
LEMMA SeenIsParsed ==
  ASSUME CheckTypes, NEW a \in Accounts, NEW watched, a \in watched, ~Refused(watched)
  PROVE  /\ ParsedDelta(a)
              = Total([k \in 1..Len(log) |-> IF k \in Visible THEN Change(log[k], a) ELSE 0], Len(log))
         /\ ParsedDelta(a) \in Int
<1> DEFINE N == Len(log)
           f == [k \in 1..N |-> IF k \in Parsed THEN Moved(log[k], a) ELSE 0]
           g == [k \in 1..N |-> IF k \in Visible THEN Change(log[k], a) ELSE 0]
<1>1. N \in Nat /\ \A k \in 1..N : IsFormed(log[k])
  BY DEF CheckTypes
<1>2. ASSUME NEW k \in 1..N PROVE f[k] \in Int /\ f[k] = g[k]
  <2>1. Change(log[k], a) \in Int
    BY <1>1, ChangeIsInt
  <2>2. CASE k \in Parsed
    <3>1. k \in Visible /\ IsTransfer(log[k])
      BY <2>2 DEF Parsed, Tokens
    <3>2. Change(log[k], a) = Moved(log[k], a)
      BY <3>1 DEF Change, IsTransfer
    <3> QED
      BY <2>1, <2>2, <3>1, <3>2
  <2>3. CASE k \notin Visible
    <3>1. k \notin Parsed
      BY <2>3 DEF Parsed, Tokens
    <3> QED
      BY <2>3, <3>1
  <2>4. CASE k \in Visible /\ k \notin Parsed
    <3>1. ~IsTransfer(log[k])
      BY <2>4 DEF Parsed, Tokens, IsTransfer
    <3>2. Change(log[k], a) = 0
      <4>1. CASE log[k].op \in {"mintTo", "burn"}
        <5>1. k \in Tokens
          BY <2>4, <4>1 DEF Tokens
        <5>2. ~Affects(log[k], watched)
          BY <3>1, <5>1 DEF Refused
        <5>3. Len(log[k].accounts) = 1
          BY <1>1, <4>1 DEF IsFormed
        <5>4. log[k].accounts[1] # a
          BY <5>2, <5>3 DEF Affects
        <5> QED
          BY <3>1, <4>1, <5>4 DEF Change
      <4>2. CASE log[k].op \notin {"mintTo", "burn"}
        BY <3>1, <4>2 DEF Change
      <4> QED
        BY <4>1, <4>2
    <3> QED
      BY <2>4, <3>2
  <2> QED
    BY <2>2, <2>3, <2>4
<1>3. Total(f, N) = Total(g, N)
  <2> HIDE DEF f, g, N
  <2>1. IntegersTo(N, f)
    BY <1>2 DEF IntegersTo
  <2> QED
    BY <1>1, <1>2, <2>1, SameTotals
<1>4. Total(g, N) \in Int
  BY PartsAddUp DEF Visible
<1> QED
  BY <1>3, <1>4 DEF ParsedDelta

(* Safety: for any accounts, amounts and length of the transaction, what     *)
(* changes a balance and is not among the transfers read was not told by the *)
(* node, or the transaction is refused; where it passes as the expected      *)
(* payment, what was not told left the balance of the shop as it was.        *)
THEOREM NothingToldGoesUnnoticed == CheckSpec => []ExplainedOrRefused
<1>1. ASSUME CheckInv, report.told, report.ok PROVE ExplainedOrRefused
  <2>1. CheckTypes
    BY <1>1 DEF CheckInv
  <2> DEFINE N == Len(log)
             Seen(a) == Total([k \in 1..N |-> IF k \in Visible THEN Change(log[k], a) ELSE 0], N)
             Unseen(a) == Total([k \in 1..N |-> IF k \in Visible THEN 0 ELSE Change(log[k], a)], N)
  <2>2. \A a \in Accounts : /\ Seen(a) \in Int /\ Unseen(a) \in Int
                            /\ Total(Changes(a), N) = Seen(a) + Unseen(a)
    BY <2>1, PartsAddUp DEF Visible
  <2>3. ASSUME NEW a \in Accounts, NEW watched, a \in watched, ~Refused(watched)
        PROVE  ParsedDelta(a) = Seen(a)
    BY <2>1, <2>3, SeenIsParsed
  <2>4. ASSUME NEW a \in Accounts PROVE UntoldDelta(a) = Unseen(a)
    <3>1. \A k \in 1..N : k \in Untold <=> k \notin Visible
      BY <2>1 DEF Untold, Visible, CheckTypes, IsFormed
    <3>2. [k \in 1..N |-> IF k \in Untold THEN Change(log[k], a) ELSE 0]
            = [k \in 1..N |-> IF k \in Visible THEN 0 ELSE Change(log[k], a)]
      BY <3>1
    <3> QED
      BY <3>2 DEF UntoldDelta
  <2> HIDE DEF Seen, Unseen
  <2>5. \A a \in Accounts : ActualDelta(a) = Seen(a) + Unseen(a)
    BY <1>1, <2>2 DEF CheckInv, BalancesAddUp
  <2>6. ASSUME NEW a \in Accounts, ~Refused({a})
        PROVE  ActualDelta(a) = ParsedDelta(a) + UntoldDelta(a)
    BY <2>3, <2>4, <2>5, <2>6
  <2>7. ASSUME Passed PROVE UntoldDelta(Shop) = 0
    <3>1. \E k \in Parsed : Verified(log[k])
      <4>1. {k \in Parsed : Verified(log[k])} # {}
        BY <2>7, FS_EmptySet DEF Passed
      <4> QED
        BY <4>1
    <3>2. ActualDelta(Shop) = ParsedDelta(Shop)
      BY <3>1 DEF Verified
    <3>3. Shop \in Accounts /\ ~Refused(Accounts)
      BY <2>7, CheckAssumption DEF Passed
    <3>4. ParsedDelta(Shop) = Seen(Shop)
      BY <2>3, <3>3
    <3> QED
      BY <2>2, <2>4, <2>5, <3>2, <3>3, <3>4
  <2> QED
    BY <2>6, <2>7 DEF ExplainedOrRefused
<1>2. CheckInv => ExplainedOrRefused
  BY <1>1 DEF ExplainedOrRefused
<1> QED
  BY <1>2, CheckInvariant, PTL

-----------------------------------------------------------------------------
(* PublicAnalysis. *)
(* The numbers of S above t. *)
Newer(S, t) == {s \in S : s > t}

LEMMA GreatestUpTo ==
  ASSUME NEW n \in Nat, NEW S \in SUBSET (1..n), S # {}
  PROVE  \E x \in S : \A y \in S : y <= x
<1> DEFINE T == {n - x : x \in S}
<1>0. \A x \in S : n - x \in Nat
  OBVIOUS
<1>1. T \in SUBSET Nat /\ T # {}
  BY <1>0
<1>2. PICK m \in T : \A k \in T : m <= k
  BY <1>1, LeastNat
<1>3. PICK x \in S : m = n - x
  BY <1>2
<1>4. ASSUME NEW y \in S PROVE y <= x
  <2>1. n - y \in T
    OBVIOUS
  <2> HIDE DEF T
  <2> QED
    BY <1>2, <1>3, <2>1
<1> QED
  BY <1>4

(* Finitely many numbers are at most n. *)
LEMMA FirstNumbers == \A n \in Nat : IsFiniteSet(1..n)
<1> SUFFICES ASSUME NEW n \in Nat PROVE IsFiniteSet(1..n)
  OBVIOUS
<1>1. 1 \in Int /\ n \in Int
  OBVIOUS
<1> QED
  BY <1>1, FS_Interval, Zenon

(* The newest ones: whoever is newer than one of them is one of them, they   *)
(* are n at most, and all if S holds no more or if they are fewer.           *)
LEMMA NewestFacts ==
  ASSUME NEW N \in Nat, NEW S \in SUBSET (1..N), NEW n \in Nat
  PROVE  /\ Newest(S, n) \in SUBSET S
         /\ \A t \in S, s \in Newest(S, n) : s < t => t \in Newest(S, n)
         /\ IsFiniteSet(Newest(S, n)) /\ Cardinality(Newest(S, n)) \in Nat
         /\ Cardinality(Newest(S, n)) <= n
         /\ Cardinality(Newest(S, n)) < n => Newest(S, n) = S
         /\ IsFiniteSet(S) /\ Cardinality(S) \in Nat /\ (Cardinality(S) <= n => Newest(S, n) = S)
<1> DEFINE A == Newest(S, n)
<1>0. IsFiniteSet(S) /\ Cardinality(S) \in Nat
  <2>1. IsFiniteSet(1..N)
    BY FirstNumbers
  <2> QED
    BY <2>1, FS_Subset, FS_CardinalityType
<1>1. A \in SUBSET S /\ \A t \in S : t \in A <=> Cardinality(Newer(S, t)) < n
  BY DEF Newest, Newer
<1>2. \A t : /\ IsFiniteSet(Newer(S, t)) /\ Cardinality(Newer(S, t)) \in Nat
             /\ Newer(S, t) \in SUBSET S
  BY <1>0, FS_Subset, FS_CardinalityType DEF Newer
<1> HIDE DEF A
<1>3. IsFiniteSet(A) /\ Cardinality(A) \in Nat
  BY <1>0, <1>1, FS_Subset, FS_CardinalityType
<1>4. ASSUME NEW t \in S, NEW s \in A, s < t PROVE t \in A
  <2>1. \A x \in S : x > t => x > s
    BY <1>1, <1>4
  <2>2. Newer(S, t) \in SUBSET Newer(S, s)
    BY <2>1 DEF Newer
  <2>3. Cardinality(Newer(S, t)) <= Cardinality(Newer(S, s))
    BY <1>2, <2>2, FS_Subset
  <2> QED
    BY <1>1, <1>2, <1>4, <2>3
<1>5. Cardinality(A) <= n
  <2>1. CASE A = {}
    BY <2>1, FS_EmptySet
  <2>2. CASE A # {}
    <3>1. PICK x \in A : \A y \in A : x <= y
      BY <1>1, <2>2, LeastNat
    <3>2. \A y \in A : y = x \/ y > x
      BY <1>1, <3>1
    <3>3. A \in SUBSET (Newer(S, x) \cup {x}) /\ x \notin Newer(S, x)
      BY <1>1, <3>2 DEF Newer
    <3>4. /\ IsFiniteSet(Newer(S, x) \cup {x})
          /\ Cardinality(Newer(S, x) \cup {x}) = Cardinality(Newer(S, x)) + 1
      BY <1>2, <3>3, FS_AddElement
    <3>5. Cardinality(A) <= Cardinality(Newer(S, x)) + 1
      BY <3>3, <3>4, FS_Subset
    <3>6. Cardinality(Newer(S, x)) < n
      BY <1>1, <3>1
    <3> QED
      BY <1>2, <1>3, <3>5, <3>6
  <2> QED
    BY <2>1, <2>2
<1>6. ASSUME Cardinality(A) < n PROVE A = S
  <2> DEFINE B == S \ A
  <2>1. SUFFICES ASSUME B # {} PROVE FALSE
    BY <1>1
  <2>2. PICK x \in B : \A y \in B : y <= x
    BY <2>1, GreatestUpTo
  <2>3. \A y \in S : y > x => y \in A
    BY <2>2
  <2>4. Newer(S, x) \in SUBSET A
    BY <2>3 DEF Newer
  <2>5. Cardinality(Newer(S, x)) <= Cardinality(A)
    BY <1>3, <2>4, FS_Subset
  <2>6. ~(Cardinality(Newer(S, x)) < n)
    BY <1>1, <2>2
  <2> QED
    BY <1>2, <1>3, <1>6, <2>5, <2>6
<1>7. ASSUME Cardinality(S) <= n PROVE A = S
  <2> SUFFICES ASSUME NEW t \in S PROVE t \in A
    BY <1>1
  <2>1. t \notin Newer(S, t)
    BY DEF Newer
  <2>2. Newer(S, t) \cup {t} \in SUBSET S
    BY <1>2
  <2>3. Cardinality(Newer(S, t) \cup {t}) = Cardinality(Newer(S, t)) + 1
    BY <1>2, <2>1, FS_AddElement
  <2>4. Cardinality(Newer(S, t)) + 1 <= Cardinality(S)
    BY <1>0, <2>2, <2>3, FS_Subset
  <2> QED
    BY <1>0, <1>1, <1>2, <1>7, <2>4
<1> QED
  BY <1>0, <1>1, <1>3, <1>4, <1>5, <1>6, <1>7 DEF A

-----------------------------------------------------------------------------
Request ==
  [stage : {"list", "fetch"}, door : Doors, since : Nat, account : Watched, before : Nat,
   inspected : Nat, partial : BOOLEAN, on : [Txs -> SUBSET Watched], kept : SUBSET Txs,
   got : [Txs -> Results \cup {"unread"}]]

ChainTypes ==
  /\ txs \in Seq(Transactions) /\ IsOrdered(txs)
  /\ shown \in 0..Len(txs) /\ final \in 0..shown

(* A transfer that a whole answer lists. *)
Listed(t, a) == /\ t \in Txs /\ a \in txs[t].touches
                /\ txs[t].ok /\ txs[t].time = "within"

(* What is found is finalized and without an error.                          *)
FoundIsGood(r) ==
  \A t \in Txs : \A a \in r.on[t] : a \in txs[t].touches /\ txs[t].ok /\ t <= final

(* The walk has found everything on the accounts before this one, and on     *)
(* this one from n on.                                                       *)
Reaches(r, n) ==
  \A t \in 1..r.since, a \in Watched :
    Listed(t, a) /\ (a < r.account \/ (a = r.account /\ t >= n)) => a \in r.on[t]

KeepsAll(r) ==
  \A t \in 1..r.since, a \in Watched : Listed(t, a) => a \in r.on[t] /\ t \in r.kept

RequestIsGood(r) ==
  /\ r \in Request /\ r.since <= final /\ r.inspected <= MaxSignatures[r.door]
  /\ FoundIsGood(r)
  /\ ~r.partial => IF r.stage = "list" THEN Reaches(r, r.before) ELSE KeepsAll(r)

AnswerIsGood(r) ==
  /\ r.since \in Nat /\ r.since <= final
  /\ \A x \in r.transfers : x[1] <= final /\ Listed(x[1], x[2])
  /\ ~r.partial => \A t \in 1..r.since, a \in Watched : Listed(t, a) => <<t, a>> \in r.transfers

AnalysisInv ==
  /\ ChainTypes
  /\ req.stage \in {"none", "limited", "unavailable", "list", "fetch", "answered"}
  /\ InFlight => RequestIsGood(req)
  /\ req.stage = "answered" => AnswerIsGood(req)

LEMMA AnalysisStarts == AnalysisInit => AnalysisInv
  BY AnalysisAssumption
  DEF AnalysisInit, AnalysisInv, ChainTypes, NoRequest, InFlight

LEMMA FreshIsGood ==
  ASSUME ChainTypes, NEW door \in Doors
  PROVE  RequestIsGood(Fresh(door))
<1> DEFINE r == Fresh(door)
<1>1. Len(txs) \in Nat /\ final \in Nat /\ MaxSignatures[door] \in Nat
  BY AnalysisAssumption DEF ChainTypes
<1>2. r \in Request
  BY <1>1 DEF Fresh, Request, Watched
<1>3. /\ r.since = final /\ r.inspected = 0 /\ r.door = door /\ r.stage = "list"
      /\ r.account = 1 /\ r.before = Len(txs) + 1 /\ \A t \in Txs : r.on[t] = {}
  BY DEF Fresh
<1> HIDE DEF r
<1>4. FoundIsGood(r)
  BY <1>3 DEF FoundIsGood
<1>5. Reaches(r, r.before)
  <2> SUFFICES ASSUME NEW t \in 1..r.since, NEW a \in Watched, Listed(t, a),
                      a < r.account \/ (a = r.account /\ t >= r.before)
               PROVE  FALSE
    BY DEF Reaches
  <2>1. t <= Len(txs) /\ a >= 1 /\ t \in Nat /\ a \in Nat
    BY <1>1 DEF Listed, Txs, Watched
  <2> QED
    BY <1>1, <1>3, <2>1
<1>6. RequestIsGood(r)
  BY <1>1, <1>2, <1>3, <1>4, <1>5 DEF RequestIsGood
<1> QED
  BY <1>6 DEF r

(* An account whose walk is over, or was cut.                                *)
LEMMA NextAccountIsGood ==
  ASSUME ChainTypes, NEW r \in Request, r.stage = "list", r.since <= final,
         r.inspected <= MaxSignatures[r.door], FoundIsGood(r),
         ~r.partial => Reaches(r, 0)
  PROVE  RequestIsGood(NextAccount(r))
<1> DEFINE q == NextAccount(r)
           most == MaxTransactions[r.door]
<1>0. Len(txs) \in Nat /\ final \in Nat /\ r.since \in Nat /\ r.account \in {1, 2}
      /\ most \in Nat
  BY AnalysisAssumption DEF ChainTypes, Request, Watched
<1>1. CASE r.account = 1
  <2>1. q = [[r EXCEPT !.account = 2] EXCEPT !.before = Len(txs) + 1]
    BY <1>1 DEF NextAccount, Request
  <2>2. q \in Request
    <3> DEFINE w == [r EXCEPT !.account = 2]
    <3>1. w \in Request
      BY DEF Request, Watched
    <3>2. q = [w EXCEPT !.before = Len(txs) + 1]
      BY <2>1
    <3> HIDE DEF w
    <3>3. Len(txs) + 1 \in Nat
      BY <1>0
    <3> QED
      BY <3>1, <3>2, <3>3 DEF Request
  <2>3. /\ q.account = 2 /\ q.before = Len(txs) + 1 /\ q.since = r.since /\ q.door = r.door
        /\ q.on = r.on /\ q.stage = "list" /\ q.partial = r.partial /\ q.inspected = r.inspected
    BY <2>1 DEF Request
  <2> HIDE DEF q
  <2>4. FoundIsGood(q)
    BY <2>3 DEF FoundIsGood
  <2>5. ASSUME ~q.partial PROVE Reaches(q, q.before)
    <3> SUFFICES ASSUME NEW t \in 1..q.since, NEW a \in Watched, Listed(t, a),
                        a < q.account \/ (a = q.account /\ t >= q.before)
                 PROVE  a \in q.on[t]
      BY DEF Reaches
    <3>1. t <= Len(txs) /\ t \in Nat /\ a \in {1, 2}
      BY <1>0 DEF Listed, Txs, Watched
    <3>2. a = 1 /\ t >= 0
      BY <1>0, <2>3, <3>1
    <3> QED
      BY <1>1, <2>3, <2>5, <3>2 DEF Reaches
  <2>6. q.since <= final /\ q.inspected <= MaxSignatures[q.door]
    BY <2>3
  <2>7. RequestIsGood(q)
    BY <2>2, <2>3, <2>4, <2>5, <2>6 DEF RequestIsGood
  <2> QED
    BY <2>7 DEF q
<1>2. CASE r.account = 2
  <2> DEFINE K == {t \in Found(r) : Cardinality({s \in Found(r) : FoundBefore(r, s, t)}) < most}
             p == (r.partial \/ Cardinality(Found(r)) > most)
  <2>1. q = [[[r EXCEPT !.stage = "fetch"] EXCEPT !.partial = p] EXCEPT !.kept = K]
    BY <1>2 DEF NextAccount, Request
  <2>2. K \in SUBSET Txs /\ p \in BOOLEAN
    BY DEF Found, Request
  <2> HIDE DEF K, p
  <2>3. q \in Request
    BY <2>1, <2>2 DEF Request
  <2>4. /\ q.since = r.since /\ q.door = r.door /\ q.kept = K /\ q.partial = p
        /\ q.on = r.on /\ q.stage = "fetch" /\ q.inspected = r.inspected
    BY <2>1, <2>2 DEF Request
  <2> HIDE DEF q
  <2>5. FoundIsGood(q)
    BY <2>4 DEF FoundIsGood
  <2>6. ASSUME ~q.partial PROVE KeepsAll(q)
    <3>1. ~r.partial /\ ~(Cardinality(Found(r)) > most)
      BY <2>4, <2>6 DEF p
    <3>2. IsFiniteSet(Found(r)) /\ Cardinality(Found(r)) \in Nat
      <4>1. IsFiniteSet(1..Len(txs))
        BY <1>0, FirstNumbers, Zenon
      <4> QED
        BY <4>1, FS_Subset, FS_CardinalityType DEF Found, Txs
    <3>3. ASSUME NEW t \in Found(r) PROVE t \in K
      <4> DEFINE B == {s \in Found(r) : FoundBefore(r, s, t)}
      <4>1. ~FoundBefore(r, t, t)
        <5>1. t \in Nat
          BY DEF Found, Txs
        <5> QED
          BY <5>1 DEF FoundBefore
      <4>2. B \in SUBSET Found(r) /\ t \notin B
        BY <4>1
      <4>3. IsFiniteSet(B) /\ Cardinality(B) \in Nat /\ Cardinality(B \cup {t}) = Cardinality(B) + 1
        BY <3>2, <4>2, FS_Subset, FS_AddElement, FS_CardinalityType
      <4>4. Cardinality(B \cup {t}) <= Cardinality(Found(r))
        BY <3>2, <4>2, FS_Subset
      <4>5. Cardinality(B) < most
        <5> HIDE DEF B
        <5> QED
          BY <1>0, <3>1, <3>2, <4>3, <4>4
      <4> QED
        BY <4>5 DEF K
    <3> SUFFICES ASSUME NEW t \in 1..q.since, NEW a \in Watched, Listed(t, a)
                 PROVE  a \in q.on[t] /\ t \in q.kept
      BY DEF KeepsAll
    <3>4. a \in r.on[t]
      <4>1. a < r.account \/ (a = r.account /\ t >= 0)
        BY <1>2 DEF Watched
      <4> QED
        BY <2>4, <3>1, <4>1 DEF Reaches
    <3>5. t \in Found(r)
      BY <3>4 DEF Found, Listed
    <3> QED
      BY <2>4, <3>3, <3>4, <3>5
  <2>7. q.since <= final /\ q.inspected <= MaxSignatures[q.door] /\ q.stage # "list"
    BY <2>4
  <2>8. RequestIsGood(q)
    BY <2>3, <2>5, <2>6, <2>7 DEF RequestIsGood
  <2> QED
    BY <2>8 DEF q
<1> QED
  BY <1>0, <1>1, <1>2
LEMMA LimitFacts ==
  ASSUME NEW r \in Request, r.inspected <= MaxSignatures[r.door], Remaining(r) # 0
  PROVE  /\ Limit(r) \in Nat \ {0} /\ Limit(r) <= Remaining(r)
         /\ r.inspected + Limit(r) <= MaxSignatures[r.door]
<1>1. /\ r.inspected \in Nat /\ MaxSignatures[r.door] \in Nat /\ PageLimit \in Nat \ {0}
  BY AnalysisAssumption DEF Request
<1> QED
  BY <1>1 DEF Limit, Remaining

(* A page that was not cut reaches as far as it looks: to the end of the     *)
(* account if it ended the walk, or to its oldest entry.                     *)
LEMMA PageReaches ==
  ASSUME ChainTypes, NEW r \in Request, RequestIsGood(r), r.stage = "list", ~r.partial,
         Remaining(r) # 0, NEW page \in Pages(r), Cardinality(page) <= Limit(r),
         NEW t \in 1..r.since, NEW a \in Watched, Listed(t, a), a = r.account, t < r.before
  PROVE  /\ page # {}
         /\ Inspected(r, page) = page
         /\ \/ t \in Walked(page) /\ IsCandidate(t)
            \/ /\ ~ReachesBoundary(page) /\ Cardinality(page) >= Limit(r)
               /\ t < Oldest(page)
<1> DEFINE all == Entries(r.account, r.before)
<1>1. /\ Len(txs) \in Nat /\ shown \in Nat /\ final \in Nat /\ t \in Nat /\ t <= final
      /\ final <= shown /\ r.since \in Nat
  BY DEF ChainTypes, RequestIsGood, Request
<1>2. t \in all
  BY <1>1 DEF Entries, Listed
<1>3. all \in SUBSET (1..Len(txs))
  BY DEF Entries, Txs
<1> HIDE DEF all
<1>4. Limit(r) \in Nat \ {0}
  BY LimitFacts DEF RequestIsGood
<1>5. PICK n \in Nat \ {0} : page = Newest(all, n) /\ (n = Limit(r) \/ n = Limit(r) + 1)
  BY <1>4 DEF Pages, all
<1>6. /\ page \in SUBSET all /\ Cardinality(page) \in Nat
      /\ \A x \in all, y \in page : y < x => x \in page
      /\ Cardinality(page) < n => page = all
  BY <1>1, <1>3, <1>5, NewestFacts
<1>7. Inspected(r, page) = page
  <2>1. page \in SUBSET (1..Len(txs))
    BY <1>3, <1>6
  <2> QED
    BY <1>1, <1>4, <2>1, NewestFacts DEF Inspected
<1>8. page # {}
  <2>1. SUFFICES ASSUME page = {} PROVE FALSE
    OBVIOUS
  <2>2. Cardinality(page) = 0
    BY <2>1, FS_EmptySet
  <2> QED
    BY <1>2, <1>5, <1>6, <2>1, <2>2
<1>9. IsCandidate(t)
  BY <1>1 DEF IsCandidate, Listed
<1>10. \A s \in 1..Len(txs) : EndsWalk(s) => t > s
  <2> SUFFICES ASSUME NEW s \in 1..Len(txs), EndsWalk(s), ~(t > s) PROVE FALSE
    OBVIOUS
  <2>1. txs[s].time = "early" /\ txs[t].time = "within" /\ t \in 1..Len(txs)
    BY DEF EndsWalk, Listed, Txs
  <2>2. t < s
    BY <1>1, <2>1
  <2> QED
    BY <2>1, <2>2 DEF ChainTypes, IsOrdered
<1>11. CASE t \in page
  <2>1. t \in Walked(page)
    BY <1>3, <1>6, <1>10, <1>11 DEF Walked
  <2> QED
    BY <1>7, <1>8, <1>9, <2>1
<1>12. CASE t \notin page
  <2>1. \A s \in page : t <= s /\ t # s
    <3> SUFFICES ASSUME NEW s \in page, ~(t <= s) \/ t = s PROVE FALSE
      OBVIOUS
    <3>1. s < t
      BY <1>1, <1>3, <1>6, <1>12
    <3> QED
      BY <1>2, <1>6, <1>12, <3>1
  <2>2. ~ReachesBoundary(page)
    <3> SUFFICES ASSUME NEW s \in page, EndsWalk(s) PROVE FALSE
      BY DEF ReachesBoundary
    <3>1. t > s /\ s \in Nat
      BY <1>3, <1>6, <1>10
    <3> QED
      BY <1>1, <2>1, <3>1
  <2>3. Cardinality(page) >= Limit(r)
    BY <1>2, <1>4, <1>5, <1>6, <1>12
  <2>4. Oldest(page) \in page
    <3>1. page \in SUBSET Nat
      BY <1>3, <1>6
    <3> QED
      BY <1>8, <3>1, LeastNat DEF Oldest
  <2>5. t < Oldest(page)
    <3>1. \A y \in page : y \in Nat
      BY <1>3, <1>6
    <3> QED
      BY <1>1, <2>1, <2>4, <3>1
  <2> QED
    BY <1>7, <1>8, <2>2, <2>3, <2>5
<1> QED
  BY <1>11, <1>12

LEMMA PagesAreFinite ==
  ASSUME ChainTypes, NEW r \in Request, Limit(r) \in Nat, NEW page \in Pages(r)
  PROVE  /\ page \in SUBSET Entries(r.account, r.before) /\ Cardinality(page) \in Nat
         /\ Entries(r.account, r.before) \in SUBSET (1..Len(txs))
<1> DEFINE E == Entries(r.account, r.before)
<1>1. E \in SUBSET (1..Len(txs)) /\ Len(txs) \in Nat
  BY DEF Entries, Txs, ChainTypes
<1>2. PICK m \in {Limit(r), Limit(r) + 1} : page = Newest(E, m)
  BY DEF Pages
<1>3. m \in Nat
  BY <1>2
<1> HIDE DEF E
<1>4. page \in SUBSET E /\ Cardinality(page) \in Nat
  BY <1>1, <1>2, <1>3, NewestFacts
<1> QED
  BY <1>1, <1>4 DEF E

(* What is noted of a page.                                                  *)
LEMMA NotedFacts ==
  ASSUME ChainTypes, NEW r \in Request, RequestIsGood(r), r.stage = "list", Remaining(r) # 0,
         NEW page \in Pages(r),
         NEW s, s = Noted(IF Cardinality(page) > Limit(r) THEN Partial(r) ELSE r,
                          Inspected(r, page))
  PROVE  /\ s \in Request /\ s.stage = "list" /\ s.since = r.since /\ s.account = r.account
         /\ s.before = r.before /\ s.door = r.door
         /\ s.inspected <= MaxSignatures[s.door] /\ FoundIsGood(s)
         /\ ~s.partial => ~r.partial /\ Cardinality(page) <= Limit(r)
         /\ \A t \in Txs : r.on[t] \subseteq s.on[t]
         /\ \A t \in Walked(Inspected(r, page)) : t \in Txs /\ (IsCandidate(t) => r.account \in s.on[t])
<1> DEFINE seen == Inspected(r, page)
           q == IF Cardinality(page) > Limit(r) THEN Partial(r) ELSE r
           on == [t \in Txs |-> IF t \in Walked(seen) /\ IsCandidate(t)
                               THEN r.on[t] \cup {r.account} ELSE r.on[t]]
           p == (q.partial \/ \E t \in Walked(seen) : txs[t].undated)
           n == r.inspected + Cardinality(seen)
<1>1. /\ Len(txs) \in Nat /\ Limit(r) \in Nat \ {0}
      /\ r.inspected + Limit(r) <= MaxSignatures[r.door]
      /\ r.inspected \in Nat /\ MaxSignatures[r.door] \in Nat
  BY LimitFacts, AnalysisAssumption DEF ChainTypes, RequestIsGood, Request
<1>3. /\ page \in SUBSET Entries(r.account, r.before) /\ Entries(r.account, r.before) \in SUBSET (1..Len(txs))
      /\ Cardinality(page) \in Nat
  BY <1>1, PagesAreFinite
<1>4. /\ seen \in SUBSET page /\ Cardinality(seen) \in Nat /\ Cardinality(seen) <= Limit(r)
  <2>1. page \in SUBSET (1..Len(txs))
    BY <1>3
  <2> QED
    BY <1>1, <2>1, NewestFacts, ZenonT(40) DEF Inspected
<1>5. Walked(seen) \subseteq seen
  BY DEF Walked
<1>6. q = [r EXCEPT !.partial = q.partial] /\ q.partial \in BOOLEAN
      /\ (~q.partial => ~r.partial /\ Cardinality(page) <= Limit(r))
  <2>1. CASE Cardinality(page) > Limit(r)
    BY <2>1 DEF Partial, Request
  <2>2. CASE ~(Cardinality(page) > Limit(r))
    BY <1>1, <1>3, <2>2 DEF Request
  <2> QED
    BY <2>1, <2>2
<1>7. on \in [Txs -> SUBSET Watched]
  BY DEF Request
<1>8. n \in Nat /\ n <= MaxSignatures[r.door] /\ p \in BOOLEAN
  BY <1>1, <1>4
<1>9. /\ q.on = r.on /\ q.inspected = r.inspected /\ q.account = r.account
  BY <1>6 DEF Request
<1>10. s = [[[q EXCEPT !.inspected = n] EXCEPT !.partial = p] EXCEPT !.on = on]
  BY <1>6, <1>9 DEF Noted, Request
<1> HIDE DEF on, p, n, seen
<1>11. s \in Request /\ s.stage = r.stage /\ s.since = r.since /\ s.account = r.account
       /\ s.before = r.before /\ s.door = r.door /\ s.inspected = n /\ s.on = on /\ s.partial = p
  <2> HIDE DEF q
  <2>1. q \in Request /\ q.stage = r.stage /\ q.since = r.since /\ q.account = r.account
        /\ q.before = r.before /\ q.door = r.door
    BY <1>6 DEF Request
  <2>2. [q EXCEPT !.inspected = n] \in Request
    BY <1>8, <2>1 DEF Request
  <2> QED
    BY <1>7, <1>8, <1>10, <2>1, <2>2 DEF Request
<1>12. FoundIsGood(s)
  <2> SUFFICES ASSUME NEW t \in Txs, NEW a \in s.on[t]
               PROVE  a \in txs[t].touches /\ txs[t].ok /\ t <= final
    BY DEF FoundIsGood
  <2>1. CASE a \in r.on[t]
    BY <2>1 DEF RequestIsGood, FoundIsGood
  <2>2. CASE a \notin r.on[t]
    <3>1. t \in Walked(seen) /\ IsCandidate(t) /\ a = r.account
      BY <1>11, <2>2 DEF on
    <3> QED
      BY <1>3, <1>4, <1>5, <3>1 DEF IsCandidate, Entries
  <2> QED
    BY <2>1, <2>2
<1>13. \A t \in Txs : r.on[t] \subseteq s.on[t]
  BY <1>11 DEF on
<1>14. \A t \in Walked(seen) : t \in Txs /\ (IsCandidate(t) => r.account \in s.on[t])
  BY <1>3, <1>4, <1>5, <1>11 DEF on, Txs
<1>15. ~s.partial => ~r.partial /\ Cardinality(page) <= Limit(r)
  BY <1>6, <1>11 DEF p
<1> QED
  BY <1>8, <1>11, <1>12, <1>13, <1>14, <1>15 DEF seen

LEMMA PartialIsGood ==
  ASSUME NEW r \in Request, r.stage = "list", r.since <= final,
         r.inspected <= MaxSignatures[r.door], FoundIsGood(r)
  PROVE  /\ Partial(r) \in Request /\ Partial(r).stage = "list" /\ Partial(r).since <= final
         /\ Partial(r).inspected <= MaxSignatures[Partial(r).door] /\ FoundIsGood(Partial(r))
         /\ Partial(r).partial
<1>1. /\ Partial(r) \in Request /\ Partial(r).stage = r.stage /\ Partial(r).since = r.since
      /\ Partial(r).inspected = r.inspected /\ Partial(r).door = r.door /\ Partial(r).on = r.on
      /\ Partial(r).partial
  BY DEF Partial, Request
<1> QED
  BY <1>1 DEF FoundIsGood

LEMMA AfterPageIsGood ==
  ASSUME ChainTypes, NEW r, RequestIsGood(r), r.stage = "list", Remaining(r) # 0,
         NEW page \in Pages(r)
  PROVE  RequestIsGood(AfterPage(r, page))
<1> DEFINE seen == Inspected(r, page)
           s == Noted(IF Cardinality(page) > Limit(r) THEN Partial(r) ELSE r, seen)
<1>1. r \in Request /\ r.since <= final /\ r.since \in Nat /\ r.account \in {1, 2}
      /\ r.before \in Nat
  BY DEF RequestIsGood, Request, Watched
<1>2. /\ s \in Request /\ s.stage = "list" /\ s.since = r.since /\ s.account = r.account
      /\ s.before = r.before /\ s.door = r.door
      /\ s.inspected <= MaxSignatures[s.door] /\ FoundIsGood(s)
      /\ ~s.partial => ~r.partial /\ Cardinality(page) <= Limit(r)
      /\ \A t \in Txs : r.on[t] \subseteq s.on[t]
      /\ \A t \in Walked(seen) : t \in Txs /\ (IsCandidate(t) => r.account \in s.on[t])
  BY <1>1, NotedFacts, Zenon
<1>3. Limit(r) \in Nat /\ Cardinality(page) \in Nat
  <2>1. Limit(r) \in Nat
    BY <1>1, LimitFacts DEF RequestIsGood
  <2> QED
    BY <1>1, <2>1, PagesAreFinite
<1> HIDE DEF s
(* How far the page reaches. *)
<1>4. ASSUME ~s.partial, NEW n \in Nat,
             \/ n = 0 /\ (page = {} \/ ReachesBoundary(seen) \/ Cardinality(page) < Limit(r))
             \/ page # {} /\ n = Oldest(page)
      PROVE  Reaches(s, n)
  <2> SUFFICES ASSUME NEW t \in 1..r.since, NEW a \in Watched, Listed(t, a),
                      a < r.account \/ (a = r.account /\ t >= n)
               PROVE  a \in s.on[t]
    BY <1>2 DEF Reaches
  <2>1. t \in Txs /\ t \in Nat
    BY DEF Listed, Txs
  <2>2. CASE a < r.account \/ (a = r.account /\ t >= r.before)
    <3>1. Reaches(r, r.before)
      BY <1>2, <1>4 DEF RequestIsGood
    <3> QED
      BY <1>2, <2>1, <2>2, <3>1 DEF Reaches
  <2>3. CASE a = r.account /\ t < r.before
    <3>1. /\ page # {}
          /\ seen = page
          /\ \/ t \in Walked(page) /\ IsCandidate(t)
             \/ /\ ~ReachesBoundary(page) /\ Cardinality(page) >= Limit(r)
                /\ t < Oldest(page)
      BY <1>1, <1>2, <1>4, <2>3, PageReaches
    <3>2. CASE t \in Walked(page) /\ IsCandidate(t)
      BY <1>2, <2>3, <3>1, <3>2
    <3>3. CASE /\ ~ReachesBoundary(page) /\ Cardinality(page) >= Limit(r) /\ t < Oldest(page)
      <4>1. n = Oldest(page)
        BY <1>3, <1>4, <3>1, <3>3
      <4> QED
        BY <1>1, <1>4, <2>1, <2>3, <3>3, <4>1
    <3> QED
      BY <3>1, <3>2, <3>3
  <2> QED
    BY <1>1, <2>1, <2>2, <2>3
<1>5. CASE page = {}
  <2>1. ASSUME ~r.partial PROVE Reaches(r, 0)
    <3> SUFFICES ASSUME NEW t \in 1..r.since, NEW a \in Watched, Listed(t, a),
                        a < r.account \/ (a = r.account /\ t >= 0)
                 PROVE  a \in r.on[t]
      BY DEF Reaches
    <3>1. CASE a < r.account \/ (a = r.account /\ t >= r.before)
      BY <2>1, <3>1 DEF RequestIsGood, Reaches
    <3>2. CASE a = r.account /\ t < r.before
      <4>1. Cardinality(page) <= Limit(r)
        BY <1>3, <1>5, FS_EmptySet
      <4> QED
        BY <1>1, <1>5, <2>1, <3>2, <4>1, PageReaches
    <3>3. t \in Nat
      OBVIOUS
    <3> QED
      BY <1>1, <3>1, <3>2, <3>3
  <2>2. AfterPage(r, page) = NextAccount(r)
    BY <1>5 DEF AfterPage
  <2>3. r.inspected <= MaxSignatures[r.door] /\ FoundIsGood(r)
    BY DEF RequestIsGood
  <2> QED
    BY <1>1, <2>1, <2>2, <2>3, NextAccountIsGood
<1>6. CASE page # {} /\ (ReachesBoundary(seen) \/ Cardinality(page) < Limit(r))
  <2>1. AfterPage(r, page) = NextAccount(s)
    BY <1>6 DEF AfterPage, s
  <2>2. ~s.partial => Reaches(s, 0)
    BY <1>4, <1>6
  <2>3. s.since <= final
    BY <1>1, <1>2
  <2> QED
    BY <1>2, <2>1, <2>2, <2>3, NextAccountIsGood
<1>7. CASE page # {} /\ ~(ReachesBoundary(seen) \/ Cardinality(page) < Limit(r)) /\ Remaining(s) = 0
  <2>1. AfterPage(r, page) = NextAccount(Partial(s))
    BY <1>7 DEF AfterPage, s
  <2>2. /\ Partial(s) \in Request /\ Partial(s).stage = "list" /\ Partial(s).since <= final
        /\ Partial(s).inspected <= MaxSignatures[Partial(s).door] /\ FoundIsGood(Partial(s))
        /\ Partial(s).partial
    BY <1>1, <1>2, PartialIsGood
  <2> QED
    BY <2>1, <2>2, NextAccountIsGood
<1>8. CASE page # {} /\ ~(ReachesBoundary(seen) \/ Cardinality(page) < Limit(r)) /\ Remaining(s) # 0
  <2> DEFINE q == [s EXCEPT !.before = Oldest(page)]
  <2>1. AfterPage(r, page) = q
    BY <1>8 DEF AfterPage, s
  <2>2. Oldest(page) \in Nat
    <3>1. page \in SUBSET Nat
      <4>1. /\ page \in SUBSET Entries(r.account, r.before)
            /\ Entries(r.account, r.before) \in SUBSET (1..Len(txs))
        BY <1>1, <1>3, PagesAreFinite
      <4> QED
        BY <4>1
    <3> QED
      BY <1>8, <3>1, LeastNat DEF Oldest
  <2>3. /\ q \in Request /\ q.stage = "list" /\ q.since = s.since /\ q.account = s.account
        /\ q.before = Oldest(page) /\ q.door = s.door /\ q.inspected = s.inspected
        /\ q.on = s.on /\ q.partial = s.partial
    BY <1>2, <2>2 DEF Request
  <2> HIDE DEF q
  <2>4. ~q.partial => Reaches(q, q.before)
    <3>1. ~s.partial => Reaches(s, Oldest(page))
      BY <1>4, <1>8, <2>2
    <3> QED
      BY <2>3, <3>1 DEF Reaches
  <2>5. FoundIsGood(q)
    BY <1>2, <2>3 DEF FoundIsGood
  <2>6. q.since <= final /\ q.inspected <= MaxSignatures[q.door]
    BY <1>1, <1>2, <2>3
  <2>7. RequestIsGood(q)
    BY <2>3, <2>4, <2>5, <2>6 DEF RequestIsGood
  <2> QED
    BY <2>1, <2>7
<1> QED
  BY <1>5, <1>6, <1>7, <1>8

(* A request stays good while the chain stands still. *)
LEMMA SameChain ==
  ASSUME AnalysisInv, UNCHANGED <<txs, shown, final>>,
         \/ RequestIsGood(req')
         \/ AnswerIsGood(req') /\ req'.stage = "answered"
         \/ req'.stage \in {"none", "limited", "unavailable"}
  PROVE  AnalysisInv'
<1>1. ChainTypes'
  BY DEF AnalysisInv, ChainTypes, IsOrdered
<1>2. \A t, a : Listed(t, a)' <=> Listed(t, a)
  BY DEF Listed, Txs
<1>3. CASE RequestIsGood(req')
  <2>1. req'.stage \in {"list", "fetch"}
    BY <1>3 DEF RequestIsGood, Request
  <2>2. RequestIsGood(req)'
    BY <1>3 DEF RequestIsGood, Request, FoundIsGood, Reaches, KeepsAll, Listed, Txs
  <2> QED
    BY <1>1, <2>1, <2>2 DEF AnalysisInv, InFlight
<1>4. CASE AnswerIsGood(req') /\ req'.stage = "answered"
  <2>1. AnswerIsGood(req)'
    BY <1>4 DEF AnswerIsGood, Listed, Txs
  <2> QED
    BY <1>1, <1>4, <2>1 DEF AnalysisInv, InFlight
<1>5. CASE req'.stage \in {"none", "limited", "unavailable"}
  BY <1>1, <1>5 DEF AnalysisInv, InFlight
<1> QED
  BY <1>3, <1>4, <1>5

LEMMA ListKeeps ==
  ASSUME AnalysisInv, ListPage
  PROVE  AnalysisInv'
<1>1. ChainTypes /\ req.stage = "list" /\ RequestIsGood(req) /\ req \in Request
  BY DEF AnalysisInv, ListPage, InFlight, RequestIsGood
<1>2. RequestIsGood(NextAccount(Partial(req)))
  <2>1. /\ Partial(req) \in Request /\ Partial(req).stage = "list" /\ Partial(req).since <= final
        /\ Partial(req).inspected <= MaxSignatures[Partial(req).door]
        /\ FoundIsGood(Partial(req)) /\ Partial(req).partial
    BY <1>1, PartialIsGood DEF RequestIsGood
  <2> QED
    BY <1>1, <2>1, NextAccountIsGood
<1>3. RequestIsGood(req')
  <2>1. CASE req' = NextAccount(Partial(req))
    BY <1>2, <2>1
  <2>2. CASE Remaining(req) # 0 /\ \E page \in Pages(req) : req' = AfterPage(req, page)
    BY <1>1, <2>2, AfterPageIsGood
  <2> QED
    BY <2>1, <2>2 DEF ListPage
<1> QED
  BY <1>1, <1>3, SameChain DEF ListPage

(* The request is answered with what it found. *)
LEMMA ReplyIsGood ==
  ASSUME ChainTypes, NEW r, RequestIsGood(r), r.stage = "fetch"
  PROVE  AnswerIsGood(Answer(r))
<1> DEFINE all == Transfers(r)
           most == MaxTransactions[r.door]
           Earlier(x) == {y \in all : TransferBefore(r, y, x)}
           given == {x \in all : Cardinality(Earlier(x)) < most}
<1>1. r \in Request /\ FoundIsGood(r) /\ r.since \in Nat /\ r.since <= final /\ most \in Nat
  BY AnalysisAssumption DEF RequestIsGood, Request
<1>2. /\ Answer(r).since = r.since /\ Answer(r).transfers = given
      /\ Answer(r).partial = (\/ r.partial \/ Cardinality(all) > most
                              \/ \E t \in r.kept : ~InRange(r, t) \/ txs[t].crowded)
  BY DEF Answer
<1>3. ASSUME NEW x \in all PROVE x[1] <= final /\ Listed(x[1], x[2]) /\ x[1] \in Nat
  <2>1. x[1] \in r.kept /\ InRange(r, x[1]) /\ x[2] \in r.on[x[1]]
    BY DEF Transfers
  <2>2. x[1] \in Txs
    BY <1>1, <2>1 DEF Request
  <2> QED
    BY <1>1, <2>1, <2>2 DEF FoundIsGood, InRange, Listed, Txs
<1>4. IsFiniteSet(all)
  <2>1. IsFiniteSet(Txs) /\ IsFiniteSet(Watched)
    <3>1. Len(txs) \in Nat
      BY DEF ChainTypes
    <3>2. IsFiniteSet(1..Len(txs))
      BY <3>1, FirstNumbers, Zenon
    <3>3. IsFiniteSet(1..2)
      <4>1. 1 \in Int /\ 2 \in Int
        OBVIOUS
      <4> QED
        BY <4>1, FS_Interval, Zenon
    <3> QED
      BY <3>2, <3>3 DEF Txs, Watched
  <2>2. IsFiniteSet(Txs \X Watched)
    BY <2>1, FS_Product
  <2>3. all \subseteq Txs \X Watched
    BY <1>1 DEF Transfers, Request
  <2> QED
    BY <2>2, <2>3, FS_Subset
<1>5. ASSUME ~(Cardinality(all) > most), NEW x \in all PROVE x \in given
  <2>1. ~TransferBefore(r, x, x)
    <3>1. x[1] \in Nat /\ x[2] \in Nat
      BY <1>3 DEF Transfers, Watched
    <3> QED
      BY <3>1 DEF TransferBefore, FoundBefore
  <2>2. Earlier(x) \in SUBSET all /\ x \notin Earlier(x) /\ Earlier(x) \cup {x} \in SUBSET all
    BY <2>1
  <2> HIDE DEF Earlier, all
  <2>3. /\ IsFiniteSet(Earlier(x)) /\ Cardinality(Earlier(x)) \in Nat /\ Cardinality(all) \in Nat
        /\ Cardinality(Earlier(x) \cup {x}) = Cardinality(Earlier(x)) + 1
    BY <1>4, <2>2, FS_Subset, FS_AddElement, FS_CardinalityType
  <2>4. Cardinality(Earlier(x) \cup {x}) <= Cardinality(all)
    BY <1>4, <2>2, FS_Subset
  <2>5. Cardinality(Earlier(x)) < most
    BY <1>1, <1>5, <2>3, <2>4
  <2> QED
    BY <2>5
<1>6. \A x \in given : x \in all
  OBVIOUS
<1>7. ASSUME ~Answer(r).partial, NEW t \in 1..r.since, NEW a \in Watched, Listed(t, a)
      PROVE  <<t, a>> \in given
  <2>1. ~r.partial /\ ~(Cardinality(all) > most) /\ \A s \in r.kept : InRange(r, s)
    BY <1>2, <1>7
  <2>2. a \in r.on[t] /\ t \in r.kept
    BY <1>7, <2>1 DEF RequestIsGood, KeepsAll
  <2>3. <<t, a>> \in all
    BY <2>1, <2>2 DEF Transfers
  <2> QED
    BY <1>5, <2>1, <2>3
<1> HIDE DEF given, all
<1> QED
  BY <1>1, <1>2, <1>3, <1>6, <1>7 DEF AnswerIsGood

LEMMA ChainGoesOn ==
  ASSUME AnalysisInv, UNCHANGED <<txs, req>>,
         \/ shown < Len(txs) /\ shown' = shown + 1 /\ final' = final
         \/ final < shown /\ final' = final + 1 /\ shown' = shown
  PROVE  AnalysisInv'
<1>1. ChainTypes' /\ final \in Nat /\ final' \in Nat /\ final <= final'
  BY DEF AnalysisInv, ChainTypes, IsOrdered
<1>2. ASSUME InFlight PROVE RequestIsGood(req)'
  <2>1. RequestIsGood(req) /\ req.since \in Nat
    BY <1>2 DEF AnalysisInv, RequestIsGood, Request
  <2>2. \A t \in Txs : t \in Nat
    BY DEF Txs
  <2>3. FoundIsGood(req)'
    BY <1>1, <2>1, <2>2 DEF RequestIsGood, FoundIsGood, Txs
  <2>4. req'.since <= final'
    BY <1>1, <2>1 DEF RequestIsGood
  <2> QED
    BY <2>1, <2>3, <2>4 DEF RequestIsGood, Request, Reaches, KeepsAll, Listed, Txs
<1>3. ASSUME req.stage = "answered" PROVE AnswerIsGood(req)'
  <2>1. AnswerIsGood(req) /\ \A t \in Txs : t \in Nat
    BY <1>3 DEF AnalysisInv, Txs
  <2> QED
    <3>1. ASSUME NEW x \in req.transfers PROVE x[1] <= final' /\ Listed(x[1], x[2])'
      <4>1. x[1] <= final /\ Listed(x[1], x[2]) /\ x[1] \in Nat
        BY <2>1 DEF AnswerIsGood, Listed
      <4> QED
        BY <1>1, <4>1 DEF Listed, Txs
    <3>2. req.since <= final'
      BY <1>1, <1>3, <2>1 DEF AnswerIsGood, AnalysisInv
    <3> QED
      BY <2>1, <3>1, <3>2 DEF AnswerIsGood, Listed, Txs
<1> QED
  BY <1>1, <1>2, <1>3 DEF AnalysisInv, InFlight

LEMMA AnalysisStep == AnalysisInv /\ [AnalysisNext]_analysis => AnalysisInv'
<1> SUFFICES ASSUME AnalysisInv, [AnalysisNext]_analysis PROVE AnalysisInv'
  OBVIOUS
<1>1. CASE Show
  BY <1>1, ChainGoesOn DEF Show
<1>2. CASE FinalizeNext
  BY <1>2, ChainGoesOn DEF FinalizeNext
<1>3. CASE UNCHANGED <<txs, shown, final, req>>
  <2>1. CASE InFlight
    BY <1>3, <2>1, SameChain DEF AnalysisInv
  <2>2. CASE req.stage = "answered"
    BY <1>3, <2>2, SameChain DEF AnalysisInv
  <2>3. CASE req.stage \in {"none", "limited", "unavailable"}
    BY <1>3, <2>3, SameChain
  <2> QED
    BY <2>1, <2>2, <2>3 DEF AnalysisInv, InFlight
<1>4. CASE Ask
  <2>1. CASE req' = Fresh("api")
    <3>1. RequestIsGood(req')
      BY <2>1, FreshIsGood DEF AnalysisInv, Doors
    <3> QED
      BY <1>4, <3>1, SameChain DEF Ask
  <2>2. CASE req' = [stage |-> "limited"]
    <3>1. req'.stage = "limited"
      BY <2>2
    <3> QED
      BY <1>4, <3>1, SameChain DEF Ask
  <2> QED
    BY <1>4, <2>1, <2>2 DEF Ask
<1>5. CASE AskEmbedded
  <2>1. RequestIsGood(req')
    BY <1>5, FreshIsGood DEF AskEmbedded, AnalysisInv, Doors
  <2> QED
    BY <1>5, <2>1, SameChain DEF AskEmbedded
<1>6. CASE ListPage
  BY <1>6, ListKeeps
<1>7. ASSUME NEW t \in Txs, FetchTransaction(t) PROVE AnalysisInv'
  <2>1. PICK g \in Results : req' = [req EXCEPT !.got[t] = g]
    BY <1>7 DEF FetchTransaction
  <2>2. RequestIsGood(req) /\ req \in Request /\ req.stage = "fetch"
    BY <1>7 DEF FetchTransaction, AnalysisInv, InFlight, RequestIsGood
  <2>3. /\ req' \in Request /\ req'.stage = "fetch" /\ req'.since = req.since
        /\ req'.on = req.on /\ req'.kept = req.kept /\ req'.partial = req.partial
        /\ req'.inspected = req.inspected /\ req'.door = req.door
    BY <2>1, <2>2 DEF Request
  <2>4. RequestIsGood(req')
    BY <2>2, <2>3 DEF RequestIsGood, FoundIsGood, KeepsAll
  <2> QED
    BY <1>7, <2>4, SameChain DEF FetchTransaction
<1>8. CASE Reply
  <2>1. RequestIsGood(req) /\ ChainTypes
    BY <1>8 DEF Reply, AnalysisInv, InFlight
  <2>2. CASE req' = [stage |-> "unavailable"]
    <3>1. req'.stage = "unavailable"
      BY <2>2
    <3> QED
      BY <1>8, <3>1, SameChain DEF Reply
  <2>3. CASE req' = Answer(req)
    <3>1. AnswerIsGood(req') /\ req'.stage = "answered"
      BY <1>8, <2>1, <2>3, ReplyIsGood DEF Reply, Answer
    <3> QED
      BY <1>8, <3>1, SameChain DEF Reply
  <2> QED
    BY <1>8, <2>2, <2>3 DEF Reply
<1>9. CASE Unavailable
  <2>1. req'.stage = "unavailable"
    BY <1>9 DEF Unavailable
  <2> QED
    BY <1>9, <2>1, SameChain DEF Unavailable
<1> QED
  BY <1>1, <1>2, <1>3, <1>4, <1>5, <1>6, <1>7, <1>8, <1>9
  DEF AnalysisNext, NextWindow, analysis

(* Safety: for any chain, page size and limits, what an answer lists is of   *)
(* the range, and an answer that says it is complete lists every transfer of *)
(* the range that was finalized when the request began; one finalized during *)
(* the request may be missing (wallet-analysis.ts:172-258).                  *)
THEOREM CompleteAnswersAreWhole == AnalysisSpec => []CompleteIsWhole
<1>1. AnalysisInv => CompleteIsWhole
  BY DEF AnalysisInv, AnswerIsGood, Listed, CompleteIsWhole
<1> QED
  BY <1>1, AnalysisStarts, AnalysisStep, PTL DEF AnalysisSpec
=============================================================================
