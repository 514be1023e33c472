-------------------------- MODULE WorkerLeaseProofs --------------------------
(***************************************************************************)
(* Proofs about WorkerLease, for any set of processes and jobs, any lease  *)
(* length and any number of attempts.                                      *)
(***************************************************************************)
EXTENDS WorkerLease, TLAPS

(* The rows the statements write are rows. *)
LEMMA RowOperators ==
  ASSUME NEW r \in Row, NEW w \in Workers, NEW c \in Nat,
         NEW class \in {"none", "contention", "handler"}
  PROVE  /\ Granted(r, w) \in Row
         /\ Succeeded(r, c) \in Row
         /\ Failed(r, class) \in Row
         /\ Renewed(r) \in Row
BY ConstantsAssumption
   DEF Row, Granted, Succeeded, Failed, Renewed, Overtaken

(* A statement that is fenced leaves a row of the right type. *)
LEMMA AfterInRow ==
  ASSUME TypeOK, NEW w \in Workers, NEW j \in Jobs
  PROVE  /\ AfterComplete(w, j) \in Row
         /\ AfterFailure(w, j) \in Row
         /\ AfterRelease(w, j) \in Row
<1>1. row[j] \in Row /\ exec[w][j].snap + 1 \in Nat
  BY DEF TypeOK, Execution
<1>2. QED
  BY <1>1, RowOperators DEF AfterComplete, AfterFailure, AfterRelease

(* The frame of a step of one execution: it writes one row and its own      *)
(* record, and both stay well typed.                                        *)
StepOf(w, j) ==
  /\ \E r \in Row : row' = [row EXCEPT ![j] = r]
  /\ \E x \in Execution :
       /\ exec' = [exec EXCEPT ![w][j] = x]
       /\ x.pc = "idle" => x = NoExecution
  /\ UNCHANGED <<inst, proc, aborted>>

LEMMA ExecuteIsLocal ==
  ASSUME TypeOK, OnlyTheLivingExecute,
         NEW w \in Workers, NEW j \in Jobs, Execute(w, j)
  PROVE  StepOf(w, j)
<1> DEFINE x == exec[w][j]
<1>0. /\ row[j] \in Row /\ x \in Execution /\ aborted[w] \in BOOLEAN
      /\ row = [row EXCEPT ![j] = row[j]]
  BY DEF TypeOK
<1>1. /\ NoExecution \in Execution
      /\ \A s \in Step : [x EXCEPT !.pc = s] \in Execution
                       /\ [x EXCEPT !.pc = s].pc = s
      /\ CatchStep(w) \in Step /\ CatchStep(w) # "idle"
      /\ x.renewing => x.pc # "idle"
  BY <1>0 DEF Execution, NoExecution, Step, CatchStep, OnlyTheLivingExecute
<1>2. Granted(row[j], w) \in Row /\ Renewed(row[j]) \in Row
  BY <1>0, RowOperators
<1>3. /\ AfterComplete(w, j) \in Row
      /\ AfterFailure(w, j) \in Row
      /\ AfterRelease(w, j) \in Row
  BY AfterInRow
<1> USE DEF SetRow, SetExec, GoTo, StepOf
<1>4. CASE Launch(w, j)
  BY <1>4, <1>0, <1>1 DEF Launch, Step
<1>5. CASE ClaimGranted(w, j)
  <2>1. [pc |-> "claimed", token |-> row[j].attempts + 1, snap |-> row[j].cursor,
         lost |-> FALSE, renewing |-> FALSE] \in Execution
    BY <1>0 DEF Execution, Step, Row
  <2>2. QED
    BY <1>5, <1>2, <2>1 DEF ClaimGranted
<1>6. CASE ClaimReplyLost(w, j)
  BY <1>6, <1>1, <1>2 DEF ClaimReplyLost
<1>7. CASE ClaimNothing(w, j)
  BY <1>7, <1>0, <1>1 DEF ClaimNothing
<1>8. CASE Begin(w, j)
  BY <1>8, <1>0, <1>1 DEF Begin, Step
<1>9. CASE HandlerReturns(w, j)
  BY <1>9, <1>0, <1>1 DEF HandlerReturns, Step
<1>10. CASE HandlerThrows(w, j)
  BY <1>10, <1>0, <1>1, ZenonT(40) DEF HandlerThrows, Step
<1>11. CASE RenewStarts(w, j)
  <2>1. /\ [x EXCEPT !.renewing = TRUE] \in Execution
        /\ [x EXCEPT !.renewing = TRUE].pc = x.pc
    BY <1>0 DEF Execution
  <2>2. QED
    BY <1>11, <1>0, <2>1 DEF RenewStarts
<1>12. CASE Renew(w, j)
  <2>1. /\ [x EXCEPT !.renewing = FALSE] \in Execution
        /\ [x EXCEPT !.renewing = FALSE].pc = x.pc
    BY <1>0 DEF Execution
  <2>2. QED
    BY <1>12, <1>1, <1>2, <2>1 DEF Renew
<1>13. CASE RenewLost(w, j)
  <2>1. /\ [x EXCEPT !.renewing = FALSE, !.lost = TRUE] \in Execution
        /\ [x EXCEPT !.renewing = FALSE, !.lost = TRUE].pc = x.pc
    BY <1>0 DEF Execution
  <2>2. QED
    BY <1>13, <1>0, <1>1, <1>2, <2>1 DEF RenewLost
<1>14. CASE Complete(w, j)
  BY <1>14, <1>1, <1>3 DEF Complete, Step
<1>15. CASE CompleteThrows(w, j)
  BY <1>15, <1>0, <1>1, <1>3 DEF CompleteThrows
<1>16. CASE Release(w, j)
  BY <1>16, <1>1, <1>3 DEF Release, Step
<1>17. CASE ReleaseThrows(w, j)
  BY <1>17, <1>0, <1>1, <1>3 DEF ReleaseThrows
<1>18. CASE RecordFailure(w, j)
  BY <1>18, <1>0, <1>1, <1>3 DEF RecordFailure
<1>19. CASE DropLease(w, j)
  BY <1>19, <1>0, <1>1, <1>3 DEF DropLease
<1>20. CASE Close(w, j)
  BY <1>20, <1>0, <1>1 DEF Close
<1>21. QED
  BY <1>4, <1>5, <1>6, <1>7, <1>8, <1>9, <1>10, <1>11, <1>12, <1>13, <1>14,
     <1>15, <1>16, <1>17, <1>18, <1>19, <1>20
     DEF Execute, Progress, RenewalStep, vars

-----------------------------------------------------------------------------
(* What a step of an execution can do to the row of its job: grant, advance, *)
(* waste or renew the lease, or leave the row alone.                         *)

SameLease(w, j) ==
  \/ exec'[w][j] = NoExecution
  \/ /\ exec'[w][j].token = exec[w][j].token
     /\ exec'[w][j].snap = exec[w][j].snap

GrantStep(w, j) ==
  /\ LeaseFree(row[j])
  /\ SetRow(j, Granted(row[j], w))
  /\ \/ exec'[w][j] = NoExecution
     \/ /\ exec'[w][j].token = row[j].attempts + 1
        /\ exec'[w][j].snap = row[j].cursor

AdvanceStep(w, j) ==
  /\ Fenced(w, j)
  /\ SetRow(j, Succeeded(row[j], exec[w][j].snap + 1))
  /\ SameLease(w, j)
  /\ exec'[w][j] # exec[w][j]

WasteStep(w, j) ==
  /\ Fenced(w, j)
  /\ \E class \in {"contention", "handler"} : SetRow(j, Failed(row[j], class))
  /\ SameLease(w, j)
  /\ exec'[w][j] # exec[w][j]

RenewalOrNothing(w, j) ==
  /\ row' = row \/ SetRow(j, Renewed(row[j]))
  /\ SameLease(w, j)

LEMMA ExecuteEffects ==
  ASSUME TypeOK, NEW w \in Workers, NEW j \in Jobs, Execute(w, j)
  PROVE  \/ GrantStep(w, j) \/ AdvanceStep(w, j) \/ WasteStep(w, j)
         \/ RenewalOrNothing(w, j)
<1> DEFINE x == exec[w][j]
<1>0. /\ row[j] \in Row /\ x \in Execution /\ row = [row EXCEPT ![j] = row[j]]
      /\ \A y : SetExec(w, j, y) => exec'[w][j] = y
  BY DEF TypeOK, SetExec
<1>1. /\ \A s : /\ [x EXCEPT !.pc = s].token = x.token
                /\ [x EXCEPT !.pc = s].snap = x.snap
                /\ [x EXCEPT !.pc = s].pc = s
      /\ NoExecution.pc = "idle"
  BY <1>0 DEF Execution, NoExecution
<1>2. ASSUME NEW r, NEW s, s # x.pc, GoTo(w, j, s), SetRow(j, r),
             r \in {row[j], AfterComplete(w, j)}
      PROVE  AdvanceStep(w, j) \/ RenewalOrNothing(w, j)
  <2>1. SameLease(w, j) /\ exec'[w][j] # x
    BY <1>0, <1>1, <1>2 DEF GoTo, SameLease
  <2>2. CASE r = row[j]
    BY <1>0, <1>2, <2>1, <2>2 DEF RenewalOrNothing, SetRow
  <2>3. CASE r = AfterComplete(w, j) /\ r # row[j]
    BY <1>2, <2>1, <2>3 DEF AfterComplete, AdvanceStep
  <2>4. QED
    BY <1>2, <2>2, <2>3
<1>3. ASSUME NEW r, NEW y, SetExec(w, j, y), SetRow(j, r), y.pc # x.pc,
             y = NoExecution \/ (y.token = x.token /\ y.snap = x.snap),
             r \in {row[j], AfterFailure(w, j), AfterRelease(w, j)}
      PROVE  WasteStep(w, j) \/ RenewalOrNothing(w, j)
  <2>1. SameLease(w, j) /\ exec'[w][j] # x
    BY <1>0, <1>1, <1>3 DEF SameLease
  <2>2. CASE r = row[j]
    BY <1>0, <1>3, <2>1, <2>2 DEF RenewalOrNothing, SetRow
  <2>3. CASE r # row[j]
    BY <1>3, <2>1, <2>3 DEF AfterFailure, AfterRelease, WasteStep
  <2>4. QED
    BY <2>2, <2>3
<1>4. ASSUME NEW y, SetExec(w, j, y), row' = row \/ SetRow(j, Renewed(row[j])),
             y = NoExecution \/ (y.token = x.token /\ y.snap = x.snap)
      PROVE  RenewalOrNothing(w, j)
  BY <1>0, <1>4 DEF RenewalOrNothing, SameLease
<1>5. ASSUME NEW s, GoTo(w, j, s), row' = row
      PROVE  RenewalOrNothing(w, j)
  BY <1>1, <1>4, <1>5 DEF GoTo
<1>6. CatchStep(w) \notin {"completing", "releasing"}
  BY DEF CatchStep
<1>7. CASE Launch(w, j) \/ Begin(w, j) \/ HandlerReturns(w, j) \/ HandlerThrows(w, j)
  BY <1>7, <1>5 DEF Launch, Begin, HandlerReturns, HandlerThrows
<1>8. CASE ClaimGranted(w, j) \/ ClaimReplyLost(w, j)
  BY <1>8, <1>0 DEF ClaimGranted, ClaimReplyLost, GrantStep
<1>9. CASE ClaimNothing(w, j) \/ Close(w, j)
  BY <1>9, <1>4 DEF ClaimNothing, Close
<1>10. CASE RenewStarts(w, j) \/ Renew(w, j) \/ RenewLost(w, j)
  <2>1. /\ [x EXCEPT !.renewing = TRUE].token = x.token
        /\ [x EXCEPT !.renewing = TRUE].snap = x.snap
        /\ [x EXCEPT !.renewing = FALSE].token = x.token
        /\ [x EXCEPT !.renewing = FALSE].snap = x.snap
        /\ [x EXCEPT !.renewing = FALSE, !.lost = TRUE].token = x.token
        /\ [x EXCEPT !.renewing = FALSE, !.lost = TRUE].snap = x.snap
    BY <1>0 DEF Execution
  <2>2. CASE RenewStarts(w, j)
    BY <2>2, <1>4, <2>1 DEF RenewStarts
  <2>3. CASE Renew(w, j)
    BY <2>3, <1>4, <2>1 DEF Renew
  <2>4. CASE RenewLost(w, j)
    BY <2>4, <1>4, <2>1 DEF RenewLost
  <2>5. QED
    BY <1>10, <2>2, <2>3, <2>4
<1>11. CASE Complete(w, j)
  BY <1>11, <1>2 DEF Complete
<1>12. CASE CompleteThrows(w, j)
  BY <1>12, <1>2, <1>6 DEF CompleteThrows
<1>13. CASE Release(w, j)
  BY <1>13, <1>1, <1>3 DEF Release, GoTo
<1>14. CASE ReleaseThrows(w, j)
  BY <1>14, <1>1, <1>3, <1>6 DEF ReleaseThrows, GoTo
<1>15. CASE RecordFailure(w, j)
  BY <1>15, <1>1, <1>3 DEF RecordFailure
<1>16. CASE DropLease(w, j)
  BY <1>16, <1>1, <1>3 DEF DropLease
<1>17. QED
  BY <1>7, <1>8, <1>9, <1>10, <1>11, <1>12, <1>13, <1>14, <1>15, <1>16
     DEF Execute, Progress, RenewalStep

(* Only a living process executes. *)
LEMMA ExecuteNeedsLife ==
  ASSUME TypeOK, OnlyTheLivingExecute,
         NEW w \in Workers, NEW j \in Jobs, Execute(w, j)
  PROVE  proc[w] = "up"
<1> SUFFICES ASSUME exec[w][j] = NoExecution PROVE proc[w] = "up"
  BY DEF OnlyTheLivingExecute
<1>1. Launch(w, j)
  BY DEF Execute, Progress, RenewalStep, NoExecution, ClaimGranted,
         ClaimReplyLost, ClaimNothing, Begin, HandlerReturns, HandlerThrows,
         Complete, CompleteThrows, Release, ReleaseThrows, RecordFailure,
         DropLease, Close, RenewStarts, Renew, RenewLost
<1>2. QED
  BY <1>1 DEF Launch, MayLaunch

(* A step of a process leaves the rows alone; it may clear its executions. *)
LEMMA ProcessIsLocal ==
  ASSUME TypeOK, NEW w \in Workers, Process(w)
  PROVE  /\ UNCHANGED row
         /\ \/ UNCHANGED exec
            \/ exec' = [exec EXCEPT ![w] = [j \in Jobs |-> NoExecution]]
         /\ TypeOK'
<1>1. NoExecution \in Execution
  BY DEF Execution, NoExecution, Step
<1>2. CASE StartInstance(w)
  BY <1>2 DEF StartInstance, TypeOK
<1>3. CASE Abort(w)
  BY <1>3 DEF Abort, TypeOK
<1>4. CASE Drain(w)
  BY <1>4 DEF Drain, TypeOK
<1>5. CASE Stop(w)
  BY <1>5 DEF Stop, TypeOK
<1>6. CASE Crash(w)
  BY <1>1, <1>6 DEF Crash, TypeOK
<1>7. QED
  BY <1>2, <1>3, <1>4, <1>5, <1>6 DEF Process

(* A tick changes nothing but the time that leases have left. *)
LEMMA TickIsLocal ==
  ASSUME TypeOK, Tick
  PROVE  /\ UNCHANGED <<inst, proc, aborted, exec>>
         /\ row' \in [Jobs -> Row]
         /\ \A j \in Jobs :
              /\ row'[j].token = row[j].token
              /\ row'[j].owner = row[j].owner
              /\ row'[j].cursor = row[j].cursor
              /\ row'[j].attempts = row[j].attempts
              /\ row'[j].successes = row[j].successes
              /\ row'[j].failures = row[j].failures
<1> DEFINE ticked(r) == [r EXCEPT !.left = IF r.left > 0 THEN r.left - 1 ELSE 0]
<1>1. ASSUME NEW r \in Row
      PROVE  /\ ticked(r) \in Row
             /\ ticked(r).token = r.token
             /\ ticked(r).owner = r.owner
             /\ ticked(r).cursor = r.cursor
             /\ ticked(r).attempts = r.attempts
             /\ ticked(r).successes = r.successes
             /\ ticked(r).failures = r.failures
  BY ConstantsAssumption DEF Row
<1>2. row' = [j \in Jobs |-> ticked(row[j])] /\ row \in [Jobs -> Row]
  BY DEF Tick, TypeOK
<1>3. UNCHANGED <<inst, proc, aborted, exec>>
  BY DEF Tick
<1> HIDE DEF ticked
<1>4. QED
  BY <1>1, <1>2, <1>3

-----------------------------------------------------------------------------

LEMMA InitInvariant == Init => LeaseInvariant
BY ConstantsAssumption
   DEF Init, LeaseInvariant, TypeOK, AttemptsSettledOnce, CursorChain,
       HolderIsCurrent, TokensMinted, OnlyTheLivingExecute,
       Row, Execution, FreshRow, NoExecution, Step

(* An execution takes one step. *)
LEMMA ExecuteInvariant ==
  ASSUME LeaseInvariant, NEW w \in Workers, NEW j \in Jobs, Execute(w, j)
  PROVE  LeaseInvariant'
<1>0. TypeOK /\ row[j] \in Row /\ exec[w][j] \in Execution
  BY DEF LeaseInvariant, TypeOK
<1>1. PICK r \in Row, x \in Execution :
        /\ row' = [row EXCEPT ![j] = r]
        /\ exec' = [exec EXCEPT ![w][j] = x]
        /\ x.pc = "idle" => x = NoExecution
        /\ UNCHANGED <<inst, proc, aborted>>
  <2>1. StepOf(w, j)
    BY <1>0, ExecuteIsLocal DEF LeaseInvariant
  <2>2. QED
    BY <2>1 DEF StepOf
<1>2. /\ row'[j] = r
      /\ \A k \in Jobs : k # j => row'[k] = row[k]
      /\ exec'[w][j] = x
      /\ \A v \in Workers, k \in Jobs : v # w \/ k # j => exec'[v][k] = exec[v][k]
  BY <1>0, <1>1 DEF TypeOK
<1>3. TypeOK'
  BY <1>0, <1>1 DEF TypeOK
<1>4. OnlyTheLivingExecute'
  <2>1. proc[w] = "up"
    BY <1>0, ExecuteNeedsLife DEF LeaseInvariant
  <2>2. QED
    BY <1>1, <1>2, <2>1 DEF OnlyTheLivingExecute, LeaseInvariant
<1>5. NoExecution.token = 0 /\ NoExecution.snap = 0
  BY DEF NoExecution
<1>6. Fenced(w, j) => row[j].token # 0 /\ exec[w][j].snap = row[j].cursor
  BY ConstantsAssumption DEF Fenced, LeaseInvariant, TokensMinted, HolderIsCurrent
<1>7. CASE GrantStep(w, j)
  <2>1. r = Granted(row[j], w) /\ (x = NoExecution \/ (x.token = row[j].attempts + 1 /\ x.snap = row[j].cursor))
    BY <1>0, <1>2, <1>7 DEF GrantStep, SetRow, TypeOK
  <2>2. r.token = row[j].attempts + 1 /\ r.attempts = row[j].attempts + 1
        /\ r.cursor = row[j].cursor /\ r.successes = row[j].successes
        /\ r.failures = row[j].failures + (IF row[j].token = 0 THEN 0 ELSE 1)
    BY <2>1 DEF Granted, Overtaken
  <2>3. AttemptsSettledOnce' /\ CursorChain'
    BY <1>0, <1>2, <2>2 DEF AttemptsSettledOnce, CursorChain, LeaseInvariant, Row
  <2>7. /\ \A v \in Workers, k \in Jobs : exec[v][k].token \in Nat
        /\ \A k \in Jobs : row[k].token \in Nat /\ row[k].attempts \in Nat
    BY <1>0 DEF TypeOK, Row, Execution
  <2>4. TokensMinted'
    BY <1>2, <1>5, <2>1, <2>2, <2>7 DEF TokensMinted, LeaseInvariant
  <2>5. HolderIsCurrent'
    <3> SUFFICES ASSUME NEW v \in Workers, NEW k \in Jobs, row'[k].token # 0,
                        row'[k].token = exec'[v][k].token
                 PROVE  exec'[v][k].snap = row'[k].cursor
      BY DEF HolderIsCurrent
    <3>1. CASE k # j
      BY <1>2, <3>1 DEF HolderIsCurrent, LeaseInvariant
    <3>2. CASE k = j /\ v = w
      BY <1>2, <1>5, <2>1, <2>2, <3>2
    <3>3. CASE k = j /\ v # w
      BY <1>2, <2>2, <2>7, <3>3 DEF TokensMinted, LeaseInvariant
    <3>4. QED
      BY <3>1, <3>2, <3>3
  <2>8. QED
    BY <1>3, <1>4, <2>3, <2>4, <2>5 DEF LeaseInvariant
<1>8. CASE AdvanceStep(w, j)
  <2>1. r = Succeeded(row[j], exec[w][j].snap + 1) /\ Fenced(w, j)
        /\ (x = NoExecution \/ (x.token = exec[w][j].token /\ x.snap = exec[w][j].snap))
    BY <1>0, <1>2, <1>8 DEF AdvanceStep, SetRow, SameLease, TypeOK
  <2>2. r.token = 0 /\ r.attempts = row[j].attempts /\ r.owner = NoWorker
        /\ r.cursor = row[j].cursor + 1 /\ r.successes = row[j].successes + 1
        /\ r.failures = row[j].failures
    BY <1>6, <2>1 DEF Succeeded
  <2>3. AttemptsSettledOnce' /\ CursorChain'
    BY <1>0, <1>2, <1>6, <2>1, <2>2 DEF AttemptsSettledOnce, CursorChain, LeaseInvariant, Row
  <2>4. TokensMinted'
    BY <1>0, <1>2, <1>5, <2>1, <2>2 DEF TokensMinted, LeaseInvariant, Row
  <2>5. HolderIsCurrent'
    BY <1>2, <2>2 DEF HolderIsCurrent, LeaseInvariant
  <2>6. QED
    BY <1>3, <1>4, <2>3, <2>4, <2>5 DEF LeaseInvariant
<1>9. CASE WasteStep(w, j)
  <2>1. PICK class : r = Failed(row[j], class)
    BY <1>0, <1>2, <1>9 DEF WasteStep, SetRow, TypeOK
  <2>2. Fenced(w, j)
        /\ (x = NoExecution \/ (x.token = exec[w][j].token /\ x.snap = exec[w][j].snap))
    BY <1>2, <1>9 DEF WasteStep, SameLease
  <2>3. r.token = 0 /\ r.attempts = row[j].attempts /\ r.owner = NoWorker
        /\ r.cursor = row[j].cursor /\ r.successes = row[j].successes
        /\ r.failures = row[j].failures + 1
    BY <2>1 DEF Failed
  <2>4. AttemptsSettledOnce' /\ CursorChain'
    BY <1>0, <1>2, <1>6, <2>2, <2>3 DEF AttemptsSettledOnce, CursorChain, LeaseInvariant, Row
  <2>5. TokensMinted'
    BY <1>0, <1>2, <1>5, <2>2, <2>3 DEF TokensMinted, LeaseInvariant, Row
  <2>6. HolderIsCurrent'
    BY <1>2, <2>3 DEF HolderIsCurrent, LeaseInvariant
  <2>7. QED
    BY <1>3, <1>4, <2>4, <2>5, <2>6 DEF LeaseInvariant
<1>10. CASE RenewalOrNothing(w, j)
  <2>1. /\ r.token = row[j].token /\ r.owner = row[j].owner
        /\ r.cursor = row[j].cursor /\ r.attempts = row[j].attempts
        /\ r.successes = row[j].successes /\ r.failures = row[j].failures
    <3>1. r = row[j] \/ r = Renewed(row[j])
      BY <1>0, <1>2, <1>10 DEF RenewalOrNothing, SetRow, TypeOK
    <3>2. QED
      BY <1>0, <3>1 DEF Renewed, Row
  <2>2. x = NoExecution \/ (x.token = exec[w][j].token /\ x.snap = exec[w][j].snap)
    BY <1>2, <1>10 DEF RenewalOrNothing, SameLease
  <2>3. AttemptsSettledOnce' /\ CursorChain'
    BY <1>2, <2>1 DEF AttemptsSettledOnce, CursorChain, LeaseInvariant
  <2>4. TokensMinted'
    BY <1>0, <1>2, <1>5, <2>1, <2>2 DEF TokensMinted, LeaseInvariant, Row
  <2>5. HolderIsCurrent'
    BY <1>0, <1>2, <1>5, <2>1, <2>2 DEF HolderIsCurrent, LeaseInvariant, Row
  <2>6. QED
    BY <1>3, <1>4, <2>3, <2>4, <2>5 DEF LeaseInvariant
<1>11. QED
  BY <1>0, <1>7, <1>8, <1>9, <1>10, ExecuteEffects

LEMMA StepInvariant == LeaseInvariant /\ [Next]_vars => LeaseInvariant'
<1> SUFFICES ASSUME LeaseInvariant, [Next]_vars PROVE LeaseInvariant'
  OBVIOUS
<1> USE DEF AttemptsSettledOnce, CursorChain, HolderIsCurrent, TokensMinted,
            OnlyTheLivingExecute, LeaseInvariant
<1>1. CASE UNCHANGED vars
  BY <1>1 DEF vars, TypeOK
<1>2. CASE Tick
  <2>1. TypeOK'
    BY <1>2, TickIsLocal DEF TypeOK
  <2>2. QED
    BY <1>2, <2>1, TickIsLocal
<1>3. ASSUME NEW w \in Workers, Process(w) PROVE LeaseInvariant'
  <2>1. /\ UNCHANGED row /\ TypeOK'
        /\ UNCHANGED exec \/ exec' = [exec EXCEPT ![w] = [j \in Jobs |-> NoExecution]]
    BY <1>3, ProcessIsLocal
  <2>2. \A v \in Workers, j \in Jobs :
          exec'[v][j] = exec[v][j] \/ (v = w /\ exec'[v][j] = NoExecution)
    BY <2>1 DEF TypeOK
  <2>3. NoExecution.token = 0 /\ NoExecution.snap = 0
    BY DEF NoExecution
  <2>4. TokensMinted'
    BY <2>1, <2>2, <2>3 DEF TypeOK, Row
  <2>5. HolderIsCurrent'
    BY <2>1, <2>2, <2>3
  <2>6. OnlyTheLivingExecute'
    <3>1. \A j \in Jobs : exec[w][j] \in Execution
      BY DEF TypeOK
    <3>2. CASE StartInstance(w)
      BY <3>2 DEF StartInstance, TypeOK
    <3>3. CASE Abort(w) \/ Drain(w)
      BY <3>3 DEF Abort, Drain, TypeOK
    <3>4. CASE Crash(w)
      BY <3>4 DEF Crash, TypeOK
    <3>5. CASE Stop(w)
      BY <3>5 DEF Stop, Settled, TypeOK
    <3>6. QED
      BY <1>3, <3>2, <3>3, <3>4, <3>5 DEF Process
  <2>7. QED
    BY <2>1, <2>4, <2>5, <2>6
<1>4. ASSUME NEW w \in Workers, NEW j \in Jobs, Execute(w, j) PROVE LeaseInvariant'
  BY <1>4, ExecuteInvariant
<1>5. QED
  BY <1>1, <1>2, <1>3, <1>4 DEF Next

-----------------------------------------------------------------------------

(* The inductive invariant of the job table holds of every reachable state:  *)
(* the rows and executions are well typed, tokens are minted once, the       *)
(* holder of a lease works from the current cursor, and only living          *)
(* processes execute.                                                        *)
THEOREM LeaseInvariantHolds == Spec => []LeaseInvariant
<1>1. QED
  BY InitInvariant, StepInvariant, PTL DEF Spec

(* Every attempt of every job is settled exactly once, by its own outcome,   *)
(* by a release or by the claim that overtakes it.                           *)
THEOREM AttemptsAreSettledOnce == Spec => []AttemptsSettledOnce
<1>1. LeaseInvariant => AttemptsSettledOnce
  BY DEF LeaseInvariant
<1>2. QED
  BY <1>1, LeaseInvariantHolds, PTL

(* A job's cursor only ever moves along the chain of successful passes, so   *)
(* no handler that outlived its lease writes it.                             *)
THEOREM CursorIsAChain == Spec => []CursorChain
<1>1. LeaseInvariant => CursorChain
  BY DEF LeaseInvariant
<1>2. QED
  BY <1>1, LeaseInvariantHolds, PTL

(* Nothing executes on behalf of an instance that is recorded as stopped.    *)
THEOREM StoppedInstanceIsQuiet == Spec => []StoppedIsQuiet
<1>1. LeaseInvariant => StoppedIsQuiet
  BY DEF LeaseInvariant, OnlyTheLivingExecute, StoppedIsQuiet
<1>2. QED
  BY <1>1, LeaseInvariantHolds, PTL

(* An unexpired lease ends only in a step of the execution that holds it.    *)
THEOREM LiveLeaseIsNotStolen == Spec => LiveLeaseIsExclusive
<1> DEFINE Exclusive(w, j) ==
      Fenced(w, j) /\ LeaseLive(row[j]) =>
        row'[j].token = row[j].token \/ exec'[w][j] # exec[w][j]
<1>1. ASSUME LeaseInvariant, [Next]_vars, NEW w \in Workers, NEW j \in Jobs,
             Fenced(w, j), LeaseLive(row[j])
      PROVE  row'[j].token = row[j].token \/ exec'[w][j] # exec[w][j]
  <2>0. TypeOK /\ row[j] \in Row /\ row[j].token # 0
    BY <1>1, ConstantsAssumption DEF LeaseInvariant, TypeOK, TokensMinted, Fenced
  <2>1. CASE UNCHANGED vars
    BY <2>1 DEF vars
  <2>2. CASE Tick
    BY <2>0, <2>2, TickIsLocal
  <2>3. ASSUME NEW v \in Workers, Process(v)
        PROVE  row'[j].token = row[j].token
    BY <2>0, <2>3, ProcessIsLocal
  <2>4. ASSUME NEW v \in Workers, NEW k \in Jobs, Execute(v, k)
        PROVE  row'[j].token = row[j].token \/ exec'[w][j] # exec[w][j]
    <3>1. CASE k # j
      <4>1. StepOf(v, k)
        BY <1>1, <2>4, ExecuteIsLocal DEF LeaseInvariant
      <4>2. row'[j] = row[j]
        BY <2>0, <3>1, <4>1 DEF StepOf, TypeOK
      <4>3. QED
        BY <4>2
    <3>2. CASE k = j
      <4>1. CASE GrantStep(v, j)
        BY <1>1, <2>0, <4>1 DEF GrantStep, LeaseFree
      <4>2. CASE AdvanceStep(v, j) \/ WasteStep(v, j)
        BY <1>1, <4>2 DEF AdvanceStep, WasteStep, Fenced
      <4>3. CASE RenewalOrNothing(v, j)
        <5>1. row'[j] = row[j] \/ row'[j] = Renewed(row[j])
          BY <2>0, <4>3 DEF RenewalOrNothing, SetRow, TypeOK
        <5>2. QED
          BY <2>0, <5>1 DEF Renewed, Row
      <4>4. QED
        BY <2>0, <2>4, <3>2, <4>1, <4>2, <4>3, ExecuteEffects
    <3>3. QED
      BY <3>1, <3>2
  <2>5. QED
    BY <1>1, <2>1, <2>2, <2>3, <2>4 DEF Next
<1>2. LeaseInvariant /\ [Next]_vars =>
        [\A w \in Workers, j \in Jobs : Exclusive(w, j)]_vars
  BY <1>1
<1>3. QED
  BY <1>2, LeaseInvariantHolds, PTL DEF Spec, LiveLeaseIsExclusive

-----------------------------------------------------------------------------
(* The job table implements the register that passes advance one at a time. *)

LEMMA ViewOfExecute ==
  ASSUME LeaseInvariant, NEW w \in Workers, NEW j \in Jobs, Execute(w, j)
  PROVE  Abstract!Grant(j) \/ Abstract!Advance(j) \/ Abstract!Waste(j)
         \/ UNCHANGED PassView
<1>0. TypeOK /\ row \in [Jobs -> Row] /\ row[j] \in Row
  BY DEF LeaseInvariant, TypeOK
<1>1. Fenced(w, j) => row[j].token # 0 /\ exec[w][j].snap = row[j].cursor
  BY ConstantsAssumption DEF Fenced, LeaseInvariant, TokensMinted, HolderIsCurrent
<1>2. ASSUME NEW r, row' = [row EXCEPT ![j] = r]
      PROVE  PassView' = [PassView EXCEPT ![j] =
               [granted |-> r.attempts, open |-> IF r.token = 0 THEN 0 ELSE 1,
                advanced |-> r.cursor, wasted |-> r.failures]]
  BY <1>0, <1>2 DEF PassView
<1>3. PassView[j] = [granted |-> row[j].attempts,
                     open |-> IF row[j].token = 0 THEN 0 ELSE 1,
                     advanced |-> row[j].cursor, wasted |-> row[j].failures]
  BY DEF PassView
<1>9. /\ PassView[j].granted = row[j].attempts
      /\ PassView[j].open = IF row[j].token = 0 THEN 0 ELSE 1
      /\ PassView[j].advanced = row[j].cursor
      /\ PassView[j].wasted = row[j].failures
  BY <1>3
<1>4. CASE GrantStep(w, j)
  <2>1. row' = [row EXCEPT ![j] = Granted(row[j], w)]
    BY <1>4 DEF GrantStep, SetRow
  <2>2. /\ Granted(row[j], w).attempts = row[j].attempts + 1
        /\ Granted(row[j], w).token # 0
        /\ Granted(row[j], w).cursor = row[j].cursor
        /\ Granted(row[j], w).failures = row[j].failures + PassView[j].open
    BY <1>0, <1>9 DEF Granted, Overtaken, Row
  <2>3. PassView' = [PassView EXCEPT ![j] =
          [granted |-> row[j].attempts + 1, open |-> 1,
           advanced |-> row[j].cursor,
           wasted |-> row[j].failures + PassView[j].open]]
    BY <1>2, <2>1, <2>2
  <2>4. Abstract!Grant(j)
    BY <1>9, <2>3 DEF Abstract!Grant
  <2>5. QED
    BY <2>4
<1>5. CASE AdvanceStep(w, j)
  <2>1. row' = [row EXCEPT ![j] = Succeeded(row[j], row[j].cursor + 1)]
        /\ row[j].token # 0
    BY <1>1, <1>5 DEF AdvanceStep, SetRow
  <2>2. /\ Succeeded(row[j], row[j].cursor + 1).attempts = row[j].attempts
        /\ Succeeded(row[j], row[j].cursor + 1).token = 0
        /\ Succeeded(row[j], row[j].cursor + 1).cursor = row[j].cursor + 1
        /\ Succeeded(row[j], row[j].cursor + 1).failures = row[j].failures
    BY DEF Succeeded
  <2>3. PassView' = [PassView EXCEPT ![j] =
          [granted |-> row[j].attempts, open |-> 0,
           advanced |-> row[j].cursor + 1, wasted |-> row[j].failures]]
    BY <1>2, <2>1, <2>2
  <2>4. Abstract!Advance(j)
    BY <1>9, <2>1, <2>3 DEF Abstract!Advance
  <2>5. QED
    BY <2>4
<1>6. CASE WasteStep(w, j)
  <2>1. PICK class : row' = [row EXCEPT ![j] = Failed(row[j], class)]
    BY <1>6 DEF WasteStep, SetRow
  <2>2. row[j].token # 0
    BY <1>1, <1>6 DEF WasteStep
  <2>3. /\ Failed(row[j], class).attempts = row[j].attempts
        /\ Failed(row[j], class).token = 0
        /\ Failed(row[j], class).cursor = row[j].cursor
        /\ Failed(row[j], class).failures = row[j].failures + 1
    BY DEF Failed
  <2>4. PassView' = [PassView EXCEPT ![j] =
          [granted |-> row[j].attempts, open |-> 0,
           advanced |-> row[j].cursor, wasted |-> row[j].failures + 1]]
    BY <1>2, <2>1, <2>3
  <2>5. Abstract!Waste(j)
    BY <1>9, <2>2, <2>4 DEF Abstract!Waste
  <2>6. QED
    BY <2>5
<1>7. CASE RenewalOrNothing(w, j)
  <2>1. CASE row' = row
    BY <2>1 DEF PassView
  <2>2. CASE row' = [row EXCEPT ![j] = Renewed(row[j])]
    <3>1. /\ Renewed(row[j]).attempts = row[j].attempts
          /\ Renewed(row[j]).token = row[j].token
          /\ Renewed(row[j]).cursor = row[j].cursor
          /\ Renewed(row[j]).failures = row[j].failures
      BY <1>0 DEF Renewed, Row
    <3>2. \A k \in Jobs : /\ row'[k].attempts = row[k].attempts
                          /\ row'[k].token = row[k].token
                          /\ row'[k].cursor = row[k].cursor
                          /\ row'[k].failures = row[k].failures
      BY <1>0, <2>2, <3>1
    <3>3. QED
      BY <3>2 DEF PassView
  <2>3. QED
    BY <1>7, <2>1, <2>2 DEF RenewalOrNothing, SetRow
<1>8. QED
  BY <1>0, <1>4, <1>5, <1>6, <1>7, ExecuteEffects

(* WorkerLease implements AtomicPass: whatever expires, crashes or is lost,  *)
(* a job's cursor is advanced by one whole pass at a time, and every granted *)
(* pass is used at most once.                                                *)
THEOREM WorkerLeaseImplementsAtomicPass == Spec => ImplementsAtomicPass
<1>1. Init => Abstract!Init
  BY DEF Init, Abstract!Init, PassView, FreshRow
<1>2. LeaseInvariant /\ [Next]_vars => [Abstract!Next]_PassView
  <2> SUFFICES ASSUME LeaseInvariant, [Next]_vars
               PROVE  Abstract!Next \/ UNCHANGED PassView
    OBVIOUS
  <2>1. CASE UNCHANGED vars
    BY <2>1 DEF vars, PassView
  <2>2. CASE Tick
    BY <2>2, TickIsLocal DEF PassView, LeaseInvariant
  <2>3. ASSUME NEW w \in Workers, Process(w) PROVE UNCHANGED PassView
    BY <2>3, ProcessIsLocal DEF PassView, LeaseInvariant
  <2>4. ASSUME NEW w \in Workers, NEW j \in Jobs, Execute(w, j)
        PROVE  Abstract!Next \/ UNCHANGED PassView
    BY <2>4, ViewOfExecute DEF Abstract!Next
  <2>5. QED
    BY <2>1, <2>2, <2>3, <2>4 DEF Next
<1>3. QED
  BY <1>1, <1>2, LeaseInvariantHolds, PTL
     DEF Spec, ImplementsAtomicPass, Abstract!Spec
=============================================================================
