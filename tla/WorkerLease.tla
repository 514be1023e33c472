----------------------------- MODULE WorkerLease -----------------------------
(***************************************************************************)
(* The hosted worker: processes that run jobs under leases kept in the     *)
(* database (WorkerJobStore), and the loop that drives them (runWorker,    *)
(* runOne, renewLease).                                                    *)
(*                                                                         *)
(* Every statement of the store is one step, taken at the database clock.  *)
(* A statement may commit and its reply may still be lost, or fail without *)
(* committing; the process sees an exception in both cases.  A process may *)
(* die between any two steps.  A handler whose lease ran out keeps running *)
(* until it notices, so several handlers of one job may be running.        *)
(*                                                                         *)
(* Time is a countdown: row[j].left is lease_expires_at minus the database *)
(* clock, in ticks, and 0 once the lease has expired.  A lease token is    *)
(* named by the attempt that minted it (randomUUID in the code), and NULL  *)
(* is 0.  A cursor is abstracted to the number of passes it descends from: *)
(* a handler that was given cursor n returns n + 1.                        *)
(***************************************************************************)
EXTENDS Naturals

CONSTANTS
  Workers,       \* one member per worker_instances row, that is, per process start
  Jobs,          \* WORKER_JOB_NAMES
  NoWorker,      \* NULL in lease_owner_id
  LeaseTicks,    \* leaseMs, in ticks
  MaxAttempts    \* bound: the attempts of a job that a run explores

ASSUME ConstantsAssumption ==
  /\ NoWorker \notin Workers
  /\ LeaseTicks \in Nat \ {0}
  /\ MaxAttempts \in Nat

VARIABLES
  inst,      \* worker_instances.state of each process
  proc,      \* the process itself
  aborted,   \* runtimeController.signal.aborted
  row,       \* worker_job_states
  exec       \* runOne: the execution of each job by each process

vars == <<inst, proc, aborted, row, exec>>

-----------------------------------------------------------------------------
(* Types. *)

Row == [token: Nat, owner: Workers \cup {NoWorker}, left: 0..LeaseTicks,
        cursor: Nat, attempts: Nat, successes: Nat, failures: Nat,
        consecutive: Nat, lastFailure: {"none", "contention", "handler"}]

(* Where runOne is: "claimed" has its lease and has not looked at the       *)
(* signal, "completing" and "releasing" wait for the store inside the try,  *)
(* "failing" and "dropping" inside the catch, and "closing" waits in the    *)
(* finally for the renewal that is in flight.                               *)
Step == {"idle", "claiming", "claimed", "handling", "completing", "releasing",
         "failing", "dropping", "closing"}

Execution == [pc: Step, token: Nat, snap: Nat, lost: BOOLEAN, renewing: BOOLEAN]

NoExecution ==
  [pc |-> "idle", token |-> 0, snap |-> 0, lost |-> FALSE, renewing |-> FALSE]

FreshRow ==
  [token |-> 0, owner |-> NoWorker, left |-> 0, cursor |-> 0, attempts |-> 0,
   successes |-> 0, failures |-> 0, consecutive |-> 0, lastFailure |-> "none"]

-----------------------------------------------------------------------------
(* The guards of the store's statements. *)

LeaseLive(r) == r.left > 0

(* claim's WHERE: lease_token IS NULL OR lease_expires_at <= now. *)
LeaseFree_OnlyReleased(r) == r.token = 0
LeaseFree(r) == r.token = 0 \/ ~LeaseLive(r)

(* lease_token = token AND lease_owner_id = instance. *)
Fenced_AnyLease(w, j) == row[j].token # 0
Fenced(w, j) ==
  /\ row[j].token = exec[w][j].token
  /\ row[j].owner = w

-----------------------------------------------------------------------------
(* The rows the store's statements write. *)

Overtaken(r) == IF r.token = 0 THEN 0 ELSE 1

Granted(r, w) ==
  [token |-> r.attempts + 1, owner |-> w, left |-> LeaseTicks,
   cursor |-> r.cursor, attempts |-> r.attempts + 1, successes |-> r.successes,
   failures |-> r.failures + Overtaken(r),
   consecutive |-> r.consecutive + Overtaken(r),
   lastFailure |-> IF r.token = 0 THEN r.lastFailure ELSE "contention"]

Succeeded(r, c) ==
  [token |-> 0, owner |-> NoWorker, left |-> 0, cursor |-> c,
   attempts |-> r.attempts, successes |-> r.successes + 1,
   failures |-> r.failures, consecutive |-> 0, lastFailure |-> "none"]

Failed(r, class) ==
  [token |-> 0, owner |-> NoWorker, left |-> 0, cursor |-> r.cursor,
   attempts |-> r.attempts, successes |-> r.successes,
   failures |-> r.failures + 1, consecutive |-> r.consecutive + 1,
   lastFailure |-> class]

Renewed(r) == [r EXCEPT !.left = LeaseTicks]

(* complete: the row is written only under an unexpired lease of one's own; *)
(* the handler's cursor is the successor of the one it was given.           *)
AfterComplete(w, j) ==
  IF Fenced(w, j) /\ LeaseLive(row[j])
  THEN Succeeded(row[j], exec[w][j].snap + 1)
  ELSE row[j]

AfterFailure(w, j) ==
  IF Fenced(w, j) /\ LeaseLive(row[j]) THEN Failed(row[j], "handler") ELSE row[j]

(* release does not look at the expiry. *)
AfterRelease(w, j) ==
  IF Fenced(w, j) THEN Failed(row[j], "contention") ELSE row[j]

SetRow(j, r) == row' = [row EXCEPT ![j] = r]

SetExec(w, j, x) == exec' = [exec EXCEPT ![w][j] = x]

GoTo(w, j, step) == SetExec(w, j, [exec[w][j] EXCEPT !.pc = step])

(* What the catch of runOne does next: release when the process is aborted, *)
(* otherwise record the failure.                                            *)
CatchStep(w) == IF aborted[w] THEN "dropping" ELSE "failing"

-----------------------------------------------------------------------------
(* The process: startInstance, the abort signal, drain, stop, and death. *)

StartInstance(w) ==
  /\ proc[w] = "absent"
  /\ proc' = [proc EXCEPT ![w] = "up"]
  /\ inst' = [inst EXCEPT ![w] = "running"]
  /\ UNCHANGED <<aborted, row, exec>>

(* SIGTERM, a rejected heartbeat, or a broken timer abort the runtime. *)
Abort(w) ==
  /\ proc[w] = "up" /\ ~aborted[w]
  /\ aborted' = [aborted EXCEPT ![w] = TRUE]
  /\ UNCHANGED <<inst, proc, row, exec>>

Drain(w) ==
  /\ proc[w] = "up" /\ aborted[w] /\ inst[w] = "running"
  /\ inst' = [inst EXCEPT ![w] = "draining"]
  /\ UNCHANGED <<proc, aborted, row, exec>>

(* settleActive: every execution this process started has settled. *)
Settled(w) == \A j \in Jobs : exec[w][j].pc = "idle"

Stop(w) ==
  /\ proc[w] = "up" /\ inst[w] = "draining" /\ Settled(w)
  /\ inst' = [inst EXCEPT ![w] = "stopped"]
  /\ proc' = [proc EXCEPT ![w] = "down"]
  /\ UNCHANGED <<aborted, row, exec>>

(* The process dies, or gives up after the shutdown grace period: the row   *)
(* of the instance and the leases stay as they are.                         *)
Crash(w) ==
  /\ proc[w] = "up"
  /\ proc' = [proc EXCEPT ![w] = "down"]
  /\ exec' = [exec EXCEPT ![w] = [j \in Jobs |-> NoExecution]]
  /\ UNCHANGED <<inst, aborted, row>>

-----------------------------------------------------------------------------
(* runOne up to the handler. *)

(* The loop starts an execution of a job that it has not active. *)
MayLaunch(w) == proc[w] = "up" /\ ~aborted[w]

Launch(w, j) ==
  /\ MayLaunch(w)
  /\ exec[w][j].pc = "idle"
  /\ GoTo(w, j, "claiming")
  /\ UNCHANGED <<inst, proc, aborted, row>>

(* claim commits: the instance is running and the lease is free. *)
ClaimGranted(w, j) ==
  /\ exec[w][j].pc = "claiming"
  /\ inst[w] = "running"
  /\ LeaseFree(row[j])
  /\ row[j].attempts < MaxAttempts
  /\ SetRow(j, Granted(row[j], w))
  /\ SetExec(w, j, [pc |-> "claimed", token |-> row[j].attempts + 1,
                    snap |-> row[j].cursor, lost |-> FALSE, renewing |-> FALSE])
  /\ UNCHANGED <<inst, proc, aborted>>

(* claim commits and its reply is lost: runOne has no lease to give back. *)
ClaimReplyLost(w, j) ==
  /\ exec[w][j].pc = "claiming"
  /\ inst[w] = "running"
  /\ LeaseFree(row[j])
  /\ row[j].attempts < MaxAttempts
  /\ SetRow(j, Granted(row[j], w))
  /\ SetExec(w, j, NoExecution)
  /\ UNCHANGED <<inst, proc, aborted>>

(* claim finds no free lease, finds the instance not running, or fails. *)
ClaimNothing(w, j) ==
  /\ exec[w][j].pc = "claiming"
  /\ SetExec(w, j, NoExecution)
  /\ UNCHANGED <<inst, proc, aborted, row>>

Begin(w, j) ==
  /\ exec[w][j].pc = "claimed"
  /\ GoTo(w, j, IF aborted[w] THEN "releasing" ELSE "handling")
  /\ UNCHANGED <<inst, proc, aborted, row>>

-----------------------------------------------------------------------------
(* The handler, and the renewals beside it. *)

HandlerReturns(w, j) ==
  /\ exec[w][j].pc = "handling"
  /\ GoTo(w, j, IF aborted[w] \/ exec[w][j].lost THEN "releasing" ELSE "completing")
  /\ UNCHANGED <<inst, proc, aborted, row>>

(* The handler throws; after a lost lease it may rethrow worker_lease_lost, *)
(* which the catch answers with a release.                                  *)
HandlerThrows(w, j) ==
  /\ exec[w][j].pc = "handling" /\ ~exec[w][j].renewing
  /\ \/ GoTo(w, j, CatchStep(w))
     \/ exec[w][j].lost /\ GoTo(w, j, "dropping")
  /\ UNCHANGED <<inst, proc, aborted, row>>

(* renewLease's timer fires. *)
RenewStarts(w, j) ==
  /\ exec[w][j].pc \in {"handling", "completing"}
  /\ ~aborted[w] /\ ~exec[w][j].lost /\ ~exec[w][j].renewing
  /\ SetExec(w, j, [exec[w][j] EXCEPT !.renewing = TRUE])
  /\ UNCHANGED <<inst, proc, aborted, row>>

Renew(w, j) ==
  /\ exec[w][j].renewing
  /\ Fenced(w, j) /\ LeaseLive(row[j])
  /\ SetRow(j, Renewed(row[j]))
  /\ SetExec(w, j, [exec[w][j] EXCEPT !.renewing = FALSE])
  /\ UNCHANGED <<inst, proc, aborted>>

(* renew returns null, fails, or commits and loses its reply: the lease     *)
(* controller of the execution is aborted.                                  *)
RenewLost(w, j) ==
  /\ exec[w][j].renewing
  /\ \/ UNCHANGED row
     \/ Fenced(w, j) /\ LeaseLive(row[j]) /\ SetRow(j, Renewed(row[j]))
  /\ SetExec(w, j, [exec[w][j] EXCEPT !.renewing = FALSE, !.lost = TRUE])
  /\ UNCHANGED <<inst, proc, aborted>>

-----------------------------------------------------------------------------
(* The end of an execution. *)

(* complete answers, with true or with false. *)
Complete(w, j) ==
  /\ exec[w][j].pc = "completing"
  /\ SetRow(j, AfterComplete(w, j))
  /\ GoTo(w, j, "closing")
  /\ UNCHANGED <<inst, proc, aborted>>

(* complete throws, whether or not it committed. *)
CompleteThrows(w, j) ==
  /\ exec[w][j].pc = "completing" /\ ~exec[w][j].renewing
  /\ \E r \in {row[j], AfterComplete(w, j)} : SetRow(j, r)
  /\ GoTo(w, j, CatchStep(w))
  /\ UNCHANGED <<inst, proc, aborted>>

Release(w, j) ==
  /\ exec[w][j].pc = "releasing"
  /\ SetRow(j, AfterRelease(w, j))
  /\ GoTo(w, j, "closing")
  /\ UNCHANGED <<inst, proc, aborted>>

ReleaseThrows(w, j) ==
  /\ exec[w][j].pc = "releasing" /\ ~exec[w][j].renewing
  /\ \E r \in {row[j], AfterRelease(w, j)} : SetRow(j, r)
  /\ GoTo(w, j, CatchStep(w))
  /\ UNCHANGED <<inst, proc, aborted>>

(* The calls of the catch: their own failure is swallowed. *)
RecordFailure(w, j) ==
  /\ exec[w][j].pc = "failing"
  /\ \E r \in {row[j], AfterFailure(w, j)} : SetRow(j, r)
  /\ SetExec(w, j, NoExecution)
  /\ UNCHANGED <<inst, proc, aborted>>

DropLease(w, j) ==
  /\ exec[w][j].pc = "dropping"
  /\ \E r \in {row[j], AfterRelease(w, j)} : SetRow(j, r)
  /\ SetExec(w, j, NoExecution)
  /\ UNCHANGED <<inst, proc, aborted>>

Close(w, j) ==
  /\ exec[w][j].pc = "closing" /\ ~exec[w][j].renewing
  /\ SetExec(w, j, NoExecution)
  /\ UNCHANGED <<inst, proc, aborted, row>>

-----------------------------------------------------------------------------

(* The database clock moves on. *)
Tick ==
  /\ \E j \in Jobs : row[j].left > 0
  /\ row' = [j \in Jobs |->
               [row[j] EXCEPT !.left = IF row[j].left > 0 THEN row[j].left - 1 ELSE 0]]
  /\ UNCHANGED <<inst, proc, aborted, exec>>

(* The steps that take an execution further. *)
Progress(w, j) ==
  \/ ClaimGranted(w, j) \/ ClaimReplyLost(w, j) \/ ClaimNothing(w, j)
  \/ Begin(w, j) \/ HandlerReturns(w, j) \/ HandlerThrows(w, j)
  \/ Complete(w, j) \/ CompleteThrows(w, j)
  \/ Release(w, j) \/ ReleaseThrows(w, j)
  \/ RecordFailure(w, j) \/ DropLease(w, j) \/ Close(w, j)

RenewalStep(w, j) == Renew(w, j) \/ RenewLost(w, j)

Execute(w, j) ==
  Launch(w, j) \/ Progress(w, j) \/ RenewStarts(w, j) \/ RenewalStep(w, j)

Process(w) ==
  StartInstance(w) \/ Abort(w) \/ Drain(w) \/ Stop(w) \/ Crash(w)

Init ==
  /\ inst = [w \in Workers |-> "none"]
  /\ proc = [w \in Workers |-> "absent"]
  /\ aborted = [w \in Workers |-> FALSE]
  /\ row = [j \in Jobs |-> FreshRow]
  /\ exec = [w \in Workers |-> [j \in Jobs |-> NoExecution]]

Next ==
  \/ Tick
  \/ \E w \in Workers : Process(w)
  \/ \E w \in Workers, j \in Jobs : Execute(w, j)

Spec == Init /\ [][Next]_vars

(* Time passes; a live process keeps scheduling its loop and settles its    *)
(* promises (handlers carry an abort signal and request deadlines); and the *)
(* database does not refuse the same process forever.                       *)
Fairness ==
  /\ WF_vars(Tick)
  /\ \A w \in Workers : WF_vars(Drain(w)) /\ WF_vars(Stop(w))
  /\ \A w \in Workers, j \in Jobs :
       /\ WF_vars(Launch(w, j))
       /\ WF_vars(Progress(w, j))
       /\ WF_vars(RenewalStep(w, j))
       /\ SF_vars(ClaimGranted(w, j))

FairSpec == Spec /\ Fairness

-----------------------------------------------------------------------------
(* Properties. *)

(* The type of the instance rows, processes, job rows and executions. *)
TypeOK ==
  /\ inst \in [Workers -> {"none", "running", "draining", "stopped"}]
  /\ proc \in [Workers -> {"absent", "up", "down"}]
  /\ aborted \in [Workers -> BOOLEAN]
  /\ row \in [Jobs -> Row]
  /\ exec \in [Workers -> [Jobs -> Execution]]

(* Every attempt of a job is settled exactly once, whoever settles it: by   *)
(* its own success or failure, by a release, or by the claim that overtakes *)
(* it, and never twice however many replies are lost or repeated.  The      *)
(* table's CHECK only asks for attempts >= successes + failures.            *)
AttemptsSettledOnce ==
  \A j \in Jobs :
    row[j].attempts = row[j].successes + row[j].failures
                      + (IF row[j].token = 0 THEN 0 ELSE 1)

(* The cursor is the product of an unbroken chain of passes: each success   *)
(* was computed from the cursor the success before it left, so that no      *)
(* handler that outlived its lease ever moved the cursor back or sideways.  *)
CursorChain == \A j \in Jobs : row[j].cursor = row[j].successes

(* The execution that holds a job's lease works from the job's cursor. *)
HolderIsCurrent ==
  \A w \in Workers, j \in Jobs :
    row[j].token # 0 /\ row[j].token = exec[w][j].token =>
      exec[w][j].snap = row[j].cursor

(* Tokens in use were minted by an earlier attempt, each for one execution, *)
(* and the lease columns are set and cleared together.                      *)
TokensMinted ==
  \A j \in Jobs :
    /\ row[j].token <= row[j].attempts
    /\ row[j].token = 0 => row[j].owner = NoWorker
    /\ \A w \in Workers : exec[w][j].token <= row[j].attempts

(* A process that is not up has no execution, a stopped one is not up, and  *)
(* an execution that is over has left nothing behind.                       *)
OnlyTheLivingExecute ==
  \A w \in Workers :
    /\ inst[w] = "stopped" => proc[w] = "down"
    /\ proc[w] # "up" => \A j \in Jobs : exec[w][j] = NoExecution
    /\ \A j \in Jobs : exec[w][j].pc = "idle" => exec[w][j] = NoExecution

(* The inductive invariant: fencing works because a token is never minted   *)
(* twice and its holder has read the cursor that is still in the row.       *)
LeaseInvariant ==
  /\ TypeOK
  /\ AttemptsSettledOnce
  /\ CursorChain
  /\ HolderIsCurrent
  /\ TokensMinted
  /\ OnlyTheLivingExecute

(* An instance recorded as stopped has nothing left running: no handler     *)
(* works, and no statement is in flight, on behalf of a stopped instance.   *)
StoppedIsQuiet ==
  \A w \in Workers, j \in Jobs :
    inst[w] = "stopped" => exec[w][j] = NoExecution

(* An unexpired lease is taken from its holder by nobody: it ends in a step *)
(* of the execution that holds it, or not at all.                           *)
LiveLeaseIsExclusive ==
  [][\A w \in Workers, j \in Jobs :
       Fenced(w, j) /\ LeaseLive(row[j]) =>
         row'[j].token = row[j].token \/ exec'[w][j] # exec[w][j]]_vars

(* The job table is an implementation of the register of AtomicPass. *)
PassView ==
  [j \in Jobs |-> [granted |-> row[j].attempts,
                   open |-> IF row[j].token = 0 THEN 0 ELSE 1,
                   advanced |-> row[j].cursor, wasted |-> row[j].failures]]

Abstract == INSTANCE AtomicPass WITH pass <- PassView

ImplementsAtomicPass == Abstract!Spec

(* The lease of a dead process does not block its job: as long as some      *)
(* process keeps running, the job is taken over.  (Or the bound is met.)    *)
SomeoneRuns == \E w \in Workers : proc[w] = "up" /\ ~aborted[w]

HeldByDead(j) == \E w \in Workers : row[j].owner = w /\ proc[w] = "down"

DeadOwnerIsReplaced ==
  \A j \in Jobs :
    HeldByDead(j) ~> (~HeldByDead(j) \/ ~SomeoneRuns \/ row[j].attempts = MaxAttempts)

=============================================================================
