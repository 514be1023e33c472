----------------------------- MODULE PilotAudit -----------------------------
(***************************************************************************)
(* The shadow audit of a merchant (packages/pilot/src:                     *)
(* orchestration/run-shadow-audit.ts, storage/postgres-pilot-store.ts,     *)
(* report/).                                                               *)
(*                                                                         *)
(* A run is a list of stages in a fixed order.  A command claims the first *)
(* stage that has not succeeded under a lease, does its work, and marks    *)
(* it; the last stage reads the evidence, writes files, and records the    *)
(* digest of each.  A command may fail or die anywhere and another may     *)
(* take up the run, at once after a failure and else when the lease has    *)
(* run out.  The first command may then still be at work.                  *)
(*                                                                         *)
(* What a stage before the last does is the work of other modules: here it *)
(* changes the evidence or not.  The evidence is a number that grows; it   *)
(* changes at any time, for other processes share the database.  The two   *)
(* files of an audience are one.                                           *)
(***************************************************************************)
EXTENDS Naturals, FiniteSets

CONSTANTS
  Commands,     \* processes that run the audit
  StageCount,   \* 6 in the code; the last stage is the report
  ReportCount,  \* private and redacted
  Clean,        \* the states of the evidence that give no warning
  Lease,        \* 15 min in the code
  MaxTime, MaxEvidence, MaxClaims,  \* bounds of the counters
  Unset

ASSUME PilotAssumption ==
  /\ StageCount \in Nat \ {0} /\ ReportCount \in Nat \ {0}
  /\ Lease \in Nat \ {0} /\ MaxTime \in Nat
  /\ MaxEvidence \in Nat \ {0} /\ MaxClaims \in Nat
  /\ Clean \subseteq Nat /\ Unset \notin Nat

VARIABLES
  now,
  evidence,     \* what the database says of coverage and reconciliation
  runState,     \* pilot_runs.state
  stage,        \* pilot_run_stages
  reports,      \* pilot_reports: the content each digest stands for
  files,        \* the files in the output directories
  command,      \* what each process holds
  claims        \* lease tokens given out

pilot == <<now, evidence, runState, stage, reports, files, command, claims>>

Stages == 1..StageCount
Reports == 1..ReportCount
Read == (1..MaxEvidence) \cup {Unset}
Content == [coverage : Read, summary : Read, rows : Read]

ASSUME UnsetAssumption == Unset \notin Content

Unread == [coverage |-> Unset, summary |-> Unset, rows |-> Unset]
Stage == [state : {"pending", "in_flight", "succeeded", "failed"},
          token : 0..MaxClaims, expires : 0..(MaxTime + Lease),
          result : Content \cup {Unset}]
Idle == [pc |-> "idle", stage |-> 0, token |-> 0, content |-> Unread,
         written |-> 0, recorded |-> 0]
Command == [pc : {"idle", "claiming", "working", "worked", "finishing"},
            stage : Stages \cup {0}, token : 0..MaxClaims, content : Content,
            written : Reports \cup {0}, recorded : Reports \cup {0}]

PilotTypeOK ==
  /\ now \in 0..MaxTime /\ evidence \in 1..MaxEvidence /\ claims \in 0..MaxClaims
  /\ runState \in {"none", "running", "complete", "incomplete"}
  /\ stage \in [Stages -> Stage]
  /\ reports \in [Reports -> Content \cup {Unset}]
  /\ files \in [Reports -> Content \cup {Unset}]
  /\ command \in [Commands -> Command]

PilotInit ==
  /\ now = 0 /\ evidence = 1 /\ claims = 0 /\ runState = "none"
  /\ stage = [s \in Stages |-> [state |-> "pending", token |-> 0, expires |-> 0,
                                result |-> Unset]]
  /\ reports = [p \in Reports |-> Unset]
  /\ files = [p \in Reports |-> Unset]
  /\ command = [c \in Commands |-> Idle]

-----------------------------------------------------------------------------
(* The store *)

Succeeded(s) == stage[s].state = "succeeded"
AllSucceeded == \A s \in Stages : Succeeded(s)
First == CHOOSE s \in Stages : ~Succeeded(s) /\ \A q \in 1..(s - 1) : Succeeded(q)
LiveLease(s) == stage[s].state = "in_flight" /\ stage[s].expires > now
Holds(c) == /\ stage[command[c].stage].state = "in_flight"
            /\ stage[command[c].stage].token = command[c].token

(* getOrCreateRun and the first getRun.  A finished run is only reported. *)
Begin(c) ==
  /\ command[c].pc = "idle" /\ runState \in {"none", "running"}
  /\ runState' = "running"
  /\ command' = [command EXCEPT ![c].pc = "claiming"]
  /\ UNCHANGED <<now, evidence, stage, reports, files, claims>>

(* claimStage, under locks on the run and its stages *)
ClaimStage(c) ==
  /\ command[c].pc = "claiming" /\ claims < MaxClaims
  /\ runState = "running" /\ ~AllSucceeded /\ ~LiveLease(First)
  /\ claims' = claims + 1
  /\ stage' = [stage EXCEPT ![First] = [@ EXCEPT !.state = "in_flight",
                 !.token = claims + 1, !.expires = now + Lease]]
  /\ command' = [command EXCEPT ![c] = [Idle EXCEPT !.pc = "working",
                   !.stage = First, !.token = claims + 1]]
  /\ UNCHANGED <<now, evidence, runState, reports, files>>

(* Nothing to claim: another command is at work, or all stages are done. *)
NoClaim(c) ==
  /\ command[c].pc = "claiming"
  /\ runState # "running" \/ (~AllSucceeded => LiveLease(First))
  /\ command' = [command EXCEPT ![c] = IF AllSucceeded THEN [Idle EXCEPT !.pc = "finishing"]
                                                       ELSE Idle]
  /\ UNCHANGED <<now, evidence, runState, stage, reports, files, claims>>

(* completeStage when the lease is still this command's, and what follows *)
(* when it is not: the stage fails for this command only.                 *)
Mark(c, how, result) ==
  IF Holds(c) THEN stage' = [stage EXCEPT ![command[c].stage] =
                     [state |-> how, token |-> 0, expires |-> 0, result |-> result]]
              ELSE UNCHANGED stage

(* finishRun, after reading the warnings of the report stage *)
Warnings(content) == {content.coverage, content.summary} \ Clean # {}

Finish(c) ==
  /\ command[c].pc = "finishing"
  /\ IF runState = "running" /\ AllSucceeded
     THEN runState' = IF Warnings(stage[StageCount].result) THEN "incomplete" ELSE "complete"
     ELSE UNCHANGED runState
  /\ command' = [command EXCEPT ![c] = Idle]
  /\ UNCHANGED <<now, evidence, stage, reports, files, claims>>

-----------------------------------------------------------------------------
(* runStage *)

AtWork(c) == command[c].pc = "working"
AtReport(c) == AtWork(c) /\ command[c].stage = StageCount
Content1(c) == command[c].content
AllRead(c) == Content1(c).coverage # Unset /\ Content1(c).summary # Unset /\ Content1(c).rows # Unset

(* configure, import_invoices, sync, finality and reconcile *)
Work(c) ==
  /\ AtWork(c) /\ command[c].stage < StageCount
  /\ command' = [command EXCEPT ![c].pc = "worked"]
  /\ evidence' \in {evidence} \cup (IF evidence < MaxEvidence THEN {evidence + 1} ELSE {})
  /\ UNCHANGED <<now, runState, stage, reports, files, claims>>

(* report: coverage and summary in either order, then the rows *)
ReadEvidence(c) ==
  /\ AtReport(c)
  /\ \E part \in {"coverage", "summary", "rows"} :
       /\ Content1(c)[part] = Unset
       /\ part = "rows" => Content1(c).coverage # Unset /\ Content1(c).summary # Unset
       /\ command' = [command EXCEPT ![c].content[part] = evidence]
  /\ UNCHANGED <<now, evidence, runState, stage, reports, files, claims>>

(* buildAuditArtifacts: each file replaces the one before it in one rename *)
WriteFile(c) ==
  /\ AtReport(c) /\ AllRead(c) /\ command[c].written < ReportCount
  /\ LET p == command[c].written + 1
     IN  /\ files' = [files EXCEPT ![p] = Content1(c)]
         /\ command' = [command EXCEPT ![c].written = p]
  /\ UNCHANGED <<now, evidence, runState, stage, reports, claims>>

(* Mutant: recordReport does not compare what is already recorded. *)
SameReport_Any(p, content) == TRUE

SameReport(p, content) == reports[p] \in {Unset, content}

(* recordReport, which writes a row once and never changes it *)
RecordReport(c) ==
  /\ AtReport(c) /\ command[c].written = ReportCount /\ command[c].recorded < ReportCount
  /\ LET p == command[c].recorded + 1
     IN  /\ SameReport(p, Content1(c))
         /\ reports' = [reports EXCEPT ![p] = IF @ = Unset THEN Content1(c) ELSE @]
         /\ command' = [command EXCEPT ![c].recorded = p]
  /\ UNCHANGED <<now, evidence, runState, stage, files, claims>>

StageDone(c) == command[c].pc = "worked" \/ (AtReport(c) /\ command[c].recorded = ReportCount)

CompleteStage(c) ==
  /\ StageDone(c)
  /\ Mark(c, "succeeded", IF AtReport(c) THEN Content1(c) ELSE Unset)
  /\ command' = [command EXCEPT ![c] = IF Holds(c) THEN [Idle EXCEPT !.pc = "claiming"] ELSE Idle]
  /\ UNCHANGED <<now, evidence, runState, reports, files, claims>>

(* An error at any point of a stage: failStage, and the command ends. *)
FailStage(c) ==
  /\ command[c].pc \in {"working", "worked"}
  /\ Mark(c, "failed", Unset)
  /\ command' = [command EXCEPT ![c] = Idle]
  /\ UNCHANGED <<now, evidence, runState, reports, files, claims>>

Die(c) ==
  /\ command[c].pc # "idle"
  /\ command' = [command EXCEPT ![c] = Idle]
  /\ UNCHANGED <<now, evidence, runState, stage, reports, files, claims>>

Tick ==
  /\ now < MaxTime /\ now' = now + 1
  /\ UNCHANGED <<evidence, runState, stage, reports, files, command, claims>>

(* Other processes that share the database *)
EvidenceMoves ==
  /\ evidence < MaxEvidence /\ evidence' = evidence + 1
  /\ UNCHANGED <<now, runState, stage, reports, files, command, claims>>

PilotNext ==
  \/ \E c \in Commands :
       \/ Begin(c) \/ ClaimStage(c) \/ NoClaim(c) \/ Work(c) \/ ReadEvidence(c) \/ WriteFile(c)
       \/ RecordReport(c) \/ CompleteStage(c) \/ FailStage(c) \/ Finish(c) \/ Die(c)
  \/ Tick \/ EvidenceMoves

PilotSpec == PilotInit /\ [][PilotNext]_pilot

-----------------------------------------------------------------------------
(* Properties *)

(* The reports recorded for a run are of one content, although several      *)
(* commands, each with what it read, may write and record between failures. *)
ReportsAreOneSet ==
  \A p, q \in Reports : reports[p] # Unset /\ reports[q] # Unset => reports[p] = reports[q]

(* A finished run has done every stage and recorded every report, and its   *)
(* verdict is the one of the content it recorded.                           *)
FinishedIsWhole ==
  runState \in {"complete", "incomplete"} =>
    /\ AllSucceeded
    /\ \A p \in Reports : /\ reports[p] = stage[StageCount].result
                          /\ Warnings(reports[p]) <=> runState = "incomplete"
=============================================================================
