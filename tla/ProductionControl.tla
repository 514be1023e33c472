-------------------------- MODULE ProductionControl --------------------------
(***************************************************************************)
(* The promotion of an organization from shadow to live                    *)
(* (platform/src/operations/production-control.ts, migrations 4011, 4013   *)
(* and 4015), on top of its operational health.                            *)
(*                                                                         *)
(* A request runs three transactions: it evaluates the prerequisites, one  *)
(* statement after the other, has the verifier attest them, and asks for   *)
(* the promotion.  The first and the third wait, without a timeout, for    *)
(* the advisory lock of operational health and hold it until they commit;  *)
(* the third judges the attestation by the time at which it began, before  *)
(* it waited.  The server may die at any point.                            *)
(***************************************************************************)
EXTENDS OperationalHealth

CONSTANTS
  Requests,       \* the requests to promote that servers handle at a time
  Statements,     \* the prerequisites that are read, in their order: watch
                  \* coverage, fresh worker heartbeat, two RPC roles (3)
  AttestWithin,   \* time from the evaluation to the attestation (2 s)
  Validity        \* time for which an attestation is good (60 s)

ASSUME ControlAssumption ==
  Statements \in Nat /\ AttestWithin \in Nat /\ Validity \in Nat

VARIABLES
  mode,      \* organization_production_controls.activation_mode
  version,   \*   and its version
  met,       \* the prerequisites that the organization meets
  request,   \* the requests in progress
  audit,     \* audit_events: outcomes of production_control.promote
  found      \* history: what was met within a request's evaluation, so far complete

controlVars == <<mode, version, met, request, audit, found>>
vars == <<healthVars, controlVars>>

Prerequisites == 1..Statements
Mode == {"shadow", "live"}

(* A request: the version it is for, how many statements it has run, what   *)
(* they and the health check said together; when its evaluation was over,   *)
(* and when the transaction that promotes began.                            *)
NoRequest ==
  [at |-> "idle", expected |-> 0, read |-> 0, complete |-> FALSE,
   evaluated |-> 0, asked |-> 0]

(* An evaluation has operational-health-authority.  A promotion has it only *)
(* within its own step.                                                     *)
HealthLocked == \E r \in Requests : request[r].at = "reading"

(* payops_operational_health_clear_for_promotion, also the trigger's check  *)
(* payops_guard_operational_health_promotion and inlined in the workflow.   *)

Clear ==
  /\ \A i \in 1..Len(incidents) :
       incidents[i].severity = "critical" => ~Active(incidents[i])
  /\ \A i \in Pending :
       ~(signals[i].severity = "critical" /\ signals[i].action = "observe")

Witness ==
  found' = [r \in Requests |->
    IF ~request'[r].complete THEN {}
    ELSE IF request'[r].at = "reading" THEN found[r] \cup met' ELSE found[r]]

ControlInit ==
  /\ mode = "shadow"
  /\ version = 1
  /\ met \in SUBSET Prerequisites
  /\ request = [r \in Requests |-> NoRequest]
  /\ audit = {}
  /\ found = [r \in Requests |-> {}]

-----------------------------------------------------------------------------
(* The first transaction begins; a wrong version is refused, and for an     *)
(* organization that is live the workflow is asked without an attestation.  *)
Begin(r) ==
  /\ request[r].at = "idle"
  /\ request' = [request EXCEPT ![r] =
       IF mode = "live" THEN [NoRequest EXCEPT !.at = "asking"]
       ELSE [NoRequest EXCEPT !.at = "waiting", !.expected = version]]
  /\ UNCHANGED <<mode, version, met, audit>>

(* acquireOperationalHealthAuthorityLock: it has the lock, and looks. *)
TakeLock(r) ==
  /\ request[r].at = "waiting"
  /\ ~HealthLocked
  /\ request' =
       [request EXCEPT ![r].at = "reading", ![r].complete = Clear]
  /\ UNCHANGED <<mode, version, met, audit>>

(* persistedProductionPromotionEvaluator: the next of its statements; the   *)
(* transaction is READ COMMITTED, so each sees a moment of its own.         *)
ReadNext(r) ==
  /\ request[r].at = "reading"
  /\ request[r].read < Statements
  /\ LET p == request[r].read + 1
     IN  request' = [request EXCEPT
           ![r].read = p, ![r].complete = @ /\ p \in met]
  /\ UNCHANGED <<mode, version, met, audit>>

(* It takes clock_timestamp() and commits. *)
Evaluated(r) ==
  /\ request[r].at = "reading"
  /\ request[r].read = Statements
  /\ request' = [request EXCEPT ![r].at = "evaluated", ![r].evaluated = clock]
  /\ UNCHANGED <<mode, version, met, audit>>

(* payops_attest_production_readiness *)
Attest(r) ==
  /\ request[r].at = "evaluated"
  /\ clock - request[r].evaluated <= AttestWithin
  /\ mode = "shadow" /\ version = request[r].expected
  /\ request' = [request EXCEPT ![r].at = "attested"]
  /\ UNCHANGED <<mode, version, met, audit>>

(* It raises: the window or the version is wrong. *)
AttestFails(r) ==
  /\ request[r].at = "evaluated"
  /\ \/ clock - request[r].evaluated > AttestWithin
     \/ mode # "shadow" \/ version # request[r].expected
  /\ request' = [request EXCEPT ![r] = NoRequest]
  /\ UNCHANGED <<mode, version, met, audit>>

(* The third transaction begins, and waits for the lock. *)
Ask(r) ==
  /\ request[r].at = "attested"
  /\ request' = [request EXCEPT ![r].at = "asking", ![r].asked = clock]
  /\ UNCHANGED <<mode, version, met, audit>>

(* Mutant: an attestation does not expire. *)
Attested_ForEver(r) ==
  /\ version = request[r].expected
  /\ request[r].complete

(* An attestation of this version, good at transaction_timestamp(), says    *)
(* that all is met; it may expire while the transaction waits.              *)
Attested(r) ==
  /\ version = request[r].expected
  /\ request[r].evaluated <= request[r].asked
  /\ request[r].asked <= request[r].evaluated + Validity
  /\ request[r].complete

(* payops_guard_production_control: a control goes from shadow to live once, *)
(* and only while payops_guard_operational_health_promotion lets it.         *)
GoLive ==
  /\ mode = "shadow" /\ version = 1 /\ Clear
  /\ mode' = "live"
  /\ version' = 2

(* payops_request_production_promotion has the lock; the idempotency record *)
(* is written with it.                                                      *)
Promote(r) ==
  /\ request[r].at = "asking"
  /\ ~HealthLocked
  /\ request' = [request EXCEPT ![r] = NoRequest]
  /\ IF mode = "shadow" /\ version = request[r].expected
     THEN IF Attested(r) /\ Clear
          THEN /\ GoLive
               /\ audit' = audit \cup {"promoted_live"}
          ELSE /\ audit' = audit \cup {"prerequisites_incomplete"}
               /\ UNCHANGED <<mode, version>>
     ELSE UNCHANGED <<mode, version, audit>>
  /\ UNCHANGED met

(* The server dies. *)
Abandon(r) ==
  /\ request[r].at # "idle"
  /\ request' = [request EXCEPT ![r] = NoRequest]
  /\ UNCHANGED <<mode, version, met, audit>>

(* Watch targets, heartbeats and RPC roles come and go. *)
Environment ==
  /\ \E p \in Prerequisites :
       met' = IF p \in met THEN met \ {p} ELSE met \cup {p}
  /\ UNCHANGED <<mode, version, request, audit>>

ControlNext ==
  \/ \E r \in Requests : Begin(r) \/ TakeLock(r) \/ ReadNext(r) \/ Evaluated(r)
                         \/ Attest(r) \/ AttestFails(r) \/ Ask(r)
                         \/ Promote(r) \/ Abandon(r)
  \/ Environment

Init == HealthInit /\ ControlInit

(* What needs the lock waits for the evaluation that has it. *)
HealthMoves ==
  /\ WithoutHealthLock \/ (WithHealthLock /\ ~HealthLocked)
  /\ UNCHANGED <<mode, version, met, request, audit>>

Next ==
  \/ HealthMoves /\ Witness
  \/ ControlNext /\ UNCHANGED healthVars /\ Witness

Spec == Init /\ [][Next]_vars

-----------------------------------------------------------------------------
(* Properties. *)

(* Type invariant. *)
ControlTypeOK ==
  /\ mode \in Mode /\ version \in {1, 2}
  /\ met \subseteq Prerequisites
  /\ DOMAIN request = Requests
  /\ audit \subseteq {"promoted_live", "prerequisites_incomplete"}

(* An organization goes live while every critical fact recorded so far is   *)
(* answered, and on what its request found: each prerequisite was met at a  *)
(* moment of the evaluation, and the promotion was asked for within         *)
(* Validity of its end; not: all at one moment, or still within Validity    *)
(* when the promotion has its lock (promotion attestations, the             *)
(* operational-health-authority lock).                                      *)
PromotedWhenReady ==
  [][mode # mode' =>
       /\ \A f \in CriticalFacts \cap happened :
            \E i \in 1..Len(incidents) :
              /\ incidents[i].scope = ScopeOf[f]
              /\ incidents[i].state = "resolved"
              /\ incidents[i].code = "operator_resolved"
       /\ \E r \in Requests :
            /\ request[r] # request'[r]
            /\ found[r] = Prerequisites
            /\ request[r].asked <= request[r].evaluated + Validity]_vars

=============================================================================
