--------------------------- MODULE DatabaseRoles ---------------------------
(***************************************************************************)
(* Who owns and who may write the tables that decide about production: the *)
(* role bootstrap of an administrator, the migrations of the platform, and *)
(* the finalizer, a function that the first installs and the second calls  *)
(* at the end of each migration from 4012 on.                              *)
(*                                                                         *)
(* The bootstrap is one transaction, but each of its statements sees what  *)
(* is committed by then, and it holds another lock than the migrations.    *)
(* An object stands for the tables and functions of one migration that     *)
(* share an owner, "rights" for what the runtime's role may do with them.  *)
(* The ledger holds a prefix of the migrations, so it is their number.     *)
(***************************************************************************)
EXTENDS Naturals, Sequences, FiniteSets

CONSTANTS
  Principals,     \* login roles
  Capabilities,   \* group roles, each for one principal
  MaxBoots        \* bound: runs of the bootstrap

ASSUME RolesAssumption ==
  /\ "migrator" \in Capabilities
  /\ MaxBoots \in Nat
  /\ {"absent", "authority"} \cap Principals = {}

VARIABLES
  ledger,     \* how many migrations payops_schema_migrations holds
  owner,      \* of each object
  rights,     \* of the runtime's role on each object
  members,    \* of each capability
  finalizer,  \* whether the finalizer and the marker are installed
  boot,       \* the bootstrap that runs, and what its statements have read
  boots       \* bound

roles == <<ledger, owner, rights, members, finalizer, boot, boots>>

-----------------------------------------------------------------------------
(* "4010" stands for all migrations before 4011.                            *)
Migrations == <<"4010", "4011", "4012", "4013", "4014", "4015", "4016">>
Position(m) == CHOOSE i \in 1..Len(Migrations) : Migrations[i] = m
Applied(n, m) == Position(m) <= n

CreatedBy ==
  [tables |-> "4010", audit |-> "4010", controls |-> "4011",
   attestations |-> "4012", health |-> "4015", buckets |-> "4016"]
Objects == DOMAIN CreatedBy
Created(m) == {o \in Objects : CreatedBy[o] = m}

(* What a migration alters, which takes their owner. *)
Alters(m) ==
  CASE m \in {"4011", "4014", "4015"} -> {"tables"}
    [] m = "4012" -> {"tables", "controls"}
    [] OTHER -> {}

CallsFinalizer(m) == Applied(Position(m), "4012")

Absent == "absent"
Authority == "authority"
Everything == {"select", "insert", "update", "delete"}

NoBoot == [stage |-> "none"]
RolesInit ==
  /\ ledger = 0
  /\ owner = [o \in Objects |-> Absent]
  /\ rights = [o \in Objects |-> {}]
  /\ members = [c \in Capabilities |-> {}]
  /\ finalizer = FALSE
  /\ boot = NoBoot
  /\ boots = 0

-----------------------------------------------------------------------------
(* The finalizer, in the transaction of the migration that calls it.        *)
(*                                                                          *)
(* Mutant: the tables of the incidents are left to the migrator.            *)
TakenOver_Controls(o) == o \in {"audit", "controls", "attestations", "buckets"}
TakenOver(o) == o \in Objects \ {"tables"}

(* What it leaves to the runtime, which is granted everything first.        *)
Left(o) ==
  CASE o = "tables" -> Everything
    [] o = "audit" -> {"select", "insert"}
    [] o \in {"controls", "health"} -> {"select"}
    [] o = "buckets" -> {"select", "insert", "update"}
    [] OTHER -> {}

Finalize(own) ==
  /\ owner' = [o \in Objects |->
       IF own[o] # Absent /\ TakenOver(o) THEN Authority ELSE own[o]]
  /\ rights' = [o \in Objects |-> IF own[o] # Absent THEN Left(o) ELSE rights[o]]

(* One migration and its row in the ledger are one transaction; a run that  *)
(* dies leaves a prefix, and the next goes on behind it.  Once there is a   *)
(* finalizer only the migrator may create tables or call it.                *)
MayMigrate(p, m) ==
  /\ \A o \in Alters(m) : owner[o] = p
  /\ CallsFinalizer(m) => finalizer
  /\ finalizer => p \in members["migrator"]

Migrate(p) ==
  /\ ledger < Len(Migrations)
  /\ LET m == Migrations[ledger + 1]
         own == [o \in Objects |-> IF o \in Created(m) THEN p ELSE owner[o]]
     IN  /\ MayMigrate(p, m)
         /\ IF CallsFinalizer(m) THEN Finalize(own) ELSE owner' = own /\ UNCHANGED rights
  /\ ledger' = ledger + 1
  /\ UNCHANGED <<members, finalizer, boot, boots>>

-----------------------------------------------------------------------------
(* The bootstrap for one principal of each capability, all different.       *)
Assignments == {a \in [Capabilities -> Principals] :
  \A c, d \in Capabilities : c # d => a[c] # a[d]}

(* assertSafeRoleGraph: the principals are members of nothing else.         *)
SafeGraph(a) == \A c, d \in Capabilities : a[c] \in members[d] => c = d

StartBoot(a) ==
  /\ boot = NoBoot /\ boots < MaxBoots
  /\ boots' = boots + 1
  /\ boot' = IF SafeGraph(a) THEN [stage |-> "tables", for |-> a] ELSE NoBoot
  /\ UNCHANGED <<ledger, owner, rights, members, finalizer>>

(* assertProtectedObjectState: the tables, the ledger and the functions are *)
(* read one after the other.  The guards of the audit are functions only    *)
(* the finalizer creates, and are asked for with 4013.                      *)
Tables(own) == {<<o, own[o]>> : o \in {q \in Objects \ {"tables"} : own[q] # Absent}}

ExpectedOwners(n) ==
  IF ~Applied(n, "4012") THEN {}
  ELSE {o \in Objects \ {"tables", "audit"} : Applied(n, CreatedBy[o])}
       \cup (IF Applied(n, "4013") THEN {"audit"} ELSE {})

(* Whether tables, ledger and functions that were read fit each other. *)
Accepted(tables, n, functions) ==
  IF ~Applied(n, "4012")
  THEN \A t \in tables : t[1] # "attestations"
  ELSE \A o \in ExpectedOwners(n) :
         <<o, Authority>> \in tables /\ (o # "buckets" => <<o, Authority>> \in functions)

ReadTables ==
  /\ boot.stage = "tables"
  /\ boot' = [stage |-> "ledger", for |-> boot.for, tables |-> Tables(owner)]
  /\ UNCHANGED <<ledger, owner, rights, members, finalizer, boots>>

ReadLedger ==
  /\ boot.stage = "ledger"
  /\ boot' = [stage |-> "functions", for |-> boot.for, tables |-> boot.tables, n |-> ledger]
  /\ UNCHANGED <<ledger, owner, rights, members, finalizer, boots>>

(* Functions are read last; then the finalizer and the marker are replaced  *)
(* and every capability is taken from its members and given to the new one. *)
FinishBoot ==
  /\ boot.stage = "functions"
  /\ IF Accepted(boot.tables, boot.n, Tables(owner))
     THEN /\ finalizer' = TRUE
          /\ members' = [c \in Capabilities |-> {boot.for[c]}]
     ELSE UNCHANGED <<finalizer, members>>
  /\ boot' = NoBoot
  /\ UNCHANGED <<ledger, owner, rights, boots>>

BootFails ==
  /\ boot # NoBoot
  /\ boot' = NoBoot
  /\ UNCHANGED <<ledger, owner, rights, members, finalizer, boots>>

RolesNext ==
  \/ \E p \in Principals : Migrate(p)
  \/ \E a \in Assignments : StartBoot(a)
  \/ ReadTables \/ ReadLedger \/ FinishBoot \/ BootFails

RolesSpec == RolesInit /\ [][RolesNext]_roles

-----------------------------------------------------------------------------
(* Safety: from migration 4012 on, whatever principals the bootstrap was    *)
(* run for and wherever a run of the migrations ended, the tables that      *)
(* decide about production belong to the authority, to which nobody can log *)
(* in, and the runtime may rewrite none of them.                            *)
ProtectedAtRest ==
  \A o \in Objects \ {"tables"} : Applied(ledger, "4012") /\ owner[o] # Absent =>
    owner[o] = Authority /\ "delete" \notin rights[o]

(* Safety: no end of a run of the migrations is one from which the          *)
(* bootstrap, as the upgrade checklist begins with it, refuses to go on.    *)
BootstrapRepeats == Accepted(Tables(owner), ledger, Tables(owner))

=============================================================================
