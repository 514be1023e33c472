---------------------------- MODULE MCOperations ----------------------------
(***************************************************************************)
(* TLC instance of what an organization's operation rests on: its owners   *)
(* (Accounts), the rights to the tables (DatabaseRoles), the jobs that     *)
(* ingest for it (BackfillSync, IngestionSweep), incidents and going live  *)
(* (ProductionControl).  They share no state but what a guard of the last  *)
(* takes from the environment, so each is checked by itself: "part" tells  *)
(* which one runs in a behaviour.                                          *)
(***************************************************************************)
EXTENDS ProductionControl, DatabaseRoles, Accounts, BackfillSync, IngestionSweep, TLC

VARIABLE part

mcVars == <<vars, roles, accounts, backfill, sweep, part>>

(* One consensus check, and one scheduled condition. *)
Scope == [f \in Facts |-> IF f = "check" THEN "check" ELSE "delivery"]
Kind == [f \in Facts |->
  IF f = "check" THEN "rpc_disagreement" ELSE "webhook_dead_letter"]
Role == [a \in Actors |-> IF a = "viewer" THEN "viewer" ELSE "operator"]

(* The first signature lies before the cutover. *)
MCSlotOf == <<0, 2, 3>>
MCOwnerOf == <<1, 1, 1, 2, 3>>

MCInit ==
  /\ Init /\ RolesInit /\ AccountsInit /\ BackfillInit /\ SweepInit
  /\ part \in {"control", "roles", "accounts", "sync", "sweep"}
  /\ part # "sweep" => active = {}
  /\ part # "control" => met = {}

MCNext ==
  /\ part' = part
  /\ \/ part = "control" /\ Next /\ UNCHANGED <<roles, accounts, backfill, sweep>>
     \/ part = "roles" /\ RolesNext /\ UNCHANGED <<vars, accounts, backfill, sweep>>
     \/ part = "accounts" /\ AccountsNext /\ UNCHANGED <<vars, roles, backfill, sweep>>
     \/ part = "sync" /\ BackfillNext /\ UNCHANGED <<vars, roles, accounts, sweep>>
     \/ part = "sweep" /\ SweepNext /\ UNCHANGED <<vars, roles, accounts, backfill>>

MCSpec == MCInit /\ [][MCNext]_mcVars

Symmetry == Permutations(Syncs)
=============================================================================
