------------------------------ MODULE MCMigrate ------------------------------
(***************************************************************************)
(* Instances of Migrate: which external calls may fail in which run.       *)
(***************************************************************************)
EXTENDS Migrate

CONSTANTS p1, p2

MCProcs == {p1, p2}

\* Everything may fail, or only what the guards promise to recover from.
AnyFault == {AllFaults, Recoverable}

=============================================================================
