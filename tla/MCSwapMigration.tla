--------------------------- MODULE MCSwapMigration ---------------------------
(***************************************************************************)
(* Instances of SwapMigration for TLC.                                     *)
(***************************************************************************)
EXTENDS SwapMigration

\* Everything may fail, or only what happens before a domain is touched.
AnyFault == {AllFaults, Early}

=============================================================================
