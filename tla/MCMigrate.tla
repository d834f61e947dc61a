----------------------------- MODULE MCMigrate -----------------------------
(* A small instance of Migrate. *)
EXTENDS Migrate

\* A behaviour has failures and the passing of time, or runs of the tool.
ToolOrTime == tool # NotStarted => now = 0 /\ faults = 0
=============================================================================
