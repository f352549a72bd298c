--------------------------- MODULE MCExecutionModes ---------------------------
(***************************************************************************)
(* The engine in both modes over one state file and one journal, which     *)
(* have the same names in either: any step may be one of a live engine or  *)
(* one of an engine on paper.  The mode changes with a restart only, so    *)
(* this allows more than the bot can do, and every behaviour of either.    *)
(***************************************************************************)
EXTENDS MCExecutionEngine

Live == INSTANCE ExecutionEngine WITH Mode <- "Live"

NextInEitherMode == Next \/ Live!Next

EitherMode == Init /\ [][NextInEitherMode]_vars
=============================================================================
