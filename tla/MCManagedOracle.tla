--------------------------- MODULE MCManagedOracle ---------------------------
(***************************************************************************)
(* Instances of ManagedOracle for TLC.                                     *)
(***************************************************************************)
EXTENDS ManagedOracle

\* Action constraint.  A process that has stored nothing does not crash: the next
\* one would start as it did.
CrashWhenStored == crashes' # crashes => stored # 0
=============================================================================
