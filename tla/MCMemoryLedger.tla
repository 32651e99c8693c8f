--------------------------- MODULE MCMemoryLedger ---------------------------
(***************************************************************************)
(* Small instances of MemoryLedger for TLC.                                *)
(***************************************************************************)
EXTENDS MemoryLedger, TLC

Symmetry == Permutations(Records) \cup Permutations(Callers)
=============================================================================
