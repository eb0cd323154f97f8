------------------------------ MODULE MCDriver ------------------------------
EXTENDS Driver, TLC
MCSizes == {8, 20}
MCFiles == {"mm_v1", "mm_v3", "mm_v4", "mm_backup", "any"}
(* Not a block, one that is not aligned, two that touch or enclose one    *)
(* another, and one that reaches over the end.                             *)
MCPointers == {0, 5, 6, 8, 42}
MCSymmetry == Permutations(Id)
MC_MAX_OPS == <<4, 2>>
MC_CHUNK == 20
MC_MAX_HEAP == 44
=============================================================================
