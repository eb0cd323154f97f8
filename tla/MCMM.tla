-------------------------------- MODULE MCMM --------------------------------
(***************************************************************************)
(* MM for TLC: the instance.                                               *)
(***************************************************************************)
EXTENDS MM

(* Blocks of 4, 6 and 8 words: a first chunk of 6 words splits or not, the *)
(* last size needs more than a chunk; a realloc beside two blocks finds the *)
(* heap full.                                                              *)
MCSizes == {8, 9, 24}
MC_CHUNK == 6
MC_MAX_HEAP == 20
=============================================================================
