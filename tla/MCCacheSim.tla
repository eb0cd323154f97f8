----------------------------- MODULE MCCacheSim -----------------------------
(***************************************************************************)
(* CacheSim for TLC: an instance with s = 2, E = 3, b = 1.                 *)
(***************************************************************************)
EXTENDS CacheSim

(* Set 0 has four tags for its three lines, 0 among them, and two          *)
(* addresses in one block; set 1 has one tag; set 2 is not in the array of *)
(* block_size = 2 sets.                                                    *)
MCAddress == {0, 1, 8, 16, 24} \cup {2} \cup {4}
=============================================================================
