----------------------------- MODULE Allocator ------------------------------
(***************************************************************************)
(* What malloc, free and realloc promise, without a heap: each block the   *)
(* client holds is a region of memory that overlaps no other, and the      *)
(* words the client stored in it stay there until it stores others or      *)
(* frees the block.  A call that fails changes nothing.                    *)
(***************************************************************************)
EXTENDS Naturals

CONSTANTS
    Id,      \* the blocks the client can hold at once
    Nothing  \* live[id] when the client does not hold id

VARIABLE live  \* per id: where the block is, and the words the client sees

Region(r) == {r.at + i - 1 : i \in DOMAIN r.words}
Disjoint(r, s) == r.at # s.at /\ Region(r) \cap Region(s) = {}

Init == live = [id \in Id |-> Nothing]

(* id gets a block, and no other block notices.                            *)
Places(id) ==
    /\ live' = [live EXCEPT ![id] = live'[id]]
    /\ live'[id] # Nothing
    /\ \A other \in Id \ {id} :
        live[other] # Nothing => Disjoint(live'[id], live[other])

Malloc(id) == live[id] = Nothing /\ Places(id)

Write(id) ==
    /\ live[id] # Nothing
    /\ live' = [live EXCEPT ![id].words = [i \in DOMAIN live[id].words |-> id]]

Free(id) ==
    /\ live[id] # Nothing
    /\ live' = [live EXCEPT ![id] = Nothing]

(* The words that are in both the old and the new block are kept.          *)
Realloc(id) ==
    /\ live[id] # Nothing
    /\ Places(id)
    /\ \A i \in DOMAIN live[id].words \cap DOMAIN live'[id].words :
        live'[id].words[i] = live[id].words[i]

Next == \E id \in Id : Malloc(id) \/ Write(id) \/ Free(id) \/ Realloc(id)

Spec == Init /\ [][Next]_live
=============================================================================
