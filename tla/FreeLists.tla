----------------------------- MODULE FreeLists ------------------------------
(***************************************************************************)
(* The allocators lab7 keeps beside mm.c with a client that holds blocks:  *)
(* like eval_mm_valid it fills each block it is given, and starts over on  *)
(* the same heap for the next trace.  One call is one step: nothing        *)
(* interrupts it.                                                          *)
(***************************************************************************)
EXTENDS Allocators, TLC

CONSTANTS Sizes,    \* the sizes the client asks for, in bytes, whole words
          Files,    \* the allocators
          MAX_CALLS \* how many calls the client makes

\* No trace asks for 0 bytes, which the allocators treat differently.
ASSUME ClientAssumption ==
    /\ Sizes \subseteq Nat \ {0}
    /\ Files \subseteq {"mm_v1", "mm_v3", "mm_v4", "mm_backup"}

VARIABLES
    heap,   \* the heap and the globals of the allocator compiled in
    live,   \* per id: the pointer the client holds, and the size it asked for
    filling,\* the block the client has just been given, or no block
    calls   \* the calls made

vars == <<heap, live, filling, calls>>

Call == calls < MAX_CALLS /\ calls' = calls + 1

\* No id is compared but for equality.
IdSymmetry == Permutations(Id)

NoBlock == [ptr |-> NULL, size |-> 0]
Held(id) == live[id].ptr # NULL

Init ==
    /\ heap \in {mm_init(mem_init(file)) : file \in Files}
    /\ live = [id \in Id |-> NoBlock]
    /\ filling = NoId
    /\ calls = 0

(* The next trace, on the heap the last one has left.                      *)
Restart ==
    /\ Call
    /\ filling = NoId
    /\ heap' = mm_init(mem_reset_brk(heap))
    /\ live' = [id \in Id |-> NoBlock]
    /\ UNCHANGED filling

(* mm_malloc or mm_realloc has returned r to the client.                   *)
Returns(r, id, size) ==
    /\ heap' = r.heap
    /\ IF r.bp = NULL THEN UNCHANGED <<live, filling>>
       ELSE /\ live' = [live EXCEPT ![id] = [ptr |-> r.bp, size |-> size]]
            /\ filling' = id

Malloc(id, size) ==
    /\ Call
    /\ filling = NoId /\ ~Held(id)
    /\ Suits(heap, NULL, size)
    /\ Returns(mm_malloc(heap, size), id, size)

Realloc(id, size) ==
    /\ Call
    /\ filling = NoId /\ Held(id)
    /\ Suits(heap, live[id].ptr, size)
    /\ Returns(mm_realloc(heap, live[id].ptr, size), id, size)

Free(id) ==
    /\ Call
    /\ filling = NoId /\ Held(id)
    /\ heap' = mm_free(heap, live[id].ptr)
    /\ live' = [live EXCEPT ![id] = NoBlock]
    /\ UNCHANGED filling

Fill ==
    /\ filling # NoId
    /\ heap' = memset(heap, live[filling].ptr, filling, live[filling].size)
    /\ filling' = NoId
    /\ UNCHANGED <<live, calls>>

Next ==
    \/ Restart
    \/ \E id \in Id : \/ \E size \in Sizes : Malloc(id, size) \/ Realloc(id, size)
                      \/ Free(id)
    \/ Fill

Spec == Init /\ [][Next]_vars

(***************************************************************************)
(* Properties.                                                             *)
(***************************************************************************)
(* The list that runs through the free blocks of v3 and v4 holds each of   *)
(* them once, the blocks of the heap are those the client holds and those  *)
(* in the list, and they end where the heap ends.                          *)
Elements(s) == {s[i] : i \in DOMAIN s}
ListIsTheFreeBlocks ==
    Linked(heap) =>
        LET blocks == V3!Blocks(heap)
            nodes == V3!FreeList(heap)
            last == blocks[Len(blocks)]
        IN  /\ \A i, j \in DOMAIN nodes : nodes[i] = nodes[j] => i = j
            /\ Elements(nodes) = {b \in Elements(blocks) : ~GET_ALLOC(heap, HDRP(b))}
            /\ Elements(blocks) \ Elements(nodes) =
                 {heap_listp} \cup {live[id].ptr : id \in {i \in Id : Held(i)}}
            /\ NEXT_BLKP(heap, last) = heap.brk

(* "a simple heap consistency checker" (mm_v3.c 347) would find nothing,   *)
(* after any calls: no two free blocks are neighbours, and the links of    *)
(* neighbours in the list match.                                           *)
mm_checkSucceeds == Linked(heap) => V3!mm_check(heap)

(* Each of the allocators does what Allocator says: blocks never overlap   *)
(* and keep what the client wrote, and mm_realloc keeps it when it moves   *)
(* the block, also on a heap full of what an earlier trace has left.       *)
View(id) ==
    IF Held(id)
    THEN [at |-> live[id].ptr,
          words |-> [i \in 1 .. live[id].size \div WSIZE |-> heap.mem[live[id].ptr + i - 1].id]]
    ELSE NoBlock
Views == [id \in Id |-> View(id)]
A == INSTANCE Allocator WITH live <- Views, Nothing <- NoBlock
ImplementsAllocator == [][Restart \/ A!Next]_Views
=============================================================================
