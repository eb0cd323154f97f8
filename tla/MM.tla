--------------------------------- MODULE MM ---------------------------------
(***************************************************************************)
(* The allocator of lab7/mm.c (implicit list, boundary tags, next fit) on  *)
(* the heap of lab7/memlib.c, word by word, with the client that holds the *)
(* blocks.  Addresses and sizes are counted in words of WSIZE bytes from   *)
(* the start of the heap; what the client asks for is in bytes, as in C.   *)
(* A word is a tag (PACK), or a word of some client's data.  The loops of  *)
(* find_fit take a step per block; what runs between two of their tests,   *)
(* or once they end, is one step, for nothing interrupts it.               *)
(***************************************************************************)
EXTENDS Integers, FiniteSets

CONSTANTS
    Id, NoId,   \* the blocks the client can hold at once, and no block
    CHUNK,      \* CHUNKSIZE / WSIZE
    MAX_HEAP,   \* the size of memlib's heap
    Sizes       \* the sizes the client asks for, in bytes

ASSUME IdAssumption == NoId \notin Id
ASSUME ChunkAssumption == CHUNK \in Nat /\ CHUNK >= 4 /\ CHUNK % 2 = 0
(* 20 MB against a chunk of 4096 bytes: mm_init cannot fail.               *)
ASSUME HeapAssumption == MAX_HEAP \in Nat /\ MAX_HEAP >= 4 + CHUNK
ASSUME SizesAssumption == Sizes \subseteq Nat

VARIABLES
    mem,    \* the words of the heap
    brk,    \* mem_brk
    last,   \* where the next search starts
    pc,     \* "off" before mm_init; "idle" between calls
    call,   \* the arguments and locals of the call that runs
    live    \* per id: the pointer the client holds, and the size it asked for

vars == <<mem, brk, last, pc, call, live>>

WSIZE == 4
NULL == 0
Word == 0 .. MAX_HEAP - 1
Tag(size, alloc) == [size |-> size, alloc |-> alloc, id |-> NoId]
(* A word of data reads as some tag; the model makes it an epilogue's.     *)
Data(id) == [size |-> 0, alloc |-> 1, id |-> id]
WordValue == [size : Nat, alloc : {0, 1}, id : Id \cup {NoId}]

PUT(m, p, tag) == [m EXCEPT ![p] = tag]
GET_SIZE(m, p) == m[p].size
GET_ALLOC(m, p) == m[p].alloc = 1
HDRP(bp) == bp - 1
FTRP(m, bp) == bp + GET_SIZE(m, HDRP(bp)) - 2
NEXT_BLKP(m, bp) == bp + GET_SIZE(m, HDRP(bp))
PREV_BLKP(m, bp) == bp - GET_SIZE(m, bp - 2)

heap_listp == 2

(* Header and footer of the block at bp, which has the size given.         *)
PutBoth(m, bp, size, alloc) ==
    PUT(PUT(m, HDRP(bp), Tag(size, alloc)), bp + size - 2, Tag(size, alloc))

(* Mutant of Rover: last stays where it is.                                *)
RoverStays(m, bp, l) == l

(* A rover that points into the block just merged moves to its start.      *)
Rover(m, bp, l) == IF l > bp /\ l < NEXT_BLKP(m, bp) THEN bp ELSE l

(* Mutant of coalesce: the block before is left alone.                     *)
coalesceNextOnly(m, bp, l) ==
    IF GET_ALLOC(m, HDRP(NEXT_BLKP(m, bp)))
    THEN [mem |-> m, bp |-> bp, last |-> l]
    ELSE LET total == GET_SIZE(m, HDRP(bp)) + GET_SIZE(m, HDRP(NEXT_BLKP(m, bp)))
             m2 == PutBoth(m, bp, total, 0)
         IN  [mem |-> m2, bp |-> bp, last |-> Rover(m2, bp, l)]

(* Unite the free block at bp with its free neighbours.                    *)
coalesce(m, bp, l) ==
    LET prev_alloc == GET_ALLOC(m, FTRP(m, PREV_BLKP(m, bp)))
        next_alloc == GET_ALLOC(m, HDRP(NEXT_BLKP(m, bp)))
        size == GET_SIZE(m, HDRP(bp))
        Merged(m2, p) == [mem |-> m2, bp |-> p, last |-> Rover(m2, p, l)]
    IN  CASE prev_alloc /\ next_alloc ->
               [mem |-> m, bp |-> bp, last |-> l]
          [] prev_alloc /\ ~next_alloc ->
               LET total == size + GET_SIZE(m, HDRP(NEXT_BLKP(m, bp)))
               IN  Merged(PutBoth(m, bp, total, 0), bp)
          [] ~prev_alloc /\ next_alloc ->
               LET total == size + GET_SIZE(m, HDRP(PREV_BLKP(m, bp)))
                   m1 == PUT(m, FTRP(m, bp), Tag(total, 0))
                   prev == PREV_BLKP(m1, bp)
               IN  Merged(PUT(m1, HDRP(prev), Tag(total, 0)), prev)
          [] OTHER ->
               LET next == NEXT_BLKP(m, bp)
                   total == size + GET_SIZE(m, FTRP(m, next))
                                 + GET_SIZE(m, HDRP(PREV_BLKP(m, bp)))
                   m1 == PUT(m, FTRP(m, next), Tag(total, 0))
                   prev == PREV_BLKP(m1, bp)
               IN  Merged(PUT(m1, HDRP(prev), Tag(total, 0)), prev)

mem_sbrk_fails(b, incr) == b + incr > MAX_HEAP

(* extend_heap once mem_sbrk has given the words from b on.                *)
extend_heap(m, b, size, l) ==
    LET m1 == PutBoth(m, b, size, 0)
    IN  coalesce(PUT(m1, HDRP(NEXT_BLKP(m1, b)), Tag(0, 1)), b, l)

(* Take asize words of the free block at bp, and leave the rest free when  *)
(* it is large enough to be a block.                                       *)
place(m, bp, asize) ==
    LET csize == GET_SIZE(m, HDRP(bp))
    IN  IF csize - asize >= 4
        THEN LET m1 == PutBoth(m, bp, asize, 1)
             IN  PutBoth(m1, NEXT_BLKP(m1, bp), csize - asize, 0)
        ELSE PutBoth(m, bp, csize, 1)

(* Mutant of mm_free: the footer keeps its mark.                           *)
mm_freeHeaderOnly(m, bp, l) ==
    coalesce(PUT(m, HDRP(bp), Tag(GET_SIZE(m, HDRP(bp)), 0)), bp, l)

mm_free(m, bp, l) ==
    coalesce(PutBoth(m, bp, GET_SIZE(m, HDRP(bp)), 0), bp, l)

(* The words a block needs for so many bytes: two tags, a multiple of two. *)
asize(size) == IF size <= 8 THEN 4 ELSE 2 * ((size + 8 + 7) \div 8)

NoCall == [id |-> NoId, size |-> 0, ptr |-> NULL, old |-> NULL, bp |-> NULL]
NoBlock == [ptr |-> NULL, size |-> 0]
Held(id) == live[id].ptr # NULL

Init ==
    /\ mem = [w \in Word |-> Data(NoId)]
    /\ brk = 0
    /\ last = NULL
    /\ pc = "off"
    /\ call = NoCall
    /\ live = [id \in Id |-> NoBlock]

Prologue(m) ==
    [m EXCEPT ![0] = Tag(0, 0), ![1] = Tag(2, 1),
              ![2] = Tag(2, 1), ![3] = Tag(0, 1)]

mm_init ==
    /\ pc = "off"
    /\ LET r == extend_heap(Prologue(mem), 4, CHUNK, heap_listp)
       IN  mem' = r.mem /\ last' = r.last
    /\ brk' = 4 + CHUNK
    /\ pc' = "idle"
    /\ UNCHANGED <<call, live>>

(* The client calls mm_malloc, or mm_realloc with a pointer it holds.      *)
Calls(id, size) ==
    /\ pc = "idle"
    /\ size > 0
    /\ call' = [id |-> id, size |-> size, ptr |-> live[id].ptr,
                old |-> last, bp |-> NULL]
    /\ pc' = "search"
    /\ UNCHANGED <<mem, brk, last, live>>

CallMalloc(id, size) == ~Held(id) /\ Calls(id, size)
CallRealloc(id, size) == Held(id) /\ Calls(id, size)

(* mm_free(ptr), which mm_realloc(ptr, 0) is too.                          *)
CallFree(id) ==
    /\ pc = "idle"
    /\ Held(id)
    /\ LET r == mm_free(mem, live[id].ptr, last)
       IN  mem' = r.mem /\ last' = r.last
    /\ live' = [live EXCEPT ![id] = NoBlock]
    /\ UNCHANGED <<brk, pc, call>>

Fits(bp) == /\ ~GET_ALLOC(mem, HDRP(bp))
            /\ asize(call.size) <= GET_SIZE(mem, HDRP(bp))

(* mm_malloc has a free block in m; it returns the pointer to its caller:  *)
(* the client, or mm_realloc.                                              *)
Returns(m, bp) ==
    /\ mem' = place(m, bp, asize(call.size))
    /\ IF call.ptr = NULL
       THEN /\ live' = [live EXCEPT ![call.id] = [ptr |-> bp, size |-> call.size]]
            /\ UNCHANGED call
            /\ pc' = "fill"
       ELSE /\ call' = [call EXCEPT !.bp = bp]
            /\ pc' = "copy"
            /\ UNCHANGED live

(* The first loop of find_fit: from last to the end of the list.           *)
SearchFits ==
    /\ pc = "search"
    /\ GET_SIZE(mem, HDRP(last)) > 0 /\ Fits(last)
    /\ Returns(mem, last)
    /\ UNCHANGED <<brk, last>>

SearchNext ==
    /\ pc = "search"
    /\ GET_SIZE(mem, HDRP(last)) > 0 /\ ~Fits(last)
    /\ last' = NEXT_BLKP(mem, last)
    /\ UNCHANGED <<mem, brk, pc, call, live>>

(* Mutant of SearchEnds: no second loop.                                   *)
SearchGivesUp ==
    /\ pc = "search"
    /\ GET_SIZE(mem, HDRP(last)) = 0
    /\ last' = heap_listp
    /\ pc' = "extend"
    /\ UNCHANGED <<mem, brk, call, live>>

SearchEnds ==
    /\ pc = "search"
    /\ GET_SIZE(mem, HDRP(last)) = 0
    /\ last' = heap_listp
    /\ pc' = "wrap"
    /\ UNCHANGED <<mem, brk, call, live>>

(* The second loop: from the start of the list to where last was.          *)
WrapFits ==
    /\ pc = "wrap"
    /\ last < call.old /\ Fits(last)
    /\ Returns(mem, last)
    /\ UNCHANGED <<brk, last>>

WrapNext ==
    /\ pc = "wrap"
    /\ last < call.old /\ ~Fits(last)
    /\ last' = NEXT_BLKP(mem, last)
    /\ UNCHANGED <<mem, brk, pc, call, live>>

WrapEnds ==
    /\ pc = "wrap"
    /\ last >= call.old
    /\ pc' = "extend"
    /\ UNCHANGED <<mem, brk, last, call, live>>

(* mm_malloc found no fit: it asks for asize or a chunk, the larger.       *)
extendsize == IF asize(call.size) > CHUNK THEN asize(call.size) ELSE CHUNK

ExtendFits ==
    /\ pc = "extend"
    /\ ~mem_sbrk_fails(brk, extendsize)
    /\ brk' = brk + extendsize
    /\ LET r == extend_heap(mem, brk, extendsize, last)
       IN  last' = r.last /\ Returns(r.mem, r.bp)

(* mem_sbrk failed: the call returns NULL, a realloc's block is untouched. *)
ExtendFails ==
    /\ pc = "extend"
    /\ mem_sbrk_fails(brk, extendsize)
    /\ call' = NoCall
    /\ pc' = "idle"
    /\ UNCHANGED <<mem, brk, last, live>>

(* mm_realloc copies as many words as the old block has, tags included, or *)
(* the new size holds, and frees the old block.                            *)
Copied == LET oldsize == GET_SIZE(mem, HDRP(call.ptr))
              new == call.size \div WSIZE
          IN  IF new < oldsize THEN new ELSE oldsize

(* Mutant of memcpy: the last word is not copied.                          *)
memcpyShort(m) ==
    [w \in Word |-> IF w >= call.bp /\ w < call.bp + Copied - 1
                    THEN m[w - call.bp + call.ptr] ELSE m[w]]

memcpy(m) ==
    [w \in Word |-> IF w >= call.bp /\ w < call.bp + Copied
                    THEN m[w - call.bp + call.ptr] ELSE m[w]]

(* Mutant of ReallocMoves: the old block is not freed.                     *)
ReallocKeepsOld ==
    /\ pc = "copy"
    /\ mem' = memcpy(mem)
    /\ live' = [live EXCEPT ![call.id] = [ptr |-> call.bp, size |-> call.size]]
    /\ pc' = "fill"
    /\ UNCHANGED <<brk, last, call>>

ReallocMoves ==
    /\ pc = "copy"
    /\ LET r == mm_free(memcpy(mem), call.ptr, last)
       IN  mem' = r.mem /\ last' = r.last
    /\ live' = [live EXCEPT ![call.id] = [ptr |-> call.bp, size |-> call.size]]
    /\ pc' = "fill"
    /\ UNCHANGED <<brk, call>>

(* The driver fills each block as soon as it has it, up to the last whole  *)
(* word.                                                                   *)
Payload(ptr, size) == ptr .. ptr + size \div WSIZE - 1

ClientFills ==
    /\ pc = "fill"
    /\ mem' = [w \in Word |-> IF w \in Payload(live[call.id].ptr, call.size)
                              THEN Data(call.id) ELSE mem[w]]
    /\ call' = NoCall
    /\ pc' = "idle"
    /\ UNCHANGED <<brk, last, live>>

Search == \/ SearchFits \/ SearchNext \/ SearchEnds
          \/ WrapFits \/ WrapNext \/ WrapEnds
Running == Search \/ ExtendFits \/ ExtendFails \/ ReallocMoves \/ ClientFills

Next ==
    \/ mm_init
    \/ \E id \in Id : \/ \E size \in Sizes : CallMalloc(id, size) \/ CallRealloc(id, size)
                      \/ CallFree(id)
    \/ Running

Spec == Init /\ [][Next]_vars

(***************************************************************************)
(* Properties.                                                             *)
(***************************************************************************)
TypeOK ==
    /\ mem \in [Word -> WordValue]
    /\ brk \in 0 .. MAX_HEAP
    /\ last \in 0 .. MAX_HEAP
    /\ pc \in {"off", "idle", "search", "wrap", "extend", "copy", "fill"}
    /\ call \in [id : Id \cup {NoId}, size : Nat, ptr : Nat, old : Nat, bp : Nat]
    /\ live \in [Id -> [ptr : 0 .. MAX_HEAP, size : Nat]]

(* The words where a block may start: there is a size, and the footer it   *)
(* leads to says the same.  Stale tags of merged blocks can do this too.   *)
Block(m, e) ==
    {p \in Word :
        /\ p % 2 = 0 /\ heap_listp <= p
        /\ m[HDRP(p)].id = NoId
        /\ GET_SIZE(m, HDRP(p)) >= 2 /\ GET_SIZE(m, HDRP(p)) % 2 = 0
        /\ NEXT_BLKP(m, p) <= e
        /\ m[FTRP(m, p)] = m[HDRP(p)]}

(* B is the list of blocks of a heap m that ends at e: it starts with the  *)
(* prologue, the size of each block leads to the next one or to the        *)
(* epilogue, no other block starts in between, and all but the first are   *)
(* led to.                                                                 *)
Tiling(m, e, B) ==
    /\ heap_listp \in B
    /\ m[HDRP(heap_listp)] = Tag(2, 1)
    /\ \A b \in B :
        /\ NEXT_BLKP(m, b) \in B \cup {e}
        /\ \A c \in B : c > b => c >= NEXT_BLKP(m, b)
    /\ \A c \in (B \cup {e}) \ {heap_listp} :
        \E b \in B : NEXT_BLKP(m, b) = c
    /\ m[HDRP(e)] = Tag(0, 1)

Blocks(B) == Tiling(mem, brk, B)

(* After any sequence of calls the blocks tile the heap.                   *)
HeapTiled == pc # "off" => \E B \in SUBSET Block(mem, brk) : Blocks(B)

(* Free blocks are merged at once: no two are neighbours.                  *)
Merged(m, B) ==
    \A b \in B : GET_ALLOC(m, HDRP(b)) \/ GET_ALLOC(m, HDRP(NEXT_BLKP(m, b)))
FreeBlocksMerged ==
    pc # "off" =>
        \E B \in SUBSET Block(mem, brk) : Blocks(B) /\ Merged(mem, B)

(* The rover never points into a block, although blocks merge under it.    *)
OnBlock(B) == last \in B \/ (pc = "search" /\ last = brk)
RoverOnBlock ==
    pc # "off" =>
        \E B \in SUBSET Block(mem, brk) : Blocks(B) /\ OnBlock(B)

(* The allocated blocks are those the client holds: no block is lost, and  *)
(* none the client holds is given out again.                               *)
InUse == {heap_listp} \cup {live[id].ptr : id \in {i \in Id : Held(i)}}
                      \cup (IF pc = "copy" THEN {call.bp} ELSE {})
NoneLost ==
    pc # "off" =>
        \E B \in SUBSET Block(mem, brk) :
            Blocks(B) /\ {b \in B : GET_ALLOC(mem, HDRP(b))} = InUse

(* Next fit looks at every block: the heap grows only when none fits.      *)
GrowsOnlyWhenFull ==
    pc = "extend" =>
        \E B \in SUBSET Block(mem, brk) : Blocks(B) /\ \A b \in B : ~Fits(b)

(* A block is as large as the request needs, or one word pair larger.      *)
Snug(ptr, size) == GET_SIZE(mem, HDRP(ptr)) - asize(size) \in {0, 2}
SnugBlocks == \A id \in Id : Held(id) => Snug(live[id].ptr, live[id].size)

(* mm.c implements Allocator: blocks never overlap and keep what the       *)
(* client wrote, whatever tags the allocator writes around them.           *)
View(id) ==
    IF Held(id)
    THEN [at |-> live[id].ptr,
          words |-> [i \in 1 .. live[id].size \div WSIZE |->
                        mem[live[id].ptr + i - 1].id]]
    ELSE NoBlock
Views == [id \in Id |-> View(id)]
A == INSTANCE Allocator WITH live <- Views, Nothing <- NoBlock
ImplementsAllocator == A!Spec

(***************************************************************************)
(* The inductive invariant behind these: the parts above for one and the   *)
(* same B, what the search has seen, and what the client and the running   *)
(* call hold.                                                              *)
(***************************************************************************)
Seen(B) ==
    /\ pc \in {"search", "wrap"} => call.old \in B
    /\ pc = "search" => \A b \in B : call.old <= b /\ b < last => ~Fits(b)
    /\ pc = "wrap" => /\ last <= call.old
                      /\ \A b \in B : b < last \/ call.old <= b => ~Fits(b)
    /\ pc = "extend" => \A b \in B : ~Fits(b)

HeapInv ==
    pc # "off" =>
        \E B \in SUBSET Block(mem, brk) :
            /\ Blocks(B)
            /\ Merged(mem, B)
            /\ OnBlock(B)
            /\ {b \in B : GET_ALLOC(mem, HDRP(b))} = InUse
            /\ Seen(B)

HeldInv ==
    /\ \A i \in Id : Held(i) => live[i].ptr # heap_listp /\ live[i].size # 0
    /\ \A i, j \in Id : Held(i) /\ live[i].ptr = live[j].ptr => i = j

CallInv ==
    /\ pc \in {"search", "wrap", "extend", "copy", "fill"} =>
        call.id \in Id /\ call.size # 0
    /\ pc \in {"search", "wrap", "extend", "copy"} =>
        call.ptr = live[call.id].ptr
    /\ pc = "copy" =>
        /\ Held(call.id)
        /\ call.bp \notin {NULL, heap_listp}
        /\ \A i \in Id : live[i].ptr # call.bp
        /\ Snug(call.bp, call.size)
    /\ pc = "fill" => Held(call.id) /\ call.size = live[call.id].size

OffInv == pc = "off" => live = [id \in Id |-> NoBlock]

IInv == TypeOK /\ HeapInv /\ SnugBlocks /\ HeldInv /\ CallInv /\ OffInv
=============================================================================
