----------------------------- MODULE HeapWords ------------------------------
(***************************************************************************)
(* The heap of lab7/memlib.c as the allocators that lab7 keeps beside      *)
(* mm.c use it, and the macros they share.  A heap is a record: its words, *)
(* mem_brk, and the globals of the allocator compiled into the driver      *)
(* (file).  Addresses and sizes of blocks are counted in words of WSIZE    *)
(* bytes from the start of the heap; requests are in bytes.  Each function *)
(* of an allocator is an operator from heaps to heaps.                     *)
(***************************************************************************)
EXTENDS Integers, Sequences, FiniteSetsExt

CONSTANTS
    Id, NoId,   \* the blocks a client can hold at once, and no block
    CHUNK,      \* CHUNKSIZE / WSIZE
    MAX_HEAP    \* the size of memlib's heap

\* 1024 words and 20 MB: mm_init cannot fail.
ASSUME HeapAssumption ==
    /\ NoId \notin Id
    /\ CHUNK \in Nat /\ CHUNK >= 6 /\ CHUNK % 2 = 0
    /\ MAX_HEAP \in Nat /\ MAX_HEAP >= 4 + CHUNK

WSIZE == 4
NULL == 0
Word == 0 .. MAX_HEAP - 1

(* A word is a tag, a client's data or (the low half of) an address; each  *)
(* can be read as another, and an address has its low bits clear.          *)
Tag(size, alloc) == [size |-> size, alloc |-> alloc, id |-> NoId, addr |-> NULL]
Data(id) == [size |-> 0, alloc |-> 1, id |-> id, addr |-> NULL]
Address(a) == [size |-> 0, alloc |-> 0, id |-> NoId, addr |-> a]

PUT(h, p, tag) == [h EXCEPT !.mem[p] = tag]
GET_SIZE(h, p) == h.mem[p].size
GET_ALLOC(h, p) == h.mem[p].alloc = 1
GETADDR(h, p) == h.mem[p].addr
PUTADDR(h, p, a) == [h EXCEPT !.mem[p] = Address(a), !.mem[p + 1] = Address(NULL)]
HDRP(bp) == bp - 1
FTRP(h, bp) == bp + GET_SIZE(h, HDRP(bp)) - 2
NEXT_BLKP(h, bp) == bp + GET_SIZE(h, HDRP(bp))
PREV_BLKP(h, bp) == bp - GET_SIZE(h, bp - 2)
PRED(bp) == bp
SUCC(bp) == bp + 2
PREV_FREE(h, bp) == GETADDR(h, PRED(bp))
NEXT_FREE(h, bp) == GETADDR(h, SUCC(bp))

(* The header of the block at bp, then the footer where that header says.  *)
PutBoth(h, bp, size, alloc) ==
    LET h1 == PUT(h, HDRP(bp), Tag(size, alloc))
    IN  PUT(h1, FTRP(h1, bp), Tag(size, alloc))

heap_listp == 2

(* The addresses a loop passes that begins with first, goes from each to   *)
(* the next, and ends when it reaches one that has none.                   *)
Walk(first, next) ==
    LET upto[n \in 0 .. MAX_HEAP] ==
            LET s == upto[n - 1]
                p == IF s = <<>> THEN first ELSE next[s[Len(s)]]
            IN  IF n = 0 THEN <<>> ELSE IF p \in DOMAIN next THEN Append(s, p) ELSE s
    IN  upto[MAX_HEAP]

(* The blocks, from the prologue to the epilogue, which has the size 0.    *)
NextBlocks(h) ==
    [bp \in {p \in 1 .. MAX_HEAP : GET_SIZE(h, HDRP(p)) # 0} |-> NEXT_BLKP(h, bp)]
Blocks(h) == Walk(heap_listp, NextBlocks(h))

(* mem_init: no words are given out yet.  mem_reset_brk leaves the words   *)
(* and the allocator's globals as they are.                                *)
mem_init(file) ==
    [file |-> file, mem |-> [w \in Word |-> Data(NoId)], brk |-> 0,
     blk_headp |-> NULL, flag |-> 0]
mem_reset_brk(h) == [h EXCEPT !.brk = 0]

mem_sbrk_fails(h, words) == h.brk + words > MAX_HEAP
mem_sbrk(h, words) == [h EXCEPT !.brk = @ + words]

(* The four words before the first block, written by every mm_init.        *)
Prologue(h) ==
    [h EXCEPT !.mem[0] = Tag(0, 0), !.mem[1] = Tag(2, 1),
              !.mem[2] = Tag(2, 1), !.mem[3] = Tag(0, 1), !.brk = 4]

(* memcpy of so many bytes, whole words.  Beyond the old block it reads    *)
(* what is there: what it writes for that is never read.                   *)
memcpy(h, to, from, size) ==
    LET words == size \div WSIZE
    IN  [h EXCEPT !.mem =
            [w \in Word |-> IF w \notin to .. to + words - 1 THEN h.mem[w]
                            ELSE IF from + w - to \in Word THEN h.mem[from + w - to]
                            ELSE Data(NoId)]]

(* What a call gives back: the heap it leaves and the pointer it returns.  *)
Result(h, bp) == [heap |-> h, bp |-> bp]
=============================================================================
