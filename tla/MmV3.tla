-------------------------------- MODULE MmV3 --------------------------------
(***************************************************************************)
(* lab7/mm_v3.c and mm_v4.c: a doubly linked list of the free blocks, last *)
(* in first out, kept in the blocks themselves.  From the first mm_realloc *)
(* on, flag is set: the last block of the heap is kept for the block that  *)
(* grows into it.  v4 is v3 with another footer in mm_realloc (and another *)
(* mm_check, which nothing calls).                                         *)
(***************************************************************************)
EXTENDS HeapWords

(* Take bp out of the list: its neighbours, or the head, skip it.          *)
remove_node(h, bp) ==
    LET prev == PREV_FREE(h, bp)
        next == NEXT_FREE(h, bp)
        h1 == IF prev # NULL THEN PUTADDR(h, SUCC(prev), next)
              ELSE [h EXCEPT !.blk_headp = next]
        h2 == IF next # NULL THEN PUTADDR(h1, PRED(next), prev) ELSE h1
    IN  PUTADDR(PUTADDR(h2, PRED(bp), NULL), SUCC(bp), NULL)

(* Put bp at the head of the list.                                         *)
add_node(h, bp) ==
    LET head == h.blk_headp
        h1 == IF head # NULL THEN PUTADDR(h, PRED(head), bp) ELSE h
    IN  [PUTADDR(PUTADDR(h1, SUCC(bp), head), PRED(bp), NULL) EXCEPT !.blk_headp = bp]

(* Mutant of coalesce: the block before stays in the list.                 *)
coalesceKeepsNode(h, bp) ==
    LET prev == PREV_BLKP(h, bp)
        next == NEXT_BLKP(h, bp)
        prev_alloc == GET_ALLOC(h, FTRP(h, prev))
        next_alloc == GET_ALLOC(h, HDRP(next))
        h1 == IF next_alloc THEN h ELSE remove_node(h, next)
        after == IF next_alloc THEN 0 ELSE GET_SIZE(h, HDRP(next))
        before == IF prev_alloc THEN 0 ELSE GET_SIZE(h, HDRP(prev))
        start == IF prev_alloc THEN bp ELSE prev
    IN  Result(add_node(PutBoth(h1, start, GET_SIZE(h, HDRP(bp)) + after + before, 0), start), start)

(* Unite the free block at bp with its free neighbours, which leave the    *)
(* list, and put the whole in it.                                          *)
coalesce(h, bp) ==
    LET prev == PREV_BLKP(h, bp)
        next == NEXT_BLKP(h, bp)
        prev_alloc == GET_ALLOC(h, FTRP(h, prev))
        next_alloc == GET_ALLOC(h, HDRP(next))
        h1 == IF prev_alloc THEN h ELSE remove_node(h, prev)
        h2 == IF next_alloc THEN h1 ELSE remove_node(h1, next)
        after == IF next_alloc THEN 0 ELSE GET_SIZE(h, HDRP(next))
        before == IF prev_alloc THEN 0 ELSE GET_SIZE(h, HDRP(prev))
        start == IF prev_alloc THEN bp ELSE prev
        h3 == IF prev_alloc /\ next_alloc THEN h2
              ELSE PutBoth(h2, start, GET_SIZE(h, HDRP(bp)) + after + before, 0)
    IN  Result(add_node(h3, start), start)

Unlinked(h, bp) == PUTADDR(PUTADDR(h, PRED(bp), NULL), SUCC(bp), NULL)

extend_heap(h, words) ==
    LET bp == h.brk
        h1 == Unlinked(PutBoth(mem_sbrk(h, words), bp, words, 0), bp)
    IN  coalesce(PUT(h1, HDRP(NEXT_BLKP(h1, bp)), Tag(0, 1)), bp)

(* Mutant of mm_init: the head of the list before mem_reset_brk is kept.   *)
mm_initKeepsHead(h) == extend_heap([Prologue(h) EXCEPT !.flag = 0], CHUNK).heap

mm_init(h) == extend_heap([Prologue(h) EXCEPT !.blk_headp = NULL, !.flag = 0], CHUNK).heap

(* The words a block needs for so many bytes: room for the two links, and  *)
(* more than is asked for where the traces will soon ask for it.           *)
asize(size) == CASE size <= 8 -> 6
                 [] size = 112 -> 34
                 [] size = 448 -> 130
                 [] OTHER -> 2 * ((size + 8 + 7) \div 8)

(* The free list.                                                          *)
NextNodes(h) == [bp \in 1 .. MAX_HEAP - 3 |-> NEXT_FREE(h, bp)]
FreeList(h) == Walk(h.blk_headp, NextNodes(h))

IsLast(h, bp) == GET_SIZE(h, HDRP(NEXT_BLKP(h, bp))) = 0

find_fit(h, words) ==
    LET nodes == FreeList(h)
        fits == {i \in DOMAIN nodes : /\ words <= GET_SIZE(h, HDRP(nodes[i]))
                                      /\ h.flag = 0 \/ ~IsLast(h, nodes[i])}
    IN  IF fits = {} THEN NULL ELSE nodes[Min(fits)]

place(h, bp, words) ==
    LET csize == GET_SIZE(h, HDRP(bp))
        h1 == remove_node(h, bp)
        h2 == PutBoth(h1, bp, words, 1)
        rest == NEXT_BLKP(h2, bp)
    IN  IF csize - words >= 6
        THEN add_node(PutBoth(h2, rest, csize - words, 0), rest)
        ELSE PutBoth(h1, bp, csize, 1)

mm_malloc(h, size) ==
    LET words == asize(size)
        bp == find_fit(h, words)
        extendsize == IF words > CHUNK THEN words ELSE CHUNK
        new == extend_heap(h, extendsize)
    IN  IF bp # NULL THEN Result(place(h, bp, words), bp)
        ELSE IF mem_sbrk_fails(h, extendsize) THEN Result(h, NULL)
        ELSE Result(place(new.heap, new.bp, words), new.bp)

mm_free(h, bp) ==
    coalesce(Unlinked(PutBoth(h, bp, GET_SIZE(h, HDRP(bp)), 0), bp), bp).heap

(* The first mm_realloc moves the block; as in mm_v1.c, copySize is always *)
(* the new size.                                                           *)
ReallocMoves(h, oldbp, size) ==
    LET new == mm_malloc(h, size)
        freed == mm_free(memcpy(new.heap, new.bp, oldbp, size), oldbp)
    IN  IF new.bp = NULL THEN new ELSE Result([freed EXCEPT !.flag = 1], new.bp)

(* What a block lacks for so many bytes, in words.  Unsigned in C: Suits    *)
(* keeps out the sizes for which the difference is below 0.                *)
diff(h, oldbp, size) == 2 * ((size - WSIZE * GET_SIZE(h, HDRP(oldbp)) + 15) \div 8)

(* v4 adds diff to the size in the header a second time.                   *)
GrownFooter(h, oldbp, d) ==
    LET size == GET_SIZE(h, HDRP(oldbp))
    IN  PUT(h, FTRP(h, oldbp), Tag(IF h.file = "mm_v4" THEN size + d ELSE size, 1))

(* Every later one lets the block grow into the free block behind it,      *)
(* which is made larger first when it is too small.                        *)
ReallocGrows(h, oldbp, size) ==
    LET d == diff(h, oldbp, size)
        next == NEXT_BLKP(h, oldbp)
        r == IF GET_SIZE(h, HDRP(next)) < d + 6 THEN extend_heap(h, CHUNK)
             ELSE Result(h, next)
        temp == GET_SIZE(r.heap, HDRP(r.bp))
        lastfree == r.bp + d
        h1 == PutBoth(remove_node(r.heap, r.bp), lastfree, temp - d, 0)
        h2 == PUT(Unlinked(h1, lastfree), HDRP(oldbp), Tag(GET_SIZE(h, HDRP(oldbp)) + d, 1))
    IN  Result(add_node(GrownFooter(h2, oldbp, d), lastfree), oldbp)

mm_realloc(h, bp, size) ==
    IF h.flag = 0 THEN ReallocMoves(h, bp, size) ELSE ReallocGrows(h, bp, size)

(***************************************************************************)
(* What v3 and v4 are made for (the comment before v4's mm_realloc): once  *)
(* flag is set, only the block before the last free one is reallocated, it *)
(* grows, and by less than a chunk; other requests find a free block.      *)
(***************************************************************************)
SuitsMalloc(h, size) == h.flag = 1 => find_fit(h, asize(size)) # NULL
SuitsRealloc(h, bp, size) ==
    h.flag = 1 =>
        LET next == NEXT_BLKP(h, bp)
            blk == WSIZE * GET_SIZE(h, HDRP(bp))
        IN  /\ ~GET_ALLOC(h, HDRP(next)) /\ IsLast(h, next)
            /\ size + 15 >= blk
            /\ diff(h, bp, size) + 6 <= CHUNK
            /\ GET_SIZE(h, HDRP(next)) < diff(h, bp, size) + 6 => ~mem_sbrk_fails(h, CHUNK)

(* mm_check, v3's: the blocks and the list agree.  Its second loop reads   *)
(* the low bit of a link, where an address has none.                       *)
mm_check(h) ==
    LET blocks == Blocks(h)
        nodes == FreeList(h)
        free == {i \in DOMAIN blocks : ~GET_ALLOC(h, HDRP(blocks[i]))}
    IN  /\ \A i \in DOMAIN blocks :
              GET_ALLOC(h, HDRP(blocks[i])) \/ GET_ALLOC(h, HDRP(NEXT_BLKP(h, blocks[i])))
        /\ \A i \in DOMAIN nodes : ~GET_ALLOC(h, nodes[i])
        /\ Cardinality(free) = Len(nodes)
        /\ \A i \in DOMAIN nodes :
              /\ GETADDR(h, PRED(h.blk_headp)) = NULL
              /\ PREV_FREE(h, nodes[i]) = NEXT_FREE(h, nodes[i]) => PREV_FREE(h, nodes[i]) = NULL
              /\ NEXT_FREE(h, nodes[i]) # NULL => PREV_FREE(h, NEXT_FREE(h, nodes[i])) = nodes[i]
=============================================================================
