-------------------------------- MODULE MmV1 --------------------------------
(***************************************************************************)
(* lab7/mm_v1.c: an implicit list searched first fit from its start.       *)
(***************************************************************************)
EXTENDS HeapWords

(* Unite the free block at bp with its free neighbours.                    *)
coalesce(h, bp) ==
    LET prev == PREV_BLKP(h, bp)
        next == NEXT_BLKP(h, bp)
        prev_alloc == GET_ALLOC(h, FTRP(h, prev))
        next_alloc == GET_ALLOC(h, HDRP(next))
        size == GET_SIZE(h, HDRP(bp))
        after == IF next_alloc THEN 0 ELSE GET_SIZE(h, HDRP(next))
        before == IF prev_alloc THEN 0 ELSE GET_SIZE(h, HDRP(prev))
        start == IF prev_alloc THEN bp ELSE prev
    IN  IF prev_alloc /\ next_alloc
        THEN Result(h, bp)
        ELSE Result(PutBoth(h, start, size + after + before, 0), start)

extend_heap(h, words) ==
    LET bp == h.brk
        h1 == PutBoth(mem_sbrk(h, words), bp, words, 0)
    IN  coalesce(PUT(h1, HDRP(NEXT_BLKP(h1, bp)), Tag(0, 1)), bp)

mm_init(h) == extend_heap(Prologue(h), CHUNK).heap

(* The words a block needs for so many bytes.                              *)
asize(size) == IF size <= 8 THEN 4 ELSE 2 * ((size + 8 + 7) \div 8)

find_fit(h, words) ==
    LET blocks == Blocks(h)
        fits == {i \in DOMAIN blocks : /\ ~GET_ALLOC(h, HDRP(blocks[i]))
                                       /\ words <= GET_SIZE(h, HDRP(blocks[i]))}
    IN  IF fits = {} THEN NULL ELSE blocks[Min(fits)]

place(h, bp, words) ==
    LET csize == GET_SIZE(h, HDRP(bp))
    IN  IF csize - words >= 4
        THEN LET h1 == PutBoth(h, bp, words, 1)
             IN  PutBoth(h1, NEXT_BLKP(h1, bp), csize - words, 0)
        ELSE PutBoth(h, bp, csize, 1)

mm_malloc(h, size) ==
    LET words == asize(size)
        bp == find_fit(h, words)
        extendsize == IF words > CHUNK THEN words ELSE CHUNK
        new == extend_heap(h, extendsize)
    IN  IF bp # NULL THEN Result(place(h, bp, words), bp)
        ELSE IF mem_sbrk_fails(h, extendsize) THEN Result(h, NULL)
        ELSE Result(place(new.heap, new.bp, words), new.bp)

mm_free(h, bp) == coalesce(PutBoth(h, bp, GET_SIZE(h, HDRP(bp)), 0), bp).heap

(* copySize is read across the footer before the block and its header,     *)
(* which makes it larger than any request: it is always the new size.      *)
mm_realloc(h, ptr, size) ==
    LET new == mm_malloc(h, size)
    IN  IF new.bp = NULL THEN new
        ELSE Result(mm_free(memcpy(new.heap, new.bp, ptr, size), ptr), new.bp)
=============================================================================
