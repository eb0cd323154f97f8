------------------------------ MODULE MmBackup ------------------------------
(***************************************************************************)
(* lab7/mm_backup.c, the allocator lab7 starts from: each block is new     *)
(* memory, with its size in the 8 bytes before it, and free does nothing.  *)
(***************************************************************************)
EXTENDS HeapWords

(* Mutant of ALIGN: down instead of up.                                    *)
ALIGNDown(size) == 2 * (size \div 8)

(* Bytes to words, a multiple of two.                                      *)
ALIGN(size) == 2 * ((size + 7) \div 8)

mm_init(h) == h

mm_malloc(h, size) ==
    LET newsize == ALIGN(size + 8)
        p == h.brk
        h1 == mem_sbrk(h, newsize)
    IN  IF mem_sbrk_fails(h, newsize) THEN Result(h, NULL)
        ELSE Result(PUT(PUT(h1, p, Tag(size, 0)), p + 1, Tag(0, 0)), p + 2)

mm_free(h, ptr) == h

mm_realloc(h, ptr, size) ==
    LET new == mm_malloc(h, size)
        old == GET_SIZE(h, ptr - 2)
        copySize == IF size < old THEN size ELSE old
    IN  IF new.bp = NULL THEN new
        ELSE Result(memcpy(new.heap, new.bp, ptr, copySize), new.bp)
=============================================================================
