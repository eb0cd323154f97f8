----------------------------- MODULE Allocators -----------------------------
(***************************************************************************)
(* The functions of mm.h, carried out by the allocator compiled in.        *)
(***************************************************************************)
EXTENDS HeapWords

V1 == INSTANCE MmV1
V3 == INSTANCE MmV3
Backup == INSTANCE MmBackup

Linked(h) == h.file \in {"mm_v3", "mm_v4"}

mm_init(h) == CASE h.file = "mm_v1" -> V1!mm_init(h)
                [] Linked(h) -> V3!mm_init(h)
                [] OTHER -> Backup!mm_init(h)
mm_malloc(h, size) == CASE h.file = "mm_v1" -> V1!mm_malloc(h, size)
                        [] Linked(h) -> V3!mm_malloc(h, size)
                        [] OTHER -> Backup!mm_malloc(h, size)
mm_realloc(h, ptr, size) == CASE h.file = "mm_v1" -> V1!mm_realloc(h, ptr, size)
                              [] Linked(h) -> V3!mm_realloc(h, ptr, size)
                              [] OTHER -> Backup!mm_realloc(h, ptr, size)
mm_free(h, ptr) == CASE h.file = "mm_v1" -> V1!mm_free(h, ptr)
                     [] Linked(h) -> V3!mm_free(h, ptr)
                     [] OTHER -> Backup!mm_free(h, ptr)

(* The words a client may use, and its memset of them.                     *)
Payload(ptr, size) == ptr .. ptr + size \div WSIZE - 1
memset(h, ptr, id, size) ==
    [h EXCEPT !.mem = [w \in Word |-> IF w \in Payload(ptr, size) THEN Data(id) ELSE h.mem[w]]]

Suits(h, ptr, size) ==
    Linked(h) => IF ptr = NULL THEN V3!SuitsMalloc(h, size)
                 ELSE V3!SuitsRealloc(h, ptr, size)
=============================================================================
