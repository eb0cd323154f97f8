-------------------------- MODULE FreeListsProofs --------------------------
(***************************************************************************)
(* Theorems about FreeLists: for every size of the heap and of the chunk,  *)
(* any ids and sizes, and any calls on the four allocators, ClientHolds is *)
(* an invariant (the blocks the client holds are blocks of a sound heap:   *)
(* in v1, v3 and v4 blocks tile it and no two free ones are neighbours, in *)
(* v3 and v4 the list has the free ones), so that the list is the free     *)
(* blocks, mm_check succeeds, and each allocator implements Allocator.     *)
(***************************************************************************)
EXTENDS FreeLists, FiniteSetTheorems, WellFoundedInduction, TLAPS

(***************************************************************************)
(* The words of a heap.                                                    *)
(***************************************************************************)
WordValue == [size : Nat, alloc : {0, 1}, id : Id \cup {NoId}, addr : Nat]
Memory == [Word -> WordValue]
Heap == [file : Files, mem : Memory, brk : 0 .. MAX_HEAP,
         blk_headp : Nat, flag : {0, 1}]

(* Each allocator has the macros of HeapWords.                             *)
LEMMA V3Words ==
    /\ V3!WSIZE = WSIZE /\ V3!NULL = NULL /\ V3!Word = Word /\ V3!heap_listp = heap_listp
    /\ \A n, a : V3!Tag(n, a) = Tag(n, a)
    /\ \A a : V3!Address(a) = Address(a)
    /\ \A h, p, t : V3!PUT(h, p, t) = PUT(h, p, t)
    /\ \A h, p : V3!GET_SIZE(h, p) = GET_SIZE(h, p)
    /\ \A h, p : V3!GET_ALLOC(h, p) = GET_ALLOC(h, p)
    /\ \A h, p : V3!GETADDR(h, p) = GETADDR(h, p)
    /\ \A h, p, a : V3!PUTADDR(h, p, a) = PUTADDR(h, p, a)
    /\ \A b : V3!HDRP(b) = HDRP(b) /\ V3!PRED(b) = PRED(b) /\ V3!SUCC(b) = SUCC(b)
    /\ \A h, b : V3!FTRP(h, b) = FTRP(h, b)
    /\ \A h, b : V3!NEXT_BLKP(h, b) = NEXT_BLKP(h, b)
    /\ \A h, b : V3!PREV_BLKP(h, b) = PREV_BLKP(h, b)
    /\ \A h, b : V3!PREV_FREE(h, b) = PREV_FREE(h, b)
    /\ \A h, b : V3!NEXT_FREE(h, b) = NEXT_FREE(h, b)
    /\ \A h, b, n, a : V3!PutBoth(h, b, n, a) = PutBoth(h, b, n, a)
    /\ \A h : V3!NextBlocks(h) = NextBlocks(h)
    /\ \A f, n : V3!Walk(f, n) = Walk(f, n)
    /\ \A h, n : V3!mem_sbrk(h, n) = mem_sbrk(h, n)
    /\ \A h, n : V3!mem_sbrk_fails(h, n) = mem_sbrk_fails(h, n)
    /\ \A h : V3!Prologue(h) = Prologue(h)
    /\ \A h, t, f, n : V3!memcpy(h, t, f, n) = memcpy(h, t, f, n)
    /\ \A h, b : V3!Result(h, b) = Result(h, b)
<1> USE DEF V3!WSIZE, V3!NULL, V3!Word, V3!heap_listp, WSIZE, NULL, Word, heap_listp,
            V3!Tag, V3!Address, V3!PUT, V3!GET_SIZE, V3!GET_ALLOC, V3!GETADDR, V3!PUTADDR,
            Tag, Address, PUT, GET_SIZE, GET_ALLOC, GETADDR, PUTADDR,
            V3!HDRP, V3!PRED, V3!SUCC, V3!FTRP, V3!NEXT_BLKP, V3!PREV_BLKP, V3!PREV_FREE, V3!NEXT_FREE,
            HDRP, PRED, SUCC, FTRP, NEXT_BLKP, PREV_BLKP, PREV_FREE, NEXT_FREE
<1>1. V3!WSIZE = WSIZE /\ V3!NULL = NULL /\ V3!Word = Word /\ V3!heap_listp = heap_listp
  OBVIOUS
<1>2. /\ \A n, a : V3!Tag(n, a) = Tag(n, a)
      /\ \A a : V3!Address(a) = Address(a)
  OBVIOUS
<1>3. \A h, p, t : V3!PUT(h, p, t) = PUT(h, p, t)
  OBVIOUS
<1>4. \A h, p : V3!GET_SIZE(h, p) = GET_SIZE(h, p)
  OBVIOUS
<1>5. \A h, p : V3!GET_ALLOC(h, p) = GET_ALLOC(h, p)
  OBVIOUS
<1>6. \A h, p : V3!GETADDR(h, p) = GETADDR(h, p)
  OBVIOUS
<1>7. \A h, p, a : V3!PUTADDR(h, p, a) = PUTADDR(h, p, a)
  OBVIOUS
<1>8. \A b : V3!HDRP(b) = HDRP(b) /\ V3!PRED(b) = PRED(b) /\ V3!SUCC(b) = SUCC(b)
  OBVIOUS
<1>9. \A h, b : V3!FTRP(h, b) = FTRP(h, b)
  OBVIOUS
<1>10. \A h, b : V3!NEXT_BLKP(h, b) = NEXT_BLKP(h, b)
  OBVIOUS
<1>11. \A h, b : V3!PREV_BLKP(h, b) = PREV_BLKP(h, b)
  OBVIOUS
<1>12. \A h, b : V3!PREV_FREE(h, b) = PREV_FREE(h, b)
  OBVIOUS
<1>13. \A h, b : V3!NEXT_FREE(h, b) = NEXT_FREE(h, b)
  OBVIOUS
<1>14. \A h, b, n, a : V3!PutBoth(h, b, n, a) = PutBoth(h, b, n, a)
  BY DEF V3!PutBoth, PutBoth
<1>15. \A h : V3!NextBlocks(h) = NextBlocks(h)
  BY DEF V3!NextBlocks, NextBlocks
<1>16. \A f, n : V3!Walk(f, n) = Walk(f, n)
  BY DEF V3!Walk, Walk
<1>17. \A h, n : V3!mem_sbrk(h, n) = mem_sbrk(h, n)
  BY DEF V3!mem_sbrk, mem_sbrk
<1>18. \A h, n : V3!mem_sbrk_fails(h, n) = mem_sbrk_fails(h, n)
  BY DEF V3!mem_sbrk_fails, mem_sbrk_fails
<1>19. \A h : V3!Prologue(h) = Prologue(h)
  BY DEF V3!Prologue, Prologue
<1>20. \A h, t, f, n : V3!memcpy(h, t, f, n) = memcpy(h, t, f, n)
  BY DEF V3!memcpy, memcpy, V3!Data, Data
<1>21. \A h, b : V3!Result(h, b) = Result(h, b)
  BY DEF V3!Result, Result
<1> QED
  BY <1>1, <1>2, <1>3, <1>4, <1>5, <1>6, <1>7, <1>8, <1>9, <1>10, <1>11, <1>12, <1>13,
     <1>14, <1>15, <1>16, <1>17, <1>18, <1>19, <1>20, <1>21

(* What g leaves of h, but for the words and the head of the list.         *)
SameRest(g, h) == g.file = h.file /\ g.brk = h.brk /\ g.flag = h.flag

(* A tag carries its size and its alloc bit, and no data.                  *)
LEMMA TagIs ==
    ASSUME NEW n \in Nat, NEW a \in {0, 1}
    PROVE  /\ Tag(n, a) \in WordValue
           /\ Tag(n, a).size = n /\ Tag(n, a).alloc = a /\ Tag(n, a).id = NoId
BY DEF Tag, WordValue, NULL

(* A word that holds an address is no tag of a block in use.               *)
LEMMA AddressIs ==
    ASSUME NEW p \in Nat
    PROVE  Address(p) \in WordValue /\ Address(p).addr = p /\ Address(p).alloc = 0
BY DEF Address, WordValue

(* PUT changes the one word.                                               *)
LEMMA PutAt ==
    ASSUME NEW h \in Heap, NEW p \in Word, NEW v \in WordValue
    PROVE  LET g == PUT(h, p, v)
           IN  /\ g \in Heap /\ SameRest(g, h) /\ g.blk_headp = h.blk_headp
               /\ \A q \in Word : g.mem[q] = IF q = p THEN v ELSE h.mem[q]
BY DEF PUT, Heap, Memory, SameRest

(* g is h with the header and the footer of a block of n words at b.       *)
PutsBoth(g, h, b, n, a) ==
    /\ g \in Heap /\ SameRest(g, h) /\ g.blk_headp = h.blk_headp
    /\ \A q \in Word : g.mem[q] = IF q = b - 1 \/ q = b + n - 2 THEN Tag(n, a) ELSE h.mem[q]

(* PutBoth writes the header and the footer.                               *)
LEMMA PutBothAt ==
    ASSUME NEW h \in Heap, NEW b \in Nat, NEW n \in Nat, NEW a \in {0, 1},
           b - 1 \in Word, b + n - 2 \in Word
    PROVE  PutsBoth(PutBoth(h, b, n, a), h, b, n, a)
<1> DEFINE v == Tag(n, a)
           h1 == PUT(h, b - 1, v)
           g == PUT(h1, b + n - 2, v)
<1>1. v \in WordValue /\ v.size = n
  BY TagIs
<1> HIDE DEF v
<1>2. /\ h1 \in Heap /\ SameRest(h1, h) /\ h1.blk_headp = h.blk_headp
      /\ \A q \in Word : h1.mem[q] = IF q = b - 1 THEN v ELSE h.mem[q]
  BY <1>1, PutAt
<1>3. h1.mem[b - 1].size = n
  BY <1>1, <1>2
<1>4. PutBoth(h, b, n, a) = g
  BY <1>3 DEF PutBoth, HDRP, FTRP, GET_SIZE, v
<1> HIDE DEF h1
<1>5. /\ g \in Heap /\ SameRest(g, h1) /\ g.blk_headp = h1.blk_headp
      /\ \A q \in Word : g.mem[q] = IF q = b + n - 2 THEN v ELSE h1.mem[q]
  BY <1>1, <1>2, PutAt
<1> HIDE DEF g
<1> QED  BY <1>2, <1>4, <1>5 DEF SameRest, v, PutsBoth

(* g is h with the address a in the two words at p.                        *)
PutsAddr(g, h, p, a) ==
    /\ g \in Heap /\ SameRest(g, h) /\ g.blk_headp = h.blk_headp
    /\ g.mem[p].addr = a /\ g.mem[p].alloc = 0
    /\ \A q \in Word : q # p /\ q # p + 1 => g.mem[q] = h.mem[q]

(* PUTADDR changes the two words at p.                                     *)
LEMMA PutAddrAt ==
    ASSUME NEW h \in Heap, NEW p \in Word, p + 1 \in Word, NEW a \in Nat
    PROVE  PutsAddr(PUTADDR(h, p, a), h, p, a)
<1> DEFINE v == Address(a)  z == Address(NULL)
           g == [h EXCEPT !.mem[p] = v, !.mem[p + 1] = z]
<1>1. v \in WordValue /\ z \in WordValue /\ v.addr = a /\ v.alloc = 0
  BY AddressIs DEF NULL
<1> HIDE DEF v, z
<1>2. /\ g \in Heap /\ SameRest(g, h) /\ g.blk_headp = h.blk_headp
      /\ g.mem[p].addr = a /\ g.mem[p].alloc = 0
      /\ \A q \in Word : q # p /\ q # p + 1 => g.mem[q] = h.mem[q]
  <2>1. p # p + 1
    BY HeapAssumption DEF Word
  <2> QED  BY <1>1, <2>1 DEF Heap, Memory, SameRest
<1> QED  BY <1>2 DEF PUTADDR, v, z, PutsAddr

(***************************************************************************)
(* The list: s[1], ..., s[n] are its nodes, each of which has its links in *)
(* its first four words.                                                   *)
(***************************************************************************)
LinkWords(b) == b .. b + 3
Clear(a, b) == a + 4 <= b \/ b + 4 <= a
NodeAt(b) == b \in Nat /\ b >= 1 /\ b + 3 \in Word
Links(h, s, n) ==
    /\ n \in Nat /\ s \in [1 .. n -> Nat]
    /\ h.blk_headp = IF n = 0 THEN NULL ELSE s[1]
    /\ \A k \in 1 .. n :
        /\ NodeAt(s[k]) /\ h.mem[s[k]].alloc = 0
        /\ h.mem[s[k]].addr = IF k = 1 THEN NULL ELSE s[k - 1]
        /\ h.mem[s[k] + 2].addr = IF k = n THEN NULL ELSE s[k + 1]
    /\ \A j, k \in 1 .. n : j # k => Clear(s[j], s[k])

Nodes(s, n) == {s[k] : k \in 1 .. n}
Pushed(s, n, b) == [k \in 1 .. n + 1 |-> IF k = 1 THEN b ELSE s[k - 1]]
Dropped(s, n, k) == [j \in 1 .. n - 1 |-> IF j < k THEN s[j] ELSE s[j + 1]]

(* The words that are no link of a node, nor of b.                         *)
Outside(q, s, n) == \A k \in 1 .. n : q \notin LinkWords(s[k])

(* A list stays one when the head and its nodes' links stay.               *)
LEMMA SameLinks ==
    ASSUME NEW h \in Heap, NEW g \in Heap, NEW s, NEW n, Links(h, s, n),
           g.blk_headp = h.blk_headp,
           \A k \in 1 .. n : \A q \in LinkWords(s[k]) : g.mem[q] = h.mem[q]
    PROVE  Links(g, s, n)
<1>1. n \in Nat
  BY DEF Links
<1>2. \A k \in 1 .. n : g.mem[s[k]] = h.mem[s[k]] /\ g.mem[s[k] + 2] = h.mem[s[k] + 2]
  <2> TAKE k \in 1 .. n
  <2>1. s[k] \in LinkWords(s[k]) /\ s[k] + 2 \in LinkWords(s[k])
    BY DEF Links, LinkWords
  <2> QED  BY <2>1
<1> QED  BY <1>2 DEF Links

(* add_node puts a node apart from the others in front of the list.        *)
LEMMA AddNode ==
    ASSUME NEW h \in Heap, NEW s, NEW n, Links(h, s, n),
           NEW b, NodeAt(b), \A k \in 1 .. n : Clear(b, s[k])
    PROVE  LET g == V3!add_node(h, b)
           IN  /\ g \in Heap /\ SameRest(g, h)
               /\ Links(g, Pushed(s, n, b), n + 1)
               /\ \A q \in Word : Outside(q, s, n) /\ q \notin LinkWords(b)
                                  => g.mem[q] = h.mem[q]
<1> DEFINE head == h.blk_headp
           h1 == IF head # 0 THEN PUTADDR(h, head, b) ELSE h
           h2 == PUTADDR(h1, b + 2, head)
           h3 == PUTADDR(h2, b, 0)
           g == [h3 EXCEPT !.blk_headp = b]
           t == Pushed(s, n, b)
<1>1. /\ n \in Nat /\ b \in Nat /\ b >= 1 /\ b + 3 \in Word
      /\ b \in Word /\ b + 1 \in Word /\ b + 2 \in Word /\ head \in Nat
      /\ head # 0 <=> n # 0
      /\ head # 0 => head = s[1]
  BY HeapAssumption DEF Links, NodeAt, Word, Heap, NULL
<1>2. \A k \in 1 .. n : /\ s[k] \in Nat /\ s[k] >= 1 /\ s[k] + 3 \in Word
                        /\ s[k] \in Word /\ s[k] + 1 \in Word /\ s[k] + 2 \in Word
                        /\ s[k] + 4 <= b \/ b + 4 <= s[k]
  BY HeapAssumption DEF Links, NodeAt, Word, Clear
<1>3. V3!add_node(h, b) = g
  BY V3Words DEF V3!add_node, NULL, PRED, SUCC
<1>4. /\ h1 \in Heap /\ SameRest(h1, h) /\ h1.blk_headp = h.blk_headp
      /\ n # 0 => h1.mem[s[1]].addr = b /\ h1.mem[s[1]].alloc = 0
      /\ \A q \in Word : (n = 0 \/ (q # s[1] /\ q # s[1] + 1)) => h1.mem[q] = h.mem[q]
  <2>1. CASE head # 0
    <3>1. 1 \in 1 .. n
      BY <2>1, <1>1
    <3>2. head \in Word /\ head + 1 \in Word /\ h1 = PUTADDR(h, head, b)
      BY <2>1, <3>1, <1>1, <1>2
    <3> HIDE DEF head, h1
    <3>3. PutsAddr(h1, h, head, b)
      BY <1>1, <3>2, PutAddrAt
    <3> QED  BY <1>1, <2>1, <3>3 DEF PutsAddr
  <2>2. CASE head = 0
    BY <1>1, <2>2 DEF SameRest
  <2> QED  BY <2>1, <2>2
<1> HIDE DEF h1
<1>5. /\ h2 \in Heap /\ SameRest(h2, h1) /\ h2.blk_headp = h1.blk_headp
      /\ h2.mem[b + 2].addr = head
      /\ \A q \in Word : q # b + 2 /\ q # b + 3 => h2.mem[q] = h1.mem[q]
  <2>1. b + 2 + 1 = b + 3
    BY <1>1
  <2> HIDE DEF head
  <2>2. PutsAddr(h2, h1, b + 2, head)
    BY <1>1, <1>4, <2>1, PutAddrAt
  <2> QED  BY <2>1, <2>2 DEF PutsAddr
<1> HIDE DEF h2
<1>6. /\ h3 \in Heap /\ SameRest(h3, h2) /\ h3.blk_headp = h2.blk_headp
      /\ h3.mem[b].addr = 0 /\ h3.mem[b].alloc = 0
      /\ \A q \in Word : q # b /\ q # b + 1 => h3.mem[q] = h2.mem[q]
  <2>1. PutsAddr(h3, h2, b, 0)
    BY <1>1, <1>5, PutAddrAt
  <2> QED  BY <2>1 DEF PutsAddr
<1> HIDE DEF h3
<1>7. g \in Heap /\ SameRest(g, h3) /\ g.blk_headp = b /\ g.mem = h3.mem
  BY <1>1, <1>6 DEF Heap, SameRest
<1> HIDE DEF g
<1>8. \A q \in Word : q \notin LinkWords(b) /\ (n = 0 \/ (q # s[1] /\ q # s[1] + 1))
                      => g.mem[q] = h.mem[q]
  <2> TAKE q \in Word
  <2> HAVE q \notin LinkWords(b) /\ (n = 0 \/ (q # s[1] /\ q # s[1] + 1))
  <2>1. q # b /\ q # b + 1 /\ q # b + 2 /\ q # b + 3
    BY <1>1 DEF LinkWords
  <2> QED  BY <1>4, <1>5, <1>6, <1>7, <2>1
<1>9. \A q \in Word : Outside(q, s, n) /\ q \notin LinkWords(b) => g.mem[q] = h.mem[q]
  <2> TAKE q \in Word
  <2> HAVE Outside(q, s, n) /\ q \notin LinkWords(b)
  <2>1. ASSUME n # 0 PROVE q # s[1] /\ q # s[1] + 1
    <3>1. 1 \in 1 .. n
      BY <1>1, <2>1
    <3> QED  BY <1>2, <3>1 DEF Outside, LinkWords
  <2> QED  BY <1>8, <2>1
<1>10. g.mem[b].addr = 0 /\ g.mem[b].alloc = 0 /\ g.mem[b + 2].addr = head
  BY <1>1, <1>5, <1>6, <1>7
<1>11. n # 0 => g.mem[s[1]].addr = b /\ g.mem[s[1]].alloc = 0
  <2> HAVE n # 0
  <2>1. 1 \in 1 .. n
    BY <1>1
  <2>2. s[1] \in Word /\ s[1] # b /\ s[1] # b + 1 /\ s[1] # b + 2 /\ s[1] # b + 3
    BY <1>1, <1>2, <2>1
  <2> QED  BY <1>4, <1>5, <1>6, <1>7, <2>2
<1>12. ASSUME NEW k \in 1 .. n
       PROVE  /\ g.mem[s[k] + 2].addr = IF k = n THEN 0 ELSE s[k + 1]
              /\ k # 1 => g.mem[s[k]].addr = s[k - 1] /\ g.mem[s[k]].alloc = 0
  <2>1. /\ s[k] \in Word /\ s[k] + 2 \in Word
        /\ s[k] \notin LinkWords(b) /\ s[k] + 2 \notin LinkWords(b)
    BY <1>1, <1>2 DEF LinkWords
  <2>2. /\ s[k] + 2 # s[1] /\ s[k] + 2 # s[1] + 1
        /\ k # 1 => s[k] # s[1] /\ s[k] # s[1] + 1
    <3>1. 1 \in 1 .. n
      BY <1>1
    <3>2. k = 1 \/ s[1] + 4 <= s[k] \/ s[k] + 4 <= s[1]
      BY <3>1 DEF Links, Clear
    <3> QED  BY <1>2, <3>1, <3>2
  <2>3. /\ g.mem[s[k] + 2] = h.mem[s[k] + 2]
        /\ k # 1 => g.mem[s[k]] = h.mem[s[k]]
    BY <1>8, <2>1, <2>2
  <2> QED  BY <2>3 DEF Links, NULL
<1>13. /\ t \in [1 .. n + 1 -> Nat] /\ t[1] = b
       /\ \A k \in 1 .. n + 1 : k # 1 => k - 1 \in 1 .. n /\ t[k] = s[k - 1]
  BY <1>1, <1>2 DEF Pushed
<1> HIDE DEF t
<1>14. \A k \in 1 .. n + 1 :
          /\ NodeAt(t[k]) /\ g.mem[t[k]].alloc = 0
          /\ g.mem[t[k]].addr = IF k = 1 THEN 0 ELSE t[k - 1]
          /\ g.mem[t[k] + 2].addr = IF k = n + 1 THEN 0 ELSE t[k + 1]
  <2> TAKE k \in 1 .. n + 1
  <2>1. CASE k = 1
    <3>1. CASE n = 0
      BY <1>1, <1>10, <1>13, <2>1, <3>1 DEF NodeAt
    <3>2. CASE n # 0
      <4>1. 2 \in 1 .. n + 1 /\ t[2] = s[1]
        BY <1>1, <1>13, <3>2
      <4>2. head = s[1]
        BY <1>1, <3>2
      <4>3. k + 1 = 2 /\ k # n + 1
        BY <1>1, <2>1, <3>2
      <4> HIDE DEF head
      <4> QED  BY <1>1, <1>10, <1>13, <2>1, <4>1, <4>2, <4>3 DEF NodeAt
    <3> QED  BY <3>1, <3>2
  <2>2. CASE k # 1
    <3> DEFINE j == k - 1
    <3>1. j \in 1 .. n /\ t[k] = s[j] /\ k = j + 1 /\ j \in Int
      BY <1>1, <1>13, <2>2
    <3>2. NodeAt(s[j])
      BY <3>1 DEF Links
    <3>3. g.mem[s[j] + 2].addr = IF j = n THEN 0 ELSE s[j + 1]
      BY <1>12, <3>1
    <3>4. g.mem[s[j]].alloc = 0 /\ g.mem[s[j]].addr = IF j = 1 THEN b ELSE s[j - 1]
      <4>1. j = 1 => n # 0
        BY <1>1, <3>1
      <4> QED  BY <1>11, <1>12, <3>1, <4>1
    <3>5. t[k - 1] = IF j = 1 THEN b ELSE s[j - 1]
      <4>1. k - 1 \in 1 .. n + 1 /\ k - 1 = j
        BY <1>1, <3>1
      <4> QED  BY <1>13, <4>1
    <3>6. j # n => t[k + 1] = s[j + 1]
      <4> HAVE j # n
      <4>1. k + 1 \in 1 .. n + 1 /\ k + 1 # 1 /\ (k + 1) - 1 = j + 1
        BY <1>1, <3>1
      <4> QED  BY <1>13, <4>1
    <3>7. j = n <=> k = n + 1
      BY <1>1, <3>1
    <3> HIDE DEF j
    <3> QED  BY <2>2, <3>1, <3>2, <3>3, <3>4, <3>5, <3>6, <3>7
  <2> QED  BY <2>1, <2>2
<1>15. \A i, j \in 1 .. n + 1 : i # j => Clear(t[i], t[j])
  <2> TAKE i, j \in 1 .. n + 1
  <2> HAVE i # j
  <2>1. CASE i = 1
    <3>1. j - 1 \in 1 .. n /\ t[j] = s[j - 1] /\ t[i] = b
      BY <1>13, <2>1
    <3> QED  BY <1>2, <3>1 DEF Clear
  <2>2. CASE j = 1
    <3>1. i - 1 \in 1 .. n /\ t[i] = s[i - 1] /\ t[j] = b
      BY <1>13, <2>2
    <3> QED  BY <1>2, <3>1 DEF Clear
  <2>3. CASE i # 1 /\ j # 1
    <3>1. /\ i - 1 \in 1 .. n /\ t[i] = s[i - 1] /\ j - 1 \in 1 .. n /\ t[j] = s[j - 1]
          /\ i - 1 # j - 1
      BY <1>13, <2>3
    <3> QED  BY <3>1 DEF Links
  <2> QED  BY <2>1, <2>2, <2>3
<1>16. Links(g, t, n + 1)
  <2>1. g.blk_headp = t[1] /\ n + 1 \in Nat /\ n + 1 # 0
    BY <1>1, <1>7, <1>13
  <2> QED  BY <1>13, <1>14, <1>15, <2>1 DEF Links, NULL
<1>17. g \in Heap /\ SameRest(g, h)
  BY <1>4, <1>5, <1>6, <1>7 DEF SameRest
<1> QED  BY <1>3, <1>9, <1>16, <1>17 DEF t

(* remove_node takes a node out, wherever it is, and writes only links.    *)
LEMMA RemoveNode ==
    ASSUME NEW h \in Heap, NEW s, NEW n, Links(h, s, n), NEW k \in 1 .. n
    PROVE  LET g == V3!remove_node(h, s[k])
           IN  /\ g \in Heap /\ SameRest(g, h)
               /\ Links(g, Dropped(s, n, k), n - 1)
               /\ \A q \in Word : Outside(q, s, n) => g.mem[q] = h.mem[q]
<1> DEFINE b == s[k]
           prev == h.mem[b].addr
           next == h.mem[b + 2].addr
           h1 == IF prev # 0 THEN PUTADDR(h, prev + 2, next)
                 ELSE [h EXCEPT !.blk_headp = next]
           h2 == IF next # 0 THEN PUTADDR(h1, next, prev) ELSE h1
           h3 == PUTADDR(h2, b, 0)
           g == PUTADDR(h3, b + 2, 0)
           t == Dropped(s, n, k)
<1>1. V3!remove_node(h, b) = g
  BY V3Words DEF V3!remove_node, NULL, PRED, SUCC, PREV_FREE, NEXT_FREE, GETADDR
<1>2. /\ n \in Nat /\ k \in Nat /\ k >= 1 /\ k <= n
      /\ prev = IF k = 1 THEN 0 ELSE s[k - 1]
      /\ next = IF k = n THEN 0 ELSE s[k + 1]
      /\ h.blk_headp = s[1]
  BY DEF Links, NULL
<1>3. \A j \in 1 .. n : /\ s[j] \in Nat /\ s[j] >= 1 /\ s[j] + 3 \in Word
                        /\ s[j] \in Word /\ s[j] + 1 \in Word /\ s[j] + 2 \in Word
  BY HeapAssumption DEF Links, NodeAt, Word
<1>4. \A i, j \in 1 .. n : i # j => s[i] + 4 <= s[j] \/ s[j] + 4 <= s[i]
  BY DEF Links, Clear
<1>5. /\ k # 1 => k - 1 \in 1 .. n
      /\ k # n => k + 1 \in 1 .. n
  BY <1>2
<1>6. /\ b \in Nat /\ b \in Word /\ b + 1 \in Word /\ b + 2 \in Word /\ b + 3 \in Word
      /\ prev # 0 <=> k # 1
      /\ next # 0 <=> k # n
      /\ prev \in Nat /\ next \in Nat
      /\ prev # 0 => /\ prev = s[k - 1] /\ prev + 2 \in Word /\ prev + 3 \in Word
                     /\ prev + 4 <= b \/ b + 4 <= prev
      /\ next # 0 => /\ next = s[k + 1] /\ next \in Word /\ next + 1 \in Word
                     /\ next + 4 <= b \/ b + 4 <= next
      /\ prev # 0 /\ next # 0 => prev + 4 <= next \/ next + 4 <= prev
  <2>1. b \in Nat /\ b \in Word /\ b + 1 \in Word /\ b + 2 \in Word /\ b + 3 \in Word
    BY <1>3
  <2>2. k # 1 => s[k - 1] # 0 /\ s[k - 1] \in Nat /\ s[k - 1] + 2 \in Word /\ s[k - 1] + 3 \in Word
                 /\ (s[k - 1] + 4 <= b \/ b + 4 <= s[k - 1])
    <3>1. k - 1 # k
      BY <1>2
    <3> QED  BY <1>3, <1>4, <1>5, <3>1
  <2>3. k # n => s[k + 1] # 0 /\ s[k + 1] \in Nat /\ s[k + 1] \in Word /\ s[k + 1] + 1 \in Word
                 /\ (s[k + 1] + 4 <= b \/ b + 4 <= s[k + 1])
    <3>1. k + 1 # k
      BY <1>2
    <3> QED  BY <1>3, <1>4, <1>5, <3>1
  <2>4. k # 1 /\ k # n => s[k - 1] + 4 <= s[k + 1] \/ s[k + 1] + 4 <= s[k - 1]
    <3>1. k - 1 # k + 1
      BY <1>2
    <3> QED  BY <1>4, <1>5, <3>1
  <2> HIDE DEF b, prev, next
  <2> QED  BY <1>2, <2>1, <2>2, <2>3, <2>4
<1> HIDE DEF b, prev, next
<1>7. /\ h1 \in Heap /\ SameRest(h1, h)
      /\ h1.blk_headp = IF k = 1 THEN next ELSE h.blk_headp
      /\ prev # 0 => h1.mem[prev + 2].addr = next
      /\ \A q \in Word : (prev = 0 \/ (q # prev + 2 /\ q # prev + 3)) => h1.mem[q] = h.mem[q]
  <2>1. CASE prev # 0
    <3>1. h1 = PUTADDR(h, prev + 2, next) /\ prev + 2 + 1 = prev + 3
      BY <1>6, <2>1
    <3> HIDE DEF h1
    <3>2. PutsAddr(h1, h, prev + 2, next)
      BY <1>6, <2>1, <3>1, PutAddrAt
    <3> QED  BY <1>6, <2>1, <3>1, <3>2 DEF PutsAddr
  <2>2. CASE prev = 0
    <3>1. h1 = [h EXCEPT !.blk_headp = next]
      BY <2>2
    <3> HIDE DEF h1
    <3> QED  BY <1>6, <2>2, <3>1 DEF Heap, SameRest
  <2> QED  BY <2>1, <2>2
<1> HIDE DEF h1
<1>8. /\ h2 \in Heap /\ SameRest(h2, h1) /\ h2.blk_headp = h1.blk_headp
      /\ next # 0 => h2.mem[next].addr = prev /\ h2.mem[next].alloc = 0
      /\ \A q \in Word : (next = 0 \/ (q # next /\ q # next + 1)) => h2.mem[q] = h1.mem[q]
  <2>1. CASE next # 0
    <3>1. h2 = PUTADDR(h1, next, prev)
      BY <2>1
    <3> HIDE DEF h2
    <3>2. PutsAddr(h2, h1, next, prev)
      BY <1>6, <1>7, <2>1, <3>1, PutAddrAt
    <3> QED  BY <2>1, <3>2 DEF PutsAddr
  <2>2. CASE next = 0
    BY <1>7, <2>2 DEF SameRest
  <2> QED  BY <2>1, <2>2
<1> HIDE DEF h2
<1>9. /\ h3 \in Heap /\ SameRest(h3, h2) /\ h3.blk_headp = h2.blk_headp
      /\ \A q \in Word : q # b /\ q # b + 1 => h3.mem[q] = h2.mem[q]
  <2>1. PutsAddr(h3, h2, b, 0)
    BY <1>6, <1>8, PutAddrAt
  <2> QED  BY <2>1 DEF PutsAddr
<1> HIDE DEF h3
<1>10. /\ g \in Heap /\ SameRest(g, h3) /\ g.blk_headp = h3.blk_headp
       /\ \A q \in Word : q # b + 2 /\ q # b + 3 => g.mem[q] = h3.mem[q]
  <2>1. b + 2 + 1 = b + 3
    BY <1>6
  <2>2. PutsAddr(g, h3, b + 2, 0)
    BY <1>6, <1>9, <2>1, PutAddrAt
  <2> QED  BY <2>1, <2>2 DEF PutsAddr
<1> HIDE DEF g
<1>11. /\ g.blk_headp = IF k = 1 THEN next ELSE h.blk_headp
       /\ g \in Heap /\ SameRest(g, h)
  BY <1>7, <1>8, <1>9, <1>10 DEF SameRest
<1>12. \A q \in Word :
          q # b /\ q # b + 1 /\ q # b + 2 /\ q # b + 3 =>
             /\ (prev = 0 \/ (q # prev + 2 /\ q # prev + 3)) /\ (next = 0 \/ (q # next /\ q # next + 1))
                   => g.mem[q] = h.mem[q]
             /\ prev # 0 /\ q = prev + 2 /\ (next = 0 \/ (q # next /\ q # next + 1))
                   => g.mem[q].addr = next
             /\ next # 0 /\ q = next => g.mem[q].addr = prev /\ g.mem[q].alloc = 0
  BY <1>7, <1>8, <1>9, <1>10
<1>13. ASSUME NEW j \in 1 .. n, j # k
       PROVE  /\ g.mem[s[j]].addr = IF j = k + 1 THEN prev ELSE h.mem[s[j]].addr
              /\ g.mem[s[j] + 2].addr = IF j = k - 1 THEN next ELSE h.mem[s[j] + 2].addr
              /\ g.mem[s[j]].alloc = 0
  <2>1. /\ s[j] \in Word /\ s[j] + 2 \in Word /\ s[j] \in Nat
        /\ s[j] # b /\ s[j] # b + 1 /\ s[j] # b + 2 /\ s[j] # b + 3
        /\ s[j] + 2 # b /\ s[j] + 2 # b + 1 /\ s[j] + 2 # b + 2 /\ s[j] + 2 # b + 3
    <3>1. s[j] + 4 <= b \/ b + 4 <= s[j]
      BY <1>4, <1>13 DEF b
    <3>2. s[j] \in Nat /\ s[j] \in Word /\ s[j] + 2 \in Word
      BY <1>3
    <3> QED  BY <1>6, <3>1, <3>2
  <2>2. prev # 0 /\ j # k - 1 => prev + 4 <= s[j] \/ s[j] + 4 <= prev
    BY <1>4, <1>5, <1>6
  <2>3. next # 0 /\ j # k + 1 => next + 4 <= s[j] \/ s[j] + 4 <= next
    BY <1>4, <1>5, <1>6
  <2>4. /\ j = k + 1 => next # 0 /\ next = s[j]
        /\ j = k - 1 => prev # 0 /\ prev = s[j]
    BY <1>2, <1>6
  <2>5. j = k + 1 => j # k - 1
    BY <1>2
  <2>9. h.mem[s[j]].alloc = 0
    BY DEF Links
  <2>6. CASE j = k + 1
    <3>1. prev # 0 => s[j] + 2 # prev + 2 /\ s[j] + 2 # prev + 3
      BY <1>6, <2>1, <2>2, <2>5, <2>6
    <3>2. s[j] + 2 # s[j] /\ s[j] + 2 # s[j] + 1
      BY <2>1
    <3> QED  BY <1>12, <2>1, <2>4, <2>5, <2>6, <2>9, <3>1, <3>2
  <2>7. CASE j = k - 1
    <3>1. next # 0 => /\ s[j] # next /\ s[j] # next + 1
                      /\ s[j] + 2 # next /\ s[j] + 2 # next + 1
      BY <1>6, <2>1, <2>3, <2>5, <2>7
    <3>2. s[j] + 2 # s[j] /\ s[j] + 3 # s[j]
      BY <2>1
    <3> QED  BY <1>12, <2>1, <2>4, <2>5, <2>7, <2>9, <3>1, <3>2
  <2>8. CASE j # k + 1 /\ j # k - 1
    <3>1. next # 0 => /\ s[j] # next /\ s[j] # next + 1
                      /\ s[j] + 2 # next /\ s[j] + 2 # next + 1
      BY <1>6, <2>1, <2>3, <2>8
    <3>2. prev # 0 => /\ s[j] # prev + 2 /\ s[j] # prev + 3
                      /\ s[j] + 2 # prev + 2 /\ s[j] + 2 # prev + 3
      BY <1>6, <2>1, <2>2, <2>8
    <3> QED  BY <1>12, <2>1, <2>8, <2>9, <3>1, <3>2
  <2> QED  BY <2>6, <2>7, <2>8
<1>14. /\ t \in [1 .. n - 1 -> Nat] /\ n - 1 \in Nat
       /\ \A j \in 1 .. n - 1 :
             /\ j < k => j \in 1 .. n /\ t[j] = s[j] /\ j # k
             /\ ~(j < k) => j + 1 \in 1 .. n /\ t[j] = s[j + 1] /\ j + 1 # k
  BY <1>2, <1>3 DEF Dropped
<1> HIDE DEF t
<1>15. g.blk_headp = IF n - 1 = 0 THEN 0 ELSE t[1]
  <2>1. CASE n - 1 = 0
    <3>1. k = 1 /\ k = n
      BY <1>2, <2>1
    <3> QED  BY <1>6, <1>11, <2>1, <3>1
  <2>2. CASE n - 1 # 0
    <3>1. 1 \in 1 .. n - 1
      BY <1>2, <2>2
    <3>2. CASE k = 1
      <4>1. t[1] = s[2] /\ k # n /\ k + 1 = 2
        BY <1>2, <1>14, <2>2, <3>1, <3>2
      <4> QED  BY <1>6, <1>11, <2>2, <3>2, <4>1
    <3>3. CASE k # 1
      <4>1. t[1] = s[1]
        BY <1>2, <1>14, <3>1, <3>3
      <4> QED  BY <1>2, <1>11, <2>2, <3>3, <4>1
    <3> QED  BY <3>2, <3>3
  <2> QED  BY <2>1, <2>2
<1>16. \A j \in 1 .. n : /\ h.mem[s[j]].addr = IF j = 1 THEN 0 ELSE s[j - 1]
                         /\ h.mem[s[j] + 2].addr = IF j = n THEN 0 ELSE s[j + 1]
  BY DEF Links, NULL
<1>17. \A j \in 1 .. n - 1 :
          /\ NodeAt(t[j]) /\ g.mem[t[j]].alloc = 0
          /\ g.mem[t[j]].addr = IF j = 1 THEN 0 ELSE t[j - 1]
          /\ g.mem[t[j] + 2].addr = IF j = n - 1 THEN 0 ELSE t[j + 1]
  <2> TAKE j \in 1 .. n - 1
  <2>1. CASE j < k
    <3>1. j \in 1 .. n /\ t[j] = s[j] /\ j # k /\ j # k + 1
      BY <1>2, <1>14, <2>1
    <3>2. NodeAt(s[j])
      BY <3>1 DEF Links
    <3>3. j # 1 => t[j - 1] = s[j - 1]
      <4> HAVE j # 1
      <4>1. j - 1 \in 1 .. n - 1 /\ j - 1 < k
        BY <1>2, <2>1
      <4> QED  BY <1>14, <4>1
    <3>4. g.mem[s[j]].alloc = 0 /\ g.mem[s[j]].addr = IF j = 1 THEN 0 ELSE s[j - 1]
      BY <1>13, <1>16, <3>1
    <3>5. g.mem[s[j] + 2].addr = IF j = n - 1 THEN 0 ELSE t[j + 1]
      <4>1. CASE j = k - 1
        <5>1. g.mem[s[j] + 2].addr = next
          BY <1>13, <3>1, <4>1
        <5>2. j = n - 1 <=> k = n
          BY <1>2, <4>1
        <5>3. j # n - 1 => t[j + 1] = s[k + 1]
          <6> HAVE j # n - 1
          <6>1. j + 1 \in 1 .. n - 1 /\ ~(j + 1 < k) /\ j + 1 + 1 = k + 1
            BY <1>2, <4>1
          <6> QED  BY <1>14, <6>1
        <5> QED  BY <1>6, <5>1, <5>2, <5>3
      <4>2. CASE j # k - 1
        <5>1. j + 1 \in 1 .. n - 1 /\ j + 1 < k /\ j # n - 1 /\ j # n
          BY <1>2, <2>1, <4>2
        <5>2. t[j + 1] = s[j + 1]
          BY <1>14, <5>1
        <5> QED  BY <1>13, <1>16, <3>1, <4>2, <5>1, <5>2
      <4> QED  BY <4>1, <4>2
    <3> QED  BY <3>1, <3>2, <3>3, <3>4, <3>5
  <2>2. CASE ~(j < k)
    <3> DEFINE i == j + 1
    <3>1. i \in 1 .. n /\ t[j] = s[i] /\ i # k /\ i # k - 1 /\ i # 1 /\ i \in Int
      BY <1>2, <1>14, <2>2
    <3>2. NodeAt(s[i])
      BY <3>1 DEF Links
    <3>3. g.mem[s[i] + 2].addr = IF j = n - 1 THEN 0 ELSE t[j + 1]
      <4>1. g.mem[s[i] + 2].addr = IF i = n THEN 0 ELSE s[i + 1]
        BY <1>13, <1>16, <3>1
      <4>2. j = n - 1 <=> i = n
        BY <1>2
      <4>3. j # n - 1 => t[j + 1] = s[i + 1]
        <5> HAVE j # n - 1
        <5>1. j + 1 \in 1 .. n - 1 /\ ~(j + 1 < k) /\ j + 1 + 1 = i + 1
          BY <1>2, <2>2
        <5> QED  BY <1>14, <5>1
      <4> QED  BY <4>1, <4>2, <4>3
    <3>6. g.mem[s[i]].alloc = 0
      BY <1>13, <3>1
    <3>4. g.mem[s[i]].addr = IF j = 1 THEN 0 ELSE t[j - 1]
      <4>1. CASE j = k
        <5>1. g.mem[s[i]].addr = prev
          BY <1>13, <3>1, <4>1
        <5>2. j # 1 => t[j - 1] = s[k - 1]
          <6> HAVE j # 1
          <6>1. j - 1 \in 1 .. n - 1 /\ j - 1 < k
            BY <1>2, <4>1
          <6> QED  BY <1>14, <4>1, <6>1
        <5> QED  BY <1>6, <4>1, <5>1, <5>2
      <4>2. CASE j # k
        <5>1. j - 1 \in 1 .. n - 1 /\ ~(j - 1 < k) /\ j - 1 + 1 = i - 1 /\ j # 1 /\ i # k + 1
          BY <1>2, <2>2, <4>2
        <5>2. t[j - 1] = s[i - 1]
          BY <1>14, <5>1
        <5>3. g.mem[s[i]].addr = s[i - 1]
          BY <1>13, <1>16, <3>1, <5>1
        <5> QED  BY <5>1, <5>2, <5>3
      <4> QED  BY <4>1, <4>2
    <3> HIDE DEF i
    <3> QED  BY <3>1, <3>2, <3>3, <3>4, <3>6
  <2> QED  BY <2>1, <2>2
<1>18. \A i, j \in 1 .. n - 1 : i # j => Clear(t[i], t[j])
  <2> TAKE i, j \in 1 .. n - 1
  <2> HAVE i # j
  <2>1. PICK x \in 1 .. n : t[i] = s[x] /\ x = IF i < k THEN i ELSE i + 1
    BY <1>14
  <2>2. PICK y \in 1 .. n : t[j] = s[y] /\ y = IF j < k THEN j ELSE j + 1
    BY <1>14
  <2>3. x # y
    BY <1>2, <2>1, <2>2
  <2> QED  BY <2>1, <2>2, <2>3 DEF Links
<1>19. Links(g, t, n - 1)
  BY <1>14, <1>15, <1>17, <1>18 DEF Links, NULL
<1>20. \A q \in Word : Outside(q, s, n) => g.mem[q] = h.mem[q]
  <2> TAKE q \in Word
  <2> HAVE Outside(q, s, n)
  <2>1. \A j \in 1 .. n : q # s[j] /\ q # s[j] + 1 /\ q # s[j] + 2 /\ q # s[j] + 3
    BY <1>3 DEF Outside, LinkWords
  <2>2. q # b /\ q # b + 1 /\ q # b + 2 /\ q # b + 3
    BY <2>1 DEF b
  <2>3. prev = 0 \/ (q # prev + 2 /\ q # prev + 3)
    BY <1>5, <1>6, <2>1
  <2>4. next = 0 \/ (q # next /\ q # next + 1)
    BY <1>5, <1>6, <2>1
  <2> QED  BY <1>12, <2>2, <2>3, <2>4
<1> QED  BY <1>1, <1>11, <1>19, <1>20 DEF t, b

(* The nodes after add_node.                                               *)
LEMMA PushedNodes ==
    ASSUME NEW n \in Nat, NEW s \in [1 .. n -> Nat], NEW b
    PROVE  Nodes(Pushed(s, n, b), n + 1) = Nodes(s, n) \cup {b}
<1> DEFINE t == Pushed(s, n, b)
<1>1. t[1] = b /\ \A k \in 1 .. n : k + 1 \in 1 .. n + 1 /\ t[k + 1] = s[k]
  BY DEF Pushed
<1>2. \A k \in 1 .. n + 1 : k # 1 => k - 1 \in 1 .. n /\ t[k] = s[k - 1]
  BY DEF Pushed
<1> HIDE DEF t
<1>3. 1 \in 1 .. n + 1
  OBVIOUS
<1>4. \A x \in Nodes(s, n) \cup {b} : \E k \in 1 .. n + 1 : x = t[k]
  BY <1>1, <1>3 DEF Nodes
<1>5. \A k \in 1 .. n + 1 : t[k] \in Nodes(s, n) \cup {b}
  BY <1>1, <1>2 DEF Nodes
<1> QED  BY <1>4, <1>5 DEF Nodes, t

(* The nodes after remove_node: no other one is lost.                      *)
LEMMA DroppedNodes ==
    ASSUME NEW h, NEW s, NEW n, Links(h, s, n), NEW k \in 1 .. n
    PROVE  Nodes(Dropped(s, n, k), n - 1) = Nodes(s, n) \ {s[k]}
<1> DEFINE t == Dropped(s, n, k)
<1>1. n \in Nat /\ \A j \in 1 .. n : j # k => s[j] # s[k]
  <2>1. \A j \in 1 .. n : s[j] \in Nat /\ (j # k => s[j] + 4 <= s[k] \/ s[k] + 4 <= s[j])
    BY DEF Links, Clear
  <2>2. n \in Nat /\ k \in 1 .. n
    BY DEF Links
  <2> QED  BY <2>1, <2>2
<1>2. \A j \in 1 .. n - 1 : \E i \in 1 .. n : i # k /\ t[j] = s[i]
  <2> TAKE j \in 1 .. n - 1
  <2>1. CASE j < k
    <3>1. j \in 1 .. n /\ t[j] = s[j] /\ j # k
      BY <1>1, <2>1 DEF Dropped
    <3> QED  BY <3>1
  <2>2. CASE ~(j < k)
    <3>1. j + 1 \in 1 .. n /\ t[j] = s[j + 1] /\ j + 1 # k
      BY <1>1, <2>2 DEF Dropped
    <3> QED  BY <3>1
  <2> QED  BY <2>1, <2>2
<1>3. \A i \in 1 .. n : i # k => \E j \in 1 .. n - 1 : t[j] = s[i]
  <2> TAKE i \in 1 .. n
  <2> HAVE i # k
  <2>1. CASE i < k
    <3>1. i \in 1 .. n - 1 /\ t[i] = s[i]
      BY <1>1, <2>1 DEF Dropped
    <3> QED  BY <3>1
  <2>2. CASE ~(i < k)
    <3>1. i - 1 \in 1 .. n - 1 /\ t[i - 1] = s[i]
      BY <1>1, <2>2 DEF Dropped
    <3> QED  BY <3>1
  <2> QED  BY <2>1, <2>2
<1> HIDE DEF t
<1> QED  BY <1>1, <1>2, <1>3 DEF Nodes, t

(***************************************************************************)
(* The blocks.  A heap m that ends at e has the blocks B, each of at least *)
(* so many words; the footers are right but those of the blocks in X.      *)
(***************************************************************************)
SameTag(v, w) == v.size = w.size /\ v.alloc = w.alloc
Tiled(m, e, B, X, least) ==
    /\ m \in Memory /\ e \in Nat /\ 4 <= e /\ e <= MAX_HEAP /\ e % 2 = 0
    /\ 2 \in B /\ m[1].size = 2 /\ m[1].alloc = 1
    /\ m[e - 1].size = 0 /\ m[e - 1].alloc = 1
    /\ \A b \in B :
        /\ b \in Nat /\ 2 <= b /\ b % 2 = 0
        /\ b = 2 \/ least <= m[b - 1].size
        /\ b + m[b - 1].size <= e /\ b + m[b - 1].size \in B \cup {e}
        /\ b \in X \/ SameTag(m[b + m[b - 1].size - 2], m[b - 1])
        /\ \A c \in B : b < c => b + m[b - 1].size <= c
    /\ \A c \in (B \cup {e}) \ {2} : \E b \in B : b + m[b - 1].size = c

Least(k) == k \in Nat /\ 4 <= k

(* What a tiling says of one block.                                        *)
LEMMA BlockFacts ==
    ASSUME NEW m, NEW e, NEW B, NEW X, NEW k, Least(k), Tiled(m, e, B, X, k), NEW b \in B
    PROVE  /\ b \in Nat /\ 2 <= b /\ b % 2 = 0 /\ b \in Word /\ b - 1 \in Word
           /\ m[b - 1].size \in Nat /\ 2 <= m[b - 1].size /\ m[b - 1].alloc \in {0, 1}
           /\ b # 2 => k <= m[b - 1].size /\ 4 <= b
           /\ e \in Nat /\ e <= MAX_HEAP /\ b + m[b - 1].size <= e
           /\ b + m[b - 1].size \in B \cup {e}
           /\ b + m[b - 1].size - 2 \in Word
           /\ b \notin X => SameTag(m[b + m[b - 1].size - 2], m[b - 1])
           /\ \A c \in B : b < c => b + m[b - 1].size <= c
<1>1. /\ b \in Nat /\ 2 <= b /\ b % 2 = 0 /\ e \in Nat /\ e <= MAX_HEAP
      /\ b = 2 \/ k <= m[b - 1].size
      /\ b + m[b - 1].size <= e /\ b + m[b - 1].size \in B \cup {e}
      /\ b \in X \/ SameTag(m[b + m[b - 1].size - 2], m[b - 1])
      /\ \A c \in B : b < c => b + m[b - 1].size <= c
      /\ m[1].size = 2 /\ m \in Memory /\ MAX_HEAP \in Nat
  BY HeapAssumption DEF Tiled
<1>2. b - 1 \in Word
  <2>1. b <= e
    <3>1. CASE b = 2
      BY <3>1 DEF Tiled
    <3>2. CASE b # 2
      <4>1. PICK c \in B : c + m[c - 1].size = b
        BY <3>2 DEF Tiled
      <4> QED  BY <1>1, <4>1 DEF Tiled
    <3> QED  BY <3>1, <3>2
  <2> QED  BY <1>1, <2>1 DEF Word
<1>3. m[b - 1].size \in Nat /\ m[b - 1].alloc \in {0, 1}
  BY <1>1, <1>2 DEF Memory, WordValue
<1>4. 2 <= m[b - 1].size
  <2>1. CASE b = 2
    BY <1>1, <2>1
  <2>2. CASE b # 2
    BY <1>1, <1>3, <2>2 DEF Least
  <2> QED  BY <2>1, <2>2
<1>5. b # 2 => 4 <= b
  <2> HAVE b # 2
  <2>1. b # 3
    BY <1>1
  <2> QED  BY <1>1, <2>1
<1>6. b \in Word /\ b + m[b - 1].size - 2 \in Word
  BY <1>1, <1>3, <1>4 DEF Word
<1> QED  BY <1>1, <1>2, <1>3, <1>4, <1>5, <1>6

(* The prologue, the epilogue, and a block before each other one.          *)
LEMMA HeapEnds ==
    ASSUME NEW m, NEW e, NEW B, NEW X, NEW k, Least(k), Tiled(m, e, B, X, k)
    PROVE  /\ e \in Nat /\ 4 <= e /\ e <= MAX_HEAP /\ e % 2 = 0 /\ e - 1 \in Word /\ e \notin B
           /\ 2 \in B /\ m[1].size = 2 /\ m[1].alloc = 1
           /\ m[e - 1].size = 0 /\ m[e - 1].alloc = 1
           /\ m \in Memory
           /\ \A b \in B : b < e /\ m[b - 1].size # 0
           /\ \A c \in (B \cup {e}) \ {2} : \E b \in B : b + m[b - 1].size = c
<1>1. \A b \in B : b < e /\ m[b - 1].size # 0
  <2> TAKE b \in B
  <2>1. b \in Nat /\ m[b - 1].size \in Nat /\ 2 <= m[b - 1].size /\ b + m[b - 1].size <= e /\ e \in Nat
    BY BlockFacts
  <2> QED  BY <2>1
<1>2. e \notin B
  <2> SUFFICES ASSUME e \in B PROVE FALSE
    OBVIOUS
  <2> QED  BY <1>1 DEF Tiled
<1>3. e - 1 \in Word
  BY HeapAssumption DEF Tiled, Word
<1> QED  BY <1>1, <1>2, <1>3 DEF Tiled

(* No block, nor the end, begins inside a block.                           *)
LEMMA NotInside ==
    ASSUME NEW m, NEW e, NEW B, NEW X, NEW k, Least(k), Tiled(m, e, B, X, k),
           NEW b \in B, NEW c \in B \cup {e}
    PROVE  c <= b \/ b + m[b - 1].size <= c
BY BlockFacts, HeapEnds

(* Words that agree in the tags have the same blocks.                      *)
LEMMA SameTiles ==
    ASSUME NEW m, NEW e, NEW B, NEW X, NEW k, Least(k), Tiled(m, e, B, X, k),
           NEW m2 \in Memory, NEW Y,
           m2[e - 1] = m[e - 1],
           \A b \in B : /\ m2[b - 1] = m[b - 1]
                        /\ b \in Y \/ (b \notin X /\ m2[b + m[b - 1].size - 2] = m[b + m[b - 1].size - 2])
    PROVE  Tiled(m2, e, B, Y, k)
<1>1. 2 \in B /\ m2[2 - 1] = m[2 - 1] /\ 2 - 1 = 1
  BY DEF Tiled
<1> QED  BY <1>1 DEF Tiled

(* One or two blocks in place of the blocks from p up to q.                *)
Cut(B, e, p, r, q) == ({b \in B : b <= p \/ q <= b} \cup {r}) \ {e}
(* Uniting the blocks from p to q, or cutting them at r, tiles the heap.   *)
LEMMA Retile ==
    ASSUME NEW m, NEW e, NEW B, NEW X, NEW k, Least(k), Tiled(m, e, B, X, k),
           NEW p \in B, p # 2, NEW q \in B \cup {e}, NEW r \in Nat, r % 2 = 0,
           p + k <= r, r = q \/ r + k <= q,
           NEW m2 \in Memory, NEW Y,
           m2[p - 1].size = r - p,
           r # q => m2[r - 1].size = q - r,
           p \in Y \/ SameTag(m2[r - 2], m2[p - 1]),
           r # q => r \in Y \/ SameTag(m2[q - 2], m2[r - 1]),
           \A w \in Word : w < p - 1 \/ q - 2 < w => SameTag(m2[w], m[w]),
           \A b \in B : b < p \/ q <= b => b \notin X \/ b \in Y
    PROVE  Tiled(m2, e, Cut(B, e, p, r, q), Y, k)
<1> DEFINE B2 == Cut(B, e, p, r, q)
<1>a. \A b \in B : b \in Nat
  BY BlockFacts
<1>b. \A c \in (B \cup {e}) \ {2} : \E b \in B : b + m[b - 1].size = c
  BY HeapEnds
<1>1. /\ p \in Nat /\ 4 <= p /\ p % 2 = 0 /\ e \in Nat /\ e <= MAX_HEAP /\ MAX_HEAP \in Nat
      /\ k \in Nat /\ 4 <= k /\ 4 <= e /\ e % 2 = 0 /\ 2 \in B /\ m[1].size = 2 /\ m[1].alloc = 1
      /\ m[e - 1].size = 0 /\ m[e - 1].alloc = 1 /\ e - 1 \in Word
      /\ q \in Nat /\ q <= e /\ e \notin B /\ q % 2 = 0
  <2>1. q \in Nat /\ q <= e /\ q % 2 = 0
    BY BlockFacts, HeapEnds
  <2> QED  BY <2>1, BlockFacts, HeapEnds, HeapAssumption DEF Least
<1>2. \A b \in B : b < p \/ q <= b =>
          /\ m2[b - 1].size = m[b - 1].size /\ m2[b - 1].alloc = m[b - 1].alloc
          /\ b \in Y \/ SameTag(m2[b + m[b - 1].size - 2], m[b - 1])
  <2> TAKE b \in B
  <2> HAVE b < p \/ q <= b
  <2>1. /\ b \in Nat /\ 2 <= b /\ m[b - 1].size \in Nat /\ 2 <= m[b - 1].size
        /\ b - 1 \in Word /\ b + m[b - 1].size - 2 \in Word
        /\ b \notin X => SameTag(m[b + m[b - 1].size - 2], m[b - 1])
        /\ b < p => b + m[b - 1].size <= p
    BY BlockFacts
  <2>2. SameTag(m2[b - 1], m[b - 1])
    BY <1>1, <2>1
  <2>3. SameTag(m2[b + m[b - 1].size - 2], m[b + m[b - 1].size - 2])
    BY <1>1, <2>1
  <2> QED  BY <2>1, <2>2, <2>3 DEF SameTag
<1>3. p \in B2 /\ (r # q => r \in B2) /\ 2 \in B2 /\ r \in B2 \cup {e}
      /\ (\A b \in B2 : b = p \/ (b = r /\ r # q) \/ (b \in B /\ (b < p \/ q <= b)))
      /\ (\A b \in B : b < p \/ q <= b => b \in B2)
      /\ q \in B2 \cup {e}
  BY <1>1, BlockFacts DEF Cut
<1>4. m2[1].size = 2 /\ m2[1].alloc = 1 /\ m2[e - 1].size = 0 /\ m2[e - 1].alloc = 1
  <2>1. 1 \in Word /\ 1 < p - 1 /\ q - 2 < e - 1
    BY <1>1 DEF Word
  <2>2. SameTag(m2[1], m[1]) /\ SameTag(m2[e - 1], m[e - 1])
    BY <1>1, <2>1
  <2> QED  BY <1>1, <2>2 DEF SameTag
<1> HIDE DEF B2
<1>5. ASSUME NEW b \in B2
      PROVE  /\ b \in Nat /\ 2 <= b /\ b % 2 = 0
             /\ b = 2 \/ k <= m2[b - 1].size
             /\ b + m2[b - 1].size <= e /\ b + m2[b - 1].size \in B2 \cup {e}
             /\ b \in Y \/ SameTag(m2[b + m2[b - 1].size - 2], m2[b - 1])
             /\ \A c \in B2 : b < c => b + m2[b - 1].size <= c
  <2>1. CASE b = p
    <3>1. b + m2[b - 1].size = r
      BY <1>1, <2>1
    <3>2. \A c \in B2 : p < c => r <= c
      BY <1>1, <1>3
    <3> QED  BY <1>1, <1>3, <2>1, <3>1, <3>2
  <2>2. CASE b = r /\ r # q
    <3>1. b + m2[b - 1].size = q
      BY <1>1, <2>2
    <3>2. \A c \in B2 : r < c => q <= c
      BY <1>1, <1>3
    <3> QED  BY <1>1, <1>3, <2>2, <3>1, <3>2
  <2>3. CASE b \in B /\ (b < p \/ q <= b)
    <3>1. /\ b \in Nat /\ 2 <= b /\ b % 2 = 0 /\ m[b - 1].size \in Nat /\ 2 <= m[b - 1].size
          /\ b # 2 => k <= m[b - 1].size
          /\ b + m[b - 1].size <= e /\ b + m[b - 1].size \in B \cup {e}
          /\ \A c \in B : b < c => b + m[b - 1].size <= c
      BY <2>3, BlockFacts
    <3>2. m2[b - 1].size = m[b - 1].size /\ m2[b - 1].alloc = m[b - 1].alloc
          /\ (b \in Y \/ SameTag(m2[b + m[b - 1].size - 2], m[b - 1]))
      BY <1>2, <2>3
    <3>3. b < p => b + m[b - 1].size <= p
      BY <3>1
    <3>4. b + m[b - 1].size \in B2 \cup {e}
      <4>1. CASE b < p
        <5>1. b + m[b - 1].size = p \/ b + m[b - 1].size < p
          BY <1>1, <3>1, <3>3, <4>1
        <5> QED  BY <1>1, <1>3, <3>1, <5>1
      <4>2. CASE q <= b
        BY <1>1, <1>3, <3>1, <4>2
      <4> QED  BY <2>3, <4>1, <4>2
    <3>5. \A c \in B2 : b < c => b + m[b - 1].size <= c
      <4> TAKE c \in B2
      <4> HAVE b < c
      <4>1. CASE c \in B
        BY <3>1, <4>1
      <4>2. CASE c = r /\ r # q
        BY <1>1, <2>3, <3>1, <3>3, <4>2
      <4> QED  BY <1>3, <4>1, <4>2
    <3> QED  BY <3>1, <3>2, <3>4, <3>5 DEF SameTag
  <2> QED  BY <1>3, <2>1, <2>2, <2>3
<1>6. ASSUME NEW c \in (B2 \cup {e}) \ {2}
      PROVE  \E b \in B2 : b + m2[b - 1].size = c
  <2>1. CASE c = r
    BY <1>1, <1>3, <2>1
  <2>2. CASE c = q /\ c # r
    BY <1>1, <1>3, <2>2
  <2>3. CASE c # q /\ c # r
    <3>1. c \in B \cup {e} /\ (c <= p \/ q <= c) /\ c \in Nat
      <4>1. c = e \/ c = p \/ (c \in B /\ (c < p \/ q <= c))
        <5>1. c = e \/ c \in B2
          OBVIOUS
        <5> QED  BY <1>3, <2>3, <5>1
      <4>2. c \in Nat
        BY <1>a, <1>1, <4>1
      <4> QED  BY <1>1, <4>1, <4>2
    <3>2. PICK b \in B : b + m[b - 1].size = c
      BY <3>1, <1>b
    <3>3. /\ b \in Nat /\ m[b - 1].size \in Nat /\ 2 <= m[b - 1].size
          /\ \A d \in B \cup {e} : d <= b \/ c <= d
      BY <3>2, BlockFacts, NotInside
    <3>4. b < p \/ q <= b
      <4>1. CASE c <= p
        BY <1>1, <3>1, <3>2, <3>3, <4>1
      <4>2. CASE q <= c
        <5>1. q <= b \/ c <= q
          BY <3>3
        <5> QED  BY <1>1, <2>3, <3>1, <4>2, <5>1
      <4> QED  BY <3>1, <4>1, <4>2
    <3> QED  BY <1>2, <1>3, <3>2, <3>4
  <2> QED  BY <2>1, <2>2, <2>3
<1> QED  BY <1>1, <1>3, <1>4, <1>5, <1>6 DEF Tiled, B2

(* A block more at the end.                                                *)
LEMMA Grow ==
    ASSUME NEW m, NEW e, NEW B, NEW X, NEW k, Least(k), Tiled(m, e, B, X, k),
           NEW n \in Nat, n % 2 = 0, k <= n, e + n <= MAX_HEAP,
           NEW m2 \in Memory,
           m2[e - 1].size = n, SameTag(m2[e + n - 2], m2[e - 1]),
           m2[e + n - 1].size = 0, m2[e + n - 1].alloc = 1,
           \A w \in Word : w < e - 1 => SameTag(m2[w], m[w])
    PROVE  Tiled(m2, e + n, B \cup {e}, X, k)
<1> DEFINE B2 == B \cup {e}
<1>1. /\ e \in Nat /\ 4 <= e /\ e <= MAX_HEAP /\ e % 2 = 0 /\ 2 \in B /\ e \notin B
      /\ m[1].size = 2 /\ m[1].alloc = 1 /\ MAX_HEAP \in Nat /\ k \in Nat /\ 4 <= k
      /\ \A c \in (B \cup {e}) \ {2} : \E b \in B : b + m[b - 1].size = c
  BY HeapEnds, HeapAssumption DEF Least
<1>2. \A b \in B : /\ b \in Nat /\ 2 <= b /\ b % 2 = 0 /\ b - 1 \in Word
                   /\ m[b - 1].size \in Nat /\ 2 <= m[b - 1].size
                   /\ b # 2 => k <= m[b - 1].size
                   /\ b + m[b - 1].size <= e /\ b + m[b - 1].size \in B2
                   /\ b + m[b - 1].size - 2 \in Word
                   /\ b \notin X => SameTag(m[b + m[b - 1].size - 2], m[b - 1])
                   /\ \A c \in B : b < c => b + m[b - 1].size <= c
  BY BlockFacts
<1>3. \A b \in B : /\ m2[b - 1].size = m[b - 1].size /\ m2[b - 1].alloc = m[b - 1].alloc
                   /\ b \notin X => SameTag(m2[b + m[b - 1].size - 2], m2[b - 1])
  <2> TAKE b \in B
  <2>1. b - 1 < e - 1 /\ b + m[b - 1].size - 2 < e - 1
    BY <1>1, <1>2
  <2>2. SameTag(m2[b - 1], m[b - 1])
        /\ SameTag(m2[b + m[b - 1].size - 2], m[b + m[b - 1].size - 2])
    BY <1>2, <2>1
  <2> QED  BY <1>2, <2>2 DEF SameTag
<1>4. m2[1].size = 2 /\ m2[1].alloc = 1
  <2>1. 1 \in Word /\ 1 < e - 1
    BY <1>1 DEF Word
  <2> QED  BY <1>1, <2>1 DEF SameTag
<1>5. ASSUME NEW b \in B2
      PROVE  /\ b \in Nat /\ 2 <= b /\ b % 2 = 0
             /\ b = 2 \/ k <= m2[b - 1].size
             /\ b + m2[b - 1].size <= e + n /\ b + m2[b - 1].size \in B2 \cup {e + n}
             /\ b \in X \/ SameTag(m2[b + m2[b - 1].size - 2], m2[b - 1])
             /\ \A c \in B2 : b < c => b + m2[b - 1].size <= c
  <2>1. CASE b = e
    <3>1. \A c \in B2 : ~(e < c)
      BY <1>1, <1>2
    <3>2. b + m2[b - 1].size = e + n /\ b % 2 = 0 /\ b \in Nat /\ 2 <= b
      BY <1>1, <2>1
    <3>3. SameTag(m2[b + m2[b - 1].size - 2], m2[b - 1]) /\ k <= m2[b - 1].size
      BY <2>1
    <3> HIDE DEF B2
    <3> QED  BY <1>1, <2>1, <3>1, <3>2, <3>3
  <2>2. CASE b \in B
    <3>1. m2[b - 1].size = m[b - 1].size
      BY <1>3, <2>2
    <3>2. b + m[b - 1].size <= e + n
      BY <1>1, <1>2, <2>2
    <3>3. \A c \in B2 : b < c => b + m[b - 1].size <= c
      BY <1>2, <2>2
    <3>4. /\ b \in Nat /\ 2 <= b /\ b % 2 = 0
          /\ b = 2 \/ k <= m[b - 1].size
          /\ b + m[b - 1].size \in B2
      BY <1>2, <2>2
    <3>5. b \in X \/ SameTag(m2[b + m[b - 1].size - 2], m2[b - 1])
      BY <1>3, <2>2
    <3> HIDE DEF B2
    <3> QED  BY <3>1, <3>2, <3>3, <3>4, <3>5
  <2> QED  BY <2>1, <2>2
<1>6. \A c \in (B2 \cup {e + n}) \ {2} : \E b \in B2 : b + m2[b - 1].size = c
  <2> TAKE c \in (B2 \cup {e + n}) \ {2}
  <2>1. CASE c = e + n
    BY <2>1
  <2>2. CASE c # e + n
    BY <1>1, <1>3, <2>2
  <2> QED  BY <2>1, <2>2
<1>7. (e + n) % 2 = 0 /\ e + n \in Nat /\ 4 <= e + n
  BY <1>1
<1> HIDE DEF B2
<1>8. 2 \in B2
  BY <1>1 DEF B2
<1> QED  BY <1>4, <1>5, <1>6, <1>7, <1>8 DEF Tiled, B2

(***************************************************************************)
(* The words outside the links of free blocks: tags, and what the blocks   *)
(* in use hold.                                                            *)
(***************************************************************************)
FreeIn(m, B) == {b \in B : m[b - 1].alloc = 0}
UsedIn(m, B) == {b \in B : m[b - 1].alloc = 1}
Unlinks(m, B) == {w \in Word : \A b \in FreeIn(m, B) : w \notin LinkWords(b)}

(* The block b is in m2 what it is in m.                                   *)
Kept(m, m2, b) == \A w \in b - 1 .. b + m[b - 1].size - 3 : m2[w] = m[w]

Merged(m, B) == \A b \in B : m[b - 1].alloc = 1 \/ m[b + m[b - 1].size - 1].alloc = 1
MergedBut(m, B, bp) ==
    \A b \in B : \/ b = bp \/ m[b - 1].alloc = 1
                 \/ b + m[b - 1].size = bp
                 \/ m[b + m[b - 1].size - 1].alloc = 1

(* A block with room for two tags and four words of links.                 *)
LEMMA Six == Least(6)
BY DEF Least

(* A free block has room for its links.                                    *)
LEMMA FreeFacts ==
    ASSUME NEW m, NEW e, NEW B, NEW X, Tiled(m, e, B, X, 6), NEW b \in FreeIn(m, B)
    PROVE  b \in B /\ b # 2 /\ NodeAt(b) /\ 6 <= m[b - 1].size
<1>1. b \in B /\ b # 2
  BY Six, HeapEnds DEF FreeIn
<1>2. b \in Nat /\ 4 <= b /\ 6 <= m[b - 1].size /\ m[b - 1].size \in Nat
      /\ b + m[b - 1].size <= e /\ e \in Nat /\ e <= MAX_HEAP
  BY <1>1, Six, BlockFacts
<1> QED  BY <1>1, <1>2, HeapAssumption DEF NodeAt, Word

(* The links of two free blocks are apart.                                 *)
LEMMA FreeClear ==
    ASSUME NEW m, NEW e, NEW B, NEW X, Tiled(m, e, B, X, 6),
           NEW b \in FreeIn(m, B), NEW c \in FreeIn(m, B), b # c
    PROVE  Clear(b, c)
<1>1. /\ b \in B /\ b \in Nat /\ 6 <= m[b - 1].size /\ m[b - 1].size \in Nat
      /\ c \in B /\ c \in Nat /\ 6 <= m[c - 1].size /\ m[c - 1].size \in Nat
  BY FreeFacts, Six, BlockFacts
<1>2. (b < c => b + m[b - 1].size <= c) /\ (c < b => c + m[c - 1].size <= b)
  BY <1>1, Six, BlockFacts
<1> QED  BY <1>1, <1>2 DEF Clear

(* The tags, and all words of a block in use, are outside the links.       *)
LEMMA TagsUnlinked ==
    ASSUME NEW m, NEW e, NEW B, NEW X, Tiled(m, e, B, X, 6)
    PROVE  /\ e - 1 \in Unlinks(m, B)
           /\ \A b \in B : b - 1 \in Unlinks(m, B) /\ b + m[b - 1].size - 2 \in Unlinks(m, B)
           /\ \A b \in UsedIn(m, B) : \A w \in b - 1 .. b + m[b - 1].size - 3 : w \in Unlinks(m, B)
<1>1. \A b \in B : /\ b \in Nat /\ b - 1 \in Word /\ b + m[b - 1].size - 2 \in Word
                   /\ m[b - 1].size \in Nat /\ 2 <= m[b - 1].size /\ b + m[b - 1].size <= e
                   /\ \A c \in B : b < c => b + m[b - 1].size <= c
  BY Six, BlockFacts
<1>2. \A b \in FreeIn(m, B) : b \in B /\ 6 <= m[b - 1].size
  BY FreeFacts
<1>3. e - 1 \in Word /\ e \in Nat /\ e <= MAX_HEAP /\ MAX_HEAP \in Nat
  BY Six, HeapEnds, HeapAssumption
<1>4. ASSUME NEW b \in B, NEW c \in FreeIn(m, B)
      PROVE  b - 1 \notin LinkWords(c) /\ b + m[b - 1].size - 2 \notin LinkWords(c)
  <2>1. c \in B /\ c \in Nat /\ 6 <= m[c - 1].size /\ m[c - 1].size \in Nat
    BY <1>1, <1>2
  <2>2. /\ b < c => b + m[b - 1].size <= c
        /\ c < b => c + m[c - 1].size <= b
    BY <1>1, <2>1
  <2> QED  BY <1>1, <2>1, <2>2 DEF LinkWords
<1>5. ASSUME NEW c \in FreeIn(m, B) PROVE e - 1 \notin LinkWords(c)
  <2>1. c \in B /\ c \in Nat /\ 6 <= m[c - 1].size /\ m[c - 1].size \in Nat /\ c + m[c - 1].size <= e
    BY <1>1, <1>2
  <2> QED  BY <1>3, <2>1 DEF LinkWords
<1>6. ASSUME NEW b \in UsedIn(m, B), NEW w \in b - 1 .. b + m[b - 1].size - 3
      PROVE  w \in Unlinks(m, B)
  <2>1. b \in B /\ m[b - 1].alloc # 0
    BY DEF UsedIn
  <2>2. ASSUME NEW c \in FreeIn(m, B) PROVE w \notin LinkWords(c)
    <3>1. c \in B /\ c \in Nat /\ 6 <= m[c - 1].size /\ m[c - 1].size \in Nat /\ c # b
      BY <1>1, <1>2, <2>1 DEF FreeIn
    <3>2. /\ b < c => b + m[b - 1].size <= c
          /\ c < b => c + m[c - 1].size <= b
      BY <1>1, <2>1, <3>1
    <3> QED  BY <1>1, <2>1, <3>1, <3>2 DEF LinkWords
  <2>3. w \in Word
    BY <1>1, <1>3, <2>1 DEF Word
  <2> QED  BY <2>2, <2>3 DEF Unlinks
<1> QED  BY <1>1, <1>3, <1>4, <1>5, <1>6 DEF Unlinks

(* A word outside the links of free blocks is outside the list's.          *)
LEMMA UnlinksOutside ==
    ASSUME NEW m, NEW B, NEW s, NEW n, Nodes(s, n) \subseteq FreeIn(m, B),
           NEW w \in Unlinks(m, B)
    PROVE  Outside(w, s, n) /\ w \in Word
BY DEF Nodes, Unlinks, Outside

(***************************************************************************)
(* The list has the nodes S.                                               *)
(***************************************************************************)
ListOf(h, S) ==
    \E n \in Nat : \E s \in [1 .. n -> Nat] : Links(h, s, n) /\ Nodes(s, n) = S

(* The list operations, on a heap m that has not changed in its tags.      *)
Unlists(g, h, S, U) ==
    /\ g \in Heap /\ SameRest(g, h) /\ ListOf(g, S)
    /\ \A w \in U : g.mem[w] = h.mem[w]

(* remove_node of a free block keeps tags and blocks in use.               *)
LEMMA RemoveFree ==
    ASSUME NEW h \in Heap, NEW m, NEW B, NEW S, ListOf(h, S), S \subseteq FreeIn(m, B),
           NEW b \in S
    PROVE  Unlists(V3!remove_node(h, b), h, S \ {b}, Unlinks(m, B))
<1>1. PICK n \in Nat : \E s \in [1 .. n -> Nat] : Links(h, s, n) /\ Nodes(s, n) = S
  BY DEF ListOf
<1>2. PICK s \in [1 .. n -> Nat] : Links(h, s, n) /\ Nodes(s, n) = S
  BY <1>1
<1>3. PICK k \in 1 .. n : b = s[k]
  BY <1>2 DEF Nodes
<1> DEFINE g == V3!remove_node(h, b)
<1>4. /\ g \in Heap /\ SameRest(g, h)
      /\ Links(g, Dropped(s, n, k), n - 1)
      /\ \A q \in Word : Outside(q, s, n) => g.mem[q] = h.mem[q]
  BY <1>2, <1>3, RemoveNode
<1>5. Nodes(Dropped(s, n, k), n - 1) = S \ {b}
  BY <1>2, <1>3, DroppedNodes
<1> HIDE DEF g
<1>6. ListOf(g, S \ {b})
  BY <1>4, <1>5 DEF ListOf, Links
<1>7. \A w \in Unlinks(m, B) : g.mem[w] = h.mem[w]
  BY <1>2, <1>4, UnlinksOutside
<1> QED  BY <1>4, <1>6, <1>7 DEF g, Unlists

(* g is h with b in the list.                                              *)
Lists(g, h, S, b) ==
    /\ g \in Heap /\ SameRest(g, h) /\ ListOf(g, S \cup {b})
    /\ \A w \in Word : (\A c \in S \cup {b} : w \notin LinkWords(c)) => g.mem[w] = h.mem[w]

(* add_node of a block whose links are apart from the others'.             *)
LEMMA AddFree ==
    ASSUME NEW h \in Heap, NEW S, ListOf(h, S),
           NEW b, NodeAt(b), \A c \in S : Clear(b, c)
    PROVE  Lists(V3!add_node(h, b), h, S, b)
<1>1. PICK n \in Nat : \E s \in [1 .. n -> Nat] : Links(h, s, n) /\ Nodes(s, n) = S
  BY DEF ListOf
<1>2. PICK s \in [1 .. n -> Nat] : Links(h, s, n) /\ Nodes(s, n) = S
  BY <1>1
<1> DEFINE g == V3!add_node(h, b)
<1>3. \A k \in 1 .. n : s[k] \in S
  BY <1>2 DEF Nodes
<1>4. /\ g \in Heap /\ SameRest(g, h)
      /\ Links(g, Pushed(s, n, b), n + 1)
      /\ \A q \in Word : Outside(q, s, n) /\ q \notin LinkWords(b) => g.mem[q] = h.mem[q]
  BY <1>2, <1>3, AddNode
<1>5. Nodes(Pushed(s, n, b), n + 1) = S \cup {b}
  BY <1>2, PushedNodes
<1> HIDE DEF g, Lists
<1>6. ListOf(g, S \cup {b})
  <2>1. n + 1 \in Nat /\ Pushed(s, n, b) \in [1 .. n + 1 -> Nat]
    BY <1>4 DEF Links
  <2> QED  BY <1>4, <1>5, <2>1 DEF ListOf
<1>7. \A w \in Word : (\A c \in S \cup {b} : w \notin LinkWords(c)) => g.mem[w] = h.mem[w]
  BY <1>3, <1>4 DEF Outside
<1> QED  BY <1>4, <1>6, <1>7 DEF g, Lists

(* The list stays when the links of its nodes do.                          *)
LEMMA SameList ==
    ASSUME NEW h \in Heap, NEW g \in Heap, NEW S, ListOf(h, S),
           g.blk_headp = h.blk_headp,
           \A c \in S : \A q \in LinkWords(c) : g.mem[q] = h.mem[q]
    PROVE  ListOf(g, S)
<1>1. PICK n \in Nat : \E s \in [1 .. n -> Nat] : Links(h, s, n) /\ Nodes(s, n) = S
  BY DEF ListOf
<1>2. PICK s \in [1 .. n -> Nat] : Links(h, s, n) /\ Nodes(s, n) = S
  BY <1>1
<1>3. \A k \in 1 .. n : s[k] \in S
  BY <1>2 DEF Nodes
<1>4. Links(g, s, n)
  BY <1>2, <1>3, SameLinks
<1> QED  BY <1>2, <1>4 DEF ListOf

(***************************************************************************)
(* Words that agree outside the links have the same blocks, free and used. *)
(***************************************************************************)
Agree(m, e, B, X, m2) ==
    /\ Tiled(m2, e, B, X, 6)
    /\ FreeIn(m2, B) = FreeIn(m, B) /\ UsedIn(m2, B) = UsedIn(m, B)
    /\ Unlinks(m2, B) = Unlinks(m, B)
    /\ \A b \in B \cup {e} : m2[b - 1] = m[b - 1]
    /\ \A b \in UsedIn(m, B) : Kept(m, m2, b)

(* Writing only links changes no block.                                    *)
LEMMA AgreeTiles ==
    ASSUME NEW m, NEW e, NEW B, NEW X, Tiled(m, e, B, X, 6), NEW m2 \in Memory,
           \A w \in Unlinks(m, B) : m2[w] = m[w]
    PROVE  Agree(m, e, B, X, m2)
<1>1. /\ e - 1 \in Unlinks(m, B)
      /\ \A b \in B : b - 1 \in Unlinks(m, B) /\ b + m[b - 1].size - 2 \in Unlinks(m, B)
      /\ \A b \in UsedIn(m, B) : \A w \in b - 1 .. b + m[b - 1].size - 3 : w \in Unlinks(m, B)
  BY TagsUnlinked
<1>2. /\ m2[e - 1] = m[e - 1]
      /\ \A b \in B : m2[b - 1] = m[b - 1]
      /\ \A b \in B : m2[b + m[b - 1].size - 2] = m[b + m[b - 1].size - 2]
  BY <1>1
<1>4. Tiled(m2, e, B, X, 6)
  BY <1>2, Six, SameTiles
<1>5. FreeIn(m2, B) = FreeIn(m, B) /\ UsedIn(m2, B) = UsedIn(m, B)
  BY <1>2 DEF FreeIn, UsedIn
<1>6. Unlinks(m2, B) = Unlinks(m, B)
  BY <1>5 DEF Unlinks
<1>7. \A b \in UsedIn(m, B) : Kept(m, m2, b)
  BY <1>1 DEF Kept
<1> QED  BY <1>2, <1>4, <1>5, <1>6, <1>7 DEF Agree

(***************************************************************************)
(* A free block at bp and its free neighbours: from Start to Stop.         *)
(***************************************************************************)
Start(m, bp) == IF m[bp - 2].alloc = 1 THEN bp ELSE bp - m[bp - 2].size
Stop(m, bp) ==
    IF m[bp + m[bp - 1].size - 1].alloc = 1 THEN bp + m[bp - 1].size
    ELSE bp + m[bp - 1].size + m[bp + m[bp - 1].size - 1].size

(* The block before bp, found through its footer as PREV_BLKP does.        *)
LEMMA Neighbours ==
    ASSUME NEW m, NEW e, NEW B, NEW X, NEW k, Least(k), Tiled(m, e, B, X, k),
           NEW bp \in B \cup {e}, bp # 2, \A x \in X : x + m[x - 1].size # bp
    PROVE  \E c \in B : /\ c + m[c - 1].size = bp
                        /\ m[bp - 2].size = m[c - 1].size /\ m[bp - 2].alloc = m[c - 1].alloc
                        /\ c < bp /\ c = bp - m[bp - 2].size
                        /\ \A x \in B : x < bp => x <= c
<1>0. bp \in Nat
  BY BlockFacts, HeapEnds
<1>1. PICK c \in B : c + m[c - 1].size = bp
  BY HeapEnds
<1>2. /\ c \in Nat /\ m[c - 1].size \in Nat /\ 2 <= m[c - 1].size
      /\ c \notin X => SameTag(m[c + m[c - 1].size - 2], m[c - 1])
      /\ \A x \in B : c < x => c + m[c - 1].size <= x
  BY BlockFacts
<1>3. c \notin X
  BY <1>1
<1>4. c + m[c - 1].size - 2 = bp - 2
  BY <1>0, <1>1, <1>2
<1>5. m[bp - 2].size = m[c - 1].size /\ m[bp - 2].alloc = m[c - 1].alloc
  BY <1>2, <1>3, <1>4 DEF SameTag
<1>6. \A x \in B : x < bp => x <= c
  <2> TAKE x \in B
  <2>1. x \in Nat
    BY BlockFacts
  <2> QED  BY <1>0, <1>1, <1>2, <2>1
<1>7. c < bp /\ c = bp - m[bp - 2].size
  BY <1>0, <1>1, <1>2, <1>5
<1> QED  BY <1>1, <1>5, <1>6, <1>7

(* What one finds about them before they are united: p to q.               *)
Around(m, e, B, bp, c, d, p, q) ==
    /\ bp \in Nat /\ 4 <= bp /\ m[bp - 1].size \in Nat /\ m[bp - 1].alloc = 0 /\ bp \in B
    /\ c \in B /\ c \in Nat /\ c < bp /\ c + m[c - 1].size = bp /\ m[c - 1].size \in Nat
    /\ m[bp - 2].size = m[c - 1].size /\ m[bp - 2].alloc = m[c - 1].alloc
    /\ m[c - 1].alloc \in {0, 1} /\ c = bp - m[bp - 2].size
    /\ d \in B \cup {e} /\ d \in Nat /\ d = bp + m[bp - 1].size /\ bp < d
    /\ m[d - 1].alloc \in {0, 1} /\ m[d - 1].size \in Nat
    /\ m[d - 1].alloc = 0 => d \in B /\ d < d + m[d - 1].size
    /\ m[c - 1].alloc = 0 => c # 2
    /\ p = (IF m[c - 1].alloc = 1 THEN bp ELSE c) /\ p \in Nat /\ p <= bp /\ p \in B /\ p # 2
    /\ q = (IF m[d - 1].alloc = 1 THEN d ELSE d + m[d - 1].size) /\ q \in Nat /\ d <= q /\ q \in B \cup {e}
    /\ p = Start(m, bp) /\ q = Stop(m, bp)
    /\ \A b \in B : b < bp => b <= c
    /\ \A b \in B : bp < b => d <= b
    /\ \A b \in B : d < b /\ m[d - 1].alloc = 0 => q <= b

(* The sizes of a free block and its free neighbours are what they span.   *)
LEMMA AroundSizes ==
    ASSUME NEW m, NEW e, NEW B, NEW bp, NEW c, NEW d, NEW p, NEW q,
           Around(m, e, B, bp, c, d, p, q)
    PROVE  /\ m[bp - 1].size + (IF m[d - 1].alloc = 1 THEN 0 ELSE m[d - 1].size)
                             + (IF m[c - 1].alloc = 1 THEN 0 ELSE m[c - 1].size) = q - p
           /\ c + m[c - 1].size - 2 = bp - 2
<1> DEFINE sc == m[c - 1].size
           sd == m[d - 1].size
           sp == m[bp - 1].size
           na == m[d - 1].alloc = 1
           pa == m[c - 1].alloc = 1
<1>1. bp \in Nat /\ c \in Nat /\ sd \in Nat /\ d = bp + sp /\ c + sc = bp /\ sp \in Nat
  BY DEF Around
<1>2. p = (IF pa THEN bp ELSE c) /\ q = (IF na THEN d ELSE d + sd)
  BY DEF Around
<1>3. sc \in Nat
  BY DEF Around
<1> HIDE DEF sc, sd, sp, na, pa
<1>4. (IF na THEN 0 ELSE sd) = q - d
  BY <1>1, <1>2
<1>5. (IF pa THEN 0 ELSE sc) = bp - p
  BY <1>1, <1>2, <1>3
<1>6. p \in Nat /\ q \in Nat
  BY <1>1, <1>2
<1>7. sp + (q - d) + (bp - p) = q - p
  BY <1>1, <1>6
<1>8. c + sc - 2 = bp - 2
  BY <1>1, <1>3
<1> QED  BY <1>4, <1>5, <1>7, <1>8 DEF sc, sd, sp, na, pa

(* A free block has both neighbours, if the footer before it is right.     *)
LEMMA AroundFree ==
    ASSUME NEW m, NEW e, NEW B, NEW X, NEW k, Least(k), Tiled(m, e, B, X, k),
           NEW bp \in FreeIn(m, B), \A x \in X : x + m[x - 1].size # bp
    PROVE  \E c, d, p, q : Around(m, e, B, bp, c, d, p, q)
<1> DEFINE d == bp + m[bp - 1].size
           q == IF m[d - 1].alloc = 1 THEN d ELSE d + m[d - 1].size
<1>1. /\ bp \in B /\ m[bp - 1].alloc = 0 /\ bp # 2
  BY HeapEnds DEF FreeIn
<1>2. /\ bp \in Nat /\ 4 <= bp /\ m[bp - 1].size \in Nat /\ 2 <= m[bp - 1].size
      /\ d \in B \cup {e} /\ \A b \in B : bp < b => d <= b
  BY <1>1, BlockFacts
<1>3. PICK c \in B : /\ c + m[c - 1].size = bp
                     /\ m[bp - 2].size = m[c - 1].size /\ m[bp - 2].alloc = m[c - 1].alloc
                     /\ c < bp /\ c = bp - m[bp - 2].size
                     /\ \A x \in B : x < bp => x <= c
  BY <1>1, Neighbours
<1>4. c \in Nat /\ m[c - 1].alloc \in {0, 1} /\ (m[c - 1].alloc = 0 => c # 2) /\ m[c - 1].size \in Nat
  BY BlockFacts, HeapEnds
<1>5. /\ m[d - 1].alloc \in {0, 1} /\ m[d - 1].size \in Nat
      /\ m[d - 1].alloc = 0 => /\ d \in B /\ 2 <= m[d - 1].size /\ d + m[d - 1].size \in B \cup {e}
                               /\ \A b \in B : d < b => d + m[d - 1].size <= b
  <2>1. CASE d = e
    BY <2>1, HeapEnds
  <2>2. CASE d # e
    <3> HIDE DEF d
    <3>1. d \in B
      BY <1>2, <2>2
    <3> QED  BY <3>1, BlockFacts
  <2> QED  BY <2>1, <2>2
<1>6. d \in Nat /\ bp < d
  BY <1>2
<1>7. q \in Nat /\ d <= q /\ q \in B \cup {e}
  <2> HIDE DEF d
  <2> QED  BY <1>2, <1>5, <1>6
<1>8. PICK p : p = (IF m[c - 1].alloc = 1 THEN bp ELSE c)
  OBVIOUS
<1>9. p \in Nat /\ p <= bp /\ p \in B /\ p # 2
  <2>1. c < bp /\ bp \in Nat /\ c \in Nat /\ bp \in B /\ bp # 2 /\ c \in B
    BY <1>1, <1>2, <1>3, <1>4
  <2>2. p = bp \/ (p = c /\ m[c - 1].alloc # 1)
    BY <1>8
  <2>3. m[c - 1].alloc = 1 \/ c # 2
    BY <1>4
  <2> HIDE DEF d
  <2> QED  BY <2>1, <2>2, <2>3
<1>10. p = Start(m, bp)
  BY <1>3, <1>4, <1>8 DEF Start
<1>11. q = Stop(m, bp)
  <2>1. bp + m[bp - 1].size - 1 = d - 1
    BY <1>2
  <2> QED  BY <1>5, <2>1 DEF Stop
<1>12. m[d - 1].alloc = 0 => d \in B /\ d < d + m[d - 1].size
  <2> HIDE DEF d
  <2> QED  BY <1>5, <1>6
<1>13. \A b \in B : d < b /\ m[d - 1].alloc = 0 => q <= b
  BY <1>5
<1>14. PICK d2 : d2 = d
  OBVIOUS
<1>15. PICK q2 : q2 = q
  OBVIOUS
<1> HIDE DEF d, q
<1>16. q2 = (IF m[d2 - 1].alloc = 1 THEN d2 ELSE d2 + m[d2 - 1].size) /\ d2 = bp + m[bp - 1].size
  BY <1>14, <1>15 DEF d, q
<1>17. Around(m, e, B, bp, c, d2, p, q2)
  BY <1>1, <1>2, <1>3, <1>4, <1>5, <1>6, <1>7, <1>8, <1>9, <1>10, <1>11, <1>12, <1>13, <1>14,
     <1>15, <1>16 DEF Around
<1> QED  BY <1>17

(* The blocks in use are the same, with what they hold.                    *)
KeepsUsed(m, B, m2, B2) ==
    /\ UsedIn(m2, B2) = UsedIn(m, B)
    /\ \A b \in UsedIn(m, B) : Kept(m, m2, b)

(* m3 has one free block from p to q, and no free neighbours.              *)
United(m, e, B, X, k, p, q, m3) ==
    LET B2 == Cut(B, e, p, q, q)
    IN  /\ Tiled(m3, e, B2, X, k) /\ Merged(m3, B2)
        /\ FreeIn(m3, B2) = {b \in FreeIn(m, B) : b < p \/ q <= b} \cup {p}
        /\ KeepsUsed(m, B, m3, B2)

(* m3 differs from m in the tags at p and before q, which say a free block. *)
OneFree(m, m3, p, q) ==
    /\ m3 \in Memory
    /\ m3[p - 1].size = q - p /\ m3[p - 1].alloc = 0 /\ SameTag(m3[q - 2], m3[p - 1])
    /\ \A w \in Word : w # p - 1 /\ w # q - 2 => m3[w] = m[w]

(* Tags at p and before q unite a block with its free neighbours.          *)
LEMMA CoalesceTiles ==
    ASSUME NEW m, NEW e, NEW B, NEW X, NEW k, Least(k), Tiled(m, e, B, X, k),
           NEW bp \in FreeIn(m, B), MergedBut(m, B, bp),
           NEW c, NEW d, NEW p, NEW q, Around(m, e, B, bp, c, d, p, q),
           NEW m3, OneFree(m, m3, p, q)
    PROVE  United(m, e, B, X, k, p, q, m3)
<1> DEFINE B2 == Cut(B, e, p, q, q)
<1>1. /\ bp \in Nat /\ p \in Nat /\ p <= bp /\ d \in Nat /\ q \in Nat /\ bp < d /\ d <= q
      /\ c \in Nat /\ c < bp /\ c + m[c - 1].size = bp /\ d = bp + m[bp - 1].size
  BY DEF Around
<1>a. /\ bp \in B /\ p \in B /\ p # 2 /\ m[bp - 1].alloc = 0 /\ q \in B \cup {e} /\ c \in B
      /\ m[d - 1].alloc = 0 => d \in B
      /\ m[d - 1].alloc \in {0, 1} /\ m[c - 1].alloc \in {0, 1}
  BY DEF Around
<1>b. /\ p = (IF m[c - 1].alloc = 1 THEN bp ELSE c)
      /\ q = (IF m[d - 1].alloc = 1 THEN d ELSE d + m[d - 1].size)
  BY DEF Around
<1>c. e \notin B /\ e \in Nat /\ e % 2 = 0 /\ e - 1 \in Word /\ \A b \in B : b < e
  BY HeapEnds
<1>f. /\ bp \in Nat /\ p \in Nat /\ p <= bp /\ d \in Nat /\ q \in Nat /\ bp < d /\ d <= q
      /\ c \in Nat /\ c < bp
  BY <1>1
<1>g. /\ p = bp \/ p = c
      /\ p = bp \/ m[c - 1].alloc # 1
      /\ p = c \/ m[c - 1].alloc = 1
      /\ q = d \/ m[d - 1].alloc # 1
  BY <1>b
<1>3. \A b \in B : /\ b \in Nat /\ 2 <= b /\ b - 1 \in Word /\ m[b - 1].size \in Nat /\ 2 <= m[b - 1].size
                   /\ m[b - 1].alloc \in {0, 1} /\ b + m[b - 1].size \in B \cup {e}
                   /\ b + m[b - 1].size <= e
                   /\ \A x \in B : b < x => b + m[b - 1].size <= x
  BY BlockFacts
<1>d. \A b \in B : b % 2 = 0
  BY BlockFacts
<1>2. /\ k \in Nat /\ 4 <= k /\ p + k <= q /\ q % 2 = 0 /\ p < q - 2
  <2>1. q % 2 = 0
    BY <1>a, <1>c, <1>d
  <2>2. bp # 2
    BY <1>a, HeapEnds
  <2>3. k <= m[bp - 1].size /\ m[bp - 1].size \in Nat
    BY <1>a, <2>2, BlockFacts
  <2>4. 4 <= k /\ k \in Nat
    BY DEF Least
  <2> QED  BY <1>1, <2>1, <2>3, <2>4
<1>4. ASSUME NEW b \in B \cup {e}, b < p \/ q <= b
      PROVE  m3[b - 1] = m[b - 1]
  <2>1. b - 1 \in Word /\ b \in Nat
    BY <1>3, <1>c
  <2>2. b - 1 # p - 1 /\ b - 1 # q - 2
    BY <1>1, <1>2, <1>4, <2>1
  <2> QED  BY <2>1, <2>2 DEF OneFree
<1>h. m3[p - 1].size = q - p /\ m3[p - 1].alloc = 0
  BY DEF OneFree
<1>5. Tiled(m3, e, B2, X, k)
  <2>1. \A w \in Word : w < p - 1 \/ q - 2 < w => SameTag(m3[w], m[w])
    <3> TAKE w \in Word
    <3> HAVE w < p - 1 \/ q - 2 < w
    <3>1. w \in Int /\ p - 1 \in Int /\ q - 2 \in Int /\ p - 1 < q - 2
      BY <1>1, <1>2 DEF Word
    <3>2. w # p - 1 /\ w # q - 2
      BY <3>1
    <3> QED  BY <3>2 DEF SameTag, OneFree
  <2>2. m3 \in Memory /\ SameTag(m3[q - 2], m3[p - 1])
    BY DEF OneFree
  <2> QED  BY <1>1, <1>a, <1>2, <1>h, <2>1, <2>2, Retile
<1>6. \A b \in B2 : b = p \/ (b \in B /\ (b < p \/ q <= b))
  <2>1. \A b \in B : b \in Nat
    BY <1>3
  <2> QED  BY <1>1, <1>a, <2>1 DEF Cut
<1>7. p \in B2 /\ \A b \in B : b < p \/ q <= b => b \in B2
  <2>1. \A b \in B : b \in Nat
    BY <1>3
  <2> QED  BY <1>1, <1>a, <1>c, <2>1 DEF Cut
<1>8. \A b \in B : b < bp => b <= c
  BY DEF Around
<1>9. \A b \in B : /\ bp < b => d <= b
                   /\ d < b /\ m[d - 1].alloc = 0 => q <= b
  BY DEF Around
<1> HIDE DEF B2
<1>10. FreeIn(m3, B2) = {b \in FreeIn(m, B) : b < p \/ q <= b} \cup {p}
  BY <1>4, <1>6, <1>7, <1>h DEF FreeIn
<1>11. ASSUME NEW b \in UsedIn(m, B)
       PROVE  b \in B /\ (b < p \/ q <= b)
  <2>1. b \in B /\ b \in Nat /\ m[b - 1].alloc = 1 /\ b # bp
    BY <1>a, <1>3 DEF UsedIn
  <2>2. CASE b < bp
    <3>1. b <= c
      BY <1>8, <2>1, <2>2
    <3>2. p = bp \/ b # c
      BY <1>g, <2>1
    <3>3. b \in Nat /\ b \in B
      BY <2>1
    <3> QED  BY <1>f, <1>g, <2>2, <3>1, <3>2, <3>3
  <2>3. CASE bp < b
    <3>1. d <= b
      BY <1>9, <2>1, <2>3
    <3>2. CASE m[d - 1].alloc = 0
      <4>1. d # b
        BY <2>1, <3>2
      <4>2. d < b
        BY <1>f, <2>1, <3>1, <4>1
      <4> QED  BY <1>9, <2>1, <3>2, <4>2
    <3>3. CASE m[d - 1].alloc = 1
      <4>1. q = d
        BY <1>g, <3>3
      <4> QED  BY <2>1, <3>1, <4>1
    <3> QED  BY <1>a, <3>2, <3>3
  <2>4. b \in Nat /\ b # bp
    BY <2>1
  <2> QED  BY <1>f, <2>2, <2>3, <2>4
<1>12. UsedIn(m3, B2) = UsedIn(m, B)
  <2>1. \A b \in UsedIn(m, B) : b \in B2 /\ m3[b - 1].alloc = 1
    BY <1>4, <1>7, <1>11 DEF UsedIn
  <2>2. \A b \in B2 : m3[b - 1].alloc = 1 => b \in UsedIn(m, B)
    BY <1>4, <1>6, <1>h DEF UsedIn
  <2> QED  BY <2>1, <2>2 DEF UsedIn
<1>13. ASSUME NEW b \in UsedIn(m, B)
       PROVE  Kept(m, m3, b)
  <2>1. b \in B /\ (b < p \/ q <= b)
    BY <1>11
  <2>2. b \in Nat /\ 2 <= b /\ m[b - 1].size \in Nat /\ (b < p => b + m[b - 1].size <= p)
        /\ b + m[b - 1].size <= e
    BY <1>1, <1>a, <1>3, <2>1
  <2>a. MAX_HEAP \in Nat /\ e <= MAX_HEAP
    BY HeapEnds, HeapAssumption
  <2>3. \A w \in b - 1 .. b + m[b - 1].size - 3 : w \in Word /\ w # p - 1 /\ w # q - 2
    BY <1>1, <1>2, <1>c, <2>1, <2>2, <2>a DEF Word
  <2> QED  BY <2>3 DEF Kept, OneFree
<1>14. ASSUME NEW b \in B2
       PROVE  m3[b - 1].alloc = 1 \/ m3[b + m3[b - 1].size - 1].alloc = 1
  <2>1. CASE b = p
    <3>1. m3[q - 1] = m[q - 1]
      BY <1>1, <1>a, <1>4
    <3>2. m[q - 1].alloc = 1
      <4>1. CASE m[d - 1].alloc = 1
        BY <1>b, <4>1
      <4>2. CASE m[d - 1].alloc = 0
        <5>1. d \in B /\ m[d - 1].size \in Nat /\ m[d - 1].alloc # 1
          BY <1>a, <1>3, <4>2
        <5>2. d # bp /\ d + m[d - 1].size # bp
          BY <1>1, <5>1
        <5>3. m[d + m[d - 1].size - 1].alloc = 1
          BY <5>1, <5>2 DEF MergedBut
        <5>4. d + m[d - 1].size - 1 = q - 1
          <6>1. d + m[d - 1].size = q
            BY <1>b, <5>1
          <6>2. d \in Nat /\ m[d - 1].size \in Nat
            BY <1>f, <5>1
          <6> QED  BY <6>1, <6>2
        <5> QED  BY <5>3, <5>4
      <4> QED  BY <1>a, <4>1, <4>2
    <3>3. b + m3[b - 1].size - 1 = q - 1
      <4>1. m3[b - 1].size = q - p /\ b \in Nat /\ b = p
        BY <1>1, <1>h, <2>1
      <4> QED  BY <1>1, <4>1
    <3> QED  BY <3>1, <3>2, <3>3
  <2>2. CASE b \in B /\ (b < p \/ q <= b) /\ m3[b - 1].alloc # 1
    <3> DEFINE n == b + m[b - 1].size
    <3>1. m3[b - 1] = m[b - 1] /\ m[b - 1].alloc # 1 /\ b # bp
      <4>1. b # bp
        BY <1>1, <2>2
      <4> QED  BY <1>4, <2>2, <4>1
    <3>2. b \in Nat /\ m[b - 1].size \in Nat /\ 2 <= m[b - 1].size /\ n \in B \cup {e} /\ n \in Nat /\ b < n
          /\ n - 1 = b + m[b - 1].size - 1
          /\ m[b - 1].alloc = 0
      BY <1>3, <2>2, <3>1
    <3>3. n # bp
      <4> SUFFICES ASSUME n = bp PROVE FALSE
        OBVIOUS
      <4>1. b < bp /\ b <= c
        BY <1>8, <2>2, <3>2
      <4>2. ~(b < c)
        <5>1. b < c => n <= c
          BY <1>a, <1>3, <2>2
        <5> QED  BY <1>1, <5>1
      <4>3. b = c
        BY <1>f, <3>2, <4>1, <4>2
      <4>4. b # p
        <5>1. b < p \/ q <= b
          BY <2>2
        <5> QED  BY <1>f, <4>1, <5>1
      <4> QED  BY <1>g, <3>1, <4>1, <4>3, <4>4, <1>f
    <3>4. m[n - 1].alloc = 1
      BY <2>2, <3>1, <3>2, <3>3 DEF MergedBut
    <3>5. n < p \/ q <= n
      <4>1. b < p => n <= p
        BY <1>a, <1>3, <2>2
      <4>2. n # p
        BY <1>b, <3>3, <3>4
      <4> HIDE DEF n
      <4> QED  BY <1>1, <2>2, <3>2, <4>1, <4>2
    <3>6. m3[n - 1] = m[n - 1]
      BY <1>4, <3>2, <3>5
    <3> QED  BY <3>1, <3>2, <3>4, <3>6
  <2> QED  BY <1>6, <2>1, <2>2
<1> QED  BY <1>5, <1>10, <1>12, <1>13, <1>14 DEF United, KeepsUsed, Merged, B2

(***************************************************************************)
(* A sound heap: no two free blocks are neighbours and, in v3 and v4, each *)
(* has at least six words and the list has them all.                       *)
(***************************************************************************)
Room(h) == IF Linked(h) THEN 6 ELSE 4
Sound(h, B, X) ==
    /\ h \in Heap /\ Tiled(h.mem, h.brk, B, X, Room(h)) /\ Merged(h.mem, B)
    /\ Linked(h) => ListOf(h, FreeIn(h.mem, B))

(* coalesce leaves a sound heap, and returns the united block.             *)
Coalesced(h, B, X, bp, r) ==
    /\ SameRest(r.heap, h)
    /\ \E B2 : /\ Sound(r.heap, B2, X) /\ KeepsUsed(h.mem, B, r.heap.mem, B2)
               /\ r.bp \in FreeIn(r.heap.mem, B2)
               /\ r.bp = Start(h.mem, bp)
               /\ r.bp + r.heap.mem[r.bp - 1].size = Stop(h.mem, bp)

(* Writing only links leaves no free neighbours.                           *)
LEMMA AgreeMerged ==
    ASSUME NEW m, NEW e, NEW B, NEW X, Tiled(m, e, B, X, 6), NEW m2, Agree(m, e, B, X, m2),
           Merged(m, B)
    PROVE  Merged(m2, B)
<1> SUFFICES ASSUME NEW b \in B
             PROVE  m2[b - 1].alloc = 1 \/ m2[b + m2[b - 1].size - 1].alloc = 1
  BY DEF Merged
<1>1. b + m[b - 1].size \in B \cup {e} /\ b \in Nat /\ m[b - 1].size \in Nat
  BY Six, BlockFacts
<1>2. b + m[b - 1].size - 1 = (b + m[b - 1].size) - 1
  BY <1>1
<1>3. \A c \in B \cup {e} : m2[c - 1] = m[c - 1]
  BY DEF Agree
<1>4. m2[b - 1] = m[b - 1] /\ m2[b + m[b - 1].size - 1] = m[b + m[b - 1].size - 1]
  BY <1>1, <1>2, <1>3
<1> QED  BY <1>4 DEF Merged

(* A block that two steps keep is kept.                                    *)
LEMMA KeptAgain ==
    ASSUME NEW m, NEW m2, NEW m3, NEW b \in Nat, m[b - 1].size \in Nat, 2 <= m[b - 1].size,
           Kept(m, m2, b), Kept(m2, m3, b)
    PROVE  Kept(m, m3, b) /\ m2[b - 1] = m[b - 1]
<1>1. b - 1 \in b - 1 .. b + m[b - 1].size - 3
  OBVIOUS
<1>2. m2[b - 1] = m[b - 1]
  BY <1>1 DEF Kept
<1> QED  BY <1>2 DEF Kept

(* Blocks in use that two steps keep are kept.                             *)
LEMMA KeepsAgain ==
    ASSUME NEW m, NEW e, NEW B, NEW X, NEW k, Least(k), Tiled(m, e, B, X, k),
           NEW m2, NEW B2, KeepsUsed(m, B, m2, B2),
           NEW m3, NEW B3, KeepsUsed(m2, B2, m3, B3)
    PROVE  KeepsUsed(m, B, m3, B3)
<1>1. \A b \in UsedIn(m, B) : b \in Nat /\ m[b - 1].size \in Nat /\ 2 <= m[b - 1].size
  BY BlockFacts DEF UsedIn
<1>2. \A b \in UsedIn(m, B) : Kept(m, m3, b)
  <2> TAKE b \in UsedIn(m, B)
  <2>1. Kept(m, m2, b) /\ Kept(m2, m3, b)
    BY DEF KeepsUsed
  <2> QED  BY <1>1, <2>1, KeptAgain
<1> QED  BY <1>2 DEF KeepsUsed

(* coalesce of v3 and v4, in its four cases.                               *)
LEMMA CoalesceEffect ==
    ASSUME NEW h \in Heap, Linked(h), NEW B, NEW X, Tiled(h.mem, h.brk, B, X, 6),
           NEW bp \in FreeIn(h.mem, B), ListOf(h, FreeIn(h.mem, B) \ {bp}),
           MergedBut(h.mem, B, bp), bp \notin X,
           \A x \in X : x + h.mem[x - 1].size # bp
    PROVE  Coalesced(h, B, X, bp, V3!coalesce(h, bp))
<1> DEFINE m == h.mem
           e == h.brk
           F == FreeIn(m, B)
           U == Unlinks(m, B)
<1>1. PICK c, d, p, q : Around(m, e, B, bp, c, d, p, q)
  BY Six, AroundFree
<1>2. /\ bp \in Nat /\ p \in Nat /\ p <= bp /\ d \in Nat /\ q \in Nat /\ bp < d /\ d <= q
      /\ c \in Nat /\ c < bp /\ c + m[c - 1].size = bp /\ d = bp + m[bp - 1].size
      /\ m[bp - 1].size \in Nat
  BY <1>1 DEF Around
<1>f. /\ bp \in Nat /\ p \in Nat /\ p <= bp /\ d \in Nat /\ q \in Nat /\ bp < d /\ d <= q
      /\ c \in Nat /\ c < bp
  BY <1>2
<1>3. /\ bp \in B /\ p \in B /\ p # 2 /\ m[bp - 1].alloc = 0 /\ q \in B \cup {e} /\ c \in B
      /\ m[d - 1].alloc = 0 => d \in B
      /\ m[d - 1].alloc \in {0, 1} /\ m[c - 1].alloc \in {0, 1}
  BY <1>1 DEF Around
<1>4. /\ p = (IF m[c - 1].alloc = 1 THEN bp ELSE c)
      /\ q = (IF m[d - 1].alloc = 1 THEN d ELSE d + m[d - 1].size)
      /\ p = Start(m, bp) /\ q = Stop(m, bp)
  BY <1>1 DEF Around
<1>5. /\ m[bp - 2].size = m[c - 1].size /\ m[bp - 2].alloc = m[c - 1].alloc
      /\ c = bp - m[bp - 2].size /\ m[d - 1].size \in Nat
  BY <1>1 DEF Around
<1>6. \A b \in B : b \in Nat /\ b - 1 \in Word /\ b + m[b - 1].size - 2 \in Word /\ m[b - 1].size \in Nat
  BY Six, BlockFacts
<1> DEFINE pa == m[c - 1].alloc = 1
           na == m[d - 1].alloc = 1
           h1 == IF pa THEN h ELSE V3!remove_node(h, c)
           h2 == IF na THEN h1 ELSE V3!remove_node(h1, d)
           h3 == IF pa /\ na THEN h2 ELSE PutBoth(h2, p, q - p, 0)
           g == V3!add_node(h3, p)
           S1 == IF pa THEN F \ {bp} ELSE F \ {bp, c}
           S2 == IF na THEN S1 ELSE S1 \ {d}
<1>7. V3!coalesce(h, bp) = Result(g, p)
  <2>1. V3!PREV_BLKP(h, bp) = c
    BY <1>5, V3Words DEF PREV_BLKP, GET_SIZE
  <2>2. V3!NEXT_BLKP(h, bp) = d
    BY <1>2, V3Words DEF NEXT_BLKP, GET_SIZE, HDRP
  <2>3. V3!GET_ALLOC(h, V3!FTRP(h, c)) = pa
    <3>1. c + m[c - 1].size - 2 = bp - 2
      <4> HIDE DEF m, e
      <4> QED  BY <1>1, AroundSizes
    <3> QED  BY <1>5, <3>1, V3Words DEF FTRP, GET_SIZE, HDRP, GET_ALLOC
  <2>4. V3!GET_ALLOC(h, V3!HDRP(d)) = na
    BY V3Words DEF HDRP, GET_ALLOC
  <2>5. /\ V3!GET_SIZE(h, V3!HDRP(d)) = m[d - 1].size /\ V3!GET_SIZE(h, V3!HDRP(c)) = m[c - 1].size
        /\ V3!GET_SIZE(h, V3!HDRP(bp)) = m[bp - 1].size
    BY V3Words DEF HDRP, GET_SIZE
  <2>7. m[bp - 1].size + (IF na THEN 0 ELSE m[d - 1].size) + (IF pa THEN 0 ELSE m[c - 1].size) = q - p
    <3> HIDE DEF m, e
    <3> QED  BY <1>1, AroundSizes
  <2>8. \A x, b, n : V3!PutBoth(x, b, n, 0) = PutBoth(x, b, n, 0)
    BY V3Words
  <2>9. \A x, b : V3!Result(x, b) = Result(x, b)
    BY V3Words
  <2>10. p = IF pa THEN bp ELSE c
    BY <1>4
  <2> DEFINE n == m[bp - 1].size + (IF na THEN 0 ELSE m[d - 1].size) + (IF pa THEN 0 ELSE m[c - 1].size)
             f1 == IF pa THEN h ELSE V3!remove_node(h, c)
             f2 == IF na THEN f1 ELSE V3!remove_node(f1, d)
             f3 == IF pa /\ na THEN f2 ELSE V3!PutBoth(f2, p, n, 0)
  <2>11. V3!coalesce(h, bp) = V3!Result(V3!add_node(f3, p), p)
    <3> HIDE DEF m
    <3>1. CASE pa /\ na
      BY <2>1, <2>2, <2>3, <2>4, <2>5, <2>10, <3>1 DEF V3!coalesce
    <3>2. CASE pa /\ ~na
      BY <2>1, <2>2, <2>3, <2>4, <2>5, <2>10, <3>2 DEF V3!coalesce
    <3>3. CASE ~pa /\ na
      BY <2>1, <2>2, <2>3, <2>4, <2>5, <2>10, <3>3 DEF V3!coalesce
    <3>4. CASE ~pa /\ ~na
      BY <2>1, <2>2, <2>3, <2>4, <2>5, <2>10, <3>4 DEF V3!coalesce
    <3> QED  BY <3>1, <3>2, <3>3, <3>4
  <2>12. f3 = h3
    BY <2>7, <2>8
  <2> HIDE DEF f3, h3
  <2> QED  BY <2>9, <2>11, <2>12
<1>8. /\ h1 \in Heap /\ SameRest(h1, h) /\ ListOf(h1, S1)
      /\ \A w \in U : h1.mem[w] = m[w]
  <2>1. CASE pa
    BY <2>1 DEF SameRest
  <2>2. CASE ~pa
    <3>1. c \in F \ {bp} /\ F \ {bp} \subseteq F /\ (F \ {bp}) \ {c} = F \ {bp, c}
      BY <1>2, <1>3, <2>2 DEF FreeIn
    <3> HIDE DEF F, U
    <3>2. Unlists(V3!remove_node(h, c), h, (F \ {bp}) \ {c}, Unlinks(m, B))
      BY <3>1, RemoveFree DEF F
    <3> QED  BY <2>2, <3>1, <3>2 DEF U, Unlists
  <2> HIDE DEF h1
  <2> QED  BY <2>1, <2>2
<1>9. d # bp /\ d # c /\ (m[d - 1].alloc = 0 => d \in F) /\ (m[c - 1].alloc = 0 => c \in F)
  <2>1. d # bp /\ d # c
    BY <1>f
  <2>2. (m[d - 1].alloc = 0 => d \in F) /\ (m[c - 1].alloc = 0 => c \in F)
    <3> HIDE DEF m, e
    <3> QED  BY <1>3 DEF FreeIn
  <2> QED  BY <2>1, <2>2
<1> HIDE DEF h1, h3
<1>10. /\ h2 \in Heap /\ SameRest(h2, h) /\ ListOf(h2, S2)
       /\ \A w \in U : h2.mem[w] = m[w]
  <2>1. CASE na
    BY <1>8, <2>1
  <2>2. CASE ~na
    <3>1. d \in S1 /\ S1 \subseteq F
      BY <1>3, <1>9, <2>2
    <3> HIDE DEF F, U, S1
    <3>2. Unlists(V3!remove_node(h1, d), h1, S1 \ {d}, Unlinks(m, B))
      BY <1>8, <3>1, RemoveFree DEF F
    <3> QED  BY <1>8, <2>2, <3>2 DEF U, SameRest, Unlists
  <2> HIDE DEF h2, S2, U
  <2> QED  BY <2>1, <2>2
<1> HIDE DEF h2
<1>11. Agree(m, e, B, X, h2.mem)
  <2>1. h2.mem \in Memory
    BY <1>10 DEF Heap
  <2> QED  BY <1>10, <2>1, AgreeTiles DEF U
<1>12. p - 1 \in Word /\ q - 2 \in Word /\ q - p \in Nat /\ p + (q - p) - 2 = q - 2 /\ p < q
  <2>1. \A b \in B \cup {e} : b - 1 \in Word /\ b \in Nat
    BY <1>6, Six, HeapEnds
  <2>2. p - 1 \in Word /\ q - 1 \in Word
    BY <1>3, <2>1
  <2>3. q - 2 \in Word
    BY <1>2, <2>2, HeapAssumption DEF Word
  <2>4. q - p \in Nat /\ p < q
    BY <1>2
  <2>5. p + (q - p) - 2 = q - 2
    BY <1>2
  <2> QED  BY <2>2, <2>3, <2>4, <2>5
<1>13. /\ h3 \in Heap /\ SameRest(h3, h) /\ h3.blk_headp = h2.blk_headp
       /\ h3.mem[p - 1].size = q - p /\ h3.mem[p - 1].alloc = 0 /\ SameTag(h3.mem[q - 2], h3.mem[p - 1])
       /\ \A w \in Word : w # p - 1 /\ w # q - 2 => h3.mem[w] = h2.mem[w]
  <2>1. CASE pa /\ na
    <3>1. h3 = h2 /\ p = bp /\ q = d
      BY <1>4, <2>1 DEF h3
    <3>2. h2.mem[bp - 1] = m[bp - 1]
      BY <1>3, <1>11 DEF Agree
    <3>3. SameTag(h2.mem[bp + h2.mem[bp - 1].size - 2], h2.mem[bp - 1])
      BY <1>3, <1>11, Six, BlockFacts DEF Agree
    <3>4. bp + h2.mem[bp - 1].size - 2 = d - 2 /\ m[bp - 1].size = d - bp
      BY <1>2, <3>2
    <3> QED  BY <1>3, <1>10, <3>1, <3>2, <3>3, <3>4
  <2>2. CASE ~(pa /\ na)
    <3>1. h3 = PutBoth(h2, p, q - p, 0)
      BY <2>2 DEF h3
    <3>2. p + (q - p) - 2 \in Word
      BY <1>12
    <3>a. PutsBoth(h3, h2, p, q - p, 0)
      BY <1>2, <1>10, <1>12, <3>1, <3>2, PutBothAt
    <3>3. /\ h3 \in Heap /\ SameRest(h3, h2) /\ h3.blk_headp = h2.blk_headp
          /\ \A w \in Word : h3.mem[w] = IF w = p - 1 \/ w = p + (q - p) - 2
                                         THEN Tag(q - p, 0) ELSE h2.mem[w]
      BY <3>a DEF PutsBoth
    <3>4. Tag(q - p, 0).size = q - p /\ Tag(q - p, 0).alloc = 0
      BY <1>12, TagIs
    <3>5. h3.mem[p - 1] = Tag(q - p, 0) /\ h3.mem[q - 2] = Tag(q - p, 0)
      BY <1>12, <3>3
    <3>6. \A w \in Word : w # p - 1 /\ w # q - 2 => h3.mem[w] = h2.mem[w]
      BY <1>12, <3>3
    <3> QED  BY <1>10, <3>3, <3>4, <3>5, <3>6 DEF SameRest, SameTag
  <2> QED  BY <2>1, <2>2
<1> DEFINE m2 == h2.mem
           m3 == h3.mem
           B2 == Cut(B, e, p, q, q)
<1>14. United(m2, e, B, X, 6, p, q, m3)
  <2>1. bp \in FreeIn(m2, B) /\ Tiled(m2, e, B, X, 6) /\ m3 \in Memory /\ \A b \in B \cup {e} : m2[b - 1] = m[b - 1]
    BY <1>11, <1>13 DEF Agree, Heap
  <2>2. MergedBut(m2, B, bp)
    <3>1. \A b \in B : m2[b - 1] = m[b - 1] /\ m2[b + m[b - 1].size - 1] = m[b + m[b - 1].size - 1]
      <4> TAKE b \in B
      <4>1. b + m[b - 1].size \in B \cup {e} /\ b + m[b - 1].size - 1 = (b + m[b - 1].size) - 1
        BY <1>6, Six, BlockFacts
      <4> QED  BY <2>1, <4>1
    <3> QED  BY <3>1 DEF MergedBut
  <2>3. Around(m2, e, B, bp, c, d, p, q)
    <3>1. m2[bp - 1] = m[bp - 1] /\ m2[c - 1] = m[c - 1] /\ m2[d - 1] = m[d - 1]
      BY <1>1, <2>1 DEF Around
    <3>2. m2[bp - 2] = m[bp - 2]
      <4>1. bp - 2 = c + m[c - 1].size - 2
        <5> HIDE DEF m, e
        <5> QED  BY <1>1, AroundSizes
      <4>2. bp - 2 \in U
        BY <1>3, <4>1, TagsUnlinked
      <4> QED  BY <1>10, <4>2
    <3>3. Start(m2, bp) = Start(m, bp)
      BY <3>2 DEF Start
    <3>4. Stop(m2, bp) = Stop(m, bp)
      <4>1. bp + m[bp - 1].size - 1 = d - 1
        BY <1>2
      <4> QED  BY <1>2, <3>1, <4>1 DEF Stop
    <3> HIDE DEF m2, m, e
    <3> QED  BY <1>1, <3>1, <3>2, <3>3, <3>4 DEF Around
  <2>4. OneFree(m2, m3, p, q)
    BY <1>13, <2>1 DEF OneFree
  <2> HIDE DEF m2, m3, e
  <2> QED  BY <2>1, <2>2, <2>3, <2>4, Six, CoalesceTiles
<1>15. /\ S2 = {b \in FreeIn(m2, B) : b < p \/ q <= b}
       /\ \A c1 \in S2 : c1 \in FreeIn(m2, B) /\ c1 # p
  <2>a. FreeIn(m2, B) = F
    BY <1>11 DEF Agree
  <2>1. \A b \in F : b \in B /\ b \in Nat
    BY <1>6 DEF FreeIn
  <2>2. \A b \in F : b < bp => b <= c
    BY <1>1, <2>1 DEF Around
  <2>3. \A b \in F : /\ bp < b => d <= b
                     /\ d < b /\ ~na => q <= b
    <3>1. m[d - 1].alloc # 1 => m[d - 1].alloc = 0
      BY <1>3
    <3> QED  BY <1>1, <2>1, <3>1 DEF Around
  <2>4. ~na => d < q
    <3> HAVE ~na
    <3>1. m[d - 1].alloc = 0
      BY <1>3
    <3>2. d < d + m[d - 1].size
      BY <1>1, <3>1 DEF Around
    <3> QED  BY <1>4, <3>2
  <2>5. (pa => c \notin F) /\ (na => d \notin F)
    BY DEF FreeIn
  <2>6. (pa => p = bp) /\ (~pa => p = c) /\ (na => q = d)
    BY <1>4
  <2>7. ASSUME NEW b \in F
        PROVE  b \in S2 <=> (b < p \/ q <= b)
    <3>1. b \in Nat /\ (b < bp => b <= c) /\ (bp < b => d <= b) /\ (d < b /\ ~na => q <= b)
          /\ (pa => b # c) /\ (na => b # d)
      BY <2>1, <2>2, <2>3, <2>5
    <3>2. b \in S2 <=> (b # bp /\ (~pa => b # c) /\ (~na => b # d))
      OBVIOUS
    <3>3. d # bp /\ d # c
      BY <1>9
    <3> HIDE DEF S2, F, pa, na
    <3> QED  BY <1>f, <2>4, <2>6, <3>1, <3>2, <3>3
  <2>8. S2 \subseteq F
    OBVIOUS
  <2>9. p # bp => p = c
    BY <2>6
  <2> HIDE DEF S2, F
  <2> QED  BY <1>2, <2>a, <2>1, <2>7, <2>8
<1> HIDE DEF S2, F
<1>16. ListOf(h3, S2)
  <2>1. ASSUME NEW b \in S2, NEW w \in LinkWords(b)
        PROVE  h3.mem[w] = h2.mem[w]
    <3>1. b \in F
      BY <1>11, <1>15 DEF Agree, F
    <3>2. p - 1 \in U /\ q - 2 \in U
      <4>1. \A x \in B : x - 1 \in U /\ x + m[x - 1].size - 2 \in U
        BY TagsUnlinked
      <4>2. CASE na
        <5>1. q - 2 = bp + m[bp - 1].size - 2
          BY <1>2, <1>4, <4>2
        <5> QED  BY <1>3, <4>1, <5>1
      <4>3. CASE ~na
        <5>1. q - 2 = d + m[d - 1].size - 2
          <6>1. q = d + m[d - 1].size
            BY <1>4, <4>3
          <6>2. d \in Nat /\ m[d - 1].size \in Nat
            BY <1>f, <1>5
          <6> HIDE DEF m
          <6> QED  BY <6>1, <6>2
        <5> QED  BY <1>3, <4>1, <4>3, <5>1
      <4> QED  BY <1>3, <4>1, <4>2, <4>3
    <3>3. w # p - 1 /\ w # q - 2
      BY <3>1, <3>2, <2>1 DEF Unlinks, F
    <3>4. w \in Word
      <4>1. NodeAt(b)
        BY <3>1, FreeFacts DEF F
      <4> QED  BY <2>1, <4>1, HeapAssumption DEF NodeAt, LinkWords, Word
    <3> QED  BY <1>13, <3>3, <3>4
  <2> QED  BY <1>10, <1>13, <2>1, SameList
<1>17. /\ Tiled(m3, e, B2, X, 6) /\ Merged(m3, B2) /\ FreeIn(m3, B2) = S2 \cup {p}
       /\ KeepsUsed(m2, B, m3, B2)
  BY <1>14, <1>15 DEF United
<1> HIDE DEF B2
<1>18. Lists(g, h3, S2, p)
  <2>1. NodeAt(p) /\ \A b \in S2 : Clear(p, b)
    BY <1>15, <1>17, FreeFacts, FreeClear
  <2> QED  BY <1>13, <1>16, <2>1, AddFree
<1> HIDE DEF g
<1>19. Agree(m3, e, B2, X, g.mem)
  <2>1. \A w \in Unlinks(m3, B2) : g.mem[w] = m3[w]
    BY <1>17, <1>18 DEF Lists, Unlinks
  <2>2. g.mem \in Memory
    BY <1>18 DEF Lists, Heap
  <2> QED  BY <1>17, <2>1, <2>2, AgreeTiles
<1>20. KeepsUsed(m, B, g.mem, B2)
  <2>1. KeepsUsed(m, B, m2, B) /\ KeepsUsed(m3, B2, g.mem, B2)
    BY <1>11, <1>19 DEF Agree, KeepsUsed
  <2>2. KeepsUsed(m, B, m3, B2)
    BY <1>17, <2>1, Six, KeepsAgain
  <2> QED  BY <2>1, <2>2, Six, KeepsAgain
<1>21. /\ SameRest(g, h) /\ Linked(g) /\ g.brk = e /\ Room(g) = 6
  BY <1>13, <1>18 DEF SameRest, Lists, Linked, Room
<1>22. Sound(g, B2, X)
  <2>1. Merged(g.mem, B2)
    BY <1>17, <1>19, AgreeMerged
  <2>2. ListOf(g, FreeIn(g.mem, B2)) /\ g \in Heap /\ Tiled(g.mem, e, B2, X, 6)
    BY <1>17, <1>18, <1>19 DEF Agree, Lists
  <2> QED  BY <1>21, <2>1, <2>2 DEF Sound
<1>23. p \in FreeIn(g.mem, B2) /\ p + g.mem[p - 1].size = q
  <2>1. p \in FreeIn(m3, B2) /\ p \in B2
    BY <1>17 DEF FreeIn
  <2>2. g.mem[p - 1] = m3[p - 1] /\ p \in FreeIn(g.mem, B2)
    BY <1>19, <2>1 DEF Agree
  <2> QED  BY <1>2, <1>13, <2>2
<1>24. V3!coalesce(h, bp).heap = g /\ V3!coalesce(h, bp).bp = p
  BY <1>7 DEF Result, g
<1> QED  BY <1>4, <1>20, <1>21, <1>22, <1>23, <1>24 DEF Coalesced

(***************************************************************************)
(* extend_heap: a free block of n words at the end, united with the one    *)
(* before it.                                                              *)
(***************************************************************************)
Extended(h, B, X, n, r) ==
    /\ r.heap.file = h.file /\ r.heap.flag = h.flag /\ r.heap.brk = h.brk + n
    /\ \E B2 : /\ Sound(r.heap, B2, X) /\ KeepsUsed(h.mem, B, r.heap.mem, B2)
               /\ r.bp \in FreeIn(r.heap.mem, B2)
               /\ r.bp <= h.brk /\ r.bp + r.heap.mem[r.bp - 1].size = h.brk + n
               /\ \A c \in FreeIn(h.mem, B) : c + h.mem[c - 1].size = h.brk => r.bp = c

(* h with the block, before it is united.                                  *)
Longer(h, n, g) ==
    /\ g \in Heap /\ g.file = h.file /\ g.flag = h.flag /\ g.blk_headp = h.blk_headp
    /\ g.brk = h.brk + n
    /\ g.mem[h.brk - 1].size = n /\ g.mem[h.brk - 1].alloc = 0
    /\ SameTag(g.mem[h.brk + n - 2], g.mem[h.brk - 1])
    /\ g.mem[h.brk + n - 1].size = 0 /\ g.mem[h.brk + n - 1].alloc = 1
    /\ \A w \in Word : w < h.brk - 1 => g.mem[w] = h.mem[w]

Lengthened(h, B, X, n, g) ==
    LET B2 == B \cup {h.brk}
    IN  /\ Tiled(g.mem, g.brk, B2, X, Room(h))
        /\ h.brk \in FreeIn(g.mem, B2)
        /\ FreeIn(g.mem, B2) \ {h.brk} = FreeIn(h.mem, B)
        /\ MergedBut(g.mem, B2, h.brk) /\ KeepsUsed(h.mem, B, g.mem, B2)
        /\ h.brk \notin X /\ \A x \in X : x + g.mem[x - 1].size # h.brk
        /\ Linked(h) => ListOf(g, FreeIn(h.mem, B))
        /\ Stop(g.mem, h.brk) = h.brk + n /\ Start(g.mem, h.brk) <= h.brk
        /\ \A c \in FreeIn(h.mem, B) : c + h.mem[c - 1].size = h.brk => Start(g.mem, h.brk) = c

(* Every allocator's blocks have room for their two tags and data.         *)
LEMMA RoomLeast == \A h : Least(Room(h))
BY DEF Room, Least

(* The heap with a block at the end has at most one pair to unite.         *)
LEMMA Lengthen ==
    ASSUME NEW h, NEW B, NEW X, Sound(h, B, X), X \subseteq UsedIn(h.mem, B),
           \A x \in X : x + h.mem[x - 1].size # h.brk,
           NEW n \in Nat, n % 2 = 0, Room(h) <= n, h.brk + n <= MAX_HEAP,
           NEW g, Longer(h, n, g)
    PROVE  Lengthened(h, B, X, n, g)
<1> DEFINE m == h.mem
           e == h.brk
           m2 == g.mem
           B2 == B \cup {e}
           k == Room(h)
<1>1. Tiled(m, e, B, X, k) /\ Least(k) /\ h \in Heap /\ Merged(m, B)
      /\ (Linked(h) => ListOf(h, FreeIn(m, B)))
  BY RoomLeast DEF Sound
<1>2. /\ m2 \in Memory /\ g \in Heap /\ g.blk_headp = h.blk_headp /\ g.brk = e + n
      /\ m2[e - 1].size = n /\ m2[e - 1].alloc = 0
      /\ SameTag(m2[e + n - 2], m2[e - 1]) /\ m2[e + n - 1].size = 0 /\ m2[e + n - 1].alloc = 1
      /\ \A w \in Word : w < e - 1 => m2[w] = m[w]
  BY DEF Longer, Heap
<1> HIDE DEF m, e, m2, k
<1>3. e \in Nat /\ 4 <= e /\ e <= MAX_HEAP /\ e - 1 \in Word /\ e \notin B /\ \A b \in B : b < e
  BY <1>1, HeapEnds
<1>4. \A b \in B : /\ b \in Nat /\ 2 <= b /\ b - 1 \in Word /\ m[b - 1].size \in Nat /\ 2 <= m[b - 1].size
                   /\ m[b - 1].alloc \in {0, 1} /\ b + m[b - 1].size \in B \cup {e}
                   /\ b + m[b - 1].size <= e /\ b + m[b - 1].size - 2 \in Word
                   /\ \A x \in B : b < x => b + m[b - 1].size <= x
  BY <1>1, BlockFacts
<1>5. Tiled(m2, e + n, B2, X, k)
  <2>1. \A w \in Word : w < e - 1 => SameTag(m2[w], m[w])
    BY <1>2 DEF SameTag
  <2>2. k <= n /\ e + n <= MAX_HEAP
    BY DEF k, e
  <2> QED  BY <1>1, <1>2, <2>1, <2>2, Grow
<1>6. \A b \in B : m2[b - 1] = m[b - 1]
  <2> TAKE b \in B
  <2>1. b \in Nat /\ b - 1 \in Word /\ b < e
    BY <1>3, <1>4
  <2>2. b - 1 < e - 1
    BY <1>3, <2>1
  <2> QED  BY <1>2, <2>1, <2>2
<1>7. e \in FreeIn(m2, B2) /\ FreeIn(m2, B2) \ {e} = FreeIn(m, B)
  BY <1>2, <1>3, <1>6 DEF FreeIn
<1>8. UsedIn(m2, B2) = UsedIn(m, B)
  BY <1>2, <1>6 DEF UsedIn
<1>9. MergedBut(m2, B2, e)
  <2> SUFFICES ASSUME NEW b \in B2, b # e, m2[b - 1].alloc # 1, b + m2[b - 1].size # e
               PROVE  m2[b + m2[b - 1].size - 1].alloc = 1
    BY DEF MergedBut
  <2>1. b \in B /\ m2[b - 1] = m[b - 1]
    BY <1>6
  <2>2. b + m[b - 1].size \in B /\ b \in Nat /\ m[b - 1].size \in Nat
    BY <1>4, <2>1
  <2>3. b + m[b - 1].size - 1 = (b + m[b - 1].size) - 1
    BY <2>2
  <2>4. m2[b + m[b - 1].size - 1] = m[b + m[b - 1].size - 1]
    BY <1>6, <2>2, <2>3
  <2>5. m[b + m[b - 1].size - 1].alloc = 1
    BY <1>1, <2>1 DEF Merged
  <2> QED  BY <2>1, <2>4, <2>5
<1>10. \A b \in UsedIn(m, B) : Kept(m, m2, b)
  <2> TAKE b \in UsedIn(m, B)
  <2>1. b \in B /\ b \in Nat /\ 2 <= b /\ m[b - 1].size \in Nat /\ b + m[b - 1].size <= e
    BY <1>4 DEF UsedIn
  <2>2. \A w \in b - 1 .. b + m[b - 1].size - 3 : w \in Word /\ w < e - 1
    BY <1>3, <2>1, HeapAssumption DEF Word
  <2> QED  BY <1>2, <2>2 DEF Kept
<1>11. e \notin X /\ \A x \in X : x + m2[x - 1].size # e
  <2>1. X \subseteq B /\ \A x \in X : x + m[x - 1].size # e
    BY DEF UsedIn, m, e
  <2> QED  BY <1>3, <1>6, <2>1
<1>12. Linked(h) => ListOf(g, FreeIn(m, B))
  <2> HAVE Linked(h)
  <2>1. ASSUME NEW b \in FreeIn(m, B), NEW w \in LinkWords(b)
        PROVE  m2[w] = m[w]
    <3>1. k = 6
      BY DEF k, Room
    <3>2. b \in B /\ 6 <= m[b - 1].size
      BY <1>1, <3>1, FreeFacts
    <3>3. b \in Nat /\ m[b - 1].size \in Nat /\ b + m[b - 1].size <= e
      BY <1>4, <3>2
    <3>4. w \in Word /\ w < e - 1
      BY <1>3, <2>1, <3>2, <3>3, HeapAssumption DEF LinkWords, Word
    <3> QED  BY <1>2, <3>4
  <2>2. \A b \in FreeIn(m, B) : \A w \in LinkWords(b) : g.mem[w] = h.mem[w]
    BY <2>1 DEF m, m2
  <2> QED  BY <1>1, <1>2, <2>2, SameList
<1>13. Stop(m2, e) = e + n
  <2>1. e + n - 1 = e + m2[e - 1].size - 1
    BY <1>2
  <2> QED  BY <1>2, <2>1 DEF Stop
<1>14. Start(m2, e) <= e /\ \A c \in FreeIn(m, B) : c + m[c - 1].size = e => Start(m2, e) = c
  <2>1. \A x \in X : x + m[x - 1].size # e
    BY DEF m, e
  <2>2. PICK c \in B : /\ c + m[c - 1].size = e
                       /\ m[e - 2].size = m[c - 1].size /\ m[e - 2].alloc = m[c - 1].alloc
                       /\ c < e /\ c = e - m[e - 2].size
                       /\ \A x \in B : x < e => x <= c
    BY <1>1, <1>3, <2>1, Neighbours
  <2>3. e - 2 \in Word /\ e - 2 < e - 1
    BY <1>3, HeapAssumption DEF Word
  <2>4. m2[e - 2] = m[e - 2]
    BY <1>2, <2>3
  <2>5. Start(m2, e) = IF m[c - 1].alloc = 1 THEN e ELSE c
    BY <2>2, <2>4 DEF Start
  <2>6. c \in Nat
    BY <1>4, <2>2
  <2>7. ASSUME NEW x \in FreeIn(m, B), x + m[x - 1].size = e
        PROVE  x = c
    <3>1. x \in B /\ x \in Nat
      BY <1>4 DEF FreeIn
    <3>2. x <= c
      BY <1>3, <2>2, <3>1
    <3>3. x < c => x + m[x - 1].size <= c
      BY <1>4, <2>2, <3>1
    <3> QED  BY <1>3, <2>2, <2>6, <2>7, <3>1, <3>2, <3>3
  <2>8. \A x \in FreeIn(m, B) : x + m[x - 1].size = e => Start(m2, e) = x
    <3> TAKE x \in FreeIn(m, B)
    <3> HAVE x + m[x - 1].size = e
    <3>1. x = c /\ m[x - 1].alloc # 1
      BY <2>7 DEF FreeIn
    <3> QED  BY <2>5, <3>1
  <2>9. Start(m2, e) <= e
    BY <1>3, <2>2, <2>5, <2>6
  <2> QED  BY <2>8, <2>9
<1> QED  BY <1>2, <1>5, <1>7, <1>8, <1>9, <1>10, <1>11, <1>12, <1>13, <1>14
         DEF Lengthened, KeepsUsed, m, m2, e, k

(* extend_heap of v3 and v4.                                               *)
LEMMA ExtendEffect ==
    ASSUME NEW h, Linked(h), NEW B, NEW X, Sound(h, B, X), X \subseteq UsedIn(h.mem, B),
           \A x \in X : x + h.mem[x - 1].size # h.brk,
           NEW n \in Nat, n % 2 = 0, 6 <= n, h.brk + n <= MAX_HEAP
    PROVE  Extended(h, B, X, n, V3!extend_heap(h, n))
<1> DEFINE e == h.brk
           h0 == mem_sbrk(h, n)
           h1 == PutBoth(h0, e, n, 0)
           h2 == PUTADDR(h1, e, 0)
           h3 == PUTADDR(h2, e + 2, 0)
           g == PUT(h3, e + n - 1, Tag(0, 1))
<1>1. h \in Heap /\ Room(h) = 6 /\ MAX_HEAP \in Nat
  BY HeapAssumption DEF Sound, Room
<1>2. e \in Nat /\ 4 <= e /\ e <= MAX_HEAP
  <2>1. Tiled(h.mem, h.brk, B, X, 6)
    BY <1>1 DEF Sound
  <2> QED  BY <2>1, Six, HeapEnds
<1>3. /\ e - 1 \in Word /\ e \in Word /\ e + 1 \in Word /\ e + 2 \in Word /\ e + 3 \in Word
      /\ e + n - 2 \in Word /\ e + n - 1 \in Word
      /\ e + 3 < e + n - 2 /\ e + n - 2 # e + n - 1 /\ e - 1 # e + n - 1 /\ e - 1 # e + n - 2
  <2> HIDE DEF e
  <2>1. e + n <= MAX_HEAP
    BY DEF e
  <2> QED  BY <1>1, <1>2, <2>1 DEF Word
<1>4. h0 \in Heap /\ h0 = [h EXCEPT !.brk = e + n]
  <2>1. h0 = [h EXCEPT !.brk = e + n]
    BY DEF mem_sbrk
  <2>2. e + n \in 0 .. MAX_HEAP
    BY <1>1, <1>2
  <2> QED  BY <1>1, <2>1, <2>2 DEF Heap
<1>5. h0.mem = h.mem /\ h0.file = h.file /\ h0.flag = h.flag /\ h0.blk_headp = h.blk_headp /\ h0.brk = e + n
  BY <1>1, <1>4 DEF Heap
<1> HIDE DEF h0, e
<1>6. PutsBoth(h1, h0, e, n, 0)
  BY <1>2, <1>3, <1>4, PutBothAt
<1>7. /\ h1 \in Heap /\ SameRest(h1, h0) /\ h1.blk_headp = h0.blk_headp
      /\ \A w \in Word : h1.mem[w] = IF w = e - 1 \/ w = e + n - 2 THEN Tag(n, 0) ELSE h0.mem[w]
  BY <1>6 DEF PutsBoth
<1> HIDE DEF h1
<1>8. PutsAddr(h2, h1, e, 0)
  BY <1>3, <1>7, PutAddrAt
<1>9. PutsAddr(h3, h2, e + 2, 0)
  <2>1. h2 \in Heap /\ e + 2 + 1 \in Word
    BY <1>2, <1>3, <1>8 DEF PutsAddr
  <2> HIDE DEF h2
  <2> QED  BY <1>3, <2>1, PutAddrAt
<1>10. /\ h3 \in Heap /\ SameRest(h3, h1) /\ h3.blk_headp = h1.blk_headp
       /\ \A w \in Word : w < e \/ e + 3 < w => h3.mem[w] = h1.mem[w]
  <2> HIDE DEF h2, h3
  <2>1. \A w \in Word : w < e \/ e + 3 < w => w # e /\ w # e + 1 /\ w # e + 2 /\ w # e + 2 + 1
    BY <1>2, <1>1 DEF Word
  <2> QED  BY <1>8, <1>9, <2>1 DEF PutsAddr, SameRest
<1> HIDE DEF h2, h3
<1>11. /\ g \in Heap /\ SameRest(g, h3) /\ g.blk_headp = h3.blk_headp
       /\ \A w \in Word : g.mem[w] = IF w = e + n - 1 THEN Tag(0, 1) ELSE h3.mem[w]
  <2>1. Tag(0, 1) \in WordValue
    BY TagIs
  <2> QED  BY <1>3, <1>10, <2>1, PutAt
<1>12. V3!extend_heap(h, n) = V3!coalesce(g, e)
  <2>1. h3.mem[e - 1].size = n
    <3>1. h1.mem[e - 1] = Tag(n, 0) /\ e - 1 < e
      BY <1>2, <1>3, <1>7
    <3>2. h3.mem[e - 1] = h1.mem[e - 1]
      BY <1>3, <1>10, <3>1
    <3>3. Tag(n, 0).size = n
      BY TagIs
    <3> QED  BY <3>1, <3>2, <3>3
  <2>2. V3!HDRP(V3!NEXT_BLKP(h3, e)) = e + n - 1
    BY <1>2, <2>1, V3Words DEF HDRP, NEXT_BLKP, GET_SIZE
  <2>3. V3!Unlinked(V3!PutBoth(V3!mem_sbrk(h, n), e, n, 0), e) = h3
    BY V3Words DEF V3!Unlinked, PRED, SUCC, NULL, h0, h1, h2, h3
  <2> HIDE DEF g
  <2> QED  BY <2>2, <2>3, V3Words DEF V3!extend_heap, e, g
<1> HIDE DEF g
<1>13. Longer(h, n, g)
  <2>1. /\ g.mem[e - 1] = Tag(n, 0) /\ g.mem[e + n - 2] = Tag(n, 0) /\ g.mem[e + n - 1] = Tag(0, 1)
        /\ \A w \in Word : w < e - 1 => g.mem[w] = h.mem[w]
    <3>1. e - 1 < e /\ e + 3 < e + n - 2
      BY <1>2, <1>3
    <3>2. g.mem[e - 1] = h1.mem[e - 1] /\ g.mem[e + n - 2] = h1.mem[e + n - 2]
      BY <1>3, <1>10, <1>11, <3>1
    <3>3. \A w \in Word : w < e - 1 => w < e /\ w # e + n - 1 /\ w # e - 1 /\ w # e + n - 2
      BY <1>1, <1>2, <1>3 DEF Word
    <3>4. \A w \in Word : w < e - 1 => g.mem[w] = h1.mem[w]
      BY <1>10, <1>11, <3>3
    <3> QED  BY <1>3, <1>5, <1>7, <1>11, <3>2, <3>3, <3>4
  <2>2. Tag(n, 0).size = n /\ Tag(n, 0).alloc = 0 /\ Tag(0, 1).size = 0 /\ Tag(0, 1).alloc = 1
    BY TagIs
  <2>3. g \in Heap /\ g.file = h.file /\ g.flag = h.flag /\ g.blk_headp = h.blk_headp /\ g.brk = e + n
    BY <1>5, <1>7, <1>10, <1>11 DEF SameRest
  <2> QED  BY <2>1, <2>2, <2>3 DEF Longer, SameTag, e
<1>14. Lengthened(h, B, X, n, g)
  BY <1>1, <1>13, Lengthen
<1> DEFINE r == V3!coalesce(g, e)
           B2 == B \cup {e}
<1>15. g \in Heap /\ g.file = h.file /\ g.flag = h.flag /\ g.brk = e + n /\ Linked(g)
  BY <1>13 DEF Longer, e, Linked
<1>16. Coalesced(g, B2, X, e, r)
  <2>1. /\ Tiled(g.mem, g.brk, B2, X, 6) /\ e \in FreeIn(g.mem, B2)
        /\ ListOf(g, FreeIn(g.mem, B2) \ {e})
        /\ MergedBut(g.mem, B2, e) /\ e \notin X /\ \A x \in X : x + g.mem[x - 1].size # e
    BY <1>1, <1>14 DEF Lengthened, e
  <2> HIDE DEF B2, r
  <2> QED  BY <1>15, <2>1, CoalesceEffect DEF r
<1> HIDE DEF r, B2
<1>17. PICK B3 : /\ Sound(r.heap, B3, X) /\ KeepsUsed(g.mem, B2, r.heap.mem, B3)
                 /\ r.bp \in FreeIn(r.heap.mem, B3) /\ r.bp = Start(g.mem, e)
                 /\ r.bp + r.heap.mem[r.bp - 1].size = Stop(g.mem, e)
  BY <1>16 DEF Coalesced
<1>18. KeepsUsed(h.mem, B, r.heap.mem, B3)
  <2>1. KeepsUsed(h.mem, B, g.mem, B2)
    BY <1>14 DEF Lengthened, e, B2
  <2>2. Tiled(h.mem, h.brk, B, X, 6)
    BY <1>1 DEF Sound
  <2> QED  BY <1>17, <2>1, <2>2, Six, KeepsAgain
<1>19. r.heap.file = h.file /\ r.heap.flag = h.flag /\ r.heap.brk = e + n
  BY <1>15, <1>16 DEF Coalesced, SameRest
<1>20. /\ Stop(g.mem, e) = e + n /\ Start(g.mem, e) <= e
       /\ \A c \in FreeIn(h.mem, B) : c + h.mem[c - 1].size = e => Start(g.mem, e) = c
  BY <1>14 DEF Lengthened, e
<1>21. Extended(h, B, X, n, r)
  <2> HIDE DEF g
  <2> QED  BY <1>17, <1>18, <1>19, <1>20 DEF Extended, e
<1> QED  BY <1>12, <1>21 DEF r

(***************************************************************************)
(* The footers that v4 gets wrong: of the block that has just grown, in    *)
(* front of the last one, which is free.  Nothing reads it there.          *)
(***************************************************************************)
Late(h, B, X) ==
    /\ X # {} => h.file = "mm_v4" /\ h.flag = 1
    /\ \A x \in X : /\ x \in UsedIn(h.mem, B)
                    /\ x + h.mem[x - 1].size \in FreeIn(h.mem, B)
                    /\ x + h.mem[x - 1].size + h.mem[x + h.mem[x - 1].size - 1].size = h.brk

(* The wrong footer stays in front of a free block that nothing enters.    *)
LEMMA LateStays ==
    ASSUME NEW h, NEW B, NEW X, Sound(h, B, X), Late(h, B, X),
           NEW g, NEW B2, NEW Y, NEW Z, Sound(g, B2, Z), Y \subseteq X,
           g.file = h.file, g.flag = h.flag, h.brk <= g.brk,
           \A x \in Y : x \in UsedIn(g.mem, B2) /\ g.mem[x - 1].size = h.mem[x - 1].size,
           \A b \in UsedIn(g.mem, B2) :
              b \in B /\ (b \in UsedIn(h.mem, B) \/ b + h.mem[b - 1].size # h.brk)
    PROVE  Late(g, B2, Y)
<1> DEFINE m == h.mem
           m2 == g.mem
           e == h.brk
           e2 == g.brk
<1>1. Tiled(m, e, B, X, Room(h)) /\ Tiled(m2, e2, B2, Z, Room(g)) /\ Merged(m2, B2)
      /\ Least(Room(h)) /\ Least(Room(g))
  BY RoomLeast DEF Sound
<1>2. e \in Nat /\ e2 \in Nat /\ e <= e2 /\ \A b \in B : b < e /\ b \in Nat /\ m[b - 1].size \in Nat
  BY <1>1, HeapEnds, BlockFacts
<1>3. \A b \in UsedIn(m2, B2) : b \in B /\ (b \in UsedIn(m, B) \/ b + m[b - 1].size # e)
  OBVIOUS
<1>4. \A x \in Y : /\ x \in UsedIn(m2, B2) /\ m2[x - 1].size = m[x - 1].size
                   /\ x \in UsedIn(m, B) /\ x + m[x - 1].size \in FreeIn(m, B)
                   /\ x + m[x - 1].size + m[x + m[x - 1].size - 1].size = e
  BY DEF Late
<1>5. Y # {} => g.file = "mm_v4" /\ g.flag = 1
  BY DEF Late
<1> HIDE DEF m, m2, e, e2
<1>6. ASSUME NEW x \in Y
      PROVE  /\ x + m2[x - 1].size \in FreeIn(m2, B2)
             /\ x + m2[x - 1].size + m2[x + m2[x - 1].size - 1].size = e2
  <2> DEFINE f == x + m[x - 1].size
  <2>1. f \in FreeIn(m, B) /\ f \in B /\ m[f - 1].alloc = 0 /\ f \in Nat /\ f < e
    BY <1>2, <1>4 DEF FreeIn
  <2>2. x \in B /\ x \in B2 /\ x \in Nat /\ m[x - 1].size \in Nat /\ m2[x - 1].size = m[x - 1].size
    BY <1>2, <1>4 DEF UsedIn
  <2>3. f + m[f - 1].size = e
    <3>1. x + m[x - 1].size - 1 = f - 1
      BY <2>2
    <3> QED  BY <1>4, <3>1
  <2>4. f \in B2 \cup {e2}
    BY <1>1, <2>2, BlockFacts
  <2> HIDE DEF f
  <2>5. f \in B2
    BY <1>2, <2>1, <2>4
  <2>6. f \notin UsedIn(m2, B2)
    BY <1>3, <2>1, <2>3 DEF UsedIn
  <2>7. m2[f - 1].alloc \in {0, 1} /\ m2[f - 1].size \in Nat /\ 2 <= m2[f - 1].size
        /\ f + m2[f - 1].size \in B2 \cup {e2}
    BY <1>1, <2>5, BlockFacts
  <2>8. f \in FreeIn(m2, B2)
    BY <2>5, <2>6, <2>7 DEF FreeIn, UsedIn
  <2>9. f + m2[f - 1].size = e2
    <3> SUFFICES ASSUME f + m2[f - 1].size # e2 PROVE FALSE
      OBVIOUS
    <3> DEFINE n == f + m2[f - 1].size
    <3>1. n \in B2 /\ n \in Nat /\ f < n /\ n - 1 = f + m2[f - 1].size - 1
      BY <2>1, <2>7
    <3>2. m2[f + m2[f - 1].size - 1].alloc = 1
      BY <1>1, <2>5, <2>8 DEF Merged, FreeIn
    <3>3. n \in UsedIn(m2, B2)
      BY <3>1, <3>2 DEF UsedIn
    <3>4. n \in B /\ n < e
      BY <1>2, <1>3, <3>3
    <3>5. f + m[f - 1].size <= n
      <4> HIDE DEF n
      <4>1. \A c \in B : f < c => f + m[f - 1].size <= c
        BY <1>1, <2>1, BlockFacts
      <4> QED  BY <3>1, <3>4, <4>1
    <3> HIDE DEF n
    <3> QED  BY <1>2, <2>3, <3>1, <3>4, <3>5
  <2>10. x + m2[x - 1].size - 1 = f - 1
    BY <2>2 DEF f
  <2>11. x + m2[x - 1].size = f
    BY <2>2 DEF f
  <2> QED  BY <2>8, <2>9, <2>10, <2>11
<1> QED  BY <1>4, <1>5, <1>6 DEF Late, m2, e2

(***************************************************************************)
(* A block in use from p to r, and the rest up to q free, in place of the  *)
(* blocks from p to q.                                                     *)
(***************************************************************************)
Placed(m, e, B, Y, k, p, r, q, m2) ==
    LET B2 == Cut(B, e, p, r, q)
    IN  /\ Tiled(m2, e, B2, Y, k) /\ Merged(m2, B2)
        /\ FreeIn(m2, B2) = {b \in FreeIn(m, B) : b < p \/ q <= b} \cup {b \in {r} : r # q}
        /\ UsedIn(m2, B2) = {b \in UsedIn(m, B) : b < p \/ q <= b} \cup {p}
        /\ \A b \in UsedIn(m, B) : b < p \/ q <= b => Kept(m, m2, b)

(* The tags of place, and those of a block that grows, tile the heap.      *)
LEMMA PlaceTiles ==
    ASSUME NEW m, NEW e, NEW B, NEW X, NEW k, Least(k), Tiled(m, e, B, X, k), Merged(m, B),
           NEW p \in B, p # 2, NEW q \in B \cup {e}, NEW r \in Nat, r % 2 = 0,
           p + k <= r, r = q \/ (r + k <= q /\ m[q - 1].alloc = 1),
           NEW m2 \in Memory, NEW Y,
           m2[p - 1].size = r - p, m2[p - 1].alloc = 1,
           p \in Y \/ SameTag(m2[r - 2], m2[p - 1]),
           r # q => m2[r - 1].size = q - r /\ m2[r - 1].alloc = 0 /\ SameTag(m2[q - 2], m2[r - 1]),
           \A w \in Word : w < p - 1 \/ q - 2 < w => m2[w] = m[w],
           \A b \in B : b < p \/ q <= b => b \notin X \/ b \in Y
    PROVE  Placed(m, e, B, Y, k, p, r, q, m2)
<1> DEFINE B2 == Cut(B, e, p, r, q)
<1>a. e \notin B /\ e \in Nat /\ e - 1 \in Word /\ (\A b \in B : b < e) /\ e <= MAX_HEAP /\ MAX_HEAP \in Nat
  BY HeapEnds, HeapAssumption
<1>b. \A b \in B : /\ b \in Nat /\ 2 <= b /\ b - 1 \in Word /\ m[b - 1].size \in Nat /\ 2 <= m[b - 1].size
                   /\ m[b - 1].alloc \in {0, 1} /\ b + m[b - 1].size \in B \cup {e}
                   /\ b + m[b - 1].size <= e
                   /\ \A x \in B : b < x => b + m[b - 1].size <= x
  BY BlockFacts
<1>1. p \in Nat /\ 2 <= p /\ q \in Nat /\ k \in Nat /\ 4 <= k /\ p < r /\ r <= q /\ p + 4 <= q
  BY <1>a, <1>b DEF Least
<1>2. ASSUME NEW b \in B \cup {e}, b < p \/ q <= b
      PROVE  m2[b - 1] = m[b - 1]
  <2>1. b - 1 \in Word /\ b \in Nat
    BY <1>a, <1>b
  <2>2. b - 1 < p - 1 \/ q - 2 < b - 1
    BY <1>1, <1>2, <2>1
  <2> QED  BY <2>1, <2>2
<1>3. Tiled(m2, e, B2, Y, k)
  <2>1. \A w \in Word : w < p - 1 \/ q - 2 < w => SameTag(m2[w], m[w])
    BY DEF SameTag
  <2> HIDE DEF B2
  <2> QED  BY <2>1, Retile DEF B2
<1>4. \A b \in B2 : b = p \/ (b = r /\ r # q) \/ (b \in B /\ (b < p \/ q <= b))
  <2>1. \A b \in B : b \in Nat
    BY <1>b
  <2> QED  BY <1>1, <2>1 DEF Cut
<1>5. p \in B2 /\ (r # q => r \in B2) /\ \A b \in B : b < p \/ q <= b => b \in B2
  <2>1. \A b \in B : b \in Nat
    BY <1>b
  <2>2. r # q => r # e
    BY <1>a, <1>1
  <2> QED  BY <1>a, <1>1, <2>1, <2>2 DEF Cut
<1> HIDE DEF B2
<1>6. FreeIn(m2, B2) = {b \in FreeIn(m, B) : b < p \/ q <= b} \cup {b \in {r} : r # q}
  <2>1. \A b \in FreeIn(m2, B2) : (b = r /\ r # q) \/ (b \in FreeIn(m, B) /\ (b < p \/ q <= b))
    BY <1>2, <1>4 DEF FreeIn
  <2>2. \A b \in FreeIn(m, B) : b < p \/ q <= b => b \in FreeIn(m2, B2)
    BY <1>2, <1>5 DEF FreeIn
  <2>3. r # q => r \in FreeIn(m2, B2)
    BY <1>5 DEF FreeIn
  <2> QED  BY <2>1, <2>2, <2>3
<1>7. UsedIn(m2, B2) = {b \in UsedIn(m, B) : b < p \/ q <= b} \cup {p}
  <2>1. \A b \in UsedIn(m2, B2) : b = p \/ (b \in UsedIn(m, B) /\ (b < p \/ q <= b))
    BY <1>2, <1>4 DEF UsedIn
  <2>2. \A b \in UsedIn(m, B) : b < p \/ q <= b => b \in UsedIn(m2, B2)
    BY <1>2, <1>5 DEF UsedIn
  <2>3. p \in UsedIn(m2, B2)
    BY <1>5 DEF UsedIn
  <2> QED  BY <2>1, <2>2, <2>3
<1>8. ASSUME NEW b \in UsedIn(m, B), b < p \/ q <= b
      PROVE  Kept(m, m2, b)
  <2>1. b \in B /\ b \in Nat /\ 2 <= b /\ m[b - 1].size \in Nat /\ (b < p => b + m[b - 1].size <= p)
        /\ b + m[b - 1].size <= e
    BY <1>b DEF UsedIn
  <2>2. \A w \in b - 1 .. b + m[b - 1].size - 3 : w \in Word /\ (w < p - 1 \/ q - 2 < w)
    BY <1>a, <1>1, <1>8, <2>1 DEF Word
  <2> QED  BY <2>2 DEF Kept
<1>9. ASSUME NEW b \in B2
      PROVE  m2[b - 1].alloc = 1 \/ m2[b + m2[b - 1].size - 1].alloc = 1
  <2>1. CASE b = p
    BY <2>1
  <2>2. CASE b = r /\ r # q
    <3>1. b + m2[b - 1].size - 1 = q - 1
      BY <1>1, <2>2
    <3>2. m2[q - 1] = m[q - 1]
      BY <1>1, <1>2
    <3> QED  BY <2>2, <3>1, <3>2
  <2>3. CASE b \in B /\ (b < p \/ q <= b)
    <3> DEFINE n == b + m[b - 1].size
    <3>1. m2[b - 1] = m[b - 1] /\ (m[b - 1].alloc = 1 \/ m[b + m[b - 1].size - 1].alloc = 1)
      BY <1>2, <2>3 DEF Merged
    <3>2. n \in B \cup {e} /\ n \in Nat /\ n - 1 = b + m[b - 1].size - 1 /\ b < n
          /\ b \in Nat /\ (b < p => n <= p)
      BY <1>b, <2>3
    <3> HIDE DEF n
    <3>3. n = p \/ n < p \/ q <= n
      BY <1>1, <2>3, <3>2
    <3>4. CASE n = p
      BY <3>1, <3>2, <3>4
    <3>5. CASE n < p \/ q <= n
      <4>1. m2[n - 1] = m[n - 1]
        BY <1>2, <3>2, <3>5
      <4> QED  BY <3>1, <3>2, <4>1
    <3> QED  BY <3>3, <3>4, <3>5
  <2> QED  BY <1>4, <2>1, <2>2, <2>3
<1> QED  BY <1>3, <1>6, <1>7, <1>8, <1>9 DEF Placed, Merged, B2

(***************************************************************************)
(* place: the free block b is taken for so many words.                     *)
(***************************************************************************)
Took(h, B, X, b, words, g) ==
    /\ SameRest(g, h)
    /\ \E B2 : /\ Sound(g, B2, X)
               /\ UsedIn(g.mem, B2) = UsedIn(h.mem, B) \cup {b}
               /\ \A c \in UsedIn(h.mem, B) : Kept(h.mem, g.mem, c)
               /\ words <= g.mem[b - 1].size

(* The links of the other free blocks are outside the block at b.          *)
LEMMA OtherLinks ==
    ASSUME NEW m, NEW e, NEW B, NEW X, Tiled(m, e, B, X, 6), NEW b \in B,
           NEW c \in FreeIn(m, B), c # b, NEW w \in LinkWords(c)
    PROVE  w \in Word /\ (w < b - 1 \/ b + m[b - 1].size - 2 < w)
<1>1. c \in B /\ 6 <= m[c - 1].size /\ NodeAt(c)
  BY FreeFacts
<1>2. /\ b \in Nat /\ m[b - 1].size \in Nat /\ c \in Nat /\ m[c - 1].size \in Nat
      /\ b < c => b + m[b - 1].size <= c
      /\ c < b => c + m[c - 1].size <= b
  BY <1>1, Six, BlockFacts
<1> QED  BY <1>1, <1>2, HeapAssumption DEF LinkWords, NodeAt, Word

(* place of v3 and v4, cutting the block or not.                           *)
LEMMA PlaceEffect ==
    ASSUME NEW h, Linked(h), NEW B, NEW X, Sound(h, B, X), X \subseteq UsedIn(h.mem, B),
           NEW b \in FreeIn(h.mem, B),
           NEW words \in Nat, words % 2 = 0, 6 <= words, words <= h.mem[b - 1].size
    PROVE  Took(h, B, X, b, words, V3!place(h, b, words))
<1> DEFINE m == h.mem
           e == h.brk
           F == FreeIn(m, B)
           U == Unlinks(m, B)
           S == F \ {b}
           csize == m[b - 1].size
           q == b + csize
           r == IF csize - words >= 6 THEN b + words ELSE q
           h1 == V3!remove_node(h, b)
           h2 == PutBoth(h1, b, words, 1)
           h3 == IF csize - words >= 6 THEN PutBoth(h2, b + words, csize - words, 0)
                 ELSE PutBoth(h1, b, csize, 1)
           g == IF csize - words >= 6 THEN V3!add_node(h3, b + words) ELSE h3
           B2 == Cut(B, e, b, r, q)
<1>1. h \in Heap /\ Tiled(m, e, B, X, 6) /\ Merged(m, B) /\ ListOf(h, F) /\ Room(h) = 6
  BY DEF Sound, Room
<1>2. b \in B /\ b # 2 /\ m[b - 1].alloc = 0
  BY <1>1, FreeFacts DEF FreeIn
<1>3. /\ b \in Nat /\ 4 <= b /\ b - 1 \in Word /\ csize \in Nat /\ q \in B \cup {e} /\ q - 2 \in Word
      /\ q <= e /\ e \in Nat /\ b % 2 = 0
  <2>1. /\ b \in Nat /\ 4 <= b /\ b - 1 \in Word /\ csize \in Nat /\ b + csize \in B \cup {e}
        /\ b + csize - 2 \in Word /\ b + csize <= e /\ e \in Nat /\ b % 2 = 0
    BY <1>1, <1>2, Six, BlockFacts
  <2>2. b + csize - 2 = q - 2
    BY <2>1
  <2> QED  BY <2>1, <2>2
<1>4. Unlists(h1, h, S, U)
  <2>1. F \subseteq F /\ b \in F /\ m = h.mem
    OBVIOUS
  <2> QED  BY <1>1, <2>1, RemoveFree
<1> DEFINE m1 == h1.mem
           m3 == h3.mem
<1>5. h1 \in Heap /\ SameRest(h1, h) /\ ListOf(h1, S) /\ Agree(m, e, B, X, m1)
  <2>1. h1 \in Heap /\ SameRest(h1, h) /\ ListOf(h1, S) /\ \A w \in U : m1[w] = m[w]
    BY <1>4 DEF Unlists
  <2>2. m1 \in Memory
    BY <2>1 DEF Heap
  <2> QED  BY <1>1, <2>1, <2>2, AgreeTiles
<1>6. /\ Tiled(m1, e, B, X, 6) /\ Merged(m1, B) /\ FreeIn(m1, B) = F /\ UsedIn(m1, B) = UsedIn(m, B)
      /\ \A c \in B \cup {e} : m1[c - 1] = m[c - 1]
      /\ \A c \in UsedIn(m, B) : Kept(m, m1, c)
  <2>1. Merged(m1, B)
    BY <1>1, <1>5, AgreeMerged
  <2> QED  BY <1>5, <2>1 DEF Agree
<1> HIDE DEF h1, m1
<1>7. words \in Nat /\ 6 <= words /\ words <= csize /\ words % 2 = 0
  OBVIOUS
<1>8. PICK n : n = csize
  OBVIOUS
<1>9. /\ r \in Nat /\ r % 2 = 0 /\ b + 6 <= r /\ (r = q \/ r + 6 <= q) /\ q \in Nat /\ b + words <= r
  <2>1. q % 2 = 0
    BY <1>1, <1>3, Six, BlockFacts, HeapEnds
  <2>2. csize \in Nat /\ b \in Nat
    BY <1>3
  <2>3. CASE csize - words >= 6
    <3>1. r = b + words
      BY <2>3
    <3> HIDE DEF csize, r
    <3> QED  BY <1>3, <1>7, <2>2, <2>3, <3>1
  <2>4. CASE ~(csize - words >= 6)
    <3>1. r = q
      BY <2>4
    <3>2. q \in Nat
      BY <2>2
    <3> HIDE DEF csize, r
    <3> QED  BY <1>7, <2>1, <2>2, <3>1, <3>2
  <2> QED  BY <2>3, <2>4
<1> HIDE DEF csize
<1>10. /\ h3 \in Heap /\ SameRest(h3, h) /\ h3.blk_headp = h1.blk_headp
       /\ m3[b - 1].size = r - b /\ m3[b - 1].alloc = 1 /\ SameTag(m3[r - 2], m3[b - 1])
       /\ r # q => m3[r - 1].size = q - r /\ m3[r - 1].alloc = 0 /\ SameTag(m3[q - 2], m3[r - 1])
       /\ \A w \in Word : w < b - 1 \/ q - 2 < w => m3[w] = m1[w]
  <2>1. CASE csize - words >= 6
    <3>1. r = b + words /\ h3 = PutBoth(h2, r, q - r, 0) /\ r # q /\ r + 6 <= q
      <4>1. csize - words = q - (b + words) /\ b + words # q /\ b + words + 6 <= q
        BY <1>3, <1>7, <2>1
      <4> QED  BY <2>1, <4>1
    <3>2. r - 1 \in Word /\ r - 2 \in Word /\ q - 2 \in Word /\ b - 1 \in Word
      <4> HIDE DEF r, q
      <4> QED  BY <1>3, <1>9, <3>1, HeapAssumption DEF Word
    <3>3. b + words - 2 = r - 2 /\ r + (q - r) - 2 = q - 2 /\ q - r \in Nat
      <4> HIDE DEF r, q
      <4> QED  BY <1>3, <1>7, <1>9, <3>1
    <3> HIDE DEF r, q, h3
    <3>4. PutsBoth(h2, h1, b, words, 1)
      BY <1>3, <1>5, <1>7, <3>2, <3>3, PutBothAt
    <3> HIDE DEF h2
    <3>5. h2 \in Heap
      BY <3>4 DEF PutsBoth
    <3>6. PutsBoth(h3, h2, r, q - r, 0)
      BY <1>9, <3>1, <3>2, <3>3, <3>5, PutBothAt
    <3>7. /\ \A w \in Word : h2.mem[w] = IF w = b - 1 \/ w = r - 2 THEN Tag(words, 1) ELSE h1.mem[w]
          /\ \A w \in Word : h3.mem[w] = IF w = r - 1 \/ w = q - 2 THEN Tag(q - r, 0) ELSE h2.mem[w]
      BY <3>3, <3>4, <3>6 DEF PutsBoth
    <3>8. /\ Tag(words, 1).size = words /\ Tag(words, 1).alloc = 1
          /\ Tag(q - r, 0).size = q - r /\ Tag(q - r, 0).alloc = 0
      BY <1>7, <3>3, TagIs
    <3>9. b - 1 # r - 1 /\ b - 1 # q - 2 /\ r - 2 # r - 1 /\ r - 2 # q - 2 /\ r - b = words
      BY <1>3, <1>7, <1>9, <3>1
    <3>10. /\ h3.mem[b - 1] = Tag(words, 1) /\ h3.mem[r - 2] = Tag(words, 1)
           /\ h3.mem[r - 1] = Tag(q - r, 0) /\ h3.mem[q - 2] = Tag(q - r, 0)
      BY <3>2, <3>7, <3>9
    <3>11. \A w \in Word : w < b - 1 \/ q - 2 < w => w # b - 1 /\ w # r - 2 /\ w # r - 1 /\ w # q - 2
      BY <1>3, <1>9, <3>1, HeapAssumption DEF Word
    <3>12. \A w \in Word : w < b - 1 \/ q - 2 < w => h3.mem[w] = h1.mem[w]
      BY <3>7, <3>11
    <3>13. h3 \in Heap /\ SameRest(h3, h) /\ h3.blk_headp = h1.blk_headp
      BY <1>5, <3>4, <3>6 DEF PutsBoth, SameRest
    <3> QED  BY <3>8, <3>9, <3>10, <3>12, <3>13 DEF SameTag, m1
  <2>2. CASE ~(csize - words >= 6)
    <3>1. r = q /\ h3 = PutBoth(h1, b, csize, 1)
      BY <2>2
    <3>2. b + csize - 2 = q - 2 /\ r - b = csize /\ b - 1 # q - 2
      <4> HIDE DEF r
      <4> QED  BY <1>3, <1>7, <3>1
    <3> HIDE DEF r, q, h3
    <3>3. PutsBoth(h3, h1, b, csize, 1)
      BY <1>3, <1>5, <3>1, <3>2, PutBothAt
    <3>4. \A w \in Word : h3.mem[w] = IF w = b - 1 \/ w = q - 2 THEN Tag(csize, 1) ELSE h1.mem[w]
      BY <3>2, <3>3 DEF PutsBoth
    <3>5. Tag(csize, 1).size = csize /\ Tag(csize, 1).alloc = 1
      BY <1>3, TagIs
    <3>6. h3.mem[b - 1] = Tag(csize, 1) /\ h3.mem[q - 2] = Tag(csize, 1)
      BY <1>3, <3>4
    <3>7. \A w \in Word : w < b - 1 \/ q - 2 < w => w # b - 1 /\ w # q - 2
      BY <1>3, <1>9, <3>1, HeapAssumption DEF Word
    <3>8. \A w \in Word : w < b - 1 \/ q - 2 < w => h3.mem[w] = h1.mem[w]
      BY <3>4, <3>7
    <3>9. h3 \in Heap /\ SameRest(h3, h) /\ h3.blk_headp = h1.blk_headp
      BY <1>5, <3>3 DEF PutsBoth, SameRest
    <3> QED  BY <3>1, <3>2, <3>5, <3>6, <3>8, <3>9 DEF SameTag, m1
  <2> QED  BY <2>1, <2>2
<1>11. Placed(m1, e, B, X, 6, b, r, q, m3)
  <2>1. m1[q - 1].alloc = 1
    <3>1. m1[b - 1] = m[b - 1]
      BY <1>2, <1>6
    <3>2. m1[b + m1[b - 1].size - 1].alloc = 1
      BY <1>2, <1>6, <3>1 DEF Merged
    <3>3. b + m1[b - 1].size - 1 = q - 1
      BY <1>3, <3>1 DEF csize
    <3> QED  BY <3>2, <3>3
  <2>2. m3 \in Memory
    BY <1>10 DEF Heap
  <2> HIDE DEF r, q, m3, e
  <2> QED  BY <1>2, <1>3, <1>6, <1>9, <1>10, <2>1, <2>2, Six, PlaceTiles
<1>12. csize - words >= 6 <=> r # q
  <2>1. csize - words >= 6 => b + words # b + csize
    BY <1>3, <1>7
  <2> QED  BY <2>1
<1>13. V3!place(h, b, words) = g
  <2>1. /\ V3!HDRP(b) = b - 1 /\ V3!GET_SIZE(h, b - 1) = csize
        /\ \A x, y, n1, a : V3!PutBoth(x, y, n1, a) = PutBoth(x, y, n1, a)
    BY V3Words DEF HDRP, GET_SIZE, csize
  <2>2. CASE csize - words >= 6
    <3>1. b + words - 2 \in Word /\ b - 1 # b + words - 2
      <4>1. csize \in Nat /\ b + csize <= e /\ e <= MAX_HEAP /\ MAX_HEAP \in Nat
        BY <1>1, <1>3, Six, HeapEnds, HeapAssumption
      <4> HIDE DEF e
      <4> QED  BY <1>3, <1>7, <2>2, <4>1 DEF Word
    <3> HIDE DEF h2
    <3>2. PutsBoth(h2, h1, b, words, 1)
      BY <1>3, <1>5, <1>7, <3>1, PutBothAt DEF h2
    <3>3. h2.mem[b - 1].size = words
      <4>1. h2.mem[b - 1] = Tag(words, 1)
        BY <1>3, <3>2 DEF PutsBoth
      <4> QED  BY <1>7, <4>1, TagIs
    <3>4. V3!NEXT_BLKP(h2, b) = b + words
      BY <3>3, V3Words DEF NEXT_BLKP, GET_SIZE, HDRP
    <3>5. h3 = PutBoth(h2, b + words, csize - words, 0)
      BY <2>2 DEF h2
    <3> HIDE DEF h3
    <3> QED  BY <2>1, <2>2, <3>4, <3>5 DEF V3!place, h1, h2
  <2>3. CASE ~(csize - words >= 6)
    BY <2>1, <2>3 DEF V3!place, h1
  <2> QED  BY <2>2, <2>3
<1> HIDE DEF h3, r, q, B2, g
<1>14. \A c \in B : c \in Nat /\ (b < c => q <= c)
  <2>1. \A c \in B : c \in Nat
    BY <1>1, Six, BlockFacts
  <2>2. \A c \in B : b < c => b + m[b - 1].size <= c
    BY <1>1, <1>2, Six, BlockFacts
  <2> QED  BY <2>1, <2>2 DEF q, csize
<1>15. S = {c \in F : c < b \/ q <= c}
  <2>1. \A c \in F : c \in B
    BY DEF FreeIn
  <2>2. b < q /\ b \in Nat /\ q \in Nat
    BY <1>3, <1>9
  <2>3. \A c \in F : c # b <=> (c < b \/ q <= c)
    <3> TAKE c \in F
    <3>1. c \in Nat /\ (b < c => q <= c)
      BY <1>14, <2>1
    <3> QED  BY <2>2, <3>1
  <2> HIDE DEF F
  <2> QED  BY <2>3
<1>16. UsedIn(m, B) = {c \in UsedIn(m, B) : c < b \/ q <= c} /\ b \notin UsedIn(m, B)
  <2>1. \A c \in UsedIn(m, B) : c \in B /\ c # b
    BY <1>2 DEF UsedIn
  <2>2. \A c \in UsedIn(m, B) : c < b \/ q <= c
    <3> TAKE c \in UsedIn(m, B)
    <3>1. c \in Nat /\ (b < c => q <= c) /\ c # b
      BY <1>14, <2>1
    <3> QED  BY <1>3, <3>1
  <2> QED  BY <2>1, <2>2
<1>17. /\ Tiled(m3, e, B2, X, 6) /\ Merged(m3, B2)
       /\ FreeIn(m3, B2) = S \cup {c \in {r} : r # q}
       /\ UsedIn(m3, B2) = UsedIn(m, B) \cup {b}
       /\ \A c \in UsedIn(m, B) : Kept(m1, m3, c)
  <2>1. FreeIn(m1, B) = F /\ UsedIn(m1, B) = UsedIn(m, B)
    BY <1>6
  <2> HIDE DEF m3, F, e, S, m
  <2> QED  BY <1>11, <1>15, <1>16, <2>1 DEF Placed, B2
<1>18. ListOf(h3, S)
  <2>1. ASSUME NEW c \in S, NEW w \in LinkWords(c)
        PROVE  h3.mem[w] = h1.mem[w]
    <3>1. c \in FreeIn(m, B) /\ c # b
      OBVIOUS
    <3>2. w \in Word /\ (w < b - 1 \/ b + m[b - 1].size - 2 < w)
      BY <1>1, <1>2, <2>1, <3>1, OtherLinks
    <3>3. b + m[b - 1].size - 2 = q - 2
      BY <1>3 DEF q, csize
    <3> QED  BY <1>10, <3>2, <3>3 DEF m1
  <2> HIDE DEF S
  <2> QED  BY <1>5, <1>10, <2>1, SameList
<1>19. g \in Heap /\ SameRest(g, h) /\ ListOf(g, FreeIn(m3, B2)) /\ Agree(m3, e, B2, X, g.mem)
  <2>1. CASE r = q
    <3>1. g = h3
      BY <1>12, <2>1 DEF g
    <3>2. FreeIn(m3, B2) = S
      BY <1>17, <2>1
    <3>3. m3 \in Memory /\ \A w \in Unlinks(m3, B2) : m3[w] = m3[w]
      BY <1>10 DEF Heap
    <3>4. Agree(m3, e, B2, X, m3)
      BY <1>17, <3>3, AgreeTiles
    <3> QED  BY <1>10, <1>18, <3>1, <3>2, <3>4
  <2>2. CASE r # q
    <3>1. g = V3!add_node(h3, r) /\ FreeIn(m3, B2) = S \cup {r}
      BY <1>12, <1>17, <2>2 DEF g, r
    <3>2. r \in FreeIn(m3, B2) /\ \A c \in S : c \in FreeIn(m3, B2) /\ c # r
      <4>1. ASSUME NEW c \in S PROVE c # r
        <5>1. c \in Nat /\ (c < b \/ q <= c)
          BY <1>14, <1>15 DEF FreeIn
        <5> QED  BY <1>3, <1>9, <2>2, <5>1
      <4> QED  BY <3>1, <4>1
    <3>3. NodeAt(r) /\ \A c \in S : Clear(r, c)
      BY <1>17, <3>2, FreeFacts, FreeClear
    <3>4. Lists(g, h3, S, r)
      BY <1>10, <1>18, <3>1, <3>3, AddFree
    <3>5. g.mem \in Memory /\ \A w \in Unlinks(m3, B2) : g.mem[w] = m3[w]
      BY <3>1, <3>4 DEF Lists, Unlinks, Heap
    <3>6. Agree(m3, e, B2, X, g.mem)
      BY <1>17, <3>5, AgreeTiles
    <3> QED  BY <1>10, <3>1, <3>4, <3>6 DEF Lists, SameRest
  <2> QED  BY <2>1, <2>2
<1>20. Sound(g, B2, X)
  <2>1. Merged(g.mem, B2)
    BY <1>17, <1>19, AgreeMerged
  <2>2. Linked(g) /\ Room(g) = 6 /\ g.brk = e
    BY <1>19 DEF SameRest, Linked, Room
  <2> QED  BY <1>19, <2>1, <2>2 DEF Sound, Agree
<1>21. UsedIn(g.mem, B2) = UsedIn(m, B) \cup {b}
  BY <1>17, <1>19 DEF Agree
<1>22. ASSUME NEW c \in UsedIn(m, B) PROVE Kept(m, g.mem, c)
  <2>1. c \in Nat /\ m[c - 1].size \in Nat /\ 2 <= m[c - 1].size
    BY <1>1, Six, BlockFacts DEF UsedIn
  <2>2. Kept(m, m1, c) /\ Kept(m1, m3, c) /\ Kept(m3, g.mem, c)
    BY <1>6, <1>17, <1>19 DEF Agree
  <2>3. Kept(m, m3, c)
    BY <2>1, <2>2, KeptAgain
  <2> HIDE DEF m, m3
  <2> QED  BY <2>1, <2>2, <2>3, KeptAgain
<1>23. words <= g.mem[b - 1].size
  <2>1. b \in UsedIn(m3, B2) /\ b \in B2
    BY <1>17 DEF UsedIn
  <2>2. g.mem[b - 1] = m3[b - 1]
    BY <1>19, <2>1 DEF Agree
  <2> QED  BY <1>3, <1>9, <1>10, <2>2
<1> QED  BY <1>13, <1>19, <1>20, <1>21, <1>22, <1>23 DEF Took

(***************************************************************************)
(* mm_free: the block p in use becomes free, then is united.               *)
(***************************************************************************)
Freed(h, B, X, bp, g) ==
    /\ SameRest(g, h)
    /\ \E B2 : /\ Sound(g, B2, X \ {bp})
               /\ UsedIn(g.mem, B2) = UsedIn(h.mem, B) \ {bp}
               /\ \A c \in UsedIn(h.mem, B) \ {bp} : Kept(h.mem, g.mem, c)

Freeing(m, e, B, X, k, p, m2) ==
    /\ Tiled(m2, e, B, X \ {p}, k) /\ MergedBut(m2, B, p)
    /\ FreeIn(m2, B) = FreeIn(m, B) \cup {p} /\ UsedIn(m2, B) = UsedIn(m, B) \ {p}
    /\ \A b \in UsedIn(m, B) \ {p} : Kept(m, m2, b)
    /\ \A b \in B \ {p} : m2[b - 1] = m[b - 1]

(* The tags of a block set free, before it is united.                      *)
LEMMA FreeTiles ==
    ASSUME NEW m, NEW e, NEW B, NEW X, NEW k, Least(k), Tiled(m, e, B, X, k), Merged(m, B),
           NEW p \in UsedIn(m, B), p # 2, NEW m2 \in Memory,
           m2[p - 1].size = m[p - 1].size, m2[p - 1].alloc = 0,
           SameTag(m2[p + m[p - 1].size - 2], m2[p - 1]),
           \A w \in Word : w < p - 1 \/ p + m[p - 1].size - 2 < w => m2[w] = m[w]
    PROVE  Freeing(m, e, B, X, k, p, m2)
<1> DEFINE q == p + m[p - 1].size
<1>1. e \notin B /\ e \in Nat /\ e - 1 \in Word /\ (\A b \in B : b < e) /\ e <= MAX_HEAP /\ MAX_HEAP \in Nat
  BY HeapEnds, HeapAssumption
<1>2. \A b \in B : /\ b \in Nat /\ 2 <= b /\ b - 1 \in Word /\ m[b - 1].size \in Nat /\ 2 <= m[b - 1].size
                   /\ m[b - 1].alloc \in {0, 1} /\ b + m[b - 1].size \in B \cup {e}
                   /\ b + m[b - 1].size <= e
                   /\ \A x \in B : b < x => b + m[b - 1].size <= x
  BY BlockFacts
<1>3. p \in B /\ m[p - 1].alloc = 1
  BY DEF UsedIn
<1>4. /\ p \in Nat /\ 2 <= p /\ q \in Nat /\ q \in B \cup {e} /\ q = p + m[p - 1].size
      /\ p + k <= q /\ k \in Nat /\ 4 <= k
      /\ q - 2 = p + m[p - 1].size - 2 /\ m[p - 1].size = q - p
  <2>1. k <= m[p - 1].size /\ k \in Nat /\ 4 <= k
    BY <1>3, BlockFacts DEF Least
  <2>2. p \in Nat /\ 2 <= p /\ m[p - 1].size \in Nat /\ q \in B \cup {e}
    BY <1>2, <1>3
  <2> QED  BY <2>1, <2>2
<1>5. \A b \in B : b <= p \/ q <= b
  <2>1. \A b \in B : p < b => q <= b
    BY <1>2, <1>3
  <2>2. \A b \in B : b \in Nat
    BY <1>2
  <2> QED  BY <1>4, <2>1, <2>2
<1> HIDE DEF q
<1>6. \A w \in Word : w < p - 1 \/ q - 2 < w => m2[w] = m[w]
  BY <1>4
<1>7. ASSUME NEW b \in B \cup {e}, b # p
      PROVE  m2[b - 1] = m[b - 1]
  <2>1. b - 1 \in Word /\ b \in Nat
    BY <1>1, <1>2
  <2>2. b < p \/ q <= b
    <3>1. CASE b = e
      BY <1>1, <1>2, <1>4, <3>1
    <3>2. CASE b \in B
      BY <1>4, <1>5, <1>7, <2>1, <3>2
    <3> QED  BY <3>1, <3>2
  <2>3. b - 1 < p - 1 \/ q - 2 < b - 1
    BY <1>4, <2>1, <2>2
  <2> QED  BY <1>6, <2>1, <2>3
<1>8. Tiled(m2, e, B, X \ {p}, k)
  <2>1. Cut(B, e, p, q, q) = B
    BY <1>1, <1>4, <1>5 DEF Cut
  <2>2. \A w \in Word : w < p - 1 \/ q - 2 < w => SameTag(m2[w], m[w])
    BY <1>6 DEF SameTag
  <2>3. q % 2 = 0
    BY <1>4, BlockFacts, HeapEnds
  <2>4. \A b \in B : b < p \/ q <= b => b \notin X \/ b \in X \ {p}
    BY <1>4
  <2>5. m2[p - 1].size = q - p /\ SameTag(m2[q - 2], m2[p - 1])
    BY <1>4
  <2>6. Tiled(m2, e, Cut(B, e, p, q, q), X \ {p}, k)
    BY <1>3, <1>4, <2>2, <2>3, <2>4, <2>5, Retile
  <2> QED  BY <2>1, <2>6
<1>9. FreeIn(m2, B) = FreeIn(m, B) \cup {p} /\ UsedIn(m2, B) = UsedIn(m, B) \ {p}
  BY <1>3, <1>7 DEF FreeIn, UsedIn
<1>10. MergedBut(m2, B, p)
  <2> SUFFICES ASSUME NEW b \in B, b # p, m2[b - 1].alloc # 1, b + m2[b - 1].size # p
               PROVE  m2[b + m2[b - 1].size - 1].alloc = 1
    BY DEF MergedBut
  <2>1. m2[b - 1] = m[b - 1]
    BY <1>7
  <2>2. b + m[b - 1].size \in B \cup {e} /\ b \in Nat /\ m[b - 1].size \in Nat
    BY <1>2
  <2>3. b + m[b - 1].size - 1 = (b + m[b - 1].size) - 1
    BY <2>2
  <2>4. m2[b + m[b - 1].size - 1] = m[b + m[b - 1].size - 1]
    BY <1>7, <2>1, <2>2, <2>3
  <2>5. m[b + m[b - 1].size - 1].alloc = 1
    BY <2>1 DEF Merged
  <2> QED  BY <2>1, <2>4, <2>5
<1>11. ASSUME NEW b \in UsedIn(m, B) \ {p}
       PROVE  Kept(m, m2, b)
  <2>1. b \in B /\ b \in Nat /\ 2 <= b /\ m[b - 1].size \in Nat /\ (b < p => b + m[b - 1].size <= p)
        /\ b + m[b - 1].size <= e
    BY <1>2, <1>3 DEF UsedIn
  <2>2. b < p \/ q <= b
    BY <1>4, <1>5, <2>1
  <2>3. \A w \in b - 1 .. b + m[b - 1].size - 3 : w \in Word /\ (w < p - 1 \/ q - 2 < w)
    BY <1>1, <1>4, <2>1, <2>2 DEF Word
  <2> QED  BY <1>6, <2>3 DEF Kept
<1> QED  BY <1>7, <1>8, <1>9, <1>10, <1>11 DEF Freeing

(* mm_free of v3 and v4: the block is free, every other one is kept.       *)
LEMMA FreeEffect ==
    ASSUME NEW h, Linked(h), NEW B, NEW X, Sound(h, B, X), Late(h, B, X),
           NEW bp \in UsedIn(h.mem, B), bp # 2
    PROVE  Freed(h, B, X, bp, V3!mm_free(h, bp))
<1> DEFINE m == h.mem
           e == h.brk
           F == FreeIn(m, B)
           n == m[bp - 1].size
           q == bp + n
           h1 == PutBoth(h, bp, n, 0)
           h2 == PUTADDR(h1, bp, 0)
           h3 == PUTADDR(h2, bp + 2, 0)
           m3 == h3.mem
<1>1. h \in Heap /\ Tiled(m, e, B, X, 6) /\ Merged(m, B) /\ ListOf(h, F)
  BY DEF Sound, Room
<1>2. bp \in B /\ m[bp - 1].alloc = 1
  BY DEF UsedIn
<1>3. /\ bp \in Nat /\ 4 <= bp /\ bp - 1 \in Word /\ n \in Nat /\ 6 <= n /\ q - 2 \in Word
      /\ bp + n - 2 = q - 2 /\ q <= e /\ e \in Nat /\ e <= MAX_HEAP
  <2>1. /\ bp \in Nat /\ 4 <= bp /\ bp - 1 \in Word /\ n \in Nat /\ 6 <= n /\ bp + n - 2 \in Word
        /\ bp + n <= e /\ e \in Nat /\ e <= MAX_HEAP
    BY <1>1, <1>2, Six, BlockFacts
  <2>2. bp + n - 2 = q - 2
    BY <2>1
  <2> QED  BY <2>1, <2>2
<1> HIDE DEF n
<1>4. /\ bp \in Word /\ bp + 1 \in Word /\ bp + 2 \in Word /\ bp + 3 \in Word
      /\ bp + 3 < q - 2 /\ bp - 1 # q - 2
  BY <1>3, HeapAssumption DEF Word
<1> HIDE DEF e, h1
<1>5. PutsBoth(h1, h, bp, n, 0)
  BY <1>1, <1>3, PutBothAt DEF h1
<1> HIDE DEF q
<1>6. /\ h1 \in Heap /\ SameRest(h1, h) /\ h1.blk_headp = h.blk_headp
      /\ \A w \in Word : h1.mem[w] = IF w = bp - 1 \/ w = q - 2 THEN Tag(n, 0) ELSE m[w]
  BY <1>3, <1>5 DEF PutsBoth
<1>7. PutsAddr(h2, h1, bp, 0)
  BY <1>4, <1>6, PutAddrAt
<1>8. PutsAddr(h3, h2, bp + 2, 0)
  <2>1. h2 \in Heap /\ bp + 2 + 1 \in Word
    BY <1>3, <1>4, <1>7 DEF PutsAddr
  <2> HIDE DEF h2
  <2> QED  BY <1>4, <2>1, PutAddrAt
<1>9. /\ h3 \in Heap /\ SameRest(h3, h1) /\ h3.blk_headp = h1.blk_headp
      /\ \A w \in Word : w < bp \/ bp + 3 < w => h3.mem[w] = h1.mem[w]
  <2> HIDE DEF h2, h3
  <2>1. \A w \in Word : w < bp \/ bp + 3 < w => w # bp /\ w # bp + 1 /\ w # bp + 2 /\ w # bp + 2 + 1
    BY <1>3, HeapAssumption DEF Word
  <2> QED  BY <1>7, <1>8, <2>1 DEF PutsAddr, SameRest
<1>10. V3!mm_free(h, bp) = V3!coalesce(h3, bp).heap
  <2>1. V3!GET_SIZE(h, V3!HDRP(bp)) = n
    BY V3Words DEF GET_SIZE, HDRP, n
  <2>2. V3!Unlinked(V3!PutBoth(h, bp, n, 0), bp) = h3
    BY V3Words DEF V3!Unlinked, PRED, SUCC, NULL, h1
  <2> HIDE DEF h3
  <2> QED  BY <2>1, <2>2 DEF V3!mm_free
<1> HIDE DEF h2, h3
<1>11. /\ m3 \in Memory /\ m3[bp - 1].size = n /\ m3[bp - 1].alloc = 0 /\ SameTag(m3[q - 2], m3[bp - 1])
       /\ \A w \in Word : w < bp - 1 \/ q - 2 < w => m3[w] = m[w]
  <2>1. h1.mem[bp - 1] = Tag(n, 0) /\ h1.mem[q - 2] = Tag(n, 0)
    BY <1>3, <1>6
  <2>2. h3.mem[bp - 1] = Tag(n, 0) /\ h3.mem[q - 2] = Tag(n, 0)
    <3>1. bp - 1 < bp
      BY <1>3
    <3> QED  BY <1>3, <1>4, <1>9, <2>1, <3>1
  <2>3. Tag(n, 0).size = n /\ Tag(n, 0).alloc = 0
    BY <1>3, TagIs
  <2>4. \A w \in Word : w < bp - 1 \/ q - 2 < w => w # bp - 1 /\ w # q - 2 /\ (w < bp \/ bp + 3 < w)
    BY <1>3, <1>4, HeapAssumption DEF Word
  <2>5. \A w \in Word : w < bp - 1 \/ q - 2 < w => h3.mem[w] = m[w]
    BY <1>6, <1>9, <2>4
  <2> QED  BY <1>9, <2>2, <2>3, <2>5 DEF Heap, SameTag
<1>12. Freeing(m, e, B, X, 6, bp, m3)
  <2>1. m3[bp - 1].size = m[bp - 1].size
    BY <1>11 DEF n
  <2>2. bp + m[bp - 1].size - 2 = q - 2
    BY <1>3 DEF n
  <2> HIDE DEF m3, m
  <2> QED  BY <1>1, <1>11, <2>1, <2>2, Six, FreeTiles DEF m
<1> DEFINE X2 == X \ {bp}
           r == V3!coalesce(h3, bp)
<1>13. /\ Tiled(m3, e, B, X2, 6) /\ MergedBut(m3, B, bp)
       /\ FreeIn(m3, B) = F \cup {bp} /\ UsedIn(m3, B) = UsedIn(m, B) \ {bp}
       /\ \A b \in UsedIn(m, B) \ {bp} : Kept(m, m3, b)
       /\ \A b \in B \ {bp} : m3[b - 1] = m[b - 1]
  BY <1>12 DEF Freeing
<1>14. bp \notin F
  BY <1>2 DEF FreeIn
<1>15. ListOf(h3, F)
  <2>1. ASSUME NEW c \in F, NEW w \in LinkWords(c)
        PROVE  h3.mem[w] = h.mem[w]
    <3>1. c # bp
      BY <1>14
    <3>2. w \in Word /\ (w < bp - 1 \/ bp + m[bp - 1].size - 2 < w)
      BY <1>1, <1>2, <2>1, <3>1, OtherLinks
    <3> QED  BY <1>3, <1>11, <3>2 DEF n
  <2> HIDE DEF F
  <2> QED  BY <1>1, <1>6, <1>9, <2>1, SameList
<1>16. \A x \in X2 : x + m3[x - 1].size # bp
  <2> TAKE x \in X2
  <2>1. x \in UsedIn(m, B) /\ x + m[x - 1].size \in FreeIn(m, B) /\ x # bp
    BY DEF Late
  <2>2. m3[x - 1] = m[x - 1]
    BY <1>13, <2>1 DEF UsedIn
  <2> QED  BY <1>14, <2>1, <2>2
<1>17. Coalesced(h3, B, X2, bp, r)
  <2>1. Linked(h3) /\ h3.brk = e
    BY <1>6, <1>9 DEF SameRest, Linked, e
  <2>2. bp \in FreeIn(m3, B) /\ FreeIn(m3, B) \ {bp} = F /\ bp \notin X2
    BY <1>13, <1>14
  <2> HIDE DEF r, X2, F
  <2> QED  BY <1>9, <1>13, <1>15, <1>16, <2>1, <2>2, CoalesceEffect DEF r
<1> HIDE DEF r, X2
<1>18. PICK B2 : Sound(r.heap, B2, X2) /\ KeepsUsed(m3, B, r.heap.mem, B2)
  BY <1>17 DEF Coalesced
<1>19. SameRest(r.heap, h)
  BY <1>6, <1>9, <1>17 DEF Coalesced, SameRest
<1>20. UsedIn(r.heap.mem, B2) = UsedIn(m, B) \ {bp}
  BY <1>13, <1>18 DEF KeepsUsed
<1>21. ASSUME NEW c \in UsedIn(m, B) \ {bp} PROVE Kept(m, r.heap.mem, c)
  <2>1. c \in Nat /\ m[c - 1].size \in Nat /\ 2 <= m[c - 1].size
    BY <1>1, Six, BlockFacts DEF UsedIn
  <2>2. Kept(m, m3, c) /\ Kept(m3, r.heap.mem, c)
    BY <1>13, <1>18 DEF KeepsUsed
  <2> QED  BY <2>1, <2>2, KeptAgain
<1> QED  BY <1>10, <1>18, <1>19, <1>20, <1>21 DEF Freed, r, X2

(***************************************************************************)
(* What a Walk is: the address it begins with and, after each, the next,   *)
(* until one is reached that has none.                                     *)
(***************************************************************************)

(* A set of numbers that is not empty has a least one.                     *)
LEMMA LeastElement ==
    ASSUME NEW T \in SUBSET Nat, T # {}
    PROVE  \E x \in T : \A y \in T : x <= y
<1>1. \E x \in T : \A y \in T : <<y, x>> \notin OpToRel(<, Nat)
  BY NatLessThanWellFounded, WFMin
<1>2. \A x, y \in Nat : <<y, x>> \notin OpToRel(<, Nat) => x <= y
  BY DEF OpToRel
<1> QED  BY <1>1, <1>2

(* One step of Walk.                                                       *)
WalkStep(first, next, s) ==
    LET p == IF s = <<>> THEN first ELSE next[s[Len(s)]]
    IN  IF p \in DOMAIN next THEN Append(s, p) ELSE s
Steps(f, n, first, next) ==
    f = [j \in 0 .. n |-> IF j = 0 THEN <<>> ELSE WalkStep(first, next, f[j - 1])]

(* The function that Walk defines by recursion exists.                     *)
LEMMA StepsExist ==
    ASSUME NEW first, NEW next, NEW n \in Nat
    PROVE  \E f : Steps(f, n, first, next)
<1> DEFINE Has(i) == \E f : Steps(f, i, first, next)
           T == {i \in 0 .. n : ~Has(i)}
<1>1. CASE T = {}
  <2>1. n \in 0 .. n
    OBVIOUS
  <2> HIDE DEF Has
  <2>2. Has(n)
    BY <1>1, <2>1
  <2> QED  BY <2>2 DEF Has
<1>2. CASE T # {}
  <2>1. PICK k \in T : \A i \in T : k <= i
    <3>1. T \in SUBSET Nat
      OBVIOUS
    <3> HIDE DEF T
    <3> QED  BY <1>2, <3>1, LeastElement
  <2>2. Has(0)
    <3> DEFINE f == [j \in 0 .. 0 |-> <<>>]
    <3>1. Steps(f, 0, first, next)
      BY DEF Steps
    <3> QED  BY <3>1
  <2>3. k - 1 \in 0 .. n /\ k \in 1 .. n /\ ~Has(k)
    <3> HIDE DEF Has
    <3> QED  BY <2>1, <2>2
  <2>4. Has(k - 1)
    <3> HIDE DEF Has
    <3> QED  BY <2>1, <2>3
  <2>5. PICK f : Steps(f, k - 1, first, next)
    BY <2>4
  <2> DEFINE g == [j \in 0 .. k |-> IF j = k THEN WalkStep(first, next, f[k - 1]) ELSE f[j]]
  <2>6. f = [j \in 0 .. k - 1 |-> IF j = 0 THEN <<>> ELSE WalkStep(first, next, f[j - 1])]
    BY <2>5 DEF Steps
  <2>7. \A j \in 0 .. k : g[j] = IF j = 0 THEN <<>> ELSE WalkStep(first, next, g[j - 1])
    <3> TAKE j \in 0 .. k
    <3>1. CASE j = k
      <4>1. j # 0 /\ j - 1 = k - 1 /\ k - 1 \in 0 .. k /\ k - 1 # k
        BY <2>3, <3>1
      <4>2. g[j - 1] = f[k - 1] /\ g[j] = WalkStep(first, next, f[k - 1])
        BY <3>1, <4>1
      <4> HIDE DEF g
      <4> QED  BY <4>1, <4>2
    <3>2. CASE j # k
      <4>1. j \in 0 .. k - 1 /\ g[j] = f[j]
        BY <2>3, <3>2
      <4>2. j # 0 => g[j - 1] = f[j - 1]
        BY <2>3, <3>2
      <4>3. f[j] = IF j = 0 THEN <<>> ELSE WalkStep(first, next, f[j - 1])
        BY <2>6, <4>1
      <4> HIDE DEF g
      <4> QED  BY <4>1, <4>2, <4>3
    <3> QED  BY <3>1, <3>2
  <2>8. Steps(g, k, first, next)
    <3>1. g = [j \in 0 .. k |-> g[j]]
      OBVIOUS
    <3> HIDE DEF g
    <3> QED  BY <2>7, <3>1 DEF Steps
  <2> QED  BY <2>3, <2>8
<1> QED  BY <1>1, <1>2

(* What Walk says, step by step.                                           *)
LEMMA WalkDef ==
    ASSUME NEW first, NEW next
    PROVE  \E f : /\ f[0] = <<>> /\ Walk(first, next) = f[MAX_HEAP]
                  /\ \A n \in 1 .. MAX_HEAP : f[n] = WalkStep(first, next, f[n - 1])
<1> DEFINE upto == CHOOSE f : Steps(f, MAX_HEAP, first, next)
<1>1. MAX_HEAP \in Nat
  BY HeapAssumption
<1>2. Steps(upto, MAX_HEAP, first, next)
  BY <1>1, StepsExist
<1>3. Walk(first, next) = upto[MAX_HEAP]
  BY DEF Walk, Steps, WalkStep
<1> HIDE DEF upto
<1>4. upto[0] = <<>> /\ \A n \in 1 .. MAX_HEAP : upto[n] = WalkStep(first, next, upto[n - 1])
  BY <1>1, <1>2 DEF Steps
<1> QED  BY <1>3, <1>4

Path(w, n, first, next) ==
    /\ n \in Nat /\ w \in Seq(Nat) /\ Len(w) = n
    /\ n # 0 => w[1] = first
    /\ \A k \in 1 .. n : w[k] \in DOMAIN next
    /\ \A k \in 1 .. n - 1 : w[k + 1] = next[w[k]]
Ended(w, n, first, next) ==
    IF n = 0 THEN first \notin DOMAIN next ELSE next[w[n]] \notin DOMAIN next

(* A step goes on along the path, until it has ended.                      *)
LEMMA StepPath ==
    ASSUME NEW first, NEW next, DOMAIN next \subseteq Nat,
           NEW w, NEW n, Path(w, n, first, next)
    PROVE  LET v == WalkStep(first, next, w)
           IN  IF Ended(w, n, first, next) THEN v = w ELSE Path(v, n + 1, first, next)
<1> DEFINE p == IF w = <<>> THEN first ELSE next[w[Len(w)]]
           v == WalkStep(first, next, w)
<1>1. /\ n \in Nat /\ w \in Seq(Nat) /\ Len(w) = n
      /\ n # 0 => w[1] = first
      /\ \A k \in 1 .. n : w[k] \in DOMAIN next
      /\ \A k \in 1 .. n - 1 : w[k + 1] = next[w[k]]
  BY DEF Path
<1>2. w = <<>> <=> n = 0
  BY <1>1
<1>3. p = IF n = 0 THEN first ELSE next[w[n]]
  BY <1>1, <1>2
<1>4. v = IF p \in DOMAIN next THEN Append(w, p) ELSE w
  BY DEF WalkStep
<1> HIDE DEF p, v
<1>5. Ended(w, n, first, next) <=> p \notin DOMAIN next
  BY <1>3 DEF Ended
<1>6. ASSUME p \in DOMAIN next PROVE Path(v, n + 1, first, next)
  <2>1. p \in Nat /\ v = Append(w, p)
    BY <1>4, <1>6
  <2>2. /\ v \in Seq(Nat) /\ Len(v) = n + 1 /\ v[n + 1] = p
        /\ \A k \in 1 .. n : v[k] = w[k]
    BY <1>1, <2>1
  <2>3. v[1] = first
    <3>1. CASE n = 0
      BY <1>3, <2>2, <3>1
    <3>2. CASE n # 0
      <4>1. 1 \in 1 .. n
        BY <1>1, <3>2
      <4> QED  BY <1>1, <2>2, <3>2, <4>1
    <3> QED  BY <3>1, <3>2
  <2>4. \A k \in 1 .. n + 1 : v[k] \in DOMAIN next
    <3> TAKE k \in 1 .. n + 1
    <3>1. k = n + 1 \/ k \in 1 .. n
      BY <1>1
    <3> QED  BY <1>1, <1>6, <2>2, <3>1
  <2>5. \A k \in 1 .. n : v[k + 1] = next[v[k]]
    <3> TAKE k \in 1 .. n
    <3>1. CASE k = n
      <4>1. n # 0 /\ v[k + 1] = p /\ v[k] = w[n]
        BY <1>1, <2>2, <3>1
      <4> QED  BY <1>3, <4>1
    <3>2. CASE k # n
      <4>1. k \in 1 .. n - 1 /\ k + 1 \in 1 .. n
        BY <1>1, <3>2
      <4> QED  BY <1>1, <2>2, <4>1
    <3> QED  BY <3>1, <3>2
  <2>6. n + 1 \in Nat /\ n + 1 - 1 = n
    BY <1>1
  <2> QED  BY <2>2, <2>3, <2>4, <2>5, <2>6 DEF Path
<1> QED  BY <1>4, <1>5, <1>6 DEF v

(* A Walk is a path that has ended, or has a step for every word.          *)
LEMMA WalkPath ==
    ASSUME NEW first, NEW next, DOMAIN next \subseteq Nat
    PROVE  \E n \in 0 .. MAX_HEAP :
              /\ Path(Walk(first, next), n, first, next)
              /\ n = MAX_HEAP \/ Ended(Walk(first, next), n, first, next)
<1>1. MAX_HEAP \in Nat
  BY HeapAssumption
<1>2. PICK f : /\ f[0] = <<>> /\ Walk(first, next) = f[MAX_HEAP]
               /\ \A n \in 1 .. MAX_HEAP : f[n] = WalkStep(first, next, f[n - 1])
  BY WalkDef
<1> DEFINE P(i) == \E n \in 0 .. i : /\ Path(f[i], n, first, next)
                                     /\ n = i \/ Ended(f[i], n, first, next)
           T == {i \in 0 .. MAX_HEAP : ~P(i)}
<1>3. P(0)
  <2>1. Path(f[0], 0, first, next)
    BY <1>2 DEF Path
  <2>2. 0 \in 0 .. 0
    OBVIOUS
  <2> QED  BY <2>1, <2>2
<1>4. ASSUME NEW i \in 1 .. MAX_HEAP, P(i - 1) PROVE P(i)
  <2>1. PICK n \in 0 .. i - 1 : /\ Path(f[i - 1], n, first, next)
                                /\ n = i - 1 \/ Ended(f[i - 1], n, first, next)
    BY <1>4
  <2>2. f[i] = WalkStep(first, next, f[i - 1])
    BY <1>2
  <2>3. IF Ended(f[i - 1], n, first, next) THEN f[i] = f[i - 1] ELSE Path(f[i], n + 1, first, next)
    BY <2>1, <2>2, StepPath
  <2>4. CASE Ended(f[i - 1], n, first, next)
    <3>1. Path(f[i], n, first, next) /\ Ended(f[i], n, first, next) /\ n \in 0 .. i
      BY <2>1, <2>3, <2>4
    <3> QED  BY <3>1
  <2>5. CASE ~Ended(f[i - 1], n, first, next)
    <3>1. Path(f[i], n + 1, first, next) /\ n + 1 = i /\ n + 1 \in 0 .. i
      BY <2>1, <2>3, <2>5
    <3> QED  BY <3>1
  <2> QED  BY <2>4, <2>5
<1>5. T = {}
  <2> SUFFICES ASSUME T # {} PROVE FALSE
    OBVIOUS
  <2>1. PICK k \in T : \A i \in T : k <= i
    <3>1. T \in SUBSET Nat
      OBVIOUS
    <3> HIDE DEF T
    <3> QED  BY <3>1, LeastElement
  <2> HIDE DEF P
  <2>a. k \in 0 .. MAX_HEAP /\ ~P(k)
    BY <2>1
  <2>b. k # 0
    BY <1>3, <2>a
  <2>2. k \in 1 .. MAX_HEAP /\ ~P(k) /\ k - 1 \in 0 .. MAX_HEAP
    BY <1>1, <2>a, <2>b
  <2>3. P(k - 1)
    BY <2>1, <2>2
  <2> QED  BY <1>4, <2>2, <2>3
<1>6. P(MAX_HEAP)
  <2> HIDE DEF P
  <2>1. MAX_HEAP \in 0 .. MAX_HEAP
    BY <1>1
  <2> QED  BY <1>5, <2>1
<1> QED  BY <1>2, <1>6

(* A claim that holds at 1 and goes on from each number holds up to n.     *)
LEMMA UpTo ==
    ASSUME NEW n \in Nat, NEW S, n # 0 => 1 \in S,
           \A k \in 1 .. n - 1 : k \in S => k + 1 \in S
    PROVE  \A k \in 1 .. n : k \in S
<1> DEFINE T == {k \in 1 .. n : k \notin S}
<1> SUFFICES ASSUME T # {} PROVE FALSE
  OBVIOUS
<1>1. PICK k \in T : \A i \in T : k <= i
  <2>1. T \in SUBSET Nat
    OBVIOUS
  <2> HIDE DEF T
  <2> QED  BY <2>1, LeastElement
<1>2. k \in 2 .. n /\ k \notin S /\ k - 1 \in 1 .. n - 1 /\ ~(k <= k - 1) /\ k - 1 + 1 = k
  OBVIOUS
<1>3. k - 1 \in S
  BY <1>1, <1>2
<1> QED  BY <1>2, <1>3

(* There are not more nodes than words, as each has words of its own.      *)
LEMMA FewNodes ==
    ASSUME NEW h, NEW s, NEW n, Links(h, s, n)
    PROVE  n <= MAX_HEAP
<1>1. n \in Nat /\ MAX_HEAP \in Nat
  BY HeapAssumption DEF Links
<1>2. \A k \in 1 .. n : s[k] \in 1 .. MAX_HEAP
  BY <1>1 DEF Links, NodeAt, Word
<1>3. \A i, j \in 1 .. n : i # j => s[i] # s[j]
  <2>1. \A k \in 1 .. n : s[k] \in Int
    BY <1>1, <1>2
  <2>2. \A i, j \in 1 .. n : i # j => s[i] + 4 <= s[j] \/ s[j] + 4 <= s[i]
    BY DEF Links, Clear
  <2> QED  BY <2>1, <2>2
<1> SUFFICES ASSUME MAX_HEAP < n PROVE FALSE
  BY <1>1
<1>4. s \in [1 .. n -> 1 .. MAX_HEAP]
  BY <1>2 DEF Links
<1>5. /\ IsFiniteSet(1 .. n) /\ Cardinality(1 .. n) = n
      /\ IsFiniteSet(1 .. MAX_HEAP) /\ Cardinality(1 .. MAX_HEAP) = MAX_HEAP
  <2>1. \A k \in Nat : IsFiniteSet(1 .. k) /\ Cardinality(1 .. k) = IF 1 > k THEN 0 ELSE k - 1 + 1
    BY FS_Interval
  <2>2. \A k \in Nat : (IF 1 > k THEN 0 ELSE k - 1 + 1) = k
    OBVIOUS
  <2> QED  BY <1>1, <2>1, <2>2
<1>6. \E x, y \in 1 .. n : x # y /\ s[x] = s[y]
  <2>1. Cardinality(1 .. MAX_HEAP) < Cardinality(1 .. n)
    BY <1>5
  <2> QED  BY <1>4, <1>5, <2>1, FS_PigeonHole
<1> QED  BY <1>3, <1>6

(* FreeList is the nodes of the list, in their order.                      *)
LEMMA FreeListIs ==
    ASSUME NEW h \in Heap, NEW s, NEW n, Links(h, s, n)
    PROVE  LET w == V3!FreeList(h)
           IN  w \in Seq(Nat) /\ Len(w) = n /\ \A k \in 1 .. n : w[k] = s[k]
<1> DEFINE first == h.blk_headp
           next == [bp \in 1 .. MAX_HEAP - 3 |-> h.mem[bp + 2].addr]
           w == Walk(first, next)
<1>1. V3!FreeList(h) = w
  <2>1. V3!NextNodes(h) = next
    BY V3Words DEF V3!NextNodes, NEXT_FREE, GETADDR, SUCC
  <2> HIDE DEF next
  <2> QED  BY <2>1, V3Words DEF V3!FreeList
<1>2. n \in Nat /\ MAX_HEAP \in Nat /\ n <= MAX_HEAP
  <2>1. n <= MAX_HEAP
    BY FewNodes
  <2> QED  BY HeapAssumption, <2>1 DEF Links
<1>3. /\ first = IF n = 0 THEN 0 ELSE s[1]
      /\ \A k \in 1 .. n : s[k] \in 1 .. MAX_HEAP - 3 /\ h.mem[s[k] + 2].addr = IF k = n THEN 0 ELSE s[k + 1]
  BY <1>2 DEF Links, NodeAt, Word, NULL
<1>4. /\ DOMAIN next = 1 .. MAX_HEAP - 3 /\ DOMAIN next \subseteq Nat /\ 0 \notin DOMAIN next
      /\ \A k \in 1 .. n : next[s[k]] = IF k = n THEN 0 ELSE s[k + 1]
      /\ \A k \in 1 .. n : s[k] \in DOMAIN next
  BY <1>2, <1>3
<1> HIDE DEF next, first
<1>5. PICK N \in 0 .. MAX_HEAP : Path(w, N, first, next) /\ (N = MAX_HEAP \/ Ended(w, N, first, next))
  BY <1>4, WalkPath
<1> HIDE DEF w
<1>6. /\ N \in Nat /\ w \in Seq(Nat) /\ Len(w) = N
      /\ N # 0 => w[1] = first
      /\ \A k \in 1 .. N : w[k] \in DOMAIN next
      /\ \A k \in 1 .. N - 1 : w[k + 1] = next[w[k]]
  BY <1>5 DEF Path
<1>7. \A k \in 1 .. N : k <= n /\ w[k] = s[k]
  <2> DEFINE S == {k \in Nat : k <= n /\ w[k] = s[k]}
  <2>1. N # 0 => 1 \in S
    <3> HAVE N # 0
    <3>1. w[1] = first /\ first \in DOMAIN next
      BY <1>6
    <3>2. n # 0
      BY <1>3, <1>4, <3>1
    <3> QED  BY <1>2, <1>3, <3>1, <3>2
  <2>2. \A k \in 1 .. N - 1 : k \in S => k + 1 \in S
    <3> TAKE k \in 1 .. N - 1
    <3> HAVE k \in S
    <3>1. k \in 1 .. n /\ w[k] = s[k] /\ w[k + 1] = next[w[k]] /\ k + 1 \in 1 .. N
      BY <1>6
    <3>2. w[k + 1] \in DOMAIN next
      BY <1>6, <3>1
    <3>3. k # n /\ w[k + 1] = s[k + 1]
      BY <1>4, <3>1, <3>2
    <3> QED  BY <1>2, <3>1, <3>3
  <2> HIDE DEF S
  <2>3. \A k \in 1 .. N : k \in S
    BY <1>6, <2>1, <2>2, UpTo
  <2> QED  BY <2>3 DEF S
<1>8. N = n
  <2>1. N <= n
    <3>1. CASE N = 0
      BY <1>2, <3>1
    <3>2. CASE N # 0
      <4>1. N \in 1 .. N
        BY <1>6, <3>2
      <4> QED  BY <1>7, <4>1
    <3> QED  BY <3>1, <3>2
  <2>2. CASE N < n
    <3>1. Ended(w, N, first, next)
      BY <1>2, <1>5, <2>2
    <3>2. CASE N = 0
      <4>1. n # 0 /\ 1 \in 1 .. n
        BY <1>2, <2>2, <3>2
      <4> QED  BY <1>3, <1>4, <3>1, <3>2, <4>1 DEF Ended
    <3>3. CASE N # 0
      <4>1. N \in 1 .. N /\ N \in 1 .. n /\ N + 1 \in 1 .. n /\ N # n
        BY <1>2, <1>6, <2>2, <3>3
      <4>2. next[w[N]] = s[N + 1]
        BY <1>4, <1>7, <4>1
      <4> QED  BY <1>4, <3>1, <3>3, <4>1, <4>2 DEF Ended
    <3> QED  BY <3>2, <3>3
  <2> QED  BY <1>2, <1>6, <2>1, <2>2
<1> QED  BY <1>1, <1>6, <1>7, <1>8

(* The blocks that Blocks walks are those of the heap, in their order.     *)
LEMMA BlocksAre ==
    ASSUME NEW h \in Heap, NEW B, NEW X, NEW k, Least(k), Tiled(h.mem, h.brk, B, X, k)
    PROVE  LET w == Blocks(h)
           IN  /\ w \in Seq(Nat) /\ Len(w) >= 1 /\ Len(w) \in Nat
               /\ \A i \in 1 .. Len(w) : w[i] \in B
               /\ \A b \in B : \E i \in 1 .. Len(w) : w[i] = b
               /\ \A i, j \in 1 .. Len(w) : w[i] = w[j] => i = j
               /\ w[Len(w)] + h.mem[w[Len(w)] - 1].size = h.brk
<1> DEFINE m == h.mem
           e == h.brk
           next == NextBlocks(h)
           w == Walk(2, next)
<1>1. Blocks(h) = w
  BY DEF Blocks, heap_listp
<1>2. /\ e \notin B /\ e \in Nat /\ e <= MAX_HEAP /\ MAX_HEAP \in Nat /\ 2 \in B /\ m[e - 1].size = 0
      /\ \A b \in B : b < e /\ m[b - 1].size # 0
      /\ \A c \in (B \cup {e}) \ {2} : \E b \in B : b + m[b - 1].size = c
  BY HeapEnds, HeapAssumption
<1>3. \A b \in B : /\ b \in Nat /\ 2 <= b /\ m[b - 1].size \in Nat /\ 2 <= m[b - 1].size
                   /\ b + m[b - 1].size \in B \cup {e}
  BY BlockFacts
<1>4. /\ DOMAIN next = {p \in 1 .. MAX_HEAP : m[p - 1].size # 0}
      /\ \A p \in DOMAIN next : next[p] = p + m[p - 1].size
  BY DEF NextBlocks, GET_SIZE, HDRP, NEXT_BLKP
<1> HIDE DEF next, m, e
<1>5. DOMAIN next \subseteq Nat /\ e \notin DOMAIN next /\ \A b \in B : b \in DOMAIN next
  BY <1>2, <1>3, <1>4
<1>6. PICK N \in 0 .. MAX_HEAP : Path(w, N, 2, next) /\ (N = MAX_HEAP \/ Ended(w, N, 2, next))
  BY <1>5, WalkPath
<1> HIDE DEF w
<1>7. /\ N \in Nat /\ w \in Seq(Nat) /\ Len(w) = N
      /\ N # 0 => w[1] = 2
      /\ \A i \in 1 .. N : w[i] \in DOMAIN next
      /\ \A i \in 1 .. N - 1 : w[i + 1] = next[w[i]]
  BY <1>6 DEF Path
<1>8. \A i \in 1 .. N : w[i] \in B /\ i < w[i]
  <2> DEFINE S == {i \in Nat : w[i] \in B /\ i < w[i]}
  <2>1. N # 0 => 1 \in S
    BY <1>2, <1>7
  <2>2. \A i \in 1 .. N - 1 : i \in S => i + 1 \in S
    <3> TAKE i \in 1 .. N - 1
    <3> HAVE i \in S
    <3>1. i \in Nat /\ w[i] \in B /\ i < w[i] /\ i + 1 \in 1 .. N
      BY <1>7
    <3>2. w[i + 1] = w[i] + m[w[i] - 1].size /\ w[i + 1] \in DOMAIN next
      BY <1>4, <1>5, <1>7, <3>1
    <3>3. w[i + 1] \in B
      BY <1>3, <1>5, <3>1, <3>2
    <3>4. i + 1 < w[i + 1]
      BY <1>3, <3>1, <3>2
    <3> QED  BY <3>1, <3>3, <3>4
  <2> HIDE DEF S
  <2>3. \A i \in 1 .. N : i \in S
    BY <1>7, <2>1, <2>2, UpTo
  <2> QED  BY <2>3 DEF S
<1>9. N # 0 /\ N # MAX_HEAP
  <2>1. CASE N = 0
    <3>1. MAX_HEAP # 0
      BY <1>2, <1>3
    <3>2. Ended(w, N, 2, next)
      BY <1>6, <2>1, <3>1
    <3> QED  BY <1>2, <1>5, <2>1, <3>2 DEF Ended
  <2>2. CASE N = MAX_HEAP /\ N # 0
    <3>1. N \in 1 .. N
      BY <1>7, <2>2
    <3>2. w[N] \in B /\ N < w[N]
      BY <1>8, <3>1
    <3> QED  BY <1>2, <1>3, <2>2, <3>2
  <2> QED  BY <2>1, <2>2
<1>10. w[N] + m[w[N] - 1].size = e
  <2>1. N \in 1 .. N /\ Ended(w, N, 2, next)
    BY <1>6, <1>7, <1>9
  <2>2. next[w[N]] \notin DOMAIN next /\ w[N] \in B
    BY <1>8, <1>9, <2>1 DEF Ended
  <2>3. next[w[N]] = w[N] + m[w[N] - 1].size
    BY <1>4, <1>5, <2>2
  <2> QED  BY <1>3, <1>5, <2>2, <2>3
<1>11. \A b \in B : \E i \in 1 .. N : w[i] = b
  <2> DEFINE T == {b \in B : \A i \in 1 .. N : w[i] # b}
  <2> SUFFICES ASSUME T # {} PROVE FALSE
    OBVIOUS
  <2>1. PICK b \in T : \A c \in T : b <= c
    <3>1. T \in SUBSET Nat
      BY <1>3
    <3> HIDE DEF T
    <3> QED  BY <3>1, LeastElement
  <2>2. 1 \in 1 .. N /\ w[1] = 2
    BY <1>7, <1>9
  <2>3. b \in B /\ b # 2
    BY <2>1, <2>2
  <2>4. PICK c \in B : c + m[c - 1].size = b
    BY <1>2, <2>3
  <2>5. c \notin T
    <3>1. c < b /\ c \in Nat /\ b \in Nat
      BY <1>3, <2>3, <2>4
    <3> HIDE DEF T
    <3> QED  BY <2>1, <3>1
  <2>6. PICK i \in 1 .. N : w[i] = c
    BY <2>5
  <2>7. i # N
    BY <1>2, <1>10, <2>3, <2>4, <2>6
  <2>8. i \in 1 .. N - 1 /\ i + 1 \in 1 .. N
    BY <1>7, <2>7
  <2>9. w[i + 1] = b
    BY <1>4, <1>5, <1>7, <2>4, <2>6, <2>8
  <2> QED  BY <2>1, <2>8, <2>9
<1>12. \A j \in 1 .. N : \A i \in 1 .. j - 1 : w[i] < w[j]
  <2> DEFINE S == {j \in Nat : \A i \in 1 .. j - 1 : w[i] < w[j]}
  <2>1. N # 0 => 1 \in S
    OBVIOUS
  <2>2. \A j \in 1 .. N - 1 : j \in S => j + 1 \in S
    <3> TAKE j \in 1 .. N - 1
    <3> HAVE j \in S
    <3>1. j \in 1 .. N /\ j + 1 \in 1 .. N
      BY <1>7
    <3>2. w[j] \in B /\ w[j + 1] = w[j] + m[w[j] - 1].size
      BY <1>4, <1>5, <1>7, <1>8, <3>1
    <3>3. w[j] \in Nat /\ w[j] < w[j + 1] /\ w[j + 1] \in Nat
      BY <1>3, <3>2
    <3>4. ASSUME NEW i \in 1 .. j PROVE w[i] < w[j + 1]
      <4>1. w[i] \in Nat
        BY <1>3, <1>8, <3>1
      <4>2. i = j \/ w[i] < w[j]
        BY <3>1
      <4> QED  BY <3>3, <4>1, <4>2
    <3>5. j + 1 - 1 = j /\ j + 1 \in Nat
      BY <3>1
    <3> QED  BY <3>4, <3>5
  <2> HIDE DEF S
  <2>3. \A j \in 1 .. N : j \in S
    BY <1>7, <2>1, <2>2, UpTo
  <2> QED  BY <2>3 DEF S
<1>13. \A i, j \in 1 .. N : w[i] = w[j] => i = j
  <2> TAKE i, j \in 1 .. N
  <2> HAVE w[i] = w[j]
  <2>1. w[i] \in Nat /\ w[j] \in Nat
    BY <1>3, <1>8
  <2>2. ~(i < j)
    <3> SUFFICES ASSUME i < j PROVE FALSE
      OBVIOUS
    <3>1. i \in 1 .. j - 1
      BY <1>7
    <3> QED  BY <1>12, <2>1, <3>1
  <2>3. ~(j < i)
    <3> SUFFICES ASSUME j < i PROVE FALSE
      OBVIOUS
    <3>1. j \in 1 .. i - 1
      BY <1>7
    <3> QED  BY <1>12, <2>1, <3>1
  <2> QED  BY <1>7, <2>2, <2>3
<1> QED  BY <1>1, <1>7, <1>8, <1>9, <1>10, <1>11, <1>13 DEF m, e

(***************************************************************************)
(* mm_malloc: nothing, or one more block in use, large enough.             *)
(***************************************************************************)
OneMore(h, B, X, size, g, b) ==
    /\ g.file = h.file /\ g.flag = h.flag
    /\ \E B2 : /\ Sound(g, B2, X) /\ Late(g, B2, X)
               /\ UsedIn(g.mem, B2) = UsedIn(h.mem, B) \cup {b} /\ b \notin UsedIn(h.mem, B)
               /\ \A c \in UsedIn(h.mem, B) : Kept(h.mem, g.mem, c)
               /\ size \div 4 + 2 <= g.mem[b - 1].size
Malloced(h, B, X, size, r) ==
    IF r.bp = 0 THEN r.heap = h ELSE OneMore(h, B, X, size, r.heap, r.bp)

(* asize of v3 and v4: even, room for the tags, the links, the words.      *)
LEMMA AsizeIs ==
    ASSUME NEW size \in Nat
    PROVE  LET n == V3!asize(size)
           IN  n \in Nat /\ n % 2 = 0 /\ 6 <= n /\ size \div 4 + 2 <= n
<1>1. CASE size <= 8
  <2>1. V3!asize(size) = 6
    BY <1>1 DEF V3!asize
  <2>2. size \div 4 + 2 <= 6
    BY <1>1
  <2> QED  BY <2>1, <2>2
<1>2. CASE size = 112
  <2>1. V3!asize(size) = 34
    BY <1>2 DEF V3!asize
  <2>2. size \div 4 + 2 <= 34
    BY <1>2
  <2> QED  BY <2>1, <2>2
<1>3. CASE size = 448
  <2>1. V3!asize(size) = 130
    BY <1>3 DEF V3!asize
  <2>2. size \div 4 + 2 <= 130
    BY <1>3
  <2> QED  BY <2>1, <2>2
<1>4. CASE ~(size <= 8) /\ size # 112 /\ size # 448
  <2>1. V3!asize(size) = 2 * ((size + 8 + 7) \div 8)
    BY <1>4 DEF V3!asize
  <2> DEFINE k == (size + 8 + 7) \div 8
  <2>2. k \in Nat /\ 8 * k <= size + 15 /\ size + 8 <= 8 * k
    OBVIOUS
  <2>3. size \div 4 \in Nat /\ 4 * (size \div 4) <= size
    OBVIOUS
  <2> HIDE DEF k
  <2>4. 2 * k \in Nat /\ (2 * k) % 2 = 0 /\ size \div 4 + 2 <= 2 * k /\ 6 <= 2 * k
    <3>1. 3 <= k
      BY <1>4, <2>2
    <3> QED  BY <2>2, <2>3, <3>1
  <2> QED  BY <2>1, <2>4 DEF k
<1> QED  BY <1>1, <1>2, <1>3, <1>4

(* find_fit gives a free block that is large enough and, once flag is set, *)
(* not the last one.                                                       *)
LEMMA FindFit ==
    ASSUME NEW h, Linked(h), NEW B, NEW X, Sound(h, B, X), NEW words,
           V3!find_fit(h, words) # 0
    PROVE  LET b == V3!find_fit(h, words)
           IN  /\ b \in FreeIn(h.mem, B) /\ words <= h.mem[b - 1].size
               /\ h.flag = 0 \/ b + h.mem[b - 1].size # h.brk
<1> DEFINE m == h.mem
           nodes == V3!FreeList(h)
           fits == {i \in DOMAIN nodes : /\ words <= V3!GET_SIZE(h, V3!HDRP(nodes[i]))
                                         /\ h.flag = 0 \/ ~V3!IsLast(h, nodes[i])}
           i0 == V3!Min(fits)
<1>1. h \in Heap /\ Tiled(m, h.brk, B, X, 6) /\ ListOf(h, FreeIn(m, B))
  BY DEF Sound, Room
<1>2. PICK n \in Nat : \E s \in [1 .. n -> Nat] : Links(h, s, n) /\ Nodes(s, n) = FreeIn(m, B)
  BY <1>1 DEF ListOf
<1>3. PICK s \in [1 .. n -> Nat] : Links(h, s, n) /\ Nodes(s, n) = FreeIn(m, B)
  BY <1>2
<1>4. nodes \in Seq(Nat) /\ Len(nodes) = n /\ \A k \in 1 .. n : nodes[k] = s[k]
  BY <1>1, <1>3, FreeListIs
<1>5. DOMAIN nodes = 1 .. n
  BY <1>4
<1>6. fits # {} /\ V3!find_fit(h, words) = nodes[i0]
  BY DEF V3!find_fit, V3!NULL
<1>7. i0 \in fits
  <2>1. fits \in SUBSET Nat
    BY <1>5
  <2> HIDE DEF fits
  <2>2. \E x \in fits : \A y \in fits : x <= y
    BY <1>6, <2>1, LeastElement
  <2> QED  BY <2>2 DEF V3!Min
<1> HIDE DEF i0
<1>8. PICK b : b = nodes[i0]
  OBVIOUS
<1>9. b \in FreeIn(m, B)
  <2>1. i0 \in 1 .. n
    BY <1>5, <1>7
  <2> QED  BY <1>3, <1>4, <1>8, <2>1 DEF Nodes
<1>10. words <= V3!GET_SIZE(h, V3!HDRP(b)) /\ (h.flag = 0 \/ ~V3!IsLast(h, b))
  BY <1>7, <1>8
<1> HIDE DEF nodes, fits
<1>11. words <= m[b - 1].size
  BY <1>10, V3Words DEF GET_SIZE, HDRP
<1>12. V3!IsLast(h, b) <=> m[b + m[b - 1].size - 1].size = 0
  <2>1. b \in Nat /\ m[b - 1].size \in Nat
    BY <1>1, <1>9, Six, BlockFacts DEF FreeIn
  <2>2. V3!HDRP(V3!NEXT_BLKP(h, b)) = b + m[b - 1].size - 1
    BY <2>1, V3Words DEF GET_SIZE, HDRP, NEXT_BLKP
  <2> QED  BY <2>2, V3Words DEF V3!IsLast, GET_SIZE
<1>13. b + m[b - 1].size = h.brk => V3!IsLast(h, b)
  <2> HAVE b + m[b - 1].size = h.brk
  <2>1. m[h.brk - 1].size = 0
    BY <1>1, Six, HeapEnds
  <2>2. b + m[b - 1].size - 1 = h.brk - 1
    <3>1. b \in Nat /\ m[b - 1].size \in Nat
      BY <1>1, <1>9, Six, BlockFacts DEF FreeIn
    <3> QED  BY <3>1
  <2> QED  BY <1>12, <2>1, <2>2
<1> QED  BY <1>6, <1>8, <1>9, <1>10, <1>11, <1>13

(* The wrong footer is of a block in use before the last one.              *)
LEMMA LateFacts ==
    ASSUME NEW h, NEW B, NEW X, Sound(h, B, X), Late(h, B, X)
    PROVE  /\ X \subseteq UsedIn(h.mem, B)
           /\ \A x \in X : x + h.mem[x - 1].size # h.brk
           /\ h.flag = 0 => X = {}
<1>1. h.brk \notin B
  <2>1. Tiled(h.mem, h.brk, B, X, Room(h)) /\ Least(Room(h))
    BY RoomLeast DEF Sound
  <2> QED  BY <2>1, HeapEnds
<1>2. \A x \in X : x \in UsedIn(h.mem, B) /\ x + h.mem[x - 1].size \in B
  BY DEF Late, FreeIn
<1>3. h.flag = 0 => X = {}
  BY DEF Late
<1> QED  BY <1>1, <1>2, <1>3

(* A block that place takes is one more.                                   *)
LEMMA TookIsMore ==
    ASSUME NEW h, NEW B, NEW X, Sound(h, B, X), Late(h, B, X),
           NEW b \in FreeIn(h.mem, B), NEW words \in Nat, NEW g, Took(h, B, X, b, words, g),
           NEW size \in Nat, size \div 4 + 2 <= words,
           X = {} \/ b + h.mem[b - 1].size # h.brk
    PROVE  OneMore(h, B, X, size, g, b)
<1>1. PICK B2 : /\ Sound(g, B2, X)
                /\ UsedIn(g.mem, B2) = UsedIn(h.mem, B) \cup {b}
                /\ \A c \in UsedIn(h.mem, B) : Kept(h.mem, g.mem, c)
                /\ words <= g.mem[b - 1].size
  BY DEF Took
<1>2. SameRest(g, h)
  BY DEF Took
<1>3. b \in B /\ b \notin UsedIn(h.mem, B)
  BY DEF FreeIn, UsedIn
<1>4. Late(g, B2, X)
  <2>1. CASE X = {}
    BY <2>1 DEF Late
  <2>2. CASE b + h.mem[b - 1].size # h.brk
    <3>1. \A x \in X : x \in UsedIn(h.mem, B)
      BY DEF Late
    <3>2. \A x \in X : x \in UsedIn(g.mem, B2) /\ g.mem[x - 1].size = h.mem[x - 1].size
      <4> TAKE x \in X
      <4>1. Kept(h.mem, g.mem, x) /\ x \in B
        BY <1>1, <3>1 DEF UsedIn
      <4>2. x \in Nat /\ h.mem[x - 1].size \in Nat /\ 2 <= h.mem[x - 1].size
        <5>1. Tiled(h.mem, h.brk, B, X, Room(h)) /\ Least(Room(h))
          BY RoomLeast DEF Sound
        <5> QED  BY <4>1, <5>1, BlockFacts
      <4>3. x - 1 \in x - 1 .. x + h.mem[x - 1].size - 3
        BY <4>2
      <4> QED  BY <1>1, <3>1, <4>1, <4>3 DEF Kept
    <3>3. \A c \in UsedIn(g.mem, B2) :
             c \in B /\ (c \in UsedIn(h.mem, B) \/ c + h.mem[c - 1].size # h.brk)
      BY <1>1, <1>3, <2>2 DEF UsedIn
    <3>4. h.brk <= g.brk /\ g.file = h.file /\ g.flag = h.flag
      <4>1. h.brk \in Int
        BY DEF Sound, Heap
      <4> QED  BY <1>2, <4>1 DEF SameRest
    <3> QED  BY <1>1, <3>2, <3>3, <3>4, LateStays
  <2> QED  BY <2>1, <2>2
<1>5. size \div 4 + 2 <= g.mem[b - 1].size
  <2>1. g.mem[b - 1].size \in Nat
    <3>1. b \in B2
      BY <1>1 DEF UsedIn
    <3>2. Tiled(g.mem, g.brk, B2, X, Room(g)) /\ Least(Room(g))
      BY <1>1, RoomLeast DEF Sound
    <3> QED  BY <3>1, <3>2, BlockFacts
  <2> QED  BY <1>1, <2>1
<1> QED  BY <1>1, <1>2, <1>3, <1>4, <1>5 DEF OneMore, SameRest

(* What extend_heap is asked for is even and enough.                       *)
LEMMA ChunkIs ==
    ASSUME NEW words \in Nat, words % 2 = 0, 6 <= words
    PROVE  LET n == IF words > CHUNK THEN words ELSE CHUNK
           IN  n \in Nat /\ n % 2 = 0 /\ 6 <= n /\ words <= n
  BY HeapAssumption

(* One more block in use than in a heap that holds the same blocks.        *)
LEMMA MoreAgain ==
    ASSUME NEW h, NEW B, NEW X, Sound(h, B, X),
           NEW h2, NEW B2, KeepsUsed(h.mem, B, h2.mem, B2), h2.file = h.file, h2.flag = h.flag,
           NEW size, NEW g, NEW b, OneMore(h2, B2, X, size, g, b)
    PROVE  OneMore(h, B, X, size, g, b)
<1>1. UsedIn(h2.mem, B2) = UsedIn(h.mem, B)
  BY DEF KeepsUsed
<1>2. PICK B3 : /\ Sound(g, B3, X) /\ Late(g, B3, X)
                /\ UsedIn(g.mem, B3) = UsedIn(h2.mem, B2) \cup {b} /\ b \notin UsedIn(h2.mem, B2)
                /\ \A c \in UsedIn(h2.mem, B2) : Kept(h2.mem, g.mem, c)
                /\ size \div 4 + 2 <= g.mem[b - 1].size
  BY DEF OneMore
<1>3. \A c \in UsedIn(h.mem, B) : Kept(h.mem, g.mem, c)
  <2> TAKE c \in UsedIn(h.mem, B)
  <2>1. c \in Nat /\ h.mem[c - 1].size \in Nat /\ 2 <= h.mem[c - 1].size
    <3>1. Tiled(h.mem, h.brk, B, X, Room(h)) /\ Least(Room(h))
      BY RoomLeast DEF Sound
    <3> QED  BY <3>1, BlockFacts DEF UsedIn
  <2>2. Kept(h.mem, h2.mem, c) /\ Kept(h2.mem, g.mem, c)
    BY <1>1, <1>2 DEF KeepsUsed
  <2> QED  BY <2>1, <2>2, KeptAgain
<1> QED  BY <1>1, <1>2, <1>3 DEF OneMore

(* mm_malloc of v3 and v4, from the list or from a longer heap.            *)
LEMMA MallocEffect ==
    ASSUME NEW h, Linked(h), NEW B, NEW X, Sound(h, B, X), Late(h, B, X),
           NEW size \in Nat, V3!SuitsMalloc(h, size)
    PROVE  Malloced(h, B, X, size, V3!mm_malloc(h, size))
<1> DEFINE words == V3!asize(size)
           bp == V3!find_fit(h, words)
           n == IF words > CHUNK THEN words ELSE CHUNK
           new == V3!extend_heap(h, n)
           r == V3!mm_malloc(h, size)
<1>1. words \in Nat /\ words % 2 = 0 /\ 6 <= words /\ size \div 4 + 2 <= words
  BY AsizeIs
<1>2. n \in Nat /\ n % 2 = 0 /\ 6 <= n /\ words <= n
  <2> HIDE DEF words
  <2> QED  BY <1>1, ChunkIs
<1>3. X \subseteq UsedIn(h.mem, B) /\ (\A x \in X : x + h.mem[x - 1].size # h.brk)
      /\ (h.flag = 0 => X = {})
  BY LateFacts
<1>4. r = IF bp # 0 THEN Result(V3!place(h, bp, words), bp)
          ELSE IF mem_sbrk_fails(h, n) THEN Result(h, 0)
          ELSE Result(V3!place(new.heap, new.bp, words), new.bp)
  <2>1. V3!NULL = 0
    BY V3Words DEF NULL
  <2>2. /\ \A x : V3!mem_sbrk_fails(h, x) = mem_sbrk_fails(h, x)
        /\ \A x, b : V3!Result(x, b) = Result(x, b)
    BY V3Words
  <2> QED  BY <2>1, <2>2 DEF V3!mm_malloc
<1>5. \A x, b : Result(x, b).heap = x /\ Result(x, b).bp = b
  BY DEF Result
<1>6. CASE bp # 0
  <2>1. bp \in FreeIn(h.mem, B) /\ words <= h.mem[bp - 1].size
        /\ (X = {} \/ bp + h.mem[bp - 1].size # h.brk)
    <3> HIDE DEF words
    <3>1. bp \in FreeIn(h.mem, B) /\ words <= h.mem[bp - 1].size
          /\ (h.flag = 0 \/ bp + h.mem[bp - 1].size # h.brk)
      BY <1>6, FindFit
    <3> QED  BY <1>3, <3>1
  <2>2. Took(h, B, X, bp, words, V3!place(h, bp, words))
    <3> HIDE DEF words, bp
    <3> QED  BY <1>1, <1>3, <2>1, PlaceEffect
  <2>3. OneMore(h, B, X, size, V3!place(h, bp, words), bp)
    <3> HIDE DEF words, bp
    <3> QED  BY <1>1, <2>1, <2>2, TookIsMore
  <2> HIDE DEF words, bp, r
  <2>4. r.heap = V3!place(h, bp, words) /\ r.bp = bp
    BY <1>4, <1>5, <1>6
  <2>5. Malloced(h, B, X, size, r)
    BY <1>6, <2>3, <2>4 DEF Malloced
  <2> QED  BY <2>5 DEF r
<1>7. CASE bp = 0 /\ mem_sbrk_fails(h, n)
  <2> HIDE DEF words, bp, r, n
  <2>1. r.heap = h /\ r.bp = 0
    BY <1>4, <1>5, <1>7
  <2>2. Malloced(h, B, X, size, r)
    BY <2>1 DEF Malloced
  <2> QED  BY <2>2 DEF r
<1>8. CASE bp = 0 /\ ~mem_sbrk_fails(h, n)
  <2>1. h.flag = 0
    <3>1. h.flag \in {0, 1}
      BY DEF Sound, Heap
    <3>2. V3!NULL = 0
      BY V3Words DEF NULL
    <3>3. h.flag = 1 => bp # 0
      BY <3>2 DEF V3!SuitsMalloc
    <3> HIDE DEF bp
    <3> QED  BY <1>8, <3>1, <3>3
  <2>2. X = {}
    BY <1>3, <2>1
  <2>3. h.brk + n <= MAX_HEAP
    <3>1. h.brk \in Nat /\ MAX_HEAP \in Nat
      BY HeapAssumption DEF Sound, Heap
    <3> HIDE DEF n
    <3> QED  BY <1>2, <1>8, <3>1 DEF mem_sbrk_fails
  <2>4. Extended(h, B, X, n, new)
    <3> HIDE DEF n
    <3> QED  BY <1>2, <1>3, <2>3, ExtendEffect
  <2> HIDE DEF n, new, words, bp, r
  <2>5. new.heap.file = h.file /\ new.heap.flag = h.flag
    BY <2>4 DEF Extended
  <2>6. PICK B2 : /\ Sound(new.heap, B2, X) /\ KeepsUsed(h.mem, B, new.heap.mem, B2)
                  /\ new.bp \in FreeIn(new.heap.mem, B2)
                  /\ new.bp <= h.brk /\ new.bp + new.heap.mem[new.bp - 1].size = h.brk + n
    BY <2>4 DEF Extended
  <2>7. Linked(new.heap)
    BY <2>5 DEF Linked
  <2>8. Late(new.heap, B2, X) /\ X \subseteq UsedIn(new.heap.mem, B2)
    BY <2>2 DEF Late
  <2>9. words <= new.heap.mem[new.bp - 1].size
    <3>1. Tiled(new.heap.mem, new.heap.brk, B2, X, 6)
      BY <2>6, <2>7 DEF Sound, Room
    <3>2. new.bp \in Nat /\ new.heap.mem[new.bp - 1].size \in Nat
      BY <2>6, <3>1, Six, BlockFacts DEF FreeIn
    <3>3. h.brk \in Nat
      BY DEF Sound, Heap
    <3> QED  BY <1>1, <1>2, <2>6, <3>2, <3>3
  <2>10. Took(new.heap, B2, X, new.bp, words, V3!place(new.heap, new.bp, words))
    BY <1>1, <2>6, <2>7, <2>8, <2>9, PlaceEffect
  <2>11. OneMore(new.heap, B2, X, size, V3!place(new.heap, new.bp, words), new.bp)
    BY <1>1, <2>2, <2>5, <2>6, <2>8, <2>10, TookIsMore
  <2>12. OneMore(h, B, X, size, V3!place(new.heap, new.bp, words), new.bp)
    BY <2>5, <2>6, <2>11, MoreAgain
  <2>13. new.bp # 0
    <3>1. Tiled(new.heap.mem, new.heap.brk, B2, X, 6)
      BY <2>6, <2>7 DEF Sound, Room
    <3>2. new.bp \in Nat /\ 2 <= new.bp
      BY <2>6, <3>1, Six, BlockFacts DEF FreeIn
    <3> QED  BY <3>2
  <2>14. r.heap = V3!place(new.heap, new.bp, words) /\ r.bp = new.bp
    BY <1>4, <1>5, <1>8
  <2>15. Malloced(h, B, X, size, r)
    BY <2>12, <2>13, <2>14 DEF Malloced
  <2> QED  BY <2>15 DEF r
<1> QED  BY <1>6, <1>7, <1>8

(***************************************************************************)
(* mm_init: a heap in which only the prologue is in use.                   *)
(***************************************************************************)
Fresh(h, g) ==
    /\ g.file = h.file
    /\ \E B : Sound(g, B, {}) /\ UsedIn(g.mem, B) = {2}

(* The heap that only has a prologue and an epilogue.                      *)
LEMMA StartHeap ==
    ASSUME NEW h \in Heap, NEW k, Least(k)
    PROVE  LET g == Prologue(h)
           IN  /\ g \in Heap /\ g.file = h.file /\ g.brk = 4
               /\ g.flag = h.flag
               /\ Tiled(g.mem, 4, {2}, {}, k) /\ Merged(g.mem, {2})
               /\ FreeIn(g.mem, {2}) = {} /\ UsedIn(g.mem, {2}) = {2}
<1> DEFINE g == Prologue(h)
           m == g.mem
<1>1. MAX_HEAP \in Nat /\ 10 <= MAX_HEAP /\ 0 \in Word /\ 1 \in Word /\ 2 \in Word /\ 3 \in Word
  BY HeapAssumption DEF Word
<1>2. Tag(0, 0) \in WordValue /\ Tag(2, 1) \in WordValue /\ Tag(0, 1) \in WordValue
  BY TagIs
<1>3. g \in Heap /\ g.file = h.file /\ g.brk = 4 /\ g.flag = h.flag
  <2>1. 4 \in 0 .. MAX_HEAP
    BY <1>1
  <2> QED  BY <1>1, <1>2, <2>1 DEF Prologue, Heap, Memory
<1>4. m[1] = Tag(2, 1) /\ m[2] = Tag(2, 1) /\ m[3] = Tag(0, 1)
  BY <1>1 DEF Prologue, Heap, Memory
<1>5. m \in Memory
  BY <1>3 DEF Heap
<1> HIDE DEF g, m
<1>6. m[1].size = 2 /\ m[1].alloc = 1 /\ m[2].size = 2 /\ m[2].alloc = 1 /\ m[3].size = 0 /\ m[3].alloc = 1
  <2>1. Tag(2, 1).size = 2 /\ Tag(2, 1).alloc = 1 /\ Tag(0, 1).size = 0 /\ Tag(0, 1).alloc = 1
    BY DEF Tag
  <2> QED  BY <1>4, <2>1
<1>7. Tiled(m, 4, {2}, {}, k)
  BY <1>1, <1>5, <1>6 DEF Tiled, SameTag, Least
<1>8. Merged(m, {2}) /\ FreeIn(m, {2}) = {} /\ UsedIn(m, {2}) = {2}
  BY <1>6 DEF Merged, FreeIn, UsedIn
<1> QED  BY <1>3, <1>7, <1>8 DEF g, m

(* A head that is NULL is the list without a node.                         *)
LEMMA NoNodes ==
    ASSUME NEW h, h.blk_headp = 0
    PROVE  ListOf(h, {})
<1> DEFINE s == [k \in 1 .. 0 |-> 0]
<1>1. s \in [1 .. 0 -> Nat] /\ Links(h, s, 0) /\ Nodes(s, 0) = {}
  BY DEF Links, Nodes, NULL
<1> HIDE DEF s
<1> SUFFICES \E n \in Nat : \E t \in [1 .. n -> Nat] : Links(h, t, n) /\ Nodes(t, n) = {}
  BY DEF ListOf
<1> WITNESS 0 \in Nat
<1>2. s \in [1 .. 0 -> Nat]
  BY <1>1
<1> WITNESS s \in [1 .. 0 -> Nat]
<1> QED  BY <1>1

(* mm_init of v3 and v4, whatever words a trace has left.                  *)
LEMMA InitEffect ==
    ASSUME NEW h \in Heap, Linked(h)
    PROVE  Fresh(h, V3!mm_init(h))
<1> DEFINE p == Prologue(h)
           g == [p EXCEPT !.blk_headp = 0, !.flag = 0]
           r == V3!extend_heap(g, CHUNK)
<1>1. /\ p \in Heap /\ p.file = h.file /\ p.brk = 4
      /\ Tiled(p.mem, 4, {2}, {}, 6) /\ Merged(p.mem, {2})
      /\ FreeIn(p.mem, {2}) = {} /\ UsedIn(p.mem, {2}) = {2}
  BY Six, StartHeap
<1>2. V3!mm_init(h) = r.heap
  BY V3Words DEF V3!mm_init, NULL
<1> HIDE DEF p
<1>3. g \in Heap /\ g.file = h.file /\ g.brk = 4 /\ g.mem = p.mem /\ g.blk_headp = 0 /\ g.flag = 0
  BY <1>1 DEF Heap
<1> HIDE DEF g
<1>4. Linked(g) /\ Room(g) = 6
  BY <1>3 DEF Linked, Room
<1>5. Sound(g, {2}, {})
  BY <1>1, <1>3, <1>4, NoNodes DEF Sound
<1>6. Extended(g, {2}, {}, CHUNK, r)
  <2>1. CHUNK \in Nat /\ CHUNK % 2 = 0 /\ 6 <= CHUNK /\ g.brk + CHUNK <= MAX_HEAP
    BY <1>3, HeapAssumption
  <2> QED  BY <1>4, <1>5, <2>1, ExtendEffect
<1> HIDE DEF r
<1>7. PICK B : Sound(r.heap, B, {}) /\ KeepsUsed(g.mem, {2}, r.heap.mem, B)
  BY <1>6 DEF Extended
<1>8. UsedIn(r.heap.mem, B) = {2}
  BY <1>1, <1>3, <1>7 DEF KeepsUsed
<1>9. r.heap.file = h.file
  BY <1>3, <1>6 DEF Extended
<1>10. Fresh(h, r.heap)
  BY <1>7, <1>8, <1>9 DEF Fresh
<1> QED  BY <1>2, <1>10

(***************************************************************************)
(* Writing inside a block in use: memset and memcpy.                       *)
(***************************************************************************)

(* g is h but for the words inside the block b.                            *)
Wrote(h, B, X, b, g) ==
    /\ Sound(g, B, X) /\ FreeIn(g.mem, B) = FreeIn(h.mem, B) /\ UsedIn(g.mem, B) = UsedIn(h.mem, B)
    /\ \A c \in B : g.mem[c - 1] = h.mem[c - 1]
    /\ \A c \in UsedIn(h.mem, B) \ {b} : Kept(h.mem, g.mem, c)
    /\ Late(h, B, X) => Late(g, B, X)

(* Writing between the tags of a block in use changes no other block.      *)
LEMMA WriteInside ==
    ASSUME NEW h, NEW B, NEW X, Sound(h, B, X), NEW b \in UsedIn(h.mem, B),
           NEW g \in Heap, SameRest(g, h), g.blk_headp = h.blk_headp,
           \A w \in Word : w < b \/ b + h.mem[b - 1].size - 2 <= w => g.mem[w] = h.mem[w]
    PROVE  Wrote(h, B, X, b, g)
<1> DEFINE m == h.mem
           e == h.brk
           m2 == g.mem
           k == Room(h)
<1>1. h \in Heap /\ Tiled(m, e, B, X, k) /\ Least(k) /\ Merged(m, B)
  BY RoomLeast DEF Sound
<1>2. b \in B /\ m[b - 1].alloc = 1
  BY DEF UsedIn
<1>3. m2 \in Memory
  BY DEF Heap
<1>4. g.brk = e /\ Room(g) = k /\ (Linked(g) <=> Linked(h))
  BY DEF SameRest, Room, Linked
<1> HIDE DEF k
<1>5. /\ e \in Nat /\ e - 1 \in Word
      /\ \A c \in B : /\ c \in Nat /\ c - 1 \in Word /\ m[c - 1].size \in Nat /\ 2 <= m[c - 1].size
                      /\ c + m[c - 1].size - 2 \in Word
                      /\ c + m[c - 1].size \in B \cup {e}
  BY <1>1, BlockFacts, HeapEnds
<1>6. \A c \in B \cup {e} : c <= b \/ b + m[b - 1].size <= c
  BY <1>1, <1>2, NotInside
<1>7. \A c \in B : c # b => c + m[c - 1].size <= b \/ b + m[b - 1].size <= c
  <2> TAKE c \in B
  <2> HAVE c # b
  <2>1. b <= c \/ c + m[c - 1].size <= b
    BY <1>1, <1>2, NotInside
  <2> QED  BY <1>2, <1>5, <1>6, <2>1
<1>8. \A c \in B \cup {e} : m2[c - 1] = m[c - 1]
  <2> TAKE c \in B \cup {e}
  <2>1. c - 1 \in Word /\ c \in Nat /\ (c <= b \/ b + m[b - 1].size <= c)
    BY <1>5, <1>6
  <2>2. b \in Nat /\ m[b - 1].size \in Nat
    BY <1>2, <1>5
  <2>3. c - 1 < b \/ b + m[b - 1].size - 2 <= c - 1
    BY <2>1, <2>2
  <2> QED  BY <2>1, <2>3
<1>9. \A c \in B : m2[c + m[c - 1].size - 2] = m[c + m[c - 1].size - 2]
  <2> TAKE c \in B
  <2>1. c + m[c - 1].size - 2 \in Word /\ c \in Nat /\ m[c - 1].size \in Nat /\ 2 <= m[c - 1].size
    BY <1>5
  <2>2. b \in Nat /\ m[b - 1].size \in Nat
    BY <1>2, <1>5
  <2>3. c = b \/ c + m[c - 1].size <= b \/ b + m[b - 1].size <= c
    BY <1>7
  <2>4. c + m[c - 1].size - 2 < b \/ b + m[b - 1].size - 2 <= c + m[c - 1].size - 2
    <3>1. CASE c = b
      BY <2>1, <3>1
    <3>2. CASE c + m[c - 1].size <= b
      BY <2>1, <2>2, <3>2
    <3>3. CASE b + m[b - 1].size <= c
      BY <2>1, <2>2, <3>3
    <3> QED  BY <2>3, <3>1, <3>2, <3>3
  <2> QED  BY <2>1, <2>4
<1>10. \A c \in UsedIn(m, B) \ {b} : Kept(m, m2, c)
  <2> SUFFICES ASSUME NEW c \in UsedIn(m, B) \ {b}, NEW w \in c - 1 .. c + m[c - 1].size - 3
               PROVE  m2[w] = m[w]
    BY DEF Kept
  <2>1. c \in B /\ c # b
    BY DEF UsedIn
  <2>2. c \in Nat /\ c - 1 \in Word /\ m[c - 1].size \in Nat /\ c + m[c - 1].size - 2 \in Word
    BY <1>5, <2>1
  <2>3. b \in Nat /\ m[b - 1].size \in Nat
    BY <1>2, <1>5
  <2>4. w \in Word
    BY <2>2, HeapAssumption DEF Word
  <2>5. c + m[c - 1].size <= b \/ b + m[b - 1].size <= c
    BY <1>7, <2>1
  <2>6. w < b \/ b + m[b - 1].size - 2 <= w
    BY <2>2, <2>3, <2>5
  <2> QED  BY <2>4, <2>6
<1>11. Tiled(m2, e, B, X, k)
  <2>1. m2[e - 1] = m[e - 1]
    BY <1>8
  <2>2. \A c \in B : /\ m2[c - 1] = m[c - 1]
                     /\ c \in X \/ (c \notin X /\ m2[c + m[c - 1].size - 2] = m[c + m[c - 1].size - 2])
    BY <1>8, <1>9
  <2> HIDE DEF m, m2, e
  <2> QED  BY <1>1, <1>3, <2>1, <2>2, SameTiles
<1>12. Merged(m2, B)
  <2> SUFFICES ASSUME NEW c \in B
               PROVE  m2[c - 1].alloc = 1 \/ m2[c + m2[c - 1].size - 1].alloc = 1
    BY DEF Merged
  <2>1. c \in Nat /\ m[c - 1].size \in Nat /\ c + m[c - 1].size \in B \cup {e}
    BY <1>5
  <2>2. c + m[c - 1].size - 1 = (c + m[c - 1].size) - 1
    BY <2>1
  <2>3. m2[c - 1] = m[c - 1] /\ m2[c + m[c - 1].size - 1] = m[c + m[c - 1].size - 1]
    BY <1>8, <2>1, <2>2
  <2> QED  BY <1>1, <2>3 DEF Merged
<1>13. FreeIn(m2, B) = FreeIn(m, B) /\ UsedIn(m2, B) = UsedIn(m, B)
  <2>1. \A c \in B : m2[c - 1] = m[c - 1]
    BY <1>8
  <2> QED  BY <2>1 DEF FreeIn, UsedIn
<1>14. Linked(g) => ListOf(g, FreeIn(m2, B))
  <2> HAVE Linked(g)
  <2>1. Linked(h) /\ k = 6
    BY <1>4 DEF Room, k
  <2>2. ListOf(h, FreeIn(m, B))
    BY <2>1 DEF Sound
  <2>3. ASSUME NEW c \in FreeIn(m, B), NEW w \in LinkWords(c)
        PROVE  m2[w] = m[w]
    <3>1. c # b
      BY <1>2 DEF FreeIn
    <3>2. w \in Word /\ (w < b - 1 \/ b + m[b - 1].size - 2 < w)
      BY <1>1, <1>2, <2>1, <2>3, <3>1, OtherLinks
    <3>3. b \in Nat /\ m[b - 1].size \in Nat
      BY <1>2, <1>5
    <3>4. w < b \/ b + m[b - 1].size - 2 <= w
      BY <3>2, <3>3, HeapAssumption DEF Word
    <3> QED  BY <3>2, <3>4
  <2> HIDE DEF m, m2
  <2>4. ListOf(g, FreeIn(m, B))
    BY <1>1, <2>2, <2>3, SameList DEF m, m2
  <2> QED  BY <1>13, <2>4
<1>15. Sound(g, B, X)
  BY <1>4, <1>11, <1>12, <1>14 DEF Sound
<1>16. Late(h, B, X) => Late(g, B, X)
  <2> HAVE Late(h, B, X)
  <2>1. \A x \in X : /\ x \in UsedIn(m, B) /\ x + m[x - 1].size \in FreeIn(m, B)
                     /\ x + m[x - 1].size + m[x + m[x - 1].size - 1].size = e
    BY DEF Late
  <2>2. \A x \in X : m2[x - 1] = m[x - 1] /\ m2[x + m[x - 1].size - 1] = m[x + m[x - 1].size - 1]
    <3> TAKE x \in X
    <3>1. x \in B /\ x + m[x - 1].size \in B
      BY <2>1 DEF UsedIn, FreeIn
    <3>2. x + m[x - 1].size - 1 = (x + m[x - 1].size) - 1
      BY <1>5, <3>1
    <3> QED  BY <1>8, <3>1, <3>2
  <2>3. X # {} => g.file = "mm_v4" /\ g.flag = 1
    BY DEF Late, SameRest
  <2>4. \A x \in X : /\ x \in UsedIn(m2, B) /\ x + m2[x - 1].size \in FreeIn(m2, B)
                     /\ x + m2[x - 1].size + m2[x + m2[x - 1].size - 1].size = g.brk
    <3> HIDE DEF m, m2, e
    <3> QED  BY <1>4, <1>13, <2>1, <2>2
  <2> QED  BY <2>3, <2>4 DEF Late
<1> QED  BY <1>8, <1>10, <1>13, <1>15, <1>16 DEF Wrote

(***************************************************************************)
(* mm_realloc that moves the block: mm_malloc, memcpy, mm_free.            *)
(***************************************************************************)

(* old has become r.bp, with as many of its words as both have room for.   *)
Realloced(h, B, old, size, r) ==
    IF r.bp = 0 THEN r.heap = h
    ELSE /\ r.heap.file = h.file
         /\ \E B2, Y :
              /\ Sound(r.heap, B2, Y) /\ Late(r.heap, B2, Y)
              /\ UsedIn(r.heap.mem, B2) = (UsedIn(h.mem, B) \ {old}) \cup {r.bp}
              /\ r.bp \notin UsedIn(h.mem, B) \ {old}
              /\ \A c \in UsedIn(h.mem, B) \ {old} : Kept(h.mem, r.heap.mem, c)
              /\ size \div 4 + 2 <= r.heap.mem[r.bp - 1].size
              /\ \A i \in Nat : i < size \div 4 /\ i + 2 < h.mem[old - 1].size
                                => r.heap.mem[r.bp + i] = h.mem[old + i]

(* A word of data.                                                         *)
LEMMA DataIs ==
    ASSUME NEW id \in Id \cup {NoId}
    PROVE  Data(id) \in WordValue /\ Data(id).id = id
  BY DEF Data, WordValue, NULL

Copied(g, h, to, from, n) ==
    /\ g \in Heap /\ SameRest(g, h) /\ g.blk_headp = h.blk_headp
    /\ \A w \in Word : w \notin to .. to + n - 1 => g.mem[w] = h.mem[w]
    /\ \A i \in Nat : i < n /\ to + i \in Word /\ from + i \in Word => g.mem[to + i] = h.mem[from + i]

(* memcpy changes the words from to on, and copies the others'.            *)
LEMMA CopyAt ==
    ASSUME NEW h \in Heap, NEW to \in Nat, NEW from \in Nat, NEW size \in Nat
    PROVE  Copied(memcpy(h, to, from, size), h, to, from, size \div 4)
<1> DEFINE n == size \div 4
           m2 == [w \in Word |-> IF w \notin to .. to + n - 1 THEN h.mem[w]
                                 ELSE IF from + w - to \in Word THEN h.mem[from + w - to]
                                 ELSE Data(NoId)]
           g == [h EXCEPT !.mem = m2]
<1>1. memcpy(h, to, from, size) = g
  BY DEF memcpy, WSIZE
<1>2. n \in Nat
  OBVIOUS
<1>3. h.mem \in Memory /\ \A w \in Word : h.mem[w] \in WordValue
  BY DEF Heap, Memory
<1>4. Data(NoId) \in WordValue
  BY DataIs
<1> HIDE DEF n
<1>5. m2 \in Memory
  <2>1. \A w \in Word : m2[w] \in WordValue
    BY <1>3, <1>4
  <2> QED  BY <2>1 DEF Memory
<1>6. \A w \in Word : w \notin to .. to + n - 1 => m2[w] = h.mem[w]
  OBVIOUS
<1>7. \A i \in Nat : i < n /\ to + i \in Word /\ from + i \in Word => m2[to + i] = h.mem[from + i]
  <2> TAKE i \in Nat
  <2> HAVE i < n /\ to + i \in Word /\ from + i \in Word
  <2>1. to + i \in to .. to + n - 1 /\ from + (to + i) - to = from + i
    BY <1>2
  <2> QED  BY <2>1
<1> HIDE DEF m2
<1>8. g \in Heap /\ SameRest(g, h) /\ g.blk_headp = h.blk_headp /\ g.mem = m2
  BY <1>5 DEF Heap, SameRest
<1> HIDE DEF g
<1> QED  BY <1>1, <1>6, <1>7, <1>8 DEF n, Copied

(* What mm_malloc, memcpy and mm_free do one after the other.              *)
LEMMA MoveEffect ==
    ASSUME NEW h, NEW B, Sound(h, B, {}), NEW size \in Nat,
           NEW old \in UsedIn(h.mem, B), old # 2,
           NEW new, Malloced(h, B, {}, size, new), new.bp # 0,
           NEW c, c = memcpy(new.heap, new.bp, old, size), NEW f,
           \A B2 : /\ Sound(c, B2, {}) /\ c.file = h.file /\ old \in UsedIn(c.mem, B2)
                   => Freed(c, B2, {}, old, f),
           NEW g, g = f \/ g = [f EXCEPT !.flag = 1]
    PROVE  Realloced(h, B, old, size, Result(g, new.bp))
<1> DEFINE m == h.mem
           b == new.bp
           n == new.heap
           N == size \div 4
<1>1. OneMore(h, B, {}, size, n, b)
  BY DEF Malloced
<1>2. PICK B2 : /\ Sound(n, B2, {})
                /\ UsedIn(n.mem, B2) = UsedIn(m, B) \cup {b} /\ b \notin UsedIn(m, B)
                /\ \A x \in UsedIn(m, B) : Kept(m, n.mem, x)
                /\ N + 2 <= n.mem[b - 1].size
  BY <1>1 DEF OneMore
<1>3. n.file = h.file
  BY <1>1 DEF OneMore
<1>4. /\ n \in Heap /\ Tiled(n.mem, n.brk, B2, {}, Room(n)) /\ Least(Room(n))
      /\ h \in Heap /\ Tiled(m, h.brk, B, {}, Room(h)) /\ Least(Room(h))
  BY <1>2, RoomLeast DEF Sound
<1>5. /\ b \in B2 /\ b \in UsedIn(n.mem, B2) /\ old \in UsedIn(n.mem, B2) /\ old # b
      /\ old \in B
  BY <1>2 DEF UsedIn
<1>6. /\ b \in Nat /\ 2 <= b /\ n.mem[b - 1].size \in Nat /\ b + n.mem[b - 1].size <= n.brk
      /\ n.brk \in Nat /\ n.brk <= MAX_HEAP
  BY <1>4, <1>5, BlockFacts
<1>7. /\ old \in Nat /\ 2 <= old /\ m[old - 1].size \in Nat /\ 2 <= m[old - 1].size
      /\ old + m[old - 1].size <= MAX_HEAP
  <2>1. /\ old \in Nat /\ 2 <= old /\ m[old - 1].size \in Nat /\ 2 <= m[old - 1].size
        /\ old + m[old - 1].size <= h.brk /\ h.brk \in Nat /\ h.brk <= MAX_HEAP
    BY <1>4, <1>5, BlockFacts
  <2> HIDE DEF m
  <2> QED  BY <2>1, HeapAssumption
<1>8. N \in Nat
  OBVIOUS
<1> HIDE DEF N
<1>9. /\ c \in Heap /\ SameRest(c, n) /\ c.blk_headp = n.blk_headp
      /\ \A w \in Word : w \notin b .. b + N - 1 => c.mem[w] = n.mem[w]
      /\ \A i \in Nat : i < N /\ b + i \in Word /\ old + i \in Word => c.mem[b + i] = n.mem[old + i]
  <2>1. Copied(c, n, b, old, N)
    BY <1>4, <1>6, <1>7, CopyAt DEF N
  <2> QED  BY <2>1 DEF Copied
<1> HIDE DEF n, b, m
<1>10. Wrote(n, B2, {}, b, c)
  <2>1. \A w \in Word : w < b \/ b + n.mem[b - 1].size - 2 <= w => c.mem[w] = n.mem[w]
    <3> TAKE w \in Word
    <3> HAVE w < b \/ b + n.mem[b - 1].size - 2 <= w
    <3>1. w \in Int
      BY DEF Word
    <3>2. w \notin b .. b + N - 1
      BY <1>2, <1>6, <1>8, <3>1
    <3> QED  BY <1>9, <3>2
  <2> QED  BY <1>2, <1>5, <1>9, <2>1, WriteInside
<1>11. Sound(c, B2, {}) /\ UsedIn(c.mem, B2) = UsedIn(m, B) \cup {b}
       /\ \A x \in UsedIn(n.mem, B2) \ {b} : Kept(n.mem, c.mem, x)
  BY <1>2, <1>10 DEF Wrote
<1>12. Freed(c, B2, {}, old, f)
  <2>1. c.file = h.file /\ old \in UsedIn(c.mem, B2)
    BY <1>2, <1>3, <1>9, <1>11 DEF SameRest, m
  <2> QED  BY <1>11, <2>1
<1>13. PICK B3 : /\ Sound(f, B3, {})
                 /\ UsedIn(f.mem, B3) = UsedIn(c.mem, B2) \ {old}
                 /\ \A x \in UsedIn(c.mem, B2) \ {old} : Kept(c.mem, f.mem, x)
  <2>1. {} \ {old} = {}
    OBVIOUS
  <2> QED  BY <1>12, <2>1 DEF Freed
<1>14. f.file = h.file
  BY <1>3, <1>9, <1>12 DEF Freed, SameRest
<1>15. g.file = h.file /\ Sound(g, B3, {}) /\ Late(g, B3, {}) /\ g.mem = f.mem
  <2>0. /\ f \in Heap /\ g \in Heap
        /\ g.file = f.file /\ g.mem = f.mem /\ g.brk = f.brk /\ g.blk_headp = f.blk_headp
    <3>1. f \in Heap
      BY <1>13 DEF Sound
    <3>2. [f EXCEPT !.flag = 1] \in Heap
      BY <3>1 DEF Heap
    <3> QED  BY <3>1, <3>2 DEF Heap
  <2>1. Linked(g) <=> Linked(f)
    BY <2>0 DEF Linked
  <2>2. Linked(f) => ListOf(g, FreeIn(f.mem, B3))
    <3> HAVE Linked(f)
    <3>1. f \in Heap /\ ListOf(f, FreeIn(f.mem, B3))
      BY <1>13 DEF Sound
    <3> QED  BY <2>0, <3>1, SameList
  <2>3. Room(g) = Room(f)
    BY <2>1 DEF Room
  <2>4. Sound(g, B3, {})
    BY <1>13, <2>0, <2>1, <2>2, <2>3 DEF Sound
  <2> QED  BY <1>14, <2>0, <2>4 DEF Late
<1>16. \A x \in UsedIn(m, B) \ {old} : Kept(m, f.mem, x)
  <2> TAKE x \in UsedIn(m, B) \ {old}
  <2>1. x \in Nat /\ m[x - 1].size \in Nat /\ 2 <= m[x - 1].size
    BY <1>4, BlockFacts DEF UsedIn, m
  <2>2. x # b /\ x \in UsedIn(n.mem, B2)
    BY <1>2
  <2>3. Kept(m, n.mem, x) /\ Kept(n.mem, c.mem, x) /\ Kept(c.mem, f.mem, x)
    BY <1>2, <1>11, <1>13, <2>2
  <2>4. Kept(m, c.mem, x)
    BY <2>1, <2>3, KeptAgain
  <2> QED  BY <2>1, <2>3, <2>4, KeptAgain
<1>17. UsedIn(f.mem, B3) = (UsedIn(m, B) \ {old}) \cup {b} /\ b \notin UsedIn(m, B) \ {old}
  BY <1>2, <1>5, <1>11, <1>13
<1>18. c.mem[b - 1] = n.mem[b - 1] /\ Kept(c.mem, f.mem, b)
  BY <1>5, <1>10, <1>11, <1>13 DEF Wrote
<1>19. f.mem[b - 1] = n.mem[b - 1]
  <2>1. b - 1 \in b - 1 .. b + c.mem[b - 1].size - 3
    BY <1>2, <1>6, <1>8, <1>18
  <2> QED  BY <1>18, <2>1 DEF Kept
<1>20. \A i \in Nat : i < N /\ i + 2 < m[old - 1].size => f.mem[b + i] = m[old + i]
  <2> TAKE i \in Nat
  <2> HAVE i < N /\ i + 2 < m[old - 1].size
  <2>1. b + i \in b - 1 .. b + c.mem[b - 1].size - 3
    BY <1>2, <1>6, <1>8, <1>18
  <2>2. f.mem[b + i] = c.mem[b + i]
    BY <1>18, <2>1 DEF Kept
  <2>3. b + i \in Word /\ old + i \in Word
    <3>1. b + i < n.brk
      BY <1>2, <1>6, <1>8
    <3> QED  BY <1>6, <1>7, <3>1, HeapAssumption DEF Word
  <2>4. c.mem[b + i] = n.mem[old + i]
    BY <1>9, <2>3
  <2>5. old + i \in old - 1 .. old + m[old - 1].size - 3
    BY <1>7
  <2>6. Kept(m, n.mem, old)
    BY <1>2 DEF m
  <2>7. n.mem[old + i] = m[old + i]
    BY <2>5, <2>6 DEF Kept
  <2> QED  BY <2>2, <2>4, <2>7
<1>21. Result(g, b).heap = g /\ Result(g, b).bp = b
  BY DEF Result
<1>22. N + 2 <= g.mem[b - 1].size
  BY <1>2, <1>15, <1>19
<1>23. b # 0
  BY DEF b
<1>24. Realloced(h, B, old, size, Result(g, b))
  BY <1>15, <1>16, <1>17, <1>20, <1>21, <1>22, <1>23 DEF Realloced, N, m
<1> QED  BY <1>24 DEF b
(* mm_realloc of v3 and v4 while flag is not set.                          *)
LEMMA MovesEffect ==
    ASSUME NEW h, Linked(h), NEW B, NEW X, Sound(h, B, X), Late(h, B, X), h.flag = 0,
           NEW old \in UsedIn(h.mem, B), old # 2, NEW size \in Nat
    PROVE  Realloced(h, B, old, size, V3!ReallocMoves(h, old, size))
<1> DEFINE new == V3!mm_malloc(h, size)
           c == memcpy(new.heap, new.bp, old, size)
           f == V3!mm_free(c, old)
           g == [f EXCEPT !.flag = 1]
           r == V3!ReallocMoves(h, old, size)
<1>1. X = {}
  BY LateFacts
<1>2. Malloced(h, B, {}, size, new)
  <2>1. V3!SuitsMalloc(h, size)
    BY DEF V3!SuitsMalloc
  <2> QED  BY <1>1, <2>1, MallocEffect
<1>3. r = IF new.bp = 0 THEN new ELSE Result(g, new.bp)
  <2>1. /\ V3!NULL = 0
        /\ \A x, b : V3!Result(x, b) = Result(x, b)
        /\ \A x, t, y, n : V3!memcpy(x, t, y, n) = memcpy(x, t, y, n)
    BY V3Words DEF NULL
  <2> QED  BY <2>1 DEF V3!ReallocMoves
<1>4. CASE new.bp = 0
  <2>1. new.heap = h
    BY <1>2, <1>4 DEF Malloced
  <2> HIDE DEF r, new
  <2>2. Realloced(h, B, old, size, r)
    BY <1>3, <1>4, <2>1 DEF Realloced
  <2> QED  BY <2>2 DEF r
<1>5. CASE new.bp # 0
  <2>1. ASSUME NEW B2, Sound(c, B2, {}), c.file = h.file, old \in UsedIn(c.mem, B2)
        PROVE  Freed(c, B2, {}, old, f)
    <3>1. Linked(c) /\ Late(c, B2, {})
      BY <2>1 DEF Linked, Late
    <3> HIDE DEF c
    <3> QED  BY <2>1, <3>1, FreeEffect
  <2>2. PICK c0 : c0 = c
    OBVIOUS
  <2>3. PICK f0 : f0 = f
    OBVIOUS
  <2>4. PICK g0 : g0 = g /\ (g0 = f0 \/ g0 = [f0 EXCEPT !.flag = 1])
    BY <2>3
  <2>5. \A B2 : Sound(c0, B2, {}) /\ c0.file = h.file /\ old \in UsedIn(c0.mem, B2)
                => Freed(c0, B2, {}, old, f0)
    BY <2>1, <2>2, <2>3
  <2> HIDE DEF f, g, r, new
  <2>6. Realloced(h, B, old, size, Result(g0, new.bp))
    BY <1>1, <1>2, <1>5, <2>2, <2>4, <2>5, MoveEffect
  <2>7. Realloced(h, B, old, size, r)
    BY <1>3, <1>5, <2>4, <2>6
  <2> QED  BY <2>7 DEF r
<1> QED  BY <1>4, <1>5

(***************************************************************************)
(* mm_realloc that lets the block grow into the last one.                  *)
(***************************************************************************)
(* The words written: the block ends at r, the rest up to e is free.       *)
GrownWords(g, h, old, r, e) ==
    /\ g \in Heap /\ SameRest(g, h) /\ g.blk_headp = h.blk_headp
    /\ g.mem[old - 1] = Tag(r - old, 1)
    /\ h.file # "mm_v4" => g.mem[r - 2] = Tag(r - old, 1)
    /\ g.mem[r - 1] = Tag(e - r, 0) /\ g.mem[e - 2] = Tag(e - r, 0)
    /\ \A w \in Word : w < old - 1 \/ e - 2 < w \/ (old <= w /\ w < r - 2) => g.mem[w] = h.mem[w]

(* The tags written when a block grows, v4's wrong footer or not.          *)
LEMMA GrowWords ==
    ASSUME NEW h \in Heap, NEW old \in Nat, NEW r \in Nat, NEW e \in Nat, NEW d \in Nat,
           4 <= old, old + 6 <= r, r + 6 <= e, e <= MAX_HEAP,
           NEW h1, h1 = PutBoth(h, r, e - r, 0),
           NEW h2, h2 = PUT(V3!Unlinked(h1, r), old - 1, Tag(r - old, 1))
    PROVE  GrownWords(V3!GrownFooter(h2, old, d), h, old, r, e)
<1> DEFINE u1 == PUTADDR(h1, r, 0)
           u2 == PUTADDR(u1, r + 2, 0)
           n == IF h2.file = "mm_v4" THEN r - old + d ELSE r - old
           g == PUT(h2, r - 2, Tag(n, 1))
<1>1. /\ old - 1 \in Word /\ r - 1 \in Word /\ r - 2 \in Word /\ e - 2 \in Word
      /\ r \in Word /\ r + 1 \in Word /\ r + 2 \in Word /\ r + 2 + 1 \in Word
  BY HeapAssumption DEF Word
<1>2. e - r \in Nat /\ r - old \in Nat /\ r + (e - r) - 2 = e - 2 /\ r + 2 + 1 = r + 3
  OBVIOUS
<1>3. PutsBoth(h1, h, r, e - r, 0)
  BY <1>1, <1>2, PutBothAt
<1>4. /\ h1 \in Heap /\ SameRest(h1, h) /\ h1.blk_headp = h.blk_headp
      /\ \A w \in Word : h1.mem[w] = IF w = r - 1 \/ w = e - 2 THEN Tag(e - r, 0) ELSE h.mem[w]
  BY <1>2, <1>3 DEF PutsBoth
<1>5. PutsAddr(u1, h1, r, 0)
  BY <1>1, <1>4, PutAddrAt
<1>6. PutsAddr(u2, u1, r + 2, 0)
  <2>1. u1 \in Heap
    BY <1>5 DEF PutsAddr
  <2> HIDE DEF u1
  <2> QED  BY <1>1, <2>1, PutAddrAt
<1>7. V3!Unlinked(h1, r) = u2
  BY V3Words DEF V3!Unlinked, PRED, SUCC, NULL
<1> HIDE DEF u1, u2
<1>8. /\ u2 \in Heap /\ SameRest(u2, h) /\ u2.blk_headp = h.blk_headp
      /\ \A w \in Word : w < r \/ r + 3 < w => u2.mem[w] = h1.mem[w]
  <2>1. \A w \in Word : w < r \/ r + 3 < w => w # r /\ w # r + 1 /\ w # r + 2 /\ w # r + 2 + 1
    BY DEF Word
  <2> QED  BY <1>4, <1>5, <1>6, <2>1 DEF PutsAddr, SameRest
<1>9. /\ h2 \in Heap /\ SameRest(h2, h) /\ h2.blk_headp = h.blk_headp
      /\ \A w \in Word : h2.mem[w] = IF w = old - 1 THEN Tag(r - old, 1) ELSE u2.mem[w]
  <2>1. Tag(r - old, 1) \in WordValue
    BY <1>2, TagIs
  <2>2. /\ h2 \in Heap /\ SameRest(h2, u2) /\ h2.blk_headp = u2.blk_headp
        /\ \A w \in Word : h2.mem[w] = IF w = old - 1 THEN Tag(r - old, 1) ELSE u2.mem[w]
    BY <1>1, <1>7, <1>8, <2>1, PutAt
  <2> QED  BY <1>8, <2>2 DEF SameRest
<1>10. h2.mem[old - 1].size = r - old
  <2>1. h2.mem[old - 1] = Tag(r - old, 1)
    BY <1>1, <1>9
  <2> QED  BY <1>2, <2>1, TagIs
<1>11. V3!GrownFooter(h2, old, d) = g
  <2>1. V3!GET_SIZE(h2, V3!HDRP(old)) = r - old
    BY <1>10, V3Words DEF GET_SIZE, HDRP
  <2>2. V3!FTRP(h2, old) = r - 2
    <3>1. V3!FTRP(h2, old) = old + h2.mem[old - 1].size - 2
      BY V3Words DEF FTRP, GET_SIZE, HDRP
    <3>2. old + (r - old) - 2 = r - 2
      OBVIOUS
    <3> QED  BY <1>10, <3>1, <3>2
  <2> QED  BY <2>1, <2>2, V3Words DEF V3!GrownFooter
<1>12. n \in Nat /\ (h.file # "mm_v4" => n = r - old)
  BY <1>2, <1>9 DEF SameRest
<1> HIDE DEF n
<1>13. /\ g \in Heap /\ SameRest(g, h) /\ g.blk_headp = h.blk_headp
       /\ \A w \in Word : g.mem[w] = IF w = r - 2 THEN Tag(n, 1) ELSE h2.mem[w]
  <2>1. Tag(n, 1) \in WordValue
    BY <1>12, TagIs
  <2>2. /\ g \in Heap /\ SameRest(g, h2) /\ g.blk_headp = h2.blk_headp
        /\ \A w \in Word : g.mem[w] = IF w = r - 2 THEN Tag(n, 1) ELSE h2.mem[w]
    <3>1. h2 \in Heap /\ r - 2 \in Word
      BY <1>1, <1>9
    <3> QED  BY <2>1, <3>1, PutAt
  <2> HIDE DEF g
  <2> QED  BY <1>9, <2>2 DEF SameRest
<1> HIDE DEF g
<1>14. g.mem[old - 1] = Tag(r - old, 1)
  <2>1. old - 1 # r - 2
    OBVIOUS
  <2> QED  BY <1>1, <1>9, <1>13, <2>1
<1>15. g.mem[r - 1] = Tag(e - r, 0) /\ g.mem[e - 2] = Tag(e - r, 0)
  <2>1. /\ r - 1 # r - 2 /\ r - 1 # old - 1 /\ r - 1 < r
        /\ e - 2 # r - 2 /\ e - 2 # old - 1 /\ r + 3 < e - 2
    OBVIOUS
  <2> QED  BY <1>1, <1>4, <1>8, <1>9, <1>13, <2>1
<1>16. h.file # "mm_v4" => g.mem[r - 2] = Tag(r - old, 1)
  BY <1>1, <1>12, <1>13
<1>17. \A w \in Word : w < old - 1 \/ e - 2 < w \/ (old <= w /\ w < r - 2) => g.mem[w] = h.mem[w]
  <2> TAKE w \in Word
  <2> HAVE w < old - 1 \/ e - 2 < w \/ (old <= w /\ w < r - 2)
  <2>1. w # r - 2 /\ w # old - 1 /\ (w < r \/ r + 3 < w) /\ w # r - 1 /\ w # e - 2
    BY DEF Word
  <2> QED  BY <1>4, <1>8, <1>9, <1>13, <2>1
<1> QED  BY <1>11, <1>13, <1>14, <1>15, <1>16, <1>17 DEF GrownWords

(* g is h with d words more for old.                                       *)
Grown(h, B, old, d, g) ==
    /\ SameRest(g, h)
    /\ \E B2, Y : /\ Sound(g, B2, Y) /\ Late(g, B2, Y)
                  /\ UsedIn(g.mem, B2) = UsedIn(h.mem, B)
                  /\ \A c \in UsedIn(h.mem, B) \ {old} : Kept(h.mem, g.mem, c)
                  /\ g.mem[old - 1].size = h.mem[old - 1].size + d
                  /\ \A i \in Nat : i + 2 < h.mem[old - 1].size => g.mem[old + i] = h.mem[old + i]

(* f, the last block, is free and has d words to spare for old, before it. *)
CanGrow(h, B, X, old, f, d) ==
    /\ Linked(h) /\ h.flag = 1 /\ Sound(h, B, X) /\ X \subseteq {old}
    /\ old \in UsedIn(h.mem, B) /\ old # 2
    /\ f = old + h.mem[old - 1].size /\ f \in FreeIn(h.mem, B)
    /\ f + h.mem[f - 1].size = h.brk
    /\ d \in Nat /\ d % 2 = 0 /\ d + 6 <= h.mem[f - 1].size

(* What mm_realloc writes once flag is set: old, of n words, takes d of t. *)
GrowAt(h, old, f, d, n, t) ==
    LET h1 == PutBoth(V3!remove_node(h, f), f + d, t - d, 0)
        h2 == PUT(V3!Unlinked(h1, f + d), old - 1, Tag(n + d, 1))
    IN  V3!add_node(V3!GrownFooter(h2, old, d), f + d)

(* old takes d words of the last block; the rest goes back to the list.    *)
LEMMA GrowInto ==
    ASSUME NEW h, NEW B, NEW X, NEW old, NEW f, NEW d, CanGrow(h, B, X, old, f, d)
    PROVE  Grown(h, B, old, d, GrowAt(h, old, f, d, h.mem[old - 1].size, h.mem[f - 1].size))
<1> DEFINE m == h.mem
           e == h.brk
           n == m[old - 1].size
           t == m[f - 1].size
           r == f + d
           F == FreeIn(m, B)
           U == Unlinks(m, B)
           S == F \ {f}
           h0 == V3!remove_node(h, f)
           h1 == PutBoth(h0, r, e - r, 0)
           h2 == PUT(V3!Unlinked(h1, r), old - 1, Tag(r - old, 1))
           h3 == V3!GrownFooter(h2, old, d)
           m1 == h0.mem
           m3 == h3.mem
           B2 == Cut(B, e, old, r, e)
           Y == IF h.file = "mm_v4" THEN {old} ELSE {}
           g == V3!add_node(h3, r)
<1>a. /\ h \in Heap /\ Tiled(m, e, B, X, 6) /\ Merged(m, B) /\ ListOf(h, F) /\ Room(h) = 6
      /\ Linked(h) /\ h.flag = 1 /\ X \subseteq {old} /\ old \in UsedIn(m, B) /\ old # 2
  BY DEF CanGrow, Sound, Room
<1>b. f \in F /\ f = old + n /\ f + t = e /\ d \in Nat /\ d % 2 = 0 /\ d + 6 <= t
  BY DEF CanGrow
<1> HIDE DEF m, e, n, t, r, h0, h1, h2, h3, m1, m3, B2, Y, g
<1>2. old \in B /\ m[old - 1].alloc = 1 /\ f \in B /\ f # 2 /\ old \notin F
  <2>1. f \in B /\ f # 2
    BY <1>a, <1>b, FreeFacts
  <2> QED  BY <1>a, <2>1 DEF UsedIn, FreeIn
<1>3. /\ old \in Nat /\ 4 <= old /\ old % 2 = 0 /\ n \in Nat /\ 6 <= n
  BY <1>a, <1>2, Six, BlockFacts DEF n
<1>4. f \in Nat /\ f % 2 = 0 /\ t \in Nat /\ e \in Nat /\ e <= MAX_HEAP
  BY <1>a, <1>2, Six, BlockFacts DEF t
<1>5. /\ r \in Nat /\ r % 2 = 0 /\ old + 6 <= r /\ r + 6 <= e /\ r # e /\ f <= r
      /\ t - d = e - r /\ n + d = r - old
  BY <1>b, <1>3, <1>4 DEF r
<1>6. Unlists(h0, h, S, U)
  BY <1>a, <1>b, RemoveFree DEF h0
<1>7. h0 \in Heap /\ SameRest(h0, h) /\ ListOf(h0, S) /\ Agree(m, e, B, X, m1)
  <2>1. h0 \in Heap /\ SameRest(h0, h) /\ ListOf(h0, S) /\ \A w \in U : m1[w] = m[w]
    BY <1>6 DEF Unlists, m, m1
  <2>2. m1 \in Memory
    BY <2>1 DEF Heap, m1
  <2> QED  BY <1>a, <2>1, <2>2, AgreeTiles
<1>8. /\ Tiled(m1, e, B, X, 6) /\ Merged(m1, B) /\ FreeIn(m1, B) = F /\ UsedIn(m1, B) = UsedIn(m, B)
      /\ \A c \in UsedIn(m, B) : Kept(m, m1, c)
  <2>1. Merged(m1, B)
    BY <1>a, <1>7, AgreeMerged
  <2> QED  BY <1>7, <2>1 DEF Agree
<1>9. GrownWords(h3, h0, old, r, e)
  BY <1>3, <1>4, <1>5, <1>7, <1>b, GrowWords DEF h1, h2, h3
<1>10. /\ h3 \in Heap /\ SameRest(h3, h) /\ h3.blk_headp = h0.blk_headp /\ m3 \in Memory
       /\ m3[old - 1].size = r - old /\ m3[old - 1].alloc = 1
       /\ old \in Y \/ SameTag(m3[r - 2], m3[old - 1])
       /\ m3[r - 1].size = e - r /\ m3[r - 1].alloc = 0 /\ SameTag(m3[e - 2], m3[r - 1])
       /\ \A w \in Word : w < old - 1 \/ e - 2 < w \/ (old <= w /\ w < r - 2) => m3[w] = m1[w]
  <2>1. /\ Tag(r - old, 1).size = r - old /\ Tag(r - old, 1).alloc = 1
        /\ Tag(e - r, 0).size = e - r /\ Tag(e - r, 0).alloc = 0
    BY DEF Tag
  <2>2. h3 \in Heap /\ SameRest(h3, h) /\ h3.blk_headp = h0.blk_headp
    BY <1>7, <1>9 DEF GrownWords, SameRest
  <2>3. m3 \in Memory
    BY <2>2 DEF Heap, m3
  <2>4. /\ m3[old - 1] = Tag(r - old, 1) /\ m3[r - 1] = Tag(e - r, 0) /\ m3[e - 2] = Tag(e - r, 0)
        /\ \A w \in Word : w < old - 1 \/ e - 2 < w \/ (old <= w /\ w < r - 2) => m3[w] = m1[w]
    BY <1>9 DEF GrownWords, m1, m3
  <2>5. old \in Y \/ SameTag(m3[r - 2], m3[old - 1])
    <3>1. CASE h.file = "mm_v4"
      BY <3>1 DEF Y
    <3>2. CASE h.file # "mm_v4"
      <4>1. h0.file # "mm_v4"
        BY <1>7, <3>2 DEF SameRest
      <4>2. m3[r - 2] = m3[old - 1]
        BY <1>9, <2>4, <4>1 DEF GrownWords, m3
      <4> QED  BY <4>2 DEF SameTag
    <3> QED  BY <3>1, <3>2
  <2>6. SameTag(m3[e - 2], m3[r - 1])
    BY <2>4 DEF SameTag
  <2> QED  BY <2>1, <2>2, <2>3, <2>4, <2>5, <2>6
<1>11. m1[e - 1].alloc = 1
  BY <1>8, Six, HeapEnds
<1>12. Placed(m1, e, B, Y, 6, old, r, e, m3)
  <2>1. \A b \in B : b < old \/ e <= b => b \notin X \/ b \in Y
    <3> TAKE b \in B
    <3> HAVE b < old \/ e <= b
    <3>1. b \in Nat /\ b < e
      BY <1>a, Six, BlockFacts, HeapEnds
    <3>2. b # old
      BY <1>3, <1>4, <3>1
    <3> QED  BY <1>a, <3>2
  <2>2. old + 6 <= r /\ (r = e \/ (r + 6 <= e /\ m1[e - 1].alloc = 1)) /\ e \in B \cup {e}
    BY <1>5, <1>11
  <2> QED  BY <1>a, <1>2, <1>5, <1>8, <1>10, <2>1, <2>2, Six, PlaceTiles
<1>c. \A c \in B : /\ c \in Nat /\ c < e
                   /\ old < c => f <= c
                   /\ f < c => e <= c
                   /\ c < old /\ c # 2 => c + 6 <= old
  <2> TAKE c \in B
  <2>1. c \in Nat /\ c < e
    BY <1>a, Six, BlockFacts, HeapEnds
  <2>2. (old < c => old + n <= c) /\ (f < c => f + t <= c)
    BY <1>a, <1>2, Six, BlockFacts DEF n, t
  <2>3. ASSUME c < old, c # 2 PROVE c + 6 <= old
    <3>1. m[c - 1].size \in Nat /\ 6 <= m[c - 1].size /\ c + m[c - 1].size <= old
      BY <1>a, <1>2, <2>3, Six, BlockFacts
    <3> QED  BY <1>3, <2>1, <3>1
  <2> QED  BY <1>b, <2>1, <2>2, <2>3
<1>13. \A c \in S : c \in Nat /\ c < old /\ c + 6 <= old
  <2> TAKE c \in S
  <2>1. c \in B /\ c # old /\ c # f /\ c # 2
    BY <1>a, <1>2, FreeFacts
  <2>2. c \in Nat /\ c < e /\ (old < c => f <= c) /\ (f < c => e <= c) /\ (c < old => c + 6 <= old)
    BY <1>c, <2>1
  <2> QED  BY <1>3, <1>4, <2>1, <2>2
<1>14. /\ Tiled(m3, e, B2, Y, 6) /\ Merged(m3, B2)
       /\ FreeIn(m3, B2) = S \cup {r} /\ UsedIn(m3, B2) = UsedIn(m, B)
       /\ \A c \in UsedIn(m, B) \ {old} : Kept(m1, m3, c)
  <2>1. {b \in F : b < old \/ e <= b} = S
    <3>1. ~(f < old \/ e <= f)
      BY <1>b, <1>3, <1>4
    <3> QED  BY <1>13, <3>1
  <2>2. \A b \in UsedIn(m, B) \ {old} : b < old
    <3> TAKE b \in UsedIn(m, B) \ {old}
    <3>1. b \in B /\ b # f
      BY <1>b DEF UsedIn, FreeIn
    <3>2. b \in Nat /\ b < e /\ (old < b => f <= b) /\ (f < b => e <= b)
      BY <1>c, <3>1
    <3> QED  BY <1>3, <1>4, <3>1, <3>2
  <2>3. {b \in UsedIn(m, B) : b < old \/ e <= b} \cup {old} = UsedIn(m, B)
    <3>1. ~(old < old) /\ ~(e <= old)
      BY <1>b, <1>3, <1>4
    <3> QED  BY <1>a, <2>2, <3>1
  <2>4. {b \in {r} : r # e} = {r}
    BY <1>5
  <2>5. \A b \in UsedIn(m, B) : b < old \/ e <= b => Kept(m1, m3, b)
    BY <1>8, <1>12 DEF Placed
  <2>6. /\ Tiled(m3, e, B2, Y, 6) /\ Merged(m3, B2)
        /\ FreeIn(m3, B2) = {b \in F : b < old \/ e <= b} \cup {b \in {r} : r # e}
        /\ UsedIn(m3, B2) = {b \in UsedIn(m, B) : b < old \/ e <= b} \cup {old}
    BY <1>8, <1>12 DEF Placed, B2
  <2> HIDE DEF F, S
  <2> QED  BY <2>1, <2>2, <2>3, <2>4, <2>5, <2>6
<1>15. ListOf(h3, S)
  <2>1. ASSUME NEW c \in S, NEW w \in LinkWords(c)
        PROVE  h3.mem[w] = h0.mem[w]
    <3>1. c \in Nat /\ c + 6 <= old /\ w \in Word /\ w < old - 1
      <4>1. NodeAt(c)
        BY <1>a, FreeFacts
      <4> QED  BY <1>3, <1>13, <2>1, <4>1, HeapAssumption DEF NodeAt, LinkWords, Word
    <3>2. m3[w] = m1[w]
      BY <1>10, <3>1
    <3> QED  BY <3>2 DEF m1, m3
  <2>2. h0 \in Heap /\ h3 \in Heap /\ ListOf(h0, S) /\ h3.blk_headp = h0.blk_headp
    BY <1>7, <1>10
  <2> HIDE DEF S
  <2> QED  BY <2>1, <2>2, SameList
<1>16. Lists(g, h3, S, r)
  <2>1. r \in FreeIn(m3, B2) /\ \A c \in S : c \in FreeIn(m3, B2) /\ c # r
    <3>1. \A c \in S : c # r
      BY <1>3, <1>5, <1>13
    <3> QED  BY <1>14, <3>1
  <2> HIDE DEF S
  <2>2. NodeAt(r) /\ \A c \in S : Clear(r, c)
    BY <1>14, <2>1, FreeFacts, FreeClear
  <2> QED  BY <1>10, <1>15, <2>2, AddFree DEF g
<1>17. g \in Heap /\ SameRest(g, h) /\ ListOf(g, FreeIn(m3, B2)) /\ Agree(m3, e, B2, Y, g.mem)
  <2> HIDE DEF S
  <2>1. g \in Heap /\ SameRest(g, h) /\ ListOf(g, FreeIn(m3, B2))
    BY <1>10, <1>14, <1>16 DEF Lists, SameRest
  <2>2. g.mem \in Memory /\ \A w \in Unlinks(m3, B2) : g.mem[w] = m3[w]
    BY <1>14, <1>16, <2>1 DEF Lists, Unlinks, Heap, m3
  <2>3. Agree(m3, e, B2, Y, g.mem)
    BY <1>14, <2>2, AgreeTiles
  <2> QED  BY <2>1, <2>3
<1> DEFINE m4 == g.mem
<1> HIDE DEF m4
<1>18. Sound(g, B2, Y)
  <2>1. Merged(g.mem, B2)
    BY <1>14, <1>17, AgreeMerged
  <2>2. Linked(g) /\ Room(g) = 6 /\ g.brk = e
    BY <1>a, <1>17 DEF SameRest, Linked, Room, e
  <2> QED  BY <1>17, <2>1, <2>2 DEF Sound, Agree
<1>19. /\ FreeIn(m4, B2) = S \cup {r} /\ UsedIn(m4, B2) = UsedIn(m, B)
       /\ old \in B2 /\ r \in B2
       /\ m4[old - 1] = m3[old - 1] /\ m4[r - 1] = m3[r - 1]
       /\ \A c \in UsedIn(m, B) : Kept(m3, m4, c)
  <2> HIDE DEF S
  <2>1. old \in B2 /\ r \in B2
    <3>1. old \in UsedIn(m3, B2) /\ r \in FreeIn(m3, B2)
      BY <1>a, <1>14
    <3> QED  BY <3>1 DEF UsedIn, FreeIn
  <2>2. Agree(m3, e, B2, Y, m4)
    BY <1>17 DEF m4
  <2> QED  BY <1>14, <2>1, <2>2 DEF Agree
<1>20. /\ m4[old - 1].size = n + d /\ old + m4[old - 1].size = r /\ m4[r - 1].size = e - r
       /\ r + m4[r - 1].size = e
  <2>1. m4[old - 1].size = r - old /\ m4[r - 1].size = e - r
    BY <1>10, <1>19
  <2> QED  BY <1>3, <1>4, <1>5, <2>1
<1>21. Late(g, B2, Y)
  <2>1. g.file = h.file /\ g.flag = 1 /\ g.brk = e
    BY <1>a, <1>17 DEF SameRest, e
  <2>2. r \in FreeIn(m4, B2) /\ old \in UsedIn(m4, B2)
    BY <1>a, <1>19
  <2>3. \A x \in Y : x = old
    BY DEF Y
  <2>4. Y # {} => g.file = "mm_v4"
    BY <2>1 DEF Y
  <2>5. \A x \in Y : /\ x \in UsedIn(m4, B2) /\ x + m4[x - 1].size \in FreeIn(m4, B2)
                     /\ x + m4[x - 1].size + m4[x + m4[x - 1].size - 1].size = e
    <3>1. r + m4[r - 1].size = old + m4[old - 1].size + m4[old + m4[old - 1].size - 1].size
      <4> DEFINE a == m4[old - 1].size
                 b == m4[r - 1].size
      <4>1. old + a = r /\ a \in Nat /\ b \in Nat
        BY <1>3, <1>4, <1>5, <1>b, <1>20
      <4> HIDE DEF a, b
      <4>2. old + a - 1 = r - 1 /\ old + a + b = r + b
        BY <1>3, <1>5, <4>1
      <4> QED  BY <4>2 DEF a, b
    <3>2. old + m4[old - 1].size + m4[old + m4[old - 1].size - 1].size = e
      BY <1>20, <3>1
    <3> QED  BY <1>20, <2>2, <2>3, <3>2
  <2> QED  BY <2>1, <2>4, <2>5 DEF Late, m4
<1>22. ASSUME NEW c \in UsedIn(m, B) \ {old} PROVE Kept(m, m4, c)
  <2>1. c \in Nat /\ m[c - 1].size \in Nat /\ 2 <= m[c - 1].size
    BY <1>a, Six, BlockFacts DEF UsedIn
  <2>2. Kept(m, m1, c) /\ Kept(m1, m3, c) /\ Kept(m3, m4, c)
    BY <1>8, <1>14, <1>19
  <2>3. Kept(m, m3, c)
    BY <2>1, <2>2, KeptAgain
  <2> QED  BY <2>1, <2>2, <2>3, KeptAgain
<1>23. \A i \in Nat : i + 2 < n => m4[old + i] = m[old + i]
  <2> TAKE i \in Nat
  <2> HAVE i + 2 < n
  <2>1. old + i \in old - 1 .. old + (r - old) - 3
    BY <1>3, <1>5, <1>b
  <2>2. m4[old + i] = m3[old + i]
    <3>1. Kept(m3, m4, old) /\ m3[old - 1].size = r - old
      BY <1>a, <1>10, <1>19
    <3> QED  BY <2>1, <3>1 DEF Kept
  <2>3. old + i \in Word /\ old <= old + i /\ old + i < r - 2
    BY <1>3, <1>4, <1>5, <1>b, HeapAssumption DEF Word
  <2>4. m3[old + i] = m1[old + i]
    BY <1>10, <2>3
  <2>5. m1[old + i] = m[old + i]
    <3>1. old + i \in old - 1 .. old + n - 3
      BY <1>3
    <3>2. Kept(m, m1, old)
      BY <1>a, <1>8
    <3> QED  BY <3>1, <3>2 DEF Kept, n
  <2> QED  BY <2>2, <2>4, <2>5
<1>24. Grown(h, B, old, d, g)
  <2>1. SameRest(g, h)
    BY <1>17
  <2> QED  BY <1>18, <1>19, <1>20, <1>21, <1>22, <1>23, <2>1 DEF Grown, m, m4, n
<1>25. GrowAt(h, old, f, d, n, t) = g
  BY <1>5 DEF GrowAt, g, h0, h1, h2, h3, r
<1> QED  BY <1>24, <1>25 DEF m, n, t

(* What the code computes as diff is even and enough.                      *)
LEMMA DiffIs ==
    ASSUME NEW size \in Nat, NEW n \in Nat, size + 15 >= 4 * n
    PROVE  LET d == 2 * ((size - 4 * n + 15) \div 8)
           IN  d \in Nat /\ d % 2 = 0 /\ size \div 4 + 2 <= n + d
<1> DEFINE k == (size - 4 * n + 15) \div 8
<1>1. k \in Nat /\ 8 * k <= size - 4 * n + 15 /\ size - 4 * n + 15 < 8 * k + 8
  <2>1. size - 4 * n + 15 \in Nat
    OBVIOUS
  <2> QED  BY <2>1
<1> HIDE DEF k
<1>2. 2 * k \in Nat /\ (2 * k) % 2 = 0
  BY <1>1
<1>3. size \div 4 + 2 <= n + 2 * k
  <2>1. size \div 4 \in Nat /\ 4 * (size \div 4) <= size
    OBVIOUS
  <2>2. size - 4 * n + 8 <= 8 * k
    BY <1>1
  <2> QED  BY <1>1, <2>1, <2>2
<1> QED  BY <1>2, <1>3 DEF k

(* A heap with the same blocks in use, in which old can grow by d.         *)
Spare(h, B, old, d, r) ==
    /\ r.heap.file = h.file /\ r.heap.flag = h.flag
    /\ r.bp = old + h.mem[old - 1].size
    /\ \E B2, X : /\ Sound(r.heap, B2, X) /\ X \subseteq {old} /\ KeepsUsed(h.mem, B, r.heap.mem, B2)
                  /\ r.bp \in FreeIn(r.heap.mem, B2)
                  /\ r.bp + r.heap.mem[r.bp - 1].size = r.heap.brk
                  /\ d + 6 <= r.heap.mem[r.bp - 1].size

(* The block after old, f, is free and the last; if it has too few words   *)
(* for old to grow by d, the heap can be extended.                         *)
LastFree(h, B, X, old, f, d) ==
    /\ Linked(h) /\ Sound(h, B, X) /\ Late(h, B, X)
    /\ old \in UsedIn(h.mem, B) /\ old # 2 /\ f = old + h.mem[old - 1].size
    /\ h.mem[f - 1].alloc = 0 /\ h.mem[f + h.mem[f - 1].size - 1].size = 0
    /\ d \in Nat /\ d + 6 <= CHUNK
    /\ h.mem[f - 1].size < d + 6 => h.brk + CHUNK <= MAX_HEAP

(* The last block has the words, or is extended to have them.              *)
LEMMA SpareIs ==
    ASSUME NEW h, NEW B, NEW X, NEW old, NEW f, NEW d, LastFree(h, B, X, old, f, d)
    PROVE  Spare(h, B, old, d, IF h.mem[f - 1].size < d + 6 THEN V3!extend_heap(h, CHUNK) ELSE Result(h, f))
<1> DEFINE m == h.mem
           e == h.brk
           n == m[old - 1].size
           t == m[f - 1].size
           x == V3!extend_heap(h, CHUNK)
           xm == x.heap.mem
<1>a. /\ Linked(h) /\ Sound(h, B, X) /\ Late(h, B, X) /\ h \in Heap /\ Tiled(m, e, B, X, 6) /\ Merged(m, B)
      /\ old \in UsedIn(m, B) /\ old # 2 /\ f = old + n
  BY DEF LastFree, Sound, Room
<1>b. /\ m[f - 1].alloc = 0 /\ m[f + t - 1].size = 0 /\ d \in Nat /\ d + 6 <= CHUNK
      /\ t < d + 6 => e + CHUNK <= MAX_HEAP
  BY DEF LastFree
<1> HIDE DEF m, e, n, t, x, xm
<1>2. m[e - 1].alloc = 1 /\ e \in Nat /\ \A b \in B : b < e /\ m[b - 1].size # 0
  BY <1>a, Six, HeapEnds
<1>3. old \in B /\ old \in Nat /\ n \in Nat /\ 2 <= n /\ f \in B \cup {e}
  <2>1. old \in B
    BY <1>a DEF UsedIn
  <2> QED  BY <1>a, <2>1, Six, BlockFacts DEF n
<1>4. f \in B /\ f \in FreeIn(m, B)
  <2>1. f # e
    BY <1>2, <1>b
  <2> QED  BY <1>3, <1>b, <2>1 DEF FreeIn
<1>5. f \in Nat /\ t \in Nat /\ 2 <= t /\ f + t = e
  <2>1. f \in Nat /\ t \in Nat /\ 2 <= t /\ f + t \in B \cup {e}
    BY <1>a, <1>4, Six, BlockFacts DEF t
  <2>2. f + t - 1 = (f + t) - 1
    BY <2>1
  <2>3. f + t \notin B
    BY <1>2, <1>b, <2>2
  <2> QED  BY <2>1, <2>3
<1>6. /\ X \subseteq UsedIn(m, B) /\ \A y \in X : y + m[y - 1].size # e
      /\ \A y \in X : y \in UsedIn(m, B) /\ y + m[y - 1].size \in FreeIn(m, B)
                      /\ y + m[y - 1].size + m[y + m[y - 1].size - 1].size = e
  <2>1. X \subseteq UsedIn(m, B) /\ \A y \in X : y + m[y - 1].size # e
    BY <1>a, LateFacts DEF m, e
  <2> QED  BY <1>a, <2>1 DEF Late, m, e
<1>d. \A b \in B : /\ b \in Nat /\ m[b - 1].size \in Nat /\ 2 <= m[b - 1].size
                   /\ \A c \in B : b < c => b + m[b - 1].size <= c
  BY <1>a, Six, BlockFacts
<1>7. X \subseteq {old}
  <2> SUFFICES ASSUME NEW y \in X PROVE y = old
    OBVIOUS
  <2>1. PICK g, s : s = m[y - 1].size /\ g = y + s
    OBVIOUS
  <2>2. PICK u : u = m[g - 1].size
    OBVIOUS
  <2>3. y \in B /\ g \in B /\ g + u = e /\ y \in Nat /\ s \in Nat /\ 2 <= s
    <3>1. /\ y \in UsedIn(m, B) /\ g \in FreeIn(m, B)
          /\ y + s + m[y + s - 1].size = e
      BY <1>6, <2>1
    <3>2. y \in B /\ g \in B
      BY <3>1 DEF UsedIn, FreeIn
    <3>3. y \in Nat /\ s \in Nat /\ 2 <= s
      BY <1>a, <2>1, <3>2, Six, BlockFacts
    <3>4. u \in Nat
      BY <1>a, <2>2, <3>2, Six, BlockFacts
    <3>5. y + s + m[y + s - 1].size = g + u
      <4>1. y + s - 1 = g - 1
        BY <2>1, <3>3
      <4>2. m[y + s - 1].size = u
        BY <2>2, <4>1
      <4>3. y + s + u = g + u
        BY <2>1, <3>3, <3>4
      <4> QED  BY <4>2, <4>3
    <3> QED  BY <3>1, <3>2, <3>3, <3>5
  <2>4. g \in Nat /\ u \in Nat /\ 2 <= u /\ (g < f => g + u <= f)
    <3>1. g \in B
      BY <2>3
    <3>2. g \in Nat /\ m[g - 1].size \in Nat /\ 2 <= m[g - 1].size /\ (g < f => g + m[g - 1].size <= f)
      BY <1>4, <1>d, <3>1
    <3> QED  BY <2>2, <3>2
  <2>5. f < g => f + t <= g
    BY <1>4, <1>d, <2>3 DEF t
  <2>6. y < old => y + s <= old
    BY <1>3, <1>d, <2>1, <2>3
  <2>7. old < y => old + n <= y
    BY <1>3, <1>d, <2>3 DEF n
  <2>8. g = f
    BY <1>5, <2>3, <2>4, <2>5
  <2> QED  BY <1>3, <1>a, <2>1, <2>3, <2>6, <2>7, <2>8
<1>8. CASE t < d + 6
  <2>1. CHUNK \in Nat /\ CHUNK % 2 = 0 /\ 6 <= CHUNK /\ e + CHUNK <= MAX_HEAP
    BY <1>8, <1>b, HeapAssumption
  <2>2. Extended(h, B, X, CHUNK, x)
    BY <1>a, <1>6, <2>1, ExtendEffect DEF x, m, e
  <2>3. PICK B2 : /\ Sound(x.heap, B2, X) /\ KeepsUsed(m, B, xm, B2)
                  /\ x.bp \in FreeIn(xm, B2)
                  /\ x.bp + xm[x.bp - 1].size = e + CHUNK
                  /\ \A c \in FreeIn(m, B) : c + m[c - 1].size = e => x.bp = c
    BY <2>2 DEF Extended, m, e, xm
  <2>4. x.heap.file = h.file /\ x.heap.flag = h.flag /\ x.heap.brk = e + CHUNK
    BY <2>2 DEF Extended, e
  <2>5. x.bp = f
    BY <1>4, <1>5, <2>3 DEF t
  <2>6. d + 6 <= xm[x.bp - 1].size
    <3>1. Linked(x.heap)
      BY <1>a, <2>4 DEF Linked
    <3>2. Tiled(xm, x.heap.brk, B2, X, 6)
      BY <2>3, <3>1 DEF Sound, Room, xm
    <3>3. xm[x.bp - 1].size \in Nat
      <4>1. x.bp \in B2
        BY <2>3 DEF FreeIn
      <4> QED  BY <3>2, <4>1, Six, BlockFacts
    <3>4. PICK z : z = xm[x.bp - 1].size
      OBVIOUS
    <3>5. f + z = e + CHUNK /\ z \in Nat
      BY <2>3, <2>5, <3>3, <3>4
    <3>6. d + 6 <= z
      BY <1>5, <1>b, <2>1, <3>5
    <3> QED  BY <3>4, <3>6
  <2>7. Spare(h, B, old, d, x)
    BY <1>7, <1>a, <2>3, <2>4, <2>5, <2>6 DEF Spare, m, n, xm
  <2> QED  BY <1>8, <2>7 DEF x, m, t
<1>9. CASE ~(t < d + 6)
  <2>1. Result(h, f).heap = h /\ Result(h, f).bp = f
    BY DEF Result
  <2>2. KeepsUsed(m, B, m, B)
    BY DEF KeepsUsed, Kept
  <2>3. d + 6 <= t
    BY <1>5, <1>9, <1>b
  <2>4. Spare(h, B, old, d, Result(h, f))
    BY <1>4, <1>5, <1>7, <1>a, <2>1, <2>2, <2>3 DEF Spare, m, e, n, t
  <2> QED  BY <1>9, <2>4 DEF m, t
<1> QED  BY <1>8, <1>9

(* mm_realloc of v3 and v4 once flag is set.                               *)
LEMMA GrowsEffect ==
    ASSUME NEW h, Linked(h), NEW B, NEW X, Sound(h, B, X), Late(h, B, X), h.flag = 1,
           NEW old \in UsedIn(h.mem, B), old # 2, NEW size \in Nat,
           V3!SuitsRealloc(h, old, size)
    PROVE  Realloced(h, B, old, size, V3!ReallocGrows(h, old, size))
<1> DEFINE m == h.mem
           n == m[old - 1].size
           f == old + n
           d == V3!diff(h, old, size)
           r == IF m[f - 1].size < d + 6 THEN V3!extend_heap(h, CHUNK) ELSE Result(h, f)
           k == r.heap
           t == k.mem[r.bp - 1].size
           h1 == PutBoth(V3!remove_node(k, r.bp), r.bp + d, t - d, 0)
           h2 == PUT(V3!Unlinked(h1, r.bp + d), old - 1, Tag(n + d, 1))
           g == V3!add_node(V3!GrownFooter(h2, old, d), r.bp + d)
           x == V3!ReallocGrows(h, old, size)
<1>1. h \in Heap /\ Tiled(m, h.brk, B, X, 6)
  BY DEF Sound, Room
<1>0. \A b \in B : /\ b \in Nat /\ 2 <= b /\ m[b - 1].size \in Nat /\ 2 <= m[b - 1].size
                  /\ b + m[b - 1].size \in B \cup {h.brk}
  <2> TAKE b \in B
  <2>1. Tiled(h.mem, h.brk, B, X, 6) /\ Least(6)
    BY <1>1, Six
  <2> QED  BY <2>1, BlockFacts
<1>2. old \in B /\ old \in Nat /\ n \in Nat /\ 2 <= n /\ f \in Nat /\ m[f - 1].size \in Nat
  <2>1. old \in B
    BY DEF UsedIn
  <2>2. old \in Nat /\ m[old - 1].size \in Nat /\ 2 <= m[old - 1].size
    BY <1>0, <2>1
  <2>3. m[f - 1].size \in Nat
    <3>2. m[h.brk - 1].size \in Nat
      BY <1>1, Six, HeapEnds
    <3> QED  BY <1>0, <2>1, <3>2
  <2> QED  BY <2>1, <2>2, <2>3
<1>3. /\ \A y, p : V3!GET_SIZE(y, p) = y.mem[p].size
      /\ \A y, p : V3!GET_ALLOC(y, p) <=> y.mem[p].alloc = 1
      /\ \A y : V3!HDRP(y) = y - 1
      /\ V3!NEXT_BLKP(h, old) = f
  BY V3Words DEF GET_SIZE, GET_ALLOC, HDRP, NEXT_BLKP
<1>4. d = 2 * ((size - 4 * n + 15) \div 8)
  BY <1>3, V3Words DEF V3!diff, WSIZE
<1>5. /\ m[f - 1].alloc # 1 /\ m[f + m[f - 1].size - 1].size = 0
      /\ size + 15 >= 4 * n /\ d + 6 <= CHUNK
      /\ m[f - 1].size < d + 6 => h.brk + CHUNK <= MAX_HEAP
  <2> HIDE DEF d, f
  <2>1. /\ ~V3!GET_ALLOC(h, V3!HDRP(f)) /\ V3!IsLast(h, f)
        /\ size + 15 >= V3!WSIZE * V3!GET_SIZE(h, V3!HDRP(old))
        /\ d + 6 <= CHUNK
        /\ V3!GET_SIZE(h, V3!HDRP(f)) < d + 6 => ~V3!mem_sbrk_fails(h, CHUNK)
    BY <1>3 DEF V3!SuitsRealloc, d
  <2>2. V3!WSIZE = 4
    BY V3Words DEF WSIZE
  <2>3. V3!IsLast(h, f) <=> m[f + m[f - 1].size - 1].size = 0
    <3>1. f + m[f - 1].size - 1 = (f + m[f - 1].size) - 1
      BY <1>2
    <3>2. V3!NEXT_BLKP(h, f) = f + m[f - 1].size
      BY <1>3, V3Words DEF NEXT_BLKP, GET_SIZE, HDRP
    <3> QED  BY <1>3, <3>1, <3>2 DEF V3!IsLast
  <2>4. ~V3!mem_sbrk_fails(h, CHUNK) => h.brk + CHUNK <= MAX_HEAP
    <3>1. V3!mem_sbrk_fails(h, CHUNK) <=> h.brk + CHUNK > MAX_HEAP
      BY V3Words DEF mem_sbrk_fails
    <3>2. h.brk \in Nat /\ CHUNK \in Nat /\ MAX_HEAP \in Nat
      BY <1>1, HeapAssumption DEF Heap
    <3> QED  BY <3>1, <3>2
  <2> QED  BY <1>3, <2>1, <2>2, <2>3, <2>4
<1>6. d \in Nat /\ d % 2 = 0 /\ size \div 4 + 2 <= n + d
  <2> HIDE DEF n
  <2> QED  BY <1>2, <1>4, <1>5, DiffIs
<1> HIDE DEF d
<1>7. Spare(h, B, old, d, r)
  <2>1. m[f - 1].alloc = 0
    <3>1. f \in B \cup {h.brk}
      BY <1>0, <1>2
    <3>2. f - 1 \in Word
      <4>1. \A b \in B \cup {h.brk} : b - 1 \in Word
        BY <1>1, Six, BlockFacts, HeapEnds
      <4> QED  BY <3>1, <4>1
    <3>3. m[f - 1].alloc \in {0, 1}
      BY <1>1, <3>2 DEF Heap, Memory, WordValue
    <3> QED  BY <1>5, <3>3
  <2>2. LastFree(h, B, X, old, f, d)
    BY <1>5, <1>6, <2>1 DEF LastFree
  <2> HIDE DEF f, n
  <2> QED  BY <2>2, SpareIs DEF r
<1> HIDE DEF r
<1>8. k.file = h.file /\ k.flag = 1 /\ Linked(k) /\ r.bp = f
  BY <1>7 DEF Spare, Linked
<1>9. PICK B2, X2 : /\ Sound(k, B2, X2) /\ X2 \subseteq {old} /\ KeepsUsed(m, B, k.mem, B2)
                    /\ f \in FreeIn(k.mem, B2)
                    /\ f + k.mem[f - 1].size = k.brk
                    /\ d + 6 <= k.mem[f - 1].size
  BY <1>7, <1>8 DEF Spare
<1>10. UsedIn(k.mem, B2) = UsedIn(m, B) /\ \A c \in UsedIn(m, B) : Kept(m, k.mem, c)
  BY <1>9 DEF KeepsUsed
<1>11. k.mem[old - 1] = m[old - 1]
  <2>1. old - 1 \in old - 1 .. old + n - 3
    BY <1>2
  <2> QED  BY <1>10, <2>1 DEF Kept
<1>12. Grown(k, B2, old, d, g)
  <2>1. CanGrow(k, B2, X2, old, f, d)
    <3>1. old \in UsedIn(k.mem, B2) /\ f = old + k.mem[old - 1].size
      BY <1>10, <1>11
    <3> HIDE DEF f, k
    <3> QED  BY <1>6, <1>8, <1>9, <3>1 DEF CanGrow
  <2>2. g = GrowAt(k, old, f, d, k.mem[old - 1].size, k.mem[f - 1].size)
    <3>1. n = k.mem[old - 1].size
      BY <1>11
    <3> HIDE DEF k, f, n
    <3> QED  BY <1>8, <3>1 DEF GrowAt
  <2> HIDE DEF f, k, g
  <2> QED  BY <2>1, <2>2, GrowInto
<1>13. x = Result(g, old)
  <2>1. x = V3!Result(V3!add_node(V3!GrownFooter(
              V3!PUT(V3!Unlinked(V3!PutBoth(V3!remove_node(k, r.bp), r.bp + d, t - d, 0), r.bp + d),
                     old - 1, V3!Tag(n + d, 1)), old, d), r.bp + d), old)
    <3>1. \A y, b : V3!Result(y, b) = Result(y, b)
      BY V3Words
    <3> HIDE DEF f
    <3> QED  BY <1>3, <3>1 DEF V3!ReallocGrows, d, r
  <2>2. /\ \A y, p, v : V3!PUT(y, p, v) = PUT(y, p, v)
        /\ \A y, b, s, a : V3!PutBoth(y, b, s, a) = PutBoth(y, b, s, a)
        /\ \A s, a : V3!Tag(s, a) = Tag(s, a)
        /\ \A y, b : V3!Result(y, b) = Result(y, b)
    BY V3Words
  <2> HIDE DEF k, t, n, x
  <2> QED  BY <2>1, <2>2
<1> HIDE DEF g, x, k, t
<1>14. PICK B3, Y : /\ Sound(g, B3, Y) /\ Late(g, B3, Y)
                    /\ UsedIn(g.mem, B3) = UsedIn(k.mem, B2)
                    /\ \A c \in UsedIn(k.mem, B2) \ {old} : Kept(k.mem, g.mem, c)
                    /\ g.mem[old - 1].size = k.mem[old - 1].size + d
                    /\ \A i \in Nat : i + 2 < k.mem[old - 1].size => g.mem[old + i] = k.mem[old + i]
  BY <1>12 DEF Grown
<1>15. g.file = h.file
  BY <1>8, <1>12 DEF Grown, SameRest
<1>16. UsedIn(g.mem, B3) = (UsedIn(m, B) \ {old}) \cup {old}
  BY <1>10, <1>14
<1>17. ASSUME NEW c \in UsedIn(m, B) \ {old} PROVE Kept(m, g.mem, c)
  <2>1. c \in Nat /\ m[c - 1].size \in Nat /\ 2 <= m[c - 1].size
    BY <1>0 DEF UsedIn
  <2>2. Kept(m, k.mem, c) /\ Kept(k.mem, g.mem, c)
    BY <1>10, <1>14
  <2> HIDE DEF m
  <2> QED  BY <2>1, <2>2, KeptAgain
<1>18. size \div 4 + 2 <= g.mem[old - 1].size
  BY <1>6, <1>11, <1>14
<1>19. \A i \in Nat : i < size \div 4 /\ i + 2 < n => g.mem[old + i] = m[old + i]
  <2> TAKE i \in Nat
  <2> HAVE i < size \div 4 /\ i + 2 < n
  <2>1. g.mem[old + i] = k.mem[old + i]
    BY <1>11, <1>14
  <2>2. old + i \in old - 1 .. old + n - 3
    BY <1>2
  <2>3. k.mem[old + i] = m[old + i]
    BY <1>10, <2>2 DEF Kept
  <2> QED  BY <2>1, <2>3
<1>20. x.heap = g /\ x.bp = old
  BY <1>13 DEF Result
<1>21. old # 0
  BY <1>0, <1>2
<1>22. Realloced(h, B, old, size, x)
  BY <1>14, <1>15, <1>16, <1>17, <1>18, <1>19, <1>20, <1>21 DEF Realloced
<1> QED  BY <1>22 DEF x

(* mm_realloc of v3 and v4.                                                *)
LEMMA ReallocEffect ==
    ASSUME NEW h, Linked(h), NEW B, NEW X, Sound(h, B, X), Late(h, B, X),
           NEW old \in UsedIn(h.mem, B), old # 2, NEW size \in Nat,
           V3!SuitsRealloc(h, old, size)
    PROVE  Realloced(h, B, old, size, V3!mm_realloc(h, old, size))
<1>1. h.flag \in {0, 1}
  BY DEF Sound, Heap
<1>2. CASE h.flag = 0
  BY <1>2, MovesEffect DEF V3!mm_realloc
<1>3. CASE h.flag = 1
  BY <1>3, GrowsEffect DEF V3!mm_realloc
<1> QED  BY <1>1, <1>2, <1>3

(***************************************************************************)
(* mm_v1.c: the same blocks, without a list.                               *)
(***************************************************************************)

(* MmV1 has the macros of HeapWords.                                       *)
LEMMA V1Words ==
    /\ V1!WSIZE = WSIZE /\ V1!NULL = NULL /\ V1!Word = Word /\ V1!heap_listp = heap_listp
    /\ \A n, a : V1!Tag(n, a) = Tag(n, a)
    /\ \A a : V1!Address(a) = Address(a)
    /\ \A h, p, t : V1!PUT(h, p, t) = PUT(h, p, t)
    /\ \A h, p : V1!GET_SIZE(h, p) = GET_SIZE(h, p)
    /\ \A h, p : V1!GET_ALLOC(h, p) = GET_ALLOC(h, p)
    /\ \A h, p : V1!GETADDR(h, p) = GETADDR(h, p)
    /\ \A h, p, a : V1!PUTADDR(h, p, a) = PUTADDR(h, p, a)
    /\ \A b : V1!HDRP(b) = HDRP(b) /\ V1!PRED(b) = PRED(b) /\ V1!SUCC(b) = SUCC(b)
    /\ \A h, b : V1!FTRP(h, b) = FTRP(h, b)
    /\ \A h, b : V1!NEXT_BLKP(h, b) = NEXT_BLKP(h, b)
    /\ \A h, b : V1!PREV_BLKP(h, b) = PREV_BLKP(h, b)
    /\ \A h, b : V1!PREV_FREE(h, b) = PREV_FREE(h, b)
    /\ \A h, b : V1!NEXT_FREE(h, b) = NEXT_FREE(h, b)
    /\ \A h, b, n, a : V1!PutBoth(h, b, n, a) = PutBoth(h, b, n, a)
    /\ \A h : V1!NextBlocks(h) = NextBlocks(h)
    /\ \A f, n : V1!Walk(f, n) = Walk(f, n)
    /\ \A h, n : V1!mem_sbrk(h, n) = mem_sbrk(h, n)
    /\ \A h, n : V1!mem_sbrk_fails(h, n) = mem_sbrk_fails(h, n)
    /\ \A h : V1!Blocks(h) = Blocks(h)
    /\ \A h : V1!Prologue(h) = Prologue(h)
    /\ \A h, t, f, n : V1!memcpy(h, t, f, n) = memcpy(h, t, f, n)
    /\ \A h, b : V1!Result(h, b) = Result(h, b)
<1> USE DEF V1!WSIZE, V1!NULL, V1!Word, V1!heap_listp, WSIZE, NULL, Word, heap_listp,
            V1!Tag, V1!Address, V1!PUT, V1!GET_SIZE, V1!GET_ALLOC, V1!GETADDR, V1!PUTADDR,
            Tag, Address, PUT, GET_SIZE, GET_ALLOC, GETADDR, PUTADDR,
            V1!HDRP, V1!PRED, V1!SUCC, V1!FTRP, V1!NEXT_BLKP, V1!PREV_BLKP, V1!PREV_FREE, V1!NEXT_FREE,
            HDRP, PRED, SUCC, FTRP, NEXT_BLKP, PREV_BLKP, PREV_FREE, NEXT_FREE
<1>1. V1!WSIZE = WSIZE /\ V1!NULL = NULL /\ V1!Word = Word /\ V1!heap_listp = heap_listp
  OBVIOUS
<1>2. /\ \A n, a : V1!Tag(n, a) = Tag(n, a)
      /\ \A a : V1!Address(a) = Address(a)
  OBVIOUS
<1>3. \A h, p, t : V1!PUT(h, p, t) = PUT(h, p, t)
  OBVIOUS
<1>4. \A h, p : V1!GET_SIZE(h, p) = GET_SIZE(h, p)
  OBVIOUS
<1>5. \A h, p : V1!GET_ALLOC(h, p) = GET_ALLOC(h, p)
  OBVIOUS
<1>6. \A h, p : V1!GETADDR(h, p) = GETADDR(h, p)
  OBVIOUS
<1>7. \A h, p, a : V1!PUTADDR(h, p, a) = PUTADDR(h, p, a)
  OBVIOUS
<1>8. \A b : V1!HDRP(b) = HDRP(b) /\ V1!PRED(b) = PRED(b) /\ V1!SUCC(b) = SUCC(b)
  OBVIOUS
<1>9. \A h, b : V1!FTRP(h, b) = FTRP(h, b)
  OBVIOUS
<1>10. \A h, b : V1!NEXT_BLKP(h, b) = NEXT_BLKP(h, b)
  OBVIOUS
<1>11. \A h, b : V1!PREV_BLKP(h, b) = PREV_BLKP(h, b)
  OBVIOUS
<1>12. \A h, b : V1!PREV_FREE(h, b) = PREV_FREE(h, b)
  OBVIOUS
<1>13. \A h, b : V1!NEXT_FREE(h, b) = NEXT_FREE(h, b)
  OBVIOUS
<1>14. \A h, b, n, a : V1!PutBoth(h, b, n, a) = PutBoth(h, b, n, a)
  BY DEF V1!PutBoth, PutBoth
<1>15. \A h : V1!NextBlocks(h) = NextBlocks(h)
  BY DEF V1!NextBlocks, NextBlocks
<1>16. \A f, n : V1!Walk(f, n) = Walk(f, n)
  BY DEF V1!Walk, Walk
<1>17. \A h, n : V1!mem_sbrk(h, n) = mem_sbrk(h, n)
  BY DEF V1!mem_sbrk, mem_sbrk
<1>18. \A h, n : V1!mem_sbrk_fails(h, n) = mem_sbrk_fails(h, n)
  BY DEF V1!mem_sbrk_fails, mem_sbrk_fails
<1>19. \A h : V1!Prologue(h) = Prologue(h)
  BY DEF V1!Prologue, Prologue
<1>20. \A h, t, f, n : V1!memcpy(h, t, f, n) = memcpy(h, t, f, n)
  BY DEF V1!memcpy, memcpy, V1!Data, Data
<1>22. \A h : V1!Blocks(h) = Blocks(h)
  BY <1>15, <1>16 DEF V1!Blocks, Blocks
<1>21. \A h, b : V1!Result(h, b) = Result(h, b)
  BY DEF V1!Result, Result
<1> QED
  BY <1>1, <1>2, <1>3, <1>4, <1>5, <1>6, <1>7, <1>8, <1>9, <1>10, <1>11, <1>12, <1>13,
     <1>14, <1>15, <1>16, <1>17, <1>18, <1>19, <1>20, <1>21, <1>22

(* mm_v1.c keeps no list, and its blocks have two words and two tags.      *)
LEMMA Four == \A h : h.file = "mm_v1" => ~Linked(h) /\ Room(h) = 4 /\ Least(4)
  BY DEF Linked, Room, Least

(* coalesce of mm_v1.c, in its four cases.                                 *)
LEMMA V1CoalesceEffect ==
    ASSUME NEW h \in Heap, h.file = "mm_v1", NEW B, NEW X, Tiled(h.mem, h.brk, B, X, 4),
           NEW bp \in FreeIn(h.mem, B), MergedBut(h.mem, B, bp), bp \notin X,
           \A x \in X : x + h.mem[x - 1].size # bp
    PROVE  Coalesced(h, B, X, bp, V1!coalesce(h, bp))
<1> DEFINE m == h.mem
           e == h.brk
<1>0. Least(4)
  BY Four DEF Least
<1>1. PICK c, d, p, q : Around(m, e, B, bp, c, d, p, q)
  BY <1>0, AroundFree
<1>2. /\ bp \in Nat /\ p \in Nat /\ p <= bp /\ d \in Nat /\ q \in Nat /\ bp < d /\ d <= q
      /\ c \in Nat /\ c < bp /\ c + m[c - 1].size = bp /\ d = bp + m[bp - 1].size
      /\ m[bp - 1].size \in Nat
  BY <1>1 DEF Around
<1>3. /\ bp \in B /\ p \in B /\ p # 2 /\ m[bp - 1].alloc = 0 /\ q \in B \cup {e} /\ c \in B
      /\ m[d - 1].alloc = 0 => d \in B
      /\ m[d - 1].alloc \in {0, 1} /\ m[c - 1].alloc \in {0, 1}
  BY <1>1 DEF Around
<1>4. /\ p = (IF m[c - 1].alloc = 1 THEN bp ELSE c)
      /\ q = (IF m[d - 1].alloc = 1 THEN d ELSE d + m[d - 1].size)
      /\ p = Start(m, bp) /\ q = Stop(m, bp)
  BY <1>1 DEF Around
<1>5. /\ m[bp - 2].size = m[c - 1].size /\ m[bp - 2].alloc = m[c - 1].alloc
      /\ c = bp - m[bp - 2].size /\ m[d - 1].size \in Nat
  BY <1>1 DEF Around
<1>6. \A b \in B : b \in Nat /\ b - 1 \in Word /\ b + m[b - 1].size - 2 \in Word /\ m[b - 1].size \in Nat
  BY <1>0, BlockFacts
<1> DEFINE pa == m[c - 1].alloc = 1
           na == m[d - 1].alloc = 1
           g == IF pa /\ na THEN h ELSE PutBoth(h, p, q - p, 0)
           r == V1!coalesce(h, bp)
<1>7. r = Result(g, p)
  <2>1. V1!PREV_BLKP(h, bp) = c
    BY <1>5, V1Words DEF PREV_BLKP, GET_SIZE
  <2>2. V1!NEXT_BLKP(h, bp) = d
    BY <1>2, V1Words DEF NEXT_BLKP, GET_SIZE, HDRP
  <2>3. V1!GET_ALLOC(h, V1!FTRP(h, c)) = pa
    <3>1. c + m[c - 1].size - 2 = bp - 2
      <4> HIDE DEF m, e
      <4> QED  BY <1>1, AroundSizes
    <3> QED  BY <1>5, <3>1, V1Words DEF FTRP, GET_SIZE, HDRP, GET_ALLOC
  <2>4. V1!GET_ALLOC(h, V1!HDRP(d)) = na
    BY V1Words DEF HDRP, GET_ALLOC
  <2>5. /\ V1!GET_SIZE(h, V1!HDRP(d)) = m[d - 1].size /\ V1!GET_SIZE(h, V1!HDRP(c)) = m[c - 1].size
        /\ V1!GET_SIZE(h, V1!HDRP(bp)) = m[bp - 1].size
    BY V1Words DEF HDRP, GET_SIZE
  <2>7. m[bp - 1].size + (IF na THEN 0 ELSE m[d - 1].size) + (IF pa THEN 0 ELSE m[c - 1].size) = q - p
    <3> HIDE DEF m, e
    <3> QED  BY <1>1, AroundSizes
  <2>8. /\ \A x, b, n : V1!PutBoth(x, b, n, 0) = PutBoth(x, b, n, 0)
        /\ \A x, b : V1!Result(x, b) = Result(x, b)
    BY V1Words
  <2>10. p = IF pa THEN bp ELSE c
    BY <1>4
  <2> HIDE DEF m
  <2>11. CASE pa /\ na
    BY <2>1, <2>2, <2>3, <2>4, <2>8, <2>10, <2>11 DEF V1!coalesce
  <2>12. CASE ~(pa /\ na)
    <3>1. V1!coalesce(h, bp) = V1!Result(V1!PutBoth(h, p, m[bp - 1].size
              + (IF na THEN 0 ELSE m[d - 1].size) + (IF pa THEN 0 ELSE m[c - 1].size), 0), p)
      <4>1. CASE pa
        BY <2>1, <2>2, <2>3, <2>4, <2>5, <2>10, <2>12, <4>1 DEF V1!coalesce
      <4>2. CASE ~pa
        BY <2>1, <2>2, <2>3, <2>4, <2>5, <2>10, <2>12, <4>2 DEF V1!coalesce
      <4> QED  BY <4>1, <4>2
    <3> QED  BY <2>7, <2>8, <2>12, <3>1
  <2> QED  BY <2>11, <2>12
<1> HIDE DEF r
<1>12. p - 1 \in Word /\ q - 2 \in Word /\ q - p \in Nat /\ p + (q - p) - 2 = q - 2 /\ p < q
  <2>1. \A b \in B \cup {e} : b - 1 \in Word /\ b \in Nat
    BY <1>0, <1>6, HeapEnds
  <2>2. p - 1 \in Word /\ q - 1 \in Word
    BY <1>3, <2>1
  <2>3. q - 2 \in Word
    BY <1>2, <2>2, HeapAssumption DEF Word
  <2>4. q - p \in Nat /\ p < q
    BY <1>2
  <2>5. p + (q - p) - 2 = q - 2
    BY <1>2
  <2> QED  BY <2>2, <2>3, <2>4, <2>5
<1>13. /\ g \in Heap /\ SameRest(g, h)
       /\ g.mem[p - 1].size = q - p /\ g.mem[p - 1].alloc = 0 /\ SameTag(g.mem[q - 2], g.mem[p - 1])
       /\ \A w \in Word : w # p - 1 /\ w # q - 2 => g.mem[w] = m[w]
  <2>1. CASE pa /\ na
    <3>1. g = h /\ p = bp /\ q = d
      BY <1>4, <2>1
    <3>3. SameTag(m[bp + m[bp - 1].size - 2], m[bp - 1])
      BY <1>0, <1>3, BlockFacts
    <3>4. bp + m[bp - 1].size - 2 = d - 2 /\ m[bp - 1].size = d - bp
      BY <1>2
    <3> QED  BY <1>3, <3>1, <3>3, <3>4 DEF SameRest
  <2>2. CASE ~(pa /\ na)
    <3>1. g = PutBoth(h, p, q - p, 0)
      BY <2>2
    <3> HIDE DEF g
    <3>2. p + (q - p) - 2 \in Word
      BY <1>12
    <3>a. PutsBoth(g, h, p, q - p, 0)
      BY <1>2, <1>12, <3>1, <3>2, PutBothAt
    <3>3. /\ g \in Heap /\ SameRest(g, h)
          /\ \A w \in Word : g.mem[w] = IF w = p - 1 \/ w = p + (q - p) - 2
                                         THEN Tag(q - p, 0) ELSE m[w]
      BY <3>a DEF PutsBoth
    <3>4. Tag(q - p, 0).size = q - p /\ Tag(q - p, 0).alloc = 0
      BY <1>12, TagIs
    <3>5. g.mem[p - 1] = Tag(q - p, 0) /\ g.mem[q - 2] = Tag(q - p, 0)
      BY <1>12, <3>3
    <3>6. \A w \in Word : w # p - 1 /\ w # q - 2 => g.mem[w] = m[w]
      BY <1>12, <3>3
    <3> QED  BY <3>3, <3>4, <3>5, <3>6 DEF SameTag
  <2> QED  BY <2>1, <2>2
<1> DEFINE m3 == g.mem
           B2 == Cut(B, e, p, q, q)
<1>14. United(m, e, B, X, 4, p, q, m3)
  <2>1. m3 \in Memory
    BY <1>13 DEF Heap
  <2>2. OneFree(m, m3, p, q)
    BY <1>13, <2>1 DEF OneFree
  <2> HIDE DEF m3, e, g
  <2> QED  BY <1>0, <1>1, <2>2, CoalesceTiles DEF e
<1>17. /\ Tiled(m3, e, B2, X, 4) /\ Merged(m3, B2) /\ p \in FreeIn(m3, B2)
       /\ KeepsUsed(m, B, m3, B2)
  BY <1>14 DEF United
<1>21. SameRest(g, h) /\ g.brk = e /\ ~Linked(g) /\ Room(g) = 4
  <2>1. g.file = "mm_v1" /\ g.brk = e /\ SameRest(g, h)
    BY <1>13 DEF SameRest
  <2> HIDE DEF g
  <2> QED  BY <2>1, Four
<1> HIDE DEF g, B2
<1>22. Sound(g, B2, X)
  BY <1>13, <1>17, <1>21 DEF Sound
<1>23. p + g.mem[p - 1].size = q
  BY <1>2, <1>13
<1>24. r.heap = g /\ r.bp = p
  BY <1>7 DEF Result
<1>25. Coalesced(h, B, X, bp, r)
  BY <1>4, <1>17, <1>21, <1>22, <1>23, <1>24 DEF Coalesced
<1> QED  BY <1>25 DEF r

(* extend_heap of mm_v1.c.                                                 *)
LEMMA V1ExtendEffect ==
    ASSUME NEW h, h.file = "mm_v1", NEW B, Sound(h, B, {}),
           NEW n \in Nat, n % 2 = 0, 4 <= n, h.brk + n <= MAX_HEAP
    PROVE  Extended(h, B, {}, n, V1!extend_heap(h, n))
<1> DEFINE e == h.brk
           h0 == mem_sbrk(h, n)
           h1 == PutBoth(h0, e, n, 0)
           g == PUT(h1, e + n - 1, Tag(0, 1))
<1>1. h \in Heap /\ Room(h) = 4 /\ Least(4) /\ MAX_HEAP \in Nat
  BY Four, HeapAssumption DEF Sound
<1>2. e \in Nat /\ 4 <= e /\ e <= MAX_HEAP
  <2>1. Tiled(h.mem, h.brk, B, {}, 4)
    BY <1>1 DEF Sound
  <2> QED  BY <1>1, <2>1, HeapEnds
<1>3. /\ e - 1 \in Word /\ e + n - 2 \in Word /\ e + n - 1 \in Word
      /\ e + n - 2 # e + n - 1 /\ e - 1 # e + n - 1 /\ e - 1 # e + n - 2
  <2> HIDE DEF e
  <2>1. e + n <= MAX_HEAP
    BY DEF e
  <2> QED  BY <1>1, <1>2, <2>1 DEF Word
<1>4. h0 \in Heap /\ h0 = [h EXCEPT !.brk = e + n]
  <2>1. h0 = [h EXCEPT !.brk = e + n]
    BY DEF mem_sbrk
  <2>2. e + n \in 0 .. MAX_HEAP
    BY <1>1, <1>2
  <2> QED  BY <1>1, <2>1, <2>2 DEF Heap
<1>5. h0.mem = h.mem /\ h0.file = h.file /\ h0.flag = h.flag /\ h0.blk_headp = h.blk_headp /\ h0.brk = e + n
  BY <1>1, <1>4 DEF Heap
<1> HIDE DEF h0, e
<1>6. PutsBoth(h1, h0, e, n, 0)
  BY <1>2, <1>3, <1>4, PutBothAt
<1>7. /\ h1 \in Heap /\ SameRest(h1, h0) /\ h1.blk_headp = h0.blk_headp
      /\ \A w \in Word : h1.mem[w] = IF w = e - 1 \/ w = e + n - 2 THEN Tag(n, 0) ELSE h0.mem[w]
  BY <1>6 DEF PutsBoth
<1> HIDE DEF h1
<1>11. /\ g \in Heap /\ SameRest(g, h1) /\ g.blk_headp = h1.blk_headp
       /\ \A w \in Word : g.mem[w] = IF w = e + n - 1 THEN Tag(0, 1) ELSE h1.mem[w]
  <2>1. Tag(0, 1) \in WordValue
    BY TagIs
  <2> QED  BY <1>3, <1>7, <2>1, PutAt
<1>12. V1!extend_heap(h, n) = V1!coalesce(g, e)
  <2>1. h1.mem[e - 1].size = n
    <3>1. h1.mem[e - 1] = Tag(n, 0)
      BY <1>2, <1>3, <1>7
    <3> QED  BY <3>1, TagIs
  <2>2. V1!HDRP(V1!NEXT_BLKP(h1, e)) = e + n - 1
    BY <1>2, <2>1, V1Words DEF HDRP, NEXT_BLKP, GET_SIZE
  <2>3. V1!PutBoth(V1!mem_sbrk(h, n), e, n, 0) = h1
    BY V1Words DEF h0, h1
  <2> HIDE DEF g
  <2> QED  BY <2>2, <2>3, V1Words DEF V1!extend_heap, e, g
<1> HIDE DEF g
<1>13. Longer(h, n, g)
  <2>1. /\ g.mem[e - 1] = Tag(n, 0) /\ g.mem[e + n - 2] = Tag(n, 0) /\ g.mem[e + n - 1] = Tag(0, 1)
        /\ \A w \in Word : w < e - 1 => g.mem[w] = h.mem[w]
    <3>3. \A w \in Word : w < e - 1 => w # e + n - 1 /\ w # e - 1 /\ w # e + n - 2
      BY <1>1, <1>2, <1>3 DEF Word
    <3> QED  BY <1>3, <1>5, <1>7, <1>11, <3>3
  <2>2. Tag(n, 0).size = n /\ Tag(n, 0).alloc = 0 /\ Tag(0, 1).size = 0 /\ Tag(0, 1).alloc = 1
    BY TagIs
  <2>3. g \in Heap /\ g.file = h.file /\ g.flag = h.flag /\ g.blk_headp = h.blk_headp /\ g.brk = e + n
    BY <1>5, <1>7, <1>11 DEF SameRest
  <2> QED  BY <2>1, <2>2, <2>3 DEF Longer, SameTag, e
<1>14. Lengthened(h, B, {}, n, g)
  BY <1>1, <1>13, Lengthen
<1> DEFINE r == V1!coalesce(g, e)
           B2 == B \cup {e}
<1>15. g \in Heap /\ g.file = h.file /\ g.flag = h.flag /\ g.brk = e + n
  BY <1>13 DEF Longer, e
<1>16. Coalesced(g, B2, {}, e, r)
  <2>1. /\ Tiled(g.mem, g.brk, B2, {}, 4) /\ e \in FreeIn(g.mem, B2) /\ MergedBut(g.mem, B2, e)
    BY <1>1, <1>14 DEF Lengthened, e
  <2> HIDE DEF B2, r
  <2> QED  BY <1>15, <2>1, V1CoalesceEffect DEF r
<1> HIDE DEF r, B2
<1>17. PICK B3 : /\ Sound(r.heap, B3, {}) /\ KeepsUsed(g.mem, B2, r.heap.mem, B3)
                 /\ r.bp \in FreeIn(r.heap.mem, B3) /\ r.bp = Start(g.mem, e)
                 /\ r.bp + r.heap.mem[r.bp - 1].size = Stop(g.mem, e)
  BY <1>16 DEF Coalesced
<1>18. KeepsUsed(h.mem, B, r.heap.mem, B3)
  <2>1. KeepsUsed(h.mem, B, g.mem, B2)
    BY <1>14 DEF Lengthened, e, B2
  <2>2. Tiled(h.mem, h.brk, B, {}, 4)
    BY <1>1 DEF Sound
  <2> QED  BY <1>1, <1>17, <2>1, <2>2, KeepsAgain
<1>19. r.heap.file = h.file /\ r.heap.flag = h.flag /\ r.heap.brk = e + n
  BY <1>15, <1>16 DEF Coalesced, SameRest
<1> QED  BY <1>12, <1>14, <1>17, <1>18, <1>19 DEF Extended, Lengthened, e, r

(* place of mm_v1.c.                                                       *)
LEMMA V1PlaceEffect ==
    ASSUME NEW h, h.file = "mm_v1", NEW B, Sound(h, B, {}), NEW b \in FreeIn(h.mem, B),
           NEW words \in Nat, words % 2 = 0, 4 <= words, words <= h.mem[b - 1].size
    PROVE  Took(h, B, {}, b, words, V1!place(h, b, words))
<1> DEFINE m == h.mem
           e == h.brk
           csize == m[b - 1].size
           q == b + csize
           r == IF csize - words >= 4 THEN b + words ELSE q
           h2 == PutBoth(h, b, words, 1)
           g == IF csize - words >= 4 THEN PutBoth(h2, b + words, csize - words, 0)
                ELSE PutBoth(h, b, csize, 1)
           B2 == Cut(B, e, b, r, q)
           m3 == g.mem
<1>1. h \in Heap /\ Tiled(m, e, B, {}, 4) /\ Merged(m, B) /\ Room(h) = 4 /\ Least(4)
  BY Four DEF Sound
<1>2. b \in B /\ b # 2 /\ m[b - 1].alloc = 0
  <2>1. b \in B /\ m[b - 1].alloc = 0
    BY DEF FreeIn
  <2>2. m[2 - 1].alloc = 1
    BY <1>1, HeapEnds
  <2> QED  BY <2>1, <2>2
<1>3. /\ b \in Nat /\ 4 <= b /\ b - 1 \in Word /\ csize \in Nat /\ q \in B \cup {e} /\ q - 2 \in Word
      /\ q <= e /\ e \in Nat /\ b % 2 = 0
  <2>1. /\ b \in Nat /\ 4 <= b /\ b - 1 \in Word /\ csize \in Nat /\ b + csize \in B \cup {e}
        /\ b + csize - 2 \in Word /\ b + csize <= e /\ e \in Nat /\ b % 2 = 0
    BY <1>1, <1>2, BlockFacts
  <2>2. b + csize - 2 = q - 2
    BY <2>1
  <2> QED  BY <2>1, <2>2
<1>7. words \in Nat /\ 4 <= words /\ words <= csize /\ words % 2 = 0
  OBVIOUS
<1>9. /\ r \in Nat /\ r % 2 = 0 /\ b + 4 <= r /\ (r = q \/ r + 4 <= q) /\ q \in Nat /\ b + words <= r
  <2>1. q % 2 = 0
    <3>1. \A c \in B \cup {e} : c % 2 = 0
      BY <1>1, BlockFacts, HeapEnds
    <3> QED  BY <1>3, <3>1
  <2>2. csize \in Nat /\ b \in Nat
    BY <1>3
  <2>3. CASE csize - words >= 4
    <3>1. r = b + words
      BY <2>3
    <3> HIDE DEF csize, r
    <3> QED  BY <1>3, <1>7, <2>2, <2>3, <3>1
  <2>4. CASE ~(csize - words >= 4)
    <3>1. r = q
      BY <2>4
    <3>2. q \in Nat
      BY <2>2
    <3> HIDE DEF csize, r
    <3> QED  BY <1>7, <2>1, <2>2, <3>1, <3>2
  <2> QED  BY <2>3, <2>4
<1> HIDE DEF csize
<1>10. /\ g \in Heap /\ SameRest(g, h)
       /\ m3[b - 1].size = r - b /\ m3[b - 1].alloc = 1 /\ SameTag(m3[r - 2], m3[b - 1])
       /\ r # q => m3[r - 1].size = q - r /\ m3[r - 1].alloc = 0 /\ SameTag(m3[q - 2], m3[r - 1])
       /\ \A w \in Word : w < b - 1 \/ q - 2 < w => m3[w] = m[w]
  <2>1. CASE csize - words >= 4
    <3>1. r = b + words /\ g = PutBoth(h2, r, q - r, 0) /\ r # q /\ r + 4 <= q
      <4>1. csize - words = q - (b + words) /\ b + words # q /\ b + words + 4 <= q
        BY <1>3, <1>7, <2>1
      <4> QED  BY <2>1, <4>1
    <3>2. r - 1 \in Word /\ r - 2 \in Word /\ q - 2 \in Word /\ b - 1 \in Word
      <4> HIDE DEF r, q
      <4> QED  BY <1>3, <1>9, <3>1, HeapAssumption DEF Word
    <3>3. b + words - 2 = r - 2 /\ r + (q - r) - 2 = q - 2 /\ q - r \in Nat
      <4> HIDE DEF r, q
      <4> QED  BY <1>3, <1>7, <1>9, <3>1
    <3> HIDE DEF r, q, g
    <3>4. PutsBoth(h2, h, b, words, 1)
      BY <1>1, <1>3, <1>7, <3>2, <3>3, PutBothAt
    <3> HIDE DEF h2
    <3>5. h2 \in Heap
      BY <3>4 DEF PutsBoth
    <3>6. PutsBoth(g, h2, r, q - r, 0)
      BY <1>9, <3>1, <3>2, <3>3, <3>5, PutBothAt
    <3>7. /\ \A w \in Word : h2.mem[w] = IF w = b - 1 \/ w = r - 2 THEN Tag(words, 1) ELSE m[w]
          /\ \A w \in Word : g.mem[w] = IF w = r - 1 \/ w = q - 2 THEN Tag(q - r, 0) ELSE h2.mem[w]
      BY <3>3, <3>4, <3>6 DEF PutsBoth
    <3>8. /\ Tag(words, 1).size = words /\ Tag(words, 1).alloc = 1
          /\ Tag(q - r, 0).size = q - r /\ Tag(q - r, 0).alloc = 0
      BY <1>7, <3>3, TagIs
    <3>9. b - 1 # r - 1 /\ b - 1 # q - 2 /\ r - 2 # r - 1 /\ r - 2 # q - 2 /\ r - b = words
      BY <1>3, <1>7, <1>9, <3>1
    <3>10. /\ g.mem[b - 1] = Tag(words, 1) /\ g.mem[r - 2] = Tag(words, 1)
           /\ g.mem[r - 1] = Tag(q - r, 0) /\ g.mem[q - 2] = Tag(q - r, 0)
      BY <3>2, <3>7, <3>9
    <3>11. \A w \in Word : w < b - 1 \/ q - 2 < w => w # b - 1 /\ w # r - 2 /\ w # r - 1 /\ w # q - 2
      BY <1>3, <1>9, <3>1, HeapAssumption DEF Word
    <3>12. \A w \in Word : w < b - 1 \/ q - 2 < w => g.mem[w] = m[w]
      BY <3>7, <3>11
    <3>13. g \in Heap /\ SameRest(g, h)
      BY <3>4, <3>6 DEF PutsBoth, SameRest
    <3> QED  BY <3>8, <3>9, <3>10, <3>12, <3>13 DEF SameTag
  <2>2. CASE ~(csize - words >= 4)
    <3>1. r = q /\ g = PutBoth(h, b, csize, 1)
      BY <2>2
    <3>2. b + csize - 2 = q - 2 /\ r - b = csize /\ b - 1 # q - 2
      <4> HIDE DEF r
      <4> QED  BY <1>3, <1>7, <3>1
    <3> HIDE DEF r, q, g
    <3>3. PutsBoth(g, h, b, csize, 1)
      BY <1>1, <1>3, <3>1, <3>2, PutBothAt
    <3>4. \A w \in Word : g.mem[w] = IF w = b - 1 \/ w = q - 2 THEN Tag(csize, 1) ELSE m[w]
      BY <3>2, <3>3 DEF PutsBoth
    <3>5. Tag(csize, 1).size = csize /\ Tag(csize, 1).alloc = 1
      BY <1>3, TagIs
    <3>6. g.mem[b - 1] = Tag(csize, 1) /\ g.mem[q - 2] = Tag(csize, 1)
      BY <1>3, <3>4
    <3>7. \A w \in Word : w < b - 1 \/ q - 2 < w => w # b - 1 /\ w # q - 2
      BY <1>3, <1>9, <3>1, HeapAssumption DEF Word
    <3>8. \A w \in Word : w < b - 1 \/ q - 2 < w => g.mem[w] = m[w]
      BY <3>4, <3>7
    <3>9. g \in Heap /\ SameRest(g, h)
      BY <3>3 DEF PutsBoth, SameRest
    <3> QED  BY <3>1, <3>2, <3>5, <3>6, <3>8, <3>9 DEF SameTag
  <2> QED  BY <2>1, <2>2
<1>11. Placed(m, e, B, {}, 4, b, r, q, m3)
  <2>1. m[q - 1].alloc = 1
    <3>2. m[b + m[b - 1].size - 1].alloc = 1
      BY <1>1, <1>2 DEF Merged
    <3>3. b + m[b - 1].size - 1 = q - 1
      BY <1>3 DEF csize
    <3> QED  BY <3>2, <3>3
  <2>2. m3 \in Memory
    BY <1>10 DEF Heap
  <2>4. \A c \in B : c < b \/ q <= c => c \notin {} \/ c \in {}
    OBVIOUS
  <2> HIDE DEF r, q, m3, e, m, g
  <2>3. b \in B /\ b # 2 /\ q \in B \cup {e}
    BY <1>2, <1>3
  <2> QED  BY <1>1, <1>9, <1>10, <2>1, <2>2, <2>3, <2>4, PlaceTiles
<1>13. V1!place(h, b, words) = g
  <2>1. /\ V1!HDRP(b) = b - 1 /\ V1!GET_SIZE(h, b - 1) = csize
        /\ \A x, y, n1, a : V1!PutBoth(x, y, n1, a) = PutBoth(x, y, n1, a)
    BY V1Words DEF HDRP, GET_SIZE, csize
  <2>2. CASE csize - words >= 4
    <3>1. b + words - 2 \in Word /\ b - 1 # b + words - 2
      <4>1. csize \in Nat /\ b + csize <= e /\ e <= MAX_HEAP /\ MAX_HEAP \in Nat
        BY <1>1, <1>3, HeapEnds, HeapAssumption
      <4> HIDE DEF e
      <4> QED  BY <1>3, <1>7, <2>2, <4>1 DEF Word
    <3> HIDE DEF h2
    <3>2. PutsBoth(h2, h, b, words, 1)
      BY <1>1, <1>3, <1>7, <3>1, PutBothAt DEF h2
    <3>3. h2.mem[b - 1].size = words
      <4>1. h2.mem[b - 1] = Tag(words, 1)
        BY <1>3, <3>2 DEF PutsBoth
      <4> QED  BY <1>7, <4>1, TagIs
    <3>4. V1!NEXT_BLKP(h2, b) = b + words
      BY <3>3, V1Words DEF NEXT_BLKP, GET_SIZE, HDRP
    <3> QED  BY <2>1, <2>2, <3>4 DEF V1!place, h2
  <2>3. CASE ~(csize - words >= 4)
    BY <2>1, <2>3 DEF V1!place
  <2> QED  BY <2>2, <2>3
<1> HIDE DEF r, q, B2, g
<1>14. \A c \in B : c \in Nat /\ (b < c => q <= c)
  <2>1. \A c \in B : c \in Nat
    BY <1>1, BlockFacts
  <2>2. \A c \in B : b < c => b + m[b - 1].size <= c
    BY <1>1, <1>2, BlockFacts
  <2> QED  BY <2>1, <2>2 DEF q, csize
<1>16. UsedIn(m, B) = {c \in UsedIn(m, B) : c < b \/ q <= c} /\ b \notin UsedIn(m, B)
  <2>1. \A c \in UsedIn(m, B) : c \in B /\ c # b
    BY <1>2 DEF UsedIn
  <2>2. \A c \in UsedIn(m, B) : c < b \/ q <= c
    <3> TAKE c \in UsedIn(m, B)
    <3>1. c \in Nat /\ (b < c => q <= c) /\ c # b
      BY <1>14, <2>1
    <3> QED  BY <1>3, <3>1
  <2> QED  BY <2>1, <2>2
<1>17. /\ Tiled(m3, e, B2, {}, 4) /\ Merged(m3, B2)
       /\ UsedIn(m3, B2) = UsedIn(m, B) \cup {b}
       /\ \A c \in UsedIn(m, B) : Kept(m, m3, c)
  <2> HIDE DEF m3, e, m
  <2> QED  BY <1>11, <1>16 DEF Placed, B2
<1>20. Sound(g, B2, {}) /\ SameRest(g, h)
  <2>2. ~Linked(g) /\ Room(g) = 4 /\ g.brk = e
    <3>1. g.file = "mm_v1" /\ g.brk = e
      BY <1>10 DEF SameRest
    <3> QED  BY <3>1, Four
  <2> QED  BY <1>10, <1>17, <2>2 DEF Sound
<1>23. words <= g.mem[b - 1].size
  BY <1>3, <1>7, <1>9, <1>10
<1>24. Took(h, B, {}, b, words, g)
  BY <1>17, <1>20, <1>23 DEF Took
<1> QED  BY <1>13, <1>24

(* asize of mm_v1.c: even, room for the tags and the words.                *)
LEMMA V1AsizeIs ==
    ASSUME NEW size \in Nat
    PROVE  LET n == V1!asize(size)
           IN  n \in Nat /\ n % 2 = 0 /\ 4 <= n /\ size \div 4 + 2 <= n
<1>1. CASE size <= 8
  <2>1. V1!asize(size) = 4
    BY <1>1 DEF V1!asize
  <2>2. size \div 4 + 2 <= 4
    BY <1>1
  <2> QED  BY <2>1, <2>2
<1>2. CASE ~(size <= 8)
  <2>1. V1!asize(size) = 2 * ((size + 8 + 7) \div 8)
    BY <1>2 DEF V1!asize
  <2> DEFINE k == (size + 8 + 7) \div 8
  <2>2. k \in Nat /\ 8 * k <= size + 15 /\ size + 8 <= 8 * k
    OBVIOUS
  <2>3. size \div 4 \in Nat /\ 4 * (size \div 4) <= size
    OBVIOUS
  <2> HIDE DEF k
  <2>4. 2 * k \in Nat /\ (2 * k) % 2 = 0 /\ size \div 4 + 2 <= 2 * k /\ 4 <= 2 * k
    <3>1. 2 <= k
      BY <1>2, <2>2
    <3> QED  BY <2>2, <2>3, <3>1
  <2> QED  BY <2>1, <2>4 DEF k
<1> QED  BY <1>1, <1>2

(* find_fit of mm_v1.c gives a free block that is large enough.            *)
LEMMA V1FindFit ==
    ASSUME NEW h, h.file = "mm_v1", NEW B, Sound(h, B, {}), NEW words,
           V1!find_fit(h, words) # 0
    PROVE  LET b == V1!find_fit(h, words)
           IN  b \in FreeIn(h.mem, B) /\ words <= h.mem[b - 1].size
<1> DEFINE m == h.mem
           blocks == Blocks(h)
           fits == {i \in DOMAIN blocks : /\ ~V1!GET_ALLOC(h, V1!HDRP(blocks[i]))
                                          /\ words <= V1!GET_SIZE(h, V1!HDRP(blocks[i]))}
           i0 == V1!Min(fits)
<1>1. h \in Heap /\ Tiled(m, h.brk, B, {}, 4) /\ Least(4)
  BY Four DEF Sound
<1>2. blocks \in Seq(Nat) /\ \A i \in 1 .. Len(blocks) : blocks[i] \in B
  BY <1>1, BlocksAre
<1>3. DOMAIN blocks = 1 .. Len(blocks) /\ Len(blocks) \in Nat
  BY <1>2
<1>4. fits # {} /\ V1!find_fit(h, words) = blocks[i0]
  BY V1Words DEF V1!find_fit, NULL
<1>5. i0 \in fits
  <2>1. fits \in SUBSET Nat
    BY <1>3
  <2> HIDE DEF fits
  <2>2. \E x \in fits : \A y \in fits : x <= y
    BY <1>4, <2>1, LeastElement
  <2> QED  BY <2>2 DEF V1!Min
<1> HIDE DEF i0
<1>6. PICK b : b = blocks[i0]
  OBVIOUS
<1>7. b \in B
  BY <1>2, <1>3, <1>5, <1>6
<1>8. ~V1!GET_ALLOC(h, V1!HDRP(b)) /\ words <= V1!GET_SIZE(h, V1!HDRP(b))
  BY <1>5, <1>6
<1> HIDE DEF blocks, fits
<1>9. m[b - 1].alloc # 1 /\ words <= m[b - 1].size
  BY <1>8, V1Words DEF GET_SIZE, GET_ALLOC, HDRP
<1>10. m[b - 1].alloc \in {0, 1}
  BY <1>1, <1>7, BlockFacts
<1> QED  BY <1>4, <1>6, <1>7, <1>9, <1>10 DEF FreeIn

(* mm_malloc of mm_v1.c.                                                   *)
LEMMA V1MallocEffect ==
    ASSUME NEW h, h.file = "mm_v1", NEW B, Sound(h, B, {}), NEW size \in Nat
    PROVE  Malloced(h, B, {}, size, V1!mm_malloc(h, size))
<1> DEFINE words == V1!asize(size)
           bp == V1!find_fit(h, words)
           n == IF words > CHUNK THEN words ELSE CHUNK
           new == V1!extend_heap(h, n)
           r == V1!mm_malloc(h, size)
<1>0. Late(h, B, {})
  BY DEF Late
<1>1. words \in Nat /\ words % 2 = 0 /\ 4 <= words /\ size \div 4 + 2 <= words
  BY V1AsizeIs
<1>2. n \in Nat /\ n % 2 = 0 /\ 4 <= n /\ words <= n
  <2> HIDE DEF words
  <2> QED  BY <1>1, HeapAssumption
<1>4. r = IF bp # 0 THEN Result(V1!place(h, bp, words), bp)
          ELSE IF mem_sbrk_fails(h, n) THEN Result(h, 0)
          ELSE Result(V1!place(new.heap, new.bp, words), new.bp)
  <2>1. V1!NULL = 0
    BY V1Words DEF NULL
  <2>2. /\ \A x : V1!mem_sbrk_fails(h, x) = mem_sbrk_fails(h, x)
        /\ \A x, b : V1!Result(x, b) = Result(x, b)
    BY V1Words
  <2> QED  BY <2>1, <2>2 DEF V1!mm_malloc
<1>5. \A x, b : Result(x, b).heap = x /\ Result(x, b).bp = b
  BY DEF Result
<1>6. CASE bp # 0
  <2>1. bp \in FreeIn(h.mem, B) /\ words <= h.mem[bp - 1].size
    <3> HIDE DEF words
    <3> QED  BY <1>6, V1FindFit
  <2>2. Took(h, B, {}, bp, words, V1!place(h, bp, words))
    <3> HIDE DEF words, bp
    <3> QED  BY <1>1, <2>1, V1PlaceEffect
  <2>3. OneMore(h, B, {}, size, V1!place(h, bp, words), bp)
    <3> HIDE DEF words, bp
    <3> QED  BY <1>0, <1>1, <2>1, <2>2, TookIsMore
  <2> HIDE DEF words, bp, r
  <2>4. r.heap = V1!place(h, bp, words) /\ r.bp = bp
    BY <1>4, <1>5, <1>6
  <2>5. Malloced(h, B, {}, size, r)
    BY <1>6, <2>3, <2>4 DEF Malloced
  <2> QED  BY <2>5 DEF r
<1>7. CASE bp = 0 /\ mem_sbrk_fails(h, n)
  <2> HIDE DEF words, bp, r, n
  <2>1. r.heap = h /\ r.bp = 0
    BY <1>4, <1>5, <1>7
  <2>2. Malloced(h, B, {}, size, r)
    BY <2>1 DEF Malloced
  <2> QED  BY <2>2 DEF r
<1>8. CASE bp = 0 /\ ~mem_sbrk_fails(h, n)
  <2>3. h.brk + n <= MAX_HEAP
    <3>1. h.brk \in Nat /\ MAX_HEAP \in Nat
      BY HeapAssumption DEF Sound, Heap
    <3> HIDE DEF n
    <3> QED  BY <1>2, <1>8, <3>1 DEF mem_sbrk_fails
  <2>4. Extended(h, B, {}, n, new)
    <3> HIDE DEF n
    <3> QED  BY <1>2, <2>3, V1ExtendEffect
  <2> HIDE DEF n, new, words, bp, r
  <2>5. new.heap.file = h.file /\ new.heap.flag = h.flag
    BY <2>4 DEF Extended
  <2>6. PICK B2 : /\ Sound(new.heap, B2, {}) /\ KeepsUsed(h.mem, B, new.heap.mem, B2)
                  /\ new.bp \in FreeIn(new.heap.mem, B2)
                  /\ new.bp <= h.brk /\ new.bp + new.heap.mem[new.bp - 1].size = h.brk + n
    BY <2>4 DEF Extended
  <2>7. new.bp \in Nat /\ 2 <= new.bp /\ new.heap.mem[new.bp - 1].size \in Nat
    <3>1. Tiled(new.heap.mem, new.heap.brk, B2, {}, Room(new.heap)) /\ Least(Room(new.heap))
      BY <2>6, RoomLeast DEF Sound
    <3> QED  BY <2>6, <3>1, BlockFacts DEF FreeIn
  <2>8. Late(new.heap, B2, {})
    BY DEF Late
  <2>9. words <= new.heap.mem[new.bp - 1].size
    <3>3. h.brk \in Nat
      BY DEF Sound, Heap
    <3> QED  BY <1>1, <1>2, <2>6, <2>7, <3>3
  <2>10. Took(new.heap, B2, {}, new.bp, words, V1!place(new.heap, new.bp, words))
    BY <1>1, <2>5, <2>6, <2>9, V1PlaceEffect
  <2>11. OneMore(new.heap, B2, {}, size, V1!place(new.heap, new.bp, words), new.bp)
    BY <1>1, <2>6, <2>8, <2>10, TookIsMore
  <2>12. OneMore(h, B, {}, size, V1!place(new.heap, new.bp, words), new.bp)
    BY <2>5, <2>6, <2>11, MoreAgain
  <2>14. r.heap = V1!place(new.heap, new.bp, words) /\ r.bp = new.bp
    BY <1>4, <1>5, <1>8
  <2>15. Malloced(h, B, {}, size, r)
    BY <2>7, <2>12, <2>14 DEF Malloced
  <2> QED  BY <2>15 DEF r
<1> QED  BY <1>6, <1>7, <1>8

(* mm_free of mm_v1.c.                                                     *)
LEMMA V1FreeEffect ==
    ASSUME NEW h, h.file = "mm_v1", NEW B, Sound(h, B, {}),
           NEW bp \in UsedIn(h.mem, B), bp # 2
    PROVE  Freed(h, B, {}, bp, V1!mm_free(h, bp))
<1> DEFINE m == h.mem
           e == h.brk
           n == m[bp - 1].size
           q == bp + n
           h1 == PutBoth(h, bp, n, 0)
           m3 == h1.mem
           r == V1!coalesce(h1, bp)
<1>1. h \in Heap /\ Tiled(m, e, B, {}, 4) /\ Merged(m, B) /\ Least(4)
  BY Four DEF Sound
<1>2. bp \in B /\ m[bp - 1].alloc = 1
  BY DEF UsedIn
<1>3. /\ bp \in Nat /\ 4 <= bp /\ bp - 1 \in Word /\ n \in Nat /\ 4 <= n /\ q - 2 \in Word
      /\ bp + n - 2 = q - 2
  <2>1. /\ bp \in Nat /\ 4 <= bp /\ bp - 1 \in Word /\ n \in Nat /\ 4 <= n /\ bp + n - 2 \in Word
    BY <1>1, <1>2, BlockFacts
  <2>2. bp + n - 2 = q - 2
    BY <2>1
  <2> QED  BY <2>1, <2>2
<1> HIDE DEF n
<1>4. bp - 1 # q - 2
  BY <1>3
<1> HIDE DEF e, h1
<1>5. PutsBoth(h1, h, bp, n, 0)
  BY <1>1, <1>3, PutBothAt DEF h1
<1> HIDE DEF q
<1>6. /\ h1 \in Heap /\ SameRest(h1, h)
      /\ \A w \in Word : h1.mem[w] = IF w = bp - 1 \/ w = q - 2 THEN Tag(n, 0) ELSE m[w]
  BY <1>3, <1>5 DEF PutsBoth
<1>10. V1!mm_free(h, bp) = r.heap
  <2>1. V1!GET_SIZE(h, V1!HDRP(bp)) = n
    BY V1Words DEF GET_SIZE, HDRP, n
  <2>2. V1!PutBoth(h, bp, n, 0) = h1
    BY V1Words DEF h1
  <2> QED  BY <2>1, <2>2 DEF V1!mm_free
<1>11. /\ m3 \in Memory /\ m3[bp - 1].size = n /\ m3[bp - 1].alloc = 0 /\ SameTag(m3[q - 2], m3[bp - 1])
       /\ \A w \in Word : w < bp - 1 \/ q - 2 < w => m3[w] = m[w]
  <2>2. m3[bp - 1] = Tag(n, 0) /\ m3[q - 2] = Tag(n, 0)
    BY <1>3, <1>6
  <2>3. Tag(n, 0).size = n /\ Tag(n, 0).alloc = 0
    BY <1>3, TagIs
  <2>4. \A w \in Word : w < bp - 1 \/ q - 2 < w => w # bp - 1 /\ w # q - 2
    BY <1>3, <1>4, HeapAssumption DEF Word, q
  <2>5. \A w \in Word : w < bp - 1 \/ q - 2 < w => m3[w] = m[w]
    BY <1>6, <2>4
  <2> QED  BY <1>6, <2>2, <2>3, <2>5 DEF Heap, SameTag
<1>12. Freeing(m, e, B, {}, 4, bp, m3)
  <2>1. m3[bp - 1].size = m[bp - 1].size
    BY <1>11 DEF n
  <2>2. bp + m[bp - 1].size - 2 = q - 2
    BY <1>3 DEF n
  <2> HIDE DEF m3, m
  <2> QED  BY <1>1, <1>11, <2>1, <2>2, FreeTiles DEF m
<1>13. /\ Tiled(m3, e, B, {}, 4) /\ MergedBut(m3, B, bp) /\ bp \in FreeIn(m3, B)
       /\ UsedIn(m3, B) = UsedIn(m, B) \ {bp}
       /\ \A b \in UsedIn(m, B) \ {bp} : Kept(m, m3, b)
  <2>1. {} \ {bp} = {}
    OBVIOUS
  <2> QED  BY <1>12, <2>1 DEF Freeing
<1>17. Coalesced(h1, B, {}, bp, r)
  <2>1. h1.file = "mm_v1" /\ h1.brk = e
    BY <1>6 DEF SameRest, e
  <2> HIDE DEF r
  <2> QED  BY <1>6, <1>13, <2>1, V1CoalesceEffect DEF r
<1> HIDE DEF r
<1>18. PICK B2 : Sound(r.heap, B2, {}) /\ KeepsUsed(m3, B, r.heap.mem, B2)
  BY <1>17 DEF Coalesced
<1>19. SameRest(r.heap, h)
  BY <1>6, <1>17 DEF Coalesced, SameRest
<1>20. UsedIn(r.heap.mem, B2) = UsedIn(m, B) \ {bp}
  BY <1>13, <1>18 DEF KeepsUsed
<1>21. ASSUME NEW c \in UsedIn(m, B) \ {bp} PROVE Kept(m, r.heap.mem, c)
  <2>1. c \in Nat /\ m[c - 1].size \in Nat /\ 2 <= m[c - 1].size
    BY <1>1, BlockFacts DEF UsedIn
  <2>2. Kept(m, m3, c) /\ Kept(m3, r.heap.mem, c)
    BY <1>13, <1>18 DEF KeepsUsed
  <2> QED  BY <2>1, <2>2, KeptAgain
<1>22. {} \ {bp} = {}
  OBVIOUS
<1>23. Freed(h, B, {}, bp, r.heap)
  BY <1>18, <1>19, <1>20, <1>21, <1>22 DEF Freed
<1> QED  BY <1>10, <1>23

(* mm_init of mm_v1.c.                                                     *)
LEMMA V1InitEffect ==
    ASSUME NEW h \in Heap, h.file = "mm_v1"
    PROVE  Fresh(h, V1!mm_init(h))
<1> DEFINE g == Prologue(h)
           r == V1!extend_heap(g, CHUNK)
<1>1. /\ g \in Heap /\ g.file = h.file /\ g.brk = 4
      /\ Tiled(g.mem, 4, {2}, {}, 4) /\ Merged(g.mem, {2})
      /\ UsedIn(g.mem, {2}) = {2}
  BY Four, StartHeap DEF Least
<1>2. V1!mm_init(h) = r.heap
  BY V1Words DEF V1!mm_init
<1> HIDE DEF g
<1>4. ~Linked(g) /\ Room(g) = 4
  BY <1>1, Four
<1>5. Sound(g, {2}, {})
  BY <1>1, <1>4 DEF Sound
<1>6. Extended(g, {2}, {}, CHUNK, r)
  <2>1. CHUNK \in Nat /\ CHUNK % 2 = 0 /\ 4 <= CHUNK /\ g.brk + CHUNK <= MAX_HEAP
    BY <1>1, HeapAssumption
  <2> QED  BY <1>1, <1>5, <2>1, V1ExtendEffect
<1> HIDE DEF r
<1>7. PICK B : Sound(r.heap, B, {}) /\ KeepsUsed(g.mem, {2}, r.heap.mem, B)
  BY <1>6 DEF Extended
<1>8. UsedIn(r.heap.mem, B) = {2}
  BY <1>1, <1>7 DEF KeepsUsed
<1>9. r.heap.file = h.file
  BY <1>1, <1>6 DEF Extended
<1>10. Fresh(h, r.heap)
  BY <1>7, <1>8, <1>9 DEF Fresh
<1> QED  BY <1>2, <1>10

(* mm_realloc of mm_v1.c, which always moves the block.                    *)
LEMMA V1ReallocEffect ==
    ASSUME NEW h, h.file = "mm_v1", NEW B, Sound(h, B, {}),
           NEW old \in UsedIn(h.mem, B), old # 2, NEW size \in Nat
    PROVE  Realloced(h, B, old, size, V1!mm_realloc(h, old, size))
<1> DEFINE new == V1!mm_malloc(h, size)
           c == memcpy(new.heap, new.bp, old, size)
           f == V1!mm_free(c, old)
           r == V1!mm_realloc(h, old, size)
<1>2. Malloced(h, B, {}, size, new)
  BY V1MallocEffect
<1>3. r = IF new.bp = 0 THEN new ELSE Result(f, new.bp)
  <2>1. /\ V1!NULL = 0
        /\ \A x, b : V1!Result(x, b) = Result(x, b)
        /\ \A x, t, y, n : V1!memcpy(x, t, y, n) = memcpy(x, t, y, n)
    BY V1Words DEF NULL
  <2> QED  BY <2>1 DEF V1!mm_realloc
<1>4. CASE new.bp = 0
  <2>1. new.heap = h
    BY <1>2, <1>4 DEF Malloced
  <2> HIDE DEF r, new
  <2>2. Realloced(h, B, old, size, r)
    BY <1>3, <1>4, <2>1 DEF Realloced
  <2> QED  BY <2>2 DEF r
<1>5. CASE new.bp # 0
  <2>1. ASSUME NEW B2, Sound(c, B2, {}), c.file = h.file, old \in UsedIn(c.mem, B2)
        PROVE  Freed(c, B2, {}, old, f)
    <3> HIDE DEF c
    <3> QED  BY <2>1, V1FreeEffect
  <2>2. PICK c0 : c0 = c
    OBVIOUS
  <2>3. PICK f0 : f0 = f
    OBVIOUS
  <2>5. \A B2 : Sound(c0, B2, {}) /\ c0.file = h.file /\ old \in UsedIn(c0.mem, B2)
                => Freed(c0, B2, {}, old, f0)
    BY <2>1, <2>2, <2>3
  <2> HIDE DEF f, r, new
  <2>6. Realloced(h, B, old, size, Result(f0, new.bp))
    BY <1>2, <1>5, <2>2, <2>5, MoveEffect
  <2>7. Realloced(h, B, old, size, r)
    BY <1>3, <1>5, <2>3, <2>6
  <2> QED  BY <2>7 DEF r
<1> QED  BY <1>4, <1>5

(***************************************************************************)
(* What the client holds.                                                  *)
(***************************************************************************)

(* What the client knows of its blocks, and the ids that have one.         *)
Live == [Id -> [ptr : Nat, size : Nat]]
HeldIn(L) == {id \in Id : L[id].ptr # 0}
\* The allocators that lay out blocks from end to end.
Tiling(h) == h.file = "mm_v1" \/ Linked(h)

(* The blocks in use are the prologue and those the client holds, each     *)
(* once, and each large enough.                                            *)
TilesHold(h, B, X, L) ==
    /\ Sound(h, B, X) /\ Late(h, B, X) /\ L \in Live
    /\ UsedIn(h.mem, B) = {2} \cup {L[id].ptr : id \in HeldIn(L)}
    /\ \A id \in HeldIn(L) : /\ L[id].ptr # 2
                             /\ L[id].size \div 4 + 2 <= h.mem[L[id].ptr - 1].size
    /\ \A i, j \in HeldIn(L) : L[i].ptr = L[j].ptr => i = j
TileHolds(h, L) == \E B, X : TilesHold(h, B, X, L)

(* mm_backup: each block is below mem_brk, with its size in front of it.   *)
BumpHolds(h, L) ==
    /\ h \in Heap /\ L \in Live
    /\ \A id \in HeldIn(L) : /\ 2 <= L[id].ptr /\ L[id].ptr + L[id].size \div 4 <= h.brk
                             /\ h.mem[L[id].ptr - 2].size = L[id].size
    /\ \A i, j \in HeldIn(L) :
          \/ i = j
          \/ L[i].ptr + L[i].size \div 4 + 2 <= L[j].ptr
          \/ L[j].ptr + L[j].size \div 4 + 2 <= L[i].ptr
Holds(h, L) == IF Tiling(h) THEN TileHolds(h, L) ELSE BumpHolds(h, L)

(* The words of the blocks S of L are in g what they are in h.             *)
Stays(h, g, L, S) ==
    \A id \in S : \A w \in L[id].ptr .. L[id].ptr + L[id].size \div 4 - 1 : g.mem[w] = h.mem[w]
(* The blocks L of the heap h, with one at p in place of what id had.      *)
Given(h, L, id, p, size, g) ==
    /\ Holds(g, [L EXCEPT ![id] = [ptr |-> p, size |-> size]])
    /\ Stays(h, g, L, HeldIn(L) \ {id})

(* A size in words.                                                        *)
LEMMA WordsOf ==
    ASSUME NEW size \in Nat
    PROVE  size \div 4 \in Nat
OBVIOUS

(* A block the client holds is in use, inside the heap, large enough.      *)
LEMMA HeldFacts ==
    ASSUME NEW h, NEW B, NEW X, NEW L, TilesHold(h, B, X, L), NEW id \in HeldIn(L)
    PROVE  LET p == L[id].ptr
           IN  /\ id \in Id /\ p \in UsedIn(h.mem, B) /\ p \in B /\ p \in Nat /\ 4 <= p
               /\ h.mem[p - 1].size \in Nat /\ L[id].size \in Nat /\ L[id].size \div 4 \in Nat
               /\ p + L[id].size \div 4 - 1 <= p + h.mem[p - 1].size - 3
               /\ p + h.mem[p - 1].size <= h.brk /\ h.brk \in Nat /\ h.brk <= MAX_HEAP
<1> DEFINE p == L[id].ptr
<1>1. p \in UsedIn(h.mem, B) /\ p \in B /\ p # 2 /\ id \in Id
  BY DEF TilesHold, HeldIn, UsedIn
<1>2. Tiled(h.mem, h.brk, B, X, Room(h)) /\ Least(Room(h))
  BY RoomLeast DEF TilesHold, Sound
<1> HIDE DEF p
<1>3. /\ p \in Nat /\ h.mem[p - 1].size \in Nat
      /\ p # 2 => 4 <= p
      /\ p + h.mem[p - 1].size <= h.brk /\ h.brk \in Nat /\ h.brk <= MAX_HEAP
  BY <1>1, <1>2, BlockFacts
<1>4. L[id].size \in Nat
  BY <1>1 DEF TilesHold, Live
<1>5. L[id].size \div 4 + 2 <= h.mem[p - 1].size
  BY DEF TilesHold, p
<1>6. L[id].size \div 4 \in Nat
  BY <1>4, WordsOf
<1>8. /\ p + L[id].size \div 4 - 1 \in Int /\ p + h.mem[p - 1].size - 3 \in Int
      /\ p + L[id].size \div 4 - 1 <= p + h.mem[p - 1].size - 3
  BY <1>3, <1>5, <1>6
<1> QED  BY <1>1, <1>3, <1>4, <1>6, <1>8 DEF p

(* No two blocks share a word.                                             *)
LEMMA TilesApart ==
    ASSUME NEW h, NEW B, NEW X, NEW L, TilesHold(h, B, X, L),
           NEW i \in HeldIn(L), NEW j \in HeldIn(L), i # j
    PROVE  \/ L[i].ptr + L[i].size \div 4 + 2 <= L[j].ptr
           \/ L[j].ptr + L[j].size \div 4 + 2 <= L[i].ptr
<1> DEFINE p == L[i].ptr  q == L[j].ptr  m == L[i].size \div 4  n == L[j].size \div 4
           c == h.mem[p - 1].size  d == h.mem[q - 1].size
<1>1. Tiled(h.mem, h.brk, B, X, Room(h)) /\ Least(Room(h))
  BY RoomLeast DEF TilesHold, Sound
<1>2. p \in B /\ p \in Nat /\ c \in Nat /\ m \in Nat
  BY HeldFacts
<1>3. q \in B /\ q \in Nat /\ d \in Nat /\ n \in Nat
  BY HeldFacts
<1>4. p # q /\ m + 2 <= c /\ n + 2 <= d
  BY DEF TilesHold
<1>5. q <= p \/ p + c <= q
  <2>1. q \in B \cup {h.brk}
    BY <1>3
  <2> QED  BY <1>1, <1>2, <2>1, NotInside
<1>6. p <= q \/ q + d <= p
  <2>1. p \in B \cup {h.brk}
    BY <1>2
  <2> QED  BY <1>1, <1>3, <2>1, NotInside
<1> HIDE DEF p, q, m, n, c, d
<1>7. p + m + 2 <= q \/ q + n + 2 <= p
  BY <1>2, <1>3, <1>4, <1>5, <1>6
<1> QED  BY <1>7 DEF p, q, m, n

(* What is true of a heap that keeps the blocks S of L.                    *)
LEMMA KeptHeld ==
    ASSUME NEW h, NEW B, NEW X, NEW L, TilesHold(h, B, X, L), NEW g,
           NEW S \in SUBSET HeldIn(L), \A id \in S : Kept(h.mem, g.mem, L[id].ptr)
    PROVE  /\ Stays(h, g, L, S)
           /\ \A id \in S : g.mem[L[id].ptr - 1] = h.mem[L[id].ptr - 1]
<1>1. ASSUME NEW id \in S
      PROVE  /\ g.mem[L[id].ptr - 1] = h.mem[L[id].ptr - 1]
             /\ \A w \in L[id].ptr .. L[id].ptr + L[id].size \div 4 - 1 : g.mem[w] = h.mem[w]
  <2> DEFINE p == L[id].ptr  n == L[id].size \div 4  c == h.mem[p - 1].size
  <2>1. p \in Nat /\ 4 <= p /\ c \in Nat /\ n \in Nat /\ p + n - 1 <= p + c - 3
    BY HeldFacts
  <2>2. \A w \in p - 1 .. p + c - 3 : g.mem[w] = h.mem[w]
    BY <1>1 DEF Kept
  <2> HIDE DEF p, n, c
  <2>3. p - 1 \in p - 1 .. p + c - 3 /\ \A w \in p .. p + n - 1 : w \in p - 1 .. p + c - 3
    BY <2>1
  <2>4. g.mem[p - 1] = h.mem[p - 1] /\ \A w \in p .. p + n - 1 : g.mem[w] = h.mem[w]
    BY <2>2, <2>3
  <2> QED  BY <2>4 DEF p, n
<1> QED  BY <1>1 DEF Stays

(* The blocks in use but for the one that id has, or will have.            *)
OthersIn(h, B, L, id) ==
    IF id \in HeldIn(L) THEN UsedIn(h.mem, B) \ {L[id].ptr} ELSE UsedIn(h.mem, B)

(* They are the prologue and what the other ids have.                      *)
LEMMA OthersAre ==
    ASSUME NEW h, NEW B, NEW X, NEW L, TilesHold(h, B, X, L), NEW id \in Id
    PROVE  OthersIn(h, B, L, id) = {2} \cup {L[j].ptr : j \in HeldIn(L) \ {id}}
<1> DEFINE S == HeldIn(L) \ {id}
<1>1. UsedIn(h.mem, B) = {2} \cup {L[j].ptr : j \in HeldIn(L)}
  BY DEF TilesHold
<1>2. CASE id \in HeldIn(L)
  <2>1. L[id].ptr # 2 /\ \A j \in S : L[j].ptr # L[id].ptr
    BY <1>2 DEF TilesHold
  <2>2. OthersIn(h, B, L, id) = UsedIn(h.mem, B) \ {L[id].ptr}
    BY <1>2 DEF OthersIn
  <2>3. HeldIn(L) = S \cup {id}
    BY <1>2
  <2> QED  BY <1>1, <2>1, <2>2, <2>3
<1>3. CASE id \notin HeldIn(L)
  <2>1. OthersIn(h, B, L, id) = UsedIn(h.mem, B) /\ S = HeldIn(L)
    BY <1>3 DEF OthersIn
  <2> QED  BY <1>1, <2>1
<1> QED  BY <1>2, <1>3

(* K has the block at p for id, and the others of L.                       *)
With(K, L, id, p, size) ==
    /\ K \in Live /\ HeldIn(K) = (HeldIn(L) \ {id}) \cup {id}
    /\ K[id].ptr = p /\ K[id].size = size
    /\ \A j \in Id \ {id} : K[j] = L[j]

(* The client's table after a call that returned p.                        *)
LEMMA GivenLive ==
    ASSUME NEW L \in Live, NEW id \in Id, NEW p \in Nat, p # 0, NEW size \in Nat
    PROVE  With([L EXCEPT ![id] = [ptr |-> p, size |-> size]], L, id, p, size)
<1> DEFINE K == [L EXCEPT ![id] = [ptr |-> p, size |-> size]]
<1>1. K \in Live
  BY DEF Live
<1>2. K[id].ptr = p /\ K[id].size = size /\ \A j \in Id \ {id} : K[j] = L[j]
  BY DEF Live
<1> HIDE DEF K
<1>3. HeldIn(K) = (HeldIn(L) \ {id}) \cup {id}
  BY <1>2 DEF HeldIn
<1>4. With(K, L, id, p, size)
  BY <1>1, <1>2, <1>3 DEF With
<1> QED  BY <1>4 DEF K

(* A heap with one more block in use holds one more for the client.        *)
LEMMA TilesGiven ==
    ASSUME NEW h, NEW B, NEW X, NEW L, TilesHold(h, B, X, L), Tiling(h),
           NEW id \in Id, NEW size \in Nat,
           NEW g, NEW B2, NEW Y, Sound(g, B2, Y), Late(g, B2, Y), g.file = h.file,
           NEW b, UsedIn(g.mem, B2) = OthersIn(h, B, L, id) \cup {b},
           b \notin OthersIn(h, B, L, id),
           \A c \in OthersIn(h, B, L, id) : Kept(h.mem, g.mem, c),
           size \div 4 + 2 <= g.mem[b - 1].size
    PROVE  Given(h, L, id, b, size, g)
<1> DEFINE S == HeldIn(L) \ {id}
           K == [L EXCEPT ![id] = [ptr |-> b, size |-> size]]
<1>1. OthersIn(h, B, L, id) = {2} \cup {L[j].ptr : j \in S}
  BY OthersAre
<1>2. b \in Nat /\ b # 2 /\ b # 0
  <2>1. Tiled(g.mem, g.brk, B2, Y, Room(g)) /\ Least(Room(g))
    BY RoomLeast DEF Sound
  <2>2. b \in B2
    BY DEF UsedIn
  <2>3. b \in Nat /\ 2 <= b
    BY <2>1, <2>2, BlockFacts
  <2> QED  BY <1>1, <2>3
<1>3. /\ K \in Live /\ HeldIn(K) = S \cup {id}
      /\ K[id].ptr = b /\ K[id].size = size
      /\ \A j \in Id \ {id} : K[j] = L[j]
  <2>1. L \in Live
    BY DEF TilesHold
  <2>2. With(K, L, id, b, size)
    BY <1>2, <2>1, GivenLive
  <2> HIDE DEF K
  <2> QED  BY <2>2 DEF With
<1> HIDE DEF K
<1>4. \A j \in S : j \in Id \ {id} /\ j \in HeldIn(L) /\ K[j] = L[j]
  BY <1>3 DEF HeldIn
<1>5. \A j \in S : Kept(h.mem, g.mem, L[j].ptr)
  BY <1>1
<1>6. Stays(h, g, L, S) /\ \A j \in S : g.mem[L[j].ptr - 1] = h.mem[L[j].ptr - 1]
  BY <1>5, KeptHeld
<1>7. UsedIn(g.mem, B2) = {2} \cup {K[j].ptr : j \in HeldIn(K)}
  <2>1. {K[j].ptr : j \in HeldIn(K)} = {L[j].ptr : j \in S} \cup {b}
    BY <1>3, <1>4
  <2> QED  BY <1>1, <2>1
<1>8. ASSUME NEW j \in HeldIn(K)
      PROVE  K[j].ptr # 2 /\ K[j].size \div 4 + 2 <= g.mem[K[j].ptr - 1].size
  <2>1. CASE j = id
    BY <1>2, <1>3, <2>1
  <2>2. CASE j \in S
    <3>1. L[j].ptr # 2 /\ L[j].size \div 4 + 2 <= h.mem[L[j].ptr - 1].size
      BY <2>2 DEF TilesHold
    <3> QED  BY <1>4, <1>6, <2>2, <3>1
  <2> QED  BY <1>3, <2>1, <2>2
<1>9. \A i, j \in HeldIn(K) : K[i].ptr = K[j].ptr => i = j
  <2> TAKE i, j \in HeldIn(K)
  <2>1. \A x \in S : K[x].ptr # b
    BY <1>1, <1>4
  <2>2. \A x, y \in S : K[x].ptr = K[y].ptr => x = y
    BY <1>4 DEF TilesHold
  <2> QED  BY <1>3, <2>1, <2>2
<1>10. TilesHold(g, B2, Y, K)
  BY <1>3, <1>7, <1>8, <1>9 DEF TilesHold
<1>11. Holds(g, K)
  BY <1>10 DEF Holds, TileHolds, Tiling, Linked
<1> QED  BY <1>6, <1>11 DEF Given, K

(* mm_malloc gives the client a block and keeps the others.                *)
LEMMA TilesMalloced ==
    ASSUME NEW h, NEW B, NEW X, NEW L, TilesHold(h, B, X, L), Tiling(h),
           NEW id \in Id, id \notin HeldIn(L), NEW size \in Nat,
           NEW r, Malloced(h, B, X, size, r), r.bp # 0
    PROVE  Given(h, L, id, r.bp, size, r.heap)
<1>1. OneMore(h, B, X, size, r.heap, r.bp)
  BY DEF Malloced
<1>2. PICK B2 : /\ Sound(r.heap, B2, X) /\ Late(r.heap, B2, X)
                /\ UsedIn(r.heap.mem, B2) = UsedIn(h.mem, B) \cup {r.bp}
                /\ r.bp \notin UsedIn(h.mem, B)
                /\ \A c \in UsedIn(h.mem, B) : Kept(h.mem, r.heap.mem, c)
                /\ size \div 4 + 2 <= r.heap.mem[r.bp - 1].size
  BY <1>1 DEF OneMore
<1>3. r.heap.file = h.file /\ OthersIn(h, B, L, id) = UsedIn(h.mem, B)
  BY <1>1 DEF OneMore, OthersIn
<1> QED  BY <1>2, <1>3, TilesGiven

(* mm_realloc does, and copies the words both blocks have.                 *)
LEMMA TilesRealloced ==
    ASSUME NEW h, NEW B, NEW X, NEW L, TilesHold(h, B, X, L), Tiling(h),
           NEW id \in HeldIn(L), NEW size \in Nat,
           NEW r, Realloced(h, B, L[id].ptr, size, r), r.bp # 0
    PROVE  /\ Given(h, L, id, r.bp, size, r.heap)
           /\ \A i \in Nat : i < size \div 4 /\ i < L[id].size \div 4
                             => r.heap.mem[r.bp + i] = h.mem[L[id].ptr + i]
<1> DEFINE old == L[id].ptr
<1>1. PICK B2, Y :
        /\ Sound(r.heap, B2, Y) /\ Late(r.heap, B2, Y)
        /\ UsedIn(r.heap.mem, B2) = (UsedIn(h.mem, B) \ {old}) \cup {r.bp}
        /\ r.bp \notin UsedIn(h.mem, B) \ {old}
        /\ \A c \in UsedIn(h.mem, B) \ {old} : Kept(h.mem, r.heap.mem, c)
        /\ size \div 4 + 2 <= r.heap.mem[r.bp - 1].size
        /\ \A i \in Nat : i < size \div 4 /\ i + 2 < h.mem[old - 1].size
                          => r.heap.mem[r.bp + i] = h.mem[old + i]
  BY DEF Realloced
<1>2. r.heap.file = h.file /\ OthersIn(h, B, L, id) = UsedIn(h.mem, B) \ {old} /\ id \in Id
  BY DEF Realloced, OthersIn, HeldIn
<1>3. Given(h, L, id, r.bp, size, r.heap)
  BY <1>1, <1>2, TilesGiven
<1>4. ASSUME NEW i \in Nat, i < size \div 4, i < L[id].size \div 4
      PROVE  r.heap.mem[r.bp + i] = h.mem[old + i]
  <2>1. L[id].size \div 4 + 2 <= h.mem[old - 1].size
    BY DEF TilesHold
  <2>2. h.mem[old - 1].size \in Nat /\ L[id].size \div 4 \in Nat
    BY HeldFacts
  <2>3. i + 2 < h.mem[old - 1].size
    <3> HIDE DEF old
    <3> QED  BY <1>4, <2>1, <2>2
  <2> QED  BY <1>1, <1>4, <2>3
<1> QED  BY <1>3, <1>4

(* K is L without the block that id has.                                   *)
Without(K, L, id) ==
    /\ K \in Live /\ HeldIn(K) = HeldIn(L) \ {id}
    /\ \A j \in Id \ {id} : K[j] = L[j]

(* The client's table after mm_free.                                       *)
LEMMA TakenLive ==
    ASSUME NEW L \in Live, NEW id \in Id
    PROVE  Without([L EXCEPT ![id] = NoBlock], L, id)
<1> DEFINE K == [L EXCEPT ![id] = NoBlock]
<1>1. K \in Live
  BY DEF Live, NoBlock, NULL
<1>2. K[id].ptr = 0 /\ \A j \in Id \ {id} : K[j] = L[j]
  BY DEF Live, NoBlock, NULL
<1> HIDE DEF K
<1>3. HeldIn(K) = HeldIn(L) \ {id}
  BY <1>2 DEF HeldIn
<1>4. Without(K, L, id)
  BY <1>1, <1>2, <1>3 DEF Without
<1> QED  BY <1>4 DEF K

(* A block that is kept has its header.                                    *)
LEMMA KeptTag ==
    ASSUME NEW h, NEW B, NEW X, Sound(h, B, X), NEW b \in B, NEW m, Kept(h.mem, m, b)
    PROVE  m[b - 1] = h.mem[b - 1]
<1>1. Tiled(h.mem, h.brk, B, X, Room(h)) /\ Least(Room(h))
  BY RoomLeast DEF Sound
<1>2. b \in Nat /\ h.mem[b - 1].size \in Nat /\ 2 <= h.mem[b - 1].size
  BY <1>1, BlockFacts
<1>3. b - 1 \in b - 1 .. b + h.mem[b - 1].size - 3
  BY <1>2
<1> QED  BY <1>3 DEF Kept

(***************************************************************************)
(* mm_free, of a block the client holds.                                   *)
(***************************************************************************)

(* The blocks L of h, without the one that id had.                         *)
Taken(h, L, id, g) ==
    /\ Holds(g, [L EXCEPT ![id] = NoBlock])
    /\ Stays(h, g, L, HeldIn(L) \ {id})

(* mm_free takes one block and keeps the others.                           *)
LEMMA TilesFreed ==
    ASSUME NEW h, NEW B, NEW X, NEW L, TilesHold(h, B, X, L), Tiling(h),
           NEW id \in HeldIn(L), NEW g, Freed(h, B, X, L[id].ptr, g)
    PROVE  Taken(h, L, id, g)
<1> DEFINE p == L[id].ptr
           S == HeldIn(L) \ {id}
           K == [L EXCEPT ![id] = NoBlock]
           Y == X \ {p}
<1>1. PICK B2 : /\ Sound(g, B2, Y)
                /\ UsedIn(g.mem, B2) = UsedIn(h.mem, B) \ {p}
                /\ \A c \in UsedIn(h.mem, B) \ {p} : Kept(h.mem, g.mem, c)
  BY DEF Freed
<1>2. SameRest(g, h)
  BY DEF Freed
<1>3. Sound(h, B, X) /\ Late(h, B, X) /\ L \in Live /\ id \in Id
  BY DEF TilesHold, HeldIn
<1>4. UsedIn(g.mem, B2) = {2} \cup {L[j].ptr : j \in S}
  <2>1. OthersIn(h, B, L, id) = {2} \cup {L[j].ptr : j \in S}
    BY <1>3, OthersAre
  <2> QED  BY <1>1, <2>1 DEF OthersIn
<1>5. X \subseteq UsedIn(h.mem, B) /\ UsedIn(h.mem, B) \subseteq B
  BY <1>3, LateFacts DEF UsedIn
<1>6. Late(g, B2, Y)
  <2>1. h.brk <= g.brk
    <3>1. h.brk = g.brk /\ h.brk \in Nat
      BY <1>2, <1>3, HeapAssumption DEF SameRest, Sound, Heap
    <3> QED  BY <3>1
  <2>2. ASSUME NEW x \in Y PROVE x \in UsedIn(g.mem, B2) /\ g.mem[x - 1].size = h.mem[x - 1].size
    <3>1. x \in UsedIn(h.mem, B) \ {p} /\ x \in B
      BY <1>5
    <3>2. g.mem[x - 1] = h.mem[x - 1]
      BY <1>1, <1>3, <3>1, KeptTag
    <3> QED  BY <1>1, <3>1, <3>2
  <2>3. \A b \in UsedIn(g.mem, B2) :
           b \in B /\ (b \in UsedIn(h.mem, B) \/ b + h.mem[b - 1].size # h.brk)
    BY <1>1, <1>5
  <2>4. Y \subseteq X /\ g.file = h.file /\ g.flag = h.flag
    BY <1>2 DEF SameRest
  <2> HIDE DEF Y
  <2> QED  BY <1>1, <1>3, <2>1, <2>2, <2>3, <2>4, LateStays
<1>7. /\ K \in Live /\ HeldIn(K) = S
      /\ \A j \in Id \ {id} : K[j] = L[j]
  <2>1. Without(K, L, id)
    BY <1>3, TakenLive
  <2> HIDE DEF K
  <2> QED  BY <2>1 DEF Without
<1> HIDE DEF K, Y
<1>8. \A j \in S : j \in Id \ {id} /\ j \in HeldIn(L) /\ K[j] = L[j]
  BY <1>7 DEF HeldIn
<1>9. Stays(h, g, L, S) /\ \A j \in S : g.mem[L[j].ptr - 1] = h.mem[L[j].ptr - 1]
  <2>1. \A j \in S : L[j].ptr \in UsedIn(h.mem, B) \ {p}
    BY <1>1, <1>4
  <2>2. \A j \in S : Kept(h.mem, g.mem, L[j].ptr)
    BY <1>1, <2>1
  <2> QED  BY <2>2, KeptHeld
<1>10. UsedIn(g.mem, B2) = {2} \cup {K[j].ptr : j \in HeldIn(K)}
  BY <1>4, <1>7, <1>8
<1>11. ASSUME NEW j \in HeldIn(K)
       PROVE  K[j].ptr # 2 /\ K[j].size \div 4 + 2 <= g.mem[K[j].ptr - 1].size
  <2>1. L[j].ptr # 2 /\ L[j].size \div 4 + 2 <= h.mem[L[j].ptr - 1].size
    BY <1>7, <1>8 DEF TilesHold
  <2> QED  BY <1>7, <1>8, <1>9, <2>1
<1>12. \A i, j \in HeldIn(K) : K[i].ptr = K[j].ptr => i = j
  BY <1>7, <1>8 DEF TilesHold
<1>13. TilesHold(g, B2, Y, K)
  BY <1>1, <1>6, <1>7, <1>10, <1>11, <1>12 DEF TilesHold
<1>14. Holds(g, K)
  <2>1. Tiling(g)
    BY <1>2 DEF Tiling, Linked, SameRest
  <2> QED  BY <1>13, <2>1 DEF Holds, TileHolds
<1> QED  BY <1>9, <1>14 DEF Taken, K

(***************************************************************************)
(* memset, of a block the client holds.                                    *)
(***************************************************************************)

(* g is h with n words of data of d at p.                                  *)
SetTo(g, h, p, n, d) ==
    /\ g \in Heap /\ SameRest(g, h) /\ g.blk_headp = h.blk_headp
    /\ \A w \in Word : g.mem[w] = IF w \in p .. p + n - 1 THEN Data(d) ELSE h.mem[w]

(* memset writes those words.                                              *)
LEMMA SetAt ==
    ASSUME NEW h \in Heap, NEW p, NEW d \in Id \cup {NoId}, NEW size
    PROVE  SetTo(memset(h, p, d, size), h, p, size \div 4, d)
<1> DEFINE v == Data(d)  P == p .. p + size \div 4 - 1
           g == [h EXCEPT !.mem = [w \in Word |-> IF w \in P THEN v ELSE h.mem[w]]]
<1>1. memset(h, p, d, size) = g
  BY DEF memset, Payload, WSIZE
<1>2. v \in WordValue
  BY DataIs
<1> HIDE DEF v, P
<1>3. /\ g \in Heap /\ SameRest(g, h) /\ g.blk_headp = h.blk_headp
      /\ \A w \in Word : g.mem[w] = IF w \in P THEN v ELSE h.mem[w]
  BY <1>2 DEF Heap, Memory, SameRest
<1> HIDE DEF g
<1> QED  BY <1>1, <1>3 DEF SetTo, v, P

(* The blocks L of h, that of id filled with data of d.                    *)
Filled(h, L, id, d, g) ==
    /\ Holds(g, L) /\ Stays(h, g, L, HeldIn(L) \ {id})
    /\ \A w \in L[id].ptr .. L[id].ptr + L[id].size \div 4 - 1 : g.mem[w] = Data(d)

(* Filling a block keeps the heap and the other blocks.                    *)
LEMMA TilesFilled ==
    ASSUME NEW h, NEW B, NEW X, NEW L, TilesHold(h, B, X, L), Tiling(h),
           NEW id \in HeldIn(L), NEW d,
           NEW g, SetTo(g, h, L[id].ptr, L[id].size \div 4, d)
    PROVE  Filled(h, L, id, d, g)
<1> DEFINE p == L[id].ptr  n == L[id].size \div 4  c == h.mem[p - 1].size
<1>1. /\ p \in UsedIn(h.mem, B) /\ p \in Nat /\ 4 <= p /\ c \in Nat /\ n \in Nat
      /\ p + n - 1 <= p + c - 3 /\ p + c <= h.brk /\ h.brk \in Nat /\ h.brk <= MAX_HEAP
  BY HeldFacts
<1>2. g \in Heap /\ SameRest(g, h) /\ g.blk_headp = h.blk_headp
  BY DEF SetTo
<1>3. \A w \in Word : w < p \/ p + c - 2 <= w => g.mem[w] = h.mem[w]
  <2> TAKE w \in Word
  <2> HAVE w < p \/ p + c - 2 <= w
  <2>1. g.mem[w] = IF w \in p .. p + n - 1 THEN Data(d) ELSE h.mem[w]
    BY DEF SetTo
  <2> HIDE DEF p, n, c
  <2>2. w \notin p .. p + n - 1
    BY <1>1, HeapAssumption DEF Word
  <2> QED  BY <2>1, <2>2
<1>4. Sound(h, B, X) /\ Late(h, B, X)
  BY DEF TilesHold
<1>5. Wrote(h, B, X, p, g)
  BY <1>1, <1>2, <1>3, <1>4, WriteInside
<1>6. \A j \in HeldIn(L) \ {id} : Kept(h.mem, g.mem, L[j].ptr)
  <2> TAKE j \in HeldIn(L) \ {id}
  <2>1. L[j].ptr \in UsedIn(h.mem, B) /\ L[j].ptr # p
    BY DEF TilesHold
  <2> QED  BY <1>5, <2>1 DEF Wrote
<1>7. Stays(h, g, L, HeldIn(L) \ {id})
  BY <1>6, KeptHeld
<1>8. TilesHold(g, B, X, L)
  <2>1. \A j \in HeldIn(L) : L[j].ptr \in B
    BY DEF TilesHold, UsedIn
  <2> QED  BY <1>4, <1>5, <2>1 DEF TilesHold, Wrote
<1>9. Holds(g, L)
  <2>1. Tiling(g)
    BY <1>2 DEF Tiling, Linked, SameRest
  <2> QED  BY <1>8, <2>1 DEF Holds, TileHolds
<1>10. \A w \in p .. p + n - 1 : g.mem[w] = Data(d)
  <2> TAKE w \in p .. p + n - 1
  <2>1. w \in Word
    <3> HIDE DEF p, n, c
    <3> QED  BY <1>1, HeapAssumption DEF Word
  <2> QED  BY <2>1 DEF SetTo
<1> QED  BY <1>7, <1>9, <1>10 DEF Filled

(***************************************************************************)
(* mm_init.                                                                *)
(***************************************************************************)

(* A fresh heap holds the blocks of a client that has none.                *)
LEMMA TilesFresh ==
    ASSUME NEW h, Tiling(h), NEW g, Fresh(h, g), NEW L \in Live, HeldIn(L) = {}
    PROVE  Holds(g, L)
<1>1. PICK B : Sound(g, B, {}) /\ UsedIn(g.mem, B) = {2}
  BY DEF Fresh
<1>2. Tiling(g)
  BY DEF Tiling, Linked, Fresh
<1>3. Late(g, B, {})
  BY DEF Late
<1>4. TilesHold(g, B, {}, L)
  BY <1>1, <1>3 DEF TilesHold
<1> QED  BY <1>2, <1>4 DEF Holds, TileHolds

(***************************************************************************)
(* mm_backup.c: each block is new memory.                                  *)
(***************************************************************************)

(* MmBackup has the macros of HeapWords.                                   *)
LEMMA BackupWords ==
    /\ \A h, n : Backup!mem_sbrk(h, n) = mem_sbrk(h, n)
    /\ \A h, n : Backup!mem_sbrk_fails(h, n) = mem_sbrk_fails(h, n)
    /\ \A h, p, n, a : Backup!PUT(h, p, Backup!Tag(n, a)) = PUT(h, p, Tag(n, a))
    /\ \A h, b : Backup!Result(h, b) = Result(h, b) /\ Backup!NULL = 0
    /\ \A h, p : Backup!GET_SIZE(h, p) = h.mem[p].size
    /\ \A h, t, f, n : Backup!memcpy(h, t, f, n) = memcpy(h, t, f, n)
<1>1. \A h, n : Backup!mem_sbrk(h, n) = mem_sbrk(h, n)
  BY DEF Backup!mem_sbrk, mem_sbrk
<1>2. \A h, n : Backup!mem_sbrk_fails(h, n) = mem_sbrk_fails(h, n)
  BY DEF Backup!mem_sbrk_fails, mem_sbrk_fails
<1>3. \A h, p, n, a : Backup!PUT(h, p, Backup!Tag(n, a)) = PUT(h, p, Tag(n, a))
  BY DEF Backup!PUT, PUT, Backup!Tag, Tag, Backup!NULL, NULL
<1>4. \A h, b : Backup!Result(h, b) = Result(h, b) /\ Backup!NULL = 0
  BY DEF Backup!Result, Result, Backup!NULL
<1>5. \A h, p : Backup!GET_SIZE(h, p) = h.mem[p].size
  BY DEF Backup!GET_SIZE
<1>6. \A h, t, f, n : Backup!memcpy(h, t, f, n) = memcpy(h, t, f, n)
  BY DEF Backup!memcpy, memcpy, Backup!Data, Data, Backup!WSIZE, WSIZE, Backup!NULL, NULL,
         Backup!Word, Word
<1> QED  BY <1>1, <1>2, <1>3, <1>4, <1>5, <1>6

(* Nothing, or a block at the end of the heap.                             *)
Bumped(h, size, r) ==
    IF r.bp = 0 THEN r.heap = h
    ELSE /\ r.bp = h.brk + 2 /\ r.heap \in Heap /\ r.heap.file = h.file
         /\ r.bp + size \div 4 <= r.heap.brk
         /\ r.heap.mem[h.brk].size = size
         /\ \A w \in Word : w < h.brk => r.heap.mem[w] = h.mem[w]

(* mm_malloc of mm_backup.c.                                               *)
LEMMA BackupMallocEffect ==
    ASSUME NEW h \in Heap, NEW size \in Nat
    PROVE  Bumped(h, size, Backup!mm_malloc(h, size))
<1> DEFINE n == 2 * ((size + 8 + 7) \div 8)
           p == h.brk
           h1 == mem_sbrk(h, n)
           h2 == PUT(h1, p, Tag(size, 0))
           g == PUT(h2, p + 1, Tag(0, 0))
           r == Backup!mm_malloc(h, size)
<1>1. Backup!ALIGN(size + 8) = n
  BY DEF Backup!ALIGN
<1>2. r = IF mem_sbrk_fails(h, n) THEN Result(h, 0) ELSE Result(g, p + 2)
  BY <1>1, BackupWords DEF Backup!mm_malloc
<1> SUFFICES Bumped(h, size, r)
  OBVIOUS
<1> HIDE DEF r
<1>3. n \in Nat /\ size \div 4 + 2 <= n
  OBVIOUS
<1> HIDE DEF n
<1>4. p \in Nat /\ p <= MAX_HEAP
  BY HeapAssumption DEF Heap
<1>5. CASE mem_sbrk_fails(h, n)
  BY <1>2, <1>5 DEF Result, Bumped
<1>6. CASE ~mem_sbrk_fails(h, n)
  <2>1. p + n <= MAX_HEAP /\ 2 <= n
    <3>1. size \div 4 \in Nat
      OBVIOUS
    <3> QED  BY <1>3, <1>4, <1>6, <3>1, HeapAssumption DEF mem_sbrk_fails
  <2>2. p \in Word /\ p + 1 \in Word
    BY <1>3, <1>4, <2>1, HeapAssumption DEF Word
  <2>3. h1 \in Heap /\ h1.file = h.file /\ h1.brk = p + n /\ h1.mem = h.mem
    BY <1>3, <1>4, <2>1, HeapAssumption DEF mem_sbrk, Heap
  <2> HIDE DEF h1
  <2>4. /\ h2 \in Heap /\ SameRest(h2, h1)
        /\ \A q \in Word : h2.mem[q] = IF q = p THEN Tag(size, 0) ELSE h1.mem[q]
    <3>1. Tag(size, 0) \in WordValue
      BY TagIs
    <3> QED  BY <2>2, <2>3, <3>1, PutAt
  <2> HIDE DEF h2
  <2>5. /\ g \in Heap /\ SameRest(g, h2)
        /\ \A q \in Word : g.mem[q] = IF q = p + 1 THEN Tag(0, 0) ELSE h2.mem[q]
    <3>1. Tag(0, 0) \in WordValue
      BY TagIs
    <3> QED  BY <2>2, <2>4, <3>1, PutAt
  <2> HIDE DEF g
  <2>6. g.mem[p].size = size
    <3>1. g.mem[p] = Tag(size, 0)
      BY <1>4, <2>2, <2>4, <2>5
    <3> QED  BY <3>1, TagIs
  <2>7. \A w \in Word : w < p => g.mem[w] = h.mem[w]
    <3> TAKE w \in Word
    <3> HAVE w < p
    <3>1. w # p /\ w # p + 1
      BY <1>4, HeapAssumption DEF Word
    <3> QED  BY <2>3, <2>4, <2>5, <3>1
  <2>8. g.file = h.file /\ g.brk = p + n
    BY <2>3, <2>4, <2>5 DEF SameRest
  <2>9. p + 2 + size \div 4 <= g.brk /\ p + 2 # 0
    <3>1. size \div 4 \in Nat
      OBVIOUS
    <3> QED  BY <1>3, <1>4, <2>8, <3>1
  <2>10. r.bp = p + 2 /\ r.heap = g
    BY <1>2, <1>6 DEF Result
  <2> QED  BY <2>5, <2>6, <2>7, <2>8, <2>9, <2>10 DEF Bumped
<1> QED  BY <1>5, <1>6

(* The block at the end, of a heap with the blocks of L.                   *)
LEMMA BumpGiven ==
    ASSUME NEW h, NEW L, BumpHolds(h, L), ~Tiling(h), NEW id \in Id, NEW size \in Nat,
           NEW b, b = h.brk + 2, NEW g \in Heap, g.file = h.file,
           b + size \div 4 <= g.brk, g.mem[b - 2].size = size,
           \A w \in Word : w < h.brk => g.mem[w] = h.mem[w]
    PROVE  Given(h, L, id, b, size, g)
<1> DEFINE S == HeldIn(L) \ {id}
           K == [L EXCEPT ![id] = [ptr |-> b, size |-> size]]
<1>1. h \in Heap /\ L \in Live
  BY DEF BumpHolds
<1>2. h.brk \in Nat /\ h.brk <= MAX_HEAP /\ g.brk \in Nat /\ b \in Nat /\ 2 <= b /\ b # 0
  BY <1>1, HeapAssumption DEF Heap
<1>3. /\ K \in Live /\ HeldIn(K) = S \cup {id}
      /\ K[id].ptr = b /\ K[id].size = size
      /\ \A j \in Id \ {id} : K[j] = L[j]
  <2>1. With(K, L, id, b, size)
    BY <1>1, <1>2, GivenLive
  <2> HIDE DEF K
  <2> QED  BY <2>1 DEF With
<1> HIDE DEF K
<1>4. \A j \in S : j \in Id \ {id} /\ j \in HeldIn(L) /\ K[j] = L[j]
  BY <1>3 DEF HeldIn
<1>5. ASSUME NEW j \in HeldIn(L)
      PROVE  /\ L[j].ptr \in Nat /\ L[j].size \in Nat /\ L[j].size \div 4 \in Nat
             /\ 2 <= L[j].ptr /\ L[j].ptr + L[j].size \div 4 <= h.brk
             /\ h.mem[L[j].ptr - 2].size = L[j].size
  <2>1. j \in Id /\ L[j].ptr \in Nat /\ L[j].size \in Nat
    BY <1>1 DEF HeldIn, Live
  <2>2. L[j].size \div 4 \in Nat
    BY <2>1, WordsOf
  <2> QED  BY <2>1, <2>2 DEF BumpHolds
<1>6. \A j \in HeldIn(L) : \A w \in L[j].ptr - 2 .. L[j].ptr + L[j].size \div 4 - 1 :
         w < h.brk => w \in Word /\ g.mem[w] = h.mem[w]
  <2> TAKE j \in HeldIn(L)
  <2> TAKE w \in L[j].ptr - 2 .. L[j].ptr + L[j].size \div 4 - 1
  <2> HAVE w < h.brk
  <2>1. w \in Word
    BY <1>2, <1>5, HeapAssumption DEF Word
  <2> QED  BY <2>1
<1>7. Stays(h, g, L, S)
  <2>1. ASSUME NEW j \in S, NEW w \in L[j].ptr .. L[j].ptr + L[j].size \div 4 - 1
        PROVE  g.mem[w] = h.mem[w]
    <3>1. /\ w < h.brk /\ w \in L[j].ptr - 2 .. L[j].ptr + L[j].size \div 4 - 1
      BY <1>2, <1>5
    <3> QED  BY <1>6, <3>1
  <2> QED  BY <2>1 DEF Stays
<1>8. ASSUME NEW j \in HeldIn(K)
      PROVE  /\ 2 <= K[j].ptr /\ K[j].ptr + K[j].size \div 4 <= g.brk
             /\ g.mem[K[j].ptr - 2].size = K[j].size
  <2>1. CASE j = id
    BY <1>2, <1>3, <2>1
  <2>2. CASE j \in S
    <3>1. /\ L[j].ptr \in Nat /\ L[j].size \div 4 \in Nat
          /\ 2 <= L[j].ptr /\ L[j].ptr + L[j].size \div 4 <= h.brk
          /\ h.mem[L[j].ptr - 2].size = L[j].size
      BY <1>5, <2>2
    <3>2. h.brk <= g.brk
      <4>1. size \div 4 \in Nat
        OBVIOUS
      <4> QED  BY <1>2, <4>1
    <3>3. /\ L[j].ptr - 2 < h.brk
          /\ L[j].ptr - 2 \in L[j].ptr - 2 .. L[j].ptr + L[j].size \div 4 - 1
      BY <1>2, <3>1
    <3>4. g.mem[L[j].ptr - 2] = h.mem[L[j].ptr - 2]
      BY <1>6, <2>2, <3>3
    <3>5. L[j].ptr + L[j].size \div 4 <= g.brk
      BY <1>2, <3>1, <3>2
    <3> QED  BY <1>4, <2>2, <3>1, <3>4, <3>5
  <2> QED  BY <1>3, <2>1, <2>2
<1>9. ASSUME NEW i \in HeldIn(K), NEW j \in HeldIn(K), i # j
      PROVE  \/ K[i].ptr + K[i].size \div 4 + 2 <= K[j].ptr
             \/ K[j].ptr + K[j].size \div 4 + 2 <= K[i].ptr
  <2>1. \A x \in S : K[x].ptr + K[x].size \div 4 + 2 <= b
    <3> TAKE x \in S
    <3>1. /\ L[x].ptr \in Nat /\ L[x].size \div 4 \in Nat
          /\ L[x].ptr + L[x].size \div 4 <= h.brk
      BY <1>5
    <3>2. L[x].ptr + L[x].size \div 4 + 2 <= b
      BY <1>2, <3>1
    <3> QED  BY <1>4, <3>2
  <2>2. CASE i = id
    BY <1>3, <1>9, <2>1, <2>2
  <2>3. CASE j = id
    BY <1>3, <1>9, <2>1, <2>3
  <2>4. CASE i \in S /\ j \in S
    BY <1>4, <1>9, <2>4 DEF BumpHolds
  <2> QED  BY <1>3, <2>2, <2>3, <2>4
<1>10. BumpHolds(g, K)
  BY <1>3, <1>8, <1>9 DEF BumpHolds
<1>11. Holds(g, K)
  <2>1. ~Tiling(g)
    BY DEF Tiling, Linked
  <2> QED  BY <1>10, <2>1 DEF Holds
<1> QED  BY <1>7, <1>11 DEF Given, K

(* mm_realloc of mm_backup.c copies what the header says.                  *)
LEMMA BumpRealloced ==
    ASSUME NEW h, NEW L, BumpHolds(h, L), ~Tiling(h), NEW id \in HeldIn(L), NEW size \in Nat,
           NEW r, r = Backup!mm_realloc(h, L[id].ptr, size)
    PROVE  IF r.bp = 0 THEN r.heap = h
           ELSE /\ Given(h, L, id, r.bp, size, r.heap)
                /\ \A i \in Nat : i < size \div 4 /\ i < L[id].size \div 4
                                  => r.heap.mem[r.bp + i] = h.mem[L[id].ptr + i]
<1> DEFINE new == Backup!mm_malloc(h, size)
           p == L[id].ptr
           old == L[id].size
           n == IF size < old THEN size ELSE old
           c == memcpy(new.heap, new.bp, p, n)
<1>1. h \in Heap /\ L \in Live /\ id \in Id
  BY DEF BumpHolds, HeldIn
<1>2. /\ p \in Nat /\ old \in Nat /\ old \div 4 \in Nat /\ 2 <= p /\ p + old \div 4 <= h.brk
      /\ h.mem[p - 2].size = old /\ n \in Nat
  <2>1. p \in Nat /\ old \in Nat
    BY <1>1 DEF Live
  <2>2. old \div 4 \in Nat
    BY <2>1, WordsOf
  <2>3. n \in Nat
    BY <2>1
  <2> QED  BY <2>1, <2>2, <2>3 DEF BumpHolds
<1>3. r = IF new.bp = 0 THEN new ELSE Result(c, new.bp)
  BY <1>2, BackupWords DEF Backup!mm_realloc
<1>4. Bumped(h, size, new)
  BY <1>1, BackupMallocEffect
<1> HIDE DEF new, p, old
<1>5. CASE new.bp = 0
  BY <1>3, <1>4, <1>5 DEF Bumped
<1>6. CASE new.bp # 0
  <2>1. /\ new.bp = h.brk + 2 /\ new.heap \in Heap /\ new.heap.file = h.file
        /\ new.bp + size \div 4 <= new.heap.brk
        /\ new.heap.mem[h.brk].size = size
        /\ \A w \in Word : w < h.brk => new.heap.mem[w] = h.mem[w]
    BY <1>4, <1>6 DEF Bumped
  <2>2. /\ h.brk \in Nat /\ h.brk <= MAX_HEAP /\ new.heap.brk \in Nat /\ new.heap.brk <= MAX_HEAP
        /\ size \div 4 \in Nat
    <3>1. size \div 4 \in Nat
      OBVIOUS
    <3> QED  BY <1>1, <2>1, <3>1, HeapAssumption DEF Heap
  <2>3. new.bp \in Nat
    BY <2>1, <2>2
  <2> HIDE DEF n
  <2>4. Copied(c, new.heap, new.bp, p, n \div 4)
    BY <1>2, <2>1, <2>3, CopyAt
  <2> HIDE DEF c
  <2>5. \A w \in Word : w < h.brk + 2 => c.mem[w] = new.heap.mem[w]
    <3> TAKE w \in Word
    <3> HAVE w < h.brk + 2
    <3>1. w \notin new.bp .. new.bp + n \div 4 - 1
      BY <2>1, <2>2, HeapAssumption DEF Word
    <3> QED  BY <2>4, <3>1 DEF Copied
  <2>6. \A w \in Word : w < h.brk => c.mem[w] = h.mem[w]
    <3> TAKE w \in Word
    <3> HAVE w < h.brk
    <3>1. w < h.brk + 2
      BY <2>2, HeapAssumption DEF Word
    <3> QED  BY <2>1, <2>5, <3>1
  <2>7. c.mem[new.bp - 2].size = size
    <3>1. h.brk \in Word /\ h.brk < h.brk + 2 /\ new.bp - 2 = h.brk
      BY <2>1, <2>2, HeapAssumption DEF Word
    <3> QED  BY <2>1, <2>5, <3>1
  <2>8. c \in Heap /\ c.file = h.file /\ c.brk = new.heap.brk
    BY <2>1, <2>4 DEF Copied, SameRest
  <2>9. Given(h, L, id, new.bp, size, c)
    BY <1>1, <2>1, <2>6, <2>7, <2>8, BumpGiven
  <2>10. ASSUME NEW i \in Nat, i < size \div 4, i < old \div 4
         PROVE  c.mem[new.bp + i] = h.mem[p + i]
    <3>1. i < n \div 4
      BY <2>10 DEF n
    <3>2. new.bp + i \in Word /\ p + i \in Word /\ p + i < h.brk
      BY <1>2, <2>1, <2>2, <2>10, HeapAssumption DEF Word
    <3>3. c.mem[new.bp + i] = new.heap.mem[p + i]
      BY <2>4, <3>1, <3>2 DEF Copied
    <3> QED  BY <2>1, <3>2, <3>3
  <2>11. r.heap = c /\ r.bp = new.bp
    BY <1>3, <1>6 DEF Result
  <2> QED  BY <1>6, <2>9, <2>10, <2>11 DEF p, old
<1> QED  BY <1>5, <1>6

(* Filling a block writes on no other, nor on a header.                    *)
LEMMA BumpFilled ==
    ASSUME NEW h, NEW L, BumpHolds(h, L), ~Tiling(h), NEW id \in HeldIn(L), NEW d,
           NEW g, SetTo(g, h, L[id].ptr, L[id].size \div 4, d)
    PROVE  Filled(h, L, id, d, g)
<1>1. /\ h \in Heap /\ L \in Live /\ h.brk \in Nat /\ h.brk <= MAX_HEAP
      /\ g \in Heap /\ g.file = h.file /\ g.brk = h.brk
  BY HeapAssumption DEF BumpHolds, Heap, SetTo, SameRest
<1>2. ASSUME NEW j \in HeldIn(L)
      PROVE  /\ L[j].ptr \in Nat /\ L[j].size \in Nat /\ L[j].size \div 4 \in Nat
             /\ 2 <= L[j].ptr /\ L[j].ptr + L[j].size \div 4 <= h.brk
             /\ h.mem[L[j].ptr - 2].size = L[j].size
  <2>1. j \in Id /\ L[j].ptr \in Nat /\ L[j].size \in Nat
    BY <1>1 DEF HeldIn, Live
  <2>2. L[j].size \div 4 \in Nat
    BY <2>1, WordsOf
  <2> QED  BY <2>1, <2>2 DEF BumpHolds
<1> DEFINE p == L[id].ptr  n == L[id].size \div 4
<1>3. ASSUME NEW j \in HeldIn(L), j # id
      PROVE  L[j].ptr + L[j].size \div 4 + 2 <= p \/ p + n + 2 <= L[j].ptr
  BY <1>3 DEF BumpHolds
<1>4. ASSUME NEW w \in Word
      PROVE  g.mem[w] = IF w \in p .. p + n - 1 THEN Data(d) ELSE h.mem[w]
  BY DEF SetTo
<1>5. ASSUME NEW j \in HeldIn(L), NEW w \in L[j].ptr - 2 .. L[j].ptr + L[j].size \div 4 - 1
      PROVE  /\ w \in Word
             /\ j # id \/ w < L[j].ptr => w \notin p .. p + n - 1
  <2>1. w \in Word
    BY <1>1, <1>2, HeapAssumption DEF Word
  <2>2. p \in Nat /\ n \in Nat
    BY <1>2
  <2>3. CASE j = id
    <3>1. w < p => w \notin p .. p + n - 1
      <4>1. w \in Int
        BY <1>2, <1>5
      <4> HIDE DEF p, n
      <4> QED  BY <2>2, <4>1
    <3> QED  BY <2>1, <2>3, <3>1
  <2>4. CASE j # id
    <3>1. L[j].ptr + L[j].size \div 4 + 2 <= p \/ p + n + 2 <= L[j].ptr
      BY <1>3, <2>4
    <3>2. L[j].ptr \in Nat /\ L[j].size \div 4 \in Nat
      BY <1>2
    <3> HIDE DEF p, n
    <3> QED  BY <2>1, <2>2, <3>1, <3>2
  <2> QED  BY <2>3, <2>4
<1>6. \A j \in HeldIn(L) : g.mem[L[j].ptr - 2] = h.mem[L[j].ptr - 2]
  <2> TAKE j \in HeldIn(L)
  <2>1. /\ L[j].ptr - 2 \in L[j].ptr - 2 .. L[j].ptr + L[j].size \div 4 - 1
        /\ L[j].ptr - 2 < L[j].ptr
    BY <1>2
  <2>2. L[j].ptr - 2 \in Word /\ L[j].ptr - 2 \notin p .. p + n - 1
    BY <1>5, <2>1
  <2> QED  BY <1>4, <2>2
<1>7. Stays(h, g, L, HeldIn(L) \ {id})
  <2>1. ASSUME NEW j \in HeldIn(L) \ {id}, NEW w \in L[j].ptr .. L[j].ptr + L[j].size \div 4 - 1
        PROVE  g.mem[w] = h.mem[w]
    <3>1. w \in L[j].ptr - 2 .. L[j].ptr + L[j].size \div 4 - 1
      BY <1>2
    <3>2. w \in Word /\ w \notin p .. p + n - 1
      BY <1>5, <3>1
    <3> QED  BY <1>4, <3>2
  <2> QED  BY <2>1 DEF Stays
<1>8. BumpHolds(g, L)
  BY <1>1, <1>2, <1>6 DEF BumpHolds
<1>9. Holds(g, L)
  BY <1>1, <1>8 DEF Holds, Tiling, Linked
<1>10. \A w \in p .. p + n - 1 : g.mem[w] = Data(d)
  <2> TAKE w \in p .. p + n - 1
  <2>1. w \in Word
    BY <1>1, <1>2, HeapAssumption DEF Word
  <2> QED  BY <1>4, <2>1
<1> QED  BY <1>7, <1>9, <1>10 DEF Filled

(* mm_free of mm_backup.c does nothing.                                    *)
LEMMA BumpFreed ==
    ASSUME NEW h, NEW L, BumpHolds(h, L), ~Tiling(h), NEW id \in HeldIn(L)
    PROVE  Taken(h, L, id, h)
<1> DEFINE K == [L EXCEPT ![id] = NoBlock]
<1>1. L \in Live /\ id \in Id
  BY DEF BumpHolds, HeldIn
<1>2. Without(K, L, id)
  BY <1>1, TakenLive
<1> HIDE DEF K
<1>3. \A j \in HeldIn(K) : j \in HeldIn(L) /\ K[j] = L[j]
  BY <1>2 DEF Without, HeldIn
<1>4. BumpHolds(h, K)
  BY <1>2, <1>3 DEF BumpHolds, Without
<1>5. Holds(h, K)
  BY <1>4 DEF Holds
<1>6. Stays(h, h, L, HeldIn(L) \ {id})
  BY DEF Stays
<1> QED  BY <1>5, <1>6 DEF Taken, K

(***************************************************************************)
(* The calls, whichever allocator is compiled in.                          *)
(***************************************************************************)

(* mm_v1.c has every footer right.                                         *)
LEMMA V1Exact ==
    ASSUME NEW h, NEW B, NEW X, NEW L, TilesHold(h, B, X, L), h.file = "mm_v1"
    PROVE  X = {} /\ Tiling(h) /\ ~Linked(h) /\ Sound(h, B, {}) /\ L \in Live
<1>1. X = {}
  BY DEF TilesHold, Late
<1> QED  BY <1>1, Four DEF TilesHold, Tiling

(* mm_malloc gives nothing, or a block; the others are kept.               *)
LEMMA MallocHolds ==
    ASSUME NEW h, NEW L, Holds(h, L), NEW id \in Id, id \notin HeldIn(L), NEW size \in Nat,
           Suits(h, NULL, size), NEW r, r = mm_malloc(h, size)
    PROVE  IF r.bp = 0 THEN r.heap = h ELSE Given(h, L, id, r.bp, size, r.heap)
<1>1. CASE Tiling(h)
  <2>1. PICK B, X : TilesHold(h, B, X, L)
    BY <1>1 DEF Holds, TileHolds
  <2>2. Malloced(h, B, X, size, r)
    <3>1. CASE h.file = "mm_v1"
      <4>1. X = {} /\ Sound(h, B, {})
        BY <2>1, <3>1, V1Exact
      <4>2. r = V1!mm_malloc(h, size)
        BY <3>1 DEF mm_malloc, Linked
      <4> QED  BY <3>1, <4>1, <4>2, V1MallocEffect
    <3>2. CASE h.file # "mm_v1"
      <4>1. Linked(h)
        BY <1>1, <3>2 DEF Tiling
      <4>2. r = V3!mm_malloc(h, size)
        BY <3>2, <4>1 DEF mm_malloc
      <4>3. Sound(h, B, X) /\ Late(h, B, X) /\ V3!SuitsMalloc(h, size)
        BY <2>1, <4>1 DEF TilesHold, Suits
      <4> QED  BY <4>1, <4>2, <4>3, MallocEffect
    <3> QED  BY <3>1, <3>2
  <2>3. CASE r.bp = 0
    BY <2>2, <2>3 DEF Malloced
  <2>4. CASE r.bp # 0
    BY <1>1, <2>1, <2>2, <2>4, TilesMalloced
  <2> QED  BY <2>3, <2>4
<1>2. CASE ~Tiling(h)
  <2>1. BumpHolds(h, L) /\ r = Backup!mm_malloc(h, size)
    BY <1>2 DEF Holds, mm_malloc, Tiling
  <2>2. Bumped(h, size, r)
    BY <2>1, BackupMallocEffect DEF BumpHolds
  <2>3. CASE r.bp = 0
    BY <2>2, <2>3 DEF Bumped
  <2>4. CASE r.bp # 0
    <3>1. /\ r.bp = h.brk + 2 /\ r.heap \in Heap /\ r.heap.file = h.file
          /\ r.bp + size \div 4 <= r.heap.brk
          /\ r.heap.mem[h.brk].size = size
          /\ \A w \in Word : w < h.brk => r.heap.mem[w] = h.mem[w]
      BY <2>2, <2>4 DEF Bumped
    <3>2. r.bp - 2 = h.brk
      BY <2>1, <3>1, HeapAssumption DEF BumpHolds, Heap
    <3> QED  BY <1>2, <2>1, <2>4, <3>1, <3>2, BumpGiven
  <2> QED  BY <2>3, <2>4
<1> QED  BY <1>1, <1>2

(* mm_realloc gives nothing, or a block with the words of the old one.     *)
LEMMA ReallocHolds ==
    ASSUME NEW h, NEW L, Holds(h, L), NEW id \in HeldIn(L), NEW size \in Nat,
           Suits(h, L[id].ptr, size), NEW r, r = mm_realloc(h, L[id].ptr, size)
    PROVE  IF r.bp = 0 THEN r.heap = h
           ELSE /\ Given(h, L, id, r.bp, size, r.heap)
                /\ \A i \in Nat : i < size \div 4 /\ i < L[id].size \div 4
                                  => r.heap.mem[r.bp + i] = h.mem[L[id].ptr + i]
<1> DEFINE p == L[id].ptr
<1>1. CASE Tiling(h)
  <2>1. PICK B, X : TilesHold(h, B, X, L)
    BY <1>1 DEF Holds, TileHolds
  <2>2. p \in UsedIn(h.mem, B) /\ p # 2 /\ p # 0
    BY <2>1 DEF TilesHold, HeldIn
  <2> HIDE DEF p
  <2>3. Realloced(h, B, p, size, r)
    <3>1. CASE h.file = "mm_v1"
      <4>1. Sound(h, B, {})
        BY <2>1, <3>1, V1Exact
      <4>2. r = V1!mm_realloc(h, p, size)
        BY <3>1 DEF mm_realloc, p, Linked
      <4> QED  BY <2>2, <3>1, <4>1, <4>2, V1ReallocEffect
    <3>2. CASE h.file # "mm_v1"
      <4>1. Linked(h)
        BY <1>1, <3>2 DEF Tiling
      <4>2. r = V3!mm_realloc(h, p, size)
        BY <3>2, <4>1 DEF mm_realloc, p
      <4>3. Sound(h, B, X) /\ Late(h, B, X) /\ V3!SuitsRealloc(h, p, size)
        BY <2>1, <2>2, <4>1 DEF TilesHold, Suits, NULL, p
      <4> QED  BY <2>2, <4>1, <4>2, <4>3, ReallocEffect
    <3> QED  BY <3>1, <3>2
  <2>4. CASE r.bp = 0
    BY <2>3, <2>4 DEF Realloced
  <2>5. CASE r.bp # 0
    <3>1. Realloced(h, B, L[id].ptr, size, r)
      BY <2>3 DEF p
    <3>2. /\ Given(h, L, id, r.bp, size, r.heap)
          /\ \A i \in Nat : i < size \div 4 /\ i < L[id].size \div 4
                             => r.heap.mem[r.bp + i] = h.mem[L[id].ptr + i]
      BY <1>1, <2>1, <2>5, <3>1, TilesRealloced
    <3> QED  BY <2>5, <3>2
  <2> QED  BY <2>4, <2>5
<1>2. CASE ~Tiling(h)
  <2>1. BumpHolds(h, L) /\ r = Backup!mm_realloc(h, L[id].ptr, size)
    BY <1>2 DEF Holds, mm_realloc, Tiling
  <2> QED  BY <1>2, <2>1, BumpRealloced
<1> QED  BY <1>1, <1>2

(* mm_free takes the block and keeps the others.                           *)
LEMMA FreeHolds ==
    ASSUME NEW h, NEW L, Holds(h, L), NEW id \in HeldIn(L)
    PROVE  Taken(h, L, id, mm_free(h, L[id].ptr))
<1> DEFINE p == L[id].ptr  g == mm_free(h, p)
<1>1. CASE Tiling(h)
  <2>1. PICK B, X : TilesHold(h, B, X, L)
    BY <1>1 DEF Holds, TileHolds
  <2>2. p \in UsedIn(h.mem, B) /\ p # 2
    BY <2>1 DEF TilesHold
  <2>3. Freed(h, B, X, p, g)
    <3> HIDE DEF p
    <3>1. CASE h.file = "mm_v1"
      <4>1. X = {} /\ Sound(h, B, {})
        BY <2>1, <3>1, V1Exact
      <4>2. g = V1!mm_free(h, p)
        BY <3>1 DEF mm_free, Linked
      <4> QED  BY <2>2, <3>1, <4>1, <4>2, V1FreeEffect
    <3>2. CASE h.file # "mm_v1"
      <4>1. Linked(h)
        BY <1>1, <3>2 DEF Tiling
      <4>2. g = V3!mm_free(h, p)
        BY <3>2, <4>1 DEF mm_free
      <4>3. Sound(h, B, X) /\ Late(h, B, X)
        BY <2>1 DEF TilesHold
      <4> QED  BY <2>2, <4>1, <4>2, <4>3, FreeEffect
    <3> QED  BY <3>1, <3>2
  <2> HIDE DEF g
  <2>4. Taken(h, L, id, g)
    BY <1>1, <2>1, <2>3, TilesFreed
  <2> QED  BY <2>4 DEF g
<1>2. CASE ~Tiling(h)
  <2>1. BumpHolds(h, L) /\ g = h
    BY <1>2 DEF Holds, mm_free, Tiling, Backup!mm_free
  <2>2. Taken(h, L, id, h)
    BY <1>2, <2>1, BumpFreed
  <2> QED  BY <2>1, <2>2
<1> QED  BY <1>1, <1>2

(* memset fills the block and keeps the others.                            *)
LEMMA FillHolds ==
    ASSUME NEW h, NEW L, Holds(h, L), NEW id \in HeldIn(L), NEW d \in Id \cup {NoId}
    PROVE  Filled(h, L, id, d, memset(h, L[id].ptr, d, L[id].size))
<1> DEFINE g == memset(h, L[id].ptr, d, L[id].size)
<1>1. h \in Heap
  BY DEF Holds, TileHolds, TilesHold, Sound, BumpHolds
<1>2. SetTo(g, h, L[id].ptr, L[id].size \div 4, d)
  BY <1>1, SetAt
<1> HIDE DEF g
<1>3. CASE Tiling(h)
  <2>1. PICK B, X : TilesHold(h, B, X, L)
    BY <1>3 DEF Holds, TileHolds
  <2>2. Filled(h, L, id, d, g)
    BY <1>2, <1>3, <2>1, TilesFilled
  <2> QED  BY <2>2 DEF g
<1>4. CASE ~Tiling(h)
  <2>1. BumpHolds(h, L)
    BY <1>4 DEF Holds
  <2>2. Filled(h, L, id, d, g)
    BY <1>2, <1>4, <2>1, BumpFilled
  <2> QED  BY <2>2 DEF g
<1> QED  BY <1>3, <1>4

(* mm_init makes a heap for a client without blocks, from any heap.        *)
LEMMA InitHolds ==
    ASSUME NEW h \in Heap, NEW L \in Live, HeldIn(L) = {}
    PROVE  Holds(mm_init(h), L)
<1>1. CASE Tiling(h)
  <2>1. Fresh(h, mm_init(h))
    <3>1. CASE h.file = "mm_v1"
      <4>1. mm_init(h) = V1!mm_init(h)
        BY <3>1 DEF mm_init, Linked
      <4> QED  BY <3>1, <4>1, V1InitEffect
    <3>2. CASE h.file # "mm_v1"
      <4>1. Linked(h)
        BY <1>1, <3>2 DEF Tiling
      <4>2. mm_init(h) = V3!mm_init(h)
        BY <3>2, <4>1 DEF mm_init
      <4> QED  BY <4>1, <4>2, InitEffect
    <3> QED  BY <3>1, <3>2
  <2> QED  BY <1>1, <2>1, TilesFresh
<1>2. CASE ~Tiling(h)
  <2>1. mm_init(h) = h
    BY <1>2 DEF mm_init, Tiling, Backup!mm_init
  <2> QED  BY <1>2, <2>1 DEF Holds, BumpHolds
<1> QED  BY <1>1, <1>2

(***************************************************************************)
(* The inductive invariant.                                                *)
(***************************************************************************)

(* The block the client fills is one it holds.                             *)
FillingHeld == filling \in Id \cup {NoId} /\ (filling # NoId => filling \in HeldIn(live))
(* The blocks the client holds are blocks of a sound heap.                 *)
ClientHolds == live \in Live /\ FillingHeld /\ Holds(heap, live)

(* The types.                                                              *)
LEMMA HoldsHeap ==
    ASSUME NEW h, NEW L, Holds(h, L)
    PROVE  h \in Heap /\ L \in Live
BY DEF Holds, TileHolds, TilesHold, Sound, BumpHolds

(* A client without blocks.                                                *)
LEMMA NoneHeld ==
    LET K == [id \in Id |-> NoBlock]
    IN  K \in Live /\ HeldIn(K) = {}
BY DEF Live, HeldIn, NoBlock, NULL

(* A call that returns r for id, what the client holds then.               *)
LEMMA ReturnsHolds ==
    ASSUME ClientHolds, filling = NoId, NEW id \in Id, NEW size \in Nat, NEW r,
           r.bp = 0 => r.heap = heap,
           r.bp # 0 => Given(heap, live, id, r.bp, size, r.heap),
           Returns(r, id, size)
    PROVE  ClientHolds'
<1>1. heap' = r.heap
  BY DEF Returns
<1>2. CASE r.bp = 0
  <2>1. heap' = heap /\ live' = live /\ filling' = filling
    BY <1>1, <1>2 DEF Returns, NULL
  <2> QED  BY <2>1 DEF ClientHolds, FillingHeld
<1>3. CASE r.bp # 0
  <2> DEFINE K == [live EXCEPT ![id] = [ptr |-> r.bp, size |-> size]]
  <2>1. live' = K /\ filling' = id
    BY <1>3 DEF Returns, NULL
  <2>2. Holds(r.heap, K)
    BY <1>3 DEF Given
  <2>3. K \in Live /\ K[id].ptr = r.bp
    BY <2>2, HoldsHeap DEF ClientHolds, Live
  <2>4. id \in HeldIn(K)
    BY <1>3, <2>3 DEF HeldIn
  <2> HIDE DEF K
  <2>5. Holds(heap', live') /\ live' \in Live /\ filling' \in HeldIn(live')
    BY <1>1, <2>1, <2>2, <2>3, <2>4
  <2> QED  BY <2>1, <2>5 DEF ClientHolds, FillingHeld
<1> QED  BY <1>2, <1>3

(* Every allocator's first mm_init makes ClientHolds true.                 *)
THEOREM ClientHoldsInit == Init => ClientHolds
<1> SUFFICES ASSUME Init PROVE ClientHolds
  OBVIOUS
<1>1. PICK file \in Files : heap = mm_init(mem_init(file))
  BY DEF Init
<1>2. mem_init(file) \in Heap
  <2>1. Data(NoId) \in WordValue
    BY DataIs
  <2>2. [w \in Word |-> Data(NoId)] \in Memory
    BY <2>1 DEF Memory
  <2>3. 0 \in 0 .. MAX_HEAP
    BY HeapAssumption
  <2> QED  BY <2>2, <2>3 DEF mem_init, Heap, NULL
<1>3. live \in Live /\ HeldIn(live) = {} /\ filling = NoId
  BY NoneHeld DEF Init
<1>4. Holds(heap, live)
  BY <1>1, <1>2, <1>3, InitHolds
<1> QED  BY <1>3, <1>4 DEF ClientHolds, FillingHeld

(* The next trace begins on the heap the last one has left.                *)
LEMMA RestartHolds ==
    ASSUME ClientHolds, Restart
    PROVE  ClientHolds'
<1>1. mem_reset_brk(heap) \in Heap
  <2>1. heap \in Heap /\ 0 \in 0 .. MAX_HEAP
    BY HoldsHeap, HeapAssumption DEF ClientHolds
  <2> QED  BY <2>1 DEF mem_reset_brk, Heap
<1>2. live' \in Live /\ HeldIn(live') = {}
  <2>1. live' = [id \in Id |-> NoBlock]
    BY DEF Restart
  <2> QED  BY <2>1, NoneHeld
<1>3. heap' = mm_init(mem_reset_brk(heap)) /\ filling' = NoId
  BY DEF Restart
<1>4. Holds(heap', live')
  BY <1>1, <1>2, <1>3, InitHolds
<1> QED  BY <1>2, <1>3, <1>4 DEF ClientHolds, FillingHeld

(* What a call of mm_malloc does for the client.                           *)
LEMMA MallocStep ==
    ASSUME ClientHolds, NEW id \in Id, NEW size \in Sizes, Malloc(id, size)
    PROVE  LET r == mm_malloc(heap, size)
           IN  /\ r.bp = 0 => r.heap = heap
               /\ r.bp # 0 => Given(heap, live, id, r.bp, size, r.heap)
               /\ Returns(r, id, size) /\ filling = NoId /\ size \in Nat
<1> DEFINE r == mm_malloc(heap, size)
<1>1. /\ id \notin HeldIn(live) /\ Suits(heap, NULL, size)
      /\ Returns(r, id, size) /\ filling = NoId
  BY DEF Malloc, Held, HeldIn, NULL
<1>2. size \in Nat
  BY ClientAssumption
<1>3. Holds(heap, live) /\ r = mm_malloc(heap, size)
  BY DEF ClientHolds
<1> HIDE DEF r
<1>4. IF r.bp = 0 THEN r.heap = heap ELSE Given(heap, live, id, r.bp, size, r.heap)
  BY <1>1, <1>2, <1>3, MallocHolds
<1> QED  BY <1>1, <1>2, <1>4 DEF r

(* What a call of mm_realloc does for the client.                          *)
LEMMA ReallocStep ==
    ASSUME ClientHolds, NEW id \in Id, NEW size \in Sizes, Realloc(id, size)
    PROVE  LET r == mm_realloc(heap, live[id].ptr, size)
           IN  /\ r.bp = 0 => r.heap = heap
               /\ r.bp # 0 =>
                     /\ Given(heap, live, id, r.bp, size, r.heap)
                     /\ \A i \in Nat : i < size \div 4 /\ i < live[id].size \div 4
                                       => r.heap.mem[r.bp + i] = heap.mem[live[id].ptr + i]
               /\ Returns(r, id, size) /\ filling = NoId /\ size \in Nat /\ id \in HeldIn(live)
<1> DEFINE r == mm_realloc(heap, live[id].ptr, size)
<1>1. /\ id \in HeldIn(live) /\ Suits(heap, live[id].ptr, size)
      /\ Returns(r, id, size) /\ filling = NoId
  BY DEF Realloc, Held, HeldIn, NULL
<1>2. size \in Nat
  BY ClientAssumption
<1>3. Holds(heap, live) /\ r = mm_realloc(heap, live[id].ptr, size)
  BY DEF ClientHolds
<1> HIDE DEF r
<1>4. IF r.bp = 0 THEN r.heap = heap
      ELSE /\ Given(heap, live, id, r.bp, size, r.heap)
           /\ \A i \in Nat : i < size \div 4 /\ i < live[id].size \div 4
                             => r.heap.mem[r.bp + i] = heap.mem[live[id].ptr + i]
  BY <1>1, <1>2, <1>3, ReallocHolds
<1> QED  BY <1>1, <1>2, <1>4 DEF r

(* What a call of mm_free does for the client.                             *)
LEMMA FreeStep ==
    ASSUME ClientHolds, NEW id \in Id, Free(id)
    PROVE  /\ Taken(heap, live, id, heap') /\ id \in HeldIn(live) /\ filling' = NoId
           /\ live' = [live EXCEPT ![id] = NoBlock]
<1>1. id \in HeldIn(live) /\ heap' = mm_free(heap, live[id].ptr)
  BY DEF Free, Held, HeldIn, NULL
<1>2. Taken(heap, live, id, mm_free(heap, live[id].ptr))
  BY <1>1, FreeHolds DEF ClientHolds
<1> QED  BY <1>1, <1>2 DEF Free

(* What filling a block does for the client.                               *)
LEMMA FillStep ==
    ASSUME ClientHolds, Fill
    PROVE  /\ filling \in HeldIn(live) /\ Filled(heap, live, filling, filling, heap')
           /\ live' = live /\ filling' = NoId
<1>1. filling \in HeldIn(live) /\ filling \in Id \cup {NoId}
  BY DEF Fill, ClientHolds, FillingHeld
<1>2. heap' = memset(heap, live[filling].ptr, filling, live[filling].size)
  BY DEF Fill
<1>3. Holds(heap, live)
  BY DEF ClientHolds
<1>4. Filled(heap, live, filling, filling,
             memset(heap, live[filling].ptr, filling, live[filling].size))
  BY <1>1, <1>3, FillHolds
<1> QED  BY <1>1, <1>2, <1>4 DEF Fill

(* Every call of every allocator keeps ClientHolds.                        *)
THEOREM ClientHoldsNext == ClientHolds /\ [Next]_vars => ClientHolds'
<1> SUFFICES ASSUME ClientHolds, [Next]_vars PROVE ClientHolds'
  OBVIOUS
<1>1. CASE Restart
  BY <1>1, RestartHolds
<1>2. ASSUME NEW id \in Id, NEW size \in Sizes, Malloc(id, size)
      PROVE  ClientHolds'
  <2> DEFINE r == mm_malloc(heap, size)
  <2>1. /\ r.bp = 0 => r.heap = heap
        /\ r.bp # 0 => Given(heap, live, id, r.bp, size, r.heap)
        /\ Returns(r, id, size) /\ filling = NoId /\ size \in Nat
    BY <1>2, MallocStep
  <2> HIDE DEF r
  <2> QED  BY <2>1, ReturnsHolds
<1>3. ASSUME NEW id \in Id, NEW size \in Sizes, Realloc(id, size)
      PROVE  ClientHolds'
  <2> DEFINE r == mm_realloc(heap, live[id].ptr, size)
  <2>1. /\ r.bp = 0 => r.heap = heap
        /\ r.bp # 0 => Given(heap, live, id, r.bp, size, r.heap)
        /\ Returns(r, id, size) /\ filling = NoId /\ size \in Nat
    BY <1>3, ReallocStep
  <2> HIDE DEF r
  <2> QED  BY <2>1, ReturnsHolds
<1>4. ASSUME NEW id \in Id, Free(id)
      PROVE  ClientHolds'
  <2>1. /\ Taken(heap, live, id, heap') /\ filling' = NoId
        /\ live' = [live EXCEPT ![id] = NoBlock]
    BY <1>4, FreeStep
  <2>2. Holds(heap', live')
    BY <2>1 DEF Taken
  <2>3. live' \in Live
    BY <2>2, HoldsHeap
  <2> QED  BY <2>1, <2>2, <2>3 DEF ClientHolds, FillingHeld
<1>5. CASE Fill
  <2>1. Filled(heap, live, filling, filling, heap') /\ live' = live /\ filling' = NoId
    BY <1>5, FillStep
  <2>2. Holds(heap', live')
    BY <2>1 DEF Filled
  <2>3. live' \in Live
    BY <2>2, HoldsHeap
  <2> QED  BY <2>1, <2>2, <2>3 DEF ClientHolds, FillingHeld
<1>6. CASE UNCHANGED vars
  BY <1>6 DEF vars, ClientHolds, FillingHeld
<1> QED  BY <1>1, <1>2, <1>3, <1>4, <1>5, <1>6 DEF Next

(* Whatever the client calls, in whatever order, and however often it      *)
(* starts over on the used heap: the blocks it holds are in use, apart,    *)
(* large enough, and the heap of its allocator is sound.                   *)
THEOREM ClientHoldsAlways == Spec => []ClientHolds
BY ClientHoldsInit, ClientHoldsNext, PTL DEF Spec

(***************************************************************************)
(* The list and the blocks, of a sound heap of v3 or v4.                   *)
(***************************************************************************)

(* Both see the same blocks.                                               *)
LEMMA V3BlocksAre == \A h : V3!Blocks(h) = Blocks(h)
BY V3Words DEF V3!Blocks, Blocks

(* GET_ALLOC tells the blocks in use from the free ones.                   *)
LEMMA AllocIs ==
    ASSUME NEW h, NEW B, NEW X, NEW k, Least(k), Tiled(h.mem, h.brk, B, X, k), NEW b \in B
    PROVE  /\ GET_ALLOC(h, HDRP(b)) <=> b \in UsedIn(h.mem, B)
           /\ ~GET_ALLOC(h, HDRP(b)) <=> b \in FreeIn(h.mem, B)
<1>1. h.mem[b - 1].alloc \in {0, 1}
  BY BlockFacts
<1> QED  BY <1>1 DEF GET_ALLOC, HDRP, UsedIn, FreeIn

(* The blocks w and the list v, as the properties of FreeLists see them.   *)
BlocksAndNodes(h, B, w, v, n) ==
    /\ w \in Seq(Nat) /\ Len(w) >= 1 /\ Len(w) \in Nat
    /\ \A i \in 1 .. Len(w) : w[i] \in B
    /\ \A b \in B : \E i \in 1 .. Len(w) : w[i] = b
    /\ \A i, j \in 1 .. Len(w) : w[i] = w[j] => i = j
    /\ w[Len(w)] + h.mem[w[Len(w)] - 1].size = h.brk
    /\ n \in Nat /\ v \in Seq(Nat) /\ Len(v) = n
    /\ \A k \in 1 .. n : v[k] \in FreeIn(h.mem, B)
    /\ \A b \in FreeIn(h.mem, B) : \E k \in 1 .. n : v[k] = b
    /\ \A j, k \in 1 .. n : v[j] = v[k] => j = k
    /\ n # 0 => h.blk_headp = v[1]
    /\ \A k \in 1 .. n :
        /\ v[k] \in Nat /\ v[k] # 0 /\ h.mem[v[k]].alloc = 0
        /\ h.mem[v[k]].addr = IF k = 1 THEN 0 ELSE v[k - 1]
        /\ h.mem[v[k] + 2].addr = IF k = n THEN 0 ELSE v[k + 1]

(* They are, in every sound heap.                                          *)
LEMMA BlocksAndNodesAre ==
    ASSUME NEW h, NEW B, NEW X, Sound(h, B, X), Linked(h)
    PROVE  \E n : BlocksAndNodes(h, B, V3!Blocks(h), V3!FreeList(h), n)
<1> DEFINE w == V3!Blocks(h)  v == V3!FreeList(h)  F == FreeIn(h.mem, B)
<1>1. /\ h \in Heap /\ Tiled(h.mem, h.brk, B, X, 6) /\ Least(6) /\ ListOf(h, F)
  BY Six DEF Sound, Room
<1>2. /\ w \in Seq(Nat) /\ Len(w) >= 1 /\ Len(w) \in Nat
      /\ \A i \in 1 .. Len(w) : w[i] \in B
      /\ \A b \in B : \E i \in 1 .. Len(w) : w[i] = b
      /\ \A i, j \in 1 .. Len(w) : w[i] = w[j] => i = j
      /\ w[Len(w)] + h.mem[w[Len(w)] - 1].size = h.brk
  <2>1. LET u == Blocks(h)
        IN  /\ u \in Seq(Nat) /\ Len(u) >= 1 /\ Len(u) \in Nat
            /\ \A i \in 1 .. Len(u) : u[i] \in B
            /\ \A b \in B : \E i \in 1 .. Len(u) : u[i] = b
            /\ \A i, j \in 1 .. Len(u) : u[i] = u[j] => i = j
            /\ u[Len(u)] + h.mem[u[Len(u)] - 1].size = h.brk
    BY <1>1, BlocksAre, Zenon
  <2>2. w = Blocks(h)
    BY V3BlocksAre
  <2> HIDE DEF w
  <2> QED  BY <2>1, <2>2, Zenon
<1>3. PICK n \in Nat : \E s \in [1 .. n -> Nat] : Links(h, s, n) /\ Nodes(s, n) = F
  BY <1>1 DEF ListOf
<1>4. PICK s \in [1 .. n -> Nat] : Links(h, s, n) /\ Nodes(s, n) = F
  BY <1>3
<1>5. v \in Seq(Nat) /\ Len(v) = n /\ \A k \in 1 .. n : v[k] = s[k]
  BY <1>1, <1>4, FreeListIs
<1> HIDE DEF w, v
<1>6. \A k \in 1 .. n : v[k] \in F
  <2> TAKE k \in 1 .. n
  <2>1. s[k] \in Nodes(s, n)
    BY DEF Nodes
  <2> QED  BY <1>4, <1>5, <2>1
<1>7. \A b \in F : \E k \in 1 .. n : v[k] = b
  <2> TAKE b \in F
  <2>1. PICK k \in 1 .. n : s[k] = b
    BY <1>4 DEF Nodes
  <2> QED  BY <1>5, <2>1
<1>8. \A j, k \in 1 .. n : v[j] = v[k] => j = k
  <2> TAKE j, k \in 1 .. n
  <2>1. j # k => Clear(s[j], s[k])
    BY <1>4 DEF Links
  <2>2. s[j] \in Nat /\ s[k] \in Nat
    BY <1>4
  <2> QED  BY <1>5, <2>1, <2>2 DEF Clear
<1>9. n # 0 => h.blk_headp = v[1]
  <2> HAVE n # 0
  <2>1. 1 \in 1 .. n
    BY <1>3
  <2>2. h.blk_headp = s[1]
    BY <1>4 DEF Links
  <2> QED  BY <1>5, <2>1, <2>2
<1>10. \A k \in 1 .. n :
         /\ v[k] \in Nat /\ v[k] # 0 /\ h.mem[v[k]].alloc = 0
         /\ h.mem[v[k]].addr = IF k = 1 THEN 0 ELSE v[k - 1]
         /\ h.mem[v[k] + 2].addr = IF k = n THEN 0 ELSE v[k + 1]
  <2> TAKE k \in 1 .. n
  <2>1. /\ NodeAt(s[k]) /\ h.mem[s[k]].alloc = 0
        /\ h.mem[s[k]].addr = IF k = 1 THEN 0 ELSE s[k - 1]
        /\ h.mem[s[k] + 2].addr = IF k = n THEN 0 ELSE s[k + 1]
    BY <1>4 DEF Links, NULL
  <2>2. s[k] \in Nat /\ s[k] # 0
    BY <2>1 DEF NodeAt
  <2>3. k # 1 => v[k - 1] = s[k - 1]
    <3>1. k # 1 => k - 1 \in 1 .. n
      BY <1>3
    <3> QED  BY <1>5, <3>1
  <2>4. k # n => v[k + 1] = s[k + 1]
    <3>1. k # n => k + 1 \in 1 .. n
      BY <1>3
    <3> QED  BY <1>5, <3>1
  <2>5. v[k] = s[k]
    BY <1>5
  <2> QED  BY <2>1, <2>2, <2>3, <2>4, <2>5
<1>11. BlocksAndNodes(h, B, w, v, n)
  BY <1>2, <1>3, <1>5, <1>6, <1>7, <1>8, <1>9, <1>10 DEF BlocksAndNodes
<1> QED  BY <1>11 DEF w, v

(* As many nodes as there are free blocks among the blocks.                *)
LEMMA AsManyNodes ==
    ASSUME NEW h, NEW B, NEW w, NEW v, NEW n, BlocksAndNodes(h, B, w, v, n),
           NEW free, free = {i \in 1 .. Len(w) : w[i] \in FreeIn(h.mem, B)}
    PROVE  Cardinality(free) = n
<1>1. n \in Nat /\ FreeIn(h.mem, B) \subseteq B
  BY DEF BlocksAndNodes, FreeIn
<1> DEFINE f == [k \in 1 .. n |-> CHOOSE i \in 1 .. Len(w) : w[i] = v[k]]
<1>2. \A k \in 1 .. n : f[k] \in free /\ w[f[k]] = v[k]
  <2> TAKE k \in 1 .. n
  <2>1. v[k] \in FreeIn(h.mem, B) /\ v[k] \in B
    BY <1>1 DEF BlocksAndNodes
  <2>2. \E i \in 1 .. Len(w) : w[i] = v[k]
    BY <2>1 DEF BlocksAndNodes
  <2>3. f[k] = CHOOSE i \in 1 .. Len(w) : w[i] = v[k]
    OBVIOUS
  <2> HIDE DEF f
  <2>4. f[k] \in 1 .. Len(w) /\ w[f[k]] = v[k]
    BY <2>2, <2>3
  <2> QED  BY <2>1, <2>4
<1>3. f \in [1 .. n -> free]
  BY <1>2
<1> HIDE DEF f
<1>4. \A j, k \in 1 .. n : f[j] = f[k] => j = k
  <2> TAKE j, k \in 1 .. n
  <2> HAVE f[j] = f[k]
  <2>1. v[j] = v[k]
    BY <1>2
  <2> QED  BY <2>1 DEF BlocksAndNodes
<1>5. \A i \in free : \E k \in 1 .. n : f[k] = i
  <2> TAKE i \in free
  <2>1. i \in 1 .. Len(w) /\ w[i] \in FreeIn(h.mem, B)
    OBVIOUS
  <2>2. PICK k \in 1 .. n : v[k] = w[i]
    BY <2>1 DEF BlocksAndNodes
  <2>3. f[k] \in 1 .. Len(w) /\ w[f[k]] = w[i]
    BY <1>2, <2>2
  <2>4. f[k] = i
    BY <2>1, <2>3 DEF BlocksAndNodes
  <2> QED  BY <2>4
<1>6. f \in Bijection(1 .. n, free)
  <2>1. f \in Injection(1 .. n, free)
    BY <1>3, <1>4 DEF Injection, IsInjective
  <2>2. f \in Surjection(1 .. n, free)
    BY <1>3, <1>5 DEF Surjection
  <2> QED  BY <2>1, <2>2 DEF Bijection
<1>7. IsFiniteSet(1 .. n) /\ Cardinality(1 .. n) = n
  BY <1>1, FS_Interval
<1>8. ExistsBijection(1 .. n, free)
  BY <1>6 DEF ExistsBijection
<1>9. Cardinality(1 .. n) = Cardinality(free)
  BY <1>7, <1>8, FS_Bijection, Zenon
<1> QED  BY <1>7, <1>9

(* The heap the client has, with its blocks and its list.                  *)
LEMMA ListIsInside ==
    ASSUME ClientHolds, Linked(heap)
    PROVE  \E B, X, n : /\ TilesHold(heap, B, X, live)
                        /\ Tiled(heap.mem, heap.brk, B, X, 6)
                        /\ BlocksAndNodes(heap, B, V3!Blocks(heap), V3!FreeList(heap), n)
<1>1. PICK B, X : TilesHold(heap, B, X, live)
  BY DEF ClientHolds, Holds, TileHolds, Tiling
<1>2. Sound(heap, B, X)
  BY <1>1 DEF TilesHold
<1>3. PICK n : BlocksAndNodes(heap, B, V3!Blocks(heap), V3!FreeList(heap), n)
  BY <1>2, BlocksAndNodesAre
<1>4. Tiled(heap.mem, heap.brk, B, X, 6)
  BY <1>2 DEF Sound, Room
<1> QED  BY <1>1, <1>3, <1>4

(* In a heap that holds the client's blocks the list is right.             *)
LEMMA HoldsList == ClientHolds => ListIsTheFreeBlocks
<1> SUFFICES ASSUME ClientHolds, Linked(heap) PROVE ListIsTheFreeBlocks
  BY DEF ListIsTheFreeBlocks
<1> DEFINE w == V3!Blocks(heap)  v == V3!FreeList(heap)  last == w[Len(w)]
<1>1. PICK B, X, n : /\ TilesHold(heap, B, X, live)
                     /\ Tiled(heap.mem, heap.brk, B, X, 6)
                     /\ BlocksAndNodes(heap, B, w, v, n)
  BY ListIsInside
<1> DEFINE F == FreeIn(heap.mem, B)
<1>2. /\ \A i, j \in DOMAIN v : v[i] = v[j] => i = j
      /\ NEXT_BLKP(heap, last) = heap.brk
      /\ DOMAIN v = 1 .. n /\ DOMAIN w = 1 .. Len(w)
  <2> HIDE DEF w, v
  <2>1. DOMAIN v = 1 .. n /\ DOMAIN w = 1 .. Len(w)
    BY <1>1 DEF BlocksAndNodes
  <2> QED  BY <1>1, <2>1 DEF BlocksAndNodes, NEXT_BLKP, GET_SIZE, HDRP
<1> HIDE DEF w, v
<1>3. Elements(v) = F
  <2>1. /\ \A k \in DOMAIN v : v[k] \in F
        /\ \A b \in F : \E k \in DOMAIN v : v[k] = b
    BY <1>1, <1>2 DEF BlocksAndNodes
  <2> HIDE DEF F
  <2>2. \A x \in Elements(v) : x \in F
    BY <2>1, Zenon DEF Elements
  <2>3. \A b \in F : b \in Elements(v)
    BY <2>1, Zenon DEF Elements
  <2> QED  BY <2>2, <2>3
<1>4. Elements(w) = B
  <2>0. /\ \A i \in 1 .. Len(w) : w[i] \in B
        /\ \A b \in B : \E i \in 1 .. Len(w) : w[i] = b
    BY <1>1 DEF BlocksAndNodes
  <2>1. /\ \A k \in DOMAIN w : w[k] \in B
        /\ \A b \in B : \E k \in DOMAIN w : w[k] = b
    BY <1>2, <2>0, Zenon
  <2>2. \A x \in Elements(w) : x \in B
    BY <2>1, Zenon DEF Elements
  <2>3. \A b \in B : b \in Elements(w)
    BY <2>1, Zenon DEF Elements
  <2> QED  BY <2>2, <2>3
<1>5. \A b \in B : /\ ~GET_ALLOC(heap, HDRP(b)) <=> b \in F
                   /\ GET_ALLOC(heap, HDRP(b)) <=> b \in UsedIn(heap.mem, B)
  BY <1>1, Six, AllocIs
<1>6. F \subseteq B /\ UsedIn(heap.mem, B) \subseteq B
  BY DEF FreeIn, UsedIn
<1>7. Elements(v) = {b \in Elements(w) : ~GET_ALLOC(heap, HDRP(b))}
  BY <1>3, <1>4, <1>5, <1>6
<1>8. Elements(w) \ Elements(v) = {heap_listp} \cup {live[id].ptr : id \in {i \in Id : Held(i)}}
  <2>1. {i \in Id : Held(i)} = HeldIn(live)
    BY DEF Held, HeldIn, NULL
  <2>2. UsedIn(heap.mem, B) = {2} \cup {live[id].ptr : id \in HeldIn(live)}
    BY <1>1 DEF TilesHold
  <2>3. Elements(w) \ Elements(v) = UsedIn(heap.mem, B)
    BY <1>3, <1>4, <1>5, <1>6
  <2> QED  BY <2>1, <2>2, <2>3 DEF heap_listp
<1> QED  BY <1>2, <1>7, <1>8 DEF ListIsTheFreeBlocks, w, v

(* mm_check, of the blocks w and the list v.                               *)
LEMMA Checks ==
    ASSUME NEW h, NEW B, NEW X, Sound(h, B, X), Linked(h),
           NEW n, BlocksAndNodes(h, B, V3!Blocks(h), V3!FreeList(h), n)
    PROVE  V3!mm_check(h)
<1> DEFINE w == V3!Blocks(h)  v == V3!FreeList(h)
           free == {i \in DOMAIN w : ~GET_ALLOC(h, HDRP(w[i]))}
<1>1. BlocksAndNodes(h, B, w, v, n)
  OBVIOUS
<1>2. /\ Tiled(h.mem, h.brk, B, X, 6) /\ Merged(h.mem, B)
  BY DEF Sound, Room
<1>3. V3!mm_check(h) <=>
        /\ \A i \in DOMAIN w :
              GET_ALLOC(h, HDRP(w[i])) \/ GET_ALLOC(h, HDRP(NEXT_BLKP(h, w[i])))
        /\ \A i \in DOMAIN v : ~GET_ALLOC(h, v[i])
        /\ Cardinality(free) = Len(v)
        /\ \A i \in DOMAIN v :
              /\ GETADDR(h, PRED(h.blk_headp)) = NULL
              /\ PREV_FREE(h, v[i]) = NEXT_FREE(h, v[i]) => PREV_FREE(h, v[i]) = NULL
              /\ NEXT_FREE(h, v[i]) # NULL => PREV_FREE(h, NEXT_FREE(h, v[i])) = v[i]
  <2>1. /\ V3!NULL = NULL
        /\ \A p : V3!GET_ALLOC(h, p) = GET_ALLOC(h, p)
        /\ \A p : V3!GETADDR(h, p) = GETADDR(h, p)
        /\ \A p : V3!HDRP(p) = HDRP(p) /\ V3!PRED(p) = PRED(p)
        /\ \A p : V3!NEXT_BLKP(h, p) = NEXT_BLKP(h, p)
        /\ \A p : V3!PREV_FREE(h, p) = PREV_FREE(h, p)
        /\ \A p : V3!NEXT_FREE(h, p) = NEXT_FREE(h, p)
    BY V3Words
  <2>2. V3!mm_check(h) <=>
          /\ \A i \in DOMAIN w :
                V3!GET_ALLOC(h, V3!HDRP(w[i])) \/ V3!GET_ALLOC(h, V3!HDRP(V3!NEXT_BLKP(h, w[i])))
          /\ \A i \in DOMAIN v : ~V3!GET_ALLOC(h, v[i])
          /\ Cardinality({i \in DOMAIN w : ~V3!GET_ALLOC(h, V3!HDRP(w[i]))}) = Len(v)
          /\ \A i \in DOMAIN v :
                /\ V3!GETADDR(h, V3!PRED(h.blk_headp)) = V3!NULL
                /\ V3!PREV_FREE(h, v[i]) = V3!NEXT_FREE(h, v[i]) => V3!PREV_FREE(h, v[i]) = V3!NULL
                /\ V3!NEXT_FREE(h, v[i]) # V3!NULL
                     => V3!PREV_FREE(h, V3!NEXT_FREE(h, v[i])) = v[i]
    BY DEF V3!mm_check, V3!Cardinality, Cardinality
  <2> HIDE DEF w, v
  <2>3. {i \in DOMAIN w : ~V3!GET_ALLOC(h, V3!HDRP(w[i]))} = free
    BY <2>1
  <2> HIDE DEF free
  <2> QED  BY <2>1, <2>2, <2>3
<1> HIDE DEF w, v
<1>4. /\ DOMAIN v = 1 .. n /\ DOMAIN w = 1 .. Len(w) /\ Len(v) = n /\ n \in Nat
      /\ \A i \in 1 .. Len(w) : w[i] \in B
      /\ \A j, k \in 1 .. n : v[j] = v[k] => j = k
      /\ \A k \in 1 .. n :
        /\ v[k] \in Nat /\ v[k] # 0 /\ h.mem[v[k]].alloc = 0
        /\ h.mem[v[k]].addr = IF k = 1 THEN 0 ELSE v[k - 1]
        /\ h.mem[v[k] + 2].addr = IF k = n THEN 0 ELSE v[k + 1]
      /\ n # 0 => h.blk_headp = v[1]
  BY <1>1 DEF BlocksAndNodes
<1>5. \A i \in DOMAIN w : GET_ALLOC(h, HDRP(w[i])) \/ GET_ALLOC(h, HDRP(NEXT_BLKP(h, w[i])))
  <2> TAKE i \in DOMAIN w
  <2>1. w[i] \in B
    BY <1>4
  <2>2. h.mem[w[i] - 1].alloc = 1 \/ h.mem[w[i] + h.mem[w[i] - 1].size - 1].alloc = 1
    BY <1>2, <2>1 DEF Merged
  <2>3. w[i] \in Nat /\ h.mem[w[i] - 1].size \in Nat
    BY <1>2, <2>1, Six, BlockFacts
  <2>4. HDRP(NEXT_BLKP(h, w[i])) = w[i] + h.mem[w[i] - 1].size - 1
    BY <2>3 DEF HDRP, NEXT_BLKP, GET_SIZE
  <2> QED  BY <2>2, <2>4 DEF GET_ALLOC, HDRP
<1>6. \A i \in DOMAIN v : ~GET_ALLOC(h, v[i])
  BY <1>4 DEF GET_ALLOC
<1>7. Cardinality(free) = Len(v)
  <2>1. \A b \in B : ~GET_ALLOC(h, HDRP(b)) <=> b \in FreeIn(h.mem, B)
    BY <1>2, Six, AllocIs
  <2>2. free = {i \in 1 .. Len(w) : w[i] \in FreeIn(h.mem, B)}
    BY <1>4, <2>1
  <2> HIDE DEF free
  <2>3. Cardinality(free) = n
    BY <1>1, <2>2, AsManyNodes
  <2> QED  BY <1>4, <2>3
<1>8. ASSUME NEW k \in DOMAIN v
      PROVE  /\ PREV_FREE(h, v[k]) = IF k = 1 THEN 0 ELSE v[k - 1]
             /\ NEXT_FREE(h, v[k]) = IF k = n THEN 0 ELSE v[k + 1]
  BY <1>4 DEF PREV_FREE, NEXT_FREE, GETADDR, PRED, SUCC
<1>9. ASSUME NEW i \in DOMAIN v
      PROVE  /\ GETADDR(h, PRED(h.blk_headp)) = NULL
             /\ PREV_FREE(h, v[i]) = NEXT_FREE(h, v[i]) => PREV_FREE(h, v[i]) = NULL
             /\ NEXT_FREE(h, v[i]) # NULL => PREV_FREE(h, NEXT_FREE(h, v[i])) = v[i]
  <2>1. i \in 1 .. n /\ 1 \in 1 .. n /\ n # 0
    BY <1>4
  <2>2. GETADDR(h, PRED(h.blk_headp)) = NULL
    BY <1>4, <2>1 DEF GETADDR, PRED, NULL
  <2>3. PREV_FREE(h, v[i]) = NEXT_FREE(h, v[i]) => PREV_FREE(h, v[i]) = NULL
    <3>1. i # 1 => i - 1 \in 1 .. n
      BY <1>4, <2>1
    <3>2. i # n => i + 1 \in 1 .. n
      BY <1>4, <2>1
    <3>3. i - 1 # i + 1
      BY <1>4, <2>1
    <3> QED  BY <1>4, <1>8, <3>1, <3>2, <3>3 DEF NULL
  <2>4. NEXT_FREE(h, v[i]) # NULL => PREV_FREE(h, NEXT_FREE(h, v[i])) = v[i]
    <3> HAVE NEXT_FREE(h, v[i]) # NULL
    <3>1. i # n /\ NEXT_FREE(h, v[i]) = v[i + 1]
      BY <1>8 DEF NULL
    <3>2. i + 1 \in 1 .. n /\ i + 1 # 1 /\ (i + 1) - 1 = i
      BY <1>4, <2>1, <3>1
    <3>3. i + 1 \in DOMAIN v
      BY <1>4, <3>2
    <3> QED  BY <1>8, <3>1, <3>2, <3>3
  <2> QED  BY <2>2, <2>3, <2>4
<1> HIDE DEF free
<1> QED  BY <1>3, <1>5, <1>6, <1>7, <1>9

(* mm_check finds nothing in a heap that holds the client's blocks.        *)
LEMMA HoldsCheck == ClientHolds => mm_checkSucceeds
<1> SUFFICES ASSUME ClientHolds, Linked(heap) PROVE V3!mm_check(heap)
  BY DEF mm_checkSucceeds
<1>1. PICK B, X, n : /\ TilesHold(heap, B, X, live)
                     /\ BlocksAndNodes(heap, B, V3!Blocks(heap), V3!FreeList(heap), n)
  BY ListIsInside
<1>2. Sound(heap, B, X)
  BY <1>1 DEF TilesHold
<1> QED  BY <1>1, <1>2, Checks

(* For v3 and v4, whatever the heap, the chunk and the calls: the list     *)
(* has the free blocks, each once, and its links lead both ways.           *)
THEOREM ListIsTheFreeBlocksAlways == Spec => []ListIsTheFreeBlocks
BY ClientHoldsAlways, HoldsList, PTL

(* For v3 and v4: mm_check would succeed after every call.                 *)
THEOREM mm_checkAlwaysSucceeds == Spec => []mm_checkSucceeds
BY ClientHoldsAlways, HoldsCheck, PTL

(***************************************************************************)
(* What the client sees of a block, and that mm.h's functions do what      *)
(* Allocator says.                                                         *)
(***************************************************************************)

(* The block that id has, as Allocator sees it.                            *)
ViewOf(h, L, id) ==
    IF L[id].ptr # 0
    THEN [at |-> L[id].ptr,
          words |-> [i \in 1 .. L[id].size \div 4 |-> h.mem[L[id].ptr + i - 1].id]]
    ELSE NoBlock

(* The views of all ids.                                                   *)
LEMMA ViewsAre ==
    /\ Views = [id \in Id |-> ViewOf(heap, live, id)]
    /\ Views' = [id \in Id |-> ViewOf(heap', live', id)]
<1>1. \A id : View(id) = ViewOf(heap, live, id)
  BY DEF View, ViewOf, Held, NULL, WSIZE
<1>2. \A id : View(id)' = ViewOf(heap', live', id)
  BY DEF View, ViewOf, Held, NULL, WSIZE, NoBlock
<1> QED  BY <1>1, <1>2 DEF Views

(* What the view v shows of the block that id has.                         *)
Shows(v, h, L, id) ==
    /\ v.at = L[id].ptr /\ v.at \in Nat
    /\ L[id].size \div 4 \in Nat /\ DOMAIN v.words = 1 .. L[id].size \div 4
    /\ \A i \in 1 .. L[id].size \div 4 : v.words[i] = h.mem[L[id].ptr + i - 1].id
    /\ A!Region(v) \subseteq L[id].ptr .. L[id].ptr + L[id].size \div 4 - 1

(* A view shows the block, and NoBlock is the view of no block.            *)
LEMMA ViewFacts ==
    ASSUME NEW h, NEW L \in Live, NEW id \in Id
    PROVE  /\ ViewOf(h, L, id) # NoBlock <=> id \in HeldIn(L)
           /\ id \in HeldIn(L) => Shows(ViewOf(h, L, id), h, L, id)
<1> DEFINE v == ViewOf(h, L, id)  p == L[id].ptr  n == L[id].size \div 4
           f == [i \in 1 .. n |-> h.mem[p + i - 1].id]
<1>1. p \in Nat /\ n \in Nat
  <2>1. L[id].ptr \in Nat /\ L[id].size \in Nat
    BY DEF Live
  <2> QED  BY <2>1, WordsOf
<1>2. v = IF p # 0 THEN [at |-> p, words |-> f] ELSE NoBlock
  BY DEF ViewOf
<1> HIDE DEF v, p, n
<1>3. id \in HeldIn(L) <=> p # 0
  BY DEF HeldIn, p
<1>4. [at |-> p, words |-> f] # NoBlock
  <2>1. DOMAIN [at |-> p, words |-> f] = {"at", "words"}
    OBVIOUS
  <2>2. DOMAIN NoBlock = {"ptr", "size"}
    BY DEF NoBlock
  <2>3. {"at", "words"} # {"ptr", "size"}
    OBVIOUS
  <2> QED  BY <2>1, <2>2, <2>3
<1>5. ASSUME p # 0
      PROVE  /\ v.at = p /\ v.words = f
             /\ DOMAIN v.words = 1 .. n
             /\ \A i \in 1 .. n : v.words[i] = h.mem[p + i - 1].id
             /\ A!Region(v) \subseteq p .. p + n - 1
  <2>1. v.at = p /\ v.words = f
    BY <1>2, <1>5
  <2>2. DOMAIN f = 1 .. n /\ \A i \in 1 .. n : f[i] = h.mem[p + i - 1].id
    OBVIOUS
  <2> HIDE DEF f
  <2>3. A!Region(v) = {p + i - 1 : i \in 1 .. n}
    BY <2>1, <2>2 DEF A!Region
  <2>4. \A i \in 1 .. n : p + i - 1 \in p .. p + n - 1
    BY <1>1
  <2> QED  BY <2>1, <2>2, <2>3, <2>4
<1>6. v # NoBlock <=> id \in HeldIn(L)
  BY <1>2, <1>3, <1>4
<1>7. id \in HeldIn(L) => Shows(v, h, L, id)
  BY <1>1, <1>3, <1>5 DEF Shows, p, n
<1> QED  BY <1>6, <1>7 DEF v

(* The block that id has in L is the one it has in K, with the same words. *)
Unwritten(h, L, g, K, id) ==
    /\ K[id] = L[id]
    /\ id \in HeldIn(L) =>
          \A w \in L[id].ptr .. L[id].ptr + L[id].size \div 4 - 1 : g.mem[w] = h.mem[w]

(* A block with the same words has the same view.                          *)
LEMMA SameView ==
    ASSUME NEW h, NEW g, NEW L \in Live, NEW K, NEW id \in Id, Unwritten(h, L, g, K, id)
    PROVE  ViewOf(g, K, id) = ViewOf(h, L, id)
<1> DEFINE p == L[id].ptr  n == L[id].size \div 4
<1>1. p \in Nat /\ n \in Nat
  <2>1. L[id].ptr \in Nat /\ L[id].size \in Nat
    BY DEF Live
  <2> QED  BY <2>1, WordsOf
<1>2. CASE p = 0
  BY <1>2 DEF ViewOf, Unwritten
<1>3. CASE p # 0
  <2>1. \A w \in p .. p + n - 1 : g.mem[w] = h.mem[w]
    BY <1>3 DEF HeldIn, Unwritten
  <2> HIDE DEF p, n
  <2>2. \A i \in 1 .. n : p + i - 1 \in p .. p + n - 1
    BY <1>1
  <2>3. \A i \in 1 .. n : g.mem[p + i - 1].id = h.mem[p + i - 1].id
    BY <2>1, <2>2
  <2>4. [i \in 1 .. n |-> g.mem[p + i - 1].id] = [i \in 1 .. n |-> h.mem[p + i - 1].id]
    BY <2>3
  <2> QED  BY <2>4 DEF ViewOf, Unwritten, p, n
<1> QED  BY <1>2, <1>3

(* Two blocks the client holds share no word.                              *)
LEMMA HoldsApart ==
    ASSUME NEW h, NEW L, Holds(h, L), NEW i \in HeldIn(L), NEW j \in HeldIn(L), i # j
    PROVE  A!Disjoint(ViewOf(h, L, i), ViewOf(h, L, j))
<1> DEFINE p == L[i].ptr  q == L[j].ptr  m == L[i].size \div 4  n == L[j].size \div 4
<1>1. p + m + 2 <= q \/ q + n + 2 <= p
  <2>1. CASE Tiling(h)
    <3>1. PICK B, X : TilesHold(h, B, X, L)
      BY <2>1 DEF Holds, TileHolds
    <3> QED  BY <3>1, TilesApart
  <2>2. CASE ~Tiling(h)
    BY <2>2 DEF Holds, BumpHolds
  <2> QED  BY <2>1, <2>2
<1>2. L \in Live /\ i \in Id /\ j \in Id
  BY HoldsHeap DEF HeldIn
<1>3. /\ ViewOf(h, L, i).at = p /\ p \in Nat /\ m \in Nat
      /\ A!Region(ViewOf(h, L, i)) \subseteq p .. p + m - 1
  <2>1. Shows(ViewOf(h, L, i), h, L, i)
    BY <1>2, ViewFacts
  <2> QED  BY <2>1 DEF Shows
<1>4. /\ ViewOf(h, L, j).at = q /\ q \in Nat /\ n \in Nat
      /\ A!Region(ViewOf(h, L, j)) \subseteq q .. q + n - 1
  <2>1. Shows(ViewOf(h, L, j), h, L, j)
    BY <1>2, ViewFacts
  <2> QED  BY <2>1 DEF Shows
<1> HIDE DEF p, q, m, n
<1>5. p # q /\ (p .. p + m - 1) \cap (q .. q + n - 1) = {}
  BY <1>1, <1>3, <1>4
<1> QED  BY <1>3, <1>4, <1>5 DEF A!Disjoint

(* A block given to id: the others see nothing of it.                      *)
Placing(h, L, id, g, K) ==
    /\ \A j \in Id \ {id} : ViewOf(g, K, j) = ViewOf(h, L, j)
    /\ ViewOf(g, K, id) # NoBlock
    /\ \A j \in Id \ {id} :
          ViewOf(h, L, j) # NoBlock => A!Disjoint(ViewOf(g, K, id), ViewOf(h, L, j))

(* A block that is given is apart from the others.                         *)
LEMMA GivenPlaces ==
    ASSUME NEW h, NEW L, Holds(h, L), NEW id \in Id, NEW p \in Nat, p # 0, NEW size \in Nat,
           NEW g, Given(h, L, id, p, size, g),
           NEW K, K = [L EXCEPT ![id] = [ptr |-> p, size |-> size]]
    PROVE  Placing(h, L, id, g, K)
<1>1. L \in Live
  BY HoldsHeap
<1>2. With(K, L, id, p, size)
  BY <1>1, GivenLive
<1>3. Holds(g, K) /\ Stays(h, g, L, HeldIn(L) \ {id})
  BY DEF Given
<1>4. /\ K \in Live /\ HeldIn(K) = (HeldIn(L) \ {id}) \cup {id}
      /\ \A j \in Id \ {id} : K[j] = L[j]
  BY <1>2 DEF With
<1>5. ASSUME NEW j \in Id \ {id}
      PROVE  ViewOf(g, K, j) = ViewOf(h, L, j)
  <2>1. K[j] = L[j] /\ (j \in HeldIn(L) => j \in HeldIn(L) \ {id})
    BY <1>4
  <2>2. Unwritten(h, L, g, K, j)
    BY <1>3, <2>1 DEF Stays, Unwritten
  <2> QED  BY <1>1, <2>2, SameView
<1>6. ViewOf(g, K, id) # NoBlock
  BY <1>4, ViewFacts
<1>7. ASSUME NEW j \in Id \ {id}, ViewOf(h, L, j) # NoBlock
      PROVE  A!Disjoint(ViewOf(g, K, id), ViewOf(h, L, j))
  <2>1. j \in HeldIn(K) /\ id \in HeldIn(K) /\ id # j
    BY <1>1, <1>4, <1>7, ViewFacts
  <2>2. A!Disjoint(ViewOf(g, K, id), ViewOf(g, K, j))
    BY <1>3, <2>1, HoldsApart
  <2> QED  BY <1>5, <2>2
<1> QED  BY <1>5, <1>6, <1>7 DEF Placing

(* Such a step is one that places a block.                                 *)
LEMMA PlacesStep ==
    ASSUME NEW id \in Id, Placing(heap, live, id, heap', live')
    PROVE  A!Places(id)
<1> DEFINE V == Views  W == Views'
<1>1. /\ V = [j \in Id |-> ViewOf(heap, live, j)]
      /\ W = [j \in Id |-> ViewOf(heap', live', j)]
  BY ViewsAre
<1>2. A!Places(id) <=> /\ W = [V EXCEPT ![id] = W[id]]
                       /\ W[id] # NoBlock
                       /\ \A other \in Id \ {id} :
                             V[other] # NoBlock => A!Disjoint(W[id], V[other])
  BY DEF A!Places
<1> HIDE DEF V, W
<1>3. W = [V EXCEPT ![id] = W[id]]
  <2>1. \A j \in Id : W[j] = IF j = id THEN W[id] ELSE V[j]
    BY <1>1 DEF Placing
  <2> QED  BY <1>1, <2>1
<1>4. W[id] # NoBlock
  BY <1>1 DEF Placing
<1>5. \A other \in Id \ {id} : V[other] # NoBlock => A!Disjoint(W[id], V[other])
  BY <1>1 DEF Placing
<1> QED  BY <1>2, <1>3, <1>4, <1>5

(* A call that fails shows nothing.                                        *)
LEMMA NothingStep ==
    ASSUME heap' = heap, live' = live
    PROVE  UNCHANGED Views
BY ViewsAre

(* The step of a call that returns r for id.                               *)
LEMMA ReturnsPlaces ==
    ASSUME ClientHolds, NEW id \in Id, NEW size \in Nat, NEW r,
           r.bp # 0, Given(heap, live, id, r.bp, size, r.heap), Returns(r, id, size)
    PROVE  /\ A!Places(id) /\ heap' = r.heap
           /\ live'[id].ptr = r.bp /\ live'[id].size = size /\ live' \in Live
<1> DEFINE K == [live EXCEPT ![id] = [ptr |-> r.bp, size |-> size]]
<1>1. heap' = r.heap /\ live' = K
  BY DEF Returns, NULL
<1>2. Holds(r.heap, K) /\ live \in Live /\ Holds(heap, live)
  BY DEF Given, ClientHolds
<1>3. K \in Live /\ K[id].ptr = r.bp /\ K[id].size = size
  BY <1>2, HoldsHeap DEF Live
<1>4. r.bp \in Nat
  <2> HIDE DEF K
  <2>1. K[id].ptr \in Nat
    BY <1>3 DEF Live
  <2> QED  BY <1>3, <2>1
<1>5. Placing(heap, live, id, r.heap, K)
  BY <1>2, <1>4, GivenPlaces
<1> HIDE DEF K
<1>6. Placing(heap, live, id, heap', live')
  BY <1>1, <1>5
<1>7. A!Places(id)
  BY <1>6, PlacesStep
<1> QED  BY <1>1, <1>3, <1>7

(* mm_malloc is a Malloc of Allocator, or fails.                           *)
LEMMA MallocImplements ==
    ASSUME ClientHolds, NEW id \in Id, NEW size \in Sizes, Malloc(id, size)
    PROVE  A!Malloc(id) \/ UNCHANGED Views
<1> DEFINE r == mm_malloc(heap, size)
<1>1. /\ r.bp = 0 => r.heap = heap
      /\ r.bp # 0 => Given(heap, live, id, r.bp, size, r.heap)
      /\ Returns(r, id, size) /\ size \in Nat
  BY MallocStep
<1> HIDE DEF r
<1>2. CASE r.bp = 0
  <2>1. heap' = heap /\ live' = live
    BY <1>1, <1>2 DEF Returns, NULL
  <2> QED  BY <2>1, NothingStep
<1>3. CASE r.bp # 0
  <2>1. A!Places(id)
    BY <1>1, <1>3, ReturnsPlaces
  <2>2. Views[id] = NoBlock
    <3>1. id \notin HeldIn(live) /\ live \in Live
      BY DEF Malloc, Held, HeldIn, NULL, ClientHolds
    <3>2. ViewOf(heap, live, id) = NoBlock
      BY <3>1, ViewFacts
    <3> QED  BY <3>2, ViewsAre
  <2> QED  BY <2>1, <2>2 DEF A!Malloc
<1> QED  BY <1>2, <1>3

(* mm_realloc is a Realloc of Allocator, or fails.                         *)
LEMMA ReallocImplements ==
    ASSUME ClientHolds, NEW id \in Id, NEW size \in Sizes, Realloc(id, size)
    PROVE  A!Realloc(id) \/ UNCHANGED Views
<1> DEFINE r == mm_realloc(heap, live[id].ptr, size)
<1>1. /\ r.bp = 0 => r.heap = heap
      /\ r.bp # 0 =>
            /\ Given(heap, live, id, r.bp, size, r.heap)
            /\ \A i \in Nat : i < size \div 4 /\ i < live[id].size \div 4
                              => r.heap.mem[r.bp + i] = heap.mem[live[id].ptr + i]
      /\ Returns(r, id, size) /\ size \in Nat /\ id \in HeldIn(live)
  BY ReallocStep
<1> HIDE DEF r
<1>2. CASE r.bp = 0
  <2>1. heap' = heap /\ live' = live
    BY <1>1, <1>2 DEF Returns, NULL
  <2> QED  BY <2>1, NothingStep
<1>3. CASE r.bp # 0
  <2> DEFINE v == Views[id]  w == Views'[id]
  <2>1. /\ A!Places(id) /\ heap' = r.heap
        /\ live'[id].ptr = r.bp /\ live'[id].size = size /\ live' \in Live
    BY <1>1, <1>3, ReturnsPlaces
  <2>2. v = ViewOf(heap, live, id) /\ w = ViewOf(heap', live', id)
    BY ViewsAre
  <2>3. live \in Live /\ id \in HeldIn(live')
    BY <1>3, <2>1 DEF ClientHolds, HeldIn
  <2>4. /\ v # NoBlock /\ DOMAIN v.words = 1 .. live[id].size \div 4
        /\ \A i \in 1 .. live[id].size \div 4 : v.words[i] = heap.mem[live[id].ptr + i - 1].id
    <3>1. v # NoBlock /\ Shows(v, heap, live, id)
      BY <1>1, <2>2, <2>3, ViewFacts
    <3> QED  BY <3>1 DEF Shows
  <2>5. /\ DOMAIN w.words = 1 .. size \div 4
        /\ \A i \in 1 .. size \div 4 : w.words[i] = heap'.mem[live'[id].ptr + i - 1].id
    <3>1. Shows(w, heap', live', id)
      BY <2>1, <2>2, <2>3, ViewFacts
    <3>2. /\ DOMAIN w.words = 1 .. live'[id].size \div 4
          /\ \A i \in 1 .. live'[id].size \div 4 : w.words[i] = heap'.mem[live'[id].ptr + i - 1].id
      BY <3>1 DEF Shows
    <3> QED  BY <2>1, <3>2
  <2> HIDE DEF v, w
  <2>6. ASSUME NEW i \in DOMAIN v.words \cap DOMAIN w.words
        PROVE  w.words[i] = v.words[i]
    <3> DEFINE a == live[id].ptr  m == live[id].size \div 4  n == size \div 4
    <3>1. i \in 1 .. m /\ i \in 1 .. n
      BY <2>4, <2>5
    <3>2. m \in Int /\ n \in Int
      BY <1>1, <2>3, WordsOf DEF Live
    <3> HIDE DEF a, m, n
    <3>3. i - 1 \in Nat /\ i - 1 < n /\ i - 1 < m
      BY <3>1, <3>2
    <3>4. r.heap.mem[r.bp + (i - 1)] = heap.mem[a + (i - 1)]
      BY <1>1, <1>3, <3>3 DEF a, m, n
    <3>5. v.words[i] = heap.mem[a + i - 1].id
      BY <2>4, <3>1 DEF a, m
    <3>6. w.words[i] = r.heap.mem[r.bp + i - 1].id
      BY <2>1, <2>5, <3>1 DEF n
    <3> QED  BY <3>4, <3>5, <3>6
  <2> QED  BY <2>1, <2>4, <2>6 DEF A!Realloc, v, w
<1> QED  BY <1>2, <1>3

(* mm_free is a Free of Allocator.                                         *)
LEMMA FreeImplements ==
    ASSUME ClientHolds, NEW id \in Id, Free(id)
    PROVE  A!Free(id)
<1> DEFINE V == Views  W == Views'
<1>1. /\ Taken(heap, live, id, heap') /\ id \in HeldIn(live)
      /\ live' = [live EXCEPT ![id] = NoBlock]
  BY FreeStep
<1>2. live \in Live
  BY DEF ClientHolds
<1>3. Without(live', live, id)
  BY <1>1, <1>2, TakenLive
<1>4. live' \in Live /\ id \notin HeldIn(live')
  BY <1>3 DEF Without
<1>5. /\ V = [j \in Id |-> ViewOf(heap, live, j)]
      /\ W = [j \in Id |-> ViewOf(heap', live', j)]
  BY ViewsAre
<1>6. A!Free(id) <=> V[id] # NoBlock /\ W = [V EXCEPT ![id] = NoBlock]
  BY DEF A!Free
<1> HIDE DEF V, W
<1>7. ViewOf(heap, live, id) # NoBlock
  BY <1>1, <1>2, ViewFacts
<1>8. ViewOf(heap', live', id) = NoBlock
  BY <1>4, ViewFacts
<1>9. ASSUME NEW j \in Id \ {id}
      PROVE  ViewOf(heap', live', j) = ViewOf(heap, live, j)
  <2>1. live'[j] = live[j]
    BY <1>3 DEF Without
  <2>2. Stays(heap, heap', live, HeldIn(live) \ {id})
    BY <1>1 DEF Taken
  <2>3. Unwritten(heap, live, heap', live', j)
    BY <2>1, <2>2 DEF Unwritten, Stays
  <2> QED  BY <1>2, <2>3, SameView
<1>10. V[id] # NoBlock
  BY <1>5, <1>7
<1>11. W = [V EXCEPT ![id] = NoBlock]
  <2>1. \A j \in Id : W[j] = IF j = id THEN NoBlock ELSE V[j]
    BY <1>5, <1>8, <1>9
  <2> QED  BY <1>5, <2>1
<1> QED  BY <1>6, <1>10, <1>11

(* Filling a block is a Write of Allocator.                                *)
LEMMA FillImplements ==
    ASSUME ClientHolds, Fill
    PROVE  A!Write(filling)
<1> DEFINE V == Views  W == Views'  id == filling
           p == live[id].ptr  n == live[id].size \div 4
<1>1. id \in HeldIn(live) /\ Filled(heap, live, id, id, heap') /\ live' = live
  BY FillStep
<1>2. live \in Live /\ id \in Id
  BY <1>1 DEF ClientHolds, HeldIn
<1>3. /\ V = [j \in Id |-> ViewOf(heap, live, j)]
      /\ W = [j \in Id |-> ViewOf(heap', live', j)]
  BY ViewsAre
<1>4. A!Write(id) <=>
         /\ V[id] # NoBlock
         /\ W = [V EXCEPT ![id].words = [i \in DOMAIN V[id].words |-> id]]
  BY DEF A!Write
<1> HIDE DEF V, W, id
<1>5. V[id] # NoBlock
  BY <1>1, <1>2, <1>3, ViewFacts
<1>6. /\ V[id] = [at |-> p, words |-> [i \in 1 .. n |-> heap.mem[p + i - 1].id]]
      /\ W[id] = [at |-> p, words |-> [i \in 1 .. n |-> heap'.mem[p + i - 1].id]]
  <2>1. p # 0
    BY <1>1 DEF HeldIn
  <2>2. V[id] = ViewOf(heap, live, id) /\ W[id] = ViewOf(heap', live, id)
    BY <1>1, <1>2, <1>3
  <2> QED  BY <2>1, <2>2 DEF ViewOf
<1>7. \A i \in 1 .. n : heap'.mem[p + i - 1].id = id
  <2>1. p \in Nat /\ n \in Nat
    <3>1. p \in Nat /\ live[id].size \in Nat
      BY <1>2 DEF Live
    <3> QED  BY <3>1, WordsOf
  <2>2. \A w \in p .. p + n - 1 : heap'.mem[w] = Data(id)
    BY <1>1 DEF Filled
  <2> HIDE DEF p, n
  <2>3. \A i \in 1 .. n : p + i - 1 \in p .. p + n - 1
    BY <2>1
  <2>4. Data(id).id = id
    BY <1>2, DataIs
  <2> QED  BY <2>2, <2>3, <2>4
<1>8. W[id] = [V[id] EXCEPT !.words = [i \in DOMAIN V[id].words |-> id]]
  <2> HIDE DEF p, n
  <2>1. [i \in 1 .. n |-> heap'.mem[p + i - 1].id] = [i \in 1 .. n |-> id]
    BY <1>7
  <2>2. DOMAIN V[id].words = 1 .. n
    BY <1>6
  <2> DEFINE f == [i \in DOMAIN V[id].words |-> id]
  <2>3. f = [i \in 1 .. n |-> id]
    BY <2>2
  <2>4. PICK u : V[id] = [at |-> p, words |-> u]
    BY <1>6
  <2>5. W[id] = [at |-> p, words |-> f]
    BY <1>6, <2>1, <2>3
  <2> HIDE DEF f
  <2>6. [[at |-> p, words |-> u] EXCEPT !.words = f] = [at |-> p, words |-> f]
    OBVIOUS
  <2>7. W[id] = [V[id] EXCEPT !.words = f]
    BY <2>4, <2>5, <2>6
  <2> QED  BY <2>7 DEF f
<1>9. ASSUME NEW j \in Id \ {id} PROVE W[j] = V[j]
  <2>1. Stays(heap, heap', live, HeldIn(live) \ {id})
    BY <1>1 DEF Filled
  <2>2. Unwritten(heap, live, heap', live', j)
    BY <1>1, <2>1 DEF Unwritten, Stays
  <2>3. ViewOf(heap', live', j) = ViewOf(heap, live, j)
    BY <1>2, <2>2, SameView
  <2> QED  BY <1>3, <2>3
<1>10. W = [V EXCEPT ![id].words = [i \in DOMAIN V[id].words |-> id]]
  <2> DEFINE f == [i \in DOMAIN V[id].words |-> id]
  <2>1. W[id] = [V[id] EXCEPT !.words = f]
    BY <1>8
  <2> HIDE DEF f
  <2>2. W = [V EXCEPT ![id].words = f]
    BY <1>3, <1>9, <2>1
  <2> QED  BY <2>2 DEF f
<1>11. A!Write(id)
  BY <1>4, <1>5, <1>10
<1> QED  BY <1>11 DEF id

(* Every step is one of Allocator, or shows nothing, or starts over.       *)
LEMMA NextImplements == ClientHolds /\ [Next]_vars => [Restart \/ A!Next]_Views
<1> SUFFICES ASSUME ClientHolds, [Next]_vars PROVE [Restart \/ A!Next]_Views
  OBVIOUS
<1>1. CASE Restart
  BY <1>1
<1>2. ASSUME NEW id \in Id, NEW size \in Sizes, Malloc(id, size)
      PROVE  [Restart \/ A!Next]_Views
  <2>1. A!Malloc(id) \/ UNCHANGED Views
    BY <1>2, MallocImplements
  <2> QED  BY <2>1 DEF A!Next
<1>3. ASSUME NEW id \in Id, NEW size \in Sizes, Realloc(id, size)
      PROVE  [Restart \/ A!Next]_Views
  <2>1. A!Realloc(id) \/ UNCHANGED Views
    BY <1>3, ReallocImplements
  <2> QED  BY <2>1 DEF A!Next
<1>4. ASSUME NEW id \in Id, Free(id)
      PROVE  [Restart \/ A!Next]_Views
  <2>1. A!Free(id)
    BY <1>4, FreeImplements
  <2> QED  BY <2>1 DEF A!Next
<1>5. CASE Fill
  <2>1. filling \in Id
    BY <1>5 DEF Fill, ClientHolds, FillingHeld
  <2>2. A!Write(filling)
    BY <1>5, FillImplements
  <2> QED  BY <2>1, <2>2 DEF A!Next
<1>6. CASE UNCHANGED vars
  <2>1. heap' = heap /\ live' = live
    BY <1>6 DEF vars
  <2>2. UNCHANGED Views
    BY <2>1, NothingStep
  <2> QED  BY <2>2
<1> QED  BY <1>1, <1>2, <1>3, <1>4, <1>5, <1>6 DEF Next

(* All four allocators implement Allocator: a block given overlaps none    *)
(* that is held, mm_realloc keeps what the old block held, and no call     *)
(* writes on another block.                                                *)
THEOREM ImplementsAllocatorAlways == Spec => ImplementsAllocator
<1>1. Spec => []ClientHolds
  BY ClientHoldsAlways
<1>2. ClientHolds /\ [Next]_vars => [Restart \/ A!Next]_Views
  BY NextImplements
<1> QED  BY <1>1, <1>2, PTL DEF Spec, ImplementsAllocator

(* Before the first call the client holds nothing, as Allocator starts.    *)
THEOREM StartsAsAllocator == Init => A!Init
<1> SUFFICES ASSUME Init PROVE A!Init
  OBVIOUS
<1>1. live = [id \in Id |-> NoBlock]
  BY DEF Init
<1>2. \A id \in Id : View(id) = NoBlock
  BY <1>1 DEF View, Held, NULL, NoBlock
<1> QED  BY <1>2 DEF A!Init, Views
=============================================================================
