------------------------------ MODULE MMProofs ------------------------------
(***************************************************************************)
(* Theorems about MM: whatever the size of the heap and of the chunk, the  *)
(* blocks the client holds and the sizes it asks for, IInv is an invariant *)
(* (so that the blocks tile the heap, free neighbours are merged, the      *)
(* rover stays on a block and none is lost), and MM implements Allocator.  *)
(***************************************************************************)
EXTENDS MM, TLAPS

(***************************************************************************)
(* Lemmas about the heap, for any heap, end and set of blocks: what        *)
(* writing tags, uniting and cutting blocks, and mm_free, extend_heap and  *)
(* place as a whole, do to a heap that is tiled by blocks.                 *)
(***************************************************************************)
Heap == [Word -> WordValue]

(* A heap m that ends at e and has the blocks B.                           *)
Tiled(m, e, B) ==
    /\ m \in Heap /\ e \in 4 .. MAX_HEAP
    /\ B \in SUBSET Block(m, e) /\ Tiling(m, e, B)

InUseIn(m, B) == {b \in B : GET_ALLOC(m, HDRP(b))}

(* The blocks of S are in m2 what they are in m, tags and payload.         *)
Keeps(m, m2, S) ==
    \A x \in S : /\ m2[HDRP(x)] = m[HDRP(x)]
                 /\ \A q \in x .. x + GET_SIZE(m, HDRP(x)) - 3 : m2[q] = m[q]

(* No two free blocks are neighbours, but for bp and its neighbours.       *)
MergedBut(m, B, bp) ==
    \A b \in B : \/ b = bp \/ m[b - 1].alloc = 1
                 \/ b + m[b - 1].size = bp
                 \/ m[b + m[b - 1].size - 1].alloc = 1

USE DEF Heap

(* Writing a tag, and a pair of tags, word by word.                        *)
LEMMA TagType ==
    ASSUME NEW n \in Nat, NEW a \in {0, 1}
    PROVE  /\ Tag(n, a) \in WordValue
           /\ Tag(n, a).size = n /\ Tag(n, a).alloc = a /\ Tag(n, a).id = NoId
BY DEF Tag, WordValue

LEMMA PutAt ==
    ASSUME NEW m \in Heap, NEW p \in Word, NEW v \in WordValue
    PROVE  /\ PUT(m, p, v) \in Heap
           /\ \A q \in Word : PUT(m, p, v)[q] = IF q = p THEN v ELSE m[q]
BY DEF PUT

LEMMA PutBothAt ==
    ASSUME NEW m \in Heap, NEW b \in Nat, NEW n \in Nat, NEW a \in {0, 1},
           b - 1 \in Word, b + n - 2 \in Word
    PROVE  /\ PutBoth(m, b, n, a) \in Heap
           /\ \A q \in Word :
                PutBoth(m, b, n, a)[q] =
                    IF q = b - 1 \/ q = b + n - 2 THEN Tag(n, a) ELSE m[q]
<1> DEFINE v == Tag(n, a)
<1>1. v \in WordValue
  BY TagType
<1> HIDE DEF v
<1>2. /\ PUT(PUT(m, b - 1, v), b + n - 2, v) \in Heap
      /\ \A q \in Word : PUT(PUT(m, b - 1, v), b + n - 2, v)[q]
            = IF q = b - 1 \/ q = b + n - 2 THEN v ELSE m[q]
  BY <1>1 DEF PUT
<1> QED
  BY <1>2 DEF v, PutBoth, HDRP

(* What a tiling says of one block, in plain arithmetic.                   *)
LEMMA BlockFacts ==
    ASSUME NEW m, NEW e, NEW B, Tiled(m, e, B), NEW b \in B
    PROVE  /\ b \in Word /\ b >= 2 /\ b % 2 = 0 /\ b - 1 \in Word
           /\ m[b - 1].id = NoId
           /\ m[b - 1].size \in Nat /\ m[b - 1].size >= 2 /\ m[b - 1].size % 2 = 0
           /\ m[b - 1].alloc \in {0, 1}
           /\ b + m[b - 1].size <= e
           /\ b + m[b - 1].size \in B \cup {e}
           /\ b + m[b - 1].size - 2 \in Word
           /\ m[b + m[b - 1].size - 2] = m[b - 1]
           /\ \A c \in B : c > b => c >= b + m[b - 1].size
           /\ m[b - 1] = Tag(m[b - 1].size, m[b - 1].alloc)
<1>1. b \in Word /\ b >= 2 /\ b % 2 = 0 /\ b - 1 \in Word
  BY HeapAssumption DEF Tiled, Block, Word, heap_listp
<1>2. m[b - 1] \in WordValue
  BY <1>1 DEF Tiled
<1>3. m[b - 1].size \in Nat /\ m[b - 1].alloc \in {0, 1}
  BY <1>2 DEF WordValue
<1>4. /\ m[b - 1].id = NoId /\ m[b - 1].size >= 2 /\ m[b - 1].size % 2 = 0
      /\ b + m[b - 1].size <= e /\ m[b + m[b - 1].size - 2] = m[b - 1]
  BY <1>1 DEF Tiled, Block, GET_SIZE, HDRP, FTRP, NEXT_BLKP
<1>5. /\ b + m[b - 1].size \in B \cup {e}
      /\ \A c \in B : c > b => c >= b + m[b - 1].size
  BY DEF Tiled, Tiling, NEXT_BLKP, GET_SIZE, HDRP
<1>6. b + m[b - 1].size - 2 \in Word
  BY <1>1, <1>3, <1>4, HeapAssumption, ChunkAssumption DEF Tiled, Word
<1>7. m[b - 1] = Tag(m[b - 1].size, m[b - 1].alloc)
  BY <1>2, <1>4 DEF WordValue, Tag
<1> QED
  BY <1>1, <1>3, <1>4, <1>5, <1>6, <1>7

LEMMA BlocksAreNat ==
    ASSUME NEW m, NEW e, NEW B, Tiled(m, e, B)
    PROVE  \A b \in B : b \in Nat
BY BlockFacts DEF Word

(* The block before another one, and the tags at both ends of the heap.    *)
LEMMA BlockBefore ==
    ASSUME NEW m, NEW e, NEW B, Tiled(m, e, B),
           NEW c \in B \cup {e}, c # heap_listp
    PROVE  \E b \in B : b + m[b - 1].size = c
BY DEF Tiled, Tiling, NEXT_BLKP, GET_SIZE, HDRP

LEMMA HeapEnds ==
    ASSUME NEW m, NEW e, NEW B, Tiled(m, e, B)
    PROVE  /\ 2 \in B /\ m[1] = Tag(2, 1)
           /\ e \in Nat /\ e >= 4 /\ e <= MAX_HEAP /\ e % 2 = 0 /\ e \notin B
           /\ e - 1 \in Word /\ m[e - 1] = Tag(0, 1)
           /\ \A b \in B : b < e
<1>1. 2 \in B /\ m[1] = Tag(2, 1) /\ m[e - 1] = Tag(0, 1)
  <2>1. Tiling(m, e, B)
    BY DEF Tiled
  <2>2. HDRP(heap_listp) = 1 /\ heap_listp = 2 /\ HDRP(e) = e - 1
    BY DEF HDRP, heap_listp
  <2> QED
    BY <2>1, <2>2 DEF Tiling
<1>2. e \in Nat /\ e >= 4 /\ e <= MAX_HEAP /\ e - 1 \in Word
  BY HeapAssumption, ChunkAssumption DEF Tiled, Word
<1>3. \A b \in B : b < e
  <2> TAKE b \in B
  <2>1. /\ b \in Word /\ m[b - 1].size \in Nat /\ m[b - 1].size >= 2
        /\ b + m[b - 1].size <= e
    BY BlockFacts
  <2> QED
    BY <2>1, <1>2 DEF Word
<1>4. PICK b \in B : b + m[b - 1].size = e
  BY <1>2, BlockBefore DEF heap_listp
<1>5. e % 2 = 0
  <2>1. /\ b \in Int /\ b % 2 = 0 /\ m[b - 1].size \in Int
        /\ m[b - 1].size % 2 = 0
    BY BlockFacts DEF Word
  <2> QED
    BY <2>1, <1>4
<1> QED
  BY <1>1, <1>2, <1>3, <1>5

(* Join: one pair of tags makes the words from block p to block p + t one  *)
(* block.                                                                  *)
Joined(m, e, B, p, t, a) ==
    LET m2 == PutBoth(m, p, t, a)
        B2 == {x \in B : x <= p \/ x >= p + t}
    IN  /\ Tiled(m2, e, B2)
        /\ p \in B2
        /\ m2[p - 1] = Tag(t, a)
        /\ m2[e - 1] = m[e - 1]
        /\ Keeps(m, m2, B2 \ {p})

LEMMA Join ==
    ASSUME NEW m, NEW e, NEW B, Tiled(m, e, B),
           NEW p \in B, p # 2, NEW t \in Nat, t >= 2, t % 2 = 0,
           p + t \in B \cup {e}, NEW a \in {0, 1}
    PROVE  Joined(m, e, B, p, t, a)
<1> DEFINE m2 == PutBoth(m, p, t, a)
           B2 == {x \in B : x <= p \/ x >= p + t}
<1>1. /\ p \in Word /\ p >= 4 /\ p % 2 = 0 /\ p - 1 \in Word
      /\ p + t <= e /\ p + t - 2 \in Word /\ p \in Nat
  <2>1. p \in Word /\ p >= 2 /\ p % 2 = 0 /\ p - 1 \in Word
    BY BlockFacts
  <2>2. /\ e \in Nat /\ e <= MAX_HEAP /\ \A b \in B : b < e
    BY HeapEnds
  <2>3. p + t <= e
    BY <2>1, <2>2 DEF Word
  <2> QED
    BY <2>1, <2>2, <2>3, HeapAssumption, ChunkAssumption DEF Word
<1>2. /\ m2 \in Heap
      /\ \A q \in Word : m2[q] = IF q = p - 1 \/ q = p + t - 2
                                 THEN Tag(t, a) ELSE m[q]
  <2>1. m \in Heap
    BY DEF Tiled
  <2>2. p \in Nat /\ p - 1 \in Word /\ p + t - 2 \in Word
    BY <1>1
  <2> HIDE DEF B2
  <2> QED
    BY <2>1, <2>2, PutBothAt, SMTT(60)
<1> HIDE DEF m2
<1>3. /\ Tag(t, a).size = t /\ Tag(t, a).alloc = a /\ Tag(t, a).id = NoId
  BY TagType
<1>4. m2[p - 1] = Tag(t, a) /\ m2[p + t - 2] = Tag(t, a)
  BY <1>1, <1>2
<1>5. ASSUME NEW x \in B2, x # p
      PROVE  /\ m2[x - 1] = m[x - 1]
             /\ \A q \in x .. x + m[x - 1].size - 2 : m2[q] = m[q]
  <2>1. /\ x \in Word /\ x >= 2 /\ x - 1 \in Word /\ m[x - 1].size \in Nat
        /\ m[x - 1].size >= 2 /\ x + m[x - 1].size <= e
        /\ p > x => p >= x + m[x - 1].size
    BY BlockFacts
  <2>2. x + m[x - 1].size <= p \/ x >= p + t
    BY <2>1, <1>1, <1>5 DEF Word
  <2>3. \A q \in x - 1 .. x + m[x - 1].size - 2 :
            q \in Word /\ q # p - 1 /\ q # p + t - 2
    <3>1. e \in Nat /\ e <= MAX_HEAP
      BY HeapEnds
    <3> QED
      BY <2>1, <2>2, <1>1, <3>1, HeapAssumption, ChunkAssumption DEF Word
  <2> QED
    BY <2>1, <2>3, <1>2 DEF Word
<1>6. B2 \in SUBSET Block(m2, e)
  <2> SUFFICES ASSUME NEW x \in B2 PROVE x \in Block(m2, e)
    OBVIOUS
  <2>1. CASE x = p
    BY <2>1, <1>1, <1>3, <1>4 DEF Block, heap_listp, HDRP, GET_SIZE, NEXT_BLKP, FTRP
  <2>2. CASE x # p
    <3>1. x \in B
      OBVIOUS
    <3>2. /\ x \in Word /\ x >= 2 /\ x % 2 = 0 /\ m[x - 1].id = NoId
          /\ m[x - 1].size \in Nat /\ m[x - 1].size >= 2
          /\ m[x - 1].size % 2 = 0 /\ x + m[x - 1].size <= e
          /\ m[x + m[x - 1].size - 2] = m[x - 1]
      BY <3>1, BlockFacts
    <3>3. /\ m2[x - 1] = m[x - 1]
          /\ m2[x + m[x - 1].size - 2] = m[x + m[x - 1].size - 2]
      <4>1. x + m[x - 1].size - 2 \in x .. x + m[x - 1].size - 2
        BY <3>2 DEF Word
      <4> QED
        BY <4>1, <2>2, <1>5
    <3> QED
      BY <3>2, <3>3 DEF Block, heap_listp, HDRP, GET_SIZE, NEXT_BLKP, FTRP
  <2> QED
    BY <2>1, <2>2
<1>7. ASSUME NEW b \in B2
      PROVE  /\ b + m2[b - 1].size \in B2 \cup {e}
             /\ \A c \in B2 : c > b => c >= b + m2[b - 1].size
  <2>1. CASE b = p
    BY <2>1, <1>1, <1>3, <1>4 DEF Word
  <2>2. CASE b # p
    <3>1. /\ b \in Word /\ m[b - 1].size \in Nat /\ m[b - 1].size >= 2
          /\ b + m[b - 1].size \in B \cup {e}
          /\ \A c \in B : c > b => c >= b + m[b - 1].size
      BY BlockFacts
    <3>2. m2[b - 1] = m[b - 1]
      BY <2>2, <1>5
    <3>3. b + m[b - 1].size <= p \/ b + m[b - 1].size >= p + t
      BY <3>1, <2>2, <1>1 DEF Word
    <3> QED
      BY <3>1, <3>2, <3>3
  <2> QED
    BY <2>1, <2>2
<1>8. ASSUME NEW c \in B2 \cup {e}, c # 2
      PROVE  \E b \in B2 : b + m2[b - 1].size = c
  <2>1. CASE c = p + t
    BY <2>1, <1>1, <1>3, <1>4
  <2>2. CASE c # p + t
    <3>1. PICK b \in B : b + m[b - 1].size = c
      BY <1>8, BlockBefore DEF heap_listp
    <3>2. /\ b \in Word /\ m[b - 1].size \in Nat /\ m[b - 1].size >= 2
          /\ \A d \in B : d > b => d >= c
      BY <3>1, BlockFacts
    <3>3. c <= p \/ c > p + t
      <4>1. CASE c = e
        <5>1. e \in Nat
          BY HeapEnds
        <5> QED
          BY <5>1, <4>1, <2>2, <1>1 DEF Word
      <4>2. CASE c # e
        <5>1. c \in B2
          BY <4>2
        <5>2. c \in Word
          BY <5>1, BlockFacts
        <5> QED
          BY <5>1, <5>2, <2>2, <1>1 DEF Word
      <4> QED
        BY <4>1, <4>2
    <3>4. b \in B2 /\ b # p
      <4>1. c \in Int
        BY <3>1, <3>2 DEF Word
      <4>2. CASE c <= p
        BY <4>1, <4>2, <3>1, <3>2, <1>1 DEF Word
      <4>3. CASE c > p + t
        <5>1. p + t \in B
          BY <4>3, <1>1, HeapEnds, BlockFacts, <4>1, <1>8 DEF Word
        <5>2. b >= p + t
          BY <5>1, <4>1, <4>3, <3>2, <1>1 DEF Word
        <5> QED
          BY <5>2, <1>1, <3>2 DEF Word
      <4> QED
        BY <4>2, <4>3, <3>3
    <3> QED
      BY <3>1, <3>4, <1>5
  <2> QED
    BY <2>1, <2>2
<1>9. /\ 2 \in B2 /\ m2[1] = Tag(2, 1)
      /\ m2[e - 1] = m[e - 1]
  <2>1. 2 \in B /\ m[1] = Tag(2, 1) /\ e - 1 \in Word /\ e \in Nat
    BY HeapEnds
  <2>2. 1 \in Word
    BY HeapAssumption, ChunkAssumption DEF Word
  <2>3. 1 # p - 1 /\ 1 # p + t - 2 /\ e - 1 # p - 1 /\ e - 1 # p + t - 2
    BY <2>1, <1>1 DEF Word
  <2>4. 2 \in B2
    BY <2>1, <1>1
  <2> QED
    BY <2>1, <2>2, <2>3, <2>4, <1>2
<1>10. Tiled(m2, e, B2)
  <2>1. m2[e - 1] = Tag(0, 1)
    BY <1>9, HeapEnds
  <2>2. HDRP(heap_listp) = 1 /\ heap_listp = 2 /\ HDRP(e) = e - 1
    BY DEF HDRP, heap_listp
  <2>3. \A b \in B2 : NEXT_BLKP(m2, b) = b + m2[b - 1].size
    BY DEF HDRP, NEXT_BLKP, GET_SIZE
  <2>4. Tiling(m2, e, B2)
    <3>1. \A b \in B2 : /\ NEXT_BLKP(m2, b) \in B2 \cup {e}
                        /\ \A c \in B2 : c > b => c >= NEXT_BLKP(m2, b)
      BY <2>3, <1>7
    <3>2. \A c \in (B2 \cup {e}) \ {2} : \E b \in B2 : NEXT_BLKP(m2, b) = c
      BY <2>3, <1>8
    <3> HIDE DEF B2
    <3> QED
      BY <2>1, <2>2, <3>1, <3>2, <1>9 DEF Tiling
  <2> QED
    BY <2>4, <1>2, <1>6 DEF Tiled
<1>11. Keeps(m, m2, B2 \ {p})
  <2> SUFFICES ASSUME NEW x \in B2 \ {p}
               PROVE  /\ m2[x - 1] = m[x - 1]
                      /\ \A q \in x .. x + m[x - 1].size - 3 : m2[q] = m[q]
    BY DEF Keeps, HDRP, GET_SIZE
  <2>1. x \in Word /\ m[x - 1].size \in Nat
    BY BlockFacts
  <2>2. \A q \in x .. x + m[x - 1].size - 3 : q \in x .. x + m[x - 1].size - 2
    BY <2>1 DEF Word
  <2> QED
    BY <2>2, <1>5
<1> QED
  BY <1>1, <1>4, <1>9, <1>10, <1>11 DEF m2, Joined

(* The other way round: plain facts that make a tiling.                    *)
LEMMA TiledIntro ==
    ASSUME NEW m \in Heap, NEW e \in 4 .. MAX_HEAP, NEW B,
           2 \in B, m[1] = Tag(2, 1), m[e - 1] = Tag(0, 1),
           \A b \in B :
               /\ b \in Word /\ b >= 2 /\ b % 2 = 0 /\ m[b - 1].id = NoId
               /\ m[b - 1].size \in Nat /\ m[b - 1].size >= 2
               /\ m[b - 1].size % 2 = 0 /\ b + m[b - 1].size <= e
               /\ m[b + m[b - 1].size - 2] = m[b - 1]
               /\ b + m[b - 1].size \in B \cup {e}
               /\ \A c \in B : c > b => c >= b + m[b - 1].size,
           \A c \in (B \cup {e}) \ {2} : \E b \in B : b + m[b - 1].size = c
    PROVE  Tiled(m, e, B)
<1>1. \A b \in B : b \in Block(m, e)
  BY DEF Block, heap_listp, HDRP, GET_SIZE, NEXT_BLKP, FTRP
<1>2. HDRP(heap_listp) = 1 /\ heap_listp = 2 /\ HDRP(e) = e - 1
  BY DEF HDRP, heap_listp
<1>3. \A b \in B : NEXT_BLKP(m, b) = b + m[b - 1].size
  BY DEF HDRP, NEXT_BLKP, GET_SIZE
<1>4. \A b \in B : /\ NEXT_BLKP(m, b) \in B \cup {e}
                   /\ \A c \in B : c > b => c >= NEXT_BLKP(m, b)
  BY <1>3
<1>5. ASSUME NEW c \in (B \cup {e}) \ {2}
      PROVE  \E b \in B : NEXT_BLKP(m, b) = c
  <2>1. PICK b \in B : b + m[b - 1].size = c
    OBVIOUS
  <2>2. NEXT_BLKP(m, b) = c
    BY <1>3, <2>1
  <2> QED
    BY <2>2
<1>6. Tiling(m, e, B)
  BY <1>2, <1>4, <1>5 DEF Tiling
<1> QED
  BY <1>1, <1>6 DEF Tiled

(* Split: two pairs of tags cut a block in two.                            *)
Halved(m, e, B, p, n, a, r, k, z) ==
    LET m2 == PutBoth(PutBoth(m, p, n, a), r, k, z)
        B2 == B \cup {r}
    IN  /\ Tiled(m2, e, B2)
        /\ r \notin B
        /\ m2[p - 1] = Tag(n, a) /\ m2[r - 1] = Tag(k, z)
        /\ m2[e - 1] = m[e - 1]
        /\ Keeps(m, m2, B \ {p})

LEMMA Split ==
    ASSUME NEW m, NEW e, NEW B, Tiled(m, e, B),
           NEW p \in B, p # 2, NEW n \in Nat, n >= 2, n % 2 = 0,
           NEW k \in Nat, k >= 2, m[p - 1].size = n + k,
           NEW r \in Nat, r = p + n, NEW d \in Nat, d = r + k,
           NEW a \in {0, 1}, NEW z \in {0, 1}
    PROVE  Halved(m, e, B, p, n, a, r, k, z)
<1> DEFINE m1 == PutBoth(m, p, n, a)
           m2 == PutBoth(m1, r, k, z)
           B2 == B \cup {r}
<1>a. /\ p \in Word /\ p >= 2 /\ p % 2 = 0 /\ p - 1 \in Word
      /\ p + m[p - 1].size <= e /\ p + m[p - 1].size - 2 \in Word
      /\ m[p - 1].size % 2 = 0 /\ p + m[p - 1].size \in B \cup {e}
      /\ \A c \in B : c > p => c >= p + m[p - 1].size
  BY BlockFacts
<1>b. p \in Nat /\ p + m[p - 1].size = d
  BY <1>a DEF Word
<1>c. e \in Nat /\ e <= MAX_HEAP /\ d <= e /\ d \in B \cup {e}
  BY <1>a, <1>b, HeapEnds
<1>d. /\ p - 1 \in Word /\ r - 2 \in Word /\ r - 1 \in Word /\ r \in Word
      /\ d - 2 \in Word
  BY <1>a, <1>b, <1>c, HeapAssumption, ChunkAssumption DEF Word
<1>e. p >= 4 /\ k % 2 = 0 /\ r % 2 = 0
  <2>1. p >= 4
    BY <1>a, <1>b
  <2>2. k % 2 = 0
    <3>1. (n + k) % 2 = 0
      BY <1>a
    <3> QED
      BY <3>1
  <2>3. r % 2 = 0
    BY <1>a, <1>b
  <2> QED
    BY <2>1, <2>2, <2>3
<1>1. /\ p \in Word /\ p \in Nat /\ p >= 4 /\ p % 2 = 0 /\ p - 1 \in Word
      /\ r - 1 \in Word /\ r - 2 \in Word /\ r \in Word
      /\ d <= e /\ d - 2 \in Word /\ k % 2 = 0 /\ r % 2 = 0
      /\ d \in B \cup {e} /\ e \in Nat
      /\ \A c \in B : c > p => c >= d
  BY <1>a, <1>b, <1>c, <1>d, <1>e
<1>2. /\ m1 \in Heap
      /\ \A q \in Word : m1[q] = IF q = p - 1 \/ q = r - 2
                                 THEN Tag(n, a) ELSE m[q]
  <2>1. m \in Heap
    BY DEF Tiled
  <2>2. p + n - 2 = r - 2
    BY <1>b
  <2>3. p + n - 2 \in Word
    BY <1>d, <2>2
  <2>4. /\ m1 \in Heap
        /\ \A q \in Word : m1[q] = IF q = p - 1 \/ q = p + n - 2
                                   THEN Tag(n, a) ELSE m[q]
    <3>1. p \in Nat
      BY <1>b
    <3>2. p - 1 \in Word
      BY <1>d
    <3> QED
      BY <3>1, <3>2, <2>1, <2>3, PutBothAt
  <2> QED
    BY <2>2, <2>4
<1>3. /\ m2 \in Heap
      /\ \A q \in Word : m2[q] = IF q = r - 1 \/ q = d - 2
                                 THEN Tag(k, z) ELSE m1[q]
  <2> HIDE DEF m1
  <2>1. m2 = PutBoth(m1, r, k, z)
    BY <1>b
  <2>2. r + k - 2 = d - 2
    OBVIOUS
  <2>3. r + k - 2 \in Word
    BY <1>d, <2>2
  <2> HIDE DEF m2
  <2>4. LET mm == PutBoth(m1, r, k, z)
        IN  /\ mm \in Heap
            /\ \A q \in Word : mm[q] = IF q = r - 1 \/ q = r + k - 2
                                       THEN Tag(k, z) ELSE m1[q]
    <3>1. m1 \in Heap
      BY <1>2
    <3>2. r - 1 \in Word
      BY <1>d
    <3> QED
      BY <3>1, <3>2, <2>3, PutBothAt
  <2> QED
    BY <2>1, <2>2, <2>4
<1>4. \A q \in Word : m2[q] = IF q = r - 1 \/ q = d - 2
                              THEN Tag(k, z)
                              ELSE IF q = p - 1 \/ q = r - 2
                                   THEN Tag(n, a) ELSE m[q]
  BY <1>2, <1>3
<1> HIDE DEF m1, m2
<1>5. /\ Tag(n, a).size = n /\ Tag(n, a).alloc = a /\ Tag(n, a).id = NoId
      /\ Tag(k, z).size = k /\ Tag(k, z).alloc = z
      /\ Tag(k, z).id = NoId
  BY TagType
<1>6. /\ m2[p - 1] = Tag(n, a) /\ m2[r - 2] = Tag(n, a)
      /\ m2[r - 1] = Tag(k, z) /\ m2[d - 2] = Tag(k, z)
  BY <1>1, <1>4
<1>7. r \notin B
  BY <1>1
<1>8. ASSUME NEW x \in B, x # p
      PROVE  /\ m2[x - 1] = m[x - 1]
             /\ \A q \in x .. x + m[x - 1].size - 2 : m2[q] = m[q]
  <2>1. /\ x \in Word /\ x >= 2 /\ x - 1 \in Word /\ m[x - 1].size \in Nat
        /\ m[x - 1].size >= 2 /\ x + m[x - 1].size <= e
        /\ p > x => p >= x + m[x - 1].size
    BY BlockFacts
  <2>2. x + m[x - 1].size <= p \/ x >= d
    BY <2>1, <1>1, <1>8 DEF Word
  <2>3. \A q \in x - 1 .. x + m[x - 1].size - 2 :
            /\ q \in Word /\ q # p - 1 /\ q # r - 2
            /\ q # r - 1 /\ q # d - 2
    <3>1. e \in Nat /\ e <= MAX_HEAP
      BY HeapEnds
    <3> QED
      BY <2>1, <2>2, <1>1, <3>1, HeapAssumption, ChunkAssumption DEF Word
  <2> QED
    BY <2>1, <2>3, <1>4 DEF Word
<1>9. ASSUME NEW b \in B2
      PROVE  /\ b \in Word /\ b >= 2 /\ b % 2 = 0 /\ m2[b - 1].id = NoId
             /\ m2[b - 1].size \in Nat /\ m2[b - 1].size >= 2
             /\ m2[b - 1].size % 2 = 0 /\ b + m2[b - 1].size <= e
             /\ m2[b + m2[b - 1].size - 2] = m2[b - 1]
             /\ b + m2[b - 1].size \in B2 \cup {e}
             /\ \A c \in B2 : c > b => c >= b + m2[b - 1].size
  <2>1. CASE b = p
    <3>1. m2[b - 1].size = n /\ m2[b - 1].id = NoId /\ b + n = r
      BY <2>1, <1>5, <1>6, <1>b
    <3>2. m2[b + n - 2] = m2[b - 1]
      BY <2>1, <1>6, <1>b
    <3>3. r <= e
      BY <1>1
    <3>4. \A c \in B2 : c > b => c >= r
      BY <2>1, <1>1
    <3> QED
      BY <2>1, <3>1, <3>2, <3>3, <3>4, <1>1
  <2>2. CASE b = r
    BY <2>2, <1>1, <1>5, <1>6 DEF Word
  <2>3. CASE b # p /\ b # r
    <3>1. b \in B
      BY <2>3
    <3>2. /\ b \in Word /\ b >= 2 /\ b % 2 = 0 /\ m[b - 1].id = NoId
          /\ m[b - 1].size \in Nat /\ m[b - 1].size >= 2
          /\ m[b - 1].size % 2 = 0 /\ b + m[b - 1].size <= e
          /\ m[b + m[b - 1].size - 2] = m[b - 1]
          /\ b + m[b - 1].size \in B \cup {e}
          /\ \A c \in B : c > b => c >= b + m[b - 1].size
      BY <3>1, BlockFacts
    <3>3. m2[b - 1] = m[b - 1]
      BY <3>1, <2>3, <1>8
    <3>4. m2[b + m[b - 1].size - 2] = m[b + m[b - 1].size - 2]
      <4>1. b + m[b - 1].size - 2 \in b .. b + m[b - 1].size - 2
        BY <3>2 DEF Word
      <4> QED
        BY <4>1, <3>1, <2>3, <1>8
    <3>5. r > b => r >= b + m[b - 1].size
      BY <3>1, <3>2, <2>3, <1>1 DEF Word
    <3> QED
      BY <3>2, <3>3, <3>4, <3>5
  <2> QED
    BY <2>1, <2>2, <2>3
<1>10. ASSUME NEW c \in B2 \cup {e}, c # 2
       PROVE  \E b \in B2 : b + m2[b - 1].size = c
  <2>1. CASE c = r
    BY <2>1, <1>1, <1>5, <1>6
  <2>2. CASE c = d
    BY <2>2, <1>1, <1>5, <1>6
  <2>3. CASE c # r /\ c # d
    <3>1. PICK b \in B : b + m[b - 1].size = c
      BY <1>10, <2>3, BlockBefore DEF heap_listp
    <3>2. b # p
      BY <3>1, <2>3, <1>1
    <3> QED
      BY <3>1, <3>2, <1>8
  <2> QED
    BY <2>1, <2>2, <2>3
<1>11. 2 \in B2 /\ m2[1] = Tag(2, 1) /\ m2[e - 1] = m[e - 1] /\ m2[e - 1] = Tag(0, 1)
  <2>1. /\ 2 \in B /\ m[1] = Tag(2, 1) /\ e - 1 \in Word
        /\ m[e - 1] = Tag(0, 1)
    BY HeapEnds
  <2>2. 1 \in Word
    BY HeapAssumption, ChunkAssumption DEF Word
  <2>3. /\ 1 # p - 1 /\ 1 # r - 2 /\ 1 # r - 1 /\ 1 # d - 2
        /\ e - 1 # p - 1 /\ e - 1 # r - 2
        /\ e - 1 # r - 1 /\ e - 1 # d - 2
    BY <1>1
  <2> QED
    BY <2>1, <2>2, <2>3, <1>4
<1>12. Tiled(m2, e, B2)
  <2>1. e \in 4 .. MAX_HEAP
    BY DEF Tiled
  <2> HIDE DEF B2
  <2> QED
    BY <2>1, <1>3, <1>9, <1>10, <1>11, TiledIntro
<1>13. Keeps(m, m2, B \ {p})
  <2> SUFFICES ASSUME NEW x \in B \ {p}
               PROVE  /\ m2[x - 1] = m[x - 1]
                      /\ \A q \in x .. x + m[x - 1].size - 3 : m2[q] = m[q]
    BY DEF Keeps, HDRP, GET_SIZE
  <2>1. x \in Word /\ m[x - 1].size \in Nat
    BY BlockFacts
  <2>2. \A q \in x .. x + m[x - 1].size - 3 : q \in x .. x + m[x - 1].size - 2
    BY <2>1 DEF Word
  <2> QED
    BY <2>2, <1>8
<1> QED
  BY <1>6, <1>7, <1>11, <1>12, <1>13 DEF m1, m2, Halved

(* The block before bp, found through its footer, and the ends of bp.      *)
LEMMA Around ==
    ASSUME NEW m, NEW e, NEW B, Tiled(m, e, B), NEW bp \in B, bp # 2
    PROVE  \E q \in B :
             /\ q \in Nat /\ q < bp /\ bp \in Nat /\ bp - 2 \in Word
             /\ q + m[q - 1].size = bp
             /\ m[bp - 2] = m[q - 1]
             /\ PREV_BLKP(m, bp) = q
<1>1. PICK q \in B : q + m[q - 1].size = bp
  BY BlockBefore DEF heap_listp
<1>2. /\ q \in Word /\ m[q - 1].size \in Nat /\ m[q - 1].size >= 2
      /\ q + m[q - 1].size - 2 \in Word /\ m[q + m[q - 1].size - 2] = m[q - 1]
  BY BlockFacts
<1>3. q \in Nat /\ q < bp /\ bp \in Nat
  BY <1>1, <1>2 DEF Word
<1>4. bp - 2 \in Word /\ m[bp - 2] = m[q - 1]
  <2>1. m[q - 1].size \in Nat
    BY <1>2
  <2>2. q + m[q - 1].size - 2 = bp - 2
    BY <1>1, <1>3, <2>1
  <2> QED
    BY <1>2, <2>2
<1>5. PREV_BLKP(m, bp) = q
  BY <1>1, <1>2, <1>3, <1>4 DEF PREV_BLKP, GET_SIZE
<1> QED
  BY <1>1, <1>3, <1>4, <1>5

(* The tags of a block may be written in either order.                     *)
LEMMA SwapPuts ==
    ASSUME NEW m \in Heap, NEW h \in Word, NEW f \in Word, NEW v \in WordValue
    PROVE  PUT(PUT(m, f, v), h, v) = PUT(PUT(m, h, v), f, v)
BY DEF PUT

LEMMA RoverIs ==
    ASSUME NEW m \in Heap, NEW p \in Nat, NEW t \in Nat, NEW a \in {0, 1}, NEW l,
           p - 1 \in Word, p + t - 2 \in Word
    PROVE  Rover(PutBoth(m, p, t, a), p, l)
             = IF l > p /\ l < p + t THEN p ELSE l
<1> DEFINE m2 == PutBoth(m, p, t, a)
<1>1. m2[p - 1] = Tag(t, a)
  BY PutBothAt
<1>2. Tag(t, a).size = t
  BY TagType
<1> HIDE DEF m2
<1>3. NEXT_BLKP(m2, p) = p + t
  BY <1>1, <1>2 DEF NEXT_BLKP, GET_SIZE, HDRP
<1> QED
  BY <1>3 DEF Rover, m2

(* Writing a block's tags the way coalesce does when the block before is   *)
(* free: the footer first, then the header of the block it leads back to.  *)
LEMMA BackwardPuts ==
    ASSUME NEW m \in Heap, NEW q \in Nat, NEW bp \in Nat, NEW d \in Nat,
           NEW t \in Nat, NEW v \in WordValue, NEW a \in {0, 1}, v = Tag(t, a),
           q - 1 \in Word, bp - 2 \in Word, d - 2 \in Word,
           bp < d, q + t = d, PREV_BLKP(m, bp) = q
    PROVE  /\ PREV_BLKP(PUT(m, d - 2, v), bp) = q
           /\ PUT(PUT(m, d - 2, v), HDRP(q), v) = PutBoth(m, q, t, a)
<1>1. PUT(m, d - 2, v)[bp - 2] = m[bp - 2]
  <2>1. d - 2 # bp - 2
    OBVIOUS
  <2> QED
    BY <2>1 DEF PUT
<1>2. PREV_BLKP(PUT(m, d - 2, v), bp) = q
  BY <1>1 DEF PREV_BLKP, GET_SIZE
<1>3. q + t - 2 = d - 2
  OBVIOUS
<1>4. PutBoth(m, q, t, a) = PUT(PUT(m, q - 1, v), d - 2, v)
  BY <1>3 DEF PutBoth, HDRP
<1>5. PUT(PUT(m, d - 2, v), q - 1, v) = PUT(PUT(m, q - 1, v), d - 2, v)
  BY SwapPuts
<1> QED
  BY <1>2, <1>4, <1>5 DEF HDRP

(* What coalesce does to the words: one free block from p to p + t, with   *)
(* no free neighbour.                                                      *)
Unites(m, e, B, bp, l, p, t) ==
    /\ coalesce(m, bp, l) =
         [mem |-> PutBoth(m, p, t, 0), bp |-> p,
          last |-> IF l > p /\ l < p + t THEN p ELSE l]
    /\ p # 2 /\ t >= 2 /\ t % 2 = 0 /\ p + t \in B \cup {e}
    /\ p <= bp /\ bp + m[bp - 1].size <= p + t
    /\ \A x \in B : p <= x /\ x < p + t => m[x - 1].alloc = 0
    /\ m[p + t - 1].alloc = 1
    /\ \A b \in B : b + m[b - 1].size = p => m[b - 1].alloc = 1

LEMMA CoalesceIs ==
    ASSUME NEW m, NEW e, NEW B, Tiled(m, e, B), NEW bp \in B,
           m[bp - 1].alloc = 0, NEW l \in B, MergedBut(m, B, bp)
    PROVE  \E p \in B, t \in Nat : Unites(m, e, B, bp, l, p, t)
<1> DEFINE s == m[bp - 1].size
           nx == bp + s
<1>1. /\ bp \in Word /\ bp - 1 \in Word /\ s \in Nat /\ s >= 2 /\ s % 2 = 0
      /\ nx \in B \cup {e} /\ nx - 2 \in Word /\ m[nx - 2] = m[bp - 1]
      /\ \A c \in B : c > bp => c >= nx
      /\ m[bp - 1] = Tag(s, 0)
  <2>1. bp \in Word /\ bp - 1 \in Word /\ s \in Nat /\ s >= 2 /\ s % 2 = 0
    BY BlockFacts
  <2>2. nx \in B \cup {e}
    BY BlockFacts
  <2>5. nx - 2 \in Word /\ m[nx - 2] = m[bp - 1]
    <3>1. bp + s - 2 \in Word /\ m[bp + s - 2] = m[bp - 1]
      BY BlockFacts
    <3>2. bp + s - 2 = nx - 2
      BY <2>1 DEF Word
    <3> QED
      BY <3>1, <3>2
  <2>3. \A c \in B : c > bp => c >= nx
    BY BlockFacts
  <2>4. m[bp - 1] = Tag(s, 0)
    BY BlockFacts
  <2> QED
    BY <2>1, <2>2, <2>3, <2>4, <2>5
<1>2. bp # 2
  <2>1. m[1] = Tag(2, 1)
    BY HeapEnds
  <2>2. Tag(2, 1).alloc = 1
    BY TagType
  <2> QED
    BY <2>1, <2>2
<1>3. PICK q \in B :
        /\ q \in Nat /\ q < bp /\ bp \in Nat /\ bp - 2 \in Word
        /\ q + m[q - 1].size = bp
        /\ m[bp - 2] = m[q - 1]
        /\ PREV_BLKP(m, bp) = q
  BY <1>2, Around
<1>4. /\ q - 1 \in Word /\ m[q - 1].size \in Nat /\ m[q - 1].size >= 2
      /\ m[q - 1].size % 2 = 0 /\ m[q - 1].alloc \in {0, 1}
      /\ \A c \in B : c > q => c >= bp
  <2>1. /\ q - 1 \in Word /\ m[q - 1].size \in Nat /\ m[q - 1].size >= 2
        /\ m[q - 1].size % 2 = 0 /\ m[q - 1].alloc \in {0, 1}
    BY BlockFacts
  <2>2. \A c \in B : c > q => c >= q + m[q - 1].size
    BY BlockFacts
  <2> QED
    BY <2>1, <2>2, <1>3
<1>5. nx - 1 \in Word /\ m[nx - 1].alloc \in {0, 1} /\ nx \in Nat
  <2>1. CASE nx \in B
    BY <2>1, BlockFacts, <1>1, <1>3
  <2>2. CASE nx = e
    <3>1. m[e - 1] = Tag(0, 1) /\ e - 1 \in Word
      BY HeapEnds
    <3>2. Tag(0, 1).alloc = 1
      BY TagType
    <3> QED
      BY <2>2, <3>1, <3>2, <1>1, <1>3
  <2> QED
    BY <1>1, <2>1, <2>2
<1>6. m \in Heap
  BY DEF Tiled
<1>7. /\ HDRP(bp) = bp - 1 /\ HDRP(q) = q - 1 /\ HDRP(nx) = nx - 1
      /\ FTRP(m, bp) = nx - 2 /\ FTRP(m, q) = bp - 2 /\ NEXT_BLKP(m, bp) = nx
  BY <1>1, <1>3, <1>4 DEF HDRP, FTRP, NEXT_BLKP, GET_SIZE
<1> DEFINE Left(p) ==
             /\ p \in B /\ p \in Nat /\ p # 2 /\ p <= bp
             /\ \A x \in B : p <= x /\ x < bp => m[x - 1].alloc = 0
             /\ \A b \in B : b + m[b - 1].size = p => m[b - 1].alloc = 1
           Right(d) ==
             /\ d \in B \cup {e} /\ d \in Nat /\ nx <= d /\ d % 2 = 0
             /\ \A x \in B : bp <= x /\ x < d => m[x - 1].alloc = 0
             /\ m[d - 1].alloc = 1
           Result(p, d) ==
             coalesce(m, bp, l) =
               [mem |-> PutBoth(m, p, d - p, 0), bp |-> p,
                last |-> IF l > p /\ l < d THEN p ELSE l]
<1>8. ASSUME m[q - 1].alloc = 1
      PROVE  Left(bp)
  <2>1. ASSUME NEW b \in B, b + m[b - 1].size = bp
        PROVE  m[b - 1].alloc = 1
    <3>1. /\ b \in Word /\ m[b - 1].size \in Nat /\ m[b - 1].size >= 2
          /\ \A c \in B : c > b => c >= b + m[b - 1].size
      BY BlockFacts
    <3>2. b \in Nat /\ b < bp
      BY <3>1, <2>1, <1>3 DEF Word
    <3>3. ~(q > b)
      BY <3>1, <2>1, <1>3
    <3>4. ~(b > q)
      BY <3>2, <1>3, <1>4
    <3>5. b = q
      BY <3>2, <3>3, <3>4, <1>3
    <3> QED
      BY <3>5, <1>8
  <2>2. \A x \in B : ~(bp <= x /\ x < bp)
    <3> TAKE x \in B
    <3>1. x \in Word
      BY BlockFacts
    <3> QED
      BY <3>1, <1>3 DEF Word
  <2>3. bp \in B /\ bp # 2 /\ bp \in Nat
    BY <1>2, <1>3
  <2> QED
    BY <2>1, <2>2, <2>3
<1>9. ASSUME m[q - 1].alloc # 1
      PROVE  Left(q)
  <2>1. m[q - 1].alloc = 0 /\ q # 2
    <3>1. m[1] = Tag(2, 1)
      BY HeapEnds
    <3>2. Tag(2, 1).alloc = 1
      BY TagType
    <3> QED
      BY <3>1, <3>2, <1>4, <1>9
  <2>2. ASSUME NEW x \in B, q <= x, x < bp
        PROVE  m[x - 1].alloc = 0
    <3>1. x \in Word
      BY BlockFacts
    <3>2. x = q
      BY <3>1, <2>2, <1>3, <1>4 DEF Word
    <3> QED
      BY <3>2, <2>1
  <2>3. ASSUME NEW b \in B, b + m[b - 1].size = q
        PROVE  m[b - 1].alloc = 1
    <3>1. b \in Word /\ m[b - 1].size \in Nat
      BY BlockFacts
    <3>2. b # bp /\ q # bp
      BY <3>1, <2>3, <1>3 DEF Word
    <3>3. m[b + m[b - 1].size - 1].alloc = m[q - 1].alloc
      <4>1. b + m[b - 1].size - 1 = q - 1
        BY <3>1, <2>3, <1>3 DEF Word
      <4> QED
        BY <4>1
    <3> QED
      BY <3>2, <3>3, <2>3, <1>9 DEF MergedBut
  <2> QED
    BY <2>1, <2>2, <2>3, <1>3
<1>10. ASSUME m[nx - 1].alloc = 1
       PROVE  Right(nx)
  <2>1. nx % 2 = 0
    <3>1. bp % 2 = 0
      BY BlockFacts
    <3> QED
      BY <3>1, <1>1, <1>3
  <2>2. ASSUME NEW x \in B, bp <= x, x < nx
        PROVE  m[x - 1].alloc = 0
    <3>1. x \in Word
      BY BlockFacts
    <3>2. x = bp
      BY <3>1, <2>2, <1>1, <1>3, <1>5 DEF Word
    <3> QED
      BY <3>2
  <2> QED
    BY <2>1, <2>2, <1>1, <1>5, <1>10
<1> DEFINE nn == nx + m[nx - 1].size
<1>11. ASSUME m[nx - 1].alloc # 1
       PROVE  /\ Right(nn) /\ nn - 2 \in Word /\ m[nn - 2] = m[nx - 1]
              /\ m[nx - 1].size \in Nat /\ nx \in B
  <2>1. nx \in B /\ m[nx - 1].alloc = 0
    <3>1. m[e - 1] = Tag(0, 1)
      BY HeapEnds
    <3>2. Tag(0, 1).alloc = 1
      BY TagType
    <3> QED
      BY <3>1, <3>2, <1>1, <1>5, <1>11
  <2> HIDE DEF nx
  <2>2. /\ m[nx - 1].size \in Nat /\ m[nx - 1].size >= 2
        /\ m[nx - 1].size % 2 = 0 /\ nx % 2 = 0
        /\ nx + m[nx - 1].size - 2 \in Word
        /\ m[nx + m[nx - 1].size - 2] = m[nx - 1]
    BY <2>1, BlockFacts
  <2>3. /\ nn \in B \cup {e} 
        /\ \A c \in B : c > nx => c >= nn
    BY <2>1, BlockFacts
  <2>4. nn \in Nat /\ nx <= nn /\ nn % 2 = 0
    BY <2>2, <1>5
  <2>5. nn - 2 \in Word /\ m[nn - 2] = m[nx - 1]
    <3>1. nx + m[nx - 1].size - 2 = nn - 2
      BY <2>2, <1>5
    <3> QED
      BY <3>1, <2>2
  <2>6. m[nn - 1].alloc = 1
    <3>1. nx # bp /\ nn # bp
      BY <1>1, <1>3, <1>5, <2>4 DEF nx
    <3>2. m[nx + m[nx - 1].size - 1].alloc = m[nn - 1].alloc
      <4>1. nx + m[nx - 1].size - 1 = nn - 1
        BY <2>2, <1>5
      <4> QED
        BY <4>1
    <3> QED
      BY <3>1, <3>2, <2>1 DEF MergedBut
  <2>7. ASSUME NEW x \in B, bp <= x, x < nn
        PROVE  m[x - 1].alloc = 0
    <3>1. x \in Word
      BY BlockFacts
    <3>2. x = bp \/ x = nx
      BY <3>1, <2>7, <2>3, <2>4, <1>1, <1>3, <1>5 DEF Word
    <3> QED
      BY <3>2, <2>1
  <2> QED
    BY <2>1, <2>2, <2>3, <2>4, <2>5, <2>6, <2>7
<1>12. ASSUME NEW p, NEW d, Left(p), Right(d), Result(p, d)
       PROVE  \E p0 \in B, t \in Nat : Unites(m, e, B, bp, l, p0, t)
  <2>1. PICK t \in Nat : t = d - p /\ p + t = d /\ t >= 2
    BY <1>12, <1>1, <1>3
  <2>2. p % 2 = 0
    BY <1>12, BlockFacts
  <2>3. t % 2 = 0
    BY <2>1, <2>2, <1>12
  <2>4. p + t - 1 = d - 1
    BY <2>1, <1>12
  <2>5. \A x \in B : p <= x /\ x < p + t => m[x - 1].alloc = 0
    <3> SUFFICES ASSUME NEW x \in B, p <= x, x < d
                 PROVE  m[x - 1].alloc = 0
      BY <2>1
    <3>1. x \in Word
      BY BlockFacts
    <3>2. x < bp \/ bp <= x
      BY <3>1, <1>3 DEF Word
    <3> QED
      BY <3>2, <1>12
  <2>6. coalesce(m, bp, l) = [mem |-> PutBoth(m, p, t, 0), bp |-> p,
                              last |-> IF l > p /\ l < p + t THEN p ELSE l]
    BY <2>1, <1>12
  <2> HIDE DEF nx
  <2>7. /\ p \in B /\ p # 2 /\ p + t \in B \cup {e} /\ p <= bp /\ nx <= p + t
        /\ m[p + t - 1].alloc = 1
    BY <2>1, <2>4, <1>12
  <2>8. \A b \in B : b + m[b - 1].size = p => m[b - 1].alloc = 1
    BY <1>12
  <2> QED
    BY <2>1, <2>3, <2>5, <2>6, <2>7, <2>8 DEF nx, Unites
<1>13. /\ GET_ALLOC(m, FTRP(m, PREV_BLKP(m, bp))) <=> m[q - 1].alloc = 1
       /\ GET_ALLOC(m, HDRP(NEXT_BLKP(m, bp))) <=> m[nx - 1].alloc = 1
  BY <1>3, <1>7 DEF GET_ALLOC
<1>19. /\ PREV_BLKP(m, bp) = q /\ NEXT_BLKP(m, bp) = nx /\ FTRP(m, bp) = nx - 2
       /\ GET_SIZE(m, HDRP(bp)) = s
       /\ GET_SIZE(m, HDRP(nx)) = m[nx - 1].size
       /\ GET_SIZE(m, HDRP(q)) = m[q - 1].size
  BY <1>3, <1>7 DEF GET_SIZE
<1>14. CASE m[q - 1].alloc = 1 /\ m[nx - 1].alloc = 1
  <2>1. coalesce(m, bp, l) = [mem |-> m, bp |-> bp, last |-> l]
    BY <1>13, <1>14 DEF coalesce
  <2>2. m = PutBoth(m, bp, s, 0)
    <3> HIDE DEF s
    <3>1. bp + s - 2 = nx - 2
      BY <1>1, <1>3
    <3>2. bp - 1 \in Word /\ bp + s - 2 \in Word /\ s \in Nat /\ bp \in Nat
      BY <1>1, <1>3, <3>1
    <3>3. /\ PutBoth(m, bp, s, 0) \in Heap
          /\ \A w \in Word : PutBoth(m, bp, s, 0)[w]
               = IF w = bp - 1 \/ w = bp + s - 2 THEN Tag(s, 0) ELSE m[w]
      BY <3>2, <1>6, PutBothAt
    <3>4. m[bp + s - 2] = Tag(s, 0) /\ m[bp - 1] = Tag(s, 0)
      BY <3>1, <1>1
    <3>5. \A w \in Word : PutBoth(m, bp, s, 0)[w] = m[w]
      BY <3>3, <3>4
    <3> QED
      BY <3>3, <3>5, <1>6
  <2>3. ~(l > bp /\ l < nx)
    <3>1. l \in Word
      BY BlockFacts
    <3> QED
      BY <3>1, <1>1, <1>3, <1>5 DEF Word
  <2>4. nx - bp = s
    BY <1>1, <1>3
  <2>5. Result(bp, nx)
    BY <2>1, <2>2, <2>3, <2>4
  <2> HIDE DEF Result, Left, Right, nx
  <2> QED
    BY <2>5, <1>8, <1>10, <1>12, <1>14
<1>15. CASE m[q - 1].alloc = 1 /\ m[nx - 1].alloc # 1
  <2> DEFINE t == s + m[nx - 1].size
  <2>1. coalesce(m, bp, l) =
          [mem |-> PutBoth(m, bp, t, 0), bp |-> bp,
           last |-> Rover(PutBoth(m, bp, t, 0), bp, l)]
    <3> HIDE DEF s, nx, Left, Right, Result
    <3> QED
      BY <1>13, <1>15, <1>19 DEF coalesce
  <2>2. t \in Nat /\ nn - bp = t /\ bp + t = nn /\ bp + t - 2 = nn - 2
    <3> DEFINE sx == m[nx - 1].size
    <3>1. sx \in Nat
      <4> HIDE DEF nn, Right, Left, Result, nx
      <4> QED
        BY <1>11, <1>15
    <3>2. bp \in Nat /\ s \in Nat
      BY <1>1, <1>3
    <3>3. t = s + sx /\ nn = bp + s + sx
      BY <3>1
    <3> HIDE DEF sx, s, t, nn, nx
    <3> QED
      BY <3>1, <3>2, <3>3
  <2> HIDE DEF t, nn
  <2>3. bp + t - 2 \in Word
    BY <2>2, <1>11, <1>15
  <2>4. bp - 1 \in Word
    BY <1>1
  <2>5. Rover(PutBoth(m, bp, t, 0), bp, l)
          = IF l > bp /\ l < bp + t THEN bp ELSE l
    BY <2>2, <2>3, <2>4, <1>3, <1>6, RoverIs
  <2>6. Result(bp, nn)
    BY <2>1, <2>2, <2>5
  <2>7. Right(nn)
    BY <1>11, <1>15
  <2> HIDE DEF Result, Left, Right, nx
  <2> QED
    BY <2>6, <2>7, <1>8, <1>12, <1>15
<1>18. ASSUME NEW d \in Nat, d >= nx, d - 2 \in Word, NEW t \in Nat, q + t = d,
              coalesce(m, bp, l) =
                LET m1 == PUT(m, d - 2, Tag(t, 0))
                    prev == PREV_BLKP(m1, bp)
                    m2 == PUT(m1, HDRP(prev), Tag(t, 0))
                IN  [mem |-> m2, bp |-> prev, last |-> Rover(m2, prev, l)]
       PROVE  Result(q, d)
  <2>1. Tag(t, 0) \in WordValue
    BY TagType
  <2>2. bp < d /\ d - q = t /\ q + t - 2 = d - 2
    BY <1>1, <1>3, <1>18
  <2>3. /\ PREV_BLKP(PUT(m, d - 2, Tag(t, 0)), bp) = q
        /\ PUT(PUT(m, d - 2, Tag(t, 0)), HDRP(q), Tag(t, 0)) = PutBoth(m, q, t, 0)
    <3>1. /\ q \in Nat /\ bp \in Nat /\ bp - 2 \in Word /\ PREV_BLKP(m, bp) = q
          /\ q - 1 \in Word /\ d - 2 \in Word /\ q + t = d /\ bp < d
      BY <2>2, <1>3, <1>4, <1>18
    <3> HIDE DEF s, nx, nn, Left, Right, Result
    <3> QED
      BY <3>1, <2>1, <1>6, BackwardPuts
  <2>4. Rover(PutBoth(m, q, t, 0), q, l) = IF l > q /\ l < q + t THEN q ELSE l
    <3>1. q \in Nat /\ q - 1 \in Word /\ q + t - 2 \in Word
      BY <1>3, <1>4, <1>18, <2>2
    <3> QED
      BY <3>1, <1>6, RoverIs
  <2> QED
    BY <2>2, <2>3, <2>4, <1>18
<1>16. CASE m[q - 1].alloc # 1 /\ m[nx - 1].alloc = 1
  <2> DEFINE t == s + m[q - 1].size
  <2>1. coalesce(m, bp, l) =
          LET m1 == PUT(m, nx - 2, Tag(t, 0))
              prev == PREV_BLKP(m1, bp)
              m2 == PUT(m1, HDRP(prev), Tag(t, 0))
          IN  [mem |-> m2, bp |-> prev, last |-> Rover(m2, prev, l)]
    <3> HIDE DEF s, nx, Left, Right, Result
    <3> QED
      BY <1>13, <1>16, <1>19 DEF coalesce
  <2>2. t \in Nat /\ q + t = nx
    BY <1>1, <1>3, <1>4
  <2>3. nx - 2 \in Word /\ nx >= nx /\ nx \in Nat
    BY <1>1, <1>5
  <2> HIDE DEF t, Result, Left, Right, nx
  <2>4. Result(q, nx)
    BY <2>1, <2>2, <2>3, <1>18
  <2> QED
    BY <2>4, <1>9, <1>10, <1>12, <1>16
<1>17. CASE m[q - 1].alloc # 1 /\ m[nx - 1].alloc # 1
  <2> DEFINE t == s + m[nn - 2].size + m[q - 1].size
  <2>0. FTRP(m, nx) = nn - 2
    <3>1. m[nx - 1].size \in Nat
      <4> HIDE DEF nx, nn, Right
      <4> QED
        BY <1>11, <1>17
    <3> HIDE DEF nx
    <3> QED
      BY <1>5, <3>1 DEF FTRP, HDRP, GET_SIZE
  <2>1. coalesce(m, bp, l) =
          LET m1 == PUT(m, nn - 2, Tag(t, 0))
              prev == PREV_BLKP(m1, bp)
              m2 == PUT(m1, HDRP(prev), Tag(t, 0))
          IN  [mem |-> m2, bp |-> prev, last |-> Rover(m2, prev, l)]
    <3>1. GET_SIZE(m, FTRP(m, nx)) = m[nn - 2].size
      BY <2>0 DEF GET_SIZE
    <3> HIDE DEF s, nx, nn, Left, Right, Result
    <3> QED
      BY <2>0, <3>1, <1>13, <1>17, <1>19 DEF coalesce
  <2>2. t \in Nat /\ q + t = nn
    <3> DEFINE sx == m[nx - 1].size
               sq == m[q - 1].size
    <3>1. m[nn - 2].size = sx /\ sx \in Nat
      <4> HIDE DEF nn, Right, Left, Result, nx
      <4> QED
        BY <1>11, <1>17
    <3>2. q + sq = bp /\ sq \in Nat /\ q \in Nat /\ bp \in Nat /\ s \in Nat
      BY <1>1, <1>3, <1>4
    <3>3. t = s + sx + sq /\ nn = bp + s + sx
      BY <3>1
    <3> HIDE DEF sx, sq, s, t, nn, nx
    <3> QED
      BY <3>1, <3>2, <3>3
  <2> HIDE DEF t, nn, Result, Left, Right, nx
  <2>3. nn - 2 \in Word /\ nn >= nx /\ nn \in Nat
    BY <1>11, <1>17 DEF Right
  <2>5. Right(nn)
    BY <1>11, <1>17
  <2>4. Result(q, nn)
    BY <2>1, <2>2, <2>3, <1>18
  <2> QED
    BY <2>4, <2>5, <1>9, <1>12, <1>17
<1> QED
  BY <1>14, <1>15, <1>16, <1>17

(* What coalesce does for the heap: it stays tiled, becomes merged, and    *)
(* the blocks in use do not notice.                                        *)
Coalesced(m, e, B, n, r) ==
    \E B2 : /\ Tiled(r.mem, e, B2) /\ Merged(r.mem, B2)
            /\ InUseIn(r.mem, B2) = InUseIn(m, B)
            /\ Keeps(m, r.mem, InUseIn(m, B))
            /\ r.last \in B2
            /\ r.bp \in B2 /\ r.mem[r.bp - 1].alloc = 0
            /\ n <= r.mem[r.bp - 1].size

LEMMA CoalesceEffect ==
    ASSUME NEW m, NEW e, NEW B, Tiled(m, e, B), NEW bp \in B,
           m[bp - 1].alloc = 0, NEW l \in B, MergedBut(m, B, bp)
    PROVE  Coalesced(m, e, B, m[bp - 1].size, coalesce(m, bp, l))
<1>0. PICK p \in B, t \in Nat : Unites(m, e, B, bp, l, p, t)
  BY CoalesceIs
<1>1. /\ coalesce(m, bp, l) =
           [mem |-> PutBoth(m, p, t, 0), bp |-> p,
            last |-> IF l > p /\ l < p + t THEN p ELSE l]
      /\ p # 2 /\ t >= 2 /\ t % 2 = 0 /\ p + t \in B \cup {e}
      /\ p <= bp /\ bp + m[bp - 1].size <= p + t
      /\ \A x \in B : p <= x /\ x < p + t => m[x - 1].alloc = 0
      /\ m[p + t - 1].alloc = 1
      /\ \A b \in B : b + m[b - 1].size = p => m[b - 1].alloc = 1
  BY <1>0 DEF Unites
<1> DEFINE m2 == PutBoth(m, p, t, 0)
           B2 == {x \in B : x <= p \/ x >= p + t}
<1>2. /\ Tiled(m2, e, B2) /\ p \in B2 /\ m2[p - 1] = Tag(t, 0)
      /\ m2[e - 1] = m[e - 1] /\ Keeps(m, m2, B2 \ {p})
  <2>1. p # 2 /\ t >= 2 /\ t % 2 = 0 /\ p + t \in B \cup {e}
    BY <1>1
  <2>2. Joined(m, e, B, p, t, 0)
    BY <2>1, Join
  <2> QED
    BY <2>2 DEF Joined
<1> HIDE DEF m2
<1>3. Tag(t, 0).size = t /\ Tag(t, 0).alloc = 0
  BY TagType
<1>4. p \in Nat /\ bp \in Nat /\ m[bp - 1].size \in Nat /\ m[bp - 1].size >= 2
  BY BlockFacts, BlocksAreNat
<1>5. \A x \in B2 \cup {e} : x # p => m2[x - 1] = m[x - 1]
  BY <1>2 DEF Keeps, HDRP
<1>6. \A x \in B : p <= x /\ x < p + t => m[x - 1].alloc = 0
  BY <1>1
<1>7. \A x \in B : m[x - 1].alloc = 1 => x \in B2 \ {p}
  <2> TAKE x \in B
  <2>1. x \in Nat
    BY BlockFacts DEF Word
  <2>2. Tag(t, 0).alloc # 1 /\ p < p + t
    BY <1>1, <1>3, <1>4
  <2> QED
    BY <2>1, <2>2, <1>4, <1>6
<1>8. InUseIn(m2, B2) = InUseIn(m, B)
  <2>1. \A x \in B2 : m2[x - 1].alloc = 1 => x # p
    BY <1>2, <1>3
  <2>2. \A x \in B2 : x # p => m2[x - 1] = m[x - 1]
    BY <1>5
  <2>3. \A x : x \in B2 /\ m2[x - 1].alloc = 1 <=> x \in B /\ m[x - 1].alloc = 1
    BY <2>1, <2>2, <1>7
  <2> HIDE DEF B2
  <2> QED
    BY <2>3 DEF InUseIn, GET_ALLOC, HDRP
<1>9. Keeps(m, m2, InUseIn(m, B))
  <2>1. \A x \in InUseIn(m, B) : x \in B2 \ {p}
    BY <1>7 DEF InUseIn, GET_ALLOC, HDRP
  <2> HIDE DEF B2
  <2> QED
    BY <2>1, <1>2 DEF Keeps
<1>10. Merged(m2, B2)
  <2> SUFFICES ASSUME NEW b \in B2
               PROVE  m2[b - 1].alloc = 1 \/ m2[b + m2[b - 1].size - 1].alloc = 1
    <3>1. \A b \in B2 : HDRP(NEXT_BLKP(m2, b)) = b + m2[b - 1].size - 1
      <4> TAKE b \in B2
      <4>1. b \in Nat /\ m2[b - 1].size \in Nat
        BY <1>2, BlockFacts DEF Word
      <4> QED
        BY <4>1 DEF HDRP, NEXT_BLKP, GET_SIZE
    <3> QED
      BY <3>1 DEF Merged, GET_ALLOC, HDRP
  <2>1. CASE b = p
    <3>1. p + t \in B2 \cup {e} /\ p + t # p
      BY <1>1, <1>4
    <3>2. m2[p + t - 1] = m[p + t - 1]
      <4>1. m2[(p + t) - 1] = m[(p + t) - 1]
        BY <3>1, <1>5
      <4>2. (p + t) - 1 = p + t - 1
        BY <1>4
      <4> QED
        BY <4>1, <4>2
    <3> QED
      BY <2>1, <3>2, <1>1, <1>2, <1>3
  <2>2. CASE b # p
    <3> DEFINE c == b + m[b - 1].size
    <3>1. m2[b - 1] = m[b - 1]
      BY <2>2, <1>5
    <3>2. /\ b \in Nat /\ m[b - 1].size \in Nat
          /\ c \in B2 \cup {e} 
      BY <3>1, <1>2, BlockFacts DEF Word
    <3>3. b + m[b - 1].size - 1 = c - 1
      BY <3>2
    <3>4. CASE c = p
      BY <3>1, <3>4, <1>1
    <3>5. CASE c # p
      <4>1. m2[c - 1] = m[c - 1]
        BY <3>2, <3>5, <1>5
      <4>2. bp \in B2 => bp = p
        <5>1. bp < p + t
          BY <1>1, <1>4
        <5> QED
          BY <5>1, <1>1, <1>4
      <4>3. b # bp
        BY <4>2, <2>2
      <4>4. c # bp
        <5>1. CASE c \in B2
          BY <5>1, <4>2, <3>5
        <5>2. CASE c = e
          <6>1. e \notin B
            BY HeapEnds
          <6> QED
            BY <6>1, <5>2
        <5> QED
          BY <5>1, <5>2, <3>2
      <4>5. m[b - 1].alloc = 1 \/ m[b + m[b - 1].size - 1].alloc = 1
        BY <4>3, <4>4 DEF MergedBut
      <4> QED
        BY <4>1, <4>5, <3>1, <3>3
    <3> QED
      BY <3>4, <3>5
  <2> QED
    BY <2>1, <2>2
<1>11. (IF l > p /\ l < p + t THEN p ELSE l) \in B2
  <2>1. l \in Nat
    BY BlocksAreNat
  <2>2. p \in B2
    BY <1>2
  <2> QED
    BY <2>1, <2>2, <1>4
<1>12. m[bp - 1].size <= t
  BY <1>1, <1>4
<1> HIDE DEF B2
<1> DEFINE r == coalesce(m, bp, l)
<1>13. r.mem = m2 /\ r.bp = p /\ r.last \in B2
  BY <1>1, <1>11 DEF m2
<1>14. m2[p - 1].alloc = 0 /\ m2[p - 1].size = t
  BY <1>2, <1>3
<1> HIDE DEF r
<1>15. Coalesced(m, e, B, m[bp - 1].size, r)
  BY <1>2, <1>8, <1>9, <1>10, <1>12, <1>13, <1>14 DEF Coalesced
<1> QED
  BY <1>15 DEF r

LEMMA KeepsTrans ==
    ASSUME NEW m, NEW m1, NEW m2, NEW S, Keeps(m, m1, S), Keeps(m1, m2, S)
    PROVE  Keeps(m, m2, S)
<1>1. \A x \in S : /\ m1[x - 1] = m[x - 1] /\ m2[x - 1] = m1[x - 1]
                   /\ \A q \in x .. x + m[x - 1].size - 3 : m1[q] = m[q]
                   /\ \A q \in x .. x + m1[x - 1].size - 3 : m2[q] = m1[q]
  BY DEF Keeps, HDRP, GET_SIZE
<1> SUFFICES ASSUME NEW x \in S
             PROVE  /\ m2[x - 1] = m[x - 1]
                    /\ \A q \in x .. x + m[x - 1].size - 3 : m2[q] = m[q]
  BY DEF Keeps, HDRP, GET_SIZE
<1>2. m1[x - 1] = m[x - 1] /\ m2[x - 1] = m1[x - 1]
  BY <1>1
<1>3. \A q \in x .. x + m[x - 1].size - 3 : m2[q] = m[q]
  BY <1>1, <1>2
<1> QED
  BY <1>2, <1>3

LEMMA MergedPlain ==
    ASSUME NEW m, NEW e, NEW B, Tiled(m, e, B)
    PROVE  Merged(m, B) <=>
             \A b \in B : m[b - 1].alloc = 1 \/ m[b + m[b - 1].size - 1].alloc = 1
<1>1. \A b \in B : HDRP(NEXT_BLKP(m, b)) = b + m[b - 1].size - 1
  <2> TAKE b \in B
  <2>1. b \in Nat /\ m[b - 1].size \in Nat
    BY BlockFacts, BlocksAreNat
  <2> QED
    BY <2>1 DEF HDRP, NEXT_BLKP, GET_SIZE
<1> QED
  BY <1>1 DEF Merged, GET_ALLOC, HDRP

(* Freeing a block in use.                                                 *)
Freed(m, e, B, bp, r) ==
    \E B2 : /\ Tiled(r.mem, e, B2) /\ Merged(r.mem, B2)
            /\ InUseIn(r.mem, B2) = InUseIn(m, B) \ {bp}
            /\ Keeps(m, r.mem, InUseIn(m, B) \ {bp})
            /\ r.last \in B2

LEMMA FreeEffect ==
    ASSUME NEW m, NEW e, NEW B, Tiled(m, e, B), Merged(m, B),
           NEW bp \in B, bp # 2, NEW l \in B
    PROVE  Freed(m, e, B, bp, mm_free(m, bp, l))
<1> DEFINE s == m[bp - 1].size
           m1 == PutBoth(m, bp, s, 0)
<1>1. /\ s \in Nat /\ s >= 2 /\ s % 2 = 0 /\ bp + s \in B \cup {e}
      /\ \A c \in B : c > bp => c >= bp + s
  BY BlockFacts
<1>2. \A x \in B : x <= bp \/ x >= bp + s
  BY <1>1, BlocksAreNat
<1>3. Joined(m, e, B, bp, s, 0)
  BY <1>1, Join
<1>4. /\ Tiled(m1, e, B) /\ m1[bp - 1] = Tag(s, 0)
      /\ m1[e - 1] = m[e - 1] /\ Keeps(m, m1, B \ {bp})
  <2>1. {x \in B : x <= bp \/ x >= bp + s} = B
    BY <1>2
  <2> QED
    BY <2>1, <1>3 DEF Joined
<1>5. mm_free(m, bp, l) = coalesce(m1, bp, l)
  BY DEF mm_free, GET_SIZE, HDRP
<1> HIDE DEF m1
<1>6. m1[bp - 1].alloc = 0 /\ m1[bp - 1].size = s
  BY <1>1, <1>4, TagType
<1>7. \A x \in B \cup {e} : x # bp => m1[x - 1] = m[x - 1]
  BY <1>4 DEF Keeps, HDRP
<1>8. MergedBut(m1, B, bp)
  <2> SUFFICES ASSUME NEW b \in B, b # bp, b + m1[b - 1].size # bp
               PROVE  \/ m1[b - 1].alloc = 1
                      \/ m1[b + m1[b - 1].size - 1].alloc = 1
    BY DEF MergedBut
  <2> DEFINE c == b + m[b - 1].size
  <2>1. m1[b - 1] = m[b - 1]
    BY <1>7
  <2>2. c \in B \cup {e} /\ c # bp
    BY <2>1, BlockFacts
  <2>3. b + m[b - 1].size - 1 = c - 1
    BY BlockFacts, BlocksAreNat
  <2>4. m1[c - 1] = m[c - 1]
    BY <2>2, <1>7
  <2>5. m[b - 1].alloc = 1 \/ m[b + m[b - 1].size - 1].alloc = 1
    BY MergedPlain
  <2> QED
    BY <2>1, <2>3, <2>4, <2>5
<1>9. InUseIn(m1, B) = InUseIn(m, B) \ {bp}
  <2>1. \A x \in B : m1[x - 1].alloc = 1 <=> m[x - 1].alloc = 1 /\ x # bp
    BY <1>6, <1>7
  <2> QED
    BY <2>1 DEF InUseIn, GET_ALLOC, HDRP
<1>10. Keeps(m, m1, InUseIn(m, B) \ {bp})
  BY <1>4 DEF Keeps, InUseIn
<1> DEFINE r == coalesce(m1, bp, l)
<1>11. Coalesced(m1, e, B, m1[bp - 1].size, r)
  BY <1>4, <1>6, <1>8, CoalesceEffect
<1> HIDE DEF r
<1>12. PICK B2 : /\ Tiled(r.mem, e, B2) /\ Merged(r.mem, B2)
                 /\ InUseIn(r.mem, B2) = InUseIn(m1, B)
                 /\ Keeps(m1, r.mem, InUseIn(m1, B))
                 /\ r.last \in B2
  BY <1>11 DEF Coalesced
<1>13. Keeps(m, r.mem, InUseIn(m, B) \ {bp})
  BY <1>9, <1>10, <1>12, KeepsTrans
<1>14. Freed(m, e, B, bp, r)
  BY <1>9, <1>12, <1>13 DEF Freed
<1> QED
  BY <1>5, <1>14 DEF r

(* Growing the heap: a free block from its old end to the new one, f.      *)
Grown(m, e, B, n, f) ==
    LET m2 == PUT(PutBoth(m, e, n, 0), f - 1, Tag(0, 1))
    IN  /\ Tiled(m2, f, B \cup {e})
        /\ m2[e - 1] = Tag(n, 0)
        /\ Keeps(m, m2, B)

LEMMA Grow ==
    ASSUME NEW m, NEW e, NEW B, Tiled(m, e, B), NEW n \in Nat, n >= 2,
           n % 2 = 0, NEW f \in Nat, f = e + n, f <= MAX_HEAP
    PROVE  Grown(m, e, B, n, f)
<1> DEFINE m1 == PutBoth(m, e, n, 0)
           m2 == PUT(m1, f - 1, Tag(0, 1))
           B2 == B \cup {e}
<1>1. /\ e \in Nat /\ e >= 4 /\ e <= MAX_HEAP /\ e % 2 = 0 /\ e \notin B
      /\ e - 1 \in Word /\ 2 \in B /\ m[1] = Tag(2, 1)
  BY HeapEnds
<1>2. /\ f - 2 \in Word /\ f - 1 \in Word /\ e + n - 2 = f - 2
      /\ 1 \in Word /\ e \in Word
  BY <1>1, HeapAssumption, ChunkAssumption DEF Word
<1>3. e + n - 2 \in Word
  BY <1>2
<1>4. /\ m1 \in Heap
      /\ \A q \in Word : m1[q] = IF q = e - 1 \/ q = e + n - 2
                                 THEN Tag(n, 0) ELSE m[q]
  <2>1. m \in Heap
    BY DEF Tiled
  <2>2. e \in Nat /\ e - 1 \in Word
    BY <1>1
  <2> QED
    BY <1>3, <2>1, <2>2, PutBothAt
<1>5. Tag(0, 1) \in WordValue
  BY TagType
<1> HIDE DEF m1
<1>6. /\ m2 \in Heap
      /\ \A q \in Word : m2[q] = IF q = f - 1 THEN Tag(0, 1) ELSE m1[q]
  <2>1. m1 \in Heap
    BY <1>4
  <2>2. f - 1 \in Word
    BY <1>2
  <2> QED
    BY <2>1, <2>2, <1>5, PutAt
<1>7. \A q \in Word : m2[q] = IF q = f - 1 THEN Tag(0, 1)
                              ELSE IF q = e - 1 \/ q = f - 2
                                   THEN Tag(n, 0) ELSE m[q]
  BY <1>2, <1>4, <1>6
<1> HIDE DEF m2
<1>8. /\ m2[f - 1] = Tag(0, 1) /\ m2[e - 1] = Tag(n, 0) /\ m2[f - 2] = Tag(n, 0)
      /\ m2[1] = Tag(2, 1)
  BY <1>1, <1>2, <1>7
<1>9. Tag(n, 0).size = n /\ Tag(n, 0).id = NoId
  BY TagType
<1>10. ASSUME NEW x \in B
       PROVE  /\ m2[x - 1] = m[x - 1]
              /\ \A q \in x .. x + m[x - 1].size - 2 : m2[q] = m[q]
  <2>1. /\ x \in Word /\ x >= 2 /\ x - 1 \in Word /\ m[x - 1].size \in Nat
        /\ m[x - 1].size >= 2 /\ x + m[x - 1].size <= e
    BY BlockFacts
  <2>2. \A q \in x - 1 .. x + m[x - 1].size - 2 :
            q \in Word /\ q # f - 1 /\ q # e - 1 /\ q # f - 2
    BY <2>1, <1>1, HeapAssumption, ChunkAssumption DEF Word
  <2> QED
    BY <2>1, <2>2, <1>7 DEF Word
<1>11. ASSUME NEW b \in B2
       PROVE  /\ b \in Word /\ b >= 2 /\ b % 2 = 0 /\ m2[b - 1].id = NoId
              /\ m2[b - 1].size \in Nat /\ m2[b - 1].size >= 2
              /\ m2[b - 1].size % 2 = 0 /\ b + m2[b - 1].size <= f
              /\ m2[b + m2[b - 1].size - 2] = m2[b - 1]
              /\ b + m2[b - 1].size \in B2 \cup {f}
              /\ \A c \in B2 : c > b => c >= b + m2[b - 1].size
  <2>1. CASE b = e
    <3>1. m2[b - 1].size = n /\ m2[b - 1].id = NoId /\ b + n = f
      BY <2>1, <1>8, <1>9
    <3>2. m2[b + n - 2] = m2[b - 1]
      BY <2>1, <1>2, <1>8
    <3>3. \A c \in B2 : ~(c > b)
      BY <2>1, <1>1, HeapEnds
    <3> QED
      BY <2>1, <3>1, <3>2, <3>3, <1>1, <1>2
  <2>2. CASE b # e
    <3>1. b \in B
      BY <2>2
    <3>2. /\ b \in Word /\ b >= 2 /\ b % 2 = 0 /\ m[b - 1].id = NoId
          /\ m[b - 1].size \in Nat /\ m[b - 1].size >= 2
          /\ m[b - 1].size % 2 = 0 /\ b + m[b - 1].size <= e
          /\ m[b + m[b - 1].size - 2] = m[b - 1]
          /\ b + m[b - 1].size \in B \cup {e}
          /\ \A c \in B : c > b => c >= b + m[b - 1].size
      BY <3>1, BlockFacts
    <3>3. m2[b - 1] = m[b - 1]
      BY <3>1, <1>10
    <3>4. m2[b + m[b - 1].size - 2] = m[b + m[b - 1].size - 2]
      <4>1. b + m[b - 1].size - 2 \in b .. b + m[b - 1].size - 2
        BY <3>2 DEF Word
      <4> QED
        BY <4>1, <3>1, <1>10
    <3>5. b + m[b - 1].size <= f
      BY <3>2, <1>1 DEF Word
    <3>6. b + m[b - 1].size \in B2 \cup {f}
      BY <3>2
    <3>7. \A c \in B2 : c > b => c >= b + m[b - 1].size
      BY <3>2, <1>1
    <3> QED
      BY <3>2, <3>3, <3>4, <3>5, <3>6, <3>7
  <2> QED
    BY <2>1, <2>2
<1>12. ASSUME NEW c \in B2 \cup {f}, c # 2
       PROVE  \E b \in B2 : b + m2[b - 1].size = c
  <2>1. CASE c = f
    BY <2>1, <1>8, <1>9
  <2>2. CASE c # f
    <3>1. PICK b \in B : b + m[b - 1].size = c
      BY <1>12, <2>2, BlockBefore DEF heap_listp
    <3> QED
      BY <3>1, <1>10
  <2> QED
    BY <2>1, <2>2
<1>13. 2 \in B2 /\ f \in 4 .. MAX_HEAP
  BY <1>1
<1>14. Tiled(m2, f, B2)
  <2> HIDE DEF B2
  <2> QED
    BY <1>6, <1>8, <1>11, <1>12, <1>13, TiledIntro
<1>15. Keeps(m, m2, B)
  <2> SUFFICES ASSUME NEW x \in B
               PROVE  /\ m2[x - 1] = m[x - 1]
                      /\ \A q \in x .. x + m[x - 1].size - 3 : m2[q] = m[q]
    BY DEF Keeps, HDRP, GET_SIZE
  <2>1. x \in Word /\ m[x - 1].size \in Nat
    BY BlockFacts
  <2>2. \A q \in x .. x + m[x - 1].size - 3 : q \in x .. x + m[x - 1].size - 2
    BY <2>1 DEF Word
  <2> QED
    BY <2>2, <1>10
<1> QED
  BY <1>8, <1>14, <1>15 DEF Grown, m1, m2

(* extend_heap: the heap grows, and the new block is merged with a free    *)
(* one before it.                                                          *)
LEMMA ExtendEffect ==
    ASSUME NEW m, NEW e, NEW B, Tiled(m, e, B), Merged(m, B), NEW n \in Nat,
           n >= 2, n % 2 = 0, NEW f \in Nat, f = e + n, f <= MAX_HEAP,
           NEW l \in B
    PROVE  Coalesced(m, f, B, n, extend_heap(m, e, n, l))
<1> DEFINE m1 == PutBoth(m, e, n, 0)
           m2 == PUT(m1, f - 1, Tag(0, 1))
           B2 == B \cup {e}
<1>1. /\ e \in Nat /\ e >= 4 /\ e \notin B /\ m[e - 1] = Tag(0, 1)
      /\ e - 1 \in Word
  BY HeapEnds
<1>2. Grown(m, e, B, n, f)
  BY Grow
<1>3. Tiled(m2, f, B2) /\ m2[e - 1] = Tag(n, 0) /\ Keeps(m, m2, B)
  BY <1>2 DEF Grown
<1>4. extend_heap(m, e, n, l) = coalesce(m2, e, l)
  <2>1. HDRP(NEXT_BLKP(m1, e)) = f - 1
    <3>1. m1[e - 1] = Tag(n, 0)
      <4>1. m \in Heap
        BY DEF Tiled
      <4>2. e + n - 2 \in Word
        BY <1>1, HeapAssumption, ChunkAssumption DEF Word
      <4>3. e \in Nat /\ e - 1 \in Word
        BY <1>1
      <4> QED
        BY <4>1, <4>2, <4>3, PutBothAt
    <3>2. Tag(n, 0).size = n
      BY TagType
    <3> HIDE DEF m1
    <3> QED
      BY <3>1, <3>2 DEF HDRP, NEXT_BLKP, GET_SIZE
  <2> QED
    BY <2>1 DEF extend_heap
<1> HIDE DEF m1, m2
<1>5. Tag(n, 0).size = n /\ Tag(n, 0).alloc = 0 /\ Tag(0, 1).alloc = 1
  BY TagType
<1>6. \A x \in B : m2[x - 1] = m[x - 1]
  BY <1>3 DEF Keeps, HDRP
<1>7. MergedBut(m2, B2, e)
  <2> SUFFICES ASSUME NEW b \in B2, b # e, b + m2[b - 1].size # e
               PROVE  \/ m2[b - 1].alloc = 1
                      \/ m2[b + m2[b - 1].size - 1].alloc = 1
    BY DEF MergedBut
  <2> DEFINE c == b + m[b - 1].size
  <2>0. b \in B
    OBVIOUS
  <2>1. m2[b - 1] = m[b - 1]
    BY <2>0, <1>6
  <2>2. c \in B
    <3>1. c \in B \cup {e}
      BY <2>0, BlockFacts
    <3> QED
      BY <3>1, <2>1
  <2>3. b + m[b - 1].size - 1 = c - 1
    BY <2>0, BlockFacts, BlocksAreNat
  <2>4. m2[c - 1] = m[c - 1]
    BY <2>2, <1>6
  <2>5. m[b - 1].alloc = 1 \/ m[b + m[b - 1].size - 1].alloc = 1
    BY <2>0, MergedPlain
  <2> QED
    BY <2>1, <2>3, <2>4, <2>5
<1>8. InUseIn(m2, B2) = InUseIn(m, B)
  <2>1. \A x : x \in B2 /\ m2[x - 1].alloc = 1 <=> x \in B /\ m[x - 1].alloc = 1
    BY <1>1, <1>3, <1>5, <1>6
  <2> HIDE DEF B2
  <2> QED
    BY <2>1 DEF InUseIn, GET_ALLOC, HDRP
<1>9. Keeps(m, m2, InUseIn(m, B))
  BY <1>3 DEF Keeps, InUseIn
<1> DEFINE r == coalesce(m2, e, l)
<1>10. Coalesced(m2, f, B2, m2[e - 1].size, r)
  <2>1. e \in B2 /\ m2[e - 1].alloc = 0 /\ l \in B2
    BY <1>3, <1>5
  <2> HIDE DEF B2
  <2> QED
    BY <2>1, <1>3, <1>7, CoalesceEffect
<1> HIDE DEF r, B2
<1>11. PICK B3 : /\ Tiled(r.mem, f, B3) /\ Merged(r.mem, B3)
                 /\ InUseIn(r.mem, B3) = InUseIn(m2, B2)
                 /\ Keeps(m2, r.mem, InUseIn(m2, B2))
                 /\ r.last \in B3
                 /\ r.bp \in B3 /\ r.mem[r.bp - 1].alloc = 0
                 /\ m2[e - 1].size <= r.mem[r.bp - 1].size
  BY <1>10 DEF Coalesced
<1>12. Keeps(m, r.mem, InUseIn(m, B))
  BY <1>8, <1>9, <1>11, KeepsTrans
<1>13. Coalesced(m, f, B, n, r)
  BY <1>3, <1>5, <1>8, <1>11, <1>12 DEF Coalesced
<1> QED
  BY <1>4, <1>13 DEF r

(* place: the block at bp is in use, what it does not need is a block.     *)
Placed(m, e, B, bp, n, m2) ==
    \E B2 : /\ B \subseteq B2
            /\ Tiled(m2, e, B2) /\ Merged(m2, B2)
            /\ InUseIn(m2, B2) = InUseIn(m, B) \cup {bp}
            /\ Keeps(m, m2, InUseIn(m, B))
            /\ m2[bp - 1].size - n \in {0, 2}

LEMMA PlaceEffect ==
    ASSUME NEW m, NEW e, NEW B, Tiled(m, e, B), Merged(m, B), NEW bp \in B,
           m[bp - 1].alloc = 0, NEW n \in Nat, n >= 2, n % 2 = 0,
           n <= m[bp - 1].size
    PROVE  Placed(m, e, B, bp, n, place(m, bp, n))
<1> DEFINE s == m[bp - 1].size
<1>1. /\ bp - 1 \in Word /\ s \in Nat /\ s >= 2 /\ s % 2 = 0
      /\ bp + s \in B \cup {e} /\ \A c \in B : c > bp => c >= bp + s
  BY BlockFacts
<1>2. bp \in Nat
  BY BlocksAreNat
<1>3. bp # 2
  <2>1. m[1] = Tag(2, 1)
    BY HeapEnds
  <2>2. Tag(2, 1).alloc = 1
    BY TagType
  <2> QED
    BY <2>1, <2>2
<1>4. m[bp + s - 1].alloc = 1
  BY MergedPlain
<1>5. GET_SIZE(m, HDRP(bp)) = s
  BY DEF GET_SIZE, HDRP
<1>6. CASE s - n >= 4
  <2> DEFINE k == s - n
             r == bp + n
             d == bp + s
             m1 == PutBoth(m, bp, n, 1)
             m2 == PutBoth(m1, r, k, 0)
             B2 == B \cup {r}
  <2>1. place(m, bp, n) = m2
    <3>1. NEXT_BLKP(m1, bp) = r
      <4>1. m1[bp - 1] = Tag(n, 1)
        <5>1. m \in Heap
          BY DEF Tiled
        <5>2. bp + n - 2 \in Word
          <6>1. bp + s - 2 \in Word
            BY BlockFacts
          <6> QED
            BY <6>1, <1>1, <1>2, <1>6, HeapAssumption DEF Word
        <5>3. bp \in Nat /\ bp - 1 \in Word
          BY <1>1, <1>2
        <5> QED
          BY <5>1, <5>2, <5>3, PutBothAt
      <4>2. Tag(n, 1).size = n
        BY TagType
      <4> HIDE DEF m1
      <4> QED
        BY <4>1, <4>2 DEF NEXT_BLKP, GET_SIZE, HDRP
    <3> QED
      BY <3>1, <1>5, <1>6 DEF place
  <2>2. k \in Nat /\ k >= 2 /\ r \in Nat /\ d \in Nat /\ d = r + k
        /\ m[bp - 1].size = n + k /\ r < d /\ bp < r
    BY <1>1, <1>2, <1>6
  <2> HIDE DEF k, d
  <2>3. Halved(m, e, B, bp, n, 1, r, k, 0)
    BY <2>2, <1>3, Split
  <2>4. /\ Tiled(m2, e, B2) /\ r \notin B
        /\ m2[bp - 1] = Tag(n, 1) /\ m2[r - 1] = Tag(k, 0)
        /\ m2[e - 1] = m[e - 1] /\ Keeps(m, m2, B \ {bp})
    BY <2>3 DEF Halved
  <2> HIDE DEF m1, m2
  <2>5. /\ Tag(n, 1).size = n /\ Tag(n, 1).alloc = 1
        /\ Tag(k, 0).size = k /\ Tag(k, 0).alloc = 0
    BY <2>2, TagType
  <2>6. \A x \in B \cup {e} : x # bp => m2[x - 1] = m[x - 1]
    BY <2>4 DEF Keeps, HDRP
  <2>7. InUseIn(m2, B2) = InUseIn(m, B) \cup {bp}
    <3>1. \A x : x \in B2 /\ m2[x - 1].alloc = 1
                   <=> (x \in B /\ m[x - 1].alloc = 1) \/ x = bp
      BY <2>4, <2>5, <2>6
    <3> HIDE DEF B2
    <3> QED
      BY <3>1 DEF InUseIn, GET_ALLOC, HDRP
  <2>8. Keeps(m, m2, InUseIn(m, B))
    <3>1. \A x \in InUseIn(m, B) : x \in B \ {bp}
      BY DEF InUseIn, GET_ALLOC, HDRP
    <3> QED
      BY <3>1, <2>4 DEF Keeps
  <2>9. Merged(m2, B2)
    <3> SUFFICES ASSUME NEW b \in B2, m2[b - 1].alloc # 1
                 PROVE  m2[b + m2[b - 1].size - 1].alloc = 1
      BY <2>4, MergedPlain
    <3>1. b # bp
      BY <2>4, <2>5
    <3>2. CASE b = r
      <4>1. b + m2[b - 1].size - 1 = d - 1
        BY <3>2, <2>2, <2>4, <2>5
      <4>2. d \in B \cup {e} /\ d # bp
        BY <1>1, <1>2, <2>2 DEF d
      <4>3. m2[d - 1] = m[d - 1]
        BY <4>2, <2>6
      <4>4. bp + s - 1 = d - 1
        BY <1>1, <1>2 DEF d
      <4> QED
        BY <4>1, <4>3, <4>4, <1>4
    <3>3. CASE b # r
      <4> DEFINE c == b + m[b - 1].size
      <4>1. b \in B /\ m2[b - 1] = m[b - 1]
        BY <3>1, <3>3, <2>6
      <4>2. c \in B \cup {e}
        BY <4>1, BlockFacts
      <4>3. b + m[b - 1].size - 1 = c - 1
        BY <4>1, BlockFacts, BlocksAreNat
      <4>4. m[b + m[b - 1].size - 1].alloc = 1
        BY <4>1, MergedPlain
      <4>5. CASE c = bp
        BY <4>1, <4>3, <4>5, <2>4, <2>5
      <4>6. CASE c # bp
        BY <4>1, <4>2, <4>3, <4>4, <4>6, <2>6
      <4> QED
        BY <4>5, <4>6
    <3> QED
      BY <3>2, <3>3
  <2>10. m2[bp - 1].size - n \in {0, 2}
    BY <2>4, <2>5
  <2>11. B \subseteq B2
    OBVIOUS
  <2> HIDE DEF B2
  <2> QED
    BY <2>1, <2>4, <2>7, <2>8, <2>9, <2>10, <2>11 DEF Placed
<1>7. CASE ~(s - n >= 4)
  <2> DEFINE m2 == PutBoth(m, bp, s, 1)
  <2>1. place(m, bp, n) = m2
    BY <1>5, <1>7 DEF place
  <2>2. \A x \in B : x <= bp \/ x >= bp + s
    BY <1>1, BlocksAreNat
  <2>3. Joined(m, e, B, bp, s, 1)
    BY <1>1, <1>3, Join
  <2>4. /\ Tiled(m2, e, B) /\ m2[bp - 1] = Tag(s, 1)
        /\ m2[e - 1] = m[e - 1] /\ Keeps(m, m2, B \ {bp})
    <3>1. {x \in B : x <= bp \/ x >= bp + s} = B
      BY <2>2
    <3> QED
      BY <3>1, <2>3 DEF Joined
  <2> HIDE DEF m2
  <2>5. Tag(s, 1).size = s /\ Tag(s, 1).alloc = 1
    BY <1>1, TagType
  <2>6. \A x \in B \cup {e} : x # bp => m2[x - 1] = m[x - 1]
    BY <2>4 DEF Keeps, HDRP
  <2>7. InUseIn(m2, B) = InUseIn(m, B) \cup {bp}
    <3>1. \A x \in B : m2[x - 1].alloc = 1 <=> m[x - 1].alloc = 1 \/ x = bp
      BY <2>4, <2>5, <2>6
    <3> QED
      BY <3>1 DEF InUseIn, GET_ALLOC, HDRP
  <2>8. Keeps(m, m2, InUseIn(m, B))
    <3>1. \A x \in InUseIn(m, B) : x \in B \ {bp}
      BY DEF InUseIn, GET_ALLOC, HDRP
    <3> QED
      BY <3>1, <2>4 DEF Keeps
  <2>9. Merged(m2, B)
    <3> SUFFICES ASSUME NEW b \in B, m2[b - 1].alloc # 1
                 PROVE  m2[b + m2[b - 1].size - 1].alloc = 1
      BY <2>4, MergedPlain
    <3> DEFINE c == b + m[b - 1].size
    <3>1. m2[b - 1] = m[b - 1]
      BY <2>4, <2>5, <2>6
    <3>2. c \in B \cup {e}
      BY BlockFacts
    <3>3. b + m[b - 1].size - 1 = c - 1
      BY BlockFacts, BlocksAreNat
    <3>4. m[b + m[b - 1].size - 1].alloc = 1
      BY <3>1, MergedPlain
    <3>5. CASE c = bp
      BY <3>1, <3>3, <3>5, <2>4, <2>5
    <3>6. CASE c # bp
      BY <3>1, <3>2, <3>3, <3>4, <3>6, <2>6
    <3> QED
      BY <3>5, <3>6
  <2>10. m2[bp - 1].size - n \in {0, 2}
    <3>1. s - n \in {0, 1, 2, 3}
      BY <1>1, <1>7
    <3>2. (s - n) % 2 = 0
      BY <1>1
    <3>3. s - n # 1 /\ s - n # 3
      BY <3>2
    <3> QED
      BY <3>1, <3>3, <2>4, <2>5
  <2> QED
    BY <2>1, <2>4, <2>7, <2>8, <2>9, <2>10 DEF Placed
<1> QED
  BY <1>1, <1>6, <1>7

(* Writing inside a block, between its tags.                               *)
Filled(m, m2, B, bp) ==
    \A w \in Word : w \notin bp .. bp + m[bp - 1].size - 3 => m2[w] = m[w]

LEMMA FillEffect ==
    ASSUME NEW m, NEW e, NEW B, Tiled(m, e, B), NEW bp \in B,
           NEW m2 \in Heap, Filled(m, m2, B, bp)
    PROVE  /\ Tiled(m2, e, B)
           /\ \A x \in B \cup {e} : m2[x - 1] = m[x - 1]
           /\ Merged(m, B) => Merged(m2, B)
           /\ InUseIn(m2, B) = InUseIn(m, B)
           /\ Keeps(m, m2, B \ {bp})
<1>1. /\ bp \in Nat /\ m[bp - 1].size \in Nat /\ m[bp - 1].size >= 2
      /\ \A c \in B : c > bp => c >= bp + m[bp - 1].size
      /\ bp + m[bp - 1].size <= e
  BY BlockFacts, BlocksAreNat
<1>2. /\ 2 \in B /\ m[1] = Tag(2, 1) /\ e \in Nat /\ e >= 4 /\ e <= MAX_HEAP
      /\ e - 1 \in Word /\ m[e - 1] = Tag(0, 1)
  BY HeapEnds
<1>3. ASSUME NEW x \in B, x # bp
      PROVE  \A q \in x - 1 .. x + m[x - 1].size - 2 : m2[q] = m[q]
  <2>1. /\ x \in Nat /\ x - 1 \in Word /\ m[x - 1].size \in Nat
        /\ m[x - 1].size >= 2 /\ x + m[x - 1].size <= e
        /\ bp > x => bp >= x + m[x - 1].size
    BY BlockFacts, BlocksAreNat
  <2>3. x + m[x - 1].size <= bp \/ x >= bp + m[bp - 1].size
    BY <2>1, <1>1, <1>3
  <2>4. bp \in Nat /\ m[bp - 1].size \in Nat /\ m[bp - 1].size >= 2
    BY <1>1
  <2>5. e \in Nat /\ e <= MAX_HEAP
    BY <1>2
  <2>2. \A q \in x - 1 .. x + m[x - 1].size - 2 :
            q \in Word /\ q \notin bp .. bp + m[bp - 1].size - 3
    <3> SUFFICES ASSUME NEW q \in x - 1 .. x + m[x - 1].size - 2
                 PROVE  q \in Word /\ q \notin bp .. bp + m[bp - 1].size - 3
      OBVIOUS
    <3>1. q \in Word
      BY <2>1, <2>5, HeapAssumption, ChunkAssumption DEF Word
    <3>2. q \notin bp .. bp + m[bp - 1].size - 3
      BY <2>1, <2>3, <2>4
    <3> QED
      BY <3>1, <3>2
  <2> QED
    BY <2>2 DEF Filled
<1>4. /\ m2[bp - 1] = m[bp - 1]
      /\ m2[bp + m[bp - 1].size - 2] = m[bp + m[bp - 1].size - 2]
  <2>1. bp - 1 \in Word /\ bp + m[bp - 1].size - 2 \in Word
    BY BlockFacts
  <2>2. /\ bp - 1 \notin bp .. bp + m[bp - 1].size - 3
        /\ bp + m[bp - 1].size - 2 \notin bp .. bp + m[bp - 1].size - 3
    BY <1>1
  <2> QED
    BY <2>1, <2>2 DEF Filled
<1>5. ASSUME NEW x \in B
      PROVE  /\ m2[x - 1] = m[x - 1]
             /\ m2[x + m[x - 1].size - 2] = m[x + m[x - 1].size - 2]
  <2>1. CASE x = bp
    BY <2>1, <1>4
  <2>2. CASE x # bp
    <3>1. x \in Nat /\ m[x - 1].size \in Nat /\ m[x - 1].size >= 2
      BY BlockFacts, BlocksAreNat
    <3>2. /\ x - 1 \in x - 1 .. x + m[x - 1].size - 2
          /\ x + m[x - 1].size - 2 \in x - 1 .. x + m[x - 1].size - 2
      BY <3>1
    <3> QED
      BY <3>2, <2>2, <1>3
  <2> QED
    BY <2>1, <2>2
<1>6. m2[e - 1] = m[e - 1]
  <2>1. e - 1 \notin bp .. bp + m[bp - 1].size - 3
    BY <1>1, <1>2
  <2> QED
    BY <2>1, <1>2 DEF Filled
<1>7. ASSUME NEW b \in B
      PROVE  /\ b \in Word /\ b >= 2 /\ b % 2 = 0 /\ m2[b - 1].id = NoId
             /\ m2[b - 1].size \in Nat /\ m2[b - 1].size >= 2
             /\ m2[b - 1].size % 2 = 0 /\ b + m2[b - 1].size <= e
             /\ m2[b + m2[b - 1].size - 2] = m2[b - 1]
             /\ b + m2[b - 1].size \in B \cup {e}
             /\ \A c \in B : c > b => c >= b + m2[b - 1].size
  <2>1. /\ b \in Word /\ b >= 2 /\ b % 2 = 0 /\ m[b - 1].id = NoId
        /\ m[b - 1].size \in Nat /\ m[b - 1].size >= 2
        /\ m[b - 1].size % 2 = 0 /\ b + m[b - 1].size <= e
        /\ m[b + m[b - 1].size - 2] = m[b - 1]
        /\ b + m[b - 1].size \in B \cup {e}
        /\ \A c \in B : c > b => c >= b + m[b - 1].size
    BY BlockFacts
  <2> QED
    BY <2>1, <1>5
<1>8. ASSUME NEW c \in B \cup {e}, c # 2
      PROVE  \E b \in B : b + m2[b - 1].size = c
  <2>1. PICK b \in B : b + m[b - 1].size = c
    BY <1>8, BlockBefore DEF heap_listp
  <2> QED
    BY <2>1, <1>5
<1>9. Tiled(m2, e, B)
  <2>1. m2[1] = Tag(2, 1) /\ m2[e - 1] = Tag(0, 1)
    <3>1. m2[2 - 1] = m[2 - 1]
      BY <1>2, <1>5
    <3> QED
      BY <3>1, <1>2, <1>6
  <2>2. e \in 4 .. MAX_HEAP
    BY DEF Tiled
  <2> QED
    BY <2>1, <2>2, <1>2, <1>7, <1>8, TiledIntro
<1>10. \A x \in B \cup {e} : m2[x - 1] = m[x - 1]
  BY <1>5, <1>6
<1>11. Merged(m, B) => Merged(m2, B)
  <2> SUFFICES ASSUME Merged(m, B), NEW b \in B, m2[b - 1].alloc # 1
               PROVE  m2[b + m2[b - 1].size - 1].alloc = 1
    BY <1>9, MergedPlain
  <2> DEFINE c == b + m[b - 1].size
  <2>1. m2[b - 1] = m[b - 1] /\ c \in B \cup {e}
    BY <1>5, BlockFacts
  <2>2. b + m[b - 1].size - 1 = c - 1
    BY BlockFacts, BlocksAreNat
  <2>3. m[b + m[b - 1].size - 1].alloc = 1
    BY <2>1, MergedPlain
  <2> QED
    BY <2>1, <2>2, <2>3, <1>10
<1>12. InUseIn(m2, B) = InUseIn(m, B)
  BY <1>5 DEF InUseIn, GET_ALLOC, HDRP
<1>13. Keeps(m, m2, B \ {bp})
  <2> SUFFICES ASSUME NEW x \in B \ {bp}
               PROVE  /\ m2[x - 1] = m[x - 1]
                      /\ \A q \in x .. x + m[x - 1].size - 3 : m2[q] = m[q]
    BY DEF Keeps, HDRP, GET_SIZE
  <2>1. x \in Nat /\ m[x - 1].size \in Nat
    BY BlockFacts, BlocksAreNat
  <2>2. \A q \in x .. x + m[x - 1].size - 3 : q \in x - 1 .. x + m[x - 1].size - 2
    BY <2>1
  <2> QED
    BY <2>2, <1>3, <1>5
<1> QED
  BY <1>9, <1>10, <1>11, <1>12, <1>13

(* A block has room for its two tags and all the whole words asked for.    *)
LEMMA AsizeFacts ==
    ASSUME NEW size \in Nat, size # 0
    PROVE  /\ asize(size) \in Nat /\ asize(size) >= 4 /\ asize(size) % 2 = 0
           /\ size \div WSIZE \in Nat /\ size \div WSIZE <= asize(size) - 2
<1> DEFINE h == (size + 8 + 7) \div 8
<1>1. h \in Nat /\ 8 * h >= size + 8
  OBVIOUS
<1>2. size \div 4 \in Nat /\ 4 * (size \div 4) <= size
  OBVIOUS
<1>3. CASE size <= 8
  <2>1. asize(size) = 4
    BY <1>3 DEF asize
  <2>2. size \div 4 <= 2
    BY <1>2, <1>3
  <2> QED
    BY <2>1, <2>2, <1>2 DEF WSIZE
<1>4. CASE size > 8
  <2>1. asize(size) = 2 * h
    BY <1>4 DEF asize
  <2> HIDE DEF h
  <2>2. h >= 3
    BY <1>1, <1>4
  <2>3. size \div 4 <= 2 * h - 2
    BY <1>1, <1>2
  <2>4. (2 * h) % 2 = 0
    BY <1>1
  <2> QED
    BY <2>1, <2>2, <2>3, <2>4, <1>1, <1>2 DEF WSIZE
<1> QED
  BY <1>3, <1>4

(* An empty heap: prologue and epilogue.                                   *)
LEMMA PrologueTiled ==
    ASSUME NEW m \in Heap
    PROVE  /\ Tiled(Prologue(m), 4, {2}) /\ Merged(Prologue(m), {2})
           /\ InUseIn(Prologue(m), {2}) = {2}
<1> DEFINE m2 == Prologue(m)
<1>1. /\ 0 \in Word /\ 1 \in Word /\ 2 \in Word /\ 3 \in Word /\ 4 \in 4 .. MAX_HEAP
  BY HeapAssumption, ChunkAssumption DEF Word
<1>2. /\ Tag(0, 0) \in WordValue /\ Tag(2, 1) \in WordValue
      /\ Tag(0, 1) \in WordValue
      /\ Tag(2, 1).size = 2 /\ Tag(2, 1).alloc = 1 /\ Tag(2, 1).id = NoId
      /\ Tag(0, 1).alloc = 1
  BY TagType
<1>3. /\ m2 \in Heap /\ m2[1] = Tag(2, 1) /\ m2[2] = Tag(2, 1)
      /\ m2[3] = Tag(0, 1)
  BY <1>1, <1>2 DEF Prologue
<1> HIDE DEF m2
<1>4. ASSUME NEW b \in {2}
      PROVE  /\ b \in Word /\ b >= 2 /\ b % 2 = 0 /\ m2[b - 1].id = NoId
             /\ m2[b - 1].size \in Nat /\ m2[b - 1].size >= 2
             /\ m2[b - 1].size % 2 = 0 /\ b + m2[b - 1].size <= 4
             /\ m2[b + m2[b - 1].size - 2] = m2[b - 1]
             /\ b + m2[b - 1].size \in {2} \cup {4}
             /\ \A c \in {2} : c > b => c >= b + m2[b - 1].size
  <2>1. b - 1 = 1 /\ m2[b - 1].size = 2
    BY <1>2, <1>3
  <2>2. b + m2[b - 1].size - 2 = 2
    BY <2>1
  <2> QED
    BY <2>1, <2>2, <1>1, <1>2, <1>3
<1>5. \A c \in ({2} \cup {4}) \ {2} : \E b \in {2} : b + m2[b - 1].size = c
  BY <1>2, <1>3
<1>6. 2 \in {2} /\ m2[4 - 1] = Tag(0, 1)
  BY <1>3
<1>7. Tiled(m2, 4, {2})
  BY <1>1, <1>3, <1>4, <1>5, <1>6, TiledIntro
<1>8. m2[2 - 1].alloc = 1
  BY <1>2, <1>3
<1>9. Merged(m2, {2})
  BY <1>8 DEF Merged, GET_ALLOC, HDRP
<1>10. InUseIn(m2, {2}) = {2}
  BY <1>8 DEF InUseIn, GET_ALLOC, HDRP
<1> QED
  BY <1>7, <1>9, <1>10 DEF m2

(***************************************************************************)
(* The invariant, action by action, and the theorems.                      *)
(***************************************************************************)
LEMMA HeapInvIs ==
    ASSUME TypeOK, HeapInv, pc # "off"
    PROVE  \E B : /\ Tiled(mem, brk, B) /\ Merged(mem, B) /\ OnBlock(B)
                  /\ InUseIn(mem, B) = InUse /\ Seen(B)
<1>1. PICK B \in SUBSET Block(mem, brk) :
            /\ Blocks(B) /\ Merged(mem, B) /\ OnBlock(B)
            /\ {b \in B : GET_ALLOC(mem, HDRP(b))} = InUse
            /\ Seen(B)
  BY DEF HeapInv
<1>2. mem \in Heap /\ brk \in 0 .. MAX_HEAP
  BY DEF TypeOK
<1>3. brk \in 4 .. MAX_HEAP
  <2>1. heap_listp \in B /\ mem[HDRP(heap_listp)] = Tag(2, 1)
    BY <1>1 DEF Blocks, Tiling
  <2>2. NEXT_BLKP(mem, heap_listp) <= brk
    BY <1>1, <2>1 DEF Block
  <2>3. NEXT_BLKP(mem, heap_listp) = 4
    <3>1. Tag(2, 1).size = 2
      BY TagType
    <3> QED
      BY <2>1, <3>1 DEF NEXT_BLKP, GET_SIZE, heap_listp
  <2> QED
    BY <1>2, <2>2, <2>3, HeapAssumption
<1>4. Tiled(mem, brk, B)
  BY <1>1, <1>2, <1>3 DEF Tiled, Blocks
<1>5. InUseIn(mem, B) = InUse
  BY <1>1 DEF InUseIn
<1> QED
  BY <1>1, <1>4, <1>5

LEMMA InUseIs ==
    ASSUME NEW x
    PROVE  x \in InUse <=> \/ x = 2
                           \/ \E i \in Id : live[i].ptr # 0 /\ x = live[i].ptr
                           \/ pc = "copy" /\ x = call.bp
BY DEF InUse, Held, NULL, heap_listp

(* The block at bp goes to the running call.                               *)
LEMMA ReturnsInv ==
    ASSUME IInv, pc \in {"search", "wrap", "extend"},
           NEW m, NEW e, NEW B, Tiled(m, e, B), Merged(m, B),
           InUseIn(m, B) = InUse, Keeps(mem, m, InUse),
           NEW bp \in B, m[bp - 1].alloc = 0,
           asize(call.size) <= m[bp - 1].size,
           NEW l \in B, Returns(m, bp), last' = l, brk' = e
    PROVE  IInv'
<1> DEFINE n == asize(call.size)
<1>1. /\ call.id \in Id /\ call.size \in Nat /\ call.size # 0
      /\ call.ptr = live[call.id].ptr
  BY DEF IInv, TypeOK, CallInv
<1>2. n \in Nat /\ n >= 4 /\ n % 2 = 0
  BY <1>1, AsizeFacts
<1>3. Placed(m, e, B, bp, n, place(m, bp, n))
  BY <1>2, PlaceEffect
<1>4. mem' = place(m, bp, n)
  BY DEF Returns
<1> HIDE DEF n
<1>5. PICK B2 : /\ B \subseteq B2
                /\ Tiled(mem', e, B2) /\ Merged(mem', B2)
                /\ InUseIn(mem', B2) = InUseIn(m, B) \cup {bp}
                /\ Keeps(m, mem', InUseIn(m, B))
                /\ mem'[bp - 1].size - n \in {0, 2}
  BY <1>3, <1>4 DEF Placed
<1>6. \A x \in InUse : mem'[x - 1] = mem[x - 1]
  <2>1. \A x \in InUse : mem'[x - 1] = m[x - 1] /\ m[x - 1] = mem[x - 1]
    BY <1>5 DEF Keeps, HDRP
  <2> QED
    BY <2>1
<1>7. bp \notin InUse
  BY DEF InUseIn, GET_ALLOC, HDRP
<1>8. /\ bp \in Nat /\ bp <= MAX_HEAP /\ l \in 0 .. MAX_HEAP
      /\ e \in 4 .. MAX_HEAP /\ bp # 2 /\ bp # 0
  <2>1. /\ bp \in Nat /\ l \in Nat /\ bp < e /\ l < e /\ e \in Nat /\ e >= 4
        /\ e <= MAX_HEAP
    BY BlocksAreNat, HeapEnds
  <2>2. bp # 2
    BY <1>7, InUseIs
  <2>3. bp >= 2
    BY BlockFacts
  <2> QED
    BY <2>1, <2>2, <2>3, HeapAssumption
<1>9. l \in B2
  BY <1>5
<1>10. mem' \in Heap
  BY <1>5 DEF Tiled
<1>11. B2 \in SUBSET Block(mem', brk') /\ Blocks(B2)'
  BY <1>5 DEF Tiled, Blocks
<1>13. mem'[bp - 1].size - asize(call.size) \in {0, 2}
  BY <1>5 DEF n
<1>14. CASE call.ptr = NULL
  <2>1. /\ live' = [live EXCEPT ![call.id] = [ptr |-> bp, size |-> call.size]]
        /\ call' = call /\ pc' = "fill"
    BY <1>14 DEF Returns
  <2>2. TypeOK'
    BY <2>1, <1>1, <1>8, <1>10 DEF IInv, TypeOK
  <2>3. live[call.id].ptr = 0
    BY <1>1, <1>14 DEF NULL
  <2>4. \A i \in Id : live'[i] = IF i = call.id THEN [ptr |-> bp, size |-> call.size]
                                 ELSE live[i]
    BY <2>1, <1>1 DEF IInv, TypeOK
  <2>5. InUse' = InUse \cup {bp}
    <3>1. \A x : x \in InUse' <=> \/ x = 2
                                  \/ \E i \in Id : live'[i].ptr # 0 /\ x = live'[i].ptr
      BY <2>1 DEF InUse, Held, NULL, heap_listp
    <3>2. \A x : x \in InUse <=> \/ x = 2
                                 \/ \E i \in Id : live[i].ptr # 0 /\ x = live[i].ptr
      BY InUseIs
    <3> QED
      BY <3>1, <3>2, <2>3, <2>4, <1>1, <1>8
  <2>6. HeapInv'
    <3>1. OnBlock(B2)' /\ Seen(B2)'
      BY <2>1, <1>9 DEF OnBlock, Seen
    <3>2. {b \in B2 : GET_ALLOC(mem', HDRP(b))} = InUse'
      BY <1>5, <2>5 DEF InUseIn
    <3> QED
      BY <3>1, <3>2, <1>5, <1>11 DEF HeapInv
  <2>7. SnugBlocks'
    <3> SUFFICES ASSUME NEW i \in Id, live'[i].ptr # 0
                 PROVE  Snug(live[i].ptr, live[i].size)'
      BY DEF SnugBlocks, Held, NULL
    <3>1. CASE i = call.id
      BY <3>1, <2>4, <1>13 DEF Snug, GET_SIZE, HDRP
    <3>2. CASE i # call.id
      <4>1. live'[i] = live[i]
        BY <3>2, <2>4
      <4>2. live[i].ptr \in InUse
        BY <4>1, InUseIs
      <4>3. Snug(live[i].ptr, live[i].size)
        BY <4>1 DEF IInv, SnugBlocks, Held, NULL
      <4> QED
        BY <4>1, <4>2, <4>3, <1>6 DEF Snug, GET_SIZE, HDRP
    <3> QED
      BY <3>1, <3>2
  <2>8. HeldInv'
    <3>1. \A i \in Id : live[i].ptr # bp
      BY <1>7, <1>8, InUseIs
    <3>2. /\ \A i \in Id : live[i].ptr # 0 => live[i].ptr # 2 /\ live[i].size # 0
          /\ \A i, j \in Id : live[i].ptr # 0 /\ live[i].ptr = live[j].ptr => i = j
      BY DEF IInv, HeldInv, Held, NULL, heap_listp
    <3>3. \A i \in Id : live'[i].ptr # 0 => live'[i].ptr # 2 /\ live'[i].size # 0
      BY <3>2, <2>4, <1>1, <1>8
    <3>4. \A i, j \in Id : live'[i].ptr # 0 /\ live'[i].ptr = live'[j].ptr => i = j
      BY <3>1, <3>2, <2>4, <1>1
    <3> QED
      BY <3>3, <3>4 DEF HeldInv, Held, NULL, heap_listp
  <2>9. CallInv'
    <3>1. live'[call.id].ptr # 0 /\ call.size = live'[call.id].size
      BY <2>4, <1>1, <1>8
    <3> QED
      BY <3>1, <2>1, <1>1 DEF CallInv, Held, NULL
  <2>10. OffInv'
    BY <2>1 DEF OffInv
  <2> QED
    BY <2>2, <2>6, <2>7, <2>8, <2>9, <2>10 DEF IInv
<1>15. CASE call.ptr # NULL
  <2>1. live' = live /\ call' = [call EXCEPT !.bp = bp] /\ pc' = "copy"
    BY <1>15 DEF Returns
  <2>2. TypeOK'
    BY <2>1, <1>8, <1>10 DEF IInv, TypeOK
  <2>3. /\ call'.id = call.id /\ call'.size = call.size /\ call'.ptr = call.ptr
        /\ call'.bp = bp
    BY <2>1 DEF IInv, TypeOK
  <2>5. InUse' = InUse \cup {bp}
    <3>1. \A x : x \in InUse' <=> \/ x = 2
                                  \/ \E i \in Id : live[i].ptr # 0 /\ x = live[i].ptr
                                  \/ x = bp
      BY <2>1, <2>3 DEF InUse, Held, NULL, heap_listp
    <3>2. \A x : x \in InUse <=> \/ x = 2
                                 \/ \E i \in Id : live[i].ptr # 0 /\ x = live[i].ptr
      BY InUseIs
    <3> QED
      BY <3>1, <3>2
  <2>6. HeapInv'
    <3>1. OnBlock(B2)' /\ Seen(B2)'
      BY <2>1, <1>9 DEF OnBlock, Seen
    <3>2. {b \in B2 : GET_ALLOC(mem', HDRP(b))} = InUse'
      BY <1>5, <2>5 DEF InUseIn
    <3> QED
      BY <3>1, <3>2, <1>5, <1>11 DEF HeapInv
  <2>7. SnugBlocks'
    <3> SUFFICES ASSUME NEW i \in Id, live[i].ptr # 0
                 PROVE  Snug(live[i].ptr, live[i].size)'
      BY <2>1 DEF SnugBlocks, Held, NULL
    <3>1. live[i].ptr \in InUse
      BY InUseIs
    <3>2. Snug(live[i].ptr, live[i].size)
      BY DEF IInv, SnugBlocks, Held, NULL
    <3> QED
      BY <2>1, <3>1, <3>2, <1>6 DEF Snug, GET_SIZE, HDRP
  <2>8. HeldInv'
    BY <2>1 DEF IInv, HeldInv, Held
  <2>9. CallInv'
    <3>1. \A i \in Id : live[i].ptr # bp
      BY <1>7, <1>8, InUseIs
    <3>2. Snug(bp, call.size)'
      BY <2>3, <1>13 DEF Snug, GET_SIZE, HDRP
    <3>3. live[call.id].ptr # 0
      BY <1>1, <1>15 DEF NULL
    <3> QED
      BY <3>1, <3>2, <3>3, <2>1, <2>3, <1>1, <1>8
         DEF CallInv, Held, NULL, heap_listp, Snug
  <2>10. OffInv'
    BY <2>1 DEF OffInv
  <2> QED
    BY <2>2, <2>6, <2>7, <2>8, <2>9, <2>10 DEF IInv
<1> QED
  BY <1>14, <1>15

LEMMA InitInv == Init => IInv
<1> SUFFICES ASSUME Init PROVE IInv
  OBVIOUS
<1>1. /\ mem = [w \in Word |-> Data(NoId)] /\ brk = 0 /\ last = 0 /\ pc = "off"
      /\ call = [id |-> NoId, size |-> 0, ptr |-> 0, old |-> 0, bp |-> 0]
      /\ live = [id \in Id |-> [ptr |-> 0, size |-> 0]]
  BY DEF Init, NULL, NoCall, NoBlock
<1>2. Data(NoId) \in WordValue
  BY DEF Data, WordValue
<1>3. TypeOK
  BY <1>1, <1>2, HeapAssumption, ChunkAssumption DEF TypeOK
<1>4. \A i \in Id : live[i].ptr = 0
  BY <1>1
<1>5. HeapInv /\ CallInv /\ OffInv
  BY <1>1 DEF HeapInv, CallInv, OffInv, NoBlock, NULL
<1>6. SnugBlocks /\ HeldInv
  BY <1>4 DEF SnugBlocks, HeldInv, Held, NULL
<1> QED
  BY <1>3, <1>5, <1>6 DEF IInv

LEMMA InitializeInv == IInv /\ mm_init => IInv'
<1> SUFFICES ASSUME IInv, mm_init PROVE IInv'
  OBVIOUS
<1> DEFINE m == Prologue(mem)
           f == 4 + CHUNK
           r == extend_heap(m, 4, CHUNK, 2)
<1>1. /\ pc = "off" /\ mem' = r.mem /\ last' = r.last /\ brk' = f
      /\ pc' = "idle" /\ call' = call /\ live' = live
  BY DEF mm_init, heap_listp
<1>2. mem \in Heap
  BY DEF IInv, TypeOK
<1>3. Tiled(m, 4, {2}) /\ Merged(m, {2}) /\ InUseIn(m, {2}) = {2}
  BY <1>2, PrologueTiled
<1>4. CHUNK \in Nat /\ CHUNK >= 2 /\ CHUNK % 2 = 0 /\ f \in Nat /\ f <= MAX_HEAP
  BY ChunkAssumption, HeapAssumption
<1> HIDE DEF m
<1>5. Coalesced(m, f, {2}, CHUNK, r)
  <2>1. 2 \in {2} /\ f = 4 + CHUNK
    OBVIOUS
  <2> HIDE DEF f
  <2> QED
    BY <2>1, <1>3, <1>4, ExtendEffect
<1> HIDE DEF r
<1>6. PICK B : /\ Tiled(r.mem, f, B) /\ Merged(r.mem, B)
               /\ InUseIn(r.mem, B) = {2} /\ r.last \in B
  BY <1>3, <1>5 DEF Coalesced
<1>7. r.last \in Nat /\ r.last <= MAX_HEAP
  <2>1. r.last < f
    BY <1>6, HeapEnds
  <2>2. r.last \in Nat
    BY <1>6, BlocksAreNat
  <2> QED
    BY <2>1, <2>2, <1>4, HeapAssumption
<1>8. mem' \in Heap
  BY <1>1, <1>6 DEF Tiled
<1>9. TypeOK'
  <2>1. brk' \in 0 .. MAX_HEAP /\ last' \in 0 .. MAX_HEAP
    BY <1>1, <1>4, <1>7
  <2> QED
    BY <2>1, <1>1, <1>8 DEF IInv, TypeOK
<1>10. \A i \in Id : live[i].ptr = 0
  BY <1>1 DEF IInv, OffInv, NoBlock, NULL
<1>11. InUse' = {2}
  BY <1>1, <1>10 DEF InUse, Held, NULL, heap_listp
<1>12. HeapInv'
  <2>1. B \in SUBSET Block(mem', brk') /\ Blocks(B)' /\ Merged(mem', B)
    BY <1>1, <1>6 DEF Tiled, Blocks
  <2>2. OnBlock(B)' /\ Seen(B)'
    BY <1>1, <1>6 DEF OnBlock, Seen
  <2>3. {b \in B : GET_ALLOC(mem', HDRP(b))} = InUse'
    BY <1>1, <1>6, <1>11 DEF InUseIn
  <2> QED
    BY <2>1, <2>2, <2>3 DEF HeapInv
<1>13. SnugBlocks' /\ HeldInv'
  BY <1>1, <1>10 DEF SnugBlocks, HeldInv, Held, NULL
<1>14. CallInv' /\ OffInv'
  BY <1>1 DEF CallInv, OffInv
<1> QED
  BY <1>9, <1>12, <1>13, <1>14 DEF IInv

LEMMA CallsInv ==
    ASSUME IInv, NEW id \in Id, NEW size \in Sizes, Calls(id, size)
    PROVE  IInv'
<1>1. /\ pc = "idle" /\ size > 0 /\ pc' = "search" /\ mem' = mem /\ brk' = brk
      /\ last' = last /\ live' = live
      /\ call' = [id |-> id, size |-> size, ptr |-> live[id].ptr,
                  old |-> last, bp |-> 0]
  BY DEF Calls, NULL
<1>2. size \in Nat /\ size # 0
  BY <1>1, SizesAssumption
<1>3. PICK B : /\ Tiled(mem, brk, B) /\ Merged(mem, B) /\ OnBlock(B)
               /\ InUseIn(mem, B) = InUse /\ Seen(B)
  BY <1>1, HeapInvIs DEF IInv
<1>4. last \in B
  BY <1>1, <1>3 DEF OnBlock
<1>5. TypeOK'
  BY <1>1, <1>2 DEF IInv, TypeOK
<1>6. InUse' = InUse
  BY <1>1 DEF InUse, Held
<1>7. HeapInv'
  <2>1. B \in SUBSET Block(mem', brk') /\ Blocks(B)' /\ Merged(mem', B)
    BY <1>1, <1>3 DEF Tiled, Blocks
  <2>2. OnBlock(B)'
    BY <1>1, <1>4 DEF OnBlock
  <2>3. {b \in B : GET_ALLOC(mem', HDRP(b))} = InUse'
    BY <1>1, <1>3, <1>6 DEF InUseIn
  <2>4. Seen(B)'
    <3>1. call'.old = last
      BY <1>1
    <3>2. \A b \in B : ~(last <= b /\ b < last)
      BY <1>3, <1>4, BlocksAreNat
    <3> QED
      BY <3>1, <3>2, <1>1, <1>4 DEF Seen
  <2> QED
    BY <2>1, <2>2, <2>3, <2>4 DEF HeapInv
<1>8. SnugBlocks' /\ HeldInv'
  BY <1>1 DEF IInv, SnugBlocks, HeldInv, Held, Snug, GET_SIZE, HDRP
<1>9. CallInv' /\ OffInv'
  BY <1>1, <1>2 DEF CallInv, OffInv
<1> QED
  BY <1>5, <1>7, <1>8, <1>9 DEF IInv

LEMMA CallFreeInv ==
    ASSUME IInv, NEW id \in Id, CallFree(id)
    PROVE  IInv'
<1> DEFINE p == live[id].ptr
           r == mm_free(mem, p, last)
<1>1. /\ pc = "idle" /\ p # 0 /\ mem' = r.mem /\ last' = r.last
      /\ brk' = brk /\ pc' = pc /\ call' = call
      /\ live' = [live EXCEPT ![id] = [ptr |-> 0, size |-> 0]]
  BY DEF CallFree, Held, NULL, NoBlock
<1>2. PICK B : /\ Tiled(mem, brk, B) /\ Merged(mem, B) /\ OnBlock(B)
               /\ InUseIn(mem, B) = InUse /\ Seen(B)
  BY <1>1, HeapInvIs DEF IInv
<1>3. last \in B
  BY <1>1, <1>2 DEF OnBlock
<1>4. p \in InUse /\ p \in B /\ p # 2
  <2>1. p \in InUse
    BY <1>1, InUseIs
  <2>2. p \in B
    BY <2>1, <1>2 DEF InUseIn
  <2>3. p # 2
    BY <1>1 DEF IInv, HeldInv, Held, NULL, heap_listp
  <2> QED
    BY <2>1, <2>2, <2>3
<1>5. Freed(mem, brk, B, p, r)
  <2> HIDE DEF p
  <2> QED
    BY <1>2, <1>3, <1>4, FreeEffect
<1> HIDE DEF r
<1>6. PICK B2 : /\ Tiled(r.mem, brk, B2) /\ Merged(r.mem, B2)
                /\ InUseIn(r.mem, B2) = InUse \ {p}
                /\ Keeps(mem, r.mem, InUse \ {p}) /\ r.last \in B2
  BY <1>2, <1>5 DEF Freed
<1>7. \A i \in Id : live'[i] = IF i = id THEN [ptr |-> 0, size |-> 0] ELSE live[i]
  BY <1>1 DEF IInv, TypeOK
<1>8. \A i \in Id : i # id /\ live[i].ptr # 0 => live[i].ptr \in InUse \ {p}
  <2>1. \A i \in Id : i # id /\ live[i].ptr # 0 => live[i].ptr # p
    BY <1>1 DEF IInv, HeldInv, Held, NULL
  <2> QED
    BY <2>1, InUseIs
<1>9. TypeOK'
  <2>1. r.last \in 0 .. MAX_HEAP
    <3>1. r.last \in Nat /\ r.last < brk /\ brk \in Nat /\ brk <= MAX_HEAP
      BY <1>6, HeapEnds, BlocksAreNat
    <3> QED
      BY <3>1, HeapAssumption
  <2>2. mem' \in Heap
    BY <1>1, <1>6 DEF Tiled
  <2>3. live' \in [Id -> [ptr : 0 .. MAX_HEAP, size : Nat]]
    <3>1. [ptr |-> 0, size |-> 0] \in [ptr : 0 .. MAX_HEAP, size : Nat]
      BY HeapAssumption
    <3> QED
      BY <3>1, <1>1 DEF IInv, TypeOK
  <2> QED
    BY <2>1, <2>2, <2>3, <1>1 DEF IInv, TypeOK
<1>10. InUse' = InUse \ {p}
  <2>1. \A x : x \in InUse' <=> \/ x = 2
                                \/ \E i \in Id : live'[i].ptr # 0 /\ x = live'[i].ptr
    BY <1>1 DEF InUse, Held, NULL, heap_listp
  <2>2. \A x : x \in InUse <=> \/ x = 2
                               \/ \E i \in Id : live[i].ptr # 0 /\ x = live[i].ptr
    BY <1>1, InUseIs
  <2>3. \A i \in Id : i # id /\ live[i].ptr # 0 => live[i].ptr # p
    BY <1>8
  <2> QED
    BY <2>1, <2>2, <2>3, <1>4, <1>7
<1>11. HeapInv'
  <2>1. B2 \in SUBSET Block(mem', brk') /\ Blocks(B2)' /\ Merged(mem', B2)
    BY <1>1, <1>6 DEF Tiled, Blocks
  <2>2. OnBlock(B2)' /\ Seen(B2)'
    BY <1>1, <1>6 DEF OnBlock, Seen
  <2>3. {b \in B2 : GET_ALLOC(mem', HDRP(b))} = InUse'
    BY <1>1, <1>6, <1>10 DEF InUseIn
  <2> QED
    BY <2>1, <2>2, <2>3 DEF HeapInv
<1>12. SnugBlocks'
  <2> SUFFICES ASSUME NEW i \in Id, live'[i].ptr # 0
               PROVE  Snug(live[i].ptr, live[i].size)'
    BY DEF SnugBlocks, Held, NULL
  <2>1. i # id /\ live'[i] = live[i]
    BY <1>7
  <2>2. live[i].ptr \in InUse \ {p}
    BY <2>1, <1>8
  <2>3. mem'[live[i].ptr - 1] = mem[live[i].ptr - 1]
    BY <2>2, <1>1, <1>6 DEF Keeps, HDRP
  <2>4. Snug(live[i].ptr, live[i].size)
    BY <2>1 DEF IInv, SnugBlocks, Held, NULL
  <2> QED
    BY <2>1, <2>3, <2>4 DEF Snug, GET_SIZE, HDRP
<1>13. HeldInv'
  BY <1>7 DEF IInv, HeldInv, Held, NULL, heap_listp
<1>14. CallInv' /\ OffInv'
  BY <1>1 DEF CallInv, OffInv
<1> QED
  BY <1>9, <1>11, <1>12, <1>13, <1>14 DEF IInv

(* A step that moves only the rover, the pc or call: what remains to show. *)
LEMMA StillInv ==
    ASSUME IInv, NEW B, Tiled(mem, brk, B), Merged(mem, B),
           InUseIn(mem, B) = InUse, UNCHANGED <<mem, brk, call, live>>,
           pc \in {"search", "wrap", "extend"},
           pc' \in {"search", "wrap", "extend"},
           last' \in 0 .. MAX_HEAP, OnBlock(B)', Seen(B)'
    PROVE  IInv'
<1>1. TypeOK'
  BY DEF IInv, TypeOK
<1>2. InUse' = InUse
  BY DEF InUse, Held
<1>3. HeapInv'
  <2>1. B \in SUBSET Block(mem', brk') /\ Blocks(B)' /\ Merged(mem', B)
    BY DEF Tiled, Blocks
  <2>2. {b \in B : GET_ALLOC(mem', HDRP(b))} = InUse'
    BY <1>2 DEF InUseIn
  <2> QED
    BY <2>1, <2>2 DEF HeapInv
<1>4. SnugBlocks' /\ HeldInv'
  BY DEF IInv, SnugBlocks, HeldInv, Held, Snug
<1>5. CallInv'
  BY DEF IInv, CallInv
<1>6. OffInv'
  BY DEF OffInv
<1> QED
  BY <1>1, <1>3, <1>4, <1>5, <1>6 DEF IInv

(* What is known when a loop of find_fit tests the block at the rover.     *)
LEMMA AtRover ==
    ASSUME IInv, pc \in {"search", "wrap", "extend"}
    PROVE  \E B : /\ Tiled(mem, brk, B) /\ Merged(mem, B)
                  /\ InUseIn(mem, B) = InUse /\ Seen(B)
                  /\ last \in B \/ (pc = "search" /\ last = brk)
                  /\ last \in B => /\ GET_SIZE(mem, HDRP(last)) = mem[last - 1].size
                                   /\ mem[last - 1].size \in Nat
                                   /\ mem[last - 1].size > 0
                                   /\ last \in Nat
                                   /\ NEXT_BLKP(mem, last) = last + mem[last - 1].size
                                   /\ NEXT_BLKP(mem, last) \in B \cup {brk}
                                   /\ \A c \in B : c > last => c >= NEXT_BLKP(mem, last)
                  /\ last = brk => GET_SIZE(mem, HDRP(last)) = 0
                  /\ brk \in Nat /\ brk <= MAX_HEAP
                  /\ \A b \in B : b < brk /\ b \in Nat
<1>1. PICK B : /\ Tiled(mem, brk, B) /\ Merged(mem, B) /\ OnBlock(B)
               /\ InUseIn(mem, B) = InUse /\ Seen(B)
  BY HeapInvIs DEF IInv
<1>2. last \in B \/ (pc = "search" /\ last = brk)
  BY <1>1 DEF OnBlock
<1>3. ASSUME last \in B
      PROVE  /\ GET_SIZE(mem, HDRP(last)) = mem[last - 1].size
             /\ mem[last - 1].size \in Nat /\ mem[last - 1].size > 0
             /\ last \in Nat
             /\ NEXT_BLKP(mem, last) = last + mem[last - 1].size
             /\ NEXT_BLKP(mem, last) \in B \cup {brk}
             /\ \A c \in B : c > last => c >= NEXT_BLKP(mem, last)
  <2>1. /\ mem[last - 1].size \in Nat /\ mem[last - 1].size >= 2
        /\ last + mem[last - 1].size \in B \cup {brk}
        /\ \A c \in B : c > last => c >= last + mem[last - 1].size
    BY <1>1, <1>3, BlockFacts
  <2>2. last \in Nat
    BY <1>1, <1>3, BlocksAreNat
  <2>3. NEXT_BLKP(mem, last) = last + mem[last - 1].size
    BY DEF NEXT_BLKP, GET_SIZE, HDRP
  <2> QED
    BY <2>1, <2>2, <2>3 DEF GET_SIZE, HDRP
<1>4. /\ mem[brk - 1] = Tag(0, 1) /\ brk \in Nat /\ brk <= MAX_HEAP
      /\ \A b \in B : b < brk /\ b \in Nat
  BY <1>1, HeapEnds, BlocksAreNat
<1>5. last = brk => GET_SIZE(mem, HDRP(last)) = 0
  BY <1>4, TagType DEF GET_SIZE, HDRP
<1> QED
  BY <1>1, <1>2, <1>3, <1>4, <1>5

LEMMA FitsInv ==
    ASSUME IInv, SearchFits \/ WrapFits
    PROVE  IInv'
<1>1. /\ pc \in {"search", "wrap"} /\ Fits(last) /\ Returns(mem, last)
      /\ brk' = brk /\ last' = last
      /\ pc = "search" => GET_SIZE(mem, HDRP(last)) > 0
  BY DEF SearchFits, WrapFits
<1>2. PICK B : /\ Tiled(mem, brk, B) /\ Merged(mem, B)
               /\ InUseIn(mem, B) = InUse /\ Seen(B)
               /\ last \in B \/ (pc = "search" /\ last = brk)
               /\ last = brk => GET_SIZE(mem, HDRP(last)) = 0
  BY <1>1, AtRover
<1>3. last \in B
  BY <1>1, <1>2
<1>4. mem[last - 1].alloc = 0 /\ asize(call.size) <= mem[last - 1].size
  <2>1. mem[last - 1].alloc \in {0, 1}
    BY <1>2, <1>3, BlockFacts
  <2> QED
    BY <2>1, <1>1 DEF Fits, GET_ALLOC, GET_SIZE, HDRP
<1>5. Keeps(mem, mem, InUse)
  BY DEF Keeps
<1>6. pc \in {"search", "wrap", "extend"}
  BY <1>1
<1> QED
  BY <1>1, <1>2, <1>3, <1>4, <1>5, <1>6, ReturnsInv

LEMMA SearchNextInv ==
    ASSUME IInv, SearchNext
    PROVE  IInv'
<1>1. /\ pc = "search" /\ GET_SIZE(mem, HDRP(last)) > 0 /\ ~Fits(last)
      /\ last' = NEXT_BLKP(mem, last) /\ pc' = pc
      /\ UNCHANGED <<mem, brk, call, live>>
  BY DEF SearchNext
<1>2. PICK B : /\ Tiled(mem, brk, B) /\ Merged(mem, B)
               /\ InUseIn(mem, B) = InUse /\ Seen(B)
               /\ last \in B
               /\ last \in Nat
               /\ NEXT_BLKP(mem, last) \in B \cup {brk}
               /\ \A c \in B : c > last => c >= NEXT_BLKP(mem, last)
               /\ brk \in Nat /\ brk <= MAX_HEAP
               /\ \A b \in B : b < brk /\ b \in Nat
  BY <1>1, AtRover
<1>3. last' \in 0 .. MAX_HEAP
  <2>1. last' \in B \cup {brk}
    BY <1>1, <1>2
  <2>2. \A b \in B \cup {brk} : b \in Nat /\ b <= brk
    BY <1>2
  <2>3. last' \in Nat /\ last' <= brk
    BY <2>1, <2>2
  <2> QED
    BY <2>3, <1>2, HeapAssumption
<1>4. OnBlock(B)'
  BY <1>1, <1>2 DEF OnBlock
<1>5. \A b \in B : Fits(b)' <=> Fits(b)
  BY <1>1 DEF Fits
<1>6. Seen(B)'
  <2>1. call.old \in B /\ \A b \in B : call.old <= b /\ b < last => ~Fits(b)
    BY <1>1, <1>2 DEF Seen
  <2>2. ASSUME NEW b \in B, call.old <= b, b < last'
        PROVE  ~Fits(b)
    <3>1. b <= last
      BY <2>2, <1>1, <1>2, <1>3
    <3>2. b < last \/ b = last
      BY <3>1, <1>2
    <3> QED
      BY <3>2, <2>1, <2>2, <1>1
  <2> QED
    BY <2>1, <2>2, <1>1, <1>5 DEF Seen
<1> QED
  BY <1>1, <1>2, <1>3, <1>4, <1>6, StillInv

LEMMA SearchEndsInv ==
    ASSUME IInv, SearchEnds
    PROVE  IInv'
<1>1. /\ pc = "search" /\ GET_SIZE(mem, HDRP(last)) = 0
      /\ last' = 2 /\ pc' = "wrap"
      /\ UNCHANGED <<mem, brk, call, live>>
  BY DEF SearchEnds, heap_listp
<1>2. PICK B : /\ Tiled(mem, brk, B) /\ Merged(mem, B)
               /\ InUseIn(mem, B) = InUse /\ Seen(B)
               /\ last \in B \/ (pc = "search" /\ last = brk)
               /\ last \in B => /\ GET_SIZE(mem, HDRP(last)) = mem[last - 1].size
                                /\ mem[last - 1].size > 0
               /\ brk \in Nat /\ brk <= MAX_HEAP
               /\ \A b \in B : b < brk /\ b \in Nat
  BY <1>1, AtRover
<1>3. last = brk
  BY <1>1, <1>2
<1>4. /\ 2 \in B /\ \A b \in B : b >= 2
  BY <1>2, HeapEnds, BlockFacts
<1>5. OnBlock(B)' /\ last' \in 0 .. MAX_HEAP
  <2>1. last' \in B
    BY <1>1, <1>4
  <2>2. last' \in 0 .. MAX_HEAP
    BY <1>1, HeapAssumption, ChunkAssumption
  <2> QED
    BY <2>1, <2>2 DEF OnBlock
<1>6. \A b \in B : Fits(b)' <=> Fits(b)
  BY <1>1 DEF Fits
<1>7. Seen(B)'
  <2>1. call.old \in B /\ \A b \in B : call.old <= b /\ b < last => ~Fits(b)
    BY <1>1, <1>2 DEF Seen
  <2>2. \A b \in B : b < 2 \/ call.old <= b => ~Fits(b)
    BY <2>1, <1>2, <1>3, <1>4
  <2>3. 2 <= call.old
    BY <2>1, <1>4
  <2> QED
    BY <2>1, <2>2, <2>3, <1>1, <1>6 DEF Seen
<1> QED
  BY <1>1, <1>2, <1>5, <1>7, StillInv

LEMMA WrapNextInv ==
    ASSUME IInv, WrapNext
    PROVE  IInv'
<1>1. /\ pc = "wrap" /\ last < call.old /\ ~Fits(last)
      /\ last' = NEXT_BLKP(mem, last) /\ pc' = pc
      /\ UNCHANGED <<mem, brk, call, live>>
  BY DEF WrapNext
<1>2. PICK B : /\ Tiled(mem, brk, B) /\ Merged(mem, B)
               /\ InUseIn(mem, B) = InUse /\ Seen(B)
               /\ last \in B
               /\ last \in Nat
               /\ NEXT_BLKP(mem, last) \in B \cup {brk}
               /\ \A c \in B : c > last => c >= NEXT_BLKP(mem, last)
               /\ brk \in Nat /\ brk <= MAX_HEAP
               /\ \A b \in B : b < brk /\ b \in Nat
  BY <1>1, AtRover
<1>3. /\ call.old \in B /\ last <= call.old
      /\ \A b \in B : b < last \/ call.old <= b => ~Fits(b)
  BY <1>1, <1>2 DEF Seen
<1>4. last' <= call.old
  BY <1>1, <1>2, <1>3
<1>5. last' \in B
  <2>1. last' \in B \cup {brk}
    BY <1>1, <1>2
  <2>2. call.old < brk /\ call.old \in Nat
    BY <1>2, <1>3
  <2>3. last' # brk
    BY <2>2, <1>2, <1>4
  <2> QED
    BY <2>1, <2>3
<1>6. OnBlock(B)' /\ last' \in 0 .. MAX_HEAP
  <2>1. last' \in Nat /\ last' < brk
    BY <1>2, <1>5
  <2>2. last' \in 0 .. MAX_HEAP
    BY <2>1, <1>2, HeapAssumption
  <2> QED
    BY <2>2, <1>5 DEF OnBlock
<1>7. \A b \in B : Fits(b)' <=> Fits(b)
  BY <1>1 DEF Fits
<1>8. Seen(B)'
  <2>1. ASSUME NEW b \in B, b < last'
        PROVE  ~Fits(b)
    <3>1. b < last \/ b = last
      BY <2>1, <1>1, <1>2, <1>5
    <3> QED
      BY <3>1, <1>1, <1>3
  <2> QED
    BY <2>1, <1>1, <1>3, <1>4, <1>7 DEF Seen
<1> QED
  BY <1>1, <1>2, <1>6, <1>8, StillInv

LEMMA WrapEndsInv ==
    ASSUME IInv, WrapEnds
    PROVE  IInv'
<1>1. /\ pc = "wrap" /\ last >= call.old /\ pc' = "extend" /\ last' = last
      /\ UNCHANGED <<mem, brk, call, live>>
  BY DEF WrapEnds
<1>2. PICK B : /\ Tiled(mem, brk, B) /\ Merged(mem, B)
               /\ InUseIn(mem, B) = InUse /\ Seen(B)
               /\ last \in B /\ last \in Nat
               /\ \A b \in B : b < brk /\ b \in Nat
  BY <1>1, AtRover
<1>3. /\ call.old \in B /\ last <= call.old
      /\ \A b \in B : b < last \/ call.old <= b => ~Fits(b)
  BY <1>1, <1>2 DEF Seen
<1>4. \A b \in B : ~Fits(b)
  <2> TAKE b \in B
  <2>1. b \in Nat /\ last \in Nat /\ call.old \in Nat
    BY <1>2, <1>3
  <2>2. b < last \/ call.old <= b
    BY <2>1, <1>1, <1>3
  <2> QED
    BY <2>2, <1>3
<1>5. \A b \in B : Fits(b)' <=> Fits(b)
  BY <1>1 DEF Fits
<1>6. Seen(B)' /\ OnBlock(B)'
  BY <1>1, <1>2, <1>4, <1>5 DEF Seen, OnBlock
<1>7. last' \in 0 .. MAX_HEAP
  BY <1>1 DEF IInv, TypeOK
<1> QED
  BY <1>1, <1>2, <1>6, <1>7, StillInv

LEMMA ExtendFitsInv ==
    ASSUME IInv, ExtendFits
    PROVE  IInv'
<1> DEFINE n == extendsize
           f == brk + n
           r == extend_heap(mem, brk, n, last)
<1>1. /\ pc = "extend" /\ ~(f > MAX_HEAP) /\ brk' = f
      /\ last' = r.last /\ Returns(r.mem, r.bp)
  BY DEF ExtendFits, mem_sbrk_fails
<1>2. PICK B : /\ Tiled(mem, brk, B) /\ Merged(mem, B)
               /\ InUseIn(mem, B) = InUse /\ last \in B
               /\ brk \in Nat /\ brk <= MAX_HEAP
  BY <1>1, AtRover
<1>3. call.size \in Nat /\ call.size # 0
  BY <1>1 DEF IInv, TypeOK, CallInv
<1>4. /\ n \in Nat /\ n >= 2 /\ n % 2 = 0 /\ asize(call.size) <= n
      /\ asize(call.size) \in Nat
  BY <1>3, AsizeFacts, ChunkAssumption DEF extendsize
<1>5. f \in Nat /\ f <= MAX_HEAP
  BY <1>1, <1>2, <1>4, HeapAssumption
<1> HIDE DEF n
<1>6. Coalesced(mem, f, B, n, r)
  <2>1. f = brk + n
    OBVIOUS
  <2> HIDE DEF f
  <2> QED
    BY <2>1, <1>2, <1>4, <1>5, ExtendEffect
<1> HIDE DEF r, f
<1>7. PICK B2 : /\ Tiled(r.mem, f, B2) /\ Merged(r.mem, B2)
                /\ InUseIn(r.mem, B2) = InUse
                /\ Keeps(mem, r.mem, InUse)
                /\ r.last \in B2
                /\ r.bp \in B2 /\ r.mem[r.bp - 1].alloc = 0
                /\ n <= r.mem[r.bp - 1].size
  BY <1>2, <1>6 DEF Coalesced
<1>8. asize(call.size) <= r.mem[r.bp - 1].size
  <2>1. r.mem[r.bp - 1].size \in Nat
    BY <1>7, BlockFacts
  <2> QED
    BY <2>1, <1>4, <1>7
<1> QED
  BY <1>1, <1>7, <1>8, ReturnsInv

LEMMA ExtendFailsInv ==
    ASSUME IInv, ExtendFails
    PROVE  IInv'
<1>1. /\ pc = "extend" /\ pc' = "idle"
      /\ UNCHANGED <<mem, brk, last, live>>
      /\ call' = [id |-> NoId, size |-> 0, ptr |-> 0, old |-> 0, bp |-> 0]
  BY DEF ExtendFails, NoCall, NULL
<1>2. PICK B : /\ Tiled(mem, brk, B) /\ Merged(mem, B)
               /\ InUseIn(mem, B) = InUse /\ last \in B
  BY <1>1, AtRover
<1>3. TypeOK'
  BY <1>1 DEF IInv, TypeOK
<1>4. InUse' = InUse
  BY <1>1 DEF InUse, Held
<1>5. HeapInv'
  <2>1. B \in SUBSET Block(mem', brk') /\ Blocks(B)' /\ Merged(mem', B)
    BY <1>1, <1>2 DEF Tiled, Blocks
  <2>2. OnBlock(B)' /\ Seen(B)'
    BY <1>1, <1>2 DEF OnBlock, Seen
  <2>3. {b \in B : GET_ALLOC(mem', HDRP(b))} = InUse'
    BY <1>1, <1>2, <1>4 DEF InUseIn
  <2> QED
    BY <2>1, <2>2, <2>3 DEF HeapInv
<1>6. SnugBlocks' /\ HeldInv'
  BY <1>1 DEF IInv, SnugBlocks, HeldInv, Held, Snug
<1>7. CallInv' /\ OffInv'
  BY <1>1 DEF CallInv, OffInv
<1> QED
  BY <1>3, <1>5, <1>6, <1>7 DEF IInv

(* The blocks a realloc is about: the old one, and the one just placed.    *)
LEMMA CopyFacts ==
    ASSUME IInv, pc = "copy"
    PROVE  \E B : /\ Tiled(mem, brk, B) /\ Merged(mem, B)
                  /\ InUseIn(mem, B) = InUse /\ last \in B
                  /\ call.bp \in B /\ call.ptr \in B /\ call.bp \in InUse
                  /\ call.ptr # 2 /\ call.bp # 2 /\ call.ptr # call.bp
                  /\ call.bp # 0
<1>1. PICK B : /\ Tiled(mem, brk, B) /\ Merged(mem, B) /\ OnBlock(B)
               /\ InUseIn(mem, B) = InUse /\ Seen(B)
  BY HeapInvIs DEF IInv
<1>2. last \in B
  BY <1>1 DEF OnBlock
<1>3. /\ call.id \in Id /\ call.ptr = live[call.id].ptr /\ call.ptr # 0
      /\ call.bp # 0 /\ call.bp # 2 /\ \A i \in Id : live[i].ptr # call.bp
  BY DEF IInv, CallInv, Held, NULL, heap_listp
<1>4. call.ptr \in InUse /\ call.bp \in InUse
  BY <1>3, InUseIs
<1>5. call.ptr \in B /\ call.bp \in B
  BY <1>1, <1>4 DEF InUseIn
<1>6. call.ptr # 2
  BY <1>3 DEF IInv, HeldInv, Held, NULL, heap_listp
<1> QED
  BY <1>1, <1>2, <1>3, <1>4, <1>5, <1>6

(* memcpy writes inside the new block only.                                *)
LEMMA CopyFills ==
    ASSUME IInv, pc = "copy", NEW B, Tiled(mem, brk, B),
           call.bp \in B, call.ptr \in B
    PROVE  /\ memcpy(mem) \in Heap /\ Filled(mem, memcpy(mem), B, call.bp)
           /\ Copied \in Nat
           /\ \A w \in call.bp .. call.bp + Copied - 1 :
                w \in Word /\ memcpy(mem)[w] = mem[w - call.bp + call.ptr]
<1> DEFINE bp == call.bp
           p == call.ptr
           new == call.size \div 4
           old == mem[p - 1].size
<1>1. /\ call.size \in Nat /\ call.size # 0
      /\ mem[bp - 1].size - asize(call.size) \in {0, 2}
  BY DEF IInv, TypeOK, CallInv, Snug, GET_SIZE, HDRP
<1>2. /\ asize(call.size) \in Nat /\ new \in Nat
      /\ new <= asize(call.size) - 2
  BY <1>1, AsizeFacts DEF WSIZE
<1>3. /\ bp \in Nat /\ p \in Nat /\ old \in Nat /\ mem[bp - 1].size \in Nat
      /\ bp >= 2 /\ p >= 2
      /\ bp + mem[bp - 1].size <= brk /\ p + old <= brk
  BY BlockFacts, BlocksAreNat
<1>4. brk \in Nat /\ brk <= MAX_HEAP
  BY HeapEnds
<1>5. Copied = IF new < old THEN new ELSE old
  BY DEF Copied, WSIZE, GET_SIZE, HDRP
<1> HIDE DEF new, old, bp, p
<1>6. /\ Copied \in Nat /\ Copied <= mem[bp - 1].size - 2
      /\ p + Copied <= brk
  <2>1. new <= mem[bp - 1].size - 2
    BY <1>1, <1>2, <1>3
  <2> QED
    BY <2>1, <1>2, <1>3, <1>4, <1>5
<1>7. ASSUME NEW w \in bp .. bp + Copied - 1
      PROVE  /\ w \in Word /\ w - bp + p \in Word
             /\ w \in bp .. bp + mem[bp - 1].size - 3
             /\ w >= bp /\ w < bp + Copied
  BY <1>3, <1>4, <1>6, HeapAssumption DEF Word
<1>8. mem \in Heap
  BY DEF IInv, TypeOK
<1>9. memcpy(mem) = [w \in Word |-> IF w >= bp /\ w < bp + Copied
                                   THEN mem[w - bp + p] ELSE mem[w]]
  BY DEF memcpy, bp, p
<1>10. \A w \in Word : w >= bp /\ w < bp + Copied => w \in bp .. bp + Copied - 1
  BY <1>3, <1>6 DEF Word
<1>11. memcpy(mem) \in Heap
  BY <1>7, <1>8, <1>9, <1>10
<1>12. \A w \in bp .. bp + Copied - 1 :
          w \in Word /\ memcpy(mem)[w] = mem[w - bp + p]
  BY <1>7, <1>9
<1>13. Filled(mem, memcpy(mem), B, bp)
  <2> SUFFICES ASSUME NEW w \in Word, w \notin bp .. bp + mem[bp - 1].size - 3
               PROVE  memcpy(mem)[w] = mem[w]
    BY DEF Filled
  <2>1. ~(w >= bp /\ w < bp + Copied)
    BY <1>7, <1>10
  <2> QED
    BY <2>1, <1>9
<1> QED
  BY <1>6, <1>11, <1>12, <1>13 DEF bp, p

(* What a realloc leaves: the old block is free, the new one has the words *)
(* copied, the others are as before.                                       *)
LEMMA ReallocEffect ==
    ASSUME IInv, ReallocMoves
    PROVE  \E B : /\ Tiled(mem', brk, B) /\ Merged(mem', B)
                  /\ InUseIn(mem', B) = InUse \ {call.ptr}
                  /\ last' \in B
                  /\ \A x \in InUse \ {call.ptr} : mem'[x - 1] = mem[x - 1]
                  /\ Keeps(mem, mem', InUse \ {call.ptr, call.bp})
                  /\ \A w \in call.bp .. call.bp + Copied - 1 :
                        mem'[w] = mem[w - call.bp + call.ptr]
<1> DEFINE m == memcpy(mem)
           r == mm_free(m, call.ptr, last)
<1>1. /\ pc = "copy" /\ mem' = r.mem /\ last' = r.last
  BY DEF ReallocMoves
<1>2. PICK B : /\ Tiled(mem, brk, B) /\ Merged(mem, B)
               /\ InUseIn(mem, B) = InUse /\ last \in B
               /\ call.bp \in B /\ call.ptr \in B /\ call.bp \in InUse
               /\ call.ptr # 2 /\ call.bp # 2 /\ call.ptr # call.bp
               /\ call.bp # 0
  BY <1>1, CopyFacts
<1>3. /\ m \in Heap /\ Filled(mem, m, B, call.bp) /\ Copied \in Nat
      /\ \A w \in call.bp .. call.bp + Copied - 1 :
                w \in Word /\ m[w] = mem[w - call.bp + call.ptr]
  BY <1>1, <1>2, CopyFills
<1> HIDE DEF m
<1>4. /\ Tiled(m, brk, B) /\ Merged(m, B) /\ InUseIn(m, B) = InUse
      /\ \A x \in B : m[x - 1] = mem[x - 1]
      /\ Keeps(mem, m, B \ {call.bp})
  <2>1. m \in Heap /\ Filled(mem, m, B, call.bp)
    BY <1>3
  <2>2. /\ Tiled(m, brk, B) /\ \A x \in B \cup {brk} : m[x - 1] = mem[x - 1]
        /\ Merged(mem, B) => Merged(m, B)
        /\ InUseIn(m, B) = InUseIn(mem, B) /\ Keeps(mem, m, B \ {call.bp})
    <3>1. Tiled(mem, brk, B) /\ call.bp \in B
      BY <1>2
    <3> HIDE DEF r
    <3> QED
      BY <2>1, <3>1, FillEffect
  <2> QED
    BY <2>2, <1>2
<1>5. Freed(m, brk, B, call.ptr, r)
  BY <1>2, <1>4, FreeEffect
<1> HIDE DEF r
<1>6. PICK B2 : /\ Tiled(r.mem, brk, B2) /\ Merged(r.mem, B2)
                /\ InUseIn(r.mem, B2) = InUse \ {call.ptr}
                /\ Keeps(m, r.mem, InUse \ {call.ptr}) /\ r.last \in B2
  BY <1>4, <1>5 DEF Freed
<1>7. \A x \in InUse \ {call.ptr} : mem'[x - 1] = mem[x - 1]
  <2>1. \A x \in InUse : x \in B
    BY <1>2 DEF InUseIn
  <2>2. \A x \in InUse \ {call.ptr} : r.mem[x - 1] = m[x - 1]
    BY <1>6 DEF Keeps, HDRP
  <2> QED
    BY <2>1, <2>2, <1>1, <1>4
<1>8. Keeps(mem, mem', InUse \ {call.ptr, call.bp})
  <2>1. Keeps(mem, m, InUse \ {call.ptr, call.bp})
    <3>1. \A x \in InUse \ {call.ptr, call.bp} : x \in B \ {call.bp}
      BY <1>2 DEF InUseIn
    <3> QED
      BY <3>1, <1>4 DEF Keeps
  <2>2. Keeps(m, mem', InUse \ {call.ptr, call.bp})
    BY <1>1, <1>6 DEF Keeps
  <2> QED
    BY <2>1, <2>2, KeepsTrans
<1>9. \A w \in call.bp .. call.bp + Copied - 1 :
        mem'[w] = mem[w - call.bp + call.ptr]
  <2>1. \A w \in call.bp .. call.bp + m[call.bp - 1].size - 3 : mem'[w] = m[w]
    BY <1>1, <1>2, <1>6 DEF Keeps, GET_SIZE, HDRP
  <2>2. ASSUME NEW w \in call.bp .. call.bp + Copied - 1
        PROVE  w \in call.bp .. call.bp + m[call.bp - 1].size - 3
    <3>1. w \in Word /\ m[w] = mem[w - call.bp + call.ptr]
      BY <1>3
    <3>2. /\ call.bp \in Nat /\ mem[call.bp - 1].size \in Nat
          /\ mem[call.bp - 1].size >= 2
      BY <1>2, BlockFacts, BlocksAreNat
    <3>3. Copied <= mem[call.bp - 1].size - 2
      <4>1. /\ call.size \in Nat /\ call.size # 0
            /\ mem[call.bp - 1].size - asize(call.size) \in {0, 2}
        BY <1>1 DEF IInv, TypeOK, CallInv, Snug, GET_SIZE, HDRP
      <4>2. /\ asize(call.size) \in Nat /\ call.size \div WSIZE \in Nat
            /\ call.size \div WSIZE <= asize(call.size) - 2
        BY <4>1, AsizeFacts
      <4>3. mem[call.ptr - 1].size \in Nat
        BY <1>2, BlockFacts
      <4>4. Copied <= call.size \div WSIZE
        BY <4>2, <4>3 DEF Copied, GET_SIZE, HDRP
      <4> QED
        BY <4>1, <4>2, <4>4, <3>2, <1>3
    <3>4. m[call.bp - 1].size = mem[call.bp - 1].size
      BY <1>2, <1>4
    <3> QED
      BY <3>2, <3>3, <3>4, <1>3
  <2> QED
    BY <2>1, <2>2, <1>3
<1> QED
  BY <1>1, <1>6, <1>7, <1>8, <1>9

LEMMA ReallocMovesInv ==
    ASSUME IInv, ReallocMoves
    PROVE  IInv'
<1>1. /\ pc = "copy" /\ pc' = "fill" /\ UNCHANGED <<brk, call>>
      /\ live' = [live EXCEPT ![call.id] = [ptr |-> call.bp, size |-> call.size]]
  BY DEF ReallocMoves
<1>2. PICK B : /\ Tiled(mem', brk, B) /\ Merged(mem', B)
               /\ InUseIn(mem', B) = InUse \ {call.ptr}
               /\ last' \in B
               /\ \A x \in InUse \ {call.ptr} : mem'[x - 1] = mem[x - 1]
  BY ReallocEffect
<1>3. /\ call.id \in Id /\ call.size \in Nat /\ call.size # 0
      /\ call.ptr = live[call.id].ptr
      /\ call.ptr # 0 /\ call.bp # 2 /\ call.bp # 0 /\ call.bp \in Nat
      /\ \A i \in Id : live[i].ptr # call.bp
      /\ Snug(call.bp, call.size)
  BY <1>1 DEF IInv, TypeOK, CallInv, Held, NULL, heap_listp
<1>4. \A i \in Id : live'[i] = IF i = call.id
                               THEN [ptr |-> call.bp, size |-> call.size]
                               ELSE live[i]
  BY <1>1, <1>3 DEF IInv, TypeOK
<1>5. /\ \A i \in Id : live[i].ptr # 0 => live[i].ptr # 2 /\ live[i].size # 0
      /\ \A i, j \in Id : live[i].ptr # 0 /\ live[i].ptr = live[j].ptr => i = j
  BY DEF IInv, HeldInv, Held, NULL, heap_listp
<1>6. InUse' = InUse \ {call.ptr}
  <2>1. \A x : x \in InUse' <=> \/ x = 2
                                \/ \E i \in Id : live'[i].ptr # 0 /\ x = live'[i].ptr
    BY <1>1 DEF InUse, Held, NULL, heap_listp
  <2>2. \A x : x \in InUse <=> \/ x = 2 \/ x = call.bp
                               \/ \E i \in Id : live[i].ptr # 0 /\ x = live[i].ptr
    BY <1>1, InUseIs
  <2>3. call.ptr # 2 /\ call.ptr # call.bp
    BY <1>3, <1>5
  <2>4. ASSUME NEW x \in InUse' PROVE x \in InUse /\ x # call.ptr
    BY <2>1, <2>2, <2>3, <1>3, <1>4, <1>5
  <2>5. ASSUME NEW x \in InUse, x # call.ptr PROVE x \in InUse'
    <3>1. CASE x = 2
      BY <3>1, <2>1
    <3>2. CASE x = call.bp
      BY <3>2, <2>1, <1>3, <1>4
    <3>3. CASE \E i \in Id : live[i].ptr # 0 /\ x = live[i].ptr
      BY <3>3, <2>1, <2>5, <1>3, <1>4
    <3> QED
      BY <3>1, <3>2, <3>3, <2>2
  <2> QED
    BY <2>4, <2>5
<1>7. call.bp \in InUse \ {call.ptr} /\ call.bp <= MAX_HEAP /\ last' \in 0 .. MAX_HEAP
  <2>1. call.bp \in InUse \ {call.ptr}
    BY <1>1, <1>3, InUseIs
  <2>2. call.bp \in B
    BY <2>1, <1>2 DEF InUseIn
  <2>3. /\ call.bp < brk /\ last' < brk /\ last' \in Nat /\ brk \in Nat
        /\ brk <= MAX_HEAP
    BY <2>2, <1>2, HeapEnds, BlocksAreNat
  <2> QED
    BY <2>1, <2>3, <1>3, HeapAssumption
<1>8. TypeOK'
  <2>1. mem' \in Heap
    BY <1>2 DEF Tiled
  <2>2. [ptr |-> call.bp, size |-> call.size] \in [ptr : 0 .. MAX_HEAP, size : Nat]
    BY <1>3, <1>7, HeapAssumption
  <2>3. live' \in [Id -> [ptr : 0 .. MAX_HEAP, size : Nat]]
    BY <2>2, <1>1 DEF IInv, TypeOK
  <2> QED
    BY <2>1, <2>3, <1>1, <1>7 DEF IInv, TypeOK
<1>9. HeapInv'
  <2>1. B \in SUBSET Block(mem', brk') /\ Blocks(B)' /\ Merged(mem', B)
    BY <1>1, <1>2 DEF Tiled, Blocks
  <2>2. OnBlock(B)' /\ Seen(B)'
    BY <1>1, <1>2 DEF OnBlock, Seen
  <2>3. {b \in B : GET_ALLOC(mem', HDRP(b))} = InUse'
    BY <1>2, <1>6 DEF InUseIn
  <2> QED
    BY <2>1, <2>2, <2>3 DEF HeapInv
<1>10. SnugBlocks'
  <2> SUFFICES ASSUME NEW i \in Id, live'[i].ptr # 0
               PROVE  Snug(live[i].ptr, live[i].size)'
    BY DEF SnugBlocks, Held, NULL
  <2>1. CASE i = call.id
    <3>1. mem'[call.bp - 1] = mem[call.bp - 1]
      BY <1>2, <1>7
    <3> QED
      BY <2>1, <3>1, <1>3, <1>4 DEF Snug, GET_SIZE, HDRP
  <2>2. CASE i # call.id
    <3>1. live'[i] = live[i]
      BY <2>2, <1>4
    <3>2. live[i].ptr \in InUse \ {call.ptr}
      BY <2>2, <3>1, <1>3, <1>5, InUseIs
    <3>3. mem'[live[i].ptr - 1] = mem[live[i].ptr - 1]
      BY <3>2, <1>2
    <3>4. Snug(live[i].ptr, live[i].size)
      BY <3>1 DEF IInv, SnugBlocks, Held, NULL
    <3> QED
      BY <3>1, <3>3, <3>4 DEF Snug, GET_SIZE, HDRP
  <2> QED
    BY <2>1, <2>2
<1>11. HeldInv'
  <2>1. \A i \in Id : live'[i].ptr # 0 => live'[i].ptr # 2 /\ live'[i].size # 0
    BY <1>3, <1>4, <1>5
  <2>2. \A i, j \in Id : live'[i].ptr # 0 /\ live'[i].ptr = live'[j].ptr => i = j
    BY <1>3, <1>4, <1>5
  <2> QED
    BY <2>1, <2>2 DEF HeldInv, Held, NULL, heap_listp
<1>12. CallInv'
  <2>1. live'[call.id].ptr # 0 /\ call.size = live'[call.id].size
    BY <1>3, <1>4
  <2> QED
    BY <2>1, <1>1, <1>3 DEF CallInv, Held, NULL
<1>13. OffInv'
  BY <1>1 DEF OffInv
<1> QED
  BY <1>8, <1>9, <1>10, <1>11, <1>12, <1>13 DEF IInv

(* The client writes inside the block it was given.                        *)
LEMMA FillEffects ==
    ASSUME IInv, ClientFills
    PROVE  \E B : /\ Tiled(mem', brk, B) /\ Merged(mem', B)
                  /\ InUseIn(mem', B) = InUse /\ last \in B
                  /\ live[call.id].ptr \in B
                  /\ \A x \in B : mem'[x - 1] = mem[x - 1]
                  /\ Keeps(mem, mem', B \ {live[call.id].ptr})
<1> DEFINE p == live[call.id].ptr
<1>1. /\ pc = "fill"
      /\ mem' = [w \in Word |-> IF w \in p .. p + (call.size \div WSIZE) - 1
                                THEN Data(call.id) ELSE mem[w]]
  BY DEF ClientFills, Payload
<1>2. PICK B : /\ Tiled(mem, brk, B) /\ Merged(mem, B) /\ OnBlock(B)
               /\ InUseIn(mem, B) = InUse /\ Seen(B)
  BY <1>1, HeapInvIs DEF IInv
<1>3. last \in B
  BY <1>1, <1>2 DEF OnBlock
<1>4. /\ call.id \in Id /\ call.size \in Nat /\ call.size # 0 /\ p # 0
      /\ call.size = live[call.id].size
  BY <1>1 DEF IInv, TypeOK, CallInv, Held, NULL
<1>5. p \in B
  <2>1. p \in InUse
    BY <1>4, InUseIs
  <2> QED
    BY <2>1, <1>2 DEF InUseIn
<1>6. mem[p - 1].size - asize(call.size) \in {0, 2}
  BY <1>4 DEF IInv, SnugBlocks, Held, NULL, Snug, GET_SIZE, HDRP
<1>7. /\ asize(call.size) \in Nat /\ call.size \div WSIZE \in Nat
      /\ call.size \div WSIZE <= asize(call.size) - 2
  BY <1>4, AsizeFacts
<1>8. /\ mem[p - 1].size \in Nat /\ p \in Nat
  BY <1>2, <1>5, BlockFacts, BlocksAreNat
<1>9. mem \in Heap /\ Data(call.id) \in WordValue
  BY <1>4 DEF IInv, TypeOK, Data, WordValue
<1>10. mem' \in Heap
  BY <1>1, <1>9
<1>11. Filled(mem, mem', B, p)
  <2> SUFFICES ASSUME NEW w \in Word, w \notin p .. p + mem[p - 1].size - 3
               PROVE  mem'[w] = mem[w]
    BY DEF Filled
  <2>1. call.size \div WSIZE <= mem[p - 1].size - 2
    BY <1>6, <1>7, <1>8
  <2>2. w \notin p .. p + (call.size \div WSIZE) - 1
    BY <2>1, <1>7, <1>8
  <2> QED
    BY <2>2, <1>1
<1> HIDE DEF p
<1>12. /\ Tiled(mem', brk, B) /\ \A x \in B \cup {brk} : mem'[x - 1] = mem[x - 1]
       /\ Merged(mem', B) /\ InUseIn(mem', B) = InUse
       /\ Keeps(mem, mem', B \ {p})
  BY <1>2, <1>5, <1>10, <1>11, FillEffect
<1> QED
  BY <1>3, <1>5, <1>12 DEF p

LEMMA ClientFillsInv ==
    ASSUME IInv, ClientFills
    PROVE  IInv'
<1>1. /\ pc = "fill" /\ pc' = "idle" /\ UNCHANGED <<brk, last, live>>
      /\ call' = [id |-> NoId, size |-> 0, ptr |-> 0, old |-> 0, bp |-> 0]
  BY DEF ClientFills, NoCall, NULL
<1>2. PICK B : /\ Tiled(mem', brk, B) /\ Merged(mem', B)
               /\ InUseIn(mem', B) = InUse /\ last \in B
               /\ \A x \in B : mem'[x - 1] = mem[x - 1]
  BY FillEffects
<1>3. mem' \in Heap
  BY <1>2 DEF Tiled
<1>4. TypeOK'
  BY <1>1, <1>3 DEF IInv, TypeOK
<1>5. InUse' = InUse
  BY <1>1 DEF InUse, Held
<1>6. HeapInv'
  <2>1. B \in SUBSET Block(mem', brk') /\ Blocks(B)' /\ Merged(mem', B)
    BY <1>1, <1>2 DEF Tiled, Blocks
  <2>2. OnBlock(B)' /\ Seen(B)'
    BY <1>1, <1>2 DEF OnBlock, Seen
  <2>3. {b \in B : GET_ALLOC(mem', HDRP(b))} = InUse'
    BY <1>2, <1>5 DEF InUseIn
  <2> QED
    BY <2>1, <2>2, <2>3 DEF HeapInv
<1>7. SnugBlocks'
  <2> SUFFICES ASSUME NEW i \in Id, live[i].ptr # 0
               PROVE  Snug(live[i].ptr, live[i].size)'
    BY <1>1 DEF SnugBlocks, Held, NULL
  <2>1. live[i].ptr \in B
    <3>1. live[i].ptr \in InUse
      BY InUseIs
    <3> QED
      BY <3>1, <1>2 DEF InUseIn
  <2>2. Snug(live[i].ptr, live[i].size)
    BY DEF IInv, SnugBlocks, Held, NULL
  <2> QED
    BY <2>1, <2>2, <1>1, <1>2 DEF Snug, GET_SIZE, HDRP
<1>8. HeldInv'
  BY <1>1 DEF IInv, HeldInv, Held
<1>9. CallInv' /\ OffInv'
  BY <1>1 DEF CallInv, OffInv
<1> QED
  BY <1>4, <1>6, <1>7, <1>8, <1>9 DEF IInv

(***************************************************************************)
(* The theorems.                                                           *)
(***************************************************************************)
LEMMA NextInv == IInv /\ [Next]_vars => IInv'
<1> SUFFICES ASSUME IInv, [Next]_vars PROVE IInv'
  OBVIOUS
<1>1. CASE mm_init
  BY <1>1, InitializeInv
<1>2. ASSUME NEW id \in Id, NEW size \in Sizes,
             CallMalloc(id, size) \/ CallRealloc(id, size)
      PROVE  IInv'
  BY <1>2, CallsInv DEF CallMalloc, CallRealloc
<1>3. ASSUME NEW id \in Id, CallFree(id)
      PROVE  IInv'
  BY <1>3, CallFreeInv
<1>4. CASE SearchFits \/ WrapFits
  BY <1>4, FitsInv
<1>5. CASE SearchNext
  BY <1>5, SearchNextInv
<1>6. CASE SearchEnds
  BY <1>6, SearchEndsInv
<1>7. CASE WrapNext
  BY <1>7, WrapNextInv
<1>8. CASE WrapEnds
  BY <1>8, WrapEndsInv
<1>9. CASE ExtendFits
  BY <1>9, ExtendFitsInv
<1>10. CASE ExtendFails
  BY <1>10, ExtendFailsInv
<1>11. CASE ReallocMoves
  BY <1>11, ReallocMovesInv
<1>12. CASE ClientFills
  BY <1>12, ClientFillsInv
<1>13. CASE UNCHANGED vars
  <2>1. UNCHANGED <<mem, brk, last, pc, call, live>>
    BY <1>13 DEF vars
  <2>2. TypeOK'
    BY <2>1 DEF IInv, TypeOK
  <2>3. HeapInv'
    BY <2>1 DEF IInv, HeapInv, Blocks, OnBlock, Seen, Fits, extendsize, InUse, Held
  <2>4. SnugBlocks' /\ HeldInv'
    BY <2>1 DEF IInv, SnugBlocks, HeldInv, Held, Snug
  <2>5. CallInv' /\ OffInv'
    BY <2>1 DEF IInv, CallInv, OffInv, Held, Snug
  <2> QED
    BY <2>2, <2>3, <2>4, <2>5 DEF IInv
<1> QED
  BY <1>1, <1>2, <1>3, <1>4, <1>5, <1>6, <1>7, <1>8, <1>9, <1>10, <1>11, <1>12,
     <1>13 DEF Next, Running, Search

LEMMA Invariant == Spec => []IInv
BY InitInv, NextInv, PTL DEF Spec

(* Every variable keeps its type; brk and last stay inside the heap.       *)
THEOREM TypeCorrect == Spec => []TypeOK
<1>1. IInv => TypeOK
  BY DEF IInv
<1> QED
  BY <1>1, Invariant, PTL

(* After any sequence of calls, from the boundary tags that coalesce and   *)
(* place write one at a time, the blocks tile the heap.                    *)
THEOREM BlocksTile == Spec => []HeapTiled
<1>1. IInv => HeapTiled
  BY DEF IInv, HeapInv, HeapTiled
<1> QED
  BY <1>1, Invariant, PTL

(* coalesce leaves no two free blocks side by side.                        *)
THEOREM NoFreeNeighbours == Spec => []FreeBlocksMerged
<1>1. IInv => FreeBlocksMerged
  BY DEF IInv, HeapInv, FreeBlocksMerged
<1> QED
  BY <1>1, Invariant, PTL

(* The rover is at a block whenever find_fit reads a header through it.    *)
THEOREM RoverSound == Spec => []RoverOnBlock
<1>1. IInv => RoverOnBlock
  BY DEF IInv, HeapInv, RoverOnBlock
<1> QED
  BY <1>1, Invariant, PTL

(* The blocks marked allocated are those the client holds.                 *)
THEOREM NoBlockLost == Spec => []NoneLost
<1>1. IInv => NoneLost
  BY DEF IInv, HeapInv, NoneLost
<1> QED
  BY <1>1, Invariant, PTL

(* find_fit gives up only after it has seen every block.                   *)
THEOREM SearchComplete == Spec => []GrowsOnlyWhenFull
<1>1. IInv => GrowsOnlyWhenFull
  BY DEF IInv, HeapInv, GrowsOnlyWhenFull, Seen
<1> QED
  BY <1>1, Invariant, PTL

(* A block has the size asked for, or one more pair of words.              *)
THEOREM BlocksFit == Spec => []SnugBlocks
<1>1. IInv => SnugBlocks
  BY DEF IInv
<1> QED
  BY <1>1, Invariant, PTL

(***************************************************************************)
(* MM implements Allocator: each step of the word-level allocator is a     *)
(* step of the abstract one, or changes nothing that the client sees.      *)
(***************************************************************************)
Words(i) == live[i].size \div WSIZE

(* What the client sees of a block it holds, and that it lies between the  *)
(* block's tags.                                                           *)
LEMMA ViewIs ==
    ASSUME IInv, NEW i \in Id, live[i].ptr # 0
    PROVE  /\ View(i) = [at |-> live[i].ptr,
                         words |-> [q \in 1 .. Words(i) |->
                                       mem[live[i].ptr + q - 1].id]]
           /\ Words(i) \in Nat
           /\ live[i].ptr \in Nat
           /\ mem[live[i].ptr - 1].size \in Nat
           /\ Words(i) <= mem[live[i].ptr - 1].size - 2
           /\ live[i].ptr \in InUse
<1>1. View(i) = [at |-> live[i].ptr,
                 words |-> [q \in 1 .. Words(i) |->
                               mem[live[i].ptr + q - 1].id]]
  BY DEF View, Held, NULL, Words
<1>2. /\ live[i].size \in Nat /\ live[i].size # 0
      /\ mem[live[i].ptr - 1].size - asize(live[i].size) \in {0, 2}
      /\ live[i].ptr \in Nat
  BY DEF IInv, TypeOK, SnugBlocks, HeldInv, Held, Snug, NULL, GET_SIZE, HDRP
<1>3. /\ asize(live[i].size) \in Nat /\ Words(i) \in Nat
      /\ Words(i) <= asize(live[i].size) - 2
  BY <1>2, AsizeFacts DEF Words
<1>4. live[i].ptr \in InUse
  BY InUseIs
<1>5. pc # "off"
  BY DEF IInv, OffInv, NoBlock, NULL
<1>6. PICK B : Tiled(mem, brk, B) /\ InUseIn(mem, B) = InUse
  BY <1>5, HeapInvIs DEF IInv
<1>7. mem[live[i].ptr - 1].size \in Nat
  BY <1>4, <1>6, BlockFacts DEF InUseIn
<1>8. Words(i) <= mem[live[i].ptr - 1].size - 2
  BY <1>2, <1>3, <1>7
<1> QED
  BY <1>1, <1>2, <1>3, <1>4, <1>7, <1>8

LEMMA ViewNothing ==
    ASSUME NEW i \in Id
    PROVE  View(i) = NoBlock <=> live[i].ptr = 0
<1>1. live[i].ptr = 0 => View(i) = NoBlock
  BY DEF View, Held, NULL
<1>2. ASSUME live[i].ptr # 0, View(i) = NoBlock
      PROVE  FALSE
  <2>1. "at" \in DOMAIN View(i)
    BY <1>2 DEF View, Held, NULL
  <2>2. "at" \notin DOMAIN NoBlock
    BY DEF NoBlock
  <2> QED
    BY <2>1, <2>2, <1>2
<1> QED
  BY <1>1, <1>2

LEMMA ViewKept ==
    ASSUME IInv, NEW i \in Id, live'[i] = live[i],
           live[i].ptr # 0 =>
             \A q \in live[i].ptr .. live[i].ptr + mem[live[i].ptr - 1].size - 3 :
                mem'[q] = mem[q]
    PROVE  View(i)' = View(i)
<1>1. CASE live[i].ptr = 0
  BY <1>1 DEF View, Held, NULL
<1>2. CASE live[i].ptr # 0
  <2>1. View(i)' = [at |-> live[i].ptr,
                    words |-> [q \in 1 .. Words(i) |->
                                  mem'[live[i].ptr + q - 1].id]]
    BY <1>2 DEF View, Held, NULL, Words
  <2>2. /\ Words(i) \in Nat /\ live[i].ptr \in Nat
        /\ mem[live[i].ptr - 1].size \in Nat
        /\ Words(i) <= mem[live[i].ptr - 1].size - 2
    BY <1>2, ViewIs
  <2>5. View(i) = [at |-> live[i].ptr,
                   words |-> [q \in 1 .. Words(i) |->
                                 mem[live[i].ptr + q - 1].id]]
    BY <1>2, ViewIs
  <2>3. ASSUME NEW q \in 1 .. Words(i)
        PROVE  live[i].ptr + q - 1
                 \in live[i].ptr .. live[i].ptr + mem[live[i].ptr - 1].size - 3
    BY <2>2
  <2>4. \A q \in 1 .. Words(i) :
           mem'[live[i].ptr + q - 1] = mem[live[i].ptr + q - 1]
    BY <2>3, <1>2
  <2> QED
    BY <2>1, <2>4, <2>5
<1> QED
  BY <1>1, <1>2

(* The words of two blocks the client holds are different words.           *)
Apart(i, j) == A!Disjoint(View(i), View(j))

LEMMA ViewsApart ==
    ASSUME IInv, NEW i \in Id, NEW j \in Id, i # j,
           live[i].ptr # 0, live[j].ptr # 0
    PROVE  Apart(i, j)
<1>1. /\ View(i) = [at |-> live[i].ptr,
                    words |-> [q \in 1 .. Words(i) |->
                                  mem[live[i].ptr + q - 1].id]]
      /\ Words(i) \in Nat /\ live[i].ptr \in Nat
      /\ mem[live[i].ptr - 1].size \in Nat
      /\ Words(i) <= mem[live[i].ptr - 1].size - 2
      /\ live[i].ptr \in InUse
  BY ViewIs
<1>2. /\ View(j) = [at |-> live[j].ptr,
                    words |-> [q \in 1 .. Words(j) |->
                                  mem[live[j].ptr + q - 1].id]]
      /\ Words(j) \in Nat /\ live[j].ptr \in Nat
      /\ mem[live[j].ptr - 1].size \in Nat
      /\ Words(j) <= mem[live[j].ptr - 1].size - 2
      /\ live[j].ptr \in InUse
  BY ViewIs
<1>3. live[i].ptr # live[j].ptr
  BY DEF IInv, HeldInv, Held, NULL
<1>4. pc # "off"
  BY DEF IInv, OffInv, NoBlock, NULL
<1>5. PICK B : Tiled(mem, brk, B) /\ InUseIn(mem, B) = InUse
  BY <1>4, HeapInvIs DEF IInv
<1>6. live[i].ptr \in B /\ live[j].ptr \in B
  BY <1>1, <1>2, <1>5 DEF InUseIn
<1>7. /\ live[j].ptr > live[i].ptr
           => live[j].ptr >= live[i].ptr + mem[live[i].ptr - 1].size
      /\ live[i].ptr > live[j].ptr
           => live[i].ptr >= live[j].ptr + mem[live[j].ptr - 1].size
  BY <1>5, <1>6, BlockFacts
<1>8. /\ View(i).at = live[i].ptr /\ View(j).at = live[j].ptr
      /\ DOMAIN View(i).words = 1 .. Words(i)
      /\ DOMAIN View(j).words = 1 .. Words(j)
  BY <1>1, <1>2
<1>9. ASSUME NEW q \in 1 .. Words(i), NEW r \in 1 .. Words(j)
      PROVE  live[i].ptr + q - 1 # live[j].ptr + r - 1
  <2>1. /\ Words(i) \in Nat /\ live[i].ptr \in Nat
        /\ mem[live[i].ptr - 1].size \in Nat
        /\ Words(i) <= mem[live[i].ptr - 1].size - 2
    BY <1>1
  <2>2. /\ Words(j) \in Nat /\ live[j].ptr \in Nat
        /\ mem[live[j].ptr - 1].size \in Nat
        /\ Words(j) <= mem[live[j].ptr - 1].size - 2
    BY <1>2
  <2> QED
    BY <2>1, <2>2, <1>3, <1>7
<1>10. A!Region(View(i)) \cap A!Region(View(j)) = {}
  BY <1>8, <1>9 DEF A!Region
<1> QED
  BY <1>3, <1>8, <1>10 DEF Apart, A!Disjoint


AllApart ==
    \A i, j \in Id : i # j /\ live[i].ptr # 0 /\ live[j].ptr # 0 => Apart(i, j)

LEMMA HeldApart == IInv => AllApart
BY ViewsApart DEF AllApart

LEMMA HeldApartNext == IInv' => AllApart'
BY HeldApart, PTL

(* The blocks of S, as the client sees them, when their words are kept.    *)
LEMMA ViewsKept ==
    ASSUME IInv, NEW S \in SUBSET Id,
           \A i \in S : live'[i] = live[i],
           NEW X, Keeps(mem, mem', X),
           \A i \in S : live[i].ptr # 0 => live[i].ptr \in X
    PROVE  \A i \in S : View(i)' = View(i)
<1> TAKE i \in S
<1>1. i \in Id /\ live'[i] = live[i]
  OBVIOUS
<1>2. ASSUME live[i].ptr # 0
      PROVE  \A q \in live[i].ptr .. live[i].ptr + mem[live[i].ptr - 1].size - 3 :
                mem'[q] = mem[q]
  BY <1>2 DEF Keeps, HDRP, GET_SIZE
<1> QED
  BY <1>1, <1>2, ViewKept

(* The step gives the block bp of m to the running call: what it leaves.   *)
LEMMA ReturnsKeeps ==
    ASSUME IInv, pc \in {"search", "wrap", "extend"},
           NEW m, NEW e, NEW B, Tiled(m, e, B), Merged(m, B),
           InUseIn(m, B) = InUse, Keeps(mem, m, InUse),
           NEW bp \in B, m[bp - 1].alloc = 0,
           asize(call.size) <= m[bp - 1].size, Returns(m, bp)
    PROVE  Keeps(mem, mem', InUse)
<1> DEFINE n == asize(call.size)
<1>1. call.size \in Nat /\ call.size # 0
  BY DEF IInv, TypeOK, CallInv
<1>2. n \in Nat /\ n >= 2 /\ n % 2 = 0
  BY <1>1, AsizeFacts
<1>3. Placed(m, e, B, bp, n, place(m, bp, n))
  BY <1>2, PlaceEffect
<1>4. mem' = place(m, bp, n)
  BY DEF Returns
<1> HIDE DEF n
<1>5. Keeps(m, mem', InUse)
  BY <1>3, <1>4 DEF Placed
<1> QED
  BY <1>5, KeepsTrans


AllNothing == \A i \in Id : View(i) = NoBlock <=> live[i].ptr = 0

LEMMA NothingNext == AllNothing'
<1>1. AllNothing
  BY ViewNothing DEF AllNothing
<1> QED
  BY <1>1, PTL

(* A step after which id has a block, and that keeps those of the others.  *)
LEMMA GivesBlock ==
    ASSUME IInv, IInv', NEW id \in Id, live'[id].ptr # 0,
           \A i \in Id \ {id} : live'[i] = live[i],
           NEW X, Keeps(mem, mem', X),
           \A i \in Id \ {id} : live[i].ptr # 0 => live[i].ptr \in X
    PROVE  A!Places(id)
<1>1. \A i \in Id \ {id} : View(i)' = View(i)
  <2>1. Id \ {id} \in SUBSET Id
    OBVIOUS
  <2> QED
    BY <2>1, ViewsKept
<1>2. View(id)' # NoBlock
  BY NothingNext DEF AllNothing
<1>3. ASSUME NEW i \in Id \ {id}, View(i) # NoBlock
      PROVE  A!Disjoint(View(id)', View(i))
  <2>1. live[i].ptr # 0 /\ live'[i].ptr # 0
    BY <1>3, ViewNothing
  <2>2. Apart(id, i)'
    BY <2>1, HeldApartNext DEF AllApart
  <2>3. View(i)' = View(i)
    BY <1>1
  <2> QED
    BY <2>2, <2>3 DEF Apart, A!Disjoint, A!Region
<1> QED
  BY <1>1, <1>2, <1>3 DEF A!Places, Views

(* The steps that leave the blocks of the client alone.                    *)
LEMMA AllKept ==
    ASSUME IInv, live' = live, Keeps(mem, mem', InUse)
    PROVE  Views' = Views
<1>1. \A i \in Id : live[i].ptr # 0 => live[i].ptr \in InUse
  BY InUseIs
<1>2. Id \in SUBSET Id /\ \A i \in Id : live'[i] = live[i]
  OBVIOUS
<1>3. \A i \in Id : View(i)' = View(i)
  BY <1>1, <1>2, ViewsKept
<1> QED
  BY <1>3 DEF Views

LEMMA StillKept ==
    ASSUME UNCHANGED <<mem, live>>
    PROVE  Views' = Views
BY DEF Views, View, Held

(* What mm_malloc gives the client is a new block; what it gives           *)
(* mm_realloc, the client does not see yet.                                *)
LEMMA ReturnsRefines ==
    ASSUME IInv, IInv', pc \in {"search", "wrap", "extend"},
           NEW bp, NEW m, Returns(m, bp), Keeps(mem, mem', InUse)
    PROVE  A!Next \/ Views' = Views
<1>1. CASE call.ptr = NULL
  <2>1. live' = [live EXCEPT ![call.id] = [ptr |-> bp, size |-> call.size]]
        /\ pc' = "fill" /\ call' = call
    BY <1>1 DEF Returns
  <2>2. call.id \in Id /\ live[call.id].ptr = 0
    BY <1>1 DEF IInv, CallInv, NULL
  <2>3. live'[call.id].ptr # 0
    BY <2>1 DEF IInv, CallInv, Held, NULL
  <2>4. \A i \in Id \ {call.id} : live'[i] = live[i]
    BY <2>1 DEF IInv, TypeOK
  <2>5. \A i \in Id \ {call.id} : live[i].ptr # 0 => live[i].ptr \in InUse
    BY InUseIs
  <2>6. A!Places(call.id)
    BY <2>2, <2>3, <2>4, <2>5, GivesBlock
  <2>7. View(call.id) = NoBlock
    BY <2>2, ViewNothing
  <2> QED
    BY <2>2, <2>6, <2>7 DEF A!Next, A!Malloc, Views
<1>2. CASE call.ptr # NULL
  <2>1. live' = live
    BY <1>2 DEF Returns
  <2> QED
    BY <2>1, AllKept
<1> QED
  BY <1>1, <1>2


LEMMA FitsRefines ==
    ASSUME IInv, IInv', SearchFits \/ WrapFits
    PROVE  A!Next \/ Views' = Views
<1>1. pc \in {"search", "wrap"} /\ Returns(mem, last)
      /\ Fits(last) /\ (pc = "search" => GET_SIZE(mem, HDRP(last)) > 0)
  BY DEF SearchFits, WrapFits
<1>2. PICK B : /\ Tiled(mem, brk, B) /\ Merged(mem, B)
               /\ InUseIn(mem, B) = InUse
               /\ last \in B \/ (pc = "search" /\ last = brk)
               /\ last = brk => GET_SIZE(mem, HDRP(last)) = 0
  BY <1>1, AtRover
<1>3. last \in B
  BY <1>1, <1>2
<1>4. mem[last - 1].alloc = 0 /\ asize(call.size) <= mem[last - 1].size
  <2>1. mem[last - 1].alloc \in {0, 1}
    BY <1>2, <1>3, BlockFacts
  <2> QED
    BY <2>1, <1>1 DEF Fits, GET_ALLOC, GET_SIZE, HDRP
<1>5. Keeps(mem, mem, InUse) /\ pc \in {"search", "wrap", "extend"}
  BY <1>1 DEF Keeps
<1>6. Keeps(mem, mem', InUse)
  BY <1>1, <1>2, <1>3, <1>4, <1>5, ReturnsKeeps
<1> QED
  BY <1>1, <1>5, <1>6, ReturnsRefines

LEMMA ExtendFitsRefines ==
    ASSUME IInv, IInv', ExtendFits
    PROVE  A!Next \/ Views' = Views
<1> DEFINE n == extendsize
           f == brk + n
           r == extend_heap(mem, brk, n, last)
<1>1. /\ pc = "extend" /\ ~(f > MAX_HEAP) /\ Returns(r.mem, r.bp)
  BY DEF ExtendFits, mem_sbrk_fails
<1>2. PICK B : /\ Tiled(mem, brk, B) /\ Merged(mem, B)
               /\ InUseIn(mem, B) = InUse /\ last \in B
               /\ brk \in Nat /\ brk <= MAX_HEAP
  BY <1>1, AtRover
<1>3. call.size \in Nat /\ call.size # 0
  BY <1>1 DEF IInv, TypeOK, CallInv
<1>4. /\ n \in Nat /\ n >= 2 /\ n % 2 = 0 /\ asize(call.size) <= n
      /\ asize(call.size) \in Nat
  BY <1>3, AsizeFacts, ChunkAssumption DEF extendsize
<1>5. f \in Nat /\ f <= MAX_HEAP
  BY <1>1, <1>2, <1>4, HeapAssumption
<1> HIDE DEF n
<1>6. Coalesced(mem, f, B, n, r)
  <2>1. f = brk + n
    OBVIOUS
  <2> HIDE DEF f
  <2> QED
    BY <2>1, <1>2, <1>4, <1>5, ExtendEffect
<1> HIDE DEF r, f
<1>7. PICK B2 : /\ Tiled(r.mem, f, B2) /\ Merged(r.mem, B2)
                /\ InUseIn(r.mem, B2) = InUse
                /\ Keeps(mem, r.mem, InUse)
                /\ r.bp \in B2 /\ r.mem[r.bp - 1].alloc = 0
                /\ n <= r.mem[r.bp - 1].size
  BY <1>2, <1>6 DEF Coalesced
<1>8. asize(call.size) <= r.mem[r.bp - 1].size
  <2>1. r.mem[r.bp - 1].size \in Nat
    BY <1>7, BlockFacts
  <2> QED
    BY <2>1, <1>4, <1>7
<1>9. pc \in {"search", "wrap", "extend"}
  BY <1>1
<1>10. Keeps(mem, mem', InUse)
  BY <1>1, <1>7, <1>8, <1>9, ReturnsKeeps
<1> QED
  BY <1>1, <1>9, <1>10, ReturnsRefines

LEMMA InitializeRefines ==
    ASSUME IInv, mm_init
    PROVE  Views' = Views
<1>1. \A i \in Id : live[i].ptr = 0 /\ live' = live
  BY DEF mm_init, IInv, OffInv, NoBlock, NULL
<1>2. \A i \in Id : View(i) = NoBlock /\ View(i)' = NoBlock
  BY <1>1 DEF View, Held, NULL
<1> QED
  BY <1>2 DEF Views

LEMMA FreeRefines ==
    ASSUME IInv, NEW id \in Id, CallFree(id)
    PROVE  A!Free(id)
<1> DEFINE p == live[id].ptr
           r == mm_free(mem, p, last)
<1>1. /\ pc = "idle" /\ p # 0 /\ mem' = r.mem
      /\ live' = [live EXCEPT ![id] = [ptr |-> 0, size |-> 0]]
  BY DEF CallFree, Held, NULL, NoBlock
<1>2. PICK B : /\ Tiled(mem, brk, B) /\ Merged(mem, B) /\ OnBlock(B)
               /\ InUseIn(mem, B) = InUse
  BY <1>1, HeapInvIs DEF IInv
<1>3. last \in B
  BY <1>1, <1>2 DEF OnBlock
<1>4. p \in B /\ p # 2
  <2>1. p \in InUse
    BY <1>1, InUseIs
  <2>2. p \in B
    BY <2>1, <1>2 DEF InUseIn
  <2>3. p # 2
    BY <1>1 DEF IInv, HeldInv, Held, NULL, heap_listp
  <2> QED
    BY <2>2, <2>3
<1>5. Freed(mem, brk, B, p, r)
  <2> HIDE DEF p
  <2> QED
    BY <1>2, <1>3, <1>4, FreeEffect
<1> HIDE DEF r
<1>6. Keeps(mem, mem', InUse \ {p})
  BY <1>1, <1>2, <1>5 DEF Freed
<1>7. \A i \in Id : live'[i] = IF i = id THEN [ptr |-> 0, size |-> 0] ELSE live[i]
  BY <1>1 DEF IInv, TypeOK
<1>8. \A i \in Id \ {id} : live[i].ptr # 0 => live[i].ptr \in InUse \ {p}
  <2>1. \A i \in Id : i # id /\ live[i].ptr # 0 => live[i].ptr # p
    BY <1>1 DEF IInv, HeldInv, Held, NULL
  <2> QED
    BY <2>1, InUseIs
<1>9. \A i \in Id \ {id} : View(i)' = View(i)
  <2>1. Id \ {id} \in SUBSET Id /\ \A i \in Id \ {id} : live'[i] = live[i]
    BY <1>7
  <2> HIDE DEF p
  <2> QED
    BY <2>1, <1>6, <1>8, ViewsKept
<1>10. View(id)' = NoBlock
  BY <1>7, NothingNext DEF AllNothing
<1>11. View(id) # NoBlock
  BY <1>1, ViewNothing
<1>12. [i \in Id |-> View(i)]' = [[i \in Id |-> View(i)] EXCEPT ![id] = NoBlock]
  BY <1>9, <1>10
<1> QED
  BY <1>11, <1>12 DEF A!Free, Views


(* The new block of a realloc starts with the words of the old one.        *)
LEMMA ReallocRefines ==
    ASSUME IInv, IInv', ReallocMoves
    PROVE  A!Realloc(call.id)
<1> DEFINE p == call.ptr
           bp == call.bp
<1>0. PICK id \in Id : id = call.id
  BY DEF IInv, CallInv, ReallocMoves
<1>1. /\ pc = "copy"
      /\ live' = [live EXCEPT ![id] = [ptr |-> bp, size |-> call.size]]
  BY <1>0 DEF ReallocMoves
<1>2. /\ call.size \in Nat /\ call.size # 0 /\ p = live[id].ptr
      /\ p # 0 /\ bp # 0 /\ \A i \in Id : live[i].ptr # bp
      /\ bp \in Nat
  BY <1>0, <1>1 DEF IInv, TypeOK, CallInv, Held, NULL
<1>3. /\ Keeps(mem, mem', InUse \ {p, bp})
      /\ \A w \in bp .. bp + Copied - 1 : mem'[w] = mem[w - bp + p]
  BY ReallocEffect
<1>4. \A i \in Id : live'[i] = IF i = id THEN [ptr |-> bp, size |-> call.size]
                               ELSE live[i]
  BY <1>1, <1>2 DEF IInv, TypeOK
<1>5. live'[id].ptr = bp /\ live'[id].size = call.size
  BY <1>2, <1>4
<1>6. \A i \in Id \ {id} : live[i].ptr # 0 => live[i].ptr \in InUse \ {p, bp}
  <2>1. \A i \in Id : i # id /\ live[i].ptr # 0 => live[i].ptr # p
    BY <1>2 DEF IInv, HeldInv, Held, NULL
  <2> QED
    BY <2>1, <1>2, InUseIs
<1> HIDE DEF p, bp
<1>7. A!Places(id)
  BY <1>2, <1>3, <1>4, <1>5, <1>6, GivesBlock
<1>8. View(id) # NoBlock
  BY <1>2, ViewNothing
<1>9. /\ Words(id) \in Nat /\ p \in Nat /\ mem[p - 1].size \in Nat
      /\ Words(id) <= mem[p - 1].size - 2
  BY <1>2, ViewIs
<1>10. View(id).words = [q \in 1 .. Words(id) |-> mem[p + q - 1].id]
  BY <1>2, ViewIs
<1>11. View(id)'.words
         = [q \in 1 .. call.size \div WSIZE |-> mem'[bp + q - 1].id]
  BY <1>2, <1>5 DEF View, Held, NULL
<1>12. /\ Copied = IF call.size \div WSIZE < mem[p - 1].size
                   THEN call.size \div WSIZE ELSE mem[p - 1].size
       /\ call.size \div WSIZE \in Nat
  BY <1>2, AsizeFacts DEF Copied, GET_SIZE, HDRP, p
<1>13. ASSUME NEW q \in 1 .. Words(id), q \in 1 .. call.size \div WSIZE
       PROVE  mem'[bp + q - 1] = mem[p + q - 1]
  <2>1. q \in Nat /\ q >= 1 /\ q <= Copied /\ Copied \in Nat
    BY <1>9, <1>12, <1>13
  <2>2. bp + q - 1 \in bp .. bp + Copied - 1
    BY <2>1, <1>2
  <2>3. (bp + q - 1) - bp + p = p + q - 1
    BY <2>1, <1>2, <1>9
  <2> QED
    BY <2>2, <2>3, <1>3
<1>14. \A q \in DOMAIN View(id).words \cap DOMAIN View(id)'.words :
          View(id)'.words[q] = View(id).words[q]
  BY <1>10, <1>11, <1>13
<1>15. A!Realloc(id)
  <2>1. /\ [i \in Id |-> View(i)][id] = View(id)
        /\ [i \in Id |-> View(i)]'[id] = View(id)'
    BY <1>2
  <2> QED
    BY <2>1, <1>7, <1>8, <1>14 DEF A!Realloc, Views
<1> QED
  BY <1>0, <1>15

(* The client's own writes.                                                *)
LEMMA WriteRefines ==
    ASSUME IInv, ClientFills
    PROVE  A!Write(call.id)
<1>0. PICK id \in Id : id = call.id
  BY DEF IInv, CallInv, ClientFills
<1> DEFINE p == live[id].ptr
<1>1. /\ pc = "fill" /\ live' = live
      /\ mem' = [w \in Word |-> IF w \in p .. p + (call.size \div WSIZE) - 1
                                THEN Data(id) ELSE mem[w]]
  BY <1>0 DEF ClientFills, Payload
<1>2. /\ p # 0 /\ call.size = live[id].size
  BY <1>0, <1>1 DEF IInv, TypeOK, CallInv, Held, NULL
<1>3. PICK B : /\ Tiled(mem', brk, B) /\ InUseIn(mem', B) = InUse
               /\ Keeps(mem, mem', B \ {p})
  BY <1>0, FillEffects
<1>4. \A i \in Id \ {id} : live[i].ptr # 0 => live[i].ptr \in B \ {p}
  <2>1. \A i \in Id \ {id} : live[i].ptr # 0 => live[i].ptr # p
    BY <1>2 DEF IInv, HeldInv, Held, NULL
  <2>2. \A i \in Id : live[i].ptr # 0 => live[i].ptr \in B
    BY <1>3, InUseIs DEF InUseIn
  <2> QED
    BY <2>1, <2>2
<1>5. \A i \in Id \ {id} : View(i)' = View(i)
  <2>1. Id \ {id} \in SUBSET Id /\ \A i \in Id \ {id} : live'[i] = live[i]
    BY <1>1
  <2> HIDE DEF p
  <2> QED
    BY <2>1, <1>3, <1>4, ViewsKept
<1>6. /\ View(id) = [at |-> p,
                     words |-> [q \in 1 .. Words(id) |-> mem[p + q - 1].id]]
      /\ Words(id) \in Nat /\ p \in Nat
  BY <1>2, ViewIs
<1>7. View(id)' = [at |-> p,
                   words |-> [q \in 1 .. Words(id) |-> mem'[p + q - 1].id]]
  <2>1. live' = live /\ p # 0
    BY <1>1, <1>2
  <2> QED
    BY <2>1 DEF View, Held, NULL, Words
<1>8. \A q \in 1 .. Words(id) : mem'[p + q - 1].id = id
  <2> SUFFICES ASSUME NEW q \in 1 .. Words(id)
               PROVE  mem'[p + q - 1].id = id
    OBVIOUS
  <2>1. Words(id) \in Nat /\ p \in Nat
    BY <1>6
  <2>2. Words(id) = call.size \div WSIZE
    BY <1>2 DEF Words
  <2>3. p + q - 1 \in p .. p + Words(id) - 1
    BY <2>1
  <2>4. p + q - 1 \in Word
    <3>1. p \in InUse /\ mem[p - 1].size \in Nat
          /\ Words(id) <= mem[p - 1].size - 2
      BY <1>2, ViewIs
    <3>2. PICK B0 : Tiled(mem, brk, B0) /\ InUseIn(mem, B0) = InUse
      BY <1>1, HeapInvIs DEF IInv
    <3>3. p \in B0
      BY <3>1, <3>2 DEF InUseIn
    <3>4. p + mem[p - 1].size <= brk /\ brk \in Nat /\ brk <= MAX_HEAP
      BY <3>2, <3>3, BlockFacts, HeapEnds
    <3> QED
      BY <2>1, <3>1, <3>4, HeapAssumption DEF Word
  <2>5. mem'[p + q - 1] = Data(id)
    BY <2>2, <2>3, <2>4, <1>1
  <2> QED
    BY <2>5 DEF Data
<1>9. View(id)' = [View(id) EXCEPT !.words = [q \in DOMAIN View(id).words |-> id]]
  <2> DEFINE w == [q \in 1 .. Words(id) |-> mem[p + q - 1].id]
             w2 == [q \in 1 .. Words(id) |-> mem'[p + q - 1].id]
             w3 == [q \in DOMAIN View(id).words |-> id]
  <2>1. View(id).words = w
    BY <1>6
  <2>2. w3 = w2
    BY <2>1, <1>8
  <2>3. View(id) = [at |-> p, words |-> w] /\ View(id)' = [at |-> p, words |-> w2]
    BY <1>6, <1>7
  <2> HIDE DEF w, w2, w3, p
  <2>4. [View(id) EXCEPT !.words = w3] = [at |-> p, words |-> w2]
    BY <2>2, <2>3
  <2> QED
    BY <2>3, <2>4 DEF w3
<1>10. View(id) # NoBlock
  BY <1>2, ViewNothing
<1>11. [i \in Id |-> View(i)]'
         = [[i \in Id |-> View(i)] EXCEPT
              ![id].words = [q \in DOMAIN View(id).words |-> id]]
  <2> DEFINE v == [View(id) EXCEPT !.words = [q \in DOMAIN View(id).words |-> id]]
  <2>1. [i \in Id |-> View(i)]' = [[i \in Id |-> View(i)] EXCEPT ![id] = v]
    <3> HIDE DEF v
    <3>1. View(id)' = v
      BY <1>9 DEF v
    <3> QED
      BY <3>1, <1>2, <1>5
  <2>2. [i \in Id |-> View(i)][id] = View(id)
    BY <1>2
  <2> QED
    BY <2>1, <2>2
<1>12. A!Write(id)
  BY <1>2, <1>10, <1>11 DEF A!Write, Views
<1> QED
  BY <1>0, <1>12


LEMMA StartRefines == Init => A!Init
<1> SUFFICES ASSUME Init PROVE A!Init
  OBVIOUS
<1>1. \A i \in Id : live[i].ptr = 0
  BY DEF Init, NoBlock, NULL
<1>2. \A i \in Id : View(i) = NoBlock
  BY <1>1, ViewNothing
<1> QED
  BY <1>2 DEF A!Init, Views

(* Every step is a step of Allocator, or changes nothing in its view.      *)
LEMMA StepRefines ==
    IInv /\ IInv' /\ [Next]_vars => A!Next \/ Views' = Views
<1> SUFFICES ASSUME IInv, IInv', [Next]_vars
             PROVE  A!Next \/ Views' = Views
  OBVIOUS
<1>1. CASE mm_init
  BY <1>1, InitializeRefines
<1>2. ASSUME NEW id \in Id, NEW size \in Sizes,
             CallMalloc(id, size) \/ CallRealloc(id, size)
      PROVE  Views' = Views
  BY <1>2, StillKept DEF CallMalloc, CallRealloc, Calls
<1>3. ASSUME NEW id \in Id, CallFree(id)
      PROVE  A!Next
  BY <1>3, FreeRefines DEF A!Next
<1>4. CASE SearchFits \/ WrapFits
  BY <1>4, FitsRefines
<1>5. CASE SearchNext \/ SearchEnds \/ WrapNext \/ WrapEnds \/ ExtendFails
  BY <1>5, StillKept DEF SearchNext, SearchEnds, WrapNext, WrapEnds, ExtendFails
<1>6. CASE ExtendFits
  BY <1>6, ExtendFitsRefines
<1>7. CASE ReallocMoves
  <2>1. call.id \in Id
    BY <1>7 DEF ReallocMoves, IInv, CallInv
  <2> QED
    BY <1>7, <2>1, ReallocRefines DEF A!Next
<1>8. CASE ClientFills
  <2>1. call.id \in Id
    BY <1>8 DEF ClientFills, IInv, CallInv
  <2> QED
    BY <1>8, <2>1, WriteRefines DEF A!Next
<1>9. CASE UNCHANGED vars
  BY <1>9, StillKept DEF vars
<1> QED
  BY <1>1, <1>2, <1>3, <1>4, <1>5, <1>6, <1>7, <1>8, <1>9 DEF Next, Running, Search

(* mm.c keeps the promise of malloc: the blocks it hands out never overlap *)
(* and hold what the client wrote, through every place, split, merge,      *)
(* extension and copy, for every heap, chunk, client and sequence of sizes.*)
THEOREM Implements == Spec => ImplementsAllocator
<1>1. Init => A!Init
  BY StartRefines
<1>2. IInv /\ IInv' /\ [Next]_vars => [A!Next]_Views
  BY StepRefines DEF Views
<1> QED
  BY <1>1, <1>2, Invariant, PTL DEF Spec, ImplementsAllocator, A!Spec

=============================================================================
