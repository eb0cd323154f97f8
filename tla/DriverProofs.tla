---------------------------- MODULE DriverProofs ----------------------------
(***************************************************************************)
(* Theorems about Driver: whatever an allocator answers, mdriver.c's range *)
(* list is the list of the blocks that are there, and only a block that    *)
(* encloses an older one gets past add_range.                              *)
(***************************************************************************)
EXTENDS Driver, WellFoundedInduction, FiniteSetTheorems, SequenceTheorems, TLAPS

(***************************************************************************)
(* The range list, for any blocks.                                         *)
(***************************************************************************)
Pair == [lo : Int, hi : Int]
Block(B, Z, id) == [lo |-> B[id], hi |-> hi(B[id], Z[id])]

(* A list of the blocks B, of sizes Z, that the ids in L have.             *)
Apart(list) ==
    /\ \A m, n \in DOMAIN list : m # n => list[m].lo # list[n].lo
    /\ \A m, n \in DOMAIN list :
          m < n /\ Overlap(list[m], list[n]) => Encloses(list[m], list[n])
Lists(list, L, B, Z) ==
    /\ list \in Seq(Pair) /\ Apart(list)
    /\ Len(list) = Cardinality(L)
    /\ Range(list) = {Block(B, Z, id) : id \in L}
    /\ \A a, b \in L : B[a] = B[b] => a = b

LEMMA HiIs ==
    ASSUME NEW p \in Int, NEW size \in Sizes
    PROVE  hi(p, size) \in Int /\ p <= hi(p, size)
<1>1. size \in Nat /\ size > 0 /\ size % 4 = 0
  BY DriverAssumption DEF WSIZE
<1>2. size \div 4 \in Nat /\ size \div 4 >= 1
  BY <1>1
<1> QED  BY <1>2 DEF hi, WSIZE

LEMMA Removed ==
    ASSUME NEW S, NEW list \in Seq(S), NEW k \in 1 .. Len(list)
    PROVE  LET rest == RemoveAt(list, k)
           IN  /\ rest \in Seq(S) /\ Len(rest) = Len(list) - 1
               /\ \A j \in 1 .. Len(list) - 1 :
                     rest[j] = IF j < k THEN list[j] ELSE list[j + 1]
<1> DEFINE a == SubSeq(list, 1, k - 1)  b == SubSeq(list, k + 1, Len(list))
<1>1. Len(list) \in Nat
  BY LenProperties
<1>2. \A j \in 1 .. Len(list) : list[j] \in S
  BY ElementOfSeq
<1>3. a \in Seq(S) /\ Len(a) = k - 1 /\ \A j \in 1 .. k - 1 : a[j] = list[j]
  <2>1. \A j \in 1 .. k - 1 : list[j] \in S
    BY <1>1, <1>2
  <2>2. /\ 1 \in Int /\ k - 1 \in Int /\ 1 <= k - 1 + 1
        /\ (IF 1 <= k - 1 THEN k - 1 - 1 + 1 ELSE 0) = k - 1
    BY <1>1
  <2>3. /\ a \in Seq(S) /\ Len(a) = (IF 1 <= k - 1 THEN k - 1 - 1 + 1 ELSE 0)
        /\ \A j \in 1 .. Len(a) : a[j] = list[1 + j - 1]
    BY <2>1, <2>2, SubSeqProperties
  <2> QED  BY <1>1, <2>2, <2>3
<1>4. /\ b \in Seq(S) /\ Len(b) = Len(list) - k
      /\ \A j \in 1 .. Len(list) - k : b[j] = list[k + j]
  <2>1. \A j \in k + 1 .. Len(list) : list[j] \in S
    BY <1>1, <1>2
  <2>2. /\ k + 1 \in Int /\ Len(list) \in Int
        /\ (IF k + 1 <= Len(list) THEN Len(list) - (k + 1) + 1 ELSE 0) = Len(list) - k
    BY <1>1
  <2>3. /\ b \in Seq(S)
        /\ Len(b) = (IF k + 1 <= Len(list) THEN Len(list) - (k + 1) + 1 ELSE 0)
        /\ \A j \in 1 .. Len(b) : b[j] = list[k + 1 + j - 1]
    BY <2>1, <2>2, SubSeqProperties
  <2> QED  BY <1>1, <2>2, <2>3
<1> HIDE DEF a, b
<1>5. a \o b \in Seq(S) /\ Len(a \o b) = Len(list) - 1
  <2>1. a \in Seq(S) /\ b \in Seq(S)
    BY <1>3, <1>4
  <2>2. a \o b \in Seq(S) /\ Len(a \o b) = Len(a) + Len(b)
    BY <2>1, ConcatProperties
  <2>3. Len(a) = k - 1 /\ Len(b) = Len(list) - k
    BY <1>3, <1>4
  <2>4. k - 1 + (Len(list) - k) = Len(list) - 1
    BY <1>1
  <2> QED  BY <2>2, <2>3, <2>4
<1>6. ASSUME NEW j \in 1 .. Len(list) - 1
      PROVE  (a \o b)[j] = IF j < k THEN list[j] ELSE list[j + 1]
  <2>1. (a \o b)[j] = IF j <= Len(a) THEN a[j] ELSE b[j - Len(a)]
    <3>1. j \in 1 .. Len(a) + Len(b)
      BY <1>1, <1>3, <1>4
    <3> QED  BY <1>3, <1>4, <3>1, ConcatProperties
  <2>2. CASE j < k
    BY <1>1, <1>3, <2>1, <2>2
  <2>3. CASE j >= k
    <3>1. j - (k - 1) \in 1 .. Len(list) - k /\ k + (j - (k - 1)) = j + 1
      BY <1>1, <2>3
    <3>2. (a \o b)[j] = b[j - (k - 1)]
      BY <1>1, <1>3, <2>1, <2>3
    <3>3. b[j - (k - 1)] = list[k + (j - (k - 1))]
      BY <1>4, <3>1
    <3>4. (a \o b)[j] = list[j + 1]
      BY <3>1, <3>2, <3>3, Zenon
    <3>5. ~(j < k)
      BY <1>1, <2>3
    <3> QED  BY <3>4, <3>5
  <2>4. j < k \/ j >= k
    BY <1>1
  <2> QED  BY <2>2, <2>3, <2>4
<1>7. RemoveAt(list, k) = a \o b
  BY DEF RemoveAt, a, b
<1> QED  BY <1>5, <1>6, <1>7

(* A block that passes add_range is apart from the others or encloses them. *)
LEMMA AddLists ==
    ASSUME NEW list, NEW L \in SUBSET Id, NEW B \in [Id -> Int], NEW Z \in [Id -> Nat],
           Lists(list, L, B, Z), \A id \in L : Z[id] \in Sizes,
           NEW h, NEW x \in Id \ L, NEW p \in Int, NEW size \in Sizes,
           add_range(h, list, p, size)
    PROVE  Lists(Added(list, p, size), L \cup {x},
                 [B EXCEPT ![x] = p], [Z EXCEPT ![x] = size])
<1> DEFINE r == [lo |-> p, hi |-> hi(p, size)]
           longer == <<r>> \o list
           C == [B EXCEPT ![x] = p]
           Y == [Z EXCEPT ![x] = size]
<1>1. /\ list \in Seq(Pair) /\ Apart(list) /\ Len(list) = Cardinality(L)
      /\ Range(list) = {Block(B, Z, id) : id \in L}
      /\ \A a, b \in L : B[a] = B[b] => a = b
  BY DEF Lists
<1>2. Len(list) \in Nat /\ DOMAIN list = 1 .. Len(list)
  BY <1>1, LenProperties
<1>3. hi(p, size) \in Int /\ p <= hi(p, size) /\ r \in Pair
  BY HiIs DEF Pair
<1>4. longer \in Seq(Pair) /\ Len(longer) = Len(list) + 1 /\ longer[1] = r
      /\ \A n \in 2 .. Len(list) + 1 : longer[n] = list[n - 1]
  <2>1. <<r>> \in Seq(Pair) /\ Len(<<r>>) = 1 /\ <<r>>[1] = r
    BY <1>3
  <2> DEFINE one == <<r>>
  <2> HIDE DEF one
  <2>2. one \in Seq(Pair) /\ Len(one) = 1 /\ one[1] = r
    BY <2>1 DEF one
  <2>3. /\ one \o list \in Seq(Pair) /\ Len(one \o list) = 1 + Len(list)
        /\ \A n \in 1 .. 1 + Len(list) :
              (one \o list)[n] = IF n <= 1 THEN one[n] ELSE list[n - 1]
    <3>1. one \in Seq(Pair) /\ list \in Seq(Pair) /\ Len(one) = 1
      BY <1>1, <2>2
    <3>2. /\ one \o list \in Seq(Pair) /\ Len(one \o list) = Len(one) + Len(list)
          /\ \A n \in 1 .. Len(one) + Len(list) :
                (one \o list)[n] = IF n <= Len(one) THEN one[n] ELSE list[n - Len(one)]
      BY <3>1, ConcatProperties, Zenon
    <3> QED  BY <3>1, <3>2
  <2> HIDE DEF r
  <2>4. longer = one \o list
    BY DEF one
  <2> QED  BY <1>2, <2>2, <2>3, <2>4
<1>5. /\ \A id \in L : Block(C, Y, id) = Block(B, Z, id) /\ C[id] = B[id]
      /\ Block(C, Y, x) = r /\ C[x] = p
  BY DEF Block
<1>6. ASSUME NEW n \in DOMAIN list
      PROVE  /\ list[n] \in Pair /\ list[n].lo \in Int /\ list[n].hi \in Int
             /\ list[n].lo <= list[n].hi
             /\ ~Within(p, list[n]) /\ ~Within(hi(p, size), list[n])
  <2>1. list[n] \in Range(list)
    BY DEF Range
  <2>2. PICK id \in L : list[n] = Block(B, Z, id)
    BY <1>1, <2>1
  <2>3. B[id] \in Int /\ Z[id] \in Sizes
    OBVIOUS
  <2>4. hi(B[id], Z[id]) \in Int /\ B[id] <= hi(B[id], Z[id])
    BY <2>3, HiIs
  <2>5. ~Within(p, list[n]) /\ ~Within(hi(p, size), list[n])
    BY DEF add_range
  <2> QED  BY <2>2, <2>3, <2>4, <2>5 DEF Block, Pair
<1> HIDE DEF r, longer, C, Y
<1>7. r.lo = p /\ r.hi = hi(p, size)
  BY DEF r
<1>8. ASSUME NEW n \in DOMAIN list
      PROVE  r.lo # list[n].lo /\ list[n].lo # r.lo
  BY <1>3, <1>6, <1>7 DEF Within
<1>9. ASSUME NEW n \in DOMAIN list, Overlap(r, list[n])
      PROVE  Encloses(r, list[n])
  <2>1. PICK q \in r.lo .. r.hi : Within(q, list[n])
    BY <1>9 DEF Overlap
  <2> QED  BY <1>3, <1>6, <1>7, <2>1 DEF Within, Encloses
<1>10. DOMAIN longer = 1 .. Len(list) + 1
  BY <1>4, LenProperties
<1>11. \A n \in DOMAIN longer : n = 1 \/ (n \in 2 .. Len(list) + 1 /\ n - 1 \in DOMAIN list)
  BY <1>2, <1>10
<1>12. Apart(longer)
  <2>1. ASSUME NEW m \in DOMAIN longer, NEW n \in DOMAIN longer, m # n
        PROVE  longer[m].lo # longer[n].lo
    <3>1. CASE m = 1 \/ n = 1
      BY <1>4, <1>8, <1>11, <2>1, <3>1
    <3>2. CASE m # 1 /\ n # 1
      <4>1. m - 1 \in DOMAIN list /\ n - 1 \in DOMAIN list /\ m - 1 # n - 1
        BY <1>2, <1>10, <1>11, <2>1, <3>2
      <4> QED  BY <1>1, <1>4, <1>11, <3>2, <4>1 DEF Apart
    <3> QED  BY <3>1, <3>2
  <2>2. ASSUME NEW m \in DOMAIN longer, NEW n \in DOMAIN longer,
               m < n, Overlap(longer[m], longer[n])
        PROVE  Encloses(longer[m], longer[n])
    <3>1. n # 1 /\ longer[n] = list[n - 1] /\ n - 1 \in DOMAIN list
      BY <1>2, <1>4, <1>10, <1>11, <2>2
    <3>2. CASE m = 1
      BY <1>4, <1>9, <2>2, <3>1, <3>2
    <3>3. CASE m # 1
      <4>1. m - 1 \in DOMAIN list /\ m - 1 < n - 1 /\ longer[m] = list[m - 1]
        BY <1>2, <1>4, <1>10, <1>11, <2>2, <3>3
      <4> QED  BY <1>1, <2>2, <3>1, <4>1 DEF Apart
    <3> QED  BY <3>2, <3>3
  <2> QED  BY <2>1, <2>2 DEF Apart
<1>13. Len(longer) = Cardinality(L \cup {x})
  <2>1. IsFiniteSet(L)
    BY DriverAssumption, FS_Subset
  <2> QED  BY <1>1, <1>4, <2>1, FS_AddElement
<1>14. Range(longer) = {Block(C, Y, id) : id \in L \cup {x}}
  <2>1. Range(longer) = {r} \cup Range(list)
    <3>1. \A n \in DOMAIN longer : longer[n] \in {r} \cup Range(list)
      BY <1>4, <1>11 DEF Range
    <3>2. \A n \in DOMAIN list : n + 1 \in DOMAIN longer /\ longer[n + 1] = list[n]
      BY <1>2, <1>4, <1>10
    <3>3. 1 \in DOMAIN longer
      BY <1>2, <1>10
    <3> QED  BY <1>4, <3>1, <3>2, <3>3 DEF Range
  <2> QED  BY <1>1, <1>5, <2>1
<1>15. \A a, b \in L \cup {x} : C[a] = C[b] => a = b
  <2>1. \A a \in L : C[a] # p
    <3> TAKE a \in L
    <3>1. Block(B, Z, a) \in Range(list)
      BY <1>1
    <3>2. PICK n \in DOMAIN list : list[n] = Block(B, Z, a)
      BY <3>1 DEF Range
    <3>3. list[n].lo = B[a]
      BY <3>2 DEF Block
    <3> QED  BY <1>5, <1>7, <1>8, <3>3
  <2> QED  BY <1>1, <1>5, <2>1
<1>16. Lists(longer, L \cup {x}, C, Y)
  BY <1>4, <1>12, <1>13, <1>14, <1>15 DEF Lists
<1> QED  BY <1>16 DEF Added, longer, r, C, Y

(* remove_range takes out the block at an address, the only one there.     *)
LEMMA RemoveLists ==
    ASSUME NEW list, NEW L \in SUBSET Id, NEW B \in [Id -> Int], NEW Z \in [Id -> Nat],
           Lists(list, L, B, Z), NEW x \in L
    PROVE  Lists(remove_range(list, B[x]), L \ {x}, B, Z)
<1>1. /\ list \in Seq(Pair) /\ Apart(list) /\ Len(list) = Cardinality(L)
      /\ Range(list) = {Block(B, Z, id) : id \in L}
      /\ \A a, b \in L : B[a] = B[b] => a = b
  BY DEF Lists
<1>2. Len(list) \in Nat /\ DOMAIN list = 1 .. Len(list)
  BY <1>1, LenProperties
<1> DEFINE found == {n \in DOMAIN list : list[n].lo = B[x]}
<1>3. PICK k \in DOMAIN list : list[k] = Block(B, Z, x)
  BY <1>1 DEF Range
<1>4. list[k].lo = B[x]
  BY <1>3 DEF Block
<1>5. found = {k}
  BY <1>1, <1>4 DEF Apart
<1>6. remove_range(list, B[x]) = RemoveAt(list, k)
  <2>1. (CHOOSE n \in found : \A m \in found : n <= m) = k
    BY <1>2, <1>5
  <2> QED  BY <1>5, <2>1 DEF remove_range
<1> DEFINE rest == RemoveAt(list, k)  old_(j) == IF j < k THEN j ELSE j + 1
<1>7. /\ rest \in Seq(Pair) /\ Len(rest) = Len(list) - 1
      /\ \A j \in 1 .. Len(list) - 1 : rest[j] = IF j < k THEN list[j] ELSE list[j + 1]
  <2>1. list \in Seq(Pair) /\ k \in 1 .. Len(list)
    BY <1>1, <1>2
  <2> QED  BY <2>1, Removed, Zenon
<1> HIDE DEF rest, found
<1>8. DOMAIN rest = 1 .. Len(list) - 1
  BY <1>2, <1>7, LenProperties
<1>9. \A j \in DOMAIN rest :
         old_(j) \in DOMAIN list /\ old_(j) # k /\ rest[j] = list[old_(j)]
  BY <1>2, <1>7, <1>8
<1>10. \A m, n \in DOMAIN rest : /\ m # n => old_(m) # old_(n)
                                 /\ m < n => old_(m) < old_(n)
  BY <1>2, <1>8
<1>11. \A n \in DOMAIN list \ {k} : \E j \in DOMAIN rest : old_(j) = n
  <2> TAKE n \in DOMAIN list \ {k}
  <2>1. CASE n < k
    BY <1>2, <1>8, <2>1
  <2>2. CASE n > k
    <3>1. n - 1 \in DOMAIN rest /\ old_(n - 1) = n
      BY <1>2, <1>8, <2>2
    <3> QED  BY <3>1
  <2> QED  BY <1>2, <2>1, <2>2
<1> HIDE DEF old_
<1>12. Apart(rest)
  <2>1. ASSUME NEW m \in DOMAIN rest, NEW n \in DOMAIN rest, m # n
        PROVE  rest[m].lo # rest[n].lo
    BY <1>1, <1>9, <1>10, <2>1 DEF Apart
  <2>2. ASSUME NEW m \in DOMAIN rest, NEW n \in DOMAIN rest, m < n,
               Overlap(rest[m], rest[n])
        PROVE  Encloses(rest[m], rest[n])
    BY <1>1, <1>9, <1>10, <2>2 DEF Apart
  <2> QED  BY <2>1, <2>2 DEF Apart
<1>13. Len(rest) = Cardinality(L \ {x})
  <2>1. IsFiniteSet(L)
    BY DriverAssumption, FS_Subset
  <2> QED  BY <1>1, <1>7, <2>1, FS_RemoveElement
<1>14. Range(rest) = {Block(B, Z, id) : id \in L \ {x}}
  <2>1. ASSUME NEW j \in DOMAIN rest
        PROVE  \E id \in L \ {x} : rest[j] = Block(B, Z, id)
    <3>1. PICK id \in L : list[old_(j)] = Block(B, Z, id)
      <4>1. list[old_(j)] \in Range(list)
        BY <1>9 DEF Range
      <4> QED  BY <1>1, <4>1
    <3>2. list[old_(j)].lo # list[k].lo
      BY <1>1, <1>9 DEF Apart
    <3>3. id # x
      BY <1>3, <3>1, <3>2
    <3> QED  BY <1>9, <3>1, <3>3
  <2>2. ASSUME NEW id \in L \ {x}
        PROVE  \E j \in DOMAIN rest : rest[j] = Block(B, Z, id)
    <3>1. PICK n \in DOMAIN list : list[n] = Block(B, Z, id)
      BY <1>1 DEF Range
    <3>2. list[n].lo = B[id] /\ B[id] # B[x]
      BY <1>1, <3>1 DEF Block
    <3>3. n # k
      BY <1>4, <3>2
    <3> QED  BY <1>9, <1>11, <3>1, <3>3
  <2> QED  BY <2>1, <2>2 DEF Range
<1>15. Lists(rest, L \ {x}, B, Z)
  BY <1>1, <1>7, <1>12, <1>13, <1>14 DEF Lists
<1> QED  BY <1>6, <1>15 DEF rest

(***************************************************************************)
(* The trace, and the ids that have a block.                               *)
(***************************************************************************)
(* What ReadLine takes: an ALLOC is of an id not yet mentioned, any other  *)
(* request of one that has a block.                                        *)
Placed(n) ==
    IF trace[n].type = "ALLOC" THEN \A m \in 1 .. n - 1 : trace[m].index # trace[n].index
    ELSE trace[n].index \in LiveIds(n - 1)
TraceInv ==
    /\ trace \in Seq(Op)
    /\ \A n \in DOMAIN trace : Placed(n)

LEMMA OpIs ==
    ASSUME NEW o \in Op
    PROVE  /\ o.type \in {"ALLOC", "REALLOC", "FREE"} /\ o.index \in Id
           /\ o.type # "FREE" => o.size \in Sizes
  BY DEF Op

LEMMA TraceIs ==
    ASSUME trace \in Seq(Op)
    PROVE  /\ Len(trace) \in Nat /\ DOMAIN trace = 1 .. Len(trace)
           /\ \A n \in 1 .. Len(trace) : trace[n] \in Op
  BY LenProperties, ElementOfSeq

(* The ids with a block after a request.                                   *)
LEMMA LiveNext ==
    ASSUME TraceInv, NEW k \in 1 .. Len(trace)
    PROVE  LET id == trace[k].index
           IN  CASE trace[k].type = "ALLOC" ->
                      id \notin LiveIds(k - 1) /\ LiveIds(k) = LiveIds(k - 1) \cup {id}
                 [] trace[k].type = "REALLOC" ->
                      id \in LiveIds(k - 1) /\ LiveIds(k) = LiveIds(k - 1)
                 [] trace[k].type = "FREE" ->
                      id \in LiveIds(k - 1) /\ LiveIds(k) = LiveIds(k - 1) \ {id}
<1> DEFINE id == trace[k].index
<1>1. /\ Len(trace) \in Nat /\ k \in Nat /\ Placed(k)
      /\ trace[k].type \in {"ALLOC", "REALLOC", "FREE"} /\ id \in Id
  BY TraceIs, OpIs DEF TraceInv
<1>2. 1 .. k = (1 .. k - 1) \cup {k}
  BY <1>1
<1>3. ASSUME NEW x \in Id, NEW types
      PROVE  Before(k, x, types) = IF x = id /\ trace[k].type \in types
                                   THEN Before(k - 1, x, types) \cup {k}
                                   ELSE Before(k - 1, x, types)
  BY <1>2 DEF Before
<1>4. CASE trace[k].type = "ALLOC"
  <2>1. \A m \in 1 .. k - 1 : trace[m].index # id
    BY <1>1, <1>4 DEF Placed
  <2>2. \A types : Before(k - 1, id, types) = {}
    BY <2>1 DEF Before
  <2>3. id \notin LiveIds(k - 1)
    BY <2>2 DEF LiveIds
  <2>4. ASSUME NEW x \in Id
        PROVE  x \in LiveIds(k) <=> x \in LiveIds(k - 1) \cup {id}
    <3>1. CASE x = id
      BY <1>1, <1>3, <1>4, <2>2, <3>1 DEF LiveIds
    <3>2. CASE x # id
      BY <1>3, <3>2 DEF LiveIds
    <3> QED  BY <3>1, <3>2
  <2>5. LiveIds(k) = LiveIds(k - 1) \cup {id}
    <3>1. LiveIds(k) \subseteq Id /\ LiveIds(k - 1) \subseteq Id
      BY DEF LiveIds
    <3> QED  BY <1>1, <2>4, <3>1
  <2> QED  BY <1>4, <2>3, <2>5
<1>5. CASE trace[k].type = "REALLOC"
  <2>1. id \in LiveIds(k - 1)
    BY <1>1, <1>5 DEF Placed
  <2>2. \A x \in Id : /\ Before(k, x, {"ALLOC"}) = Before(k - 1, x, {"ALLOC"})
                      /\ Before(k, x, {"FREE"}) = Before(k - 1, x, {"FREE"})
    BY <1>3, <1>5
  <2>3. LiveIds(k) = LiveIds(k - 1)
    BY <2>2 DEF LiveIds
  <2> QED  BY <1>5, <2>1, <2>3
<1>6. CASE trace[k].type = "FREE"
  <2>1. id \in LiveIds(k - 1)
    BY <1>1, <1>6 DEF Placed
  <2>2. ASSUME NEW x \in Id
        PROVE  x \in LiveIds(k) <=> x \in LiveIds(k - 1) \ {id}
    <3>1. CASE x = id
      <4>1. Before(k, x, {"FREE"}) # {}
        BY <1>3, <1>6, <3>1
      <4> QED  BY <3>1, <4>1 DEF LiveIds
    <3>2. CASE x # id
      BY <1>3, <3>2 DEF LiveIds
    <3> QED  BY <3>1, <3>2
  <2>3. LiveIds(k) = LiveIds(k - 1) \ {id}
    <3>1. LiveIds(k) \subseteq Id /\ LiveIds(k - 1) \subseteq Id
      BY DEF LiveIds
    <3> QED  BY <2>2, <3>1
  <2> QED  BY <1>6, <2>1, <2>3
<1> QED  BY <1>1, <1>4, <1>5, <1>6

(* A line read keeps the trace in order, and what was before it.           *)
LEMMA ReadsInOrder ==
    ASSUME TraceInv, NEW o \in Op, Sensible(o), trace' = Append(trace, o)
    PROVE  TraceInv' /\ Len(trace') = Len(trace) + 1
<1> PICK n0 \in Nat : n0 = Len(trace)
  BY TraceIs DEF TraceInv
<1>1. n0 = Len(trace) /\ trace \in Seq(Op) /\ DOMAIN trace = 1 .. n0
  BY TraceIs DEF TraceInv
<1>2. /\ trace' \in Seq(Op) /\ Len(trace') = n0 + 1 /\ trace'[n0 + 1] = o
      /\ \A m \in 1 .. n0 : trace'[m] = trace[m]
  BY <1>1, AppendProperties
<1>3. DOMAIN trace' = 1 .. n0 + 1
  BY <1>2, LenProperties
<1>4. ASSUME NEW k \in 0 .. n0 PROVE LiveIds(k)' = LiveIds(k)
  <2>1. \A m \in 1 .. k : trace'[m] = trace[m]
    BY <1>1, <1>2
  <2>2. \A x, types : Before(k, x, types)' = Before(k, x, types)
    BY <2>1 DEF Before
  <2> QED  BY <2>2 DEF LiveIds
<1>5. ASSUME NEW n \in 1 .. n0 PROVE Placed(n)'
  <2>1. /\ trace'[n] = trace[n] /\ Placed(n) /\ n - 1 \in 0 .. n0
        /\ \A m \in 1 .. n - 1 : trace'[m] = trace[m]
    BY <1>1, <1>2 DEF TraceInv
  <2>2. LiveIds(n - 1)' = LiveIds(n - 1)
    BY <1>4, <2>1
  <2> QED  BY <2>1, <2>2 DEF Placed
<1>6. Placed(n0 + 1)'
  <2>1. CASE o.type = "ALLOC"
    <3>1. \A m \in 1 .. n0 : trace[m].index # o.index
      BY <1>1, <2>1 DEF Sensible, Mentioned
    <3>2. \A m \in 1 .. n0 + 1 - 1 : trace'[m].index # trace'[n0 + 1].index
      BY <1>1, <1>2, <3>1
    <3> QED  BY <1>2, <2>1, <3>2 DEF Placed
  <2>2. CASE o.type # "ALLOC"
    <3>1. PICK n \in 1 .. n0 : trace[n].index = o.index
      BY <1>1, <2>2 DEF Sensible, Mentioned
    <3>2. \A m \in 1 .. n0 : ~(trace[m].index = o.index /\ trace[m].type = "FREE")
      BY <1>1, <2>2 DEF Sensible, Freed
    <3>3. \E m \in 1 .. n0 : trace[m].index = o.index /\ trace[m].type = "ALLOC"
      <4>1. CASE trace[n].type = "ALLOC"
        BY <3>1, <4>1
      <4>2. CASE trace[n].type # "ALLOC"
        <5>1. o.index \in LiveIds(n - 1)
          BY <1>1, <3>1, <4>2 DEF TraceInv, Placed
        <5>2. PICK m \in 1 .. n - 1 : trace[m].index = o.index /\ trace[m].type = "ALLOC"
          BY <5>1 DEF LiveIds, Before
        <5> QED  BY <1>1, <5>2
      <4> QED  BY <4>1, <4>2
    <3>4. o.index \in LiveIds(n0)
      BY <3>2, <3>3, OpIs DEF LiveIds, Before
    <3>5. LiveIds(n0)' = LiveIds(n0) /\ n0 + 1 - 1 = n0
      BY <1>1, <1>4
    <3>6. trace'[n0 + 1].index \in LiveIds(n0 + 1 - 1)'
      BY <1>2, <3>4, <3>5
    <3> QED  BY <1>2, <2>2, <3>6 DEF Placed
  <2> QED  BY <2>1, <2>2
<1>7. \A n \in 1 .. n0 + 1 : n \in 1 .. n0 \/ n = n0 + 1
  BY <1>1
<1> QED  BY <1>2, <1>3, <1>5, <1>6, <1>7 DEF TraceInv

(***************************************************************************)
(* The allocator stays the one that was compiled in.                       *)
(***************************************************************************)
Same(g, h) == "file" \in DOMAIN h => "file" \in DOMAIN g /\ g.file = h.file

LEMMA SameV1 ==
    /\ \A h, size : Same(V1!mm_malloc(h, size).heap, h)
    /\ \A h, bp : Same(V1!mm_free(h, bp), h)
    /\ \A h, bp, size : Same(V1!mm_realloc(h, bp, size).heap, h)
    /\ \A h : Same(V1!mm_init(h), h)
<1>1. \A h, p, tag : Same(V1!PUT(h, p, tag), h)
  BY DEF Same, V1!PUT
<1>2. \A h, bp, size, alloc : Same(V1!PutBoth(h, bp, size, alloc), h)
  BY <1>1 DEF Same, V1!PutBoth
<1>3. \A h, words : Same(V1!mem_sbrk(h, words), h)
  BY DEF Same, V1!mem_sbrk
<1>4. \A h, to, from, size : Same(V1!memcpy(h, to, from, size), h)
  BY DEF Same, V1!memcpy
<1>5. \A h : Same(V1!Prologue(h), h)
  BY DEF Same, V1!Prologue
<1>6. \A h, bp : V1!Result(h, bp).heap = h
  BY DEF V1!Result
<1>7. \A h, bp : Same(V1!coalesce(h, bp).heap, h)
  BY <1>2, <1>6 DEF Same, V1!coalesce
<1>8. \A h, words : Same(V1!extend_heap(h, words).heap, h)
  BY <1>1, <1>2, <1>3, <1>7 DEF Same, V1!extend_heap
<1>9. \A h, bp, words : Same(V1!place(h, bp, words), h)
  BY <1>2 DEF Same, V1!place
<1>10. \A h, size : Same(V1!mm_malloc(h, size).heap, h)
  BY <1>6, <1>8, <1>9 DEF Same, V1!mm_malloc
<1>11. \A h, bp : Same(V1!mm_free(h, bp), h)
  BY <1>2, <1>7 DEF Same, V1!mm_free
<1>12. \A h, bp, size : Same(V1!mm_realloc(h, bp, size).heap, h)
  BY <1>4, <1>6, <1>10, <1>11 DEF Same, V1!mm_realloc
<1>13. \A h : Same(V1!mm_init(h), h)
  BY <1>5, <1>8 DEF Same, V1!mm_init
<1> QED  BY <1>10, <1>11, <1>12, <1>13

LEMMA SameV3 ==
    /\ \A h, size : Same(V3!mm_malloc(h, size).heap, h)
    /\ \A h, bp : Same(V3!mm_free(h, bp), h)
    /\ \A h, bp, size : Same(V3!mm_realloc(h, bp, size).heap, h)
    /\ \A h : Same(V3!mm_init(h), h)
<1>1. \A h, p, tag : Same(V3!PUT(h, p, tag), h)
  BY DEF Same, V3!PUT
<1>2. \A h, bp, size, alloc : Same(V3!PutBoth(h, bp, size, alloc), h)
  BY <1>1 DEF Same, V3!PutBoth
<1>3. \A h, words : Same(V3!mem_sbrk(h, words), h)
  BY DEF Same, V3!mem_sbrk
<1>4. \A h, to, from, size : Same(V3!memcpy(h, to, from, size), h)
  BY DEF Same, V3!memcpy
<1>5. \A h : Same(V3!Prologue(h), h)
  BY DEF Same, V3!Prologue
<1>6. \A h, bp : V3!Result(h, bp).heap = h
  BY DEF V3!Result
<1>7. \A h, p, a : Same(V3!PUTADDR(h, p, a), h)
  BY DEF Same, V3!PUTADDR
<1>8. \A h, a : Same([h EXCEPT !.blk_headp = a], h) /\ Same([h EXCEPT !.flag = a], h)
  BY DEF Same
<1>9. \A h, bp : Same(V3!remove_node(h, bp), h)
  BY <1>7, <1>8 DEF Same, V3!remove_node
<1>10. \A h, bp : Same(V3!add_node(h, bp), h)
  BY <1>7, <1>8 DEF Same, V3!add_node
<1>11. \A h, bp : Same(V3!Unlinked(h, bp), h)
  BY <1>7 DEF Same, V3!Unlinked
<1>12. \A h, bp : Same(V3!coalesce(h, bp).heap, h)
  BY <1>2, <1>6, <1>9, <1>10 DEF Same, V3!coalesce
<1>13. \A h, words : Same(V3!extend_heap(h, words).heap, h)
  BY <1>1, <1>2, <1>3, <1>11, <1>12 DEF Same, V3!extend_heap
<1>14. \A h, bp, words : Same(V3!place(h, bp, words), h)
  BY <1>2, <1>9, <1>10 DEF Same, V3!place
<1>15. \A h, size : Same(V3!mm_malloc(h, size).heap, h)
  BY <1>6, <1>13, <1>14 DEF Same, V3!mm_malloc
<1>16. \A h, bp : Same(V3!mm_free(h, bp), h)
  BY <1>2, <1>11, <1>12 DEF Same, V3!mm_free
<1>17. \A h, bp, size : Same(V3!ReallocMoves(h, bp, size).heap, h)
  BY <1>4, <1>6, <1>8, <1>15, <1>16 DEF Same, V3!ReallocMoves
<1>18. \A h, bp, d : Same(V3!GrownFooter(h, bp, d), h)
  BY <1>1 DEF Same, V3!GrownFooter
<1>19. \A h, bp, size : Same(V3!ReallocGrows(h, bp, size).heap, h)
  BY <1>1, <1>2, <1>6, <1>9, <1>10, <1>11, <1>13, <1>18 DEF Same, V3!ReallocGrows
<1>20. \A h, bp, size : Same(V3!mm_realloc(h, bp, size).heap, h)
  BY <1>17, <1>19 DEF V3!mm_realloc
<1>21. \A h : Same(V3!mm_init(h), h)
  <2> TAKE h
  <2> DEFINE g == [V3!Prologue(h) EXCEPT !.blk_headp = V3!NULL]
             f == [g EXCEPT !.flag = 0]
  <2>1. Same(g, h)
    BY <1>5, <1>8 DEF Same
  <2>2. Same(f, g)
    BY <1>8
  <2>3. V3!mm_init(h) = V3!extend_heap(f, CHUNK).heap
    BY DEF V3!mm_init
  <2> HIDE DEF f, g
  <2> QED  BY <1>13, <2>1, <2>2, <2>3 DEF Same
<1> QED  BY <1>15, <1>16, <1>20, <1>21

LEMMA SameBackup ==
    /\ \A h, size : Same(Backup!mm_malloc(h, size).heap, h)
    /\ \A h, bp : Same(Backup!mm_free(h, bp), h)
    /\ \A h, bp, size : Same(Backup!mm_realloc(h, bp, size).heap, h)
    /\ \A h : Same(Backup!mm_init(h), h)
<1>1. \A h, p, tag : Same(Backup!PUT(h, p, tag), h)
  BY DEF Same, Backup!PUT
<1>2. \A h, words : Same(Backup!mem_sbrk(h, words), h)
  BY DEF Same, Backup!mem_sbrk
<1>3. \A h, to, from, size : Same(Backup!memcpy(h, to, from, size), h)
  BY DEF Same, Backup!memcpy
<1>4. \A h, bp : Backup!Result(h, bp).heap = h
  BY DEF Backup!Result
<1>5. \A h, size : Same(Backup!mm_malloc(h, size).heap, h)
  BY <1>1, <1>2, <1>4 DEF Same, Backup!mm_malloc
<1>6. \A h, bp, size : Same(Backup!mm_realloc(h, bp, size).heap, h)
  BY <1>3, <1>4, <1>5 DEF Same, Backup!mm_realloc
<1>7. (\A h, bp : Same(Backup!mm_free(h, bp), h)) /\ \A h : Same(Backup!mm_init(h), h)
  BY DEF Same, Backup!mm_free, Backup!mm_init
<1> QED  BY <1>5, <1>6, <1>7

LEMMA SameAllocator ==
    /\ \A h, size : Same(mm_malloc(h, size).heap, h)
    /\ \A h, bp : Same(mm_free(h, bp), h)
    /\ \A h, bp, size : Same(mm_realloc(h, bp, size).heap, h)
    /\ \A h : Same(mm_init(h), h)
<1>1. \A h, size : Same(mm_malloc(h, size).heap, h)
  BY SameV1, SameV3, SameBackup DEF mm_malloc
<1>2. \A h, bp : Same(mm_free(h, bp), h)
  BY SameV1, SameV3, SameBackup DEF mm_free
<1>3. \A h, bp, size : Same(mm_realloc(h, bp, size).heap, h)
  BY SameV1, SameV3, SameBackup DEF mm_realloc
<1>4. \A h : Same(mm_init(h), h)
  BY SameV1, SameV3, SameBackup DEF mm_init
<1> QED  BY <1>1, <1>2, <1>3, <1>4

LEMMA SameHeap == [Next]_vars => Same(heap', heap)
<1> SUFFICES ASSUME [Next]_vars PROVE Same(heap', heap)
  OBVIOUS
<1>1. \A h, to, from, size : Same(memcpy(h, to, from, size), h)
  BY DEF Same, memcpy
<1>2. \A h, ptr, id, size : Same(memset(h, ptr, id, size), h)
  BY DEF Same, memset
<1>3. \A h : Same(Fresh(h), h)
  <2>1. \A h : Same([h EXCEPT !.brk = MAX_HEAP], h) /\ Same(mem_reset_brk(h), h)
    BY DEF Same, mem_reset_brk
  <2> QED  BY <2>1, SameAllocator DEF Same, Fresh
<1>4. \A h, ptr : Same(freed(h, ptr), h)
  BY SameAllocator DEF Same, freed
<1>5. \A h, o, ptr : \A r \in Answers(h, o, ptr) : Same(r.heap, h)
  <2>1. \A h, p : Result(h, p).heap = h
    BY DEF Result
  <2>2. \A h : Same(h, h)
    BY DEF Same
  <2> QED  BY <1>1, <2>1, <2>2, SameAllocator DEF Answers
<1>6. Same(heap, heap)
  BY DEF Same
<1>7. CASE ReadLine \/ SpeedEnds \/ free_trace \/ UNCHANGED vars
  BY <1>6, <1>7 DEF ReadLine, SpeedEnds, free_trace, vars
<1>8. CASE Begins
  BY <1>3, <1>8 DEF Begins
<1>9. CASE Gets
  <2>1. PICK r \in Answers(heap, op, old) :
           ValidGets(r) \/ ValidFails(r) \/ UtilGets(r) \/ SpeedGets(r) \/ Exits(r)
    BY <1>9 DEF Gets
  <2>2. Same(r.heap, heap)
    BY <1>5
  <2>3. \/ heap' = memset(r.heap, r.bp, op.index, op.size)
        \/ heap' = r.heap \/ heap' = heap
    BY <2>1 DEF ValidGets, ValidFails, UtilGets, SpeedGets, Exits
  <2> QED  BY <1>2, <1>6, <2>2, <2>3 DEF Same
<1>10. CASE Frees
  BY <1>4, <1>10 DEF Frees
<1> QED  BY <1>7, <1>8, <1>9, <1>10 DEF Next

(***************************************************************************)
(* The invariant: the trace is in order, and while it is checked, the list *)
(* has the blocks that are there after the requests so far.                *)
(***************************************************************************)
ListInv ==
    /\ Lists(ranges, LiveIds(i - 1), blocks, block_sizes)
    /\ \A id \in LiveIds(i - 1) : block_sizes[id] \in Sizes
AnyInv ==
    /\ TraceInv /\ i \in 1 .. Len(trace) + 1
    /\ phase \in {"read_trace", "eval_mm_valid"} =>
          blocks \in [Id -> Int] /\ block_sizes \in [Id -> Nat]
    /\ phase = "eval_mm_valid" => ListInv
DriverInv ==
    /\ "file" \in DOMAIN heap
    /\ heap.file = "any" => AnyInv

LEMMA NoRanges ==
    ASSUME NEW B, NEW Z
    PROVE  Lists(<<>>, {}, B, Z)
<1>1. <<>> \in Seq(Pair) /\ Len(<<>>) = 0 /\ DOMAIN <<>> = {}
  BY EmptySeq
<1>2. Cardinality({}) = 0
  BY FS_EmptySet
<1> QED  BY <1>1, <1>2 DEF Lists, Apart, Range

LEMMA NoOps == <<>> \in Seq(Op) /\ Len(<<>>) = 0 /\ DOMAIN <<>> = {}
  BY EmptySeq

LEMMA NoneLive == LiveIds(0) = {}
<1>1. 1 .. 0 = {}
  OBVIOUS
<1> QED  BY <1>1 DEF LiveIds, Before

LEMMA DriverStart == Init => DriverInv
<1> SUFFICES ASSUME Init PROVE DriverInv
  OBVIOUS
<1>1. "file" \in DOMAIN heap
  BY DEF Init, mem_init
<1>2. trace = <<>> /\ i = 1 /\ phase = "read_trace"
      /\ blocks = [id \in Id |-> NULL] /\ block_sizes = [id \in Id |-> 0]
  BY DEF Init
<1>3. TraceInv
  BY <1>2, NoOps DEF TraceInv
<1>4. i \in 1 .. Len(trace) + 1
  BY <1>2, NoOps
<1> QED  BY <1>1, <1>2, <1>3, <1>4 DEF DriverInv, AnyInv, NULL

(* A request that has been checked.                                        *)
LEMMA RequestIs ==
    ASSUME TraceInv, i \in 1 .. Len(trace) + 1, Runs
    PROVE  /\ i \in 1 .. Len(trace) /\ Len(trace) \in Nat /\ i \in Nat
           /\ op \in Op /\ op.index \in Id
           /\ i + 1 - 1 = i /\ i + 1 \in 1 .. Len(trace) + 1
           /\ op.type # "FREE" => op.size \in Sizes
<1>1. Len(trace) \in Nat /\ \A n \in 1 .. Len(trace) : trace[n] \in Op
  BY TraceIs DEF TraceInv
<1>2. i \in 1 .. Len(trace) /\ i \in Nat
  BY <1>1 DEF Runs, More
<1> QED  BY <1>1, <1>2, OpIs DEF op

(* mm_malloc or mm_realloc answers with a block that passes.               *)
LEMMA GetsBlock ==
    ASSUME AnyInv, Runs, heap.file = "any", op.type # "FREE",
           NEW r \in Answers(heap, op, old), ValidGets(r)
    PROVE  AnyInv'
<1> DEFINE x == op.index  L == LiveIds(i - 1)
<1>1. phase = "eval_mm_valid" /\ phase' = phase /\ trace' = trace /\ i' = i + 1
  BY DEF ValidGets
<1>2. /\ blocks \in [Id -> Int] /\ block_sizes \in [Id -> Nat] /\ ListInv /\ TraceInv
  BY <1>1 DEF AnyInv
<1>3. /\ i \in 1 .. Len(trace) /\ op \in Op /\ x \in Id /\ op.size \in Sizes
      /\ i + 1 - 1 = i /\ i + 1 \in 1 .. Len(trace) + 1
  BY RequestIs DEF AnyInv
<1>4. op.size \in Nat
  BY <1>3, DriverAssumption
<1>5. r.bp \in Int
  BY <1>1, DriverAssumption DEF Answers, Result
<1>6. blocks' = [blocks EXCEPT ![x] = r.bp] /\ block_sizes' = [block_sizes EXCEPT ![x] = op.size]
  BY DEF ValidGets, Remember
<1>7. blocks' \in [Id -> Int] /\ block_sizes' \in [Id -> Nat]
  BY <1>2, <1>3, <1>4, <1>5, <1>6
<1>8. add_range(r.heap, Checked, r.bp, op.size) /\ ranges' = Added(Checked, r.bp, op.size)
  BY DEF ValidGets
<1>9. L \subseteq Id
  BY DEF LiveIds
<1> HIDE DEF L, x
<1>10. Lists(ranges, L, blocks, block_sizes) /\ \A id \in L : block_sizes[id] \in Sizes
  BY <1>2 DEF ListInv, L
<1>11. /\ Lists(ranges', LiveIds(i), blocks', block_sizes')
       /\ \A id \in LiveIds(i) : block_sizes'[id] \in Sizes
  <2>1. CASE op.type = "ALLOC"
    <3>1. x \notin L /\ LiveIds(i) = L \cup {x}
      BY <1>2, <1>3, <2>1, LiveNext DEF op, x, L
    <3>2. Checked = ranges
      BY <2>1 DEF Checked
    <3>3. Lists(ranges', L \cup {x}, blocks', block_sizes')
      BY <1>2, <1>3, <1>5, <1>6, <1>8, <1>9, <1>10, <3>1, <3>2, AddLists
    <3>4. \A id \in L \cup {x} : block_sizes'[id] \in Sizes
      BY <1>2, <1>3, <1>6, <1>9, <1>10
    <3> QED  BY <3>1, <3>3, <3>4
  <2>2. CASE op.type = "REALLOC"
    <3>1. x \in L /\ LiveIds(i) = L
      BY <1>2, <1>3, <2>2, LiveNext DEF op, x, L
    <3>2. Checked = remove_range(ranges, blocks[x])
      BY <2>2 DEF Checked, old, x
    <3> DEFINE K == L \ {x}
    <3>3. Lists(Checked, K, blocks, block_sizes)
      BY <1>2, <1>9, <1>10, <3>1, <3>2, RemoveLists
    <3>4. K \subseteq Id /\ x \in Id \ K /\ K \cup {x} = L
          /\ \A id \in K : block_sizes[id] \in Sizes
      BY <1>3, <1>9, <1>10, <3>1
    <3> HIDE DEF K
    <3>5. Lists(ranges', K \cup {x}, blocks', block_sizes')
      BY <1>2, <1>3, <1>5, <1>6, <1>8, <3>3, <3>4, AddLists
    <3>6. \A id \in L : block_sizes'[id] \in Sizes
      BY <1>2, <1>3, <1>6, <1>9, <1>10
    <3> QED  BY <3>1, <3>4, <3>5, <3>6
  <2> QED  BY <1>3, <2>1, <2>2, OpIs
<1>12. LiveIds(i - 1)' = LiveIds(i)
  <2>1. trace' = trace /\ i' - 1 = i
    BY <1>1, <1>3
  <2> QED  BY <2>1 DEF LiveIds, Before
<1>13. ListInv'
  BY <1>11, <1>12 DEF ListInv
<1>14. TraceInv'
  BY <1>1, <1>2 DEF TraceInv, Placed, LiveIds, Before
<1> QED  BY <1>1, <1>3, <1>7, <1>13, <1>14 DEF AnyInv

LEMMA FreesBlock ==
    ASSUME AnyInv, Runs, op.type = "FREE", ValidFrees
    PROVE  AnyInv'
<1> DEFINE x == op.index  L == LiveIds(i - 1)
<1>1. /\ phase = "eval_mm_valid" /\ phase' = phase /\ trace' = trace /\ i' = i + 1
      /\ ranges' = remove_range(ranges, blocks[x])
      /\ blocks' = blocks /\ block_sizes' = block_sizes
  BY DEF ValidFrees, old
<1>2. /\ blocks \in [Id -> Int] /\ block_sizes \in [Id -> Nat] /\ ListInv /\ TraceInv
  BY <1>1 DEF AnyInv
<1>3. i \in 1 .. Len(trace) /\ i + 1 - 1 = i /\ i + 1 \in 1 .. Len(trace) + 1
  BY RequestIs DEF AnyInv
<1>4. x \in L /\ LiveIds(i) = L \ {x} /\ L \subseteq Id
  <2>1. x \in L /\ LiveIds(i) = L \ {x}
    BY <1>2, <1>3, LiveNext DEF op
  <2> QED  BY <2>1 DEF LiveIds
<1> HIDE DEF L, x
<1>5. Lists(ranges, L, blocks, block_sizes) /\ \A id \in L : block_sizes[id] \in Sizes
  BY <1>2 DEF ListInv, L
<1>6. Lists(ranges', LiveIds(i), blocks, block_sizes)
  BY <1>1, <1>2, <1>4, <1>5, RemoveLists
<1>7. LiveIds(i - 1)' = LiveIds(i)
  <2>1. trace' = trace /\ i' - 1 = i
    BY <1>1, <1>3
  <2> QED  BY <2>1 DEF LiveIds, Before
<1>8. ListInv'
  BY <1>1, <1>4, <1>5, <1>6, <1>7 DEF ListInv
<1>9. TraceInv'
  BY <1>1, <1>2 DEF TraceInv, Placed, LiveIds, Before
<1> QED  BY <1>1, <1>2, <1>3, <1>8, <1>9 DEF AnyInv

(* A step that leaves the trace as it is, and checks nothing.              *)
LEMMA ChecksNothing ==
    ASSUME AnyInv, trace' = trace, i' \in 1 .. Len(trace) + 1,
           phase' \notin {"read_trace", "eval_mm_valid"}
    PROVE  AnyInv'
<1>1. TraceInv'
  BY DEF AnyInv, TraceInv, Placed, LiveIds, Before
<1> QED  BY <1>1 DEF AnyInv

LEMMA DriverStep == DriverInv /\ [Next]_vars => DriverInv'
<1> SUFFICES ASSUME DriverInv, [Next]_vars PROVE DriverInv'
  OBVIOUS
<1>1. "file" \in DOMAIN heap' /\ heap'.file = heap.file
  BY SameHeap DEF DriverInv, Same
<1> SUFFICES ASSUME heap.file = "any" PROVE AnyInv'
  BY <1>1 DEF DriverInv
<1>2. AnyInv
  BY DEF DriverInv
<1>3. Len(trace) \in Nat /\ i \in 1 .. Len(trace) + 1 /\ TraceInv
  BY <1>2, TraceIs DEF AnyInv, TraceInv
<1>4. CASE ReadLine
  <2>1. PICK o \in Op : Sensible(o) /\ trace' = Append(trace, o)
    BY <1>4 DEF ReadLine
  <2>2. TraceInv' /\ Len(trace') = Len(trace) + 1
    BY <1>3, <2>1, ReadsInOrder
  <2>3. /\ phase = "read_trace" /\ phase' = phase /\ i' = i
        /\ blocks' = blocks /\ block_sizes' = block_sizes
    BY <1>4 DEF ReadLine, blockVars
  <2>4. i' \in 1 .. Len(trace') + 1
    BY <1>3, <2>2, <2>3
  <2> QED  BY <1>2, <2>2, <2>3, <2>4 DEF AnyInv
<1>5. CASE ReadEnds
  <2>1. /\ phase = "read_trace" /\ phase' = "eval_mm_valid" /\ i' = 1 /\ ranges' = <<>>
        /\ trace' = trace /\ blocks' = blocks /\ block_sizes' = block_sizes
    BY <1>5 DEF ReadEnds, Begin, clear_ranges
  <2>2. LiveIds(i - 1)' = {}
    <3>1. i' - 1 = 0 /\ LiveIds(0)' = {}
      BY <2>1, NoneLive DEF LiveIds, Before
    <3> QED  BY <3>1 DEF LiveIds, Before
  <2>3. ListInv'
    BY <2>1, <2>2, NoRanges DEF ListInv
  <2>4. TraceInv'
    BY <1>3, <2>1 DEF TraceInv, Placed, LiveIds, Before
  <2>5. i' \in 1 .. Len(trace') + 1
    BY <1>3, <2>1
  <2> QED  BY <1>2, <2>1, <2>3, <2>4, <2>5 DEF AnyInv
<1>6. CASE ValidEnds \/ SpeedBegins
  <2>1. trace' = trace /\ i' = 1 /\ phase' \in {"eval_mm_util", "eval_mm_speed"}
    BY <1>6 DEF ValidEnds, SpeedBegins, Begin
  <2> QED  BY <1>2, <1>3, <2>1, ChecksNothing
<1>7. CASE Gets
  <2>1. PICK r \in Answers(heap, op, old) :
           ValidGets(r) \/ ValidFails(r) \/ UtilGets(r) \/ SpeedGets(r) \/ Exits(r)
    BY <1>7 DEF Gets
  <2>2. Runs /\ op.type # "FREE"
    BY <1>7 DEF Gets, Asks
  <2>3. CASE ValidGets(r)
    BY <1>2, <2>2, <2>3, GetsBlock
  <2>4. CASE ~ValidGets(r)
    <3>1. /\ trace' = trace /\ i' \in {i, i + 1}
          /\ phase' \in {"free_trace", "eval_mm_util", "eval_mm_speed", "exit"}
      BY <2>1, <2>4 DEF ValidFails, malloc_error, UtilGets, SpeedGets, Exits
    <3>2. i' \in 1 .. Len(trace) + 1
      BY <1>3, <2>2, <3>1, RequestIs
    <3> QED  BY <1>2, <3>1, <3>2, ChecksNothing
  <2> QED  BY <2>3, <2>4
<1>8. CASE Frees
  <2>1. Runs /\ op.type = "FREE" /\ (ValidFrees \/ UtilFrees \/ SpeedFrees)
    BY <1>8 DEF Frees
  <2>2. CASE ValidFrees
    BY <1>2, <2>1, <2>2, FreesBlock
  <2>3. CASE UtilFrees \/ SpeedFrees
    <3>1. trace' = trace /\ i' = i + 1 /\ phase' \in {"eval_mm_util", "eval_mm_speed"}
      BY <2>3 DEF UtilFrees, SpeedFrees
    <3>2. i' \in 1 .. Len(trace) + 1
      BY <1>3, <2>1, <3>1, RequestIs
    <3> QED  BY <1>2, <3>1, <3>2, ChecksNothing
  <2> QED  BY <2>1, <2>2, <2>3
<1>9. CASE SpeedEnds
  <2>1. trace' = trace /\ i' = i /\ phase' = "free_trace"
    BY <1>9 DEF SpeedEnds
  <2> QED  BY <1>2, <1>3, <2>1, ChecksNothing
<1>10. CASE free_trace
  <2>1. /\ trace' = <<>> /\ i' = 1 /\ phase' \in {"read_trace", "results"}
        /\ blocks' = [id \in Id |-> NULL] /\ block_sizes' = [id \in Id |-> 0]
    BY <1>10 DEF free_trace
  <2>2. TraceInv'
    BY <2>1, NoOps DEF TraceInv
  <2>3. i' \in 1 .. Len(trace') + 1
    BY <2>1, NoOps
  <2> QED  BY <2>1, <2>2, <2>3 DEF AnyInv, NULL
<1>11. CASE UNCHANGED vars
  <2>1. UNCHANGED <<phase, trace, i, blocks, block_sizes, ranges>>
    BY <1>11 DEF vars, driverVars, blockVars
  <2> QED  BY <1>2, <2>1 DEF AnyInv, TraceInv, Placed, ListInv, LiveIds, Before
<1> QED  BY <1>4, <1>5, <1>6, <1>7, <1>8, <1>9, <1>10, <1>11 DEF Next, Begins

(* Whatever the allocator answers, to any trace: after each request that   *)
(* passes, the range list has the blocks that are there, each once, and    *)
(* two of them overlap only if the later one encloses the other.           *)
THEOREM ChecksKeepBlocksApart == Spec => [](heap.file = "any" => RangesAreTheBlocks)
<1>1. DriverInv => (heap.file = "any" => RangesAreTheBlocks)
  BY DEF DriverInv, AnyInv, ListInv, Lists, Apart, RangesAreTheBlocks, Block
<1> QED  BY DriverStart, DriverStep, <1>1, PTL DEF Spec

(***************************************************************************)
(* Sums over sets of ids.                                                  *)
(***************************************************************************)
(* G has the sums of w over subsets of U, whichever element is taken last. *)
Sums(G, w, U) ==
    /\ G[{}] = 0
    /\ \A T \in SUBSET U : \A x \in T : G[T] = w[x] + G[T \ {x}]

LEMMA LeastNumber ==
    ASSUME NEW T \in SUBSET Nat, T # {}
    PROVE  \E x \in T : \A y \in T : x <= y
<1>1. \E x \in T : \A y \in T : <<y, x>> \notin OpToRel(<, Nat)
  BY NatLessThanWellFounded, WFMin
<1>2. \A x, y \in Nat : <<y, x>> \notin OpToRel(<, Nat) => x <= y
  BY DEF OpToRel
<1> QED  BY <1>1, <1>2

(* Of sets of ids there is one that is none of them any more when an       *)
(* element, whichever, is taken from it.                                   *)
LEMMA Smallest ==
    ASSUME NEW Bad \in SUBSET SUBSET Id, Bad # {}
    PROVE  \E T \in Bad : \A x \in T : T \ {x} \notin Bad
<1> DEFINE Cards == {Cardinality(T) : T \in Bad}
<1>1. \A T \in SUBSET Id : IsFiniteSet(T) /\ Cardinality(T) \in Nat
  BY DriverAssumption, FS_Subset, FS_CardinalityType
<1>2. PICK n \in Cards : \A m \in Cards : n <= m
  <2>1. Cards \in SUBSET Nat /\ Cards # {}
    BY <1>1
  <2> HIDE DEF Cards
  <2> QED  BY <2>1, LeastNumber
<1>3. PICK T \in Bad : n = Cardinality(T)
  BY <1>2
<1>4. ASSUME NEW x \in T PROVE T \ {x} \notin Bad
  <2>1. Cardinality(T \ {x}) = Cardinality(T) - 1
    BY <1>1, FS_RemoveElement
  <2>2. Cardinality(T) \in Nat
    BY <1>1
  <2>3. ~(Cardinality(T) <= Cardinality(T) - 1)
    BY <2>2
  <2> QED  BY <1>2, <1>3, <2>1, <2>3
<1> QED  BY <1>4

LEMMA SumsExist ==
    ASSUME NEW w \in [Id -> Nat]
    PROVE  \E G \in [SUBSET Id -> Nat] : Sums(G, w, Id)
<1> DEFINE Has(U) == \E G \in [SUBSET U -> Nat] : Sums(G, w, U)
           Bad == {U \in SUBSET Id : ~Has(U)}
<1>1. Bad = {}
  <2> SUFFICES ASSUME Bad # {} PROVE FALSE
    OBVIOUS
  <2>1. PICK U \in Bad : \A x \in U : U \ {x} \notin Bad
    <3>1. Bad \in SUBSET SUBSET Id
      OBVIOUS
    <3> HIDE DEF Bad
    <3> QED  BY <3>1, Smallest
  <2>2. U \in SUBSET Id /\ ~Has(U)
    BY <2>1
  <2>3. Has({})
    <3> DEFINE Z == [T \in SUBSET {} |-> 0]
    <3>1. Z \in [SUBSET {} -> Nat] /\ Z[{}] = 0
      OBVIOUS
    <3>2. Sums(Z, w, {})
      BY <3>1 DEF Sums
    <3> HIDE DEF Z
    <3> QED  BY <3>1, <3>2
  <2>4. PICK x : x \in U
    <3> HIDE DEF Has
    <3> QED  BY <2>2, <2>3
  <2> DEFINE V == U \ {x}
  <2>5. Has(V)
    <3> HIDE DEF Has
    <3> QED  BY <2>1, <2>2, <2>4
  <2>6. PICK G \in [SUBSET V -> Nat] : Sums(G, w, V)
    BY <2>5
  <2> DEFINE H == [T \in SUBSET U |-> IF x \in T THEN w[x] + G[T \ {x}] ELSE G[T]]
  <2>7. w[x] \in Nat /\ \A y \in U : w[y] \in Nat
    BY <2>2, <2>4
  <2>8. \A T \in SUBSET U : /\ T \ {x} \in SUBSET V
                            /\ x \notin T => T \in SUBSET V
    OBVIOUS
  <2>9. \A T \in SUBSET V : G[T] \in Nat
    BY <2>6
  <2> HIDE DEF V
  <2>10. H \in [SUBSET U -> Nat]
    BY <2>7, <2>8, <2>9
  <2>11. H[{}] = 0
    BY <2>6 DEF Sums
  <2>12. ASSUME NEW T \in SUBSET U, NEW y \in T
         PROVE  H[T] = w[y] + H[T \ {y}]
    <3>1. CASE x \notin T
      <4>1. T \in SUBSET V /\ T \ {y} \in SUBSET U /\ x \notin T \ {y}
        BY <2>8, <3>1
      <4>2. H[T] = G[T] /\ H[T \ {y}] = G[T \ {y}]
        BY <3>1, <4>1
      <4> QED  BY <2>6, <4>1, <4>2 DEF Sums
    <3>2. CASE x \in T /\ y = x
      <4>1. H[T] = w[x] + G[T \ {x}] /\ H[T \ {x}] = G[T \ {x}]
        BY <3>2
      <4> QED  BY <3>2, <4>1
    <3>3. CASE x \in T /\ y # x
      <4> DEFINE W == T \ {x}
      <4>1. W \in SUBSET V /\ y \in W /\ (T \ {y}) \ {x} = W \ {y} /\ W \ {y} \in SUBSET V
        BY <2>8, <3>3
      <4>2. G[W] = w[y] + G[W \ {y}]
        BY <2>6, <4>1 DEF Sums
      <4>3. H[T] = w[x] + G[W] /\ H[T \ {y}] = w[x] + G[W \ {y}]
        BY <3>3, <4>1
      <4>4. G[W \ {y}] \in Nat /\ w[y] \in Nat
        BY <2>7, <2>9, <4>1
      <4> HIDE DEF W, H
      <4> QED  BY <2>7, <4>2, <4>3, <4>4
    <3> QED  BY <3>1, <3>2, <3>3
  <2>13. Sums(H, w, U)
    <3> HIDE DEF H
    <3> QED  BY <2>11, <2>12 DEF Sums
  <2>14. Has(U)
    <3> HIDE DEF H
    <3> QED  BY <2>10, <2>13
  <2> QED  BY <2>2, <2>14
<1>2. Has(Id)
  <2> HIDE DEF Has
  <2> QED  BY <1>1
<1> QED  BY <1>2

(* The sum of w over the ids in T.                                         *)
SumOf(w, T) == (CHOOSE G \in [SUBSET Id -> Nat] : Sums(G, w, Id))[T]

LEMMA SumIs ==
    ASSUME NEW w \in [Id -> Nat]
    PROVE  /\ SumOf(w, {}) = 0
           /\ \A T \in SUBSET Id : SumOf(w, T) \in Nat
           /\ \A T \in SUBSET Id : \A x \in T : SumOf(w, T) = w[x] + SumOf(w, T \ {x})
<1> DEFINE G == CHOOSE G \in [SUBSET Id -> Nat] : Sums(G, w, Id)
<1>1. G \in [SUBSET Id -> Nat] /\ Sums(G, w, Id)
  BY SumsExist
<1>2. \A T : SumOf(w, T) = G[T]
  BY DEF SumOf
<1> HIDE DEF G
<1> QED  BY <1>1, <1>2 DEF Sums

(* It depends on no other ids.                                             *)
LEMMA SumAgrees ==
    ASSUME NEW w \in [Id -> Nat], NEW v \in [Id -> Nat], NEW T \in SUBSET Id,
           \A x \in T : w[x] = v[x]
    PROVE  SumOf(w, T) = SumOf(v, T)
<1> DEFINE Bad == {U \in SUBSET T : SumOf(w, U) # SumOf(v, U)}
<1>1. Bad = {}
  <2> SUFFICES ASSUME Bad # {} PROVE FALSE
    OBVIOUS
  <2>1. PICK U \in Bad : \A x \in U : U \ {x} \notin Bad
    <3>1. Bad \in SUBSET SUBSET Id
      OBVIOUS
    <3> HIDE DEF Bad
    <3> QED  BY <3>1, Smallest
  <2>2. CASE U = {}
    BY <2>1, <2>2, SumIs
  <2>3. CASE U # {}
    <3>1. PICK x \in U : TRUE
      BY <2>3
    <3>2. SumOf(w, U \ {x}) = SumOf(v, U \ {x}) /\ w[x] = v[x]
      BY <2>1, <3>1
    <3>3. SumOf(w, U) = w[x] + SumOf(w, U \ {x}) /\ SumOf(v, U) = v[x] + SumOf(v, U \ {x})
      BY <2>1, <3>1, SumIs
    <3> QED  BY <2>1, <3>2, <3>3
  <2> QED  BY <2>2, <2>3
<1> QED  BY <1>1

(***************************************************************************)
(* The utilization.                                                        *)
(***************************************************************************)
(* LiveBytes adds up the sizes, in the order CHOOSE takes them.            *)
LEMMA LiveBytesIs ==
    ASSUME NEW k, NEW w \in [Id -> Nat], \A id \in LiveIds(k) : SizeOf(k, id) = w[id]
    PROVE  LiveBytes(k) = SumOf(w, LiveIds(k))
<1> DEFINE L == LiveIds(k)
           Is(f) == f = [s \in SUBSET L |->
                            IF s = {} THEN 0
                            ELSE SizeOf(k, CHOOSE x \in s : TRUE)
                                 + f[s \ {CHOOSE x \in s : TRUE}]]
           iter == CHOOSE f : Is(f)
           total == [s \in SUBSET L |-> SumOf(w, s)]
<1>1. L \in SUBSET Id
  BY DEF LiveIds
<1>2. \A id \in L : SizeOf(k, id) = w[id]
  OBVIOUS
<1>3. LiveBytes(k) = iter[L]
  BY DEF LiveBytes, MapThenSumSet, MapThenFoldSet
<1> HIDE DEF L
<1>4. ASSUME NEW s \in SUBSET L, s # {}
      PROVE  LET x == CHOOSE x \in s : TRUE
             IN  /\ x \in s /\ s \ {x} \in SUBSET L /\ SizeOf(k, x) = w[x]
                 /\ SumOf(w, s) = w[x] + SumOf(w, s \ {x})
  <2> DEFINE x == CHOOSE x \in s : TRUE
  <2>1. x \in s
    BY <1>4
  <2> HIDE DEF x
  <2>2. x \in s /\ s \ {x} \in SUBSET L /\ SizeOf(k, x) = w[x]
    BY <1>2, <2>1
  <2>3. SumOf(w, s) = w[x] + SumOf(w, s \ {x})
    BY <1>1, <2>1, SumIs
  <2> QED  BY <2>2, <2>3 DEF x
<1>5. Is(total)
  <2>1. ASSUME NEW s \in SUBSET L
        PROVE  SumOf(w, s) = IF s = {} THEN 0
                             ELSE SizeOf(k, CHOOSE x \in s : TRUE)
                                  + total[s \ {CHOOSE x \in s : TRUE}]
    BY <1>4, SumIs
  <2> QED  BY <2>1
<1>6. Is(iter)
  <2> HIDE DEF Is
  <2> QED  BY <1>5
<1> HIDE DEF iter, total
<1> DEFINE Bad == {s \in SUBSET L : iter[s] # SumOf(w, s)}
<1>7. Bad = {}
  <2> SUFFICES ASSUME Bad # {} PROVE FALSE
    OBVIOUS
  <2>1. PICK s \in Bad : \A x \in s : s \ {x} \notin Bad
    <3>1. Bad \in SUBSET SUBSET Id
      BY <1>1
    <3> HIDE DEF Bad
    <3> QED  BY <3>1, Smallest
  <2>2. s \in SUBSET L /\ iter[s] # SumOf(w, s)
    BY <2>1
  <2>3. iter[s] = IF s = {} THEN 0
                  ELSE SizeOf(k, CHOOSE x \in s : TRUE) + iter[s \ {CHOOSE x \in s : TRUE}]
    BY <1>6, <2>2
  <2>4. CASE s = {}
    BY <2>2, <2>3, <2>4, SumIs
  <2>5. CASE s # {}
    <3> DEFINE x == CHOOSE x \in s : TRUE
    <3>1. /\ x \in s /\ s \ {x} \in SUBSET L /\ SizeOf(k, x) = w[x]
          /\ SumOf(w, s) = w[x] + SumOf(w, s \ {x})
      BY <1>4, <2>2, <2>5
    <3>2. iter[s] = SizeOf(k, x) + iter[s \ {x}]
      BY <2>3, <2>5
    <3> HIDE DEF x
    <3>3. iter[s \ {x}] = SumOf(w, s \ {x})
      BY <2>1, <3>1
    <3> QED  BY <2>2, <3>1, <3>2, <3>3
  <2> QED  BY <2>4, <2>5
<1>8. iter[L] = SumOf(w, L)
  BY <1>7
<1> QED  BY <1>3, <1>8 DEF L

LEMMA GreatestIs ==
    ASSUME NEW S, NEW m \in S, \A n \in S : n \in Int /\ n <= m
    PROVE  Max(S) = m
<1>1. \E x \in S : \A y \in S : x >= y
  BY DEF Max
<1>2. Max(S) \in S /\ \A y \in S : Max(S) >= y
  BY <1>1 DEF Max
<1> QED  BY <1>2

(* A request changes the size of the block it is about, and no other's.    *)
LEMMA SizeNext ==
    ASSUME TraceInv, NEW k \in 1 .. Len(trace), NEW id \in Id
    PROVE  SizeOf(k, id) = IF trace[k].index = id /\ trace[k].type # "FREE"
                           THEN trace[k].size ELSE SizeOf(k - 1, id)
<1> DEFINE B(n) == Before(n, id, {"ALLOC", "REALLOC"})
<1>1. /\ k \in Nat /\ trace[k].type \in {"ALLOC", "REALLOC", "FREE"}
      /\ 1 .. k = (1 .. k - 1) \cup {k}
  BY TraceIs, OpIs DEF TraceInv
<1>2. CASE trace[k].index = id /\ trace[k].type # "FREE"
  <2>1. k \in B(k)
    BY <1>1, <1>2 DEF Before
  <2>2. \A n \in B(k) : n \in Int /\ n <= k
    BY <1>1 DEF Before
  <2> HIDE DEF B
  <2>3. Max(B(k)) = k
    BY <2>1, <2>2, GreatestIs
  <2> QED  BY <1>2, <2>3 DEF SizeOf, B
<1>3. CASE ~(trace[k].index = id /\ trace[k].type # "FREE")
  <2>1. B(k) = B(k - 1)
    BY <1>1, <1>3 DEF Before
  <2> QED  BY <1>3, <2>1 DEF SizeOf
<1> QED  BY <1>2, <1>3

(* Bytes(k) is LiveBytes(k).                                               *)
Weights(k) == [id \in Id |-> IF id \in LiveIds(k) THEN SizeOf(k, id) ELSE 0]
Bytes(k) == SumOf(Weights(k), LiveIds(k))

(* The sizes that eval_mm_util has are those of the trace, what it has     *)
(* added up is their sum, and the peak is that of the requests so far.     *)
UtilInv ==
    /\ \A id \in LiveIds(i - 1) : block_sizes[id] = SizeOf(i - 1, id)
    /\ total_size = SumOf(block_sizes, LiveIds(i - 1))
    /\ max_total_size \in Nat /\ total_size <= max_total_size
    /\ \A k \in 1 .. i - 1 : /\ \A id \in LiveIds(k) : SizeOf(k, id) \in Nat
                             /\ Bytes(k) \in Nat /\ Bytes(k) <= max_total_size
    /\ i # 1 => \E k \in 1 .. i - 1 : max_total_size = Bytes(k)
    /\ i = 1 => max_total_size = 0
PeakInv ==
    /\ TraceInv /\ i \in 1 .. Len(trace) + 1
    /\ phase \in {"read_trace", "eval_mm_valid", "eval_mm_util"} =>
          block_sizes \in [Id -> Nat]
    /\ phase \in {"eval_mm_valid", "eval_mm_util"} => Len(trace) # 0
    /\ phase = "eval_mm_util" => UtilInv

LEMMA PeakStart == Init => PeakInv
<1> SUFFICES ASSUME Init PROVE PeakInv
  OBVIOUS
<1>1. trace = <<>> /\ i = 1 /\ phase = "read_trace" /\ block_sizes = [id \in Id |-> 0]
  BY DEF Init
<1>2. TraceInv
  BY <1>1, NoOps DEF TraceInv
<1>3. i \in 1 .. Len(trace) + 1
  BY <1>1, NoOps
<1> QED  BY <1>1, <1>2, <1>3 DEF PeakInv

(* A request of eval_mm_util, by what is there after it.                   *)
LEMMA Advances ==
    ASSUME PeakInv, Runs, phase = "eval_mm_util", phase' = phase, trace' = trace, i' = i + 1,
           block_sizes' \in [Id -> Nat],
           \A id \in LiveIds(i) : block_sizes'[id] = SizeOf(i, id),
           total_size' = SumOf(block_sizes', LiveIds(i)),
           max_total_size' = IF total_size' > max_total_size THEN total_size' ELSE max_total_size
    PROVE  PeakInv'
<1>1. TraceInv /\ i \in 1 .. Len(trace) /\ UtilInv
  BY RequestIs DEF PeakInv
<1>2. /\ Len(trace) \in Nat /\ i \in Nat \ {0} /\ i + 1 - 1 = i /\ i + 1 # 1
      /\ i + 1 \in 1 .. Len(trace) + 1
  BY <1>1, TraceIs DEF TraceInv
<1>3. \A k, id : LiveIds(k)' = LiveIds(k) /\ SizeOf(k, id)' = SizeOf(k, id)
  BY DEF LiveIds, SizeOf, Before
<1>4. \A k : Bytes(k)' = Bytes(k)
  BY <1>3 DEF Bytes, Weights
<1>5. TraceInv'
  BY <1>1 DEF TraceInv, Placed, LiveIds, Before
<1>6. LiveIds(i) \in SUBSET Id
  BY DEF LiveIds
<1>7. Bytes(i) = total_size' /\ Bytes(i) \in Nat
  <2>1. Weights(i) \in [Id -> Nat] /\ \A id \in LiveIds(i) : Weights(i)[id] = block_sizes'[id]
    BY <1>6 DEF Weights
  <2>2. SumOf(Weights(i), LiveIds(i)) = SumOf(block_sizes', LiveIds(i))
    BY <1>6, <2>1, SumAgrees
  <2> QED  BY <1>6, <2>1, <2>2, SumIs DEF Bytes
<1>8. max_total_size' \in Nat /\ total_size' <= max_total_size'
      /\ max_total_size <= max_total_size'
  BY <1>1, <1>7 DEF UtilInv
<1>9. ASSUME NEW k \in 1 .. i
      PROVE  /\ \A id \in LiveIds(k) : SizeOf(k, id) \in Nat
             /\ Bytes(k) \in Nat /\ Bytes(k) <= max_total_size'
  <2>1. CASE k = i
    BY <1>6, <1>7, <1>8, <2>1
  <2>2. CASE k # i
    <3>1. k \in 1 .. i - 1
      BY <1>2, <2>2
    <3> QED  BY <1>1, <1>8, <3>1 DEF UtilInv
  <2> QED  BY <2>1, <2>2
<1>10. \E k \in 1 .. i : max_total_size' = Bytes(k)
  <2>1. CASE total_size' > max_total_size
    BY <1>2, <1>7, <2>1
  <2>2. CASE ~(total_size' > max_total_size) /\ i = 1
    <3>1. max_total_size' = 0 /\ total_size' = 0
      BY <1>1, <1>7, <2>2 DEF UtilInv
    <3> QED  BY <1>2, <1>7, <3>1
  <2>3. CASE ~(total_size' > max_total_size) /\ i # 1
    <3>1. PICK k \in 1 .. i - 1 : max_total_size = Bytes(k)
      BY <1>1, <2>3 DEF UtilInv
    <3>2. k \in 1 .. i
      BY <1>2
    <3> QED  BY <2>3, <3>1, <3>2
  <2> QED  BY <2>1, <2>2, <2>3
<1>11. i' - 1 = i /\ i' # 1 /\ i' \in 1 .. Len(trace') + 1
  BY <1>2
<1>12. UtilInv'
  BY <1>3, <1>4, <1>8, <1>9, <1>10, <1>11 DEF UtilInv
<1> QED  BY <1>5, <1>11, <1>12 DEF PeakInv

LEMMA UtilGetsPeak ==
    ASSUME PeakInv, Runs, op.type # "FREE", NEW r, UtilGets(r)
    PROVE  PeakInv'
<1> DEFINE x == op.index  L == LiveIds(i - 1)  w == block_sizes  v == [w EXCEPT ![x] = op.size]
<1>1. /\ phase = "eval_mm_util" /\ phase' = phase /\ trace' = trace /\ i' = i + 1
      /\ block_sizes' = v /\ total_size' = Grows
      /\ max_total_size' = IF total_size' > max_total_size THEN total_size' ELSE max_total_size
  BY DEF UtilGets, Remember
<1>2. TraceInv /\ i \in 1 .. Len(trace) + 1 /\ UtilInv /\ w \in [Id -> Nat]
  BY <1>1 DEF PeakInv
<1>3. i \in 1 .. Len(trace) /\ x \in Id /\ op \in Op /\ op.size \in Nat
  BY <1>2, RequestIs, DriverAssumption
<1>4. v \in [Id -> Nat] /\ v[x] = op.size /\ \A id \in Id \ {x} : v[id] = w[id]
  BY <1>2, <1>3
<1>5. L \in SUBSET Id
  BY DEF LiveIds
<1>6. /\ \A id \in L : w[id] = SizeOf(i - 1, id)
      /\ total_size = SumOf(w, L)
  BY <1>2 DEF UtilInv
<1>7. \/ op.type = "ALLOC" /\ x \notin L /\ LiveIds(i) = L \cup {x}
      \/ op.type = "REALLOC" /\ x \in L /\ LiveIds(i) = L
  <2>1. op.type = "ALLOC" \/ op.type = "REALLOC"
    BY <1>3, OpIs
  <2>2. trace[i].index = x /\ trace[i].type = op.type
    BY DEF op
  <2> HIDE DEF x, L
  <2>3. CASE op.type = "ALLOC"
    BY <1>2, <1>3, <2>2, <2>3, LiveNext DEF L
  <2>4. CASE op.type = "REALLOC"
    BY <1>2, <1>3, <2>2, <2>4, LiveNext DEF L
  <2> QED  BY <2>1, <2>3, <2>4
<1>8. \A id \in Id : SizeOf(i, id) = IF id = x THEN op.size ELSE SizeOf(i - 1, id)
  BY <1>2, <1>3, SizeNext DEF op
<1> HIDE DEF x, L, w, v
<1>9. LiveIds(i) \in SUBSET Id /\ x \in LiveIds(i) /\ LiveIds(i) \ {x} = L \ {x}
      /\ L \ {x} \in SUBSET Id
  BY <1>3, <1>5, <1>7
<1>10. \A id \in LiveIds(i) : v[id] = SizeOf(i, id)
  BY <1>4, <1>6, <1>7, <1>8, <1>9
<1>11. SumOf(v, LiveIds(i)) = op.size + SumOf(w, L \ {x})
  <2>1. SumOf(v, LiveIds(i)) = v[x] + SumOf(v, LiveIds(i) \ {x})
    BY <1>4, <1>9, SumIs
  <2>2. SumOf(v, L \ {x}) = SumOf(w, L \ {x})
    <3>1. \A id \in L \ {x} : v[id] = w[id]
      BY <1>4, <1>9
    <3> QED  BY <1>2, <1>4, <1>9, <3>1, SumAgrees DEF w
  <2> QED  BY <1>4, <1>9, <2>1, <2>2
<1>12. SumOf(w, L) = (IF op.type = "ALLOC" THEN 0 ELSE w[x]) + SumOf(w, L \ {x})
  <2>1. SumOf(w, L \ {x}) \in Nat
    BY <1>2, <1>9, SumIs
  <2>2. CASE op.type = "ALLOC"
    <3>1. L \ {x} = L
      BY <1>7, <2>2
    <3> QED  BY <2>1, <2>2, <3>1
  <2>3. CASE op.type # "ALLOC"
    <3>1. x \in L
      BY <1>7, <2>3
    <3> QED  BY <1>2, <1>5, <2>3, <3>1, SumIs
  <2> QED  BY <2>2, <2>3
<1>13. total_size' = SumOf(v, LiveIds(i))
  <2>1. SumOf(w, L \ {x}) \in Nat /\ w[x] \in Nat
    BY <1>2, <1>3, <1>9, SumIs DEF w
  <2>2. Grows = total_size + op.size - (IF op.type = "ALLOC" THEN 0 ELSE w[x])
    BY DEF Grows, w, x
  <2>3. \A a, b, c \in Nat : a + b + c - a = b + c /\ (a + c) + (b - a) = b + c
    OBVIOUS
  <2>4. CASE op.type = "ALLOC"
    BY <1>1, <1>3, <1>6, <1>11, <1>12, <2>1, <2>2, <2>4
  <2>5. CASE op.type # "ALLOC"
    BY <1>1, <1>3, <1>6, <1>11, <1>12, <2>1, <2>2, <2>5
  <2> QED  BY <2>4, <2>5
<1> QED  BY <1>1, <1>4, <1>10, <1>13, Advances

LEMMA UtilFreesPeak ==
    ASSUME PeakInv, Runs, op.type = "FREE", UtilFrees
    PROVE  PeakInv'
<1> DEFINE x == op.index  L == LiveIds(i - 1)  w == block_sizes
<1>1. /\ phase = "eval_mm_util" /\ phase' = phase /\ trace' = trace /\ i' = i + 1
      /\ block_sizes' = w /\ total_size' = total_size - w[x]
      /\ max_total_size' = max_total_size
  BY DEF UtilFrees, blockVars
<1>2. TraceInv /\ i \in 1 .. Len(trace) + 1 /\ UtilInv /\ w \in [Id -> Nat]
  BY <1>1 DEF PeakInv
<1>3. i \in 1 .. Len(trace) /\ x \in Id
  BY <1>2, RequestIs
<1>4. L \in SUBSET Id
  BY DEF LiveIds
<1>5. x \in L /\ LiveIds(i) = L \ {x}
  BY <1>2, <1>3, LiveNext DEF op
<1>6. \A id \in Id : SizeOf(i, id) = SizeOf(i - 1, id)
  BY <1>2, <1>3, SizeNext DEF op
<1>7. /\ \A id \in L : w[id] = SizeOf(i - 1, id)
      /\ total_size = SumOf(w, L) /\ max_total_size \in Nat /\ total_size <= max_total_size
  BY <1>2 DEF UtilInv
<1> HIDE DEF x, L
<1>8. \A id \in LiveIds(i) : w[id] = SizeOf(i, id)
  BY <1>4, <1>5, <1>6, <1>7
<1>9. SumOf(w, L) = w[x] + SumOf(w, L \ {x}) /\ SumOf(w, L \ {x}) \in Nat /\ w[x] \in Nat
  <2>1. L \ {x} \in SUBSET Id
    BY <1>4
  <2> QED  BY <1>2, <1>3, <1>4, <1>5, <2>1, SumIs
<1>10. total_size' = SumOf(w, LiveIds(i)) /\ ~(total_size' > max_total_size)
  BY <1>1, <1>5, <1>7, <1>9
<1> QED  BY <1>1, <1>2, <1>8, <1>10, Advances

(* A step that leaves the trace and is not one of eval_mm_util.            *)
LEMMA PeakKept ==
    ASSUME PeakInv, trace' = trace, i' \in 1 .. Len(trace) + 1,
           phase' # "eval_mm_util",
           phase' \in {"read_trace", "eval_mm_valid"} => block_sizes' \in [Id -> Nat],
           phase' = "eval_mm_valid" => Len(trace) # 0
    PROVE  PeakInv'
<1>1. TraceInv'
  BY DEF PeakInv, TraceInv, Placed, LiveIds, Before
<1> QED  BY <1>1 DEF PeakInv

LEMMA PeakStep == PeakInv /\ [Next]_vars => PeakInv'
<1> SUFFICES ASSUME PeakInv, [Next]_vars PROVE PeakInv'
  OBVIOUS
<1>1. Len(trace) \in Nat /\ i \in 1 .. Len(trace) + 1 /\ TraceInv
  BY TraceIs DEF PeakInv, TraceInv
<1>2. CASE ReadLine
  <2>1. PICK o \in Op : Sensible(o) /\ trace' = Append(trace, o)
    BY <1>2 DEF ReadLine
  <2>2. TraceInv' /\ Len(trace') = Len(trace) + 1
    BY <1>1, <2>1, ReadsInOrder
  <2>3. phase = "read_trace" /\ phase' = phase /\ i' = i /\ block_sizes' = block_sizes
    BY <1>2 DEF ReadLine, blockVars
  <2>4. i' \in 1 .. Len(trace') + 1
    BY <1>1, <2>2, <2>3
  <2> QED  BY <2>2, <2>3, <2>4 DEF PeakInv
<1>3. CASE ReadEnds
  <2>1. /\ phase = "read_trace" /\ phase' = "eval_mm_valid" /\ i' = 1
        /\ trace' = trace /\ block_sizes' = block_sizes
    BY <1>3 DEF ReadEnds, Begin
  <2>2. block_sizes \in [Id -> Nat] /\ Len(trace) # 0
    BY <1>1, <1>3, <2>1, EmptySeq DEF PeakInv, TraceInv, ReadEnds
  <2> QED  BY <1>1, <2>1, <2>2, PeakKept
<1>4. CASE ValidEnds
  <2>1. /\ phase = "eval_mm_valid" /\ phase' = "eval_mm_util" /\ i' = 1 /\ trace' = trace
        /\ block_sizes' = block_sizes /\ total_size' = 0 /\ max_total_size' = 0
    BY <1>4 DEF ValidEnds, Begin, blockVars
  <2>2. block_sizes' \in [Id -> Nat] /\ Len(trace') # 0
    BY <2>1 DEF PeakInv
  <2>3. LiveIds(i - 1)' = {}
    <3>1. i' - 1 = 0 /\ LiveIds(0)' = {}
      BY <2>1, NoneLive DEF LiveIds, Before
    <3> QED  BY <3>1 DEF LiveIds, Before
  <2>4. total_size' = SumOf(block_sizes', LiveIds(i - 1)')
    BY <2>1, <2>2, <2>3, SumIs
  <2>5. 1 .. i' - 1 = {}
    BY <2>1
  <2>6. UtilInv'
    BY <2>1, <2>3, <2>4, <2>5 DEF UtilInv
  <2>7. TraceInv'
    BY <1>1, <2>1 DEF TraceInv, Placed, LiveIds, Before
  <2>8. i' \in 1 .. Len(trace') + 1
    BY <1>1, <2>1
  <2> QED  BY <2>2, <2>6, <2>7, <2>8 DEF PeakInv
<1>5. CASE SpeedBegins
  <2>1. trace' = trace /\ i' = 1 /\ phase' = "eval_mm_speed"
    BY <1>5 DEF SpeedBegins, Begin
  <2> QED  BY <1>1, <2>1, PeakKept
<1>6. CASE Gets
  <2>1. PICK r \in Answers(heap, op, old) :
           ValidGets(r) \/ ValidFails(r) \/ UtilGets(r) \/ SpeedGets(r) \/ Exits(r)
    BY <1>6 DEF Gets
  <2>2. Runs /\ op.type # "FREE"
    BY <1>6 DEF Gets, Asks
  <2>3. /\ i \in Nat /\ i \in 1 .. Len(trace) + 1 /\ i + 1 \in 1 .. Len(trace) + 1
        /\ op.index \in Id /\ op.size \in Nat
    BY <1>1, <2>2, RequestIs, DriverAssumption
  <2>4. CASE ValidGets(r)
    <3>1. /\ phase = "eval_mm_valid" /\ phase' = phase /\ trace' = trace /\ i' = i + 1
          /\ block_sizes' = [block_sizes EXCEPT ![op.index] = op.size]
      BY <2>4 DEF ValidGets, Remember
    <3>2. block_sizes' \in [Id -> Nat] /\ Len(trace) # 0
      BY <2>3, <3>1 DEF PeakInv
    <3> QED  BY <2>3, <3>1, <3>2, PeakKept
  <2>5. CASE UtilGets(r)
    BY <2>2, <2>5, UtilGetsPeak
  <2>6. CASE ValidFails(r) \/ SpeedGets(r) \/ Exits(r)
    <3>1. /\ trace' = trace /\ i' \in {i, i + 1}
          /\ phase' \in {"free_trace", "eval_mm_speed", "exit"}
      BY <2>6 DEF ValidFails, malloc_error, SpeedGets, Exits
    <3>2. i' \in 1 .. Len(trace) + 1
      BY <2>3, <3>1
    <3> QED  BY <3>1, <3>2, PeakKept
  <2> QED  BY <2>1, <2>4, <2>5, <2>6
<1>7. CASE Frees
  <2>1. Runs /\ op.type = "FREE" /\ (ValidFrees \/ UtilFrees \/ SpeedFrees)
    BY <1>7 DEF Frees
  <2>2. i + 1 \in 1 .. Len(trace) + 1
    BY <1>1, <2>1, RequestIs
  <2>3. CASE ValidFrees
    <3>1. /\ phase = "eval_mm_valid" /\ phase' = phase /\ trace' = trace /\ i' = i + 1
          /\ block_sizes' = block_sizes
      BY <2>3 DEF ValidFrees
    <3>2. block_sizes' \in [Id -> Nat] /\ Len(trace) # 0
      BY <3>1 DEF PeakInv
    <3> QED  BY <2>2, <3>1, <3>2, PeakKept
  <2>4. CASE UtilFrees
    BY <2>1, <2>4, UtilFreesPeak
  <2>5. CASE SpeedFrees
    <3>1. trace' = trace /\ i' = i + 1 /\ phase' = "eval_mm_speed"
      BY <2>5 DEF SpeedFrees
    <3> QED  BY <2>2, <3>1, PeakKept
  <2> QED  BY <2>1, <2>3, <2>4, <2>5
<1>8. CASE SpeedEnds
  <2>1. trace' = trace /\ i' = i /\ phase' = "free_trace"
    BY <1>8 DEF SpeedEnds
  <2> QED  BY <1>1, <2>1, PeakKept
<1>9. CASE free_trace
  <2>1. /\ trace' = <<>> /\ i' = 1 /\ phase' \in {"read_trace", "results"}
        /\ block_sizes' = [id \in Id |-> 0]
    BY <1>9 DEF free_trace
  <2>2. TraceInv'
    BY <2>1, NoOps DEF TraceInv
  <2>3. i' \in 1 .. Len(trace') + 1
    BY <2>1, NoOps
  <2> QED  BY <2>1, <2>2, <2>3 DEF PeakInv
<1>10. CASE UNCHANGED vars
  <2>1. UNCHANGED <<phase, trace, i, block_sizes, total_size, max_total_size>>
    BY <1>10 DEF vars, driverVars, blockVars, utilVars
  <2>2. TraceInv' /\ \A k, id : LiveIds(k)' = LiveIds(k) /\ SizeOf(k, id)' = SizeOf(k, id)
    BY <1>1, <2>1 DEF TraceInv, Placed, LiveIds, SizeOf, Before
  <2>3. \A k : Bytes(k)' = Bytes(k)
    BY <2>2 DEF Bytes, Weights
  <2>4. UtilInv => UtilInv'
    BY <2>1, <2>2, <2>3 DEF UtilInv
  <2> QED  BY <2>1, <2>2, <2>4 DEF PeakInv
<1> QED  BY <1>2, <1>3, <1>4, <1>5, <1>6, <1>7, <1>8, <1>9, <1>10 DEF Next, Begins

(* For any traces and any allocator: what eval_mm_util divides by the size *)
(* of the heap is the most bytes the trace holds at once.                  *)
THEOREM UtilizationCountsTheTrace == Spec => []UtilizationIsPeak
<1>1. PeakInv => UtilizationIsPeak
  <2> SUFFICES ASSUME PeakInv, phase = "eval_mm_util", ~More PROVE
          /\ total_size = LiveBytes(Len(trace))
          /\ max_total_size = Max({LiveBytes(k) : k \in 1 .. Len(trace)})
    BY DEF UtilizationIsPeak
  <2> DEFINE n == Len(trace)
  <2>1. n \in Nat /\ n # 0 /\ i - 1 = n /\ UtilInv /\ block_sizes \in [Id -> Nat]
    BY TraceIs DEF PeakInv, TraceInv, More
  <2> HIDE DEF n
  <2>2. \A id \in LiveIds(n) : SizeOf(n, id) = block_sizes[id]
    BY <2>1 DEF UtilInv
  <2>3. total_size = LiveBytes(n)
    BY <2>1, <2>2, LiveBytesIs DEF UtilInv
  <2>4. ASSUME NEW k \in 1 .. n
        PROVE  LiveBytes(k) = Bytes(k) /\ Bytes(k) \in Nat /\ Bytes(k) <= max_total_size
    <3>1. /\ \A id \in LiveIds(k) : SizeOf(k, id) \in Nat
          /\ Bytes(k) \in Nat /\ Bytes(k) <= max_total_size
      BY <2>1 DEF UtilInv
    <3>2. Weights(k) \in [Id -> Nat] /\ \A id \in LiveIds(k) : SizeOf(k, id) = Weights(k)[id]
      BY <3>1 DEF Weights, LiveIds
    <3> QED  BY <3>1, <3>2, LiveBytesIs DEF Bytes
  <2>5. i # 1
    BY <2>1
  <2>6. \E k \in 1 .. n : max_total_size = Bytes(k)
    BY <2>1, <2>5 DEF UtilInv
  <2> DEFINE S == {LiveBytes(k) : k \in 1 .. n}
  <2>7. max_total_size \in S /\ \A m \in S : m \in Int /\ m <= max_total_size
    BY <2>4, <2>6
  <2> HIDE DEF S
  <2>8. Max(S) = max_total_size
    BY <2>7, GreatestIs
  <2> QED  BY <2>3, <2>8 DEF S, n
<1> QED  BY PeakStart, PeakStep, <1>1, PTL DEF Spec
=============================================================================
