---------------------------- MODULE CacheProofs -----------------------------
(***************************************************************************)
(* Theorems about CacheSim: for every number of sets and of lines, every   *)
(* block size and every trace, its types and the distinctness of its lines *)
(* are invariants, its counters add up, and it implements LRU.             *)
(***************************************************************************)
EXTENDS CacheSim, FiniteSetTheorems, TLAPS

LEMMA AddressSplits ==
    ASSUME NEW a \in Address
    PROVE  index(a) \in Sets /\ tag(a) \in Nat /\ tag(a) \in Tags
<1> DEFINE b == a \div block_size
<1>1. a \in Nat /\ set_num \in Nat \ {0} /\ block_size \in Nat \ {0}
  BY GeometryAssumption, TraceAssumption
<1>2. b \in Nat
  BY <1>1
<1>3. (b \div set_num) \in Nat /\ b % set_num \in 0 .. set_num - 1
  BY <1>1, <1>2
<1> QED
  BY <1>3 DEF index, tag, Tags, Sets

(* What every access does to the set s: t is in line l, which is the last  *)
(* used; the other lines in use are one older.                             *)
LineAfter(s, l, t, m) ==
    IF m = l THEN [tag |-> t, lru |-> 1, valid |-> 1]
    ELSE IF m \in Valid(s) THEN [cache[s][m] EXCEPT !.lru = @ + 1]
    ELSE cache[s][m]

Moves(s, l, t) ==
    /\ cache' = [cache EXCEPT ![s] = cache'[s]]
    /\ cache'[s] = [m \in Ways |-> cache'[s][m]]
    /\ \A m \in Ways : cache'[s][m] = LineAfter(s, l, t, m)
    /\ \A m \in Valid(s) \ {l} : cache[s][m].tag # t
    /\ \A m \in Ways : m < l => m \in Valid(s)

LEMMA LineIs ==
    ASSUME TypeOK, NEW s \in Sets, NEW m \in Ways
    PROVE  /\ cache[s][m] \in Line
           /\ m \in Valid(s) <=> cache[s][m] # EmptyLine
           /\ m \in Valid(s) <=> cache[s][m].lru # 0
           /\ m \in Valid(s) => cache[s][m] \in [tag : Tags, lru : Nat \ {0}, valid : {1}]
           /\ m \notin Valid(s) => cache[s][m] = EmptyLine
<1>1. cache[s][m] \in Line
  BY DEF TypeOK
<1> QED
  BY <1>1 DEF Line, Valid, EmptyLine

LEMMA AgedAreValid ==
    ASSUME IInv, NEW s \in Sets
    PROVE  Aged(s) = Valid(s)
<1>1. ASSUME NEW l \in Ways, l \in Aged(s) PROVE l \in Valid(s)
  <2>1. l \in 1 .. l
    BY DEF Ways
  <2> QED
    BY <1>1, <2>1, LineIs DEF Aged, IInv
<1>2. ASSUME NEW l \in Valid(s) PROVE l \in Aged(s)
  <2>1. \A m \in 1 .. l : m \in Valid(s)
    BY DEF IInv, FilledInOrder
  <2> QED
    BY <2>1, LineIs DEF Aged, IInv, Valid
<1> QED
  BY <1>1, <1>2 DEF Aged, Valid

LEMMA HitMoves ==
    ASSUME IInv, NEW s \in Sets, NEW t \in Tags, NEW op, Hit(s, t, op)
    PROVE  \E l \in Valid(s) : cache[s][l].tag = t /\ Moves(s, l, t)
<1>0. TypeOK /\ cache \in [Sets -> [Ways -> Line]]
  BY DEF IInv, TypeOK
<1>1. PICK l \in Ways :
        /\ First(l, Holding(s, t))
        /\ cache' = [cache EXCEPT ![s] = [Older(cache[s], Aged(s)) EXCEPT ![l].lru = 1]]
  BY DEF Hit
<1>2. l \in Valid(s) /\ cache[s][l].tag = t
  BY <1>0, <1>1, LineIs DEF First, Holding, Valid, EmptyLine
<1>3. cache'[s] = [Older(cache[s], Valid(s)) EXCEPT ![l].lru = 1]
  BY <1>0, <1>1, AgedAreValid
<1>4. ASSUME NEW m \in Ways
      PROVE  cache'[s][m] = LineAfter(s, l, t, m)
  <2>1. CASE m = l
    <3>1. cache[s][l] \in [tag : Tags, lru : Nat \ {0}, valid : {1}]
      BY <1>0, <1>2, LineIs
    <3> QED
      BY <2>1, <3>1, <1>2, <1>3 DEF Older, LineAfter
  <2>2. CASE m # l
    BY <2>2, <1>3 DEF Older, LineAfter
  <2> QED
    BY <2>1, <2>2
<1>5. cache'[s] = [m \in Ways |-> cache'[s][m]]
  BY <1>3 DEF Older
<1>6. \A m \in Valid(s) \ {l} : cache[s][m].tag # t
  BY <1>2 DEF IInv, LinesDiffer
<1>7. \A m \in Ways : m < l => m \in Valid(s)
  BY <1>2 DEF IInv, FilledInOrder, Ways
<1>8. cache' = [cache EXCEPT ![s] = cache'[s]]
  BY <1>0, <1>1
<1> QED
  BY <1>2, <1>4, <1>5, <1>6, <1>7, <1>8 DEF Moves

LEMMA ColdMissMoves ==
    ASSUME IInv, NEW s \in Sets, NEW t \in Tags, NEW op, ColdMiss(s, t, op)
    PROVE  \E l \in Ways \ Valid(s) : Holding(s, t) = {} /\ Moves(s, l, t)
<1>0. TypeOK /\ cache \in [Sets -> [Ways -> Line]]
  BY DEF IInv, TypeOK
<1>1. PICK l \in Ways :
        /\ First(l, Empties(s))
        /\ cache' = [cache EXCEPT ![s] =
                        Older([cache[s] EXCEPT ![l].tag = t, ![l].valid = 1], 1 .. l)]
  BY DEF ColdMiss
<1>2. l \notin Valid(s) /\ cache[s][l] = EmptyLine
  BY <1>0, <1>1, LineIs DEF First, Empties, Valid
<1>3. cache'[s] = Older([cache[s] EXCEPT ![l].tag = t, ![l].valid = 1], 1 .. l)
  BY <1>0, <1>1
<1>4. \A m \in Ways : m < l => m \in Valid(s)
  <2>1. ASSUME NEW m \in Ways, m < l PROVE m \notin Empties(s)
    BY <1>1, <2>1 DEF First, Ways
  <2> QED
    BY <1>0, <2>1, LineIs DEF Empties, EmptyLine
<1>5. \A m \in Valid(s) : m < l
  BY <1>2 DEF IInv, FilledInOrder, Valid, Ways
<1>6. ASSUME NEW m \in Ways
      PROVE  cache'[s][m] = LineAfter(s, l, t, m)
  <2>0. cache[s] \in [Ways -> Line]
    BY <1>0
  <2>1. CASE m = l
    <3>1. l \in 1 .. l
      BY DEF Ways
    <3>2. [cache[s] EXCEPT ![l].tag = t, ![l].valid = 1][l] = [tag |-> t, lru |-> 0, valid |-> 1]
      BY <1>2, <2>0 DEF EmptyLine
    <3> QED
      BY <2>1, <3>1, <3>2, <1>3 DEF Older, LineAfter
  <2>2. CASE m # l
    <3>1. m \in 1 .. l <=> m \in Valid(s)
      BY <2>2, <1>4, <1>5 DEF Ways, Valid
    <3>2. [cache[s] EXCEPT ![l].tag = t, ![l].valid = 1][m] = cache[s][m]
      BY <2>0, <2>2
    <3> QED
      BY <2>2, <3>1, <3>2, <1>3 DEF Older, LineAfter
  <2> QED
    BY <2>1, <2>2
<1>7. cache'[s] = [m \in Ways |-> cache'[s][m]]
  BY <1>3 DEF Older
<1>8. Holding(s, t) = {}
  BY DEF ColdMiss
<1>9. \A m \in Valid(s) \ {l} : cache[s][m].tag # t
  BY <1>8 DEF Holding, Valid
<1>10. cache' = [cache EXCEPT ![s] = cache'[s]]
  BY <1>0, <1>1
<1> QED
  BY <1>2, <1>4, <1>6, <1>7, <1>8, <1>9, <1>10 DEF Moves

LEMMA EvictMoves ==
    ASSUME IInv, NEW s \in Sets, NEW t \in Tags, NEW op, Evict(s, t, op)
    PROVE  \E l \in Ways : /\ Valid(s) = Ways /\ Holding(s, t) = {}
                           /\ l \in Oldest(s)
                           /\ Moves(s, l, t)
<1>0. TypeOK /\ cache \in [Sets -> [Ways -> Line]]
  BY DEF IInv, TypeOK
<1>1. PICK l \in Ways :
        /\ First(l, Oldest(s))
        /\ cache' = [cache EXCEPT ![s] =
                        Older([cache[s] EXCEPT ![l].tag = t, ![l].lru = 0], Ways)]
  BY DEF Evict
<1>2. Valid(s) = Ways
  <2>1. Empties(s) = {}
    BY DEF Evict
  <2> QED
    BY <1>0, <2>1, LineIs DEF Empties, EmptyLine, Valid
<1>3. cache'[s] = Older([cache[s] EXCEPT ![l].tag = t, ![l].lru = 0], Ways)
  BY <1>0, <1>1
<1>4. ASSUME NEW m \in Ways
      PROVE  cache'[s][m] = LineAfter(s, l, t, m)
  <2>0. cache[s] \in [Ways -> Line]
    BY <1>0
  <2>1. CASE m = l
    <3>1. cache[s][l] \in [tag : Tags, lru : Nat \ {0}, valid : {1}]
      BY <1>0, <1>2, LineIs
    <3>2. [cache[s] EXCEPT ![l].tag = t, ![l].lru = 0][l] = [tag |-> t, lru |-> 0, valid |-> 1]
      BY <3>1, <2>0
    <3> QED
      BY <2>1, <3>2, <1>3 DEF Older, LineAfter
  <2>2. CASE m # l
    <3>1. [cache[s] EXCEPT ![l].tag = t, ![l].lru = 0][m] = cache[s][m]
      BY <2>0, <2>2
    <3> QED
      BY <2>2, <3>1, <1>2, <1>3 DEF Older, LineAfter
  <2> QED
    BY <2>1, <2>2
<1>5. cache'[s] = [m \in Ways |-> cache'[s][m]]
  BY <1>3 DEF Older
<1>6. Holding(s, t) = {}
  BY DEF Evict
<1>7. \A m \in Valid(s) \ {l} : cache[s][m].tag # t
  BY <1>6 DEF Holding, Valid
<1>8. cache' = [cache EXCEPT ![s] = cache'[s]]
  BY <1>0, <1>1
<1> QED
  BY <1>1, <1>2, <1>4, <1>5, <1>6, <1>7, <1>8 DEF Moves, First

LEMMA LinesAfter ==
    ASSUME IInv, NEW s \in Sets, NEW l \in Ways, NEW t \in Tags, Moves(s, l, t)
    PROVE  /\ cache' \in [Sets -> [Ways -> Line]]
           /\ \A u \in Sets \ {s} : cache'[u] = cache[u] /\ Valid(u)' = Valid(u)
           /\ Valid(s)' = Valid(s) \cup {l}
           /\ cache'[s][l] = [tag |-> t, lru |-> 1, valid |-> 1]
           /\ \A m \in Valid(s) \ {l} :
                /\ cache'[s][m].tag = cache[s][m].tag
                /\ cache'[s][m].lru = cache[s][m].lru + 1
                /\ cache[s][m].lru \in Nat \ {0}
<1>1. TypeOK /\ cache \in [Sets -> [Ways -> Line]]
  BY DEF IInv, TypeOK
<1>2. /\ cache' = [cache EXCEPT ![s] = cache'[s]]
      /\ cache'[s] = [m \in Ways |-> cache'[s][m]]
      /\ \A m \in Ways : cache'[s][m] = LineAfter(s, l, t, m)
  BY DEF Moves
<1>3. cache'[s][l] = [tag |-> t, lru |-> 1, valid |-> 1]
  BY <1>2 DEF LineAfter
<1>4. ASSUME NEW m \in Valid(s) \ {l}
      PROVE  /\ cache'[s][m] \in [tag : Tags, lru : Nat \ {0}, valid : {1}]
             /\ cache'[s][m].tag = cache[s][m].tag
             /\ cache'[s][m].lru = cache[s][m].lru + 1
             /\ cache[s][m].lru \in Nat \ {0}
  <2>1. m \in Ways /\ cache[s][m] \in [tag : Tags, lru : Nat \ {0}, valid : {1}]
    BY <1>1, LineIs DEF Valid
  <2>2. cache'[s][m] = [cache[s][m] EXCEPT !.lru = @ + 1]
    BY <1>2, <2>1 DEF LineAfter
  <2> QED
    BY <2>1, <2>2
<1>5. ASSUME NEW m \in Ways, m \notin Valid(s), m # l
      PROVE  cache'[s][m] = EmptyLine
  BY <1>1, <1>2, <1>5, LineIs DEF LineAfter
<1>6. ASSUME NEW m \in Ways PROVE cache'[s][m] \in Line
  <2>1. [tag |-> t, lru |-> 1, valid |-> 1] \in Line
    BY DEF Line
  <2> QED
    BY <2>1, <1>3, <1>4, <1>5 DEF Line
<1>7. cache'[s] \in [Ways -> Line]
  BY <1>2, <1>6
<1>8. cache' \in [Sets -> [Ways -> Line]]
  BY <1>1, <1>2, <1>7
<1>9. \A u \in Sets \ {s} : cache'[u] = cache[u]
  BY <1>1, <1>2
<1>10. \A u \in Sets \ {s} : Valid(u)' = Valid(u)
  BY <1>9 DEF Valid
<1>11. Valid(s)' = Valid(s) \cup {l}
  BY <1>3, <1>4, <1>5 DEF Valid, EmptyLine
<1> QED
  BY <1>3, <1>4, <1>8, <1>9, <1>10, <1>11

LEMMA MovesKeepInv ==
    ASSUME IInv, NEW s \in Sets, NEW l \in Ways, NEW t \in Tags, Moves(s, l, t)
    PROVE  LinesDiffer' /\ FilledInOrder'
<1>1. LinesDiffer /\ FilledInOrder
  BY DEF IInv
<1>2. \A m \in Valid(s) \ {l} : cache[s][m].tag # t
  BY DEF Moves
<1>3. \A m \in Ways : m < l => m \in Valid(s)
  BY DEF Moves
<1>4. LinesDiffer'
  <2> SUFFICES ASSUME NEW u \in Sets, NEW j \in Valid(u)', NEW k \in Valid(u)', j # k
               PROVE  /\ cache'[u][j].tag # cache'[u][k].tag
                      /\ cache'[u][j].lru # cache'[u][k].lru
    BY DEF LinesDiffer
  <2>1. CASE u # s
    <3>1. cache'[u] = cache[u] /\ Valid(u)' = Valid(u)
      BY <2>1, LinesAfter
    <3> QED
      BY <3>1, <1>1 DEF LinesDiffer
  <2>2. CASE u = s
    <3>0. /\ Valid(s)' = Valid(s) \cup {l}
          /\ cache'[s][l] = [tag |-> t, lru |-> 1, valid |-> 1]
          /\ \A m \in Valid(s) \ {l} :
                /\ cache'[s][m].tag = cache[s][m].tag
                /\ cache'[s][m].lru = cache[s][m].lru + 1
                /\ cache[s][m].lru \in Nat \ {0}
      BY LinesAfter
    <3>1. CASE j = l
      BY <2>2, <3>0, <3>1, <1>2
    <3>2. CASE k = l
      BY <2>2, <3>0, <3>2, <1>2
    <3>3. CASE j # l /\ k # l
      BY <2>2, <3>0, <3>3, <1>1 DEF LinesDiffer
    <3> QED
      BY <3>1, <3>2, <3>3
  <2> QED
    BY <2>1, <2>2
<1>5. FilledInOrder'
  <2> SUFFICES ASSUME NEW u \in Sets, NEW j \in Valid(u)', NEW k \in 1 .. j
               PROVE  k \in Valid(u)'
    BY DEF FilledInOrder
  <2>1. CASE u # s
    <3>1. Valid(u)' = Valid(u)
      BY <2>1, LinesAfter
    <3> QED
      BY <3>1, <1>1 DEF FilledInOrder
  <2>2. CASE u = s
    <3>1. Valid(s)' = Valid(s) \cup {l}
      BY LinesAfter
    <3>2. CASE j = l
      <4>1. k \in Ways /\ (k = l \/ k < l)
        BY <3>2, GeometryAssumption DEF Ways
      <4> QED
        BY <2>2, <3>1, <4>1, <1>3
    <3>3. CASE j \in Valid(s)
      BY <2>2, <3>1, <3>3, <1>1 DEF FilledInOrder
    <3> QED
      BY <2>2, <3>1, <3>2, <3>3
  <2> QED
    BY <2>1, <2>2
<1> QED
  BY <1>4, <1>5

LEMMA ExtraType == \A op : Extra(op) \in {0, 1}
  BY DEF Extra

LEMMA AccessMoves ==
    ASSUME IInv, NEW s \in Sets, NEW t \in Tags, NEW op, Accesses(s, t, op)
    PROVE  \E l \in Ways : Moves(s, l, t)
<1>1. CASE Hit(s, t, op)
  BY <1>1, HitMoves DEF Valid
<1>2. CASE ColdMiss(s, t, op)
  BY <1>2, ColdMissMoves
<1>3. CASE Evict(s, t, op)
  BY <1>3, EvictMoves
<1> QED
  BY <1>1, <1>2, <1>3 DEF Accesses

LEMMA CountersType ==
    ASSUME TypeOK, NEW s, NEW t, NEW op, Accesses(s, t, op)
    PROVE  hits' \in Nat /\ misses' \in Nat /\ evicts' \in Nat
  BY ExtraType DEF Accesses, Hit, ColdMiss, Evict, TypeOK

LEMMA InitInv == Init => IInv
<1> SUFFICES ASSUME Init PROVE IInv
  OBVIOUS
<1>1. cache \in [Sets -> [Ways -> Line]]
  BY DEF Init, Line
<1>2. TypeOK
  <2>1. read \in 0 .. TRACE_LENGTH
    BY TraceAssumption DEF Init
  <2>2. hits \in Nat /\ misses \in Nat /\ evicts \in Nat
    BY DEF Init
  <2> QED
    BY <1>1, <2>1, <2>2 DEF Init, TypeOK
<1>3. \A s \in Sets : Valid(s) = {}
  BY DEF Init, Valid, EmptyLine
<1> QED
  BY <1>2, <1>3 DEF IInv, LinesDiffer, FilledInOrder

LEMMA SimKeepsInv ==
    ASSUME IInv, NEW a \in TraceLine, cache_sim(a)
    PROVE  IInv'
<1>1. a.address \in Address
  BY DEF TraceLine
<1>2. /\ Accesses(index(a.address), tag(a.address), a.op)
      /\ line' = a /\ read < TRACE_LENGTH /\ read' = read + 1 /\ overrun' = overrun
  BY DEF cache_sim
<1>3. index(a.address) \in Sets /\ tag(a.address) \in Tags
  BY <1>1, AddressSplits
<1>4. PICK l \in Ways : Moves(index(a.address), l, tag(a.address))
  BY <1>2, <1>3, AccessMoves
<1>5. cache' \in [Sets -> [Ways -> Line]]
  BY <1>3, <1>4, LinesAfter
<1>6. hits' \in Nat /\ misses' \in Nat /\ evicts' \in Nat
  BY <1>2, CountersType DEF IInv
<1>7. read' \in 0 .. TRACE_LENGTH
  BY <1>2, TraceAssumption DEF IInv, TypeOK
<1>8. TypeOK'
  BY <1>2, <1>5, <1>6, <1>7 DEF TypeOK, IInv
<1> QED
  BY <1>3, <1>4, <1>8, MovesKeepInv DEF IInv

LEMMA OverrunKeepsInv ==
    ASSUME IInv, NEW a \in TraceLine, Overruns(a)
    PROVE  IInv'
  BY DEF Overruns, IInv, TypeOK, LinesDiffer, FilledInOrder, Valid

THEOREM Invariance == Spec => []IInv
<1>1. IInv /\ [Next]_vars => IInv'
  <2> SUFFICES ASSUME IInv, [Next]_vars PROVE IInv'
    OBVIOUS
  <2>1. CASE Next
    BY <2>1, SimKeepsInv, OverrunKeepsInv DEF Next
  <2>2. CASE UNCHANGED vars
    BY <2>2 DEF vars, IInv, TypeOK, LinesDiffer, FilledInOrder, Valid
  <2> QED
    BY <2>1, <2>2
<1> QED
  BY <1>1, InitInv, PTL DEF Spec

LEMMA TagsCount ==
    ASSUME IInv, NEW s \in Sets
    PROVE  /\ Cardinality(TagsOf(s)) \in Nat
           /\ Cardinality(TagsOf(s)) = lines_per_set <=> Valid(s) = Ways
           /\ Cardinality(TagsOf(s)) <= lines_per_set
<1> DEFINE f == [m \in Valid(s) |-> cache[s][m].tag]
<1>1. IsFiniteSet(Ways) /\ Cardinality(Ways) = lines_per_set
  <2>1. 1 \in Int /\ lines_per_set \in Int /\ lines_per_set >= 1
    BY GeometryAssumption
  <2> QED
    BY <2>1, FS_Interval DEF Ways
<1>2. Valid(s) \in SUBSET Ways
  BY DEF Valid
<1>3. /\ IsFiniteSet(Valid(s)) /\ Cardinality(Valid(s)) <= lines_per_set
      /\ Cardinality(Valid(s)) = lines_per_set <=> Valid(s) = Ways
  BY <1>1, <1>2, FS_Subset
<1>4. f \in Surjection(Valid(s), TagsOf(s))
  BY DEF Surjection, TagsOf
<1>5. f \in Injection(Valid(s), TagsOf(s))
  BY <1>4 DEF Surjection, Injection, IsInjective, IInv, LinesDiffer
<1>6. Cardinality(TagsOf(s)) = Cardinality(Valid(s)) /\ IsFiniteSet(TagsOf(s))
  <2> HIDE DEF f
  <2> QED
    BY <1>3, <1>4, <1>5, FS_Surjection
<1>7. Cardinality(TagsOf(s)) \in Nat
  BY <1>6, FS_CardinalityType
<1> QED
  BY <1>3, <1>6, <1>7

(* Moves is what LRU's Uses says of the tags and of their order.           *)
LEMMA TagsAfter ==
    ASSUME IInv, NEW s \in Sets, NEW l \in Ways, NEW t \in Tags, Moves(s, l, t)
    PROVE  TagsOf(s)' = {cache[s][m].tag : m \in Valid(s) \ {l}} \cup {t}
<1>1. /\ Valid(s)' = Valid(s) \cup {l}
      /\ cache'[s][l] = [tag |-> t, lru |-> 1, valid |-> 1]
      /\ \A m \in Valid(s) \ {l} : cache'[s][m].tag = cache[s][m].tag
  BY LinesAfter
<1> QED
  BY <1>1 DEF TagsOf

LEMMA OrderAfter ==
    ASSUME IInv, NEW s \in Sets, NEW l \in Ways, NEW t \in Tags, Moves(s, l, t),
           NEW K, K = {cache[s][m].tag : m \in Valid(s) \ {l}}
    PROVE  OlderOf(s)' = {p \in OlderOf(s) : p[1] \in K /\ p[2] \in K} \cup K \X {t}
<1>1. /\ Valid(s)' = Valid(s) \cup {l}
      /\ cache'[s][l] = [tag |-> t, lru |-> 1, valid |-> 1]
      /\ \A m \in Valid(s) \ {l} :
            /\ cache'[s][m].tag = cache[s][m].tag
            /\ cache'[s][m].lru = cache[s][m].lru + 1
            /\ cache[s][m].lru \in Nat \ {0}
  BY LinesAfter
<1>2. TagsOf(s)' = K \cup {t} /\ K \subseteq TagsOf(s)
  BY TagsAfter DEF TagsOf
<1>3. ASSUME NEW p \in OlderOf(s)'
      PROVE  p \in {q \in OlderOf(s) : q[1] \in K /\ q[2] \in K} \cup K \X {t}
  <2>1. PICK j \in Valid(s)', k \in Valid(s)' :
            /\ cache'[s][j].tag = p[1] /\ cache'[s][k].tag = p[2]
            /\ cache'[s][j].lru > cache'[s][k].lru
    BY DEF OlderOf
  <2>2. p \in TagsOf(s)' \X TagsOf(s)'
    BY DEF OlderOf
  <2>3. j # l /\ j \in Valid(s) \ {l}
    BY <1>1, <2>1
  <2>4. cache[s][j].tag = p[1] /\ p[1] \in K
    BY <1>1, <2>1, <2>3
  <2>5. CASE k = l
    <3>1. p[2] = t
      BY <1>1, <2>1, <2>5
    <3>2. p = <<p[1], p[2]>>
      BY <2>2
    <3> QED
      BY <2>4, <3>1, <3>2
  <2>6. CASE k # l
    <3>1. k \in Valid(s) \ {l}
      BY <1>1, <2>6
    <3>2. cache[s][k].tag = p[2] /\ p[2] \in K
      BY <1>1, <2>1, <3>1
    <3>3. cache[s][j].lru > cache[s][k].lru
      BY <1>1, <2>1, <2>3, <3>1
    <3>4. p \in TagsOf(s) \X TagsOf(s)
      BY <1>2, <2>2, <2>4, <3>2
    <3>5. p \in OlderOf(s)
      BY <2>3, <2>4, <3>1, <3>2, <3>3, <3>4 DEF OlderOf
    <3> QED
      BY <2>4, <3>2, <3>5
  <2> QED
    BY <2>5, <2>6
<1>4. ASSUME NEW p \in OlderOf(s), p[1] \in K, p[2] \in K
      PROVE  p \in OlderOf(s)'
  <2>1. PICK j \in Valid(s), k \in Valid(s) :
            /\ cache[s][j].tag = p[1] /\ cache[s][k].tag = p[2]
            /\ cache[s][j].lru > cache[s][k].lru
    BY DEF OlderOf
  <2>2. j # l /\ k # l
    BY <1>4, <2>1 DEF IInv, LinesDiffer
  <2>3. /\ j \in Valid(s)' /\ k \in Valid(s)'
        /\ cache'[s][j].tag = p[1] /\ cache'[s][k].tag = p[2]
        /\ cache'[s][j].lru > cache'[s][k].lru
    BY <1>1, <2>1, <2>2
  <2>4. p \in TagsOf(s)' \X TagsOf(s)'
    BY <1>2, <1>4 DEF OlderOf
  <2> QED
    BY <2>3, <2>4 DEF OlderOf
<1>5. ASSUME NEW p \in K \X {t}
      PROVE  p \in OlderOf(s)'
  <2>1. PICK j \in Valid(s) \ {l} : cache[s][j].tag = p[1]
    OBVIOUS
  <2>2. /\ j \in Valid(s)' /\ l \in Valid(s)'
        /\ cache'[s][j].tag = p[1] /\ cache'[s][l].tag = p[2]
        /\ cache'[s][j].lru > cache'[s][l].lru
    BY <1>1, <2>1
  <2>3. p \in TagsOf(s)' \X TagsOf(s)'
    BY <1>2
  <2> QED
    BY <2>2, <2>3 DEF OlderOf
<1> QED
  BY <1>3, <1>4, <1>5

LEMMA MovesUse ==
    ASSUME IInv, NEW s \in Sets, NEW l \in Ways, NEW t \in Tags, Moves(s, l, t),
           NEW keep, keep \ {t} = {cache[s][m].tag : m \in Valid(s) \ {l}}
    PROVE  Abstract!Uses(s, keep, t)
<1>1. \A u \in Sets \ {s} : TagsOf(u)' = TagsOf(u) /\ OlderOf(u)' = OlderOf(u)
  <2> SUFFICES ASSUME NEW u \in Sets \ {s}
               PROVE  TagsOf(u)' = TagsOf(u) /\ OlderOf(u)' = OlderOf(u)
    OBVIOUS
  <2>1. cache'[u] = cache[u] /\ Valid(u)' = Valid(u)
    BY LinesAfter
  <2> QED
    BY <2>1 DEF TagsOf, OlderOf
<1>2. TagsOf(s)' = keep \cup {t}
  BY TagsAfter
<1>3. OlderOf(s)' = {p \in OlderOf(s) : p[1] \in keep \ {t} /\ p[2] \in keep \ {t}}
                        \cup (keep \ {t}) \X {t}
  <2>1. PICK K : K = keep \ {t}
    OBVIOUS
  <2>2. OlderOf(s)' = {p \in OlderOf(s) : p[1] \in K /\ p[2] \in K} \cup K \X {t}
    BY <2>1, OrderAfter
  <2> QED
    BY <2>1, <2>2
<1>4. cached' = [cached EXCEPT ![s] = keep \cup {t}]
  BY <1>1, <1>2 DEF cached
<1>5. older' = [older EXCEPT ![s] =
                    {p \in older[s] : p[1] \in keep \ {t} /\ p[2] \in keep \ {t}}
                        \cup (keep \ {t}) \X {t}]
  BY <1>1, <1>3 DEF older
<1> QED
  BY <1>4, <1>5 DEF Abstract!Uses

(* The access that the line a of the trace makes.                          *)
AccessOf(a) ==
    [set |-> index(a.address), tag |-> tag(a.address), extra |-> Extra(a.op)]

LEMMA AccessOfType ==
    ASSUME NEW a \in TraceLine
    PROVE  /\ AccessOf(a) \in Abstract!Access
           /\ AccessOf(a).set \in Sets /\ AccessOf(a).tag \in Tags
<1>1. a.address \in Address
  BY DEF TraceLine
<1> QED
  BY <1>1, AddressSplits, ExtraType DEF AccessOf, Abstract!Access

LEMMA HitImplements ==
    ASSUME IInv, NEW a \in TraceLine, Hit(index(a.address), tag(a.address), a.op)
    PROVE  Abstract!Hit(AccessOf(a))
<1> DEFINE s == index(a.address)
           t == tag(a.address)
<1>1. s \in Sets /\ t \in Tags
  BY AccessOfType DEF AccessOf
<1>2. PICK l \in Valid(s) : cache[s][l].tag = t /\ Moves(s, l, t)
  BY <1>1, HitMoves
<1>3. t \in cached[s] /\ cached[s] = TagsOf(s)
  BY <1>1, <1>2 DEF cached, TagsOf
<1>4. cached[s] \ {t} = {cache[s][m].tag : m \in Valid(s) \ {l}}
  BY <1>1, <1>2, <1>3 DEF TagsOf, IInv, LinesDiffer
<1>5. Abstract!Uses(s, cached[s], t)
  BY <1>1, <1>2, <1>4, MovesUse DEF Valid
<1>6. hits' = hits + 1 + Extra(a.op) /\ UNCHANGED <<misses, evicts>>
  BY DEF Hit
<1> QED
  BY <1>3, <1>5, <1>6 DEF Abstract!Hit, AccessOf

LEMMA NotHeld ==
    ASSUME NEW s \in Sets, NEW t, Holding(s, t) = {}
    PROVE  t \notin cached[s]
  BY DEF Holding, cached, TagsOf, Valid

LEMMA SameCardinality == \A S : Abstract!Cardinality(S) = Cardinality(S)
  BY DEF Cardinality, Abstract!Cardinality

LEMMA ColdMissImplements ==
    ASSUME IInv, NEW a \in TraceLine, ColdMiss(index(a.address), tag(a.address), a.op)
    PROVE  Abstract!Load(AccessOf(a))
<1> DEFINE s == index(a.address)
           t == tag(a.address)
<1>1. s \in Sets /\ t \in Tags
  BY AccessOfType DEF AccessOf
<1>2. PICK l \in Ways \ Valid(s) : Holding(s, t) = {} /\ Moves(s, l, t)
  BY <1>1, ColdMissMoves
<1>3. t \notin cached[s] /\ cached[s] = TagsOf(s)
  BY <1>1, <1>2, NotHeld DEF cached
<1>4. cached[s] \ {t} = {cache[s][m].tag : m \in Valid(s) \ {l}}
  BY <1>2, <1>3 DEF TagsOf
<1>5. Abstract!Uses(s, cached[s], t)
  BY <1>1, <1>2, <1>4, MovesUse
<1>6. Cardinality(cached[s]) < lines_per_set
  BY <1>1, <1>2, <1>3, TagsCount, GeometryAssumption
<1>7. hits' = hits + Extra(a.op) /\ misses' = misses + 1 /\ UNCHANGED evicts
  BY DEF ColdMiss
<1> QED
  BY <1>3, <1>5, <1>6, <1>7, SameCardinality DEF Abstract!Load, AccessOf

(* The victim, whose age is the largest, was used before all the others.   *)
LEMMA EvictImplements ==
    ASSUME IInv, NEW a \in TraceLine, Evict(index(a.address), tag(a.address), a.op)
    PROVE  Abstract!Replace(AccessOf(a))
<1> DEFINE s == index(a.address)
           t == tag(a.address)
<1>1. s \in Sets /\ t \in Tags
  BY AccessOfType DEF AccessOf
<1>2. PICK l \in Ways : /\ Valid(s) = Ways /\ Holding(s, t) = {}
                        /\ l \in Oldest(s)
                        /\ Moves(s, l, t)
  BY <1>1, EvictMoves
<1> DEFINE victim == cache[s][l].tag
<1>3. t \notin cached[s] /\ cached[s] = TagsOf(s)
  BY <1>1, <1>2, NotHeld DEF cached
<1>4. victim \in cached[s]
  BY <1>2, <1>3 DEF TagsOf
<1>5. (cached[s] \ {victim}) \ {t} = {cache[s][m].tag : m \in Valid(s) \ {l}}
  BY <1>1, <1>2, <1>3 DEF TagsOf, IInv, LinesDiffer
<1>6. Abstract!Uses(s, cached[s] \ {victim}, t)
  BY <1>1, <1>2, <1>5, MovesUse
<1>7. ASSUME NEW u \in cached[s] \ {victim}
      PROVE  <<victim, u>> \in older[s]
  <2>1. PICK m \in Valid(s) : cache[s][m].tag = u /\ m # l
    BY <1>3, <1>7 DEF TagsOf
  <2>2. cache[s][m].lru <= cache[s][l].lru /\ cache[s][m].lru # cache[s][l].lru
    BY <1>1, <1>2, <2>1 DEF Oldest, IInv, LinesDiffer
  <2>3. cache[s][m].lru \in Nat /\ cache[s][l].lru \in Nat
    BY <1>1, <1>2, <2>1, LineIs DEF IInv
  <2>4. cache[s][l].lru > cache[s][m].lru
    BY <2>2, <2>3
  <2>5. <<victim, u>> \in OlderOf(s)
    BY <1>2, <1>3, <1>4, <2>1, <2>4 DEF OlderOf
  <2> QED
    BY <1>1, <2>5 DEF older
<1>8. Cardinality(cached[s]) = lines_per_set
  BY <1>1, <1>2, <1>3, TagsCount
<1>9. /\ hits' = hits + Extra(a.op) /\ misses' = misses + 1 /\ evicts' = evicts + 1
  BY DEF Evict
<1> HIDE DEF victim
<1> QED
  BY <1>3, <1>4, <1>6, <1>7, <1>8, <1>9, SameCardinality DEF Abstract!Replace, AccessOf

LEMMA InitImplements == Init => Abstract!Init
<1> SUFFICES ASSUME Init PROVE Abstract!Init
  OBVIOUS
<1>1. \A s \in Sets : TagsOf(s) = {} /\ OlderOf(s) = {}
  BY DEF Init, TagsOf, OlderOf, Valid, EmptyLine
<1>2. access = AccessOf(line) /\ line \in TraceLine
  BY DEF Init, access, AccessOf
<1>3. access \in Abstract!Access
  BY <1>2, AccessOfType
<1> QED
  BY <1>1, <1>3 DEF Init, Abstract!Init, cached, older

LEMMA StepImplements ==
    ASSUME IInv, [Next]_vars
    PROVE  [Abstract!Next]_(Abstract!vars)
<1>1. CASE UNCHANGED vars
  BY <1>1 DEF vars, Abstract!vars, access, cached, older, TagsOf, OlderOf, Valid
<1>2. ASSUME NEW a \in TraceLine, cache_sim(a)
      PROVE  Abstract!Next
  <2>1. Accesses(index(a.address), tag(a.address), a.op) /\ line' = a
    BY <1>2 DEF cache_sim
  <2>2. access' = AccessOf(a)
    BY <2>1 DEF access, AccessOf
  <2>3. \/ Abstract!Hit(AccessOf(a))
        \/ Abstract!Load(AccessOf(a))
        \/ Abstract!Replace(AccessOf(a))
    BY <2>1, HitImplements, ColdMissImplements, EvictImplements DEF Accesses
  <2> QED
    BY <2>2, <2>3, AccessOfType DEF Abstract!Next
<1>3. ASSUME NEW a \in TraceLine, Overruns(a)
      PROVE  UNCHANGED Abstract!vars
  BY <1>3 DEF Overruns, Abstract!vars, access, cached, older, TagsOf, OlderOf, Valid
<1> QED
  BY <1>1, <1>2, <1>3 DEF Next

(* The pairs of a set and a line in use.                                   *)
InUse == {p \in Sets \X Ways : p[2] \in Valid(p[1])}

LEMMA InUseFinite == IsFiniteSet(InUse)
<1>1. IsFiniteSet(Sets) /\ IsFiniteSet(Ways)
  <2>1. 0 \in Int /\ 1 \in Int /\ lines_per_set \in Int /\ set_num - 1 \in Int
    BY GeometryAssumption
  <2> QED
    BY <2>1, FS_Interval DEF Sets, Ways
<1>2. IsFiniteSet(Sets \X Ways)
  BY <1>1, FS_Product
<1>3. InUse \in SUBSET (Sets \X Ways)
  BY DEF InUse
<1> QED
  BY <1>2, <1>3, FS_Subset

LEMMA InUseAfter ==
    ASSUME IInv, NEW s \in Sets, NEW l \in Ways, NEW t \in Tags, Moves(s, l, t)
    PROVE  InUse' = InUse \cup {<<s, l>>}
<1>1. /\ Valid(s)' = Valid(s) \cup {l}
      /\ \A u \in Sets \ {s} : Valid(u)' = Valid(u)
  BY LinesAfter
<1>2. ASSUME NEW u \in Sets, NEW m \in Ways
      PROVE  m \in Valid(u)' <=> m \in Valid(u) \/ <<u, m>> = <<s, l>>
  BY <1>1
<1> QED
  BY <1>2 DEF InUse

LEMMA AccessCounts ==
    ASSUME IInv, CountersAddUp, NEW s \in Sets, NEW t \in Tags, NEW op,
           Accesses(s, t, op)
    PROVE  CountersAddUp'
<1>1. /\ misses = evicts + Cardinality(InUse)
      /\ misses \in Nat /\ evicts \in Nat /\ Cardinality(InUse) \in Nat
  BY InUseFinite, FS_CardinalityType DEF CountersAddUp, InUse, IInv, TypeOK
<1>2. SUFFICES misses' = evicts' + Cardinality(InUse')
  BY DEF CountersAddUp, InUse
<1>3. CASE Hit(s, t, op)
  <2>1. PICK l \in Valid(s) : Moves(s, l, t)
    BY <1>3, HitMoves
  <2>2. InUse' = InUse
    BY <2>1, InUseAfter DEF InUse, Valid
  <2> QED
    BY <1>1, <1>3, <2>2 DEF Hit
<1>4. CASE ColdMiss(s, t, op)
  <2>1. PICK l \in Ways \ Valid(s) : Moves(s, l, t)
    BY <1>4, ColdMissMoves
  <2>2. InUse' = InUse \cup {<<s, l>>} /\ <<s, l>> \notin InUse
    BY <2>1, InUseAfter DEF InUse
  <2>3. Cardinality(InUse') = Cardinality(InUse) + 1
    BY <2>2, InUseFinite, FS_AddElement
  <2>4. misses' = misses + 1 /\ evicts' = evicts
    BY <1>4 DEF ColdMiss
  <2> QED
    BY <1>1, <2>3, <2>4
<1>5. CASE Evict(s, t, op)
  <2>1. PICK l \in Ways : Valid(s) = Ways /\ Moves(s, l, t)
    BY <1>5, EvictMoves
  <2>2. InUse' = InUse
    BY <2>1, InUseAfter DEF InUse
  <2>3. misses' = misses + 1 /\ evicts' = evicts + 1
    BY <1>5 DEF Evict
  <2> QED
    BY <1>1, <2>2, <2>3
<1> QED
  BY <1>3, <1>4, <1>5 DEF Accesses

(* The words of every line are those of an empty line or of a block of the *)
(* trace with an age.                                                      *)
THEOREM TypeCorrect == Spec => []TypeOK
  BY Invariance, PTL DEF IInv

(* No block is held twice and no two lines of a set have the same age.     *)
THEOREM LinesAreDistinct == Spec => []LinesDiffer
  BY Invariance, PTL DEF IInv

(* Misses are evictions and lines in use.                                  *)
THEOREM CountersAgree == Spec => []CountersAddUp
<1>1. Init => CountersAddUp
  <2> SUFFICES ASSUME Init PROVE CountersAddUp
    OBVIOUS
  <2>1. \A s \in Sets : Valid(s) = {}
    BY DEF Init, Valid, EmptyLine
  <2>2. {p \in Sets \X Ways : p[2] \in Valid(p[1])} = {}
    BY <2>1
  <2> QED
    BY <2>2, FS_EmptySet DEF Init, CountersAddUp
<1>2. CountersAddUp /\ IInv /\ [Next]_vars => CountersAddUp'
  <2> SUFFICES ASSUME CountersAddUp, IInv, [Next]_vars PROVE CountersAddUp'
    OBVIOUS
  <2>1. ASSUME NEW a \in TraceLine, cache_sim(a) PROVE CountersAddUp'
    <3>1. a.address \in Address
      BY DEF TraceLine
    <3> QED
      BY <2>1, <3>1, AddressSplits, AccessCounts DEF cache_sim
  <2>2. ASSUME NEW a \in TraceLine, Overruns(a) PROVE CountersAddUp'
    BY <2>2 DEF Overruns, CountersAddUp, Valid
  <2>3. CASE UNCHANGED vars
    BY <2>3 DEF vars, CountersAddUp, Valid
  <2> QED
    BY <2>1, <2>2, <2>3 DEF Next
<1> QED
  BY <1>1, <1>2, Invariance, PTL DEF Spec

(* csim.c counts what an LRU cache of its geometry counts.                 *)
THEOREM CacheImplementsLRU == Spec => ImplementsLRU
<1>1. Init => Abstract!Init
  BY InitImplements
<1>2. IInv /\ [Next]_vars => [Abstract!Next]_(Abstract!vars)
  BY StepImplements
<1> QED
  BY <1>1, <1>2, Invariance, PTL DEF Spec, ImplementsLRU, Abstract!Spec
=============================================================================
