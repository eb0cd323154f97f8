-------------------------- MODULE ConnectionProofs --------------------------
(***************************************************************************)
(* Theorems about Connection: a call that opens a socket leaves no         *)
(* descriptor behind, and the Rio package keeps what Stream promises.      *)
(***************************************************************************)
EXTENDS Connection, NaturalsInduction, WellFoundedInduction, SequenceTheorems, TLAPS

(***************************************************************************)
(* The sockets.                                                            *)
(***************************************************************************)
(* OpensCleanly is about calls that have returned; how many descriptors a  *)
(* side has open, and that it is yet to return, follows before from where  *)
(* it is.                                                                  *)
Place == {"before", "walks", "found", "after"}
OpenTypes ==
    /\ at \in [Side -> Place] /\ held \in [Side -> BOOLEAN]
    /\ fds \in [Side -> Nat] /\ rc \in [Side -> {"none", "ok", "error"}]
    /\ stuck \in [Side -> BOOLEAN]
OpenSide(s) ==
    /\ at[s] \in {"before", "walks"} => fds[s] = 0
    /\ at[s] = "found" => fds[s] = 1
    /\ at[s] = "before" => ~held[s]
    /\ at[s] = "after" => /\ fds[s] = IF rc[s] = "ok" THEN 1 ELSE 0
                          /\ held[s] => stuck[s]
OpenInv == OpenTypes /\ \A s \in Side : OpenSide(s)

LEMMA OpenStart == Init => OpenInv
<1> SUFFICES ASSUME SocketsInit PROVE OpenInv
  BY DEF Init
<1>1. OpenTypes
  BY DEF SocketsInit, OpenTypes, Place
<1>2. ASSUME NEW s \in Side PROVE OpenSide(s)
  BY DEF SocketsInit, OpenSide
<1> QED  BY <1>1, <1>2 DEF OpenInv

(* A step of the sockets is one side's: it keeps the types and that side's *)
(* part of the invariant.                                                  *)
LEMMA WalkStep ==
    ASSUME OpenInv, NEW s \in Side, Walks(s)
    PROVE  OpenInv'
<1>1. OpenTypes /\ \A r \in Side : OpenSide(r)
  BY DEF OpenInv
<1>2. CASE getaddrinfo(s)
  <2>1. OpenTypes'
    BY <1>1, <1>2 DEF getaddrinfo, Returned, OpenTypes, Place
  <2>2. ASSUME NEW r \in Side PROVE OpenSide(r)'
    BY <1>1, <1>2 DEF getaddrinfo, Returned, OpenTypes, OpenSide
  <2> QED  BY <2>1, <2>2 DEF OpenInv
<1>3. CASE SocketFails(s)
  BY <1>1, <1>3 DEF SocketFails, OpenInv, OpenTypes, OpenSide
<1>4. CASE Succeeds(s)
  <2>1. OpenTypes'
    BY <1>1, <1>4 DEF Succeeds, OpenTypes, Place
  <2>2. ASSUME NEW r \in Side PROVE OpenSide(r)'
    BY <1>1, <1>4 DEF Succeeds, OpenTypes, OpenSide
  <2> QED  BY <2>1, <2>2 DEF OpenInv
<1>5. CASE FailsAndCloses(s)
  BY <1>1, <1>5 DEF FailsAndCloses, Closed, OpenInv, OpenTypes, OpenSide
<1>6. CASE CloseFails(s)
  <2>1. OpenTypes'
    BY <1>1, <1>6 DEF CloseFails, Returned, OpenTypes, Place
  <2>2. ASSUME NEW r \in Side PROVE OpenSide(r)'
    BY <1>1, <1>6 DEF CloseFails, Returned, OpenTypes, OpenSide
  <2> QED  BY <2>1, <2>2 DEF OpenInv
<1>7. CASE WalkFails(s)
  <2>1. OpenTypes'
    BY <1>1, <1>7 DEF WalkFails, freeaddrinfo, Returned, OpenTypes, Place
  <2>2. ASSUME NEW r \in Side PROVE OpenSide(r)'
    BY <1>1, <1>7 DEF WalkFails, freeaddrinfo, Returned, OpenTypes, OpenSide
  <2> QED  BY <2>1, <2>2 DEF OpenInv
<1> QED  BY <1>2, <1>3, <1>4, <1>5, <1>6, <1>7 DEF Walks

LEMMA OpenStep == OpenInv /\ [Next]_vars => OpenInv'
<1> SUFFICES ASSUME OpenInv, [Next]_vars PROVE OpenInv'
  OBVIOUS
<1> USE DEF OpenInv, OpenTypes, Place
<1>1. CASE \E s \in Side : Walks(s)
  BY <1>1, WalkStep
<1>2. CASE Connected
  BY <1>2 DEF Connected, freeaddrinfo, Returned, OpenSide, Side
<1>3. CASE Listens
  BY <1>3 DEF Listens, freeaddrinfo, Returned, OpenSide, Side
<1>4. CASE ListenFails
  BY <1>4 DEF ListenFails, freeaddrinfo, Returned, OpenSide, Side
<1>5. CASE UNCHANGED openVars
  BY <1>5 DEF openVars, OpenSide
<1>6. SocketsNext \/ UNCHANGED openVars
  BY DEF Next, Opens, Transfers, vars
<1> QED  BY <1>1, <1>2, <1>3, <1>4, <1>5, <1>6 DEF SocketsNext

(* Whatever addresses there are and wherever a system call of the walk     *)
(* fails: open_listenfd and open_clientfd return with one descriptor open  *)
(* or with none.                                                           *)
THEOREM OpensWithoutLeak == Spec => []OpensCleanly
<1>1. OpenInv => OpensCleanly
  BY DEF OpenInv, OpenSide, OpensCleanly
<1> QED  BY OpenStart, OpenStep, <1>1, PTL DEF Spec

(***************************************************************************)
(* The stream of bytes.                                                    *)
(***************************************************************************)
Bytes == 0 .. 255

(* A sequence cut in two.                                                  *)
LEMMA Cut ==
    ASSUME NEW S, NEW s \in Seq(S), NEW k \in 0 .. Len(s)
    PROVE  /\ First(s, k) \in Seq(S) /\ Len(First(s, k)) = k
           /\ Rest(s, k) \in Seq(S) /\ Len(Rest(s, k)) = Len(s) - k
           /\ First(s, k) \o Rest(s, k) = s
<1>1. Len(s) \in Nat
  BY LenProperties
<1>2. \A i \in 1 .. Len(s) : s[i] \in S
  BY ElementOfSeq
<1>3. First(s, k) \in Seq(S) /\ Len(First(s, k)) = k
  <2>1. \A i \in 1 .. k : s[i] \in S
    BY <1>1, <1>2
  <2> QED  BY <1>1, <2>1, SubSeqProperties DEF First
<1>4. Rest(s, k) \in Seq(S) /\ Len(Rest(s, k)) = Len(s) - k
  <2>1. \A i \in k + 1 .. Len(s) : s[i] \in S
    BY <1>1, <1>2
  <2>2. k + 1 \in Int /\ Len(s) \in Int
    BY <1>1
  <2>3. /\ Rest(s, k) \in Seq(S)
        /\ Len(Rest(s, k)) = IF k + 1 <= Len(s) THEN Len(s) - (k + 1) + 1 ELSE 0
    BY <2>1, <2>2, SubSeqProperties DEF Rest
  <2> QED  BY <1>1, <2>3
<1>5. First(s, k) \o Rest(s, k) = SubSeq(s, 1, Len(s))
  <2>1. 1 \in 1 .. Len(s) + 1 /\ k \in 1 - 1 .. Len(s) /\ Len(s) \in k .. Len(s)
    BY <1>1
  <2> QED  BY <2>1, ConcatAdjacentSubSeq DEF First, Rest
<1> QED  BY <1>3, <1>4, <1>5, SubSeqFull

(* Two sequences put together, and cut where they meet.                    *)
LEMMA Meet ==
    ASSUME NEW S, NEW s \in Seq(S), NEW t \in Seq(S)
    PROVE  /\ s \o t \in Seq(S) /\ Len(s \o t) = Len(s) + Len(t)
           /\ First(s \o t, Len(s)) = s
           /\ Rest(s \o t, Len(s)) = t
<1>1. s \o t \in Seq(S) /\ Len(s \o t) = Len(s) + Len(t)
  BY ConcatProperties
<1>2. Len(s) \in Nat /\ Len(t) \in Nat
  BY LenProperties
<1> DEFINE u == s \o t  a == First(u, Len(s))  b == Rest(u, Len(s))
<1>3. u \in Seq(S) /\ Len(s) \in 0 .. Len(u) /\ Len(u) - Len(s) = Len(t)
  BY <1>1, <1>2
<1> HIDE DEF u
<1>4. /\ a \in Seq(S) /\ Len(a) = Len(s) /\ b \in Seq(S) /\ Len(b) = Len(t)
      /\ a \o b = s \o t
  <2>1. a \in Seq(S) /\ Len(a) = Len(s) /\ a \o b = u
    BY <1>3, Cut
  <2>2. b \in Seq(S) /\ Len(b) = Len(u) - Len(s)
    BY <1>3, Cut
  <2> QED  BY <1>3, <2>1, <2>2 DEF u
<1> HIDE DEF a, b
<1>5. a = s
  <2>1. ASSUME NEW i \in 1 .. Len(a) PROVE a[i] = s[i]
    <3>1. i \in 1 .. Len(s) + Len(t) /\ i \in 1 .. Len(a) + Len(b) /\ i <= Len(a) /\ i <= Len(s)
      BY <1>2, <1>4
    <3> QED  BY <1>4, <3>1, ConcatProperties
  <2> QED  BY <1>4, <2>1, SeqEqual
<1>6. b = t
  BY <1>4, <1>5, ConcatSimplifications
<1> QED  BY <1>1, <1>5, <1>6 DEF a, b, u

LEMMA Joined == \A a, b, c \in Seq(Bytes) : (a \o b) \o c = a \o (b \o c)
  BY ConcatAssociative
LEMMA Nothing ==
    /\ <<>> \in Seq(Bytes)
    /\ \A a \in Seq(Bytes) : <<>> \o a = a /\ a \o <<>> = a
  BY ConcatEmptySeq, EmptySeq

(* A nonempty set of numbers has a least one.                              *)
LEMMA LeastNumber ==
    ASSUME NEW T \in SUBSET Nat, T # {}
    PROVE  \E x \in T : \A y \in T : x <= y
<1>1. \E x \in T : \A y \in T : <<y, x>> \notin OpToRel(<, Nat)
  BY NatLessThanWellFounded, WFMin
<1>2. \A x, y \in Nat : <<y, x>> \notin OpToRel(<, Nat) => x <= y
  BY DEF OpToRel
<1> QED  BY <1>1, <1>2

(* What FlattenSeq computes: the first k sequences of seqs, one after      *)
(* another.                                                                *)
Flattens(f, seqs, k) ==
  \A i \in 1 .. k : f[i] = IF i = 1 THEN seqs[i] ELSE f[i-1] \o seqs[i]

LEMMA FlattenExists ==
    ASSUME NEW S, NEW seqs \in Seq(Seq(S)), NEW n \in 0 .. Len(seqs)
    PROVE  \E f \in [1 .. n -> Seq(S)] : Flattens(f, seqs, n)
<1> DEFINE Has(k) == \E f \in [1 .. k -> Seq(S)] : Flattens(f, seqs, k)
           Bad == {k \in 0 .. Len(seqs) : ~Has(k)}
<1>0. Len(seqs) \in Nat /\ \A i \in 1 .. Len(seqs) : seqs[i] \in Seq(S)
  BY LenProperties, ElementOfSeq
<1>1. Bad = {}
  <2> SUFFICES ASSUME Bad # {} PROVE FALSE
    OBVIOUS
  <2>1. PICK k \in Bad : \A m \in Bad : k <= m
    <3>1. Bad \in SUBSET Nat
      BY <1>0
    <3> HIDE DEF Bad
    <3> QED  BY <3>1, LeastNumber
  <2>2. Has(0)
    <3> DEFINE z == [i \in 1 .. 0 |-> <<>>]
    <3>1. z \in [1 .. 0 -> Seq(S)]
      OBVIOUS
    <3>2. Flattens(z, seqs, 0)
      BY DEF Flattens
    <3> HIDE DEF z
    <3> QED  BY <3>1, <3>2
  <2>3. k \in 1 .. Len(seqs) /\ k - 1 \in 0 .. Len(seqs)
    <3> HIDE DEF Has
    <3> QED  BY <1>0, <2>1, <2>2
  <2>4. Has(k - 1)
    <3> HIDE DEF Has
    <3> QED  BY <2>1, <2>3
  <2>5. PICK f \in [1 .. k-1 -> Seq(S)] : Flattens(f, seqs, k-1)
    BY <2>4
  <2> DEFINE last == IF k = 1 THEN seqs[k] ELSE f[k-1] \o seqs[k]
             g == [i \in 1 .. k |-> IF i = k THEN last ELSE f[i]]
  <2>6. last \in Seq(S)
    <3>1. seqs[k] \in Seq(S)
      BY <1>0, <2>3
    <3>2. CASE k = 1
      BY <3>1, <3>2
    <3>3. CASE k # 1
      <4>1. f[k-1] \in Seq(S)
        BY <2>3, <2>5, <3>3
      <4> QED  BY <3>1, <3>3, <4>1, ConcatProperties
    <3> QED  BY <3>2, <3>3
  <2> HIDE DEF last
  <2>7. g \in [1 .. k -> Seq(S)]
    BY <2>3, <2>5, <2>6
  <2>8. ASSUME NEW i \in 1 .. k
        PROVE  g[i] = IF i = 1 THEN seqs[i] ELSE g[i-1] \o seqs[i]
    <3>1. i # 1 => g[i-1] = f[i-1]
      BY <2>3
    <3>2. CASE i = k
      BY <2>3, <3>1, <3>2 DEF last
    <3>3. CASE i # k
      <4>1. i \in 1 .. k - 1 /\ g[i] = f[i]
        BY <2>3, <3>3
      <4>2. f[i] = IF i = 1 THEN seqs[i] ELSE f[i-1] \o seqs[i]
        BY <2>5, <4>1 DEF Flattens
      <4> QED  BY <3>1, <4>1, <4>2
    <3> QED  BY <3>2, <3>3
  <2>9. Has(k)
    <3> HIDE DEF g
    <3> QED  BY <2>7, <2>8 DEF Flattens
  <2> QED  BY <2>1, <2>9
<1>2. Has(n)
  <2> HIDE DEF Has
  <2> QED  BY <1>1
<1> QED  BY <1>2

LEMMA FlattenIs ==
    ASSUME NEW S, NEW seqs \in Seq(Seq(S)), seqs # <<>>
    PROVE  \E f \in [1 .. Len(seqs) -> Seq(S)] :
               Flattens(f, seqs, Len(seqs)) /\ FlattenSeq(seqs) = f[Len(seqs)]
<1> DEFINE n == Len(seqs)
           Is(f) == f = [i \in 1 .. n |-> IF i = 1 THEN seqs[i] ELSE f[i-1] \o seqs[i]]
           flatten == CHOOSE f : Is(f)
<1>1. n \in Nat \ {0}
  BY EmptySeq
<1>2. PICK f \in [1 .. n -> Seq(S)] : Flattens(f, seqs, n)
  <2>1. n \in 0 .. Len(seqs)
    BY <1>1
  <2> QED  BY <2>1, FlattenExists
<1> HIDE DEF n
<1>3. Is(f)
  BY <1>2 DEF Flattens
<1>4. Is(flatten)
  <2> HIDE DEF Is
  <2> QED  BY <1>3
<1>5. FlattenSeq(seqs) = flatten[n]
  BY <1>1 DEF FlattenSeq, n
<1> HIDE DEF flatten
<1>6. Flattens(flatten, seqs, n)
  BY <1>4 DEF Flattens
<1> DEFINE Bad == {i \in 1 .. n : flatten[i] \notin Seq(S)}
<1>7. Bad = {}
  <2> SUFFICES ASSUME Bad # {} PROVE FALSE
    OBVIOUS
  <2>1. PICK k \in Bad : \A m \in Bad : k <= m
    <3>1. Bad \in SUBSET Nat
      BY <1>1
    <3> HIDE DEF Bad
    <3> QED  BY <3>1, LeastNumber
  <2>2. k \in 1 .. n /\ seqs[k] \in Seq(S) /\ flatten[k] \notin Seq(S)
    BY <2>1, ElementOfSeq DEF n
  <2>3. flatten[k] = IF k = 1 THEN seqs[k] ELSE flatten[k-1] \o seqs[k]
    BY <1>6, <2>2 DEF Flattens
  <2>4. CASE k = 1
    BY <2>2, <2>3, <2>4
  <2>5. CASE k # 1
    <3>1. flatten[k-1] \in Seq(S)
      BY <1>1, <2>1, <2>2, <2>5
    <3> QED  BY <2>2, <2>3, <2>5, <3>1, ConcatProperties
  <2> QED  BY <2>4, <2>5
<1>8. flatten \in [1 .. n -> Seq(S)]
  <2>1. flatten = [i \in 1 .. n |-> flatten[i]]
    BY <1>4
  <2> QED  BY <1>7, <2>1
<1> QED  BY <1>5, <1>6, <1>8 DEF n

(* The first of the sequences comes first.                                 *)
LEMMA FlattenHead ==
    ASSUME NEW seqs \in Seq(Seq(Bytes)), seqs # <<>>
    PROVE  /\ FlattenSeq(Tail(seqs)) \in Seq(Bytes)
           /\ FlattenSeq(seqs) = Head(seqs) \o FlattenSeq(Tail(seqs))
<1> DEFINE n == Len(seqs)  rest == Tail(seqs)
<1>1. /\ n \in Nat \ {0} /\ Head(seqs) \in Seq(Bytes)
      /\ rest \in Seq(Seq(Bytes)) /\ Len(rest) = n - 1
      /\ \A i \in 1 .. n - 1 : rest[i] = seqs[i+1] /\ rest[i] \in Seq(Bytes)
  BY EmptySeq, HeadTailProperties, ElementOfSeq
<1>2. Head(seqs) = seqs[1]
  BY <1>1
<1>3. PICK f \in [1 .. n -> Seq(Bytes)] :
          Flattens(f, seqs, n) /\ FlattenSeq(seqs) = f[n]
  BY FlattenIs
<1> HIDE DEF n, rest
<1>4. f[1] = Head(seqs)
  <2>1. 1 \in 1 .. n
    BY <1>1
  <2>2. f[1] = IF 1 = 1 THEN seqs[1] ELSE f[1-1] \o seqs[1]
    BY <1>3, <2>1 DEF Flattens
  <2> QED  BY <1>2, <2>2
<1>5. CASE n = 1
  <2>1. rest = <<>>
    BY <1>1, <1>5, EmptySeq
  <2>2. FlattenSeq(rest) = <<>>
    BY <2>1 DEF FlattenSeq
  <2> QED  BY <1>1, <1>3, <1>4, <1>5, <2>2, ConcatEmptySeq, EmptySeq DEF rest
<1>6. CASE n # 1
  <2>1. rest # <<>>
    BY <1>1, <1>6, EmptySeq
  <2>2. PICK g \in [1 .. n - 1 -> Seq(Bytes)] :
            Flattens(g, rest, n - 1) /\ FlattenSeq(rest) = g[n-1]
    <3>1. rest \in Seq(Seq(Bytes)) /\ Len(rest) = n - 1
      BY <1>1
    <3>2. \E g \in [1 .. Len(rest) -> Seq(Bytes)] :
              Flattens(g, rest, Len(rest)) /\ FlattenSeq(rest) = g[Len(rest)]
      BY <2>1, <3>1, FlattenIs, Zenon
    <3> QED  BY <3>1, <3>2
  <2> DEFINE Bad == {i \in 1 .. n - 1 : f[i+1] # Head(seqs) \o g[i]}
  <2>3. Bad = {}
    <3> SUFFICES ASSUME Bad # {} PROVE FALSE
      OBVIOUS
    <3>1. PICK k \in Bad : \A m \in Bad : k <= m
      <4>1. Bad \in SUBSET Nat
        BY <1>1
      <4> HIDE DEF Bad
      <4> QED  BY <4>1, LeastNumber
    <3>2. k \in 1 .. n - 1 /\ f[k+1] # Head(seqs) \o g[k]
      BY <3>1
    <3>3. k + 1 \in 1 .. n /\ k + 1 # 1 /\ (k + 1) - 1 = k
      BY <1>1, <3>2
    <3>4. f[k+1] = f[k] \o rest[k]
      <4>1. f[k+1] = IF k + 1 = 1 THEN seqs[k+1] ELSE f[(k+1)-1] \o seqs[k+1]
        BY <1>3, <3>3 DEF Flattens
      <4>2. rest[k] = seqs[k+1]
        BY <1>1, <3>2
      <4> QED  BY <3>3, <4>1, <4>2
    <3>5. CASE k = 1
      <4>1. g[1] = IF 1 = 1 THEN rest[1] ELSE g[1-1] \o rest[1]
        BY <2>2, <3>2, <3>5 DEF Flattens
      <4> QED  BY <1>4, <3>2, <3>4, <3>5, <4>1
    <3>6. CASE k # 1
      <4>1. k - 1 \in 1 .. n - 1 /\ ~(k <= k - 1) /\ (k - 1) + 1 = k
        BY <1>1, <3>2, <3>6
      <4>2. k - 1 \notin Bad
        <5> HIDE DEF Bad
        <5> QED  BY <3>1, <4>1
      <4>3. f[k] = Head(seqs) \o g[k-1]
        BY <4>1, <4>2
      <4>4. g[k] = g[k-1] \o rest[k]
        BY <2>2, <3>2, <3>6 DEF Flattens
      <4>5. g[k-1] \in Seq(Bytes) /\ rest[k] \in Seq(Bytes)
        BY <1>1, <2>2, <3>2, <4>1
      <4>6. (Head(seqs) \o g[k-1]) \o rest[k] = Head(seqs) \o (g[k-1] \o rest[k])
        <5>1. Head(seqs) \in Seq(Bytes)
          BY <1>1
        <5> QED  BY <4>5, <5>1, Joined
      <4> QED  BY <3>2, <3>4, <4>3, <4>4, <4>6
    <3> QED  BY <3>5, <3>6
  <2>4. n - 1 \in 1 .. n - 1 /\ (n - 1) + 1 = n
    BY <1>1, <1>6
  <2>5. f[n] = Head(seqs) \o g[n-1]
    BY <2>3, <2>4
  <2> QED  BY <1>3, <2>2, <2>4, <2>5 DEF rest
<1> QED  BY <1>5, <1>6

(* And there is no other byte in it.                                       *)
LEMMA FlattenType ==
    ASSUME NEW seqs \in Seq(Seq(Bytes))
    PROVE  FlattenSeq(seqs) \in Seq(Bytes)
<1>1. CASE seqs = <<>>
  BY <1>1, EmptySeq DEF FlattenSeq
<1>2. CASE seqs # <<>>
  <2>1. Head(seqs) \in Seq(Bytes)
    BY <1>2, HeadTailProperties
  <2>2. /\ FlattenSeq(Tail(seqs)) \in Seq(Bytes)
        /\ FlattenSeq(seqs) = Head(seqs) \o FlattenSeq(Tail(seqs))
    BY <1>2, FlattenHead
  <2> QED  BY <2>1, <2>2, ConcatProperties
<1> QED  BY <1>1, <1>2

(***************************************************************************)
(* The invariant.                                                          *)
(***************************************************************************)
(* What is in the buffer.                                                  *)
Buffers == [rio_cnt : Int, rio_buf : Seq(Bytes), rio_bufptr : Nat \ {0}]
Filled(r) == r.rio_cnt > 0 => r.rio_bufptr + r.rio_cnt <= Len(r.rio_buf) + 1
Holds(r) == SubSeq(r.rio_buf, r.rio_bufptr, (r.rio_bufptr + r.rio_cnt) - 1)

(* What the buffer has is in it; a process that reads without one leaves   *)
(* it as it was.                                                           *)
RioTypes ==
    /\ writes \in Seq(Seq(Bytes)) /\ out \in Seq(Bytes) /\ wire \in Seq(Bytes)
    /\ rio \in Buffers /\ Filled(rio)
    /\ ~buffered => rio = rio_readinitb

(* A call has less than it returns: no newline, and room left.             *)
Reading == {"rio_readlineb", "rio_readnb", "rio_readn"}
Short(c) ==
    IF c.fn = "rio_readlineb"
    THEN /\ c.size \in LineSize /\ Len(c.buf) < c.size - 1
         /\ \A i \in 1 .. Len(c.buf) : c.buf[i] # NEWLINE
    ELSE c.size \in ReadSize /\ Len(c.buf) < c.size
CallInv ==
    call # NoCall =>
        /\ call \in [fn : Reading, size : Nat, buf : Seq(Bytes)] /\ Short(call)
        /\ call.fn = "rio_readn" <=> ~buffered

RioInv == RioTypes /\ CallInv

(***************************************************************************)
(* The steps of Stream, by what they do to what is yet to be sent and to   *)
(* what no call has taken.                                                 *)
(***************************************************************************)
Text == out \o FlattenSeq(writes)
Streamed == call.buf \o Unread \o wire
Mapped == [Promised!Next]_(Promised!vars)

LEMMA Stutters ==
    ASSUME Text' = Text, Streamed' = Streamed,
           wclosed' = wclosed, reset' = reset, ret' = ret
    PROVE  Mapped
  BY DEF Mapped, Promised!vars, Text, Streamed

LEMMA Sends ==
    ASSUME Text \in Seq(Bytes), ~wclosed, NEW k \in 1 .. Len(Text),
           Streamed' = Streamed \o First(Text, k), Text' = Rest(Text, k),
           wclosed' = wclosed, reset' = reset, ret' = ret
    PROVE  Mapped
<1>1. k \in DOMAIN Text
  BY LenProperties
<1>2. Promised!Send
  BY <1>1 DEF Promised!Send, Text, Streamed, First, Rest
<1> QED  BY <1>2 DEF Mapped, Promised!Next

LEMMA Closes ==
    ASSUME ~wclosed, wclosed' = TRUE,
           Text' = Text, Streamed' = Streamed, reset' = reset, ret' = ret
    PROVE  Mapped
<1>1. Promised!Close
  BY DEF Promised!Close, Text, Streamed
<1> QED  BY <1>1 DEF Mapped, Promised!Next

LEMMA Resets ==
    ASSUME ~wclosed, wclosed' = TRUE, reset' = TRUE,
           NEW kept \in Seq(Bytes), NEW lost \in Seq(Bytes),
           Streamed = kept \o lost, Streamed' = kept,
           Text' = Text, ret' = ret
    PROVE  Mapped
<1>1. /\ Len(kept) <= Len(Streamed)
      /\ SubSeq(kept, 1, Len(kept)) = SubSeq(Streamed, 1, Len(kept))
  <2>1. Len(kept) \in Nat /\ Len(lost) \in Nat
    BY LenProperties
  <2>2. Len(Streamed) = Len(kept) + Len(lost) /\ First(Streamed, Len(kept)) = kept
    BY Meet
  <2>3. SubSeq(kept, 1, Len(kept)) = kept
    BY SubSeqFull
  <2> QED  BY <2>1, <2>2, <2>3 DEF First
<1>2. Promised!Reset
  BY <1>1 DEF Promised!Reset, Promised!IsPrefix, Text, Streamed
<1> QED  BY <1>2 DEF Mapped, Promised!Next

(* The least of a set of numbers.                                          *)
LEMMA MinIs ==
    ASSUME NEW T \in SUBSET Int, NEW n \in T, \A k \in T : n <= k
    PROVE  Min(T) = n /\ Promised!Min(T) = n
<1>1. \A m \in T : (\A k \in T : m <= k) => m = n
  OBVIOUS
<1> QED  BY <1>1 DEF Min, Promised!Min

(* A call takes the part of the stream that it was to take, or all there   *)
(* is at its end.                                                          *)
LEMMA Takes ==
    ASSUME NEW a \in Seq(Bytes), NEW b \in Seq(Bytes), NEW n \in Nat,
           NEW fn, NEW size,
           Streamed = a \o b, Streamed' = b,
           n = Len(a) \/ (b = <<>> /\ Len(a) <= n /\ wclosed /\ ~reset),
           ret' = [fn |-> fn, size |-> size, rc |-> Len(a), buf |-> a],
           Text' = Text, wclosed' = wclosed, reset' = reset
    PROVE  Promised!Take(fn, size, n)
<1>1. Len(a) \in Nat /\ Len(b) \in Nat /\ (b = <<>> => Len(b) = 0)
  BY LenProperties, EmptySeq
<1>2. /\ Len(Streamed) = Len(a) + Len(b)
      /\ First(Streamed, Len(a)) = a /\ Rest(Streamed, Len(a)) = b
  BY Meet
<1>3. Promised!Min({n, Len(Streamed)}) = Len(a)
  <2> DEFINE T == {n, Len(Streamed)}
  <2>1. T \in SUBSET Int /\ Len(a) \in T /\ \A k \in T : Len(a) <= k
    BY <1>1, <1>2
  <2> HIDE DEF T
  <2>2. Promised!Min(T) = Len(a)
    BY <2>1, MinIs
  <2> QED  BY <2>2 DEF T
<1>4. Promised!Piece(n) = a
  BY <1>2, <1>3 DEF Promised!Piece, Streamed, First
<1>5. Len(Streamed) >= n \/ Promised!Ended
  BY <1>1, <1>2 DEF Promised!Ended
<1> QED  BY <1>2, <1>4, <1>5 DEF Promised!Take, Streamed, Text, Rest

(* How long a line is: as long as its newline, or the room for it, says.   *)
LEMMA LineIs ==
    ASSUME NEW a \in Seq(Bytes), NEW b \in Seq(Bytes), NEW size \in Nat,
           Streamed = a \o b,
           \A i \in 1 .. Len(a) - 1 : a[i] # NEWLINE,
           Len(a) <= size - 1, a # <<>>,
           Len(a) = size - 1 \/ a[Len(a)] = NEWLINE
    PROVE  Promised!LineLength(size) = Len(a)
<1> DEFINE T == {size - 1} \cup Promised!Newlines
<1>1. Len(a) \in Nat \ {0} /\ Len(b) \in Nat
  BY LenProperties, EmptySeq
<1>2. /\ Streamed \in Seq(Bytes) /\ Len(Streamed) = Len(a) + Len(b)
      /\ \A i \in 1 .. Len(a) : Streamed[i] = a[i]
  BY <1>1, ConcatProperties
<1>3. Promised!Newlines = {k \in 1 .. Len(Streamed) : Streamed[k] = NEWLINE}
  <2>1. DOMAIN Streamed = 1 .. Len(Streamed)
    BY <1>2, LenProperties
  <2> QED  BY <2>1 DEF Promised!Newlines, Streamed
<1>4. T \in SUBSET Int
  BY <1>3
<1>5. Len(a) \in T
  BY <1>1, <1>2, <1>3
<1>6. ASSUME NEW k \in T PROVE Len(a) <= k
  <2>1. CASE k = size - 1
    BY <2>1
  <2>2. CASE k \in 1 .. Len(Streamed) /\ Streamed[k] = NEWLINE
    <3> SUFFICES ASSUME k < Len(a) PROVE FALSE
      BY <1>1, <2>2
    <3>1. k \in 1 .. Len(a) /\ k \in 1 .. Len(a) - 1
      BY <1>1, <2>2
    <3> QED  BY <1>2, <2>2, <3>1
  <2> QED  BY <1>3, <2>1, <2>2
<1> HIDE DEF T
<1>7. Promised!Min(T) = Len(a)
  BY <1>4, <1>5, <1>6, MinIs
<1> QED  BY <1>7 DEF T, Promised!LineLength

(* A line that is not there yet is longer than what there is of it.        *)
LEMMA NoLine ==
    ASSUME NEW a \in Seq(Bytes), NEW size \in Nat, Streamed = a,
           \A i \in 1 .. Len(a) : a[i] # NEWLINE
    PROVE  Promised!LineLength(size) = size - 1
<1> DEFINE T == {size - 1} \cup Promised!Newlines
<1>1. Promised!Newlines = {}
  <2>1. DOMAIN Streamed = 1 .. Len(a)
    BY LenProperties
  <2> QED  BY <2>1 DEF Promised!Newlines, Streamed
<1>2. T \in SUBSET Int /\ size - 1 \in T /\ \A k \in T : size - 1 <= k
  BY <1>1
<1> HIDE DEF T
<1>3. Promised!Min(T) = size - 1
  BY <1>2, MinIs
<1> QED  BY <1>3 DEF T, Promised!LineLength

(***************************************************************************)
(* The steps of Rio.                                                       *)
(***************************************************************************)
LEMMA BufferIs ==
    ASSUME NEW r \in Buffers, Filled(r)
    PROVE  /\ Holds(r) \in Seq(Bytes)
           /\ r.rio_cnt <= 0 => Holds(r) = <<>>
<1> DEFINE p == r.rio_bufptr  cnt == r.rio_cnt  buf == r.rio_buf
<1>1. /\ p \in Nat \ {0} /\ cnt \in Int /\ buf \in Seq(Bytes) /\ Len(buf) \in Nat
      /\ cnt > 0 => p + cnt <= Len(buf) + 1
  BY LenProperties DEF Buffers, Filled
<1>2. Holds(r) = SubSeq(buf, p, (p + cnt) - 1)
  BY DEF Holds
<1> HIDE DEF p, buf, cnt
<1>3. p \in Int /\ (p + cnt) - 1 \in Int
  BY <1>1
<1>4. CASE cnt <= 0
  <2>1. (p + cnt) - 1 < p
    BY <1>1, <1>4
  <2>2. Holds(r) = <<>>
    BY <1>2, <1>3, <2>1, SubSeqEmpty
  <2> QED  BY <2>2, Nothing
<1>5. CASE ~(cnt <= 0)
  <2>1. \A i \in p .. (p + cnt) - 1 : i \in 1 .. Len(buf)
    BY <1>1, <1>5
  <2>2. \A i \in p .. (p + cnt) - 1 : buf[i] \in Bytes
    BY <1>1, <2>1, ElementOfSeq
  <2>3. Holds(r) \in Seq(Bytes)
    BY <1>2, <1>3, <2>2, SubSeqProperties
  <2> QED  BY <1>5, <2>3 DEF cnt
<1> QED  BY <1>4, <1>5 DEF cnt

LEMMA UnreadIs ==
    ASSUME rio \in Buffers
    PROVE  Unread = Holds(rio)
<1> DEFINE p == rio.rio_bufptr  cnt == rio.rio_cnt
<1>1. \A x, y \in Int : x + (y - 1) = (x + y) - 1
  OBVIOUS
<1>2. p \in Int /\ cnt \in Int
  BY DEF Buffers
<1>3. p + (cnt - 1) = (p + cnt) - 1
  <2> HIDE DEF p, cnt
  <2> QED  BY <1>1, <1>2
<1> QED  BY <1>3 DEF Unread, Holds

LEMMA UnreadNext ==
    ASSUME rio' \in Buffers
    PROVE  Unread' = Holds(rio')
<1> DEFINE p == rio'.rio_bufptr  cnt == rio'.rio_cnt
<1>1. \A x, y \in Int : x + (y - 1) = (x + y) - 1
  OBVIOUS
<1>2. p \in Int /\ cnt \in Int
  BY DEF Buffers
<1>3. p + (cnt - 1) = (p + cnt) - 1
  <2> HIDE DEF p, cnt
  <2> QED  BY <1>1, <1>2
<1> QED  BY <1>3 DEF Unread, Holds

LEMMA Types ==
    ASSUME RioInv
    PROVE  /\ call.buf \in Seq(Bytes) /\ Unread \in Seq(Bytes)
           /\ wire \in Seq(Bytes) /\ out \in Seq(Bytes) /\ Text \in Seq(Bytes)
           /\ Streamed = call.buf \o (Unread \o wire)
           /\ Streamed \in Seq(Bytes)
           /\ rio.rio_cnt <= 0 => Unread = <<>> /\ Streamed = call.buf \o wire
<1>1. call.buf \in Seq(Bytes)
  <2>1. CASE call = NoCall
    BY <2>1, EmptySeq DEF NoCall
  <2>2. CASE call # NoCall
    BY <2>2 DEF RioInv, CallInv
  <2> QED  BY <2>1, <2>2
<1>2. /\ wire \in Seq(Bytes) /\ out \in Seq(Bytes) /\ writes \in Seq(Seq(Bytes))
      /\ rio \in Buffers /\ Filled(rio)
  BY DEF RioInv, RioTypes
<1>3. Unread \in Seq(Bytes) /\ (rio.rio_cnt <= 0 => Unread = <<>>)
  BY <1>2, BufferIs, UnreadIs
<1>4. Streamed = call.buf \o (Unread \o wire)
  BY <1>1, <1>2, <1>3, Joined DEF Streamed
<1>5. Streamed \in Seq(Bytes)
  <2>1. Unread \o wire \in Seq(Bytes)
    BY <1>2, <1>3, ConcatProperties
  <2>2. call.buf \o (Unread \o wire) \in Seq(Bytes)
    BY <1>1, <2>1, ConcatProperties
  <2> QED  BY <1>4, <2>2
<1>6. Text \in Seq(Bytes)
  BY <1>2, FlattenType, ConcatProperties DEF Text
<1>7. Unread = <<>> => Unread \o wire = wire
  BY <1>2, ConcatEmptySeq
<1> QED  BY <1>1, <1>2, <1>3, <1>4, <1>5, <1>6, <1>7

(* What neither end's step is concerned with.                              *)
LEMMA SameText ==
    ASSUME writes' = writes, out' = out PROVE Text' = Text
  BY DEF Text

LEMMA SameStream ==
    ASSUME call'.buf = call.buf, rio' = rio, wire' = wire
    PROVE  Streamed' = Streamed
  BY DEF Streamed, Unread

LEMMA UpToIs ==
    ASSUME NEW a \in Int, NEW b \in Int, NEW k \in UpTo(a, b)
    PROVE  k \in 1 .. a /\ k \in 1 .. b
<1> DEFINE T == {a, b}  m == IF a <= b THEN a ELSE b
<1>1. T \in SUBSET Int /\ m \in T /\ \A x \in T : m <= x
  OBVIOUS
<1>2. m \in Int /\ m <= a /\ m <= b
  OBVIOUS
<1> HIDE DEF T, m
<1>3. Min(T) = m
  BY <1>1, MinIs
<1>4. k \in 1 .. m
  BY <1>3 DEF UpTo, T
<1> QED  BY <1>2, <1>4

LEMMA WritenBegins ==
    ASSUME RioInv, Rio_writen PROVE RioInv' /\ Mapped
<1>1. /\ out = <<>> /\ writes # <<>> /\ writes \in Seq(Seq(Bytes))
      /\ out' = Head(writes) /\ writes' = Tail(writes)
  BY DEF Rio_writen, RioInv, RioTypes
<1>2. out' \in Seq(Bytes) /\ writes' \in Seq(Seq(Bytes))
  BY <1>1, HeadTailProperties
<1>3. UNCHANGED <<wire, wclosed, reset, buffered, rio, call, ret>>
  BY DEF Rio_writen, kernelVars, readerVars
<1>4. RioInv'
  BY <1>2, <1>3 DEF RioInv, RioTypes, CallInv
<1>5. Text' = Text
  <2>1. FlattenSeq(writes) = Head(writes) \o FlattenSeq(Tail(writes))
    BY <1>1, FlattenHead
  <2>2. FlattenSeq(writes) \in Seq(Bytes)
    BY <1>1, FlattenType
  <2> QED  BY <1>1, <2>1, <2>2, Nothing DEF Text
<1> QED  BY <1>3, <1>4, <1>5, SameStream, Stutters

LEMMA Writes ==
    ASSUME RioInv, WriteSome PROVE RioInv' /\ Mapped
<1>1. /\ ~wclosed /\ out \in Seq(Bytes) /\ wire \in Seq(Bytes)
      /\ writes \in Seq(Seq(Bytes))
      /\ Len(out) \in Nat /\ Len(wire) \in Nat
  BY LenProperties DEF WriteSome, RioInv, RioTypes
<1>2. PICK k \in UpTo(Len(out), WIRE - Len(wire)) :
          wire' = wire \o First(out, k) /\ out' = Rest(out, k)
  BY DEF WriteSome, Advanced
<1>3. k \in 1 .. Len(out) /\ k \in 0 .. Len(out)
  <2>1. WIRE - Len(wire) \in Int
    BY <1>1, RioAssumption
  <2>2. k \in 1 .. Len(out)
    BY <1>1, <1>2, <2>1, UpToIs
  <2> QED  BY <1>1, <2>2
<1>4. UNCHANGED <<writes, wclosed, reset, buffered, rio, call, ret>>
  BY DEF WriteSome, readerVars
<1> DEFINE sent == First(out, k)  left == Rest(out, k)  more == FlattenSeq(writes)
<1>5. /\ sent \in Seq(Bytes) /\ Len(sent) = k /\ left \in Seq(Bytes)
      /\ sent \o left = out
  BY <1>1, <1>3, Cut
<1>6. more \in Seq(Bytes)
  BY <1>1, FlattenType
<1> HIDE DEF sent, left, more
<1>7. wire' = wire \o sent /\ wire' \in Seq(Bytes) /\ out' = left
  BY <1>1, <1>2, <1>5, ConcatProperties DEF sent, left
<1>8. RioInv'
  BY <1>4, <1>5, <1>7 DEF RioInv, RioTypes, CallInv
<1>9. Text = sent \o (left \o more) /\ Text' = left \o more
  <2>1. Text = (sent \o left) \o more
    BY <1>5 DEF Text, more
  <2>2. Text' = left \o more
    BY <1>4, <1>7 DEF Text, more
  <2> QED  BY <1>5, <1>6, <2>1, <2>2, Joined
<1>10. First(Text, k) = sent /\ Rest(Text, k) = Text' /\ k \in 1 .. Len(Text)
  <2>1. left \o more \in Seq(Bytes) /\ Len(left \o more) \in Nat
    BY <1>5, <1>6, ConcatProperties, LenProperties
  <2>2. First(Text, k) = sent /\ Rest(Text, k) = Text' /\ Len(Text) = k + Len(left \o more)
    BY <1>5, <1>9, <2>1, Meet
  <2> QED  BY <1>3, <2>1, <2>2
<1>11. Streamed' = Streamed \o sent
  <2> DEFINE got == call.buf \o Unread
  <2>1. got \in Seq(Bytes)
    BY Types, ConcatProperties
  <2>2. Streamed = got \o wire /\ Streamed' = got \o (wire \o sent)
    BY <1>4, <1>7 DEF Streamed, Unread
  <2> HIDE DEF got
  <2> QED  BY <1>1, <1>5, <2>1, <2>2, Joined
<1>12. Text \in Seq(Bytes)
  BY Types
<1> QED  BY <1>1, <1>4, <1>8, <1>10, <1>11, <1>12, Sends

LEMMA WriterGoes ==
    ASSUME RioInv, WriteFails \/ WriterEnds PROVE RioInv' /\ Mapped
<1>1. /\ ~wclosed /\ wclosed' = TRUE
      /\ UNCHANGED <<writes, out, wire, reset, buffered, rio, call, ret>>
  BY DEF WriteFails, WriterEnds, writerVars, readerVars
<1>2. RioInv'
  BY <1>1 DEF RioInv, RioTypes, CallInv
<1> QED  BY <1>1, <1>2, SameText, SameStream, Closes

LEMMA IsReset ==
    ASSUME RioInv, ConnectionReset PROVE RioInv' /\ Mapped
<1>1. /\ ~wclosed /\ wclosed' = TRUE /\ reset' = TRUE
      /\ UNCHANGED <<writes, out, buffered, rio, call, ret>>
  BY DEF ConnectionReset, writerVars, readerVars
<1>2. PICK k \in 0 .. Len(wire) : wire' = First(wire, k)
  BY DEF ConnectionReset
<1>3. /\ wire \in Seq(Bytes) /\ call.buf \in Seq(Bytes) /\ Unread \in Seq(Bytes)
  BY Types
<1>4. /\ wire' \in Seq(Bytes) /\ Rest(wire, k) \in Seq(Bytes)
      /\ wire = wire' \o Rest(wire, k)
  BY <1>2, <1>3, Cut
<1>5. RioInv'
  BY <1>1, <1>4 DEF RioInv, RioTypes, CallInv
<1> DEFINE got == call.buf \o Unread  kept == got \o wire'  lost == Rest(wire, k)
<1>6. got \in Seq(Bytes)
  BY <1>3, ConcatProperties
<1>7. Streamed' = kept /\ Streamed = got \o (wire' \o lost)
  BY <1>1, <1>4 DEF Streamed, Unread
<1> HIDE DEF got, lost
<1>8. kept \in Seq(Bytes) /\ Streamed = kept \o lost
  <2>1. lost \in Seq(Bytes)
    BY <1>4 DEF lost
  <2>2. (got \o wire') \o lost = got \o (wire' \o lost)
    BY <1>4, <1>6, <2>1, Joined
  <2> QED  BY <1>4, <1>6, <1>7, <2>2, ConcatProperties
<1>9. lost \in Seq(Bytes)
  BY <1>4 DEF lost
<1> HIDE DEF kept
<1> QED  BY <1>1, <1>5, <1>7, <1>8, <1>9, SameText, Resets

LEMMA ReaderTurns ==
    ASSUME RioInv, ReaderBegins \/ ReaderEnds
    PROVE  RioInv' /\ Mapped
<1>1. CASE ReaderEnds
  <2>1. UNCHANGED <<writes, out, wire, wclosed, reset, buffered, rio, call, ret>>
    BY <1>1 DEF ReaderEnds, kernelVars, writerVars
  <2>2. RioInv'
    BY <2>1 DEF RioInv, RioTypes, CallInv
  <2> QED  BY <2>1, <2>2, SameText, SameStream, Stutters
<1>2. CASE ReaderBegins
  <2>1. PICK fn \in Reading, size \in LineSize \cup ReadSize :
            /\ Begin(fn, size)
            /\ IF fn = "rio_readlineb" THEN size \in LineSize ELSE size \in ReadSize
            /\ fn = "rio_readn" <=> ~buffered
    BY <1>2 DEF ReaderBegins, Reading
  <2>2. /\ call = NoCall /\ call' = [fn |-> fn, size |-> size, buf |-> <<>>]
        /\ UNCHANGED <<writes, out, wire, wclosed, reset, buffered, rio, ret>>
    BY <2>1 DEF Begin, kernelVars, writerVars
  <2>3. call'.buf = <<>> /\ call.buf = <<>> /\ call'.fn = fn /\ call'.size = size
    BY <2>2 DEF NoCall
  <2>4. /\ size \in Nat
        /\ fn = "rio_readlineb" => size \in LineSize /\ 0 < size - 1
        /\ fn # "rio_readlineb" => size \in ReadSize /\ 0 < size
    BY <2>1, RioAssumption
  <2>5. Short(call')
    BY <2>3, <2>4 DEF Short
  <2>6. call' \in [fn : Reading, size : Nat, buf : Seq(Bytes)]
    BY <2>2, <2>4, EmptySeq
  <2>7. CallInv'
    BY <2>1, <2>2, <2>3, <2>5, <2>6 DEF CallInv
  <2>8. RioInv'
    BY <2>2, <2>7 DEF RioInv, RioTypes
  <2> QED  BY <2>2, <2>3, <2>8, SameText, SameStream, Stutters
<1> QED  BY <1>1, <1>2

(* A call returns with the line, or the bytes, it was to take.             *)
LEMMA Answers ==
    ASSUME NEW fn \in Reading, NEW size,
           \/ /\ fn = "rio_readlineb" /\ size \in LineSize
              /\ Promised!Take(fn, size, Promised!LineLength(size))
           \/ /\ fn # "rio_readlineb" /\ size \in ReadSize
              /\ Promised!Take(fn, size, size)
    PROVE  Mapped
<1>1. CASE fn = "rio_readlineb"
  <2>1. size \in LineSize /\ Promised!ReadLine(size)
    BY <1>1 DEF Promised!ReadLine
  <2> QED  BY <2>1 DEF Mapped, Promised!Next
<1>2. CASE fn # "rio_readlineb"
  <2>1. size \in ReadSize /\ Promised!ReadBytes(fn, size)
    BY <1>2 DEF Promised!ReadBytes
  <2>2. fn \in {"rio_readn", "rio_readnb"}
    BY <1>2 DEF Reading
  <2> QED  BY <2>1, <2>2 DEF Mapped, Promised!Next
<1> QED  BY <1>1, <1>2

(* The call there is.                                                      *)
LEMMA CallIs ==
    ASSUME RioInv, call # NoCall
    PROVE  /\ call = [fn |-> call.fn, size |-> call.size, buf |-> call.buf]
           /\ call.fn \in Reading /\ call.size \in Nat /\ call.buf \in Seq(Bytes)
           /\ Len(call.buf) \in Nat /\ Short(call)
           /\ Wanted \in Nat \ {0}
           /\ call.fn = "rio_readlineb" => Wanted = 1
           /\ call.fn # "rio_readlineb" => Wanted = call.size - Len(call.buf)
           /\ call.fn = "rio_readn" <=> ~buffered
<1>1. /\ call \in [fn : Reading, size : Nat, buf : Seq(Bytes)] /\ Short(call)
      /\ call.fn = "rio_readn" <=> ~buffered
  BY DEF RioInv, CallInv
<1>2. Len(call.buf) \in Nat
  BY <1>1, LenProperties
<1>3. /\ call.fn = "rio_readlineb" => Wanted = 1
      /\ call.fn # "rio_readlineb" => Wanted = call.size - Len(call.buf)
  BY DEF Wanted
<1>4. call.fn # "rio_readlineb" => Len(call.buf) < call.size
  BY <1>1 DEF Short
<1>5. call.size \in Nat
  BY <1>1
<1>6. Wanted \in Nat \ {0}
  BY <1>2, <1>3, <1>4, <1>5
<1> QED  BY <1>1, <1>2, <1>3, <1>6

(* A call gets some bytes from the front of what has not been read: it     *)
(* goes on, or it returns with what Stream gives it.                       *)
LEMMA GetsSome ==
    ASSUME RioInv, call # NoCall, NEW bytes \in Seq(Bytes), NEW left \in Seq(Bytes),
           Len(bytes) \in 1 .. Wanted, Gets(bytes),
           Streamed = call.buf \o (bytes \o left), Unread' \o wire' = left,
           Unread' \in Seq(Bytes), wire' \in Seq(Bytes),
           writes' = writes, out' = out, wclosed' = wclosed, reset' = reset,
           buffered' = buffered
    PROVE  CallInv' /\ Mapped
<1> DEFINE buf == call.buf \o bytes
<1>0. /\ Short(call) /\ Len(bytes) \in Nat \ {0}
      /\ call.fn = "rio_readlineb" => Len(bytes) = 1
      /\ call.fn # "rio_readlineb" => Len(bytes) <= call.size - Len(call.buf)
  <2>1. /\ Short(call) /\ Wanted \in Nat
        /\ call.fn = "rio_readlineb" => Wanted = 1
        /\ call.fn # "rio_readlineb" => Wanted = call.size - Len(call.buf)
    BY CallIs
  <2>2. Len(bytes) \in Nat \ {0} /\ Len(bytes) <= Wanted /\ (Wanted = 1 => Len(bytes) = 1)
    <3>1. \A w \in Nat : \A x \in 1 .. w : x \in Nat \ {0} /\ x <= w /\ (w = 1 => x = 1)
      OBVIOUS
    <3>2. Wanted \in Nat
      BY <2>1
    <3> QED  BY <3>1, <3>2
  <2> QED  BY <2>1, <2>2
<1>1. /\ call.fn \in Reading /\ call.size \in Nat /\ call.buf \in Seq(Bytes)
      /\ Len(call.buf) \in Nat
  BY CallIs
<1>2. /\ buf \in Seq(Bytes) /\ Len(buf) = Len(call.buf) + Len(bytes)
      /\ \A i \in 1 .. Len(call.buf) : buf[i] = call.buf[i]
  <2>1. /\ buf \in Seq(Bytes) /\ Len(buf) = Len(call.buf) + Len(bytes)
        /\ \A i \in 1 .. Len(call.buf) + Len(bytes) :
              buf[i] = IF i <= Len(call.buf) THEN call.buf[i] ELSE bytes[i - Len(call.buf)]
    BY <1>1, ConcatProperties
  <2> HIDE DEF buf
  <2>2. Len(call.buf) \in Nat /\ Len(bytes) \in Nat
    BY <1>0, <1>1
  <2>3. \A i \in 1 .. Len(call.buf) : i \in 1 .. Len(call.buf) + Len(bytes) /\ i <= Len(call.buf)
    BY <2>2
  <2> QED  BY <2>1, <2>3
<1>3. Streamed = buf \o left
  <2>1. call.buf \in Seq(Bytes)
    BY <1>1
  <2>2. (call.buf \o bytes) \o left = call.buf \o (bytes \o left)
    BY <2>1, Joined, Zenon
  <2> QED  BY <2>2
<1>4. IF Complete(buf) THEN Returns(Len(buf), buf)
                       ELSE call' = [call EXCEPT !.buf = buf] /\ ret' = ret
  BY DEF Gets
<1> HIDE DEF buf
<1>5. Len(buf) \in Nat /\ Len(buf) > 0 /\ buf # <<>>
  <2>1. Len(buf) \in Nat /\ Len(buf) > 0
    BY <1>0, <1>1, <1>2
  <2> QED  BY <1>2, <2>1, EmptySeq
<1>6. call'.buf \in Seq(Bytes) => Streamed' = call'.buf \o (Unread' \o wire')
  <2> SUFFICES ASSUME call'.buf \in Seq(Bytes)
               PROVE  Streamed' = call'.buf \o (Unread' \o wire')
    OBVIOUS
  <2>1. (call'.buf \o Unread') \o wire' = call'.buf \o (Unread' \o wire')
    BY Joined, Zenon
  <2> QED  BY <2>1 DEF Streamed
<1>7. Text' = Text
  BY SameText
<1>8. CASE Complete(buf)
  <2>1. /\ ret' = [fn |-> call.fn, size |-> call.size, rc |-> Len(buf), buf |-> buf]
        /\ call' = NoCall
    BY <1>4, <1>8 DEF Returns
  <2>2. Streamed' = left
    <3>1. call'.buf = <<>>
      BY <2>1 DEF NoCall
    <3> QED  BY <1>6, <3>1, Nothing
  <2>3. CASE call.fn = "rio_readlineb"
    <3>1. /\ call.size \in LineSize /\ Len(call.buf) < call.size - 1 /\ Len(bytes) = 1
          /\ \A i \in 1 .. Len(call.buf) : call.buf[i] # NEWLINE
      BY <1>0, <2>3 DEF Short
    <3>2. Len(buf) = Len(call.buf) + 1
      BY <1>2, <3>1
    <3>3. \A i \in 1 .. Len(buf) - 1 : buf[i] # NEWLINE
      <4>1. \A i \in 1 .. Len(buf) - 1 : i \in 1 .. Len(call.buf)
        BY <1>1, <3>2
      <4> QED  BY <1>2, <3>1, <4>1
    <3>4. Len(buf) + 1 = call.size \/ buf[Len(buf)] = NEWLINE
      BY <1>8, <2>3 DEF Complete, Last
    <3>5. Len(buf) <= call.size - 1 /\ (Len(buf) = call.size - 1 \/ buf[Len(buf)] = NEWLINE)
      BY <1>1, <3>1, <3>2, <3>4
    <3>6. Promised!LineLength(call.size) = Len(buf)
      BY <1>1, <1>2, <1>3, <1>5, <3>3, <3>5, LineIs
    <3>7. Promised!Take(call.fn, call.size, Promised!LineLength(call.size))
      BY <1>2, <1>3, <1>5, <1>7, <2>1, <2>2, <3>6, Takes
    <3>8. Mapped
      BY <1>1, <2>3, <3>1, <3>7, Answers
    <3> QED  BY <2>1, <3>8 DEF CallInv
  <2>4. CASE call.fn # "rio_readlineb"
    <3>1. call.size \in ReadSize
      BY <1>0, <2>4 DEF Short
    <3>2. Len(buf) = call.size
      BY <1>8, <2>4 DEF Complete
    <3>3. Promised!Take(call.fn, call.size, call.size)
      BY <1>1, <1>2, <1>3, <1>7, <2>1, <2>2, <3>2, Takes
    <3>4. Mapped
      BY <1>1, <2>4, <3>1, <3>3, Answers
    <3> QED  BY <2>1, <3>4 DEF CallInv
  <2> QED  BY <2>3, <2>4
<1>9. CASE ~Complete(buf)
  <2>1. call' = [fn |-> call.fn, size |-> call.size, buf |-> buf] /\ ret' = ret
    BY <1>4, <1>9, CallIs
  <2>2. call'.fn = call.fn /\ call'.size = call.size /\ call'.buf = buf
    BY <2>1
  <2>3. Streamed' = Streamed
    BY <1>2, <1>3, <1>6, <2>2
  <2>4. Short(call')
    <3>1. CASE call.fn = "rio_readlineb"
      <4>1. /\ call.size \in LineSize /\ Len(call.buf) < call.size - 1 /\ Len(bytes) = 1
            /\ \A i \in 1 .. Len(call.buf) : call.buf[i] # NEWLINE
        BY <1>0, <3>1 DEF Short
      <4>2. Len(buf) + 1 # call.size /\ buf[Len(buf)] # NEWLINE
        BY <1>9, <3>1 DEF Complete, Last
      <4>3. Len(buf) = Len(call.buf) + 1
        BY <1>2, <4>1
      <4>4. Len(buf) < call.size - 1
        BY <1>1, <4>1, <4>2, <4>3
      <4>5. \A i \in 1 .. Len(buf) : buf[i] # NEWLINE
        <5>1. Len(call.buf) \in Nat
          BY <1>1
        <5>2. \A i \in 1 .. Len(buf) : i = Len(buf) \/ i \in 1 .. Len(call.buf)
          BY <4>3, <5>1
        <5> QED  BY <1>2, <4>1, <4>2, <5>2
      <4> QED  BY <2>2, <3>1, <4>1, <4>4, <4>5 DEF Short
    <3>2. CASE call.fn # "rio_readlineb"
      <4>1. call.size \in ReadSize /\ Len(bytes) <= call.size - Len(call.buf)
        BY <1>0, <3>2 DEF Short
      <4>2. Len(buf) # call.size
        BY <1>9, <3>2 DEF Complete
      <4>3. Len(buf) < call.size
        <5>1. Len(buf) = Len(call.buf) + Len(bytes) /\ Len(bytes) \in Nat
          BY <1>0, <1>2
        <5>2. Len(call.buf) \in Nat /\ call.size \in Nat
          BY <1>1
        <5>3. Len(bytes) <= call.size - Len(call.buf)
          BY <4>1
        <5>4. \A a, b, c, d \in Nat : a = b + c /\ c <= d - b /\ a # d => a < d
          OBVIOUS
        <5>5. Len(buf) \in Nat
          BY <1>5
        <5> QED  BY <4>2, <5>1, <5>2, <5>3, <5>4, <5>5
      <4> QED  BY <2>2, <3>2, <4>1, <4>3 DEF Short
    <3> QED  BY <3>1, <3>2
  <2>5. call' \in [fn : Reading, size : Nat, buf : Seq(Bytes)]
    BY <1>1, <1>2, <2>1
  <2>6. call'.fn = "rio_readn" <=> ~buffered'
    BY <2>2, CallIs
  <2>7. CallInv'
    BY <2>4, <2>5, <2>6 DEF CallInv
  <2> QED  BY <1>7, <2>1, <2>3, <2>7, Stutters
<1> QED  BY <1>8, <1>9

(* The end of the stream: a call returns with what there is.               *)
LEMMA GetsEnd ==
    ASSUME RioInv, call # NoCall, AtEnd, EndOfFile,
           Streamed = call.buf, Streamed' = <<>>,
           Text' = Text, wclosed' = wclosed, reset' = reset
    PROVE  CallInv' /\ Mapped
<1>1. /\ call.fn \in Reading /\ call.size \in Nat /\ call.buf \in Seq(Bytes)
      /\ Len(call.buf) \in Nat /\ Short(call)
  BY CallIs
<1>2. /\ ret' = [fn |-> call.fn, size |-> call.size, rc |-> Len(call.buf), buf |-> call.buf]
      /\ call' = NoCall /\ wclosed /\ ~reset
  BY DEF EndOfFile, Returns, AtEnd
<1>3. Streamed = call.buf \o <<>> /\ <<>> \in Seq(Bytes)
  BY <1>1, Nothing
<1>4. CASE call.fn = "rio_readlineb"
  <2>1. /\ call.size \in LineSize /\ Len(call.buf) < call.size - 1
        /\ \A i \in 1 .. Len(call.buf) : call.buf[i] # NEWLINE
    BY <1>1, <1>4 DEF Short
  <2>2. Promised!LineLength(call.size) = call.size - 1
    BY <1>1, <2>1, NoLine
  <2>3. call.size - 1 \in Nat /\ Len(call.buf) <= call.size - 1
    <3>1. call.size \in Nat /\ Len(call.buf) \in Nat
      BY <1>1
    <3> QED  BY <2>1, <3>1
  <2>4. Promised!Take(call.fn, call.size, Promised!LineLength(call.size))
    BY <1>1, <1>2, <1>3, <2>2, <2>3, Takes
  <2>5. Mapped
    BY <1>1, <1>4, <2>1, <2>4, Answers
  <2> QED  BY <1>2, <2>5 DEF CallInv
<1>5. CASE call.fn # "rio_readlineb"
  <2>1. call.size \in ReadSize /\ Len(call.buf) < call.size
    BY <1>1, <1>5 DEF Short
  <2>2. Len(call.buf) <= call.size
    <3>1. call.size \in Nat /\ Len(call.buf) \in Nat
      BY <1>1
    <3> QED  BY <2>1, <3>1
  <2>3. Promised!Take(call.fn, call.size, call.size)
    BY <1>1, <1>2, <1>3, <2>2, Takes
  <2>4. Mapped
    BY <1>1, <1>5, <2>1, <2>3, Answers
  <2> QED  BY <1>2, <2>4 DEF CallInv
<1> QED  BY <1>4, <1>5

(* A reset: the call fails, and what it had is lost.                       *)
LEMMA GetsReset ==
    ASSUME RioInv, call # NoCall, AtReset, Returns(-1, <<>>),
           Streamed = call.buf, Streamed' = <<>>,
           Text' = Text, wclosed' = wclosed, reset' = FALSE
    PROVE  CallInv' /\ Mapped
<1>1. /\ call.fn \in Reading /\ call.size \in Nat /\ call.buf \in Seq(Bytes)
      /\ Len(call.buf) \in Nat /\ Short(call)
  BY CallIs
<1>2. /\ ret' = [fn |-> call.fn, size |-> call.size, rc |-> -1, buf |-> <<>>]
      /\ call' = NoCall /\ reset
  BY DEF Returns, AtReset
<1>3. CASE call.fn = "rio_readlineb"
  <2>1. /\ call.size \in LineSize /\ Len(call.buf) < call.size - 1
        /\ \A i \in 1 .. Len(call.buf) : call.buf[i] # NEWLINE
    BY <1>1, <1>3 DEF Short
  <2>2. Promised!LineLength(call.size) = call.size - 1
    BY <1>1, <2>1, NoLine
  <2>3. Len(Streamed) < Promised!LineLength(call.size)
    BY <2>1, <2>2
  <2>4. Promised!Fail(call.fn, call.size)
    BY <1>2, <1>3, <2>3 DEF Promised!Fail, Streamed, Text
  <2>5. Mapped
    BY <1>3, <2>1, <2>4 DEF Mapped, Promised!Next
  <2> QED  BY <1>2, <2>5 DEF CallInv
<1>4. CASE call.fn # "rio_readlineb"
  <2>1. call.size \in ReadSize /\ Len(Streamed) < call.size
    BY <1>1, <1>4 DEF Short
  <2>2. call.fn \in {"rio_readn", "rio_readnb"}
    BY <1>1, <1>4 DEF Reading
  <2>3. Promised!Fail(call.fn, call.size)
    BY <1>2, <1>4, <2>1 DEF Promised!Fail, Streamed, Text
  <2>4. Mapped
    BY <2>1, <2>2, <2>3 DEF Mapped, Promised!Next
  <2> QED  BY <1>2, <2>4 DEF CallInv
<1> QED  BY <1>3, <1>4

(* rio_read: the buffer is filled from the connection, or given out.       *)
LEMMA Emptied ==
    ASSUME RioInv, InRioRead, rio.rio_cnt <= 0
    PROVE  /\ call # NoCall /\ buffered /\ rio \in Buffers
           /\ Unread = <<>> /\ Streamed = call.buf \o wire
           /\ call.buf \in Seq(Bytes) /\ wire \in Seq(Bytes)
<1>1. call # NoCall
  BY DEF InRioRead, NoCall
<1>2. buffered
  BY <1>1, CallIs DEF InRioRead
<1> QED  BY <1>1, <1>2, Types DEF RioInv, RioTypes

LEMMA Refills ==
    ASSUME RioInv, Refill PROVE RioInv' /\ Mapped
<1>1. /\ buffered /\ Streamed = call.buf \o wire
      /\ call.buf \in Seq(Bytes) /\ wire \in Seq(Bytes)
  BY Emptied DEF Refill
<1>2. PICK k \in UpTo(RIO_BUFSIZE, Len(wire)) :
        /\ rio' = [rio_cnt |-> k, rio_buf |-> First(wire, k), rio_bufptr |-> 1]
        /\ wire' = Rest(wire, k)
  BY DEF Refill
<1>3. UNCHANGED <<writes, out, wclosed, reset, buffered, call, ret>>
  BY DEF Refill, writerVars
<1>4. k \in 1 .. Len(wire) /\ k \in 0 .. Len(wire)
  <2>1. RIO_BUFSIZE \in Int /\ Len(wire) \in Nat
    BY <1>1, RioAssumption, LenProperties
  <2>2. k \in 1 .. Len(wire)
    BY <1>2, <2>1, UpToIs
  <2> QED  BY <2>1, <2>2
<1> DEFINE got == First(wire, k)  left == Rest(wire, k)
<1>5. /\ got \in Seq(Bytes) /\ Len(got) = k /\ left \in Seq(Bytes)
      /\ got \o left = wire
  BY <1>1, <1>4, Cut
<1> HIDE DEF got, left
<1>6. /\ rio' = [rio_cnt |-> k, rio_buf |-> got, rio_bufptr |-> 1] /\ wire' = left
  BY <1>2 DEF got, left
<1>7. rio' \in Buffers /\ Filled(rio')
  <2>1. k \in Int /\ 1 + k <= Len(got) + 1
    BY <1>4, <1>5
  <2> QED  BY <1>5, <1>6, <2>1 DEF Buffers, Filled
<1>8. RioInv'
  BY <1>1, <1>3, <1>5, <1>6, <1>7 DEF RioInv, RioTypes, CallInv
<1>9. Unread' = got
  <2>1. Holds(rio') = SubSeq(got, 1, Len(got))
    <3>1. (1 + k) - 1 = Len(got)
      BY <1>4, <1>5
    <3> QED  BY <1>6, <3>1 DEF Holds
  <2>2. SubSeq(got, 1, Len(got)) = got
    BY <1>5, SubSeqFull
  <2> QED  BY <1>7, <2>1, <2>2, UnreadNext
<1>10. Streamed' = Streamed
  <2>1. Streamed' = (call.buf \o got) \o left
    BY <1>3, <1>6, <1>9 DEF Streamed
  <2> QED  BY <1>1, <1>5, <2>1, Joined
<1> QED  BY <1>3, <1>8, <1>10, SameText, Stutters

(* An empty buffer stays empty.                                            *)
LEMMA StaysEmpty ==
    ASSUME RioInv, buffered, rio.rio_cnt <= 0, NEW cnt \in {0, -1},
           rio' = [rio EXCEPT !.rio_cnt = cnt]
    PROVE  rio' \in Buffers /\ Filled(rio') /\ Unread' = <<>>
<1>1. rio \in Buffers
  BY DEF RioInv, RioTypes
<1>2. rio' \in Buffers /\ rio'.rio_cnt = cnt /\ cnt <= 0 /\ ~(cnt > 0)
  BY <1>1 DEF Buffers
<1>3. Filled(rio')
  BY <1>2 DEF Filled
<1> QED  BY <1>2, <1>3, BufferIs, UnreadNext

LEMMA RefillEnds ==
    ASSUME RioInv, RefillInterrupted \/ RefillAtEnd \/ RefillFails
    PROVE  RioInv' /\ Mapped
<1>1. /\ buffered /\ call # NoCall /\ rio \in Buffers /\ rio.rio_cnt <= 0
      /\ Unread = <<>> /\ Streamed = call.buf \o wire
      /\ call.buf \in Seq(Bytes) /\ wire \in Seq(Bytes)
  BY Emptied DEF RefillInterrupted, RefillAtEnd, RefillFails
<1>2. /\ UNCHANGED <<writes, out, wire, wclosed, buffered>>
      /\ rio' \in Buffers /\ Filled(rio') /\ Unread' = <<>>
  <2>1. PICK cnt \in {0, -1} : rio' = [rio EXCEPT !.rio_cnt = cnt]
    BY DEF RefillInterrupted, RefillAtEnd, RefillFails
  <2>2. rio' \in Buffers /\ Filled(rio') /\ Unread' = <<>>
    BY <1>1, <2>1, StaysEmpty
  <2> QED  BY <2>2 DEF RefillInterrupted, RefillAtEnd, RefillFails, kernelVars, writerVars
<1>3. RioTypes'
  BY <1>1, <1>2 DEF RioInv, RioTypes
<1>4. Text' = Text
  BY <1>2, SameText
<1>5. wire = <<>> => Streamed = call.buf
  BY <1>1, Nothing
<1>6. call' = NoCall /\ wire = <<>> => Streamed' = <<>>
  <2>1. <<>> \o <<>> = <<>>
    BY Nothing
  <2> QED  BY <1>2, <2>1 DEF Streamed, NoCall
<1>7. CASE RefillInterrupted
  <2>1. call' = call /\ ret' = ret /\ reset' = reset
    BY <1>7 DEF RefillInterrupted, kernelVars
  <2>2. CallInv'
    BY <1>2, <2>1 DEF RioInv, CallInv
  <2>3. Streamed' = Streamed
    BY <1>1, <1>2, <2>1 DEF Streamed
  <2> QED  BY <1>2, <1>3, <1>4, <2>1, <2>2, <2>3, Stutters DEF RioInv
<1>8. CASE RefillAtEnd
  <2>1. AtEnd /\ EndOfFile /\ call' = NoCall /\ wire = <<>> /\ reset' = reset
    BY <1>8 DEF RefillAtEnd, EndOfFile, Returns, AtEnd, kernelVars
  <2> QED  BY <1>1, <1>2, <1>3, <1>4, <1>5, <1>6, <2>1, GetsEnd DEF RioInv
<1>9. CASE RefillFails
  <2>1. AtReset /\ Returns(-1, <<>>) /\ call' = NoCall /\ wire = <<>> /\ reset' = FALSE
    BY <1>9 DEF RefillFails, Returns, AtReset
  <2> QED  BY <1>1, <1>2, <1>3, <1>4, <1>5, <1>6, <2>1, GetsReset DEF RioInv
<1> QED  BY <1>7, <1>8, <1>9

(* rio_read gives out some of the buffer.                                  *)
LEMMA GivesOut ==
    ASSUME RioInv, rio_read PROVE RioInv' /\ Mapped
<1>1. /\ call # NoCall /\ buffered /\ rio \in Buffers /\ Filled(rio) /\ rio.rio_cnt > 0
      /\ UNCHANGED <<writes, out, wire, wclosed, reset, buffered>>
  <2>1. call # NoCall
    BY DEF rio_read, InRioRead, NoCall
  <2>2. buffered
    BY <2>1, CallIs DEF rio_read, InRioRead
  <2> QED  BY <2>1, <2>2 DEF rio_read, kernelVars, writerVars, RioInv, RioTypes
<1> DEFINE p == rio.rio_bufptr  n == rio.rio_cnt  buf == rio.rio_buf
           cnt == Min({Wanted, n})
           bytes == SubSeq(buf, p, (p + cnt) - 1)
<1>2. /\ p \in Nat \ {0} /\ n \in Nat \ {0} /\ buf \in Seq(Bytes) /\ Len(buf) \in Nat
      /\ p + n <= Len(buf) + 1
  <2>1. /\ p \in Nat \ {0} /\ n \in Int /\ buf \in Seq(Bytes)
        /\ n > 0 => p + n <= Len(buf) + 1
    BY <1>1 DEF Buffers, Filled
  <2>2. Len(buf) \in Nat
    BY <2>1, LenProperties
  <2> QED  BY <1>1, <2>1, <2>2
<1>3. cnt \in 1 .. Wanted /\ cnt \in 1 .. n
  <2>1. Wanted \in Nat \ {0}
    BY <1>1, CallIs
  <2> DEFINE T == {Wanted, n}  m == IF Wanted <= n THEN Wanted ELSE n
  <2>2. T \in SUBSET Int /\ m \in T /\ \A x \in T : m <= x
    BY <1>2, <2>1
  <2>3. m \in 1 .. Wanted /\ m \in 1 .. n
    BY <1>2, <2>1
  <2> HIDE DEF m, T
  <2>4. Min(T) = m
    BY <2>2, MinIs
  <2> QED  BY <2>3, <2>4 DEF T
<1>4. /\ Gets(bytes)
      /\ rio' = [rio_cnt |-> n - cnt, rio_buf |-> buf, rio_bufptr |-> p + cnt]
  <2>1. /\ Gets(SubSeq(buf, p, p + (cnt - 1)))
        /\ rio' = [rio EXCEPT !.rio_bufptr = @ + cnt, !.rio_cnt = @ - cnt]
    BY DEF rio_read
  <2> HIDE DEF cnt
  <2>2. p + (cnt - 1) = (p + cnt) - 1
    BY <1>2, <1>3
  <2>3. rio = [rio_cnt |-> n, rio_buf |-> buf, rio_bufptr |-> p]
    BY <1>1 DEF Buffers
  <2> HIDE DEF n, p, buf
  <2>4. rio' = [rio_cnt |-> n - cnt, rio_buf |-> buf, rio_bufptr |-> p + cnt]
    BY <2>1, <2>3
  <2> QED  BY <2>1, <2>2, <2>4
<1>5. Unread = SubSeq(buf, p, (p + n) - 1) /\ Unread \in Seq(Bytes)
  BY <1>1, UnreadIs, BufferIs DEF Holds
<1> HIDE DEF cnt, n, p, buf
<1>6. rio' \in Buffers /\ Filled(rio')
  <2>1. /\ n - cnt \in Int /\ p + cnt \in Nat \ {0}
        /\ n - cnt > 0 => (p + cnt) + (n - cnt) <= Len(buf) + 1
    BY <1>2, <1>3
  <2> QED  BY <1>2, <1>4, <2>1 DEF Buffers, Filled
<1>7. Unread' = SubSeq(buf, p + cnt, (p + n) - 1) /\ Unread' \in Seq(Bytes)
  <2>1. ((p + cnt) + (n - cnt)) - 1 = (p + n) - 1
    BY <1>2, <1>3
  <2>2. Unread' = Holds(rio') /\ Holds(rio') \in Seq(Bytes)
    BY <1>6, UnreadNext, BufferIs
  <2>3. Holds(rio') = SubSeq(buf, p + cnt, ((p + cnt) + (n - cnt)) - 1)
    BY <1>4 DEF Holds
  <2> QED  BY <2>1, <2>2, <2>3
<1>8. bytes \in Seq(Bytes) /\ Len(bytes) = cnt
  <2>1. p \in Int /\ (p + cnt) - 1 \in Int /\ p <= (p + cnt) - 1 /\ ((p + cnt) - 1) - p + 1 = cnt
    BY <1>2, <1>3
  <2>2. \A i \in p .. (p + cnt) - 1 : i \in 1 .. Len(buf)
    BY <1>2, <1>3
  <2>3. \A i \in p .. (p + cnt) - 1 : buf[i] \in Bytes
    BY <1>2, <2>2, ElementOfSeq
  <2> QED  BY <2>1, <2>3, SubSeqProperties
<1>9. Unread = bytes \o Unread'
  <2> DEFINE k == (p + cnt) - 1  e == (p + n) - 1
  <2>1. p \in 1 .. Len(buf) + 1 /\ k \in p - 1 .. Len(buf) /\ e \in k .. Len(buf) /\ k + 1 = p + cnt
    BY <1>2, <1>3
  <2>2. bytes = SubSeq(buf, p, k) /\ Unread = SubSeq(buf, p, e) /\ Unread' = SubSeq(buf, k + 1, e)
    BY <1>5, <1>7, <2>1
  <2> HIDE DEF k, e, bytes
  <2> QED  BY <1>2, <2>1, <2>2, ConcatAdjacentSubSeq
<1> HIDE DEF bytes
<1> DEFINE left == Unread' \o wire'
<1>10. /\ call.buf \in Seq(Bytes) /\ wire \in Seq(Bytes) /\ wire' \in Seq(Bytes)
       /\ left \in Seq(Bytes)
  <2>1. call.buf \in Seq(Bytes) /\ wire \in Seq(Bytes) /\ wire' = wire
    BY <1>1, Types
  <2> QED  BY <1>7, <2>1, ConcatProperties
<1>11. Streamed = call.buf \o (bytes \o left)
  <2>1. Streamed = call.buf \o ((bytes \o Unread') \o wire')
    BY <1>1, <1>9, Types
  <2>2. (bytes \o Unread') \o wire' = bytes \o (Unread' \o wire')
    <3>1. bytes \in Seq(Bytes) /\ Unread' \in Seq(Bytes) /\ wire' \in Seq(Bytes)
      BY <1>7, <1>8, <1>10
    <3> QED  BY <3>1, Joined, Zenon
  <2> QED  BY <2>1, <2>2
<1> HIDE DEF left
<1>12. CallInv' /\ Mapped
  BY <1>1, <1>3, <1>4, <1>7, <1>8, <1>10, <1>11, GetsSome DEF left
<1>13. RioTypes'
  BY <1>1, <1>6 DEF RioInv, RioTypes
<1> QED  BY <1>12, <1>13 DEF RioInv

(* rio_readn reads from the connection itself.                             *)
LEMMA ReadsDirectly ==
    ASSUME RioInv, rio_readn \/ ReadnAtEnd \/ ReadnFails PROVE RioInv' /\ Mapped
<1>1. /\ call # NoCall /\ ~buffered /\ rio \in Buffers /\ Filled(rio)
      /\ Unread = <<>> /\ Streamed = call.buf \o wire
      /\ call.buf \in Seq(Bytes) /\ wire \in Seq(Bytes)
  <2>1. call.fn = "rio_readn" /\ call # NoCall
    BY DEF rio_readn, ReadnAtEnd, ReadnFails, NoCall
  <2>2. ~buffered
    BY <2>1, CallIs
  <2>3. rio.rio_cnt <= 0
    BY <2>2 DEF RioInv, RioTypes, rio_readinitb
  <2> QED  BY <2>1, <2>2, <2>3, Types DEF RioInv, RioTypes
<1>2. UNCHANGED <<writes, out, wclosed, buffered, rio>>
  BY DEF rio_readn, ReadnAtEnd, ReadnFails, kernelVars, writerVars
<1>3. Text' = Text /\ Unread' = <<>>
  BY <1>1, <1>2, SameText DEF Unread
<1>4. wire' \in Seq(Bytes) => RioTypes'
  BY <1>1, <1>2 DEF RioInv, RioTypes
<1>5. wire = <<>> => Streamed = call.buf
  BY <1>1, Nothing
<1>6. call' = NoCall /\ wire' = <<>> => Streamed' = <<>>
  <2>1. <<>> \o <<>> = <<>>
    BY Nothing
  <2> QED  BY <1>3, <2>1 DEF Streamed, NoCall
<1>7. CASE rio_readn
  <2>1. PICK k \in UpTo(Wanted, Len(wire)) :
            Gets(First(wire, k)) /\ wire' = Rest(wire, k)
    BY <1>7 DEF rio_readn
  <2>2. k \in 1 .. Wanted /\ k \in 0 .. Len(wire) /\ reset' = reset
    <3>1. Wanted \in Int /\ Len(wire) \in Nat
      BY <1>1, CallIs, LenProperties
    <3>2. k \in 1 .. Wanted /\ k \in 1 .. Len(wire)
      BY <2>1, <3>1, UpToIs
    <3> QED  BY <1>7, <3>1, <3>2 DEF rio_readn
  <2> DEFINE bytes == First(wire, k)  left == Rest(wire, k)
  <2>3. /\ bytes \in Seq(Bytes) /\ Len(bytes) = k /\ left \in Seq(Bytes)
        /\ bytes \o left = wire
    BY <1>1, <2>2, Cut
  <2> HIDE DEF bytes, left
  <2>4. Gets(bytes) /\ wire' = left
    BY <2>1 DEF bytes, left
  <2>5. Streamed = call.buf \o (bytes \o left)
    BY <1>1, <2>3
  <2>6. Unread' \o wire' = left /\ Unread' \in Seq(Bytes) /\ wire' \in Seq(Bytes)
    BY <1>3, <2>3, <2>4, Nothing
  <2>7. CallInv' /\ Mapped
    BY <1>1, <1>2, <2>2, <2>3, <2>4, <2>5, <2>6, GetsSome
  <2> QED  BY <1>4, <2>6, <2>7 DEF RioInv
<1>8. CASE ReadnAtEnd
  <2>1. /\ AtEnd /\ EndOfFile /\ call' = NoCall /\ wire = <<>>
        /\ wire' = wire /\ reset' = reset
    BY <1>8 DEF ReadnAtEnd, EndOfFile, Returns, AtEnd, kernelVars
  <2> QED  BY <1>1, <1>2, <1>3, <1>4, <1>5, <1>6, <2>1, GetsEnd DEF RioInv
<1>9. CASE ReadnFails
  <2>1. /\ AtReset /\ Returns(-1, <<>>) /\ call' = NoCall /\ wire = <<>>
        /\ wire' = wire /\ reset' = FALSE
    BY <1>9 DEF ReadnFails, Returns, AtReset
  <2> QED  BY <1>1, <1>2, <1>3, <1>4, <1>5, <1>6, <2>1, GetsReset DEF RioInv
<1> QED  BY <1>7, <1>8, <1>9

(***************************************************************************)
(* The refinement.                                                         *)
(***************************************************************************)
LEMMA RioStep == RioInv /\ [Next]_vars => RioInv' /\ Mapped
<1> SUFFICES ASSUME RioInv, [Next]_vars PROVE RioInv' /\ Mapped
  OBVIOUS
<1>1. CASE UNCHANGED rioVars
  <2>1. UNCHANGED <<writes, out, wire, wclosed, reset, buffered, rio, call, ret>>
    BY <1>1 DEF rioVars, kernelVars, writerVars, readerVars
  <2>2. RioInv'
    BY <2>1 DEF RioInv, RioTypes, CallInv
  <2> QED  BY <2>1, <2>2, SameText, SameStream, Stutters
<1>2. CASE Writer
  BY <1>2, WritenBegins, Writes, WriterGoes DEF Writer
<1>3. CASE Reader
  BY <1>3, ReaderTurns, Refills, RefillEnds, GivesOut, ReadsDirectly DEF Reader, Reads
<1>4. CASE ConnectionReset
  BY <1>4, IsReset
<1>5. CASE RefillInterrupted
  BY <1>5, RefillEnds
<1> QED  BY <1>1, <1>2, <1>3, <1>4, <1>5 DEF Next, Opens, Transfers, RioNext, vars

LEMMA RioStart == Init => RioInv /\ Promised!Init
<1> SUFFICES ASSUME Init PROVE RioInv /\ Promised!Init
  OBVIOUS
<1>1. /\ writes \in Texts /\ writes \in Seq(Seq(Bytes)) /\ out = <<>> /\ wire = <<>>
      /\ wclosed = FALSE /\ reset = FALSE /\ rio = rio_readinitb /\ call = NoCall
      /\ ret = [fn |-> "none", size |-> 0, rc |-> 1, buf |-> <<>>]
  BY RioAssumption DEF Init, RioInit, Bytes
<1>2. rio \in Buffers /\ Filled(rio)
  BY <1>1, EmptySeq DEF rio_readinitb, Buffers, Filled
<1>3. RioInv
  BY <1>1, <1>2, Nothing DEF RioInv, RioTypes, CallInv
<1>4. Text = FlattenSeq(writes)
  BY <1>1, FlattenType, Nothing DEF Text
<1>5. Streamed = <<>>
  <2>1. rio.rio_cnt <= 0 /\ call.buf = <<>>
    BY <1>1 DEF rio_readinitb, NoCall
  <2>2. Streamed = <<>> \o <<>>
    BY <1>1, <1>3, <2>1, Types
  <2> QED  BY <2>2, Nothing
<1>6. FlattenSeq(writes) = Promised!FlattenSeq(writes)
  BY DEF FlattenSeq, Promised!FlattenSeq
<1> QED  BY <1>1, <1>3, <1>4, <1>5, <1>6 DEF Promised!Init, Text, Streamed

(* Whatever is written, however it is cut up on its way and wherever it    *)
(* ends or is interrupted: rio_readlineb, rio_readnb and rio_readn take    *)
(* line after line, or n bytes after n bytes, from one stream, for any     *)
(* size of the connection, of the buffer and of what they are asked for.   *)
THEOREM RioImplementsStream == Spec => ImplementsStream
<1>1. Init => RioInv /\ Promised!Init
  BY RioStart
<1>2. RioInv /\ [Next]_vars => RioInv'
  BY RioStep
<1>3. RioInv /\ [Next]_vars => [Promised!Next]_(Promised!vars)
  BY RioStep DEF Mapped
<1> QED  BY <1>1, <1>2, <1>3, PTL DEF Spec, ImplementsStream, Promised!Spec
=============================================================================
