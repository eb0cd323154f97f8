---------------------------- MODULE ProxyProofs -----------------------------
(***************************************************************************)
(* Theorems about Proxy: for any number of threads and all requests,       *)
(* responses and contents of unassigned variables, its safety properties.  *)
(***************************************************************************)
EXTENDS Proxy, SequenceTheorems, TLAPS

(* The invariant that the four rest on, thread by thread: which sockets    *)
(* are open where, what has been passed on, and how much of the response   *)
(* is left.                                                                *)
Asking == {"idle", "request line", "headers", "connect", "request"}
Sending == {"chunks", "request body"}
Logging == {"P", "printf", "V"}
Over == {"return", "done"}

SocketsOf(t) ==
    /\ pc[t] \in {"idle", "done"} => open[t] = {}
    /\ "server" \in open[t] =>
            pc[t] \in Sending \cup {"request", "response head", "response body"}
ForwardedOf(t) ==
    /\ InOrder(forwarded[t], Len(forwarded[t]))
    /\ pc[t] \in Sending /\ ~deaf[t] => Len(forwarded[t]) = cread[t]
RelayedOf(t) ==
    \/ Len(relayed[t]) = sread[t] /\ InOrder(relayed[t], sread[t])
    \/ pc[t] \in Logging \cup Over \cup {"response body"} /\ MadeUp(t)
    \/ /\ pc[t] \in Over
       /\ Len(relayed[t]) < sread[t] /\ InOrder(relayed[t], Len(relayed[t]))
HeadOf(t) ==
    /\ pc[t] = "idle" => cread[t] = 0
    /\ pc[t] \in Asking => sread[t] = 0
    /\ pc[t] \in Sending \cup {"response head"} =>
            \A m \in 1 .. sread[t] : response[t].pieces[m] # "blank"
BodyOf(t) ==
    pc[t] = "response body" =>
        /\ response_body_size[t] \in Int
        /\ response_body_size[t] > 0 => response_tmp[t] >= 0
        /\ response_body_size[t] <= 0 => response_tmp[t] = response_body_size[t]
        /\ \E n \in 1 .. Len(response[t].pieces) :
            /\ IsHead(t, n)
            /\ Len(relayed[t]) = n + (response_body_size[t] - response_tmp[t])
ThreadInv(t) ==
    /\ SocketsOf(t) /\ ForwardedOf(t) /\ RelayedOf(t) /\ HeadOf(t) /\ BodyOf(t)
    /\ pc[t] \in Logging => Whole(t)

MutexInv ==
    /\ \A t \in Thread : pc[t] \in {"printf", "V"} => mutex = 0
    /\ \A t, u \in Thread : pc[t] \in {"printf", "V"} /\ pc[u] \in {"printf", "V"} => t = u
LogInv ==
    /\ \A n \in 1 .. Len(log) : pc[log[n]] \in Over \cup {"V"}
    /\ LogsWhole
IInv == TypeOK /\ MutexInv /\ LogInv /\ \A t \in Thread : ThreadInv(t)

Step(t) == Accept(t) \/ thread(t)

(* What is in a peer's script.                                             *)
LEMMA Pieces ==
    ASSUME TypeOK, NEW t \in Thread
    PROVE  /\ request[t].pieces \in Seq(Kind) /\ response[t].pieces \in Seq(Kind)
           /\ Len(request[t].pieces) \in Nat /\ Len(response[t].pieces) \in Nat
           /\ cread[t] \in Nat /\ sread[t] \in Nat
           /\ cread[t] <= Len(request[t].pieces) /\ sread[t] <= Len(response[t].pieces)
<1>1. <<>> \in Seq(Kind)
  OBVIOUS
<1>2. request[t].pieces \in Seq(Kind)
  <2>1. request[t] \in Request \/ request[t] = Silent
    BY DEF TypeOK, PlacesOK, PeersOK, StreamsOK, SizesOK
  <2>2. Silent.pieces = <<>>
    BY DEF Silent
  <2>3. request[t] \in Request => request[t].pieces \in Seq(Kind)
    BY RequestAssumption
  <2> QED
    BY <1>1, <2>1, <2>2, <2>3
<1>3. response[t].pieces \in Seq(Kind)
  <2>1. response[t] \in Response \/ response[t] = Silent
    BY DEF TypeOK, PlacesOK, PeersOK, StreamsOK, SizesOK
  <2>2. Silent.pieces = <<>>
    BY DEF Silent
  <2>3. response[t] \in Response => response[t].pieces \in Seq(Kind)
    BY ResponseAssumption
  <2> QED
    BY <1>1, <2>1, <2>2, <2>3
<1>4. Len(request[t].pieces) \in Nat /\ Len(response[t].pieces) \in Nat
  BY <1>2, <1>3, LenProperties
<1> QED
  BY <1>2, <1>3, <1>4 DEF TypeOK, PlacesOK, PeersOK, StreamsOK, SizesOK

LEMMA Lengths ==
    ASSUME TypeOK, NEW t \in Thread
    PROVE  /\ cread[t] < Len(request[t].pieces) => request[t].length \in Int
           /\ sread[t] < Len(response[t].pieces) => response[t].length \in Int
<1>1. request[t] # Silent => request[t].length \in Int
  BY RequestAssumption DEF TypeOK, PlacesOK, PeersOK, StreamsOK, SizesOK
<1>2. response[t] # Silent => response[t].length \in Int
  BY ResponseAssumption DEF TypeOK, PlacesOK, PeersOK, StreamsOK, SizesOK
<1>3. Silent.pieces = <<>> /\ Len(<<>>) = 0
  BY DEF Silent
<1> QED
  BY <1>1, <1>2, <1>3, Pieces

(* A step of one thread leaves what belongs to the others alone.           *)
Same(u) ==
    /\ pc'[u] = pc[u] /\ open'[u] = open[u] /\ deaf'[u] = deaf[u]
    /\ request'[u] = request[u] /\ response'[u] = response[u]
    /\ cread'[u] = cread[u] /\ sread'[u] = sread[u]
    /\ forwarded'[u] = forwarded[u] /\ relayed'[u] = relayed[u]
    /\ response_body_size'[u] = response_body_size[u]
    /\ response_tmp'[u] = response_tmp[u]

LEMMA OthersUntouched ==
    ASSUME TypeOK, NEW t \in Thread, Step(t), NEW u \in Thread, u # t
    PROVE  Same(u)
<1> USE DEF Same, TypeOK, PlacesOK, PeersOK, StreamsOK, SizesOK,
        sockets, streams, sizes, logging, Goto, Return, CloseAndReturn
<1>1. CASE Accept(t)
  BY <1>1 DEF Accept
<1>2. CASE ClientGone(t) \/ ServerGone(t) \/ ConnectFails(t)
  BY <1>2 DEF ClientGone, ServerGone, ConnectFails
<1>3. CASE ReadRequestLine(t) \/ ReadHeader(t)
  BY <1>3 DEF ReadRequestLine, ReadHeader, ReadsClient
<1>4. CASE Connect(t) \/ SendRequest(t) \/ SendRequestFails(t)
  BY <1>4 DEF Connect, SendRequest, SendRequestFails
<1>5. CASE SendChunk(t) \/ SendByte(t)
  BY <1>5 DEF SendChunk, SendByte, ReadsClient, Forwards
<1>6. CASE ChunksEnd(t) \/ BodyEnds(t)
  BY <1>6 DEF ChunksEnd, BodyEnds
<1>7. CASE RelayLine(t)
  BY <1>7 DEF RelayLine, ReadsServer, Relays
<1>8. CASE RelayFails(t)
  BY <1>8 DEF RelayFails, ReadsServer
<1>9. CASE RelayByte(t) \/ RelayLastByte(t)
  BY <1>9 DEF RelayByte, RelayLastByte, ReadsServer, Relays
<1>10. CASE CloseServer(t) \/ CloseClient(t)
  BY <1>10 DEF CloseServer, CloseClient
<1>11. CASE P(t) \/ printf(t) \/ V(t)
  BY <1>11 DEF P, printf, V
<1> QED
  BY <1>1, <1>2, <1>3, <1>4, <1>5, <1>6, <1>7, <1>8, <1>9, <1>10, <1>11
  DEF Step, thread

LEMMA SameKeeps ==
    ASSUME NEW u \in Thread, Same(u), ThreadInv(u)
    PROVE  ThreadInv(u)'
<1>1. SocketsOf(u)' /\ ForwardedOf(u)' /\ HeadOf(u)'
  BY DEF Same, ThreadInv, SocketsOf, ForwardedOf, HeadOf, InOrder
<1>2. RelayedOf(u)'
  BY DEF Same, ThreadInv, RelayedOf, InOrder, MadeUp
<1>3. \A n : IsHead(u, n)' <=> IsHead(u, n)
  BY DEF Same, IsHead
<1>4. BodyOf(u)'
  BY <1>3 DEF Same, ThreadInv, BodyOf
<1>5. Whole(u)' <=> Whole(u)
  BY <1>3 DEF Same, Whole
<1> QED
  BY <1>1, <1>2, <1>4, <1>5 DEF Same, ThreadInv

(***************************************************************************)
(* Types.  MutexInv is needed for V: a thread that gives the semaphore     *)
(* back has it.                                                            *)
(***************************************************************************)
LEMMA PlacesStep ==
    ASSUME PlacesOK, NEW t \in Thread, Step(t)
    PROVE  PlacesOK'
<1> USE DEF sockets, Return, CloseAndReturn
<1>1. \A there \in Place : Goto(t, there) => pc' \in [Thread -> Place]
  BY DEF Goto, PlacesOK
<1>2. \A sock : [open EXCEPT ![t] = @ \ {sock}] \in [Thread -> SUBSET {"client", "server"}]
  BY DEF PlacesOK
<1>3. CASE Accept(t) \/ Connect(t)
  <2>1. pc' \in [Thread -> Place]
    BY <1>1, <1>3 DEF Accept, Connect, Place
  <2>2. \/ open' = [open EXCEPT ![t] = {"client"}]
        \/ open' = [open EXCEPT ![t] = @ \cup {"server"}]
    BY <1>3 DEF Accept, Connect
  <2> QED
    BY <2>1, <2>2 DEF PlacesOK
<1>4. CASE ClientGone(t) \/ ReadRequestLine(t) \/ ReadHeader(t)
  BY <1>1, <1>4 DEF ClientGone, ReadRequestLine, ReadHeader, PlacesOK, Place
<1>5. CASE ConnectFails(t) \/ SendRequest(t) \/ SendRequestFails(t)
  BY <1>1, <1>2, <1>5 DEF ConnectFails, SendRequest, SendRequestFails, PlacesOK, Place
<1>6. CASE SendChunk(t) \/ ChunksEnd(t) \/ SendByte(t) \/ BodyEnds(t)
  <2>1. CASE SendByte(t)
    BY <2>1 DEF SendByte, PlacesOK
  <2>2. CASE SendChunk(t) \/ ChunksEnd(t) \/ BodyEnds(t)
    <3>1. \E there \in Place : Goto(t, there)
      BY <2>2 DEF SendChunk, ChunksEnd, BodyEnds, Place
    <3>2. open' = open
      BY <2>2 DEF SendChunk, ChunksEnd, BodyEnds
    <3> QED
      BY <1>1, <3>1, <3>2 DEF PlacesOK
  <2> QED
    BY <1>6, <2>1, <2>2
<1>7. CASE ServerGone(t) \/ RelayFails(t)
  <2>1. \E there \in Place : Goto(t, there)
    BY <1>7 DEF ServerGone, RelayFails, Place
  <2>2. open' = open \/ open' = [open EXCEPT ![t] = @ \ {"server"}]
    BY <1>7 DEF ServerGone, RelayFails
  <2> QED
    BY <1>1, <1>2, <2>1, <2>2 DEF PlacesOK
<1>10. CASE CloseServer(t) \/ CloseClient(t)
  <2>1. \E there \in Place : Goto(t, there)
    BY <1>10 DEF CloseServer, CloseClient, Place
  <2>2. open' = [open EXCEPT ![t] = @ \ {"server"}] \/ open' = [open EXCEPT ![t] = @ \ {"client"}]
    BY <1>10 DEF CloseServer, CloseClient
  <2> QED
    BY <1>1, <1>2, <2>1, <2>2 DEF PlacesOK
<1>8. CASE RelayLine(t) \/ RelayByte(t) \/ RelayLastByte(t)
  BY <1>1, <1>8 DEF RelayLine, RelayByte, RelayLastByte, PlacesOK, Place
<1>9. CASE P(t) \/ printf(t) \/ V(t)
  BY <1>1, <1>9 DEF P, printf, V, PlacesOK, Place
<1> QED
  BY <1>3, <1>4, <1>5, <1>6, <1>7, <1>8, <1>9, <1>10 DEF Step, thread

LEMMA PeersStep ==
    ASSUME TypeOK, NEW t \in Thread, HeadOf(t), Step(t)
    PROVE  PeersOK'
<1> USE DEF sockets
<1>1. PeersOK /\ \A r \in Request \cup Response : Len(r.pieces) \in Nat
  <2>1. \A r \in Request \cup Response : r.pieces \in Seq(Kind)
    BY RequestAssumption, ResponseAssumption
  <2>2. \A r \in Request \cup Response : Len(r.pieces) \in Nat
    BY <2>1, LenProperties
  <2> QED
    BY <2>2 DEF TypeOK
<1>2. Len(request[t].pieces) \in Nat /\ Len(response[t].pieces) \in Nat
  BY Pieces
<1>3. ReadsClient(t) /\ UNCHANGED <<request, response, sread>> => PeersOK'
  BY <1>1, <1>2 DEF ReadsClient, PeersOK
<1>4. ReadsServer(t) /\ UNCHANGED <<request, response, cread>> => PeersOK'
  BY <1>1, <1>2 DEF ReadsServer, PeersOK
<1>5. UNCHANGED <<request, response, cread, sread>> => PeersOK'
  BY <1>1 DEF PeersOK
<1>6. CASE Accept(t)
  <2>1. PICK sent \in Request : request' = [request EXCEPT ![t] = sent]
    BY <1>6 DEF Accept
  <2>2. UNCHANGED <<response, cread, sread>> /\ cread[t] = 0
    BY <1>6 DEF Accept, HeadOf, At
  <2>3. request' \in [Thread -> Request \cup {Silent}]
    BY <1>1, <2>1 DEF PeersOK
  <2>4. \A u \in Thread : cread[u] <= Len(request'[u].pieces)
    BY <1>1, <2>1, <2>2 DEF PeersOK
  <2> QED
    BY <1>1, <2>2, <2>3, <2>4 DEF PeersOK
<1>7. CASE Connect(t)
  <2>1. PICK sent \in Response : response' = [response EXCEPT ![t] = sent]
    BY <1>7 DEF Connect
  <2>2. UNCHANGED <<request, cread, sread>> /\ sread[t] = 0
    BY <1>7 DEF Connect, HeadOf, At, Asking
  <2>3. response' \in [Thread -> Response \cup {Silent}]
    BY <1>1, <2>1 DEF PeersOK
  <2>4. \A u \in Thread : sread[u] <= Len(response'[u].pieces)
    BY <1>1, <2>1, <2>2 DEF PeersOK
  <2> QED
    BY <1>1, <2>2, <2>3, <2>4 DEF PeersOK
<1>8. CASE ReadRequestLine(t) \/ ReadHeader(t) \/ SendChunk(t) \/ SendByte(t)
  BY <1>3, <1>8 DEF ReadRequestLine, ReadHeader, SendChunk, SendByte
<1>9. CASE RelayLine(t) \/ RelayFails(t) \/ RelayByte(t)
  BY <1>4, <1>5, <1>9 DEF RelayLine, RelayFails, RelayByte
<1>10. CASE ~(\/ Accept(t) \/ Connect(t)
             \/ ReadRequestLine(t) \/ ReadHeader(t) \/ SendChunk(t) \/ SendByte(t)
             \/ RelayLine(t) \/ RelayFails(t) \/ RelayByte(t))
  BY <1>5, <1>10 DEF Step, thread, ClientGone, ConnectFails, SendRequest, SendRequestFails,
     ChunksEnd, BodyEnds, ServerGone, RelayLastByte, CloseServer, P, printf, V, CloseClient
<1> QED
  BY <1>6, <1>7, <1>8, <1>9, <1>10

LEMMA StreamsStep ==
    ASSUME TypeOK, NEW t \in Thread, Step(t)
    PROVE  StreamsOK'
<1> USE DEF sockets, streams
<1>1. StreamsOK /\ cread[t] + 1 \in Nat /\ sread[t] + 1 \in Nat
  BY DEF TypeOK, PeersOK
<1>2. \A f \in [Thread -> Seq(Nat)], n \in Nat :
        [f EXCEPT ![t] = Append(@, n)] \in [Thread -> Seq(Nat)]
  OBVIOUS
<1>3. ASSUME ReadsClient(t), Forwards(t), UNCHANGED <<relayed, server_buf>>
      PROVE  StreamsOK'
  <2>1. cread'[t] \in Nat
    BY <1>1, <1>3 DEF ReadsClient, TypeOK, PeersOK
  <2> QED
    <3>1. forwarded' = [forwarded EXCEPT ![t] = Append(@, cread'[t])] \/ forwarded' = forwarded
      BY <1>3 DEF Forwards
    <3>2. deaf' = [deaf EXCEPT ![t] = TRUE] \/ deaf' = deaf
      BY <1>3 DEF Forwards
    <3>3. forwarded' \in [Thread -> Seq(Nat)]
      <4>1. forwarded \in [Thread -> Seq(Nat)]
        BY <1>1 DEF StreamsOK
      <4>2. [forwarded EXCEPT ![t] = Append(@, cread'[t])] \in [Thread -> Seq(Nat)]
        BY <1>2, <2>1, <4>1
      <4> QED
        BY <3>1, <4>1, <4>2
    <3>4. deaf' \in [Thread -> BOOLEAN]
      BY <1>1, <3>2 DEF StreamsOK
    <3> QED
      BY <1>1, <1>3, <3>3, <3>4 DEF StreamsOK
<1>4. ASSUME ReadsServer(t)
      PROVE  sread'[t] \in Nat /\ server_buf' \in [Thread -> Nat]
  BY <1>1, <1>4 DEF ReadsServer, StreamsOK, TypeOK, PeersOK
<1>5. CASE SendRequest(t)
  <2>1. [p \in 1 .. cread[t] |-> p] \in Seq(Nat)
    <3>1. cread[t] \in Nat
      BY DEF TypeOK, PeersOK
    <3> QED
      BY <3>1, IsASeq
  <2> QED
    BY <1>1, <1>5, <2>1 DEF SendRequest, StreamsOK
<1>6. CASE SendChunk(t) \/ SendByte(t)
  BY <1>3, <1>6 DEF SendChunk, SendByte
<1>7. CASE RelayLine(t) \/ RelayByte(t)
  <2>1. relayed' = [relayed EXCEPT ![t] = Append(@, sread'[t])] /\ ReadsServer(t)
    BY <1>7 DEF RelayLine, RelayByte, Relays
  <2>2. relayed' \in [Thread -> Seq(Nat)] /\ server_buf' \in [Thread -> Nat]
    BY <1>1, <1>2, <1>4, <2>1 DEF StreamsOK
  <2> QED
    BY <1>1, <1>7, <2>2 DEF RelayLine, RelayByte, StreamsOK
<1>8. CASE RelayFails(t)
  BY <1>1, <1>4, <1>8 DEF RelayFails, StreamsOK
<1>9. CASE RelayLastByte(t)
  BY <1>1, <1>2, <1>9 DEF RelayLastByte, Relays, StreamsOK
<1>10. CASE ~(\/ SendRequest(t) \/ SendChunk(t) \/ SendByte(t)
              \/ RelayLine(t) \/ RelayFails(t) \/ RelayByte(t) \/ RelayLastByte(t))
  <2>1. UNCHANGED <<streams, deaf>>
    BY <1>10 DEF Step, thread, Accept, ClientGone, ReadRequestLine, ReadHeader, Connect,
       ConnectFails, SendRequestFails, ChunksEnd, BodyEnds, ServerGone, CloseServer,
       P, printf, V, CloseClient
  <2> QED
    BY <1>1, <2>1 DEF StreamsOK
<1> QED
  BY <1>5, <1>6, <1>7, <1>8, <1>9, <1>10

LEMMA ReadIsInt ==
    ASSUME NEW v \in Size, NEW value, Read(v, value)
    PROVE  value \in Int
BY GarbageAssumption DEF Read, Size

LEMMA SizesStep ==
    ASSUME TypeOK, NEW t \in Thread, Step(t)
    PROVE  SizesOK'
<1> USE DEF sizes
<1>1. SizesOK /\ Int \subseteq Size
  BY DEF TypeOK, Size
<1>2. CASE ReadHeader(t)
  BY <1>1, <1>2, Lengths DEF ReadHeader, ReadsClient, SizesOK
<1>3. CASE SendRequest(t)
  <2>1. \A size : Read(requset_body_size[t], size) => size \in Size
    BY <1>1, ReadIsInt DEF SizesOK
  <2>2. \/ requset_body_size' = requset_body_size
        \/ \E size \in Size : requset_body_size' = [requset_body_size EXCEPT ![t] = size]
    BY <1>3, <2>1 DEF SendRequest
  <2> QED
    BY <1>1, <1>3, <2>2 DEF SendRequest, SizesOK
<1>4. CASE SendByte(t)
  <2>1. i' = [i EXCEPT ![t] = @ + 1] /\ i \in [Thread -> Nat]
    BY <1>1, <1>4 DEF SendByte, SizesOK
  <2>2. i' \in [Thread -> Nat]
    BY <2>1
  <2> QED
    BY <1>1, <1>4, <2>2 DEF SendByte, SizesOK
<1>5. CASE RelayLine(t)
  <2> DEFINE size == IF Answered(t) = "length" THEN response[t].length
                                               ELSE response_body_size[t]
  <2>1. size \in Size
    BY <1>1, <1>5, Lengths DEF RelayLine, ReadsServer, SizesOK
  <2>2. \A value : Read(size, value) => value \in Int
    BY <2>1, ReadIsInt
  <2>3. \/ \E value \in Int :
              /\ response_body_size' = [response_body_size EXCEPT ![t] = value]
              /\ response_tmp' = [response_tmp EXCEPT ![t] = value]
        \/ /\ response_body_size' = [response_body_size EXCEPT ![t] = size]
           /\ UNCHANGED response_tmp
    BY <1>5, <2>2 DEF RelayLine
  <2> HIDE DEF size
  <2>4. response_body_size' \in [Thread -> Size] /\ response_tmp' \in [Thread -> Int]
    BY <1>1, <2>1, <2>3 DEF SizesOK
  <2> QED
    BY <1>1, <1>5, <2>4 DEF RelayLine, SizesOK
<1>6. CASE RelayByte(t) \/ RelayLastByte(t)
  <2>1. /\ response_tmp \in [Thread -> Int]
        /\ \/ response_tmp' = [response_tmp EXCEPT ![t] = @ - 1]
           \/ response_tmp' = [response_tmp EXCEPT ![t] = 0]
    BY <1>1, <1>6 DEF RelayByte, RelayLastByte, SizesOK
  <2>2. response_tmp' \in [Thread -> Int]
    BY <2>1
  <2> QED
    BY <1>1, <1>6, <2>2 DEF RelayByte, RelayLastByte, SizesOK
<1>7. CASE ~(\/ ReadHeader(t) \/ SendRequest(t) \/ SendByte(t) \/ RelayLine(t)
             \/ RelayByte(t) \/ RelayLastByte(t))
  <2>1. UNCHANGED sizes
    BY <1>7 DEF Step, thread, Accept, ClientGone, ReadRequestLine, Connect, ConnectFails,
       SendRequestFails, SendChunk, ChunksEnd, BodyEnds, ServerGone, RelayFails,
       CloseServer, P, printf, V, CloseClient
  <2> QED
    BY <1>1, <2>1 DEF SizesOK
<1> QED
  BY <1>2, <1>3, <1>4, <1>5, <1>6, <1>7

(* A thread that gives the semaphore back has it.                          *)
LEMMA LoggingStep ==
    ASSUME TypeOK, MutexInv, NEW t \in Thread, Step(t)
    PROVE  LoggingOK' /\ MutexInv'
<1> USE DEF logging
<1>1. LoggingOK /\ pc \in [Thread -> Place]
  BY DEF TypeOK, PlacesOK
<1>2. CASE P(t)
  BY <1>1, <1>2 DEF P, At, Goto, LoggingOK, MutexInv
<1>3. CASE printf(t)
  <2>1. log' \in Seq(Thread)
    BY <1>1, <1>3 DEF printf, LoggingOK
  <2>2. LoggingOK'
    BY <1>1, <1>3, <2>1 DEF printf, LoggingOK
  <2> QED
    BY <1>1, <1>3, <2>2 DEF printf, At, Goto, MutexInv
<1>4. CASE V(t)
  <2>1. mutex = 0 /\ \A u \in Thread \ {t} : pc[u] \notin {"printf", "V"}
    BY <1>4 DEF V, At, MutexInv
  <2>2. mutex' = 1 /\ pc' = [pc EXCEPT ![t] = "return"]
    BY <1>4, <2>1 DEF V, Return, Goto
  <2> QED
    BY <1>1, <1>4, <2>1, <2>2 DEF V, LoggingOK, MutexInv
<1>5. CASE ~(P(t) \/ printf(t) \/ V(t))
  <2>1. UNCHANGED <<mutex, log>> /\ proxy' \in {proxy, "exited"}
    BY <1>5 DEF Step, thread, Accept, ClientGone, ReadRequestLine, ReadHeader, Connect,
       ConnectFails, SendRequest, SendRequestFails, SendChunk, ChunksEnd, SendByte, BodyEnds,
       ServerGone, RelayLine, RelayFails, RelayByte, RelayLastByte, CloseServer, CloseClient
  <2>2. pc'[t] \notin {"printf", "V"} \/ pc'[t] = pc[t]
    <3> USE DEF Goto, Return, CloseAndReturn
    <3>1. CASE Accept(t) \/ ClientGone(t) \/ ReadRequestLine(t) \/ ReadHeader(t)
      BY <1>1, <3>1 DEF Accept, ClientGone, ReadRequestLine, ReadHeader
    <3>2. CASE Connect(t) \/ ConnectFails(t) \/ SendRequest(t) \/ SendRequestFails(t)
      BY <1>1, <3>2 DEF Connect, ConnectFails, SendRequest, SendRequestFails
    <3>3. CASE SendChunk(t) \/ ChunksEnd(t) \/ SendByte(t) \/ BodyEnds(t)
      BY <1>1, <3>3 DEF SendChunk, ChunksEnd, SendByte, BodyEnds
    <3>4. CASE ServerGone(t) \/ RelayLine(t) \/ RelayFails(t) \/ RelayByte(t)
      BY <1>1, <3>4 DEF ServerGone, RelayLine, RelayFails, RelayByte
    <3>5. CASE RelayLastByte(t) \/ CloseServer(t) \/ CloseClient(t)
      BY <1>1, <3>5 DEF RelayLastByte, CloseServer, CloseClient
    <3> QED
      BY <1>5, <3>1, <3>2, <3>3, <3>4, <3>5 DEF Step, thread
  <2>3. \A u \in Thread \ {t} : pc'[u] = pc[u]
    BY OthersUntouched DEF Same
  <2>4. MutexInv'
    BY <2>1, <2>2, <2>3 DEF MutexInv
  <2> QED
    BY <1>1, <2>1, <2>4 DEF LoggingOK
<1> QED
  BY <1>2, <1>3, <1>4, <1>5

LEMMA TypeStep ==
    ASSUME TypeOK, MutexInv, NEW t \in Thread, HeadOf(t), Step(t)
    PROVE  TypeOK' /\ MutexInv'
BY PlacesStep, PeersStep, StreamsStep, SizesStep, LoggingStep DEF TypeOK

(***************************************************************************)
(* What one step does to the thread that takes it.                         *)
(***************************************************************************)
(* By which steps a thread comes to, or stays at, a place.                 *)
LEMMA ComesTo ==
    ASSUME PlacesOK, NEW t \in Thread, Step(t)
    PROVE  /\ pc'[t] \in Logging => CloseServer(t) \/ P(t) \/ printf(t)
           /\ pc'[t] = "response body" => RelayLine(t) \/ RelayByte(t) \/ RelayLastByte(t)
           /\ pc'[t] \in Sending => SendRequest(t) \/ SendChunk(t) \/ SendByte(t)
           /\ pc'[t] = "response head" =>
                SendRequest(t) \/ SendChunk(t) \/ ChunksEnd(t) \/ BodyEnds(t) \/ RelayLine(t)
           /\ pc'[t] = "idle" => FALSE
           /\ pc'[t] \in Asking => pc[t] \in Asking /\ UNCHANGED sread
<1> USE DEF At, Goto, Return, CloseAndReturn, Logging, Sending, Asking, sockets
<1>1. pc \in [Thread -> Place]
  BY DEF PlacesOK
<1>2. CASE Accept(t) \/ ClientGone(t) \/ ReadRequestLine(t) \/ ReadHeader(t)
  BY <1>1, <1>2 DEF Accept, ClientGone, ReadRequestLine, ReadHeader
<1>3. CASE Connect(t) \/ ConnectFails(t) \/ SendRequest(t) \/ SendRequestFails(t)
  BY <1>1, <1>3 DEF Connect, ConnectFails, SendRequest, SendRequestFails
<1>4. CASE SendChunk(t) \/ ChunksEnd(t) \/ SendByte(t) \/ BodyEnds(t)
  BY <1>1, <1>4 DEF SendChunk, ChunksEnd, SendByte, BodyEnds
<1>5. CASE ServerGone(t) \/ RelayLine(t) \/ RelayFails(t) \/ RelayByte(t)
  BY <1>1, <1>5 DEF ServerGone, RelayLine, RelayFails, RelayByte
<1>6. CASE RelayLastByte(t) \/ CloseServer(t) \/ CloseClient(t)
  BY <1>1, <1>6 DEF RelayLastByte, CloseServer, CloseClient
<1>7. CASE P(t) \/ printf(t) \/ V(t)
  BY <1>1, <1>7 DEF P, printf, V
<1> QED
  BY <1>2, <1>3, <1>4, <1>5, <1>6, <1>7 DEF Step, thread

LEMMA SocketsStep ==
    ASSUME PlacesOK, NEW t \in Thread, SocketsOf(t), Step(t)
    PROVE  SocketsOf(t)'
<1> USE DEF At, Goto, Return, CloseAndReturn, Sending, sockets, SocketsOf
<1>1. pc \in [Thread -> Place] /\ open \in [Thread -> SUBSET {"client", "server"}]
  BY DEF PlacesOK
<1>2. CASE Accept(t) \/ ClientGone(t)
  <2>1. pc'[t] \in {"request line", "return"}
    BY <1>1, <1>2 DEF Accept, ClientGone
  <2>2. open'[t] = {"client"} \/ (open' = open /\ pc[t] \in {"request line", "headers"})
    BY <1>1, <1>2 DEF Accept, ClientGone
  <2> QED
    BY <2>1, <2>2
<1>3. CASE ReadRequestLine(t) \/ ReadHeader(t)
  <2>1. pc[t] \in {"request line", "headers"} /\ open' = open
    BY <1>3 DEF ReadRequestLine, ReadHeader
  <2>2. pc'[t] \in {"headers", "connect", "return"}
    BY <1>1, <1>3 DEF ReadRequestLine, ReadHeader
  <2> QED
    BY <2>1, <2>2
<1>4. CASE Connect(t) \/ ConnectFails(t) \/ SendRequest(t) \/ SendRequestFails(t)
  BY <1>1, <1>4 DEF Connect, ConnectFails, SendRequest, SendRequestFails
<1>5. CASE SendChunk(t) \/ ChunksEnd(t) \/ SendByte(t) \/ BodyEnds(t)
  BY <1>1, <1>5 DEF SendChunk, ChunksEnd, SendByte, BodyEnds
<1>6. CASE ServerGone(t) \/ RelayLine(t) \/ RelayFails(t) \/ RelayByte(t)
  BY <1>1, <1>6 DEF ServerGone, RelayLine, RelayFails, RelayByte
<1>7. CASE RelayLastByte(t) \/ CloseServer(t)
  BY <1>1, <1>7 DEF RelayLastByte, CloseServer
<1>8. CASE CloseClient(t)
  <2>1. pc[t] = "return" /\ open[t] \subseteq {"client"}
    BY <1>1, <1>8 DEF CloseClient
  <2>2. open'[t] = {}
    BY <1>1, <1>8, <2>1 DEF CloseClient
  <2> QED
    BY <2>2
<1>9. CASE P(t) \/ printf(t) \/ V(t)
  BY <1>1, <1>9 DEF P, printf, V
<1> QED
  BY <1>2, <1>4, <1>5, <1>6, <1>7, <1>9, <1>3, <1>8 DEF Step, thread

LEMMA HeadStep ==
    ASSUME TypeOK, NEW t \in Thread, HeadOf(t), Step(t)
    PROVE  HeadOf(t)'
<1> USE DEF sockets
<1>1. pc'[t] = "idle" => cread'[t] = 0
  BY ComesTo DEF TypeOK
<1>2. pc'[t] \in Asking => sread'[t] = 0
  BY ComesTo DEF TypeOK, HeadOf
<1>3. ASSUME pc'[t] \in Sending \cup {"response head"}, NEW m \in 1 .. sread'[t]
      PROVE  response'[t].pieces[m] # "blank"
  <2>1. \/ SendRequest(t) \/ SendChunk(t) \/ SendByte(t) \/ ChunksEnd(t) \/ BodyEnds(t)
        \/ RelayLine(t)
    BY <1>3, ComesTo DEF TypeOK
  <2>2. CASE SendRequest(t)
    <3>1. sread'[t] = 0
      BY <2>2 DEF SendRequest, At, HeadOf, Asking
    <3> QED
      BY <3>1
  <2>3. CASE SendChunk(t) \/ SendByte(t) \/ ChunksEnd(t) \/ BodyEnds(t)
    <3>1. pc[t] \in Sending /\ UNCHANGED <<response, sread>>
      BY <2>3 DEF SendChunk, SendByte, ChunksEnd, BodyEnds, At, Sending
    <3> QED
      BY <1>3, <3>1 DEF HeadOf
  <2>4. CASE RelayLine(t)
    <3>1. /\ pc[t] = "response head" /\ sread' = [sread EXCEPT ![t] = @ + 1]
          /\ response' = response
      BY <2>4 DEF RelayLine, At, ReadsServer
    <3>2. sread[t] \in Nat /\ sread'[t] = sread[t] + 1
      BY <3>1 DEF TypeOK, PeersOK
    <3>3. Answered(t) # "blank"
      BY <1>3, <2>4 DEF RelayLine, Goto, TypeOK, PlacesOK, Sending
    <3>4. m \in 1 .. sread[t] \/ m = sread[t] + 1
      <4>1. m \in 1 .. sread[t] + 1
        BY <1>3, <3>2
      <4> QED
        BY <3>2, <4>1
    <3> QED
      BY <3>1, <3>3, <3>4 DEF HeadOf, Answered
  <2> QED
    BY <2>1, <2>2, <2>3, <2>4
<1> QED
  BY <1>1, <1>2, <1>3 DEF HeadOf

LEMMA ForwardedStep ==
    ASSUME TypeOK, NEW t \in Thread, ForwardedOf(t), Step(t)
    PROVE  ForwardedOf(t)'
<1> USE DEF sockets, streams
<1>1. /\ forwarded \in [Thread -> Seq(Nat)] /\ deaf \in [Thread -> BOOLEAN]
      /\ cread \in [Thread -> Nat] /\ forwarded[t] \in Seq(Nat)
  BY DEF TypeOK, PeersOK, StreamsOK
<1>2. CASE SendRequest(t)
  <2>1. forwarded'[t] = [p \in 1 .. cread[t] |-> p] /\ cread'[t] = cread[t] /\ cread[t] \in Nat
    BY <1>1, <1>2 DEF SendRequest
  <2>2. Len(forwarded'[t]) = cread'[t]
    BY <2>1
  <2> QED
    BY <2>1, <2>2 DEF ForwardedOf, InOrder
<1>3. CASE SendChunk(t) \/ SendByte(t)
  <2>1. /\ pc[t] \in Sending /\ Forwards(t)
        /\ cread'[t] = cread[t] + 1 /\ cread[t] \in Nat
    BY <1>1, <1>3 DEF SendChunk, SendByte, At, Sending, ReadsClient
  <2>2. CASE forwarded' = forwarded /\ deaf'[t] = TRUE
    BY <2>2 DEF ForwardedOf, InOrder
  <2>3. CASE ~deaf[t] /\ forwarded'[t] = Append(forwarded[t], cread'[t])
    <3>1. forwarded[t] \in Seq(Nat) /\ cread'[t] \in Nat
      BY <1>1, <2>1
    <3>2. Len(forwarded[t]) = cread[t] /\ \A p \in 1 .. cread[t] : forwarded[t][p] = p
      BY <2>1, <2>3 DEF ForwardedOf, InOrder
    <3>3. Len(forwarded'[t]) = cread[t] + 1 /\ forwarded'[t][cread[t] + 1] = cread[t] + 1
      BY <3>1, <2>1, <2>3, <3>2
    <3>4. \A p \in 1 .. cread[t] : forwarded'[t][p] = forwarded[t][p]
      BY <3>1, <2>1, <2>3, <3>2
    <3>5. \A p \in 1 .. cread[t] + 1 : p \in 1 .. cread[t] \/ p = cread[t] + 1
      BY <2>1
    <3>6. \A p \in 1 .. cread[t] + 1 : forwarded'[t][p] = p
      BY <3>2, <3>3, <3>4, <3>5
    <3> QED
      BY <2>1, <3>3, <3>6 DEF ForwardedOf, InOrder
  <2> QED
    BY <1>1, <2>1, <2>2, <2>3 DEF Forwards
<1>4. CASE ~(SendRequest(t) \/ SendChunk(t) \/ SendByte(t))
  <2>1. forwarded' = forwarded
    BY <1>4 DEF Step, thread, Accept, ClientGone, ReadRequestLine, ReadHeader, Connect,
       ConnectFails, SendRequestFails, ChunksEnd, BodyEnds, ServerGone, RelayLine, RelayFails,
       RelayByte, RelayLastByte, CloseServer, P, printf, V, CloseClient
  <2>2. pc'[t] \notin Sending
    BY <1>4, ComesTo DEF TypeOK
  <2> QED
    BY <2>1, <2>2 DEF ForwardedOf, InOrder
<1> QED
  BY <1>2, <1>3, <1>4

(* A step that passes nothing on from the server and reads nothing.        *)
LEMMA QuietStep ==
    ASSUME TypeOK, NEW t \in Thread, Step(t),
           ~(RelayLine(t) \/ RelayFails(t) \/ RelayByte(t) \/ RelayLastByte(t))
    PROVE  /\ UNCHANGED <<relayed, sread, response_body_size, response_tmp>>
           /\ pc[t] \in Over => pc'[t] \in Over
           /\ pc[t] \in Logging \cup {"response body"} => pc'[t] \in Logging \cup Over
<1> USE DEF sockets, streams, sizes, At, Goto, Return, CloseAndReturn, Logging, Over
<1>1. pc \in [Thread -> Place]
  BY DEF TypeOK, PlacesOK
<1>2. CASE Accept(t) \/ ClientGone(t) \/ ReadRequestLine(t) \/ ReadHeader(t)
  BY <1>1, <1>2 DEF Accept, ClientGone, ReadRequestLine, ReadHeader
<1>3. CASE Connect(t) \/ ConnectFails(t) \/ SendRequest(t) \/ SendRequestFails(t)
  BY <1>1, <1>3 DEF Connect, ConnectFails, SendRequest, SendRequestFails
<1>4. CASE SendChunk(t) \/ ChunksEnd(t) \/ SendByte(t) \/ BodyEnds(t)
  BY <1>1, <1>4 DEF SendChunk, ChunksEnd, SendByte, BodyEnds
<1>5. CASE ServerGone(t) \/ CloseServer(t) \/ CloseClient(t)
  BY <1>1, <1>5 DEF ServerGone, CloseServer, CloseClient
<1>6. CASE P(t) \/ printf(t) \/ V(t)
  BY <1>1, <1>6 DEF P, printf, V
<1> QED
  BY <1>2, <1>3, <1>4, <1>5, <1>6 DEF Step, thread

LEMMA AppendInOrder ==
    ASSUME NEW s \in Seq(Nat), NEW n \in Nat, InOrder(s, Len(s))
    PROVE  /\ Append(s, n) \in Seq(Nat) /\ Len(Append(s, n)) = Len(s) + 1
           /\ InOrder(Append(s, n), Len(s))
           /\ n = Len(s) + 1 => InOrder(Append(s, n), Len(s) + 1)
<1>1. Len(s) \in Nat /\ Len(Append(s, n)) = Len(s) + 1 /\ Append(s, n) \in Seq(Nat)
  OBVIOUS
<1>2. \A p \in 1 .. Len(s) : Append(s, n)[p] = p
  BY DEF InOrder
<1>3. Append(s, n)[Len(s) + 1] = n
  BY <1>1
<1>4. \A p \in 1 .. Len(s) + 1 : p \in 1 .. Len(s) \/ p = Len(s) + 1
  BY <1>1
<1> QED
  BY <1>1, <1>2, <1>3, <1>4 DEF InOrder

(* While there is something to relay, nothing has been made up.            *)
LEMMA NothingMadeUp ==
    ASSUME NEW t \in Thread, RelayedOf(t),
           pc[t] = "response head" \/ (pc[t] = "response body" /\ response_tmp[t] # 0)
    PROVE  Len(relayed[t]) = sread[t] /\ InOrder(relayed[t], Len(relayed[t]))
<1>1. pc[t] \notin Over
  BY DEF Over
<1>2. ~(pc[t] \in Logging \cup Over \cup {"response body"} /\ MadeUp(t))
  <2>1. MadeUp(t) => response_tmp[t] = 0
    BY DEF MadeUp
  <2>2. pc[t] \in Logging \cup Over \cup {"response body"} => response_tmp[t] # 0
    BY DEF Logging, Over
  <2> QED
    BY <2>1, <2>2
<1> QED
  BY <1>1, <1>2 DEF RelayedOf

(* There is, when the thread relays.                                       *)
LEMMA MoreToRelay ==
    ASSUME TypeOK, NEW t \in Thread, RelayLine(t) \/ RelayFails(t) \/ RelayByte(t)
    PROVE  pc[t] = "response head" \/ (pc[t] = "response body" /\ response_tmp[t] # 0)
<1>1. (response_tmp[t] > 0 \/ response_tmp[t] = 1) => response_tmp[t] # 0
  BY DEF TypeOK, SizesOK
<1> QED
  BY <1>1, Zenon DEF RelayLine, RelayFails, RelayByte, At

LEMMA RelayedStep ==
    ASSUME TypeOK, NEW t \in Thread, RelayedOf(t), BodyOf(t), Step(t)
    PROVE  RelayedOf(t)'
<1> USE DEF sockets, streams
<1>1. /\ relayed \in [Thread -> Seq(Nat)] /\ sread \in [Thread -> Nat]
      /\ server_buf \in [Thread -> Nat] /\ response_tmp \in [Thread -> Int]
      /\ response_body_size \in [Thread -> Size] /\ pc \in [Thread -> Place]
  BY DEF TypeOK, PlacesOK, PeersOK, StreamsOK, SizesOK
<1>2. relayed[t] \in Seq(Nat) /\ sread[t] \in Nat /\ server_buf[t] \in Nat
  BY <1>1
<1>3. CASE RelayLine(t) \/ RelayByte(t)
  <2>1. Len(relayed[t]) = sread[t] /\ InOrder(relayed[t], Len(relayed[t]))
    BY <1>3, MoreToRelay, NothingMadeUp
  <2>2. relayed'[t] = Append(relayed[t], sread'[t]) /\ sread'[t] = sread[t] + 1
    <3>1. Relays(t, sread'[t]) /\ ReadsServer(t)
      BY <1>3 DEF RelayLine, RelayByte
    <3> QED
      BY <1>1, <3>1 DEF Relays, ReadsServer
  <2>3. Len(relayed'[t]) = sread'[t] /\ InOrder(relayed'[t], sread'[t])
    BY <1>2, <2>1, <2>2, AppendInOrder
  <2> QED
    BY <2>3 DEF RelayedOf
<1>4. CASE RelayFails(t)
  <2>1. Len(relayed[t]) = sread[t] /\ InOrder(relayed[t], Len(relayed[t]))
    BY <1>4, MoreToRelay, NothingMadeUp
  <2>2. relayed' = relayed /\ pc'[t] \in Over
    BY <1>1, <1>4 DEF RelayFails, CloseAndReturn, Return, Goto, Over
  <2>3. sread'[t] = sread[t] \/ sread'[t] = sread[t] + 1
    <3>1. ReadsServer(t) \/ sread' = sread
      BY <1>4 DEF RelayFails
    <3> QED
      BY <1>1, <3>1 DEF ReadsServer
  <2>4. \/ Len(relayed'[t]) = sread'[t] /\ InOrder(relayed'[t], sread'[t])
        \/ Len(relayed'[t]) < sread'[t] /\ InOrder(relayed'[t], Len(relayed'[t]))
    BY <1>2, <2>1, <2>2, <2>3
  <2> QED
    BY <2>2, <2>4 DEF RelayedOf
<1>5. CASE RelayLastByte(t)
  <2>1. pc[t] = "response body" /\ pc' = pc
    BY <1>5, Zenon DEF RelayLastByte, At
  <2>2. response_tmp[t] = 1
    BY <1>5, Zenon DEF RelayLastByte
  <2>3. Len(relayed[t]) = sread[t] /\ InOrder(relayed[t], Len(relayed[t]))
    <3>1. response_tmp[t] # 0
      BY <2>2
    <3> QED
      BY <2>1, <3>1, NothingMadeUp
  <2>4. response_body_size[t] > 0
    <3>1. /\ response_body_size[t] \in Int
          /\ response_body_size[t] <= 0 => response_tmp[t] = response_body_size[t]
      BY <2>1 DEF BodyOf
    <3> QED
      BY <2>2, <3>1
  <2>5. /\ relayed'[t] = Append(relayed[t], server_buf[t]) /\ response_tmp'[t] = 0
        /\ sread' = sread /\ response_body_size' = response_body_size
    BY <1>1, <1>5 DEF RelayLastByte, Relays
  <2>6. Len(relayed'[t]) = sread'[t] + 1 /\ InOrder(relayed'[t], sread'[t])
    BY <1>2, <2>3, <2>5, AppendInOrder
  <2>7. MadeUp(t)'
    BY <2>4, <2>5, <2>6 DEF MadeUp
  <2>8. pc'[t] \in Logging \cup Over \cup {"response body"}
    BY <2>1
  <2> QED
    BY <2>7, <2>8 DEF RelayedOf
<1>6. CASE ~(RelayLine(t) \/ RelayFails(t) \/ RelayByte(t) \/ RelayLastByte(t))
  <2>1. /\ UNCHANGED <<relayed, sread, response_body_size, response_tmp>>
        /\ pc[t] \in Over => pc'[t] \in Over
        /\ pc[t] \in Logging \cup {"response body"} => pc'[t] \in Logging \cup Over
    BY <1>6, QuietStep
  <2>2. MadeUp(t)' <=> MadeUp(t)
    BY <2>1 DEF MadeUp, InOrder
  <2> QED
    BY <2>1, <2>2 DEF RelayedOf, InOrder
<1> QED
  BY <1>3, <1>4, <1>5, <1>6

(* How much of the response is left.                                       *)
LEMMA BodyStep ==
    ASSUME TypeOK, NEW t \in Thread, RelayedOf(t), HeadOf(t), BodyOf(t), Step(t)
    PROVE  BodyOf(t)'
<1> USE DEF sockets, streams
<1>1. /\ relayed \in [Thread -> Seq(Nat)] /\ sread \in [Thread -> Nat]
      /\ server_buf \in [Thread -> Nat] /\ response_tmp \in [Thread -> Int]
      /\ response_body_size \in [Thread -> Size] /\ pc \in [Thread -> Place]
  BY DEF TypeOK, PlacesOK, PeersOK, StreamsOK, SizesOK
<1>2. SUFFICES ASSUME pc'[t] = "response body"
               PROVE  /\ response_body_size'[t] \in Int
                      /\ response_body_size'[t] > 0 => response_tmp'[t] >= 0
                      /\ response_body_size'[t] <= 0 =>
                            response_tmp'[t] = response_body_size'[t]
                      /\ \E n \in 1 .. Len(response'[t].pieces) :
                            /\ IsHead(t, n)'
                            /\ Len(relayed'[t]) =
                                    n + (response_body_size'[t] - response_tmp'[t])
  BY DEF BodyOf
<1>3. response' = response /\ (RelayLine(t) \/ RelayByte(t) \/ RelayLastByte(t))
  BY <1>2, ComesTo DEF TypeOK, RelayLine, RelayByte, RelayLastByte
<1>4. \A n : IsHead(t, n)' <=> IsHead(t, n)
  BY <1>3 DEF IsHead
<1>5. \A n \in Nat : Len(Append(relayed[t], n)) = Len(relayed[t]) + 1
  BY <1>1
<1>6. sread[t] \in Nat /\ Len(relayed[t]) \in Nat
  BY <1>1
<1>7. response_tmp \in [Thread -> Int]
  BY <1>1
<1>8. CASE RelayLine(t)
  <2>1. pc[t] = "response head" /\ response[t].pieces[sread[t] + 1] = "blank"
    BY <1>1, <1>2, <1>8 DEF RelayLine, At, Answered
  <2>2. /\ sread'[t] = sread[t] + 1 /\ sread[t] < Len(response[t].pieces)
        /\ relayed'[t] = Append(relayed[t], sread'[t])
    BY <1>1, <1>8 DEF RelayLine, ReadsServer, Relays
  <2>3. PICK value : /\ response_body_size' = [response_body_size EXCEPT ![t] = value]
                     /\ response_tmp' = [response_tmp EXCEPT ![t] = value]
    BY <1>8, <2>1 DEF RelayLine, Answered
  <2>4. response_tmp'[t] = value /\ response_body_size'[t] = value /\ value \in Int
    <3>1. response_tmp' \in [Thread -> Int]
      BY SizesStep DEF SizesOK
    <3> QED
      BY <1>1, <2>3, <3>1
  <2>5. Len(relayed[t]) = sread[t]
    BY <2>1 DEF RelayedOf, Logging, Over
  <2>6. Len(relayed'[t]) = sread[t] + 1
    BY <1>5, <1>6, <2>2, <2>5
  <2>7. IsHead(t, sread[t] + 1)
    <3>1. \A m \in 1 .. sread[t] : response[t].pieces[m] # "blank"
      BY <2>1 DEF HeadOf
    <3>2. (sread[t] + 1) - 1 = sread[t]
      BY <1>6
    <3> QED
      BY <2>1, <3>1, <3>2 DEF IsHead
  <2>8. sread[t] + 1 \in 1 .. Len(response'[t].pieces)
    BY <1>3, <2>2, Pieces
  <2> QED
    BY <1>4, <1>6, <2>4, <2>6, <2>7, <2>8
<1>9. CASE RelayByte(t) \/ RelayLastByte(t)
  <2>1. pc[t] = "response body"
    BY <1>9 DEF RelayByte, RelayLastByte, At
  <2>2. response_body_size' = response_body_size
    BY <1>9 DEF RelayByte, RelayLastByte
  <2>3. /\ response_tmp[t] > 0
        /\ \/ response_tmp' = [response_tmp EXCEPT ![t] = @ - 1]
           \/ response_tmp[t] = 1 /\ response_tmp' = [response_tmp EXCEPT ![t] = 0]
    <3>1. CASE RelayByte(t)
      <4>1. response_tmp[t] > 0
        BY <3>1, Zenon DEF RelayByte
      <4>2. response_tmp' = [response_tmp EXCEPT ![t] = @ - 1]
        BY <3>1, Zenon DEF RelayByte
      <4> QED
        BY <4>1, <4>2
    <3>2. CASE RelayLastByte(t)
      <4>1. response_tmp[t] = 1
        BY <3>2, Zenon DEF RelayLastByte
      <4>2. response_tmp' = [response_tmp EXCEPT ![t] = 0]
        BY <3>2, Zenon DEF RelayLastByte
      <4> QED
        BY <4>1, <4>2
    <3> QED
      BY <1>9, <3>1, <3>2
  <2>4. response_tmp[t] \in Int /\ response_tmp'[t] = response_tmp[t] - 1
    BY <1>7, <2>3
  <2>5. Len(relayed'[t]) = Len(relayed[t]) + 1
    <3>1. relayed'[t] = Append(relayed[t], sread[t] + 1)
            \/ relayed'[t] = Append(relayed[t], server_buf[t])
      BY <1>1, <1>9 DEF RelayByte, RelayLastByte, ReadsServer, Relays
    <3>2. sread[t] + 1 \in Nat /\ server_buf[t] \in Nat
      BY <1>1
    <3> QED
      BY <1>5, <3>1, <3>2
  <2>6. /\ response_body_size[t] \in Int
        /\ response_body_size[t] <= 0 => response_tmp[t] = response_body_size[t]
    BY <2>1 DEF BodyOf
  <2>7. response_body_size[t] > 0
    BY <2>3, <2>6
  <2>8. PICK n \in 1 .. Len(response[t].pieces) :
            /\ IsHead(t, n)
            /\ Len(relayed[t]) = n + (response_body_size[t] - response_tmp[t])
    BY <2>1 DEF BodyOf
  <2>9. Len(relayed'[t]) = n + (response_body_size'[t] - response_tmp'[t])
    <3>1. \A l, k, b, m \in Int : l = k + (b - m) => l + 1 = k + (b - (m - 1))
      OBVIOUS
    <3>2. Len(relayed[t]) + 1 = n + (response_body_size[t] - (response_tmp[t] - 1))
      BY <1>6, <2>4, <2>6, <2>8, <3>1
    <3> QED
      BY <2>2, <2>4, <2>5, <3>2
  <2>10. \E k \in 1 .. Len(response'[t].pieces) :
            /\ IsHead(t, k)'
            /\ Len(relayed'[t]) = k + (response_body_size'[t] - response_tmp'[t])
    BY <1>3, <1>4, <2>8, <2>9
  <2>11. response_body_size'[t] > 0 => response_tmp'[t] >= 0
    BY <2>3, <2>4
  <2>12. ~(response_body_size'[t] <= 0) /\ response_body_size'[t] \in Int
    BY <2>2, <2>6, <2>7
  <2> QED
    BY <2>10, <2>11, <2>12
<1> QED
  BY <1>3, <1>8, <1>9

(* When a thread goes on to the log, its response has been relayed whole.  *)
LEMMA WholeStep ==
    ASSUME TypeOK, NEW t \in Thread, BodyOf(t), pc[t] \in Logging => Whole(t), Step(t)
    PROVE  /\ pc'[t] \in Logging => Whole(t)'
           /\ pc[t] \in Logging \cup Over => (Whole(t)' <=> Whole(t))
<1> USE DEF streams, sizes
<1>1. ASSUME UNCHANGED <<response, relayed, response_body_size>>
      PROVE  Whole(t)' <=> Whole(t)
  <2>1. \A n : IsHead(t, n)' <=> IsHead(t, n)
    BY <1>1 DEF IsHead
  <2> QED
    BY <1>1, <2>1 DEF Whole
<1>2. CASE CloseServer(t)
  <2>1. /\ pc[t] = "response body" /\ response_tmp[t] <= 0
        /\ UNCHANGED <<response, relayed, response_body_size>>
    BY <1>2 DEF CloseServer, At
  <2>2. response_tmp[t] \in Int /\ response_body_size[t] \in Int
    BY <2>1 DEF BodyOf, TypeOK, SizesOK
  <2>3. (response_body_size[t] - response_tmp[t])
            = IF response_body_size[t] > 0 THEN response_body_size[t] ELSE 0
    <3>1. /\ response_body_size[t] > 0 => response_tmp[t] >= 0
          /\ response_body_size[t] <= 0 => response_tmp[t] = response_body_size[t]
      BY <2>1 DEF BodyOf
    <3>2. \A b, m \in Int : m <= 0 /\ (b > 0 => m >= 0) /\ (b <= 0 => m = b) =>
            (b - m) = IF b > 0 THEN b ELSE 0
      OBVIOUS
    <3> QED
      BY <2>1, <2>2, <3>1, <3>2
  <2>4. Whole(t)
    BY <2>1, <2>3 DEF BodyOf, Whole
  <2> QED
    BY <1>1, <2>1, <2>4 DEF Logging, Over
<1>3. CASE P(t) \/ printf(t) \/ V(t) \/ CloseClient(t)
  <2>1. UNCHANGED <<response, relayed, response_body_size>>
    BY <1>3 DEF P, printf, V, CloseClient
  <2>2. pc'[t] \in Logging => pc[t] \in Logging
    BY <1>3, ComesTo DEF TypeOK, P, printf, V, CloseClient, At, CloseServer, Logging
  <2> QED
    BY <1>1, <2>1, <2>2
<1>4. CASE ~(CloseServer(t) \/ P(t) \/ printf(t) \/ V(t) \/ CloseClient(t))
  <2>1. pc'[t] \notin Logging
    BY <1>4, ComesTo DEF TypeOK
  <2>2. pc[t] \notin Logging \cup Over
    BY <1>4 DEF Step, thread, Accept, ClientGone, ReadRequestLine, ReadHeader, Connect,
       ConnectFails, SendRequest, SendRequestFails, SendChunk, ChunksEnd, SendByte, BodyEnds,
       ServerGone, RelayLine, RelayFails, RelayByte, RelayLastByte, At, Logging, Over
  <2> QED
    BY <2>1, <2>2
<1> QED
  BY <1>2, <1>3, <1>4
(***************************************************************************)
(* The invariant holds.                                                    *)
(***************************************************************************)
LEMMA InvariantInit ==
    ASSUME Init
    PROVE  IInv
<1>1. <<>> \in Seq(Nat) /\ <<>> \in Seq(Thread) /\ Len(<<>>) = 0
  OBVIOUS
<1>2. TypeOK
  <2>1. Silent.pieces = <<>>
    BY DEF Silent
  <2> QED
    BY <1>1, <2>1 DEF Init, TypeOK, PlacesOK, PeersOK, StreamsOK, SizesOK, LoggingOK, Place, Size
<1>3. MutexInv /\ LogInv
  BY <1>1 DEF Init, MutexInv, LogInv, LogsWhole
<1>4. ASSUME NEW t \in Thread
      PROVE  ThreadInv(t)
  <2>1. /\ pc[t] = "idle" /\ open[t] = {} /\ cread[t] = 0 /\ sread[t] = 0
        /\ forwarded[t] = <<>> /\ relayed[t] = <<>>
    BY DEF Init
  <2>2. \A p \in 1 .. 0 : FALSE
    OBVIOUS
  <2>3. ForwardedOf(t) /\ RelayedOf(t)
    BY <1>1, <2>1, <2>2 DEF ForwardedOf, RelayedOf, InOrder, Sending
  <2> QED
    BY <2>1, <2>3 DEF ThreadInv, SocketsOf, HeadOf, BodyOf, Asking, Sending, Logging
<1> QED
  BY <1>2, <1>3, <1>4 DEF IInv

LEMMA InvariantStep ==
    ASSUME IInv, NEW t \in Thread, Step(t)
    PROVE  IInv'
<1> USE DEF IInv
<1>1. ThreadInv(t) /\ HeadOf(t) /\ BodyOf(t) /\ RelayedOf(t) /\ ForwardedOf(t) /\ SocketsOf(t)
  BY DEF ThreadInv
<1>2. TypeOK' /\ MutexInv'
  BY <1>1, TypeStep
<1>3. /\ pc[t] \in Logging => Whole(t)
      /\ pc'[t] \in Logging => Whole(t)'
      /\ pc[t] \in Logging \cup Over => (Whole(t)' <=> Whole(t))
  BY <1>1, WholeStep DEF ThreadInv
<1>4. ThreadInv(t)'
  <2>1. SocketsOf(t)'
    BY <1>1, SocketsStep DEF TypeOK
  <2>2. ForwardedOf(t)' /\ RelayedOf(t)' /\ HeadOf(t)' /\ BodyOf(t)'
    BY <1>1, ForwardedStep, RelayedStep, HeadStep, BodyStep
  <2> QED
    BY <1>3, <2>1, <2>2 DEF ThreadInv
<1>5. \A u \in Thread : ThreadInv(u)'
  BY <1>4, OthersUntouched, SameKeeps
<1>6. ASSUME NEW u \in Thread, pc[u] \in Over \cup {"V"}
      PROVE  pc'[u] \in Over \cup {"V"} /\ (Whole(u)' <=> Whole(u))
  <2>1. CASE u = t
    <3>1. pc[t] \in Logging \cup Over
      BY <1>6, <2>1 DEF Logging
    <3>2. pc'[t] \in Over \cup {"V"}
      BY <1>6, <2>1 DEF Step, thread, Over, TypeOK, PlacesOK,
         Accept, ClientGone, ReadRequestLine, ReadHeader, Connect, ConnectFails, SendRequest,
         SendRequestFails, SendChunk, ChunksEnd, SendByte, BodyEnds, ServerGone, RelayLine,
         RelayFails, RelayByte, RelayLastByte, CloseServer, P, printf, V, CloseClient,
         At, Goto, Return
    <3> QED
      BY <1>3, <2>1, <3>1, <3>2
  <2>2. CASE u # t
    <3>1. Same(u)
      BY <2>2, OthersUntouched
    <3>2. \A n : IsHead(u, n)' <=> IsHead(u, n)
      BY <3>1 DEF Same, IsHead
    <3> QED
      BY <1>6, <3>1, <3>2 DEF Same, Whole
  <2> QED
    BY <2>1, <2>2
<1>7. LogInv'
  <2>1. /\ log \in Seq(Thread)
        /\ \A n \in 1 .. Len(log) : pc[log[n]] \in Over \cup {"V"} /\ Whole(log[n])
        /\ \A m, n \in 1 .. Len(log) : m # n => log[m] # log[n]
    BY DEF TypeOK, LoggingOK, LogInv, LogsWhole
  <2>2. \A n \in 1 .. Len(log), u \in Thread :
            u = log[n] => pc'[u] \in Over \cup {"V"} /\ Whole(u)'
    BY <1>6, <2>1
  <2>3. ASSUME /\ \A n \in 1 .. Len(log'), u \in Thread :
                    u = log'[n] => pc'[u] \in Over \cup {"V"} /\ Whole(u)'
               /\ \A m, n \in 1 .. Len(log') : m # n => log'[m] # log'[n]
        PROVE  LogInv'
    <3>1. \A n \in 1 .. Len(log') : log'[n] \in Thread
      BY <1>2 DEF TypeOK, LoggingOK
    <3>2. ASSUME NEW n \in 1 .. Len(log')
          PROVE  pc'[log'[n]] \in Over \cup {"V"} /\ Whole(log[n])'
      <4>1. PICK u \in Thread : u = log'[n]
        BY <3>1
      <4>2. pc'[u] \in Over \cup {"V"} /\ Whole(u)'
        BY <2>3, <4>1
      <4> QED
        BY <4>1, <4>2 DEF Whole, IsHead
    <3> QED
      BY <2>3, <3>2 DEF LogInv, LogsWhole
  <2>4. CASE printf(t)
    <3>1. log' = Append(log, t) /\ pc[t] = "printf" /\ pc'[t] = "V" /\ Whole(t)'
      BY <1>3, <2>4 DEF printf, At, Goto, TypeOK, PlacesOK, Logging, Over
    <3>2. /\ Len(log) \in Nat /\ Len(log') = Len(log) + 1 /\ log'[Len(log) + 1] = t
          /\ \A n \in 1 .. Len(log) : log'[n] = log[n]
      BY <2>1, <3>1
    <3>3. \A n \in 1 .. Len(log) + 1 : n \in 1 .. Len(log) \/ n = Len(log) + 1
      BY <3>2
    <3>4. \A n \in 1 .. Len(log) : log[n] # t
      BY <2>1, <3>1 DEF Over
    <3>5. \A n \in 1 .. Len(log'), u \in Thread :
            u = log'[n] => pc'[u] \in Over \cup {"V"} /\ Whole(u)'
      BY <2>2, <3>1, <3>2, <3>3
    <3>6. \A m, n \in 1 .. Len(log') : m # n => log'[m] # log'[n]
      BY <2>1, <3>2, <3>3, <3>4
    <3> QED
      BY <2>3, <3>5, <3>6
  <2>5. CASE ~printf(t)
    <3>1. log' = log
      BY <2>5 DEF Step, thread, logging,
         Accept, ClientGone, ReadRequestLine, ReadHeader, Connect, ConnectFails, SendRequest,
         SendRequestFails, SendChunk, ChunksEnd, SendByte, BodyEnds, ServerGone, RelayLine,
         RelayFails, RelayByte, RelayLastByte, CloseServer, P, V, CloseClient
    <3> QED
      BY <2>1, <2>2, <2>3, <3>1
  <2> QED
    BY <2>4, <2>5
<1> QED
  BY <1>2, <1>5, <1>7

LEMMA Invariance == Spec => []IInv
<1>1. IInv /\ [Next]_vars => IInv'
  <2> SUFFICES ASSUME IInv, [Next]_vars PROVE IInv'
    OBVIOUS
  <2>1. CASE Next
    BY <2>1, InvariantStep DEF Next, Step
  <2>2. CASE UNCHANGED vars
    <3> USE <2>2 DEF vars, sockets, streams, sizes, logging
    <3>1. TypeOK' /\ MutexInv'
      BY DEF IInv, TypeOK, PlacesOK, PeersOK, StreamsOK, SizesOK, LoggingOK, MutexInv
    <3>2. \A t \in Thread : Same(t)
      BY DEF Same
    <3>3. \A t \in Thread : ThreadInv(t)'
      BY <3>2, SameKeeps DEF IInv
    <3>4. LogInv'
      BY DEF IInv, LogInv, LogsWhole, Whole, IsHead
    <3> QED
      BY <3>1, <3>3, <3>4 DEF IInv
  <2> QED
    BY <2>1, <2>2
<1> QED
  BY <1>1, InvariantInit, PTL DEF Spec

(* The variables keep their types; in particular the semaphore of the log  *)
(* is 0 or 1 (lines 300-302).                                              *)
THEOREM TypeCorrect == Spec => []TypeOK
<1>1. IInv => TypeOK
  BY DEF IInv
<1> QED
  BY <1>1, Invariance, PTL

(* Whatever a thread has passed on is a beginning of what was sent, but    *)
(* for the byte that doit makes up (lines 210-228, 253, 285).              *)
THEOREM RelayedInOrder == Spec => []RelaysInOrder
<1>1. IInv => RelaysInOrder
  BY DEF IInv, ThreadInv, ForwardedOf, RelayedOf, RelaysInOrder
<1> QED
  BY <1>1, Invariance, PTL

(* No request is logged twice, and none whose response was cut short       *)
(* (lines 276-301).                                                        *)
THEOREM LoggedWhole == Spec => []LogsWhole
<1>1. IInv => LogsWhole
  BY DEF IInv, LogInv
<1> QED
  BY <1>1, Invariance, PTL

(* Every return of doit leaves no socket open behind it (lines 142-303).   *)
THEOREM NothingLeaks == Spec => []NoLeak
<1>1. IInv => NoLeak
  BY DEF IInv, ThreadInv, SocketsOf, NoLeak
<1> QED
  BY <1>1, Invariance, PTL

=============================================================================
