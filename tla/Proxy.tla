------------------------------- MODULE Proxy --------------------------------
(***************************************************************************)
(* The web proxy of lab10/proxy.c: one detached thread per connection      *)
(* reads a request, passes it on to the server it names, relays the        *)
(* response and logs it.                                                   *)
(*                                                                         *)
(* What a peer sends is a sequence of pieces: a line of the head, or a     *)
(* byte of the body (a line, if the body is chunked).  A piece is known by *)
(* its place in that sequence, and counts as one byte.  A peer may be gone *)
(* at any moment: a read then gives the end of the file, a write fails.    *)
(***************************************************************************)
EXTENDS Integers, Sequences

CONSTANTS
    Thread,     \* the connections, each with the thread that serves it
    Request,    \* what clients send
    Response,   \* what servers send
    Garbage,    \* what a variable of doit may hold that was never assigned
    Unassigned  \* stands for such a value until it is read

Kind == {"line", "length", "blank", "body", "last"}
Uri == {"http://host/", "http://host:port/", "http://host", "other"}

ASSUME RequestAssumption ==
    Request \subseteq [method : {"GET", "POST"}, uri : Uri,
                       pieces : Seq(Kind), length : Int]
ASSUME ResponseAssumption == Response \subseteq [pieces : Seq(Kind), length : Int]
ASSUME GarbageAssumption == Garbage \subseteq Int /\ Unassigned \notin Int

VARIABLES
    pc,                     \* where a thread is
    open,                   \* its sockets: "client" is connfd, "server" serverfd
    request, response,      \* what its peers send
    cread, sread,           \* how many pieces it has read of each
    deaf,                   \* a write to the server has failed
    forwarded, relayed,     \* the pieces written to the server, to the client
    server_buf,             \* the piece read last from the server
    requset_body_size, response_body_size,
    i, response_tmp,        \* the counters of the loops over the bodies
    mutex, log,             \* the log's semaphore; whose entries it has
    proxy                   \* "running", or "exited"

sockets == <<open, deaf, cread, sread>>
streams == <<forwarded, relayed, server_buf>>
sizes == <<requset_body_size, response_body_size, i, response_tmp>>
logging == <<mutex, log>>
vars == <<pc, request, response, sockets, streams, sizes, logging, proxy>>

(* A peer there is no connection to yet.                                   *)
Silent == [pieces |-> <<>>]

Init ==
    /\ pc = [t \in Thread |-> "idle"]
    /\ open = [t \in Thread |-> {}]
    /\ request = [t \in Thread |-> Silent] /\ response = [t \in Thread |-> Silent]
    /\ cread = [t \in Thread |-> 0] /\ sread = [t \in Thread |-> 0]
    /\ deaf = [t \in Thread |-> FALSE]
    /\ forwarded = [t \in Thread |-> <<>>] /\ relayed = [t \in Thread |-> <<>>]
    /\ server_buf = [t \in Thread |-> 0]
    /\ requset_body_size = [t \in Thread |-> Unassigned]
    /\ response_body_size = [t \in Thread |-> Unassigned]
    /\ i = [t \in Thread |-> 0] /\ response_tmp = [t \in Thread |-> 0]
    /\ mutex = 1
    /\ log = <<>>
    /\ proxy = "running"

(* The thread's step from one place to another.                            *)
At(t, here) == proxy = "running" /\ pc[t] = here
Goto(t, there) == pc' = [pc EXCEPT ![t] = there]

(* The next piece from the client, or from the server, is of the kind.     *)
Sent(t) == request[t].pieces[cread[t] + 1]
Answered(t) == response[t].pieces[sread[t] + 1]
ReadsClient(t) ==
    /\ cread[t] < Len(request[t].pieces)
    /\ cread' = [cread EXCEPT ![t] = @ + 1]
ReadsServer(t) ==
    /\ sread[t] < Len(response[t].pieces)
    /\ sread' = [sread EXCEPT ![t] = @ + 1]
    /\ server_buf' = [server_buf EXCEPT ![t] = sread[t] + 1]

(* The value of a variable that may not have been assigned.                *)
Read(v, value) == IF v = Unassigned THEN value \in Garbage ELSE value = v

(* Open_listenfd is done; main accepts and starts a thread.                *)
Accept(t) ==
    /\ At(t, "idle") /\ Goto(t, "request line")
    /\ open' = [open EXCEPT ![t] = {"client"}]
    /\ \E sent \in Request : request' = [request EXCEPT ![t] = sent]
    /\ UNCHANGED <<response, deaf, cread, sread, streams, sizes, logging, proxy>>

(* doit returns: before it has the server's socket open, or after.         *)
Return(t) == Goto(t, "return")

(* Mutant of CloseAndReturn: the server's socket stays open.               *)
ReturnOpen(t) == Return(t) /\ UNCHANGED open

CloseAndReturn(t) ==
    /\ Return(t)
    /\ open' = [open EXCEPT ![t] = @ \ {"server"}]

ClientGone(t) ==
    /\ At(t, "request line") \/ At(t, "headers")
    /\ Return(t)
    /\ UNCHANGED <<request, response, sockets, streams, sizes, logging, proxy>>

(* A host must have an end: a colon, a slash or a space behind it.         *)
parse_uri(uri) == IF uri \in {"http://host/", "http://host:port/"} THEN 0 ELSE -1

ReadRequestLine(t) ==
    /\ At(t, "request line")
    /\ ReadsClient(t)
    /\ IF parse_uri(request[t].uri) = 0 THEN Goto(t, "headers") ELSE Return(t)
    /\ UNCHANGED <<request, response, open, deaf, sread, streams, sizes, logging, proxy>>

ReadHeader(t) ==
    /\ At(t, "headers")
    /\ ReadsClient(t)
    /\ requset_body_size' =
        IF Sent(t) = "length" THEN [requset_body_size EXCEPT ![t] = request[t].length]
                              ELSE requset_body_size
    /\ Goto(t, IF Sent(t) = "blank" THEN "connect" ELSE "headers")
    /\ UNCHANGED <<request, response, open, deaf, sread, streams, response_body_size,
                   i, response_tmp, logging, proxy>>

Connect(t) ==
    /\ At(t, "connect") /\ Goto(t, "request")
    /\ open' = [open EXCEPT ![t] = @ \cup {"server"}]
    /\ \E sent \in Response : response' = [response EXCEPT ![t] = sent]
    /\ UNCHANGED <<request, deaf, cread, sread, streams, sizes, logging, proxy>>

(* Open_clientfd calls unix_error, and that exit.                          *)
ConnectFails(t) ==
    /\ At(t, "connect")
    /\ proxy' = "exited"
    /\ UNCHANGED <<pc, request, response, sockets, streams, sizes, logging>>

SendRequest(t) ==
    /\ At(t, "request")
    /\ forwarded' = [forwarded EXCEPT ![t] = [p \in 1 .. cread[t] |-> p]]
    /\ IF request[t].method = "GET"
       THEN Goto(t, "response head") /\ UNCHANGED requset_body_size
       ELSE \E size \in Garbage \cup {requset_body_size[t]} :
                /\ Read(requset_body_size[t], size)
                /\ requset_body_size' = [requset_body_size EXCEPT ![t] = size]
                /\ Goto(t, IF size = 0 THEN "chunks" ELSE "request body")
    /\ UNCHANGED <<request, response, sockets, relayed, server_buf, response_body_size,
                   i, response_tmp, logging, proxy>>

SendRequestFails(t) ==
    /\ At(t, "request")
    /\ CloseAndReturn(t)
    /\ UNCHANGED <<request, response, deaf, cread, sread, streams, sizes, logging, proxy>>

(* Whether the write of a piece of the body succeeds is not looked at;     *)
(* once one has failed, so do all others.                                  *)
Forwards(t) ==
    \/ /\ ~deaf[t]
       /\ forwarded' = [forwarded EXCEPT ![t] = Append(@, cread'[t])]
       /\ UNCHANGED deaf
    \/ /\ deaf' = [deaf EXCEPT ![t] = TRUE]
       /\ UNCHANGED forwarded

SendChunk(t) ==
    /\ At(t, "chunks")
    /\ ReadsClient(t) /\ Forwards(t)
    /\ Goto(t, IF Sent(t) = "last" THEN "response head" ELSE "chunks")
    /\ UNCHANGED <<request, response, open, sread, relayed, server_buf, sizes, logging, proxy>>

ChunksEnd(t) ==
    /\ At(t, "chunks") /\ Goto(t, "response head")
    /\ UNCHANGED <<request, response, sockets, streams, sizes, logging, proxy>>

SendByte(t) ==
    /\ At(t, "request body") /\ i[t] < requset_body_size[t]
    /\ ReadsClient(t) /\ Forwards(t)
    /\ i' = [i EXCEPT ![t] = @ + 1]
    /\ UNCHANGED <<pc, request, response, open, sread, relayed, server_buf,
                   requset_body_size, response_body_size, response_tmp, logging, proxy>>

(* i has reached the size, or at the end of the file the loop goes round   *)
(* without reading anything.                                               *)
BodyEnds(t) ==
    /\ At(t, "request body") /\ Goto(t, "response head")
    /\ UNCHANGED <<request, response, sockets, streams, sizes, logging, proxy>>

ServerGone(t) ==
    /\ At(t, "response head") \/ (At(t, "response body") /\ response_tmp[t] > 1)
    /\ CloseAndReturn(t)
    /\ UNCHANGED <<request, response, deaf, cread, sread, streams, sizes, logging, proxy>>

(* Writes to the client succeed, or doit returns.                          *)
Relays(t, piece) == relayed' = [relayed EXCEPT ![t] = Append(@, piece)]

RelayLine(t) ==
    /\ At(t, "response head")
    /\ ReadsServer(t) /\ Relays(t, sread'[t])
    /\ LET size == IF Answered(t) = "length" THEN response[t].length
                                             ELSE response_body_size[t]
       IN  IF Answered(t) = "blank"
           THEN /\ Goto(t, "response body")
                /\ \E value \in Garbage \cup {size} :
                    /\ Read(size, value)
                    /\ response_body_size' = [response_body_size EXCEPT ![t] = value]
                    /\ response_tmp' = [response_tmp EXCEPT ![t] = value]
           ELSE /\ response_body_size' = [response_body_size EXCEPT ![t] = size]
                /\ UNCHANGED <<pc, response_tmp>>
    /\ UNCHANGED <<request, response, open, deaf, cread, forwarded,
                   requset_body_size, i, logging, proxy>>

RelayFails(t) ==
    /\ \/ At(t, "response head") /\ ReadsServer(t)
       \/ At(t, "response body") /\ response_tmp[t] > 0 /\ ReadsServer(t)
       \/ At(t, "response body") /\ response_tmp[t] = 1 /\ UNCHANGED <<sread, server_buf>>
    /\ CloseAndReturn(t)
    /\ UNCHANGED <<request, response, deaf, cread, forwarded, relayed, sizes, logging, proxy>>

RelayByte(t) ==
    /\ At(t, "response body") /\ response_tmp[t] > 0
    /\ ReadsServer(t) /\ Relays(t, sread'[t])
    /\ response_tmp' = [response_tmp EXCEPT ![t] = @ - 1]
    /\ UNCHANGED <<pc, request, response, open, deaf, cread, forwarded,
                   requset_body_size, response_body_size, i, logging, proxy>>

(* Mutant of RelayLastByte: the bytes the server owes are all made up.     *)
RelayMissing(t) ==
    /\ At(t, "response body") /\ response_tmp[t] > 0
    /\ Relays(t, server_buf[t])
    /\ response_tmp' = [response_tmp EXCEPT ![t] = @ - 1]
    /\ UNCHANGED <<pc, request, response, sockets, forwarded, server_buf,
                   requset_body_size, response_body_size, i, logging, proxy>>

(* At the end of the file the last byte is written although there is none: *)
(* the buffer holds the piece before.                                      *)
RelayLastByte(t) ==
    /\ At(t, "response body") /\ response_tmp[t] = 1
    /\ Relays(t, server_buf[t])
    /\ response_tmp' = [response_tmp EXCEPT ![t] = 0]
    /\ UNCHANGED <<pc, request, response, sockets, forwarded, server_buf,
                   requset_body_size, response_body_size, i, logging, proxy>>

(* Mutant of CloseServer: the loop ends one byte early.                    *)
CloseEarly(t) ==
    /\ At(t, "response body") /\ response_tmp[t] <= 1 /\ Goto(t, "P")
    /\ open' = [open EXCEPT ![t] = @ \ {"server"}]
    /\ UNCHANGED <<request, response, deaf, cread, sread, streams, sizes, logging, proxy>>

CloseServer(t) ==
    /\ At(t, "response body") /\ response_tmp[t] <= 0 /\ Goto(t, "P")
    /\ open' = [open EXCEPT ![t] = @ \ {"server"}]
    /\ UNCHANGED <<request, response, deaf, cread, sread, streams, sizes, logging, proxy>>

P(t) ==
    /\ At(t, "P") /\ Goto(t, "printf")
    /\ mutex > 0 /\ mutex' = mutex - 1
    /\ UNCHANGED <<request, response, sockets, streams, sizes, log, proxy>>

printf(t) ==
    /\ At(t, "printf") /\ Goto(t, "V")
    /\ log' = Append(log, t)
    /\ UNCHANGED <<request, response, sockets, streams, sizes, mutex, proxy>>

(* Mutant of V: the semaphore is not given back.                           *)
VForgotten(t) ==
    /\ At(t, "V") /\ Return(t)
    /\ UNCHANGED <<request, response, sockets, streams, sizes, logging, proxy>>

V(t) ==
    /\ At(t, "V") /\ Return(t)
    /\ mutex' = mutex + 1
    /\ UNCHANGED <<request, response, sockets, streams, sizes, log, proxy>>

CloseClient(t) ==
    /\ At(t, "return") /\ Goto(t, "done")
    /\ open' = [open EXCEPT ![t] = @ \ {"client"}]
    /\ UNCHANGED <<request, response, deaf, cread, sread, streams, sizes, logging, proxy>>

thread(t) ==
    \/ ClientGone(t) \/ ReadRequestLine(t) \/ ReadHeader(t)
    \/ Connect(t) \/ ConnectFails(t) \/ SendRequest(t) \/ SendRequestFails(t)
    \/ SendChunk(t) \/ ChunksEnd(t) \/ SendByte(t) \/ BodyEnds(t)
    \/ ServerGone(t) \/ RelayLine(t) \/ RelayFails(t)
    \/ RelayByte(t) \/ RelayLastByte(t) \/ CloseServer(t)
    \/ P(t) \/ printf(t) \/ V(t)
    \/ CloseClient(t)

Next == \E t \in Thread : Accept(t) \/ thread(t)

(* The threads are scheduled, and no peer is silent for ever: it sends     *)
(* what it has to send or is gone.                                         *)
Fairness == \A t \in Thread : WF_vars(thread(t))
Spec == Init /\ [][Next]_vars /\ Fairness
(***************************************************************************)
(* Properties.                                                             *)
(***************************************************************************)
Place == {"idle", "request line", "headers", "connect", "request", "chunks",
          "request body", "response head", "response body", "P", "printf", "V",
          "return", "done"}
Size == Int \cup {Unassigned}

PlacesOK == pc \in [Thread -> Place] /\ open \in [Thread -> SUBSET {"client", "server"}]
PeersOK ==
    /\ request \in [Thread -> Request \cup {Silent}]
    /\ response \in [Thread -> Response \cup {Silent}]
    /\ cread \in [Thread -> Nat] /\ sread \in [Thread -> Nat]
    /\ \A t \in Thread : /\ cread[t] <= Len(request[t].pieces)
                         /\ sread[t] <= Len(response[t].pieces)
StreamsOK ==
    /\ forwarded \in [Thread -> Seq(Nat)] /\ relayed \in [Thread -> Seq(Nat)]
    /\ server_buf \in [Thread -> Nat] /\ deaf \in [Thread -> BOOLEAN]
SizesOK ==
    /\ requset_body_size \in [Thread -> Size] /\ response_body_size \in [Thread -> Size]
    /\ i \in [Thread -> Nat] /\ response_tmp \in [Thread -> Int]
LoggingOK == mutex \in {0, 1} /\ log \in Seq(Thread) /\ proxy \in {"running", "exited"}
TypeOK == PlacesOK /\ PeersOK /\ StreamsOK /\ SizesOK /\ LoggingOK

(* Each peer gets what the other sent, from its beginning and in its       *)
(* order, nothing twice and nothing left out; only a response whose server *)
(* has gone one byte before its end is made up with a last byte.           *)
InOrder(sent, n) == \A p \in 1 .. n : sent[p] = p
MadeUp(t) ==
    /\ Len(relayed[t]) = sread[t] + 1 /\ InOrder(relayed[t], sread[t])
    /\ response_tmp[t] = 0 /\ response_body_size[t] > 0
RelaysInOrder ==
    \A t \in Thread :
        /\ InOrder(forwarded[t], Len(forwarded[t]))
        /\ InOrder(relayed[t], Len(relayed[t])) \/ MadeUp(t)

(* A request is logged once, and only after its response has been relayed  *)
(* whole: the head, and a body of the size it is said to have.             *)
IsHead(t, n) ==
    /\ response[t].pieces[n] = "blank"
    /\ \A m \in 1 .. n - 1 : response[t].pieces[m] # "blank"
Whole(t) ==
    \E n \in 1 .. Len(response[t].pieces) :
        /\ IsHead(t, n)
        /\ Len(relayed[t]) = n + IF response_body_size[t] > 0 THEN response_body_size[t] ELSE 0
LogsWhole ==
    /\ \A m, n \in 1 .. Len(log) : m # n => log[m] # log[n]
    /\ \A n \in 1 .. Len(log) : Whole(log[n])

(* A thread that is over has left no socket open, however doit returned.   *)
NoLeak == \A t \in Thread : pc[t] \in {"idle", "done"} => open[t] = {}

(* No thread waits for ever, for a peer or for the log.                    *)
ThreadsEnd ==
    \A t \in Thread : pc[t] = "request line" ~> pc[t] = "done" \/ proxy = "exited"

=============================================================================
