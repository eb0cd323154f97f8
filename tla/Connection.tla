----------------------------- MODULE Connection -----------------------------
(***************************************************************************)
(* A client and a server on lab10/csapp.c: each opens its socket, then the *)
(* client writes and the server reads.                                     *)
(***************************************************************************)
EXTENDS Rio, Sockets

vars == <<rioVars, openVars>>

Init == RioInit /\ SocketsInit

Opens == SocketsNext /\ UNCHANGED rioVars

Established == \A s \in Side : rc[s] = "ok"

Transfers == Established /\ RioNext /\ UNCHANGED openVars

Next == Opens \/ Transfers

(* Both processes go on running, and a call that may transfer some bytes   *)
(* does so in the end.  No fairness says that the reader ends before it    *)
(* has to, or that anything fails.                                         *)
Fairness ==
    /\ WF_vars(Established /\ Writer /\ UNCHANGED openVars)
    /\ WF_vars(Established /\ (ReaderBegins \/ Reads) /\ UNCHANGED openVars)

Spec == Init /\ [][Next]_vars /\ Fairness
(***************************************************************************)
(* Properties.                                                             *)
(***************************************************************************)

(* Whatever fails on the way, a call that opens a socket leaves one        *)
(* descriptor open when it succeeds and none otherwise, and frees the list *)
(* of addresses; only a close that fails leaves it behind.                 *)
OpensCleanly ==
    \A s \in Side : at[s] = "after" =>
        /\ fds[s] = IF rc[s] = "ok" THEN 1 ELSE 0
        /\ held[s] => stuck[s]

(* Rio_readlineb, Rio_readnb and Rio_readn take their line or their bytes  *)
(* in one piece and in order, none lost and none twice, however the bytes  *)
(* came: across short reads and writes, interruptions, lines that end in   *)
(* the middle of the buffer, the end of the stream and a reset.            *)
Unread == SubSeq(rio.rio_buf, rio.rio_bufptr, rio.rio_bufptr + rio.rio_cnt - 1)
Promised == INSTANCE Stream WITH
    text <- out \o FlattenSeq(writes),
    stream <- call.buf \o Unread \o wire,
    closed <- wclosed, broken <- reset
ImplementsStream == Promised!Spec

(* The two ends never wait for each other: a line that does not come whole *)
(* and a connection that is full are waited for only as long as the other  *)
(* end goes on.                                                            *)
CallsReturn ==
    /\ (call # NoCall) ~> (call = NoCall)
    /\ (out # <<>>) ~> (out = <<>> \/ wclosed)
=============================================================================
