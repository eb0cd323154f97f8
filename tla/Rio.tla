--------------------------------- MODULE Rio ---------------------------------
(***************************************************************************)
(* The Rio package of lab10/csapp.c: a process that writes with            *)
(* Rio_writen, another that reads with Rio_readlineb and Rio_readnb, or    *)
(* with Rio_readn, and the connection between them.                        *)
(*                                                                         *)
(* write and read transfer any number of bytes they can, block, are        *)
(* interrupted by a signal, or fail.  An interrupted write, and an         *)
(* interrupted read in rio_readn, is a step that changes nothing.  The     *)
(* wrappers with a capital end their process on an error.                  *)
(***************************************************************************)
EXTENDS Integers, Sequences, SequencesExt, FiniteSetsExt

CONSTANTS
    NEWLINE,
    Texts,        \* what the writer may send: sequences of writes
    WIRE,         \* the bytes the connection holds
    RIO_BUFSIZE,
    LineSize,     \* maxlen in calls of rio_readlineb, at least 2
    ReadSize      \* n in calls of rio_readnb and rio_readn, at least 1

ASSUME RioAssumption ==
    /\ Texts \subseteq Seq(Seq(0 .. 255))
    /\ WIRE \in Nat \ {0} /\ RIO_BUFSIZE \in Nat \ {0}
    /\ LineSize \subseteq Nat \ {0, 1} /\ ReadSize \subseteq Nat \ {0}

VARIABLES
    writes, out,      \* the writer's buffers to come; what is left of this one
    wire,             \* the bytes under way
    wclosed, reset,   \* the writer is gone; read has yet to report a reset
    buffered,         \* the reader reads through a rio_t
    rio,              \* rio_cnt, rio_buf and the place of rio_bufptr in it
    call, ret,        \* the call of the reader, and the last that returned
    rclosed           \* the reader is gone

kernelVars == <<wire, wclosed, reset>>
writerVars == <<writes, out>>
readerVars == <<buffered, rio, call, ret, rclosed>>
rioVars == <<kernelVars, writerVars, readerVars>>

NoCall == [fn |-> "none", size |-> 0, buf |-> <<>>]
rio_readinitb == [rio_cnt |-> 0, rio_buf |-> <<>>, rio_bufptr |-> 1]

RioInit ==
    /\ writes \in Texts /\ out = <<>>
    /\ wire = <<>> /\ wclosed = FALSE /\ reset = FALSE
    /\ buffered \in BOOLEAN
    /\ rio = rio_readinitb
    /\ call = NoCall
    /\ ret = [fn |-> "none", size |-> 0, rc |-> 1, buf |-> <<>>]
    /\ rclosed = FALSE

First(s, k) == SubSeq(s, 1, k)
Rest(s, k) == SubSeq(s, k + 1, Len(s))
UpTo(a, b) == 1 .. Min({a, b})

(***************************************************************************)
(* rio_writen.                                                             *)
(***************************************************************************)
Rio_writen ==
    /\ out = <<>> /\ ~wclosed
    /\ writes # <<>>
    /\ out' = Head(writes) /\ writes' = Tail(writes)
    /\ UNCHANGED <<kernelVars, readerVars>>

(* Mutant of Advanced: what was written is not taken off.                  *)
NotAdvanced(k) == out

Advanced(k) == Rest(out, k)

WriteSome ==
    /\ out # <<>> /\ ~wclosed /\ ~rclosed
    /\ \E k \in UpTo(Len(out), WIRE - Len(wire)) :
        /\ wire' = wire \o First(out, k)
        /\ out' = Advanced(k)
    /\ UNCHANGED <<writes, wclosed, reset, readerVars>>

(* The reader is gone: -1, and the wrapper ends the process.               *)
WriteFails ==
    /\ out # <<>> /\ ~wclosed /\ rclosed
    /\ wclosed' = TRUE
    /\ UNCHANGED <<wire, reset, writerVars, readerVars>>

WriterEnds ==
    /\ out = <<>> /\ writes = <<>> /\ ~wclosed
    /\ wclosed' = TRUE
    /\ UNCHANGED <<wire, reset, writerVars, readerVars>>

(* The writer's host goes away, and with it what has not arrived.          *)
ConnectionReset ==
    /\ ~wclosed
    /\ wclosed' = TRUE /\ reset' = TRUE
    /\ \E k \in 0 .. Len(wire) : wire' = First(wire, k)
    /\ UNCHANGED <<writerVars, readerVars>>

(***************************************************************************)
(* The reader's calls.  A step is a turn of the loop in the call, with the *)
(* copying of rio_read in it; or a turn of rio_read's own loop.            *)
(***************************************************************************)
Begin(fn, size) ==
    /\ call = NoCall /\ ~rclosed
    /\ ret.rc > 0
    /\ call' = [fn |-> fn, size |-> size, buf |-> <<>>]
    /\ UNCHANGED <<kernelVars, writerVars, buffered, rio, ret, rclosed>>

ReaderBegins ==
    \/ buffered /\ \E maxlen \in LineSize : Begin("rio_readlineb", maxlen)
    \/ buffered /\ \E n \in ReadSize : Begin("rio_readnb", n)
    \/ ~buffered /\ \E n \in ReadSize : Begin("rio_readn", n)

Returns(rc, buf) ==
    /\ ret' = [fn |-> call.fn, size |-> call.size, rc |-> rc, buf |-> buf]
    /\ call' = NoCall

(* Mutant of EndOfFile: what was read before the end is thrown away.       *)
EndOfFileDrops == Returns(0, <<>>)

EndOfFile == Returns(Len(call.buf), call.buf)

(* The bytes the call has room for: readlineb asks for one at a time.      *)
Wanted == IF call.fn = "rio_readlineb" THEN 1 ELSE call.size - Len(call.buf)

Complete(buf) ==
    IF call.fn = "rio_readlineb"
    THEN Len(buf) + 1 = call.size \/ Last(buf) = NEWLINE
    ELSE Len(buf) = call.size

Gets(bytes) ==
    LET buf == call.buf \o bytes
    IN  IF Complete(buf) THEN Returns(Len(buf), buf)
                         ELSE call' = [call EXCEPT !.buf = buf] /\ UNCHANGED ret

InRioRead == call.fn \in {"rio_readlineb", "rio_readnb"}

(* rio_read's while loop: the buffer is empty.                             *)
Refill ==
    /\ InRioRead /\ rio.rio_cnt <= 0
    /\ \E k \in UpTo(RIO_BUFSIZE, Len(wire)) :
        /\ rio' = [rio_cnt |-> k, rio_buf |-> First(wire, k), rio_bufptr |-> 1]
        /\ wire' = Rest(wire, k)
    /\ UNCHANGED <<wclosed, reset, writerVars, buffered, call, ret, rclosed>>

RefillInterrupted ==
    /\ InRioRead /\ rio.rio_cnt <= 0
    /\ rio' = [rio EXCEPT !.rio_cnt = -1]
    /\ UNCHANGED <<kernelVars, writerVars, buffered, call, ret, rclosed>>

AtEnd == wire = <<>> /\ wclosed /\ ~reset
AtReset == wire = <<>> /\ reset

RefillAtEnd ==
    /\ InRioRead /\ rio.rio_cnt <= 0 /\ AtEnd
    /\ rio' = [rio EXCEPT !.rio_cnt = 0]
    /\ EndOfFile
    /\ UNCHANGED <<kernelVars, writerVars, buffered, rclosed>>

RefillFails ==
    /\ InRioRead /\ rio.rio_cnt <= 0 /\ AtReset
    /\ reset' = FALSE
    /\ rio' = [rio EXCEPT !.rio_cnt = -1]
    /\ Returns(-1, <<>>)
    /\ UNCHANGED <<wire, wclosed, writerVars, buffered, rclosed>>

rio_read ==
    /\ InRioRead /\ rio.rio_cnt > 0
    /\ LET cnt == Min({Wanted, rio.rio_cnt})
       IN  /\ Gets(SubSeq(rio.rio_buf, rio.rio_bufptr, rio.rio_bufptr + cnt - 1))
           /\ rio' = [rio EXCEPT !.rio_bufptr = @ + cnt, !.rio_cnt = @ - cnt]
    /\ UNCHANGED <<kernelVars, writerVars, buffered, rclosed>>

(* rio_readn has no buffer of its own.                                     *)
rio_readn ==
    /\ call.fn = "rio_readn"
    /\ \E k \in UpTo(Wanted, Len(wire)) :
        Gets(First(wire, k)) /\ wire' = Rest(wire, k)
    /\ UNCHANGED <<wclosed, reset, writerVars, buffered, rio, rclosed>>

ReadnAtEnd ==
    /\ call.fn = "rio_readn" /\ AtEnd
    /\ EndOfFile
    /\ UNCHANGED <<kernelVars, writerVars, buffered, rio, rclosed>>

ReadnFails ==
    /\ call.fn = "rio_readn" /\ AtReset
    /\ reset' = FALSE
    /\ Returns(-1, <<>>)
    /\ UNCHANGED <<wire, wclosed, writerVars, buffered, rio, rclosed>>

(* After the end or an error, or because it has read enough.               *)
ReaderEnds ==
    /\ call = NoCall /\ ~rclosed
    /\ rclosed' = TRUE
    /\ UNCHANGED <<kernelVars, writerVars, buffered, rio, call, ret>>

Writer == Rio_writen \/ WriteSome \/ WriteFails \/ WriterEnds
Reads ==
    \/ Refill \/ RefillAtEnd \/ RefillFails \/ rio_read
    \/ rio_readn \/ ReadnAtEnd \/ ReadnFails
Reader == ReaderBegins \/ Reads \/ ReaderEnds

RioNext == Writer \/ Reader \/ ConnectionReset \/ RefillInterrupted
=============================================================================
