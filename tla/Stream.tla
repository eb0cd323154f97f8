-------------------------------- MODULE Stream --------------------------------
(***************************************************************************)
(* What the Rio package of lab10/csapp.c promises its reader: a stream of  *)
(* bytes of which a call takes a line, or n bytes, in one piece, whatever  *)
(* the pieces were that the bytes came in.                                 *)
(***************************************************************************)
EXTENDS Integers, Sequences, SequencesExt, FiniteSetsExt

CONSTANTS NEWLINE, Texts, LineSize, ReadSize

VARIABLES
    text,            \* what the sender has yet to send
    stream,          \* what was sent and no call has taken
    closed, broken,  \* its end is there; the connection was reset
    ret              \* the last call and what it returned

vars == <<text, stream, closed, broken, ret>>

Init ==
    /\ \E messages \in Texts : text = FlattenSeq(messages)
    /\ stream = <<>> /\ ~closed /\ ~broken
    /\ ret = [fn |-> "none", size |-> 0, rc |-> 1, buf |-> <<>>]

Send ==
    /\ ~closed
    /\ \E k \in DOMAIN text :
        /\ stream' = stream \o SubSeq(text, 1, k)
        /\ text' = SubSeq(text, k + 1, Len(text))
    /\ UNCHANGED <<closed, broken, ret>>

Close == ~closed /\ closed' = TRUE /\ UNCHANGED <<text, stream, broken, ret>>

(* A reset takes along what the reader's process has not got yet.          *)
Reset ==
    /\ ~closed /\ closed' = TRUE /\ broken' = TRUE
    /\ IsPrefix(stream', stream)
    /\ UNCHANGED <<text, ret>>

Ended == closed /\ ~broken

(* The next n bytes, or all there are before the end.                      *)
Piece(n) == SubSeq(stream, 1, Min({n, Len(stream)}))

(* A line reaches to its newline, to the room in the caller's buffer, one  *)
(* byte of which is for the 0, or to the end.                              *)
Newlines == {k \in DOMAIN stream : stream[k] = NEWLINE}
LineLength(maxlen) == Min({maxlen - 1} \cup Newlines)

Take(fn, size, n) ==
    /\ Len(stream) >= n \/ Ended
    /\ ret' = [fn |-> fn, size |-> size, rc |-> Len(Piece(n)), buf |-> Piece(n)]
    /\ stream' = SubSeq(stream, Len(Piece(n)) + 1, Len(stream))
    /\ UNCHANGED <<text, closed, broken>>

ReadLine(maxlen) == Take("rio_readlineb", maxlen, LineLength(maxlen))
ReadBytes(fn, n) == Take(fn, n, n)

(* A call fails on a connection that was reset, and only when there is not *)
(* enough left for it.                                                     *)
Fail(fn, size) ==
    /\ broken /\ broken' = FALSE
    /\ Len(stream) < IF fn = "rio_readlineb" THEN LineLength(size) ELSE size
    /\ ret' = [fn |-> fn, size |-> size, rc |-> -1, buf |-> <<>>]
    /\ stream' = <<>>
    /\ UNCHANGED <<text, closed>>

Next ==
    \/ Send \/ Close \/ Reset
    \/ \E maxlen \in LineSize : ReadLine(maxlen) \/ Fail("rio_readlineb", maxlen)
    \/ \E n \in ReadSize, fn \in {"rio_readn", "rio_readnb"} : ReadBytes(fn, n) \/ Fail(fn, n)

Spec == Init /\ [][Next]_vars
=============================================================================
