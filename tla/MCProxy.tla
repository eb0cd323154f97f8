------------------------------ MODULE MCProxy -------------------------------
(***************************************************************************)
(* Proxy for TLC.                                                          *)
(***************************************************************************)
EXTENDS Proxy

CONSTANTS t1, t2

(* A GET, one whose URI parse_uri refuses, a POST that gives its size and  *)
(* one that is chunked; a response that gives its size, one that does not. *)
MCRequest == {
    [method |-> "GET", uri |-> "http://host/", length |-> 0, pieces |-> <<"line", "blank">>],
    [method |-> "GET", uri |-> "http://host", length |-> 0, pieces |-> <<"line">>],
    [method |-> "POST", uri |-> "http://host:port/", length |-> 1,
     pieces |-> <<"line", "length", "blank", "body">>],
    [method |-> "POST", uri |-> "http://host/", length |-> 0,
     pieces |-> <<"line", "blank", "body", "last">>] }
MCResponse == {
    [length |-> 2, pieces |-> <<"length", "blank", "body", "body">>],
    [length |-> 0, pieces |-> <<"blank">>] }
MCGarbage == {0, 1}
MCThread == {t1, t2}
=============================================================================
