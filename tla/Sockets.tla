------------------------------- MODULE Sockets -------------------------------
(***************************************************************************)
(* open_listenfd and open_clientfd of lab10/csapp.c: a server and a client *)
(* walk the list of addresses that getaddrinfo gives each of them, until   *)
(* one can be bound, or connected to.  Every system call may fail.  Their  *)
(* wrappers Open_listenfd and Open_clientfd end the process on an error.   *)
(***************************************************************************)
EXTENDS Naturals, Sequences

CONSTANTS
    Addresses,  \* the addresses of the host
    MAX_LIST    \* the longest list of them

Side == {"server", "client"}

(* at: before the call; in the walk, with list from p on; with a socket    *)
(* that is bound or connected, when the walk is over; after the call.      *)
VARIABLES
    at,         \* how far a side is
    list,       \* the addresses left in its walk
    held,       \* its list of addresses is allocated
    fds,        \* the descriptors it has open
    rc,         \* what its call has returned
    stuck,      \* its close has failed
    bound,      \* the address the server's socket is bound to
    listening   \* it accepts connections

openVars == <<at, list, held, fds, rc, stuck, bound, listening>>

SocketsInit ==
    /\ at = [s \in Side |-> "before"]
    /\ list = [s \in Side |-> <<>>]
    /\ held = [s \in Side |-> FALSE]
    /\ fds = [s \in Side |-> 0]
    /\ rc = [s \in Side |-> "none"]
    /\ stuck = [s \in Side |-> FALSE]
    /\ bound \in Addresses  \* no address yet: it counts once listening
    /\ listening = FALSE

Lists == UNION {[1 .. n -> Addresses] : n \in 1 .. MAX_LIST}

Returned(s, result) ==
    /\ at' = [at EXCEPT ![s] = "after"]
    /\ rc' = [rc EXCEPT ![s] = result]

getaddrinfo(s) ==
    /\ at[s] = "before"
    /\ \/ /\ \E l \in Lists : list' = [list EXCEPT ![s] = l]
          /\ held' = [held EXCEPT ![s] = TRUE]
          /\ at' = [at EXCEPT ![s] = "walks"]
          /\ UNCHANGED rc
       \/ Returned(s, "error") /\ UNCHANGED <<list, held>>
    /\ UNCHANGED <<fds, stuck, bound, listening>>

(* One turn of the loop: the socket, and bind or connect.                  *)
SocketFails(s) ==
    /\ at[s] = "walks" /\ list[s] # <<>>
    /\ list' = [list EXCEPT ![s] = Tail(@)]
    /\ UNCHANGED <<at, held, fds, rc, stuck, bound, listening>>

Succeeds(s) ==
    /\ at[s] = "walks" /\ list[s] # <<>>
    /\ IF s = "server" THEN bound' = Head(list[s])
                       ELSE listening /\ bound = Head(list[s]) /\ UNCHANGED bound
    /\ fds' = [fds EXCEPT ![s] = @ + 1]
    /\ at' = [at EXCEPT ![s] = "found"]
    /\ UNCHANGED <<list, held, rc, stuck, listening>>

(* Mutant of Closed: the loop goes on without close.                       *)
NotClosed(s) == fds[s] + 1

Closed(s) == fds[s]

FailsAndCloses(s) ==
    /\ at[s] = "walks" /\ list[s] # <<>>
    /\ fds' = [fds EXCEPT ![s] = Closed(s)]
    /\ list' = [list EXCEPT ![s] = Tail(@)]
    /\ UNCHANGED <<at, held, rc, stuck, bound, listening>>

(* A close that fails, which closes nevertheless, ends the call at once.   *)
CloseFails(s) ==
    /\ at[s] = "walks" /\ list[s] # <<>>
    /\ stuck' = [stuck EXCEPT ![s] = TRUE]
    /\ Returned(s, "error")
    /\ UNCHANGED <<list, held, fds, bound, listening>>

freeaddrinfo(s) ==
    /\ held' = [held EXCEPT ![s] = FALSE]
    /\ list' = [list EXCEPT ![s] = <<>>]

WalkFails(s) ==
    /\ at[s] = "walks" /\ list[s] = <<>>
    /\ freeaddrinfo(s)
    /\ Returned(s, "error")
    /\ UNCHANGED <<fds, stuck, bound, listening>>

Connected ==
    /\ at["client"] = "found"
    /\ freeaddrinfo("client")
    /\ Returned("client", "ok")
    /\ UNCHANGED <<fds, stuck, bound, listening>>

Listens ==
    /\ at["server"] = "found"
    /\ freeaddrinfo("server")
    /\ listening' = TRUE
    /\ Returned("server", "ok")
    /\ UNCHANGED <<fds, stuck, bound>>

ListenFails ==
    /\ at["server"] = "found"
    /\ freeaddrinfo("server")
    /\ fds' = [fds EXCEPT !["server"] = @ - 1]
    /\ Returned("server", "error")
    /\ UNCHANGED <<stuck, bound, listening>>

Walks(s) ==
    \/ getaddrinfo(s) \/ SocketFails(s) \/ Succeeds(s) \/ FailsAndCloses(s)
    \/ CloseFails(s) \/ WalkFails(s)

SocketsNext == (\E s \in Side : Walks(s)) \/ Connected \/ Listens \/ ListenFails
=============================================================================
