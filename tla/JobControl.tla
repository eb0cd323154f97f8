----------------------------- MODULE JobControl -----------------------------
(***************************************************************************)
(* What job control promises, process by process: the states of tsh.c's    *)
(* lines 29-36, with no list, no signals and no handlers.  Beside the four *)
(* transitions the comment gives, a background job that stops by itself    *)
(* goes from BG to ST, and any job can finish.                             *)
(***************************************************************************)
CONSTANT Pid

VARIABLE status

Init == status = [p \in Pid |-> "none"]

NoForeground == \A p \in Pid : status[p] # "FG"

Start(p, st) ==
    /\ status[p] = "none"
    /\ st = "FG" => NoForeground
    /\ status' = [status EXCEPT ![p] = st]

(* ctrl-z, or a stop from elsewhere.                                       *)
Stop(p) ==
    /\ status[p] \in {"FG", "BG"}
    /\ status' = [status EXCEPT ![p] = "ST"]

(* The fg and bg commands.                                                 *)
Foreground(p) ==
    /\ status[p] \in {"ST", "BG"}
    /\ NoForeground
    /\ status' = [status EXCEPT ![p] = "FG"]

Background(p) ==
    /\ status[p] = "ST"
    /\ status' = [status EXCEPT ![p] = "BG"]

Finish(p) ==
    /\ status[p] # "none"
    /\ status' = [status EXCEPT ![p] = "none"]

Next == \E p \in Pid : \/ \E st \in {"FG", "BG"} : Start(p, st)
                       \/ Stop(p) \/ Foreground(p) \/ Background(p) \/ Finish(p)

Spec == Init /\ [][Next]_status
=============================================================================
