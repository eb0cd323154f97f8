------------------------------ MODULE JobTable ------------------------------
(***************************************************************************)
(* The job list of the tiny shell (lab9/tsh.c): an array of MAXJOBS slots  *)
(* searched from the front, and the helpers eval, do_bgfg and the signal   *)
(* handlers call on it.  A slot is free when its pid is NoPid (0 in C); a  *)
(* pointer to a slot is the slot's index, and NULL is the index 0.  The    *)
(* helpers are operators from one table to the next, so that the shell and *)
(* the proofs share them.                                                  *)
(***************************************************************************)
EXTENDS Integers, FiniteSets

CONSTANTS
    Pid,     \* the process ids a child can have
    NoPid,   \* 0: the pid of a free slot, and "no such process"
    MAXJOBS  \* slots of the job list

ASSUME PidAssumption == NoPid \notin Pid
ASSUME MaxjobsAssumption == MAXJOBS \in Nat \ {0}

NULL == 0
Slot == 1..MAXJOBS
JobState == {"UNDEF", "FG", "BG", "ST"}
Job == [pid : Pid \cup {NoPid}, jid : Nat, state : JobState]
Table == [Slot -> Job]

FreeJob == [pid |-> NoPid, jid |-> 0, state |-> "UNDEF"]

(* A loop that stops at the first slot passing its test.                   *)
FirstOf(S) == IF S = {} THEN NULL ELSE CHOOSE i \in S : \A j \in S : i <= j

clearjob(jobs, i) == [jobs EXCEPT ![i] = FreeJob]
initjobs == [i \in Slot |-> FreeJob]

maxjid(jobs) ==
    CHOOSE m \in {jobs[i].jid : i \in Slot} : \A i \in Slot : jobs[i].jid <= m

getjobpid(jobs, p) == FirstOf({i \in Slot : p # NoPid /\ jobs[i].pid = p})
getjobjid(jobs, j) == FirstOf({i \in Slot : j >= 1 /\ jobs[i].jid = j})

(* Mutant of fgpid: any job that runs will do.                             *)
fgpidAnyRunning(jobs) ==
    LET i == FirstOf({k \in Slot : jobs[k].state \in {"FG", "BG"}})
    IN  IF i = NULL THEN NoPid ELSE jobs[i].pid

(* The foreground pid is read off the first slot whose state is FG, and is *)
(* whatever that slot holds: NoPid when the slot has been cleared since.   *)
fgpid(jobs) ==
    LET i == FirstOf({k \in Slot : jobs[k].state = "FG"})
    IN  IF i = NULL THEN NoPid ELSE jobs[i].pid

(* addjob and deletejob update the list and nextjid together: they return  *)
(* both.  addjob on a full list and deletejob of an unknown pid change     *)
(* nothing.                                                                *)
freeslot(jobs) == FirstOf({i \in Slot : jobs[i].pid = NoPid})

(* Mutant of addjob: nextjid wraps to 0.                                   *)
addjobWrapsToZero(jobs, nextjid, p, st) ==
    LET i == freeslot(jobs)
    IN  IF i = NULL
        THEN [jobs |-> jobs, nextjid |-> nextjid]
        ELSE [jobs |-> [jobs EXCEPT ![i] =
                           [pid |-> p, jid |-> nextjid, state |-> st]],
              nextjid |-> IF nextjid + 1 > MAXJOBS THEN 0 ELSE nextjid + 1]

addjob(jobs, nextjid, p, st) ==
    LET i == freeslot(jobs)
    IN  IF i = NULL
        THEN [jobs |-> jobs, nextjid |-> nextjid]
        ELSE [jobs |-> [jobs EXCEPT ![i] =
                           [pid |-> p, jid |-> nextjid, state |-> st]],
              nextjid |-> IF nextjid + 1 > MAXJOBS THEN 1 ELSE nextjid + 1]

deletejob(jobs, nextjid, p) ==
    LET i == getjobpid(jobs, p)
    IN  IF i = NULL
        THEN [jobs |-> jobs, nextjid |-> nextjid]
        ELSE [jobs |-> clearjob(jobs, i),
              nextjid |-> maxjid(clearjob(jobs, i)) + 1]

(* job->state = st through a pointer, whatever the slot now holds.         *)
setstate(jobs, i, st) == [jobs EXCEPT ![i].state = st]
=============================================================================
