------------------------------- MODULE Shell --------------------------------
(***************************************************************************)
(* The tiny shell of lab9/tsh.c: the read/eval loop, the built-in commands *)
(* fg, bg and quit, the three signal handlers that do work, and as much of *)
(* the kernel as they see.                                                 *)
(*                                                                         *)
(* A signal handler interrupts the main loop, or another handler, between  *)
(* any two of its steps.  Signal() installs handlers with an empty sa_mask *)
(* so only the signal being handled is blocked: `active' lists the running *)
(* handlers, innermost first, and only the innermost one takes steps.  The *)
(* user types at any time; each key press reaches the shell's own pid only *)
(* (as sdriver.pl sends it), and a job is one process, the leader of the   *)
(* process group that setpgid(0,0) gives it.                               *)
(***************************************************************************)
EXTENDS JobTable, Sequences

CONSTANTS
    JidBound,  \* bound on the job ids given out (in C they can grow)
    Keys       \* the signals the user sends: some of INT, TSTP and QUIT

ASSUME JidBoundAssumption == JidBound \in Nat
ASSUME KeysAssumption == Keys \subseteq {"INT", "TSTP", "QUIT"}

VARIABLES
    jobs, nextjid,  \* the job list
    main,           \* the main loop: program counter and locals
    mask,           \* signals the main loop has blocked with sigprocmask
    active,         \* handlers running, innermost first
    hpc, hpid,      \* per handler: program counter, and its local pid
    shell,          \* "up", "exited", "failed" (unix_error) or "crashed" (NULL)
    pending,        \* signals pending at the shell
    pst,            \* per pid: process state
    grp,            \* pids that lead a process group of their own
    unseen,         \* stopped processes waitpid has not reported yet
    intr            \* stopped processes with a SIGINT pending

tableVars == <<jobs, nextjid>>
handlerVars == <<active, hpc, hpid>>
procVars == <<pst, grp, unseen, intr>>
vars == <<jobs, nextjid, main, mask, active, hpc, hpid, shell, pending,
          pst, grp, unseen, intr>>

Handled == {"CHLD", "INT", "TSTP"}
Signal == Handled \cup {"QUIT"}
HandlerPc == {"idle", "start", "reaped", "stopped", "lookup", "kill"}
MainPc == {"prompt", "fork", "blockall", "addjob", "restore",
           "cont", "kill", "setstate", "waitarg", "waitfg"}
ProcState == {"free", "new", "run", "stop", "zombie"}

AtPrompt == [pc |-> "prompt", bg |-> FALSE, pid |-> NoPid, slot |-> NULL]

Init ==
    /\ jobs = initjobs
    /\ nextjid = 1
    /\ main = AtPrompt
    /\ mask = {}
    /\ active = <<>>
    /\ hpc = [s \in Handled |-> "idle"]
    /\ hpid = [s \in Handled |-> NoPid]
    /\ shell = "up"
    /\ pending = {}
    /\ pst = [p \in Pid |-> "free"]
    /\ grp = {}
    /\ unseen = {}
    /\ intr = {}

MainRuns(pc) == shell = "up" /\ active = <<>> /\ main.pc = pc
HandlerRuns(s, pc) ==
    shell = "up" /\ active # <<>> /\ Head(active) = s /\ hpc[s] = pc
Blocked == mask \cup {active[i] : i \in DOMAIN active}

(***************************************************************************)
(* What the kernel does to processes.                                      *)
(***************************************************************************)

(* A child ends: it is a zombie until the shell waits for it.              *)
Ends(p) ==
    /\ pst' = [pst EXCEPT ![p] = "zombie"]
    /\ unseen' = unseen \ {p}
    /\ intr' = intr \ {p}
    /\ pending' = pending \cup {"CHLD"}
    /\ UNCHANGED grp

Stops(p) ==
    /\ pst' = [pst EXCEPT ![p] = "stop"]
    /\ unseen' = unseen \cup {p}
    /\ pending' = pending \cup {"CHLD"}
    /\ UNCHANGED <<grp, intr>>

Resumes(p) ==
    /\ pst' = [pst EXCEPT ![p] = "run"]
    /\ unseen' = unseen \ {p}
    /\ pending' = pending \cup {"CHLD"}
    /\ UNCHANGED <<grp, intr>>

NoEffect == UNCHANGED <<procVars, pending>>

(* A signal reaches the one process of group p.  Until execve the child    *)
(* still has the shell's handlers and a copy of a job list with no         *)
(* foreground job: it swallows SIGINT and SIGTSTP.                         *)
ReceiveINT(p) ==
    CASE pst[p] = "run"  -> Ends(p)
      [] pst[p] = "stop" -> /\ intr' = intr \cup {p}
                            /\ UNCHANGED <<pst, grp, unseen, pending>>
      [] OTHER           -> NoEffect

ReceiveTSTP(p) == IF pst[p] = "run" THEN Stops(p) ELSE NoEffect

ReceiveCONT(p) ==
    CASE pst[p] = "stop" /\ p \in intr    -> Ends(p)
      [] pst[p] = "stop" /\ p \notin intr -> Resumes(p)
      [] OTHER                            -> NoEffect

(* Kill(): unix_error ends the shell when the group does not exist.        *)
GroupExists(p) == p \in grp
unix_error == shell' = "failed" /\ NoEffect

(***************************************************************************)
(* The main loop.                                                          *)
(***************************************************************************)
Goto(pc) == main' = [main EXCEPT !.pc = pc]

(* Mutant of EvalBlock: SIGCHLD is not blocked.                            *)
EvalDoesNotBlock ==
    /\ MainRuns("prompt")
    /\ nextjid <= JidBound
    /\ \E bg \in BOOLEAN : main' = [main EXCEPT !.pc = "fork", !.bg = bg]
    /\ UNCHANGED <<tableVars, mask, handlerVars, shell, pending, procVars>>

(* eval, not a built-in: block SIGCHLD before forking.                     *)
EvalBlock ==
    /\ MainRuns("prompt")
    /\ nextjid <= JidBound
    /\ \E bg \in BOOLEAN : main' = [main EXCEPT !.pc = "fork", !.bg = bg]
    /\ mask' = {"CHLD"}
    /\ UNCHANGED <<tableVars, handlerVars, shell, pending, procVars>>

EvalFork ==
    /\ MainRuns("fork")
    /\ \E p \in Pid :
        /\ pst[p] = "free"
        /\ pst' = [pst EXCEPT ![p] = "new"]
        /\ main' = [main EXCEPT !.pc = "blockall", !.pid = p]
    /\ UNCHANGED <<tableVars, mask, handlerVars, shell, pending, grp, unseen, intr>>

(* Fork(): no process id is left.                                          *)
EvalForkFails ==
    /\ MainRuns("fork")
    /\ \A p \in Pid : pst[p] # "free"
    /\ unix_error
    /\ UNCHANGED <<tableVars, main, mask, handlerVars>>

EvalBlockAll ==
    /\ MainRuns("blockall")
    /\ Goto("addjob")
    /\ mask' = Signal
    /\ UNCHANGED <<tableVars, handlerVars, shell, pending, procVars>>

(* Mutant of EvalAddJob: every job is added as a foreground job.           *)
EvalAddsForeground ==
    /\ MainRuns("addjob")
    /\ LET r == addjob(jobs, nextjid, main.pid, "FG")
       IN  jobs' = r.jobs /\ nextjid' = r.nextjid
    /\ Goto("restore")
    /\ UNCHANGED <<mask, handlerVars, shell, pending, procVars>>

(* addjob may find the list full; eval does not look at its result.        *)
EvalAddJob ==
    /\ MainRuns("addjob")
    /\ LET r == addjob(jobs, nextjid, main.pid, IF main.bg THEN "BG" ELSE "FG")
       IN  jobs' = r.jobs /\ nextjid' = r.nextjid
    /\ Goto("restore")
    /\ UNCHANGED <<mask, handlerVars, shell, pending, procVars>>

EvalRestore ==
    /\ MainRuns("restore")
    /\ mask' = {}
    /\ IF main.bg THEN main' = AtPrompt ELSE Goto("waitfg")
    /\ UNCHANGED <<tableVars, handlerVars, shell, pending, procVars>>

(* Mutant of WaitFgReturns: waitfg does not loop.                          *)
WaitFgDoesNotWait ==
    /\ MainRuns("waitfg")
    /\ main' = AtPrompt
    /\ UNCHANGED <<tableVars, mask, handlerVars, shell, pending, procVars>>

(* waitfg spins while its argument is the foreground pid; it leaves in one *)
(* step once that is no longer so.                                         *)
WaitFgReturns ==
    /\ MainRuns("waitfg")
    /\ main.pid # fgpid(jobs)
    /\ main' = AtPrompt
    /\ UNCHANGED <<tableVars, mask, handlerVars, shell, pending, procVars>>

(* do_bgfg looks the job up by jid or by pid and keeps a pointer to it.    *)
BgFgLookup ==
    /\ MainRuns("prompt")
    /\ \E i \in {getjobjid(jobs, j) : j \in 1..JidBound}
                  \cup {getjobpid(jobs, p) : p \in Pid}, bg \in BOOLEAN :
        /\ i # NULL
        /\ main' = [pc |-> "cont", bg |-> bg, pid |-> NoPid, slot |-> i]
    /\ UNCHANGED <<tableVars, mask, handlerVars, shell, pending, procVars>>

(* The argument of Kill(-(job->pid), SIGCONT) is read, then the call made. *)
BgFgReadPid ==
    /\ MainRuns("cont")
    /\ main' = [main EXCEPT !.pc = "kill", !.pid = jobs[main.slot].pid]
    /\ UNCHANGED <<tableVars, mask, handlerVars, shell, pending, procVars>>

(* kill(-0) is kill(0): the shell's own group, where SIGCONT does nothing. *)
BgFgKill ==
    /\ MainRuns("kill")
    /\ \/ /\ main.pid = NoPid
          /\ Goto("setstate")
          /\ NoEffect
          /\ UNCHANGED shell
       \/ /\ main.pid # NoPid /\ GroupExists(main.pid)
          /\ Goto("setstate")
          /\ ReceiveCONT(main.pid)
          /\ UNCHANGED shell
       \/ /\ main.pid # NoPid /\ ~GroupExists(main.pid)
          /\ unix_error
          /\ UNCHANGED main
    /\ UNCHANGED <<tableVars, mask, handlerVars>>

(* Mutant of BgFgSetState: bg leaves the state as it was.                  *)
BgFgForgetsState ==
    /\ MainRuns("setstate")
    /\ jobs' = IF main.bg THEN jobs ELSE setstate(jobs, main.slot, "FG")
    /\ IF main.bg THEN main' = AtPrompt ELSE Goto("waitarg")
    /\ UNCHANGED <<nextjid, mask, handlerVars, shell, pending, procVars>>

BgFgSetState ==
    /\ MainRuns("setstate")
    /\ jobs' = setstate(jobs, main.slot, IF main.bg THEN "BG" ELSE "FG")
    /\ IF main.bg THEN main' = AtPrompt ELSE Goto("waitarg")
    /\ UNCHANGED <<nextjid, mask, handlerVars, shell, pending, procVars>>

(* waitfg(job->pid): the pid is read from the list again.                  *)
BgFgWait ==
    /\ MainRuns("waitarg")
    /\ main' = [main EXCEPT !.pc = "waitfg", !.pid = jobs[main.slot].pid]
    /\ UNCHANGED <<tableVars, mask, handlerVars, shell, pending, procVars>>

(* The quit command, or end of file: exit(0) whatever jobs there are.      *)
Quit ==
    /\ MainRuns("prompt")
    /\ shell' = "exited"
    /\ UNCHANGED <<tableVars, main, mask, handlerVars, pending, procVars>>

Main == \/ EvalBlock \/ EvalFork \/ EvalForkFails \/ EvalBlockAll
        \/ EvalAddJob \/ EvalRestore \/ WaitFgReturns
        \/ BgFgLookup \/ BgFgReadPid \/ BgFgKill \/ BgFgSetState \/ BgFgWait
        \/ Quit

(***************************************************************************)
(* Signal handlers.                                                        *)
(***************************************************************************)
Deliver(s) ==
    /\ shell = "up"
    /\ s \in pending \ Blocked
    /\ pending' = pending \ {s}
    /\ active' = <<s>> \o active
    /\ hpc' = [hpc EXCEPT ![s] = "start"]
    /\ UNCHANGED <<tableVars, main, mask, hpid, shell, procVars>>

(* sigquit_handler prints and exits: a SIGQUIT is acted on as it arrives   *)
(* (one that arrives while blocked is one that arrives later).             *)
sigquit_handler ==
    /\ shell = "up" /\ "QUIT" \in Keys \ Blocked
    /\ shell' = "exited"
    /\ UNCHANGED <<tableVars, main, mask, handlerVars, pending, procVars>>

Returns(s) ==
    /\ active' = Tail(active)
    /\ hpc' = [hpc EXCEPT ![s] = "idle"]
    /\ hpid' = [hpid EXCEPT ![s] = NoPid]

Continues(s, pc, p) ==
    /\ hpc' = [hpc EXCEPT ![s] = pc]
    /\ hpid' = [hpid EXCEPT ![s] = p]
    /\ UNCHANGED active

(* waitpid(-1, &status, WNOHANG | WUNTRACED): some child that has ended or *)
(* whose stop has not been reported, or none.                              *)
Reportable == {p \in Pid : pst[p] = "zombie"} \cup unseen

ChldWaitDead ==
    /\ HandlerRuns("CHLD", "start")
    /\ \E p \in Pid :
        /\ pst[p] = "zombie"
        /\ pst' = [pst EXCEPT ![p] = "free"]
        /\ grp' = grp \ {p}
        /\ Continues("CHLD", "reaped", p)
    /\ UNCHANGED <<tableVars, main, mask, shell, pending, unseen, intr>>

ChldWaitStopped ==
    /\ HandlerRuns("CHLD", "start")
    /\ \E p \in unseen :
        /\ unseen' = unseen \ {p}
        /\ Continues("CHLD", "stopped", p)
    /\ UNCHANGED <<tableVars, main, mask, shell, pending, pst, grp, intr>>

ChldReturn ==
    /\ HandlerRuns("CHLD", "start")
    /\ Reportable = {}
    /\ Returns("CHLD")
    /\ UNCHANGED <<tableVars, main, mask, shell, pending, procVars>>

(* Mutant of ChldDelete: one waitpid for each SIGCHLD, "if" for "while".   *)
ChldDeletesOne ==
    /\ HandlerRuns("CHLD", "reaped")
    /\ LET r == deletejob(jobs, nextjid, hpid["CHLD"])
       IN  jobs' = r.jobs /\ nextjid' = r.nextjid
    /\ Returns("CHLD")
    /\ UNCHANGED <<main, mask, shell, pending, procVars>>

ChldDelete ==
    /\ HandlerRuns("CHLD", "reaped")
    /\ LET r == deletejob(jobs, nextjid, hpid["CHLD"])
       IN  jobs' = r.jobs /\ nextjid' = r.nextjid
    /\ Continues("CHLD", "start", NoPid)
    /\ UNCHANGED <<main, mask, shell, pending, procVars>>

(* Mutants of ChldMarkStopped: a stop is taken for an end, or ignored.     *)
ChldDeletesStopped ==
    /\ HandlerRuns("CHLD", "stopped")
    /\ LET r == deletejob(jobs, nextjid, hpid["CHLD"])
       IN  jobs' = r.jobs /\ nextjid' = r.nextjid
    /\ Continues("CHLD", "start", NoPid)
    /\ UNCHANGED <<main, mask, shell, pending, procVars>>

ChldIgnoresStopped ==
    /\ HandlerRuns("CHLD", "stopped")
    /\ Continues("CHLD", "start", NoPid)
    /\ UNCHANGED <<tableVars, main, mask, shell, pending, procVars>>

ChldMarkStopped ==
    /\ HandlerRuns("CHLD", "stopped")
    /\ LET i == getjobpid(jobs, hpid["CHLD"])
       IN  jobs' = IF i # NULL THEN setstate(jobs, i, "ST") ELSE jobs
    /\ Continues("CHLD", "start", NoPid)
    /\ UNCHANGED <<nextjid, main, mask, shell, pending, procVars>>

(* sigint_handler and sigtstp_handler begin by reading the foreground pid. *)
ForwardStart(s, next) ==
    /\ HandlerRuns(s, "start")
    /\ IF fgpid(jobs) = NoPid
       THEN Returns(s)
       ELSE Continues(s, next, fgpid(jobs))
    /\ UNCHANGED <<tableVars, main, mask, shell, pending, procVars>>

IntStart == ForwardStart("INT", "kill")
TstpStart == ForwardStart("TSTP", "lookup")

(* job->state is read through the pointer getjobpid returns, NULL or not.  *)
TstpLookup ==
    /\ HandlerRuns("TSTP", "lookup")
    /\ LET i == getjobpid(jobs, hpid["TSTP"]) IN
        \/ /\ i = NULL
           /\ shell' = "crashed"
           /\ UNCHANGED handlerVars
        \/ /\ i # NULL /\ jobs[i].state = "ST"
           /\ Returns("TSTP")
           /\ UNCHANGED shell
        \/ /\ i # NULL /\ jobs[i].state # "ST"
           /\ Continues("TSTP", "kill", hpid["TSTP"])
           /\ UNCHANGED shell
    /\ UNCHANGED <<tableVars, main, mask, pending, procVars>>

ForwardKill(s, Receive(_)) ==
    /\ HandlerRuns(s, "kill")
    /\ \/ /\ GroupExists(hpid[s])
          /\ Receive(hpid[s])
          /\ Returns(s)
          /\ UNCHANGED shell
       \/ /\ ~GroupExists(hpid[s])
          /\ unix_error
          /\ UNCHANGED handlerVars
    /\ UNCHANGED <<tableVars, main, mask>>

(* Mutant of IntKill: the handler returns without sending the signal.      *)
IntDropped ==
    /\ HandlerRuns("INT", "kill")
    /\ Returns("INT")
    /\ UNCHANGED <<tableVars, main, mask, shell, pending, procVars>>

IntKill == ForwardKill("INT", ReceiveINT)
TstpKill == ForwardKill("TSTP", ReceiveTSTP)

ChldStep == \/ ChldWaitDead \/ ChldWaitStopped \/ ChldReturn
            \/ ChldDelete \/ ChldMarkStopped
IntStep == IntStart \/ IntKill
TstpStep == TstpStart \/ TstpLookup \/ TstpKill

Handler == \/ \E s \in Handled : Deliver(s)
           \/ sigquit_handler
           \/ ChldStep \/ IntStep \/ TstpStep

(***************************************************************************)
(* The children, and the user.                                             *)
(***************************************************************************)
ChildSetpgid(p) ==
    /\ shell = "up" /\ pst[p] = "new" /\ p \notin grp
    /\ grp' = grp \cup {p}
    /\ UNCHANGED <<tableVars, main, mask, handlerVars, shell, pending,
                   pst, unseen, intr>>

ChildExec(p) ==
    /\ shell = "up" /\ pst[p] = "new" /\ p \in grp
    /\ \/ /\ pst' = [pst EXCEPT ![p] = "run"]
          /\ UNCHANGED <<pending, grp, unseen, intr>>
       \/ Ends(p)   \* "Command not found"
    /\ UNCHANGED <<tableVars, main, mask, handlerVars, shell>>

ChildExits(p) ==
    /\ shell = "up" /\ pst[p] = "run"
    /\ Ends(p)
    /\ UNCHANGED <<tableVars, main, mask, handlerVars, shell>>

(* A signal the shell did not send ends or stops the child (myint, mystop, *)
(* kill from another terminal).                                            *)
ChildKilled(p) ==
    /\ shell = "up" /\ pst[p] \in {"run", "stop"}
    /\ Ends(p)
    /\ UNCHANGED <<tableVars, main, mask, handlerVars, shell>>

ChildStops(p) ==
    /\ shell = "up" /\ pst[p] = "run"
    /\ Stops(p)
    /\ UNCHANGED <<tableVars, main, mask, handlerVars, shell>>

UserSignals(s) ==
    /\ shell = "up" /\ s \notin pending
    /\ pending' = pending \cup {s}
    /\ UNCHANGED <<tableVars, main, mask, handlerVars, shell, procVars>>

(* The shell is gone: its children are init's.                             *)
Gone == shell # "up" /\ UNCHANGED vars

Next ==
    \/ Main
    \/ Handler
    \/ \E p \in Pid : \/ ChildSetpgid(p) \/ ChildExec(p) \/ ChildExits(p)
                      \/ ChildKilled(p) \/ ChildStops(p)
    \/ \E s \in Keys \ {"QUIT"} : UserSignals(s)
    \/ Gone

Spec == Init /\ [][Next]_vars

(***************************************************************************)
(* Fairness.  A runnable shell is scheduled and takes the next step of the *)
(* innermost handler or of the main loop.  A handler or the main loop that *)
(* is interrupted again and again gets on with its work in between (strong *)
(* fairness): the user does not type ctrl-c and ctrl-z faster than the     *)
(* shell handles them.  An unblocked pending signal is delivered, and a    *)
(* forked child gets as far as its program.  Nothing is promised of the    *)
(* programs the jobs run, nor that the user ever types.                    *)
(***************************************************************************)
EvalStep == \/ EvalFork \/ EvalForkFails \/ EvalBlockAll \/ EvalAddJob
            \/ EvalRestore \/ WaitFgReturns
BgFgStep == BgFgReadPid \/ BgFgKill \/ BgFgSetState \/ BgFgWait

Fairness ==
    /\ SF_vars(EvalStep \/ BgFgStep)
    /\ SF_vars(ChldStep) /\ SF_vars(IntStep) /\ SF_vars(TstpStep)
    /\ \A s \in Handled : WF_vars(Deliver(s))
    /\ \A p \in Pid : WF_vars(ChildSetpgid(p) \/ ChildExec(p))

LiveSpec == Spec /\ Fairness

(***************************************************************************)
(* Properties.                                                             *)
(***************************************************************************)
TypeOK ==
    /\ jobs \in Table
    /\ nextjid \in Nat \ {0}
    /\ main \in [pc : MainPc, bg : BOOLEAN, pid : Pid \cup {NoPid},
                 slot : Slot \cup {NULL}]
    /\ mask \in SUBSET Signal
    /\ active \in Seq(Handled)
    /\ hpc \in [Handled -> HandlerPc]
    /\ hpid \in [Handled -> Pid \cup {NoPid}]
    /\ shell \in {"up", "exited", "failed", "crashed"}
    /\ pending \in SUBSET Handled
    /\ pst \in [Pid -> ProcState]
    /\ grp \in SUBSET Pid
    /\ unseen \in SUBSET Pid
    /\ intr \in SUBSET Pid

(* "At most 1 job can be in the FG state" (line 36), counting every slot   *)
(* of the list, the free ones a late do_bgfg wrote to included.            *)
AtMostOneFG ==
    \A i, j \in Slot : jobs[i].state = "FG" /\ jobs[j].state = "FG" => i = j

(* The job list never names a process that is gone: a listed pid is a      *)
(* child not yet waited for, or the one the SIGCHLD handler has just       *)
(* waited for and is about to delete.  Blocking SIGCHLD from before fork   *)
(* to after addjob is what this needs (lines 203-219).                     *)
NoGhostJob ==
    \A i \in Slot :
        LET p == jobs[i].pid
        IN  p # NoPid => \/ pst[p] # "free"
                         \/ hpc["CHLD"] = "reaped" /\ hpid["CHLD"] = p

(* No process is listed twice, although the kernel reuses pids.            *)
PidListedOnce ==
    \A i, j \in Slot : jobs[i].pid = jobs[j].pid /\ jobs[i].pid # NoPid => i = j

(* A job shown as stopped really is stopped, or has ended and is not yet   *)
(* reaped, except while do_bgfg is between its SIGCONT and the update of   *)
(* the state (lines 355-362).                                              *)
StoppedIsStopped ==
    \A i \in Slot :
        jobs[i].pid # NoPid /\ jobs[i].state = "ST" =>
            \/ pst[jobs[i].pid] # "run"
            \/ main.pc = "setstate" /\ main.slot = i

(* With room in the list for every process, each child is listed from      *)
(* addjob until it is reaped: none is lost to a race.                      *)
EveryChildListed ==
    \A p \in Pid : pst[p] # "free" =>
        \/ \E i \in Slot : jobs[i].pid = p
        \/ main.pc \in {"blockall", "addjob"} /\ main.pid = p

(* A ctrl-c or ctrl-z forwarded by the shell never touches a background    *)
(* job ("Forward SIGINT only to foreground job", trace07.txt): a handler's *)
(* kill leaves alone every process the list shows as BG.                   *)
BackgroundUntouched ==
    [][IntKill \/ TstpKill =>
        \A i \in Slot : jobs[i].pid # NoPid /\ jobs[i].state = "BG" =>
            LET p == jobs[i].pid
            IN  pst'[p] = pst[p] /\ (p \in intr <=> p \in intr')]_vars

(* The shell carries out job control: what the list says of each process   *)
(* changes only as JobControl allows.                                      *)
status == [p \in Pid |-> LET i == getjobpid(jobs, p)
                         IN  IF i = NULL THEN "none" ELSE jobs[i].state]
JC == INSTANCE JobControl WITH status <- status
ImplementsJobControl == JC!Spec

(* Every child that ends is eventually waited for, although pending        *)
(* SIGCHLDs do not queue and handlers interrupt each other.                *)
ZombiesReaped ==
    \A p \in Pid : pst[p] = "zombie" ~> pst[p] = "free" \/ shell # "up"

(* eval waits for its foreground job: once the job it started and waits    *)
(* for has ended or stopped, the prompt comes back.                        *)
EvalWaitEnds ==
    \A p \in Pid :
        (/\ main.pc \in {"restore", "waitfg"} /\ ~main.bg
         /\ main.slot = NULL /\ main.pid = p
         /\ pst[p] \in {"stop", "zombie"}) ~> (main.pc = "prompt" \/ shell # "up")

(* A ctrl-c typed while a foreground program runs ends it or finds it      *)
(* stopped.                                                                *)
CtrlCReachesJob ==
    \A p \in Pid :
        (/\ "INT" \in pending /\ "INT" \notin Blocked
         /\ fgpid(jobs) = p /\ pst[p] = "run") ~> (pst[p] # "run" \/ shell # "up")

(* "Block until process pid is no longer the foreground process" (line     *)
(* 372): waitfg is waiting for some process.  When it is called with pid 0 *)
(* it waits for ever, since fgpid of a list with no foreground job is 0.   *)
WaitsForSomeone == main.pc = "waitfg" => main.pid # NoPid

(***************************************************************************)
(* The inductive invariant behind AtMostOneFG, NoGhostJob, PidListedOnce,  *)
(* StoppedIsStopped, BackgroundUntouched and ImplementsJobControl.  It     *)
(* adds what each of the actors relies on while another one moves.         *)
(***************************************************************************)

(* A handler is running exactly when it is somewhere in the nest, and it   *)
(* is there once: its own signal stays blocked until it returns.           *)
ActiveInv ==
    /\ \A i, j \in 1..Len(active) : active[i] = active[j] => i = j
    /\ \A s \in Handled :
        hpc[s] # "idle" <=> \E i \in 1..Len(active) : active[i] = s

(* From before fork until after addjob no SIGCHLD handler runs, and the    *)
(* new child is neither listed nor reaped.                                 *)
CriticalInv ==
    /\ main.pc \in {"fork", "blockall", "addjob", "restore"} =>
        "CHLD" \in mask /\ hpc["CHLD"] = "idle"
    /\ main.pc \in {"blockall", "addjob"} =>
        /\ main.pid \in Pid
        /\ pst[main.pid] # "free"
        /\ \A i \in Slot : jobs[i].pid # main.pid

(* do_bgfg's pointer is to a slot, and when it calls kill the pid it read  *)
(* is still that slot's or nobody's.                                       *)
PointerInv ==
    /\ main.pc \in {"cont", "kill", "setstate", "waitarg"} => main.slot \in Slot
    /\ main.pc = "kill" /\ main.pid # NoPid =>
        \A i \in Slot : jobs[i].pid = main.pid => i = main.slot

(* A slot is FG only while the main loop waits for it or is about to.      *)
ForegroundWaits ==
    \A i \in Slot : jobs[i].state = "FG" =>
        /\ ~main.bg
        /\ \/ main.pc \in {"restore", "waitfg"} /\ jobs[i].pid = main.pid
           \/ main.pc = "waitarg" /\ main.slot = i

(* What the SIGCHLD handler holds between waitpid and the job list.        *)
ReaperInv ==
    /\ \A p \in unseen : pst[p] = "stop"
    /\ hpc["CHLD"] \in {"reaped", "stopped"} => hpid["CHLD"] \in Pid
    /\ hpc["CHLD"] = "stopped" => pst[hpid["CHLD"]] \in {"stop", "zombie"}

ListedHasState ==
    \A i \in Slot : jobs[i].pid # NoPid => jobs[i].state # "UNDEF"

StoppedInv ==
    \A i \in Slot :
        jobs[i].pid # NoPid /\ jobs[i].state = "ST" =>
            \/ pst[jobs[i].pid] \in {"stop", "zombie", "free"}
            \/ main.pc = "setstate" /\ main.slot = i

(* The pid a forwarding handler holds is not a background job's.           *)
ForwardInv ==
    \A s \in {"INT", "TSTP"} : hpc[s] \in {"lookup", "kill"} =>
        /\ hpid[s] \in Pid
        /\ \A i \in Slot : jobs[i].pid = hpid[s] => jobs[i].state # "BG"

IInv == /\ TypeOK /\ AtMostOneFG /\ NoGhostJob /\ PidListedOnce
        /\ ActiveInv /\ CriticalInv /\ PointerInv /\ ForegroundWaits
        /\ ReaperInv /\ ListedHasState /\ StoppedInv /\ ForwardInv
=============================================================================
