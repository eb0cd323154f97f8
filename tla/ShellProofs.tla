---------------------------- MODULE ShellProofs -----------------------------
(***************************************************************************)
(* Proofs about Shell for every set of pids, every size of the job list    *)
(* and every bound on job ids: first what the helpers of the job list      *)
(* return, then the shell.                                                 *)
(***************************************************************************)
EXTENDS Shell, FiniteSetTheorems, WellFoundedInduction, TLAPS

(* A non-empty set of numbers has a least element, so that the loops which *)
(* stop at the first matching slot return one.                             *)
LEMMA LeastElement ==
    ASSUME NEW T \in SUBSET Nat, T # {}
    PROVE  \E x \in T : \A y \in T : x <= y
<1>1. \E x \in T : \A y \in T : <<y, x>> \notin OpToRel(<, Nat)
  BY NatLessThanWellFounded, WFMin
<1>2. \A x, y \in Nat : <<y, x>> \notin OpToRel(<, Nat) => x <= y
  BY DEF OpToRel
<1> QED  BY <1>1, <1>2

(* FirstOf returns NULL for no match and otherwise a matching slot.        *)
LEMMA FirstOfSlot ==
    ASSUME NEW S \in SUBSET Slot
    PROVE  /\ S = {} => FirstOf(S) = NULL
           /\ S # {} => FirstOf(S) \in S
<1>1. CASE S = {}
  BY <1>1 DEF FirstOf
<1>2. CASE S # {}
  <2>1. \E x \in S : \A y \in S : x <= y
    <3> S \in SUBSET Nat  BY DEF Slot
    <3> QED  BY <1>2, LeastElement
  <2>2. FirstOf(S) \in S
    BY <1>2, <2>1 DEF FirstOf
  <2> QED  BY <1>2, <2>2
<1> QED  BY <1>1, <1>2

LEMMA NullIsNoSlot == NULL \notin Slot
  BY MaxjobsAssumption DEF NULL, Slot

(* maxjid is the largest jid of the list: an upper bound that is reached.  *)
(* Were there slots without a largest jid among the first n, there would   *)
(* be a least such n, and one slot more cannot break it.                   *)
LEMMA MaxjidIsNat ==
    ASSUME NEW table \in Table
    PROVE  /\ maxjid(table) \in Nat
           /\ \A i \in Slot : table[i].jid <= maxjid(table)
<1> DEFINE Has(n) == \E k \in 1..n : \A i \in 1..n : table[i].jid <= table[k].jid
           Bad == {n \in Slot : ~Has(n)}
<1>0. \A i \in Slot : table[i].jid \in Nat
  BY DEF Table, Job
<1>1. Bad = {}
  <2> SUFFICES ASSUME Bad # {} PROVE FALSE
    OBVIOUS
  <2>1. Bad \in SUBSET Nat
    BY DEF Slot
  <2>2. PICK n \in Bad : \A m \in Bad : n <= m
    BY <2>1, LeastElement
  <2>3. n # 1
    BY <1>0, <2>2 DEF Slot
  <2>4. n - 1 \in Slot /\ n - 1 \notin Bad
    <3>1. n \in Nat /\ n \in Slot
      BY <2>1, <2>2
    <3>2. n - 1 \in Slot
      BY <2>3, <3>1, MaxjobsAssumption DEF Slot
    <3>3. ~(n <= n - 1)
      BY <3>1
    <3> QED  BY <2>2, <3>2, <3>3
  <2>5. PICK k \in 1..(n-1) : \A i \in 1..(n-1) : table[i].jid <= table[k].jid
    BY <2>4
  <2> DEFINE b == IF table[k].jid <= table[n].jid THEN n ELSE k
  <2>6. n \in Nat /\ n \in Slot /\ k \in Slot /\ b \in 1..n
    BY <2>2, <2>5, MaxjobsAssumption DEF Slot
  <2>7. ASSUME NEW i \in 1..n PROVE table[i].jid <= table[b].jid
    <3>1. table[i].jid \in Nat /\ table[k].jid \in Nat /\ table[n].jid \in Nat
      BY <1>0, <2>6, MaxjobsAssumption DEF Slot
    <3>2. CASE i = n
      BY <3>1, <3>2
    <3>3. CASE i # n
      <4>1. i \in 1..(n-1)
        BY <3>3, <2>6
      <4>2. table[i].jid <= table[k].jid
        BY <4>1, <2>5
      <4> QED  BY <4>2, <3>1
    <3> QED  BY <3>2, <3>3
  <2>8. Has(n)
    BY <2>6, <2>7
  <2> QED  BY <2>2, <2>8
<1>2. Has(MAXJOBS)
  BY <1>1, MaxjobsAssumption DEF Slot
<1>3. PICK k \in Slot : \A i \in Slot : table[i].jid <= table[k].jid
  BY <1>2 DEF Slot
<1> DEFINE J == {table[i].jid : i \in Slot}
<1>4. \E m \in J : \A i \in Slot : table[i].jid <= m
  BY <1>3
<1>5. maxjid(table) \in J /\ \A i \in Slot : table[i].jid <= maxjid(table)
  BY <1>4 DEF maxjid
<1> QED  BY <1>0, <1>5

LEMMA InitjobsType == initjobs \in Table
  BY DEF initjobs, Table, FreeJob, Job, JobState

LEMMA ClearjobType ==
    ASSUME NEW table \in Table, NEW i \in Slot
    PROVE  clearjob(table, i) \in Table
  BY DEF clearjob, Table, FreeJob, Job, JobState

LEMMA SetstateType ==
    ASSUME NEW table \in Table, NEW i \in Slot, NEW st \in JobState
    PROVE  setstate(table, i, st) \in Table
  BY DEF setstate, Table, Job

(* addjob fills one free slot, or changes nothing on a full list.          *)
LEMMA AddjobEffect ==
    ASSUME NEW table \in Table, NEW next \in Nat \ {0}, NEW p \in Pid,
           NEW st \in JobState
    PROVE  LET r == addjob(table, next, p, st)
           IN  /\ r.jobs \in Table
               /\ r.nextjid \in Nat \ {0}
               /\ \/ r.jobs = table
                  \/ \E i \in Slot :
                       /\ table[i].pid = NoPid
                       /\ r.jobs = [table EXCEPT ![i] =
                                     [pid |-> p, jid |-> next, state |-> st]]
<1> DEFINE i == freeslot(table)
           r == addjob(table, next, p, st)
           new == [pid |-> p, jid |-> next, state |-> st]
<1>1. CASE i = NULL
  BY <1>1 DEF addjob
<1>2. CASE i # NULL
  <2>1. i \in Slot /\ table[i].pid = NoPid
    BY <1>2, FirstOfSlot DEF freeslot
  <2>2. r = [jobs |-> [table EXCEPT ![i] = new],
             nextjid |-> IF next + 1 > MAXJOBS THEN 1 ELSE next + 1]
    BY <1>2 DEF addjob
  <2>3. new \in Job
    BY DEF Job
  <2>4. r.jobs \in Table
    BY <2>1, <2>2, <2>3 DEF Table
  <2>5. r.nextjid \in Nat \ {0}
    BY <2>2, MaxjobsAssumption
  <2>6. r.jobs = [table EXCEPT ![i] = new]
    BY <2>2
  <2>7. \E k \in Slot : /\ table[k].pid = NoPid
                        /\ r.jobs = [table EXCEPT ![k] = new]
    BY <2>1, <2>6
  <2> HIDE DEF r, i
  <2> QED  BY <2>4, <2>5, <2>7 DEF r
<1> QED  BY <1>1, <1>2

(* deletejob clears one slot with that pid, or changes nothing when no     *)
(* slot has it.                                                            *)
LEMMA DeletejobEffect ==
    ASSUME NEW table \in Table, NEW next \in Nat \ {0}, NEW p \in Pid \cup {NoPid}
    PROVE  LET r == deletejob(table, next, p)
           IN  /\ r.jobs \in Table
               /\ r.nextjid \in Nat \ {0}
               /\ \/ /\ r.jobs = table
                     /\ p # NoPid => \A i \in Slot : table[i].pid # p
                  \/ \E i \in Slot : /\ p # NoPid /\ table[i].pid = p
                                     /\ r.jobs = clearjob(table, i)
<1> DEFINE S == {k \in Slot : p # NoPid /\ table[k].pid = p}
           i == getjobpid(table, p)
           r == deletejob(table, next, p)
<1>0. i = FirstOf(S) /\ S \in SUBSET Slot
  BY DEF getjobpid
<1>1. CASE i = NULL
  <2>1. S = {}
    BY <1>0, <1>1, FirstOfSlot, NullIsNoSlot
  <2>2. r = [jobs |-> table, nextjid |-> next]
    BY <1>1 DEF deletejob
  <2> QED  BY <2>1, <2>2
<1>2. CASE i # NULL
  <2>1. i \in S
    BY <1>0, <1>2, FirstOfSlot
  <2>2. r = [jobs |-> clearjob(table, i), nextjid |-> maxjid(clearjob(table, i)) + 1]
    BY <1>2 DEF deletejob
  <2>3. clearjob(table, i) \in Table
    BY <2>1, ClearjobType
  <2>4. maxjid(clearjob(table, i)) \in Nat
    BY <2>3, MaxjidIsNat
  <2> QED  BY <2>1, <2>2, <2>3, <2>4
<1> QED  BY <1>1, <1>2

(* Looking a pid up in a list that has it once.                            *)
LEMMA GetjobpidOf ==
    ASSUME NEW table \in Table, NEW p \in Pid
    PROVE  /\ (\A i \in Slot : table[i].pid # p) => getjobpid(table, p) = NULL
           /\ \A i \in Slot :
                (table[i].pid = p /\ \A j \in Slot : table[j].pid = p => j = i)
                  => getjobpid(table, p) = i
<1> DEFINE S == {k \in Slot : p # NoPid /\ table[k].pid = p}
<1>0. getjobpid(table, p) = FirstOf(S) /\ S \in SUBSET Slot /\ p # NoPid
  BY PidAssumption DEF getjobpid
<1>1. ASSUME \A i \in Slot : table[i].pid # p PROVE getjobpid(table, p) = NULL
  <2> S = {}  BY <1>1
  <2> QED  BY <1>0, FirstOfSlot
<1>2. ASSUME NEW i \in Slot, table[i].pid = p,
             \A j \in Slot : table[j].pid = p => j = i
      PROVE  getjobpid(table, p) = i
  <2> S = {i}  BY <1>0, <1>2
  <2> QED  BY <1>0, FirstOfSlot
<1> QED  BY <1>1, <1>2

(* A pointer getjobpid returns is NULL or a slot with that pid.            *)
LEMMA GetjobpidSlot ==
    ASSUME NEW table \in Table, NEW p \in Pid \cup {NoPid}
    PROVE  \/ getjobpid(table, p) = NULL
           \/ /\ getjobpid(table, p) \in Slot
              /\ p # NoPid /\ table[getjobpid(table, p)].pid = p
<1> DEFINE S == {k \in Slot : p # NoPid /\ table[k].pid = p}
<1>0. getjobpid(table, p) = FirstOf(S) /\ S \in SUBSET Slot
  BY DEF getjobpid
<1> QED  BY <1>0, FirstOfSlot

LEMMA GetjobjidSlot ==
    ASSUME NEW table \in Table, NEW j
    PROVE  getjobjid(table, j) \in Slot \cup {NULL}
<1> DEFINE S == {k \in Slot : j >= 1 /\ table[k].jid = j}
<1>0. getjobjid(table, j) = FirstOf(S) /\ S \in SUBSET Slot
  BY DEF getjobjid
<1> QED  BY <1>0, FirstOfSlot

(* fgpid is the pid in some slot whose state is FG, and NoPid without one. *)
LEMMA FgpidSlot ==
    ASSUME NEW table \in Table
    PROVE  \/ \E i \in Slot : table[i].state = "FG" /\ fgpid(table) = table[i].pid
           \/ /\ \A i \in Slot : table[i].state # "FG"
              /\ fgpid(table) = NoPid
<1> DEFINE S == {k \in Slot : table[k].state = "FG"}
<1>0. S \in SUBSET Slot
  OBVIOUS
<1>1. fgpid(table) = IF FirstOf(S) = NULL THEN NoPid ELSE table[FirstOf(S)].pid
  BY DEF fgpid
<1>2. CASE S = {}
  BY <1>0, <1>1, <1>2, FirstOfSlot
<1>3. CASE S # {}
  <2>1. FirstOf(S) \in S /\ FirstOf(S) # NULL
    BY <1>0, <1>3, FirstOfSlot, NullIsNoSlot
  <2> QED  BY <1>1, <2>1
<1> QED  BY <1>2, <1>3

(***************************************************************************)
(* The shell.                                                              *)
(***************************************************************************)
USE PidAssumption

LEMMA InitIInv == Init => IInv
<1> SUFFICES ASSUME Init PROVE IInv
  OBVIOUS
<1>1. jobs \in Table /\ \A i \in Slot : jobs[i] = FreeJob
  BY InitjobsType DEF Init, initjobs
<1>2. TypeOK
  BY <1>1 DEF Init, TypeOK, AtPrompt, MainPc, HandlerPc, ProcState, Signal, Handled
<1>3. AtMostOneFG /\ NoGhostJob /\ PidListedOnce /\ ForegroundWaits
      /\ ListedHasState /\ StoppedInv
  BY <1>1 DEF AtMostOneFG, NoGhostJob, PidListedOnce, ForegroundWaits,
              ListedHasState, StoppedInv, FreeJob
<1>4. ActiveInv /\ CriticalInv /\ PointerInv /\ ReaperInv /\ ForwardInv
  BY DEF Init, ActiveInv, CriticalInv, PointerInv, ReaperInv, ForwardInv,
         AtPrompt, Handled
<1> QED  BY <1>2, <1>3, <1>4 DEF IInv

(* Signals and handlers: the facts each step of a handler starts from.     *)
LEMMA RunningHandler ==
    ASSUME TypeOK, ActiveInv, NEW s \in Handled, NEW pc \in HandlerPc \ {"idle"},
           HandlerRuns(s, pc)
    PROVE  /\ active # <<>> /\ Head(active) = s /\ hpc[s] = pc /\ shell = "up"
           /\ Tail(active) \in Seq(Handled)
           /\ Len(Tail(active)) = Len(active) - 1
           /\ \A i \in 1..Len(Tail(active)) : Tail(active)[i] = active[i+1]
  BY DEF TypeOK, HandlerRuns

LEMMA NoHandler ==
    ASSUME TypeOK, ActiveInv, active = <<>>
    PROVE  \A s \in Handled : hpc[s] = "idle"
  BY DEF ActiveInv

(* Entering and leaving a handler keep the nest and hpc in agreement.      *)
LEMMA DeliverKeepsActive ==
    ASSUME TypeOK, ActiveInv, NEW s \in Handled, Deliver(s)
    PROVE  ActiveInv' /\ active' \in Seq(Handled)
<1>1. s \notin {active[i] : i \in 1..Len(active)}
  BY DEF Deliver, Blocked, TypeOK
<1>2. active' = <<s>> \o active /\ hpc' = [hpc EXCEPT ![s] = "start"]
  BY DEF Deliver
<1>3. /\ active' \in Seq(Handled) /\ Len(active') = Len(active) + 1
      /\ active'[1] = s
      /\ \A i \in 2..Len(active') : active'[i] = active[i-1]
  BY <1>2 DEF TypeOK
<1>4. \A i, j \in 1..Len(active') : active'[i] = active'[j] => i = j
  <2> SUFFICES ASSUME NEW i \in 1..Len(active'), NEW j \in 1..Len(active'),
                      active'[i] = active'[j]
               PROVE  i = j
    OBVIOUS
  <2>1. Len(active) \in Nat
    BY DEF TypeOK
  <2>2. \A k \in 2..Len(active') : k-1 \in 1..Len(active)
    BY <1>3, <2>1
  <2>3. \A k \in 2..Len(active') : active'[k] # s
    BY <1>1, <1>3, <2>2
  <2>4. CASE i = 1 \/ j = 1
    BY <1>3, <2>3, <2>4
  <2>5. CASE i # 1 /\ j # 1
    <3>1. i \in 2..Len(active') /\ j \in 2..Len(active')
      BY <2>5, <1>3, <2>1
    <3>2. active[i-1] = active[j-1]
      BY <3>1, <1>3
    <3> QED  BY <3>1, <3>2, <2>2 DEF ActiveInv
  <2> QED  BY <2>4, <2>5
<1>5. \A t \in Handled :
        hpc'[t] # "idle" <=> \E i \in 1..Len(active') : active'[i] = t
  <2> SUFFICES ASSUME NEW t \in Handled
               PROVE  hpc'[t] # "idle" <=> \E i \in 1..Len(active') : active'[i] = t
    OBVIOUS
  <2>1. Len(active) \in Nat
    BY DEF TypeOK
  <2>2. CASE t = s
    <3>1. hpc'[t] = "start"
      BY <2>2, <1>2 DEF TypeOK
    <3> QED  BY <3>1, <2>2, <1>3, <2>1
  <2>3. CASE t # s
    <3>1. hpc'[t] = hpc[t]
      BY <2>3, <1>2 DEF TypeOK
    <3>2. (\E i \in 1..Len(active') : active'[i] = t)
            <=> \E i \in 1..Len(active) : active[i] = t
      <4>1. ASSUME NEW i \in 1..Len(active'), active'[i] = t
            PROVE  \E k \in 1..Len(active) : active[k] = t
        BY <4>1, <2>3, <1>3, <2>1
      <4>2. ASSUME NEW i \in 1..Len(active), active[i] = t
            PROVE  \E k \in 1..Len(active') : active'[k] = t
        <5>1. /\ i+1 \in 2..Len(active') /\ (i+1)-1 = i
              /\ i+1 \in 1..Len(active')
          BY <1>3, <2>1
        <5>2. active'[i+1] = active[(i+1)-1]
          BY ONLY <5>1, <1>3
        <5>3. active'[i+1] = t
          BY <4>2, <5>1, <5>2
        <5> QED  BY <5>1, <5>3
      <4> QED  BY <4>1, <4>2
    <3> QED  BY <3>1, <3>2 DEF ActiveInv
  <2> QED  BY <2>2, <2>3
<1> QED  BY <1>3, <1>4, <1>5 DEF ActiveInv

LEMMA ReturnKeepsActive ==
    ASSUME TypeOK, ActiveInv, NEW s \in Handled, NEW pc \in HandlerPc \ {"idle"},
           HandlerRuns(s, pc), Returns(s)
    PROVE  ActiveInv' /\ active' \in Seq(Handled)
<1>1. /\ active # <<>> /\ Head(active) = s
      /\ active' \in Seq(Handled) /\ Len(active') = Len(active) - 1
      /\ \A i \in 1..Len(active') : active'[i] = active[i+1]
  BY RunningHandler DEF Returns
<1>2. Len(active) \in Nat /\ Len(active) > 0 /\ active[1] = s
  BY <1>1 DEF TypeOK
<1>3. hpc' = [hpc EXCEPT ![s] = "idle"]
  BY DEF Returns
<1>4. \A i \in 1..Len(active') : i+1 \in 1..Len(active) /\ i+1 # 1
  BY <1>1, <1>2
<1>5. \A i, j \in 1..Len(active') : active'[i] = active'[j] => i = j
  BY <1>1, <1>4 DEF ActiveInv
<1>6. ASSUME NEW t \in Handled
      PROVE  hpc'[t] # "idle" <=> \E i \in 1..Len(active') : active'[i] = t
  <2>1. CASE t = s
    <3>1. hpc'[t] = "idle"
      BY <2>1, <1>3 DEF TypeOK
    <3>2. \A i \in 1..Len(active') : active'[i] # s
      BY <1>1, <1>2, <1>4 DEF ActiveInv
    <3> QED  BY <2>1, <3>1, <3>2
  <2>2. CASE t # s
    <3>1. hpc'[t] = hpc[t]
      BY <2>2, <1>3 DEF TypeOK
    <3>2. ASSUME NEW i \in 1..Len(active), active[i] = t
          PROVE  \E k \in 1..Len(active') : active'[k] = t
      <4>1. i # 1 /\ i-1 \in 1..Len(active') /\ (i-1)+1 = i
        BY <3>2, <2>2, <1>1, <1>2
      <4> QED  BY <4>1, <3>2, <1>1
    <3> QED  BY <3>1, <3>2, <1>1, <1>4 DEF ActiveInv
  <2> QED  BY <2>1, <2>2
<1> QED  BY <1>1, <1>5, <1>6 DEF ActiveInv

(* A handler that moves on without returning is still in the nest.         *)
LEMMA ContinueKeepsActive ==
    ASSUME TypeOK, ActiveInv, NEW s \in Handled, NEW pc \in HandlerPc \ {"idle"},
           HandlerRuns(s, pc), NEW next \in HandlerPc \ {"idle"}, NEW p,
           Continues(s, next, p)
    PROVE  ActiveInv' /\ active' \in Seq(Handled)
  BY DEF TypeOK, ActiveInv, HandlerRuns, Continues

(***************************************************************************)
(* The main loop keeps the invariant.  When it moves, no handler runs.     *)
(***************************************************************************)
LEMMA EvalKeepsInv ==
    ASSUME IInv,
           EvalBlock \/ EvalFork \/ EvalForkFails \/ EvalBlockAll
             \/ EvalAddJob \/ EvalRestore \/ WaitFgReturns
    PROVE  IInv'
<1> USE DEF IInv, MainRuns, Goto, NoEffect, tableVars, handlerVars, procVars
<1>0. /\ active = <<>> /\ shell = "up"
      /\ \A s \in Handled : hpc[s] = "idle"
      /\ hpc["CHLD"] = "idle" /\ hpc["INT"] = "idle" /\ hpc["TSTP"] = "idle"
  <2>1. active = <<>> /\ shell = "up"
    BY DEF EvalBlock, EvalFork, EvalForkFails, EvalBlockAll, EvalAddJob,
           EvalRestore, WaitFgReturns
  <2> QED  BY <2>1, NoHandler DEF Handled
<1>1. CASE EvalBlock
  <2>1. /\ jobs' = jobs /\ pst' = pst /\ unseen' = unseen
        /\ active' = active /\ hpc' = hpc /\ hpid' = hpid
        /\ main.pc = "prompt" /\ main'.pc = "fork"
        /\ main'.pid = main.pid /\ main'.slot = main.slot
        /\ mask' = {"CHLD"}
    BY <1>1 DEF EvalBlock, TypeOK
  <2>2. TypeOK'
    BY <1>1 DEF EvalBlock, TypeOK, MainPc, Signal, Handled
  <2>3. CriticalInv' /\ PointerInv'
    BY <1>0, <2>1 DEF CriticalInv, PointerInv
  <2>4. \A i \in Slot : jobs[i].state # "FG"
    BY <2>1 DEF ForegroundWaits
  <2>5. ForegroundWaits' /\ StoppedInv'
    BY <2>1, <2>4 DEF ForegroundWaits, StoppedInv
  <2> QED
    BY <2>1, <2>2, <2>3, <2>5 DEF AtMostOneFG, NoGhostJob, PidListedOnce,
       ActiveInv, ReaperInv, ListedHasState, ForwardInv
<1>2. CASE EvalFork
  <2>1. PICK p \in Pid : /\ pst[p] = "free"
                         /\ pst' = [pst EXCEPT ![p] = "new"]
                         /\ main' = [main EXCEPT !.pc = "blockall", !.pid = p]
    BY <1>2 DEF EvalFork
  <2>2. /\ jobs' = jobs /\ unseen' = unseen /\ mask' = mask
        /\ active' = active /\ hpc' = hpc /\ hpid' = hpid
        /\ main.pc = "fork" /\ main'.pc = "blockall" /\ main'.pid = p
    BY <1>2, <2>1 DEF EvalFork, TypeOK
  <2>3. TypeOK'
    BY <1>2, <2>1 DEF EvalFork, TypeOK, MainPc, ProcState
  <2>4. \A i \in Slot : jobs[i].pid # p
    BY <1>0, <2>1 DEF NoGhostJob
  <2>5. \A q \in Pid : q # p => pst'[q] = pst[q]
    BY <2>1 DEF TypeOK
  <2>6. NoGhostJob' /\ StoppedInv'
    <3> \A i \in Slot : jobs[i].pid # NoPid => jobs[i].pid \in Pid
      BY DEF TypeOK, Table, Job
    <3> QED  BY <2>2, <2>4, <2>5 DEF NoGhostJob, StoppedInv
  <2>7. CriticalInv' /\ PointerInv'
    BY <2>1, <2>2, <2>4 DEF CriticalInv, PointerInv, TypeOK
  <2>8. ForegroundWaits'
    BY <2>2 DEF ForegroundWaits
  <2>9. ReaperInv'
    BY <1>0, <2>1, <2>2, <2>5 DEF ReaperInv, TypeOK
  <2> QED
    BY <2>2, <2>3, <2>6, <2>7, <2>8, <2>9 DEF AtMostOneFG, PidListedOnce,
       ActiveInv, ListedHasState, ForwardInv
<1>3. CASE EvalForkFails
  BY <1>3 DEF EvalForkFails, unix_error, TypeOK, AtMostOneFG, NoGhostJob,
     PidListedOnce, ActiveInv, CriticalInv, PointerInv, ForegroundWaits,
     ReaperInv, ListedHasState, StoppedInv, ForwardInv
<1>4. CASE EvalBlockAll
  <2>1. /\ jobs' = jobs /\ pst' = pst /\ unseen' = unseen
        /\ active' = active /\ hpc' = hpc /\ hpid' = hpid
        /\ main.pc = "blockall" /\ main'.pc = "addjob" /\ main'.bg = main.bg
        /\ main'.pid = main.pid /\ main'.slot = main.slot
        /\ mask' = Signal
    BY <1>4 DEF EvalBlockAll, TypeOK
  <2>2. TypeOK'
    BY <1>4 DEF EvalBlockAll, TypeOK, MainPc
  <2>3. CriticalInv' /\ PointerInv'
    BY <1>0, <2>1 DEF CriticalInv, PointerInv, Signal, Handled
  <2>4. ForegroundWaits' /\ StoppedInv'
    BY <2>1 DEF ForegroundWaits, StoppedInv
  <2> QED
    BY <2>1, <2>2, <2>3, <2>4 DEF AtMostOneFG, NoGhostJob, PidListedOnce,
       ActiveInv, ReaperInv, ListedHasState, ForwardInv
<1>5. CASE EvalAddJob
  <2> DEFINE st == IF main.bg THEN "BG" ELSE "FG"
             r == addjob(jobs, nextjid, main.pid, st)
             job == [pid |-> main.pid, jid |-> nextjid, state |-> st]
  <2>1. /\ jobs' = r.jobs /\ nextjid' = r.nextjid
        /\ pst' = pst /\ unseen' = unseen /\ mask' = mask
        /\ active' = active /\ hpc' = hpc /\ hpid' = hpid
        /\ main.pc = "addjob" /\ main'.pc = "restore" /\ main'.bg = main.bg
        /\ main'.pid = main.pid /\ main'.slot = main.slot
    BY <1>5 DEF EvalAddJob, TypeOK
  <2>2. /\ main.pid \in Pid /\ pst[main.pid] # "free" /\ st \in JobState
        /\ \A i \in Slot : jobs[i].pid # main.pid
        /\ \A i \in Slot : jobs[i].state # "FG"
        /\ "CHLD" \in mask
    BY <2>1 DEF CriticalInv, ForegroundWaits, JobState
  <2>3. /\ r.jobs \in Table /\ r.nextjid \in Nat \ {0}
        /\ \/ r.jobs = jobs
           \/ \E i \in Slot : jobs[i].pid = NoPid
                              /\ r.jobs = [jobs EXCEPT ![i] = job]
    <3>1. jobs \in Table /\ nextjid \in Nat \ {0}
      BY DEF TypeOK
    <3> HIDE DEF st
    <3> QED  BY <2>2, <3>1, AddjobEffect
  <2>4. TypeOK'
    BY <1>5, <2>1, <2>3 DEF EvalAddJob, TypeOK, MainPc
  <2>5. CriticalInv' /\ PointerInv' /\ ActiveInv' /\ ReaperInv'
    BY <2>1, <2>2 DEF CriticalInv, PointerInv, ActiveInv, ReaperInv
  <2>6. CASE r.jobs = jobs
    <3>1. AtMostOneFG' /\ PidListedOnce' /\ ListedHasState' /\ NoGhostJob' /\ StoppedInv'
      BY <2>1, <2>2, <2>6 DEF AtMostOneFG, NoGhostJob, PidListedOnce, ListedHasState, StoppedInv
    <3>2. ForegroundWaits' /\ ForwardInv'
      BY <1>0, <2>1, <2>2, <2>6 DEF ForegroundWaits, ForwardInv
    <3> QED  BY <2>4, <2>5, <3>1, <3>2
  <2>7. CASE \E i \in Slot : jobs[i].pid = NoPid
                             /\ r.jobs = [jobs EXCEPT ![i] = job]
    <3>1. PICK i \in Slot : jobs[i].pid = NoPid
                            /\ r.jobs = [jobs EXCEPT ![i] = job]
      BY <2>7
    <3>2. /\ jobs'[i] = job
          /\ \A j \in Slot : j # i => jobs'[j] = jobs[j]
      <4>1. jobs' = [jobs EXCEPT ![i] = job]
        BY <2>1, <3>1
      <4> HIDE DEF job
      <4> QED  BY <4>1 DEF TypeOK, Table
    <3>3. AtMostOneFG' /\ PidListedOnce' /\ ListedHasState'
      BY <2>2, <3>2 DEF AtMostOneFG, PidListedOnce, ListedHasState
    <3>4. NoGhostJob' /\ StoppedInv'
      BY <2>1, <2>2, <3>2 DEF NoGhostJob, StoppedInv
    <3>5. ForegroundWaits'
      BY <2>1, <2>2, <3>2 DEF ForegroundWaits
    <3>6. ForwardInv'
      BY <1>0, <2>1 DEF ForwardInv
    <3> QED  BY <2>4, <2>5, <3>3, <3>4, <3>5, <3>6
  <2> QED  BY <2>3, <2>6, <2>7
<1>6. CASE EvalRestore
  <2>1. /\ jobs' = jobs /\ pst' = pst /\ unseen' = unseen /\ mask' = {}
        /\ active' = active /\ hpc' = hpc /\ hpid' = hpid
        /\ main.pc = "restore"
        /\ \/ main.bg /\ main' = AtPrompt
           \/ ~main.bg /\ main' = [main EXCEPT !.pc = "waitfg"]
    BY <1>6 DEF EvalRestore
  <2>2. TypeOK'
    <3>1. main' \in [pc : MainPc, bg : BOOLEAN, pid : Pid \cup {NoPid},
                     slot : Slot \cup {NULL}]
      <4>1. AtPrompt \in [pc : MainPc, bg : BOOLEAN, pid : Pid \cup {NoPid},
                         slot : Slot \cup {NULL}]
        BY DEF MainPc, AtPrompt
      <4>2. [main EXCEPT !.pc = "waitfg"] \in
              [pc : MainPc, bg : BOOLEAN, pid : Pid \cup {NoPid},
               slot : Slot \cup {NULL}]
        BY DEF TypeOK, MainPc
      <4> QED  BY <2>1, <4>1, <4>2
    <3> QED  BY <1>6, <3>1 DEF EvalRestore, TypeOK
  <2>3. CriticalInv' /\ PointerInv' /\ ForegroundWaits' /\ StoppedInv'
    BY <2>1 DEF CriticalInv, PointerInv, ForegroundWaits, StoppedInv, AtPrompt, TypeOK
  <2> QED
    BY <2>1, <2>2, <2>3 DEF AtMostOneFG, NoGhostJob, PidListedOnce,
       ActiveInv, ReaperInv, ListedHasState, ForwardInv
<1>7. CASE WaitFgReturns
  <2>1. /\ jobs' = jobs /\ pst' = pst /\ unseen' = unseen /\ mask' = mask
        /\ active' = active /\ hpc' = hpc /\ hpid' = hpid
        /\ main.pc = "waitfg" /\ main' = AtPrompt /\ main.pid # fgpid(jobs)
    BY <1>7 DEF WaitFgReturns
  <2>2. TypeOK'
    BY <1>7 DEF WaitFgReturns, TypeOK, MainPc, AtPrompt
  <2>3. \A i \in Slot : jobs[i].state # "FG"
    BY <2>1, FgpidSlot DEF ForegroundWaits, TypeOK
  <2>4. CriticalInv' /\ PointerInv' /\ ForegroundWaits' /\ StoppedInv'
    BY <2>1, <2>3 DEF CriticalInv, PointerInv, ForegroundWaits, StoppedInv, AtPrompt
  <2> QED
    BY <2>1, <2>2, <2>4 DEF AtMostOneFG, NoGhostJob, PidListedOnce,
       ActiveInv, ReaperInv, ListedHasState, ForwardInv
<1> QED  BY <1>1, <1>2, <1>3, <1>4, <1>5, <1>6, <1>7

LEMMA BgFgKeepsInv ==
    ASSUME IInv,
           BgFgLookup \/ BgFgReadPid \/ BgFgKill \/ BgFgSetState \/ BgFgWait \/ Quit
    PROVE  IInv'
<1> USE DEF IInv, MainRuns, Goto, NoEffect, tableVars, handlerVars, procVars
<1>0. /\ active = <<>> /\ shell = "up"
      /\ hpc["CHLD"] = "idle" /\ hpc["INT"] = "idle" /\ hpc["TSTP"] = "idle"
  <2>1. active = <<>> /\ shell = "up"
    BY DEF BgFgLookup, BgFgReadPid, BgFgKill, BgFgSetState, BgFgWait, Quit
  <2> QED  BY <2>1, NoHandler DEF Handled
<1>1. CASE BgFgLookup
  <2>1. PICK i \in {getjobjid(jobs, j) : j \in 1..JidBound}
                      \cup {getjobpid(jobs, p) : p \in Pid}, bg \in BOOLEAN :
               /\ i # NULL
               /\ main' = [pc |-> "cont", bg |-> bg, pid |-> NoPid, slot |-> i]
    BY <1>1 DEF BgFgLookup
  <2>2. i \in Slot
    BY <2>1, GetjobjidSlot, GetjobpidSlot DEF TypeOK
  <2>3. /\ jobs' = jobs /\ pst' = pst /\ unseen' = unseen /\ mask' = mask
        /\ active' = active /\ hpc' = hpc /\ hpid' = hpid
        /\ main.pc = "prompt" /\ main'.pc = "cont" /\ main'.slot = i
    BY <1>1, <2>1 DEF BgFgLookup
  <2>4. TypeOK'
    BY <1>1, <2>1, <2>2 DEF BgFgLookup, TypeOK, MainPc
  <2>5. CriticalInv' /\ PointerInv' /\ ForegroundWaits' /\ StoppedInv'
    BY <2>2, <2>3 DEF CriticalInv, PointerInv, ForegroundWaits, StoppedInv
  <2> QED
    BY <2>3, <2>4, <2>5 DEF AtMostOneFG, NoGhostJob, PidListedOnce,
       ActiveInv, ReaperInv, ListedHasState, ForwardInv
<1>2. CASE BgFgReadPid
  <2>1. /\ jobs' = jobs /\ pst' = pst /\ unseen' = unseen /\ mask' = mask
        /\ active' = active /\ hpc' = hpc /\ hpid' = hpid
        /\ main.pc = "cont" /\ main.slot \in Slot
        /\ main'.pc = "kill" /\ main'.slot = main.slot
        /\ main'.pid = jobs[main.slot].pid
    BY <1>2 DEF BgFgReadPid, TypeOK, PointerInv
  <2>2. TypeOK'
    <3>1. jobs[main.slot].pid \in Pid \cup {NoPid}
      BY <2>1 DEF TypeOK, Table, Job
    <3> QED  BY <1>2, <3>1 DEF BgFgReadPid, TypeOK, MainPc
  <2>3. CriticalInv' /\ PointerInv' /\ ForegroundWaits' /\ StoppedInv'
    BY <2>1 DEF CriticalInv, PointerInv, ForegroundWaits, StoppedInv, PidListedOnce
  <2> QED
    BY <2>1, <2>2, <2>3 DEF AtMostOneFG, NoGhostJob, PidListedOnce,
       ActiveInv, ReaperInv, ListedHasState, ForwardInv
<1>3. CASE BgFgKill
  <2>1. /\ jobs' = jobs /\ mask' = mask
        /\ active' = active /\ hpc' = hpc /\ hpid' = hpid
        /\ main.pc = "kill" /\ main.slot \in Slot
    BY <1>3 DEF BgFgKill, PointerInv
  <2>2. CASE NoEffect /\ (main' = main \/ Goto("setstate"))
                      /\ shell' \in {"up", "exited", "failed", "crashed"}
    <3>1. TypeOK'
      BY <1>3, <2>1, <2>2 DEF BgFgKill, TypeOK, MainPc
    <3>2. CriticalInv' /\ PointerInv' /\ ForegroundWaits' /\ StoppedInv'
      BY <2>1, <2>2 DEF CriticalInv, PointerInv, ForegroundWaits, StoppedInv, TypeOK
    <3> QED
      BY <2>1, <2>2, <3>1, <3>2 DEF AtMostOneFG, NoGhostJob, PidListedOnce,
         ActiveInv, ReaperInv, ListedHasState, ForwardInv
  <2>3. CASE /\ main.pid # NoPid /\ pst[main.pid] = "stop"
             /\ main' = [main EXCEPT !.pc = "setstate"] /\ shell' = shell
             /\ Ends(main.pid) \/ Resumes(main.pid)
    <3> DEFINE p == main.pid
    <3>1. /\ p \in Pid
          /\ \E st \in {"zombie", "run"} : pst' = [pst EXCEPT ![p] = st]
          /\ unseen' = unseen \ {p} /\ intr' \in SUBSET Pid
          /\ pending' \in SUBSET Handled /\ grp' = grp
          /\ main'.pc = "setstate" /\ main'.slot = main.slot
      BY <2>3 DEF TypeOK, Ends, Resumes, Handled
    <3>2. TypeOK'
      BY <1>3, <2>1, <2>3, <3>1 DEF BgFgKill, TypeOK, MainPc, ProcState
    <3>3. \A q \in Pid : q # p => pst'[q] = pst[q]
      BY <3>1 DEF TypeOK
    <3>4. pst'[p] # "free"
      BY <3>1 DEF TypeOK
    <3>5. \A i \in Slot : jobs[i].pid = p => i = main.slot
      BY <2>1, <2>3 DEF PointerInv
    <3>6. \A i \in Slot : jobs[i].pid # NoPid => jobs[i].pid \in Pid
      BY DEF TypeOK, Table, Job
    <3>7. NoGhostJob'
      BY <2>1, <3>3, <3>4, <3>6 DEF NoGhostJob
    <3>8. StoppedInv'
      BY <2>1, <3>1, <3>3, <3>5, <3>6 DEF StoppedInv
    <3>9. CriticalInv' /\ PointerInv' /\ ForegroundWaits'
      BY <2>1, <3>1 DEF CriticalInv, PointerInv, ForegroundWaits
    <3>10. ReaperInv'
      BY <1>0, <2>1, <3>1, <3>3 DEF ReaperInv, TypeOK
    <3> QED
      BY <2>1, <3>2, <3>7, <3>8, <3>9, <3>10 DEF AtMostOneFG, PidListedOnce,
         ActiveInv, ListedHasState, ForwardInv
  <2> QED
    BY <1>3, <2>2, <2>3 DEF BgFgKill, ReceiveCONT, unix_error, TypeOK
<1>4. CASE BgFgSetState
  <2> DEFINE i == main.slot
             st == IF main.bg THEN "BG" ELSE "FG"
  <2>1. /\ jobs' = setstate(jobs, i, st)
        /\ pst' = pst /\ unseen' = unseen /\ mask' = mask
        /\ active' = active /\ hpc' = hpc /\ hpid' = hpid
        /\ main.pc = "setstate" /\ i \in Slot
        /\ \/ main.bg /\ main' = AtPrompt
           \/ ~main.bg /\ main' = [main EXCEPT !.pc = "waitarg"]
    BY <1>4 DEF BgFgSetState, PointerInv
  <2>2. jobs' \in Table
    BY <2>1, SetstateType DEF TypeOK, JobState
  <2>3. /\ \A j \in Slot : jobs'[j].pid = jobs[j].pid
        /\ \A j \in Slot : j # i => jobs'[j].state = jobs[j].state
        /\ jobs'[i].state = st
    BY <2>1 DEF setstate, TypeOK, Table, Job
  <2>4. \A j \in Slot : jobs[j].state # "FG"
    BY <2>1 DEF ForegroundWaits
  <2>5. /\ main' \in [pc : MainPc, bg : BOOLEAN, pid : Pid \cup {NoPid},
                      slot : Slot \cup {NULL}]
        /\ main'.pc \in {"prompt", "waitarg"}
        /\ ~main.bg => main'.pc = "waitarg" /\ main'.slot = i /\ ~main'.bg
        /\ main.bg => main'.pc = "prompt"
    <3>1. CASE main.bg
      <4>1. main' = AtPrompt
        BY <2>1, <3>1
      <4>2. AtPrompt \in [pc : MainPc, bg : BOOLEAN, pid : Pid \cup {NoPid},
                          slot : Slot \cup {NULL}]
        BY DEF AtPrompt, MainPc
      <4>3. AtPrompt.pc = "prompt"
        BY DEF AtPrompt
      <4> QED  BY <3>1, <4>1, <4>2, <4>3
    <3>2. CASE ~main.bg
      <4>1. main' = [main EXCEPT !.pc = "waitarg"]
        BY <2>1, <3>2
      <4>2. main \in [pc : MainPc, bg : BOOLEAN, pid : Pid \cup {NoPid},
                      slot : Slot \cup {NULL}]
        BY DEF TypeOK
      <4> QED  BY <3>2, <4>1, <4>2 DEF MainPc
    <3> QED  BY <3>1, <3>2
  <2>6. TypeOK'
    BY <1>4, <2>2, <2>5 DEF BgFgSetState, TypeOK
  <2>7. AtMostOneFG' /\ PidListedOnce' /\ ListedHasState' /\ NoGhostJob'
    BY <2>1, <2>3, <2>4 DEF AtMostOneFG, PidListedOnce, ListedHasState, NoGhostJob
  <2>8. CriticalInv' /\ PointerInv'
    BY <2>1, <2>5 DEF CriticalInv, PointerInv
  <2>9. ForegroundWaits' /\ StoppedInv'
    BY <2>1, <2>3, <2>4, <2>5 DEF ForegroundWaits, StoppedInv
  <2>10. ActiveInv' /\ ReaperInv' /\ ForwardInv'
    BY <1>0, <2>1 DEF ActiveInv, ReaperInv, ForwardInv
  <2> QED  BY <2>6, <2>7, <2>8, <2>9, <2>10
<1>5. CASE BgFgWait
  <2>1. /\ jobs' = jobs /\ pst' = pst /\ unseen' = unseen /\ mask' = mask
        /\ active' = active /\ hpc' = hpc /\ hpid' = hpid
        /\ main.pc = "waitarg" /\ main.slot \in Slot
        /\ main'.pc = "waitfg" /\ main'.slot = main.slot /\ main'.bg = main.bg
        /\ main'.pid = jobs[main.slot].pid
    BY <1>5 DEF BgFgWait, TypeOK, PointerInv
  <2>2. TypeOK'
    <3>1. jobs[main.slot].pid \in Pid \cup {NoPid}
      BY <2>1 DEF TypeOK, Table, Job
    <3> QED  BY <1>5, <3>1 DEF BgFgWait, TypeOK, MainPc
  <2>3. CriticalInv' /\ PointerInv' /\ ForegroundWaits' /\ StoppedInv'
    BY <2>1 DEF CriticalInv, PointerInv, ForegroundWaits, StoppedInv
  <2> QED
    BY <2>1, <2>2, <2>3 DEF AtMostOneFG, NoGhostJob, PidListedOnce,
       ActiveInv, ReaperInv, ListedHasState, ForwardInv
<1>6. CASE Quit
  BY <1>6 DEF Quit, TypeOK, AtMostOneFG, NoGhostJob, PidListedOnce, ActiveInv,
     CriticalInv, PointerInv, ForegroundWaits, ReaperInv, ListedHasState,
     StoppedInv, ForwardInv
<1> QED  BY <1>1, <1>2, <1>3, <1>4, <1>5, <1>6

(***************************************************************************)
(* The handlers keep the invariant.  While one runs the main loop does not *)
(* move, and the pids it works with stay what they were.                   *)
(***************************************************************************)
LEMMA DeliverKeepsInv ==
    ASSUME IInv, (\E s \in Handled : Deliver(s)) \/ sigquit_handler
    PROVE  IInv'
<1> USE DEF IInv, tableVars, procVars, handlerVars
<1>1. ASSUME NEW s \in Handled, Deliver(s) PROVE IInv'
  <2>1. /\ jobs' = jobs /\ nextjid' = nextjid /\ main' = main /\ mask' = mask
        /\ pst' = pst /\ unseen' = unseen /\ hpid' = hpid
        /\ hpc' = [hpc EXCEPT ![s] = "start"]
        /\ s \notin mask /\ s \notin {active[i] : i \in 1..Len(active)}
    BY <1>1 DEF Deliver, Blocked, TypeOK
  <2>2. hpc[s] = "idle"
    BY <2>1 DEF ActiveInv
  <2>3. /\ hpc'[s] = "start"
        /\ \A t \in Handled : t # s => hpc'[t] = hpc[t]
    BY <2>1 DEF TypeOK
  <2>4. ActiveInv' /\ active' \in Seq(Handled)
    BY <1>1, DeliverKeepsActive
  <2>5. TypeOK'
    BY <1>1, <2>1, <2>4 DEF Deliver, TypeOK, HandlerPc
  <2>6. NoGhostJob' /\ CriticalInv' /\ ReaperInv' /\ ForwardInv'
    BY <2>1, <2>2, <2>3 DEF NoGhostJob, CriticalInv, ReaperInv, ForwardInv, Handled
  <2> QED
    BY <2>1, <2>4, <2>5, <2>6 DEF AtMostOneFG, PidListedOnce, PointerInv,
       ForegroundWaits, ListedHasState, StoppedInv
<1>2. CASE sigquit_handler
  BY <1>2 DEF sigquit_handler, TypeOK, AtMostOneFG, NoGhostJob, PidListedOnce,
     ActiveInv, CriticalInv, PointerInv, ForegroundWaits, ReaperInv,
     ListedHasState, StoppedInv, ForwardInv
<1> QED  BY <1>1, <1>2

LEMMA ChldKeepsInv ==
    ASSUME IInv, ChldStep
    PROVE  IInv'
<1> USE DEF IInv, tableVars, procVars, handlerVars
<1>0. /\ main' = main /\ mask' = mask /\ shell' = shell /\ pending' = pending
      /\ hpc["CHLD"] \in {"start", "reaped", "stopped"}
      /\ main.pc \notin {"fork", "blockall", "addjob", "restore"}
      /\ \A s \in {"INT", "TSTP"} : hpc'[s] = hpc[s] /\ hpid'[s] = hpid[s]
  <2>1. /\ main' = main /\ mask' = mask /\ shell' = shell /\ pending' = pending
        /\ hpc["CHLD"] \in {"start", "reaped", "stopped"}
    BY DEF ChldStep, ChldWaitDead, ChldWaitStopped, ChldReturn, ChldDelete,
           ChldMarkStopped, HandlerRuns
  <2>2. /\ \E x \in HandlerPc : hpc' = [hpc EXCEPT !["CHLD"] = x]
        /\ \E p \in Pid \cup {NoPid} : hpid' = [hpid EXCEPT !["CHLD"] = p]
    BY DEF ChldStep, ChldWaitDead, ChldWaitStopped, ChldReturn, ChldDelete,
           ChldMarkStopped, Continues, Returns, HandlerPc, TypeOK
  <2>3. \A s \in {"INT", "TSTP"} : hpc'[s] = hpc[s] /\ hpid'[s] = hpid[s]
    BY <2>2 DEF TypeOK, Handled
  <2> QED  BY <2>1, <2>3 DEF CriticalInv
<1>1. CASE ChldWaitDead
  <2>1. PICK p \in Pid : /\ pst[p] = "zombie"
                         /\ pst' = [pst EXCEPT ![p] = "free"]
                         /\ grp' = grp \ {p}
                         /\ Continues("CHLD", "reaped", p)
    BY <1>1 DEF ChldWaitDead
  <2>2. /\ jobs' = jobs /\ nextjid' = nextjid /\ unseen' = unseen /\ intr' = intr
        /\ HandlerRuns("CHLD", "start") /\ hpc["CHLD"] = "start"
        /\ hpc'["CHLD"] = "reaped" /\ hpid'["CHLD"] = p
        /\ \A q \in Pid : q # p => pst'[q] = pst[q]
    BY <1>1, <2>1 DEF ChldWaitDead, Continues, HandlerRuns, TypeOK, Handled
  <2>3. ActiveInv' /\ active' \in Seq(Handled)
    BY <2>1, <2>2, ContinueKeepsActive DEF Handled, HandlerPc
  <2>4. TypeOK'
    BY <1>0, <2>1, <2>2, <2>3 DEF TypeOK, Continues, HandlerPc, ProcState
  <2>5. \A i \in Slot : jobs[i].pid # NoPid => jobs[i].pid \in Pid
    BY DEF TypeOK, Table, Job
  <2>6. NoGhostJob' /\ StoppedInv'
    BY <1>0, <2>1, <2>2, <2>5 DEF NoGhostJob, StoppedInv, TypeOK
  <2>7. ReaperInv'
    BY <2>1, <2>2 DEF ReaperInv, TypeOK
  <2>8. CriticalInv' /\ ForwardInv'
    BY <1>0, <2>2 DEF CriticalInv, ForwardInv
  <2> QED
    BY <1>0, <2>2, <2>3, <2>4, <2>6, <2>7, <2>8 DEF AtMostOneFG, PidListedOnce,
       PointerInv, ForegroundWaits, ListedHasState
<1>2. CASE ChldWaitStopped
  <2>1. PICK p \in unseen : /\ unseen' = unseen \ {p}
                            /\ Continues("CHLD", "stopped", p)
    BY <1>2 DEF ChldWaitStopped
  <2>2. /\ jobs' = jobs /\ nextjid' = nextjid /\ pst' = pst /\ intr' = intr /\ grp' = grp
        /\ HandlerRuns("CHLD", "start") /\ hpc["CHLD"] = "start"
        /\ hpc'["CHLD"] = "stopped" /\ hpid'["CHLD"] = p /\ p \in Pid
    BY <1>2, <2>1 DEF ChldWaitStopped, Continues, HandlerRuns, TypeOK, Handled
  <2>3. ActiveInv' /\ active' \in Seq(Handled)
    BY <2>1, <2>2, ContinueKeepsActive DEF Handled, HandlerPc
  <2>4. TypeOK'
    BY <1>0, <2>1, <2>2, <2>3 DEF TypeOK, Continues, HandlerPc
  <2>5. NoGhostJob' /\ ReaperInv' /\ CriticalInv' /\ ForwardInv'
    BY <1>0, <2>1, <2>2 DEF NoGhostJob, ReaperInv, CriticalInv, ForwardInv
  <2> QED
    BY <1>0, <2>2, <2>3, <2>4, <2>5 DEF AtMostOneFG, PidListedOnce,
       PointerInv, ForegroundWaits, ListedHasState, StoppedInv
<1>3. CASE ChldReturn
  <2>1. /\ jobs' = jobs /\ nextjid' = nextjid /\ pst' = pst /\ unseen' = unseen
        /\ intr' = intr /\ grp' = grp
        /\ HandlerRuns("CHLD", "start") /\ hpc["CHLD"] = "start" /\ Returns("CHLD")
        /\ hpc'["CHLD"] = "idle"
    BY <1>3 DEF ChldReturn, Returns, HandlerRuns, TypeOK, Handled
  <2>2. ActiveInv' /\ active' \in Seq(Handled)
    BY <2>1, ReturnKeepsActive DEF Handled, HandlerPc
  <2>3. TypeOK'
    BY <1>0, <2>1, <2>2 DEF TypeOK, Returns, HandlerPc
  <2>4. NoGhostJob' /\ ReaperInv' /\ CriticalInv' /\ ForwardInv'
    BY <1>0, <2>1 DEF NoGhostJob, ReaperInv, CriticalInv, ForwardInv
  <2> QED
    BY <1>0, <2>1, <2>2, <2>3, <2>4 DEF AtMostOneFG, PidListedOnce,
       PointerInv, ForegroundWaits, ListedHasState, StoppedInv
<1>4. CASE ChldDelete
  <2> DEFINE p == hpid["CHLD"]
             r == deletejob(jobs, nextjid, p)
  <2>1. /\ jobs' = r.jobs /\ nextjid' = r.nextjid
        /\ pst' = pst /\ unseen' = unseen /\ intr' = intr /\ grp' = grp
        /\ HandlerRuns("CHLD", "reaped") /\ hpc["CHLD"] = "reaped"
        /\ Continues("CHLD", "start", NoPid) /\ hpc'["CHLD"] = "start"
        /\ p \in Pid
    BY <1>4 DEF ChldDelete, Continues, HandlerRuns, TypeOK, Handled, ReaperInv
  <2>2. ActiveInv' /\ active' \in Seq(Handled)
    BY <2>1, ContinueKeepsActive DEF Handled, HandlerPc
  <2>3. /\ jobs' \in Table /\ nextjid' \in Nat \ {0}
        /\ \/ jobs' = jobs /\ \A i \in Slot : jobs[i].pid # p
           \/ \E i \in Slot : jobs[i].pid = p /\ jobs' = clearjob(jobs, i)
    <3>1. jobs \in Table /\ nextjid \in Nat \ {0} /\ p \in Pid \cup {NoPid} /\ p # NoPid
      BY <2>1 DEF TypeOK
    <3> HIDE DEF p
    <3> QED  BY <2>1, <3>1, DeletejobEffect
  <2>4. /\ \A i \in Slot : jobs'[i] = jobs[i] \/ jobs'[i] = FreeJob
        /\ \A i \in Slot : jobs'[i].pid # p
    <3>1. CASE jobs' = jobs /\ \A i \in Slot : jobs[i].pid # p
      BY <3>1
    <3>2. CASE \E i \in Slot : jobs[i].pid = p /\ jobs' = clearjob(jobs, i)
      <4>1. PICK i \in Slot : jobs[i].pid = p /\ jobs' = clearjob(jobs, i)
        BY <3>2
      <4>2. jobs'[i] = FreeJob /\ \A j \in Slot : j # i => jobs'[j] = jobs[j]
        BY <4>1 DEF clearjob, TypeOK, Table
      <4>3. FreeJob.pid # p
        BY <2>1 DEF FreeJob
      <4> QED  BY <2>1, <4>1, <4>2, <4>3 DEF PidListedOnce
    <3> QED  BY <2>3, <3>1, <3>2
  <2>5. FreeJob.pid = NoPid /\ FreeJob.state = "UNDEF"
    BY DEF FreeJob
  <2>6. TypeOK'
    BY <1>0, <2>1, <2>2, <2>3 DEF TypeOK, Continues, HandlerPc
  <2>7. AtMostOneFG' /\ PidListedOnce' /\ ListedHasState' /\ ForegroundWaits'
        /\ StoppedInv'
    BY <1>0, <2>1, <2>4, <2>5 DEF AtMostOneFG, PidListedOnce, ListedHasState,
       ForegroundWaits, StoppedInv
  <2>8. NoGhostJob'
    BY <2>1, <2>4, <2>5 DEF NoGhostJob
  <2>9. CriticalInv' /\ ReaperInv'
    BY <1>0, <2>1 DEF CriticalInv, ReaperInv
  <2>10. PointerInv'
    BY <1>0, <2>4, <2>5 DEF PointerInv
  <2>11. ForwardInv'
    BY <1>0, <2>4, <2>5 DEF ForwardInv
  <2> QED  BY <2>2, <2>6, <2>7, <2>8, <2>9, <2>10, <2>11
<1>5. CASE ChldMarkStopped
  <2> DEFINE p == hpid["CHLD"]
             i == getjobpid(jobs, p)
  <2>1. /\ jobs' = (IF i # NULL THEN setstate(jobs, i, "ST") ELSE jobs)
        /\ nextjid' = nextjid
        /\ pst' = pst /\ unseen' = unseen /\ intr' = intr /\ grp' = grp
        /\ HandlerRuns("CHLD", "stopped") /\ hpc["CHLD"] = "stopped"
        /\ Continues("CHLD", "start", NoPid) /\ hpc'["CHLD"] = "start"
        /\ p \in Pid /\ pst[p] \in {"stop", "zombie"}
    BY <1>5 DEF ChldMarkStopped, Continues, HandlerRuns, TypeOK, Handled, ReaperInv
  <2>2. ActiveInv' /\ active' \in Seq(Handled)
    BY <2>1, ContinueKeepsActive DEF Handled, HandlerPc
  <2>3. i = NULL \/ (i \in Slot /\ jobs[i].pid = p)
    BY <2>1, GetjobpidSlot DEF TypeOK
  <2>4. /\ jobs' \in Table
        /\ \A j \in Slot : /\ jobs'[j].pid = jobs[j].pid
                           /\ \/ jobs'[j].state = jobs[j].state
                              \/ jobs'[j].state = "ST" /\ jobs[j].pid = p
    <3>1. CASE i = NULL
      BY <2>1, <3>1 DEF TypeOK
    <3>2. CASE i # NULL
      <4>1. i \in Slot /\ jobs[i].pid = p /\ jobs' = setstate(jobs, i, "ST")
        BY <2>1, <2>3, <3>2
      <4> HIDE DEF i
      <4>2. jobs' \in Table
        BY <4>1, SetstateType DEF TypeOK, JobState
      <4>3. \A j \in Slot : /\ jobs'[j].pid = jobs[j].pid
                            /\ j # i => jobs'[j].state = jobs[j].state
                            /\ j = i => jobs'[j].state = "ST"
        BY <4>1 DEF setstate, TypeOK, Table, Job
      <4> QED  BY <4>1, <4>2, <4>3
    <3> QED  BY <3>1, <3>2
  <2>5. TypeOK'
    BY <1>0, <2>1, <2>2, <2>4 DEF TypeOK, Continues, HandlerPc
  <2>6. AtMostOneFG' /\ PidListedOnce' /\ ListedHasState' /\ ForegroundWaits'
        /\ PointerInv'
    BY <1>0, <2>4 DEF AtMostOneFG, PidListedOnce, ListedHasState,
       ForegroundWaits, PointerInv
  <2>7. NoGhostJob' /\ StoppedInv'
    BY <1>0, <2>1, <2>4 DEF NoGhostJob, StoppedInv
  <2>8. CriticalInv' /\ ReaperInv' /\ ForwardInv'
    BY <1>0, <2>1, <2>4 DEF CriticalInv, ReaperInv, ForwardInv
  <2> QED  BY <2>2, <2>5, <2>6, <2>7, <2>8
<1> QED  BY <1>1, <1>2, <1>3, <1>4, <1>5 DEF ChldStep

(* A process that ends, stops or starts its program, whoever caused it:    *)
(* the parts of the invariant that speak of processes are kept.            *)
LEMMA ProcessKeepsInv ==
    ASSUME IInv, NEW p \in Pid,
           \/ pst[p] \in {"new", "run", "stop"} /\ Ends(p)
           \/ pst[p] = "run" /\ Stops(p)
           \/ /\ pst[p] = "new" /\ pst' = [pst EXCEPT ![p] = "run"]
              /\ UNCHANGED <<unseen, grp, intr, pending>>,
           jobs' = jobs, main' = main, mask' = mask,
           hpc'["CHLD"] = hpc["CHLD"], hpid'["CHLD"] = hpid["CHLD"]
    PROVE  /\ NoGhostJob' /\ StoppedInv' /\ ReaperInv' /\ CriticalInv'
           /\ pst' \in [Pid -> ProcState] /\ grp' \in SUBSET Pid
           /\ unseen' \in SUBSET Pid /\ intr' \in SUBSET Pid
           /\ pending' \in SUBSET Handled
<1> USE DEF IInv
<1>1. /\ \A q \in Pid : q # p => pst'[q] = pst[q]
      /\ \/ pst'[p] = "zombie" /\ unseen' = unseen \ {p}
         \/ pst[p] = "run" /\ pst'[p] = "stop" /\ unseen' = unseen \cup {p}
         \/ pst[p] = "new" /\ pst'[p] = "run" /\ unseen' = unseen
  BY DEF Ends, Stops, TypeOK
<1>2. /\ pst' \in [Pid -> ProcState] /\ grp' \in SUBSET Pid
      /\ unseen' \in SUBSET Pid /\ intr' \in SUBSET Pid
      /\ pending' \in SUBSET Handled
  <2>1. /\ pst \in [Pid -> ProcState] /\ grp \in SUBSET Pid /\ unseen \in SUBSET Pid
        /\ intr \in SUBSET Pid /\ pending \in SUBSET Handled
    BY DEF TypeOK
  <2>2. "stop" \in ProcState /\ "zombie" \in ProcState /\ "run" \in ProcState
    BY DEF ProcState
  <2>3. "CHLD" \in Handled
    BY DEF Handled
  <2> HIDE DEF IInv
  <2> QED  BY <2>1, <2>2, <2>3 DEF Ends, Stops
<1>3. \A i \in Slot : jobs[i].pid # NoPid => jobs[i].pid \in Pid
  BY DEF TypeOK, Table, Job
<1>4. NoGhostJob' /\ StoppedInv'
  BY <1>1, <1>3 DEF NoGhostJob, StoppedInv
<1>5. ReaperInv'
  BY <1>1 DEF ReaperInv, TypeOK
<1>6. CriticalInv'
  BY <1>1 DEF CriticalInv
<1> QED  BY <1>2, <1>4, <1>5, <1>6

LEMMA ForwardStartKeepsInv ==
    ASSUME IInv, IntStart \/ TstpStart
    PROVE  IInv'
<1> USE DEF IInv, tableVars, procVars, handlerVars
<1>1. ASSUME NEW s \in {"INT", "TSTP"}, NEW next \in {"lookup", "kill"},
             ForwardStart(s, next)
      PROVE  IInv'
  <2>1. /\ jobs' = jobs /\ nextjid' = nextjid /\ main' = main /\ mask' = mask
        /\ shell' = shell /\ pending' = pending /\ pst' = pst /\ grp' = grp
        /\ unseen' = unseen /\ intr' = intr
        /\ HandlerRuns(s, "start") /\ s \in Handled
    BY <1>1 DEF ForwardStart, Handled
  <2>2. CASE fgpid(jobs) = NoPid /\ Returns(s)
    <3>1. ActiveInv' /\ active' \in Seq(Handled)
      BY <2>1, <2>2, ReturnKeepsActive DEF HandlerPc
    <3>2. /\ hpc' = [hpc EXCEPT ![s] = "idle"] /\ hpid' = [hpid EXCEPT ![s] = NoPid]
          /\ \A t \in Handled : t # s => hpc'[t] = hpc[t] /\ hpid'[t] = hpid[t]
          /\ hpc'[s] = "idle"
      BY <2>1, <2>2 DEF Returns, TypeOK
    <3>3. TypeOK'
      BY <2>1, <3>1, <3>2 DEF TypeOK, HandlerPc
    <3> QED
      BY <2>1, <3>1, <3>2, <3>3 DEF AtMostOneFG, NoGhostJob, PidListedOnce,
         CriticalInv, PointerInv, ForegroundWaits, ReaperInv, ListedHasState,
         StoppedInv, ForwardInv, Handled
  <2>3. CASE fgpid(jobs) # NoPid /\ Continues(s, next, fgpid(jobs))
    <3>0. PICK k \in Slot : jobs[k].state = "FG" /\ fgpid(jobs) = jobs[k].pid
      BY <2>3, FgpidSlot DEF TypeOK
    <3>1. fgpid(jobs) \in Pid
      BY <2>3, <3>0 DEF TypeOK, Table, Job
    <3>2. \A i \in Slot : jobs[i].pid = fgpid(jobs) => jobs[i].state # "BG"
      BY <3>0, <2>3 DEF PidListedOnce
    <3>3. ActiveInv' /\ active' \in Seq(Handled)
      BY <2>1, <2>3, ContinueKeepsActive DEF HandlerPc
    <3>4. /\ hpc' = [hpc EXCEPT ![s] = next]
          /\ hpid' = [hpid EXCEPT ![s] = fgpid(jobs)]
          /\ \A t \in Handled : t # s => hpc'[t] = hpc[t] /\ hpid'[t] = hpid[t]
          /\ hpc'[s] = next /\ hpid'[s] = fgpid(jobs)
      BY <2>3, <2>1 DEF Continues, TypeOK
    <3>5. TypeOK'
      BY <2>1, <3>1, <3>3, <3>4 DEF TypeOK, HandlerPc
    <3>6. ForwardInv'
      BY <2>1, <3>1, <3>2, <3>4 DEF ForwardInv, Handled
    <3> QED
      BY <2>1, <3>3, <3>4, <3>5, <3>6 DEF AtMostOneFG, NoGhostJob, PidListedOnce,
         CriticalInv, PointerInv, ForegroundWaits, ReaperInv, ListedHasState,
         StoppedInv, Handled
  <2> QED  BY <1>1, <2>2, <2>3 DEF ForwardStart
<1> QED  BY <1>1 DEF IntStart, TstpStart

LEMMA TstpLookupKeepsInv ==
    ASSUME IInv, TstpLookup
    PROVE  IInv'
<1> USE DEF IInv, tableVars, procVars, handlerVars
<1>1. /\ jobs' = jobs /\ nextjid' = nextjid /\ main' = main /\ mask' = mask
      /\ pending' = pending /\ pst' = pst /\ grp' = grp
      /\ unseen' = unseen /\ intr' = intr
      /\ HandlerRuns("TSTP", "lookup") /\ hpc["TSTP"] = "lookup"
      /\ shell' \in {"up", "exited", "failed", "crashed"}
      /\ hpid["TSTP"] \in Pid
  BY DEF TstpLookup, TypeOK, HandlerRuns, ForwardInv
<1>2. CASE UNCHANGED handlerVars
  BY <1>1, <1>2 DEF TypeOK, AtMostOneFG, NoGhostJob, PidListedOnce, ActiveInv,
     CriticalInv, PointerInv, ForegroundWaits, ReaperInv, ListedHasState,
     StoppedInv, ForwardInv
<1>3. CASE Returns("TSTP") \/ Continues("TSTP", "kill", hpid["TSTP"])
  <2>1. ActiveInv' /\ active' \in Seq(Handled)
    BY <1>1, <1>3, ReturnKeepsActive, ContinueKeepsActive DEF Handled, HandlerPc
  <2>2. /\ \A t \in Handled : t # "TSTP" => hpc'[t] = hpc[t] /\ hpid'[t] = hpid[t]
        /\ \/ hpc'["TSTP"] = "idle"
           \/ hpc'["TSTP"] = "kill" /\ hpid'["TSTP"] = hpid["TSTP"]
        /\ hpc' \in [Handled -> HandlerPc] /\ hpid' \in [Handled -> Pid \cup {NoPid}]
    BY <1>1, <1>3 DEF Returns, Continues, TypeOK, Handled, HandlerPc
  <2>3. TypeOK'
    BY <1>1, <2>1, <2>2 DEF TypeOK
  <2> QED
    BY <1>1, <2>1, <2>2, <2>3 DEF AtMostOneFG, NoGhostJob, PidListedOnce,
       CriticalInv, PointerInv, ForegroundWaits, ReaperInv, ListedHasState,
       StoppedInv, ForwardInv, Handled
<1> QED  BY <1>2, <1>3 DEF TstpLookup

LEMMA ForwardKillKeepsInv ==
    ASSUME IInv, IntKill \/ TstpKill
    PROVE  IInv'
<1> USE DEF IInv, tableVars, procVars, handlerVars
<1>1. PICK s \in {"INT", "TSTP"} :
        /\ HandlerRuns(s, "kill")
        /\ \/ ReceiveINT(hpid[s]) /\ Returns(s) /\ UNCHANGED shell
           \/ ReceiveTSTP(hpid[s]) /\ Returns(s) /\ UNCHANGED shell
           \/ unix_error /\ UNCHANGED handlerVars
        /\ UNCHANGED <<tableVars, main, mask>>
  BY DEF IntKill, TstpKill, ForwardKill
<1>2. hpid[s] \in Pid /\ s \in Handled
  BY <1>1 DEF ForwardInv, HandlerRuns, Handled
<1>3. CASE unix_error /\ UNCHANGED handlerVars
  BY <1>1, <1>3 DEF unix_error, NoEffect, TypeOK, AtMostOneFG, NoGhostJob,
     PidListedOnce, ActiveInv, CriticalInv, PointerInv, ForegroundWaits,
     ReaperInv, ListedHasState, StoppedInv, ForwardInv
<1>4. CASE /\ ReceiveINT(hpid[s]) \/ ReceiveTSTP(hpid[s])
           /\ Returns(s) /\ UNCHANGED shell
  <2> DEFINE p == hpid[s]
  <2>1. ActiveInv' /\ active' \in Seq(Handled)
    BY <1>1, <1>2, <1>4, ReturnKeepsActive DEF HandlerPc
  <2>2. /\ \A t \in Handled : t # s => hpc'[t] = hpc[t] /\ hpid'[t] = hpid[t]
        /\ hpc'[s] = "idle"
        /\ hpc' \in [Handled -> HandlerPc] /\ hpid' \in [Handled -> Pid \cup {NoPid}]
    BY <1>2, <1>4 DEF Returns, TypeOK, HandlerPc
  <2>3. hpc'["CHLD"] = hpc["CHLD"] /\ hpid'["CHLD"] = hpid["CHLD"]
    BY <2>2 DEF Handled
  <2>4. /\ NoGhostJob' /\ StoppedInv' /\ ReaperInv' /\ CriticalInv'
        /\ pst' \in [Pid -> ProcState] /\ grp' \in SUBSET Pid
        /\ unseen' \in SUBSET Pid /\ intr' \in SUBSET Pid
        /\ pending' \in SUBSET Handled
    <3>1. CASE \/ pst[p] \in {"new", "run", "stop"} /\ Ends(p)
               \/ pst[p] = "run" /\ Stops(p)
      <4> HIDE DEF p
      <4> QED  BY <1>1, <1>2, <2>3, <3>1, ProcessKeepsInv DEF p
    <3>2. CASE /\ pst' = pst /\ grp' = grp /\ unseen' = unseen /\ pending' = pending
               /\ intr' = intr \/ intr' = intr \cup {p}
      BY <1>1, <1>2, <2>3, <3>2 DEF TypeOK, NoGhostJob, StoppedInv, ReaperInv, CriticalInv
    <3> QED
      BY <1>4, <3>1, <3>2 DEF ReceiveINT, ReceiveTSTP, NoEffect
  <2>5. TypeOK'
    BY <1>1, <1>4, <2>1, <2>2, <2>4 DEF TypeOK
  <2> QED
    BY <1>1, <2>1, <2>2, <2>4, <2>5 DEF AtMostOneFG, PidListedOnce, PointerInv,
       ForegroundWaits, ListedHasState, ForwardInv, Handled
<1> QED  BY <1>1, <1>3, <1>4

(***************************************************************************)
(* The children and the user keep the invariant.                           *)
(***************************************************************************)
LEMMA OutsideKeepsInv ==
    ASSUME IInv,
           \/ \E p \in Pid : \/ ChildSetpgid(p) \/ ChildExec(p) \/ ChildExits(p)
                             \/ ChildKilled(p) \/ ChildStops(p)
           \/ \E s \in Keys \ {"QUIT"} : UserSignals(s)
           \/ UNCHANGED vars
    PROVE  IInv'
<1> USE DEF IInv, tableVars, procVars, handlerVars
<1>1. ASSUME NEW p \in Pid,
             ChildExec(p) \/ ChildExits(p) \/ ChildKilled(p) \/ ChildStops(p)
      PROVE  IInv'
  <2>1. /\ jobs' = jobs /\ nextjid' = nextjid /\ main' = main /\ mask' = mask
        /\ active' = active /\ hpc' = hpc /\ hpid' = hpid /\ shell' = shell
    BY <1>1 DEF ChildExec, ChildExits, ChildKilled, ChildStops
  <2>2. \/ pst[p] \in {"new", "run", "stop"} /\ Ends(p)
        \/ pst[p] = "run" /\ Stops(p)
        \/ /\ pst[p] = "new" /\ pst' = [pst EXCEPT ![p] = "run"]
           /\ UNCHANGED <<unseen, grp, intr, pending>>
    BY <1>1 DEF ChildExec, ChildExits, ChildKilled, ChildStops
  <2>3. /\ NoGhostJob' /\ StoppedInv' /\ ReaperInv' /\ CriticalInv'
        /\ pst' \in [Pid -> ProcState] /\ grp' \in SUBSET Pid
        /\ unseen' \in SUBSET Pid /\ intr' \in SUBSET Pid
        /\ pending' \in SUBSET Handled
    BY <2>1, <2>2, ProcessKeepsInv
  <2>4. TypeOK'
    BY <2>1, <2>3 DEF TypeOK
  <2> QED
    BY <2>1, <2>3, <2>4 DEF AtMostOneFG, PidListedOnce, ActiveInv, PointerInv,
       ForegroundWaits, ListedHasState, ForwardInv
<1>2. ASSUME NEW p \in Pid, ChildSetpgid(p) PROVE IInv'
  BY <1>2 DEF ChildSetpgid, TypeOK, AtMostOneFG, NoGhostJob, PidListedOnce,
     ActiveInv, CriticalInv, PointerInv, ForegroundWaits, ReaperInv,
     ListedHasState, StoppedInv, ForwardInv
<1>3. ASSUME NEW s \in Keys \ {"QUIT"}, UserSignals(s) PROVE IInv'
  BY <1>3, KeysAssumption DEF UserSignals, TypeOK, Handled, AtMostOneFG,
     NoGhostJob, PidListedOnce, ActiveInv, CriticalInv, PointerInv,
     ForegroundWaits, ReaperInv, ListedHasState, StoppedInv, ForwardInv
<1>4. CASE UNCHANGED vars
  BY <1>4 DEF vars, TypeOK, AtMostOneFG, NoGhostJob, PidListedOnce, ActiveInv,
     CriticalInv, PointerInv, ForegroundWaits, ReaperInv, ListedHasState,
     StoppedInv, ForwardInv
<1> QED  BY <1>1, <1>2, <1>3, <1>4

LEMMA NextKeepsInv == IInv /\ [Next]_vars => IInv'
<1> SUFFICES ASSUME IInv, [Next]_vars PROVE IInv'
  OBVIOUS
<1>1. CASE Main
  BY <1>1, EvalKeepsInv, BgFgKeepsInv DEF Main
<1>2. CASE Handler
  BY <1>2, DeliverKeepsInv, ChldKeepsInv, ForwardStartKeepsInv,
     TstpLookupKeepsInv, ForwardKillKeepsInv DEF Handler, IntStep, TstpStep
<1>3. CASE \/ \E p \in Pid : \/ ChildSetpgid(p) \/ ChildExec(p) \/ ChildExits(p)
                             \/ ChildKilled(p) \/ ChildStops(p)
           \/ \E s \in Keys \ {"QUIT"} : UserSignals(s)
           \/ UNCHANGED vars
  BY <1>3, OutsideKeepsInv
<1> QED  BY <1>1, <1>2, <1>3 DEF Next, Gone

LEMMA AlwaysIInv == Spec => []IInv
<1>1. Init => IInv
  BY InitIInv
<1>2. IInv /\ [Next]_vars => IInv'
  BY NextKeepsInv
<1> QED  BY <1>1, <1>2, PTL DEF Spec

(***************************************************************************)
(* The theorems.                                                           *)
(***************************************************************************)

(* Every variable keeps its type: the pointers and pids the code stores    *)
(* are slots, pids or their NULLs.                                         *)
THEOREM TypeCorrect == Spec => []TypeOK
  BY AlwaysIInv, PTL DEF IInv

(* tsh.c line 36: at most one job is in the FG state, whatever the signals *)
(* interrupt.                                                              *)
THEOREM OneForeground == Spec => []AtMostOneFG
  BY AlwaysIInv, PTL DEF IInv

(* The list names no process that has been waited for and reported.        *)
THEOREM ListIsCurrent == Spec => []NoGhostJob
  BY AlwaysIInv, PTL DEF IInv

(* The list names no process twice.                                        *)
THEOREM ListIsInjective == Spec => []PidListedOnce
  BY AlwaysIInv, PTL DEF IInv

(* A job shown as stopped is not running, but for the window in which      *)
(* do_bgfg has sent SIGCONT and not yet written the state.                 *)
THEOREM StoppedJobsAreStopped == Spec => []StoppedIsStopped
<1>1. IInv => StoppedIsStopped
  <2> SUFFICES ASSUME IInv, NEW i \in Slot,
                      jobs[i].pid # NoPid, jobs[i].state = "ST"
               PROVE  \/ pst[jobs[i].pid] # "run"
                      \/ main.pc = "setstate" /\ main.slot = i
    BY DEF StoppedIsStopped
  <2> QED  BY DEF IInv, StoppedInv
<1> QED  BY <1>1, AlwaysIInv, PTL

(* ctrl-c and ctrl-z never reach a background job.                         *)
THEOREM BackgroundSafe == Spec => BackgroundUntouched
<1> DEFINE Untouched ==
             \A i \in Slot : jobs[i].pid # NoPid /\ jobs[i].state = "BG" =>
                 LET p == jobs[i].pid
                 IN  pst'[p] = pst[p] /\ (p \in intr <=> p \in intr')
<1>1. IInv /\ [Next]_vars => [IntKill \/ TstpKill => Untouched]_vars
  <2> SUFFICES ASSUME IInv, IntKill \/ TstpKill, NEW i \in Slot,
                      jobs[i].pid # NoPid, jobs[i].state = "BG"
               PROVE  LET p == jobs[i].pid
                      IN  pst'[p] = pst[p] /\ (p \in intr <=> p \in intr')
    OBVIOUS
  <2> DEFINE p == jobs[i].pid
  <2>1. p \in Pid
    BY DEF IInv, TypeOK, Table, Job
  <2>2. PICK s \in {"INT", "TSTP"} :
          /\ hpc[s] = "kill"
          /\ ReceiveINT(hpid[s]) \/ ReceiveTSTP(hpid[s]) \/ unix_error
    BY DEF IntKill, TstpKill, ForwardKill, HandlerRuns
  <2>3. hpid[s] \in Pid /\ p # hpid[s]
    BY <2>2 DEF IInv, ForwardInv
  <2> HIDE DEF p
  <2>4. pst'[p] = pst[p] /\ (p \in intr <=> p \in intr')
    BY <2>1, <2>2, <2>3 DEF ReceiveINT, ReceiveTSTP, unix_error, NoEffect,
       procVars, Ends, Stops, IInv, TypeOK
  <2> QED  BY <2>4 DEF p
<1> QED  BY <1>1, AlwaysIInv, PTL DEF Spec, BackgroundUntouched

(***************************************************************************)
(* The shell implements JobControl.                                        *)
(***************************************************************************)
LEMMA StatusOf ==
    ASSUME NEW js \in Table, NEW p \in Pid,
           \A i, j \in Slot : js[i].pid = js[j].pid /\ js[i].pid # NoPid => i = j
    PROVE  LET k == getjobpid(js, p)
               st == IF k = NULL THEN "none" ELSE js[k].state
           IN  /\ (\A i \in Slot : js[i].pid # p) => st = "none"
               /\ \A i \in Slot : js[i].pid = p => st = js[i].state
<1> DEFINE k == getjobpid(js, p)
<1>1. (\A i \in Slot : js[i].pid # p) => k = NULL
  BY GetjobpidOf
<1>2. \A i \in Slot : js[i].pid = p => k = i
  BY GetjobpidOf
<1> HIDE DEF k
<1> QED  BY <1>1, <1>2, NullIsNoSlot DEF k

(* Reading status off a list in which every pid occurs once, before and    *)
(* after a step.                                                           *)
LEMMA StatusFacts ==
    ASSUME IInv, IInv'
    PROVE  /\ \A p \in Pid :
                /\ (\A i \in Slot : jobs[i].pid # p) => status[p] = "none"
                /\ \A i \in Slot : jobs[i].pid = p => status[p] = jobs[i].state
                /\ (\A i \in Slot : jobs'[i].pid # p) => status'[p] = "none"
                /\ \A i \in Slot : jobs'[i].pid = p => status'[p] = jobs'[i].state
           /\ status \in [Pid -> JobState \cup {"none"}]
           /\ status' \in [Pid -> JobState \cup {"none"}]
<1>1. /\ jobs \in Table /\ jobs' \in Table
      /\ \A i, j \in Slot : jobs[i].pid = jobs[j].pid /\ jobs[i].pid # NoPid => i = j
      /\ \A i, j \in Slot : jobs'[i].pid = jobs'[j].pid /\ jobs'[i].pid # NoPid => i = j
  BY DEF IInv, TypeOK, PidListedOnce
<1>2. ASSUME NEW p \in Pid
      PROVE  /\ (\A i \in Slot : jobs[i].pid # p) => status[p] = "none"
             /\ \A i \in Slot : jobs[i].pid = p => status[p] = jobs[i].state
  BY <1>1, StatusOf DEF status
<1>3. ASSUME NEW p \in Pid
      PROVE  /\ (\A i \in Slot : jobs'[i].pid # p) => status'[p] = "none"
             /\ \A i \in Slot : jobs'[i].pid = p => status'[p] = jobs'[i].state
  BY <1>1, StatusOf DEF status
<1>4. \A p \in Pid : status[p] \in JobState \cup {"none"}
  BY <1>1, <1>2 DEF Table, Job
<1>5. \A p \in Pid : status'[p] \in JobState \cup {"none"}
  BY <1>1, <1>3 DEF Table, Job
<1>6. status = [p \in Pid |-> status[p]] /\ status' = [p \in Pid |-> status'[p]]
  BY DEF status
<1> QED  BY <1>2, <1>3, <1>4, <1>5, <1>6

(* Only four steps write to the list.                                      *)
LEMMA ListWriters ==
    ASSUME [Next]_vars
    PROVE  jobs' = jobs \/ EvalAddJob \/ BgFgSetState \/ ChldDelete \/ ChldMarkStopped
  BY DEF Next, vars, Main, EvalBlock, EvalFork, EvalForkFails, EvalBlockAll,
     EvalRestore, WaitFgReturns, BgFgLookup, BgFgReadPid, BgFgKill, BgFgWait,
     Quit, Handler, Deliver, sigquit_handler, ChldStep, ChldWaitDead,
     ChldWaitStopped, ChldReturn, IntStep, TstpStep, IntStart, TstpStart,
     ForwardStart, TstpLookup, IntKill, TstpKill, ForwardKill, ChildSetpgid,
     ChildExec, ChildExits, ChildKilled, ChildStops, UserSignals, Gone, tableVars

(* A step that changes what the list says of p alone.                      *)
LEMMA OnlyStatusOf ==
    ASSUME NEW p \in Pid, NEW a, NEW st,
           status \in [Pid -> JobState \cup {"none"}],
           status' \in [Pid -> JobState \cup {"none"}],
           \A q \in Pid : q # p => status'[q] = status[q],
           status[p] = a, status'[p] = st,
           \/ st = a
           \/ /\ a = "none" /\ st \in {"FG", "BG"}
              /\ st = "FG" => \A q \in Pid : status[q] # "FG"
           \/ a \in {"FG", "BG"} /\ st = "ST"
           \/ a \in {"ST", "BG"} /\ st = "FG" /\ \A q \in Pid : status[q] # "FG"
           \/ a = "ST" /\ st = "BG"
           \/ a # "none" /\ st = "none"
    PROVE  [JC!Next]_status
<1>1. status' = [status EXCEPT ![p] = st]
  OBVIOUS
<1>2. CASE st = a
  <2>1. status' = status
    BY <1>1, <1>2
  <2> QED  BY <2>1
<1>3. CASE /\ a = "none" /\ st \in {"FG", "BG"}
           /\ st = "FG" => \A q \in Pid : status[q] # "FG"
  BY <1>1, <1>3 DEF JC!Next, JC!Start, JC!NoForeground
<1>4. CASE a \in {"FG", "BG"} /\ st = "ST"
  BY <1>1, <1>4 DEF JC!Next, JC!Stop
<1>5. CASE a \in {"ST", "BG"} /\ st = "FG" /\ \A q \in Pid : status[q] # "FG"
  BY <1>1, <1>5 DEF JC!Next, JC!Foreground, JC!NoForeground
<1>6. CASE a = "ST" /\ st = "BG"
  BY <1>1, <1>6 DEF JC!Next, JC!Background
<1>7. CASE a # "none" /\ st = "none"
  BY <1>1, <1>7 DEF JC!Next, JC!Finish
<1> QED  BY <1>2, <1>3, <1>4, <1>5, <1>6, <1>7

LEMMA StepImplements ==
    ASSUME IInv, IInv', [Next]_vars
    PROVE  [JC!Next]_status
<1>0. /\ \A p \in Pid :
           /\ (\A i \in Slot : jobs[i].pid # p) => status[p] = "none"
           /\ \A i \in Slot : jobs[i].pid = p => status[p] = jobs[i].state
           /\ (\A i \in Slot : jobs'[i].pid # p) => status'[p] = "none"
           /\ \A i \in Slot : jobs'[i].pid = p => status'[p] = jobs'[i].state
      /\ status \in [Pid -> JobState \cup {"none"}]
      /\ status' \in [Pid -> JobState \cup {"none"}]
  BY StatusFacts
<1>1. /\ jobs \in Table /\ jobs' \in Table /\ NoPid \notin Pid
      /\ nextjid \in Nat \ {0}
      /\ \A i \in Slot : jobs[i].pid \in Pid \cup {NoPid}
      /\ \A i \in Slot : jobs[i].state \in JobState
      /\ \A i \in Slot : jobs[i].pid # NoPid => jobs[i].state # "UNDEF"
      /\ \A i, j \in Slot : jobs[i].pid = jobs[j].pid /\ jobs[i].pid # NoPid => i = j
  BY PidAssumption DEF IInv, TypeOK, ListedHasState, Table, Job, PidListedOnce
<1>2. CASE jobs' = jobs
  <2>1. status' = status
    BY <1>2 DEF status
  <2> QED  BY <2>1
<1>3. CASE EvalAddJob
  <2> DEFINE p == main.pid
             st == IF main.bg THEN "BG" ELSE "FG"
             job == [pid |-> p, jid |-> nextjid, state |-> st]
             r == addjob(jobs, nextjid, p, st)
  <2>1. /\ main.pc = "addjob" /\ p \in Pid /\ \A i \in Slot : jobs[i].pid # p
        /\ \A i \in Slot : jobs[i].state # "FG"
        /\ jobs' = r.jobs
        /\ st \in {"FG", "BG"} /\ st \in JobState
    BY <1>3 DEF EvalAddJob, MainRuns, IInv, CriticalInv, ForegroundWaits, JobState
  <2>2. \/ r.jobs = jobs
        \/ \E i \in Slot : jobs[i].pid = NoPid /\ r.jobs = [jobs EXCEPT ![i] = job]
    <3> HIDE DEF p, st
    <3> QED  BY <1>1, <2>1, AddjobEffect
  <2>3. CASE \E i \in Slot : jobs[i].pid = NoPid /\ jobs' = [jobs EXCEPT ![i] = job]
    <3>1. PICK i \in Slot : jobs[i].pid = NoPid /\ jobs' = [jobs EXCEPT ![i] = job]
      BY <2>3
    <3>2. jobs'[i] = job /\ \A j \in Slot : j # i => jobs'[j] = jobs[j]
      <4> HIDE DEF job
      <4> QED  BY <1>1, <3>1 DEF Table
    <3>3. jobs'[i].pid = p /\ jobs'[i].state = st
      BY <3>2
    <3> HIDE DEF p, st, job
    <3>4. status[p] = "none" /\ status'[p] = st
      BY <1>0, <2>1, <3>3
    <3>5. \A q \in Pid : q # p => status'[q] = status[q]
      <4> SUFFICES ASSUME NEW q \in Pid, q # p PROVE status'[q] = status[q]
        OBVIOUS
      <4>1. CASE \E j \in Slot : jobs[j].pid = q
        <5>1. PICK j \in Slot : jobs[j].pid = q
          BY <4>1
        <5>2. jobs'[j] = jobs[j]
          BY <1>1, <3>1, <3>2, <5>1
        <5> QED  BY <1>0, <5>1, <5>2
      <4>2. CASE \A j \in Slot : jobs[j].pid # q
        <5>1. \A j \in Slot : jobs'[j].pid # q
          BY <3>2, <3>3, <4>2
        <5> QED  BY <1>0, <4>2, <5>1
      <4> QED  BY <4>1, <4>2
    <3>6. \A q \in Pid : status[q] # "FG"
      BY <1>0, <2>1
    <3> QED  BY <1>0, <2>1, <3>4, <3>5, <3>6, OnlyStatusOf
  <2> QED  BY <1>2, <2>1, <2>2, <2>3
<1>4. CASE BgFgSetState \/ ChldMarkStopped
  <2>1. \/ jobs' = jobs
        \/ \E i \in Slot, st \in {"FG", "BG", "ST"} :
             /\ jobs' = setstate(jobs, i, st)
             /\ st # "ST" => \A j \in Slot : jobs[j].state # "FG"
    <3>1. CASE BgFgSetState
      BY <3>1 DEF BgFgSetState, MainRuns, IInv, PointerInv, ForegroundWaits
    <3>2. CASE ChldMarkStopped
      <4>1. hpid["CHLD"] \in Pid \cup {NoPid}
        BY DEF IInv, TypeOK, Handled
      <4> QED  BY <1>1, <3>2, <4>1, GetjobpidSlot DEF ChldMarkStopped
    <3> QED  BY <1>4, <3>1, <3>2
  <2>2. ASSUME NEW i \in Slot, NEW st \in {"FG", "BG", "ST"},
               jobs' = setstate(jobs, i, st),
               st # "ST" => \A j \in Slot : jobs[j].state # "FG"
        PROVE  [JC!Next]_status
    <3>1. /\ \A j \in Slot : jobs'[j].pid = jobs[j].pid
          /\ \A j \in Slot : j # i => jobs'[j].state = jobs[j].state
          /\ jobs'[i].state = st
      BY <1>1, <2>2 DEF setstate, Table, Job
    <3>2. \A q \in Pid : q # jobs[i].pid => status'[q] = status[q]
      <4> SUFFICES ASSUME NEW q \in Pid, q # jobs[i].pid PROVE status'[q] = status[q]
        OBVIOUS
      <4>1. CASE \E j \in Slot : jobs[j].pid = q
        BY <1>0, <3>1, <4>1
      <4>2. CASE \A j \in Slot : jobs[j].pid # q
        BY <1>0, <3>1, <4>2
      <4> QED  BY <4>1, <4>2
    <3>3. CASE jobs[i].pid = NoPid
      <4>1. \A q \in Pid : status'[q] = status[q]
        BY <1>1, <3>2, <3>3
      <4>2. status' = status
        BY <1>0, <4>1
      <4> QED  BY <4>2
    <3>4. CASE jobs[i].pid \in Pid
      <4> DEFINE p == jobs[i].pid
                 a == jobs[i].state
      <4>1. status[p] = a /\ status'[p] = st
        BY <1>0, <3>1, <3>4
      <4>2. a \in {"FG", "BG", "ST"}
        BY <1>1, <3>4 DEF JobState
      <4>3. st # "ST" => a # "FG" /\ \A q \in Pid : status[q] # "FG"
        BY <1>0, <2>2
      <4> HIDE DEF p, a
      <4> QED  BY <1>0, <2>2, <3>2, <3>4, <4>1, <4>2, <4>3, OnlyStatusOf DEF p
    <3> QED  BY <1>1, <3>3, <3>4
  <2> QED  BY <1>2, <2>1, <2>2
<1>5. CASE ChldDelete
  <2> DEFINE p == hpid["CHLD"]
             r == deletejob(jobs, nextjid, p)
  <2>1. jobs' = r.jobs /\ p \in Pid
    BY <1>5 DEF ChldDelete, HandlerRuns, IInv, ReaperInv
  <2>2. jobs' = jobs \/ \E i \in Slot : jobs[i].pid = p /\ jobs' = clearjob(jobs, i)
    <3>1. p \in Pid \cup {NoPid}
      BY <2>1
    <3> HIDE DEF p
    <3> QED  BY <1>1, <2>1, <3>1, DeletejobEffect
  <2>3. ASSUME NEW i \in Slot, jobs[i].pid = p, jobs' = clearjob(jobs, i)
        PROVE  [JC!Next]_status
    <3>1. /\ jobs'[i] = FreeJob /\ FreeJob.pid = NoPid
          /\ \A j \in Slot : j # i => jobs'[j] = jobs[j]
      BY <1>1, <2>3 DEF clearjob, FreeJob, Table
    <3> HIDE DEF p
    <3>2. status[p] # "none"
      BY <1>0, <1>1, <2>1, <2>3 DEF JobState
    <3>3. status'[p] = "none"
      BY <1>0, <1>1, <2>1, <2>3, <3>1
    <3>4. \A q \in Pid : q # p => status'[q] = status[q]
      <4> SUFFICES ASSUME NEW q \in Pid, q # p PROVE status'[q] = status[q]
        OBVIOUS
      <4>1. CASE \E j \in Slot : jobs[j].pid = q
        BY <1>0, <2>3, <3>1, <4>1
      <4>2. CASE \A j \in Slot : jobs[j].pid # q
        BY <1>0, <1>1, <3>1, <4>2
      <4> QED  BY <4>1, <4>2
    <3> QED  BY <1>0, <2>1, <3>2, <3>3, <3>4, OnlyStatusOf
  <2> QED  BY <1>2, <2>2, <2>3
<1> QED  BY <1>2, <1>3, <1>4, <1>5, ListWriters

(* What the list says of each process changes only by the transitions of   *)
(* job control (tsh.c lines 29-36), whatever the signals interrupt.        *)
THEOREM ShellImplementsJobControl == Spec => ImplementsJobControl
<1>1. Init => JC!Init
  <2> SUFFICES ASSUME Init PROVE status = [p \in Pid |-> "none"]
    BY DEF JC!Init
  <2>1. jobs \in Table /\ \A i \in Slot : jobs[i].pid = NoPid
    BY InitjobsType DEF Init, initjobs, FreeJob
  <2>2. \A p \in Pid : getjobpid(jobs, p) = NULL
    BY <2>1, GetjobpidOf
  <2> QED  BY <2>2 DEF status
<1>2. IInv /\ IInv' /\ [Next]_vars => [JC!Next]_status
  BY StepImplements
<1> QED  BY <1>1, <1>2, AlwaysIInv, PTL DEF Spec, ImplementsJobControl, JC!Spec

(***************************************************************************)
(* No child is lost, when the list has room for every process there can    *)
(* be: then addjob always finds a slot.                                    *)
(***************************************************************************)
RoomForAll == IsFiniteSet(Pid) /\ Cardinality(Pid) <= MAXJOBS

(* A list with room for every process has a free slot as long as some      *)
(* process is not in it, for no process is in it twice.                    *)
LEMMA SlotIsFree ==
    ASSUME RoomForAll, NEW table \in Table, NEW p \in Pid,
           \A i \in Slot : table[i].pid # p,
           \A i, j \in Slot : table[i].pid = table[j].pid /\ table[i].pid # NoPid
                                => i = j
    PROVE  \E i \in Slot : table[i].pid = NoPid
<1> SUFFICES ASSUME \A i \in Slot : table[i].pid # NoPid PROVE FALSE
  OBVIOUS
<1> DEFINE others == Pid \ {p}
           listed == [i \in Slot |-> table[i].pid]
<1>1. listed \in [Slot -> others]
  BY DEF Table, Job
<1>2. IsFiniteSet(Slot) /\ Cardinality(Slot) = MAXJOBS
  <2>1. MAXJOBS \in Nat /\ 1 \in Int
    BY MaxjobsAssumption
  <2>2. IsFiniteSet(1..MAXJOBS) /\ Cardinality(1..MAXJOBS) = MAXJOBS - 1 + 1
    BY <2>1, FS_Interval
  <2> QED  BY <2>1, <2>2 DEF Slot
<1>3. /\ IsFiniteSet(others) /\ Cardinality(others) = Cardinality(Pid) - 1
      /\ Cardinality(Pid) \in Nat
  BY FS_RemoveElement, FS_CardinalityType DEF RoomForAll
<1>4. Cardinality(others) < Cardinality(Slot)
  BY <1>2, <1>3, MaxjobsAssumption DEF RoomForAll
<1> HIDE DEF others, listed
<1>5. \E i, j \in Slot : i # j /\ listed[i] = listed[j]
  BY <1>1, <1>2, <1>3, <1>4, FS_PigeonHole
<1> QED  BY <1>5 DEF listed

LEMMA AddjobFinds ==
    ASSUME NEW table \in Table, NEW next, NEW p \in Pid, NEW st,
           \E i \in Slot : table[i].pid = NoPid
    PROVE  /\ freeslot(table) \in Slot /\ table[freeslot(table)].pid = NoPid
           /\ addjob(table, next, p, st).jobs =
                [table EXCEPT ![freeslot(table)] =
                   [pid |-> p, jid |-> next, state |-> st]]
<1> DEFINE i == freeslot(table)
<1>1. i \in Slot /\ table[i].pid = NoPid /\ i # NULL
  BY FirstOfSlot, NullIsNoSlot DEF freeslot
<1>2. addjob(table, next, p, st).jobs =
        [table EXCEPT ![i] = [pid |-> p, jid |-> next, state |-> st]]
  BY <1>1 DEF addjob
<1> QED  BY <1>1, <1>2

(* The child the SIGCHLD handler has waited for and not yet deleted is     *)
(* gone, and its pid is not given out again until the handler goes on.     *)
ReapedIsFree == hpc["CHLD"] = "reaped" => pst[hpid["CHLD"]] = "free"

LEMMA ReapedStaysFree ==
    ASSUME IInv, ReapedIsFree, [Next]_vars
    PROVE  ReapedIsFree'
<1> USE DEF ReapedIsFree
<1>0. hpc["CHLD"] = "reaped" => hpid["CHLD"] \in Pid
  BY DEF IInv, ReaperInv
<1>1. CASE EvalFork
  BY <1>1, NoHandler DEF EvalFork, MainRuns, IInv, handlerVars, Handled
<1>2. CASE ChldWaitDead
  BY <1>2 DEF ChldWaitDead, Continues, IInv, TypeOK, Handled
<1>3. CASE ChldStep /\ ~ChldWaitDead
  BY <1>3 DEF ChldStep, ChldWaitStopped, ChldReturn, ChldDelete, ChldMarkStopped,
     Continues, Returns, IInv, TypeOK, Handled
<1>4. CASE \E s \in Handled : Deliver(s)
  BY <1>4, <1>0 DEF Deliver, procVars, IInv, TypeOK, Handled
<1>5. CASE IntStep \/ TstpStep
  BY <1>5, <1>0 DEF IntStep, TstpStep, IntStart, TstpStart, ForwardStart, TstpLookup,
     IntKill, TstpKill, ForwardKill, ReceiveINT, ReceiveTSTP, Ends, Stops, NoEffect,
     unix_error, Continues, Returns, procVars, handlerVars, IInv, TypeOK, Handled
<1>6. CASE BgFgKill
  BY <1>6, <1>0 DEF BgFgKill, ReceiveCONT, Ends, Resumes, NoEffect, unix_error,
     procVars, handlerVars, IInv, TypeOK, Handled
<1>7. CASE \E p \in Pid : \/ ChildSetpgid(p) \/ ChildExec(p) \/ ChildExits(p)
                          \/ ChildKilled(p) \/ ChildStops(p)
  BY <1>7, <1>0 DEF ChildSetpgid, ChildExec, ChildExits, ChildKilled, ChildStops, Ends,
     Stops, handlerVars, IInv, TypeOK, Handled
<1>8. CASE UNCHANGED <<hpc, hpid, pst>>
  BY <1>8
<1>9. Main => EvalFork \/ BgFgKill \/ UNCHANGED <<hpc, hpid, pst>>
  BY DEF Main, EvalBlock, EvalForkFails, EvalBlockAll, EvalAddJob, EvalRestore,
     WaitFgReturns, BgFgLookup, BgFgReadPid, BgFgSetState, BgFgWait, Quit, unix_error,
     NoEffect, procVars, handlerVars
<1>10. sigquit_handler => UNCHANGED <<hpc, hpid, pst>>
  BY DEF sigquit_handler, procVars, handlerVars
<1>11. (\E s \in Keys \ {"QUIT"} : UserSignals(s)) => UNCHANGED <<hpc, hpid, pst>>
  BY DEF UserSignals, procVars, handlerVars
<1>12. (Gone \/ UNCHANGED vars) => UNCHANGED <<hpc, hpid, pst>>
  BY DEF Gone, vars
<1> QED
  BY <1>1, <1>2, <1>3, <1>4, <1>5, <1>6, <1>7, <1>8, <1>9, <1>10, <1>11, <1>12
     DEF Next, Handler

(* What a step does to one process: only EvalFork makes one, and what the  *)
(* main loop then holds stays until addjob.                                *)
LEMMA ForkIsTheOnlySource ==
    ASSUME IInv, [Next]_vars, NEW p \in Pid, pst'[p] # "free"
    PROVE  \/ pst[p] # "free"
           \/ main'.pc = "blockall" /\ main'.pid = p
<1> USE DEF IInv, TypeOK
<1>1. CASE EvalFork
  BY <1>1 DEF EvalFork
<1>2. CASE Main /\ ~EvalFork
  BY <1>2 DEF Main, EvalBlock, EvalForkFails, EvalBlockAll, EvalAddJob, EvalRestore,
     WaitFgReturns, BgFgLookup, BgFgReadPid, BgFgKill, BgFgSetState, BgFgWait, Quit,
     ReceiveCONT, Ends, Resumes, NoEffect, unix_error, procVars
<1>3. CASE ChldStep
  BY <1>3 DEF ChldStep, ChldWaitDead, ChldWaitStopped, ChldReturn, ChldDelete,
     ChldMarkStopped, procVars
<1>4. CASE IntStep \/ TstpStep
  BY <1>4 DEF IntStep, TstpStep, IntStart, TstpStart, ForwardStart, TstpLookup, IntKill,
     TstpKill, ForwardKill, ReceiveINT, ReceiveTSTP, Ends, Stops, NoEffect, unix_error,
     procVars
<1>5. CASE \E q \in Pid : \/ ChildSetpgid(q) \/ ChildExec(q) \/ ChildExits(q)
                          \/ ChildKilled(q) \/ ChildStops(q)
  BY <1>5 DEF ChildSetpgid, ChildExec, ChildExits, ChildKilled, ChildStops, Ends, Stops
<1>6. CASE UNCHANGED pst
  BY <1>6
<1> QED
  BY <1>1, <1>2, <1>3, <1>4, <1>5, <1>6 DEF Next, vars, Handler, Deliver,
     sigquit_handler, UserSignals, Gone, procVars

LEMMA MainPastFork ==
    ASSUME IInv, [Next]_vars, main.pc \in {"blockall", "addjob"}
    PROVE  main' = main \/ (main'.pc = "addjob" /\ main'.pid = main.pid) \/ EvalAddJob
<1>1. CASE EvalBlockAll
  BY <1>1 DEF EvalBlockAll, Goto, IInv, TypeOK
<1>2. CASE Main /\ ~EvalBlockAll
  BY <1>2 DEF Main, MainRuns, EvalBlock, EvalFork, EvalForkFails, EvalRestore,
     WaitFgReturns, BgFgLookup, BgFgReadPid, BgFgKill, BgFgSetState, BgFgWait, Quit
<1>3. CASE Handler
  BY <1>3 DEF Handler, Deliver, sigquit_handler, ChldStep, ChldWaitDead,
     ChldWaitStopped, ChldReturn, ChldDelete, ChldMarkStopped, IntStep, TstpStep,
     IntStart, TstpStart, ForwardStart, TstpLookup, IntKill, TstpKill, ForwardKill
<1>4. CASE \/ \E p \in Pid : \/ ChildSetpgid(p) \/ ChildExec(p) \/ ChildExits(p)
                             \/ ChildKilled(p) \/ ChildStops(p)
           \/ \E s \in Keys \ {"QUIT"} : UserSignals(s)
           \/ Gone \/ UNCHANGED vars
  BY <1>4 DEF ChildSetpgid, ChildExec, ChildExits, ChildKilled, ChildStops, UserSignals,
     Gone, vars
<1> QED  BY <1>1, <1>2, <1>3, <1>4 DEF Next

LEMMA StaysListed ==
    ASSUME RoomForAll, IInv, ReapedIsFree, EveryChildListed, [Next]_vars
    PROVE  EveryChildListed'
<1> SUFFICES ASSUME NEW p \in Pid, pst'[p] # "free"
             PROVE  \/ \E i \in Slot : jobs'[i].pid = p
                    \/ main'.pc \in {"blockall", "addjob"} /\ main'.pid = p
  BY DEF EveryChildListed
<1>1. /\ jobs \in Table /\ NoPid \notin Pid
      /\ \A i, j \in Slot : jobs[i].pid = jobs[j].pid /\ jobs[i].pid # NoPid => i = j
  BY DEF IInv, TypeOK, PidListedOnce
<1>2. CASE pst[p] = "free"
  BY <1>2, ForkIsTheOnlySource
<1>3. CASE pst[p] # "free" /\ EvalAddJob
  <2> DEFINE st == IF main.bg THEN "BG" ELSE "FG"
             new == [pid |-> main.pid, jid |-> nextjid, state |-> st]
  <2>1. /\ main.pid \in Pid /\ \A i \in Slot : jobs[i].pid # main.pid
        /\ jobs' = addjob(jobs, nextjid, main.pid, st).jobs
    BY <1>3 DEF EvalAddJob, MainRuns, IInv, CriticalInv
  <2>2. \E i \in Slot : jobs[i].pid = NoPid
    BY <1>1, <2>1, SlotIsFree
  <2> DEFINE i == freeslot(jobs)
  <2>3. i \in Slot /\ jobs[i].pid = NoPid /\ jobs' = [jobs EXCEPT ![i] = new]
    BY <1>1, <2>1, <2>2, AddjobFinds
  <2> HIDE DEF i
  <2>4. jobs'[i] = new /\ \A j \in Slot : j # i => jobs'[j] = jobs[j]
    <3> HIDE DEF new
    <3> QED  BY <1>1, <2>3 DEF Table
  <2>5. jobs'[i].pid = main.pid
    BY <2>4
  <2>6. CASE main.pid = p
    BY <2>3, <2>5, <2>6
  <2>7. CASE main.pid # p
    <3>1. PICK j \in Slot : jobs[j].pid = p
      BY <1>3, <2>7 DEF EveryChildListed
    <3>2. jobs'[j].pid = p
      BY <1>1, <2>3, <2>4, <3>1
    <3> QED  BY <3>2
  <2> QED  BY <2>6, <2>7
<1>4. CASE pst[p] # "free" /\ ~EvalAddJob
  <2>1. CASE main.pc \in {"blockall", "addjob"} /\ main.pid = p
    BY <1>4, <2>1, MainPastFork
  <2>2. CASE \E i \in Slot : jobs[i].pid = p
    <3>1. PICK i \in Slot : jobs[i].pid = p
      BY <2>2
    <3>2. CASE jobs' = jobs
      BY <3>1, <3>2
    <3>3. CASE BgFgSetState \/ ChldMarkStopped
      <4>1. \/ jobs' = jobs
            \/ \E k \in Slot, st \in {"FG", "BG", "ST"} : jobs' = setstate(jobs, k, st)
        <5>1. CASE BgFgSetState
          BY <5>1 DEF BgFgSetState, MainRuns, IInv, PointerInv
        <5>2. CASE ChldMarkStopped
          <6>1. hpid["CHLD"] \in Pid \cup {NoPid}
            BY DEF IInv, TypeOK, Handled
          <6> QED  BY <1>1, <5>2, <6>1, GetjobpidSlot DEF ChldMarkStopped
        <5> QED  BY <3>3, <5>1, <5>2
      <4> QED  BY <1>1, <3>1, <4>1 DEF setstate, Table, Job
    <3>4. CASE ChldDelete
      <4>1. /\ hpc["CHLD"] = "reaped" /\ hpid["CHLD"] \in Pid
            /\ pst[hpid["CHLD"]] = "free" /\ hpid["CHLD"] # p
            /\ nextjid \in Nat \ {0}
        BY <1>4, <3>4 DEF ChldDelete, HandlerRuns, IInv, TypeOK, ReaperInv, ReapedIsFree
      <4>2. \/ jobs' = jobs
            \/ \E k \in Slot : jobs[k].pid = hpid["CHLD"] /\ jobs' = clearjob(jobs, k)
        BY <1>1, <3>4, <4>1, DeletejobEffect DEF ChldDelete
      <4> QED  BY <1>1, <3>1, <4>1, <4>2 DEF clearjob, Table
    <3> QED  BY <1>4, <3>2, <3>3, <3>4, ListWriters
  <2> QED  BY <1>4, <2>1, <2>2 DEF EveryChildListed
<1> QED  BY <1>2, <1>3, <1>4

(* With room in the list for every process there can be, no child is lost: *)
(* from addjob until it is reaped it is listed, whatever the signals       *)
(* interrupt (lines 203-219, 427-444).                                     *)
THEOREM NoChildIsLost ==
    ASSUME RoomForAll
    PROVE  Spec => []EveryChildListed
<1>1. Init => ReapedIsFree /\ EveryChildListed
  BY DEF Init, ReapedIsFree, EveryChildListed, Handled
<1>2. RoomForAll /\ IInv /\ ReapedIsFree /\ EveryChildListed /\ [Next]_vars
        => (ReapedIsFree /\ EveryChildListed)'
  BY ReapedStaysFree, StaysListed
<1>3. RoomForAll
  OBVIOUS
<1> QED
  <2>1. IInv /\ ReapedIsFree /\ EveryChildListed /\ [Next]_vars
          => (ReapedIsFree /\ EveryChildListed)'
    BY <1>2, <1>3
  <2> QED  BY <1>1, <2>1, AlwaysIInv, PTL DEF Spec
=============================================================================
