------------------------------ MODULE TestTrans ------------------------------
(***************************************************************************)
(* lab8/test-trans.c and tracegen.c: every transpose function of trans.c   *)
(* is run on matrices of one size, its result is validated, and the        *)
(* accesses it made to memory are run through the cache simulator          *)
(* (CacheSim with s = 5, E = 1, b = 5), whose misses are the score.        *)
(*                                                                         *)
(* A step is one access, seen by the simulator as it is made: the file     *)
(* that carries the trace from tracegen to the simulator is left out.  So  *)
(* are the accesses to the stack, which test-trans filters out.            *)
(***************************************************************************)
EXTENDS Trans

CONSTANTS
    Size,       \* the sizes, records of M and N
    MAX_TRACE   \* more than the accesses of any function

VARIABLES
    dim,        \* M and N
    fn, phase,  \* the function, and how far tracegen is with it
    row, todo,  \* its next row, and the accesses left of the last one
    t, B,       \* its local variables and the matrix it writes
    results,    \* func_list: what test-trans has noted of each function
    cache, hits, misses, evicts, line, read, overrun  \* of the simulator

cacheVars == <<cache, hits, misses, evicts, line, read, overrun>>
vars == <<dim, fn, phase, row, todo, t, B, results, cacheVars>>

Csim == INSTANCE CacheSim WITH
    set_num <- 32, lines_per_set <- 1, block_size <- 32,
    Address <- Nat, TRACE_LENGTH <- MAX_TRACE

M == dim.M
N == dim.N

(* The static variables of tracegen one after the other: A, B, M and N,    *)
(* the markers, func_list.  The arrays are 256 * 256 ints.                 *)
Base == [A |-> 128, B |-> 128 + 262144, globals |-> 128 + 2 * 262144]
Global(op, offset) == Access(op, "globals", 0, offset, 0)
MARKER_START == 12
MARKER_END == 13
func_list(f) == 32 + 32 * f

(* initMatrix: the elements of A are all different, and none is what B     *)
(* holds before; the rest of the static array is 0.                        *)
Fill == 0
A(k) == IF k <= M * N THEN k ELSE 0

(* The words of an array are counted from 1, row after row of the shape    *)
(* the function gives it.  trans2 goes through whole blocks of 8 x 8: in   *)
(* another size it leaves the matrix, never the static array.              *)
Flat(a) ==
    CASE a.array = "A" -> a.i * M + a.j + 1
      [] a.array = "B" -> a.i * N + a.j + 1
      [] a.array = "B at t2" -> t[2] * N + t[2] + 1
Words == 1 .. (8 * Ceiling(M, 8) - 1) * N + 8 * Ceiling(N, 8)
AddressOf(a) ==
    CASE a.array = "globals" -> Base.globals + a.j
      [] a.array = "A" -> Base.A + 4 * (Flat(a) - 1)
      [] OTHER -> Base.B + 4 * (Flat(a) - 1)

Simulated(a) == Csim!cache_sim([op |-> a.op, address |-> AddressOf(a)])

NotRun == [correct |-> FALSE, num_hits |-> 0, num_misses |-> 0, num_evictions |-> 0]

ColdCache == [s \in Csim!Sets |-> [l \in Csim!Ways |-> Csim!EmptyLine]]

Init ==
    /\ dim \in Size
    /\ fn = 0 /\ phase = "start"
    /\ row = 0 /\ todo = <<>>
    /\ t = [v \in 0 .. 8 |-> 0]
    /\ B = [k \in Words |-> Fill]
    /\ results = [f \in registerFunctions |-> NotRun]
    /\ cache = ColdCache
    /\ hits = 0 /\ misses = 0 /\ evicts = 0
    /\ line = [op |-> "L", address |-> 0]
    /\ read = 0 /\ overrun = FALSE

(* tracegen -F fn and the simulator, both started afresh.                  *)
Tracegen ==
    /\ phase = "start" /\ fn \in registerFunctions
    /\ phase' = "runs"
    /\ row' = 0
    /\ todo' = <<Global("S", MARKER_START), Global("L", func_list(fn)),
                 Global("L", 4), Global("L", 0)>>
    /\ t' = [v \in 0 .. 8 |-> 0]
    /\ B' = [k \in Words |-> Fill]
    /\ cache' = ColdCache
    /\ hits' = 0 /\ misses' = 0 /\ evicts' = 0 /\ read' = 0
    /\ UNCHANGED <<dim, fn, results, line, overrun>>

NextRow ==
    /\ phase = "runs" /\ todo = <<>>
    /\ row < Rows(fn, M, N)
    /\ todo' = Row(fn, M, N, row)
    /\ row' = row + 1
    /\ UNCHANGED <<dim, fn, phase, t, B, results, cacheVars>>

Returns ==
    /\ phase = "runs" /\ todo = <<>>
    /\ row = Rows(fn, M, N)
    /\ phase' = "returned"
    /\ todo' = <<Global("S", MARKER_END)>>
    /\ UNCHANGED <<dim, fn, row, t, B, results, cacheVars>>

(***************************************************************************)
(* The accesses.                                                           *)
(***************************************************************************)
Loads(a) ==
    /\ a.op = "L" /\ a.array # "globals"
    /\ t' = [t EXCEPT ![a.v] = IF a.array = "A" THEN A(Flat(a)) ELSE B[Flat(a)]]
    /\ Simulated(a)
    /\ UNCHANGED B

Stores(a) ==
    /\ a.op = "S" /\ a.array # "globals"
    /\ B' = [B EXCEPT ![Flat(a)] = t[a.v]]
    /\ Simulated(a)
    /\ UNCHANGED t

Notes(a) ==
    /\ a.op = "note"
    /\ t' = [t EXCEPT ![a.v] = a.i]
    /\ UNCHANGED <<B, cacheVars>>

AccessesGlobal(a) ==
    /\ a.array = "globals"
    /\ Simulated(a)
    /\ UNCHANGED <<t, B>>

Accesses ==
    /\ todo # <<>>
    /\ todo' = Tail(todo)
    /\ Loads(Head(todo)) \/ Stores(Head(todo))
       \/ Notes(Head(todo)) \/ AccessesGlobal(Head(todo))
    /\ UNCHANGED <<dim, fn, phase, row, results>>

(***************************************************************************)
(* validate compares B with the result of correctTrans.                    *)
(***************************************************************************)
correctTrans(j, i) == A(i * M + j + 1)
validate == \A j \in 0 .. M - 1, i \in 0 .. N - 1 : B[j * N + i + 1] = correctTrans(j, i)

Validates ==
    /\ phase = "returned" /\ todo = <<>>
    /\ phase' = "start" /\ fn' = fn + 1
    /\ results' = IF validate
                  THEN [results EXCEPT ![fn] =
                            [correct |-> TRUE, num_hits |-> hits,
                             num_misses |-> misses, num_evictions |-> evicts]]
                  ELSE results
    /\ UNCHANGED <<dim, row, todo, t, B, cacheVars>>

Next == Tracegen \/ NextRow \/ Returns \/ Accesses \/ Validates

Spec == Init /\ [][Next]_vars
(***************************************************************************)
(* Properties.                                                             *)
(***************************************************************************)
Graded == {[M |-> 32, N |-> 32], [M |-> 64, N |-> 64], [M |-> 61, N |-> 67]}

(* The sizes that are run: these, and one transpose_submit is not for.     *)
Sizes == Graded \cup {[M |-> 16, N |-> 24]}

(* The sizes each function is written for.                                 *)
MeantFor(f) ==
    CASE f = transpose_submit -> dim \in Graded
      [] f = trans -> TRUE
      [] f = trans2 -> M % 8 = 0 /\ N % 8 = 0

(* What driver.py gives its full score for: a function passes validation   *)
(* at the sizes it is written for, among them 61 x 67, where the blocks at *)
(* the edges are cut short and the last rows of a block on the diagonal    *)
(* store an element of an earlier row once more; and the submission makes  *)
(* no more misses than this on the cache of eval_perf.                     *)
FullMarks == CASE M = 32 -> 300 [] M = 64 -> 1300 [] M = 61 -> 2000
SubmissionGetsFullScore ==
    /\ \A f \in registerFunctions : f < fn /\ MeantFor(f) => results[f].correct
    /\ fn > transpose_submit /\ dim \in Graded =>
            results[transpose_submit].num_misses <= FullMarks

(* Whatever waits in B for its turn waits where nothing final is: at its   *)
(* sizes a function stores inside the matrix only, and never something     *)
(* else over an element that is already right.                             *)
Right(b, k) == b[k] = correctTrans((k - 1) \div N, (k - 1) % N)
KeepsWhatIsRight ==
    [][todo # <<>> /\ Head(todo).op = "S" /\ Head(todo).array # "globals" /\ MeantFor(fn) =>
        LET k == Flat(Head(todo))
        IN  k <= M * N /\ (Right(B, k) => Right(B', k))]_vars
=============================================================================
