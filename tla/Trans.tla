-------------------------------- MODULE Trans --------------------------------
(***************************************************************************)
(* The transpose functions of lab8/trans.c as sequences of accesses.       *)
(*                                                                         *)
(* A function runs row after row: a row is one turn of an innermost loop   *)
(* in transpose_submit and trans2, of the outer loop in trans.  A row is   *)
(* the sequence of its loads and stores, in the program's order and        *)
(* through the local variables t1 to t8 of the program; variable 0 stands  *)
(* for the register an assignment goes through, or for tmp.                *)
(***************************************************************************)
EXTENDS Naturals, Sequences, SequencesExt

Access(op, array, i, j, v) == [op |-> op, array |-> array, i |-> i, j |-> j, v |-> v]

Load(v, i, j) == Access("L", "A", i, j, v)    \* tv = A[i][j]
Reload(v, i, j) == Access("L", "B", i, j, v)  \* tv = B[i][j]
Store(i, j, v) == Access("S", "B", i, j, v)   \* B[i][j] = tv
Note(i) == Access("note", "-", i, i, 2)       \* t2 = i
StoreNoted == Access("S", "B at t2", 0, 0, 1) \* B[t2][t2] = t1

Ceiling(a, b) == (a + b - 1) \div b

(* The block and the step in it that row n is, when the matrix is cut into *)
(* square blocks that are gone through row by row.                         *)
At(n, size, columns, steps) ==
    LET block == n \div steps
    IN  [row |-> size * (block \div Ceiling(columns, size)),
         col |-> size * (block % Ceiling(columns, size)),
         step |-> n % steps]

(***************************************************************************)
(* 32 x 32 and 61 x 67: element by element; the one on the diagonal, whose *)
(* row of B the row of A would push out of the cache, waits to the end.    *)
(***************************************************************************)
(* Mutant of Direct: the element on the diagonal does not wait.            *)
DirectAtOnce(i, from, to, diagonal) ==
    FlattenSeq([k \in 1 .. to - from |->
        <<Load(0, i, from + k - 1), Store(from + k - 1, i, 0)>>])

Direct(i, from, to, diagonal) ==
    FlattenSeq([k \in 1 .. to - from |->
        LET j == from + k - 1
        IN  IF i # j THEN <<Load(0, i, j), Store(j, i, 0)>>
                     ELSE <<Load(1, i, j), Note(i)>>])
    \o IF diagonal THEN <<StoreNoted>> ELSE <<>>

Least(a, b) == IF a < b THEN a ELSE b

Row32(n) ==
    LET at == At(n, 8, 32, 8)
    IN  Direct(at.row + at.step, at.col, at.col + 8, at.row = at.col)

Row61(M, N, n) ==
    LET at == At(n, 16, M, 16)
        i == at.row + at.step
    IN  IF i < N
        THEN Direct(i, at.col, Least(at.col + 16, M), at.row = at.col)
        ELSE <<>>

(***************************************************************************)
(* 64 x 64 and trans2: a block of 8 x 8 in ten steps.  The upper right     *)
(* quarter of A waits, transposed, in the upper right quarter of B.        *)
(***************************************************************************)
(* Mutant of Upper: nothing waits, all is stored where it belongs.         *)
UpperAtOnce(i, j) ==
    [k \in 1 .. 8 |-> Load(k, i, j + k - 1)] \o [k \in 1 .. 8 |-> Store(j + k - 1, i, k)]

Upper(i, j) ==
    [k \in 1 .. 8 |-> Load(k, i, j + k - 1)]
    \o [k \in 1 .. 4 |-> Store(j + k - 1, i, k)]
    \o [k \in 1 .. 4 |-> Store(j + k - 1, i + 4, k + 4)]

LowerLeft(i, j) ==
    [k \in 1 .. 4 |-> Load(k, i + 3 + k, j)]
    \o [k \in 1 .. 4 |-> Reload(k + 4, j, i + 3 + k)]
    \o [k \in 1 .. 4 |-> Store(j, i + 3 + k, k)]
    \o [k \in 1 .. 4 |-> Store(j + 4, i + k - 1, k + 4)]

LowerRight(i, j) ==
    [k \in 1 .. 4 |-> Load(k, i, j + k - 1)]
    \o [k \in 1 .. 4 |-> Load(k + 4, i + 1, j + k - 1)]
    \o [k \in 1 .. 4 |-> Store(j + k - 1, i, k)]
    \o [k \in 1 .. 4 |-> Store(j + k - 1, i + 1, k + 4)]

Row64(M, n) ==
    LET at == At(n, 8, M, 10)
    IN  IF at.step < 4 THEN Upper(at.row + at.step, at.col)
        ELSE IF at.step < 8 THEN LowerLeft(at.row, at.col + at.step - 4)
        ELSE LowerRight(at.row + 4 + 2 * (at.step - 8), at.col + 4)

Rows64(M, N) == 10 * Ceiling(M, 8) * Ceiling(N, 8)

(***************************************************************************)
(* The functions that registerFunctions lists, by their place in the list: *)
(* how many rows each has, and its row n.                                  *)
(***************************************************************************)
transpose_submit == 0
trans == 1
trans2 == 2
registerFunctions == {transpose_submit, trans, trans2}

Rows(f, M, N) ==
    CASE f = trans -> N
      [] f = trans2 -> Rows64(M, N)
      [] f = transpose_submit /\ M = 32 -> 8 * 16
      [] f = transpose_submit /\ M = 64 -> Rows64(M, N)
      [] f = transpose_submit /\ M = 61 -> 16 * Ceiling(M, 16) * Ceiling(N, 16)
      [] OTHER -> 0

Row(f, M, N, n) ==
    CASE f = trans ->
            FlattenSeq([j \in 1 .. M |-> <<Load(0, n, j - 1), Store(j - 1, n, 0)>>])
      [] f = trans2 \/ M = 64 -> Row64(M, n)
      [] M = 32 -> Row32(n)
      [] M = 61 -> Row61(M, N, n)
=============================================================================
