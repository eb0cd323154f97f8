------------------------------- MODULE Driver -------------------------------
(***************************************************************************)
(* lab7/mdriver.c: it reads a trace, checks the allocator on it            *)
(* (eval_mm_valid) and, when that finds no error, runs the same trace      *)
(* again on the same memory for the utilization (eval_mm_util) and for the *)
(* time (eval_mm_speed).  A request of a trace is one step.  The allocator *)
(* is one of lab7's, or "any": one that answers with any pointer, for what *)
(* the checks themselves are worth.  Addresses are counted in words.       *)
(***************************************************************************)
EXTENDS Allocators, FiniteSets, SequencesExt

CONSTANTS
    Sizes,      \* the sizes in the traces, in bytes, whole words
    Files,      \* the allocators
    Pointers,   \* what the allocator "any" may answer, NULL among them
    MAX_OPS,    \* per trace, how long it may be
    NUM_TRACES  \* num_tracefiles

\* add_range asserts that a size is not 0.
ASSUME DriverAssumption ==
    /\ IsFiniteSet(Id)
    /\ Sizes \subseteq {n \in Nat \ {0} : n % WSIZE = 0}
    /\ Pointers \subseteq Int

VARIABLES
    phase,      \* which function runs
    tracenum,   \* how many traces have been read
    trace,      \* trace->ops
    i,          \* the next request
    heap,       \* the allocator's
    blocks, block_sizes,    \* trace->blocks, trace->block_sizes
    ranges,     \* the range list
    errors,     \* how many errors malloc_error has counted
    total_size, max_total_size, \* eval_mm_util's
    returned    \* what the calls of eval_mm_valid have returned (history)

driverVars == <<phase, tracenum, trace, i>>
blockVars == <<blocks, block_sizes, ranges, errors>>
utilVars == <<total_size, max_total_size>>
vars == <<driverVars, heap, blockVars, utilVars, returned>>

Op == [type : {"ALLOC", "REALLOC"}, index : Id, size : Sizes]
      \cup [type : {"FREE"}, index : Id, size : {0}]
op == trace[i]
More == i <= Len(trace)

Init ==
    /\ phase = "read_trace" /\ tracenum = 1
    /\ trace = <<>> /\ i = 1
    /\ heap \in {mem_init(file) : file \in Files}
    /\ blocks = [id \in Id |-> NULL] /\ block_sizes = [id \in Id |-> 0]
    /\ ranges = <<>> /\ errors = 0
    /\ total_size = 0 /\ max_total_size = 0
    /\ returned = <<>>

(***************************************************************************)
(* Reading.                                                                *)
(***************************************************************************)
Mentioned(id) == \E n \in DOMAIN trace : trace[n].index = id
Freed(id) == \E n \in DOMAIN trace : trace[n].index = id /\ trace[n].type = "FREE"

(* The traces: an id is allocated once, reallocated while it is there, and *)
(* freed at most once.                                                     *)
Sensible(o) == IF o.type = "ALLOC" THEN ~Mentioned(o.index)
               ELSE Mentioned(o.index) /\ ~Freed(o.index)

ReadLine ==
    /\ phase = "read_trace" /\ Len(trace) < MAX_OPS[tracenum]
    /\ \E o \in Op : Sensible(o) /\ trace' = Append(trace, o)
    /\ UNCHANGED <<phase, tracenum, i, heap, blockVars, utilVars, returned>>

(* Mutant of Fresh: the heap goes on where it is.                          *)
FreshNot(h) == IF h.file = "any" THEN [h EXCEPT !.brk = MAX_HEAP] ELSE mm_init(h)

(* Each of the three functions starts with mem_reset_brk and mm_init, for  *)
(* which the heap is large enough.                                         *)
Fresh(h) ==
    IF h.file = "any" THEN [h EXCEPT !.brk = MAX_HEAP] ELSE mm_init(mem_reset_brk(h))

Begin(next) == phase' = next /\ i' = 1

clear_ranges == ranges' = <<>>

ReadEnds ==
    /\ phase = "read_trace" /\ trace # <<>>
    /\ Begin("eval_mm_valid")
    /\ clear_ranges
    /\ UNCHANGED <<tracenum, trace, blocks, block_sizes, errors, utilVars, returned>>

(***************************************************************************)
(* The calls.                                                              *)
(***************************************************************************)
(* What the allocator may answer; "any" repeats itself or fails when the   *)
(* trace is run again.                                                     *)
Answers(h, o, ptr) ==
    IF h.file = "any" /\ phase # "eval_mm_valid"
    THEN {Result(h, returned[i]), Result(h, NULL)}
    ELSE IF h.file = "any"
    THEN {Result(h, p) : p \in Pointers}
         \cup (IF o.type = "ALLOC" THEN {}
               ELSE {Result(memcpy(h, p, ptr, block_sizes[o.index]), p) : p \in Pointers \ {NULL}})
    ELSE {IF o.type = "ALLOC" THEN mm_malloc(h, o.size) ELSE mm_realloc(h, ptr, o.size)}

freed(h, ptr) == IF h.file = "any" THEN h ELSE mm_free(h, ptr)

old == blocks[op.index]
Asks == op.type # "FREE" /\ Suits(heap, IF op.type = "ALLOC" THEN NULL ELSE old, op.size)
Remember(p) ==
    /\ blocks' = [blocks EXCEPT ![op.index] = p]
    /\ block_sizes' = [block_sizes EXCEPT ![op.index] = op.size]

(***************************************************************************)
(* eval_mm_valid.                                                          *)
(***************************************************************************)
hi(lo, size) == lo + size \div WSIZE - 1
Aligned(p) == p % 2 = 0
InHeap(h, p) == 0 <= p /\ p < h.brk
Within(p, r) == r.lo <= p /\ p <= r.hi

(* Mutant of add_range: the end of the block is not looked at.             *)
add_rangeLow(h, list, lo, size) ==
    /\ Aligned(lo) /\ InHeap(h, lo) /\ InHeap(h, hi(lo, size))
    /\ \A n \in DOMAIN list : ~Within(lo, list[n])

(* Whether add_range finds nothing wrong with a block.                     *)
add_range(h, list, lo, size) ==
    /\ Aligned(lo) /\ InHeap(h, lo) /\ InHeap(h, hi(lo, size))
    /\ \A n \in DOMAIN list : ~Within(lo, list[n]) /\ ~Within(hi(lo, size), list[n])

Added(list, lo, size) == <<[lo |-> lo, hi |-> hi(lo, size)]>> \o list

(* Mutant of remove_range: nothing is removed.                             *)
remove_rangeNot(list, lo) == list

remove_range(list, lo) ==
    LET found == {n \in DOMAIN list : list[n].lo = lo}
    IN  IF found = {} THEN list
        ELSE RemoveAt(list, CHOOSE n \in found : \A m \in found : n <= m)

(* The words of the old block are in the new one.                          *)
Preserved(h, p, size) ==
    LET oldsize == block_sizes[op.index]
    IN  \A w \in Payload(p, IF size < oldsize THEN size ELSE oldsize) :
            h.mem[w] = Data(op.index)

malloc_error ==
    /\ errors' = errors + 1
    /\ phase' = "free_trace"
    /\ UNCHANGED <<tracenum, trace, i, blocks, block_sizes, utilVars, returned>>

Checked == IF op.type = "ALLOC" THEN ranges ELSE remove_range(ranges, old)

(* mm_malloc or mm_realloc returns a block that passes, and is filled.     *)
ValidGets(r) ==
    /\ phase = "eval_mm_valid"
    /\ r.bp # NULL
    /\ add_range(r.heap, Checked, r.bp, op.size)
    /\ op.type = "REALLOC" => Preserved(r.heap, r.bp, op.size)
    /\ ranges' = Added(Checked, r.bp, op.size)
    /\ heap' = memset(r.heap, r.bp, op.index, op.size)
    /\ Remember(r.bp)
    /\ returned' = Append(returned, r.bp)
    /\ i' = i + 1
    /\ UNCHANGED <<phase, tracenum, trace, errors, utilVars>>

(* It returns NULL, or a block with something wrong.                       *)
ValidFails(r) ==
    /\ phase = "eval_mm_valid"
    /\ heap' = r.heap
    /\ \/ r.bp = NULL /\ UNCHANGED ranges
       \/ r.bp # NULL /\ ~add_range(r.heap, Checked, r.bp, op.size) /\ ranges' = Checked
       \/ /\ r.bp # NULL /\ add_range(r.heap, Checked, r.bp, op.size)
          /\ op.type = "REALLOC" /\ ~Preserved(r.heap, r.bp, op.size)
          /\ ranges' = Added(Checked, r.bp, op.size)
    /\ malloc_error

ValidFrees ==
    /\ phase = "eval_mm_valid"
    /\ ranges' = remove_range(ranges, old)
    /\ returned' = Append(returned, NULL)
    /\ i' = i + 1
    /\ UNCHANGED <<phase, tracenum, trace, blocks, block_sizes, errors, utilVars>>

ValidEnds ==
    /\ phase = "eval_mm_valid" /\ ~More
    /\ Begin("eval_mm_util")
    /\ total_size' = 0 /\ max_total_size' = 0
    /\ UNCHANGED <<tracenum, trace, blockVars, returned>>

(***************************************************************************)
(* eval_mm_util and eval_mm_speed.                                         *)
(***************************************************************************)

(* Mutant of Grows: the size the block had is not taken off.               *)
GrowsTwice == total_size + op.size

(* total_size after the request.                                           *)
Grows == total_size + op.size - (IF op.type = "ALLOC" THEN 0 ELSE block_sizes[op.index])

UtilGets(r) ==
    /\ phase = "eval_mm_util"
    /\ r.bp # NULL
    /\ heap' = r.heap
    /\ Remember(r.bp)
    /\ total_size' = Grows
    /\ max_total_size' = IF Grows > max_total_size THEN Grows ELSE max_total_size
    /\ i' = i + 1
    /\ UNCHANGED <<phase, tracenum, trace, ranges, errors, returned>>

UtilFrees ==
    /\ phase = "eval_mm_util"
    /\ total_size' = total_size - block_sizes[op.index]
    /\ i' = i + 1
    /\ UNCHANGED <<phase, tracenum, trace, blockVars, max_total_size, returned>>

(* fcyc calls eval_mm_speed as often as its samples differ too much.       *)
SpeedBegins ==
    /\ phase \in {"eval_mm_util", "eval_mm_speed"} /\ ~More
    /\ Begin("eval_mm_speed")
    /\ UNCHANGED <<tracenum, trace, blockVars, utilVars, returned>>

SpeedGets(r) ==
    /\ phase = "eval_mm_speed"
    /\ r.bp # NULL
    /\ heap' = r.heap
    /\ blocks' = [blocks EXCEPT ![op.index] = r.bp]
    /\ i' = i + 1
    /\ UNCHANGED <<phase, tracenum, trace, block_sizes, ranges, errors, utilVars, returned>>

SpeedFrees ==
    /\ phase = "eval_mm_speed"
    /\ i' = i + 1
    /\ UNCHANGED <<phase, tracenum, trace, blockVars, utilVars, returned>>

(* app_error: a call that did not fail before fails now.                   *)
Exits(r) ==
    /\ phase \in {"eval_mm_util", "eval_mm_speed"}
    /\ r.bp = NULL
    /\ phase' = "exit"
    /\ UNCHANGED <<tracenum, trace, i, heap, blockVars, utilVars, returned>>

SpeedEnds ==
    /\ phase = "eval_mm_speed" /\ ~More
    /\ phase' = "free_trace"
    /\ UNCHANGED <<tracenum, trace, i, heap, blockVars, utilVars, returned>>

(* The next trace file, or the results.                                    *)
free_trace ==
    /\ phase = "free_trace"
    /\ phase' = IF tracenum < NUM_TRACES THEN "read_trace" ELSE "results"
    /\ tracenum' = IF tracenum < NUM_TRACES THEN tracenum + 1 ELSE tracenum
    /\ trace' = <<>> /\ i' = 1 /\ returned' = <<>>
    /\ blocks' = [id \in Id |-> NULL] /\ block_sizes' = [id \in Id |-> 0]
    /\ UNCHANGED <<heap, ranges, errors, utilVars>>

(* The functions by what they do with the allocator.                       *)
Runs == phase \in {"eval_mm_valid", "eval_mm_util", "eval_mm_speed"} /\ More

Begins == (ReadEnds \/ ValidEnds \/ SpeedBegins) /\ heap' = Fresh(heap)

Gets ==
    /\ Runs /\ Asks
    /\ \E r \in Answers(heap, op, old) :
        ValidGets(r) \/ ValidFails(r) \/ UtilGets(r) \/ SpeedGets(r) \/ Exits(r)

Frees ==
    /\ Runs /\ op.type = "FREE"
    /\ ValidFrees \/ UtilFrees \/ SpeedFrees
    /\ heap' = freed(heap, old)

Next == ReadLine \/ Begins \/ Gets \/ Frees \/ SpeedEnds \/ free_trace

Spec == Init /\ [][Next]_vars

(***************************************************************************)
(* Properties.                                                             *)
(***************************************************************************)
(* What the trace asks for up to its k-th request: the ids that are there, *)
(* and how many bytes they have.                                           *)
Before(k, id, types) == {n \in 1 .. k : trace[n].index = id /\ trace[n].type \in types}
LiveIds(k) == {id \in Id : Before(k, id, {"ALLOC"}) # {} /\ Before(k, id, {"FREE"}) = {}}
SizeOf(k, id) == trace[Max(Before(k, id, {"ALLOC", "REALLOC"}))].size
LiveBytes(k) == MapThenSumSet(LAMBDA id : SizeOf(k, id), LiveIds(k))

(* No allocator of lab7 is reported, and none passes eval_mm_valid and     *)
(* then fails on the same trace: mm_init makes a fresh start of whatever   *)
(* the runs before have left in the heap and in the globals. And its       *)
(* utilization is at most one.                                             *)
DriverAccepts ==
    heap.file # "any" =>
        /\ errors = 0 /\ phase # "exit"
        /\ phase = "eval_mm_util" => max_total_size <= WSIZE * heap.brk

(* All runs of a trace get the same blocks: what eval_mm_util measures is  *)
(* what eval_mm_valid has checked.                                         *)
ReplayAgrees ==
    [][/\ phase \in {"eval_mm_util", "eval_mm_speed"}
       /\ i' = i + 1 /\ op.type # "FREE" /\ heap.file # "any"
       => blocks'[op.index] = returned[i] ]_vars

(* The range list is the list of the blocks that are there, each once; and *)
(* of two that overlap the later one encloses the other, which is all that *)
(* add_range does not see: it looks for the ends of the new block only.    *)
Overlap(r, s) == \E p \in r.lo .. r.hi : Within(p, s)
Encloses(r, s) == r.lo < s.lo /\ s.hi < r.hi
RangesAreTheBlocks ==
    phase = "eval_mm_valid" =>
        /\ Len(ranges) = Cardinality(LiveIds(i - 1))
        /\ Range(ranges) = {[lo |-> blocks[id], hi |-> hi(blocks[id], block_sizes[id])] :
                               id \in LiveIds(i - 1)}
        /\ \A m, n \in DOMAIN ranges :
              m < n /\ Overlap(ranges[m], ranges[n]) => Encloses(ranges[m], ranges[n])

(* The numerator of the utilization is the peak of what the trace holds at *)
(* once, whatever the allocator.                                           *)
UtilizationIsPeak ==
    phase = "eval_mm_util" /\ ~More =>
        /\ total_size = LiveBytes(Len(trace))
        /\ max_total_size = Max({LiveBytes(k) : k \in 1 .. Len(trace)})
=============================================================================
