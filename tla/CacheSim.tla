------------------------------ MODULE CacheSim ------------------------------
(***************************************************************************)
(* The cache simulator of lab8/csim.c.  A step is the body of cache_sim's  *)
(* loop for a line of the trace: a load, a store or a modify of some       *)
(* address.  Instruction lines change nothing.  A cache line is its three  *)
(* words; the array of them is a function of set and line.                 *)
(***************************************************************************)
EXTENDS Naturals, FiniteSets

CONSTANTS
    set_num, lines_per_set, block_size,
    Address,      \* the addresses of the trace
    TRACE_LENGTH  \* its lines

ASSUME GeometryAssumption ==
    set_num \in Nat \ {0} /\ lines_per_set \in Nat \ {0} /\ block_size \in Nat \ {0}
ASSUME TraceAssumption == Address \subseteq Nat /\ TRACE_LENGTH \in Nat

VARIABLES
    cache,                 \* cache[set][line]
    hits, misses, evicts,
    line,                  \* the line of the trace read last
    read,                  \* how many lines have been read
    overrun                \* the program has left the array it allocated

vars == <<cache, hits, misses, evicts, line, read, overrun>>

TraceLine == [op : {"L", "S", "M"}, address : Address]

Sets == 0 .. set_num - 1
Ways == 1 .. lines_per_set
EmptyLine == [tag |-> 0, lru |-> 0, valid |-> 0]

(* The bits of the address above the block's offset, and above these.      *)
index(address) == (address \div block_size) % set_num
tag(address) == (address \div block_size) \div set_num

(* calloc is asked for block_size sets.                                    *)
Allocated(s) == s < block_size

Init ==
    /\ cache = [s \in Sets |-> [l \in Ways |-> EmptyLine]]
    /\ hits = 0 /\ misses = 0 /\ evicts = 0
    /\ line \in TraceLine  \* not yet written
    /\ read = 0
    /\ overrun = FALSE

Holding(s, t) == {l \in Ways : cache[s][l].tag = t /\ cache[s][l].valid # 0}

(* Mutant of Empties: a line is empty when its tag is 0.                   *)
EmptiesByTag(s) == {l \in Ways : cache[s][l].tag = 0}

Empties(s) == {l \in Ways : cache[s][l].tag = 0 /\ cache[s][l].valid = 0}
Oldest(s) == {l \in Ways : \A m \in Ways : cache[s][m].lru <= cache[s][l].lru}

(* Each of the loops stops at the first line it looks for.                 *)
First(l, L) == l \in L /\ \A m \in 1 .. l - 1 : m \notin L

(* The loop over the ages stops at the first that is 0.                    *)
Aged(s) == {l \in Ways : \A m \in 1 .. l : cache[s][m].lru # 0}

Older(set, L) ==
    [l \in Ways |-> IF l \in L THEN [set[l] EXCEPT !.lru = @ + 1] ELSE set[l]]

(* A modify's store is one more hit.                                       *)
Extra(op) == IF op = "M" THEN 1 ELSE 0

(* Mutant of Hit: the line found keeps its age.                            *)
HitStays(s, t, op) ==
    /\ Holding(s, t) # {}
    /\ cache' = [cache EXCEPT ![s] = Older(cache[s], Aged(s))]
    /\ hits' = hits + 1 + Extra(op)
    /\ UNCHANGED <<misses, evicts>>

Hit(s, t, op) ==
    /\ \E l \in Ways :
        /\ First(l, Holding(s, t))
        /\ cache' = [cache EXCEPT ![s] =
                        [Older(cache[s], Aged(s)) EXCEPT ![l].lru = 1]]
    /\ hits' = hits + 1 + Extra(op)
    /\ UNCHANGED <<misses, evicts>>

ColdMiss(s, t, op) ==
    /\ Holding(s, t) = {}
    /\ \E l \in Ways :
        /\ First(l, Empties(s))
        /\ cache' = [cache EXCEPT ![s] =
                        Older([cache[s] EXCEPT ![l].tag = t, ![l].valid = 1], 1 .. l)]
    /\ hits' = hits + Extra(op)
    /\ misses' = misses + 1
    /\ UNCHANGED evicts

Evict(s, t, op) ==
    /\ Holding(s, t) = {} /\ Empties(s) = {}
    /\ \E l \in Ways :
        /\ First(l, Oldest(s))
        /\ cache' = [cache EXCEPT ![s] =
                        Older([cache[s] EXCEPT ![l].tag = t, ![l].lru = 0], Ways)]
    /\ hits' = hits + Extra(op)
    /\ misses' = misses + 1
    /\ evicts' = evicts + 1

Accesses(s, t, op) ==
    /\ Allocated(s)
    /\ Hit(s, t, op) \/ ColdMiss(s, t, op) \/ Evict(s, t, op)

cache_sim(l) ==
    /\ ~overrun
    /\ read < TRACE_LENGTH /\ read' = read + 1
    /\ line' = l
    /\ Accesses(index(l.address), tag(l.address), l.op)
    /\ UNCHANGED overrun

(* A set beyond the array: what the program does from here on is undefined *)
(* and the model ends.                                                     *)
Overruns(l) ==
    /\ ~overrun
    /\ read < TRACE_LENGTH
    /\ ~Allocated(index(l.address))
    /\ overrun' = TRUE
    /\ UNCHANGED <<cache, hits, misses, evicts, line, read>>

Next == \E l \in TraceLine : cache_sim(l) \/ Overruns(l)

Spec == Init /\ [][Next]_vars
(***************************************************************************)
(* Properties.                                                             *)
(***************************************************************************)

(* A line is empty, or holds a block of the trace and has an age.          *)
Tags == {tag(a) : a \in Address}
Line == {EmptyLine} \cup [tag : Tags, lru : Nat \ {0}, valid : {1}]

TypeOK ==
    /\ cache \in [Sets -> [Ways -> Line]]
    /\ hits \in Nat /\ misses \in Nat /\ evicts \in Nat
    /\ line \in TraceLine
    /\ read \in 0 .. TRACE_LENGTH
    /\ overrun \in BOOLEAN

(* No block is in two lines, and no two lines have the same age: the line  *)
(* a loop of cache_sim stops at is the only one it could have meant.       *)
Valid(s) == {l \in Ways : cache[s][l].valid = 1}
LinesDiffer ==
    \A s \in Sets : \A l, m \in Valid(s) :
        l # m => /\ cache[s][l].tag # cache[s][m].tag
                 /\ cache[s][l].lru # cache[s][m].lru

(* The lines of a set are filled from the first on, so that the loop over  *)
(* the ages, which stops at a 0, passes over no line that is in use.       *)
FilledInOrder ==
    \A s \in Sets : \A l \in Valid(s) : \A m \in 1 .. l : m \in Valid(s)

IInv == TypeOK /\ LinesDiffer /\ FilledInOrder

(* The counters tell how full the cache is: each miss that evicted nothing *)
(* has left one more valid line.                                           *)
CountersAddUp ==
    misses = evicts + Cardinality({p \in Sets \X Ways : p[2] \in Valid(p[1])})

(* csim.c implements LRU: its hits, misses and evictions are those of a    *)
(* cache that knows when each tag was used last.                           *)
TagsOf(s) == {cache[s][l].tag : l \in Valid(s)}
OlderOf(s) ==
    {p \in TagsOf(s) \X TagsOf(s) :
        \E l, m \in Valid(s) :
            /\ cache[s][l].tag = p[1] /\ cache[s][m].tag = p[2]
            /\ cache[s][l].lru > cache[s][m].lru}
access ==
    [set |-> index(line.address), tag |-> tag(line.address), extra |-> Extra(line.op)]
cached == [s \in Sets |-> TagsOf(s)]
older == [s \in Sets |-> OlderOf(s)]
Abstract == INSTANCE LRU WITH Set <- Sets, Tag <- Tags, Ways <- lines_per_set
ImplementsLRU == Abstract!Spec
=============================================================================
