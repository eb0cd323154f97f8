-------------------------------- MODULE LRU ---------------------------------
(***************************************************************************)
(* A set-associative cache that replaces the least recently used block:    *)
(* per set the tags it holds and the order in which they were last used,   *)
(* and the three counters.  It has no lines and no ages.                   *)
(***************************************************************************)
EXTENDS Naturals, FiniteSets

CONSTANTS
    Set,   \* the sets
    Tag,   \* the tags
    Ways   \* how many tags a set can hold

VARIABLES
    access,  \* the last access: its set, its tag, and what it counts as
             \* hits besides (1 for the store of a modify)
    cached,  \* per set: the tags it holds
    older,   \* per set: <<t, u>> when both are held and u was used after t
    hits, misses, evicts

vars == <<access, cached, older, hits, misses, evicts>>

Access == [set : Set, tag : Tag, extra : {0, 1}]

Init ==
    /\ access \in Access
    /\ cached = [s \in Set |-> {}]
    /\ older = [s \in Set |-> {}]
    /\ hits = 0 /\ misses = 0 /\ evicts = 0

(* The set s holds the tags of keep, and t, which it has just used.        *)
Uses(s, keep, t) ==
    /\ cached' = [cached EXCEPT ![s] = keep \cup {t}]
    /\ older' = [older EXCEPT ![s] =
                    {p \in older[s] : p[1] \in keep \ {t} /\ p[2] \in keep \ {t}}
                        \cup (keep \ {t}) \X {t}]

Hit(a) ==
    /\ a.tag \in cached[a.set]
    /\ Uses(a.set, cached[a.set], a.tag)
    /\ hits' = hits + 1 + a.extra
    /\ UNCHANGED <<misses, evicts>>

Load(a) ==
    /\ a.tag \notin cached[a.set]
    /\ Cardinality(cached[a.set]) < Ways
    /\ Uses(a.set, cached[a.set], a.tag)
    /\ hits' = hits + a.extra
    /\ misses' = misses + 1
    /\ UNCHANGED evicts

Replace(a) ==
    /\ a.tag \notin cached[a.set]
    /\ Cardinality(cached[a.set]) = Ways
    /\ \E victim \in cached[a.set] :
        /\ \A u \in cached[a.set] \ {victim} : <<victim, u>> \in older[a.set]
        /\ Uses(a.set, cached[a.set] \ {victim}, a.tag)
    /\ hits' = hits + a.extra
    /\ misses' = misses + 1
    /\ evicts' = evicts + 1

Next ==
    \E a \in Access :
        /\ access' = a
        /\ Hit(a) \/ Load(a) \/ Replace(a)

Spec == Init /\ [][Next]_vars
=============================================================================
