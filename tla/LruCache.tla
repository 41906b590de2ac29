------------------------------ MODULE LruCache ------------------------------
(***************************************************************************)
(* What a set-associative cache with least-recently-used replacement       *)
(* promises: README_A.md asks csim.c to count the hits, misses and         *)
(* evictions of this cache.  No clock, no lines: each set holds blocks,    *)
(* known by their tags, and remembers which was used before which.         *)
(***************************************************************************)
EXTENDS Naturals, FiniteSets

CONSTANTS Sets,  \* the cache sets
          Tags,  \* the tags that name the blocks of a set
          Ways   \* how many blocks a set holds

VARIABLES resident,                \* resident[x]: the tags of the blocks in set x
          older,                   \* older[x]: <<t, u>> when t was last used before u
          used,                    \* the set and tag of the last access; {} before the first
          hits, misses, evictions  \* the statistics
vars == <<resident, older, used, hits, misses, evictions>>

Init == /\ resident = [x \in Sets |-> {}]
        /\ older = [x \in Sets |-> {}]
        /\ used = {}
        /\ hits = 0 /\ misses = 0 /\ evictions = 0

\* Set x keeps the blocks `kept' in their order, and t becomes its most recent block.
Use(x, t, kept) ==
  /\ resident' = [resident EXCEPT ![x] = kept \cup {t}]
  /\ older' = [older EXCEPT ![x] = {p \in @ : p[1] \in kept /\ p[2] \in kept} \cup (kept \X {t})]

Hit(x, t) == /\ t \in resident[x]
             /\ Use(x, t, resident[x] \ {t})
             /\ hits' = hits + 1
             /\ UNCHANGED <<misses, evictions>>

Fill(x, t) == /\ t \notin resident[x]
              /\ Cardinality(resident[x]) < Ways
              /\ Use(x, t, resident[x])
              /\ misses' = misses + 1
              /\ UNCHANGED <<hits, evictions>>

Replace(x, t) == /\ t \notin resident[x]
                 /\ Cardinality(resident[x]) = Ways
                 /\ \E v \in resident[x] :
                      /\ \A u \in resident[x] \ {v} : <<v, u>> \in older[x]
                      /\ Use(x, t, resident[x] \ {v})
                 /\ misses' = misses + 1
                 /\ evictions' = evictions + 1
                 /\ UNCHANGED hits

Next == \E x \in Sets, t \in Tags : /\ Hit(x, t) \/ Fill(x, t) \/ Replace(x, t)
                                    /\ used' = {<<x, t>>}

Spec == Init /\ [][Next]_vars
=============================================================================
