-------------------------------- MODULE Csim --------------------------------
(***************************************************************************)
(* The cache simulator of Exp.4/csim.c.  processTrace reads a line of the  *)
(* trace at a time: L and S call accessCache once, M calls it twice; every *)
(* other line is skipped.  One step is one call.                           *)
(***************************************************************************)
EXTENDS Integers, FiniteSets

CONSTANTS S,           \* the number of sets, 1 << s
          E,           \* lines per set
          B,           \* the block size, 1 << b
          Addresses,   \* the addresses of the trace
          ClockMax,    \* INT_MAX: the largest value of lru_clock
          MaxAccesses  \* bound: the calls of accessCache that the trace makes

ASSUME CsimAssumption == /\ S \in Nat \ {0} /\ E \in Nat \ {0} /\ B \in Nat \ {0}
                         /\ Addresses \subseteq Nat
                         /\ ClockMax \in Nat /\ MaxAccesses \in Nat

VARIABLES cache,                    \* cache[x][i]: line i of set x
          lru_clock,
          hits, misses, evictions,
          used,                     \* the address of the last access; {} before the first
          again                     \* the second access an M line still makes: a set of addresses
vars == <<cache, lru_clock, hits, misses, evictions, used, again>>

Sets == 0 .. S - 1
Lines == 0 .. E - 1
Clock == -ClockMax - 1 .. ClockMax
SetIndex(addr) == (addr \div B) % S
Tag(addr) == addr \div (S * B)
Tags == {Tag(addr) : addr \in Addresses}
CacheLine == [valid : BOOLEAN, tag : Tags \cup {0}, lru : Clock]

\* The definitions named Faulty... are slips a version of csim.c might contain; the runs' mutants
\* put them in place of the definitions that follow them.

\* calloc: every line starts invalid, with tag and lru 0.
Init == /\ cache = [x \in Sets |-> [i \in Lines |-> [valid |-> FALSE, tag |-> 0, lru |-> 0]]]
        /\ lru_clock = 0
        /\ hits = 0 /\ misses = 0 /\ evictions = 0
        /\ used = {} /\ again = {}

\* lru_clock++ on an int; the build wraps.
Tick(n) == IF n = ClockMax THEN -ClockMax - 1 ELSE n + 1

FaultyMatching(x, tag) == {i \in 0 .. E - 2 : cache[x][i].valid /\ cache[x][i].tag = tag}
Matching(x, tag) == {i \in Lines : cache[x][i].valid /\ cache[x][i].tag = tag}
Invalid(x) == {i \in Lines : ~cache[x][i].valid}
Lowest(I) == CHOOSE i \in I : \A j \in I : i <= j
MinLru(x) == {i \in Lines : \A j \in Lines : cache[x][i].lru <= cache[x][j].lru}

FaultyLoad(x, i, tag) ==
  /\ cache' = [cache EXCEPT ![x][i] = [valid |-> TRUE, tag |-> tag, lru |-> lru_clock]]
  /\ lru_clock' = IF Matching(x, tag) = {} THEN Tick(lru_clock) ELSE lru_clock

Load(x, i, tag) ==
  /\ cache' = [cache EXCEPT ![x][i] = [valid |-> TRUE, tag |-> tag, lru |-> lru_clock]]
  /\ lru_clock' = Tick(lru_clock)

\* A hit does not refresh lru, which makes the policy first-in first-out.
FaultyHit(x, tag) == /\ Matching(x, tag) # {}
                     /\ lru_clock' = Tick(lru_clock)
                     /\ hits' = hits + 1
                     /\ UNCHANGED <<cache, misses, evictions>>

Hit(x, tag) == /\ Matching(x, tag) # {}
               /\ Load(x, Lowest(Matching(x, tag)), tag)
               /\ hits' = hits + 1
               /\ UNCHANGED <<misses, evictions>>

FaultyFill(x, tag) == /\ Matching(x, tag) = {}
                      /\ Invalid(x) # {}
                      /\ Load(x, Lowest(Invalid(x)), tag)
                      /\ misses' = misses + 1
                      /\ evictions' = evictions + 1
                      /\ UNCHANGED hits

Fill(x, tag) == /\ Matching(x, tag) = {}
                /\ Invalid(x) # {}
                /\ Load(x, Lowest(Invalid(x)), tag)
                /\ misses' = misses + 1
                /\ UNCHANGED <<hits, evictions>>

Evict(x, tag) == /\ Matching(x, tag) = {}
                 /\ Invalid(x) = {}
                 /\ Load(x, Lowest(MinLru(x)), tag)
                 /\ misses' = misses + 1
                 /\ evictions' = evictions + 1
                 /\ UNCHANGED hits

accessCache(addr) == LET x == SetIndex(addr)
                         tag == Tag(addr)
                     IN  /\ Hit(x, tag) \/ Fill(x, tag) \/ Evict(x, tag)
                         /\ used' = {addr}

LoadOrStore(addr) == /\ again = {}
                     /\ hits + misses < MaxAccesses
                     /\ accessCache(addr)
                     /\ UNCHANGED again

Modify(addr) == /\ again = {}
                /\ hits + misses < MaxAccesses - 1
                /\ accessCache(addr)
                /\ again' = {addr}

ModifyAgain == \E addr \in again : accessCache(addr) /\ again' = {}

Next == \/ \E addr \in Addresses : LoadOrStore(addr) \/ Modify(addr)
        \/ ModifyAgain

Spec == Init /\ [][Next]_vars
-----------------------------------------------------------------------------
(* Properties *)

ValidLines == {p \in Sets \X Lines : cache[p[1]][p[2]].valid}
Resident(x) == {cache[x][i].tag : i \in Lines \ Invalid(x)}
Older(x) == LET V == Lines \ Invalid(x)
            IN  {<<cache[x][p[1]].tag, cache[x][p[2]].tag>> :
                   p \in {q \in V \X V : cache[x][q[1]].lru < cache[x][q[2]].lru}}

\* Every line holds an int clock value and a tag of the trace; the statistics are counts.
TypeOK == /\ cache \in [Sets -> [Lines -> CacheLine]]
          /\ lru_clock \in Clock
          /\ hits \in Nat /\ misses \in Nat /\ evictions \in Nat
          /\ used \subseteq Addresses /\ again \subseteq Addresses

\* No set holds a block twice: accessCache takes the first match, and a copy further on would
\* keep the block in the cache after it has been replaced.
BlocksUnique == \A x \in Sets : \A i, j \in Lines \ Invalid(x) :
                  cache[x][i].tag = cache[x][j].tag => i = j

\* The clock counts the accesses, and orders the lines of a set by their last use.
ClockOrders == /\ lru_clock = hits + misses
               /\ \A x \in Sets : \A i \in Lines \ Invalid(x) : cache[x][i].lru < lru_clock
               /\ \A x \in Sets : \A i, j \in Lines \ Invalid(x) :
                    cache[x][i].lru = cache[x][j].lru => i = j

\* The three counters that printSummary reports and the lines agree: what was loaded and not
\* evicted is still there.
LoadedIsThere == misses = evictions + Cardinality(ValidLines)

\* A modify line is a load and a store of the same block: whatever the load evicts, the store
\* finds the block, so that M never counts two misses.
StoreOfModifyHits == [][again # {} /\ again' = {} => hits' = hits + 1]_vars

Lru == INSTANCE LruCache WITH Ways <- E,
                              used <- {<<SetIndex(addr), Tag(addr)>> : addr \in used},
                              resident <- [x \in Sets |-> Resident(x)],
                              older <- [x \in Sets |-> Older(x)]

\* The simulator counts the hits, misses and evictions of a cache that evicts the least
\* recently used block.
RefinesLruCache == Lru!Spec
=============================================================================
