----------------------------- MODULE CsimProofs -----------------------------
(***************************************************************************)
(* Theorems about the cache simulator, for every geometry and every trace: *)
(* type correctness and what does not depend on the clock hold always; the *)
(* least-recently-used order, with it the refinement of LruCache, and that *)
(* a cache with one more line in each set holds more, hold as long as the  *)
(* trace makes no more accesses than an int can count.                     *)
(***************************************************************************)
EXTENDS CsimInclusion, NatLemmas, FiniteSetTheorems, TLAPS

USE CsimAssumption

-----------------------------------------------------------------------------
(* What one call of accessCache does *)

\* The scan stops at the least matching line.
LEMMA LowestIsIn ==
  ASSUME NEW I \in SUBSET Lines, I # {}
  PROVE  Lowest(I) \in I /\ \A j \in I : Lowest(I) <= j
<1>1. \E i \in I : \A j \in I : i <= j BY LeastElement DEF Lines
<1> QED BY <1>1 DEF Lowest

\* Some line has the least lru value.
LEMMA SomeMinLru ==
  ASSUME TypeOK, NEW x \in Sets
  PROVE  MinLru(x) # {}
<1> DEFINE T == {cache[x][i].lru + ClockMax + 1 : i \in Lines}
<1>1. \A i \in Lines : cache[x][i].lru \in Int /\ cache[x][i].lru + ClockMax + 1 \in Nat
  BY DEF TypeOK, CacheLine, Clock
<1>2. T \in SUBSET Nat /\ T # {} BY <1>1 DEF Lines
<1>3. PICK m \in T : \A n \in T : m <= n
  <2> HIDE DEF T
  <2> QED BY <1>2, LeastElement
<1>4. PICK i \in Lines : m = cache[x][i].lru + ClockMax + 1 BY <1>3
<1>5. \A j \in Lines : cache[x][i].lru + ClockMax + 1 <= cache[x][j].lru + ClockMax + 1
  BY <1>3, <1>4
<1>6. \A j \in Lines : cache[x][i].lru <= cache[x][j].lru BY <1>1, <1>4, <1>5
<1> QED BY <1>4, <1>6 DEF MinLru

LEMMA AddressSplits ==
  ASSUME NEW addr \in Addresses
  PROVE  SetIndex(addr) \in Sets /\ Tag(addr) \in Tags
<1>1. addr \div B \in Nat OBVIOUS
<1>2. \A n \in Nat : n % S \in 0 .. S - 1 OBVIOUS
<1> QED BY <1>1, <1>2 DEF SetIndex, Sets, Tags

\* A call writes one line i of the set: the first that matches, else the first that is
\* invalid, else the first of those least recently used; and it counts accordingly.
LEMMA AccessWritesLine ==
  ASSUME TypeOK, NEW addr \in Addresses, accessCache(addr)
  PROVE  LET x == SetIndex(addr)
             t == Tag(addr)
         IN  \E i \in Lines :
               /\ Load(x, i, t)
               /\ \/ /\ i \in Matching(x, t)
                     /\ hits' = hits + 1 /\ UNCHANGED <<misses, evictions>>
                  \/ /\ Matching(x, t) = {} /\ i \in Invalid(x)
                     /\ misses' = misses + 1 /\ UNCHANGED <<hits, evictions>>
                  \/ /\ Matching(x, t) = {} /\ Invalid(x) = {} /\ i \in MinLru(x)
                     /\ misses' = misses + 1 /\ evictions' = evictions + 1 /\ UNCHANGED hits
<1> DEFINE x == SetIndex(addr)
           t == Tag(addr)
<1>0. x \in Sets /\ t \in Tags BY AddressSplits
<1> HIDE DEF x, t
<1>1. CASE Hit(x, t)
  <2>1. Lowest(Matching(x, t)) \in Matching(x, t) BY <1>1, LowestIsIn DEF Hit, Matching
  <2> QED BY <1>1, <2>1 DEF Hit, Matching, x, t
<1>2. CASE Fill(x, t)
  <2>1. Lowest(Invalid(x)) \in Invalid(x) BY <1>2, LowestIsIn DEF Fill, Invalid
  <2> QED BY <1>2, <2>1 DEF Fill, Invalid, x, t
<1>3. CASE Evict(x, t)
  <2>1. Lowest(MinLru(x)) \in MinLru(x) BY <1>0, SomeMinLru, LowestIsIn DEF MinLru
  <2> QED BY <1>3, <2>1 DEF Evict, MinLru, x, t
<1> QED BY <1>1, <1>2, <1>3 DEF accessCache, x, t

-----------------------------------------------------------------------------
(* Type correctness *)

LEMMA TickInClock == \A n \in Clock : Tick(n) \in Clock
BY DEF Tick, Clock

LEMMA AccessTyped ==
  ASSUME TypeOK, NEW addr \in Addresses, accessCache(addr)
  PROVE  /\ cache' \in [Sets -> [Lines -> CacheLine]]
         /\ lru_clock' \in Clock
         /\ hits' \in Nat /\ misses' \in Nat /\ evictions' \in Nat
         /\ used' \subseteq Addresses
<1> DEFINE x == SetIndex(addr)
           t == Tag(addr)
<1>0. x \in Sets /\ t \in Tags BY AddressSplits
<1> HIDE DEF x, t
<1>1. PICK i \in Lines :
               /\ Load(x, i, t)
               /\ \/ hits' = hits + 1 /\ UNCHANGED <<misses, evictions>>
                  \/ misses' = misses + 1 /\ UNCHANGED <<hits, evictions>>
                  \/ misses' = misses + 1 /\ evictions' = evictions + 1 /\ UNCHANGED hits
  BY AccessWritesLine DEF x, t
<1>2. [valid |-> TRUE, tag |-> t, lru |-> lru_clock] \in CacheLine
  BY <1>0 DEF CacheLine, TypeOK
<1>3. cache' \in [Sets -> [Lines -> CacheLine]]
  BY <1>0, <1>1, <1>2 DEF Load, TypeOK
<1>4. used' = {addr} BY DEF accessCache
<1> QED BY <1>1, <1>3, <1>4, TickInClock DEF Load, TypeOK

LEMMA TypeInit == Init => TypeOK
BY DEF Init, TypeOK, CacheLine, Clock

LEMMA TypeNext == TypeOK /\ [Next]_vars => TypeOK'
<1> SUFFICES ASSUME TypeOK, [Next]_vars PROVE TypeOK' OBVIOUS
<1>1. ASSUME NEW addr \in Addresses, LoadOrStore(addr) PROVE TypeOK'
  BY <1>1, AccessTyped DEF LoadOrStore, TypeOK
<1>2. ASSUME NEW addr \in Addresses, Modify(addr) PROVE TypeOK'
  BY <1>2, AccessTyped DEF Modify, TypeOK
<1>3. CASE ModifyAgain
  <2>1. PICK addr \in again : accessCache(addr) /\ again' = {} BY <1>3 DEF ModifyAgain
  <2>2. addr \in Addresses BY DEF TypeOK
  <2> QED BY <2>1, <2>2, AccessTyped DEF TypeOK
<1>4. CASE UNCHANGED vars BY <1>4 DEF vars, TypeOK
<1> QED BY <1>1, <1>2, <1>3, <1>4 DEF Next

\* Every line holds an int clock value and a tag of the trace, however long the trace.
THEOREM TypeCorrect == Spec => []TypeOK
BY TypeInit, TypeNext, PTL DEF Spec
-----------------------------------------------------------------------------
(* What does not depend on the clock *)

\* The lines of every set after a call, one by one.
LEMMA LoadPointwise ==
  ASSUME TypeOK, NEW x \in Sets, NEW i \in Lines, NEW t \in Tags, Load(x, i, t)
  PROVE  /\ cache'[x][i] = [valid |-> TRUE, tag |-> t, lru |-> lru_clock]
         /\ \A j \in Lines \ {i} : cache'[x][j] = cache[x][j]
         /\ \A y \in Sets \ {x} : cache'[y] = cache[y]
<1> DEFINE new == [valid |-> TRUE, tag |-> t, lru |-> lru_clock]
<1>1. cache' = [cache EXCEPT ![x][i] = new] BY DEF Load
<1>2. cache \in [Sets -> [Lines -> CacheLine]] BY DEF TypeOK
<1> HIDE DEF new
<1>3. /\ cache'[x][i] = new
      /\ \A j \in Lines \ {i} : cache'[x][j] = cache[x][j]
      /\ \A y \in Sets \ {x} : cache'[y] = cache[y]
  BY <1>1, <1>2
<1> QED BY <1>3 DEF new

\* What every call keeps: it writes one line i of one set x, and every other valid line of
\* that set holds another block.
LEMMA AccessSteps ==
  ASSUME TypeOK, BlocksUnique, NEW addr \in Addresses, accessCache(addr)
  PROVE  LET x == SetIndex(addr)
             t == Tag(addr)
         IN  \E i \in Lines :
               /\ Load(x, i, t)
               /\ \A j \in Lines \ Invalid(x) : j # i => cache[x][j].tag # t
<1> DEFINE x == SetIndex(addr)
           t == Tag(addr)
<1>0. x \in Sets /\ t \in Tags BY AddressSplits
<1> HIDE DEF x, t
<1>1. PICK i \in Lines : Load(x, i, t) /\ (i \in Matching(x, t) \/ Matching(x, t) = {})
  BY AccessWritesLine DEF x, t
<1>2. \A j \in Lines \ Invalid(x) : j # i => cache[x][j].tag # t
  BY <1>0, <1>1 DEF Matching, Invalid, BlocksUnique
<1> QED BY <1>1, <1>2 DEF x, t

LEMMA AccessKeepsUnique ==
  ASSUME TypeOK, BlocksUnique, NEW addr \in Addresses, accessCache(addr)
  PROVE  BlocksUnique' /\ Matching(SetIndex(addr), Tag(addr))' # {}
<1> DEFINE x == SetIndex(addr)
           t == Tag(addr)
<1>0. x \in Sets /\ t \in Tags BY AddressSplits
<1> HIDE DEF x, t
<1>1. PICK i \in Lines : /\ Load(x, i, t)
                         /\ \A j \in Lines \ Invalid(x) : j # i => cache[x][j].tag # t
  BY AccessSteps DEF x, t
<1>2. /\ cache'[x][i] = [valid |-> TRUE, tag |-> t, lru |-> lru_clock]
      /\ \A j \in Lines \ {i} : cache'[x][j] = cache[x][j]
      /\ \A y \in Sets \ {x} : cache'[y] = cache[y]
  BY <1>0, <1>1, LoadPointwise
<1>3. cache'[x][i].valid /\ cache'[x][i].tag = t BY <1>2
<1>4. ASSUME NEW y \in Sets, NEW j \in Lines \ Invalid(y)', NEW k \in Lines \ Invalid(y)',
             cache'[y][j].tag = cache'[y][k].tag
      PROVE  j = k
  <2>1. CASE y # x
    <3>1. j \in Lines \ Invalid(y) /\ k \in Lines \ Invalid(y) BY <1>2, <2>1 DEF Invalid
    <3>2. cache[y][j].tag = cache[y][k].tag BY <1>2, <1>4, <2>1
    <3> QED BY <3>1, <3>2 DEF BlocksUnique
  <2>2. CASE y = x
    <3>1. \A m \in Lines \ Invalid(x)' : m # i => m \in Lines \ Invalid(x) /\ cache'[x][m].tag # t
      BY <1>1, <1>2 DEF Invalid
    <3>2. CASE j = i \/ k = i BY <1>3, <1>4, <2>2, <3>1, <3>2
    <3>3. CASE j # i /\ k # i
      <4>1. cache[x][j].tag = cache[x][k].tag BY <1>2, <1>4, <2>2, <3>3
      <4> QED BY <2>2, <3>1, <3>3, <4>1 DEF BlocksUnique
    <3> QED BY <3>2, <3>3
  <2> QED BY <2>1, <2>2
<1>5. Matching(x, t)' # {}
  <2>1. Matching(x, t)' = {m \in Lines : cache'[x][m].valid /\ cache'[x][m].tag = t} BY DEF Matching
  <2> QED BY <1>3, <2>1
<1>6. BlocksUnique' BY <1>4 DEF BlocksUnique
<1>7. Matching(SetIndex(addr), Tag(addr))' # {} BY <1>5 DEF x, t, SetIndex, Tag
<1> QED BY <1>6, <1>7

\* What the simulator keeps whatever the clock does: the block of an unfinished M line is in
\* the cache, and that line's second access is within the bound of the trace.
Steady == /\ TypeOK
          /\ BlocksUnique
          /\ \A addr \in again : Matching(SetIndex(addr), Tag(addr)) # {}

LEMMA SteadyInit == Init => Steady
<1> SUFFICES ASSUME Init PROVE Steady OBVIOUS
<1>1. BlocksUnique BY DEF Init, BlocksUnique, Invalid
<1> QED BY <1>1, TypeInit DEF Init, Steady

LEMMA SteadyNext == Steady /\ [Next]_vars => Steady'
<1> SUFFICES ASSUME Steady, [Next]_vars PROVE Steady' OBVIOUS
<1>0. TypeOK /\ BlocksUnique /\ TypeOK' BY TypeNext DEF Steady
<1>1. ASSUME NEW addr \in Addresses, LoadOrStore(addr) PROVE Steady'
  BY <1>0, <1>1, AccessKeepsUnique DEF LoadOrStore, Steady
<1>2. ASSUME NEW addr \in Addresses, Modify(addr) PROVE Steady'
  BY <1>0, <1>2, AccessKeepsUnique DEF Modify, Steady
<1>3. CASE ModifyAgain
  <2>1. PICK addr \in again : accessCache(addr) /\ again' = {} BY <1>3 DEF ModifyAgain
  <2>2. addr \in Addresses BY <1>0 DEF TypeOK
  <2> QED BY <1>0, <2>1, <2>2, AccessKeepsUnique DEF Steady
<1>4. CASE UNCHANGED vars
  BY <1>0, <1>4 DEF vars, Steady, BlocksUnique, Invalid, Matching
<1> QED BY <1>1, <1>2, <1>3, <1>4 DEF Next

\* No set ever holds a block twice.
THEOREM BlocksUniqueCorrect == Spec => []BlocksUnique
<1>1. Steady => BlocksUnique BY DEF Steady
<1> QED BY <1>1, SteadyInit, SteadyNext, PTL DEF Spec

\* The store of an M line finds the block its load brought in.
THEOREM StoreOfModifyHitsCorrect == Spec => StoreOfModifyHits
<1>1. Steady /\ [Next]_vars => [again # {} /\ again' = {} => hits' = hits + 1]_vars
  <2> SUFFICES ASSUME Steady, Next, again # {}, again' = {} PROVE hits' = hits + 1 OBVIOUS
  <2>1. ModifyAgain BY DEF Next, LoadOrStore, Modify
  <2>2. PICK addr \in again : accessCache(addr) BY <2>1 DEF ModifyAgain
  <2>3. Matching(SetIndex(addr), Tag(addr)) # {} BY DEF Steady
  <2> QED BY <2>2, <2>3 DEF accessCache, Hit, Fill, Evict
<1> QED BY <1>1, SteadyInit, SteadyNext, PTL DEF Spec, StoreOfModifyHits
-----------------------------------------------------------------------------
(* The counters *)

LEMMA ValidLinesFinite == IsFiniteSet(ValidLines)
<1>1. IsFiniteSet(Sets) /\ IsFiniteSet(Lines) BY FS_Interval DEF Sets, Lines
<1>2. IsFiniteSet(Sets \X Lines) BY <1>1, FS_Product
<1>3. ValidLines \in SUBSET (Sets \X Lines) BY DEF ValidLines
<1> QED BY <1>2, <1>3, FS_Subset

LEMMA AccessCounts ==
  ASSUME TypeOK, BlocksUnique, LoadedIsThere, NEW addr \in Addresses, accessCache(addr)
  PROVE  LoadedIsThere'
<1> DEFINE x == SetIndex(addr)
           t == Tag(addr)
<1>0. x \in Sets /\ t \in Tags BY AddressSplits
<1> HIDE DEF x, t
<1>1. PICK i \in Lines :
               /\ Load(x, i, t)
               /\ \/ /\ i \in Matching(x, t)
                     /\ hits' = hits + 1 /\ UNCHANGED <<misses, evictions>>
                  \/ /\ Matching(x, t) = {} /\ i \in Invalid(x)
                     /\ misses' = misses + 1 /\ UNCHANGED <<hits, evictions>>
                  \/ /\ Matching(x, t) = {} /\ Invalid(x) = {} /\ i \in MinLru(x)
                     /\ misses' = misses + 1 /\ evictions' = evictions + 1 /\ UNCHANGED hits
  BY AccessWritesLine DEF x, t
<1>2. /\ cache'[x][i] = [valid |-> TRUE, tag |-> t, lru |-> lru_clock]
      /\ \A j \in Lines \ {i} : cache'[x][j] = cache[x][j]
      /\ \A y \in Sets \ {x} : cache'[y] = cache[y]
  BY <1>0, <1>1, LoadPointwise
<1>3. ValidLines' = ValidLines \cup {<<x, i>>}
  <2>1. ASSUME NEW y \in Sets, NEW j \in Lines
        PROVE  cache'[y][j].valid <=> cache[y][j].valid \/ <<y, j>> = <<x, i>>
    <3>1. CASE y = x /\ j = i BY <1>2, <3>1
    <3>2. CASE y = x /\ j # i BY <1>2, <3>2
    <3>3. CASE y # x BY <1>2, <3>3
    <3> QED BY <3>1, <3>2, <3>3
  <2>2. \A p \in Sets \X Lines : p = <<p[1], p[2]>> /\ p[1] \in Sets /\ p[2] \in Lines OBVIOUS
  <2>3. <<x, i>> \in Sets \X Lines BY <1>0
  <2>4. ValidLines' = {p \in Sets \X Lines : cache'[p[1]][p[2]].valid} BY DEF ValidLines
  <2>5. \A p \in Sets \X Lines : cache'[p[1]][p[2]].valid <=> cache[p[1]][p[2]].valid \/ p = <<x, i>>
    BY <2>1, <2>2
  <2> QED BY <2>3, <2>4, <2>5 DEF ValidLines
<1>4. Cardinality(ValidLines') = IF <<x, i>> \in ValidLines THEN Cardinality(ValidLines)
                                                        ELSE Cardinality(ValidLines) + 1
  BY <1>3, ValidLinesFinite, FS_AddElement
<1>5. <<x, i>> \in ValidLines <=> i \notin Invalid(x) BY <1>0 DEF ValidLines, Invalid
<1>6. i \in Matching(x, t) => i \notin Invalid(x) BY DEF Matching, Invalid
<1>7. Cardinality(ValidLines) \in Nat BY ValidLinesFinite, FS_CardinalityType
<1>8. misses = evictions + Cardinality(ValidLines) BY DEF LoadedIsThere
<1>9. misses' = evictions' + Cardinality(ValidLines')
  BY <1>1, <1>4, <1>5, <1>6, <1>7, <1>8 DEF TypeOK
<1> QED BY <1>9 DEF LoadedIsThere

\* The reported misses are the evictions and the blocks that are still in the cache.
THEOREM LoadedIsThereCorrect == Spec => []LoadedIsThere
<1>1. Init => LoadedIsThere
  <2> SUFFICES ASSUME Init PROVE LoadedIsThere OBVIOUS
  <2>1. ValidLines = {} BY DEF Init, ValidLines
  <2> QED BY <2>1, FS_EmptySet DEF Init, LoadedIsThere
<1>2. Steady /\ LoadedIsThere /\ [Next]_vars => LoadedIsThere'
  <2> SUFFICES ASSUME Steady, LoadedIsThere, [Next]_vars PROVE LoadedIsThere' OBVIOUS
  <2>1. CASE Next
    <3>1. PICK addr \in Addresses : accessCache(addr)
      BY <2>1 DEF Next, LoadOrStore, Modify, ModifyAgain, Steady, TypeOK
    <3> QED BY <3>1, AccessCounts DEF Steady
  <2>2. CASE UNCHANGED vars BY <2>2 DEF vars, LoadedIsThere, ValidLines
  <2> QED BY <2>1, <2>2
<1> QED BY <1>1, <1>2, SteadyInit, SteadyNext, PTL DEF Spec

-----------------------------------------------------------------------------
(* The least-recently-used order, while lru_clock does not overflow *)

\* The accesses made and still owed by an M line are within the bound.
Paced == hits + misses + (IF again = {} THEN 0 ELSE 1) <= MaxAccesses

Ordered == Steady /\ Paced /\ ClockOrders

LEMMA AccessKeepsOrder ==
  ASSUME Steady, ClockOrders, hits + misses < ClockMax, NEW addr \in Addresses, accessCache(addr)
  PROVE  ClockOrders' /\ hits' + misses' = hits + misses + 1
<1> DEFINE x == SetIndex(addr)
           t == Tag(addr)
<1>0. x \in Sets /\ t \in Tags BY AddressSplits
<1> HIDE DEF x, t
<1>1. PICK i \in Lines :
               /\ Load(x, i, t)
               /\ \/ hits' = hits + 1 /\ UNCHANGED <<misses, evictions>>
                  \/ misses' = misses + 1 /\ UNCHANGED <<hits, evictions>>
                  \/ misses' = misses + 1 /\ evictions' = evictions + 1 /\ UNCHANGED hits
  BY AccessWritesLine DEF x, t, Steady
<1>2. /\ cache'[x][i] = [valid |-> TRUE, tag |-> t, lru |-> lru_clock]
      /\ \A j \in Lines \ {i} : cache'[x][j] = cache[x][j]
      /\ \A y \in Sets \ {x} : cache'[y] = cache[y]
  BY <1>0, <1>1, LoadPointwise DEF Steady
<1>3. hits \in Nat /\ misses \in Nat BY DEF Steady, TypeOK
<1>4. lru_clock = hits + misses BY DEF ClockOrders
<1>5. lru_clock' = lru_clock + 1 /\ hits' + misses' = hits + misses + 1
  BY <1>1, <1>3, <1>4 DEF Load, Tick
<1>6. ASSUME NEW y \in Sets, NEW j \in Lines \ Invalid(y)'
      PROVE  \/ y = x /\ j = i
             \/ j \in Lines \ Invalid(y) /\ cache'[y][j] = cache[y][j] /\ cache'[y][j].lru < lru_clock
  <2>1. CASE y = x /\ j # i
    <3>1. cache'[y][j] = cache[y][j] BY <1>2, <2>1
    <3>2. j \in Lines \ Invalid(y) BY <1>6, <3>1 DEF Invalid
    <3> QED BY <3>1, <3>2 DEF ClockOrders
  <2>2. CASE y # x
    <3>1. cache'[y][j] = cache[y][j] BY <1>2, <2>2
    <3>2. j \in Lines \ Invalid(y) BY <1>6, <3>1 DEF Invalid
    <3> QED BY <3>1, <3>2 DEF ClockOrders
  <2> QED BY <2>1, <2>2
<1>7. cache'[x][i].lru = lru_clock BY <1>2
<1>8. \A y \in Sets : \A j \in Lines : cache[y][j].lru \in Int
  BY DEF Steady, TypeOK, CacheLine, Clock
<1>9. \A y \in Sets : \A j \in Lines \ Invalid(y)' : cache'[y][j].lru < lru_clock'
  BY <1>3, <1>4, <1>5, <1>6, <1>7, <1>8
<1>10. ASSUME NEW y \in Sets, NEW j \in Lines \ Invalid(y)', NEW k \in Lines \ Invalid(y)',
              cache'[y][j].lru = cache'[y][k].lru
       PROVE  j = k
  <2>1. CASE j = i /\ k = i BY <2>1
  <2>2. CASE j # k /\ y = x /\ (j = i \/ k = i)
    <3>1. lru_clock \in Int BY <1>3, <1>4
    <3>2. cache'[y][j].lru # cache'[y][k].lru BY <1>6, <1>7, <1>8, <2>2, <3>1
    <3> QED BY <1>10, <3>2
  <2>3. CASE y # x \/ (j # i /\ k # i)
    <3>1. j \in Lines \ Invalid(y) /\ k \in Lines \ Invalid(y) BY <1>6, <2>3
    <3>2. cache[y][j].lru = cache[y][k].lru BY <1>6, <1>10, <2>3
    <3> QED BY <3>1, <3>2 DEF ClockOrders
  <2> QED BY <2>1, <2>2, <2>3
<1>11. lru_clock' = hits' + misses' BY <1>4, <1>5
<1>12. ClockOrders' BY <1>9, <1>10, <1>11 DEF ClockOrders
<1> QED BY <1>5, <1>12

LEMMA OrderedInit == Init => Ordered
<1> SUFFICES ASSUME Init PROVE Ordered OBVIOUS
<1>1. ClockOrders BY DEF Init, ClockOrders, Invalid
<1>2. Paced BY DEF Init, Paced
<1> QED BY <1>1, <1>2, SteadyInit DEF Ordered

LEMMA OrderedNext ==
  ASSUME MaxAccesses <= ClockMax
  PROVE  Ordered /\ [Next]_vars => Ordered'
<1> SUFFICES ASSUME Ordered, [Next]_vars PROVE Ordered' OBVIOUS
<1>0. Steady /\ Paced /\ ClockOrders /\ Steady' /\ hits \in Nat /\ misses \in Nat
  BY SteadyNext DEF Ordered, Steady, TypeOK
<1>1. ASSUME NEW addr \in Addresses, LoadOrStore(addr) PROVE Ordered'
  <2>1. hits + misses < ClockMax BY <1>0, <1>1 DEF LoadOrStore
  <2>2. ClockOrders' /\ hits' + misses' = hits + misses + 1
    BY <1>0, <1>1, <2>1, AccessKeepsOrder DEF LoadOrStore
  <2>3. Paced' BY <1>0, <1>1, <2>2 DEF LoadOrStore, Paced
  <2> QED BY <1>0, <2>2, <2>3 DEF Ordered
<1>2. ASSUME NEW addr \in Addresses, Modify(addr) PROVE Ordered'
  <2>1. hits + misses < ClockMax BY <1>0, <1>2 DEF Modify
  <2>2. ClockOrders' /\ hits' + misses' = hits + misses + 1
    BY <1>0, <1>2, <2>1, AccessKeepsOrder DEF Modify
  <2>3. Paced' BY <1>0, <1>2, <2>2 DEF Modify, Paced
  <2> QED BY <1>0, <2>2, <2>3 DEF Ordered
<1>3. CASE ModifyAgain
  <2>1. PICK addr \in again : accessCache(addr) /\ again' = {} BY <1>3 DEF ModifyAgain
  <2>2. addr \in Addresses /\ again # {} BY <1>0, <2>1 DEF Steady, TypeOK
  <2>3. hits + misses < ClockMax BY <1>0, <2>2 DEF Paced
  <2>4. ClockOrders' /\ hits' + misses' = hits + misses + 1
    BY <1>0, <2>1, <2>2, <2>3, AccessKeepsOrder
  <2>5. Paced' BY <1>0, <2>1, <2>2, <2>4 DEF Paced
  <2> QED BY <1>0, <2>4, <2>5 DEF Ordered
<1>4. CASE UNCHANGED vars
  <2>1. Paced' /\ ClockOrders' BY <1>0, <1>4 DEF vars, Paced, ClockOrders, Invalid
  <2> QED BY <1>0, <2>1 DEF Ordered
<1> QED BY <1>1, <1>2, <1>3, <1>4 DEF Next

\* On every trace an int can count, the clock orders the lines of a set by their last use.
THEOREM ClockOrdersCorrect ==
  ASSUME MaxAccesses <= ClockMax
  PROVE  Spec => []ClockOrders
<1>1. Ordered => ClockOrders BY DEF Ordered
<1> QED BY <1>1, OrderedInit, OrderedNext, PTL DEF Spec
-----------------------------------------------------------------------------
(* The simulator implements LruCache *)

\* A set with an invalid line holds fewer blocks than it has lines, and conversely.
LEMMA RoomIsInvalidLine ==
  ASSUME BlocksUnique, NEW x \in Sets
  PROVE  IF Invalid(x) = {} THEN Cardinality(Resident(x)) = E ELSE Cardinality(Resident(x)) < E
<1> DEFINE V == Lines \ Invalid(x)
           R == Resident(x)
           f == [i \in V |-> cache[x][i].tag]
<1>1. IsFiniteSet(Lines) /\ Cardinality(Lines) = E BY FS_Interval DEF Lines
<1>2. IsFiniteSet(V) /\ Cardinality(V) <= E /\ (Cardinality(V) = E => V = Lines)
  BY <1>1, FS_Subset
<1>3. R = {cache[x][i].tag : i \in V} BY DEF Resident
<1>4. \A i, j \in V : cache[x][i].tag = cache[x][j].tag => i = j BY DEF BlocksUnique
<1>9. V = Lines <=> Invalid(x) = {} BY DEF Invalid
<1> HIDE DEF V, R
<1>5. f \in Surjection(V, R) BY <1>3 DEF Surjection
<1>6. f \in Injection(V, R) BY <1>3, <1>4 DEF Injection, IsInjective
<1>7. Cardinality(R) = Cardinality(V)
  <2> HIDE DEF f
  <2> QED BY <1>2, <1>5, <1>6, FS_Surjection
<1>8. Cardinality(V) \in Nat BY <1>2, FS_CardinalityType
<1> QED BY <1>1, <1>2, <1>7, <1>8, <1>9 DEF R

LEMMA PairsOfLines ==
  ASSUME NEW V, NEW c, NEW e
  PROVE  e \in {<<c[p[1]].tag, c[p[2]].tag>> : p \in {q \in V \X V : c[q[1]].lru < c[q[2]].lru}}
           <=> \E j, k \in V : e = <<c[j].tag, c[k].tag>> /\ c[j].lru < c[k].lru
<1> DEFINE P == {q \in V \X V : c[q[1]].lru < c[q[2]].lru}
<1>1. ASSUME NEW p \in P, e = <<c[p[1]].tag, c[p[2]].tag>>
      PROVE  \E j, k \in V : e = <<c[j].tag, c[k].tag>> /\ c[j].lru < c[k].lru
  BY <1>1
<1>2. ASSUME NEW j \in V, NEW k \in V, e = <<c[j].tag, c[k].tag>>, c[j].lru < c[k].lru
      PROVE  \E p \in P : e = <<c[p[1]].tag, c[p[2]].tag>>
  <2>1. <<j, k>> \in P BY <1>2
  <2> QED BY <1>2, <2>1
<1> HIDE DEF P
<1>3. e \in {<<c[p[1]].tag, c[p[2]].tag>> : p \in P} <=> \E p \in P : e = <<c[p[1]].tag, c[p[2]].tag>>
  OBVIOUS
<1> QED BY <1>1, <1>2, <1>3 DEF P

LEMMA OlderPairs ==
  ASSUME NEW x, NEW e
  PROVE  e \in Older(x) <=> \E j, k \in Lines \ Invalid(x) :
           e = <<cache[x][j].tag, cache[x][k].tag>> /\ cache[x][j].lru < cache[x][k].lru
<1> DEFINE V == Lines \ Invalid(x)
<1>1. Older(x) = {<<cache[x][p[1]].tag, cache[x][p[2]].tag>> :
                    p \in {q \in V \X V : cache[x][q[1]].lru < cache[x][q[2]].lru}}
  BY DEF Older
<1> HIDE DEF V
<1>2. e \in Older(x) <=> \E j, k \in V :
           e = <<cache[x][j].tag, cache[x][k].tag>> /\ cache[x][j].lru < cache[x][k].lru
  BY <1>1, PairsOfLines
<1> QED BY <1>2 DEF V

\* Writing line i makes its block the most recent one of the set, after the blocks of the
\* other valid lines.
LEMMA LoadUses ==
  ASSUME Ordered, NEW x \in Sets, NEW t \in Tags, NEW i \in Lines, Load(x, i, t),
         \A j \in Lines \ Invalid(x) : j # i => cache[x][j].tag # t
  PROVE  Lru!Use(x, t, {cache[x][j].tag : j \in (Lines \ Invalid(x)) \ {i}})
<1> DEFINE V == (Lines \ Invalid(x)) \ {i}
           kept == {cache[x][j].tag : j \in V}
<1>0. TypeOK /\ BlocksUnique /\ ClockOrders BY DEF Ordered, Steady
<1>1. /\ cache'[x][i] = [valid |-> TRUE, tag |-> t, lru |-> lru_clock]
      /\ \A j \in Lines \ {i} : cache'[x][j] = cache[x][j]
      /\ \A y \in Sets \ {x} : cache'[y] = cache[y]
  BY <1>0, LoadPointwise
<1>2. Lines \ Invalid(x)' = V \cup {i} BY <1>1 DEF Invalid
<1>3. \A y \in Sets \ {x} : Resident(y)' = Resident(y) /\ Older(y)' = Older(y)
  <2> SUFFICES ASSUME NEW y \in Sets \ {x} PROVE Resident(y)' = Resident(y) /\ Older(y)' = Older(y)
    OBVIOUS
  <2>1. cache'[y] = cache[y] BY <1>1
  <2>2. Invalid(y)' = Invalid(y) BY <2>1 DEF Invalid
  <2> QED BY <2>1, <2>2 DEF Resident, Older
<1>4. \A j \in V : cache'[x][j] = cache[x][j] BY <1>1
<1>5. cache'[x][i].tag = t /\ cache'[x][i].lru = lru_clock BY <1>1
<1>6. Resident(x)' = kept \cup {t}
  <2>1. Resident(x)' = {cache'[x][j].tag : j \in Lines \ Invalid(x)'} BY DEF Resident
  <2> QED BY <1>2, <1>4, <1>5, <2>1
<1>7. \A j \in V : cache[x][j].lru < lru_clock BY <1>0 DEF ClockOrders
<1>8. lru_clock \in Int /\ \A j \in V : cache[x][j].lru \in Int
  BY <1>0 DEF TypeOK, CacheLine, Clock
<1>9. ASSUME NEW e
      PROVE  e \in Older(x)' <=> e \in {p \in Older(x) : p[1] \in kept /\ p[2] \in kept} \cup (kept \X {t})
  <2>1. e \in Older(x)' <=> \E j, k \in V \cup {i} :
           e = <<cache'[x][j].tag, cache'[x][k].tag>> /\ cache'[x][j].lru < cache'[x][k].lru
    <3>1. e \in Older(x)' <=> \E j, k \in Lines \ Invalid(x)' :
           e = <<cache'[x][j].tag, cache'[x][k].tag>> /\ cache'[x][j].lru < cache'[x][k].lru
      <4> DEFINE W == Lines \ Invalid(x)'
                 c == cache'[x]
      <4>1. Older(x)' = {<<c[p[1]].tag, c[p[2]].tag>> : p \in {q \in W \X W : c[q[1]].lru < c[q[2]].lru}}
        BY DEF Older
      <4> HIDE DEF W, c
      <4>2. e \in Older(x)' <=> \E j, k \in W : e = <<c[j].tag, c[k].tag>> /\ c[j].lru < c[k].lru
        BY <4>1, PairsOfLines
      <4> QED BY <4>2 DEF W, c
    <3> QED BY <1>2, <3>1
  <2>2. e \in Older(x)' <=> \/ \E j, k \in V : e = <<cache[x][j].tag, cache[x][k].tag>>
                                           /\ cache[x][j].lru < cache[x][k].lru
                            \/ \E j \in V : e = <<cache[x][j].tag, t>>
    <3>1. ~(lru_clock < lru_clock) /\ \A j \in V : ~(lru_clock < cache[x][j].lru) BY <1>7, <1>8
    <3> HIDE DEF V
    <3> QED BY <1>4, <1>5, <1>7, <2>1, <3>1
  <2>3. (\E j \in V : e = <<cache[x][j].tag, t>>) <=> e \in kept \X {t} OBVIOUS
  <2>4. (\E j, k \in V : e = <<cache[x][j].tag, cache[x][k].tag>> /\ cache[x][j].lru < cache[x][k].lru)
        <=> e \in Older(x) /\ e[1] \in kept /\ e[2] \in kept
    <3>1. ASSUME NEW j \in V, NEW k \in V, e = <<cache[x][j].tag, cache[x][k].tag>>,
                 cache[x][j].lru < cache[x][k].lru
          PROVE  e \in Older(x) /\ e[1] \in kept /\ e[2] \in kept
      BY <3>1, OlderPairs
    <3>2. ASSUME e \in Older(x), e[1] \in kept, e[2] \in kept
          PROVE  \E j, k \in V : e = <<cache[x][j].tag, cache[x][k].tag>> /\ cache[x][j].lru < cache[x][k].lru
      <4>1. PICK j \in Lines \ Invalid(x), k \in Lines \ Invalid(x) :
              e = <<cache[x][j].tag, cache[x][k].tag>> /\ cache[x][j].lru < cache[x][k].lru
        BY <3>2, OlderPairs
      <4>2. PICK m \in V : cache[x][m].tag = cache[x][j].tag BY <3>2, <4>1
      <4>3. PICK n \in V : cache[x][n].tag = cache[x][k].tag BY <3>2, <4>1
      <4>4. m = j /\ n = k BY <1>0, <4>1, <4>2, <4>3 DEF BlocksUnique
      <4> QED BY <4>1, <4>4
    <3> QED BY <3>1, <3>2
  <2> QED BY <2>2, <2>3, <2>4
<1>10. Older(x)' = {p \in Older(x) : p[1] \in kept /\ p[2] \in kept} \cup (kept \X {t})
  <2> HIDE DEF kept
  <2> QED BY <1>9
<1> HIDE DEF kept
<1>11. [y \in Sets |-> Resident(y)]' = [[y \in Sets |-> Resident(y)] EXCEPT ![x] = kept \cup {t}]
  BY <1>3, <1>6
<1>12. [y \in Sets |-> Older(y)]'
         = [[y \in Sets |-> Older(y)] EXCEPT
              ![x] = {p \in @ : p[1] \in kept /\ p[2] \in kept} \cup (kept \X {t})]
  BY <1>3, <1>10
<1>13. Lru!Use(x, t, kept) BY <1>11, <1>12 DEF Lru!Use
<1> QED BY <1>13 DEF kept
LEMMA SameCardinality == \A T : Lru!Cardinality(T) = Cardinality(T)
BY DEF Lru!Cardinality, Cardinality

\* A call is a hit, a fill or a replacement of the abstract cache.
LEMMA AccessImplements ==
  ASSUME Ordered, NEW addr \in Addresses, accessCache(addr)
  PROVE  Lru!Next
<1> DEFINE x == SetIndex(addr)
           t == Tag(addr)
<1>0. /\ x \in Sets /\ t \in Tags
      /\ TypeOK /\ BlocksUnique /\ ClockOrders
      /\ {<<SetIndex(a), Tag(a)>> : a \in used}' = {<<x, t>>}
  BY AddressSplits DEF Ordered, Steady, accessCache
<1>1. PICK i \in Lines :
               /\ Load(x, i, t)
               /\ \/ /\ i \in Matching(x, t)
                     /\ hits' = hits + 1 /\ UNCHANGED <<misses, evictions>>
                  \/ /\ Matching(x, t) = {} /\ i \in Invalid(x)
                     /\ misses' = misses + 1 /\ UNCHANGED <<hits, evictions>>
                  \/ /\ Matching(x, t) = {} /\ Invalid(x) = {} /\ i \in MinLru(x)
                     /\ misses' = misses + 1 /\ evictions' = evictions + 1 /\ UNCHANGED hits
  BY <1>0, AccessWritesLine
<1> HIDE DEF x, t
<1> DEFINE V == Lines \ Invalid(x)
           kept == {cache[x][j].tag : j \in V \ {i}}
           R == Resident(x)
<1>2. \A j \in V : j # i => cache[x][j].tag # t
  BY <1>0, <1>1 DEF Matching, Invalid, BlocksUnique
<1>3. Lru!Use(x, t, kept) BY <1>0, <1>1, <1>2, LoadUses
<1>4. R = {cache[x][j].tag : j \in V} BY DEF Resident
<1>5. [y \in Sets |-> Resident(y)][x] = R /\ [y \in Sets |-> Older(y)][x] = Older(x) BY <1>0
<1>6. i \in V => kept = R \ {cache[x][i].tag} BY <1>0, <1>4 DEF BlocksUnique
<1>7. CASE i \in Matching(x, t) /\ hits' = hits + 1 /\ UNCHANGED <<misses, evictions>>
  <2>1. i \in V /\ cache[x][i].tag = t BY <1>7 DEF Matching, Invalid
  <2>2. t \in R BY <1>4, <2>1
  <2>3. kept = R \ {t} BY <1>6, <2>1
  <2> HIDE DEF R, kept
  <2>4. Lru!Hit(x, t) BY <1>3, <1>5, <1>7, <2>2, <2>3 DEF Lru!Hit
  <2> QED BY <1>0, <2>4 DEF Lru!Next
<1>8. CASE /\ Matching(x, t) = {} /\ i \in Invalid(x)
           /\ misses' = misses + 1 /\ UNCHANGED <<hits, evictions>>
  <2>1. t \notin R BY <1>4, <1>8 DEF Matching, Invalid
  <2>2. kept = R BY <1>4, <1>8
  <2>3. Cardinality(R) < E BY <1>0, <1>8, RoomIsInvalidLine
  <2> HIDE DEF R, kept
  <2> DEFINE abs == [y \in Sets |-> Resident(y)]
  <2>a. abs[x] = R BY <1>5
  <2>b. Lru!Use(x, t, abs[x]) BY <1>3, <2>2, <2>a
  <2>c. t \notin abs[x] /\ Cardinality(abs[x]) < E BY <2>1, <2>3, <2>a
  <2>4. Lru!Fill(x, t) BY <1>8, <2>b, <2>c, SameCardinality DEF Lru!Fill
  <2> QED BY <1>0, <2>4 DEF Lru!Next
<1>9. CASE /\ Matching(x, t) = {} /\ Invalid(x) = {} /\ i \in MinLru(x)
           /\ misses' = misses + 1 /\ evictions' = evictions + 1 /\ UNCHANGED hits
  <2> DEFINE v == cache[x][i].tag
  <2>1. t \notin R BY <1>4, <1>9 DEF Matching, Invalid
  <2>2. i \in V BY <1>9
  <2>3. v \in R /\ kept = R \ {v} BY <1>4, <1>6, <2>2
  <2>4. Cardinality(R) = E BY <1>0, <1>9, RoomIsInvalidLine
  <2>5. ASSUME NEW u \in R \ {v} PROVE <<v, u>> \in Older(x)
    <3>1. PICK j \in V : u = cache[x][j].tag BY <1>4
    <3>2. j # i BY <2>5, <3>1
    <3>3. cache[x][i].lru <= cache[x][j].lru /\ cache[x][i].lru # cache[x][j].lru
      BY <1>0, <1>9, <2>2, <3>2 DEF MinLru, ClockOrders
    <3>4. cache[x][i].lru \in Int /\ cache[x][j].lru \in Int
      BY <1>0 DEF TypeOK, CacheLine, Clock
    <3>5. cache[x][i].lru < cache[x][j].lru BY <3>3, <3>4
    <3> QED BY <2>2, <3>1, <3>5, OlderPairs
  <2> HIDE DEF R, kept, v
  <2> DEFINE abs == [y \in Sets |-> Resident(y)]
             absOlder == [y \in Sets |-> Older(y)]
  <2>a. abs[x] = R /\ absOlder[x] = Older(x) BY <1>5
  <2>b. Lru!Use(x, t, abs[x] \ {v}) BY <1>3, <2>3, <2>a
  <2>c. t \notin abs[x] /\ Cardinality(abs[x]) = E /\ v \in abs[x] BY <2>1, <2>3, <2>4, <2>a
  <2>d. \A u \in abs[x] \ {v} : <<v, u>> \in absOlder[x] BY <2>5, <2>a
  <2>6. Lru!Replace(x, t) BY <1>9, <2>b, <2>c, <2>d, SameCardinality DEF Lru!Replace
  <2> QED BY <1>0, <2>6 DEF Lru!Next
<1> QED BY <1>1, <1>7, <1>8, <1>9

\* On every trace an int can count, csim reports the hits, misses and evictions of a cache that
\* replaces the least recently used block.
THEOREM RefinesLruCacheCorrect ==
  ASSUME MaxAccesses <= ClockMax
  PROVE  Spec => RefinesLruCache
<1>1. Init => Lru!Init
  <2> SUFFICES ASSUME Init PROVE Lru!Init OBVIOUS
  <2>1. \A x \in Sets : Lines \ Invalid(x) = {} BY DEF Init, Invalid
  <2>2. \A x \in Sets : Resident(x) = {} BY <2>1 DEF Resident
  <2>3. \A x \in Sets : Older(x) = {}
    <3> SUFFICES ASSUME NEW x \in Sets, NEW e, e \in Older(x) PROVE FALSE OBVIOUS
    <3> QED BY <2>1, OlderPairs
  <2>4. {<<SetIndex(a), Tag(a)>> : a \in used} = {} BY DEF Init
  <2> QED BY <2>2, <2>3, <2>4 DEF Init, Lru!Init
<1>2. Ordered /\ [Next]_vars => [Lru!Next]_(Lru!vars)
  <2> SUFFICES ASSUME Ordered, [Next]_vars PROVE Lru!Next \/ UNCHANGED Lru!vars OBVIOUS
  <2>1. CASE Next
    <3>1. PICK addr \in Addresses : accessCache(addr)
      BY <2>1 DEF Next, LoadOrStore, Modify, ModifyAgain, Ordered, Steady, TypeOK
    <3> QED BY <3>1, AccessImplements
  <2>2. CASE UNCHANGED vars
    <3>1. [x \in Sets |-> Resident(x)]' = [x \in Sets |-> Resident(x)] BY <2>2 DEF vars, Resident, Invalid
    <3>2. [x \in Sets |-> Older(x)]' = [x \in Sets |-> Older(x)] BY <2>2 DEF vars, Older, Invalid
    <3>3. {<<SetIndex(a), Tag(a)>> : a \in used}' = {<<SetIndex(a), Tag(a)>> : a \in used} BY <2>2 DEF vars
    <3> QED BY <2>2, <3>1, <3>2, <3>3 DEF vars, Lru!vars
  <2> QED BY <2>1, <2>2
<1> QED BY <1>1, <1>2, OrderedInit, OrderedNext, PTL DEF Spec, RefinesLruCache, Lru!Spec

-----------------------------------------------------------------------------
(* A wider cache on the same trace *)

WideLines == 0 .. E

LEMMA WideOperators ==
  /\ Wide!Lines = WideLines /\ Wide!Sets = Sets /\ Wide!Tags = Tags
  /\ \A addr : Wide!SetIndex(addr) = SetIndex(addr) /\ Wide!Tag(addr) = Tag(addr)
  /\ \A I : Wide!Lowest(I) = Lowest(I)
  /\ Wide!Tick(lru_clock) = Tick(lru_clock)
<1>1. Wide!Lines = WideLines
  BY DEF Wide!Lines, WideLines
<1>2. \A addr : Wide!SetIndex(addr) = SetIndex(addr) /\ Wide!Tag(addr) = Tag(addr)
  BY DEF Wide!SetIndex, SetIndex, Wide!Tag, Tag
<1>3. Wide!Sets = Sets /\ Wide!Tags = Tags
  BY <1>2 DEF Wide!Sets, Sets, Wide!Tags, Tags
<1>4. \A I : Wide!Lowest(I) = Lowest(I)
  BY DEF Wide!Lowest, Lowest
<1>5. Wide!Tick(lru_clock) = Tick(lru_clock)
  BY DEF Wide!Tick, Tick
<1> QED BY <1>1, <1>2, <1>3, <1>4, <1>5

\* The valid lines of a set of each cache.
Valid(x) == {i \in Lines : cache[x][i].valid}
WideValid(x) == {k \in WideLines : wideCache[x][k].valid}
Same(x, i, k) == cache[x][i].tag = wideCache[x][k].tag /\ cache[x][i].lru = wideCache[x][k].lru
Before(x, k) == \A i \in Valid(x) : wideCache[x][k].lru < cache[x][i].lru

\* The wider set holds what the narrower one holds, last used at the same time; what else it holds
\* was used before all of that, and it holds no more than that until the narrower set is full.
Includes(x) == /\ \A i \in Valid(x) : \E k \in WideValid(x) : Same(x, i, k)
               /\ \A k \in WideValid(x) : \/ \E i \in Valid(x) : Same(x, i, k)
                                          \/ Valid(x) = Lines /\ Before(x, k)
WideTyped == wideCache \in [Sets -> [WideLines -> CacheLine]] /\ wideMisses \in Nat
WideUnique == \A x \in Sets : \A j, k \in WideValid(x) : wideCache[x][j].tag = wideCache[x][k].tag => j = k
Inclusion == /\ Ordered /\ WideTyped /\ WideUnique
             /\ \A x \in Sets : Includes(x)
             /\ wideMisses <= misses

\* What a call does to a set of lines: it writes a line that matches, or else one that is
\* invalid, or else one that is least recently used.
Chosen(c, L, t, i) ==
  \/ c[i].valid /\ c[i].tag = t
  \/ /\ \A j \in L : ~(c[j].valid /\ c[j].tag = t)
     /\ ~c[i].valid \/ \A j \in L : c[j].valid /\ c[i].lru <= c[j].lru
Missed(c, L, t) == \A j \in L : ~(c[j].valid /\ c[j].tag = t)

LEMMA NarrowAccess ==
  ASSUME TypeOK, NEW addr \in Addresses, accessCache(addr), NEW x, x = SetIndex(addr), NEW t, t = Tag(addr)
  PROVE  \E i \in Lines : /\ Chosen(cache[x], Lines, t, i)
                          /\ cache'[x][i] = [valid |-> TRUE, tag |-> t, lru |-> lru_clock]
                          /\ \A j \in Lines \ {i} : cache'[x][j] = cache[x][j]
                          /\ \A y \in Sets \ {x} : cache'[y] = cache[y]
                          /\ misses' = IF Missed(cache[x], Lines, t) THEN misses + 1 ELSE misses
<1>0. x \in Sets /\ t \in Tags BY AddressSplits
<1>1. PICK i \in Lines :
               /\ Load(x, i, t)
               /\ \/ /\ i \in Matching(x, t)
                     /\ hits' = hits + 1 /\ UNCHANGED <<misses, evictions>>
                  \/ /\ Matching(x, t) = {} /\ i \in Invalid(x)
                     /\ misses' = misses + 1 /\ UNCHANGED <<hits, evictions>>
                  \/ /\ Matching(x, t) = {} /\ Invalid(x) = {} /\ i \in MinLru(x)
                     /\ misses' = misses + 1 /\ evictions' = evictions + 1 /\ UNCHANGED hits
  BY AccessWritesLine
<1>2. /\ cache'[x][i] = [valid |-> TRUE, tag |-> t, lru |-> lru_clock]
      /\ \A j \in Lines \ {i} : cache'[x][j] = cache[x][j]
      /\ \A y \in Sets \ {x} : cache'[y] = cache[y]
  BY <1>0, <1>1, LoadPointwise
<1>3. Chosen(cache[x], Lines, t, i)
  BY <1>1 DEF Chosen, Matching, Invalid, MinLru
<1>4. Missed(cache[x], Lines, t) <=> Matching(x, t) = {}
  BY DEF Missed, Matching
<1> QED BY <1>1, <1>2, <1>3, <1>4

LEMMA WideMinLru ==
  ASSUME WideTyped, NEW x \in Sets
  PROVE  Wide!MinLru(x) # {}
<1> DEFINE T == {wideCache[x][i].lru + ClockMax + 1 : i \in WideLines}
<1>1. \A i \in WideLines : wideCache[x][i].lru \in Int /\ wideCache[x][i].lru + ClockMax + 1 \in Nat
  BY DEF WideTyped, CacheLine, Clock
<1>2. T \in SUBSET Nat /\ T # {} BY <1>1 DEF WideLines
<1>3. PICK m \in T : \A n \in T : m <= n
  <2> HIDE DEF T
  <2> QED BY <1>2, LeastElement
<1>4. PICK i \in WideLines : m = wideCache[x][i].lru + ClockMax + 1 BY <1>3
<1>5. \A j \in WideLines : wideCache[x][i].lru + ClockMax + 1 <= wideCache[x][j].lru + ClockMax + 1
  BY <1>3, <1>4
<1>6. \A j \in WideLines : wideCache[x][i].lru <= wideCache[x][j].lru BY <1>1, <1>4, <1>5
<1> QED BY <1>4, <1>6, WideOperators DEF Wide!MinLru

LEMMA WideAccess ==
  ASSUME WideTyped, NEW addr \in Addresses, Wide!accessCache(addr),
         NEW x, x = SetIndex(addr), NEW t, t = Tag(addr)
  PROVE  \E k \in WideLines : /\ Chosen(wideCache[x], WideLines, t, k)
                              /\ wideCache' = [wideCache EXCEPT ![x][k] =
                                                 [valid |-> TRUE, tag |-> t, lru |-> lru_clock]]
                              /\ wideMisses' = IF Missed(wideCache[x], WideLines, t)
                                               THEN wideMisses + 1 ELSE wideMisses
<1>0. x \in Sets /\ t \in Tags BY AddressSplits
<1>1. Wide!Hit(x, t) \/ Wide!Fill(x, t) \/ Wide!Evict(x, t)
  BY WideOperators DEF Wide!accessCache
<1>2. ASSUME NEW I \in SUBSET WideLines, I # {} PROVE Lowest(I) \in I
  <2>1. \E i \in I : \A j \in I : i <= j BY <1>2, LeastElement DEF WideLines
  <2> QED BY <2>1 DEF Lowest
<1>3. /\ Wide!Matching(x, t) = {k \in WideLines : wideCache[x][k].valid /\ wideCache[x][k].tag = t}
      /\ Wide!Invalid(x) = {k \in WideLines : ~wideCache[x][k].valid}
      /\ Wide!MinLru(x) = {k \in WideLines : \A j \in WideLines : wideCache[x][k].lru <= wideCache[x][j].lru}
  BY WideOperators DEF Wide!Matching, Wide!Invalid, Wide!MinLru
<1>4. Missed(wideCache[x], WideLines, t) <=> Wide!Matching(x, t) = {}
  BY <1>3 DEF Missed
<1>5. CASE Wide!Hit(x, t)
  <2>1. Lowest(Wide!Matching(x, t)) \in Wide!Matching(x, t)
    BY <1>2, <1>3, <1>5 DEF Wide!Hit
  <2> QED BY <1>3, <1>4, <1>5, <2>1, WideOperators DEF Wide!Hit, Wide!Load, Chosen
<1>6. CASE Wide!Fill(x, t)
  <2>1. Lowest(Wide!Invalid(x)) \in Wide!Invalid(x)
    BY <1>2, <1>3, <1>6 DEF Wide!Fill
  <2> QED BY <1>3, <1>4, <1>6, <2>1, WideOperators DEF Wide!Fill, Wide!Load, Chosen
<1>7. CASE Wide!Evict(x, t)
  <2>1. Lowest(Wide!MinLru(x)) \in Wide!MinLru(x)
    BY <1>0, <1>2, <1>3, WideMinLru
  <2>2. \A j \in WideLines : wideCache[x][j].valid
    BY <1>3, <1>7 DEF Wide!Evict
  <2> QED BY <1>3, <1>4, <1>7, <2>1, <2>2, WideOperators DEF Wide!Evict, Wide!Load, Chosen
<1> QED BY <1>1, <1>5, <1>6, <1>7

\* What is known of the lines of one set in both caches.
Lined(x) ==
  /\ \A i \in Valid(x) : /\ cache[x][i].lru \in Int /\ cache[x][i].lru < lru_clock
                         /\ \A j \in Valid(x) : \/ i = j
                                                \/ /\ cache[x][i].tag # cache[x][j].tag
                                                   /\ cache[x][i].lru # cache[x][j].lru
  /\ \A k \in WideValid(x) : wideCache[x][k].lru \in Int
  /\ lru_clock \in Int

LEMMA LinesOfBoth ==
  ASSUME Inclusion, NEW x \in Sets
  PROVE  Lined(x)
<1>1. TypeOK /\ BlocksUnique /\ ClockOrders /\ WideTyped BY DEF Inclusion, Ordered, Steady
<1>2. Lines \ Invalid(x) = Valid(x) BY DEF Valid, Invalid
<1>3. \A i \in Valid(x) : cache[x][i].lru \in Int BY <1>1 DEF Valid, TypeOK, CacheLine, Clock
<1>4. \A k \in WideValid(x) : wideCache[x][k].lru \in Int
  BY <1>1 DEF WideValid, WideTyped, CacheLine, Clock
<1>5. lru_clock \in Int BY <1>1 DEF TypeOK, Clock
<1> QED BY <1>1, <1>2, <1>3, <1>4, <1>5 DEF Lined, BlocksUnique, ClockOrders

\* While the narrower set is not full the wider one is not full either.
LEMMA WideHasRoom ==
  ASSUME NEW x \in Sets, Includes(x), WideUnique, Valid(x) # Lines
  PROVE  WideValid(x) # WideLines
<1> SUFFICES ASSUME WideValid(x) = WideLines PROVE FALSE OBVIOUS
<1> DEFINE partner == [k \in WideLines |-> CHOOSE i \in Valid(x) : Same(x, i, k)]
           V == Valid(x)
<1>1. \A k \in WideLines : \E i \in V : Same(x, i, k) BY DEF Includes
<1>2. \A k \in WideLines : partner[k] \in V /\ Same(x, partner[k], k) BY <1>1
<1>3. IsFiniteSet(Lines) /\ Cardinality(Lines) = E BY FS_Interval DEF Lines
<1>4. IsFiniteSet(WideLines) /\ Cardinality(WideLines) = E + 1 BY FS_Interval DEF WideLines
<1>5. V \in SUBSET Lines BY DEF Valid
<1>6. IsFiniteSet(V) /\ Cardinality(V) <= E /\ Cardinality(V) \in Nat
  BY <1>3, <1>5, FS_Subset, FS_CardinalityType
<1> HIDE DEF partner, V
<1>7. \A k \in WideLines : partner[k] \in V BY <1>2
<1>8. partner \in [WideLines -> V] BY <1>7 DEF partner
<1>9. PICK j, k \in WideLines : j # k /\ partner[j] = partner[k]
  <2>1. Cardinality(V) < Cardinality(WideLines) BY <1>4, <1>6
  <2> QED BY <1>4, <1>6, <1>8, <2>1, FS_PigeonHole
<1>10. wideCache[x][j].tag = wideCache[x][k].tag BY <1>2, <1>9 DEF Same
<1> QED BY <1>9, <1>10 DEF WideUnique

\* When the two caches choose lines i and k of a set, every other line of the narrower set keeps
\* its counterpart; and every other line of the wider set has one, or was used before all of them.
LEMMA ChoicesAgree ==
  ASSUME NEW x \in Sets, Includes(x), Lined(x), WideUnique, NEW t,
         NEW i \in Lines, Chosen(cache[x], Lines, t, i),
         NEW k \in WideLines, Chosen(wideCache[x], WideLines, t, k)
  PROVE  /\ \A a \in Valid(x) \ {i} : \E b \in WideValid(x) \ {k} : Same(x, a, b)
         /\ \A b \in WideValid(x) \ {k} :
              \/ \E a \in Valid(x) \ {i} : Same(x, a, b)
              \/ /\ Valid(x) \cup {i} = Lines
                 /\ wideCache[x][b].lru < lru_clock
                 /\ \A a \in Valid(x) \ {i} : wideCache[x][b].lru < cache[x][a].lru
         /\ Missed(wideCache[x], WideLines, t) => Missed(cache[x], Lines, t)
<1>1. Valid(x) \subseteq Lines /\ WideValid(x) \subseteq WideLines BY DEF Valid, WideValid
<1>2. CASE cache[x][i].valid /\ cache[x][i].tag = t
  <2>1. i \in Valid(x) BY <1>2 DEF Valid
  <2>2. PICK p \in WideValid(x) : Same(x, i, p) BY <2>1 DEF Includes
  <2>3. wideCache[x][p].valid /\ wideCache[x][p].tag = t BY <1>2, <2>2 DEF Same, WideValid
  <2>4. k \in WideValid(x) /\ wideCache[x][k].tag = t BY <1>1, <2>3 DEF Chosen, WideValid
  <2>5. \A b \in WideValid(x) : wideCache[x][b].tag = t => b = k BY <2>4 DEF WideUnique
  <2>6. \A a \in Valid(x) \ {i} : cache[x][a].tag # t BY <1>2, <2>1 DEF Lined
  <2>7. \A a \in Valid(x) \ {i} : \E b \in WideValid(x) \ {k} : Same(x, a, b)
    BY <2>4, <2>6 DEF Includes, Same
  <2>8. ASSUME NEW b \in WideValid(x) \ {k}
        PROVE  \/ \E a \in Valid(x) \ {i} : Same(x, a, b)
               \/ /\ Valid(x) \cup {i} = Lines
                  /\ wideCache[x][b].lru < lru_clock
                  /\ \A a \in Valid(x) \ {i} : wideCache[x][b].lru < cache[x][a].lru
    <3>1. CASE \E a \in Valid(x) : Same(x, a, b) BY <1>2, <2>5, <3>1 DEF Same
    <3>2. CASE Valid(x) = Lines /\ Before(x, b)
      <4>1. wideCache[x][b].lru < cache[x][i].lru BY <2>1, <3>2 DEF Before
      <4>2. wideCache[x][b].lru < lru_clock BY <2>1, <4>1 DEF Lined
      <4> QED BY <3>2, <4>2 DEF Before
    <3> QED BY <3>1, <3>2 DEF Includes
  <2>9. ~Missed(wideCache[x], WideLines, t) BY <1>1, <2>3 DEF Missed
  <2> QED BY <2>7, <2>8, <2>9
<1>3. CASE Missed(cache[x], Lines, t) /\ ~cache[x][i].valid
  <2>1. i \notin Valid(x) /\ Valid(x) # Lines BY <1>3 DEF Valid
  <2>2. \A b \in WideValid(x) : \E a \in Valid(x) : Same(x, a, b) BY <2>1 DEF Includes
  <2>3. k \notin WideValid(x)
    <3>1. ~(wideCache[x][k].valid /\ wideCache[x][k].tag = t)
      BY <1>1, <1>3, <2>2 DEF Missed, Same, Valid, WideValid
    <3>2. ~\A j \in WideLines : wideCache[x][j].valid BY <2>1, WideHasRoom DEF WideValid
    <3> QED BY <3>1, <3>2 DEF Chosen, WideValid
  <2> QED BY <1>3, <2>1, <2>2, <2>3 DEF Includes
<1>4. CASE Missed(cache[x], Lines, t) /\ \A j \in Lines : cache[x][j].valid /\ cache[x][i].lru <= cache[x][j].lru
  <2>1. Valid(x) = Lines /\ i \in Valid(x) BY <1>4 DEF Valid
  <2>2. \A a \in Valid(x) \ {i} : cache[x][i].lru < cache[x][a].lru BY <1>4, <2>1 DEF Lined
  <2>3. ASSUME NEW b \in WideValid(x) \ {k}
        PROVE  \/ \E a \in Valid(x) \ {i} : Same(x, a, b)
               \/ /\ Valid(x) \cup {i} = Lines
                  /\ wideCache[x][b].lru < lru_clock
                  /\ \A a \in Valid(x) \ {i} : wideCache[x][b].lru < cache[x][a].lru
    <3>1. CASE \E a \in Valid(x) \ {i} : Same(x, a, b) BY <3>1
    <3>2. CASE Same(x, i, b) BY <2>1, <2>2, <3>2 DEF Same, Lined
    <3>3. CASE Before(x, b)
      <4>1. wideCache[x][b].lru < cache[x][i].lru BY <2>1, <3>3 DEF Before
      <4>2. wideCache[x][b].lru < lru_clock BY <2>1, <4>1 DEF Lined
      <4> QED BY <2>1, <3>3, <4>2 DEF Before
    <3> QED BY <3>1, <3>2, <3>3 DEF Includes
  <2>4. ASSUME NEW a \in Valid(x) \ {i}, k \in WideValid(x), Same(x, a, k) PROVE FALSE
    <3>1. wideCache[x][k].tag # t BY <1>4, <2>1, <2>4 DEF Missed, Same
    <3>2. wideCache[x][k].valid BY <2>4 DEF WideValid
    <3>3. \A j \in WideLines : wideCache[x][k].lru <= wideCache[x][j].lru BY <3>1, <3>2 DEF Chosen
    <3>4. PICK p \in WideValid(x) : Same(x, i, p) BY <2>1 DEF Includes
    <3>5. cache[x][a].lru <= cache[x][i].lru BY <1>1, <2>4, <3>3, <3>4 DEF Same
    <3> QED BY <2>1, <2>2, <3>5 DEF Lined
  <2>5. \A a \in Valid(x) \ {i} : \E b \in WideValid(x) \ {k} : Same(x, a, b)
    BY <2>4 DEF Includes
  <2> QED BY <1>4, <2>3, <2>5
<1> QED BY <1>2, <1>3, <1>4 DEF Chosen, Missed

\* One call by both caches.
LEMMA BothAccess ==
  ASSUME Inclusion, NEW addr \in Addresses, accessCache(addr), Wide!accessCache(addr)
  PROVE  /\ WideTyped' /\ WideUnique'
         /\ \A y \in Sets : Includes(y)'
         /\ wideMisses' <= misses'
<1> DEFINE x == SetIndex(addr)
           t == Tag(addr)
           new == [valid |-> TRUE, tag |-> t, lru |-> lru_clock]
<1>0. /\ x \in Sets /\ t \in Tags
      /\ TypeOK /\ WideTyped /\ WideUnique /\ Includes(x) /\ Lined(x)
      /\ misses \in Nat /\ wideMisses \in Nat /\ wideMisses <= misses
  BY AddressSplits, LinesOfBoth DEF Inclusion, Ordered, Steady, TypeOK, WideTyped
<1>n. new \in CacheLine /\ new.valid /\ new.tag = t /\ new.lru = lru_clock
  BY <1>0 DEF CacheLine, TypeOK
<1>1. PICK i \in Lines : /\ Chosen(cache[x], Lines, t, i)
                         /\ cache'[x][i] = new
                         /\ \A j \in Lines \ {i} : cache'[x][j] = cache[x][j]
                         /\ \A y \in Sets \ {x} : cache'[y] = cache[y]
                         /\ misses' = IF Missed(cache[x], Lines, t) THEN misses + 1 ELSE misses
  BY <1>0, NarrowAccess
<1>2. PICK k \in WideLines : /\ Chosen(wideCache[x], WideLines, t, k)
                             /\ wideCache' = [wideCache EXCEPT ![x][k] = new]
                             /\ wideMisses' = IF Missed(wideCache[x], WideLines, t)
                                              THEN wideMisses + 1 ELSE wideMisses
  BY <1>0, WideAccess
<1> HIDE DEF x, t, new
<1>3. /\ wideCache' \in [Sets -> [WideLines -> CacheLine]]
      /\ wideCache'[x][k] = new
      /\ \A j \in WideLines \ {k} : wideCache'[x][j] = wideCache[x][j]
      /\ \A y \in Sets \ {x} : wideCache'[y] = wideCache[y]
  BY <1>0, <1>2, <1>n DEF WideTyped
<1>4. WideTyped' BY <1>0, <1>2, <1>3 DEF WideTyped
<1>5. /\ Valid(x)' = Valid(x) \cup {i}
      /\ WideValid(x)' = WideValid(x) \cup {k}
      /\ \A y \in Sets \ {x} : Valid(y)' = Valid(y) /\ WideValid(y)' = WideValid(y)
  <2>1. Valid(x)' = {j \in Lines : cache'[x][j].valid} BY DEF Valid
  <2>2. WideValid(x)' = {j \in WideLines : wideCache'[x][j].valid} BY DEF WideValid
  <2>3. Valid(x)' = Valid(x) \cup {i} BY <1>1, <1>n, <2>1 DEF Valid
  <2>4. WideValid(x)' = WideValid(x) \cup {k} BY <1>3, <1>n, <2>2 DEF WideValid
  <2>5. ASSUME NEW y \in Sets \ {x} PROVE Valid(y)' = Valid(y) /\ WideValid(y)' = WideValid(y)
    BY <1>1, <1>3 DEF Valid, WideValid
  <2> QED BY <2>3, <2>4, <2>5
<1>6. \A j \in WideValid(x) \ {k} : wideCache[x][j].tag # t
  <2>1. CASE wideCache[x][k].valid /\ wideCache[x][k].tag = t
    BY <1>0, <2>1 DEF WideUnique, WideValid
  <2>2. CASE ~(wideCache[x][k].valid /\ wideCache[x][k].tag = t)
    BY <1>2, <2>2 DEF Chosen, WideValid
  <2> QED BY <2>1, <2>2
<1>7. WideUnique'
  <2> SUFFICES ASSUME NEW y \in Sets, NEW j \in WideValid(y)', NEW m \in WideValid(y)',
                      wideCache'[y][j].tag = wideCache'[y][m].tag
               PROVE  j = m
    BY DEF WideUnique
  <2>1. CASE y # x BY <1>0, <1>3, <1>5, <2>1 DEF WideUnique
  <2>2. CASE y = x
    <3>1. \A b \in WideValid(x) \ {k} : b \in WideLines \ {k} BY DEF WideValid
    <3>2. \A b \in WideValid(x) \ {k} : wideCache'[x][b] = wideCache[x][b] BY <1>3, <3>1
    <3> QED BY <1>0, <1>3, <1>5, <1>6, <1>n, <2>2, <3>2 DEF WideUnique
  <2> QED BY <2>1, <2>2
<1>8. /\ \A a \in Valid(x) \ {i} : \E b \in WideValid(x) \ {k} : Same(x, a, b)
      /\ \A b \in WideValid(x) \ {k} :
           \/ \E a \in Valid(x) \ {i} : Same(x, a, b)
           \/ /\ Valid(x) \cup {i} = Lines
              /\ wideCache[x][b].lru < lru_clock
              /\ \A a \in Valid(x) \ {i} : wideCache[x][b].lru < cache[x][a].lru
      /\ Missed(wideCache[x], WideLines, t) => Missed(cache[x], Lines, t)
  BY <1>0, <1>1, <1>2, ChoicesAgree
<1>9. wideMisses' <= misses' BY <1>0, <1>1, <1>2, <1>8
<1>10. /\ \A a \in Valid(x) \ {i} : cache'[x][a] = cache[x][a]
       /\ \A b \in WideValid(x) \ {k} : wideCache'[x][b] = wideCache[x][b]
  BY <1>1, <1>3 DEF Valid, WideValid
<1>11. \A a \in Valid(x) \ {i}, b \in WideValid(x) \ {k} : Same(x, a, b) => Same(x, a, b)'
  BY <1>10 DEF Same
<1>12. Same(x, i, k)' BY <1>1, <1>3 DEF Same
<1>13. Includes(x)'
  <2>1. ASSUME NEW a \in Valid(x)' PROVE \E b \in WideValid(x)' : Same(x, a, b)'
    <3>1. CASE a = i BY <1>5, <1>12, <3>1
    <3>2. CASE a \in Valid(x) \ {i}
      <4>1. PICK b \in WideValid(x) \ {k} : Same(x, a, b) BY <1>8, <3>2
      <4>2. Same(x, a, b)' BY <1>11, <3>2, <4>1
      <4> QED BY <1>5, <4>2
    <3> QED BY <1>5, <3>1, <3>2
  <2>2. ASSUME NEW b \in WideValid(x)'
        PROVE  \/ \E a \in Valid(x)' : Same(x, a, b)'
               \/ Valid(x)' = Lines /\ Before(x, b)'
    <3>1. CASE b = k BY <1>5, <1>12, <3>1
    <3>2. CASE b \in WideValid(x) \ {k}
      <4>1. CASE \E a \in Valid(x) \ {i} : Same(x, a, b)
        <5>1. PICK a \in Valid(x) \ {i} : Same(x, a, b) BY <4>1
        <5>2. Same(x, a, b)' BY <1>11, <3>2, <5>1
        <5> QED BY <1>5, <5>2
      <4>2. CASE /\ Valid(x) \cup {i} = Lines
                 /\ wideCache[x][b].lru < lru_clock
                 /\ \A a \in Valid(x) \ {i} : wideCache[x][b].lru < cache[x][a].lru
        <5>1. \A a \in Valid(x) \cup {i} : wideCache'[x][b].lru < cache'[x][a].lru
          BY <1>1, <1>10, <1>n, <3>2, <4>2
        <5>2. Before(x, b)' BY <1>5, <5>1 DEF Before
        <5> QED BY <1>5, <4>2, <5>2
      <4> QED BY <1>8, <3>2, <4>1, <4>2
    <3> QED BY <1>5, <3>1, <3>2
  <2> QED BY <2>1, <2>2 DEF Includes
<1>14. ASSUME NEW y \in Sets \ {x} PROVE Includes(y)'
  <2>1. cache'[y] = cache[y] /\ wideCache'[y] = wideCache[y] BY <1>1, <1>3
  <2>2. \A a, b : Same(y, a, b)' <=> Same(y, a, b) BY <2>1 DEF Same
  <2>3. \A b : Before(y, b)' <=> Before(y, b) BY <1>5, <2>1 DEF Before
  <2>4. Includes(y) BY DEF Inclusion
  <2> QED BY <1>5, <2>2, <2>3, <2>4 DEF Includes
<1> QED BY <1>4, <1>7, <1>9, <1>13, <1>14

LEMMA InclusionInit == BothInit => Inclusion
<1> SUFFICES ASSUME BothInit PROVE Inclusion OBVIOUS
<1>1. Ordered BY OrderedInit DEF BothInit
<1>2. /\ wideCache = [x \in Sets |-> [k \in WideLines |-> [valid |-> FALSE, tag |-> 0, lru |-> 0]]]
      /\ wideMisses = 0
  BY WideOperators DEF BothInit, Wide!Init
<1>3. \A x \in Sets : Valid(x) = {} /\ WideValid(x) = {}
  BY <1>2 DEF BothInit, Init, Valid, WideValid
<1>4. WideTyped BY <1>2 DEF WideTyped, CacheLine, Clock
<1>5. WideUnique /\ \A x \in Sets : Includes(x) BY <1>3 DEF WideUnique, Includes
<1>6. wideMisses <= misses BY <1>2 DEF BothInit, Init
<1> QED BY <1>1, <1>4, <1>5, <1>6 DEF Inclusion

LEMMA InclusionNext ==
  ASSUME MaxAccesses <= ClockMax
  PROVE  Inclusion /\ [BothNext]_bothVars => Inclusion'
<1> SUFFICES ASSUME Inclusion, [BothNext]_bothVars PROVE Inclusion' OBVIOUS
<1>1. CASE BothNext
  <2>1. Next BY <1>1 DEF BothNext, Next
  <2>2. Ordered' BY <2>1, OrderedNext DEF Inclusion
  <2>3. PICK addr \in Addresses : accessCache(addr) /\ Wide!accessCache(addr)
    <3>1. ASSUME NEW addr \in Addresses, LoadOrStore(addr) /\ Wide!LoadOrStore(addr)
          PROVE  accessCache(addr) /\ Wide!accessCache(addr)
      BY <3>1 DEF LoadOrStore, Wide!LoadOrStore
    <3>2. ASSUME NEW addr \in Addresses, Modify(addr) /\ Wide!Modify(addr)
          PROVE  accessCache(addr) /\ Wide!accessCache(addr)
      BY <3>2 DEF Modify, Wide!Modify
    <3>3. CASE ModifyAgain /\ Wide!ModifyAgain
      <4>1. PICK a \in again : accessCache(a) BY <3>3 DEF ModifyAgain
      <4>2. PICK b \in again : Wide!accessCache(b) BY <3>3 DEF Wide!ModifyAgain
      <4>3. used' = {a} BY <4>1 DEF accessCache
      <4>4. used' = {b} BY <4>2 DEF Wide!accessCache
      <4>5. a = b /\ a \in Addresses BY <4>1, <4>3, <4>4 DEF Inclusion, Ordered, Steady, TypeOK
      <4> QED BY <4>1, <4>2, <4>5
    <3> QED BY <1>1, <3>1, <3>2, <3>3 DEF BothNext
  <2> QED BY <2>2, <2>3, BothAccess DEF Inclusion
<1>2. CASE UNCHANGED bothVars
  <2>1. UNCHANGED <<vars, cache, misses, wideCache, wideMisses>> BY <1>2 DEF bothVars, vars
  <2>2. Ordered' BY <2>1, OrderedNext DEF Inclusion
  <2>3. \A x : Valid(x)' = Valid(x) /\ WideValid(x)' = WideValid(x) BY <2>1 DEF Valid, WideValid
  <2>4. \A x, i, k : (Same(x, i, k)' <=> Same(x, i, k)) /\ (Before(x, k)' <=> Before(x, k))
    BY <2>1, <2>3 DEF Same, Before
  <2>5. \A x \in Sets : Includes(x)' BY <2>3, <2>4 DEF Includes, Inclusion
  <2>6. WideTyped' BY <2>1 DEF WideTyped, Inclusion
  <2>7. WideUnique' BY <2>1, <2>3 DEF WideUnique, Inclusion
  <2>8. wideMisses' <= misses' BY <2>1 DEF Inclusion
  <2> QED BY <2>2, <2>5, <2>6, <2>7, <2>8 DEF Inclusion
<1> QED BY <1>1, <1>2

\* On every trace an int can count, and for every geometry, the cache with one more line in each
\* set holds every block the narrower one holds and misses no more often.
THEOREM WiderHoldsMoreCorrect ==
  ASSUME MaxAccesses <= ClockMax
  PROVE  BothSpec => []WiderHoldsMore
<1>1. Inclusion => WiderHoldsMore
  <2> SUFFICES ASSUME Inclusion, NEW x \in Sets, NEW b \in Resident(x) PROVE b \in Wide!Resident(x)
    BY DEF WiderHoldsMore, Inclusion
  <2>1. PICK i \in Valid(x) : b = cache[x][i].tag BY DEF Resident, Invalid, Valid
  <2>2. PICK k \in WideValid(x) : Same(x, i, k) BY <2>1 DEF Inclusion, Includes
  <2>3. k \in WideLines \ Wide!Invalid(x) BY WideOperators DEF WideValid, Wide!Invalid
  <2> QED BY <2>1, <2>2, <2>3, WideOperators DEF Wide!Resident, Same
<1> QED BY <1>1, InclusionInit, InclusionNext, PTL DEF BothSpec
=============================================================================
