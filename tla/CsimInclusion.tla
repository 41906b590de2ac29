--------------------------- MODULE CsimInclusion ---------------------------
(***************************************************************************)
(* Two runs of csim.c on the same trace, with E and with E + 1 lines per   *)
(* set.                                                                    *)
(***************************************************************************)
EXTENDS Csim

VARIABLES wideCache, wideHits, wideMisses, wideEvictions
bothVars == <<vars, wideCache, wideHits, wideMisses, wideEvictions>>

Wide == INSTANCE Csim WITH E <- E + 1, cache <- wideCache, hits <- wideHits,
                           misses <- wideMisses, evictions <- wideEvictions

BothInit == Init /\ Wide!Init
BothNext == \/ \E addr \in Addresses : \/ LoadOrStore(addr) /\ Wide!LoadOrStore(addr)
                                       \/ Modify(addr) /\ Wide!Modify(addr)
            \/ ModifyAgain /\ Wide!ModifyAgain
BothSpec == BothInit /\ [][BothNext]_bothVars

\* Least-recently-used replacement has no anomaly: on the same trace a wider set holds every
\* block the narrower one holds, and so never misses where the narrower one hits.
WiderHoldsMore == /\ \A x \in Sets : Resident(x) \subseteq Wide!Resident(x)
                  /\ wideMisses <= misses
=============================================================================
