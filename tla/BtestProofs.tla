---------------------------- MODULE BtestProofs ----------------------------
(***************************************************************************)
(* btest gives no credit that was not earned and charges no right function *)
(* except for time, for words and floats of any width, any selection of    *)
(* puzzles, and students, options and draws of any kind.                   *)
(***************************************************************************)
EXTENDS Btest, NatLemmas, FiniteSetTheorems, TLAPS

-----------------------------------------------------------------------------
(* The values of an argument: a list that is never empty. *)

List(s) == \E S : s \in Seq(S)
Filled(s) == List(s) /\ Len(s) >= 1

LEMMA Joined ==
  ASSUME NEW s, NEW t, List(s), List(t)
  PROVE  List(s \o t) /\ Len(s \o t) = Len(s) + Len(t) /\ Len(s) \in Nat /\ Len(t) \in Nat
<1>1. PICK S : s \in Seq(S) BY DEF List
<1>2. PICK T : t \in Seq(T) BY DEF List
<1>3. s \in Seq(S \cup T) /\ t \in Seq(S \cup T) BY <1>1, <1>2
<1>4. s \o t \in Seq(S \cup T) /\ Len(s \o t) = Len(s) + Len(t) /\ Len(s) \in Nat /\ Len(t) \in Nat BY <1>3
<1> QED BY <1>4 DEF List

LEMMA Short == /\ List(<<>>) /\ Len(<<>>) = 0
               /\ \A x : List(<<x>>) /\ Len(<<x>>) = 1
               /\ \A x, y : List(<<x, y>>) /\ Len(<<x, y>>) = 2
<1>1. List(<<>>)
  <2>1. <<>> \in Seq({}) OBVIOUS
  <2> QED BY <2>1 DEF List
<1>2. ASSUME NEW x PROVE List(<<x>>)
  <2>1. <<x>> \in Seq({x}) OBVIOUS
  <2> QED BY <2>1 DEF List
<1>3. ASSUME NEW x, NEW y PROVE List(<<x, y>>)
  <2>1. <<x, y>> \in Seq({x, y}) OBVIOUS
  <2> QED BY <2>1 DEF List
<1> QED BY <1>1, <1>2, <1>3

\* A list built block by block, as the recursive functions of gen_vals build it.
Build(n, blocks, g) == [k \in 0 .. n |-> IF k = 0 THEN <<>> ELSE g[k - 1] \o blocks[k - 1]]

LEMMA Buildable ==
  ASSUME NEW n \in Nat, NEW blocks
  PROVE  \E g : g = Build(n, blocks, g)
<1> DEFINE S == {m \in Nat : \E g : g = Build(m, blocks, g)}
<1>1. 0 \in S
  <2> DEFINE g == [k \in 0 .. 0 |-> <<>>]
  <2>1. g = Build(0, blocks, g) BY DEF Build
  <2> HIDE DEF g
  <2> QED BY <2>1
<1>2. ASSUME NEW m \in Nat, m \in S PROVE m + 1 \in S
  <2>1. PICK f : f = Build(m, blocks, f) BY <1>2
  <2> DEFINE g == [k \in 0 .. m + 1 |-> IF k <= m THEN f[k] ELSE f[m] \o blocks[m]]
  <2>2. \A k \in 0 .. m + 1 : g[k] = IF k = 0 THEN <<>> ELSE g[k - 1] \o blocks[k - 1]
    <3> TAKE k \in 0 .. m + 1
    <3>0. f = [j \in 0 .. m |-> IF j = 0 THEN <<>> ELSE f[j - 1] \o blocks[j - 1]] BY <2>1 DEF Build
    <3>1. CASE k = 0 BY <3>0, <3>1
    <3>2. CASE k # 0 /\ k <= m
      <4>1. k - 1 \in 0 .. m + 1 /\ k - 1 <= m /\ k \in 0 .. m BY <3>2
      <4>2. g[k - 1] = f[k - 1] /\ g[k] = f[k] BY <3>2, <4>1
      <4>3. f[k] = f[k - 1] \o blocks[k - 1] BY <3>0, <3>2, <4>1, Zenon
      <4> QED BY <3>2, <4>2, <4>3
    <3>3. CASE k = m + 1
      <4>1. (m + 1) - 1 = m /\ m + 1 # 0 /\ m \in 0 .. m + 1 /\ m + 1 \in 0 .. m + 1 /\ ~(m + 1 <= m) OBVIOUS
      <4>2. g[m] = f[m] BY <4>1, m <= m, Zenon
      <4>3. g[m + 1] = f[m] \o blocks[m] BY <4>1, Zenon
      <4> QED BY <3>3, <4>1, <4>2, <4>3, Zenon
    <3> QED BY <3>1, <3>2, <3>3
  <2>3. g = Build(m + 1, blocks, g)
    <3>1. g = [k \in 0 .. m + 1 |-> g[k]] OBVIOUS
    <3> HIDE DEF g
    <3> QED BY <2>2, <3>1 DEF Build
  <2> HIDE DEF g
  <2> QED BY <2>3
<1> HIDE DEF S
<1>3. Nat \subseteq S BY <1>1, <1>2, SetInduction
<1> QED BY <1>3 DEF S

LEMMA BuiltList ==
  ASSUME NEW n \in Nat, NEW blocks, \A k \in 0 .. n - 1 : Filled(blocks[k]),
         NEW g, g = Build(n, blocks, g)
  PROVE  List(g[n]) /\ (n # 0 => Len(g[n]) >= 1)
<1>1. \A k \in 0 .. n : g[k] = IF k = 0 THEN <<>> ELSE g[k - 1] \o blocks[k - 1] BY Zenon DEF Build
<1> DEFINE S == {k \in Nat : k <= n => List(g[k]) /\ (k # 0 => Len(g[k]) >= 1)}
<1>2. 0 \in S
  <2>1. g[0] = <<>> BY <1>1
  <2> QED BY <2>1, Short
<1>3. ASSUME NEW k \in Nat, k \in S PROVE k + 1 \in S
  <2> SUFFICES ASSUME k + 1 <= n PROVE List(g[k + 1]) /\ Len(g[k + 1]) >= 1 OBVIOUS
  <2>1. k \in 0 .. n - 1 /\ k + 1 \in 0 .. n /\ k + 1 # 0 /\ (k + 1) - 1 = k OBVIOUS
  <2>2. g[k + 1] = g[k] \o blocks[k] BY <1>1, <2>1
  <2>3. List(g[k]) BY <1>3
  <2>4. Filled(blocks[k]) BY <2>1
  <2>5. List(g[k + 1]) /\ Len(g[k + 1]) = Len(g[k]) + Len(blocks[k]) /\ Len(g[k]) \in Nat /\ Len(blocks[k]) \in Nat
    BY <2>2, <2>3, <2>4, Joined DEF Filled
  <2>6. Len(blocks[k]) >= 1 BY <2>4 DEF Filled
  <2> HIDE DEF S
  <2>7. \A a, b \in Nat : b >= 1 => a + b >= 1 OBVIOUS
  <2>8. Len(g[k + 1]) >= 1 BY <2>5, <2>6, <2>7, Zenon
  <2> QED BY <2>5, <2>8
<1> HIDE DEF S
<1>4. Nat \subseteq S BY <1>2, <1>3, SetInduction
<1> QED BY <1>4 DEF S

LEMMA Powers == /\ TMin \in Int /\ TMax \in Int /\ TMin <= TMax /\ 1 <= TMax /\ W >= 4 /\ W \in Nat
<1>1. W >= 4 /\ W \in Nat BY WidthAssumption DEF W
<1>2. PICK p \in Nat : p = 2^(W - 1) /\ p >= 2 BY PowersAssumption
<1>3. TMin = -p /\ TMax = p - 1 BY <1>2 DEF TMin, TMax
<1> QED BY <1>1, <1>2, <1>3

\* What decl.c says of every puzzle.
LEMMA Ranges ==
  ASSUME NEW name \in Puzzles
  PROVE  /\ ArgRanges(name) \in Seq(Int \X Int)
         /\ Len(ArgRanges(name)) \in 0 .. 3
         /\ \A k \in 1 .. Len(ArgRanges(name)) : ArgRanges(name)[k][1] <= ArgRanges(name)[k][2]
<1> DEFINE P == {r \in Int \X Int : r[1] <= r[2]}
<1>1. AnyInt \in P BY Powers DEF AnyInt
<1>2. <<1, TMax>> \in P /\ <<1, 1>> \in P /\ <<0, 3>> \in P BY Powers
<1>3. <<0, W - 1>> \in P /\ <<1, W>> \in P /\ <<0, W - 2>> \in P BY Powers
<1> HIDE DEF P
<1>4. ArgRanges(name) \in Seq(P) /\ Len(ArgRanges(name)) \in 0 .. 3
  <2>1. CASE name = "tmin"
    <3>1. ArgRanges(name) = <<>> BY <2>1 DEF ArgRanges
    <3> QED BY <3>1
  <2>2. CASE name \in {"bitCount", "negate", "howManyBits"}
    <3>1. ArgRanges(name) = <<AnyInt>> BY <2>2 DEF ArgRanges
    <3> QED BY <1>1, <3>1
  <2>3. CASE name = "intLog2"
    <3>1. ArgRanges(name) = << <<1, TMax>> >> BY <2>3 DEF ArgRanges
    <3> QED BY <1>2, <3>1
  <2>4. CASE name \in {"floatAbsVal", "floatScale1d2", "floatFloat2Int"}
    <3>1. ArgRanges(name) = << <<1, 1>> >> BY <2>4 DEF ArgRanges
    <3> QED BY <1>2, <3>1
  <2>5. CASE name \in {"bitXor", "isLessOrEqual"}
    <3>1. ArgRanges(name) = <<AnyInt, AnyInt>> BY <2>5 DEF ArgRanges
    <3> QED BY <1>1, <3>1
  <2>6. CASE name \in {"getByte", "logicalShift", "fitsBits", "dividePower2"}
    <3>1. \E r \in P : ArgRanges(name) = <<AnyInt, r>> BY <1>2, <1>3, <2>6 DEF ArgRanges
    <3> QED BY <1>1, <3>1
  <2>7. CASE name = "conditional"
    <3>1. ArgRanges(name) = <<AnyInt, AnyInt, AnyInt>> BY <2>7 DEF ArgRanges
    <3> QED BY <1>1, <3>1
  <2> QED BY <2>1, <2>2, <2>3, <2>4, <2>5, <2>6, <2>7 DEF Puzzles
<1>5. P \subseteq Int \X Int /\ \A r \in P : r[1] <= r[2] BY DEF P
<1> QED BY <1>4, <1>5

\* arg_test_range is the integer root of TEST_RANGE.
LEMMA RootPositive == ASSUME NEW k \in {1, 2, 3} PROVE Root(k) \in Nat \ {0}
<1> DEFINE Above == {r \in Nat : Power(r + 1, k) > TEST_RANGE}
<1>1. TEST_RANGE \in Nat \ {0} BY TestAssumption
<1>2. \A r \in Nat : Power(r, k) \in Nat /\ (r >= 1 => Power(r, k) >= r)
  <2> TAKE r \in Nat
  <2>1. r * r \in Nat /\ (r >= 1 => r * r >= r) OBVIOUS
  <2>2. (r * r) * r \in Nat /\ (r >= 1 => (r * r) * r >= r * r) BY <2>1
  <2> QED BY <2>1, <2>2 DEF Power
<1>3. TEST_RANGE \in Above
  <2>1. TEST_RANGE + 1 \in Nat /\ TEST_RANGE + 1 >= 1 BY <1>1
  <2>2. Power(TEST_RANGE + 1, k) \in Nat /\ Power(TEST_RANGE + 1, k) >= TEST_RANGE + 1 BY <1>2, <2>1
  <2> QED BY <1>1, <2>2
<1>4. PICK r \in Above : \A s \in Above : r <= s BY <1>3, LeastElement
<1>5. r >= 1
  <2>1. Power(0 + 1, k) = 1 BY DEF Power
  <2>2. 0 \notin Above BY <1>1, <2>1
  <2> QED BY <1>4, <2>2
<1>6. r <= TEST_RANGE BY <1>3, <1>4
<1>7. Power(r, k) <= TEST_RANGE
  <2>1. r - 1 \in Nat /\ ~(r <= r - 1) /\ (r - 1) + 1 = r BY <1>5
  <2>2. r - 1 \notin Above BY <1>4, <2>1
  <2>3. ~(Power(r, k) > TEST_RANGE) BY <2>1, <2>2
  <2> QED BY <1>1, <1>2, <2>3
<1>8. r \in 1 .. TEST_RANGE /\ Power(r, k) <= TEST_RANGE /\ TEST_RANGE < Power(r + 1, k)
  BY <1>1, <1>2, <1>4, <1>5, <1>6, <1>7
<1> HIDE DEF Above
<1>9. Root(k) \in 1 .. TEST_RANGE BY <1>8 DEF Root
<1> QED BY <1>1, <1>9

LEMMA FloatFilled == ASSUME NEW t \in Nat \ {0} PROVE Filled(FloatVals(t))
<1> DEFINE n == IF t > 2^FRAC THEN 2^FRAC ELSE t
           small == 2^FRAC
           one == BIAS * 2^FRAC
           large == (2^EXP - 2) * 2^FRAC
           both(u) == <<Wrap(u), Wrap(u + 2^(W - 1))>>
           around(k) == both(k) \o both(small + k) \o both(small - k)
                          \o both(one + k) \o both(one - k) \o both(large - k)
           F(g) == [k \in 0 .. n |-> IF k = 0 THEN <<>> ELSE g[k - 1] \o around(k - 1)]
           vals == CHOOSE g : g = F(g)
           blocks == [k \in 0 .. n - 1 |-> around(k)]
<1>1. FloatVals(t) = vals[n] \o both(Infinity) \o both(Infinity + 2^(FRAC - 1)) BY Zenon DEF FloatVals
<1>2. n \in Nat
  <2>1. 2^FRAC \in Nat BY PowersAssumption
  <2> QED BY <2>1
<1>3. \A u : List(both(u)) /\ Len(both(u)) = 2 BY Short, Zenon
<1> HIDE DEF both, n
<1>4. \A k : Filled(around(k))
  <2> TAKE k
  <2>1. \A s : \A u : Filled(s) => Filled(s \o both(u))
    <3> TAKE s
    <3> TAKE u
    <3> SUFFICES ASSUME Filled(s) PROVE Filled(s \o both(u)) OBVIOUS
    <3>1. List(s) /\ Len(s) >= 1 BY DEF Filled
    <3>2. List(s \o both(u)) /\ Len(s \o both(u)) = Len(s) + Len(both(u)) /\ Len(s) \in Nat /\ Len(both(u)) \in Nat
      BY <1>3, <3>1, Joined
    <3>3. \A a, b \in Nat : a >= 1 => a + b >= 1 OBVIOUS
    <3>4. Len(s \o both(u)) >= 1 BY <3>1, <3>2, <3>3, Zenon
    <3> QED BY <3>2, <3>4 DEF Filled
  <2>2. \A u : Filled(both(u))
    <3>1. 2 >= 1 OBVIOUS
    <3> QED BY <1>3, <3>1, Zenon DEF Filled
  <2> QED BY <2>1, <2>2, Zenon
<1> HIDE DEF around
<1>5. \A g : F(g) = Build(n, blocks, g)
  <2> TAKE g
  <2>1. \A k \in 0 .. n : k # 0 => blocks[k - 1] = around(k - 1)
    <3> TAKE k \in 0 .. n
    <3>1. k # 0 => k - 1 \in 0 .. n - 1 BY <1>2
    <3> QED BY <3>1
  <2> HIDE DEF blocks
  <2> QED BY <2>1 DEF Build
<1> HIDE DEF F
<1>6. vals = F(vals)
  <2>1. \E g : g = Build(n, blocks, g) BY <1>2, Buildable
  <2>2. \E g : g = F(g) BY <1>5, <2>1, Zenon
  <2> QED BY <2>2, Zenon
<1> HIDE DEF vals
<1>7. List(vals[n])
  <2>1. vals = Build(n, blocks, vals) BY <1>5, <1>6, Zenon
  <2>2. \A k \in 0 .. n - 1 : Filled(blocks[k]) BY <1>4
  <2> HIDE DEF blocks
  <2> QED BY <1>2, <2>1, <2>2, BuiltList
<1> DEFINE s == vals[n] \o both(Infinity)
<1>8. List(s) /\ Len(s) = Len(vals[n]) + 2 /\ Len(vals[n]) \in Nat BY <1>3, <1>7, Joined
<1> HIDE DEF s
<1>9. List(s \o both(Infinity + 2^(FRAC - 1))) /\ Len(s \o both(Infinity + 2^(FRAC - 1))) = Len(s) + 2 /\ Len(s) \in Nat
  BY <1>3, <1>8, Joined
<1>10. Filled(s \o both(Infinity + 2^(FRAC - 1)))
  <2>1. \A a \in Nat : a + 2 >= 1 OBVIOUS
  <2>2. Len(s \o both(Infinity + 2^(FRAC - 1))) >= 1 BY <1>9, <2>1, Zenon
  <2> QED BY <1>9, <2>2, Zenon DEF Filled
<1> QED BY <1>1, <1>10 DEF s

LEMMA IntFilled ==
  ASSUME NEW min \in Int, NEW max \in Int, NEW t \in Nat \ {0}, NEW weight
  PROVE  Filled(IntVals(min, max, t, weight))
<1> DEFINE within(n) == IF n \in min .. max THEN <<n>> ELSE <<>>
           around(k) == <<min + k, max - k>> \o within(k) \o within(-k)
                          \o <<random_val(min, max, weight[k + 1])>>
           F(g) == [k \in 0 .. t |-> IF k = 0 THEN <<>> ELSE g[k - 1] \o around(k - 1)]
           vals == CHOOSE g : g = F(g)
           blocks == [k \in 0 .. t - 1 |-> around(k)]
<1>1. IntVals(min, max, t, weight) = vals[t] BY Zenon DEF IntVals
<1>2. \A n : List(within(n)) BY Short, Zenon
<1> HIDE DEF within
<1>3. ASSUME NEW k PROVE Filled(around(k))
  <2> DEFINE a == <<min + k, max - k>>
             d == <<random_val(min, max, weight[k + 1])>>
  <2>1. List(a) /\ List(d) /\ Len(d) = 1 BY Short, Zenon
  <2> HIDE DEF a, d
  <2>2. List(a \o within(k)) BY <1>2, <2>1, Joined
  <2>3. List(a \o within(k) \o within(-k)) BY <1>2, <2>2, Joined
  <2> DEFINE s == a \o within(k) \o within(-k)
  <2> HIDE DEF s
  <2>4. List(s \o d) /\ Len(s \o d) = Len(s) + 1 /\ Len(s) \in Nat BY <2>1, <2>3, Joined DEF s
  <2>5. \A x \in Nat : x + 1 >= 1 OBVIOUS
  <2>6. Filled(s \o d) BY <2>4, <2>5, Zenon DEF Filled
  <2> QED BY <2>6 DEF s, a, d
<1> HIDE DEF around
<1>5. \A g : F(g) = Build(t, blocks, g)
  <2> TAKE g
  <2>1. \A k \in 0 .. t : k # 0 => blocks[k - 1] = around(k - 1)
    <3> TAKE k \in 0 .. t
    <3>1. k # 0 => k - 1 \in 0 .. t - 1 OBVIOUS
    <3> QED BY <3>1
  <2> HIDE DEF blocks
  <2> QED BY <2>1 DEF Build
<1> HIDE DEF F
<1>6. vals = F(vals)
  <2>1. \E g : g = Build(t, blocks, g) BY Buildable
  <2>2. \E g : g = F(g) BY <1>5, <2>1, Zenon
  <2> QED BY <2>2, Zenon
<1> HIDE DEF vals
<1>7. List(vals[t]) /\ Len(vals[t]) >= 1
  <2>1. vals = Build(t, blocks, vals) BY <1>5, <1>6, Zenon
  <2>2. \A k \in 0 .. t - 1 : Filled(blocks[k]) BY <1>3
  <2> HIDE DEF blocks
  <2> QED BY <2>1, <2>2, BuiltList
<1> QED BY <1>1, <1>7, Zenon DEF Filled

\* Whatever the range, the draws and the options, an argument has a value.
LEMMA GeneratedFilled ==
  ASSUME NEW min \in Int, NEW max \in Int, min <= max, NEW t \in Nat \ {0}, NEW arg, NEW weight
  PROVE  Filled(gen_vals(min, max, t, arg, weight))
<1>1. Filled(<<argval[arg]>>)
  <2>1. 1 >= 1 OBVIOUS
  <2> QED BY <2>1, Short, Zenon DEF Filled
<1>2. CASE min = 1 /\ max = 1
  <2>1. Selection(min, max, t, weight) = FloatVals(t) BY <1>2 DEF Selection
  <2> QED BY <1>1, <2>1, FloatFilled DEF gen_vals
<1>3. CASE ~(min = 1 /\ max = 1) /\ Exhaustive(min, max)
  <2> DEFINE s == [k \in 1 .. max - min + 1 |-> min + k - 1]
  <2>1. Selection(min, max, t, weight) = s BY <1>3, Zenon DEF Selection
  <2>2. max - min + 1 \in Nat /\ max - min + 1 >= 1 OBVIOUS
  <2>3. s \in Seq(Int) /\ Len(s) = max - min + 1 BY <2>2
  <2> HIDE DEF s
  <2>4. Filled(s) BY <2>2, <2>3 DEF Filled, List
  <2> QED BY <1>1, <2>1, <2>4 DEF gen_vals
<1>4. CASE ~(min = 1 /\ max = 1) /\ ~Exhaustive(min, max)
  <2>1. Selection(min, max, t, weight) = IntVals(min, max, t, weight) BY <1>4, Zenon DEF Selection
  <2> QED BY <1>1, <2>1, IntFilled DEF gen_vals
<1> QED BY <1>2, <1>3, <1>4

-----------------------------------------------------------------------------
(* The nested loops. *)

\* The first m arguments have their values.
Given(m) == /\ \E S : arg_test_vals \in Seq(S)
            /\ Len(arg_test_vals) = m
            /\ \A k \in 1 .. m : Filled(arg_test_vals[k])

\* How often each of the three loops is run, those without an argument once.
Times(k) == IF k <= args THEN Len(arg_test_vals[k]) ELSE 1

\* A triple of indices comes before another if an outer loop is less advanced in it.
Before(b, c) == \/ b[1] < c[1]
                \/ b[1] = c[1] /\ b[2] < c[2]
                \/ b[1] = c[1] /\ b[2] = c[2] /\ b[3] < c[3]
Triples == [1 .. 3 -> Nat]
InLoops(b) == b \in Triples /\ \A k \in 1 .. 3 : 1 <= b[k] /\ b[k] <= Times(k)

LEMMA TimesAre ==
  ASSUME Given(args), args \in 0 .. 3
  PROVE  \A k \in 1 .. 3 : Times(k) \in Nat /\ Times(k) >= 1 /\ Indices(k) = 1 .. Times(k)
<1> TAKE k \in 1 .. 3
<1>1. CASE k <= args
  <2>1. Filled(arg_test_vals[k]) BY <1>1 DEF Given
  <2>2. PICK S : arg_test_vals[k] \in Seq(S) BY <2>1 DEF Filled, List
  <2>3. Len(arg_test_vals[k]) \in Nat /\ DOMAIN arg_test_vals[k] = 1 .. Len(arg_test_vals[k]) BY <2>2
  <2> QED BY <1>1, <2>1, <2>3 DEF Filled, Times, Indices
<1>2. CASE ~(k <= args) BY <1>2 DEF Times, Indices
<1> QED BY <1>1, <1>2

\* Costs more iteration: the next triple in this order, and no other between.
LEMMA Advances ==
  ASSUME Given(args), args \in 0 .. 3, InLoops(at), ~LastOne
  PROVE  /\ InLoops(Advance)
         /\ \A b : InLoops(b) /\ Before(b, Advance) => Before(b, at) \/ b = at
<1> DEFINE k == Innermost
<1>1. \A m \in 1 .. 3 : Times(m) \in Nat /\ Times(m) >= 1 BY TimesAre
<1>2. \A m \in 1 .. args : Exhausted(m) <=> at[m] = Times(m) BY DEF Exhausted, Times
<1>3. k \in 1 .. args /\ ~Exhausted(k) /\ \A m \in k + 1 .. args : Exhausted(m)
  <2>1. PICK j \in 1 .. args : ~Exhausted(j) BY DEF LastOne
  <2>2. \E n \in 1 .. args : ~Exhausted(n) /\ \A m \in n + 1 .. args : Exhausted(m)
    <3>1. CASE args = 0 BY <2>1, <3>1
    <3>2. CASE args = 1 BY <2>1, <3>2
    <3>3. CASE args = 2 BY <2>1, <3>3
    <3>4. CASE args = 3 BY <2>1, <3>4
    <3> QED BY <3>1, <3>2, <3>3, <3>4
  <2> HIDE DEF Exhausted
  <2> QED BY <2>2 DEF Innermost
<1> HIDE DEF k
<1>4. /\ k \in 1 .. 3 /\ at \in Triples /\ at[k] + 1 <= Times(k)
      /\ \A m \in 1 .. 3 : 1 <= at[m] /\ at[m] <= Times(m) /\ (m > k => at[m] = Times(m))
  <2>1. \A m \in 1 .. 3 : 1 <= at[m] /\ at[m] <= Times(m) /\ at[m] \in Nat BY DEF InLoops, Triples
  <2>2. at[k] # Times(k) BY <1>2, <1>3
  <2>3. ASSUME NEW m \in 1 .. 3, m > k PROVE at[m] = Times(m)
    <3>1. CASE m <= args BY <1>2, <1>3, <2>3, <3>1
    <3>2. CASE ~(m <= args)
      <4>1. Times(m) = 1 BY <3>2 DEF Times
      <4> QED BY <2>1, <4>1
    <3> QED BY <3>1, <3>2
  <2> QED BY <1>1, <1>3, <2>1, <2>2, <2>3 DEF InLoops
<1>5. Advance = [m \in 1 .. 3 |-> IF m < k THEN at[m] ELSE IF m = k THEN at[m] + 1 ELSE 1]
  BY Zenon DEF Advance, k
<1>6. InLoops(Advance)
  <2>1. Advance \in Triples BY <1>4, <1>5 DEF Triples
  <2>2. \A m \in 1 .. 3 : 1 <= Advance[m] /\ Advance[m] <= Times(m) BY <1>1, <1>4, <1>5 DEF Triples
  <2> QED BY <2>1, <2>2 DEF InLoops
<1>7. ASSUME NEW b, InLoops(b), Before(b, Advance) PROVE Before(b, at) \/ b = at
  <2> DEFINE next == Advance
  <2>1. /\ b \in Triples /\ \A m \in 1 .. 3 : 1 <= b[m] /\ b[m] <= Times(m)
    BY <1>7 DEF InLoops
  <2>2. /\ next[1] = IF 1 < k THEN at[1] ELSE IF 1 = k THEN at[1] + 1 ELSE 1
        /\ next[2] = IF 2 < k THEN at[2] ELSE IF 2 = k THEN at[2] + 1 ELSE 1
        /\ next[3] = IF 3 < k THEN at[3] ELSE IF 3 = k THEN at[3] + 1 ELSE 1
    BY <1>5
  <2>3. /\ b[1] \in Nat /\ b[2] \in Nat /\ b[3] \in Nat /\ at[1] \in Nat /\ at[2] \in Nat /\ at[3] \in Nat
        /\ 1 <= b[1] /\ 1 <= b[2] /\ 1 <= b[3]
        /\ 1 < 2 /\ 1 < 3 /\ 2 < 3
        /\ k < 2 => b[2] <= at[2]
        /\ k < 3 => b[3] <= at[3]
        /\ k = 1 \/ k = 2 \/ k = 3
    BY <1>1, <1>4, <2>1 DEF Triples
  <2> HIDE DEF next
  <2>4. Before(b, next) BY <1>7 DEF next
  <2>5. Before(b, at) \/ (b[1] = at[1] /\ b[2] = at[2] /\ b[3] = at[3])
    <3>1. CASE k = 1 BY <2>2, <2>3, <2>4, <3>1 DEF Before
    <3>2. CASE k = 2 BY <2>2, <2>3, <2>4, <3>2 DEF Before
    <3>3. CASE k = 3 BY <2>2, <2>3, <2>4, <3>3 DEF Before
    <3> QED BY <2>3, <3>1, <3>2, <3>3
  <2>6. b[1] = at[1] /\ b[2] = at[2] /\ b[3] = at[3] => b = at
    <3>1. \A m \in 1 .. 3 : m = 1 \/ m = 2 \/ m = 3 OBVIOUS
    <3> QED BY <1>4, <2>1, <3>1 DEF Triples
  <2> QED BY <2>5, <2>6
<1> QED BY <1>6, <1>7

\* When all loops are at their end, every triple has had its turn.
LEMMA AllBefore ==
  ASSUME Given(args), args \in 0 .. 3, InLoops(at), LastOne
  PROVE  \A b : InLoops(b) => Before(b, at) \/ b = at
<1>1. \A m \in 1 .. 3 : Times(m) \in Nat /\ Times(m) >= 1 BY TimesAre
<1>2. \A m \in 1 .. 3 : at[m] = Times(m) /\ at[m] \in Nat
  <2> TAKE m \in 1 .. 3
  <2>1. 1 <= at[m] /\ at[m] <= Times(m) /\ at[m] \in Nat BY DEF InLoops, Triples
  <2>2. CASE m <= args BY <2>1, <2>2 DEF LastOne, Exhausted, Times
  <2>3. CASE ~(m <= args)
    <3>1. Times(m) = 1 BY <2>3 DEF Times
    <3> QED BY <2>1, <3>1
  <2> QED BY <2>2, <2>3
<1>3. ASSUME NEW b, InLoops(b) PROVE Before(b, at) \/ b = at
  <2>1. b \in Triples /\ \A m \in 1 .. 3 : b[m] \in Nat /\ b[m] <= at[m] BY <1>2, <1>3 DEF InLoops, Triples
  <2>2. Before(b, at) \/ (b[1] = at[1] /\ b[2] = at[2] /\ b[3] = at[3])
    BY <1>2, <2>1 DEF Before
  <2>3. b[1] = at[1] /\ b[2] = at[2] /\ b[3] = at[3] => b = at
    <3>1. \A m \in 1 .. 3 : m = 1 \/ m = 2 \/ m = 3 OBVIOUS
    <3>2. at \in Triples BY DEF InLoops
    <3> QED BY <2>1, <3>1, <3>2 DEF Triples
  <2> QED BY <2>2, <2>3
<1> QED BY <1>3

\* The loops begin with the first triple.
LEMMA FirstTriple ==
  ASSUME Given(args), args \in 0 .. 3, NEW first, first = <<1, 1, 1>>
  PROVE  InLoops(first) /\ \A b : InLoops(b) => ~Before(b, first)
<1>1. \A m \in 1 .. 3 : Times(m) \in Nat /\ Times(m) >= 1 BY TimesAre
<1>2. first \in Triples /\ \A m \in 1 .. 3 : first[m] = 1 BY DEF Triples
<1>3. InLoops(first) BY <1>1, <1>2 DEF InLoops
<1>4. ASSUME NEW b, InLoops(b) PROVE ~Before(b, first)
  <2>1. \A m \in 1 .. 3 : b[m] \in Nat /\ 1 <= b[m] BY <1>4 DEF InLoops, Triples
  <2> QED BY <1>2, <2>1 DEF Before
<1> QED BY <1>3, <1>4

-----------------------------------------------------------------------------
(* No credit without all combinations. *)

\* While test_function is active, a test is under way; the loops have been through every triple
\* before the one they are at, and the function was right each time.
Active == pc \in {"generate", "alarm", "test", "tally"}
Passed(b) == Right(Arguments(b))
LoopInv ==
  /\ i \in Nat \ {0}
  /\ Active => i \in DOMAIN test_set
  /\ pc = "generate" => \E m \in 0 .. args : Given(m)
  /\ pc = "alarm" => Given(args) /\ at = <<1, 1, 1>>
  /\ pc = "test" => Given(args) /\ InLoops(at) /\ \A b : InLoops(b) /\ Before(b, at) => Passed(b)
  /\ pc = "tally" /\ terrors = 0 => Given(args) /\ \A b : InLoops(b) => Passed(b)

LEMMA ArgsAre == ASSUME i \in DOMAIN test_set
                 PROVE  /\ args \in 0 .. 3
                        /\ ArgRanges(test_set[i]) \in Seq(Int \X Int)
                        /\ \A k \in 1 .. args : ArgRanges(test_set[i])[k][1] <= ArgRanges(test_set[i])[k][2]
<1>1. test_set[i] \in Puzzles BY TestAssumption
<1> QED BY <1>1, Ranges DEF args

\* What a test is about does not change while it is under way.
LEMMA SameTest ==
  ASSUME UNCHANGED <<student, i, arg_test_vals>>
  PROVE  /\ args' = args
         /\ \A m : Given(m)' <=> Given(m)
         /\ \A b : InLoops(b)' <=> InLoops(b)
         /\ \A b : Passed(b)' <=> Passed(b)
BY DEF args, Given, InLoops, Times, Passed, Right, IsOff, Arguments

LEMMA LoopInit == Init => LoopInv
BY DEF Init, LoopInv, Active

LEMMA LoopNext == LoopInv /\ [Next]_vars => LoopInv'
<1> SUFFICES ASSUME LoopInv, [Next]_vars PROVE LoopInv' OBVIOUS
<1>1. CASE Option
  <2>1. pc = "options" /\ pc' \in {"options", "exit"} /\ i' = i BY <1>1 DEF Option
  <2> QED BY <2>1 DEF LoopInv, Active
<1>2. CASE RunTests
  <2>1. pc' = "select" /\ i' = i BY <1>2 DEF RunTests
  <2> QED BY <2>1 DEF LoopInv, Active
<1>3. CASE Select
  <2>1. i \in Nat \ {0} /\ i <= Len(test_set) /\ test_set \in Seq(Puzzles)
    BY <1>3, TestAssumption DEF Select, LoopInv
  <2>2. i \in DOMAIN test_set BY <2>1
  <2>3. CASE pc' = "generate" /\ arg_test_vals' = <<>> /\ i' = i
    <3>1. args' = args BY <2>3 DEF args
    <3>2. args \in 0 .. 3 BY <2>2, ArgsAre
    <3>3. Given(0)'
      <4>1. <<>> \in Seq({}) /\ Len(<<>>) = 0 /\ 1 .. 0 = {} OBVIOUS
      <4> QED BY <2>3, <4>1 DEF Given
    <3>4. 0 \in 0 .. args' BY <3>1, <3>2
    <3> QED BY <2>2, <2>3, <3>3, <3>4 DEF LoopInv, Active
  <2>4. CASE pc' = "select" /\ i' = i + 1
    BY <2>1, <2>4 DEF LoopInv, Active
  <2> QED BY <1>3, <2>3, <2>4 DEF Select
<1>4. CASE Generate
  <2>1. pc = "generate" /\ pc' = "generate" /\ i' = i /\ i \in DOMAIN test_set
        /\ Len(arg_test_vals) < args
    BY <1>4 DEF Generate, LoopInv, Active
  <2>2. PICK m \in 0 .. args : Given(m) BY <2>1 DEF LoopInv
  <2>3. PICK S : arg_test_vals \in Seq(S) BY <2>2 DEF Given
  <2>4. args \in 0 .. 3 /\ Len(arg_test_vals) = m /\ m \in 0 .. 2 /\ m + 1 \in 1 .. args
    BY <2>1, <2>2, ArgsAre DEF Given
  <2> DEFINE range == ArgRanges(test_set[i])[m + 1]
  <2>5. range \in Int \X Int /\ range[1] <= range[2]
    <3>1. ArgRanges(test_set[i]) \in Seq(Int \X Int) /\ m + 1 \in 1 .. Len(ArgRanges(test_set[i]))
      BY <2>1, <2>4, ArgsAre DEF args
    <3> QED BY <2>1, <2>4, <3>1, ArgsAre
  <2>6. arg_test_range \in Nat \ {0}
    <3>1. \A k \in {1, 2, 3} : Root(k) \in Nat \ {0} BY RootPositive
    <3> QED BY <3>1 DEF arg_test_range
  <2>7. PICK weight \in [1 .. arg_test_range -> Weights] :
          arg_test_vals' = Append(arg_test_vals, gen_vals(range[1], range[2], arg_test_range, m + 1, weight))
    BY <1>4, <2>4 DEF Generate
  <2> DEFINE v == gen_vals(range[1], range[2], arg_test_range, m + 1, weight)
  <2>8. Filled(v)
    <3>1. range[1] \in Int /\ range[2] \in Int BY <2>5
    <3> HIDE DEF range
    <3> QED BY <2>5, <2>6, <3>1, GeneratedFilled
  <2> HIDE DEF v, range
  <2>9. Given(m + 1)'
    <3>1. arg_test_vals \in Seq(S \cup {v}) BY <2>3
    <3>2. arg_test_vals' = Append(arg_test_vals, v) BY <2>7 DEF v
    <3>3. /\ arg_test_vals' \in Seq(S \cup {v}) /\ Len(arg_test_vals') = m + 1
          /\ arg_test_vals'[m + 1] = v
          /\ \A k \in 1 .. m : arg_test_vals'[k] = arg_test_vals[k]
      BY <2>4, <3>1, <3>2
    <3>4. \A k \in 1 .. m + 1 : k = m + 1 \/ k \in 1 .. m BY <2>4
    <3>5. \A k \in 1 .. m + 1 : Filled(arg_test_vals'[k]) BY <2>2, <2>8, <3>3, <3>4 DEF Given
    <3> QED BY <3>3, <3>5 DEF Given, Filled, List
  <2>10. args' = args BY <2>1 DEF args
  <2>11. \E n \in 0 .. args' : Given(n)'
    <3>1. m + 1 \in 0 .. args' BY <2>4, <2>10
    <3> QED BY <2>9, <3>1
  <2> QED BY <2>1, <2>11 DEF LoopInv, Active
<1>5. CASE Sigsetjmp
  <2>1. pc = "generate" /\ pc' \in {"alarm", "test"} /\ at' = <<1, 1, 1>> /\ Len(arg_test_vals) = args
        /\ UNCHANGED <<student, i, arg_test_vals>> /\ i \in DOMAIN test_set
    BY <1>5 DEF Sigsetjmp, LoopInv, Active
  <2>2. Given(args) /\ args \in 0 .. 3
    <3>1. PICK m \in 0 .. args : Given(m) BY <2>1 DEF LoopInv
    <3> QED BY <2>1, <3>1, ArgsAre DEF Given
  <2>3. Given(args)' BY <2>1, <2>2, SameTest
  <2>4. \A b : InLoops(b)' <=> InLoops(b) BY <2>1, SameTest
  <2>5. InLoops(at') /\ \A b : InLoops(b) => ~Before(b, at') BY <2>1, <2>2, FirstTriple
  <2>6. InLoops(at)' /\ \A b : InLoops(b)' => ~Before(b, at') BY <2>4, <2>5 DEF InLoops, Times, args
  <2> QED BY <2>1, <2>3, <2>6 DEF LoopInv, Active
<1>6. CASE Alarm
  <2>1. pc = "alarm" /\ pc' = "test" /\ at' = at /\ UNCHANGED <<student, i, arg_test_vals>>
        /\ Given(args) /\ at = <<1, 1, 1>> /\ i \in DOMAIN test_set
    BY <1>6 DEF Alarm, LoopInv, Active
  <2>2. args \in 0 .. 3 BY <2>1, ArgsAre
  <2>3. InLoops(at) /\ \A b : InLoops(b) => ~Before(b, at) BY <2>1, <2>2, FirstTriple
  <2>4. Given(args)' /\ \A b : InLoops(b)' <=> InLoops(b) BY <2>1, SameTest
  <2>5. InLoops(at)' BY <2>1, <2>3 DEF InLoops, Times, args
  <2> QED BY <2>1, <2>3, <2>4, <2>5 DEF LoopInv, Active
<1>7. CASE Test
  <2>1. pc = "test" /\ UNCHANGED <<student, i, arg_test_vals>> /\ i \in DOMAIN test_set
        /\ Given(args) /\ InLoops(at) /\ \A b : InLoops(b) /\ Before(b, at) => Passed(b)
    BY <1>7 DEF Test, LoopInv, Active
  <2>2. args \in 0 .. 3 BY <2>1, ArgsAre
  <2>3. Given(args)' /\ (\A b : InLoops(b)' <=> InLoops(b)) /\ (\A b : Passed(b)' <=> Passed(b))
    BY <2>1, SameTest
  <2>4. CASE ~Passed(at)
    <3>1. pc' = "tally" /\ terrors' = 1 BY <1>7, <2>4 DEF Test, Return, Passed
    <3> QED BY <2>1, <3>1 DEF LoopInv, Active
  <2>5. CASE Passed(at) /\ LastOne
    <3>1. pc' = "tally" BY <1>7, <2>5 DEF Test, Return, Passed
    <3>2. \A b : InLoops(b) => Passed(b) BY <2>1, <2>2, <2>5, AllBefore
    <3> QED BY <2>1, <2>3, <3>1, <3>2 DEF LoopInv, Active
  <2>6. CASE Passed(at) /\ ~LastOne
    <3>1. pc' = "test" /\ at' = Advance BY <1>7, <2>1, <2>6 DEF Test, Return, Passed
    <3>2. InLoops(at') /\ \A b : InLoops(b) /\ Before(b, at') => Before(b, at) \/ b = at
      BY <2>1, <2>2, <2>6, <3>1, Advances
    <3>3. \A b : InLoops(b) /\ Before(b, at') => Passed(b) BY <2>1, <2>6, <3>2
    <3>4. InLoops(at)' BY <2>1, <3>2 DEF InLoops, Times, args
    <3> QED BY <2>1, <2>3, <3>1, <3>3, <3>4 DEF LoopInv, Active
  <2> QED BY <2>4, <2>5, <2>6
<1>8. CASE Tally
  <2>1. pc' = "select" /\ i' = i + 1 BY <1>8 DEF Tally
  <2> QED BY <2>1 DEF LoopInv, Active
<1>9. CASE Finish
  <2>1. pc' = "done" /\ i' = i BY <1>9 DEF Finish
  <2> QED BY <2>1 DEF LoopInv, Active
<1>10. CASE TimedOut \/ Late
  <2>1. pc \in {"generate", "alarm", "test"} /\ pc' = "tally" /\ terrors' = 1 /\ i' = i
    BY <1>10 DEF TimedOut, Late, Return, Elsewhere
  <2> QED BY <2>1 DEF LoopInv, Active
<1>11. CASE Crash
  <2>1. pc' = "crashed" /\ i' = i BY <1>11 DEF Crash, Elsewhere
  <2> QED BY <2>1 DEF LoopInv, Active
<1>12. CASE UNCHANGED vars
  <2>1. UNCHANGED <<student, i, arg_test_vals>> /\ pc' = pc /\ at' = at /\ terrors' = terrors BY <1>12 DEF vars
  <2>2. args' = args /\ (\A m : Given(m)' <=> Given(m)) /\ (\A b : InLoops(b)' <=> InLoops(b))
        /\ (\A b : Passed(b)' <=> Passed(b))
    BY <2>1, SameTest
  <2>3. Given(args)' <=> Given(args) BY <2>1 DEF Given, args
  <2>4. InLoops(at)' <=> InLoops(at) BY <2>1 DEF InLoops, Times, args
  <2> QED BY <2>1, <2>2, <2>3, <2>4 DEF LoopInv, Active
<1> QED BY <1>1, <1>2, <1>3, <1>4, <1>5, <1>6, <1>7, <1>8, <1>9, <1>10, <1>11, <1>12 DEF Next, Step

\* No test is passed by a function that is wrong or endless on any combination of the values
\* generated for it, whatever the puzzles, students, options and draws.
THEOREM CreditEarnedCorrect == Spec => []CreditEarned
<1>1. LoopInv => CreditEarned
  <2> SUFFICES ASSUME LoopInv, pc = "tally", terrors = 0,
                      NEW a1 \in Indices(1), NEW a2 \in Indices(2), NEW a3 \in Indices(3)
               PROVE  Right(Arguments(<<a1, a2, a3>>))
    BY DEF CreditEarned
  <2>1. i \in DOMAIN test_set /\ Given(args) /\ \A b : InLoops(b) => Passed(b) BY DEF LoopInv, Active
  <2>2. args \in 0 .. 3 BY <2>1, ArgsAre
  <2>3. \A k \in 1 .. 3 : Times(k) \in Nat /\ Indices(k) = 1 .. Times(k) BY <2>1, <2>2, TimesAre
  <2> DEFINE b == <<a1, a2, a3>>
  <2>4. /\ a1 \in Nat /\ 1 <= a1 /\ a1 <= Times(1)
        /\ a2 \in Nat /\ 1 <= a2 /\ a2 <= Times(2)
        /\ a3 \in Nat /\ 1 <= a3 /\ a3 <= Times(3)
    BY <2>3
  <2>5. InLoops(b)
    <3>1. b \in Triples /\ b[1] = a1 /\ b[2] = a2 /\ b[3] = a3 BY <2>4 DEF Triples
    <3>2. \A m \in 1 .. 3 : m = 1 \/ m = 2 \/ m = 3 OBVIOUS
    <3> QED BY <2>4, <3>1, <3>2 DEF InLoops
  <2> QED BY <2>1, <2>5 DEF Passed
<1> QED BY <1>1, LoopInit, LoopNext, PTL DEF Spec

-----------------------------------------------------------------------------
(* No charge but for time.  The functions of bits.c are right if they give  *)
(* what their references give wherever they are called.                     *)

PuzzleAgrees ==
  pc = "test" => solution_funct(test_set[i], Arguments(at)) = test_funct(test_set[i], Arguments(at))

Row == [test : Nat, terrors : {0, 1}]
Pending == pc = "tally" /\ terrors = 1 /\ test_set[i] # student.test
Costs(p) == IF p THEN 1 ELSE 0
ChargeInv ==
  /\ i \in Nat /\ slow \in Nat /\ terrors \in {0, 1}
  /\ score \in Seq(Row)
  /\ IsFiniteSet(Charged)
  /\ Cardinality(Charged) + Costs(pc = "crashed") + Costs(Pending) <= slow

LEMMA ChargeInit == Init => ChargeInv
<1> SUFFICES ASSUME Init PROVE ChargeInv OBVIOUS
<1>1. pc = "options" /\ i = 1 /\ slow = 0 /\ terrors = 0 /\ score = <<>> BY DEF Init
<1>2. Charged = {} BY <1>1 DEF Charged
<1>3. IsFiniteSet(Charged) /\ Cardinality(Charged) = 0 BY <1>2, FS_EmptySet
<1>4. score \in Seq(Row) BY <1>1
<1>5. Costs(pc = "crashed") = 0 /\ Costs(Pending) = 0 BY <1>1 DEF Costs, Pending
<1> QED BY <1>1, <1>3, <1>4, <1>5 DEF ChargeInv

\* A step that adds no row keeps the invariant if it makes no charge, or if time has run out for it.
LEMMA NoRow ==
  ASSUME ChargeInv, UNCHANGED <<score, student>>, i' \in Nat, terrors' \in {0, 1},
         slow' \in {slow, slow + 1}, pc # "crashed",
         slow' = slow => pc' # "crashed" /\ (Pending' => Pending),
         ~(pc' = "crashed" /\ Pending')
  PROVE  ChargeInv'
<1>1. Charged' = Charged BY DEF Charged
<1>2. IsFiniteSet(Charged) /\ Cardinality(Charged) \in Nat BY FS_CardinalityType DEF ChargeInv
<1>3. slow \in Nat /\ score \in Seq(Row) /\ Cardinality(Charged) + Costs(pc = "crashed") + Costs(Pending) <= slow BY DEF ChargeInv
<1>4. Costs(pc = "crashed") = 0 BY DEF Costs
<1>5. Cardinality(Charged) + Costs(pc' = "crashed") + Costs(Pending') <= slow'
  <2>1. CASE slow' = slow
    <3>1. Costs(pc' = "crashed") = 0 /\ Costs(Pending') <= Costs(Pending) /\ Costs(Pending) \in {0, 1} /\ Costs(Pending') \in {0, 1}
      BY <2>1 DEF Costs
    <3> QED BY <1>2, <1>3, <1>4, <2>1, <3>1
  <2>2. CASE slow' = slow + 1
    <3>1. Costs(pc' = "crashed") + Costs(Pending') <= 1 /\ Costs(Pending) >= 0
          /\ Costs(pc' = "crashed") \in {0, 1} /\ Costs(Pending') \in {0, 1} /\ Costs(Pending) \in {0, 1}
      BY DEF Costs
    <3> QED BY <1>2, <1>3, <1>4, <2>2, <3>1
  <2> QED BY <2>1, <2>2
<1> QED BY <1>1, <1>2, <1>3, <1>5 DEF ChargeInv, Costs, Pending

LEMMA TallyCharges == ASSUME ChargeInv, Tally PROVE ChargeInv'
<1> DEFINE n == Len(score)
           row == [test |-> i, terrors |-> terrors]
<1>1. /\ pc = "tally" /\ score' = Append(score, row) /\ i' = i + 1 /\ pc' = "select"
      /\ UNCHANGED <<student, terrors, slow>>
  BY DEF Tally
<1>2. /\ i \in Nat /\ slow \in Nat /\ terrors \in {0, 1} /\ score \in Seq(Row) /\ IsFiniteSet(Charged)
      /\ Cardinality(Charged) + Costs(pc = "crashed") + Costs(Pending) <= slow
  BY DEF ChargeInv
<1>3. row \in Row /\ row.test = i /\ row.terrors = terrors BY <1>2 DEF Row
<1> HIDE DEF row
<1>4. /\ n \in Nat /\ score' \in Seq(Row) /\ DOMAIN score = 1 .. n /\ DOMAIN score' = 1 .. n + 1
      /\ score'[n + 1] = row /\ \A k \in 1 .. n : score'[k] = score[k]
  BY <1>1, <1>2, <1>3
<1> HIDE DEF n
<1>5. \A k \in 1 .. n + 1 : k = n + 1 \/ k \in 1 .. n BY <1>4
<1>6. Pending <=> row.terrors > 0 /\ test_set[row.test] # student.test BY <1>1, <1>2, <1>3 DEF Pending
<1>7. Charged \subseteq 1 .. n BY <1>4 DEF Charged
<1>8. n + 1 \notin Charged BY <1>4, <1>7
<1>9. Charged' = IF Pending THEN Charged \cup {n + 1} ELSE Charged
  <2>1. \A k \in 1 .. n : k \in Charged' <=> k \in Charged BY <1>1, <1>4 DEF Charged
  <2>2. n + 1 \in Charged' <=> Pending BY <1>1, <1>4, <1>6 DEF Charged
  <2>3. \A k : k \in Charged' => k = n + 1 \/ k \in 1 .. n BY <1>4, <1>5 DEF Charged
  <2>4. \A k : k \in Charged => k \in 1 .. n BY <1>7
  <2>5. CASE Pending
    <3>1. \A k : k \in Charged' <=> k \in Charged \/ k = n + 1 BY <2>1, <2>2, <2>3, <2>4, <2>5, Zenon
    <3> QED BY <2>5, <3>1
  <2>6. CASE ~Pending
    <3>1. \A k : k \in Charged' <=> k \in Charged BY <2>1, <2>2, <2>3, <2>4, <2>6, Zenon
    <3> QED BY <2>6, <3>1
  <2> QED BY <2>5, <2>6
<1>10. Cardinality(Charged) \in Nat BY <1>2, FS_CardinalityType
<1>11. IsFiniteSet(Charged') /\ Cardinality(Charged') = Cardinality(Charged) + Costs(Pending)
  <2>1. CASE Pending
    <3>1. Charged' = Charged \cup {n + 1} BY <1>9, <2>1
    <3>2. IsFiniteSet(Charged \cup {n + 1}) /\ Cardinality(Charged \cup {n + 1}) = Cardinality(Charged) + 1
      BY <1>2, <1>8, FS_AddElement
    <3>3. Costs(Pending) = 1 BY <2>1 DEF Costs
    <3> QED BY <3>1, <3>2, <3>3
  <2>2. CASE ~Pending
    <3>1. Costs(Pending) = 0 BY <2>2 DEF Costs
    <3> QED BY <1>2, <1>9, <1>10, <2>2, <3>1
  <2> QED BY <2>1, <2>2
<1>12. Costs(pc = "crashed") = 0 /\ Costs(pc' = "crashed") = 0 /\ Costs(Pending') = 0 BY <1>1 DEF Costs, Pending
<1>13. Cardinality(Charged') + Costs(pc' = "crashed") + Costs(Pending') <= slow'
  <2>1. Costs(Pending) \in {0, 1} BY DEF Costs
  <2> QED BY <1>1, <1>2, <1>10, <1>11, <1>12, <2>1
<1>14. i' \in Nat /\ slow' \in Nat /\ terrors' \in {0, 1} BY <1>1, <1>2
<1> QED BY <1>4, <1>11, <1>13, <1>14 DEF ChargeInv, Costs, Pending

LEMMA ChargeNext == ChargeInv /\ PuzzleAgrees /\ [Next]_vars => ChargeInv'
<1> SUFFICES ASSUME ChargeInv, PuzzleAgrees, [Next]_vars PROVE ChargeInv' OBVIOUS
<1>0. i \in Nat /\ slow \in Nat /\ terrors \in {0, 1} BY DEF ChargeInv
<1>1. CASE Option \/ RunTests \/ Select \/ Generate \/ Sigsetjmp \/ Alarm \/ Finish
  <2>1. /\ UNCHANGED <<score, student, slow, terrors>> /\ i' \in {i, i + 1}
        /\ pc # "crashed" /\ pc' \notin {"crashed", "tally"}
    BY <1>1 DEF Option, RunTests, Select, Generate, Sigsetjmp, Alarm, Finish
  <2>2. ~Pending' BY <2>1 DEF Pending
  <2>3. i' \in Nat BY <1>0, <2>1
  <2> QED BY <1>0, <2>1, <2>2, <2>3, NoRow
<1>2. CASE Test
  <2>1. /\ UNCHANGED <<score, student, slow, i>> /\ pc = "test" /\ pc' \in {"test", "tally"} /\ terrors' \in {0, 1}
        /\ pc' = "tally" /\ terrors' = 1 => ~Right(Arguments(at))
    <3>1. CASE ~Right(Arguments(at)) BY <1>2, <3>1 DEF Test, Return
    <3>2. CASE Right(Arguments(at)) /\ LastOne BY <1>2, <3>2 DEF Test, Return
    <3>3. CASE Right(Arguments(at)) /\ ~LastOne BY <1>0, <1>2, <3>3 DEF Test
    <3> QED BY <3>1, <3>2, <3>3
  <2>2. ~Right(Arguments(at)) => student.test = test_set[i]
    BY <2>1 DEF PuzzleAgrees, Right, IsOff
  <2>3. ~Pending' BY <2>1, <2>2 DEF Pending
  <2> QED BY <1>0, <2>1, <2>3, NoRow
<1>3. CASE Tally BY <1>3, TallyCharges
<1>4. CASE TimedOut \/ Late
  <2>1. /\ UNCHANGED <<score, student, i>> /\ pc # "crashed" /\ pc' = "tally" /\ terrors' = 1
        /\ slow' = IF Hanging THEN slow ELSE slow + 1
    BY <1>4 DEF TimedOut, Late, Elapses, Return, Elsewhere
  <2>2. Hanging => student.test = test_set[i] BY DEF Hanging, Hangs, IsOff
  <2>3. slow' \in {slow, slow + 1} /\ (slow' = slow => Hanging) BY <1>0, <2>1
  <2>4. slow' = slow => ~Pending' BY <2>1, <2>2, <2>3 DEF Pending
  <2> QED BY <1>0, <2>1, <2>3, <2>4, NoRow
<1>5. CASE Crash
  <2>1. /\ UNCHANGED <<score, student, i, terrors>> /\ pc \in {"select", "tally"} /\ pc' = "crashed"
        /\ slow' = IF Hanging THEN slow ELSE slow + 1
    BY <1>5 DEF Crash, Elapses, Elsewhere
  <2>2. ~Hanging BY <2>1 DEF Hanging
  <2>3. slow' = slow + 1 /\ slow' # slow BY <1>0, <2>1, <2>2
  <2>4. ~Pending' BY <2>1 DEF Pending
  <2> QED BY <1>0, <2>1, <2>3, <2>4, NoRow
<1>6. CASE UNCHANGED vars
  <2>1. UNCHANGED <<score, student, i, slow, terrors, pc>> BY <1>6 DEF vars
  <2>2. Charged' = Charged /\ (Pending' <=> Pending) BY <2>1 DEF Charged, Pending
  <2> QED BY <2>1, <2>2 DEF ChargeInv, Costs
<1> QED BY <1>1, <1>2, <1>3, <1>4, <1>5, <1>6 DEF Next, Step

\* If the puzzles agree with their references wherever they are called, btest charges only the
\* student's own slip, or one test for each time that runs out, and then with one error.
THEOREM NoWrongChargeCorrect == Spec /\ []PuzzleAgrees => []NoWrongCharge
<1>1. ChargeInv => NoWrongCharge
  <2> SUFFICES ASSUME ChargeInv PROVE NoWrongCharge OBVIOUS
  <2>1. slow \in Nat /\ score \in Seq(Row) /\ IsFiniteSet(Charged)
        /\ Cardinality(Charged) + Costs(pc = "crashed") + Costs(Pending) <= slow
    BY DEF ChargeInv
  <2>2. Cardinality(Charged) \in Nat BY <2>1, FS_CardinalityType
  <2>3. Costs(pc = "crashed") \in {0, 1} /\ Costs(Pending) \in {0, 1} BY DEF Costs
  <2>4. Cardinality(Charged) + Costs(pc = "crashed") <= slow BY <2>1, <2>2, <2>3
  <2>5. \A k \in DOMAIN score : score[k].terrors \in {0, 1}
    <3>1. \A k \in DOMAIN score : score[k] \in Row BY <2>1
    <3> QED BY <3>1 DEF Row
  <2> QED BY <2>4, <2>5 DEF NoWrongCharge, Costs
<1> QED BY <1>1, ChargeInit, ChargeNext, PTL DEF Spec
=============================================================================
