------------------------------- MODULE Btest -------------------------------
(***************************************************************************)
(* btest: runs every puzzle of a student on a selection of arguments and   *)
(* gives points for those that never differ from the reference, with an    *)
(* alarm against endless loops (btest.c, decl.c).                          *)
(*                                                                         *)
(* The alarm is set when a test starts to call the student's function and  *)
(* never cleared: it may ring when its test is over.  Then siglongjmp goes *)
(* to a sigsetjmp whose function has returned, which is undefined.  In the *)
(* builds it makes test_function of the next test return as if that test   *)
(* had timed out, if it is active, and crashes the process otherwise.      *)
(*                                                                         *)
(* What the options -r and -g change (ratings, wording) is left out.       *)
(***************************************************************************)
EXTENDS Bits, Sequences

CONSTANTS
  TEST_RANGE,   \* tests of a function of one argument, per region
  Weights,      \* what rand() / RAND_MAX may be, in quarters
  test_set,     \* the tests, names of puzzles in order
  Sessions,     \* pairs of a student, [test, args, does], whose function of that test
                \* is wrong or endless at these arguments, and options, [fname, timeout, given]:
                \* of -f and -T, and the texts of -1, -2 and -3
  MaxSlow       \* bound: how often time runs out on a function that does end

VARIABLES
  student, options,
  argval,          \* the arguments fixed so far: has_arg is its domain
  pc,              \* the next step of main, run_tests or test_function; "done", "exit" or "crashed"
  i,               \* the test of run_tests
  arg_test_vals,   \* the values of each argument generated so far
  at,              \* a1, a2, a3: which of them are used next
  terrors,         \* what test_function returned
  alarm,           \* is the alarm set?
  score,           \* [test, terrors] of each test that returned
  slow             \* how often time ran out for no fault of the function
vars == <<student, options, argval, pc, i, arg_test_vals, at, terrors, alarm, score, slow>>

-----------------------------------------------------------------------------
(* decl.c: the puzzles, their number of arguments and the ranges of these. *)

AnyInt == <<TMin, TMax>>
ArgRanges(name) ==
  CASE name = "tmin" -> <<>>
    [] name \in {"bitCount", "negate", "howManyBits"} -> <<AnyInt>>
    [] name = "intLog2" -> << <<1, TMax>> >>
    [] name \in {"floatAbsVal", "floatScale1d2", "floatFloat2Int"} -> << <<1, 1>> >>
    [] name \in {"bitXor", "isLessOrEqual"} -> <<AnyInt, AnyInt>>
    [] name = "getByte" -> <<AnyInt, <<0, 3>> >>
    [] name = "logicalShift" -> <<AnyInt, <<0, W - 1>> >>
    [] name = "fitsBits" -> <<AnyInt, <<1, W>> >>
    [] name = "dividePower2" -> <<AnyInt, <<0, W - 2>> >>
    [] name = "conditional" -> <<AnyInt, AnyInt, AnyInt>>
Puzzles == {"bitXor", "getByte", "logicalShift", "bitCount", "conditional", "tmin", "fitsBits", "dividePower2",
            "negate", "howManyBits", "isLessOrEqual", "intLog2", "floatAbsVal", "floatScale1d2", "floatFloat2Int"}

ASSUME TestAssumption == TEST_RANGE \in Nat \ {0} /\ test_set \in Seq(Puzzles)

WordOf == [n \in TMin .. TMax + 1 |-> Word(n)]
solution_funct(name, a) ==
  LET x == WordOf[a[1]]  y == WordOf[a[2]] IN
  Signed(CASE name = "tmin" -> tmin
        [] name = "bitCount" -> bitCount(x)
        [] name = "negate" -> negate(x)
        [] name = "howManyBits" -> howManyBits(x)
        [] name = "intLog2" -> intLog2(x)
        [] name = "floatAbsVal" -> floatAbsVal(x)
        [] name = "floatScale1d2" -> floatScale1d2(x)
        [] name = "floatFloat2Int" -> floatFloat2Int(x)
        [] name = "bitXor" -> bitXor(x, y)
        [] name = "isLessOrEqual" -> isLessOrEqual(x, y)
        [] name = "getByte" -> getByte(x, y)
        [] name = "logicalShift" -> logicalShift(x, y)
        [] name = "fitsBits" -> fitsBits(x, y)
        [] name = "dividePower2" -> dividePower2(x, y)
        [] name = "conditional" -> conditional(x, y, WordOf[a[3]]))
test_funct(name, a) ==
  CASE name = "tmin" -> test_tmin
    [] name = "bitCount" -> test_bitCount(a[1])
    [] name = "negate" -> test_negate(a[1])
    [] name = "howManyBits" -> test_howManyBits(a[1])
    [] name = "intLog2" -> test_intLog2(a[1])
    [] name = "floatAbsVal" -> test_floatAbsVal(a[1])
    [] name = "floatScale1d2" -> test_floatScale1d2(a[1])
    [] name = "floatFloat2Int" -> test_floatFloat2Int(a[1])
    [] name = "bitXor" -> test_bitXor(a[1], a[2])
    [] name = "isLessOrEqual" -> test_isLessOrEqual(a[1], a[2])
    [] name = "getByte" -> test_getByte(a[1], a[2])
    [] name = "logicalShift" -> test_logicalShift(a[1], a[2])
    [] name = "fitsBits" -> test_fitsBits(a[1], a[2])
    [] name = "dividePower2" -> test_dividePower2(a[1], a[2])
    [] name = "conditional" -> test_conditional(a[1], a[2], a[3])

-----------------------------------------------------------------------------
(* get_num_val: the text of a number is a float or not, clean if nothing    *)
(* follows the number, and has a value, that of a float being its bits.     *)
(* For integers the code tests *valp, the value of the same option before,  *)
(* where it has *endp for floats.                                           *)

Fits(n) == n \div 2^(W - 1) \in {-1, 0, 1}
get_num_val(text, valp) == IF text.isfloat THEN text.clean ELSE valp = 0 /\ Fits(text.value)
ArgVal(k) == IF k \in DOMAIN argval THEN argval[k] ELSE 0

-----------------------------------------------------------------------------
(* gen_vals *)

args == Len(ArgRanges(test_set[i]))
Power(r, k) == CASE k = 1 -> r [] k = 2 -> r * r [] k = 3 -> r * r * r
Root(k) == CHOOSE r \in 1 .. TEST_RANGE : Power(r, k) <= TEST_RANGE /\ TEST_RANGE < Power(r + 1, k)
arg_test_range == Root(IF args \in {1, 2} THEN args ELSE 3)
MAX_TEST_VALS == 13 * TEST_RANGE

\* The result of C's division, which truncates, and random_val at a weight.
Quarter(n) == IF n < 0 THEN -((-n) \div 4) ELSE n \div 4
random_val(min, max, weight) == Quarter(min * (4 - weight) + max * weight)

\* Around 0, the least normalised number and 1, and below 2^(EXP-2) in the
\* exponent, which btest calls the largest normalised one; then the special ones.
FloatVals(test_range) ==
  LET n == IF test_range > 2^FRAC THEN 2^FRAC ELSE test_range
      smallest_norm == 2^FRAC  one == BIAS * 2^FRAC  largest_norm == (2^EXP - 2) * 2^FRAC
      nan == Infinity + 2^(FRAC - 1)
      both(u) == <<Wrap(u), Wrap(u + 2^(W - 1))>>
      around(k) == both(k) \o both(smallest_norm + k) \o both(smallest_norm - k)
                     \o both(one + k) \o both(one - k) \o both(largest_norm - k)
      vals[k \in 0 .. n] == IF k = 0 THEN <<>> ELSE vals[k - 1] \o around(k - 1)
  IN vals[n] \o both(Infinity) \o both(nan)

\* Near the bounds and 0, and a random one, weight[k] being the k-th draw.
IntVals(min, max, test_range, weight) ==
  LET within(n) == IF n \in min .. max THEN <<n>> ELSE <<>>
      around(k) == <<min + k, max - k>> \o within(k) \o within(-k) \o <<random_val(min, max, weight[k + 1])>>
      vals[k \in 0 .. test_range] == IF k = 0 THEN <<>> ELSE vals[k - 1] \o around(k - 1)
  IN vals[test_range]

Exhaustive(min, max) == max - MAX_TEST_VALS <= min

Selection(min, max, test_range, weight) ==
  CASE min = 1 /\ max = 1 -> FloatVals(test_range)
    [] ~(min = 1 /\ max = 1) /\ Exhaustive(min, max) -> [k \in 1 .. max - min + 1 |-> min + k - 1]
    [] ~(min = 1 /\ max = 1) /\ ~Exhaustive(min, max) -> IntVals(min, max, test_range, weight)

\* A fixed argument is the only value.
gen_vals(min, max, test_range, arg, weight) ==
  IF arg \in DOMAIN argval THEN <<argval[arg]>> ELSE Selection(min, max, test_range, weight)

-----------------------------------------------------------------------------
Arguments(index) == [k \in 1 .. 3 |-> IF k <= args THEN arg_test_vals[k][index[k]] ELSE 0]

\* What the student's function does: answers, or loops for ever.
IsOff(a) == student.test = test_set[i] /\ \A k \in DOMAIN student.args : student.args[k] = a[k]
Hangs(a) == IsOff(a) /\ student.does = "hang"
Right(a) == ~IsOff(a) /\ solution_funct(test_set[i], a) = test_funct(test_set[i], a)

\* The nested loops: the next triple of indices, the last loop fastest.
Exhausted(k) == at[k] = Len(arg_test_vals[k])
Innermost == CHOOSE k \in 1 .. args : ~Exhausted(k) /\ \A m \in k + 1 .. args : Exhausted(m)
LastOne == \A k \in 1 .. args : Exhausted(k)
\* Faulty variant: the inner loops go on from where they ended.
FaultyAdvance == LET k == Innermost IN [at EXCEPT ![k] = @ + 1]
Advance == [k \in 1 .. 3 |-> IF k < Innermost THEN at[k] ELSE IF k = Innermost THEN at[k] + 1 ELSE 1]

Init ==
  /\ \E session \in Sessions : student = session[1] /\ options = session[2]
  /\ pc = "options" /\ argval = <<>> /\ i = 1
  /\ arg_test_vals = <<>> /\ at = <<1, 1, 1>>
  /\ terrors = 0 /\ alarm = FALSE /\ score = <<>> /\ slow = 0

\* main reads the options in turn; a bad argument ends it.
Option ==
  /\ pc = "options" /\ options.given # <<>>
  /\ LET k == Head(options.given).arg  text == Head(options.given).text IN
     IF get_num_val(text, ArgVal(k))
     THEN argval' = [m \in DOMAIN argval \cup {k} |-> IF m = k THEN Wrap(text.value) ELSE argval[m]] /\ UNCHANGED pc
     ELSE pc' = "exit" /\ UNCHANGED argval
  /\ options' = [options EXCEPT !.given = Tail(@)]
  /\ UNCHANGED <<student, i, arg_test_vals, at, terrors, alarm, score, slow>>

RunTests ==
  /\ pc = "options" /\ options.given = <<>> /\ pc' = "select"
  /\ UNCHANGED <<student, options, argval, i, arg_test_vals, at, terrors, alarm, score, slow>>

\* run_tests calls test_function for each test, or only for the one of -f.
Select ==
  /\ pc = "select" /\ i <= Len(test_set)
  /\ IF options.fname \in {"", test_set[i]}
     THEN pc' = "generate" /\ arg_test_vals' = <<>> /\ UNCHANGED i
     ELSE i' = i + 1 /\ UNCHANGED <<pc, arg_test_vals>>
  /\ UNCHANGED <<student, options, argval, at, terrors, alarm, score, slow>>

Generate ==
  /\ pc = "generate" /\ Len(arg_test_vals) < args
  /\ \E weight \in [1 .. arg_test_range -> Weights] :
       LET range == ArgRanges(test_set[i])[Len(arg_test_vals) + 1] IN
       arg_test_vals' = Append(arg_test_vals, gen_vals(range[1], range[2], arg_test_range, Len(arg_test_vals) + 1, weight))
  /\ UNCHANGED <<student, options, argval, pc, i, at, terrors, alarm, score, slow>>

\* sigsetjmp: from here on siglongjmp comes back into this call.
Sigsetjmp ==
  /\ pc = "generate" /\ Len(arg_test_vals) = args
  /\ pc' = IF options.timeout > 0 THEN "alarm" ELSE "test"
  /\ at' = <<1, 1, 1>>
  /\ UNCHANGED <<student, options, argval, i, arg_test_vals, terrors, alarm, score, slow>>

\* Faulty variant: the alarm of the first test is thought to last.
FaultySetAlarm == i = 1 \/ alarm
SetAlarm == TRUE
Alarm ==
  /\ pc = "alarm"
  /\ alarm' = SetAlarm /\ pc' = "test"
  /\ UNCHANGED <<student, options, argval, i, arg_test_vals, at, terrors, score, slow>>

\* Faulty variant: the errors of the tests before are not forgotten.
FaultyReturn(errors) == terrors' = terrors + errors /\ pc' = "tally"
Return(errors) == terrors' = errors /\ pc' = "tally"

\* One call of the function and of its reference, unless it hangs.
Test ==
  /\ pc = "test" /\ ~Hangs(Arguments(at))
  /\ CASE ~Right(Arguments(at)) -> Return(1) /\ UNCHANGED at
       [] Right(Arguments(at)) /\ LastOne -> Return(0) /\ UNCHANGED at
       [] Right(Arguments(at)) /\ ~LastOne -> at' = Advance /\ UNCHANGED <<pc, terrors>>
  /\ UNCHANGED <<student, options, argval, i, arg_test_vals, alarm, score, slow>>

Tally ==
  /\ pc = "tally"
  /\ score' = Append(score, [test |-> i, terrors |-> terrors])
  /\ i' = i + 1 /\ pc' = "select"
  /\ UNCHANGED <<student, options, argval, arg_test_vals, at, terrors, alarm, slow>>

Finish ==
  /\ pc = "select" /\ i > Len(test_set)
  /\ pc' = "done"
  /\ UNCHANGED <<student, options, argval, i, arg_test_vals, at, terrors, alarm, score, slow>>

-----------------------------------------------------------------------------
(* SIGALRM, once per alarm. *)

Hanging == pc = "test" /\ Hangs(Arguments(at))
Elapses == alarm /\ alarm' = FALSE /\ (Hanging \/ slow < MaxSlow) /\ slow' = IF Hanging THEN slow ELSE slow + 1
Elsewhere == UNCHANGED <<student, options, argval, i, arg_test_vals, at, score>>

TimedOut == pc \in {"alarm", "test"} /\ Elapses /\ Return(1) /\ Elsewhere
\* The alarm of an earlier test, while this one is generating its values.
Late == pc = "generate" /\ Elapses /\ Return(1) /\ Elsewhere
\* The alarm of an earlier test, while test_function is not active.
Crash == pc \in {"select", "tally"} /\ Elapses /\ pc' = "crashed" /\ UNCHANGED terrors /\ Elsewhere

Step == Option \/ RunTests \/ Select \/ Generate \/ Sigsetjmp \/ Alarm \/ Test \/ Tally \/ Finish
Next == Step \/ TimedOut \/ Late \/ Crash

\* The processor is not taken away for ever, and the kernel delivers signals.
\* The first is WF_vars(Step), with ENABLED Step written out.
Runnable == pc \notin {"done", "exit", "crashed"} /\ ~Hanging
Fairness == (<>[]Runnable => []<><<Step>>_vars) /\ WF_vars(TimedOut)
Spec == Init /\ [][Next]_vars /\ Fairness

-----------------------------------------------------------------------------
\* Every puzzle gives what its reference gives, for all arguments in its ranges:
\* no carry, shift, sign or rounding at a boundary goes wrong, whether or not
\* btest selects the arguments.  (Of conditional, all x with selected y and z.)
\* Looked at once for each puzzle, when btest has run it without a time limit.
Operands(name, k) ==
  CASE k > Len(ArgRanges(name)) -> {0}
    [] k \in DOMAIN ArgRanges(name) /\ ArgRanges(name)[k] = <<1, 1>> -> TMin .. TMax
    [] k \in DOMAIN ArgRanges(name) /\ ArgRanges(name)[k] # <<1, 1>> ->
         IF name = "conditional" /\ k > 1 THEN {TMin, TMin + 1, -1, 0, 1, TMax}
         ELSE ArgRanges(name)[k][1] .. ArgRanges(name)[k][2]
PuzzlesRight ==
  pc = "tally" /\ options.timeout = 0 /\ student.test # test_set[i] =>
    LET name == test_set[i] IN
    \A x \in Operands(name, 1), y \in Operands(name, 2), z \in Operands(name, 3) :
      solution_funct(name, <<x, y, z>>) = test_funct(name, <<x, y, z>>)

\* No test is passed by a function that is wrong or endless on any combination of
\* the values generated for it: the loops leave none out, and every early return,
\* by an error or by an alarm of whatever test, counts against it.
Indices(k) == IF k <= args THEN DOMAIN arg_test_vals[k] ELSE {1}
CreditEarned ==
  pc = "tally" /\ terrors = 0 =>
    \A a1 \in Indices(1), a2 \in Indices(2), a3 \in Indices(3) : Right(Arguments(<<a1, a2, a3>>))

\* A right function is charged only when time runs out, one test for each time,
\* and then with one error; whatever the tests around it did.
Charged == {k \in DOMAIN score : score[k].terrors > 0 /\ test_set[score[k].test] # student.test}
NoWrongCharge ==
  /\ Cardinality(Charged) + (IF pc = "crashed" THEN 1 ELSE 0) <= slow
  /\ \A k \in DOMAIN score : score[k].terrors \in {0, 1}

\* With a time limit every run comes to its end, or crashes, though a function
\* hangs; unless it crashes or refuses an argument it has a row for every test it was asked to run.
RunEnds ==
  options.timeout > 0 ~>
    \/ pc \in {"crashed", "exit"}
    \/ /\ pc = "done"
       /\ {score[k].test : k \in DOMAIN score} =
            {t \in DOMAIN test_set : options.fname \in {"", test_set[t]}}
=============================================================================
