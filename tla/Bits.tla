-------------------------------- MODULE Bits --------------------------------
(***************************************************************************)
(* The puzzles of the data laboratory (bits.c) and the functions they are  *)
(* tested against (tests.c), on words of four bytes of any size.           *)
(*                                                                         *)
(* In the puzzles a word is the set of its bits that are 1, so that & is   *)
(* \cap, | is \cup, and the other operators of C come below.  The          *)
(* functions of tests.c are about numbers and take and return integers.    *)
(***************************************************************************)
EXTENDS Integers, FiniteSets

CONSTANTS
  BYTE,     \* bits of a byte: 8 for an int of 32 bits
  LOG2W,    \* a word has 2^LOG2W bits
  FRAC      \* bits of the fraction of a float: 23

W == 4 * BYTE
ASSUME WidthAssumption == BYTE \in Nat \ {0} /\ LOG2W \in Nat /\ W = 2^LOG2W
ASSUME FractionAssumption == FRAC \in 1 .. W - 3
\* So it is for any width; the proofs need it said.
ASSUME PowersAssumption == 2^FRAC \in Nat \ {0} /\ 2^(W - 1) \in Nat \ {0, 1}

EXP  == W - 1 - FRAC
BIAS == 2^(EXP - 1) - 1
TMin == -(2^(W - 1))
TMax == 2^(W - 1) - 1

Bit   == 0 .. W - 1
Words == SUBSET Bit

\* The word of an integer, modulo 2^W, and the numbers that a word stands for.
Word(n) == {b \in Bit : ((n \div (2^b)) % 2) = 1}
PowerOf == [b \in Bit |-> 2^b]
Unsigned(x) ==
  LET sum[b \in 0 .. W] == IF b = 0 THEN 0 ELSE sum[b - 1] + (IF b - 1 \in x THEN PowerOf[b - 1] ELSE 0)
  IN sum[W]
Signed(x) == IF W - 1 \in x THEN Unsigned(x) - 2^W ELSE Unsigned(x)
Wrap(n) == ((n - TMin) % (2^W)) + TMin

-----------------------------------------------------------------------------
(* The operators of C on words. *)

Zero == {}
One  == {0}
Ones == Bit                                   \* ~0

Not(x)     == Bit \ x
Xor(x, y)  == (x \ y) \cup (y \ x)
Bang(x)    == IF x = Zero THEN One ELSE Zero
Shl(x, n)  == {b \in Bit : b - n \in x}
Sar(x, n)  == {b \in Bit : b + n \in x \/ (b + n >= W /\ W - 1 \in x)}
Shr(x, n)  == {b \in Bit : b + n \in x}       \* of an unsigned

\* There is a carry into b if some lower bit makes one and all between pass it on.
Carries(x, y, c) ==
  {b \in Bit : \/ \E g \in 0 .. b - 1 : g \in x \cap y /\ \A k \in g + 1 .. b - 1 : k \in x \cup y
               \/ c /\ \A k \in 0 .. b - 1 : k \in x \cup y}
Add(x, y) == Xor(Xor(x, y), Carries(x, y, FALSE))
Minus(x)  == Add(Not(x), One)

Low(n) == {b \in Bit : b < n}                 \* (1 << n) + ~0

-----------------------------------------------------------------------------
(* bits.c *)

bitXor(x, y) == Not(x \cap y) \cap Not(Not(x) \cap Not(y))

getByte(x, n) == Sar(x, Unsigned(n) * BYTE) \cap Low(BYTE)

logicalShift(x, n) == Sar(x, Unsigned(n)) \cap Not(Shl(Sar(Shl(One, W - 1), Unsigned(n)), 1))

bitCount(x) ==
  LET checker == {k * BYTE : k \in 0 .. 3}
      counter[k \in 0 .. BYTE - 1] ==
        IF k = 0 THEN x \cap checker ELSE Add(counter[k - 1], Sar(x, k) \cap checker)
      byte(k) == Sar(counter[BYTE - 1], k * BYTE) \cap Low(BYTE)
  IN Add(Add(Add(byte(0), byte(1)), byte(2)), byte(3))

conditional(x, y, z) ==
  LET router == Add(Bang(x), Ones) IN Add(router \cap y, Not(router) \cap z)

tmin == Shl(One, W - 1)

fitsBits(x, n) ==
  LET extended == Sar(x, Unsigned(Add(n, Ones))) IN Bang(extended) \cup Bang(Not(extended))

dividePower2(x, n) == Sar(Add(x, Sar(x, W - 1) \cap Low(Unsigned(n))), Unsigned(n))

negate(x) == Add(Not(x), One)

\* b16, b8, b4, b2 and b1: what is left of x, and the position found so far.
Search(x0) ==
  LET step[k \in 0 .. LOG2W] ==
        IF k = 0 THEN [x |-> x0, position |-> Zero]
        ELSE LET n == W \div 2^k
                 b == IF Sar(step[k - 1].x, n) # Zero THEN n ELSE 0
             IN [x |-> Sar(step[k - 1].x, b), position |-> Add(step[k - 1].position, Word(b))]
  IN step[LOG2W]

howManyBits(x) ==
  LET found == Search(Xor(x, Sar(x, W - 1))) IN Add(Add(found.position, found.x), One)

isLessOrEqual(x, y) ==
  LET sign_x == Sar(x, W - 1)
      sign_y == Sar(y, W - 1)
      sign_diff == Xor(sign_x, sign_y)
      x_negative_y_positive == sign_x \cap Not(sign_y)
      same_sign_result == Xor(Sar(Add(Add(y, Not(x)), One), W - 1), One)
  IN Bang(Bang(sign_diff \cap x_negative_y_positive)) \cup (Bang(sign_diff) \cap same_sign_result)

intLog2(x) == Search(x).position

Sign(uf) == uf \cap Shl(One, W - 1)
Exp(uf)  == Shr(uf, FRAC) \cap Low(EXP)
Frac(uf) == uf \cap Low(FRAC)
Special(uf) == Exp(uf) = Low(EXP)             \* an infinity or a NaN

\* Faulty variant: looks at all but one bit of the exponent.  btest misses it.
FaultyFloatAbsVal(uf) ==
  IF Shl(uf, 1 + EXP) # Zero /\ Exp(uf) \cup One = Low(EXP) THEN uf ELSE uf \cap Not(Shl(One, W - 1))

floatAbsVal(uf) ==
  IF Shl(uf, 1 + EXP) # Zero /\ Special(uf) THEN uf ELSE uf \cap Not(Shl(One, W - 1))

floatScale1d2(uf) ==
  LET exp == Exp(uf)
      shifted_frac == IF 0 \in exp THEN Shl(One, FRAC) \cup Frac(uf) ELSE Frac(uf)
      result == Shr(shifted_frac, 1)
      rounded == IF 0 \in shifted_frac /\ 0 \in result THEN Add(result, One) ELSE result
  IN CASE Special(uf) -> uf
       [] ~Special(uf) /\ exp \subseteq One -> Sign(uf) \cup rounded
       [] ~Special(uf) /\ ~(exp \subseteq One) -> Sign(uf) \cup Shl(Add(exp, Ones), FRAC) \cup Frac(uf)

floatFloat2Int(uf) ==
  LET E == Unsigned(Exp(uf)) - BIAS
      mantissa == Frac(uf) \cup Shl(One, FRAC)
      value == IF E < FRAC THEN Shr(mantissa, FRAC - E) ELSE Shl(mantissa, E - FRAC)
      least == Shl(One, W - 1)
      toolarge == W - 1 \in value /\ (value # least \/ Sign(uf) = Zero)
  IN CASE Special(uf) \/ E >= W - 1 -> least
       [] ~Special(uf) /\ E < 0 -> Zero
       [] ~Special(uf) /\ E \in 0 .. W - 2 ->
            IF toolarge THEN least ELSE IF Sign(uf) # Zero THEN Minus(value) ELSE value

-----------------------------------------------------------------------------
(* tests.c, on integers.  Signed overflow wraps, as the compiler makes it. *)

test_bitXor(x, y) == Signed({b \in Bit : (b \in Word(x)) # (b \in Word(y))})
test_getByte(x, n) == (x \div 2^((IF n \in 0 .. 2 THEN n ELSE 3) * BYTE)) % 2^BYTE
test_logicalShift(x, n) == Wrap((x % 2^W) \div 2^n)
test_bitCount(x) == Cardinality(Word(x))
test_conditional(x, y, z) == IF x # 0 THEN y ELSE z
test_tmin == TMin
test_fitsBits(x, n) == IF x >= Wrap(-Wrap(2^(n - 1))) /\ x <= 2^(n - 1) - 1 THEN 1 ELSE 0
test_dividePower2(x, n) == IF x >= 0 THEN x \div 2^n ELSE -((-x) \div 2^n)
test_negate(x) == Wrap(-x)
test_howManyBits(x) ==
  LET a == IF x < 0 THEN -x - 1 ELSE x IN (CHOOSE cnt \in 0 .. W : a < 2^cnt /\ \A k \in 0 .. cnt - 1 : a >= 2^k) + 1
test_isLessOrEqual(x, y) == IF x <= y THEN 1 ELSE 0
test_intLog2(x) == CHOOSE result \in Bit : result \in Word(x) /\ \A b \in Word(x) : b <= result

\* u2f: the magnitude of a float, in units of the least that is not 0.
Magnitude(u) ==
  LET exp == (u \div 2^FRAC) % 2^EXP  frac == u % 2^FRAC IN
  IF exp = 0 THEN frac ELSE (2^FRAC + frac) * 2^(exp - 1)
IsNegative(uf) == uf < 0
Pattern(uf) == uf % 2^(W - 1)
Infinity == (2^EXP - 1) * 2^FRAC
isnan(uf) == Pattern(uf) > Infinity

\* f2u after 0.5 * f: the nearest float, the even one of two as near.
Distance(c, uf) == LET d == 2 * Magnitude(c) - Magnitude(Pattern(uf)) IN IF d < 0 THEN -d ELSE d
Half(uf) == CHOOSE c \in 0 .. Infinity - 1 :
  \A k \in {c - 1, c + 1} \cap 0 .. Infinity - 1 :
    Distance(c, uf) < Distance(k, uf) \/ (Distance(c, uf) = Distance(k, uf) /\ c % 2 = 0)

test_floatAbsVal(uf) ==
  IF isnan(uf) \/ ~IsNegative(uf) THEN uf ELSE Pattern(uf)
test_floatScale1d2(uf) ==
  IF Pattern(uf) >= Infinity THEN uf ELSE IF IsNegative(uf) THEN Half(uf) + TMin ELSE Half(uf)

\* (int) f truncates, and gives TMin for what no int holds.
test_floatFloat2Int(uf) ==
  LET whole == Magnitude(Pattern(uf)) \div 2^(BIAS - 1 + FRAC)
      x == IF IsNegative(uf) THEN -whole ELSE whole
  IN IF Pattern(uf) >= Infinity \/ x \notin TMin .. TMax THEN TMin ELSE x
=============================================================================
