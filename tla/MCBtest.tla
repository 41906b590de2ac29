------------------------------ MODULE MCBtest ------------------------------
(* Sessions for Btest: words of eight bits, floats of 4 bits of exponent. *)
EXTENDS Btest

AllTests == <<"bitXor", "getByte", "logicalShift", "bitCount", "conditional", "tmin", "fitsBits", "dividePower2",
  "negate", "howManyBits", "isLessOrEqual", "intLog2", "floatAbsVal", "floatScale1d2", "floatFloat2Int">>

Nobody == [test |-> "none", args |-> <<>>, does |-> "nothing"]
Off(test, arguments, does) == [test |-> test, args |-> arguments, does |-> does]
Run(student_, fname, timeout) == <<student_, [fname |-> fname, timeout |-> timeout, given |-> <<>>]>>

Number(value) == [isfloat |-> FALSE, clean |-> TRUE, value |-> value]
Floating(value, clean) == [isfloat |-> TRUE, clean |-> clean, value |-> value]
Fixed(fname, given) == <<Nobody, [fname |-> fname, timeout |-> 10, given |-> given]>>
Arg(arg, text) == [arg |-> arg, text |-> text]

SomeSessions ==
  {Run(Nobody, "", 0), Run(Nobody, "", 10), Run(Nobody, "negate", 10),
   Run(Off("conditional", <<0, 1, TMin + 1>>, "wrong"), "conditional", 10),
   Run(Off("conditional", <<TMax, -1, 0>>, "wrong"), "conditional", 0),
   Run(Off("isLessOrEqual", <<TMin, TMax>>, "hang"), "", 10),
   Run(Off("getByte", <<-1, 3>>, "hang"), "getByte", 10),
   Run(Off("bitXor", <<1, 0>>, "wrong"), "bitXor", 10),
   Run(Off("tmin", <<>>, "hang"), "", 10),
   Fixed("conditional", <<Arg(2, Number(7)), Arg(1, Number(0)), Arg(1, Number(255))>>),
   Fixed("negate", <<Arg(1, Number(5)), Arg(1, Number(6))>>), Fixed("negate", <<Arg(1, Number(512))>>),
   Fixed("floatScale1d2", <<Arg(1, Floating(TMin + 9, TRUE))>>), Fixed("floatAbsVal", <<Arg(1, Floating(0, FALSE))>>)}
=============================================================================
