----------------------------- MODULE FloatValues -----------------------------
(***************************************************************************)
(* The numbers in the pixels of an image, as far as its operations can     *)
(* tell them apart: integers, an infinity of either sign, and NaN, the     *)
(* value that is not a number.  Quotients are rounded away from zero, so   *)
(* that only a quotient of zero is zero; zero has no sign.                 *)
(***************************************************************************)
EXTENDS Integers, FiniteSets, FiniteSetsExt

CONSTANT NaN

(* Greater than every number of the runs, and an integer, so that it is     *)
(* compared like one.                                                       *)
Infinity == 100000000

Number(v) == v # NaN
Infinite(v) == v \in {Infinity, -Infinity}
Finite(v) == Number(v) /\ ~Infinite(v)

Magnitude(a) == IF a < 0 THEN -a ELSE a
Sign(a) == IF a < 0 THEN -1 ELSE IF a > 0 THEN 1 ELSE 0

Negative(a) == IF Number(a) THEN -a ELSE NaN

Plus(a, b) ==
  IF NaN \in {a, b} \/ {a, b} = {Infinity, -Infinity} THEN NaN
  ELSE IF Infinite(a) THEN a ELSE IF Infinite(b) THEN b ELSE a + b

Minus(a, b) == Plus(a, Negative(b))

Times(a, b) ==
  IF NaN \in {a, b} THEN NaN
  ELSE IF Finite(a) /\ Finite(b) THEN a * b
  ELSE IF 0 \in {a, b} THEN NaN ELSE Sign(a) * Sign(b) * Infinity

(* Of numbers: nothing by nothing is not a number, anything else by nothing *)
(* is infinite.                                                             *)
Ratio(a, b) ==
  IF b = 0 THEN Sign(a) * Infinity
  ELSE IF Infinite(b) THEN 0
  ELSE Sign(a) * Sign(b) * (IF Infinite(a) THEN Infinity ELSE (Magnitude(a) + Magnitude(b) - 1) \div Magnitude(b))

Over(a, b) ==
  IF NaN \in {a, b} \/ (a = 0 /\ b = 0) \/ (Infinite(a) /\ Infinite(b)) THEN NaN ELSE Ratio(a, b)

Fabs(a) == IF Number(a) THEN Magnitude(a) ELSE a

(* Comparisons with NaN are false. *)
Above(a, b) == Number(a) /\ Number(b) /\ a > b
AtLeast(a, b) == Number(a) /\ Number(b) /\ a >= b

SumOver(v(_), S) ==
  LET terms == {v(i) : i \in S}
      infinities == terms \cap {Infinity, -Infinity}
  IN  IF NaN \in terms \/ Cardinality(infinities) = 2 THEN NaN
      ELSE IF infinities # {} THEN CHOOSE inf \in infinities : TRUE ELSE MapThenSumSet(v, S)
=============================================================================
