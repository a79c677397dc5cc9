------------------------------- MODULE Picture -------------------------------
(***************************************************************************)
(* What the operations of CBgFits promise about pictures: which pixel of   *)
(* the result comes from which pixels of the pictures there were.  A       *)
(* picture is a width, a height and a value at each place; that an image   *)
(* is one block of memory, filled in some order, is not seen here.         *)
(*                                                                         *)
(* left is the picture worked on, right the other one, read or drawn over, *)
(* called the last call and ret what it returned.                          *)
(***************************************************************************)
EXTENDS Drawings, Sequences

CONSTANTS Pictures  (* what left and right may show at first *)

VARIABLES left, right, called, ret

vars == <<left, right, called, ret>>

-----------------------------------------------------------------------------
(* Pictures drawn from p. *)
(* One row goes round. *)
RowRound(p, row, shift) ==
  Redrawn(p, LAMBDA x, y : IF y = row THEN At(p, (x - shift) % p.w, y) ELSE At(p, x, y))

(* The quadrants change places crosswise. *)
Crosswise(p) ==
  Redrawn(p, LAMBDA x, y : At(p, (x + p.w \div 2) % p.w, (y + p.h \div 2) % p.h))

EvenSides(p) == p.w % 2 = 0 /\ p.h % 2 = 0

(* The columns of p as the rows of q, as far as q goes. *)
Turned(p, q) ==
  Redrawn(q, LAMBDA x, y : IF Within(p, y, x) THEN At(p, y, x) ELSE At(q, x, y))

Enlarged(p, n) == Drawing(n * p.w, n * p.h, LAMBDA x, y : At(p, x \div n, y \div n))

(* The window of n channels that lies nearest to n \div 2 before x. *)
Window(w, n, x) ==
  LET off(f) == Magnitude(f - (x - n \div 2))
      first == CHOOSE f \in 0 .. w - n : \A g \in 0 .. w - n : off(f) <= off(g)
  IN  first .. first + n - 1

Smoothed(p, n) ==
  Redrawn(p, LAMBDA x, y : Over(SumOver(LAMBDA c : At(p, c, y), Window(p.w, n, x)), n))

LessRow(p, row) == Redrawn(p, LAMBDA x, y : Minus(At(p, x, y), At(p, x, row)))

LessColumn(p, col) == Redrawn(p, LAMBDA x, y : Minus(At(p, x, y), At(p, col, y)))

RowSet(p, row, v) == Redrawn(p, LAMBDA x, y : IF y = row THEN v ELSE At(p, x, y))

(* How many pixels of p there are of which c holds. *)
Count(p, c(_, _)) == Cardinality({t \in DOMAIN p.at : c(t[1], t[2])})

Quotient(a, b) == IF b = 0 THEN a ELSE Over(a, b)
Squares(a, b) == Plus(Times(a, a), Times(b, b))
PlusSquare(a, b) == Plus(a, Times(b, b))
Flagged(a, b) == IF Above(b, 0) THEN -1000 ELSE a
Differ(a, b, least, nans) == IF Number(a) /\ Number(b) THEN Above(Fabs(Minus(a, b)), least) ELSE nans
(* The nearest value between the limits; if there is none, low for what is  *)
(* below it and high for the rest.                                          *)
Between(a, low, high) ==
  IF ~Number(a) THEN a
  ELSE IF low <= high THEN Max({low, Min({a, high})})
  ELSE IF a < low THEN low ELSE high

-----------------------------------------------------------------------------
(* The promises: what is new after call c, with its arguments in order. *)
Left(c, a) ==
  CASE c = "VertFlip" -> UpsideDown(left)
    [] c = "HorFlip" -> Mirrored(left)
    [] c = "roll" -> RowRound(left, a[1], a[2])
    [] c = "fft_shift in place" -> Crosswise(left)
    [] c = "Divide" -> Both(left, right, Quotient)
    [] c = "AddImages" -> Both(left, right, LAMBDA u, v : Times(Plus(u, v), a[1]))
    [] c = "Multiply" -> Both(left, right, Times)
    [] c = "Subtract" -> Both(left, right, Minus)
    [] c = "ComplexMag" -> Both(left, right, Squares)
    [] c = "+=" /\ SameSize(left, right) -> Both(left, right, Plus)
    [] c = "add_squared" /\ SameSize(left, right) -> Both(left, right, PlusSquare)
    [] c = "FlagFile" -> Both(left, right, Flagged)
    [] c = "SubtractSpectrum" -> LessRow(left, a[1])
    [] c = "SubtractColumn" -> LessColumn(left, a[1])
    [] c = "setY" -> RowSet(left, a[1], a[2])
    [] c = "SetValue" -> Each(left, LAMBDA v : a[1])
    [] c = "SetNaN" -> Each(left, LAMBDA v : NaN)
    [] c = "ABS" -> Each(left, Fabs)
    [] c = "AddConst" -> Each(left, LAMBDA v : Plus(v, a[1]))
    [] c = "TimesConst" -> Each(left, LAMBDA v : Times(v, a[1]))
    [] c = "DivideConst" -> Each(left, LAMBDA v : Over(v, a[1]))
    [] c = "AstroRootImage" -> Each(left, LAMBDA v : IF Above(v, a[1]) THEN a[1] ELSE v)
    [] c = "ZeroWrongValues" -> Each(left, LAMBDA v : IF Above(Fabs(v), a[1]) THEN 0 ELSE v)
    [] c = "FixBadValues" -> Each(left, LAMBDA v : Between(v, a[1], a[2]))
    [] c = "setfitsvalue" -> Each(left, LAMBDA v : IF Number(v) /\ v # 0 THEN 1 ELSE v)
    [] OTHER -> left

Right(c, a) ==
  CASE c = "fft_shift" -> Crosswise(left)
    [] c = "Transpose" -> Turned(left, right)
    [] c = "Offset" /\ SameSize(left, right) -> Moved(left, right, a[1], a[2], a[3])
    [] c = "shift_image" -> Moved(left, Each(left, LAMBDA v : 0), 0, a[1], 1)
    [] c = "Oversample" -> Enlarged(left, a[1])
    [] c = "AvgChannels" -> Smoothed(left, a[1])
    [] c = "cutimage" -> Part(left, a[1], a[2], a[3], a[4])
    [] OTHER -> right

End(last, side) == IF last < 0 THEN side ELSE last

Numbers(p, x0, x1, y0, y1) == {t \in DOMAIN p.at : /\ x0 <= t[1] /\ t[1] < x1 /\ y0 <= t[2] /\ t[2] < y1
                                                   /\ Finite(p.at[t])}

Ret(c, a) ==
  CASE c = "GetTotalPower" ->
         <<SumOver(LAMBDA x : At(left, x, a[1]), (a[2] .. End(a[3], left.w - 1)) \cap (0 .. left.w - 1))>>
    [] c = "FindValue >=" -> <<Count(left, LAMBDA x, y : AtLeast(At(left, x, y), a[1]))>>
    [] c = "FindValue <" -> <<Count(left, LAMBDA x, y : Above(a[1], At(left, x, y)))>>
    [] c = "Compare" ->
         IF SameSize(left, right)
         THEN <<Count(left, LAMBDA x, y : Differ(At(left, x, y), At(right, x, y), a[1], a[2]))>> ELSE <<1>>
    [] c = "GetStat" ->
         LET S == Numbers(left, a[1], End(a[2], left.w), a[3], End(a[4], left.h))
             v == {left.at[t] : t \in S}
         IN  <<SumOver(LAMBDA t : left.at[t], S), Cardinality(S),
               Min({1000000} \cup v), Max({-1000000} \cup v)>>
    [] OTHER -> ret

Calls ==
  {"VertFlip", "HorFlip", "roll", "fft_shift in place", "fft_shift", "Divide", "AddImages", "Multiply",
   "Subtract", "ComplexMag", "+=", "add_squared", "FlagFile", "SubtractSpectrum", "SubtractColumn", "setY",
   "SetValue", "SetNaN", "ABS", "AddConst", "TimesConst", "DivideConst", "AstroRootImage",
   "ZeroWrongValues", "FixBadValues", "setfitsvalue", "Transpose", "Offset", "shift_image", "Oversample",
   "AvgChannels", "cutimage", "GetTotalPower", "FindValue >=", "FindValue <", "Compare", "GetStat"}

(* Nothing is promised of other calls, nor of these: pictures of two sizes put together, odd    *)
(* sides in a shift of the quadrants, an offset of a picture that is not a  *)
(* square, a row that goes round by more than a row to the left, a shift of *)
(* an image by nothing and an average of more channels than there are.      *)
Open(c, a) ==
  \/ c \notin Calls
  \/ /\ c \in {"Divide", "AddImages", "Multiply", "Subtract", "ComplexMag", "FlagFile",
               "fft_shift", "AvgChannels"}
     /\ ~SameSize(left, right)
  \/ c \in {"fft_shift", "fft_shift in place"} /\ ~EvenSides(left)
  \/ c = "Offset" /\ left.w # left.h
  \/ c = "roll" /\ a[2] < -left.w
  \/ c = "shift_image" /\ a[1] = 0
  \/ c = "AvgChannels" /\ a[1] > left.w

Init == left \in Pictures /\ right \in Pictures /\ called = <<"none">> /\ ret = <<>>

Next ==
  LET c == called'[1]  a == Tail(called')
  IN  \/ Open(c, a)
      \/ left' = Left(c, a) /\ right' = Right(c, a) /\ ret' = Ret(c, a)

Spec == Init /\ [][Next]_vars
=============================================================================
