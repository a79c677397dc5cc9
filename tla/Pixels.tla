------------------------------- MODULE Pixels -------------------------------
(***************************************************************************)
(* The operations on the pixels of CBgFits (src/src/bg_fits.cpp) and the   *)
(* programs that are little more than one of them: calcfits_bg, cutimage,  *)
(* shift_image, setfitsvalue and flip_vertical, flip_horizontal.  The      *)
(* pixels of an image are one block of floats, row by row, and the loops   *)
(* of the code either go over the block or call getXY and setXY, which     *)
(* look at the bounds.  Picture says what comes out.                       *)
(*                                                                         *)
(* left is the object of the call, right its parameter, the image it       *)
(* writes or its RFI mask.  A call takes images without junk, values that  *)
(* nobody stored; what it makes of junk nobody can say.                    *)
(***************************************************************************)
EXTENDS FloatValues, Sequences

CONSTANTS Images,    (* what left and right may be at first *)
          Values,    (* what callers pass for numbers *)
          Places,    (* what they pass for rows, columns, sizes and shifts *)
          Junk,      (* what is in a new block *)
          MaxCalls   (* bounds the run *)

VARIABLES left, right,
          called,    (* the last call, with what it was given *)
          ret,       (* what the last call that returns something returned *)
          calls

pixelVars == <<left, right, called, ret, calls>>

Columns(m) == 0 .. m.x - 1
Rows(m) == 0 .. m.y - 1

New(sx, sy) == [x |-> sx, y |-> sy, data |-> [i \in 0 .. sx * sy - 1 |-> Junk]]

Inside(m, x, y) == x >= 0 /\ y >= 0 /\ x < m.x /\ y < m.y

Pos(m, x, y) == y * m.x + x

valXY(m, x, y) == IF Inside(m, x, y) THEN m.data[Pos(m, x, y)] ELSE NaN

(* A loop of calls of setXY with the x, y and value of each w of ws. *)
setXY(m, ws) ==
  LET at(i) == {w \in ws : Inside(m, w[1], w[2]) /\ Pos(m, w[1], w[2]) = i}
  IN  [m EXCEPT !.data = [i \in DOMAIN @ |-> IF at(i) = {} THEN @[i] ELSE (CHOOSE w \in at(i) : TRUE)[3]]]

(* Loops over the block. *)
Recalc(m, f(_)) == [m EXCEPT !.data = [i \in DOMAIN @ |-> f(@[i])]]

WithRight(m, r, f(_, _)) == [m EXCEPT !.data = [i \in DOMAIN @ |-> f(@[i], r.data[i])]]

SameSizes(m, r) == m.x = r.x /\ m.y = r.y

-----------------------------------------------------------------------------
(* What VertFlip and HorFlip make of m: one through another image, the      *)
(* other through a copy of each line.                                       *)
VertFlipped(m) ==
  setXY(New(m.x, m.y), {<<x, m.y - 1 - y, valXY(m, x, y)>> : x \in Columns(m), y \in Rows(m)})

(* Mutant: the line is not copied, and its second half is read when it has  *)
(* been written.                                                            *)
HorFlippedInPlace(m) ==
  setXY(m, {<<m.x - 1 - x, y, valXY(m, IF 2 * x < m.x THEN x ELSE m.x - 1 - x, y)>>
              : x \in Columns(m), y \in Rows(m)})

HorFlipped(m) ==
  setXY(m, {<<m.x - 1 - x, y, valXY(m, x, y)>> : x \in Columns(m), y \in Rows(m)})

RollTo(m, i, shift) ==
  LET new_i == IF i + shift < 0 THEN m.x + i + shift ELSE i + shift
  IN  IF new_i >= m.x THEN new_i % m.x ELSE new_i

Rolled(m, row, shift) ==
  LET zeros == setXY(m, {<<x, row, 0>> : x \in Columns(m)})
  IN  setXY(zeros, {<<RollTo(m, i, shift), row, valXY(m, i, row)>> : i \in Columns(m)})

(* fft_shift puts the halves of each row, and then those of each column,    *)
(* the other way round; out may be m itself.                                *)
IsOdd(m) == IF m.x % 2 = 1 /\ m.y % 2 = 1 THEN 1 ELSE 0

RowsShifted(m) ==
  LET c == m.x \div 2  odd == IsOdd(m)
  IN  setXY(New(m.x, m.y), {<<c + x, y, valXY(m, x, y)>> : x \in 0 .. c - 1, y \in Rows(m)}
              \cup {<<x - (c + odd), y, valXY(m, x, y)>> : x \in c + odd .. m.x - 1, y \in Rows(m)})

FftShifted(m, out) ==
  LET c == m.y \div 2  odd == IsOdd(m)  tmp == RowsShifted(m)
      top == setXY(out, {<<x, c + y, valXY(tmp, x, y)>> : x \in Columns(m), y \in 0 .. c})
  IN  setXY(top, {<<x, y - (c + odd), valXY(tmp, x, y)>> : x \in Columns(m), y \in c + odd .. m.y - 1})

Transposed(m, out) ==
  setXY(out, {<<t, ch, valXY(m, ch, t)>> : ch \in Columns(m), t \in Rows(m)})

(* The loop over the columns counts rows. *)
OffsetBy(m, out, dx, dy, mult) ==
  IF ~SameSizes(m, out) THEN out
  ELSE setXY(out, {<<x + dx, y + dy, Times(valXY(m, x, y), mult)>> : x, y \in Rows(m)})

(* shift_image moves over zeros, and writes only them when there is no move. *)
ShiftImage(m, shift_y) ==
  LET zeros == Recalc(New(m.x, m.y), LAMBDA v : 0)
  IN  IF shift_y = 0 THEN zeros
      ELSE setXY(zeros, {<<x, y + shift_y, valXY(m, x, y)>> : x \in Columns(m), y \in Rows(m)})

Oversampled(m, n) ==
  setXY(New(n * m.x, n * m.y),
        {<<x, y, valXY(m, x \div n, y \div n)>> : x \in 0 .. n * m.x - 1, y \in 0 .. n * m.y - 1})

(* The channels averaged for channel x. *)
FirstAveraged(m, n, x) ==
  LET low == IF x - n \div 2 <= 0 THEN 0 ELSE x - n \div 2
  IN  IF low >= m.x - n THEN m.x - n ELSE low

Averaged(m, n, x) == FirstAveraged(m, n, x) .. FirstAveraged(m, n, x) + n - 1

ChannelsAveraged(m, n, out) ==
  setXY(out, {<<x, y, LET S == {c \in Averaged(m, n, x) : c < m.x}
                      IN  Over(SumOver(LAMBDA c : valXY(m, c, y), S), Cardinality(S))>>
                : x \in Columns(m), y \in Rows(m)})

(* cutimage: an end beyond the image, or none, leaves out its last row or   *)
(* column.                                                                  *)
CutEnd(gEnd, size) == IF gEnd >= size \/ gEnd <= 0 THEN size - 1 ELSE gEnd

Cut(m, x0, x1, y0, y1) ==
  setXY(New(x1 - x0, y1 - y0),
        {<<x - x0, y - y0, valXY(m, x, y)>> : x \in x0 .. x1 - 1, y \in y0 .. y1 - 1})

(* SubtractSpectrum and SubtractColumn, with a line that get_line read and  *)
(* with a column of the image.                                              *)
SpectrumSubtracted(m, spectrum) ==
  setXY(m, {<<x, y, Minus(valXY(m, x, y), spectrum[x])>> : x \in Columns(m), y \in Rows(m)})

ColumnSubtracted(m, column) ==
  setXY(m, {<<x, y, Minus(valXY(m, x, y), column[y])>> : x \in Columns(m), y \in Rows(m)})

(* Each limit is compared with the value there was: when the lower one is   *)
(* above the upper one, it is the lower one that stays.                     *)
FixedValue(v, low, high) ==
  LET capped == IF Above(v, high) THEN high ELSE v
  IN  IF Above(low, v) THEN low ELSE capped

-----------------------------------------------------------------------------
(* A call named and its arguments, and what it changes. *)
Changes(m, name) == called' = name /\ left' = m /\ UNCHANGED <<right, ret>>
Draws(m, name) == called' = name /\ right' = m /\ UNCHANGED <<left, ret>>
Returns(v, name) == called' = name /\ ret' = v /\ UNCHANGED <<left, right>>

Flip ==
  \/ Changes(VertFlipped(left), <<"VertFlip">>)
  \/ Changes(HorFlipped(left), <<"HorFlip">>)

roll == \E row \in Rows(left), shift \in Places :
          Changes(Rolled(left, row, shift), <<"roll", row, shift>>)

fft_shift ==
  \/ Changes(FftShifted(left, left), <<"fft_shift in place">>)
  \/ Draws(FftShifted(left, right), <<"fft_shift">>)

Transpose == Draws(Transposed(left, right), <<"Transpose">>)

Offset == \E dx, dy \in Places, mult \in Values :
            Draws(OffsetBy(left, right, dx, dy, mult), <<"Offset", dx, dy, mult>>)

shift_image == \E shift_y \in Places : Draws(ShiftImage(left, shift_y), <<"shift_image", shift_y>>)

Oversample == \E n \in Places : n > 0 /\ Draws(Oversampled(left, n), <<"Oversample", n>>)

AvgChannels == \E n \in Places :
                 n > 0 /\ Draws(ChannelsAveraged(left, n, right), <<"AvgChannels", n>>)

CutOut(x0, x1, y0, y1) ==
  /\ 0 <= x0 /\ x0 < x1 /\ 0 <= y0 /\ y0 < y1
  /\ Draws(Cut(left, x0, x1, y0, y1), <<"cutimage", x0, x1, y0, y1>>)

(* Rows, columns or both. *)
cutimage == \E gStart, gEnd \in Places :
  \/ CutOut(0, left.x, gStart, CutEnd(gEnd, left.y))
  \/ CutOut(gStart, CutEnd(gEnd, left.x), 0, left.y)
  \/ \E gStartY, gEndY \in Places : CutOut(gStart, gEnd, gStartY, gEndY)

(* The loops over both blocks take the right one to be as long. *)
DualFile ==
  /\ right.x * right.y >= left.x * left.y
  /\ \/ Changes(WithRight(left, right, LAMBDA a, b : IF b # 0 THEN Over(a, b) ELSE a), <<"Divide">>)
     \/ \E mult \in Values :
          Changes(WithRight(left, right, LAMBDA a, b : Times(Plus(a, b), mult)), <<"AddImages", mult>>)
     \/ Changes(WithRight(left, right, Times), <<"Multiply">>)
     \/ Changes(WithRight(left, right, Minus), <<"Subtract">>)
     \/ Changes(WithRight(left, right, LAMBDA a, b : Plus(Times(a, a), Times(b, b))), <<"ComplexMag">>)

(* These two look at the sizes. *)
Accumulate ==
  LET Added(f(_, _)) == IF SameSizes(left, right) THEN WithRight(left, right, f) ELSE left
  IN  \/ Changes(Added(Plus), <<"+=">>)
      \/ Changes(Added(LAMBDA a, b : Plus(a, Times(b, b))), <<"add_squared">>)

(* Here right is the RFI mask; a mask too small is not survived. *)
FlagFile ==
  /\ right.x >= left.x /\ right.y >= left.y
  /\ LET rfi == {p \in Columns(left) \X Rows(left) : Above(valXY(right, p[1], p[2]), 0)}
     IN  Changes(setXY(left, {p \o <<-1000>> : p \in rfi}), <<"FlagFile">>)

SubtractLine ==
  \/ \E y \in Places : Changes(SpectrumSubtracted(left, [x \in Columns(left) |-> valXY(left, x, y)]),
                               <<"SubtractSpectrum", y>>)
  \/ \E x \in Columns(left) : Changes(ColumnSubtracted(left, [y \in Rows(left) |-> valXY(left, x, y)]),
                                      <<"SubtractColumn", x>>)

RecalcFile ==
  \/ Changes(Recalc(left, Fabs), <<"ABS">>)
  \/ \E value \in Values :
       \/ Changes(Recalc(left, LAMBDA v : Plus(v, value)), <<"AddConst", value>>)
       \/ Changes(Recalc(left, LAMBDA v : Times(v, value)), <<"TimesConst", value>>)
       \/ Changes(Recalc(left, LAMBDA v : Over(v, value)), <<"DivideConst", value>>)
       \/ Changes(Recalc(left, LAMBDA v : IF Above(v, value) THEN value ELSE v), <<"AstroRootImage", value>>)

SetValues ==
  \/ \E y \in Places, v \in Values : Changes(setXY(left, {<<x, y, v>> : x \in Columns(left)}), <<"setY", y, v>>)
  \/ \E v \in Values : Changes(Recalc(left, LAMBDA a : v), <<"SetValue", v>>)
  \/ Changes(Recalc(left, LAMBDA a : NaN), <<"SetNaN">>)
  \/ \E limit \in Values : Changes(Recalc(left, LAMBDA v : IF Above(Fabs(v), limit) THEN 0 ELSE v),
                                   <<"ZeroWrongValues", limit>>)
  \/ \E low, high \in Values : Changes(Recalc(left, LAMBDA v : FixedValue(v, low, high)),
                                       <<"FixBadValues", low, high>>)
  \/ Changes(Recalc(left, LAMBDA v : IF Above(Fabs(v), 0) THEN 1 ELSE v), <<"setfitsvalue">>)

-----------------------------------------------------------------------------
(* The places of the block whose pixels, as their loops see them, count. *)
Found(c(_)) == Cardinality({i \in DOMAIN left.data : c(left.data[i])})

FindValue == \E v \in Values :
  \/ Returns(<<Found(LAMBDA a : AtLeast(a, v))>>, <<"FindValue >=", v>>)
  \/ Returns(<<Found(LAMBDA a : Above(v, a))>>, <<"FindValue <", v>>)

GetTotalPower == \E integration, start, end \in Places :
  LET last == IF end < 0 THEN left.x - 1 ELSE end
      chs == {x \in Columns(left) : x >= start /\ x <= last}
  IN  Returns(<<SumOver(LAMBDA x : valXY(left, x, integration), chs)>>,
              <<"GetTotalPower", integration, start, end>>)

Different(i, min_diff, bCountNaNs) ==
  LET a == left.data[i]  b == right.data[i]
  IN  IF Number(a) /\ Number(b) THEN Above(Fabs(Minus(a, b)), min_diff) ELSE bCountNaNs

Compare == \E min_diff \in Values, bCountNaNs \in BOOLEAN :
  Returns(<<IF SameSizes(left, right)
            THEN Cardinality({i \in DOMAIN left.data : Different(i, min_diff, bCountNaNs)}) ELSE 1>>,
          <<"Compare", min_diff, bCountNaNs>>)

(* GetStat of a window, a negative end standing for the side of the image:  *)
(* the sum and the number of the finite values, the smallest and the        *)
(* largest.                                                                 *)
Numbers(x0, x1, y0, y1) ==
  {p \in (x0 .. x1 - 1) \X (y0 .. y1 - 1) : Finite(valXY(left, p[1], p[2]))}

GetStat == \E x0, y0, x1, y1 \in Places :
  LET S == Numbers(x0, IF x1 < 0 THEN left.x ELSE x1, y0, IF y1 < 0 THEN left.y ELSE y1)
      val(p) == valXY(left, p[1], p[2])
      vals == {val(p) : p \in S}
  IN  Returns(<<SumOver(val, S), Cardinality(S), Min({1000000} \cup vals), Max({-1000000} \cup vals)>>,
              <<"GetStat", x0, x1, y0, y1>>)

-----------------------------------------------------------------------------
PixelsInit == left \in Images /\ right \in Images /\ called = <<"none">> /\ ret = <<>> /\ calls = 0

Whole(m) == \A i \in DOMAIN m.data : m.data[i] # Junk

Call ==
  \/ Flip \/ roll \/ fft_shift \/ Transpose \/ Offset \/ shift_image \/ Oversample \/ AvgChannels
  \/ cutimage \/ DualFile \/ Accumulate \/ FlagFile \/ SubtractLine \/ RecalcFile \/ SetValues
  \/ FindValue \/ GetTotalPower \/ Compare \/ GetStat

PixelsNext ==
  /\ Whole(left) /\ Whole(right) /\ calls < MaxCalls /\ calls' = calls + 1
  /\ Call

PixelsSpec == PixelsInit /\ [][PixelsNext]_pixelVars

-----------------------------------------------------------------------------
(* The picture an image shows. *)
PictureOf(m) ==
  [w |-> m.x, h |-> m.y, at |-> [p \in Columns(m) \X Rows(m) |-> m.data[Pos(m, p[1], p[2])]]]

Shown == INSTANCE Picture WITH left <- PictureOf(left), right <- PictureOf(right),
                               Pictures <- {PictureOf(m) : m \in Images}

(* Whatever the calls before, every operation draws the picture it          *)
(* promises, though it works on one block of floats, often in place and     *)
(* with loops that leave the image: flips and shifts lose no pixel, cuts    *)
(* and offsets put each in its place, arithmetic keeps NaN, and counts and  *)
(* sums see each pixel once.                                                *)
Drawn == Shown!Spec
=============================================================================
