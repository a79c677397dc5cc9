---------------------------- MODULE StatPicture -----------------------------
(***************************************************************************)
(* What CBgFits tells of a picture, and what it makes of one by its lines: *)
(* of which pixels every number is.  As in Picture, left is the picture    *)
(* worked on, right the other one, called the last call and ret what it    *)
(* returned.                                                               *)
(***************************************************************************)
EXTENDS Drawings, Sequences

VARIABLES left, right, called, ret

vars == <<left, right, called, ret>>

-----------------------------------------------------------------------------
PlacesOf(p) == DOMAIN p.at
RowOf(p, y) == {t \in PlacesOf(p) : t[2] = y}
ColumnOf(p, x) == {t \in PlacesOf(p) : t[1] = x}

Line(p, y) == [i \in 1 .. p.w |-> At(p, i - 1, y)]

Numbers(p, S) == {t \in S : Number(p.at[t])}
Finites(p, S) == {t \in S : Finite(p.at[t])}

(* How many, their sum and that of their squares: a mean and a spread. *)
Moments(p, S) ==
  <<Cardinality(S), SumOver(LAMBDA t : p.at[t], S), SumOver(LAMBDA t : Times(p.at[t], p.at[t]), S)>>

MeanOf(p, S) == IF S = {} THEN NaN ELSE Over(SumOver(LAMBDA t : p.at[t], S), Cardinality(S))

(* The value that k of those of S are before. *)
Ranked(p, S, k) ==
  CHOOSE v \in {p.at[t] : t \in S} :
    /\ Cardinality({t \in S : p.at[t] < v}) <= k
    /\ k < Cardinality({t \in S : p.at[t] <= v})

MedianOf(p, S) == Ranked(p, S, Cardinality(S) \div 2)

MedianAndQuartiles(p, S) ==
  <<MedianOf(p, S), Ranked(p, S, (Cardinality(S) * 3) \div 4), Ranked(p, S, Cardinality(S) \div 4)>>

Lowest(p, S) == Min({1000000} \cup {p.at[t] : t \in S})
Highest(p, S) == Max({-1000000} \cup {p.at[t] : t \in S})

Square(a) == a * a

(* Without the last place to the right and the last one below. *)
Disc(p, r, cx, cy) ==
  {t \in PlacesOf(p) : /\ Square(t[1] - cx) + Square(t[2] - cy) <= Square(r)
                     /\ t \notin {<<cx + r, cy>>, <<cx, cy + r>>}}

DiscOrMiddle(p, r, xc, yc) == Disc(p, r, IF xc < 0 THEN p.w \div 2 ELSE xc, IF yc < 0 THEN p.h \div 2 ELSE yc)

-----------------------------------------------------------------------------
(* Below, p is the picture worked on, and o the other one. *)
RowPut(p, y, line) == Redrawn(p, LAMBDA u, v : IF v = y THEN line[u + 1] ELSE At(p, u, v))

Left(p, o, c, a) ==
  CASE c = "set_line" /\ o.w = p.w -> RowPut(p, a[1], Line(o, a[2]))
    [] c = "set_reim_line" /\ p.w = 2 * o.w ->
         RowPut(p, a[1], [i \in 1 .. p.w |-> At(o, (i - 1) \div 2, IF i % 2 = 1 THEN a[2] ELSE 0)])
    [] c = "addXY" ->
         Redrawn(p, LAMBDA u, v : IF <<u, v>> = <<a[1], a[2]>> THEN Plus(At(p, u, v), a[3]) ELSE At(p, u, v))
    [] c = "NormalizeX" -> Redrawn(p, LAMBDA u, v : Over(At(p, u, v), MeanOf(p, ColumnOf(p, u))))
    [] c = "NormalizeY" -> Redrawn(p, LAMBDA u, v : Over(At(p, u, v), MeanOf(p, RowOf(p, v))))
    [] c = "Normalize" -> Each(p, LAMBDA v : Over(v, a[1]))
    [] c = "Normalize by a line" -> Redrawn(p, LAMBDA u, v : Over(At(p, u, v), At(o, u, 0)))
    [] c = "Divide row" -> RowPut(p, a[1], [i \in 1 .. p.w |-> Over(At(p, i - 1, a[1]), a[2])])
    [] OTHER -> p

(* A map has the number of the disc around each pixel that is finite, as    *)
(* far from the middle as was asked for, and nothing to rely on elsewhere.  *)
MapOf(p, q, of(_), radius, fiducial) ==
  LET near(t) == fiducial <= 0 \/ Square(t[1] - p.w \div 2) + Square(t[2] - p.h \div 2) < Square(fiducial)
  IN  /\ SameSize(q, p)
      /\ \A t \in Finites(p, PlacesOf(p)) :
           near(t) => q.at[t] = of(Finites(p, Disc(p, radius, t[1], t[2])))

RightIs(p, o, q, c, a) ==
  CASE c = "Subtract into" -> q = Both(p, o, Minus)
    [] c = "SaveAsByte" -> q = Each(p, LAMBDA v : IF Above(v, 0) THEN 1 ELSE 0)
    [] c = "noise_mapper mean" -> MapOf(p, q, LAMBDA S : MeanOf(p, S), a[1], a[2])
    [] c = "noise_mapper median" -> MapOf(p, q, LAMBDA S : MedianOf(p, S), a[1], a[2])
    [] OTHER -> q = o

-----------------------------------------------------------------------------
(* What is returned. *)
Unflagged(p, o, x, ys, masked) ==
  {t \in ColumnOf(p, x) : t[2] \in ys /\ ~(masked /\ Above(At(o, t[1], t[2]), 0))}

SpectrumOf(p, o, x, ys, masked, least) ==
  LET U == Unflagged(p, o, x, ys, masked)
      H == Numbers(p, {t \in ColumnOf(p, x) : t[2] \in ys})
  IN  Moments(p, U) \o <<Lowest(p, {t \in H : p.at[t] >= least}), Highest(p, H)>>

CircleOf(p, r, S, all) ==
  Moments(p, S) \o <<Lowest(p, S), Highest(p, S)>>
  \o (IF all THEN MedianAndQuartiles(p, S) ELSE <<0, 0, 0>>)

PerColumn(p, of(_)) == [i \in 1 .. p.w |-> of(i - 1)]

(* Of a disc without finite values the median is not defined. *)
RetIs(p, o, r, c, a) ==
  CASE c = "get_line" -> r = IF a[1] \in 0 .. p.h - 1 THEN Line(p, a[1]) ELSE <<>>
    [] c = "get_line buffer" -> r = Line(p, a[1])
    [] c = "Sum" -> r[1] = SumOver(LAMBDA t : p.at[t], PlacesOf(p))
    [] c = "Sum of row" -> r[1] = SumOver(LAMBDA t : p.at[t], RowOf(p, a[1]))
    [] c = "MeanColumn" -> r = Moments(p, ColumnOf(p, a[1]))
    [] c = "MeanLines" -> r = [i \in 1 .. p.h |-> Moments(p, Finites(p, RowOf(p, i - 1)))]
    [] c = "total_power_simple" -> r = PerColumn(p, LAMBDA x : Moments(p, ColumnOf(p, x)))
    [] c = "SubtractLines" -> r = PerColumn(p, LAMBDA x : Minus(At(p, x, a[1]), At(p, x, a[2])))
    [] c = "DivideLines" -> r = PerColumn(p, LAMBDA x : Over(At(p, x, a[1]), At(p, x, a[2])))
    [] c = "dump_max_hold" -> r = PerColumn(p, LAMBDA x : Highest(p, Numbers(p, ColumnOf(p, x))))
    [] c = "dump_min_hold" -> r = PerColumn(p, LAMBDA x : Lowest(p, Numbers(p, ColumnOf(p, x))))
    [] c = "GetStatRadiusAll" ->
         LET S == Finites(p, DiscOrMiddle(p, a[1], a[2], a[3]))
         IN  IF S = {} THEN SubSeq(r, 1, 3) = <<0, 0, 0>> ELSE r = CircleOf(p, a[1], S, TRUE)
    [] c = "GetStatRadius" -> r = CircleOf(p, a[1], Finites(p, DiscOrMiddle(p, a[1], -1, -1)), FALSE)
    [] c = "GetStat of spectra" ->
         IF a[1] /\ ~SameSize(p, o) THEN r = <<-100000>>
         ELSE r = PerColumn(p, LAMBDA x : SpectrumOf(p, o, x, a[2], a[1], a[3]))
    [] c = "GetMedianInt" -> r = PerColumn(p, LAMBDA x : MedianAndQuartiles(p, ColumnOf(p, x)))
    [] OTHER -> c \in {"GetMaxPower", "FitPoly", "IsRFI_OK"} \/ r = ret

(* The largest power of a row and the last channel that has it, if any is   *)
(* above -1; the end is not looked at.                                      *)
MaxPowerIs(p, r, y, start, end) ==
  LET S == {t \in Numbers(p, RowOf(p, y)) : start <= t[1] /\ t[1] < IF end < 0 THEN p.w - 1 ELSE end}
  IN  IF \A t \in S : p.at[t] < -1 THEN r = <<-1, -1>>
      ELSE /\ <<r[2], y>> \in S /\ p.at[<<r[2], y>>] = r[1]
           /\ \A t \in S : p.at[t] <= r[1] /\ (t[1] > r[2] => p.at[t] < r[1])

(* The fit gets the points of the channels asked for, if they are there. *)
FitIs(p, r, y, from, to) ==
  to < p.w => r[1] = {<<x, At(p, x, y)>> : x \in (from .. to) \cap (0 .. p.w - 1)}

(* An integration is turned down for nothing but too much power. *)
AcceptedIs(p, r, y, c) ==
  LET power(S) == SumOver(LAMBDA t : p.at[t], S)
  IN  r[1] = {} => /\ ~(c.total > 0 /\ Above(power(RowOf(p, y)), c.total))
                   /\ \A x \in 0 .. c.last - 1 : ~Above(At(p, x, y), c.channel)

Calls ==
  {"set_line", "set_reim_line", "addXY", "NormalizeX", "NormalizeY", "Normalize", "Normalize by a line",
   "Divide row", "Subtract into", "SaveAsByte", "noise_mapper mean", "noise_mapper median",
   "get_line", "get_line buffer", "Sum", "Sum of row", "MeanColumn", "MeanLines", "total_power_simple",
   "SubtractLines", "DivideLines", "dump_max_hold", "dump_min_hold", "GetStatRadiusAll", "GetStatRadius",
   "GetStat of spectra", "GetMedianInt", "GetMaxPower", "FitPoly", "IsRFI_OK"}

Next ==
  LET p == left  o == right  c == called'[1]  a == Tail(called')
  IN  \/ c \notin Calls
      \/ /\ left' = Left(p, o, c, a) /\ RightIs(p, o, right', c, a) /\ RetIs(p, o, ret', c, a)
         /\ c = "GetMaxPower" => MaxPowerIs(p, ret', a[1], a[2], a[3])
         /\ c = "FitPoly" => FitIs(p, ret', a[1], a[2], a[3])
         /\ c = "IsRFI_OK" => AcceptedIs(p, ret', a[1], a[2])

Spec == [][Next]_vars
=============================================================================
