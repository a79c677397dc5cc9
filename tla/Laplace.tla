------------------------------- MODULE Laplace -------------------------------
(***************************************************************************)
(* The kernels of the frames' laplace filters: for every type of laplace,  *)
(* the pixels around a pixel that are added and those whose average, times *)
(* their number, is taken away.  A filter is blind to a sky that is flat   *)
(* or rises evenly, and sees what stands out of it.                        *)
(*                                                                         *)
(* A pixel is reached by at(<<x, y>>): a frame hands over how its index    *)
(* of rows finds it.                                                       *)
(***************************************************************************)
EXTENDS Integers, SequencesExt, TLC

LaplaceTypes == {"eRawS", "eSinglePoint", "eTwoPoints", "eFourPoints", "eFourTwelve",
                 "eFourTwelveFar", "eFivePoints", "eFivePlusFourMin", "eFiveEight",
                 "eNineEightFive", "eNineEightSevenVeryBig", "eEightFour", "eEightTen"}

Kernel(plus, minus) == [plus |-> plus, minus |-> minus]

Corners(left, right, low, up) == <<<<left, low>>, <<right, low>>, <<left, up>>, <<right, up>>>>
Cross == <<<<0, 0>>, <<1, 0>>, <<-1, 0>>, <<0, -1>>, <<0, 1>>>>
FarArms == <<<<0, -3>>, <<0, 3>>, <<-3, 0>>, <<3, 0>>>>

RawS == Kernel(<<<<0, 0>>>>, <<>>)

SinglePoint == Kernel(<<<<0, 0>>>>, Corners(-1, 1, -1, 1))

TwoPoints == Kernel(<<<<0, 0>>, <<1, 0>>>>, Corners(-1, 2, -1, 1))

FourPoints == Kernel(<<<<0, 0>>, <<1, 0>>, <<0, -1>>, <<1, -1>>>>, Corners(-1, 2, -2, 1))

FourTwelve ==
  Kernel(FourPoints.plus, FourPoints.minus \o
    <<<<0, 1>>, <<1, 1>>, <<0, -2>>, <<1, -2>>, <<-1, 0>>, <<-1, -1>>, <<2, 0>>, <<2, -1>>>>)

FourTwelveFar ==
  Kernel(FourPoints.plus, FourPoints.minus \o
    <<<<0, 2>>, <<1, 2>>, <<0, -3>>, <<1, -3>>, <<-2, 0>>, <<-2, -1>>, <<3, 0>>, <<3, -1>>>>)

FivePoints == Kernel(Cross, Corners(-1, 1, -1, 1))

FivePlusFourMin == Kernel(Cross, Corners(-2, 2, -2, 2))

(* Mutant: one of the far pixels is left out. *)
FiveSeven == Kernel(Cross, FivePlusFourMin.minus \o SubSeq(FarArms, 1, 3))

FiveEight == Kernel(Cross, FivePlusFourMin.minus \o FarArms)

(* The square is listed by rows. *)
Nine == [i \in 1 .. 9 |-> <<((i - 1) % 3) - 1, ((i - 1) \div 3) - 1>>]

NineEightFive ==
  Kernel(Nine, <<<<-1, -2>>, <<1, -2>>, <<-2, -1>>, <<2, -1>>, <<-1, 2>>, <<1, 2>>, <<-2, 1>>, <<2, 1>>>>)

NineEightSevenVeryBig == Kernel(Nine, Corners(-2, 2, -2, 2) \o FarArms)

EightFour ==
  Kernel(<<<<-1, 0>>, <<0, 0>>, <<1, 0>>, <<2, 0>>, <<0, 1>>, <<1, 1>>, <<0, -1>>, <<1, -1>>>>,
         Corners(-2, 3, -2, 2))

EightTen ==
  Kernel(EightFour.plus, EightFour.minus \o
    <<<<0, -3>>, <<1, -3>>, <<0, 3>>, <<1, 3>>, <<-3, 0>>, <<4, 0>>>>)

GetPlusMinusList(type) ==
  CASE type = "eRawS" -> RawS
    [] type = "eSinglePoint" -> SinglePoint
    [] type = "eTwoPoints" -> TwoPoints
    [] type = "eFourPoints" -> FourPoints
    [] type = "eFourTwelve" -> FourTwelve
    [] type = "eFourTwelveFar" -> FourTwelveFar
    [] type = "eFivePoints" -> FivePoints
    [] type = "eFivePlusFourMin" -> FivePlusFourMin
    [] type = "eFiveEight" -> FiveEight
    [] type = "eNineEightFive" -> NineEightFive
    [] type = "eNineEightSevenVeryBig" -> NineEightSevenVeryBig
    [] type = "eEightFour" -> EightFour
    [] type = "eEightTen" -> EightTen

-----------------------------------------------------------------------------
(* A quotient of integers cut towards zero, as a conversion to int cuts. *)
Trunc(a, b) ==
  LET size(v) == IF v < 0 THEN -v ELSE v
      q == size(a) \div size(b)
  IN  IF (a < 0) = (b < 0) THEN q ELSE -q

(* What the conversion of no number gives. *)
NoInt == -999

SumAt(f, xy, list) ==
  MapThenSumSet(LAMBDA i : f[<<xy[1] + list[i][1], xy[2] + list[i][2]>>], DOMAIN list)

(* The factor of the pixels taken away, as a fraction. *)
InitGlobalLaplaceInfoTable ==
  [type \in LaplaceTypes |->
     LET k == GetPlusMinusList(type)
     IN  [plus |-> k.plus, minus |-> k.minus,
          factor |-> IF Len(k.minus) > 0 THEN <<Len(k.plus), Len(k.minus)>> ELSE <<0, 1>>]]

gLaplaceInfo == InitGlobalLaplaceInfoTable

Places(xy, list) == {<<xy[1] + d[1], xy[2] + d[2]>> : d \in Range(list)}
Reaches(xy, type) == Places(xy, gLaplaceInfo[type].plus) \cup Places(xy, gLaplaceInfo[type].minus)

CalcLaplaceSum(f, xy, type) ==
  LET k == gLaplaceInfo[type]
  IN  Trunc(SumAt(f, xy, k.plus) * k.factor[2] - k.factor[1] * SumAt(f, xy, k.minus), k.factor[2])

(* The same with the middle one of the values taken away, times as many as  *)
(* are added.                                                               *)
CalcLaplaceSumMedian(f, xy, type) ==
  LET k == gLaplaceInfo[type]
      values == SortSeq([i \in DOMAIN k.minus |-> SumAt(f, xy, <<k.minus[i]>>)], <)
  IN  SumAt(f, xy, k.plus) - values[Len(values) \div 2 + 1] * Len(k.plus)

CalcG54(f, xy) ==
  LET near == SumAt(f, xy, <<<<0, 0>>, <<0, -1>>, <<0, 1>>, <<-1, 0>>, <<1, 0>>>>)
      far == SumAt(f, xy, <<<<-2, -2>>, <<2, -2>>, <<-2, 2>>, <<2, 2>>>>)
  IN  Trunc(4 * near - 5 * far, 4)

(* On the edge only the pixels there are count, and as many are taken away  *)
(* as are added.                                                            *)
CalcLaplaceSumEstimateOnEdge(f, xy, k) ==
  LET there(list) == SelectSeq(list, LAMBDA d : <<xy[1] + d[1], xy[2] + d[2]>> \in DOMAIN f)
      plus == there(k.plus)  minus == there(k.minus)
  IN  IF minus = <<>> THEN NoInt
      ELSE Trunc(SumAt(f, xy, plus) * Len(minus) - Len(plus) * SumAt(f, xy, minus), Len(minus))
=============================================================================
