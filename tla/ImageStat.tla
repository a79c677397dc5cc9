----------------------------- MODULE ImageStat ------------------------------
(***************************************************************************)
(* The rest of what CBgFits does with pixels (src/src/bg_fits.cpp): lines  *)
(* that are put in and taken out, images divided by their own means, and   *)
(* the statistics of rows, columns, circles and spectra, with the programs *)
(* noise_mapper and total_power_simple.  StatPicture says what comes out.  *)
(*                                                                         *)
(* A mean and a spread are what they are calculated from: how many values, *)
(* their sum and the sum of their squares.  A line is a sequence.          *)
(***************************************************************************)
EXTENDS Pixels, SequencesExt, TLC

CONSTANTS Cuts,     (* what IsRFI_OK compares with: [total, part, from, to, *)
                    (* channel, last, orbcomm], Unset where there is none   *)
          Unset

Null == <<>>

NoMask == New(0, 0)

-----------------------------------------------------------------------------
(* Lines. *)
get_line(m, y) == IF y < 0 \/ y >= m.y THEN Null ELSE [i \in 1 .. m.x |-> m.data[Pos(m, i - 1, y)]]

set_line(m, y, line) ==
  IF m.x # Len(line) THEN m ELSE setXY(m, {<<x, y, line[x + 1]>> : x \in Columns(m)})

(* Real and imaginary parts take turns. *)
set_reim_line(m, y, re, im) ==
  IF m.x # 2 * Len(re) \/ Len(re) # Len(im) THEN m
  ELSE setXY(m, {<<x, y, IF x % 2 = 0 THEN re[(x \div 2) + 1] ELSE im[(x \div 2) + 1]>> : x \in Columns(m)})

addXY(m, x, y, v) == setXY(m, {<<x, y, Plus(valXY(m, x, y), v)>>})

-----------------------------------------------------------------------------
(* A loop over places ps that adds up, and one that leaves out what is not  *)
(* finite.                                                                  *)
Sums(m, ps) ==
  LET val(p) == valXY(m, p[1], p[2])
  IN  <<Cardinality(ps), SumOver(val, ps), SumOver(LAMBDA p : Times(val(p), val(p)), ps)>>

Finites(m, ps) == {p \in ps : Finite(valXY(m, p[1], p[2]))}

Mean(s) == IF s[1] = 0 THEN NaN ELSE Over(s[2], s[1])

Column(m, x) == {<<x, y>> : y \in Rows(m)}
Row(m, y) == {<<x, y>> : x \in Columns(m)}

(* NormalizeX goes through the columns and NormalizeY through the rows;     *)
(* each divides a line when all the means are known.                        *)
NormalizeX(m) ==
  LET line_avg == [ch \in Columns(m) |-> Mean(Sums(m, Column(m, ch)))]
  IN  setXY(m, {<<ch, t, Over(valXY(m, ch, t), line_avg[ch])>> : ch \in Columns(m), t \in Rows(m)})

(* Mutant: each value is divided as soon as it has been added. *)
NormalizeYAtOnce(m) ==
  LET sum(x, y) == SumOver(LAMBDA c : valXY(m, c, y), 0 .. x)
  IN  setXY(m, {<<x, y, Over(valXY(m, x, y), Over(sum(x, y), m.x))>> : x \in Columns(m), y \in Rows(m)})

NormalizeY(m) ==
  LET col_avg == [y \in Rows(m) |-> Mean(Sums(m, Row(m, y)))]
  IN  setXY(m, {<<x, y, Over(valXY(m, x, y), col_avg[y])>> : x \in Columns(m), y \in Rows(m)})

DividedBy(m, line) ==
  setXY(m, {<<x, y, Over(valXY(m, x, y), line[x + 1])>> : x \in Columns(m), y \in Rows(m)})

-----------------------------------------------------------------------------
(* The circle of GetStatRadius and GetStatRadiusAll: the square ends before *)
(* its last column and row.                                                 *)
Center(m, xc, yc) == <<IF xc >= 0 THEN xc ELSE m.x \div 2, IF yc >= 0 THEN yc ELSE m.y \div 2>>

InCircle(m, radius, c) ==
  {p \in (c[1] - radius .. c[1] + radius - 1) \X (c[2] - radius .. c[2] + radius - 1) :
     /\ Inside(m, p[1], p[2])
     /\ (p[1] - c[1]) * (p[1] - c[1]) + (p[2] - c[2]) * (p[2] - c[2]) <= radius * radius}

Extremes(m, ps) ==
  LET vals == {valXY(m, p[1], p[2]) : p \in ps}
  IN  <<Min({1000000} \cup vals), Max({-1000000} \cup vals)>>

Sorted(m, ps) == SortSeq(FoldSet(LAMBDA p, line : Append(line, valXY(m, p[1], p[2])), <<>>, ps), <)

(* The median and, for the spread between the quartiles, both of them. *)
Quartiles(values) ==
  LET cnt == Len(values)
  IN  <<values[(cnt \div 2) + 1], values[((cnt * 3) \div 4) + 1], values[(cnt \div 4) + 1]>>

(* What is sorted must be there: of no value at all, the median is what     *)
(* was in the new table.                                                    *)
GetStatRadiusAll(m, radius, do_iqr, xc, yc) ==
  LET ps == Finites(m, InCircle(m, radius, Center(m, xc, yc)))
  IN  Sums(m, ps) \o Extremes(m, ps)
      \o (IF ~do_iqr THEN <<0, 0, 0>> ELSE IF ps = {} THEN <<Junk, Junk, Junk>> ELSE Quartiles(Sorted(m, ps)))

(* MapNoise draws into new images; what it leaves out is never written. *)
MapNoise(m, radius, fiducial, medians) ==
  LET c == <<m.x \div 2, m.y \div 2>>
      near(x, y) == \/ fiducial <= 0
                    \/ (x - c[1]) * (x - c[1]) + (y - c[2]) * (y - c[2]) < fiducial * fiducial
      ps == {p \in Columns(m) \X Rows(m) : near(p[1], p[2]) /\ Finite(valXY(m, p[1], p[2]))}
      told(s) == IF medians THEN s[6] ELSE Mean(s)
  IN  setXY(New(m.x, m.y), {p \o <<told(GetStatRadiusAll(m, radius, TRUE, p[1], p[2]))>> : p \in ps})

-----------------------------------------------------------------------------
(* GetStat of spectra: the integrations ys, those of a state or all, and    *)
(* the mask of RFI.  The mean and spread of each channel leave out what is  *)
(* flagged, the minimum and the maximum do not.                             *)
UnflaggedIn(m, mask, x, ys) ==
  {<<x, y>> : y \in {r \in ys : mask.x = 0 \/ ~Above(valXY(mask, x, r), 0)}}

(* The smallest and the largest value of a channel. *)
Held(m, x, ys, least) ==
  LET vals == {valXY(m, x, y) : y \in ys} \ {NaN}
  IN  <<Min({1000000} \cup {v \in vals : v >= least}), Max({-1000000} \cup vals)>>

ChannelStat(m, mask, x, ys, least) ==
  LET s == Sums(m, UnflaggedIn(m, mask, x, ys))
  IN  (IF s[1] <= 0 THEN <<0, 0, 0>> ELSE s) \o Held(m, x, ys, least)

SpectraStat(m, mask, ys, least) == [i \in 1 .. m.x |-> ChannelStat(m, mask, i - 1, ys, least)]

(* The largest power of an integration, the last channel that has it, and   *)
(* none below -1; the end is left out, but GetTotalPower takes it in.       *)
GetMaxPower(m, y, start, end) ==
  LET chs == start .. (IF end < 0 THEN m.x - 1 ELSE end) - 1
      max == Max({-1} \cup {v \in {valXY(m, x, y) : x \in chs} : Number(v)})
      at == {x \in chs : valXY(m, x, y) = max}
  IN  <<max, IF at = {} THEN -1 ELSE Max(at)>>

TotalPower(m, y, start, end) ==
  SumOver(LAMBDA x : valXY(m, x, y), {x \in Columns(m) : start <= x /\ (x <= end \/ end < 0)})

(* The reasons IsRFI_OK has for turning an integration down.  Channels      *)
(* stand for frequencies and powers for their logarithms.                   *)
RejectionReasons(m, y, c) ==
  {r \in {"TOTAL_POWER", "TOTAL_POWER_FREQ", "CHANNEL_POWER", "ORBCOMM_POWER", "TOTAL_POWER_LOCALCUT"} :
     CASE r = "TOTAL_POWER" -> c.total > 0 /\ Above(TotalPower(m, y, 0, m.x - 1), c.total)
       [] r = "TOTAL_POWER_FREQ" -> c.part # Unset /\ Above(TotalPower(m, y, c.from, c.to), c.part)
       [] r = "CHANNEL_POWER" -> Above(GetMaxPower(m, y, 0, c.last)[1], c.channel)
       [] r = "ORBCOMM_POWER" -> Above(TotalPower(m, y, c.orbcomm[1], c.orbcomm[2]), c.channel)
       [] OTHER -> c.local # Unset /\ Above(TotalPower(m, y, 0, m.x - 1), c.local)}

-----------------------------------------------------------------------------
(* The calls. *)
SetLine == \E y \in Rows(left), from \in Places :
  LET line == get_line(right, from)
  IN  /\ line # Null
      /\ \/ Changes(set_line(left, y, line), <<"set_line", y, from>>)
         \/ Changes(set_reim_line(left, y, line, get_line(right, 0)), <<"set_reim_line", y, from>>)

AddXY == \E x, y \in Places, v \in Values : Changes(addXY(left, x, y, v), <<"addXY", x, y, v>>)

GetLine == \E y \in Places :
  \/ Returns(get_line(left, y), <<"get_line", y>>)
  \/ Returns([i \in 1 .. left.x |-> valXY(left, i - 1, y)], <<"get_line buffer", y>>)

Normalize ==
  \/ Changes(NormalizeX(left), <<"NormalizeX">>)
  \/ Changes(NormalizeY(left), <<"NormalizeY">>)
  \/ \E norm_factor \in Values : Changes(Recalc(left, LAMBDA v : Over(v, norm_factor)), <<"Normalize", norm_factor>>)
  \/ /\ right.x = left.x /\ right.y > 0
     /\ Changes(DividedBy(left, get_line(right, 0)), <<"Normalize by a line">>)
  \/ \E y \in Rows(left), v \in Values :
       Changes(setXY(left, {<<x, y, Over(valXY(left, x, y), v)>> : x \in Columns(left)}), <<"Divide row", y, v>>)

(* right is the image of differences. *)
SubtractInto ==
  /\ SameSizes(left, right)
  /\ Draws(WithRight(left, right, Minus), <<"Subtract into">>)

(* SaveAsByte, and what is read back: ones where something is flagged. *)
SaveAsByte == Draws(Recalc(left, LAMBDA v : IF Above(v, 0) THEN 1 ELSE 0), <<"SaveAsByte">>)

Sum ==
  \/ Returns(<<SumOver(LAMBDA i : left.data[i], DOMAIN left.data)>>, <<"Sum">>)
  \/ \E y \in Rows(left) :
       Returns(<<SumOver(LAMBDA x : left.data[Pos(left, x, y)], Columns(left))>>, <<"Sum of row", y>>)

LineMeans ==
  \/ \E x \in Columns(left) : Returns(Sums(left, Column(left, x)), <<"MeanColumn", x>>)
  \/ Returns([i \in 1 .. left.y |-> Sums(left, Finites(left, Row(left, i - 1)))], <<"MeanLines">>)

(* total_power_simple: the sum, or the spread, of every column. *)
TotalPowerHorizontal ==
  Returns([i \in 1 .. left.x |-> Sums(left, Column(left, i - 1))], <<"total_power_simple">>)

TwoLines == \E y1, y0 \in Places :
  LET ofBoth(f(_, _)) == [i \in 1 .. left.x |-> f(valXY(left, i - 1, y1), valXY(left, i - 1, y0))]
  IN  \/ Returns(ofBoth(Minus), <<"SubtractLines", y1, y0>>)
      \/ Returns(ofBoth(Over), <<"DivideLines", y1, y0>>)

(* dump_max_hold and dump_min_hold take a range of integrations and go      *)
(* through all of them.                                                     *)
Hold ==
  \/ Returns([i \in 1 .. left.x |-> Held(left, i - 1, Rows(left), -Infinity)[2]], <<"dump_max_hold">>)
  \/ Returns([i \in 1 .. left.x |-> Held(left, i - 1, Rows(left), -Infinity)[1]], <<"dump_min_hold">>)

CircleStat == \E radius, xc, yc \in Places :
  /\ radius >= 0
  /\ \/ Returns(GetStatRadiusAll(left, radius, TRUE, xc, yc), <<"GetStatRadiusAll", radius, xc, yc>>)
     \/ Returns(GetStatRadiusAll(left, radius, FALSE, -1, -1), <<"GetStatRadius", radius>>)

(* noise_mapper saves the means and, with -i, the medians. *)
NoiseMap == \E radius, fiducial \in Places :
  /\ radius > 0
  /\ \/ Draws(MapNoise(left, radius, fiducial, FALSE), <<"noise_mapper mean", radius, fiducial>>)
     \/ Draws(MapNoise(left, radius, fiducial, TRUE), <<"noise_mapper median", radius, fiducial>>)

(* With a mask of another size nothing is done. *)
GetSpectra == \E masked \in BOOLEAN, ys \in SUBSET Rows(left), least \in Values :
  LET mask == IF masked THEN right ELSE NoMask
  IN  Returns(IF masked /\ ~SameSizes(left, right) THEN <<-100000>> ELSE SpectraStat(left, mask, ys, least),
              <<"GetStat of spectra", masked, ys, least>>)

(* NaN is sorted anywhere. *)
GetMedianInt ==
  /\ \A i \in DOMAIN left.data : Number(left.data[i])
  /\ Returns([i \in 1 .. left.x |-> Quartiles(Sorted(left, Column(left, i - 1)))], <<"GetMedianInt">>)

MaxPower == \E y, start, end \in Places :
  Returns(GetMaxPower(left, y, start, end), <<"GetMaxPower", y, start, end>>)

(* The points FitPoly gives to the fit; the loop goes one channel too far.  *)
FitPoly == \E y \in Rows(left), from, to \in Places :
  Returns(<<{<<x, valXY(left, x, y)>> : x \in {ch \in 0 .. left.x : from <= ch /\ ch <= to}}>>,
          <<"FitPoly", y, from, to>>)

IsRFI_OK == \E y \in Rows(left), c \in Cuts :
  Returns(<<RejectionReasons(left, y, c)>>, <<"IsRFI_OK", y, c>>)

StatCall ==
  \/ SetLine \/ AddXY \/ GetLine \/ Normalize \/ SubtractInto \/ SaveAsByte \/ Sum \/ LineMeans
  \/ TotalPowerHorizontal \/ TwoLines \/ Hold \/ CircleStat \/ NoiseMap \/ GetSpectra \/ GetMedianInt
  \/ MaxPower \/ FitPoly \/ IsRFI_OK

StatNext ==
  /\ Whole(left) /\ Whole(right) /\ calls < MaxCalls /\ calls' = calls + 1
  /\ StatCall

-----------------------------------------------------------------------------
Tells == INSTANCE StatPicture WITH left <- PictureOf(left), right <- PictureOf(right)

(* Whatever the calls before, a line goes where it should and comes from    *)
(* where it should, an image is divided by the means it had, and every      *)
(* mean, spread, median and extreme is of the pixels it is said to be of:   *)
(* once each, without NaN and flagged ones where the code leaves them out,  *)
(* and inside the image, however far a circle or a loop goes beyond it.     *)
Measured == Tells!Spec
=============================================================================
