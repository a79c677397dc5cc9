------------------------------ MODULE FrameStat ------------------------------
(***************************************************************************)
(* What Table2D tells of its pixels: moments, medians, the most frequent   *)
(* value, the background and its spread, in windows or in rows and         *)
(* columns.  The tables kept for it outlive the question they were made    *)
(* for and the sky they were filled with.                                  *)
(*                                                                         *)
(* A mean or a spread is kept as the sums it is made of.  Fits of gaussians *)
(* are those of Histo: their results are chosen.                           *)
(***************************************************************************)
EXTENDS Laplace, Regions, Histo

CONSTANTS
  Skies,          (* frames of one size: [w, h, at]                            *)
  Windows,        (* <<start_x, start_y, end_x, end_y>>                        *)
  StatTypes,      (* types of laplace asked for                                *)
  Saturated,      (* MAX_VALUE_ALLOWED                                         *)
  TypicalSigma,   (* gSigmaBacgroundG                                          *)
  Few,            (* counts that are too few for a histogram                   *)
  Widen,          (* how far its range is widened then                         *)
  StatCalls       (* bound: questions of a run                                 *)

VARIABLES sky, kept, answer, asks

statVars == <<sky, kept, answer, asks>>

NoMoments == [n |-> 0, s |-> 0, s2 |-> 0]
Total(values) ==
  LET sum[from, to \in 0 .. Len(values)] ==
        LET half == (from + to) \div 2
        IN  CASE from = to -> 0
              [] to = from + 1 -> values[to]
              [] OTHER -> sum[from, half] + sum[half, to]
  IN  sum[0, Len(values)]
Squares(values) == [i \in DOMAIN values |-> values[i] * values[i]]
Moments(values) == [n |-> Len(values), s |-> Total(values), s2 |-> Total(Squares(values))]

(* v is less than k spreads above the mean, less than k spreads below it.   *)
Square(a) == a * a
SpreadBy(m, k) == k * k * (m.n * m.s2 - Square(m.s))
UnderUpper(m, k, v) == m.n > 0 /\ (m.n * v < m.s \/ Square(m.n * v - m.s) < SpreadBy(m, k))
FromLower(m, k, v) == m.n > 0 /\ (m.n * v >= m.s \/ Square(m.n * v - m.s) <= SpreadBy(m, k))

-----------------------------------------------------------------------------
(* Windows: each question reads its own in its own way. *)
Upper(end, size) == IF end < 0 \/ end > size THEN size ELSE end
Lower(start) == IF start < 0 THEN 0 ELSE start
Box(x0, y0, x1, y1) == [x0 |-> x0, y0 |-> y0, x1 |-> x1, y1 |-> y1]

(* With the last column and row left out, what is outside is the whole.     *)
OpenWindow(t, w) == Box(Lower(w[1]), Lower(w[2]), Upper(w[3], t.w) - 1, Upper(w[4], t.h) - 1)

(* With them, cut to the frame. *)
SafeWindow(t, w) ==
  Box(Lower(w[1]), Lower(w[2]), IF w[3] >= t.w THEN t.w - 1 ELSE w[3], IF w[4] >= t.h THEN t.h - 1 ELSE w[4])

InSky(t, x, y) == x >= 0 /\ y >= 0 /\ x < t.w /\ y < t.h

(* Places by rows, first to last. *)
Places2(b) ==
  LET n == IF b.x1 < b.x0 THEN 0 ELSE b.x1 - b.x0 + 1
      m == IF b.y1 < b.y0 THEN 0 ELSE b.y1 - b.y0 + 1
  IN  [i \in 1 .. n * m |-> <<b.x0 + ((i - 1) % n), b.y0 + ((i - 1) \div n)>>]

InBox(t, b) == SelectSeq(Places2(b), LAMBDA p : InSky(t, p[1], p[2]))
Values2(t, places) == [i \in DOMAIN places |-> t.at[places[i]]]

BoxSize(b) == (b.x1 - b.x0 + 1) * (b.y1 - b.y0 + 1)

-----------------------------------------------------------------------------
(* my_qsort: the first is the divider, the others are parted by it.         *)
Swapped(tab, i, j) == [tab EXCEPT ![i] = tab[j], ![j] = tab[i]]

Parted(values) ==
  LET step(p) ==
        CASE p.beg > p.end -> p
          [] p.beg <= p.end /\ p.tab[p.beg] <= p.tab[1] ->
               [p EXCEPT !.beg = @ + 1, !.end = IF p.tab[@] > p.tab[1] THEN @ - 1 ELSE @]
          [] p.beg <= p.end /\ p.tab[p.beg] > p.tab[1] ->
               IF p.tab[p.end] > p.tab[1] THEN [p EXCEPT !.end = @ - 1]
               ELSE [tab |-> Swapped(p.tab, p.beg, p.end), beg |-> p.beg + 1, end |-> p.end - 1]
      steps[n \in Nat, p \in [tab : Seq(Int), beg : Nat, end : Nat]] ==
        IF n <= 1 THEN step(p) ELSE steps[n \div 2, steps[n - (n \div 2), p]]
  IN  steps[Len(values), [tab |-> values, beg |-> 2, end |-> Len(values)]]

(* Mutant: the divider stays at the front. *)
SortedBut(values) ==
  LET sort[tab \in Seq(Int)] ==
        IF tab = <<>> THEN tab
        ELSE LET p == Parted(tab)
             IN  SubSeq(p.tab, 1, 1) \o sort[SubSeq(p.tab, 2, p.end)] \o sort[SubSeq(p.tab, p.beg, Len(tab))]
  IN  sort[values]

my_qsort(values) ==
  LET sort[tab \in Seq(Int)] ==
        IF tab = <<>> THEN tab
        ELSE LET p == Parted(tab)
                 t == Swapped(p.tab, p.end, 1)
             IN  sort[SubSeq(t, 1, p.end - 1)] \o SubSeq(t, p.end, p.beg - 1) \o sort[SubSeq(t, p.beg, Len(tab))]
  IN  sort[values]

get_median(values) == my_qsort(values)[(Len(values) \div 2) + 1]
get_no_stars_median(values) == my_qsort(values)[((3 * Len(values)) \div 4) \div 2 + 1]

-----------------------------------------------------------------------------
(* Questions. *)
GetPixelsAbove(t, threshold, w) ==
  LET b == Box(Lower(w[1]), Lower(w[2]), Min({w[3], t.w}) - 1, Min({w[4], t.h}) - 1)
  IN  SelectSeq(Places2(b), LAMBDA p : t.at[p] > threshold)

(* Of no pixels the extremes are these. *)
NoExtremes == [max |-> -10000, min |-> 66000, nonZero |-> 20000, at |-> <<0, 0>>]

Extremes(t, places) ==
  LET at(i) == t.at[places[i]]
      values == {at(i) : i \in DOMAIN places}
      max == Max(values \cup {NoExtremes.max})
      highest == {i \in DOMAIN places : at(i) = max /\ max > NoExtremes.max}
  IN  [max |-> max, at |-> IF highest = {} THEN NoExtremes.at ELSE places[Min(highest)],
       min |-> Min(values \cup {NoExtremes.min}),
       nonZero |-> Min({v \in values : v > 0} \cup {NoExtremes.nonZero})]

(* All ends count; an end that is not given is beyond the frame. *)
GetStatistics(t, w, low, high) ==
  LET ends == Box(w[1], w[2], IF w[3] < 0 THEN t.w ELSE w[3], IF w[4] < 0 THEN t.h ELSE w[4])
      places == SelectSeq(InBox(t, ends), LAMBDA p : t.at[p] >= low /\ t.at[p] <= high)
  IN  [moments |-> Moments(Values2(t, places)), extremes |-> Extremes(t, places)]

GetSafeStatistics(t, w, low, high) ==
  LET b == SafeWindow(t, w) IN GetStatistics(t, <<b.x0, b.y0, b.x1, b.y1>>, low, high)

(* The table of values is made for as many as the highest, which has no     *)
(* place in it then.                                                        *)
DistribOverruns(stat) == stat.extremes.max >= 0

(* A quarter of the way from the lowest, when the buffer is long enough.    *)
BackgroundPos(n) == LET end == (((n \div 4) * 10 + n) * 12) \div 100 IN (IF end < n \div 2 THEN n \div 2 ELSE end) \div 2

GetBackgroundValue(t, w, nSize) ==
  LET places == Places2(SafeWindow(t, w))
      read == SubSeq(Values2(t, places), 1, Min({nSize, Len(places)}))
  IN  my_qsort(read)[BackgroundPos(Len(read)) + 1]

GetMeanAndRMS(t) == Moments(Values2(t, InBox(t, Box(0, 0, t.w - 1, t.h - 1))))

(* The mean of all pixels, of which those near the edges count as none.     *)
GetMean(t, border) ==
  LET places == SelectSeq(InBox(t, Box(0, 0, t.w - 1, t.h - 1)),
                          LAMBDA p : p[1] >= border /\ p[2] >= border /\ p[1] <= t.w - border /\ p[2] <= t.h - border)
  IN  [sum |-> Moments(Values2(t, places)).s, of |-> t.w * t.h]

GetPartDistrib(t, w, most) ==
  LET values == Values2(t, Places2(OpenWindow(t, w)))
  IN  [v \in 0 .. most - 1 |-> Len(SelectSeq(values, LAMBDA u : u = v))]

(* Pixels of windows, or of rows and columns; what is in two counts twice.  *)
OfWindows(t, list) == FlattenSeq([i \in DOMAIN list |-> InBox(t, list[i])])
OfRowCols(t, list) ==
  FlattenSeq([i \in DOMAIN list |->
    CASE list[i].type = "eCCDRow" -> InBox(t, Box(0, list[i].num, t.w - 1, list[i].num))
      [] list[i].type = "eCCDCol" -> InBox(t, Box(list[i].num, 0, list[i].num, t.h - 1))
      [] OTHER -> <<>>])

(* The fit takes the place of the moments when it is asked for and found;   *)
(* in windows it need not make sense.                                       *)
CalcStat(t, places, isWindows, bFit, result) ==
  LET m == Moments(Values2(t, places))
      fits == bFit /\ m.n > 0 /\ FitGauss([bins |-> 1], [s \in Stages |-> result], FALSE, ~isWindows).ret = "TRUE"
  IN  [moments |-> m, fitted |-> fits, ret |-> IF isWindows THEN fits ELSE TRUE]

CalcSum(t, list) ==
  LET end == CHOOSE k \in 0 .. Len(list) : (k = Len(list) \/ list[k + 1] = -10000) /\ \A i \in 1 .. k : list[i] # -10000
  IN  Total([i \in 1 .. end |-> t.at[<<list[i] % t.w, list[i] \div t.w>>]])

(* A row above or below stands in for a column that is not there, and only  *)
(* for some.                                                                *)
RotPos(t, pos, dx, dy) == ((pos \div t.w) + dy) * t.w + (pos % t.w) + dx
CountsRot(t, pos, dx, dy) ==
  LET x == (pos % t.w) + dx  y == (pos \div t.w) + dy
  IN  (x >= 0 /\ x < t.w /\ y >= 0) \/ y < t.h

RotOverruns(t, list, dx, dy) ==
  \E i \in DOMAIN list : CountsRot(t, list[i], dx, dy) /\ RotPos(t, list[i], dx, dy) \notin 0 .. t.w * t.h - 1

CalcSumRotCorrected(t, list, dx, dy) ==
  LET counted == SelectSeq(list, LAMBDA pos : CountsRot(t, pos, dx, dy))
      at(pos) == LET to == RotPos(t, pos, dx, dy) IN t.at[<<to % t.w, to \div t.w>>]
  IN  Total([i \in DOMAIN counted |-> at(counted[i])])

(* The four pixels a pixel moved by tenths lies over, and how much of it    *)
(* over each, in hundredths.                                                *)
CalcOverlapParts(dx, dy) ==
  LET fx == dx \div 10  fy == dy \div 10
      rx == dx - 10 * fx  ry == dy - 10 * fy
  IN  <<[x |-> fx, y |-> fy, part |-> (10 - rx) * (10 - ry)],
        [x |-> fx, y |-> fy + 1, part |-> (10 - rx) * ry],
        [x |-> fx + 1, y |-> fy + 1, part |-> rx * ry],
        [x |-> fx + 1, y |-> fy, part |-> rx * (10 - ry)]>>

(* The values a laplace adds and takes away; only the middle is looked at.  *)
GetLaplacePlusMinusValues(t, xy, type) ==
  LET values(list) == IF InSky(t, xy[1], xy[2])
                      THEN [i \in DOMAIN list |-> t.at[<<xy[1] + list[i][1], xy[2] + list[i][2]>>]] ELSE <<>>
  IN  [plus |-> values(gLaplaceInfo[type].plus), minus |-> values(gLaplaceInfo[type].minus)]

GetLaplacePlusMinusList(t, pos, type) ==
  LET k == GetPlusMinusList(type)
      at(d) == pos + d[2] * t.w + d[1]
  IN  [plus |-> [i \in DOMAIN k.plus |-> at(k.plus[i])],
       minus |-> [i \in 1 .. Min({Len(k.plus), Len(k.minus)}) |-> at(k.minus[i])]]

(* The spread about a mean of what is within three typical spreads of it;   *)
(* a window gives its size, not its place.                                  *)
SigmaPlaces(t, w, type) ==
  LET b == OpenWindow(t, w)  xs == b.x1 - b.x0 + 1  ys == b.y1 - b.y0 + 1
  IN  IF type = "eRawS" THEN Places2(Box(0, 0, xs - 1, ys - 1)) ELSE Places2(Box(4, 4, xs - 4, ys - 4))

SeesAll(t, places, type) ==
  \A i \in DOMAIN places : \A p \in Reaches(places[i], type) : InSky(t, p[1], p[2])

GetVariableSigma(t, w, type, mean) ==
  LET places == SigmaPlaces(t, w, type)
      about == IF type = "eRawS" THEN mean ELSE 0
      values == IF type = "eRawS" THEN Values2(t, places)
                ELSE [i \in DOMAIN places |-> CalcLaplaceSum(t.at, places[i], type)]
      near == SelectSeq(values, LAMBDA v : v <= about + 3 * TypicalSigma /\ v >= about - 3 * TypicalSigma)
  IN  [n |-> Len(near), s2 |-> Total(Squares([i \in DOMAIN near |-> near[i] - mean]))]

-----------------------------------------------------------------------------
(* The background of an area: a histogram of its pixels, without those near *)
(* its edges, is kept by the name of the laplace and used again.  Its range *)
(* is kept as what is asked of a value to be in it.                         *)
NoHisto == [there |-> FALSE]
NoData == [values |-> [from |-> "unset"], ok |-> FALSE, type |-> "eFitResUnknown"]

NewHist(range) == [there |-> TRUE, range |-> range, counted |-> <<>>, skips |-> FALSE, fitOk |-> FALSE, sigma |-> 0, rms |-> NoMoments]

InitHist(h, range) == [h EXCEPT !.range = range, !.counted = <<>>, !.skips = FALSE, !.rms = NoMoments]

(* Ranges: what is below the mean twice over (and more, of a new one), what *)
(* is within k spreads, and what is around all that was offered.            *)
InRange2(range, v) ==
  CASE range.kind = "twice" -> v >= 0 /\ (range.of.n * v < 2 * range.of.s \/ (range.more /\ UnderUpper(range.of, 5, v)))
    [] range.kind = "around" -> FromLower(range.of, range.k, v) /\ UnderUpper(range.of, range.k, v)
    [] OTHER -> v >= range.low /\ v < range.high

Twice(m, more) == [kind |-> "twice", of |-> m, more |-> more]
Around(m, k) == [kind |-> "around", of |-> m, k |-> k]

Offer(h, values) ==
  [h EXCEPT !.counted = @ \o SelectSeq(values, LAMBDA v : InRange2(h.range, v) /\ ~(h.skips /\ v >= Saturated))]

(* Mutant: the values counted before are counted again with the others.     *)
FillHistoTwice(h, values, type) ==
  LET h1 == Offer([h EXCEPT !.skips = TRUE], values)
  IN  IF type = "eRawS" /\ Len(h1.counted) < Few THEN Offer([h1 EXCEPT !.skips = FALSE], values) ELSE h1

(* Saturated pixels are skipped, unless too few others were counted: then   *)
(* the range is made to hold all that was offered, and nothing is skipped.  *)
FillHisto(h, values, type) ==
  LET h1 == Offer([h EXCEPT !.skips = TRUE], values)
      seen == {v \in Range(values) : v < Saturated}
      wide == [kind |-> "all", low |-> (IF seen = {} THEN Lowest ELSE Min(seen)) - Widen,
               high |-> (IF seen = {} THEN -Lowest ELSE Max(seen)) + Widen]
  IN  IF type = "eRawS" /\ Len(h1.counted) < Few THEN Offer(InitHist(h1, wide), values) ELSE h1

FillHistoFromData(h, values) == Offer(h, values)

Filled2(h, values, type, data) ==
  LET h1 == IF data THEN FillHistoFromData(h, values) ELSE FillHisto(h, values, type)
  IN  [h1 EXCEPT !.rms = Moments(h1.counted)]

(* A fit: its result, the spread it gave, what the caller's values are then. *)
FitHist(h, fit, before) ==
  LET f == FitGauss([bins |-> 60], [s \in Stages |-> fit.result], FALSE, TRUE)
  IN  [ret |-> f.ret = "TRUE", h |-> [h EXCEPT !.fitOk = f.ret = "TRUE", !.sigma = IF f.gave = "passed" THEN 0 ELSE fit.sigma],
       gave |-> IF f.gave = "passed" THEN before ELSE [from |-> fit.result, sigma |-> fit.sigma]]

(* Bounds of the laplace's values by which its first moments are taken.     *)
NearTypical(h, v) ==
  IF ~h.there THEN v >= -12 * TypicalSigma /\ v <= 12 * TypicalSigma
  ELSE IF h.fitOk THEN v >= -12 * h.sigma /\ v <= 12 * h.sigma
  ELSE IF h.rms.n = 0 THEN v = 0 ELSE Square(h.rms.n * v) <= SpreadBy(h.rms, 12)

FlatMoments(m) == m.n > 0 /\ m.n * m.s2 = Square(m.s)
NearNothing(m) == 10 * (IF m.s < 0 THEN -m.s ELSE m.s) < m.n /\ SpreadBy(m, 10) < m.n * m.n

(* When the first fit fails the range is narrowed and the histogram filled  *)
(* again.                                                                   *)
Refitted(f1, range, offered2, type, second) ==
  IF f1.ret THEN f1 ELSE FitHist(Filled2(InitHist(f1.h, range), offered2, type, type # "eRawS"), second, f1.gave)

(* A spread that is small counts as large when no fit was found. *)
SmallSpread(gave) ==
  IF gave.from = "moments" THEN SpreadBy(gave.of, 1) < 2500 * Square(gave.of.n) ELSE gave.sigma < 50

Settled(f, useMean) ==
  CASE f.ret -> [ret |-> TRUE, h |-> f.h, end |-> "filled", values |-> f.gave, type |-> "eFitResGauss"]
    [] ~f.ret /\ useMean -> [ret |-> TRUE, h |-> f.h, end |-> "filled", type |-> "eFitResAVG",
                             values |-> [f.gave EXCEPT !.from = IF SmallSpread(f.gave) THEN "large sigma" ELSE @]]
    [] OTHER -> [ret |-> FALSE, h |-> f.h, end |-> "filled", type |-> "eFitResAVG",
                 values |-> [from |-> "moments", of |-> f.h.rms]]

FittedTo(h1, offered2, type, narrow, useMean, first, second) ==
  Settled(Refitted(FitHist(h1, first, [from |-> "moments", of |-> h1.rms]), narrow, offered2, type, second), useMean)

(* Of pixels with a mean of nothing the frame is said to be empty; laplaces *)
(* with no spread have bad ranges; else a histogram is filled and fitted.   *)
Judged(h, m, offered2, type, useMean, first, second) ==
  LET raw == type = "eRawS"
      range == IF raw THEN Twice(m, ~h.there) ELSE Around(m, 5)
  IN  CASE raw /\ m.n > 0 /\ m.s <= 0 -> [ret |-> FALSE, h |-> h, end |-> "empty", values |-> [from |-> "nothing", of |-> m]]
        [] ~raw /\ FlatMoments(m) /\ NearNothing(m) /\ useMean ->
             [ret |-> TRUE, h |-> h, end |-> "bad ranges", values |-> [from |-> "large sigma", of |-> m]]
        [] ~raw /\ FlatMoments(m) /\ ~(NearNothing(m) /\ useMean) ->
             [ret |-> FALSE, h |-> h, end |-> "none", values |-> [from |-> "passed", of |-> m]]
        [] OTHER -> FittedTo(Filled2(IF h.there THEN InitHist(h, range) ELSE NewHist(range), offered2, type, ~raw),
                             offered2, type, Around(m, IF raw THEN 1 ELSE 3), useMean, first, second)

GetVariableMeanAndSigma(t, places, inner, type, lap, useMean, h, first, second) ==
  IF type = "eRawS"
  THEN Judged(h, Moments(Values2(t, places)), Values2(t, inner), type, useMean, first, second)
  ELSE Judged(h, Moments(SelectSeq(Values2(lap, places), LAMBDA v : NearTypical(h, v))), Values2(lap, inner), type, useMean, first, second)

-----------------------------------------------------------------------------
Elements == {<<0, 0>>, <<1, 0>>}
NoKept ==
  [values |-> 0, popular |-> -1, median |-> 0, points |-> <<>>,
   hist |-> [e \in Elements, type \in StatTypes |-> NoHisto], data |-> [e \in Elements, type \in StatTypes |-> NoData]]

NoAnswer == [q |-> "none", a |-> <<>>, v |-> 0]

Asked2(q, a, v, k) ==
  /\ asks > 0 /\ answer.q # "wrecked" /\ asks' = asks - 1 /\ UNCHANGED sky
  /\ answer' = [q |-> q, a |-> a, v |-> v] /\ kept' = k

Wrecked2(q) == Asked2("wrecked", <<q>>, 0, kept)

(* A question that keeps nothing and uses nothing kept is asked alone.      *)
Ask(q, a, v) ==
  /\ asks = StatCalls /\ kept = NoKept /\ asks' = 0 /\ UNCHANGED <<sky, kept>>
  /\ answer' = [q |-> q, a |-> a, v |-> v]

FillsWindow(w) == LET b == OpenWindow(sky, w) IN b.x0 <= b.x1 /\ b.y0 <= b.y1
InsideSky(b) == b.x0 >= 0 /\ b.y0 >= 0 /\ b.x1 < sky.w /\ b.y1 < sky.h

AskPixelsAbove == \E w \in Windows, v \in {20, 100} :
  LET k == [kept EXCEPT !.points = @ \o GetPixelsAbove(sky, v, w)]
  IN  Asked2("GetPixelsAbove", <<w, v>>, Len(k.points), k)

(* The table of values is made for the first window. *)
Room(n) == IF kept.values = 0 THEN n ELSE kept.values

AskMedian == \E w \in Windows :
  LET values == Values2(sky, Places2(OpenWindow(sky, w)))
      room == Room(Len(values))
  IN  /\ FillsWindow(w)
      /\ IF Len(values) > room THEN Wrecked2("GetMedian")
         ELSE Asked2("GetMedian", w, get_median(values), [kept EXCEPT !.values = room, !.median = get_median(values)])

(* The median is looked for among the bins of a histogram of nearly one bin *)
(* to a value, and told as the end of its bin, cut: one below, but for 0.   *)
AskFastMedian == \E w \in Windows :
  LET values == SelectSeq(Values2(sky, Places2(OpenWindow(sky, w))), LAMBDA v : v >= 0)
      m == IF values = <<>> THEN kept.median ELSE Max({get_median(values) - 1, 0})
  IN  Asked2("GetFastMedian", w, m, [kept EXCEPT !.median = m])

AskMostPopular == \E w \in Windows, most \in {5, 12} :
  LET d == GetPartDistrib(sky, w, most)
      high == Max({d[v] : v \in DOMAIN d})
  IN  Asked2("GetMostPopular", <<w, most>>, Min({v \in DOMAIN d : d[v] = high}), [kept EXCEPT !.popular = most])

AskBackground == \E w \in Windows, nSize \in {4, 200} :
  LET b == SafeWindow(sky, w)
  IN  /\ b.x0 <= b.x1 /\ b.y0 <= b.y1
      /\ Ask("GetBackgroundValue", <<w, nSize>>, GetBackgroundValue(sky, w, nSize))

AskStatistics == asks = StatCalls /\ \E w \in Windows, low \in {-100, 3}, safe \in BOOLEAN :
  \/ Ask("GetStatistics", <<w, low, safe>>, IF safe THEN GetSafeStatistics(sky, w, low, 59) ELSE GetStatistics(sky, w, low, 59))
  \/ /\ DistribOverruns(GetStatistics(sky, w, low, 59)) /\ Wrecked2("GetDistrib")

AskMeans ==
  \/ Ask("GetMeanAndRMS", <<>>, GetMeanAndRMS(sky))
  \/ \E border \in {0, 3} : Ask("GetMean", border, GetMean(sky, border))

AskCalcStat == \E file \in ListFiles, bFit \in BOOLEAN, result \in Results :
  \/ LET list == ReadWindows(file)
     IN  Ask("CalcStat of windows", <<list, bFit, result>>, CalcStat(sky, OfWindows(sky, list), TRUE, bFit, result))
  \/ LET list == ReadRowCols(file)
     IN  Ask("CalcStat of rows and columns", <<list, bFit, result>>, CalcStat(sky, OfRowCols(sky, list), FALSE, bFit, result))

AskSums == asks = StatCalls /\ \E pos \in {0, sky.w, sky.w * sky.h - 1}, dx, dy \in -1 .. 1 :
  LET list == GetDesc(sky.w, sky.h, pos)
  IN  \/ dx = 0 /\ dy = 0 /\ Ask("CalcSum", list, CalcSum(sky, list \o <<-10000, 0>>))
      \/ IF RotOverruns(sky, list, dx, dy) THEN Wrecked2("CalcSumRotCorrected")
         ELSE Ask("CalcSumRotCorrected", <<list, dx, dy>>, CalcSumRotCorrected(sky, list, dx, dy))

AskOverlap == \E dx, dy \in {-13, 0, 4, 25} : Ask("CalcOverlapParts", <<dx, dy>>, CalcOverlapParts(dx, dy))

AskLaplace == asks = StatCalls /\ \E type \in LaplaceTypes, xy \in {<<0, 0>>, <<5, 5>>, <<-1, 5>>} :
  \/ IF InSky(sky, xy[1], xy[2]) /\ ~SeesAll(sky, <<xy>>, type) THEN Wrecked2("GetLaplacePlusMinusValues")
     ELSE Ask("GetLaplacePlusMinusValues", <<xy, type>>, GetLaplacePlusMinusValues(sky, xy, type))
  \/ /\ InSky(sky, xy[1], xy[2])
     /\ Ask("GetLaplacePlusMinusList", <<xy, type>>, GetLaplacePlusMinusList(sky, xy[2] * sky.w + xy[1], type))

AskSigma == asks = StatCalls /\ \E w \in Windows, type \in LaplaceTypes, mean \in {0, 10} :
  IF ~SeesAll(sky, SigmaPlaces(sky, w, type), type) THEN Wrecked2("GetVariableSigma")
  ELSE Ask("GetVariableSigma", <<w, type, mean>>, GetVariableSigma(sky, w, type, mean))

(* The laplace of the sky, as a driver has it made before. *)
Laps == [t \in Skies, type \in StatTypes |->
  [t EXCEPT !.at = [p \in DOMAIN t.at |-> IF SeesAll(t, <<p>>, type) THEN CalcLaplaceSum(t.at, p, type) ELSE 0]]]
LapOf(type) == Laps[sky, type]

(* A fit with a small spread is taken for one that is right. *)
FitResults == {[result |-> "sense", sigma |-> 7], [result |-> "nonsense", sigma |-> 60], [result |-> "none", sigma |-> 7]}

(* One area and one laplace: what becomes of what is kept.                  *)
Inner4(w) == LET b == OpenWindow(sky, w) IN Box(b.x0 + 4, b.y0 + 4, b.x1 + 1 - 4, b.y1 + 1 - 4)

Background(w, type, useMean, h, first, second) ==
  GetVariableMeanAndSigma(sky, Places2(Box(w[1], w[2], w[3] - 1, w[4] - 1)), Places2(Inner4(w)), type,
                          IF type = "eRawS" THEN sky ELSE LapOf(type), useMean, h, first, second)

Noted2(old, r) ==
  CASE r.end = "filled" -> [values |-> r.values, ok |-> r.ret, type |-> r.type]
    [] r.end = "bad ranges" -> [old EXCEPT !.values = r.values, !.ok = FALSE]
    [] OTHER -> old

(* Of an area of a table mean and spread are written to it at once, even    *)
(* when nothing else is.                                                    *)
NotedInPlace(old, r) == IF r.end = "empty" THEN [old EXCEPT !.values = r.values] ELSE Noted2(old, r)

(* Without the laplace of the sky nothing is found of it. *)
AskVariable == \E w \in Windows, type \in StatTypes, useMean, given \in BOOLEAN, first, second \in FitResults :
  LET e == <<0, 0>>
      r == Background(w, type, useMean, kept.hist[e, type], first, second)
  IN  /\ w[1] >= 0 /\ InsideSky(Box(w[1], w[2], w[3] - 1, w[4] - 1)) /\ (first.result = "sense" => second = first)
      /\ (given => type # "eRawS")
      /\ IF type # "eRawS" /\ ~given
         THEN Asked2("GetVariableMeanAndSigma", <<w, type, useMean>>, [ret |-> FALSE, end |-> "none", h |-> kept.hist[e, type]], kept)
         ELSE Asked2("GetVariableMeanAndSigma", <<w, type, useMean>>, r,
                     [kept EXCEPT !.hist[e, type] = r.h, !.data[e, type] = Noted2(@, r)])

(* All areas of a table, by their sides: the median of each, when it is     *)
(* asked for, by the sides of all, and then its background.                 *)
AreaWindow(info, e) == LET of == GetElem(info, e[1], e[2]) IN <<of.x0, of.y0, of.x1, of.y1>>
AreaSides(info, e) == <<e[1] * info.dx, e[2] * info.dy, (e[1] + 1) * info.dx, (e[2] + 1) * info.dy>>
AreasOf(info) == {e \in Elements : e[1] < info.nx}
AreaValues(info, e) == Values2(sky, Places2(OpenWindow(sky, AreaSides(info, e))))

(* The table of values is made for the first area. *)
AreaRoom(info) == Room(Len(AreaValues(info, <<0, 0>>)))
MedianOverruns(info) == \E e \in AreasOf(info) : Len(AreaValues(info, e)) > AreaRoom(info)

(* An area: what is found of it, and its median, if that was asked for.     *)
CalcTableMapInfo(info, bCalcMedian, first, second) ==
  [e \in AreasOf(info) |->
     [median |-> IF bCalcMedian THEN <<get_median(AreaValues(info, e))>> ELSE <<>>,
      told |-> Background(AreaWindow(info, e), "eRawS", FALSE, kept.hist[e, "eRawS"], first, second)]]

(* What is kept of it; the frame's own median is that of the last area.     *)
MapKept(info, bCalcMedian, found) ==
  LET at == {t \in DOMAIN kept.hist : t[1] \in DOMAIN found /\ t[2] = "eRawS"}
      k == [kept EXCEPT !.hist = [t \in at |-> found[t[1]].told.h] @@ @,
                        !.data = [t \in at |-> NotedInPlace(kept.data[t], found[t[1]].told)] @@ @]
  IN  IF bCalcMedian
      THEN [k EXCEPT !.values = AreaRoom(info), !.median = found[<<info.nx - 1, 0>>].median[1]] ELSE k

AskMapInfo == \E d \in Divisions, bCalcMedian \in BOOLEAN, first, second \in FitResults :
  LET info == InitAreas(NoAreas, d)
      found == CalcTableMapInfo(info, bCalcMedian, first, second)
  IN  /\ d.x = sky.w /\ d.y = sky.h /\ info.ny = 1 /\ info.nx <= 2
      /\ (first.result = "sense" => second = first)
      /\ IF bCalcMedian /\ MedianOverruns(info) THEN Wrecked2("CalcTableMapInfo")
         ELSE Asked2("CalcTableMapInfo", <<info, bCalcMedian>>, found, MapKept(info, bCalcMedian, found))

NewSky == \E t \in Skies \ {sky} :
  /\ asks > 0 /\ answer.q \notin {"none", "wrecked"} /\ sky' = t /\ UNCHANGED <<kept, asks>>
  /\ answer' = NoAnswer

StatInit == sky \in Skies /\ kept = NoKept /\ answer = NoAnswer /\ asks = StatCalls

StatNext ==
  \/ AskPixelsAbove \/ AskMedian \/ AskFastMedian \/ AskMostPopular \/ AskBackground \/ AskStatistics
  \/ AskMeans \/ AskCalcStat \/ AskSums \/ AskOverlap \/ AskLaplace \/ AskSigma \/ AskVariable
  \/ AskMapInfo \/ NewSky

-----------------------------------------------------------------------------
(* What the pixels of a window say, as a set of places. *)
In(b) == {p \in DOMAIN sky.at : p[1] \in b.x0 .. b.x1 /\ p[2] \in b.y0 .. b.y1}
CountOf(S, P(_)) == Cardinality({p \in S : P(sky.at[p])})
SumOn(S, f(_)) ==
  MapThenSumSet(LAMBDA y : MapThenSumSet(LAMBDA p : f(sky.at[p]), {p \in S : p[2] = y}), {p[2] : p \in S})

(* v has a of n values below it at the most, and more than a with itself.   *)
Ranked(S, v, a) == CountOf(S, LAMBDA u : u < v) <= a /\ CountOf(S, LAMBDA u : u <= v) > a

FirstHighest(S, e) ==
  \/ S = {} /\ e = NoExtremes
  \/ /\ e.at \in S /\ e.max = sky.at[e.at] /\ \A p \in S : sky.at[p] <= e.max
     /\ \A p \in S : sky.at[p] = e.max => e.at[2] < p[2] \/ (e.at[2] = p[2] /\ e.at[1] <= p[1])
     /\ CountOf(S, LAMBDA u : u < e.min) = 0 /\ CountOf(S, LAMBDA u : u = e.min) > 0

OneLine(d) == IF d.type = "eCCDRow" THEN Box(0, d.num, sky.w - 1, d.num) ELSE Box(d.num, 0, d.num, sky.h - 1)
Parts2(v) == Max({Len(v.minus), 1})

SameMoments(m, S) == m.n = Cardinality(S) /\ m.s = SumOn(S, LAMBDA v : v) /\ m.s2 = SumOn(S, LAMBDA v : v * v)

Whole2 == Box(0, 0, sky.w - 1, sky.h - 1)

(* The areas of a table and their medians, and what GetVariableSigma looks  *)
(* at: pixels of a window of this size at the frame's own corner, or the    *)
(* laplaces of its inner ones.                                              *)
MediansTold(info, found) ==
  \A e \in DOMAIN found, m \in 1 .. 1 :
    LET S == In(OpenWindow(sky, AreaSides(info, e)))
    IN  m \in DOMAIN found[e].median => Ranked(S, found[e].median[m], Cardinality(S) \div 2)

SigmaTold(w, type, mean, v) ==
  LET b == OpenWindow(sky, w)
      raw == type = "eRawS"
      S == IF raw THEN In(Box(0, 0, b.x1 - b.x0, b.y1 - b.y0)) ELSE In(Box(4, 4, b.x1 - b.x0 - 3, b.y1 - b.y0 - 3))
      value == [p \in S |-> IF raw THEN sky.at[p] ELSE CalcLaplaceSum(sky.at, p, type)]
      near == {p \in S : value[p] - (IF raw THEN mean ELSE 0) \in -3 * TypicalSigma .. 3 * TypicalSigma}
  IN  v.n = Cardinality(near) /\ v.s2 = MapThenSumSet(LAMBDA p : Square(value[p] - mean), near)

(* A question is answered from the sky as it is now and the window it is    *)
(* asked for, whatever was asked before and of which sky: the middle of the *)
(* values is the median, of an area of a table as well, the one a quarter   *)
(* from the lowest the background, the most popular value has none more     *)
(* frequent and is the lowest of them, each pixel of a window counts once,  *)
(* the points found above a threshold follow those found before.  Moving a  *)
(* pixel takes all of it along.                                             *)
(*                                                                         *)
(* As the code has it: the fast median is one below the median, and with no *)
(* pixel from 0 up it is the median told last, of any window or sky; the    *)
(* mean without a border divides by the whole frame; a window of            *)
(* GetVariableSigma is taken from the frame's corner.  Of windows or rows   *)
(* and columns only single ones are counted here.                           *)
Answered ==
  LET a == answer.a  v == answer.v
  IN  CASE answer.q = "GetMedian" -> LET S == In(OpenWindow(sky, a)) IN Ranked(S, v, Cardinality(S) \div 2)
        [] answer.q = "GetFastMedian" ->
             LET S == {p \in In(OpenWindow(sky, a)) : sky.at[p] >= 0}
             IN  S # {} => Ranked(S, v + 1, Cardinality(S) \div 2) \/ (v = 0 /\ Ranked(S, 0, Cardinality(S) \div 2))
        [] answer.q = "GetMostPopular" ->
             LET S == In(OpenWindow(sky, a[1]))
                 times == [u \in 0 .. a[2] - 1 |-> CountOf(S, LAMBDA t : t = u)]
             IN  \A u \in 0 .. a[2] - 1 : times[u] < times[v] \/ (times[u] = times[v] /\ v <= u)
        [] answer.q = "GetBackgroundValue" ->
             LET S == In(SafeWindow(sky, a[1]))
             IN  a[2] >= Cardinality(S) => Ranked(S, v, (Cardinality(S) \div 2) \div 2)
        [] answer.q = "GetPixelsAbove" ->
             LET S == {p \in In(Box(Lower(a[1][1]), Lower(a[1][2]), a[1][3] - 1, a[1][4] - 1)) : sky.at[p] > a[2]}
                 n == Cardinality(S)
             IN  v = Len(kept.points) /\ v >= n /\ S = {kept.points[i] : i \in v - n + 1 .. v}
        [] answer.q = "GetStatistics" ->
             LET w == a[1]
                 ends == IF a[3] THEN Box(Lower(w[1]), Lower(w[2]), w[3], w[4]) ELSE Box(w[1], w[2], w[3], w[4])
                 S == {p \in In(Box(ends.x0, ends.y0, IF w[3] < 0 THEN sky.w ELSE w[3], IF w[4] < 0 THEN sky.h ELSE w[4])) :
                         sky.at[p] \in a[2] .. 59}
             IN  SameMoments(v.moments, S) /\ FirstHighest(S, v.extremes)
        [] answer.q = "GetMeanAndRMS" -> SameMoments(v, In(Whole2))
        [] answer.q = "GetMean" ->
             v.of = Cardinality(In(Whole2)) /\ v.sum = SumOn(In(Box(a, a, sky.w - a, sky.h - a)), LAMBDA u : u)
        [] answer.q = "GetVariableSigma" -> SigmaTold(a[1], a[2], a[3], v)
        [] answer.q = "CalcTableMapInfo" -> MediansTold(a[1], v)
        [] answer.q = "CalcStat of windows" ->
             \A i \in DOMAIN a[1] : Len(a[1]) = 1 => SameMoments(v.moments, In(a[1][i]))
        [] answer.q = "CalcStat of rows and columns" ->
             Len(a[1]) = 1 => SameMoments(v.moments, In(OneLine(a[1][1])))
        [] answer.q = "CalcSum" -> v = SumOn({<<a[i] % sky.w, a[i] \div sky.w>> : i \in DOMAIN a}, LAMBDA u : u)
        [] answer.q = "CalcSumRotCorrected" ->
             LET to == {<<(a[1][i] % sky.w) + a[2], (a[1][i] \div sky.w) + a[3]>> : i \in DOMAIN a[1]}
             IN  to \subseteq DOMAIN sky.at => v = SumOn(to, LAMBDA u : u)
        [] answer.q = "CalcOverlapParts" ->
             LET over(f(_)) == MapThenSumSet(LAMBDA i : f(v[i]), 1 .. 4)
             IN  /\ over(LAMBDA o : o.part) = 100 /\ \A i \in 1 .. 4 : v[i].part >= 0
                 /\ over(LAMBDA o : o.part * o.x) = 10 * a[1] /\ over(LAMBDA o : o.part * o.y) = 10 * a[2]
        [] answer.q = "GetLaplacePlusMinusValues" /\ InSky(sky, a[1][1], a[1][2]) ->
             Trunc(Total(v.plus) * Parts2(v) - Len(v.plus) * Total(v.minus), Parts2(v)) = CalcLaplaceSum(sky.at, a[1], a[2])
        [] answer.q = "GetLaplacePlusMinusList" /\ SeesAll(sky, <<a[1]>>, a[2]) /\ Len(v.plus) >= Len(gLaplaceInfo[a[2]].minus) ->
             {<<v.plus[i] % sky.w, v.plus[i] \div sky.w>> : i \in DOMAIN v.plus}
               \cup {<<v.minus[i] % sky.w, v.minus[i] \div sky.w>> : i \in DOMAIN v.minus} = Reaches(a[1], a[2])
        [] OTHER -> TRUE

(* The background of a window is what a gaussian says that makes sense, or  *)
(* the caller was content with less; the histogram it was fitted to holds   *)
(* each pixel of the window that is off its edges, counted once if it is in *)
(* range, and no saturated one unless there were too few others.            *)
Told(w, type, useMean, e, v) ==
  LET S == In(Inner4(w))
      raw == type = "eRawS"
      value(p) == IF raw THEN sky.at[p] ELSE LapOf(type).at[p]
  IN  /\ v.ret => v.values.from = "sense" \/ useMean
      /\ v.end = "filled" =>
           /\ v.h.there /\ kept.hist[e, type] = v.h /\ kept.data[e, type].values = v.values
           /\ Len(v.h.counted) = Cardinality({p \in S : InRange2(v.h.range, value(p)) /\ ~(v.h.skips /\ value(p) >= Saturated)})
           /\ raw /\ (\E i \in DOMAIN v.h.counted : v.h.counted[i] >= Saturated) =>
                Cardinality({p \in S : value(p) < Saturated}) < Few \/ ~v.h.skips

BackgroundTold ==
  LET a == answer.a  v == answer.v
  IN  /\ answer.q = "GetVariableMeanAndSigma" => Told(a[1], a[2], a[3], <<0, 0>>, v)
      /\ answer.q = "CalcTableMapInfo" =>
           \A e \in DOMAIN v : Told(AreaWindow(a[1], e), "eRawS", FALSE, e, v[e].told)

(* What a frame tells of its pixels is of its own sky as it is now, and of  *)
(* the window asked for: the tables, histograms and areas kept from earlier *)
(* questions change nothing of it, but for the fast median of a window that *)
(* has no pixel to count.                                                   *)
ToldOfSky == Answered /\ BackgroundTold
=============================================================================
