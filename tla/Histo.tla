-------------------------------- MODULE Histo --------------------------------
(***************************************************************************)
(* CMyHisto: a histogram, the file it is dumped to and read from, its      *)
(* moments and the fit of a gaussian with all its second tries.  Values    *)
(* are integers; a mean or rms is kept as the sums it is made of.  Whether *)
(* a fit succeeds, and whether its result makes sense, is chosen for each  *)
(* attempt.                                                                *)
(***************************************************************************)
EXTENDS Integers, SequencesExt, TLC

CONSTANTS
  Ranges,      (* <<min, max, bins>> of histograms                           *)
  Filled,      (* values filled                                              *)
  HistoCalls   (* bound: calls of a run                                      *)

(* A range may be empty or upside down, but is not cut into no bins.       *)
ASSUME HistoAssumption ==
  Filled \subseteq Int /\ \A r \in Ranges : r \in Int \X Int \X (Nat \ {0})

VARIABLES
  histo,       (* the histogram                                              *)
  dumped,      (* the file, or NoFile                                        *)
  offered,     (* history: the file read and the values filled since cleared   *)
  fitted,      (* what the last fit was given and gave back                  *)
  calls

histoVars == <<histo, dumped, offered, fitted, calls>>

NoFile == [name |-> "none"]
NoFit == [ret |-> "none"]
Lowest == 10000       (* m_MininumValue before the first value *)
NoSums == [n |-> 0, sum |-> 0, sum2 |-> 0, unit |-> 1]

EmptyTab(n) == [i \in 0 .. n - 1 |-> 0]
TabLen(h) == Cardinality(DOMAIN h.tab)
Bins(h) == 0 .. h.bins - 1

Broken(h) == [h EXCEPT !.wrecked = TRUE]

(* Mutant: the number of all counts is left. *)
ClearBinsOnly(h) == [h EXCEPT !.tab = [i \in DOMAIN @ |-> 0], !.mean = NoSums, !.rms = NoSums, !.norm = 0, !.char = FALSE]

(* Clear goes over as many bins as there are said to be. *)
ClearHisto(h) ==
  LET h1 == [h EXCEPT !.tab = IF h.alloc THEN [i \in DOMAIN @ |-> IF i < h.bins THEN 0 ELSE @[i]] ELSE @,
                      !.mean = NoSums, !.rms = NoSums, !.norm = 0, !.char = FALSE, !.n = 0, !.sums = NoSums]
  IN  IF h.alloc /\ h.bins > TabLen(h) THEN Broken(h1) ELSE h1

InitTab(h) ==
  IF h.bins = 0 THEN h
  ELSE ClearHisto(IF h.alloc THEN h ELSE [h EXCEPT !.alloc = TRUE, !.tab = EmptyTab(h.bins)])

InitHisto(h, min, max, bins) ==
  LET h1 == IF h.bins # bins THEN [h EXCEPT !.alloc = FALSE, !.tab = <<>>] ELSE h
  IN  InitTab([h1 EXCEPT !.min = min, !.max = max, !.bins = bins, !.skip = -1, !.lo = Lowest, !.hi = -Lowest,
                         !.sums = NoSums])

(* Of a histogram made with a name alone, which values it skips is not set. *)
NamedHisto(skip) ==
  [min |-> 0, max |-> 0, bins |-> 0, alloc |-> FALSE, tab |-> <<>>, skip |-> skip, lo |-> Lowest, hi |-> -Lowest,
   n |-> 0, sums |-> NoSums, mean |-> NoSums, rms |-> NoSums, norm |-> 0, char |-> FALSE,
   fitOk |-> FALSE, wrecked |-> FALSE]

NewHisto(min, max, bins) == InitHisto(NamedHisto(-1), min, max, bins)

InRange(h, v) == v >= h.min /\ v < h.max

(* The bin of num / den, cut to an integer as the program does. *)
GetBinNo(h, num, den) ==
  LET a == (num - h.min * den) * h.bins  b == (h.max - h.min) * den
      size(x) == IF x < 0 THEN -x ELSE x
      q == size(a) \div size(b)
  IN  IF (a < 0) = (b < 0) THEN q ELSE -q

(* Centres of bins, in halves of a bin's share of the range. *)
CentreUnit(h) == 2 * h.bins
GetBinCenter(h, i) == 2 * h.min * h.bins + (2 * i + 1) * (h.max - h.min)

Skipped(h, v) == h.skip > 0 /\ v >= h.skip

Fill(h, v) ==
  LET h1 == IF ~InRange(h, v) THEN h
            ELSE [h EXCEPT !.tab[GetBinNo(h, v, 1)] = @ + 1, !.n = @ + 1,
                           !.sums = [@ EXCEPT !.n = h.n + 1, !.sum = @ + v, !.sum2 = @ + v * v]]
  IN  IF Skipped(h, v) THEN h
      ELSE [h1 EXCEPT !.hi = IF v > @ THEN v ELSE @, !.lo = IF v < @ THEN v ELSE @]

Most(h) == IF h.bins = 0 THEN -10000 ELSE Max({h.tab[i] : i \in Bins(h)})

GetMaxBin(h) == Min({i \in Bins(h) : h.tab[i] = Most(h)})

SetCharValues(h, mean, rms, norm) == [h EXCEPT !.mean = mean, !.rms = rms, !.norm = norm, !.char = TRUE]

GetStatValues(h) == IF h.n = 0 THEN h ELSE SetCharValues(h, h.sums, h.sums, Most(h))

(* The moments of the centres of the bins from first on, count of them.     *)
BinSums(h, first, count) ==
  LET B == first .. Min({first + count, h.bins}) - 1
  IN  [n |-> MapThenSumSet(LAMBDA i : h.tab[i], B),
       sum |-> MapThenSumSet(LAMBDA i : GetBinCenter(h, i) * h.tab[i], B),
       sum2 |-> MapThenSumSet(LAMBDA i : GetBinCenter(h, i) * GetBinCenter(h, i) * h.tab[i], B),
       unit |-> CentreUnit(h)]

GetRMS(h, first, count) == BinSums(h, first, IF count = 0 THEN h.bins ELSE count)
CalcAllValues(h) == LET s == BinSums(h, 0, h.bins) IN SetCharValues(h, s, s, Most(h))

(* Every second bin is put to the one before. *)
Rebinned(h) ==
  LET half == NewHisto(h.min, h.max, h.bins \div 2)
  IN  CalcAllValues([half EXCEPT !.tab =
        [i \in DOMAIN @ |-> MapThenSumSet(LAMBDA j : h.tab[j], {j \in Bins(h) : j \div 2 = i})]])

(* Mutant: the bins above a peak are not taken out with it. *)
SlopeBelow(h, peak) == {i \in 0 .. peak : h.tab[peak] > 0 /\ \A j \in i .. peak : h.tab[j] > 0}

(* The bins around a peak, down to the nearest empty one. *)
Hill(h, peak) ==
  {i \in Bins(h) : h.tab[peak] > 0 /\ \A j \in Min({i, peak}) .. Max({i, peak}) : h.tab[j] > 0}

(* The highest bin of those left, until none is left or there are enough.   *)
FindPeaks(h, nPeaks) ==
  LET next(peaks) ==
        LET left == {i \in Bins(h) : h.tab[i] > 0} \ UNION {Hill(h, p) : p \in Range(peaks)}
            high == Max({h.tab[i] : i \in left})
        IN  IF left = {} THEN peaks ELSE Append(peaks, Min({i \in left : h.tab[i] = high}))
      found[n \in 0 .. nPeaks] == IF n = 0 THEN <<>> ELSE next(found[n - 1])
  IN  found[nPeaks]

DumpToFile(h) ==
  [name |-> "histo", min |-> h.min, max |-> h.max, bins |-> h.bins, rms |-> h.rms, mean |-> h.mean,
   norm |-> h.norm, fitOk |-> h.fitOk, hits |-> h.n, counts |-> [i \in Bins(h) |-> h.tab[i]]]

(* The lines set the values one by one; the number of bins clears the       *)
(* table, which is made only when there is none.  The rows are laid to the  *)
(* bins their centres are in: of a range of no width no bin is found.       *)
ReadHisto(h, f) ==
  LET h1 == InitTab([h EXCEPT !.min = f.min, !.max = f.max, !.bins = f.bins])
      h2 == [h1 EXCEPT !.rms = f.rms, !.mean = f.mean, !.norm = f.norm, !.fitOk = f.fitOk, !.n = f.hits]
  IN  IF h2.wrecked \/ (f.bins > 0 /\ f.min = f.max) THEN Broken(h2)
      ELSE [h2 EXCEPT !.tab = [i \in DOMAIN @ |-> LET rows == {j \in 0 .. f.bins - 1 :
                                                                 GetBinNo(h1, GetBinCenter(h1, j), CentreUnit(h1)) = i}
                                                  IN  IF rows = {} THEN @[i] ELSE f.counts[Max(rows)]]]

-----------------------------------------------------------------------------
(* Fits.  An attempt finds a gaussian that makes sense, one that does not,  *)
(* or none.                                                                 *)
Results == {"sense", "nonsense", "none"}
Stages == {"first", "again", "again around", "halved", "range", "norm down", "norm up", "up", "up around"}

CheckIfReasonableFit(result) == result = "sense"

(* Mutant: the result of the loop is taken as it is. *)
RetryUnchecked(tries, stage, loop, around) ==
  CheckIfReasonableFit(tries[stage]) \/ (loop /\ tries[around] # "none")

(* A second try, and the loop over the start of sigma when it fails.        *)
RetryFitGauss(tries, stage, loop, around) ==
  CheckIfReasonableFit(tries[stage]) \/ (loop /\ CheckIfReasonableFit(tries[around]))

(* The range is changed, then the norm to start from, down and up; at the   *)
(* end both ways with a loop over sigma, the one upwards whatever the one   *)
(* downwards has found.                                                     *)
LastTry(tries) ==
  LET makes(s) == RetryFitGauss(tries, s, FALSE, s)
  IN  IF makes("range") THEN [stage |-> "range", fit |-> TRUE]
      ELSE IF makes("norm down") THEN [stage |-> "norm down", fit |-> TRUE]
      ELSE IF makes("norm up") THEN [stage |-> "norm up", fit |-> TRUE]
      ELSE [stage |-> IF tries["up"] = "sense" THEN "up" ELSE "up around", fit |-> RetryFitGauss(tries, "up", TRUE, "up around")]

NoEnd(h, tries) == h.norm = 0 /\ ~RetryFitGauss(tries, "range", FALSE, "range")
                              /\ ~RetryFitGauss(tries, "norm down", FALSE, "norm down")

(* All tries.  With no bins to halve it gives up at once; with no norm to   *)
(* start from, the steps of the norm are zero and their loop never ends.    *)
Tried(h, tries, retry) ==
  CASE tries["first"] # "none" -> [stage |-> "first", fit |-> TRUE]
    [] tries["first"] = "none" /\ ~retry -> [stage |-> "first", fit |-> FALSE]
    [] tries["first"] = "none" /\ retry ->
         IF RetryFitGauss(tries, "again", TRUE, "again around")
           THEN [stage |-> IF tries["again"] = "sense" THEN "again" ELSE "again around", fit |-> TRUE]
         ELSE IF h.bins \div 2 < 5 THEN [stage |-> "given up", fit |-> FALSE]
         ELSE IF CheckIfReasonableFit(tries["halved"]) THEN [stage |-> "halved", fit |-> TRUE]
         ELSE IF NoEnd(h, tries) THEN [stage |-> "norm down", fit |-> FALSE]
         ELSE LastTry(tries)

(* What FitGauss returns, and what becomes of the mean, rms and norm that   *)
(* were passed to it: those of the fit, even of one that is then refused.   *)
FitGauss(h, tries, retry, check) ==
  LET last == Tried(h, tries, retry)
      refused == last.stage = "first" /\ check /\ ~CheckIfReasonableFit(tries["first"])
      never == retry /\ last = [stage |-> "norm down", fit |-> FALSE]
  IN  [ret |-> IF never THEN "never" ELSE IF last.fit /\ ~refused THEN "TRUE" ELSE "FALSE",
       gave |-> IF last.fit THEN last.stage ELSE "passed",
       sense |-> last.fit /\ tries[last.stage] = "sense", checked |-> check]

AfterFit(h, f) == [h EXCEPT !.fitOk = f.ret = "TRUE"]

-----------------------------------------------------------------------------
Calls(h) == ~histo.wrecked /\ fitted.ret # "never" /\ calls > 0 /\ calls' = calls - 1 /\ histo' = h

Anew == offered' = [from |-> NoFile, values |-> <<>>] /\ UNCHANGED <<dumped, fitted>>
Same == UNCHANGED <<offered, fitted, dumped>>

InitTable_ == \E r \in Ranges : Calls(InitHisto(histo, r[1], r[2], r[3])) /\ Anew
Clear == Calls(ClearHisto(histo)) /\ Anew
SkipBigger == \E v \in Filled : offered = [from |-> NoFile, values |-> <<>>] /\ Calls([histo EXCEPT !.skip = v]) /\ Same
FillOne == \E v \in Filled :
  /\ Calls(Fill(histo, v)) /\ UNCHANGED <<fitted, dumped>>
  /\ offered' = [offered EXCEPT !.values = Append(@, v)]
GetStat == Calls(GetStatValues(histo)) /\ Same
CalcAll == histo.bins > 0 /\ Calls(CalcAllValues(histo)) /\ Same
Dump == Calls(histo) /\ dumped' = DumpToFile(histo) /\ UNCHANGED <<offered, fitted>>
Read ==
  /\ dumped # NoFile /\ Calls(ReadHisto(histo, dumped))
  /\ offered' = [from |-> dumped, values |-> <<>>] /\ UNCHANGED <<fitted, dumped>>

(* The tries beyond the first: at most one makes sense, the others do as    *)
(* one.                                                                     *)
Tries(first, good, others) ==
  [s \in Stages |-> IF s = "first" THEN first ELSE IF s = good THEN "sense" ELSE others]

(* A run ends with tries beyond the first.                                  *)
Fit == \E first \in Results, check, retry \in BOOLEAN, others \in {"nonsense", "none"}, good \in Stages :
  LET tries == Tries(first, good, others)
      again == retry /\ first = "none"
      f == FitGauss(histo, tries, retry, check)
  IN  /\ histo.bins > 0 /\ (again => calls = 1) /\ (~again => good = "first" /\ others = "none")
      /\ Calls(AfterFit(histo, f)) /\ fitted' = f /\ UNCHANGED <<offered, dumped>>

HistoInit ==
  /\ \/ \E r \in Ranges : histo = NewHisto(r[1], r[2], r[3])
     \/ \E skip \in {-1} \cup Filled : histo = NamedHisto(skip)
  /\ dumped = NoFile /\ offered = [from |-> NoFile, values |-> <<>>] /\ fitted = NoFit /\ calls = HistoCalls

HistoNext ==
  InitTable_ \/ Clear \/ SkipBigger \/ FillOne \/ GetStat \/ CalcAll \/ Dump \/ Read \/ Fit

HistoSpec == HistoInit /\ [][HistoNext]_histoVars

-----------------------------------------------------------------------------
(* However a histogram was made, cleared, given another range or read back, *)
(* its bins are those of the file and what was filled since, each value in  *)
(* the bin it lies in, and m_AllCounts is what was filled and not skipped.  *)
LiesIn(h, v, i) ==
  LET w == h.max - h.min IN i * w <= (v - h.min) * h.bins /\ (v - h.min) * h.bins < (i + 1) * w

Counts(h, v) == InRange(h, v) /\ ~Skipped(h, v)

Tallied ==
  ~histo.wrecked =>
    LET file == offered.from
        counted == {k \in DOMAIN offered.values : Counts(histo, offered.values[k])}
    IN  /\ histo.n = Cardinality(counted) + (IF file = NoFile THEN 0 ELSE file.hits)
        /\ \A i \in Bins(histo) :
             histo.tab[i] = Cardinality({k \in counted : LiesIn(histo, offered.values[k], i)})
                              + (IF file = NoFile THEN 0 ELSE file.counts[i])

(* Peaks stand apart: between two of them there is an empty bin, and no     *)
(* stretch of bins that is not empty is left out unless enough were found   *)
(* as high as its highest bin.                                              *)
PeaksStand ==
  ~histo.wrecked /\ histo.bins > 0 =>
    LET peaks == FindPeaks(histo, 2)
        apart(a, b) == \E k \in Min({a, b}) .. Max({a, b}) : histo.tab[k] = 0
    IN  /\ \A i, j \in DOMAIN peaks : i # j => apart(peaks[i], peaks[j])
        /\ \A b \in Bins(histo) : histo.tab[b] > 0 =>
             \/ \E i \in DOMAIN peaks : ~apart(peaks[i], b) /\ histo.tab[peaks[i]] >= histo.tab[b]
             \/ Len(peaks) = 2 /\ \A i \in DOMAIN peaks : histo.tab[peaks[i]] >= histo.tab[b]

(* A fit is told to have been found only when it makes sense, if that was   *)
(* to be checked or it took more than one attempt to find it.               *)
FitMakesSense == fitted.ret = "TRUE" => fitted.sense \/ (fitted.gave = "first" /\ ~fitted.checked)

(* A histogram shows what it was filled with: in its bins, and in the peaks *)
(* found in them.                                                           *)
TalliesShow == Tallied /\ PeaksStand
=============================================================================
