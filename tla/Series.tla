------------------------------- MODULE Series -------------------------------
(***************************************************************************)
(* Series of values that files are read into: CValueVector, CalSolValues,  *)
(* CBgArray, and the lists of integrations of bg_norm; what is looked up   *)
(* and estimated in them.                                                  *)
(*                                                                         *)
(* A file is the numbers on its lines, a comment being a line of none.     *)
(* Several vectors are used by turns, and share the place at which         *)
(* get_uxtime_fast found its last answer.                                  *)
(***************************************************************************)
EXTENDS FloatValues, Sequences, SequencesExt

CONSTANTS
  Unset,        (* memory nobody has written *)
  Vecs,         (* the vectors *)
  SeriesFiles,  (* the files they are read from *)
  IntFiles,     (* the time stamp files of integrations *)
  Asked,        (* what is looked up *)
  SeriesCalls   (* bound: calls of a run *)

VARIABLES
  vecs,   (* the vectors *)
  array,  (* a CBgArray *)
  gi0,    (* the place of the last answer of get_uxtime_fast, in any vector *)
  found   (* what the last call gave *)

seriesVars == <<vecs, array, gi0, found>>

Value(x, y, z) == [x |-> x, y |-> y, z |-> z]
FirstOf(S) == IF S = {} THEN 0 ELSE Min(S)
SumSeq(s) == LET sum[i \in 0 .. Len(s)] == IF i = 0 THEN 0 ELSE Plus(sum[i - 1], s[i]) IN sum[Len(s)]

-----------------------------------------------------------------------------
(* Files. *)
Item(line, col, otherwise) == IF Len(line) > col THEN line[col + 1] ELSE otherwise

read_file(lines, x_col, y_col, min_col) ==
  LET kept == SelectSeq(lines, LAMBDA l : l # <<>> /\ Len(l) >= min_col)
  IN  [i \in DOMAIN kept |->
         Value(Item(kept[i], x_col, 0), Item(kept[i], y_col, 0), Item(kept[i], y_col + 1, -1000))]

(* A range that has no end is of one integration. *)
read_ranges(lines, x_col, y_col) ==
  LET kept == SelectSeq(lines, LAMBDA l : l # <<>>)
      start(i) == Item(kept[i], x_col, Unset)
  IN  [i \in DOMAIN kept |-> [start_int |-> start(i), end_int |-> Item(kept[i], y_col, start(i))]]

read_calsols(lines) ==
  LET kept == SelectSeq(lines, LAMBDA l : l # <<>>)
  IN  [i \in DOMAIN kept |-> [unix_time |-> Head(kept[i]), antenna_cal_solutions |-> Tail(kept[i])]]

(* Of a line that is too short the fields that are not read stay unset.     *)
parse_non_unique_file(line) ==
  [int_idx |-> line[3], uxtime |-> line[4], lst |-> Item(line, 4, Unset)]
parse_unique_file(line) ==
  [int_idx |-> line[2], uxtime |-> line[4], lst |-> Item(line, 4, Unset)]

(* The first that is too late ends the reading. *)
read_int_infos(lines, unique, minUxTime, maxUxTime) ==
  LET kept == SelectSeq(lines, LAMBDA l : l # <<>>)
      infos == [i \in DOMAIN kept |-> IF unique THEN parse_unique_file(kept[i]) ELSE parse_non_unique_file(kept[i])]
      late == FirstOf({i \in DOMAIN infos : maxUxTime > 0 /\ infos[i].uxtime >= maxUxTime
                         /\ ~(minUxTime > 0 /\ infos[i].uxtime < minUxTime)})
      read == IF late = 0 THEN infos ELSE SubSeq(infos, 1, late - 1)
  IN  SelectSeq(read, LAMBDA r : ~(minUxTime > 0 /\ r.uxtime < minUxTime))

-----------------------------------------------------------------------------
(* Interpolation, in a vector that has values.  The answer is a quotient.   *)
Between(vec, x) == {i \in DOMAIN vec : vec[Max({1, i - 1})].x <= x /\ x <= vec[i].x}

(* Mutant: the value before is the first one of all. *)
find_interpol_from_first(vec, x) ==
  CASE x < vec[1].x -> <<1, 1>>
    [] x >= vec[1].x /\ x > vec[Len(vec)].x -> <<Len(vec), Len(vec)>>
    [] OTHER -> LET i == FirstOf(Between(vec, x)) IN IF i = 0 THEN <<0, 0>> ELSE <<1, i>>

find_interpol_values(vec, x) ==
  CASE x < vec[1].x -> <<1, 1>>
    [] x >= vec[1].x /\ x > vec[Len(vec)].x -> <<Len(vec), Len(vec)>>
    [] OTHER -> LET i == FirstOf(Between(vec, x)) IN IF i = 0 THEN <<0, 0>> ELSE <<Max({1, i - 1}), i>>

interpolate(vec, x, bRe) ==
  LET ends == find_interpol_values(vec, x)
      part(v) == IF bRe > 0 THEN v.y ELSE v.z
  IN  IF ends[2] = 0 THEN Unset
      ELSE LET p == vec[ends[1]]  q == vec[ends[2]]
           IN  IF p.x = q.x THEN [num |-> part(p), den |-> 1]
               ELSE [num |-> part(p) * (q.x - p.x) + (part(q) - part(p)) * (x - p.x), den |-> q.x - p.x]

interpolate_both(vec, x) == [re |-> interpolate(vec, x, 1), im |-> interpolate(vec, x, 0)]

-----------------------------------------------------------------------------
(* Looking up. *)
IsFreqExcluded(vec, freq) == \E i \in DOMAIN vec : vec[i].x <= freq /\ freq <= vec[i].y

get_list_around_radius(vec, x, radius) == SelectSeq(vec, LAMBDA v : Magnitude(v.x - x) <= radius)

OfInt(vec, integr) == {i \in DOMAIN vec : vec[i].x = integr}
find_int_info(vec, integr) == FirstOf(OfInt(vec, integr))
get_uxtime(vec, integr) == LET i == find_int_info(vec, integr) IN IF i = 0 THEN -1 ELSE vec[i].y

(* Mutant: what is before the place kept is not looked at. *)
get_uxtime_onwards(vec, at, integr) ==
  LET next == FirstOf({i \in OfInt(vec, integr) : i > at})
  IN  [at |-> IF next = 0 THEN 0 ELSE next - 1, y |-> IF next = 0 THEN -1 ELSE vec[next].y]

(* From the place of the last answer on, and from the start if it is not    *)
(* there.  The place is that of whichever vector was asked last.            *)
get_uxtime_fast(vec, at, integr) ==
  LET next == FirstOf({i \in OfInt(vec, integr) : i > at})
  IN  IF next # 0 THEN [at |-> next - 1, y |-> vec[next].y]
      ELSE [at |-> 0, y |-> get_uxtime(vec, integr)]

find_max_value(vec, from, to) ==
  LET within == {i \in DOMAIN vec : from <= vec[i].x /\ vec[i].x <= to}
  IN  IF within = {} THEN -100000000 ELSE Max({vec[i].y : i \in within})

find_value(vec, x, precision) == FirstOf({i \in DOMAIN vec : Magnitude(vec[i].x - x) <= precision})

find_closest_value(vec, x, max_dist) ==
  LET near == {i \in DOMAIN vec : Magnitude(vec[i].x - x) <= max_dist}
  IN  FirstOf({i \in near : \A j \in near : Magnitude(vec[i].x - x) <= Magnitude(vec[j].x - x)})

(* In CalSolValues the least distance is never kept: the last solution that *)
(* is near enough is the one.                                               *)
find_closest_calsol(sols, x, max_dist) ==
  LET near == {i \in DOMAIN sols : Magnitude(sols[i].unix_time - x) <= max_dist} IN IF near = {} THEN 0 ELSE Max(near)

count_zeros(vec, from, to, radius) ==
  Cardinality({i \in DOMAIN vec : from <= vec[i].x /\ vec[i].x <= to /\ Magnitude(vec[i].y) < radius})

(* Vectors of different sizes end the program. *)
subtract(vec, right) == [i \in DOMAIN vec |-> Value(vec[i].x, vec[i].y - right[i].y, -1000)]

-----------------------------------------------------------------------------
(* CBgArray. *)
alloc(size, value) == [i \in 1 .. size |-> value]
set_value(tab, value) == [i \in DOMAIN tab |-> value]
Lacking == -1000000000
amax(tab) == Max({Lacking} \cup {tab[i] : i \in DOMAIN tab})
SubtractArray(tab, right) == IF Len(tab) # Len(right) THEN tab ELSE [i \in DOMAIN tab |-> tab[i] - right[i]]
MultiplyArray(tab, val) == [i \in DOMAIN tab |-> tab[i] * val]
DivideArray(tab, val) == [i \in DOMAIN tab |-> Over(tab[i], val)]
find_min_max(tab) == [min |-> Min({tab[i] : i \in DOMAIN tab}), max |-> Max({tab[i] : i \in DOMAIN tab}), avg |-> Over(SumSeq(tab), Len(tab))]
vector2array(vec) == [i \in DOMAIN vec |-> vec[i].y]
array2vector(tab) == [i \in DOMAIN tab |-> Value(0, tab[i], 0)]

-----------------------------------------------------------------------------
(* Estimators.  Tables are sorted; what is more than five sigmas from the   *)
(* middle goes, and of values that are all the same none is below it.       *)
Sorted(values) == SortSeq(values, LAMBDA a, b : a < b)
Middle(tab) == tab[(Len(tab) \div 2) + 1]

Quartiles(tab) == <<tab[(Len(tab) \div 4) + 1], tab[((3 * Len(tab)) \div 4) + 1]>>
Iqr(tab) == Quartiles(tab)[2] - Quartiles(tab)[1]

get_trim_median(tab) == SelectSeq(tab, LAMBDA v : 27 * Magnitude(v - Middle(tab)) <= 100 * Iqr(tab))
get_trim_median_up(tab) == SelectSeq(tab, LAMBDA v : 27 * (v - Middle(tab)) < 100 * Iqr(tab))

GetAvgEstimator(tab, n_iter, trim_up) ==
  LET trimmed(t) == IF t = <<>> THEN t ELSE IF trim_up > 0 THEN get_trim_median_up(t) ELSE get_trim_median(t)
      tabs[i \in 0 .. n_iter] == IF i = 0 THEN tab ELSE trimmed(tabs[i - 1])
  IN  IF tabs[n_iter] = <<>> THEN Unset ELSE Middle(tabs[n_iter])

(* Sums a mean and a spread are made of. *)
calc_rms(values) == [n |-> Len(values), s |-> SumSeq(values), s2 |-> SumSeq([i \in DOMAIN values |-> Times(values[i], values[i])])]
calc_avg_rms(values, bOnlyPositive) ==
  calc_rms(IF bOnlyPositive <= 0 THEN values ELSE SelectSeq(values, LAMBDA v : Above(v, 0)))

(* CTotalPowerList: the totals of the first stretch of rows within the interval, those below *)
(* the threshold.                                                           *)
GetLocalMedianBothSides(rows, ux, interval, most) ==
  LET near == {k \in DOMAIN rows : Magnitude(rows[k].t_int - ux) <= interval}
      taken == {k \in near : Above(most, rows[k].bedlam)}
      ends == {k \in DOMAIN rows \ near : \E j \in taken : j < k}
      read == SetToSortSeq({k \in taken : \A e \in ends : k < e}, <)
  IN  IF read = <<>> \/ \E i \in DOMAIN read : ~Number(rows[read[i]].total) THEN Unset
      ELSE GetAvgEstimator(Sorted([i \in DOMAIN read |-> rows[read[i]].total]), 10, 1)

(* Looking back from the last row, of rows that go back far enough.         *)
GetLocalMedian(rows, ux, interval) ==
  LET old == {k \in DOMAIN rows : rows[k].t_int < ux - interval}
      read == SubSeq(rows, (IF old = {} THEN 0 ELSE Max(old)) + 1, Len(rows))
  IN  GetAvgEstimator(Sorted([i \in DOMAIN read |-> read[i].total]), 10, 1)

-----------------------------------------------------------------------------
(* Integrations of the same sidereal time.  The day has 24 hours; times are *)
(* hours.                                                                   *)
calc_diff_time(ra, ra0) ==
  Magnitude(IF ra < 6 /\ ra0 > 12 THEN ra + 24 - ra0
            ELSE IF ra > 12 /\ ra0 < 6 THEN ra - (ra0 + 24) ELSE ra - ra0)

(* The nearest that is half a day later: the first minimum that is below    *)
(* the limit ends the search, unless it is the first of the list.           *)
FindClosestMedianInt(ref, infos, min_i, limit) ==
  LET far(i) == i - 1 >= min_i /\ infos[i].uxtime - ref.uxtime > 12
      see(s, i) ==
        LET dist == calc_diff_time(ref.lst, infos[i].lst)
        IN  IF s.done \/ ~far(i) THEN s
            ELSE IF dist < s.min THEN [s EXCEPT !.min = dist, !.at = i, !.prev = dist]
            ELSE [s EXCEPT !.prev = dist, !.done = dist > s.prev /\ s.at > 1 /\ s.min < limit]
      seen[i \in 0 .. Len(infos)] ==
        IF i = 0 THEN [done |-> FALSE, min |-> 100000000, at |-> 0, prev |-> -1] ELSE see(seen[i - 1], i)
  IN  seen[Len(infos)].at

(* None found is the place before the first. *)
find_closest_same_lst_integration(infos, min_i, limit) ==
  LET at == FindClosestMedianInt(infos[1], infos, min_i, limit) IN IF at = 0 THEN Unset ELSE infos[at]

find_norm_int(infos, lst) ==
  LET nearest == {i \in DOMAIN infos : \A j \in DOMAIN infos : Magnitude(infos[i].lst - lst) <= Magnitude(infos[j].lst - lst)}
  IN  IF nearest = {} THEN -1 ELSE infos[Min(nearest)].int_idx

-----------------------------------------------------------------------------
NothingFound == [call |-> "none", answer |-> 0, calls |-> 0]

SeriesInit == vecs = [v \in Vecs |-> <<>>] /\ array = <<>> /\ gi0 = 0 /\ found = [NothingFound EXCEPT !.call = "start"]
SeriesIdle == vecs = [v \in Vecs |-> <<>>] /\ array = <<>> /\ gi0 = 0 /\ found = NothingFound

Gave(call, answer) ==
  /\ found.calls < SeriesCalls
  /\ found' = [call |-> call, answer |-> answer, calls |-> found.calls + 1]
InUse == found # NothingFound

Read(v) ==
  /\ InUse
  /\ \E file \in SeriesFiles, min_col \in {1, 3} :
       /\ vecs' = [vecs EXCEPT ![v] = read_file(file, 0, 1, min_col)]
       /\ Gave("read_file", Len(vecs'[v]))
  /\ UNCHANGED <<array, gi0>>

add_value(v) ==
  /\ InUse
  /\ \E x \in Asked : vecs' = [vecs EXCEPT ![v] = Append(@, Value(x, x, 0))]
  /\ Gave("add_value", 0)
  /\ UNCHANGED <<array, gi0>>

AskFast(v) ==
  /\ InUse
  /\ \E n \in Asked : LET r == get_uxtime_fast(vecs[v], gi0, n) IN gi0' = r.at /\ Gave("get_uxtime_fast", r.y)
  /\ UNCHANGED <<vecs, array>>

(* Questions that change nothing are asked all at once. *)
Answers(vec, x) ==
  {<<"get_uxtime", get_uxtime(vec, x)>>, <<"find_value", find_value(vec, x, 0)>>,
   <<"find_closest_value", find_closest_value(vec, x, 1)>>,
   <<"find_max_value", find_max_value(vec, 0, x)>>, <<"count_zeros", count_zeros(vec, 0, x, 1)>>,
   <<"get_list_around_radius", Len(get_list_around_radius(vec, x, 1))>>, <<"IsFreqExcluded", IsFreqExcluded(vec, x)>>}
    \cup (IF vec = <<>> THEN {} ELSE {<<"interpolate", interpolate_both(vec, x)>>})
    \cup {<<"calc_rms", calc_rms(vector2array(vec))>>, <<"calc_avg_rms", calc_avg_rms(vector2array(vec), 1)>>}
    \cup {<<"GetAvgEstimator", GetAvgEstimator(Sorted(vector2array(vec)), 10, up)>> : up \in IF vec = <<>> THEN {} ELSE {0, 1}}

Medians(vec, ux) ==
  LET rows == [i \in DOMAIN vec |-> [t_int |-> vec[i].x, total |-> vec[i].y, bedlam |-> vec[i].z]]
  IN  {GetLocalMedianBothSides(rows, ux, 1, 8)}
        \cup (IF \E i \in DOMAIN rows : rows[i].t_int < ux - 1 THEN {GetLocalMedian(rows, ux, 1)} ELSE {})

Ask(v) ==
  /\ InUse
  /\ Gave("questions", [x \in Asked |-> <<Answers(vecs[v], x), Medians(vecs[v], x)>>])
  /\ UNCHANGED <<vecs, array, gi0>>

(* A list of integrations read from a time stamp file. *)
AskIntegrations ==
  /\ InUse
  /\ \E file \in IntFiles, unique \in BOOLEAN, from, to \in {-1, 9, 40} :
       LET infos == read_int_infos(file, unique, from, to)
       IN  infos # <<>> /\ Gave("integrations", <<find_closest_same_lst_integration(infos, 1, 1), find_norm_int(infos, infos[1].lst)>>)
  /\ UNCHANGED <<vecs, array, gi0>>

ReadOther ==
  /\ InUse
  /\ \E file \in SeriesFiles, x \in Asked :
       Gave("other files", <<read_ranges(file, 0, 1), find_closest_calsol(read_calsols(file), x, 1)>>)
  /\ UNCHANGED <<vecs, array, gi0>>

Subtracted(v, right, diff) ==
  /\ InUse /\ Len(vecs[v]) = Len(vecs[right])
  /\ vecs' = [vecs EXCEPT ![diff] = subtract(vecs[v], vecs[right])]
  /\ Gave("subtract", Len(vecs[v]))
  /\ UNCHANGED <<array, gi0>>

Arrays(v) ==
  /\ InUse
  /\ \/ array' = vector2array(vecs[v]) /\ UNCHANGED vecs
     \/ vecs' = [vecs EXCEPT ![v] = array2vector(array)] /\ UNCHANGED array
     \/ /\ array' \in {SubtractArray(array, vector2array(vecs[v])), DivideArray(array, 2), MultiplyArray(array, 3), set_value(array, 1), alloc(2, 0)}
        /\ UNCHANGED vecs
  /\ Gave("array", IF array' = <<>> THEN 0 ELSE <<amax(array'), find_min_max(array')>>)
  /\ UNCHANGED gi0

SeriesNext ==
  \/ AskIntegrations \/ ReadOther
  \/ \E v \in Vecs : Read(v) \/ add_value(v) \/ AskFast(v) \/ Ask(v) \/ Arrays(v) \/ \E r, d \in Vecs : Subtracted(v, r, d)

-----------------------------------------------------------------------------
(* The fast way to look up the time of an integration gives what the plain  *)
(* way gives, for every vector, whichever was asked before it, was read     *)
(* anew or grew since then, if the vector has the integration only once.    *)
SameTime ==
  \A v \in Vecs : \A n \in Asked :
    Cardinality(OfInt(vecs[v], n)) <= 1 => get_uxtime_fast(vecs[v], gi0, n).y = get_uxtime(vecs[v], n)

(* In a vector sorted by x what is interpolated lies between the values of  *)
(* two neighbours, and at a point that is there once it is its value.       *)
Rising(vec) == \A i \in 1 .. Len(vec) - 1 : vec[i].x < vec[i + 1].x
Interpolated ==
  \A v \in Vecs : \A x \in Asked :
    vecs[v] # <<>> /\ Rising(vecs[v]) =>
      LET r == interpolate(vecs[v], x, 1)
          below == {i \in DOMAIN vecs[v] : vecs[v][i].x <= x}
          p == IF below = {} THEN 1 ELSE Max(below)
          q == IF below = {} THEN 1 ELSE Min({p + 1, Len(vecs[v])})
          ends == {vecs[v][p].y, vecs[v][q].y}
      IN  /\ Min(ends) * r.den <= r.num /\ r.num <= Max(ends) * r.den
          /\ vecs[v][p].x = x => r.num = vecs[v][p].y * r.den

(* What is looked up in a vector is what the vector says, at its points and *)
(* between them (get_uxtime_fast, interpolate).                             *)
LookedUp == SameTime /\ Interpolated
=============================================================================
