--------------------------- MODULE MCTotalPower -----------------------------
EXTENDS TotalPower, FloatValues

CONSTANT Unset

Line(append, fromLast, now) ==
  [append |-> append, fromLast |-> fromLast, processed |-> None, now |-> now, minY |-> 0, maxY |-> -1]

Resumes == {Line(TRUE, TRUE, now) : now \in BOOLEAN}
             \cup {[Line(TRUE, TRUE, FALSE) EXCEPT !.minY = 1, !.maxY = y] : y \in {1, 5}}
Others == {Line(FALSE, fromLast, now) : fromLast \in BOOLEAN, now \in BOOLEAN}
Named == {[Line(FALSE, fromLast, FALSE) EXCEPT !.processed = 2] : fromLast \in BOOLEAN}
AllLines == Resumes \cup Others \cup Named

SomeCut == {<<1, 0>>, <<3, 1>>}
Own == {<<f, f>> : f \in 1 .. NFiles}
(* The names of all files begin alike. *)
Alike == (1 .. NFiles) \X (1 .. NFiles)

-----------------------------------------------------------------------------
(* total_power_hor and the series it reads are followed on their own, with  *)
(* total_power_vert at rest.                                                *)
VARIABLES images, g, at, file, x, t, list, out, stampFile, vecs, array, gi0, found

Vecs == {"v", "w"}
SeriesFiles == {<<<<1, 0>>, <<>>, <<2, 9, 1>>, <<4, 6, 7>>>>, <<<<3, 4, 0>>, <<1, 6>>>>, <<<<2, 1, 1>>, <<4, 3>>, <<4, 8>>>>}
IntFiles == {<<<<0, 0, 1, 5, 23>>, <<>>, <<0, 0, 2, 10, 3>>, <<0, 0, 3, 18, 12>>, <<0, 0, 4, 29, 22>>, <<0, 0, 5, 41, 23>>, <<0, 0, 6, 53, 1>>>>}
Asked == 1 .. 4
SeriesCalls == 3

Pixels(w, h, value(_, _)) == [p \in (0 .. w - 1) \X (0 .. h - 1) |-> value(p[1], p[2])]
Image(w, h, t0, ranges, readable, value(_, _)) ==
  [w |-> w, h |-> h, at |-> Pixels(w, h, value), t0 |-> t0, inttime |-> 2, f0 |-> 10, df |-> 2, ranges |-> ranges, readable |-> readable]

OneList == <<Image(3, 3, 100, <<>>, TRUE, LAMBDA c, y : 1 + c + 2 * y),
            Image(2, 4, 106, <<>>, FALSE, LAMBDA c, y : 1),
            Image(3, 2, 110, [c \in 0 .. 1 |-> IF c = 0 THEN "ANT" ELSE "TERM"], TRUE, LAMBDA c, y : 3 + c - y),
            Image(4, 4, 130, [c \in 1 .. 3 |-> "ANT"], TRUE, LAMBDA c, y : (5 * c + 3 * y) % 7)>>
Lists == {OneList, Tail(OneList)}

Opt(o, a) == [opt |-> o, arg |-> a]
Lines ==
  {<<>>, <<Opt("x", 5)>>, <<Opt("m", 1), Opt("a", 4), Opt("b", 12)>>, <<Opt("t", "ANT"), Opt("write_now", 1)>>,
   <<Opt("g", 0), Opt("start_from_last", 1), Opt("o", 104), Opt("p", 132)>>, <<Opt("last_processed", 1), Opt("c", 12)>>,
   <<Opt("s", 1), Opt("e", 1), Opt("kurtosis", 1), Opt("unit", "mW")>>, <<Opt("l", 12), Opt("u", 14), Opt("mean_total_power", 1)>>,
   <<Opt("exclude", <<10, 12>>), Opt("mean_total_power", 1)>>, <<Opt("exclude", <<10, 20>>), Opt("mean_total_power", 1), Opt("x", 4)>>,
   <<Opt("exclude_n_birghtest", 1), Opt("x", 3)>>, <<Opt("orbcomm", 1), Opt("do_sqr", 1), Opt("sql", 1), Opt("write_now", 1)>>,
   <<Opt("calc_median_sigma_n_sec_around", 4), Opt("total_power_cut_range", <<100, 104, 12>>)>>, <<Opt("fit_pol_n", 1)>>,
   <<Opt("int_time_stamp_file", <<[x |-> 0, y |-> 7, z |-> 0], [x |-> 2, y |-> 90, z |-> 0], [x |-> 1, y |-> 91, z |-> 0]>>)>>}
Gain == [f \in 0 .. 40 |-> f % 3]
MaxFreq == 14
Orbcomm == {12, 16}
MaxRMSChunk == -1

H == INSTANCE TotalPowerHor

horAll == <<images, g, at, file, x, t, list, out, stampFile>>
seriesAll == <<vecs, array, gi0, found>>
all == <<vars, horAll, seriesAll>>

AtRest ==
  /\ ask = Line(FALSE, FALSE, FALSE) /\ low = 0 /\ high = 0 /\ bad = {} /\ stamp = None /\ stampCut = FALSE
  /\ disk = <<>> /\ pc = "idle" /\ fits_list = <<>> /\ i = 0 /\ last = None /\ lastCut = FALSE
  /\ power = <<>> /\ buf = <<>> /\ passed = {} /\ skipped = {} /\ ended = FALSE /\ faults = {"crash"}

MCInit ==
  \/ Init /\ H!HorIdle /\ H!SeriesIdle
  \/ AtRest /\ H!HorInit /\ H!SeriesIdle
  \/ AtRest /\ H!HorIdle /\ H!SeriesInit

Vert == at = "idle" /\ ~H!InUse

Ended == (at \in {"done", "exit"} \/ found.calls >= SeriesCalls) /\ UNCHANGED all

MCNext ==
  \/ Vert /\ Next /\ UNCHANGED <<horAll, seriesAll>>
  \/ at # "idle" /\ H!HorNext /\ UNCHANGED <<vars, vecs, array, found>>
  \/ H!InUse /\ H!SeriesNext /\ UNCHANGED <<vars, horAll>>
  \/ Ended

MCSpec == MCInit /\ [][MCNext]_all /\ WF_vars(Vert /\ Program) /\ WF_vars(Vert /\ Record)
            /\ WF_vars(Vert /\ Complete)

(* What is looked up in a series is what it says: Series.                  *)
LookedUp == H!LookedUp

(* What total_power_hor writes is the power of what it read: TotalPowerHor. *)
Totals == H!HorTotals
=============================================================================
