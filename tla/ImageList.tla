----------------------------- MODULE ImageList ------------------------------
(***************************************************************************)
(* Programs that go through a list once: median_fits_images, images2cube,  *)
(* CBgFits::CalcMedian, build_dynaspec_simple, fits2txt, subtract_images,  *)
(* select_integrations, cutimages and running_median (src/apps).  What     *)
(* they do to one image is in ImageStat and Pixels.                        *)
(*                                                                         *)
(* An entry of a list is the name of a file, as far as a program reads it, *)
(* and the image in it; rows of an image, lines of a table and values of a *)
(* text file are entries of their own kinds.  A spread between quartiles   *)
(* is not divided by 1.35.                                                 *)
(***************************************************************************)
EXTENDS ImageStat

CONSTANT Jobs   (* [prog, list, ask]: a program, its list and its options *)

VARIABLES job,
          turn,   (* i, the entry of the loop *)
          kept,   (* what the program holds in memory from turn to turn *)
          made,   (* what it has written, or will *)
          end     (* "running", "saved" or "failed" *)

listVars == <<job, turn, kept, made, end>>

(* A file that cannot be read, and a name that cannot be. *)
Missing == [x |-> 0, y |-> 0, data |-> <<>>]
Unparsed == <<>>

Reading == {"median_fits_images", "images2cube", "CalcMedian", "fits2txt", "subtract_images",
            "build_dynaspec_simple"}

Entry == job.list[turn]
More(progs) == end = "running" /\ job.prog \in progs /\ turn <= Len(job.list)
Behind(progs) == end = "running" /\ job.prog \in progs /\ turn > Len(job.list)

GoesOn(k, m) == turn' = turn + 1 /\ kept' = k /\ made' = m /\ UNCHANGED <<job, end>>
Ends(how, m) == end' = how /\ made' = m /\ UNCHANGED <<job, turn, kept>>

(* A float of a block, or of what is behind it in memory. *)
FloatAt(m, i) == IF i \in DOMAIN m.data THEN m.data[i] ELSE Junk

-----------------------------------------------------------------------------
(* fits2txt passes over what it cannot read, when told so, but not over its *)
(* first image, which says how many values there are.                       *)
PassesOver == job.prog = "fits2txt" /\ job.ask.ignore /\ turn > 1

PassOver == More(Reading) /\ Entry.image = Missing /\ PassesOver /\ GoesOn(kept, made)

(* Every other reader gives up at a file it cannot read, with what it has   *)
(* written until then; build_dynaspec_simple also when the first name tells *)
(* no time, and CalcMedian at an image of another height.                   *)
GivesUp ==
  /\ More(Reading)
  /\ \/ Entry.image = Missing /\ ~PassesOver
     \/ job.prog = "build_dynaspec_simple" /\ turn = 1 /\ Entry.name = Unparsed
     \/ job.prog = "CalcMedian" /\ Entry.image.y # job.list[1].image.y
  /\ Ends("failed", made)

Readable == Entry.image # Missing

(* The images are all kept in memory. *)
TakeImage ==
  /\ More({"median_fits_images", "images2cube", "CalcMedian"}) /\ Readable
  /\ job.prog = "CalcMedian" => Entry.image.y = job.list[1].image.y
  /\ GoesOn(Append(kept, Entry.image), made)

(* NaN is sorted anywhere; a smaller image has it where it ends. *)
MedianImage(ms) ==
  LET m == ms[1]
      values(x, y) == [k \in DOMAIN ms |-> valXY(ms[k], x, y)]
      middle(x, y) == IF \E k \in DOMAIN ms : ~Number(valXY(ms[k], x, y)) THEN Junk
                      ELSE SortSeq(values(x, y), <)[(Len(ms) \div 2) + 1]
  IN  setXY(New(m.x, m.y), {<<x, y, middle(x, y)>> : x \in Columns(m), y \in Rows(m)})

SaveMedian == Behind({"median_fits_images"}) /\ Ends("saved", <<MedianImage(kept)>>)

(* Line y of every image, as an image.  Of each as many floats are copied   *)
(* from there as the first image is wide: of a narrower one they go on into *)
(* its next line, and behind the last one into memory that is not its own.  *)
LinesAt(ms, y) ==
  LET m == New(ms[1].x, Len(ms))
  IN  setXY(m, {<<x, k, FloatAt(ms[k + 1], Pos(ms[k + 1], x, y))>> : x \in Columns(m), k \in Rows(m)})

(* The mean, or the median, of each channel and integration, and what the   *)
(* spread is calculated from; of junk it is junk.                           *)
CalcMedian ==
  /\ Behind({"CalcMedian"})
  /\ LET m == kept[1]
         told(x, y) == LET of == LinesAt(kept, y)
                           junk == \E p \in Column(of, x) : valXY(of, p[1], p[2]) = Junk
                       IN  IF junk THEN <<Junk, Junk, Junk>>
                           ELSE IF job.ask.average THEN Sums(of, Column(of, x)) ELSE Quartiles(Sorted(of, Column(of, x)))
         first(s) == IF job.ask.average /\ s[1] # Junk THEN Mean(s) ELSE s[1]
         places == Columns(m) \X Rows(m)
     IN  Ends("saved", <<setXY(New(m.x, m.y), {p \o <<first(told(p[1], p[2]))>> : p \in places}),
                         setXY(New(m.x, m.y), {p \o <<told(p[1], p[2])>> : p \in places})>>)

(* The planes of a cube are as many pixels each as the first image has. *)
SaveCube ==
  /\ Behind({"images2cube"})
  /\ IF \A k \in DOMAIN kept : kept[k].x * kept[k].y = kept[1].x * kept[1].y
     THEN Ends("saved", kept) ELSE Ends("failed", <<>>)

-----------------------------------------------------------------------------
(* The pixel of a spectrum of 10 seconds and 24 coarse channels that a name *)
(* stands for: 50 time steps in a second, 32 channels in a coarse one.      *)
DynaPixel(name, first) ==
  <<(name.ux - first.ux) * 50 + name.timestep, (name.cc - 109) * 32 + name.finech>>

DynaSize == [x |-> 10 * 50, y |-> 24 * 32]

(* A name that cannot be read is passed over, a pixel outside as well; a    *)
(* pixel nobody has written holds what was in memory.                       *)
FillDynaspec ==
  /\ More({"build_dynaspec_simple"}) /\ Readable /\ job.list[1].name # Unparsed
  /\ LET p == DynaPixel(Entry.name, job.list[1].name)
     IN  IF Entry.name # Unparsed /\ Inside(DynaSize, p[1], p[2])
         THEN GoesOn(kept, (p :> valXY(Entry.image, job.ask.x, job.ask.y)) @@ made)
         ELSE GoesOn(kept, made)

(* As many values of every image as the first one has. *)
WriteText ==
  /\ More({"fits2txt"}) /\ Readable
  /\ LET first == job.list[1].image  m == Entry.image
     IN  GoesOn(kept, made \o [i \in 1 .. first.x * first.y |-> FloatAt(m, i - 1)])

(* Nobody looks at the sizes. *)
SubtractReference ==
  /\ More({"subtract_images"}) /\ Readable
  /\ LET ref == job.ask.image
         less(a, i) == IF i \in DOMAIN ref.data THEN Minus(a, ref.data[i]) ELSE Junk
     IN  GoesOn(kept, Append(made, [Entry.image EXCEPT !.data = [i \in DOMAIN @ |-> less(@[i], i)]]))

(* The lines of the image whose total is not below the threshold. *)
SelectIntegration ==
  /\ More({"select_integrations"})
  /\ LET m == job.ask.image
     IN  GoesOn(kept, IF AtLeast(TotalPower(m, Entry, 0, m.x - 1), job.ask.threshold)
                      THEN Append(made, get_line(m, Entry)) ELSE made)

(* set_ysize leaves the height alone when no line was added. *)
SaveSelected ==
  /\ Behind({"select_integrations"})
  /\ LET m == job.ask.image
     IN  Ends("saved", IF made # <<>> THEN made ELSE [k \in 1 .. m.y |-> [i \in 1 .. m.x |-> Junk]])

(* cutimages: a file is named for its label and for the ends as the line    *)
(* has them, whatever is cut.                                               *)
CutName(line) == <<line.label, line.start, line.end>>

CutFor(m, line, ask) ==
  CASE line.cuttype = "rows" -> Cut(m, 0, m.x, line.start, CutEnd(line.end, m.y))
    [] line.cuttype = "both" -> Cut(m, line.start, line.end, ask.gStartY, ask.gEndY)
    [] OTHER -> Cut(m, line.start, CutEnd(line.end, m.x), 0, m.y)

CutImages ==
  /\ More({"cutimages"})
  /\ GoesOn(kept, (CutName(Entry) :> CutFor(job.ask.image, Entry, job.ask)) @@ made)

-----------------------------------------------------------------------------
(* running_median: the values before i and behind it, or twice as many      *)
(* before it.  There is no other direction.                                 *)
Around(i, ask) ==
  CASE ask.direction = 0 -> i - ask.half .. i + ask.half
    [] ask.direction < 0 -> i - 2 * ask.half - 1 .. i
    [] OTHER -> {}

(* Mutant: the value itself is always among its neighbours. *)
WindowWithItself(n, i, ask) == {k \in Around(i, ask) : k >= 0 /\ k < n}

(* Without the value itself, unless it is asked for or there is no other.   *)
Window(n, i, ask) ==
  {k \in Around(i, ask) : k >= 0 /\ k < n /\ (k # i \/ ask.central \/ (ask.direction < 0 /\ i = 0))}

(* The ring of spreads: the next place is written, and all of it sorted.    *)
AddRunningRms(ring, rms, count) ==
  LET next == IF Len(ring.rms) < count THEN Len(ring.rms)
              ELSE IF ring.index + 1 >= Len(ring.rms) THEN 0 ELSE ring.index + 1
      filled == IF next = Len(ring.rms) THEN Append(ring.rms, rms) ELSE [ring.rms EXCEPT ![next + 1] = rms]
  IN  [rms |-> SortSeq(filled, <), index |-> next]

Middle1(s) == s[(Len(s) \div 2) + 1]

RunningMedian ==
  /\ More({"running_median"})
  /\ LET i == turn - 1  n == Len(job.list)
         values == SortSeq(FoldSet(LAMBDA k, s : Append(s, job.list[k + 1]), <<>>, Window(n, i, job.ask)), <)
         quartiles == Quartiles(values)
         ring == AddRunningRms(kept, quartiles[2] - quartiles[3], job.ask.count)
     IN  IF values = <<>>
         THEN GoesOn(kept, Append(made, [z |-> -1000, err |-> 0, v |-> 0]))
         ELSE GoesOn(ring, Append(made, [z |-> Middle1(values), err |-> quartiles[2] - quartiles[3],
                                         v |-> Middle1(ring.rms)]))

(* What is written of each value: its median and spread, and whether it is  *)
(* a step of ten spreads of the ones before; values too far from their      *)
(* median are left out.                                                     *)
SaveRunning ==
  /\ Behind({"running_median"})
  /\ LET y(k) == job.list[k]
         before(k) == made[IF k = 1 THEN 1 ELSE k - 1]
         rejected(k) == /\ job.ask.max > 0 /\ made[k].err > 0
                        /\ Magnitude(y(k) - made[k].z) * 27 > job.ask.max * 20 * made[k].err
         step(k) == /\ Magnitude(y(k) - before(k).z) * 27 > 10 * 20 * before(k).v
                    /\ made[k].err > 10 * before(k).v /\ k > job.ask.half
         all == [k \in DOMAIN made |-> made[k] @@ [i |-> k - 1, step |-> step(k)]]
     IN  Ends("saved", SelectSeq(all, LAMBDA r : ~rejected(r.i + 1)))

Finish ==
  /\ Behind({"build_dynaspec_simple", "fits2txt", "subtract_images", "cutimages"})
  /\ Ends("saved", made)

-----------------------------------------------------------------------------
ListInit ==
  /\ job \in Jobs /\ turn = 1 /\ made = <<>> /\ end = "running"
  /\ kept = IF job.prog = "running_median" THEN [rms |-> <<>>, index |-> -1] ELSE <<>>

ListNext ==
  \/ GivesUp \/ PassOver \/ TakeImage \/ SaveMedian \/ CalcMedian \/ SaveCube
  \/ FillDynaspec \/ WriteText \/ SubtractReference
  \/ SelectIntegration \/ SaveSelected \/ CutImages \/ RunningMedian \/ SaveRunning \/ Finish

-----------------------------------------------------------------------------
(* The value in the middle of those of f, as often as they are there. *)
IsMiddle(f, v) ==
  LET half == Cardinality(DOMAIN f) \div 2
  IN  /\ Cardinality({k \in DOMAIN f : f[k] < v}) <= half
      /\ half < Cardinality({k \in DOMAIN f : f[k] <= v})

(* The pixels all the images have. *)
InAll(ms) == {p \in Columns(ms[1]) \X Rows(ms[1]) : \A k \in DOMAIN ms : Inside(ms[k], p[1], p[2])}

IsMedianImage(m, ms) ==
  /\ SameSizes(m, ms[1])
  /\ \A p \in InAll(ms) : IsMiddle([k \in DOMAIN ms |-> valXY(ms[k], p[1], p[2])], valXY(m, p[1], p[2]))

IsMeanImage(m, ms) ==
  /\ SameSizes(m, ms[1])
  /\ \A p \in InAll(ms) :
       valXY(m, p[1], p[2]) = Over(SumOver(LAMBDA k : valXY(ms[k], p[1], p[2]), DOMAIN ms), Len(ms))

IsDifference(d, m, ref) ==
  /\ SameSizes(d, m)
  /\ m.x = ref.x => \A p \in InAll(<<m, ref>>) :
       LET less == valXY(ref, p[1], p[2])
       IN  Plus(valXY(d, p[1], p[2]), less) = IF Number(less) THEN valXY(m, p[1], p[2]) ELSE NaN

(* What a line of cutimages asks for: the first column, the one behind the  *)
(* last, and the rows alike.  Without an end inside the image the last one  *)
(* is left out.                                                             *)
Asked(line, m, ask) ==
  LET last(side) == IF line.end \in 1 .. side - 1 THEN line.end ELSE side - 1
  IN  CASE line.cuttype = "rows" -> <<0, m.x, line.start, last(m.y)>>
        [] line.cuttype = "columns" -> <<line.start, last(m.x), 0, m.y>>
        [] OTHER -> <<line.start, line.end, ask.gStartY, ask.gEndY>>

IsPart(c, m, w) ==
  /\ c.x = w[2] - w[1] /\ c.y = w[4] - w[3]
  /\ \A x \in Columns(c), y \in Rows(c) : valXY(c, x, y) = valXY(m, x + w[1], y + w[3])

(* The last file of a second, time step and channels is the one its pixel   *)
(* is of; no other file is at that pixel, as long as the numbers of the     *)
(* names are in their ranges.                                               *)
FilledBy(names) ==
  LET first == names[1]
      inside == {k \in DOMAIN names : /\ names[k] # Unparsed
                                       /\ names[k].ux - first.ux \in 0 .. 9 /\ names[k].cc \in 109 .. 132
                                       /\ names[k].timestep \in 0 .. 49 /\ names[k].finech \in 0 .. 31}
  IN  \A k \in inside :
        /\ \A j \in inside : DynaPixel(names[j], first) = DynaPixel(names[k], first) => names[j] = names[k]
        /\ DynaPixel(names[k], first) \in DOMAIN made
        /\ (\A j \in inside : names[j] = names[k] => j <= k) =>
             made[DynaPixel(names[k], first)] = valXY(job.list[k].image, job.ask.x, job.ask.y)

(* A running median is of the neighbours without the value; as long as all  *)
(* the spreads since the start are in the ring, the running spread is their *)
(* median.                                                                  *)
IsRunning(k) ==
  LET near == {j \in DOMAIN job.list : Magnitude(j - k) <= job.ask.half} \ (IF job.ask.central THEN {} ELSE {k})
  IN  /\ near # {} => IsMiddle([j \in near |-> job.list[j]], made[k].z)
      /\ near # {} /\ k <= job.ask.count => IsMiddle([j \in 1 .. k |-> made[j].err], made[k].v)

(* A list that is gone through to its end gives what it promises of all its *)
(* entries, in their order, and of nothing else: no entry is lost, taken    *)
(* twice or out of the memory of another one, wherever every image has the  *)
(* pixel, though images of any size may be on the list; of cuts with one    *)
(* name the last is there; a program that gives up has saved nothing it     *)
(* needs all of them for.                                                   *)
Listed ==
  LET ms == [k \in DOMAIN job.list |-> job.list[k].image]
      entries == DOMAIN job.list
  IN  /\ job.prog = "running_median" /\ job.ask.direction = 0 /\ end = "running" => \A k \in DOMAIN made : IsRunning(k)
      /\ end = "failed" /\ job.prog \in {"median_fits_images", "images2cube", "CalcMedian"} => made = <<>>
      /\ end = "saved" =>
           CASE job.prog = "median_fits_images" -> IsMedianImage(made[1], ms)
             [] job.prog = "CalcMedian" ->
                  IF job.ask.average THEN IsMeanImage(made[1], ms) ELSE IsMedianImage(made[1], ms)
             [] job.prog = "images2cube" -> made = ms
             [] job.prog = "build_dynaspec_simple" -> FilledBy([k \in entries |-> job.list[k].name])
             [] job.prog = "fits2txt" ->
                  LET present == SelectSeq(ms, LAMBDA m : m # Missing)
                      size == ms[1].x * ms[1].y
                  IN  \A k \in DOMAIN present : \A p \in DOMAIN present[k].data :
                        p < size => made[((k - 1) * size) + p + 1] = present[k].data[p]
             [] job.prog = "subtract_images" ->
                  \A k \in entries : IsDifference(made[k], ms[k], job.ask.image)
             [] job.prog = "select_integrations" ->
                  LET m == job.ask.image
                      good == {y \in Rows(m) : AtLeast(TotalPower(m, y, 0, m.x - 1), job.ask.threshold)}
                  IN  good # {} =>
                        /\ Len(made) = Cardinality(good)
                        /\ \A y \in good : made[Cardinality({r \in good : r <= y})] = get_line(m, y)
             [] job.prog = "cutimages" ->
                  \A k \in entries : (\A j \in entries : CutName(job.list[j]) = CutName(job.list[k]) => j <= k) =>
                    IsPart(made[CutName(job.list[k])], job.ask.image, Asked(job.list[k], job.ask.image, job.ask))
             [] OTHER -> TRUE
=============================================================================
