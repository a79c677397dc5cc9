------------------------------- MODULE MCFrame -------------------------------
(***************************************************************************)
(* Two frames of Table2D and the memory they share, the statistics of one  *)
(* sky, a histogram, and the lists of parts of a frame: none of them calls *)
(* another while it runs, and each is followed on its own.                 *)
(***************************************************************************)
EXTENDS Frame, FrameStat

CONSTANT NaN

Table(own, x, y, b) ==
  [New(own) EXCEPT !.x = x, !.y = y, !.data = b, !.rows = [of |-> b, w |-> x, n |-> y]]

Filling(n, at(_)) == Block([i \in 0 .. n - 1 |-> at(i)], n)

Memory(heap, f, g) == [heap |-> heap, tab |-> [t \in Frames |-> IF t = "f" THEN f ELSE g], wrecked |-> FALSE]

Driver == Filling(4, LAMBDA i : 7 - i)
Small == Filling(4, LAMBDA i : <<3, -2, 5, 0>>[i + 1])
Wide == Filling(6, LAMBDA i : <<1, 4, -3, 2, 0, 4>>[i + 1])

(* A sky that rises evenly, a flat one, and the first with a star. *)
Sky(i) == 3 * (i % 11) - 2 * (i \div 11) + 5
Slope == Filling(121, Sky)
Flat == Filling(121, LAMBDA i : 6)
Star == Filling(121, LAMBDA i : IF i = 60 THEN 900 ELSE Sky(i))

SomeStarts ==
  {[mem |-> Memory(<<Gone, Gone, Gone, Driver>>, NoFrame, NoFrame), life |-> 3, draws |-> 0]}
  \cup {[mem |-> m, life |-> 1, draws |-> 1] : m \in
    {Memory(<<Small, Wide, Gone, Driver>>, Table(TRUE, 2, 2, 1), Table(TRUE, 3, 2, 2)),
     Memory(<<Small, Gone, Gone, Driver>>, Table(TRUE, 2, 2, 1), Table(FALSE, 2, 2, 4))}}
  \cup {[mem |-> Memory(<<Small, Gone, Gone, Driver>>, Table(TRUE, 2, 2, 1), NoFrame), life |-> 0, draws |-> 2]}
  \cup {[mem |-> Memory(<<b, Gone, Gone, Driver>>, Table(TRUE, 11, 11, 1), New(TRUE)), life |-> 0, draws |-> 1] :
          b \in {Slope, Star}}
  \cup {[mem |-> Memory(<<b, Filling(121, LAMBDA i : 7), Gone, Driver>>, Table(TRUE, 11, 11, 1), Table(TRUE, 11, 11, 2)),
         life |-> 0, draws |-> 1] : b \in {Slope, Flat}}

SomeSides == 0 .. 2
SomeValues == -1 .. 1
SomeFilters == {"eRawS", "eSinglePoint", "eTwoPoints", "eFourPoints", "eFourTwelve", "eFourTwelveFar",
                "eFivePoints", "eFivePlusFourMin", "eFiveEight", "eNineEightFive",
                "eNineEightSevenVeryBig", "eEightFour", "eEightTen"}

-----------------------------------------------------------------------------
(* A sky with stripes, a star and a saturated pixel, and a dark one that    *)
(* falls evenly.                                                            *)
SkyOf(at(_, _)) == [w |-> 10, h |-> 9, at |-> [p \in (0 .. 9) \X (0 .. 8) |-> at(p[1], p[2])]]
SomeSkies ==
  {SkyOf(LAMBDA x, y : CASE x = 5 /\ y = 4 -> 40 [] x = 4 /\ y = 5 -> 55 [] y = 2 -> -3 [] OTHER -> 5 * (x % 3)),
   SkyOf(LAMBDA x, y : 3 * x - 4 * y - 6)}
SomeWindows == {<<0, 0, 10, 9>>, <<1, 0, 5, 4>>, <<-1, -1, -1, -1>>}
SomeTypes == {"eRawS", "eFivePoints"}

SomeRanges == {<<0, 4, 4>>, <<0, 6, 2>>, <<-2, 2, 4>>, <<0, 0, 2>>}

SomeDivisions ==
  {[x |-> 10, y |-> 9, dx |-> 2, dy |-> 1, px |-> FALSE, border |-> 0],
   [x |-> 10, y |-> 9, dx |-> 10, dy |-> 9, px |-> TRUE, border |-> 2],
   [x |-> 5, y |-> 7, dx |-> 2, dy |-> 3, px |-> TRUE, border |-> 1],
   [x |-> 5, y |-> 7, dx |-> 3, dy |-> 4, px |-> FALSE, border |-> 1]}

Line(word, nums) == [word |-> word, nums |-> nums]
SomeListFiles ==
  {<<Line("ROW", <<2, 0, 2>>), Line("#", <<1>>), Line("COLUMN", <<2, -1>>), Line("ROWS", <<3>>)>>,
   <<Line("", <<0, 0, 3, 2>>), Line("#", <<1, 1, 1, 1>>), Line("", <<1, 2>>)>>,
   <<Line("COLUMN", <<3>>)>>}
SomeDefectFiles ==
  {<<Line("", <<2, 3>>), Line("#", <<9>>), Line("", <<1, 1, 2, 1>>)>>,
   <<Line("", <<4, 4, 2>>), Line("", <<0, 0, 1, 1, 2>>)>>,
   <<Line("", <<1>>)>>}
SomeCalls == [areas |-> 3, lists |-> 2, defects |-> 2, bits |-> 3]

-----------------------------------------------------------------------------
IdleFrame == mem = Memory(<<Gone, Gone, Gone, Driver>>, NoFrame, NoFrame) /\ life = 0 /\ draws = 0
               /\ called = Call("none", "f", "f", <<>>) /\ ret = "none"
IdleStat == sky = [w |-> 0, h |-> 0, at |-> <<>>] /\ kept = <<>> /\ answer = NoAnswer /\ asks = 0
IdleHisto == histo = NamedHisto(-1) /\ dumped = NoFile /\ offered = [from |-> NoFile, values |-> <<>>]
               /\ fitted = NoFit /\ calls = 0
IdleRegions ==
  /\ areas = NoAreas /\ lists = NoLists /\ defects = <<>> /\ bits = NewPixelList(ListSize) /\ past = NoPast
  /\ left = [w \in DOMAIN RegionCalls |-> 0]

Init ==
  \/ FrameInit /\ IdleStat /\ IdleHisto /\ IdleRegions
  \/ IdleFrame /\ StatInit /\ IdleHisto /\ IdleRegions
  \/ IdleFrame /\ IdleStat /\ HistoInit /\ IdleRegions
  \/ IdleFrame /\ IdleStat /\ IdleHisto /\ RegionInit

Next ==
  \/ FrameNext /\ UNCHANGED <<statVars, histoVars, regionVars>>
  \/ StatNext /\ UNCHANGED <<frameVars, histoVars, regionVars>>
  \/ HistoNext /\ UNCHANGED <<frameVars, statVars, regionVars>>
  \/ RegionNext /\ UNCHANGED <<frameVars, statVars, histoVars>>

Spec == Init /\ [][Next]_<<frameVars, statVars, histoVars, regionVars>>

-----------------------------------------------------------------------------
P == INSTANCE FramePicture WITH shows <- Shows, together <- Together

(* The frames show what the operations promise (FramePicture). *)
Shown == [][P!Next]_frameVars

(* The pixels a laplace is laid into: of the whole frame when those at the  *)
(* edge are estimated, else of what is off the edges, or of a window.       *)
Looked(c) ==
  LET w == IF c.op = "Laplace of a window" THEN c.a[3] ELSE <<-1, -1, -1, -1>>
  IN  CASE c.op = "LaplaceSafe" -> Grid(mem.tab["f"])
        [] c.op = "Laplace" -> Inner(mem.tab["f"], 5)
        [] OTHER -> IF w[1] < 0 THEN Inner(mem.tab["f"], 4) ELSE (w[1] .. w[3] - 1) \X (w[2] .. w[4] - 1)

(* No laplace sees a flat sky, nor one that rises evenly: not the one that  *)
(* is made for all types, not the one made quick for one of them, not the   *)
(* one that goes to the edge of the frame.  On the edge itself, where pixels*)
(* of a filter are missing, the flat one is not seen.                       *)
BlindToSky ==
  LET sky0 == mem.heap[1].cells  type == called.a[1]
      filtered == called.op \in {"Laplace", "Laplace of a window", "LaplaceSafe"} /\ called.f = "f" /\ ~mem.wrecked
  IN  filtered /\ type # "eRawS" /\ mem.tab["f"].x = 11 /\ sky0 \in {Slope.cells, Flat.cells} =>
        \A p \in Looked(called) :
          sky0 = Flat.cells \/ Reaches(p, type) \subseteq Grid(mem.tab["f"]) => Pixel(mem, "g", p[1], p[2]) = 0
=============================================================================
