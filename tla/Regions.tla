------------------------------- MODULE Regions -------------------------------
(***************************************************************************)
(* Parts of a frame: the areas it is divided into (InfoTable2D), rows,     *)
(* columns, windows and defects read from files, the bits kept for pixels  *)
(* (CPixelList), the neighbours of pixels (CDescTab2D).  A file is the     *)
(* sequence of its lines, a line what its words say.                       *)
(***************************************************************************)
EXTENDS Integers, SequencesExt, TLC

CONSTANTS
  Divisions,     (* [x, y, dx, dy, px, border] asked of a table of areas     *)
  ListFiles,     (* files of rows and columns, of windows                    *)
  DefectFiles,   (* files of defects                                         *)
  ListSize,      (* pixels of the list of bits                               *)
  RegionCalls    (* bound: calls, by what they are made on                   *)

(* Nothing is divided into no parts or by no pixels; words that are read as *)
(* numbers are integers.                                                    *)
ASSUME RegionsAssumption ==
  /\ \A d \in Divisions :
       /\ d.x \in Nat /\ d.y \in Nat /\ d.dx \in Nat \ {0} /\ d.dy \in Nat \ {0}
       /\ d.border \in Int /\ d.px \in BOOLEAN
  /\ \A f \in ListFiles \cup DefectFiles : f \in Seq([word : STRING, nums : Seq(Int)])
  /\ ListSize \in Nat \ {0}

VARIABLES areas, lists, defects, bits, past, left

regionVars == <<areas, lists, defects, bits, past, left>>

-----------------------------------------------------------------------------
(* Areas of a frame. *)
NoMap == <<>>
NoAreas == [x |-> 0, y |-> 0, dx |-> 0, dy |-> 0, nx |-> 0, ny |-> 0, border |-> 0, map |-> NoMap, wrecked |-> FALSE]

(* Mutant: the step is cut when the sides do not divide. *)
MeasuredShort(size, n) == [n |-> n, d |-> size \div n]

(* How many areas there are along a side, and how long, from either.        *)
Counted(size, step) == [n |-> size \div step + (IF size % step # 0 THEN 1 ELSE 0), d |-> step]
Measured(size, n) == [n |-> n, d |-> (size \div n) + (IF (size \div n) * n < size THEN 1 ELSE 0)]

Divided(inPixels, size, by) == IF inPixels THEN Counted(size, by) ELSE Measured(size, by)

(* One area's ends along a side; the border comes off the first and last.   *)
Ends(size, side, i, border) ==
  [from |-> i * side.d + (IF i = 0 THEN border ELSE 0),
   to |-> (IF (i + 1) * side.d > size THEN size ELSE (i + 1) * side.d) - (IF i = side.n - 1 THEN border ELSE 0)]

Init2DMap(t, border) ==
  [t EXCEPT !.border = border,
            !.map = [j \in 0 .. t.ny - 1 |-> [i \in 0 .. t.nx - 1 |->
              LET ex == Ends(t.x, [n |-> t.nx, d |-> t.dx], i, border)
                  ey == Ends(t.y, [n |-> t.ny, d |-> t.dy], j, border)
              IN  [x0 |-> ex.from, y0 |-> ey.from, x1 |-> ex.to, y1 |-> ey.to]]]]

(* Frees as many rows as there are said to be. *)
ClearAreas(t) ==
  IF t.map = NoMap THEN t
  ELSE [t EXCEPT !.map = NoMap, !.wrecked = @ \/ DOMAIN t.map # 0 .. t.ny - 1]

Sized(t, d) ==
  LET sx == Divided(d.px, d.x, d.dx)  sy == Divided(d.px, d.y, d.dy)
  IN  [t EXCEPT !.x = d.x, !.y = d.y, !.dx = sx.d, !.dy = sy.d, !.nx = sx.n, !.ny = sy.n]

(* The number of rows is already the new one when the old ones are freed.   *)
InitAreas(t, d) == Init2DMap(ClearAreas(Sized(t, d)), d.border)

InitConstructorAreas(t, d) == Init2DMap([Sized(t, d) EXCEPT !.map = NoMap], d.border)

GetElem(t, i, j) == t.map[j][i]
GetAreaDescPos(t, x, y) == <<x \div t.dx, y \div t.dy>>
GetAreaDesc(t, x, y) == LET p == GetAreaDescPos(t, x, y) IN GetElem(t, p[1], p[2])

-----------------------------------------------------------------------------
(* Rows and columns, each once; negative numbers and unknown words are left *)
(* out.                                                                     *)
GetType(word) == IF word = "ROW" THEN "eCCDRow" ELSE IF word = "COLUMN" THEN "eCCDCol" ELSE "eCCDUnknownType"

(* Mutant: what is there is added again. *)
AddAlways(list, type, num) == Append(list, [type |-> type, num |-> num])

FindRowCol(list, type, num) == \E i \in DOMAIN list : list[i] = [type |-> type, num |-> num]

AddUnique(list, type, num) ==
  IF FindRowCol(list, type, num) THEN list ELSE Append(list, [type |-> type, num |-> num])

(* A line's numbers, and the lines of a file, one after the other. *)
AddNumbers(list, type, nums) ==
  LET added[n \in 0 .. Len(nums)] ==
        IF n = 0 THEN list ELSE IF nums[n] >= 0 THEN AddUnique(added[n - 1], type, nums[n]) ELSE added[n - 1]
  IN  added[Len(nums)]

ReadRowCols(file) ==
  LET read[n \in 0 .. Len(file)] ==
        IF n = 0 THEN <<>>
        ELSE IF file[n].word = "#" \/ GetType(file[n].word) = "eCCDUnknownType" THEN read[n - 1]
        ELSE AddNumbers(read[n - 1], GetType(file[n].word), file[n].nums)
  IN  read[Len(file)]

(* Windows are lines of four numbers or more. *)
ReadWindows(file) ==
  LET wins == SelectSeq(file, LAMBDA l : l.word # "#" /\ Len(l.nums) >= 4)
  IN  [i \in DOMAIN wins |-> LET n == wins[i].nums IN [x0 |-> n[1], y0 |-> n[2], x1 |-> n[3], y1 |-> n[4]]]

AddWindow(list, x0, y0, x1, y1) == Append(list, [x0 |-> x0, y0 |-> y0, x1 |-> x1, y1 |-> y1])

-----------------------------------------------------------------------------
(* Defects: pixels, rectangles and circles, by the number of words of the   *)
(* line.  Of a circle the type is not set, of the others no radius is; any  *)
(* may be there.                                                            *)
DefectTypes == 0 .. 2    (* eCCDDefectSinglePixel, eCCDDefectRectangle, eCCDDefectCircle *)
Junk == DefectTypes \cup {7}

DefectOf(n, dx, dy, junk) ==
  CASE Len(n) >= 4 -> [x |-> n[1] + dx, y |-> n[2] + dy, dx |-> n[3], dy |-> n[4], r |-> junk,
                       type |-> IF Len(n) >= 5 THEN n[5] ELSE 1]
    [] Len(n) = 3 -> [x |-> n[1] + dx, y |-> n[2] + dy, dx |-> n[3], dy |-> n[3], r |-> n[3], type |-> junk]
    [] OTHER -> [x |-> n[1] + dx, y |-> n[2] + dy, dx |-> 0, dy |-> 0, r |-> junk, type |-> 0]

(* A line with less than two words takes what is not there.  A defect is   *)
(* listed by the number of its line.                                        *)
ReadDefects(file, dx, dy, junk) ==
  LET read == {i \in DOMAIN file : file[i].word # "#"}
  IN  IF \E i \in read : Len(file[i].nums) < 2 THEN [bad |-> TRUE, list |-> <<>>]
      ELSE [bad |-> FALSE, list |-> [i \in read |-> DefectOf(file[i].nums, dx, dy, junk)]]

Off(a, b) == IF a > b THEN a - b ELSE b - a

DefectIsOK(d, x, y) ==
  CASE d.type = 0 -> ~(Off(x, d.x) <= 1 /\ Off(y, d.y) <= 1)
    [] d.type = 1 -> ~(x >= d.x /\ x <= d.x + d.dx /\ y >= d.y /\ y <= d.y + d.dy)
    [] d.type = 2 -> ~((x - d.x) * (x - d.x) + (y - d.y) * (y - d.y) <= d.r * d.r)
    [] OTHER -> TRUE

DefectIsBAD(d, x, y) == ~DefectIsOK(d, x, y)
DefectIsBadPixel(d, x, y, radius) == d.type = 0 /\ Off(x, d.x) <= radius /\ Off(y, d.y) <= radius

IsBAD(list, x, y) == \E i \in DOMAIN list : DefectIsBAD(list[i], x, y)
IsBadPixel(list, x, y, radius) == \E i \in DOMAIN list : DefectIsBadPixel(list[i], x, y, radius)

-----------------------------------------------------------------------------
(* Bits of pixels, eight to a cell, with a cell to spare. *)
NewPixelList(n) == [i \in 0 .. n \div 8 |-> {}]
CellOf(pos) == pos \div 8
BitOf(pos) == pos - 8 * CellOf(pos)
Fits(list, pos) == CellOf(pos) \in DOMAIN list

CheckPixel(list, pos) == BitOf(pos) \in list[CellOf(pos)]
HitPixel(list, pos) == [list EXCEPT ![CellOf(pos)] = @ \cup {BitOf(pos)}]
ClearPixel(list, pos) == [list EXCEPT ![CellOf(pos)] = @ \ {BitOf(pos)}]

(* Whole cells are cleared, up to the first that is not there. *)
ClearPart(list, toClear) ==
  LET reached == {i \in DOMAIN toClear : \A j \in 1 .. i : Fits(list, toClear[j])}
  IN  [list |-> [c \in DOMAIN list |-> IF \E i \in reached : CellOf(toClear[i]) = c THEN {} ELSE list[c]],
       thrown |-> reached # DOMAIN toClear]

(* Neighbours of a pixel, itself among them, in the order of positions.     *)
GetDesc(w, h, pos) ==
  LET x == pos % w  y == pos \div w
  IN  (IF y > 0 THEN <<pos - w>> ELSE <<>>) \o (IF x > 0 THEN <<pos - 1>> ELSE <<>>) \o <<pos>>
        \o (IF x < w - 1 THEN <<pos + 1>> ELSE <<>>) \o (IF y < h - 1 THEN <<pos + w>> ELSE <<>>)

-----------------------------------------------------------------------------
On(what) == ~areas.wrecked /\ left[what] > 0 /\ left' = [left EXCEPT ![what] = @ - 1]

InitTable == \E d \in Divisions :
  On("areas") /\ areas' = InitAreas(areas, d) /\ UNCHANGED <<lists, defects, bits, past>>
ConstructTable == \E d \in Divisions :
  On("areas") /\ areas' = InitConstructorAreas(areas, d) /\ UNCHANGED <<lists, defects, bits, past>>
ClearTable == On("areas") /\ areas' = ClearAreas(areas) /\ UNCHANGED <<lists, defects, bits, past>>

ReadList == \E f \in ListFiles :
  /\ On("lists") /\ UNCHANGED <<areas, defects, bits, past>>
  /\ \/ lists' = [lists EXCEPT !.rowcols = ReadRowCols(f)]
     \/ lists' = [lists EXCEPT !.windows = ReadWindows(f)]
AddToList == \E n \in {0, 2} :
  /\ On("lists") /\ UNCHANGED <<areas, defects, bits, past>>
  /\ \/ lists' = [lists EXCEPT !.rowcols = AddUnique(@, "eCCDRow", n)]
     \/ lists' = [lists EXCEPT !.windows = AddWindow(@, 0, 0, n, n)]

ReadDefectList == \E f \in DefectFiles, dx \in {0, 3}, junk \in Junk :
  LET r == ReadDefects(f, dx, 0, junk)
  IN  /\ On("defects") /\ ~r.bad /\ defects' = r.list
      /\ past' = [past EXCEPT !.file = f, !.dx = dx] /\ UNCHANGED <<areas, lists, bits>>

Positions == 0 .. ListSize - 1
Hit == \E pos \in Positions :
  /\ On("bits") /\ bits' = HitPixel(bits, pos) /\ past' = [past EXCEPT !.hit = @ \cup {pos}]
  /\ UNCHANGED <<areas, lists, defects>>
Unhit == \E pos \in Positions :
  /\ On("bits") /\ bits' = ClearPixel(bits, pos) /\ past' = [past EXCEPT !.hit = @ \ {pos}]
  /\ UNCHANGED <<areas, lists, defects>>
PartsToClear == {<< 0 >>, <<ListSize - 1, 0>>, <<ListSize + 8, 0>>}
Unhitting(toClear) ==
  IF toClear[1] > ListSize THEN {} ELSE {p \in Positions : \E i \in DOMAIN toClear : CellOf(p) = CellOf(toClear[i])}
UnhitPart == \E toClear \in PartsToClear :
  /\ On("bits") /\ bits' = ClearPart(bits, toClear).list /\ past' = [past EXCEPT !.hit = @ \ Unhitting(toClear)]
  /\ UNCHANGED <<areas, lists, defects>>

NoLists == [rowcols |-> <<>>, windows |-> <<>>]
NoPast == [file |-> <<>>, dx |-> 0, hit |-> {}]

RegionInit ==
  /\ areas = NoAreas /\ lists = NoLists /\ defects = <<>>
  /\ bits = NewPixelList(ListSize) /\ past = NoPast
  /\ \E what \in DOMAIN RegionCalls : left = [w \in DOMAIN RegionCalls |-> IF w = what THEN RegionCalls[w] ELSE 0]

RegionNext ==
  \/ InitTable \/ ConstructTable \/ ClearTable \/ ReadList \/ AddToList \/ ReadDefectList
  \/ Hit \/ Unhit \/ UnhitPart

RegionSpec == RegionInit /\ [][RegionNext]_regionVars

-----------------------------------------------------------------------------
(* The areas do not overlap, what is found for a pixel is the area it lies  *)
(* in, and a pixel further than the border from every edge lies in one,     *)
(* whichever way the frame was divided.  A border wider than an area takes  *)
(* from the first and last alone.                                           *)
Holds2(a, x, y) == x >= a.x0 /\ x < a.x1 /\ y >= a.y0 /\ y < a.y1

Tiles ==
  ~areas.wrecked /\ areas.map # NoMap =>
    \A x \in 0 .. areas.x - 1, y \in 0 .. areas.y - 1 :
      LET in == {p \in (0 .. areas.nx - 1) \X (0 .. areas.ny - 1) : Holds2(GetElem(areas, p[1], p[2]), x, y)}
          b == areas.border
      IN  /\ in \subseteq {GetAreaDescPos(areas, x, y)}
          /\ x >= b /\ y >= b /\ x < areas.x - b /\ y < areas.y - b =>
               in # {} /\ Holds2(GetAreaDesc(areas, x, y), x, y)

(* What a list says of a pixel is what the file says: a row or column is    *)
(* there once however often the files name it, a defect that has its type   *)
(* covers the pixels of its shape where the shift has moved it, and a bit   *)
(* is set for the pixels hit since they were cleared.  Neighbours are       *)
(* mutual.                                                                  *)
Shape(n) ==
  CASE Len(n) = 2 -> {<<n[1] + i, n[2] + j>> : i, j \in -1 .. 1}
    [] Len(n) = 4 -> {<<n[1] + i, n[2] + j>> : i \in 0 .. n[3], j \in 0 .. n[4]}
    [] OTHER -> {}

Mutual ==
  \A p, q \in 0 .. 5 :
    (\E i \in 1 .. Len(GetDesc(3, 2, p)) : GetDesc(3, 2, p)[i] = q)
      <=> Off(p % 3, q % 3) + Off(p \div 3, q \div 3) <= 1

Known ==
  /\ \A i, j \in DOMAIN lists.rowcols : lists.rowcols[i] = lists.rowcols[j] => i = j
  /\ \A p \in Positions : CheckPixel(bits, p) <=> p \in past.hit
  /\ past.file # <<>> =>
       LET read == {i \in DOMAIN past.file : past.file[i].word # "#"}
           shaped == \A i \in read : Len(past.file[i].nums) \in {2, 4}
       IN  \A x, y \in -1 .. 8 :
             /\ shaped => (IsBAD(defects, x, y) <=> \E i \in read : <<x - past.dx, y>> \in Shape(past.file[i].nums))
             /\ IsBadPixel(defects, x, y, 1) => IsBAD(defects, x, y)
  /\ Mutual

(* Every pixel is found where it belongs: in its area, and in the lists the *)
(* files put it on.                                                         *)
Placed == Tiles /\ Known
=============================================================================
