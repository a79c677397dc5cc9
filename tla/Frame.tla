-------------------------------- MODULE Frame --------------------------------
(***************************************************************************)
(* Table2D: frames of pixels, and the memory they are kept in.  A frame    *)
(* either allocates its pixels itself or draws on a buffer of somebody     *)
(* else, and finds its rows by an index it keeps beside them.              *)
(*                                                                         *)
(* mem.heap is the memory for pixels, by blocks; mem.tab the frames        *)
(* themselves.  A step that touches memory that is not there wrecks the    *)
(* program: nothing is said of what it does then.                          *)
(***************************************************************************)
EXTENDS Laplace

CONSTANTS
  Starts,       (* memory to start from, with the calls that may follow      *)
  Sides,        (* widths and heights asked for                              *)
  Values,       (* values and shifts                                         *)
  Filters       (* types of laplace                                          *)

VARIABLES mem, called, ret, life, draws

frameVars == <<mem, called, ret, life, draws>>

Frames == {"f", "g"}
Null == 0
Blocks == 1 .. 4
Buffer == 4     (* of a driver: never allocated or freed by a frame *)

Gone == [live |-> FALSE, n |-> 0, cells |-> <<>>]
Block(cells, n) == [live |-> TRUE, n |-> n, cells |-> cells]
Zeros(n) == Block([i \in 0 .. n - 1 |-> 0], n)

NoRows == [of |-> Null, w |-> 0, n |-> 0]

-----------------------------------------------------------------------------
(* Memory. *)
Live(m, b) == b # Null /\ m.heap[b].live

Wreck(m) == [m EXCEPT !.wrecked = TRUE]

Delete(m, b) ==
  IF b = Null THEN m ELSE IF Live(m, b) THEN [m EXCEPT !.heap[b] = Gone] ELSE Wreck(m)

Fresh(m) == Min({b \in Blocks : ~m.heap[b].live /\ \A f \in Frames : b \notin {m.tab[f].data, m.tab[f].rows.of}})

Area(t) == t.x * t.y
HasPixels(t) == t.x > 0 /\ t.y > 0
Grid(t) == (0 .. t.x - 1) \X (0 .. t.y - 1)

(* The first n of the cells of b, for a loop that runs n times. *)
Holds(m, b, n) == n > 0 => Live(m, b) /\ n <= m.heap[b].n

(* All pixels of f can be reached by its data, by its index of rows. *)
ByData(m, f) == Holds(m, m.tab[f].data, Area(m.tab[f]))
ByRows(m, f) ==
  LET t == m.tab[f]
  IN  HasPixels(t) => /\ Live(m, t.rows.of) /\ t.y <= t.rows.n
                      /\ (t.y - 1) * t.rows.w + t.x <= m.heap[t.rows.of].n

At(m, f, i) == m.heap[m.tab[f].data].cells[i]
Pixel(m, f, x, y) == LET r == m.tab[f].rows IN m.heap[r.of].cells[y * r.w + x]
AllPixels(m, f) ==
  LET t == m.tab[f]  cells == m.heap[t.rows.of].cells
  IN  [p \in Grid(t) |-> cells[p[2] * t.rows.w + p[1]]]

(* Every pixel of f is given at(its position), at(its column and row). *)
Lay(m, f, at(_)) ==
  LET t == m.tab[f]
  IN  IF Area(t) <= 0 THEN m
      ELSE IF ~ByData(m, f) THEN Wreck(m)
      ELSE [m EXCEPT !.heap[t.data].cells = [i \in DOMAIN @ |-> IF i < Area(t) THEN at(i) ELSE @[i]]]

LayRows(m, f, at(_, _)) ==
  LET t == m.tab[f]  w == t.rows.w
  IN  IF ~HasPixels(t) THEN m
      ELSE IF ~ByRows(m, f) THEN Wreck(m)
      ELSE [m EXCEPT !.heap[t.rows.of].cells =
              [i \in DOMAIN @ |-> IF i % w < t.x /\ i \div w < t.y THEN at(i % w, i \div w) ELSE @[i]]]

-----------------------------------------------------------------------------
(* Life of a frame. *)
NoFrame == [made |-> FALSE, own |-> FALSE, x |-> 0, y |-> 0, data |-> Null, rows |-> NoRows,
            max |-> <<0, 0, 0>>, prev |-> <<0, 0>>, total |-> <<0, 0>>]

New(own) == [NoFrame EXCEPT !.made = TRUE, !.own = own]

ReCreateIndex(m, f) ==
  LET t == m.tab[f] IN [m EXCEPT !.tab[f].rows = [of |-> t.data, w |-> t.x, n |-> t.y]]

Zero(m, f) == IF m.tab[f].own /\ m.tab[f].data # Null THEN Lay(m, f, LAMBDA i : 0) ELSE m

Resized(m, f, x, y) == [m EXCEPT !.tab[f].rows = NoRows, !.tab[f].x = x, !.tab[f].y = y]

Alloc(m, f, x, y) ==
  LET t == m.tab[f]
      m1 == Resized(IF t.own THEN Delete(m, t.data) ELSE m, f, x, y)
      b == Fresh(m1)
      m2 == [m1 EXCEPT !.heap[b] = Zeros(x * y), !.tab[f].data = b]
  IN  IF t.x = x /\ t.y = y THEN m
      ELSE IF x > 0 /\ y > 0 /\ t.own /\ ~m1.wrecked THEN ReCreateIndex(m2, f) ELSE m1

(* Mutant: a larger frame keeps its block as well. *)
ReSizeInPlace(m, f, x, y) ==
  IF m.tab[f].own /\ x > 0 /\ y > 0 THEN ReCreateIndex(Resized(m, f, x, y), f) ELSE Resized(m, f, x, y)

ReSize(m, f, x, y) ==
  LET t == m.tab[f]  m1 == Resized(m, f, x, y)
  IN  IF t.x = x /\ t.y = y THEN m
      ELSE IF x * y > Area(t) THEN Alloc(m, f, x, y)
      ELSE IF x > 0 /\ y > 0 /\ t.own THEN Zero(ReCreateIndex(m1, f), f) ELSE m1

(* What Alloc and ReSize return: sizes that were there already are right.   *)
Allocated(m, m2, f, x, y) ==
  \/ m.tab[f].x = x /\ m.tab[f].y = y
  \/ x > 0 /\ y > 0 /\ m2.tab[f].data # Null

SetDataPtr(m, f, b) == ReCreateIndex([m EXCEPT !.tab[f].data = b], f)

Construct(m, f, x, y, own) ==
  LET m1 == [m EXCEPT !.tab[f] = New(own)]
      m2 == IF own THEN Alloc(m1, f, x, y) ELSE m1
  IN  [m2 EXCEPT !.tab[f].x = x, !.tab[f].y = y]

InitConstructor(m, f, x, y, own) ==
  LET m1 == [m EXCEPT !.tab[f].own = own]
      m2 == IF own THEN Alloc(m1, f, x, y) ELSE m1
  IN  [m2 EXCEPT !.tab[f].x = x, !.tab[f].y = y]

Assign(m, f, g) ==
  LET r == m.tab[g]
      m1 == IF m.tab[f].x # r.x \/ m.tab[f].y # r.y THEN Alloc(m, f, r.x, r.y) ELSE m
      t == m1.tab[f]
  IN  IF t.data = m1.tab[g].data \/ m1.wrecked THEN m1
      ELSE IF ~t.own THEN SetDataPtr(m1, f, m1.tab[g].data)
      ELSE IF ByData(m1, g) THEN Lay(m1, f, LAMBDA i : At(m1, g, i)) ELSE Wreck(m1)

Equal(m, f, g) == [Assign(m, f, g) EXCEPT !.tab[f].max = m.tab[g].max]

(* The copy's own flag is what happened to be in its place. *)
Copied(m, f, g, own) == Equal([m EXCEPT !.tab[f] = New(own)], f, g)

Destroy(m, f) ==
  LET t == m.tab[f] IN [(IF t.own THEN Delete(m, t.data) ELSE m) EXCEPT !.tab[f] = NoFrame]

-----------------------------------------------------------------------------
(* Operations on pixels. *)
Larger(a, b) == IF a >= b THEN a ELSE b
Smaller(a, b) == IF a < b THEN a ELSE b

(* p is passed before q by a loop over rows. *)
Before(p, q) == p[2] < q[2] \/ (p[2] = q[2] /\ p[1] < q[1])

(* The first of the highest pixels of a window, by rows. *)
GetMaxValueAndPos(m, f, x0, y0, x1, y1) ==
  LET t == m.tab[f]
      at(p) == Pixel(m, f, p[1], p[2])
      seen == {p \in Grid(t) : x0 <= p[1] /\ p[1] < x1 /\ y0 <= p[2] /\ p[2] < y1}
      max == Max({at(p) : p \in seen} \cup {-10000})
      high == {p \in seen : at(p) = max}
      first == CHOOSE p \in high : \A q \in high \ {p} : Before(p, q)
  IN  IF max = -10000 THEN <<max, t.max[2], t.max[3]>> ELSE <<max, first[1], first[2]>>

CalcMaxAndPos(m, f) ==
  LET t == m.tab[f]
  IN  IF m.wrecked \/ ~ByRows(m, f) THEN Wreck(m)
      ELSE [m EXCEPT !.tab[f].max = GetMaxValueAndPos(m, f, 0, 0, t.x, t.y)]

SetData(m, f, v) == IF m.tab[f].data = Null THEN m ELSE Lay(m, f, LAMBDA i : v)

copy(m, f, src) ==
  IF ~Holds(m, src, Area(m.tab[f])) THEN Wreck(m)
  ELSE Lay(m, f, LAMBDA i : m.heap[src].cells[i])

SubtractConst(m, f, v, zero) ==
  CalcMaxAndPos(Lay(m, f, LAMBDA i : LET d == At(m, f, i) - v IN IF d < 0 /\ zero THEN 0 ELSE d), f)

MultiplyByConst(m, f, by) == CalcMaxAndPos(Lay(m, f, LAMBDA i : Trunc(At(m, f, i) * by[1], by[2])), f)

(* The average of the pixels nearer to the border than n; of none, the      *)
(* division fails.                                                          *)
SubtractBacgroundInFrame(m, f, n) ==
  LET t == m.tab[f]
      border == {p \in Grid(t) : p[1] < n \/ p[2] < n \/ p[1] > t.x - 1 - n \/ p[2] > t.y - 1 - n}
      ofRow(y) == MapThenSumSet(LAMBDA p : At(m, f, y * t.x + p[1]), {p \in border : p[2] = y})
      sum == MapThenSumSet(ofRow, 0 .. t.y - 1)
  IN  IF ~ByData(m, f) \/ border = {} THEN Wreck(m)
      ELSE SubtractConst(m, f, Trunc(sum, Cardinality(border)), FALSE)

SubtractFrame(m, f, g) ==
  IF ~Holds(m, m.tab[g].data, Area(m.tab[f])) THEN Wreck(m)
  ELSE Lay(m, f, LAMBDA i : At(m, f, i) - m.heap[m.tab[g].data].cells[i])

(* The right pixel is read again for the comparison: when the result is in  *)
(* the right frame's own block, it is what was just stored.                 *)
Difference(v, u, over, zero) ==
  LET d == v - u IN IF zero /\ v < (IF over THEN d ELSE u) THEN 0 ELSE d

Subtract(m, f, g, result, zero) ==
  LET m1 == Alloc(m, result, m.tab[f].x, m.tab[f].y)
      over == m1.tab[result].data = m1.tab[g].data
  IN  IF ~(ByData(m1, f) /\ ByData(m1, g)) THEN Wreck(m1)
      ELSE Lay(m1, result, LAMBDA i : Difference(At(m1, f, i), At(m1, g, i), over, zero))

Product(v, u, norm, most) ==
  LET p == IF u = 0 THEN 0 ELSE Trunc(v * u, IF norm > 0 THEN norm ELSE 1)
  IN  IF p > most THEN most ELSE p

Multiply(m, f, g, result, norm, most) ==
  LET m1 == Alloc(m, result, m.tab[f].x, m.tab[f].y)
  IN  IF ~(ByData(m1, f) /\ ByData(m1, g)) THEN Wreck(m1)
      ELSE Lay(m1, result, LAMBDA i : Product(At(m1, f, i), At(m1, g, i), norm, most))

(* A part of f from x0 and y0 for g: cut at the far side, and begun at the  *)
(* near one without being made shorter.  None of it there, g is not called  *)
(* on or finds no first pixel.                                              *)
CutOf(t, x0, y0, lx, ly) ==
  LET u0 == Larger(x0, 0)  v0 == Larger(y0, 0)
      u1 == u0 + lx - 1    v1 == v0 + ly - 1
  IN  [x |-> u0, y |-> v0, w |-> Smaller(u1, t.x - 1) - u0 + 1, h |-> Smaller(v1, t.y - 1) - v0 + 1,
       none |-> u1 < 0 \/ v1 < 0]

GetImage(m, f, g, x0, y0, lx, ly) ==
  LET c == CutOf(m.tab[f], x0, y0, lx, ly)
      m1 == Alloc(m, g, c.w, c.h)
      t == m1.tab[f]
  IN  IF c.none THEN m
      ELSE IF m1.wrecked \/ c.w <= 0 \/ c.h <= 0 THEN m1
      ELSE IF ~(ByData(m1, f) /\ m1.tab[g].data # Null) THEN Wreck(m1)
      ELSE Lay(m1, g, LAMBDA i : At(m1, f, (c.y + (i \div c.w)) * t.x + c.x + (i % c.w)))

GetImageRet(m, f, x0, y0, lx, ly) ==
  LET c == CutOf(m.tab[f], x0, y0, lx, ly)
  IN  CASE c.none -> "FALSE"
        [] c.w <= 0 \/ c.h <= 0 -> "thrown"
        [] OTHER -> IF c.w = lx /\ c.h = ly THEN "TRUE" ELSE "FALSE"

InFrame(t, x, y) == x \in 0 .. t.x - 1 /\ y \in 0 .. t.y - 1

GetImageWithZeros(m, f, g, x0, y0, lx, ly) ==
  LET m1 == Alloc(m, g, lx, ly)
  IN  IF m1.wrecked \/ ~ByRows(m1, f) THEN Wreck(m1)
      ELSE LayRows(m1, g, LAMBDA x, y : IF InFrame(m1.tab[f], x0 + x, y0 + y)
                                        THEN Pixel(m1, f, x0 + x, y0 + y) ELSE 0)

AllInFrame(t, x0, y0, lx, ly) ==
  \A x \in x0 .. x0 + lx - 1, y \in y0 .. y0 + ly - 1 : InFrame(t, x, y)

(* The distance is compared squared. *)
InRing(x, y, x0, y0, radius, width) ==
  LET d == (x - x0) * (x - x0) + (y - y0) * (y - y0)
  IN  d > radius * radius /\ d <= (radius + width) * (radius + width)

Ring(t, x0, y0, radius, width) ==
  {p \in Grid(t) :
     /\ p[1] \in x0 - radius .. x0 + radius /\ p[2] \in y0 - radius .. y0 + radius
     /\ InRing(p[1], p[2], x0, y0, radius, width)}

MarkStarWithCircle(m, f, x0, y0, radius, width, v) ==
  LET ring == Ring(m.tab[f], x0, y0, radius, width)
  IN  IF ring = {} THEN m
      ELSE LayRows(m, f, LAMBDA x, y : IF <<x, y>> \in ring THEN v ELSE Pixel(m, f, x, y))

(* Shifts are told in halves of a pixel and made by the nearest whole one.  *)
my_round(halves) == IF halves >= 0 THEN (halves + 1) \div 2 ELSE -((1 - halves) \div 2)

(* Pixels are carried one by one, row by row, and from the last row down    *)
(* when they go up: a pixel that a carry before has overwritten is carried  *)
(* as that has left it.                                                     *)
Carried(m, f, dx, dy) ==
  LET t == m.tab[f]
      Earlier(p, q) == IF dy <= 0 THEN Before(p, q) ELSE Before(<<p[1], -p[2]>>, <<q[1], -q[2]>>)
      source(p) == <<p[1] - dx, p[2] - dy>>
      found[p \in Grid(t)] ==
        IF source(p) \in Grid(t) /\ Earlier(source(p), p) THEN found[source(p)] ELSE Pixel(m, f, p[1], p[2])
  IN  LayRows(m, f, LAMBDA x, y : IF source(<<x, y>>) \in Grid(t) THEN found[source(<<x, y>>)]
                                  ELSE Pixel(m, f, x, y))

(* Mutant: the shifts made before are forgotten. *)
SteppedAnew(m, f, dx, dy) == [m EXCEPT !.tab[f].prev = <<dx, dy>>]

Stepped(m, f, dx, dy) == [m EXCEPT !.tab[f].prev = <<@[1] + dx, @[2] + dy>>]

GetTotalShift(counter, dx, dy) == LET n == Larger(counter - 1, 0) IN <<n * dx, n * dy>>

StepOf(t, total) == <<my_round(total[1] - 2 * t.prev[1]), my_round(total[2] - 2 * t.prev[2])>>

(* The step of a shift, by the counter of frames and the drift per frame. *)
ShiftStep(t, counter, dx, dy, useTotal) ==
  IF useTotal THEN StepOf(t, GetTotalShift(counter, dx, dy)) ELSE <<my_round(dx), my_round(dy)>>

ShiftFrame(m, f, counter, dx, dy, useTotal) ==
  LET t == m.tab[f]
      step == ShiftStep(t, counter, dx, dy, useTotal)
      m1 == IF useTotal THEN [m EXCEPT !.tab[f].total = GetTotalShift(counter, dx, dy)] ELSE m
  IN  IF step[1] > 0 THEN m1 ELSE Stepped(Carried(m1, f, step[1], step[2]), f, step[1], step[2])

ShiftFrameWeighted(m, f, dx, dy) ==
  LET t == m.tab[f]
      total == <<t.total[1] + dx, t.total[2] + dy>>
      step == StepOf(t, total)
      m1 == [m EXCEPT !.tab[f].total = total]
  IN  IF step[1] > 0 \/ step[2] > 0 THEN m1
      ELSE Stepped(Carried(m1, f, step[1], step[2]), f, step[1], step[2])

FlipImage(m, f, type) ==
  LET t == m.tab[f]
  IN  CASE type = "eReverseImageHor" ->
             IF ByData(m, f) THEN LayRows(m, f, LAMBDA x, y : Pixel(m, f, t.x - 1 - x, y)) ELSE Wreck(m)
        [] type = "eReverseImageVert" -> LayRows(m, f, LAMBDA x, y : Pixel(m, f, x, t.y - 1 - y))
        [] OTHER -> m

(* The same for a buffer without a frame around it. *)
FlipData(m, f, type) ==
  LET w == m.tab[f].x  h == m.tab[f].y
  IN  CASE type = "eReverseImageHor" -> Lay(m, f, LAMBDA i : At(m, f, (i \div w) * w + w - 1 - (i % w)))
        [] type = "eReverseImageVert" -> Lay(m, f, LAMBDA i : At(m, f, (h - 1 - (i \div w)) * w + (i % w)))
        [] OTHER -> m

ClearBorder(m, f, n) ==
  LET t == m.tab[f]
  IN  LayRows(m, f, LAMBDA x, y : IF x < n \/ y < n \/ x >= t.x - n \/ y >= t.y - n
                                  THEN 0 ELSE Pixel(m, f, x, y))

CutBorderBase(m, f, g, left, up, right, bottom) ==
  LET t == m.tab[f]
      m1 == InitConstructor(m, g, t.x - (left + right), t.y - (bottom + up), TRUE)
  IN  IF m1.wrecked \/ ~ByRows(m1, f) THEN Wreck(m1)
      ELSE LayRows(m1, g, LAMBDA x, y : Pixel(m1, f, x + left, y + bottom))

(* The laplace of f, of the pixels of S, is laid into g. *)
LaidLaplace(m, f, g, S, sum(_)) ==
  IF (S # {} /\ ~ByRows(m, g)) \/ ~(S \subseteq Grid(m.tab[g])) THEN Wreck(m)
  ELSE LayRows(m, g, LAMBDA x, y : IF <<x, y>> \in S THEN sum(<<x, y>>) ELSE Pixel(m, g, x, y))

SumsOf(m, f, S, type) ==
  \A xy \in S : ByRows(m, f) /\ Reaches(xy, type) \subseteq Grid(m.tab[f])

LaplaceWindow(m, f, g, type, S) ==
  IF ~SumsOf(m, f, S, type) THEN Wreck(m)
  ELSE LET p == AllPixels(m, f) IN LaidLaplace(m, f, g, S, LAMBDA xy : CalcLaplaceSum(p, xy, type))

Inner(t, edge) == (edge .. t.x - edge - 1) \X (edge .. t.y - edge - 1)

Laplace(m, f, g, type) ==
  LET t == m.tab[f]
      m1 == Alloc(m, g, t.x, t.y)
      S == Inner(t, 5)
  IN  IF m1.wrecked \/ ~SumsOf(m1, f, S, type) THEN Wreck(m1)
      ELSE LET p == AllPixels(m1, f)
           IN  LaidLaplace(m1, f, g, S, LAMBDA xy : IF type = "eFivePlusFourMin" THEN CalcG54(p, xy)
                                                    ELSE CalcLaplaceSum(p, xy, type))

(* A window's low and high end along one side: what is asked for, if it     *)
(* is inside the edge.                                                      *)
WindowEnds(side, edge, low, high) ==
  LET from == IF low >= edge /\ low >= 0 /\ low <= side - edge THEN low ELSE edge
      to == IF high >= from /\ high >= 0 /\ high <= side - edge THEN high ELSE side - edge
  IN  from .. to - 1

LaplaceOut(m, f, g, type, edge, w) ==
  LET t == m.tab[f]  m1 == Alloc(m, g, t.x, t.y)
  IN  IF m1.wrecked THEN m1
      ELSE LaplaceWindow(m1, f, g, type, WindowEnds(t.x, edge, w[1], w[3]) \X WindowEnds(t.y, edge, w[2], w[4]))

LaplaceSafe(m, f, g, type, S) ==
  IF S # {} /\ ~ByRows(m, f) THEN Wreck(m)
  ELSE LET p == AllPixels(m, f)
       IN  LaidLaplace(m, f, g, S, LAMBDA xy : CalcLaplaceSumEstimateOnEdge(p, xy, GetPlusMinusList(type)))

SameSides(m, f, g) == m.tab[f].x = m.tab[g].x /\ m.tab[f].y = m.tab[g].y

Compare(m, f, g) ==
  IF ~SameSides(m, f, g) THEN "thrown"
  ELSE IF \A i \in 0 .. Area(m.tab[f]) - 1 : At(m, f, i) = At(m, g, i) THEN "TRUE" ELSE "FALSE"

-----------------------------------------------------------------------------
Call(op, f, g, a) == [op |-> op, f |-> f, g |-> g, a |-> a]
Truth(b) == IF b THEN "TRUE" ELSE "FALSE"

Lives(c, m, r) ==
  /\ ~mem.wrecked /\ life > 0 /\ life' = life - 1 /\ UNCHANGED draws
  /\ mem' = m /\ called' = c /\ ret' = IF m.wrecked THEN "none" ELSE r

Draws(c, m, r) ==
  /\ ~mem.wrecked /\ draws > 0 /\ draws' = draws - 1 /\ UNCHANGED life
  /\ mem' = m /\ called' = c /\ ret' = IF m.wrecked THEN "none" ELSE r

Made(f) == mem.tab[f].made

(* A constructor is for memory that holds no frame yet, and InitConstructor *)
(* does the same as it to a frame just made without sizes.                  *)
Unused(f) == LET t == mem.tab[f] IN ~t.own /\ t.data = Null /\ <<t.x, t.y>> = <<0, 0>>

MakeFrame(f) == \E x, y \in Sides, own \in BOOLEAN :
  /\ ~Made(f) /\ Lives(Call("Table2D", f, f, <<x, y, own>>), Construct(mem, f, x, y, own), "none")
MakeEmpty(f) ==
  ~Made(f) /\ Lives(Call("Table2D", f, f, <<0, 0, FALSE>>), [mem EXCEPT !.tab[f] = New(FALSE)], "none")
MakeCopy(f, g) == \E own \in BOOLEAN :
  /\ ~Made(f) /\ Made(g) /\ Lives(Call("copy constructor", f, g, <<own>>), Copied(mem, f, g, own), "none")
Unmake(f) == Made(f) /\ Lives(Call("~Table2D", f, f, <<>>), Destroy(mem, f), "none")
LateInit(f) == \E x, y \in Sides, own \in BOOLEAN :
  /\ Made(f) /\ Unused(f)
  /\ LET m == InitConstructor(mem, f, x, y, own)
     IN  Lives(Call("InitConstructor", f, f, <<x, y, own>>), m,
               Truth(own => Allocated(mem, m, f, x, y)))
Point(f, g) == \E b \in {mem.tab[g].data, Buffer} :
  /\ Made(f) /\ Made(g)
  /\ IF mem.tab[f].own THEN Lives(Call("SetDataPtr", f, g, <<b>>), mem, "thrown")
     ELSE Lives(Call("SetDataPtr", f, g, <<b>>), SetDataPtr(mem, f, b), "none")
Allocate(f) == \E x, y \in Sides :
  LET m == Alloc(mem, f, x, y)
  IN  Made(f) /\ Lives(Call("Alloc", f, f, <<x, y>>), m, Truth(Allocated(mem, m, f, x, y)))
Change(f) == \E x, y \in Sides :
  LET m == ReSize(mem, f, x, y)
  IN  Made(f) /\ Lives(Call("ReSize", f, f, <<x, y>>), m, Truth(Allocated(mem, m, f, x, y)))
Copy(f, g) == Made(f) /\ Made(g) /\ f # g /\ Lives(Call("=", f, g, <<>>), Equal(mem, f, g), "none")

LifeNext == \E f \in Frames :
  \/ MakeFrame(f) \/ MakeEmpty(f) \/ Unmake(f) \/ LateInit(f) \/ Allocate(f) \/ Change(f)
  \/ \E g \in Frames : MakeCopy(f, g) \/ Point(f, g) \/ Copy(f, g)

DrawAlone(f) ==
  \/ \E v \in Values : Draws(Call("SetData", f, f, <<v>>), SetData(mem, f, v), "none")
  \/ \E v \in Values, zero \in BOOLEAN :
       Draws(Call("SubtractConst", f, f, <<v, zero>>), SubtractConst(mem, f, v, zero), "none")
  \/ \E by \in {<<2, 1>>, <<1, 2>>} :
       Draws(Call("MultiplyByConst", f, f, by), MultiplyByConst(mem, f, by), "none")
  \/ \E n \in {0, 1} :
       Draws(Call("SubtractBacgroundInFrame", f, f, <<n>>), SubtractBacgroundInFrame(mem, f, n), "none")
  \/ \E x, y \in Values, r \in {0, 1} :
       Draws(Call("MarkStarWithCircle", f, f, <<x, y, r, 1, 9>>), MarkStarWithCircle(mem, f, x, y, r, 1, 9),
             Truth(Ring(mem.tab[f], x, y, r, 1) # {}))
  \/ \E n \in {1, 3}, dx, dy \in Values, total \in BOOLEAN :
       Draws(Call("ShiftFrame", f, f, <<n, dx, dy, total>>), ShiftFrame(mem, f, n, dx, dy, total),
             IF ShiftStep(mem.tab[f], n, dx, dy, total)[1] > 0 THEN "thrown" ELSE "none")
  \/ \E dx, dy \in Values :
       LET step == StepOf(mem.tab[f], <<mem.tab[f].total[1] + dx, mem.tab[f].total[2] + dy>>)
       IN  Draws(Call("ShiftFrameWeighted", f, f, <<dx, dy>>), ShiftFrameWeighted(mem, f, dx, dy),
                 IF step[1] > 0 \/ step[2] > 0 THEN "thrown" ELSE "none")
  \/ \E type \in {"eReverseImageHor", "eReverseImageVert", "eReverseImageHorVert"} :
       \/ Draws(Call("FlipImage", f, f, <<type>>), FlipImage(mem, f, type), "none")
       \/ Draws(Call("FlipImage", f, f, <<type>>), FlipData(mem, f, type), "none")
  \/ Draws(Call("ClearBorder", f, f, <<1>>), ClearBorder(mem, f, 1), "none")

DrawWith(f, g) ==
  \/ Draws(Call("-=", f, g, <<>>), SubtractFrame(mem, f, g), "none")
  \/ mem.tab[g].data # Null /\ Draws(Call("copy", f, g, <<>>), copy(mem, f, mem.tab[g].data), "none")
  \/ \E result \in Frames, zero \in BOOLEAN :
       IF ~SameSides(mem, f, g)
       THEN Draws(Call("Subtract", f, g, <<result, zero>>), mem, "thrown")
       ELSE Draws(Call("Subtract", f, g, <<result, zero>>), Subtract(mem, f, g, result, zero), "none")
  \/ \E result \in Frames, norm \in {0, 2} :
       IF ~SameSides(mem, f, g)
       THEN Draws(Call("Multiply", f, g, <<result, norm, 4>>), mem, "thrown")
       ELSE Draws(Call("Multiply", f, g, <<result, norm, 4>>), Multiply(mem, f, g, result, norm, 4), "none")
  \/ f # g /\ \E x, y \in Values, lx, ly \in Sides :
       \/ Draws(Call("GetImage", f, g, <<x, y, lx, ly>>), GetImage(mem, f, g, x, y, lx, ly),
                GetImageRet(mem, f, x, y, lx, ly))
       \/ Draws(Call("GetImageWithZeros", f, g, <<x, y, lx, ly>>), GetImageWithZeros(mem, f, g, x, y, lx, ly),
                Truth(AllInFrame(mem.tab[f], x, y, lx, ly)))
  \/ f # g /\ (mem.tab[g].own \/ Unused(g)) /\ \E left, bottom \in {0, 1} :
       Draws(Call("CutBorder", f, g, <<left, 0, 0, bottom>>), CutBorderBase(mem, f, g, left, 0, 0, bottom), "none")
  \/ ByData(mem, f) /\ ByData(mem, g) /\ Draws(Call("Compare", f, g, <<>>), mem, Compare(mem, f, g))
  \/ f # g /\ \E type \in Filters :
       \/ Draws(Call("Laplace", f, g, <<type>>), Laplace(mem, f, g, type), "none")
       \/ \E edge \in {4}, w \in {<<-1, -1, -1, -1>>, <<4, 4, 7, 6>>} :
            Draws(Call("Laplace of a window", f, g, <<type, edge, w>>), LaplaceOut(mem, f, g, type, edge, w), "none")
       \/ LET S == Grid(mem.tab[f])
          IN  Draws(Call("LaplaceSafe", f, g, <<type>>), LaplaceSafe(mem, f, g, type, S), "none")

DrawNext == draws > 0 /\ \E f, g \in Frames : Made(f) /\ Made(g) /\ ((f = g /\ DrawAlone(f)) \/ DrawWith(f, g))

FrameInit ==
  /\ \E s \in Starts : mem = s.mem /\ life = s.life /\ draws = s.draws
  /\ called = Call("none", "f", "f", <<>>) /\ ret = "none"

FrameNext == LifeNext \/ DrawNext

FrameSpec == FrameInit /\ [][FrameNext]_frameVars

-----------------------------------------------------------------------------
Sound(f) == LET t == mem.tab[f] IN ByData(mem, f) /\ ByRows(mem, f) /\ (HasPixels(t) => t.rows.of = t.data /\ t.rows.w = t.x)

(* A frame that allocates its pixels has all of them, a way to each row and *)
(* no other such frame in its memory, whatever it was resized from and      *)
(* assigned: Alloc, ReSize and the operators keep data, sizes and index     *)
(* together.  A copy is right whatever its flag happened to be.             *)
OwnPixels ==
  ~mem.wrecked => \A f \in Frames :
    Made(f) /\ mem.tab[f].own /\ HasPixels(mem.tab[f]) =>
      /\ Sound(f) /\ mem.tab[f].data # Buffer
      /\ \A g \in Frames \ {f} : Made(g) /\ mem.tab[g].own /\ HasPixels(mem.tab[g]) => mem.tab[g].data # mem.tab[f].data

Picture(f) ==
  LET t == mem.tab[f]
  IN  IF Sound(f) THEN [w |-> t.x, h |-> t.y, at |-> AllPixels(mem, f)] ELSE [w |-> -1, h |-> -1, at |-> <<>>]

Shows == [f \in Frames |->
  LET t == mem.tab[f]
  IN  [own |-> t.own, pic |-> IF mem.wrecked THEN [w |-> -1, h |-> -1, at |-> <<>>] ELSE Picture(f),
       max |-> t.max, moved |-> t.prev, asked |-> t.total]]

Together == mem.tab["f"].data = mem.tab["g"].data /\ mem.tab["f"].data # Null

-----------------------------------------------------------------------------
BlockFields == {"live", "n", "cells"}
FrameFields == {"made", "own", "x", "y", "data", "rows", "max", "prev", "total"}
RowFields == {"of", "w", "n"}

(* What a memory and a frame are made of, whatever is in the cells.  A      *)
(* frame's rows lead into its own data or nowhere.                          *)
IsBlock(b) == DOMAIN b = BlockFields /\ b.live \in BOOLEAN /\ b.n \in Int
IsFrame(t) ==
  /\ DOMAIN t = FrameFields /\ t.made \in BOOLEAN /\ t.own \in BOOLEAN
  /\ t.x \in Int /\ t.y \in Int /\ t.data \in Blocks \cup {Null}
  /\ DOMAIN t.rows = RowFields /\ t.rows.of \in {Null, t.data}
Shaped(m) ==
  /\ DOMAIN m = {"heap", "tab", "wrecked"} /\ m.wrecked \in BOOLEAN
  /\ DOMAIN m.heap = Blocks /\ \A b \in Blocks : IsBlock(m.heap[b])
  /\ DOMAIN m.tab = Frames /\ \A f \in Frames : IsFrame(m.tab[f])

(* No frame is cut short both ways to less than nothing: two negative       *)
(* sides would have an area again, and no pixels.                           *)
NotShortBothWays(t) == t.x >= 0 \/ t.y >= 0

(* A frame that allocates for itself and has sizes has the pixels for them, *)
(* perhaps more, and its rows.                                              *)
HasOwn(m, t) ==
  /\ t.made /\ t.data # Buffer
  /\ HasPixels(t) =>
       /\ Live(m, t.data) /\ Area(t) <= m.heap[t.data].n
       /\ t.rows.of = t.data /\ t.rows.w = t.x /\ t.rows.n = t.y

(* Memory is held by one frame that allocates for itself, and nothing else  *)
(* is held but the driver's buffer.                                         *)
Apart(m) ==
  \A f, g \in Frames : f # g /\ m.tab[f].own /\ m.tab[g].own /\ m.tab[f].data # Null => m.tab[f].data # m.tab[g].data
Held(m) ==
  \A b \in Blocks : m.heap[b].live => b = Buffer \/ \E f \in Frames : m.tab[f].own /\ m.tab[f].data = b

Whole(m) ==
  /\ Shaped(m)
  /\ ~m.wrecked =>
       /\ \A f \in Frames : NotShortBothWays(m.tab[f]) /\ (m.tab[f].own => HasOwn(m, m.tab[f]))
       /\ Apart(m) /\ Held(m) /\ m.heap[Buffer].live

(* Calls begin in a memory that is in order, and ask for sizes that are not  *)
(* less than nothing.                                                       *)
ASSUME FrameAssumption ==
  /\ Sides \subseteq Nat /\ Values \subseteq Int
  /\ \A s \in Starts : Whole(s.mem)
=============================================================================
