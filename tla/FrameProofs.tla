---------------------------- MODULE FrameProofs -----------------------------
(***************************************************************************)
(* Theorems about frames of pixels (Frame), for any memory to start from,  *)
(* any sizes and values and any number of calls; about histograms (Histo), *)
(* for any ranges and values; and about the parts of a frame (Regions),    *)
(* for any divisions and files.                                            *)
(***************************************************************************)
EXTENDS Frame, Histo, Regions, FiniteSetTheorems, WellFoundedInduction, TLAPS

(* m2 is m with other values in the cells and other notes in the frames, or *)
(* nothing is said of it.                                                   *)
SameFrame(t, u) == u.made = t.made /\ u.own = t.own /\ u.x = t.x /\ u.y = t.y /\ u.data = t.data /\ u.rows = t.rows
SameMemory(m, m2) ==
  /\ Shaped(m2)
  /\ m.wrecked => m2.wrecked
  /\ ~m2.wrecked =>
       /\ \A b \in Blocks : m2.heap[b].live = m.heap[b].live /\ m2.heap[b].n = m.heap[b].n
       /\ \A f \in Frames : SameFrame(m.tab[f], m2.tab[f])

Laid(m, b, m2) == m2 = m \/ m2 = Wreck(m) \/ \E c : m2 = [m EXCEPT !.heap[b].cells = c]

(* Writing to the cells of a block disturbs no frame and no block.          *)
LEMMA LaidSame ==
  ASSUME NEW m, NEW b, NEW m2, Shaped(m), Laid(m, b, m2)
  PROVE  SameMemory(m, m2)
<1>1. CASE m2 = m
  BY <1>1 DEF SameMemory, SameFrame
<1>2. CASE m2 = Wreck(m)
  BY <1>2 DEF SameMemory, Wreck, Shaped
<1>3. ASSUME NEW c, m2 = [m EXCEPT !.heap[b].cells = c]
      PROVE  SameMemory(m, m2)
  BY <1>3 DEF SameMemory, Shaped, SameFrame, IsBlock, BlockFields
<1> QED BY <1>1, <1>2, <1>3 DEF Laid

(* What is the same twice is the same.                                      *)
LEMMA SameTransitive ==
  ASSUME NEW m, NEW m1, NEW m2, SameMemory(m, m1), SameMemory(m1, m2), m.wrecked \in BOOLEAN
  PROVE  SameMemory(m, m2)
BY DEF SameMemory, SameFrame, Shaped

(* The notes of a frame are no part of what is the same.                    *)
LEMMA NotesSame ==
  ASSUME NEW m, NEW f \in Frames, NEW v, Shaped(m)
  PROVE  /\ SameMemory(m, [m EXCEPT !.tab[f].max = v])
         /\ SameMemory(m, [m EXCEPT !.tab[f].prev = v])
         /\ SameMemory(m, [m EXCEPT !.tab[f].total = v])
<1>1. SameMemory(m, [m EXCEPT !.tab[f].max = v])
  BY DEF SameMemory, Shaped, SameFrame, IsFrame, FrameFields
<1>2. SameMemory(m, [m EXCEPT !.tab[f].prev = v])
  BY DEF SameMemory, Shaped, SameFrame, IsFrame, FrameFields
<1>3. SameMemory(m, [m EXCEPT !.tab[f].total = v])
  BY DEF SameMemory, Shaped, SameFrame, IsFrame, FrameFields
<1> QED BY <1>1, <1>2, <1>3

(* Finding the maximum only notes it.                                       *)
LEMMA CalcMaxSame ==
  ASSUME NEW m, NEW f \in Frames, Shaped(m)
  PROVE  SameMemory(m, CalcMaxAndPos(m, f))
<1>1. SameMemory(m, Wreck(m))
  BY LaidSame DEF Laid
<1> DEFINE v == GetMaxValueAndPos(m, f, 0, 0, m.tab[f].x, m.tab[f].y)
<1>2. CalcMaxAndPos(m, f) \in {Wreck(m), [m EXCEPT !.tab[f].max = v]}
  BY Zenon DEF CalcMaxAndPos
<1>3. SameMemory(m, [m EXCEPT !.tab[f].max = v])
  BY NotesSame, Zenon
<1> QED BY <1>1, <1>2, <1>3, Zenon

(* The ways to lay pixels, by what they lay. *)
LEMMA Layers ==
  ASSUME NEW m, NEW f \in Frames, Shaped(m)
  PROVE  /\ SameMemory(m, m) /\ SameMemory(m, Wreck(m))
         /\ \A v : SameMemory(m, SetData(m, f, v))
         /\ \A dx, dy : SameMemory(m, Carried(m, f, dx, dy))
         /\ \A type : SameMemory(m, FlipImage(m, f, type)) /\ SameMemory(m, FlipData(m, f, type))
         /\ \A n : SameMemory(m, ClearBorder(m, f, n))
         /\ \A x, y, r, w, v : SameMemory(m, MarkStarWithCircle(m, f, x, y, r, w, v))
         /\ \A g : SameMemory(m, SubtractFrame(m, f, g))
         /\ \A src : SameMemory(m, copy(m, f, src))
<1> USE DEF Laid
<1> DEFINE d == m.tab[f].data
           o == m.tab[f].rows.of
<1>1. SameMemory(m, m) /\ SameMemory(m, Wreck(m))
  BY LaidSame
<1>2. ASSUME NEW v PROVE SameMemory(m, SetData(m, f, v))
  <2>1. Laid(m, d, SetData(m, f, v))
    BY Zenon DEF SetData, Lay
  <2> QED BY <2>1, LaidSame
<1>3. ASSUME NEW dx, NEW dy PROVE SameMemory(m, Carried(m, f, dx, dy))
  <2>1. Laid(m, o, Carried(m, f, dx, dy))
    BY Zenon DEF Carried, LayRows
  <2> QED BY <2>1, LaidSame
<1>4. ASSUME NEW type PROVE SameMemory(m, FlipImage(m, f, type)) /\ SameMemory(m, FlipData(m, f, type))
  <2>1. Laid(m, o, FlipImage(m, f, type))
    BY Zenon DEF FlipImage, LayRows
  <2>2. Laid(m, d, FlipData(m, f, type))
    BY Zenon DEF FlipData, Lay
  <2> QED BY <2>1, <2>2, LaidSame
<1>5. ASSUME NEW n PROVE SameMemory(m, ClearBorder(m, f, n))
  <2>1. Laid(m, o, ClearBorder(m, f, n))
    BY Zenon DEF ClearBorder, LayRows
  <2> QED BY <2>1, LaidSame
<1>6. ASSUME NEW x, NEW y, NEW r, NEW w, NEW v PROVE SameMemory(m, MarkStarWithCircle(m, f, x, y, r, w, v))
  <2>1. Laid(m, o, MarkStarWithCircle(m, f, x, y, r, w, v))
    BY Zenon DEF MarkStarWithCircle, LayRows
  <2> QED BY <2>1, LaidSame
<1>7. ASSUME NEW g PROVE SameMemory(m, SubtractFrame(m, f, g))
  <2>1. Laid(m, d, SubtractFrame(m, f, g))
    BY Zenon DEF SubtractFrame, Lay
  <2> QED BY <2>1, LaidSame
<1>8. ASSUME NEW src PROVE SameMemory(m, copy(m, f, src))
  <2>1. Laid(m, d, copy(m, f, src))
    BY Zenon DEF copy, Lay
  <2> QED BY <2>1, LaidSame
<1> QED BY <1>1, <1>2, <1>3, <1>4, <1>5, <1>6, <1>7, <1>8

(* Operations with a constant or the background write cells and notes.      *)
LEMMA Measuring ==
  ASSUME NEW m, NEW f \in Frames, Shaped(m)
  PROVE  /\ \A v, zero : SameMemory(m, SubtractConst(m, f, v, zero))
         /\ \A by : SameMemory(m, MultiplyByConst(m, f, by))
         /\ \A n : SameMemory(m, SubtractBacgroundInFrame(m, f, n))
<1> USE DEF Laid
<1>0. SameMemory(m, Wreck(m))
  BY LaidSame
<1>1. ASSUME NEW v, NEW zero PROVE SameMemory(m, SubtractConst(m, f, v, zero))
  <2> DEFINE laid == Lay(m, f, LAMBDA i : LET d == At(m, f, i) - v IN IF d < 0 /\ zero THEN 0 ELSE d)
  <2>1. Laid(m, m.tab[f].data, laid)
    BY Zenon DEF Lay
  <2>2. SubtractConst(m, f, v, zero) = CalcMaxAndPos(laid, f)
    BY Zenon DEF SubtractConst
  <2> HIDE DEF laid
  <2>3. SameMemory(m, laid)
    BY <2>1, LaidSame
  <2> QED BY <2>2, <2>3, CalcMaxSame, SameTransitive DEF SameMemory, Shaped
<1>2. ASSUME NEW by PROVE SameMemory(m, MultiplyByConst(m, f, by))
  <2> DEFINE laid == Lay(m, f, LAMBDA i : Trunc(At(m, f, i) * by[1], by[2]))
  <2>1. Laid(m, m.tab[f].data, laid)
    BY Zenon DEF Lay
  <2>2. MultiplyByConst(m, f, by) = CalcMaxAndPos(laid, f)
    BY Zenon DEF MultiplyByConst
  <2> HIDE DEF laid
  <2>3. SameMemory(m, laid)
    BY <2>1, LaidSame
  <2> QED BY <2>2, <2>3, CalcMaxSame, SameTransitive DEF SameMemory, Shaped
<1>3. ASSUME NEW n PROVE SameMemory(m, SubtractBacgroundInFrame(m, f, n))
  <2>1. SubtractBacgroundInFrame(m, f, n) = Wreck(m) \/ \E v : SubtractBacgroundInFrame(m, f, n) = SubtractConst(m, f, v, FALSE)
    BY Zenon DEF SubtractBacgroundInFrame
  <2> QED BY <2>1, <1>0, <1>1
<1> QED BY <1>1, <1>2, <1>3

(* So does shifting the pixels of a frame.                                  *)
LEMMA Shifting ==
  ASSUME NEW m, NEW f \in Frames, Shaped(m)
  PROVE  /\ \A n, dx, dy, total : SameMemory(m, ShiftFrame(m, f, n, dx, dy, total))
         /\ \A dx, dy : SameMemory(m, ShiftFrameWeighted(m, f, dx, dy))
<1>1. ASSUME NEW m1, SameMemory(m, m1), NEW dx, NEW dy
      PROVE  SameMemory(m, Stepped(Carried(m1, f, dx, dy), f, dx, dy))
  <2> DEFINE m2 == Carried(m1, f, dx, dy)
             v == <<m2.tab[f].prev[1] + dx, m2.tab[f].prev[2] + dy>>
             m3 == [m2 EXCEPT !.tab[f].prev = v]
  <2>1. SameMemory(m1, m2)
    BY <1>1, Layers DEF SameMemory
  <2>2. Stepped(m2, f, dx, dy) = m3
    BY Zenon DEF Stepped
  <2>3. SameMemory(m2, m3)
    <3>1. Shaped(m2)
      BY <2>1 DEF SameMemory
    <3> HIDE DEF m2, v
    <3> QED BY <3>1, NotesSame
  <2> HIDE DEF m2, m3
  <2>4. m.wrecked \in BOOLEAN /\ m1.wrecked \in BOOLEAN
    BY <1>1 DEF SameMemory, Shaped
  <2>5. SameMemory(m1, m3)
    BY <2>1, <2>3, <2>4, SameTransitive
  <2>6. SameMemory(m, m3)
    BY <2>5, <2>4, <1>1, SameTransitive
  <2> QED BY <2>2, <2>6 DEF m2
<1>2. SameMemory(m, m)
  BY Layers
<1>3. \A v : SameMemory(m, [m EXCEPT !.tab[f].total = v])
  BY NotesSame
<1>4. ASSUME NEW n, NEW dx, NEW dy, NEW total PROVE SameMemory(m, ShiftFrame(m, f, n, dx, dy, total))
  <2> DEFINE step == ShiftStep(m.tab[f], n, dx, dy, total)
             m1 == IF total THEN [m EXCEPT !.tab[f].total = GetTotalShift(n, dx, dy)] ELSE m
  <2>1. SameMemory(m, m1)
    BY <1>2, <1>3, Zenon
  <2>2. ShiftFrame(m, f, n, dx, dy, total)
          \in {m1, Stepped(Carried(m1, f, step[1], step[2]), f, step[1], step[2])}
    BY Zenon DEF ShiftFrame
  <2> HIDE DEF m1, step
  <2>3. SameMemory(m, Stepped(Carried(m1, f, step[1], step[2]), f, step[1], step[2]))
    BY <2>1, <1>1
  <2> QED BY <2>1, <2>2, <2>3, Zenon
<1>5. ASSUME NEW dx, NEW dy PROVE SameMemory(m, ShiftFrameWeighted(m, f, dx, dy))
  <2> DEFINE total == <<m.tab[f].total[1] + dx, m.tab[f].total[2] + dy>>
             step == StepOf(m.tab[f], total)
             m1 == [m EXCEPT !.tab[f].total = total]
  <2>1. SameMemory(m, m1)
    BY <1>3, Zenon
  <2>2. ShiftFrameWeighted(m, f, dx, dy)
          \in {m1, Stepped(Carried(m1, f, step[1], step[2]), f, step[1], step[2])}
    BY Zenon DEF ShiftFrameWeighted
  <2> HIDE DEF m1, step
  <2>3. SameMemory(m, Stepped(Carried(m1, f, step[1], step[2]), f, step[1], step[2]))
    BY <2>1, <1>1
  <2> QED BY <2>1, <2>2, <2>3, Zenon
<1> QED BY <1>4, <1>5

-----------------------------------------------------------------------------
(* What is the same as a whole memory is whole.                             *)
LEMMA SameWhole ==
  ASSUME NEW m, NEW m2, Whole(m), SameMemory(m, m2)
  PROVE  Whole(m2)
<1>1. CASE m2.wrecked
  BY <1>1 DEF Whole, SameMemory
<1>2. CASE ~m2.wrecked
  <2> DEFINE Alike(f) == SameFrame(m.tab[f], m2.tab[f])
  <2>1. /\ ~m.wrecked /\ Shaped(m2)
        /\ \A b \in Blocks : m2.heap[b].live = m.heap[b].live /\ m2.heap[b].n = m.heap[b].n
        /\ \A f \in Frames : Alike(f)
    BY <1>2 DEF SameMemory, Whole, Shaped
  <2>2. \A f \in Frames : m.tab[f].data \in Blocks \cup {Null}
    BY DEF Whole, Shaped, IsFrame
  <2>3. \A f \in Frames : NotShortBothWays(m2.tab[f]) /\ (m2.tab[f].own => HasOwn(m2, m2.tab[f]))
    BY <2>1, <2>2 DEF Whole, SameFrame, NotShortBothWays, HasOwn, HasPixels, Area, Live
  <2>4. Apart(m2) /\ Held(m2) /\ m2.heap[Buffer].live
    BY <2>1, <2>2 DEF Whole, SameFrame, Apart, Held, Blocks, Buffer
  <2> QED BY <2>1, <2>3, <2>4 DEF Whole
<1> QED BY <1>1, <1>2 DEF SameMemory, Shaped

(* The block that is taken is one of those offered.                         *)
LEMMA FirstBlock ==
  ASSUME NEW S, S \subseteq Blocks, S # {}
  PROVE  Min(S) \in S
<1>1. \E b \in S : \A c \in S : b <= c
  <2>1. CASE 1 \in S
    BY <2>1 DEF Blocks
  <2>2. CASE 1 \notin S /\ 2 \in S
    BY <2>2 DEF Blocks
  <2>3. CASE 1 \notin S /\ 2 \notin S /\ 3 \in S
    BY <2>3 DEF Blocks
  <2>4. CASE S = {4}
    BY <2>4
  <2>5. 1 \in S \/ (1 \notin S /\ 2 \in S) \/ (1 \notin S /\ 2 \notin S /\ 3 \in S) \/ S = {4}
    <3>1. \A c \in S : c = 1 \/ c = 2 \/ c = 3 \/ c = 4
      BY DEF Blocks
    <3> QED BY <3>1
  <2> QED BY <2>1, <2>2, <2>3, <2>4, <2>5
<1> QED BY <1>1 DEF Min

(* There is always a block to allocate: two frames hold two of the three,   *)
(* even if what they hold has gone.                                         *)
LEMMA FreshBlock ==
  ASSUME NEW m, Shaped(m), Held(m)
  PROVE  /\ Fresh(m) \in Blocks /\ ~m.heap[Fresh(m)].live
         /\ \A f \in Frames : Fresh(m) # m.tab[f].data
<1> DEFINE S == {b \in Blocks : ~m.heap[b].live /\ \A f \in Frames : b \notin {m.tab[f].data, m.tab[f].rows.of}}
           F == m.tab["f"].data
           G == m.tab["g"].data
<1>1. \A b \in {1, 2, 3} : b # F /\ b # G => b \in S
  <2>1. \A f \in Frames : m.tab[f].rows.of \in {Null, m.tab[f].data}
    BY DEF Shaped, IsFrame
  <2> QED BY <2>1 DEF Held, Frames, Blocks, Buffer, Null
<1>2. \E b \in {1, 2, 3} : b # F /\ b # G
  OBVIOUS
<1>3. S \subseteq Blocks /\ S # {}
  BY <1>1, <1>2
<1>4. Fresh(m) = Min(S)
  BY Zenon DEF Fresh
<1>5. Min(S) \in S
  BY <1>3, FirstBlock
<1> QED BY <1>4, <1>5, Zenon

(* What delete leaves behind, unless it frees what is not there. *)
LEMMA Deleted ==
  ASSUME NEW m, NEW b \in Blocks \cup {Null}, Shaped(m), ~m.wrecked
  PROVE  /\ Shaped(Delete(m, b)) /\ Delete(m, b).tab = m.tab
         /\ ~Delete(m, b).wrecked =>
              \A c \in Blocks : IF c = b THEN ~Delete(m, b).heap[c].live ELSE Delete(m, b).heap[c] = m.heap[c]
<1>1. CASE b = Null
  BY <1>1 DEF Delete, Blocks, Null
<1>2. CASE b # Null /\ Live(m, b)
  <2> DEFINE d == [m EXCEPT !.heap[b] = Gone]
  <2>1. Delete(m, b) = d
    BY <1>2, Zenon DEF Delete
  <2>2. IsBlock(Gone) /\ ~Gone.live
    BY DEF IsBlock, BlockFields, Gone
  <2>3. b \in Blocks
    BY <1>2
  <2>4. /\ d.tab = m.tab /\ d.wrecked = m.wrecked /\ DOMAIN d = DOMAIN m /\ DOMAIN d.heap = Blocks
        /\ \A c \in Blocks : d.heap[c] = IF c = b THEN Gone ELSE m.heap[c]
    BY <2>3 DEF Shaped
  <2> HIDE DEF d
  <2>5. Shaped(d)
    BY <2>2, <2>4 DEF Shaped
  <2> QED BY <2>1, <2>2, <2>4, <2>5
<1>3. CASE b # Null /\ ~Live(m, b)
  BY <1>3 DEF Delete, Wreck, Shaped
<1> QED BY <1>1, <1>2, <1>3

(* Only f and the memory change, and f has the sizes. *)
Gives(m, m2, f, x, y) ==
  ~m2.wrecked =>
    /\ m2.tab[f].x = x /\ m2.tab[f].y = y
    /\ m2.tab[f].own = m.tab[f].own /\ m2.tab[f].made = m.tab[f].made
    /\ \A g \in Frames \ {f} : m2.tab[g] = m.tab[g]

(* Alloc gives a frame a block of its own, that nobody else has.            *)
LEMMA AllocOK ==
  ASSUME NEW m, NEW f \in Frames, NEW x \in Int, NEW y \in Int,
         Whole(m), ~m.wrecked, x >= 0 \/ y >= 0
  PROVE  Whole(Alloc(m, f, x, y)) /\ Gives(m, Alloc(m, f, x, y), f, x, y)
<1> DEFINE t == m.tab[f]
           d == IF t.own THEN Delete(m, t.data) ELSE m
           m1 == Resized(d, f, x, y)
           b == Fresh(m1)
           m2 == [m1 EXCEPT !.heap[b] = Zeros(x * y), !.tab[f].data = b]
<1>1. CASE t.x = x /\ t.y = y
  BY <1>1 DEF Alloc, Gives
<1>2. Shaped(m) /\ t.data \in Blocks \cup {Null} /\ t.own \in BOOLEAN
  BY DEF Whole, Shaped, IsFrame
<1>3. /\ Shaped(d) /\ d.tab = m.tab
      /\ ~d.wrecked => \A c \in Blocks : IF t.own /\ c = t.data THEN ~d.heap[c].live ELSE d.heap[c] = m.heap[c]
  BY <1>2, Deleted
<1>4. /\ Shaped(m1) /\ m1.wrecked = d.wrecked /\ m1.heap = d.heap
      /\ \A g \in Frames \ {f} : m1.tab[g] = m.tab[g]
      /\ m1.tab[f].x = x /\ m1.tab[f].y = y /\ m1.tab[f].own = t.own /\ m1.tab[f].made = t.made
      /\ m1.tab[f].data = t.data /\ m1.tab[f].rows = NoRows
  <2> HIDE DEF d
  <2> QED BY <1>2, <1>3 DEF Resized, Shaped, IsFrame, FrameFields, RowFields, NoRows
<1> HIDE DEF d, m1
<1>5. ~m1.wrecked => Apart(m1) /\ Held(m1) /\ m1.heap[Buffer].live
  BY <1>3, <1>4 DEF Whole, Apart, Held, HasOwn, Blocks, Buffer
<1>6. CASE ~(x > 0 /\ y > 0 /\ t.own /\ ~m1.wrecked)
  <2>1. ASSUME ~m1.wrecked, NEW g \in Frames
        PROVE  NotShortBothWays(m1.tab[g]) /\ (m1.tab[g].own => HasOwn(m1, m1.tab[g]))
    <3>1. CASE g = f
      BY <2>1, <3>1, <1>4, <1>6 DEF Whole, HasOwn, HasPixels, NotShortBothWays
    <3>2. CASE g # f
      <4>1. m1.tab[g].own /\ HasPixels(m1.tab[g]) /\ t.own => m1.tab[g].data # t.data
        BY <3>2, <1>4 DEF Whole, Apart, HasOwn, Live
      <4>2. m1.tab[g].data \in Blocks \cup {Null}
        BY <1>4 DEF Shaped, IsFrame
      <4> QED BY <2>1, <3>2, <4>1, <4>2, <1>3, <1>4 DEF Whole, HasOwn, Live
    <3> QED BY <3>1, <3>2
  <2>2. Whole(m1)
    BY <2>1, <1>4, <1>5 DEF Whole
  <2>3. Gives(m, m1, f, x, y)
    BY <1>4 DEF Gives
  <2>4. (t.x = x /\ t.y = y) \/ Alloc(m, f, x, y) = m1
    BY <1>6, Zenon DEF Alloc, d, m1
  <2> QED BY <2>2, <2>3, <2>4, <1>1
<1>7. CASE x > 0 /\ y > 0 /\ t.own /\ ~m1.wrecked /\ ~(t.x = x /\ t.y = y)
  <2>1. b \in Blocks /\ ~m1.heap[b].live /\ \A g \in Frames : b # m1.tab[g].data
    BY <1>4, <1>5, <1>7, FreshBlock
  <2>2. Alloc(m, f, x, y) = ReCreateIndex(m2, f)
    BY <1>7, Zenon DEF Alloc, d, m1
  <2> HIDE DEF b
  <2>3. IsBlock(Zeros(x * y)) /\ Zeros(x * y).live = TRUE /\ Zeros(x * y).n = x * y
    BY DEF IsBlock, BlockFields, Zeros, Block
  <2>4. /\ DOMAIN m2 = DOMAIN m1 /\ m2.wrecked = m1.wrecked /\ DOMAIN m2.heap = Blocks /\ DOMAIN m2.tab = Frames
        /\ \A c \in Blocks : m2.heap[c] = IF c = b THEN Zeros(x * y) ELSE m1.heap[c]
        /\ \A g \in Frames \ {f} : m2.tab[g] = m1.tab[g]
        /\ DOMAIN m2.tab[f] = FrameFields
        /\ m2.tab[f].x = x /\ m2.tab[f].y = y /\ m2.tab[f].own = t.own /\ m2.tab[f].made = t.made
        /\ m2.tab[f].data = b
    BY <1>4, <1>7, <2>1 DEF Shaped, IsFrame, FrameFields
  <2> HIDE DEF m2
  <2> DEFINE r == ReCreateIndex(m2, f)
  <2>5. /\ DOMAIN r = DOMAIN m1 /\ r.wrecked = m1.wrecked /\ r.heap = m2.heap /\ DOMAIN r.tab = Frames
        /\ \A g \in Frames \ {f} : r.tab[g] = m1.tab[g]
        /\ DOMAIN r.tab[f] = FrameFields
        /\ r.tab[f].x = x /\ r.tab[f].y = y /\ r.tab[f].own = t.own /\ r.tab[f].made = t.made
        /\ r.tab[f].data = b /\ r.tab[f].rows = [of |-> b, w |-> x, n |-> y]
    BY <2>4, <1>4 DEF ReCreateIndex, Shaped, FrameFields
  <2> HIDE DEF r
  <2>6. Shaped(r)
    <3>1. IsFrame(r.tab[f])
      <4>1. t.made \in BOOLEAN /\ t.own \in BOOLEAN
        BY <1>2 DEF Shaped, IsFrame
      <4> QED BY <4>1, <2>1, <2>5 DEF IsFrame, RowFields
    <3>2. \A g \in Frames : IsFrame(r.tab[g])
      BY <3>1, <2>5, <1>4 DEF Shaped
    <3>3. \A c \in Blocks : IsBlock(r.heap[c])
      BY <2>3, <2>4, <2>5, <1>4 DEF Shaped
    <3> QED BY <3>2, <3>3, <2>4, <2>5, <1>4 DEF Shaped
  <2>7. Gives(m, r, f, x, y)
    BY <2>5, <1>4 DEF Gives
  <2>8. r.heap[Buffer].live /\ b # Buffer
    BY <1>5, <1>7, <2>1, <2>3, <2>4, <2>5 DEF Blocks, Buffer
  <2>9. Apart(r)
    BY <1>5, <1>7, <2>1, <2>5, <1>4 DEF Apart
  <2>10. Held(r)
    <3>1. \A c \in Blocks : m1.heap[c].live => c = Buffer \/ \E g \in Frames \ {f} : r.tab[g].own /\ r.tab[g].data = c
      BY <1>3, <1>4, <1>5, <1>7, <2>5 DEF Held
    <3>2. \A c \in Blocks \ {b} : r.heap[c] = m1.heap[c]
      BY <2>4, <2>5
    <3>3. r.tab[f].own /\ r.tab[f].data = b
      BY <2>5, <1>7
    <3>4. ASSUME NEW c \in Blocks, r.heap[c].live
          PROVE  c = Buffer \/ \E g \in Frames : r.tab[g].own /\ r.tab[g].data = c
      <4>1. CASE c = b
        BY <4>1, <3>3
      <4>2. CASE c # b
        <5>1. m1.heap[c].live
          BY <4>2, <3>2, <3>4
        <5> QED BY <5>1, <3>1
      <4> QED BY <4>1, <4>2
    <3> QED BY <3>4 DEF Held
  <2>11. ASSUME NEW g \in Frames
         PROVE  NotShortBothWays(r.tab[g]) /\ (r.tab[g].own => HasOwn(r, r.tab[g]))
    <3>1. CASE g = f
      BY <3>1, <2>1, <2>3, <2>4, <2>5, <2>8, <1>7 DEF Whole, HasOwn, HasPixels, Area, Live, NotShortBothWays, Blocks, Null
    <3>2. CASE g # f
      <4>1. m.tab[g].own /\ HasPixels(m.tab[g]) => m.tab[g].data # t.data /\ m.tab[g].data # b
        BY <3>2, <1>4, <1>7, <2>1 DEF Whole, Apart, HasOwn, Live
      <4>2. m.tab[g].data \in Blocks \cup {Null}
        BY DEF Whole, Shaped, IsFrame
      <4> QED BY <3>2, <4>1, <4>2, <1>3, <1>4, <1>7, <2>4, <2>5 DEF Whole, HasOwn, Live
    <3> QED BY <3>1, <3>2
  <2> QED BY <2>2, <2>5, <2>6, <2>7, <2>8, <2>9, <2>10, <2>11 DEF r, Whole
<1> QED BY <1>1, <1>6, <1>7

(* Frame f becomes u, and the memory stays as it is. *)
Becomes(m, f, u, m2) ==
  /\ DOMAIN m2 = DOMAIN m /\ m2.wrecked = m.wrecked /\ m2.heap = m.heap
  /\ DOMAIN m2.tab = Frames /\ m2.tab[f] = u /\ \A g \in Frames \ {f} : m2.tab[g] = m.tab[g]

(* It may hold what it held, or begin to hold with nothing yet. *)
HoldsOn(t, u) ==
  \/ t.own /\ u.own /\ u.data = t.data
  \/ ~t.own /\ (u.own => u.data = Null)

(* A frame that becomes another whole one leaves the memory whole.          *)
LEMMA BecomesWhole ==
  ASSUME NEW m, NEW f \in Frames, NEW u, NEW m2, Whole(m), Becomes(m, f, u, m2), IsFrame(u),
         ~m.wrecked => HoldsOn(m.tab[f], u) /\ NotShortBothWays(u) /\ (u.own => HasOwn(m, u))
  PROVE  Whole(m2)
<1>1. Shaped(m2)
  <2>1. \A g \in Frames : IsFrame(m2.tab[g])
    BY DEF Becomes, Whole, Shaped
  <2> QED BY <2>1 DEF Becomes, Whole, Shaped
<1>2. ASSUME ~m2.wrecked
      PROVE  /\ \A g \in Frames : NotShortBothWays(m2.tab[g]) /\ (m2.tab[g].own => HasOwn(m2, m2.tab[g]))
             /\ Apart(m2) /\ Held(m2) /\ m2.heap[Buffer].live
  <2>1. ~m.wrecked /\ HoldsOn(m.tab[f], u)
    BY <1>2 DEF Becomes
  <2>2. m2.heap[Buffer].live
    BY <2>1 DEF Becomes, Whole
  <2>3. \A g \in Frames : NotShortBothWays(m2.tab[g]) /\ (m2.tab[g].own => HasOwn(m2, m2.tab[g]))
    BY <2>1 DEF Becomes, Whole, HasOwn, Live
  <2>4. Apart(m2)
    BY <2>1 DEF Becomes, Whole, Apart, HoldsOn
  <2>5. Held(m2)
    BY <2>1 DEF Becomes, Whole, Held, HoldsOn
  <2> QED BY <2>2, <2>3, <2>4, <2>5
<1> QED BY <1>1, <1>2 DEF Whole

(* The fields of a frame whose record is replaced.                          *)
LEMMA Fields ==
  ASSUME NEW m, NEW f \in Frames, Shaped(m)
  PROVE  /\ \A u : Becomes(m, f, u, [m EXCEPT !.tab[f] = u])
         /\ m.tab[f].data \in Blocks \cup {Null} /\ m.tab[f].own \in BOOLEAN /\ m.tab[f].made \in BOOLEAN
         /\ m.tab[f].x \in Int /\ m.tab[f].y \in Int
<1>1. ASSUME NEW u PROVE Becomes(m, f, u, [m EXCEPT !.tab[f] = u])
  BY DEF Becomes, Shaped
<1> QED BY <1>1 DEF Shaped, IsFrame

(* The rows of a frame lead to its block.                                   *)
LEMMA Rows ==
  ASSUME NEW m, NEW f \in Frames, NEW b \in Blocks \cup {Null}, Shaped(m)
  PROVE  \E u : /\ Becomes(m, f, u, SetDataPtr(m, f, b)) /\ IsFrame(u)
                /\ SameFrame([m.tab[f] EXCEPT !.data = b, !.rows = [of |-> b, w |-> m.tab[f].x, n |-> m.tab[f].y]], u)
<1> DEFINE t == m.tab[f]
           u == [t EXCEPT !.data = b, !.rows = [of |-> b, w |-> t.x, n |-> t.y]]
           m1 == [m EXCEPT !.tab[f].data = b]
<1>1. /\ DOMAIN m1 = DOMAIN m /\ m1.wrecked = m.wrecked /\ m1.heap = m.heap /\ DOMAIN m1.tab = Frames
      /\ m1.tab[f] = [t EXCEPT !.data = b] /\ \A g \in Frames \ {f} : m1.tab[g] = m.tab[g]
  BY DEF Shaped
<1>2. m1.tab[f].x = t.x /\ m1.tab[f].y = t.y /\ m1.tab[f].data = b /\ DOMAIN m1.tab[f] = FrameFields
  BY <1>1 DEF Shaped, IsFrame, FrameFields
<1> DEFINE m2 == ReCreateIndex(m1, f)
<1>3. SetDataPtr(m, f, b) = m2
  BY Zenon DEF SetDataPtr
<1> HIDE DEF m1
<1>4. /\ DOMAIN m2 = DOMAIN m /\ m2.wrecked = m.wrecked /\ m2.heap = m.heap /\ DOMAIN m2.tab = Frames
      /\ m2.tab[f] = [m1.tab[f] EXCEPT !.rows = [of |-> b, w |-> t.x, n |-> t.y]]
      /\ \A g \in Frames \ {f} : m2.tab[g] = m.tab[g]
  BY <1>1, <1>2 DEF ReCreateIndex, Shaped
<1>5. Becomes(m, f, m2.tab[f], m2)
  BY <1>4 DEF Becomes
<1>6. SameFrame(u, m2.tab[f]) /\ IsFrame(m2.tab[f])
  BY <1>1, <1>2, <1>4 DEF SameFrame, Shaped, IsFrame, FrameFields, RowFields
<1> QED BY <1>3, <1>5, <1>6

(* SetData with zeros writes cells only.                                    *)
LEMMA ZeroSame ==
  ASSUME NEW m, NEW f \in Frames, Shaped(m)
  PROVE  SameMemory(m, Zero(m, f))
<1>1. Laid(m, m.tab[f].data, Zero(m, f))
  BY Zenon DEF Laid, Zero, Lay
<1> QED BY <1>1, LaidSame

(* A frame resized in place keeps its block.                                *)
LEMMA ResizedBecomes ==
  ASSUME NEW m, NEW f \in Frames, NEW x \in Int, NEW y \in Int, Shaped(m)
  PROVE  \E u : /\ Becomes(m, f, u, Resized(m, f, x, y)) /\ IsFrame(u)
                /\ u.made = m.tab[f].made /\ u.own = m.tab[f].own /\ u.data = m.tab[f].data
                /\ u.x = x /\ u.y = y /\ u.rows = NoRows
<1> DEFINE m2 == Resized(m, f, x, y)
<1>1. Becomes(m, f, m2.tab[f], m2)
  BY DEF Resized, Shaped, Becomes
<1>2. /\ DOMAIN m2.tab[f] = FrameFields /\ m2.tab[f].made = m.tab[f].made /\ m2.tab[f].own = m.tab[f].own
      /\ m2.tab[f].data = m.tab[f].data /\ m2.tab[f].x = x /\ m2.tab[f].y = y /\ m2.tab[f].rows = NoRows
  BY DEF Resized, Shaped, IsFrame, FrameFields
<1> HIDE DEF m2
<1>3. IsFrame(m2.tab[f])
  BY <1>2 DEF Shaped, IsFrame, RowFields, NoRows
<1> QED BY <1>1, <1>2, <1>3 DEF m2

(* Writing to the cells of a block keeps the memory whole.                  *)
LEMMA LaidWhole ==
  ASSUME NEW m, NEW b, NEW m2, Whole(m), Laid(m, b, m2)
  PROVE  Whole(m2)
BY LaidSame, SameWhole DEF Whole

(* An area of more than nothing, with one side of no less than nothing, has *)
(* pixels.                                                                  *)
LEMMA AreaOfPixels ==
  ASSUME NEW x \in Int, NEW y \in Int, x * y > 0, x >= 0 \/ y >= 0
  PROVE  x > 0 /\ y > 0
<1>1. CASE x >= 0
  <2>1. x > 0
    BY <1>1
  <2>2. ~(y <= 0)
    <3>1. \A n \in Nat, k \in Int : k <= 0 => n * k <= 0
      OBVIOUS
    <3> QED BY <3>1, <1>1
  <2> QED BY <2>1, <2>2
<1>2. CASE y >= 0
  <2>1. y > 0
    BY <1>2
  <2>2. ~(x <= 0)
    <3>1. \A n \in Nat, k \in Int : k <= 0 => k * n <= 0
      OBVIOUS
    <3> QED BY <3>1, <1>2
  <2> QED BY <2>1, <2>2
<1> QED BY <1>1, <1>2

(* ReSize keeps the memory whole, whatever the sizes were and are.          *)
LEMMA ReSizeOK ==
  ASSUME NEW m, NEW f \in Frames, NEW x \in Int, NEW y \in Int,
         Whole(m), ~m.wrecked, x >= 0 \/ y >= 0
  PROVE  Whole(ReSize(m, f, x, y))
<1> DEFINE t == m.tab[f]
           m1 == Resized(m, f, x, y)
           r == ReCreateIndex(m1, f)
<1>0. Shaped(m) /\ t.x \in Int /\ t.y \in Int /\ t.own \in BOOLEAN /\ t.data \in Blocks \cup {Null} /\ t.made \in BOOLEAN
  BY Fields DEF Whole
<1>1. PICK u : /\ Becomes(m, f, u, m1) /\ IsFrame(u) /\ u.made = t.made /\ u.own = t.own /\ u.data = t.data
               /\ u.x = x /\ u.y = y /\ u.rows = NoRows
  BY <1>0, ResizedBecomes
<1>2. NotShortBothWays(t) /\ (t.own => HasOwn(m, t))
  BY DEF Whole
<1>3. CASE t.x = x /\ t.y = y
  BY <1>3, Zenon DEF ReSize
<1>4. CASE ~(t.x = x /\ t.y = y) /\ x * y > Area(t)
  <2>1. ReSize(m, f, x, y) = Alloc(m, f, x, y)
    BY <1>4, Zenon DEF ReSize
  <2> QED BY <2>1, AllocOK
<1>5. CASE ~(t.x = x /\ t.y = y) /\ ~(x * y > Area(t)) /\ ~(x > 0 /\ y > 0 /\ t.own)
  <2>1. ReSize(m, f, x, y) = m1
    BY <1>5, Zenon DEF ReSize
  <2>2. HoldsOn(t, u) /\ NotShortBothWays(u) /\ (u.own => HasOwn(m, u))
    BY <1>0, <1>1, <1>2, <1>5 DEF HoldsOn, NotShortBothWays, HasOwn, HasPixels
  <2> HIDE DEF m1
  <2> QED BY <1>1, <2>1, <2>2, BecomesWhole
<1>6. CASE ~(t.x = x /\ t.y = y) /\ ~(x * y > Area(t)) /\ x > 0 /\ y > 0 /\ t.own
  <2>1. ReSize(m, f, x, y) = Zero(r, f)
    BY <1>6, Zenon DEF ReSize
  <2>2. /\ DOMAIN m1 = DOMAIN m /\ m1.wrecked = m.wrecked /\ m1.heap = m.heap /\ DOMAIN m1.tab = Frames
        /\ m1.tab[f] = u /\ \A g \in Frames \ {f} : m1.tab[g] = m.tab[g]
    BY <1>1 DEF Becomes
  <2> HIDE DEF m1
  <2> DEFINE v == [u EXCEPT !.rows = [of |-> t.data, w |-> x, n |-> y]]
  <2>3. Becomes(m, f, v, r)
    BY <1>0, <1>1, <2>2 DEF ReCreateIndex, Becomes, Shaped
  <2>4. /\ IsFrame(v) /\ v.made = t.made /\ v.own = t.own /\ v.data = t.data
        /\ v.x = x /\ v.y = y /\ v.rows = [of |-> t.data, w |-> x, n |-> y]
    BY <1>0, <1>1 DEF IsFrame, FrameFields, RowFields
  <2> HIDE DEF r, v
  <2>5. x * y \in Int /\ x * y > 0 /\ Area(t) \in Int /\ Area(t) >= x * y
    BY <1>0, <1>6 DEF Area
  <2>6. HasPixels(t)
    BY <1>0, <1>2, <2>5, AreaOfPixels DEF Area, HasPixels, NotShortBothWays
  <2>7. Live(m, t.data) /\ Area(t) <= m.heap[t.data].n /\ t.made /\ t.data # Buffer /\ m.heap[t.data].n \in Int
    BY <1>0, <1>2, <1>6, <2>6 DEF HasOwn, Live, Shaped, IsBlock
  <2>8. HoldsOn(t, v) /\ NotShortBothWays(v)
    BY <1>6, <2>4 DEF HoldsOn, NotShortBothWays
  <2>9. HasOwn(m, v)
    BY <2>4, <2>5, <2>7 DEF HasOwn, Area
  <2>10. Whole(r)
    BY <2>3, <2>4, <2>8, <2>9, BecomesWhole
  <2>11. SameMemory(r, Zero(r, f))
    BY <2>10, ZeroSame DEF Whole
  <2> QED BY <2>1, <2>10, <2>11, SameWhole
<1> QED BY <1>0, <1>3, <1>4, <1>5, <1>6

(* A frame that owns nothing may be pointed at any block.                   *)
LEMMA PointOK ==
  ASSUME NEW m, NEW f \in Frames, NEW b \in Blocks \cup {Null}, Whole(m), ~m.tab[f].own
  PROVE  Whole(SetDataPtr(m, f, b))
<1>1. Shaped(m)
  BY DEF Whole
<1>2. PICK u : /\ Becomes(m, f, u, SetDataPtr(m, f, b)) /\ IsFrame(u)
               /\ SameFrame([m.tab[f] EXCEPT !.data = b, !.rows = [of |-> b, w |-> m.tab[f].x, n |-> m.tab[f].y]], u)
  BY <1>1, Rows
<1>3. u.x = m.tab[f].x /\ u.y = m.tab[f].y /\ ~u.own
  BY <1>1, <1>2 DEF SameFrame, Shaped, IsFrame, FrameFields
<1>4. ~m.wrecked => HoldsOn(m.tab[f], u) /\ NotShortBothWays(u) /\ (u.own => HasOwn(m, u))
  BY <1>3 DEF HoldsOn, NotShortBothWays, Whole
<1> QED BY <1>2, <1>4, BecomesWhole

(* Assign keeps the memory whole, of a frame to itself too.                 *)
LEMMA AssignOK ==
  ASSUME NEW m, NEW f \in Frames, NEW g \in Frames, Whole(m), ~m.wrecked
  PROVE  Whole(Assign(m, f, g))
<1> DEFINE r == m.tab[g]
           m1 == IF m.tab[f].x # r.x \/ m.tab[f].y # r.y THEN Alloc(m, f, r.x, r.y) ELSE m
<1>1. r.x \in Int /\ r.y \in Int /\ (r.x >= 0 \/ r.y >= 0)
  BY Fields DEF Whole, NotShortBothWays
<1>2. Whole(m1)
  BY <1>1, AllocOK
<1> HIDE DEF m1
<1>3. m1.tab[g].data \in Blocks \cup {Null}
  BY <1>2, Fields DEF Whole
<1>4. \/ Laid(m1, m1.tab[f].data, Assign(m, f, g))
      \/ ~m1.tab[f].own /\ Assign(m, f, g) = SetDataPtr(m1, f, m1.tab[g].data)
  BY Zenon DEF Assign, m1, Laid, Lay
<1> QED BY <1>2, <1>3, <1>4, LaidWhole, PointOK

(* So does operator=.                                                       *)
LEMMA EqualOK ==
  ASSUME NEW m, NEW f \in Frames, NEW g \in Frames, Whole(m), ~m.wrecked
  PROVE  Whole(Equal(m, f, g))
<1> DEFINE m1 == Assign(m, f, g)
<1>1. Whole(m1)
  BY AssignOK
<1>2. Equal(m, f, g) = [m1 EXCEPT !.tab[f].max = m.tab[g].max]
  BY Zenon DEF Equal
<1> HIDE DEF m1
<1>3. SameMemory(m1, Equal(m, f, g))
  <2>1. Shaped(m1)
    BY <1>1 DEF Whole
  <2>2. SameMemory(m1, [m1 EXCEPT !.tab[f].max = m.tab[g].max])
    BY <2>1, NotesSame, Zenon
  <2> QED BY <2>2, <1>2, Zenon
<1> QED BY <1>1, <1>3, SameWhole

(* A frame that allocates nothing yet may become a new one. *)
LEMMA NewOK ==
  ASSUME NEW m, NEW f \in Frames, NEW own \in BOOLEAN, Whole(m), ~m.tab[f].own
  PROVE  Whole([m EXCEPT !.tab[f] = New(own)]) /\ Becomes(m, f, New(own), [m EXCEPT !.tab[f] = New(own)])
<1> DEFINE u == New(own)
<1>1. /\ DOMAIN u = FrameFields /\ u.made = TRUE /\ u.own = own /\ u.x = 0 /\ u.y = 0 /\ u.data = Null
      /\ u.rows = NoRows
  BY DEF New, NoFrame, FrameFields
<1> HIDE DEF u
<1>2. IsFrame(u)
  <2>1. u.made \in BOOLEAN /\ u.own \in BOOLEAN
    BY <1>1, Zenon
  <2>2. DOMAIN NoRows = RowFields /\ NoRows.of = Null
    BY DEF NoRows, RowFields
  <2> QED BY <1>1, <2>1, <2>2 DEF IsFrame
<1>3. HoldsOn(m.tab[f], u) /\ NotShortBothWays(u) /\ (u.own => HasOwn(m, u))
  BY <1>1 DEF HoldsOn, NotShortBothWays, HasOwn, HasPixels, Buffer, Null
<1>4. Becomes(m, f, u, [m EXCEPT !.tab[f] = u])
  BY Fields DEF Whole
<1>5. Whole([m EXCEPT !.tab[f] = u])
  BY <1>2, <1>3, <1>4, BecomesWhole
<1> QED BY <1>4, <1>5 DEF u

(* So does the copy constructor, of a frame that owns its pixels or not.    *)
LEMMA CopiedOK ==
  ASSUME NEW m, NEW f \in Frames, NEW g \in Frames, NEW own \in BOOLEAN, Whole(m), ~m.wrecked, ~m.tab[f].own
  PROVE  Whole(Copied(m, f, g, own))
<1> DEFINE m1 == [m EXCEPT !.tab[f] = New(own)]
<1>1. Whole(m1) /\ ~m1.wrecked
  BY NewOK DEF Becomes
<1>2. Copied(m, f, g, own) = Equal(m1, f, g)
  BY Zenon DEF Copied
<1> HIDE DEF m1
<1> QED BY <1>1, <1>2, EqualOK

(* The sizes a constructor sets at the end are those it has allocated, or   *)
(* the frame does not allocate.                                             *)
LEMMA SizesOK ==
  ASSUME NEW m, NEW f \in Frames, NEW x \in Int, NEW y \in Int, Whole(m), x >= 0 \/ y >= 0,
         m.wrecked \/ ~m.tab[f].own \/ (m.tab[f].x = x /\ m.tab[f].y = y)
  PROVE  Whole([m EXCEPT !.tab[f].x = x, !.tab[f].y = y])
<1> DEFINE t == m.tab[f]
           u == [t EXCEPT !.x = x, !.y = y]
           m2 == [m EXCEPT !.tab[f].x = x, !.tab[f].y = y]
<1>1. Shaped(m) /\ IsFrame(t)
  BY DEF Whole, Shaped
<1>2. Becomes(m, f, u, m2)
  BY <1>1 DEF Becomes, Shaped, IsFrame, FrameFields
<1>3. IsFrame(u) /\ SameFrame(u, [t EXCEPT !.x = x, !.y = y])
      /\ u.made = t.made /\ u.own = t.own /\ u.data = t.data /\ u.rows = t.rows /\ u.x = x /\ u.y = y
  BY <1>1 DEF IsFrame, FrameFields, SameFrame
<1>4. t.own \in BOOLEAN
  BY <1>1 DEF IsFrame
<1> HIDE DEF u, m2
<1>5. ~m.wrecked => HoldsOn(t, u) /\ NotShortBothWays(u) /\ (u.own => HasOwn(m, u))
  BY <1>3, <1>4 DEF HoldsOn, NotShortBothWays, HasOwn, HasPixels, Area, Whole
<1>6. Whole(m2)
  BY <1>2, <1>3, <1>5, BecomesWhole
<1> QED BY <1>6 DEF m2

(* So does the constructor with sizes.                                      *)
LEMMA ConstructOK ==
  ASSUME NEW m, NEW f \in Frames, NEW x \in Int, NEW y \in Int, NEW own \in BOOLEAN,
         Whole(m), ~m.wrecked, ~m.tab[f].own, x >= 0 \/ y >= 0
  PROVE  Whole(Construct(m, f, x, y, own))
<1> DEFINE m1 == [m EXCEPT !.tab[f] = New(own)]
           m2 == IF own THEN Alloc(m1, f, x, y) ELSE m1
<1>1. Whole(m1) /\ ~m1.wrecked /\ m1.tab[f] = New(own)
  BY NewOK DEF Becomes
<1>2. Construct(m, f, x, y, own) = [m2 EXCEPT !.tab[f].x = x, !.tab[f].y = y]
  BY Zenon DEF Construct
<1>3. New(own).own = own
  BY DEF New, NoFrame
<1> HIDE DEF m1
<1>4. Whole(m2) /\ (m2.wrecked \/ ~m2.tab[f].own \/ (m2.tab[f].x = x /\ m2.tab[f].y = y))
  BY <1>1, <1>3, AllocOK DEF Gives
<1> HIDE DEF m2
<1>5. Whole([m2 EXCEPT !.tab[f].x = x, !.tab[f].y = y])
  BY <1>4, SizesOK
<1> QED BY <1>2, <1>5, Zenon

(* So does InitConstructor.                                                 *)
LEMMA InitConstructorOK ==
  ASSUME NEW m, NEW f \in Frames, NEW x \in Int, NEW y \in Int, NEW own \in BOOLEAN,
         Whole(m), ~m.wrecked, x >= 0 \/ y >= 0, m.tab[f].made,
         \/ m.tab[f].own /\ own
         \/ ~m.tab[f].own /\ m.tab[f].data = Null /\ <<m.tab[f].x, m.tab[f].y>> = <<0, 0>>
  PROVE  Whole(InitConstructor(m, f, x, y, own))
<1> DEFINE t == m.tab[f]
           u == [t EXCEPT !.own = own]
           m1 == [m EXCEPT !.tab[f].own = own]
           m2 == IF own THEN Alloc(m1, f, x, y) ELSE m1
<1>1. Shaped(m) /\ IsFrame(t) /\ NotShortBothWays(t) /\ (t.own => HasOwn(m, t))
  BY DEF Whole, Shaped
<1>2. Becomes(m, f, u, m1)
  BY <1>1 DEF Becomes, Shaped, IsFrame, FrameFields
<1>3. IsFrame(u)
      /\ u.made = t.made /\ u.own = own /\ u.data = t.data /\ u.rows = t.rows /\ u.x = t.x /\ u.y = t.y
  BY <1>1 DEF IsFrame, FrameFields
<1> HIDE DEF u, m1
<1>4. NotShortBothWays(u)
  BY <1>1, <1>3 DEF NotShortBothWays
<1>5. HoldsOn(t, u) /\ (u.own => HasOwn(m, u))
  <2>1. CASE t.own /\ own
    BY <1>1, <1>3, <2>1 DEF HoldsOn, HasOwn, HasPixels, Area
  <2>2. CASE ~t.own /\ t.data = Null /\ t.x = 0 /\ t.y = 0
    BY <1>3, <2>2 DEF HoldsOn, HasOwn, HasPixels, Buffer, Null
  <2> QED BY <2>1, <2>2
<1>6. Whole(m1) /\ ~m1.wrecked /\ m1.tab[f] = u
  BY <1>2, <1>3, <1>4, <1>5, BecomesWhole DEF Becomes
<1>7. InitConstructor(m, f, x, y, own) = [m2 EXCEPT !.tab[f].x = x, !.tab[f].y = y]
  BY Zenon DEF InitConstructor, m1
<1>8. Whole(m2) /\ (m2.wrecked \/ ~m2.tab[f].own \/ (m2.tab[f].x = x /\ m2.tab[f].y = y))
  BY <1>3, <1>6, AllocOK DEF Gives
<1> HIDE DEF m2
<1>9. Whole([m2 EXCEPT !.tab[f].x = x, !.tab[f].y = y])
  BY <1>8, SizesOK
<1> QED BY <1>7, <1>9, Zenon

(* So does the destructor: what it frees nobody else has.                   *)
LEMMA DestroyOK ==
  ASSUME NEW m, NEW f \in Frames, Whole(m), ~m.wrecked
  PROVE  Whole(Destroy(m, f))
<1> DEFINE t == m.tab[f]
           d == IF t.own THEN Delete(m, t.data) ELSE m
           m2 == [d EXCEPT !.tab[f] = NoFrame]
<1>1. Shaped(m) /\ t.data \in Blocks \cup {Null} /\ t.own \in BOOLEAN
  BY DEF Whole, Shaped, IsFrame
<1>2. /\ Shaped(d) /\ d.tab = m.tab
      /\ ~d.wrecked => \A c \in Blocks : IF t.own /\ c = t.data THEN ~d.heap[c].live ELSE d.heap[c] = m.heap[c]
  BY <1>1, Deleted
<1>3. Destroy(m, f) = m2
  BY Zenon DEF Destroy
<1> HIDE DEF d
<1>4. Becomes(d, f, NoFrame, m2)
  BY <1>2, Fields
<1>5. IsFrame(NoFrame) /\ ~NoFrame.own /\ NoFrame.x = 0
  BY DEF IsFrame, NoFrame, FrameFields, RowFields, NoRows
<1> HIDE DEF m2
<1>6. Shaped(m2)
  BY <1>2, <1>4, <1>5 DEF Becomes, Shaped
<1>7. ASSUME ~m2.wrecked
      PROVE  /\ \A g \in Frames : NotShortBothWays(m2.tab[g]) /\ (m2.tab[g].own => HasOwn(m2, m2.tab[g]))
             /\ Apart(m2) /\ Held(m2) /\ m2.heap[Buffer].live
  <2>1. /\ ~d.wrecked /\ m2.heap = d.heap /\ m2.tab[f] = NoFrame
        /\ \A g \in Frames \ {f} : m2.tab[g] = m.tab[g]
    BY <1>2, <1>4, <1>7 DEF Becomes
  <2>2. m2.heap[Buffer].live
    BY <1>2, <2>1 DEF Whole, HasOwn, Blocks, Buffer
  <2>3. ASSUME NEW g \in Frames
        PROVE  NotShortBothWays(m2.tab[g]) /\ (m2.tab[g].own => HasOwn(m2, m2.tab[g]))
    <3>1. CASE g = f
      BY <3>1, <2>1, <1>5 DEF NotShortBothWays
    <3>2. CASE g # f
      <4>1. m.tab[g].own /\ HasPixels(m.tab[g]) /\ t.own => m.tab[g].data # t.data
        BY <3>2 DEF Whole, Apart, HasOwn, Live
      <4>2. m.tab[g].data \in Blocks \cup {Null}
        BY <1>1 DEF Shaped, IsFrame
      <4> QED BY <3>2, <4>1, <4>2, <1>2, <2>1 DEF Whole, HasOwn, Live
    <3> QED BY <3>1, <3>2
  <2>4. Apart(m2)
    BY <1>5, <2>1 DEF Whole, Apart
  <2>5. Held(m2)
    BY <1>2, <2>1 DEF Whole, Held
  <2> QED BY <2>2, <2>3, <2>4, <2>5
<1> QED BY <1>3, <1>6, <1>7 DEF Whole

(* A part of f has sizes, and not both of them less than nothing if it      *)
(* begins inside f at one side at least.                                    *)
LEMMA CutSizes ==
  ASSUME NEW t, t.x \in Int, t.y \in Int, NEW x0 \in Int, NEW y0 \in Int, NEW lx \in Nat, NEW ly \in Nat
  PROVE  LET c == CutOf(t, x0, y0, lx, ly)
         IN  /\ c.w \in Int /\ c.h \in Int
             /\ Larger(x0, 0) <= t.x \/ Larger(y0, 0) <= t.y => c.w >= 0 \/ c.h >= 0
<1> DEFINE c == CutOf(t, x0, y0, lx, ly)
           u0 == Larger(x0, 0)
           v0 == Larger(y0, 0)
<1>1. c.w = Smaller(u0 + lx - 1, t.x - 1) - u0 + 1 /\ c.h = Smaller(v0 + ly - 1, t.y - 1) - v0 + 1
  BY DEF CutOf
<1> HIDE DEF c
<1>2. u0 \in Int /\ v0 \in Int
  BY DEF Larger
<1> HIDE DEF u0, v0
<1>3. /\ c.w \in Int /\ c.h \in Int
      /\ u0 <= t.x \/ v0 <= t.y => c.w >= 0 \/ c.h >= 0
  BY <1>1, <1>2 DEF Smaller
<1> QED BY <1>3 DEF c, u0, v0

(* The ways to draw into a frame that is allocated for it first. *)
LEMMA DrawnOK ==
  ASSUME NEW m, NEW f \in Frames, NEW g \in Frames, NEW r \in Frames, Whole(m), ~m.wrecked
  PROVE  /\ \A zero : Whole(Subtract(m, f, g, r, zero))
         /\ \A norm, most : Whole(Multiply(m, f, g, r, norm, most))
         /\ \A type : Whole(Laplace(m, f, g, type))
         /\ \A type, edge, w : Whole(LaplaceOut(m, f, g, type, edge, w))
         /\ \A type, S : Whole(LaplaceSafe(m, f, g, type, S))
<1> DEFINE t == m.tab[f]
           q == Alloc(m, r, t.x, t.y)
           p == Alloc(m, g, t.x, t.y)
<1>1. t.x \in Int /\ t.y \in Int /\ (t.x >= 0 \/ t.y >= 0)
  BY Fields DEF Whole, NotShortBothWays
<1>2. Whole(p) /\ Whole(q)
  BY <1>1, AllocOK
<1> HIDE DEF p, q
<1>3. ASSUME NEW zero PROVE Whole(Subtract(m, f, g, r, zero))
  <2>1. Laid(q, q.tab[r].data, Subtract(m, f, g, r, zero))
    BY Zenon DEF Subtract, Lay, Laid, q
  <2> QED BY <2>1, <1>2, LaidWhole
<1>4. ASSUME NEW norm, NEW most PROVE Whole(Multiply(m, f, g, r, norm, most))
  <2>1. Laid(q, q.tab[r].data, Multiply(m, f, g, r, norm, most))
    BY Zenon DEF Multiply, Lay, Laid, q
  <2> QED BY <2>1, <1>2, LaidWhole
<1>5. ASSUME NEW type PROVE Whole(Laplace(m, f, g, type))
  <2>1. Laid(p, p.tab[g].rows.of, Laplace(m, f, g, type))
    BY Zenon DEF Laplace, LaidLaplace, LayRows, Laid, p
  <2> QED BY <2>1, <1>2, LaidWhole
<1>6. ASSUME NEW type, NEW edge, NEW w PROVE Whole(LaplaceOut(m, f, g, type, edge, w))
  <2>1. Laid(p, p.tab[g].rows.of, LaplaceOut(m, f, g, type, edge, w))
    BY Zenon DEF LaplaceOut, LaplaceWindow, LaidLaplace, LayRows, Laid, p
  <2> QED BY <2>1, <1>2, LaidWhole
<1>7. ASSUME NEW type, NEW S PROVE Whole(LaplaceSafe(m, f, g, type, S))
  <2>1. Laid(m, m.tab[g].rows.of, LaplaceSafe(m, f, g, type, S))
    BY Zenon DEF LaplaceSafe, LaidLaplace, LayRows, Laid
  <2> QED BY <2>1, LaidWhole
<1> QED BY <1>3, <1>4, <1>5, <1>6, <1>7

(* So does a part cut out, that begins in the frame on one side at least.   *)
LEMMA PartsOK ==
  ASSUME NEW m, NEW f \in Frames, NEW g \in Frames, Whole(m), ~m.wrecked,
         NEW x0 \in Int, NEW y0 \in Int, NEW lx \in Nat, NEW ly \in Nat
  PROVE  /\ Whole(GetImageWithZeros(m, f, g, x0, y0, lx, ly))
         /\ Larger(x0, 0) <= m.tab[f].x \/ Larger(y0, 0) <= m.tab[f].y => Whole(GetImage(m, f, g, x0, y0, lx, ly))
<1> DEFINE t == m.tab[f]
           c == CutOf(t, x0, y0, lx, ly)
           m1 == Alloc(m, g, c.w, c.h)
           m2 == Alloc(m, g, lx, ly)
<1>1. t.x \in Int /\ t.y \in Int
  BY Fields DEF Whole
<1>2. /\ c.w \in Int /\ c.h \in Int
      /\ Larger(x0, 0) <= t.x \/ Larger(y0, 0) <= t.y => c.w >= 0 \/ c.h >= 0
  BY <1>1, CutSizes
<1>3. Laid(m2, m2.tab[g].rows.of, GetImageWithZeros(m, f, g, x0, y0, lx, ly))
  BY Zenon DEF GetImageWithZeros, LayRows, Laid
<1>4. GetImage(m, f, g, x0, y0, lx, ly) = m \/ Laid(m1, m1.tab[g].data, GetImage(m, f, g, x0, y0, lx, ly))
  BY Zenon DEF GetImage, Lay, Laid
<1> HIDE DEF c
<1>5. Whole(m2) /\ (Larger(x0, 0) <= t.x \/ Larger(y0, 0) <= t.y => Whole(m1))
  BY <1>2, AllocOK
<1> HIDE DEF m1, m2
<1> QED BY <1>3, <1>4, <1>5, LaidWhole

(* So does CutBorder when the borders leave a side.                         *)
LEMMA CutBorderOK ==
  ASSUME NEW m, NEW f \in Frames, NEW g \in Frames, Whole(m), ~m.wrecked,
         m.tab[g].made,
         m.tab[g].own \/ (~m.tab[g].own /\ m.tab[g].data = Null /\ <<m.tab[g].x, m.tab[g].y>> = <<0, 0>>),
         NEW side \in Int, NEW up \in Int, NEW right \in Int, NEW bottom \in Int,
         side + right <= m.tab[f].x \/ bottom + up <= m.tab[f].y
  PROVE  Whole(CutBorderBase(m, f, g, side, up, right, bottom))
<1> DEFINE t == m.tab[f]
           w == t.x - (side + right)
           h == t.y - (bottom + up)
           m1 == InitConstructor(m, g, w, h, TRUE)
<1>1. w \in Int /\ h \in Int /\ (w >= 0 \/ h >= 0)
  BY Fields DEF Whole
<1>2. Laid(m1, m1.tab[g].rows.of, CutBorderBase(m, f, g, side, up, right, bottom))
  BY Zenon DEF CutBorderBase, LayRows, Laid
<1> HIDE DEF w, h
<1>3. Whole(m1)
  BY <1>1, InitConstructorOK
<1> HIDE DEF m1
<1> QED BY <1>2, <1>3, LaidWhole

-----------------------------------------------------------------------------
(* A part is asked for that begins inside the frame at one side at least,   *)
(* and a border to cut is no wider than the frame both ways.  Without it a  *)
(* frame is left with two negative sides and no pixels, and resized from    *)
(* there it keeps none.                                                     *)
PartsThere ==
  LET t == mem.tab[called'.f]  a == called'.a
  IN  /\ called'.op = "GetImage" => Larger(a[1], 0) <= t.x \/ Larger(a[2], 0) <= t.y
      /\ called'.op = "CutBorder" => a[1] + a[3] <= t.x \/ a[4] + a[2] <= t.y

(* Every step in which a frame is made, given another size or destroyed.    *)
LEMMA LifeOK ==
  ASSUME Whole(mem), LifeNext
  PROVE  Whole(mem')
<1>1. Sides \subseteq Int /\ \A x \in Sides : x >= 0
  BY FrameAssumption
<1>2. PICK f \in Frames :
        \/ MakeFrame(f) \/ MakeEmpty(f) \/ Unmake(f) \/ LateInit(f) \/ Allocate(f) \/ Change(f)
        \/ \E g \in Frames : MakeCopy(f, g) \/ Point(f, g) \/ Copy(f, g)
  BY DEF LifeNext
<1>3. ~mem.wrecked
  BY <1>2 DEF MakeFrame, MakeEmpty, Unmake, LateInit, Allocate, Change, MakeCopy, Point, Copy, Lives
<1>4. Shaped(mem) /\ mem.tab[f].made \in BOOLEAN /\ (mem.tab[f].own => mem.tab[f].made)
  BY <1>3, Fields DEF Whole, HasOwn
<1>5. CASE MakeFrame(f)
  <2>1. PICK x \in Sides, y \in Sides, own \in BOOLEAN : ~Made(f) /\ mem' = Construct(mem, f, x, y, own)
    BY <1>5 DEF MakeFrame, Lives
  <2> QED BY <2>1, <1>1, <1>3, <1>4, ConstructOK DEF Made
<1>6. CASE MakeEmpty(f)
  <2>1. ~Made(f) /\ mem' = [mem EXCEPT !.tab[f] = New(FALSE)]
    BY <1>6 DEF MakeEmpty, Lives
  <2> QED BY <2>1, <1>4, NewOK DEF Made
<1>7. CASE Unmake(f)
  <2>1. mem' = Destroy(mem, f)
    BY <1>7 DEF Unmake, Lives
  <2> QED BY <2>1, <1>3, DestroyOK
<1>8. CASE LateInit(f)
  <2>1. PICK x \in Sides, y \in Sides, own \in BOOLEAN :
          Made(f) /\ Unused(f) /\ mem' = InitConstructor(mem, f, x, y, own)
    BY <1>8 DEF LateInit, Lives
  <2>2. ~mem.tab[f].own /\ mem.tab[f].data = Null /\ <<mem.tab[f].x, mem.tab[f].y>> = <<0, 0>>
    BY <2>1 DEF Unused
  <2> QED BY <2>1, <2>2, <1>1, <1>3, InitConstructorOK DEF Made
<1>9. CASE Allocate(f)
  <2>1. PICK x \in Sides, y \in Sides : mem' = Alloc(mem, f, x, y)
    BY <1>9 DEF Allocate, Lives
  <2> QED BY <2>1, <1>1, <1>3, AllocOK
<1>10. CASE Change(f)
  <2>1. PICK x \in Sides, y \in Sides : mem' = ReSize(mem, f, x, y)
    BY <1>10 DEF Change, Lives
  <2> QED BY <2>1, <1>1, <1>3, ReSizeOK
<1>11. ASSUME NEW g \in Frames, MakeCopy(f, g) PROVE Whole(mem')
  <2>1. PICK own \in BOOLEAN : ~Made(f) /\ mem' = Copied(mem, f, g, own)
    BY <1>11 DEF MakeCopy, Lives
  <2> QED BY <2>1, <1>3, <1>4, CopiedOK DEF Made
<1>12. ASSUME NEW g \in Frames, Point(f, g) PROVE Whole(mem')
  <2>1. mem' = mem \/ \E b \in {mem.tab[g].data, Buffer} : ~mem.tab[f].own /\ mem' = SetDataPtr(mem, f, b)
    BY <1>12 DEF Point, Lives
  <2>2. mem.tab[g].data \in Blocks \cup {Null} /\ Buffer \in Blocks
    BY <1>4, Fields DEF Buffer, Blocks
  <2> QED BY <2>1, <2>2, PointOK
<1>13. ASSUME NEW g \in Frames, Copy(f, g) PROVE Whole(mem')
  <2>1. mem' = Equal(mem, f, g)
    BY <1>13 DEF Copy, Lives
  <2> QED BY <2>1, <1>3, EqualOK
<1> QED BY <1>2, <1>5, <1>6, <1>7, <1>8, <1>9, <1>10, <1>11, <1>12, <1>13

(* Every step that works on one frame.                                      *)
LEMMA AloneOK ==
  ASSUME Whole(mem), NEW f \in Frames, DrawAlone(f)
  PROVE  Whole(mem')
<1>1. Shaped(mem)
  BY DEF Whole
<1>2. /\ \A v : SameMemory(mem, SetData(mem, f, v))
      /\ \A type : SameMemory(mem, FlipImage(mem, f, type)) /\ SameMemory(mem, FlipData(mem, f, type))
      /\ \A n : SameMemory(mem, ClearBorder(mem, f, n))
      /\ \A x, y, r, w, v : SameMemory(mem, MarkStarWithCircle(mem, f, x, y, r, w, v))
  BY <1>1, Layers
<1>3. /\ \A v, zero : SameMemory(mem, SubtractConst(mem, f, v, zero))
      /\ \A by : SameMemory(mem, MultiplyByConst(mem, f, by))
      /\ \A n : SameMemory(mem, SubtractBacgroundInFrame(mem, f, n))
  BY <1>1, Measuring
<1>4. /\ \A n, dx, dy, total : SameMemory(mem, ShiftFrame(mem, f, n, dx, dy, total))
      /\ \A dx, dy : SameMemory(mem, ShiftFrameWeighted(mem, f, dx, dy))
  BY <1>1, Shifting
<1>5. SameMemory(mem, mem')
  <2>1. CASE \E v \in Values : mem' = SetData(mem, f, v)
    BY <2>1, <1>2
  <2>2. CASE \E v \in Values, zero \in BOOLEAN : mem' = SubtractConst(mem, f, v, zero)
    BY <2>2, <1>3
  <2>3. CASE \E by \in {<<2, 1>>, <<1, 2>>} : mem' = MultiplyByConst(mem, f, by)
    BY <2>3, <1>3, Zenon
  <2>4. CASE \E n \in {0, 1} : mem' = SubtractBacgroundInFrame(mem, f, n)
    BY <2>4, <1>3, Zenon
  <2>5. CASE \E x, y \in Values, r \in {0, 1} : mem' = MarkStarWithCircle(mem, f, x, y, r, 1, 9)
    BY <2>5, <1>2, Zenon
  <2>6. CASE \E n \in {1, 3}, dx, dy \in Values, total \in BOOLEAN : mem' = ShiftFrame(mem, f, n, dx, dy, total)
    BY <2>6, <1>4, Zenon
  <2>7. CASE \E dx, dy \in Values : mem' = ShiftFrameWeighted(mem, f, dx, dy)
    BY <2>7, <1>4, Zenon
  <2>8. CASE \E type : mem' = FlipImage(mem, f, type) \/ mem' = FlipData(mem, f, type)
    BY <2>8, <1>2, Zenon
  <2>9. CASE mem' = ClearBorder(mem, f, 1)
    BY <2>9, <1>2, Zenon
  <2> QED BY <2>1, <2>2, <2>3, <2>4, <2>5, <2>6, <2>7, <2>8, <2>9, Zenon DEF DrawAlone, Draws
<1> QED BY <1>5, SameWhole

(* Every step that works on two, with the parts of images they are.         *)
LEMMA WithOK ==
  ASSUME Whole(mem), NEW f \in Frames, NEW g \in Frames, Made(g), PartsThere, DrawWith(f, g)
  PROVE  Whole(mem')
<1>1. Shaped(mem) /\ Sides \subseteq Nat /\ Values \subseteq Int
  BY FrameAssumption DEF Whole
<1>2. SameMemory(mem, SubtractFrame(mem, f, g)) /\ \A src : SameMemory(mem, copy(mem, f, src))
  BY <1>1, Layers
<1>3. ASSUME NEW c, NEW m, NEW r, Draws(c, m, r) PROVE ~mem.wrecked /\ mem' = m /\ called' = c
  BY <1>3 DEF Draws
<1>4. CASE \/ Draws(Call("-=", f, g, <<>>), SubtractFrame(mem, f, g), "none")
           \/ Draws(Call("copy", f, g, <<>>), copy(mem, f, mem.tab[g].data), "none")
           \/ Draws(Call("Compare", f, g, <<>>), mem, Compare(mem, f, g))
  <2>1. mem' = mem \/ mem' = SubtractFrame(mem, f, g) \/ mem' = copy(mem, f, mem.tab[g].data)
    BY <1>3, <1>4, Zenon
  <2> QED BY <1>2, <2>1, SameWhole
<1>5. ASSUME NEW r \in Frames, NEW zero \in BOOLEAN,
             IF ~SameSides(mem, f, g)
             THEN Draws(Call("Subtract", f, g, <<r, zero>>), mem, "thrown")
             ELSE Draws(Call("Subtract", f, g, <<r, zero>>), Subtract(mem, f, g, r, zero), "none")
      PROVE  Whole(mem')
  <2>1. ~mem.wrecked /\ mem' \in {mem, Subtract(mem, f, g, r, zero)}
    BY <1>3, <1>5, Zenon
  <2> QED BY <2>1, DrawnOK
<1>6. ASSUME NEW r \in Frames, NEW norm \in {0, 2},
             IF ~SameSides(mem, f, g)
             THEN Draws(Call("Multiply", f, g, <<r, norm, 4>>), mem, "thrown")
             ELSE Draws(Call("Multiply", f, g, <<r, norm, 4>>), Multiply(mem, f, g, r, norm, 4), "none")
      PROVE  Whole(mem')
  <2>1. ~mem.wrecked /\ mem' \in {mem, Multiply(mem, f, g, r, norm, 4)}
    BY <1>3, <1>6, Zenon
  <2> QED BY <2>1, DrawnOK
<1>7. ASSUME NEW x \in Values, NEW y \in Values, NEW lx \in Sides, NEW ly \in Sides,
             \/ Draws(Call("GetImage", f, g, <<x, y, lx, ly>>), GetImage(mem, f, g, x, y, lx, ly),
                      GetImageRet(mem, f, x, y, lx, ly))
             \/ Draws(Call("GetImageWithZeros", f, g, <<x, y, lx, ly>>), GetImageWithZeros(mem, f, g, x, y, lx, ly),
                      Truth(AllInFrame(mem.tab[f], x, y, lx, ly)))
      PROVE  Whole(mem')
  <2>1. /\ ~mem.wrecked
        /\ \/ called' = Call("GetImage", f, g, <<x, y, lx, ly>>) /\ mem' = GetImage(mem, f, g, x, y, lx, ly)
           \/ mem' = GetImageWithZeros(mem, f, g, x, y, lx, ly)
    BY <1>3, <1>7, Zenon
  <2>2. called' = Call("GetImage", f, g, <<x, y, lx, ly>>) =>
          Larger(x, 0) <= mem.tab[f].x \/ Larger(y, 0) <= mem.tab[f].y
    BY DEF PartsThere, Call
  <2> QED BY <2>1, <2>2, <1>1, PartsOK
<1>8. ASSUME mem.tab[g].own \/ Unused(g), NEW side \in {0, 1}, NEW bottom \in {0, 1},
             Draws(Call("CutBorder", f, g, <<side, 0, 0, bottom>>), CutBorderBase(mem, f, g, side, 0, 0, bottom), "none")
      PROVE  Whole(mem')
  <2>1. /\ ~mem.wrecked /\ called' = Call("CutBorder", f, g, <<side, 0, 0, bottom>>)
        /\ mem' = CutBorderBase(mem, f, g, side, 0, 0, bottom)
    BY <1>3, <1>8, Zenon
  <2>2. side + 0 <= mem.tab[f].x \/ bottom + 0 <= mem.tab[f].y
    BY <2>1 DEF PartsThere, Call
  <2>3. mem.tab[g].own \/ (~mem.tab[g].own /\ mem.tab[g].data = Null /\ <<mem.tab[g].x, mem.tab[g].y>> = <<0, 0>>)
    BY <1>8 DEF Unused
  <2> QED BY <2>1, <2>2, <2>3, CutBorderOK DEF Made
<1>9. ASSUME NEW type,
             \/ Draws(Call("Laplace", f, g, <<type>>), Laplace(mem, f, g, type), "none")
             \/ \E edge \in {4}, w \in {<<-1, -1, -1, -1>>, <<4, 4, 7, 6>>} :
                  Draws(Call("Laplace of a window", f, g, <<type, edge, w>>), LaplaceOut(mem, f, g, type, edge, w), "none")
             \/ LET S == Grid(mem.tab[f])
                IN  Draws(Call("LaplaceSafe", f, g, <<type>>), LaplaceSafe(mem, f, g, type, S), "none")
      PROVE  Whole(mem')
  <2>1. CASE Draws(Call("Laplace", f, g, <<type>>), Laplace(mem, f, g, type), "none")
    <3>1. ~mem.wrecked /\ mem' = Laplace(mem, f, g, type)
      BY <1>3, <2>1, Zenon
    <3> QED BY <3>1, DrawnOK
  <2>2. ASSUME NEW edge, NEW w,
               Draws(Call("Laplace of a window", f, g, <<type, edge, w>>), LaplaceOut(mem, f, g, type, edge, w), "none")
        PROVE  Whole(mem')
    <3>1. ~mem.wrecked /\ mem' = LaplaceOut(mem, f, g, type, edge, w)
      BY <1>3, <2>2, Zenon
    <3> QED BY <3>1, DrawnOK
  <2>3. CASE Draws(Call("LaplaceSafe", f, g, <<type>>), LaplaceSafe(mem, f, g, type, Grid(mem.tab[f])), "none")
    <3>1. ~mem.wrecked /\ mem' = LaplaceSafe(mem, f, g, type, Grid(mem.tab[f]))
      BY <1>3, <2>3, Zenon
    <3> QED BY <3>1, DrawnOK
  <2> QED BY <1>9, <2>1, <2>2, <2>3, Zenon
<1> QED BY <1>4, <1>5, <1>6, <1>7, <1>8, <1>9, Zenon DEF DrawWith

(* Every step.                                                              *)
LEMMA FrameNextOK ==
  ASSUME Whole(mem), [FrameNext /\ PartsThere]_frameVars
  PROVE  Whole(mem')
<1>1. CASE LifeNext
  BY <1>1, LifeOK
<1>2. CASE DrawNext /\ PartsThere
  <2>1. PICK f \in Frames, g \in Frames : Made(g) /\ (DrawAlone(f) \/ DrawWith(f, g))
    BY <1>2 DEF DrawNext
  <2> QED BY <1>2, <2>1, AloneOK, WithOK
<1>3. CASE UNCHANGED frameVars
  BY <1>3 DEF frameVars
<1> QED BY <1>1, <1>2, <1>3 DEF FrameNext

(* In a whole memory pixels have one owner, who reaches all of them.        *)
LEMMA WholeOwns ==
  ASSUME Whole(mem)
  PROVE  OwnPixels
<1> SUFFICES ASSUME ~mem.wrecked, NEW f \in Frames, Made(f), mem.tab[f].own, HasPixels(mem.tab[f])
             PROVE  /\ Sound(f) /\ mem.tab[f].data # Buffer
                    /\ \A g \in Frames \ {f} : Made(g) /\ mem.tab[g].own /\ HasPixels(mem.tab[g]) =>
                         mem.tab[g].data # mem.tab[f].data
  BY DEF OwnPixels
<1> DEFINE t == mem.tab[f]
<1>1. /\ Live(mem, t.data) /\ Area(t) <= mem.heap[t.data].n /\ t.data # Buffer
      /\ t.rows.of = t.data /\ t.rows.w = t.x /\ t.rows.n = t.y
  BY DEF Whole, HasOwn
<1>2. t.x \in Int /\ t.y \in Int
  BY Fields DEF Whole
<1>3. (t.y - 1) * t.x + t.x = Area(t)
  BY <1>2 DEF Area
<1>4. Sound(f)
  BY <1>1, <1>2, <1>3 DEF Sound, ByData, ByRows, Holds
<1>5. \A g \in Frames \ {f} : mem.tab[g].own => mem.tab[g].data # t.data
  BY <1>1 DEF Whole, Apart, Live
<1> QED BY <1>1, <1>4, <1>5

(* While parts and borders are asked for that are there, whatever is        *)
(* constructed, allocated, resized, copied, pointed at a buffer, drawn and  *)
(* destroyed, and in whatever order: a frame that allocates its pixels has  *)
(* all of them, a way to each row and no other such frame in its memory.    *)
THEOREM FrameOwnPixels ==
  FrameSpec /\ [][PartsThere]_frameVars => []OwnPixels
<1>1. FrameInit => Whole(mem)
  BY FrameAssumption DEF FrameInit
<1>2. Whole(mem) /\ [FrameNext /\ PartsThere]_frameVars => Whole(mem)'
  BY FrameNextOK
<1>3. Whole(mem) => OwnPixels
  BY WholeOwns
<1> QED BY <1>1, <1>2, <1>3, PTL DEF FrameSpec

-----------------------------------------------------------------------------
(* Histograms.                                                              *)

(* Division, and products that grow. *)
LEMMA ProductGrows ==
  ASSUME NEW a \in Int, NEW b \in Int, a <= b, NEW n \in Nat
  PROVE  a * n <= b * n
<1>1. PICK d \in Nat : b = a + d
  <2>1. b - a \in Nat /\ b = a + (b - a)
    OBVIOUS
  <2> QED BY <2>1
<1>2. d * n >= 0
  <2>1. \A i, j \in Nat : i * j >= 0
    OBVIOUS
  <2> QED BY <2>1
<1> QED BY <1>1, <1>2

(* What division gives, told by products.                                  *)
LEMMA Quotient ==
  ASSUME NEW a \in Int, NEW b \in Nat \ {0}
  PROVE  /\ a \div b \in Int
         /\ \A i \in Int : a \div b = i <=> i * b <= a /\ a < (i + 1) * b
<1> DEFINE q == a \div b
<1>1. q \in Int /\ q * b <= a /\ a < (q + 1) * b
  OBVIOUS
<1> HIDE DEF q
<1>2. ASSUME NEW i \in Int, i * b <= a, a < (i + 1) * b
      PROVE  q = i
  <2>1. ~(q + 1 <= i)
    <3>1. q + 1 <= i => (q + 1) * b <= i * b
      BY <1>1, ProductGrows
    <3>2. (q + 1) * b \in Int /\ i * b \in Int
      BY <1>1
    <3> QED BY <1>1, <1>2, <3>1, <3>2
  <2>2. ~(i + 1 <= q)
    <3>1. i + 1 <= q => (i + 1) * b <= q * b
      BY <1>1, ProductGrows
    <3>2. (i + 1) * b \in Int /\ q * b \in Int
      BY <1>1
    <3> QED BY <1>1, <1>2, <3>1, <3>2
  <2> QED BY <1>1, <2>1, <2>2
<1> QED BY <1>1, <1>2 DEF q

-----------------------------------------------------------------------------
HistoFields == {"min", "max", "bins", "alloc", "tab", "skip", "lo", "hi", "n", "sums", "mean", "rms", "norm", "char", "fitOk", "wrecked"}

(* A table of a histogram, and a histogram whose table, unless it is        *)
(* broken, is for as many bins as it is said to have.                       *)
HasTab(h) == DOMAIN h.tab = 0 .. TabLen(h) - 1 /\ TabLen(h) \in Nat
Binned(h) ==
  /\ DOMAIN h = HistoFields /\ h.alloc \in BOOLEAN /\ h.wrecked \in BOOLEAN
  /\ h.min \in Int /\ h.max \in Int /\ h.bins \in Nat /\ h.skip \in Int
  /\ HasTab(h) /\ (h.bins = 0 => h.max <= h.min)
  /\ ~h.wrecked => /\ h.bins > 0 => h.alloc /\ h.bins <= TabLen(h)
                   /\ \A i \in Bins(h) : h.tab[i] \in Nat

(* The bin of a value in range, by the product. *)
LEMMA BinOf ==
  ASSUME NEW h, Binned(h), NEW v \in Int, InRange(h, v), h.bins > 0
  PROVE  /\ GetBinNo(h, v, 1) \in Bins(h)
         /\ \A i \in Bins(h) : GetBinNo(h, v, 1) = i <=> LiesIn(h, v, i)
<1> DEFINE w == h.max - h.min
           a == (v - h.min) * h.bins
           q == a \div w
<1>1. h.min \in Int /\ h.max \in Int /\ h.bins \in Nat /\ w \in Nat \ {0} /\ v - h.min \in Nat
  BY DEF Binned, InRange
<1>2. a \in Nat
  BY <1>1
<1>3. GetBinNo(h, v, 1) = q
  <2>1. (v - h.min * 1) * h.bins = a /\ (h.max - h.min) * 1 = w
    BY <1>1
  <2>2. (a < 0) = FALSE /\ (w < 0) = FALSE
    BY <1>1, <1>2
  <2> HIDE DEF a, w
  <2> QED BY <2>1, <2>2, Zenon DEF GetBinNo, q
<1>4. q \in Int /\ \A i \in Int : q = i <=> i * w <= a /\ a < (i + 1) * w
  <2>1. a \in Int /\ w \in Nat \ {0}
    BY <1>1, <1>2
  <2> HIDE DEF a, w
  <2> QED BY <2>1, Quotient, Zenon
<1>5. q >= 0
  <2>1. ~(q + 1 <= 0)
    <3>1. q + 1 <= 0 => (q + 1) * w <= 0 * w
      BY <1>1, <1>4, ProductGrows
    <3>2. (q + 1) * w > a
      BY <1>4
    <3> HIDE DEF q, a
    <3> QED BY <1>1, <1>2, <1>4, <3>1, <3>2
  <2> QED BY <1>4, <2>1
<1>6. q < h.bins
  <2>1. a < h.bins * w
    <3>1. v - h.min + 1 <= w
      BY <1>1 DEF InRange
    <3>2. (v - h.min + 1) * h.bins <= w * h.bins
      BY <1>1, <3>1, ProductGrows
    <3>3. (v - h.min + 1) * h.bins = a + h.bins /\ w * h.bins = h.bins * w
      BY <1>1
    <3> HIDE DEF a, w
    <3>4. h.bins * w \in Int
      BY <1>1
    <3> QED BY <1>1, <1>2, <3>2, <3>3, <3>4
  <2>2. h.bins <= q => h.bins * w <= q * w
    BY <1>1, <1>4, ProductGrows
  <2>3. q * w <= a /\ q * w \in Int /\ h.bins * w \in Int
    BY <1>1, <1>4
  <2> HIDE DEF q, a
  <2> QED BY <1>1, <1>2, <1>4, <2>1, <2>2, <2>3
<1>7. \A i \in Bins(h) : q = i <=> LiesIn(h, v, i)
  <2>1. Bins(h) \subseteq Int
    BY <1>1 DEF Bins
  <2> HIDE DEF q, a
  <2> QED BY <2>1, <1>4 DEF LiesIn, a
<1> QED BY <1>1, <1>3, <1>4, <1>5, <1>6, <1>7 DEF Bins

(* The centre of a bin lies in it, also of a range upside down. *)
LEMMA BinOfCentre ==
  ASSUME NEW h, Binned(h), h.min # h.max, NEW j \in Bins(h)
  PROVE  GetBinNo(h, GetBinCenter(h, j), CentreUnit(h)) = j
<1> DEFINE w == h.max - h.min
           B == h.bins
           size(x) == IF x < 0 THEN -x ELSE x
           a == (GetBinCenter(h, j) - h.min * CentreUnit(h)) * B
           b == w * CentreUnit(h)
           s == IF w < 0 THEN -w ELSE w
           e == s * B
<1>1. w \in Int /\ w # 0 /\ B \in Nat \ {0} /\ j \in Nat /\ h.min \in Int /\ s \in Nat \ {0}
  BY DEF Binned, Bins
<1> HIDE DEF w, B
<1>2. GetBinCenter(h, j) - h.min * CentreUnit(h) = (2 * j + 1) * w
  <2>1. GetBinCenter(h, j) = 2 * h.min * B + (2 * j + 1) * w /\ CentreUnit(h) = 2 * B
    BY DEF GetBinCenter, CentreUnit, w, B
  <2>2. h.min * (2 * B) = 2 * h.min * B /\ 2 * h.min * B \in Int /\ (2 * j + 1) * w \in Int
    BY <1>1
  <2> QED BY <2>1, <2>2
<1>3. e \in Nat \ {0} /\ w * B \in Int /\ (w < 0 <=> w * B < 0) /\ e = IF w * B < 0 THEN -(w * B) ELSE w * B
  <2>1. \A x, y \in Nat \ {0} : x * y \in Nat \ {0}
    OBVIOUS
  <2>2. e \in Nat \ {0}
    BY <2>1, <1>1
  <2>3. CASE w < 0
    <3>1. (-w) * B = -(w * B) /\ w * B \in Int
      BY <1>1
    <3> QED BY <2>2, <2>3, <3>1
  <2>4. CASE w > 0
    BY <2>2, <2>4, <1>1
  <2> QED BY <1>1, <2>3, <2>4
<1>4. a = (2 * j + 1) * (w * B) /\ b = 2 * (w * B)
  <2>1. ((2 * j + 1) * w) * B = (2 * j + 1) * (w * B) /\ w * (2 * B) = 2 * (w * B)
    BY <1>1
  <2> QED BY <1>2, <2>1 DEF CentreUnit, B
<1>5. a \in Int /\ b \in Int /\ size(a) = (2 * j + 1) * e /\ size(b) = 2 * e /\ (a < 0) = (b < 0)
  <2> DEFINE p == w * B
  <2> HIDE DEF e, p
  <2>1. p \in Int /\ e \in Nat \ {0} /\ e = IF p < 0 THEN -p ELSE p
    BY <1>3 DEF p
  <2>2. a = (2 * j + 1) * p /\ b = 2 * p
    BY <1>4 DEF p
  <2> HIDE DEF a, b
  <2>3. CASE p < 0
    <3>1. (2 * j + 1) * p = -((2 * j + 1) * e) /\ (2 * j + 1) * e \in Nat \ {0}
      BY <2>1, <2>3, <1>1
    <3> QED BY <2>1, <2>2, <2>3, <3>1
  <2>4. CASE p >= 0
    <3>1. (2 * j + 1) * e \in Nat \ {0} /\ e = p
      BY <2>1, <2>4, <1>1
    <3> QED BY <2>1, <2>2, <2>4, <3>1
  <2> QED BY <2>1, <2>3, <2>4
<1>6. size(a) \div size(b) = j
  <2> HIDE DEF e
  <2>1. (2 * j + 1) * e \in Int /\ 2 * e \in Nat \ {0}
    BY <1>1, <1>3
  <2>2. j * (2 * e) <= (2 * j + 1) * e /\ (2 * j + 1) * e < (j + 1) * (2 * e)
    <3>1. j * (2 * e) = 2 * (j * e) /\ (2 * j + 1) * e = 2 * (j * e) + e /\ (j + 1) * (2 * e) = 2 * (j * e) + 2 * e /\ j * e \in Int
      BY <1>1, <1>3
    <3> QED BY <1>3, <3>1
  <2>3. j \in Int
    BY <1>1
  <2>4. ((2 * j + 1) * e) \div (2 * e) = j
    BY <2>1, <2>2, <2>3, Quotient
  <2> QED BY <1>5, <2>4
<1> DEFINE same == (a < 0) = (b < 0)
           q == size(a) \div size(b)
<1>7. GetBinNo(h, GetBinCenter(h, j), CentreUnit(h)) = IF same THEN q ELSE -q
  BY Zenon DEF GetBinNo, B, w
<1>8. same /\ q = j
  BY <1>5, <1>6
<1> HIDE DEF same, q
<1> QED BY <1>7, <1>8

(* A table over the first L numbers is as long as it shows.                 *)
LEMMA TabOf ==
  ASSUME NEW h, NEW L \in Nat, DOMAIN h.tab = 0 .. L - 1
  PROVE  HasTab(h) /\ TabLen(h) = L
<1>1. Cardinality(0 .. L - 1) = L
  BY FS_Interval
<1> QED BY <1>1 DEF HasTab, TabLen

(* Cleared, a histogram has no counts, or is broken. *)
LEMMA Cleared ==
  ASSUME NEW h, DOMAIN h = HistoFields, h.alloc, h.wrecked \in BOOLEAN, h.bins \in Nat, HasTab(h)
  PROVE  LET r == ClearHisto(h)
         IN  /\ DOMAIN r = HistoFields /\ r.alloc /\ r.wrecked \in BOOLEAN
             /\ r.min = h.min /\ r.max = h.max /\ r.bins = h.bins /\ r.skip = h.skip
             /\ HasTab(r) /\ TabLen(r) = TabLen(h)
             /\ ~r.wrecked => /\ ~h.wrecked /\ h.bins <= TabLen(h) /\ r.n = 0
                              /\ \A i \in Bins(h) : r.tab[i] = 0
<1> DEFINE tab == [i \in DOMAIN h.tab |-> IF i < h.bins THEN 0 ELSE h.tab[i]]
           h1 == [h EXCEPT !.tab = tab, !.mean = NoSums, !.rms = NoSums, !.norm = 0, !.char = FALSE, !.n = 0, !.sums = NoSums]
           r == ClearHisto(h)
<1>1. r = IF h.bins > TabLen(h) THEN Broken(h1) ELSE h1
  BY Zenon DEF ClearHisto
<1>2. /\ DOMAIN h1 = HistoFields /\ h1.alloc = h.alloc /\ h1.wrecked = h.wrecked /\ h1.min = h.min /\ h1.max = h.max
      /\ h1.bins = h.bins /\ h1.skip = h.skip /\ h1.tab = tab /\ h1.n = 0
  BY DEF HistoFields
<1>3. DOMAIN tab = DOMAIN h.tab /\ \A i \in DOMAIN h.tab : i < h.bins => tab[i] = 0
  OBVIOUS
<1> HIDE DEF h1, tab, r
<1>4. /\ DOMAIN r = HistoFields /\ r.alloc = h.alloc /\ r.min = h.min /\ r.max = h.max
      /\ r.bins = h.bins /\ r.skip = h.skip /\ r.tab = tab /\ r.n = 0
      /\ r.wrecked = IF h.bins > TabLen(h) THEN TRUE ELSE h.wrecked
  BY <1>1, <1>2 DEF Broken, HistoFields
<1>5. HasTab(r) /\ TabLen(r) = TabLen(h)
  BY <1>3, <1>4 DEF HasTab, TabLen
<1>6. TabLen(h) \in Nat /\ DOMAIN h.tab = 0 .. TabLen(h) - 1
  BY DEF HasTab
<1>7. ~r.wrecked => ~h.wrecked /\ h.bins <= TabLen(h) /\ \A i \in Bins(h) : r.tab[i] = 0
  BY <1>3, <1>4, <1>6 DEF Bins
<1> QED BY <1>4, <1>5, <1>7 DEF r

(* Made or given another range: the table is for the bins, and empty. *)
LEMMA TabMade ==
  ASSUME NEW h, DOMAIN h = HistoFields, h.alloc \in BOOLEAN, h.wrecked \in BOOLEAN, h.bins \in Nat \ {0},
         h.alloc => HasTab(h)
  PROVE  LET r == InitTab(h)
         IN  /\ DOMAIN r = HistoFields /\ r.alloc /\ r.wrecked \in BOOLEAN
             /\ r.min = h.min /\ r.max = h.max /\ r.bins = h.bins /\ r.skip = h.skip /\ HasTab(r)
             /\ ~r.wrecked => /\ ~h.wrecked /\ r.bins <= TabLen(r) /\ r.n = 0
                              /\ \A i \in Bins(h) : r.tab[i] = 0
<1> DEFINE h1 == IF h.alloc THEN h ELSE [h EXCEPT !.alloc = TRUE, !.tab = EmptyTab(h.bins)]
<1>1. InitTab(h) = ClearHisto(h1)
  BY DEF InitTab
<1>2. /\ DOMAIN h1 = HistoFields /\ h1.alloc /\ h1.wrecked = h.wrecked
      /\ h1.min = h.min /\ h1.max = h.max /\ h1.bins = h.bins /\ h1.skip = h.skip
      /\ h1.alloc /\ (~h.alloc => h1.tab = EmptyTab(h.bins)) /\ (h.alloc => h1.tab = h.tab)
  BY DEF HistoFields
<1> HIDE DEF h1
<1>3. HasTab(h1)
  <2>1. CASE h.alloc
    BY <1>2, <2>1 DEF HasTab, TabLen
  <2>2. CASE ~h.alloc
    <3>1. DOMAIN h1.tab = 0 .. h.bins - 1
      BY <1>2, <2>2 DEF EmptyTab
    <3> QED BY <3>1, TabOf
  <2> QED BY <2>1, <2>2
<1> DEFINE r == ClearHisto(h1)
<1>4. /\ DOMAIN r = HistoFields /\ r.alloc /\ r.wrecked \in BOOLEAN
      /\ r.min = h1.min /\ r.max = h1.max /\ r.bins = h1.bins /\ r.skip = h1.skip
      /\ HasTab(r) /\ TabLen(r) = TabLen(h1)
      /\ ~r.wrecked => /\ ~h1.wrecked /\ h1.bins <= TabLen(h1) /\ r.n = 0
                       /\ \A i \in Bins(h1) : r.tab[i] = 0
  BY <1>2, <1>3, Cleared
<1> HIDE DEF r
<1>5. Bins(h1) = Bins(h)
  BY <1>2 DEF Bins
<1> QED BY <1>1, <1>2, <1>4, <1>5 DEF r

Empty(h) == ~h.wrecked => h.n = 0 /\ \A i \in Bins(h) : h.tab[i] = 0

(* An empty table of enough bins is sound.                                  *)
LEMMA EmptyBinned ==
  ASSUME NEW h, DOMAIN h = HistoFields, h.alloc, h.wrecked \in BOOLEAN, h.bins \in Nat \ {0},
         h.min \in Int, h.max \in Int, h.skip \in Int, HasTab(h), Empty(h), ~h.wrecked => h.bins <= TabLen(h)
  PROVE  Binned(h)
BY DEF Binned, Empty

(* Init, called again or first, leaves an empty histogram or a broken one.  *)
LEMMA Remade ==
  ASSUME NEW h, DOMAIN h = HistoFields, h.alloc \in BOOLEAN, h.wrecked \in BOOLEAN, HasTab(h),
         NEW min \in Int, NEW max \in Int, NEW bins \in Nat \ {0}
  PROVE  Binned(InitHisto(h, min, max, bins)) /\ Empty(InitHisto(h, min, max, bins))
<1> DEFINE h1 == IF h.bins # bins THEN [h EXCEPT !.alloc = FALSE, !.tab = <<>>] ELSE h
           h2 == [h1 EXCEPT !.min = min, !.max = max, !.bins = bins, !.skip = -1, !.lo = Lowest, !.hi = -Lowest,
                            !.sums = NoSums]
           r == InitTab(h2)
<1>1. InitHisto(h, min, max, bins) = r
  BY Zenon DEF InitHisto
<1>2. DOMAIN h1 = HistoFields /\ h1.alloc \in BOOLEAN /\ h1.wrecked = h.wrecked /\ (h1.alloc => h1 = h)
  BY DEF HistoFields
<1> HIDE DEF h1
<1>3. /\ DOMAIN h2 = HistoFields /\ h2.alloc = h1.alloc /\ h2.wrecked = h.wrecked /\ h2.tab = h1.tab
      /\ h2.min = min /\ h2.max = max /\ h2.bins = bins /\ h2.skip = -1
  BY <1>2 DEF HistoFields
<1> HIDE DEF h2
<1>4. h2.alloc => HasTab(h2)
  BY <1>2, <1>3 DEF HasTab, TabLen
<1>5. /\ DOMAIN r = HistoFields /\ r.alloc /\ r.wrecked \in BOOLEAN
      /\ r.min = min /\ r.max = max /\ r.bins = bins /\ r.skip = -1 /\ HasTab(r)
      /\ ~r.wrecked => /\ r.bins <= TabLen(r) /\ r.n = 0 /\ \A i \in Bins(h2) : r.tab[i] = 0
  BY <1>2, <1>3, <1>4, TabMade
<1> HIDE DEF r
<1>6. Empty(r)
  BY <1>3, <1>5 DEF Empty, Bins
<1> QED BY <1>1, <1>5, <1>6, EmptyBinned

(* And so does Clear.                                                       *)
LEMMA ClearedBinned ==
  ASSUME NEW h, Binned(h)
  PROVE  Binned(ClearHisto(h)) /\ Empty(ClearHisto(h))
<1> DEFINE r == ClearHisto(h)
<1>1. CASE h.alloc
  <2>1. /\ DOMAIN r = HistoFields /\ r.alloc /\ r.wrecked \in BOOLEAN
        /\ r.min = h.min /\ r.max = h.max /\ r.bins = h.bins /\ r.skip = h.skip
        /\ HasTab(r) /\ TabLen(r) = TabLen(h)
        /\ ~r.wrecked => /\ ~h.wrecked /\ h.bins <= TabLen(h) /\ r.n = 0
                         /\ \A i \in Bins(h) : r.tab[i] = 0
    BY <1>1, Cleared DEF Binned
  <2> HIDE DEF r
  <2>2. Bins(r) = Bins(h)
    BY <2>1 DEF Bins
  <2>3. Empty(r)
    BY <2>1, <2>2 DEF Empty
  <2>4. Binned(r)
    BY <2>1, <2>2 DEF Binned
  <2> QED BY <2>3, <2>4 DEF r
<1>2. CASE ~h.alloc
  <2>1. /\ DOMAIN r = HistoFields /\ r.alloc = h.alloc /\ r.wrecked = h.wrecked /\ r.tab = h.tab
        /\ r.min = h.min /\ r.max = h.max /\ r.bins = h.bins /\ r.skip = h.skip /\ r.n = 0
    BY <1>2 DEF ClearHisto, HistoFields, Binned
  <2> HIDE DEF r
  <2>2. Bins(r) = Bins(h) /\ HasTab(r) /\ TabLen(r) = TabLen(h)
    BY <2>1 DEF Bins, HasTab, TabLen, Binned
  <2>3. Binned(r)
    BY <2>1, <2>2 DEF Binned
  <2>4. ~r.wrecked => Bins(h) = {}
    BY <1>2, <2>1 DEF Binned, Bins
  <2> QED BY <2>1, <2>2, <2>3, <2>4 DEF Empty, r
<1> QED BY <1>1, <1>2 DEF Binned

-----------------------------------------------------------------------------
(* How many of the values are in T. *)
Among(values, T) == Cardinality({k \in DOMAIN values : values[k] \in T})

(* None of no values.                                                       *)
LEMMA AmongNone ==
  ASSUME NEW T
  PROVE  Among(<<>>, T) = 0
<1>1. {k \in DOMAIN <<>> : <<>>[k] \in T} = {}
  OBVIOUS
<1> QED BY <1>1, FS_EmptySet DEF Among

(* One more value is one more of those in T when it is in T.                *)
LEMMA AmongMore ==
  ASSUME NEW values \in Seq(Int), NEW v \in Int, NEW T
  PROVE  /\ Among(values, T) \in Nat
         /\ Among(Append(values, v), T) = Among(values, T) + IF v \in T THEN 1 ELSE 0
<1> DEFINE n == Len(values)
           more == Append(values, v)
           S == {k \in DOMAIN values : values[k] \in T}
           S2 == {k \in DOMAIN more : more[k] \in T}
<1>1. n \in Nat /\ DOMAIN values = 1 .. n /\ DOMAIN more = 1 .. n + 1 /\ more[n + 1] = v /\ \A k \in 1 .. n : more[k] = values[k]
  OBVIOUS
<1>2. IsFiniteSet(S) /\ Cardinality(S) \in Nat
  <2>1. IsFiniteSet(1 .. n) /\ S \subseteq 1 .. n
    BY <1>1, FS_Interval
  <2> HIDE DEF S
  <2>2. IsFiniteSet(S)
    BY <2>1, FS_Subset
  <2> QED BY <2>2, FS_CardinalityType
<1>3. CASE v \in T
  <2>1. S2 = S \cup {n + 1} /\ n + 1 \notin S
    BY <1>1, <1>3
  <2> HIDE DEF S, S2
  <2>2. Cardinality(S2) = Cardinality(S) + 1
    BY <2>1, <1>2, FS_AddElement
  <2>3. Among(values, T) = Cardinality(S) /\ Among(more, T) = Cardinality(S2)
    BY Zenon DEF Among, S, S2
  <2> QED BY <2>2, <2>3, <1>2, <1>3
<1>4. CASE v \notin T
  <2>1. S2 = S
    BY <1>1, <1>4
  <2>2. Among(values, T) = Cardinality(S) /\ Among(more, T) = Cardinality(S2)
    BY Zenon DEF Among
  <2> HIDE DEF S, S2
  <2> QED BY <2>1, <2>2, <1>2, <1>4
<1> QED BY <1>3, <1>4

(* What a histogram counts, in all and in a bin, of a file and values. *)
CountsOf(h) == {v \in Int : Counts(h, v)}
CountsIn(h, i) == {v \in Int : Counts(h, v) /\ LiesIn(h, v, i)}
HitsOf(file) == IF file = NoFile THEN 0 ELSE file.hits
RowOf(file, i) == IF file = NoFile THEN 0 ELSE file.counts[i]
Tally(h, o) ==
  ~h.wrecked => /\ o.from # NoFile => o.from.bins = h.bins
                /\ h.n = Among(o.values, CountsOf(h)) + HitsOf(o.from)
                /\ \A i \in Bins(h) : h.tab[i] = Among(o.values, CountsIn(h, i)) + RowOf(o.from, i)

IsDump(f) ==
  f # NoFile => /\ f.min \in Int /\ f.max \in Int /\ f.bins \in Nat /\ (f.bins = 0 => f.max <= f.min) /\ f.hits \in Int
                /\ \A i \in 0 .. f.bins - 1 : f.counts[i] \in Nat
IsOffer(o) == o.values \in Seq(Int) /\ IsDump(o.from)

(* The sums kept by the induction are the tallies of the property.          *)
LEMMA TallyTells ==
  ASSUME IsOffer(offered), Tally(histo, offered)
  PROVE  Tallied
<1> DEFINE counted == {k \in DOMAIN offered.values : Counts(histo, offered.values[k])}
<1>1. \A k \in DOMAIN offered.values : offered.values[k] \in Int
  BY DEF IsOffer
<1>2. Among(offered.values, CountsOf(histo)) = Cardinality(counted)
  <2>1. counted = {k \in DOMAIN offered.values : offered.values[k] \in CountsOf(histo)}
    BY <1>1 DEF CountsOf
  <2> QED BY <2>1 DEF Among
<1>3. ASSUME NEW i \in Bins(histo)
      PROVE  Among(offered.values, CountsIn(histo, i)) = Cardinality({k \in counted : LiesIn(histo, offered.values[k], i)})
  <2>1. {k \in counted : LiesIn(histo, offered.values[k], i)} = {k \in DOMAIN offered.values : offered.values[k] \in CountsIn(histo, i)}
    BY <1>1 DEF CountsIn
  <2> QED BY <2>1 DEF Among
<1> HIDE DEF counted
<1>4. ASSUME ~histo.wrecked
      PROVE  /\ histo.n = Cardinality(counted) + (IF offered.from = NoFile THEN 0 ELSE offered.from.hits)
             /\ \A i \in Bins(histo) :
                  histo.tab[i] = Cardinality({k \in counted : LiesIn(histo, offered.values[k], i)})
                                   + (IF offered.from = NoFile THEN 0 ELSE offered.from.counts[i])
  BY <1>2, <1>3, <1>4 DEF Tally, HitsOf, RowOf
<1> QED BY <1>4 DEF Tallied, counted

(* A histogram that only notes what it has found counts the same. *)
SameHisto(h, h2) ==
  /\ DOMAIN h2 = DOMAIN h /\ h2.alloc = h.alloc /\ h2.wrecked = h.wrecked /\ h2.min = h.min /\ h2.max = h.max
  /\ h2.bins = h.bins /\ h2.skip = h.skip /\ h2.tab = h.tab /\ h2.n = h.n

(* Such a histogram stays sound and keeps its tallies.                      *)
LEMMA SameCounts ==
  ASSUME NEW h, NEW h2, NEW o, Binned(h), Tally(h, o), SameHisto(h, h2)
  PROVE  Binned(h2) /\ Tally(h2, o)
<1>1. Binned(h2)
  BY DEF SameHisto, Binned, HasTab, TabLen, Bins
<1>2. /\ CountsOf(h2) = CountsOf(h) /\ \A i : CountsIn(h2, i) = CountsIn(h, i)
      /\ Bins(h2) = Bins(h)
  BY DEF SameHisto, CountsOf, CountsIn, Counts, InRange, Skipped, LiesIn, Bins
<1>3. Tally(h2, o)
  BY <1>2 DEF Tally, SameHisto
<1> QED BY <1>1, <1>3

(* GetStatValues, CalcAllValues and a fit only note.                        *)
LEMMA Noted ==
  ASSUME NEW h, Binned(h)
  PROVE  /\ SameHisto(h, GetStatValues(h)) /\ SameHisto(h, CalcAllValues(h))
         /\ \A f : SameHisto(h, AfterFit(h, f))
<1>1. ASSUME NEW mean, NEW rms, NEW norm PROVE SameHisto(h, SetCharValues(h, mean, rms, norm))
  BY DEF SetCharValues, SameHisto, Binned, HistoFields
<1>2. SameHisto(h, GetStatValues(h))
  <2>1. SameHisto(h, h)
    BY DEF SameHisto
  <2> QED BY <1>1, <2>1, Zenon DEF GetStatValues
<1>3. SameHisto(h, CalcAllValues(h))
  BY <1>1, Zenon DEF CalcAllValues
<1>4. ASSUME NEW f PROVE SameHisto(h, AfterFit(h, f))
  BY DEF AfterFit, SameHisto, Binned, HistoFields
<1> QED BY <1>2, <1>3, <1>4

(* Empty counts match nothing offered. *)
LEMMA EmptyTallies ==
  ASSUME NEW h, Empty(h)
  PROVE  Tally(h, [from |-> NoFile, values |-> <<>>])
BY AmongNone DEF Tally, Empty, HitsOf, RowOf

(* A filled value goes to the one bin it lies in, and is counted there.     *)
LEMMA Filling ==
  ASSUME NEW h, NEW o, NEW v \in Int, Binned(h), ~h.wrecked, IsOffer(o), Tally(h, o),
         DOMAIN o = {"from", "values"}
  PROVE  /\ Binned(Fill(h, v)) /\ Tally(Fill(h, v), [o EXCEPT !.values = Append(@, v)])
         /\ IsOffer([o EXCEPT !.values = Append(@, v)])
<1> DEFINE b == GetBinNo(h, v, 1)
           o2 == [o EXCEPT !.values = Append(@, v)]
           more == Append(o.values, v)
           h1 == IF ~InRange(h, v) THEN h
                 ELSE [h EXCEPT !.tab[b] = @ + 1, !.n = @ + 1, !.sums = [@ EXCEPT !.n = h.n + 1, !.sum = @ + v, !.sum2 = @ + v * v]]
           h2 == [h1 EXCEPT !.hi = IF v > @ THEN v ELSE @, !.lo = IF v < @ THEN v ELSE @]
           r == Fill(h, v)
<1>1. o2.from = o.from /\ o2.values = more /\ more \in Seq(Int) /\ IsOffer(o2)
  BY DEF IsOffer
<1>2. r = IF Skipped(h, v) THEN h ELSE h2
  BY Zenon DEF Fill
<1>3. /\ DOMAIN h1 = HistoFields /\ h1.alloc = h.alloc /\ h1.wrecked = h.wrecked /\ h1.min = h.min /\ h1.max = h.max
      /\ h1.bins = h.bins /\ h1.skip = h.skip
      /\ InRange(h, v) => h1.tab = [h.tab EXCEPT ![b] = @ + 1] /\ h1.n = h.n + 1
      /\ ~InRange(h, v) => h1.tab = h.tab /\ h1.n = h.n
  BY DEF Binned, HistoFields
<1> HIDE DEF h1
<1>4. SameHisto(h1, h2)
  BY <1>3 DEF SameHisto, HistoFields
<1> HIDE DEF h2
<1>5. \A T : Among(o.values, T) \in Nat /\ Among(more, T) = Among(o.values, T) + IF v \in T THEN 1 ELSE 0
  BY AmongMore DEF IsOffer
<1>6. HitsOf(o2.from) = HitsOf(o.from) /\ \A i : RowOf(o2.from, i) = RowOf(o.from, i)
  BY <1>1
<1> HIDE DEF o2, more
<1>7. CASE Skipped(h, v) \/ ~InRange(h, v)
  <2>1. SameHisto(h, r)
    <3>1. SameHisto(h, h)
      BY DEF SameHisto
    <3>2. ~Skipped(h, v) => SameHisto(h, h2)
      BY <1>3, <1>4, <1>7 DEF SameHisto, Binned
    <3> QED BY <1>2, <3>1, <3>2
  <2>2. v \notin CountsOf(h) /\ \A i : v \notin CountsIn(h, i)
    BY <1>7 DEF CountsOf, CountsIn, Counts
  <2>3. \A T : v \notin T => Among(more, T) = Among(o.values, T)
    BY <1>5
  <2>4. Tally(h, o2)
    BY <1>1, <1>6, <2>2, <2>3 DEF Tally
  <2> QED BY <1>1, <2>1, <2>4, SameCounts DEF o2, r
<1>8. CASE ~Skipped(h, v) /\ InRange(h, v)
  <2>1. h.bins > 0 /\ h.bins \in Nat
    BY <1>8 DEF Binned, InRange
  <2>2. b \in Bins(h) /\ \A i \in Bins(h) : b = i <=> LiesIn(h, v, i)
    BY <1>8, <2>1, BinOf
  <2> HIDE DEF b
  <2>3. DOMAIN h.tab = 0 .. TabLen(h) - 1 /\ TabLen(h) \in Nat /\ h.bins <= TabLen(h) /\ \A i \in Bins(h) : h.tab[i] \in Nat
    BY <2>1 DEF Binned, HasTab
  <2>4. DOMAIN h1.tab = DOMAIN h.tab /\ \A i \in Bins(h) : h1.tab[i] = IF i = b THEN h.tab[i] + 1 ELSE h.tab[i]
    <3>1. b \in DOMAIN h.tab /\ Bins(h) \subseteq DOMAIN h.tab
      BY <2>1, <2>2, <2>3 DEF Bins
    <3>2. h1.tab = [h.tab EXCEPT ![b] = @ + 1]
      BY <1>3, <1>8
    <3> QED BY <3>1, <3>2
  <2>5. Bins(h1) = Bins(h) /\ TabLen(h1) = TabLen(h) /\ h1.n = h.n + 1
    BY <1>3, <1>8, <2>4 DEF Bins, TabLen
  <2>6. Binned(h1)
    BY <1>3, <2>3, <2>4, <2>5 DEF Binned, HasTab
  <2>7. CountsOf(h1) = CountsOf(h) /\ \A i : CountsIn(h1, i) = CountsIn(h, i)
    BY <1>3 DEF CountsOf, CountsIn, Counts, InRange, Skipped, LiesIn
  <2>8. v \in CountsOf(h) /\ \A i \in Bins(h) : v \in CountsIn(h, i) <=> i = b
    BY <1>8, <2>2 DEF CountsOf, CountsIn, Counts
  <2>9. Among(more, CountsOf(h)) = Among(o.values, CountsOf(h)) + 1
    BY <1>5, <2>8
  <2>10. \A i \in Bins(h) : Among(more, CountsIn(h, i)) = Among(o.values, CountsIn(h, i)) + IF i = b THEN 1 ELSE 0
    BY <1>5, <2>8
  <2>11. h.n = Among(o.values, CountsOf(h)) + HitsOf(o.from)
         /\ \A i \in Bins(h) : h.tab[i] = Among(o.values, CountsIn(h, i)) + RowOf(o.from, i)
    BY DEF Tally
  <2>12. HitsOf(o.from) \in Int
    BY DEF IsOffer, IsDump, HitsOf
  <2>13. \A i \in Bins(h) : RowOf(o.from, i) \in Int
    BY DEF Tally, IsOffer, IsDump, RowOf, Bins
  <2>14. h1.n = Among(more, CountsOf(h)) + HitsOf(o.from)
    BY <1>5, <2>5, <2>9, <2>11, <2>12
  <2>15. ASSUME NEW i \in Bins(h) PROVE h1.tab[i] = Among(more, CountsIn(h, i)) + RowOf(o.from, i)
    BY <1>5, <2>4, <2>10, <2>11, <2>13
  <2>16. Tally(h1, o2)
    BY <1>1, <1>3, <1>6, <2>5, <2>7, <2>14, <2>15 DEF Tally
  <2> QED BY <1>1, <1>2, <1>4, <1>8, <2>6, <2>16, SameCounts DEF o2, r
<1> QED BY <1>7, <1>8

(* What is read back is what was dumped, or the histogram is broken. *)
LEMMA ReadBack ==
  ASSUME NEW h, NEW f, Binned(h), ~h.wrecked, IsDump(f), f # NoFile
  PROVE  Binned(ReadHisto(h, f)) /\ Tally(ReadHisto(h, f), [from |-> f, values |-> <<>>])
<1> DEFINE h0 == [h EXCEPT !.min = f.min, !.max = f.max, !.bins = f.bins]
           h1 == InitTab(h0)
           h2 == [h1 EXCEPT !.rms = f.rms, !.mean = f.mean, !.norm = f.norm, !.fitOk = f.fitOk, !.n = f.hits]
           rows(i) == {j \in 0 .. f.bins - 1 : GetBinNo(h1, GetBinCenter(h1, j), CentreUnit(h1)) = i}
           tab == [i \in DOMAIN h2.tab |-> IF rows(i) = {} THEN h2.tab[i] ELSE f.counts[Max(rows(i))]]
           h3 == [h2 EXCEPT !.tab = tab]
           bad == h2.wrecked \/ (f.bins > 0 /\ f.min = f.max)
           r == ReadHisto(h, f)
           o == [from |-> f, values |-> <<>>]
<1>1. r = IF bad THEN Broken(h2) ELSE h3
  BY Zenon DEF ReadHisto
<1>2. f.min \in Int /\ f.max \in Int /\ f.bins \in Nat /\ (f.bins = 0 => f.max <= f.min) /\ f.hits \in Int
      /\ \A i \in 0 .. f.bins - 1 : f.counts[i] \in Nat
  BY DEF IsDump
<1>3. /\ DOMAIN h0 = HistoFields /\ h0.alloc = h.alloc /\ h0.wrecked = h.wrecked /\ h0.tab = h.tab /\ h0.skip = h.skip
      /\ h0.min = f.min /\ h0.max = f.max /\ h0.bins = f.bins
  BY DEF Binned, HistoFields
<1> HIDE DEF h0
<1>4. HasTab(h0) /\ h0.alloc \in BOOLEAN /\ h0.wrecked \in BOOLEAN
  BY <1>3 DEF Binned, HasTab, TabLen
<1>5. /\ DOMAIN h1 = HistoFields /\ h1.alloc \in BOOLEAN /\ h1.wrecked \in BOOLEAN
      /\ h1.min = f.min /\ h1.max = f.max /\ h1.bins = f.bins /\ h1.skip = h.skip /\ HasTab(h1)
      /\ ~h1.wrecked /\ f.bins > 0 => h1.alloc /\ f.bins <= TabLen(h1) /\ \A i \in 0 .. f.bins - 1 : h1.tab[i] = 0
  <2>1. CASE f.bins = 0
    <3>1. h1 = h0
      BY <1>3, <2>1 DEF InitTab
    <3> HIDE DEF h1
    <3> QED BY <1>3, <1>4, <2>1, <3>1
  <2>2. CASE f.bins # 0
    <3>1. h0.bins \in Nat \ {0}
      BY <1>2, <1>3, <2>2
    <3>2. /\ DOMAIN h1 = HistoFields /\ h1.alloc /\ h1.wrecked \in BOOLEAN
          /\ h1.min = h0.min /\ h1.max = h0.max /\ h1.bins = h0.bins /\ h1.skip = h0.skip /\ HasTab(h1)
          /\ ~h1.wrecked => /\ ~h0.wrecked /\ h1.bins <= TabLen(h1) /\ h1.n = 0
                            /\ \A i \in Bins(h0) : h1.tab[i] = 0
      BY <1>3, <1>4, <3>1, TabMade
    <3> HIDE DEF h1
    <3> QED BY <1>3, <3>2 DEF Bins
  <2> QED BY <2>1, <2>2
<1> HIDE DEF h1
<1>6. /\ DOMAIN h2 = HistoFields /\ h2.alloc = h1.alloc /\ h2.wrecked = h1.wrecked /\ h2.tab = h1.tab
      /\ h2.min = f.min /\ h2.max = f.max /\ h2.bins = f.bins /\ h2.skip = h.skip /\ h2.n = f.hits
  BY <1>5 DEF HistoFields
<1> HIDE DEF h2
<1>7. CASE bad
  <2>1. /\ DOMAIN r = HistoFields /\ r.alloc = h1.alloc /\ r.wrecked = TRUE /\ r.tab = h1.tab
        /\ r.min = f.min /\ r.max = f.max /\ r.bins = f.bins /\ r.skip = h.skip
    BY <1>1, <1>6, <1>7 DEF Broken, HistoFields
  <2> HIDE DEF r
  <2>2. Binned(r)
    BY <1>2, <1>5, <2>1 DEF Binned, HasTab, TabLen
  <2>3. Tally(r, o)
    BY <2>1 DEF Tally
  <2> QED BY <2>2, <2>3 DEF r
<1>8. CASE ~bad
  <2>1. /\ DOMAIN h3 = HistoFields /\ h3.alloc = h1.alloc /\ h3.wrecked = FALSE /\ h3.tab = tab
        /\ h3.min = f.min /\ h3.max = f.max /\ h3.bins = f.bins /\ h3.skip = h.skip /\ h3.n = f.hits
    BY <1>5, <1>6, <1>8 DEF HistoFields
  <2>2. DOMAIN tab = DOMAIN h1.tab
    BY <1>6
  <2>3. Binned(h1) /\ (f.bins > 0 => f.bins <= TabLen(h1))
    <3>1. \A i \in Bins(h1) : h1.tab[i] \in Nat
      BY <1>2, <1>5, <1>6, <1>8 DEF Bins
    <3> QED BY <1>2, <1>5, <1>6, <1>8, <3>1 DEF Binned
  <2>4. ASSUME NEW i \in 0 .. f.bins - 1
        PROVE  tab[i] = f.counts[i]
    <3>1. f.bins > 0 /\ f.min # f.max /\ i \in DOMAIN h2.tab
      BY <1>2, <1>5, <1>6, <1>8, <2>3 DEF HasTab
    <3>2. \A j \in 0 .. f.bins - 1 : GetBinNo(h1, GetBinCenter(h1, j), CentreUnit(h1)) = j
      BY <1>5, <2>3, <3>1, BinOfCentre DEF Bins
    <3>3. rows(i) = {i}
      BY <3>2
    <3> DEFINE s == rows(i)
    <3>4. tab[i] = IF s = {} THEN h2.tab[i] ELSE f.counts[Max(s)]
      BY <3>1
    <3> HIDE DEF s, tab
    <3>5. Max({i}) = i
      BY <1>2 DEF Max
    <3> QED BY <3>3, <3>4, <3>5 DEF s
  <2> HIDE DEF tab, h3
  <2>5. HasTab(h3) /\ TabLen(h3) = TabLen(h1)
    BY <2>1, <2>2, <1>5 DEF HasTab, TabLen
  <2>6. Binned(h3)
    BY <1>2, <1>5, <1>6, <1>8, <2>1, <2>3, <2>4, <2>5 DEF Binned, Bins
  <2>7. Tally(h3, o)
    BY <1>2, <2>1, <2>4, AmongNone DEF Tally, HitsOf, RowOf, Bins
  <2> QED BY <1>1, <1>8, <2>6, <2>7 DEF o
<1> QED BY <1>7, <1>8

HistoSound ==
  /\ Binned(histo) /\ Tally(histo, offered)
  /\ DOMAIN offered = {"from", "values"} /\ IsOffer(offered) /\ IsDump(dumped)

(* A new histogram is sound.                                                *)
LEMMA HistoInitSound ==
  ASSUME HistoInit
  PROVE  HistoSound
<1> DEFINE o == [from |-> NoFile, values |-> <<>>]
<1>1. offered = o /\ DOMAIN o = {"from", "values"} /\ IsOffer(o) /\ IsDump(dumped)
  BY DEF HistoInit, IsOffer, IsDump
<1>2. ASSUME NEW skip \in Int
      PROVE  /\ Binned(NamedHisto(skip)) /\ Empty(NamedHisto(skip)) /\ DOMAIN NamedHisto(skip) = HistoFields
             /\ NamedHisto(skip).alloc \in BOOLEAN /\ NamedHisto(skip).wrecked \in BOOLEAN /\ HasTab(NamedHisto(skip))
  <2> DEFINE h == NamedHisto(skip)
  <2>1. /\ DOMAIN h = HistoFields /\ h.alloc = FALSE /\ h.wrecked = FALSE /\ h.min = 0 /\ h.max = 0 /\ h.bins = 0
        /\ h.skip = skip /\ h.tab = <<>> /\ h.n = 0
    BY DEF NamedHisto, HistoFields
  <2> HIDE DEF h
  <2>0. h.alloc \in BOOLEAN /\ h.wrecked \in BOOLEAN
    BY <2>1, Zenon
  <2>2. DOMAIN h.tab = 0 .. 0 - 1
    BY <2>1
  <2>3. HasTab(h)
    BY <2>2, TabOf
  <2>4. Bins(h) = {}
    BY <2>1 DEF Bins
  <2>5. Binned(h)
    BY <2>0, <2>1, <2>3, <2>4 DEF Binned
  <2>6. Empty(h)
    BY <2>1, <2>4 DEF Empty
  <2> QED BY <2>0, <2>1, <2>3, <2>5, <2>6 DEF h
<1>3. Binned(histo) /\ Empty(histo)
  <2>1. ASSUME NEW r \in Ranges, histo = NewHisto(r[1], r[2], r[3])
        PROVE  Binned(histo) /\ Empty(histo)
    <3>1. r[1] \in Int /\ r[2] \in Int /\ r[3] \in Nat \ {0}
      BY HistoAssumption
    <3>2. histo = InitHisto(NamedHisto(-1), r[1], r[2], r[3])
      BY <2>1 DEF NewHisto
    <3>3. -1 \in Int
      OBVIOUS
    <3> QED BY <3>1, <3>2, <3>3, <1>2, Remade
  <2>2. ASSUME NEW skip \in {-1} \cup Filled, histo = NamedHisto(skip)
        PROVE  Binned(histo) /\ Empty(histo)
    <3>1. skip \in Int
      BY HistoAssumption
    <3> QED BY <1>2, <2>2, <3>1
  <2> QED BY <2>1, <2>2 DEF HistoInit
<1> QED BY <1>1, <1>3, EmptyTallies DEF HistoSound

(* Every call keeps it so.                                                  *)
LEMMA HistoNextSound ==
  ASSUME HistoSound, [HistoNext]_histoVars
  PROVE  HistoSound'
<1> DEFINE o == [from |-> NoFile, values |-> <<>>]
<1> USE DEF HistoSound
<1>0. DOMAIN o = {"from", "values"} /\ IsOffer(o)
  BY DEF IsOffer, IsDump
<1>1. CASE InitTable_
  <2>1. PICK r \in Ranges : histo' = InitHisto(histo, r[1], r[2], r[3])
    BY <1>1 DEF InitTable_, Calls
  <2>2. r[1] \in Int /\ r[2] \in Int /\ r[3] \in Nat \ {0}
    BY HistoAssumption
  <2>3. Binned(histo') /\ Empty(histo')
    BY <2>1, <2>2, Remade DEF Binned
  <2>4. offered' = o /\ dumped' = dumped
    BY <1>1 DEF InitTable_, Anew
  <2> QED BY <1>0, <2>3, <2>4, EmptyTallies
<1>2. CASE Clear
  <2>1. histo' = ClearHisto(histo) /\ offered' = o /\ dumped' = dumped
    BY <1>2 DEF Clear, Calls, Anew
  <2> QED BY <1>0, <2>1, ClearedBinned, EmptyTallies
<1>3. CASE SkipBigger
  <2>1. PICK v \in Filled : histo' = [histo EXCEPT !.skip = v]
    BY <1>3 DEF SkipBigger, Calls
  <2>2. ~histo.wrecked /\ offered = o /\ offered' = o /\ dumped' = dumped /\ v \in Int
    BY <1>3, HistoAssumption DEF SkipBigger, Calls, Same
  <2>3. /\ DOMAIN histo' = HistoFields /\ histo'.alloc = histo.alloc /\ histo'.wrecked = histo.wrecked /\ histo'.tab = histo.tab
        /\ histo'.min = histo.min /\ histo'.max = histo.max /\ histo'.bins = histo.bins /\ histo'.skip = v /\ histo'.n = histo.n
    BY <2>1 DEF Binned, HistoFields
  <2>4. Bins(histo') = Bins(histo) /\ HasTab(histo') /\ TabLen(histo') = TabLen(histo)
    BY <2>3 DEF Bins, HasTab, TabLen, Binned
  <2>5. Binned(histo')
    BY <2>2, <2>3, <2>4 DEF Binned
  <2>6. Empty(histo')
    BY <2>2, <2>3, <2>4, AmongNone DEF Tally, Empty, HitsOf, RowOf
  <2> QED BY <1>0, <2>2, <2>5, <2>6, EmptyTallies
<1>4. CASE FillOne
  <2>1. PICK v \in Filled : histo' = Fill(histo, v) /\ offered' = [offered EXCEPT !.values = Append(@, v)]
    BY <1>4 DEF FillOne, Calls
  <2>2. ~histo.wrecked /\ dumped' = dumped /\ v \in Int
    BY <1>4, HistoAssumption DEF FillOne, Calls
  <2>3. DOMAIN offered' = DOMAIN offered
    BY <2>1
  <2> QED BY <2>1, <2>2, <2>3, Filling
<1>5. CASE GetStat \/ CalcAll \/ Fit
  <2>1. SameHisto(histo, histo')
    <3>1. histo' \in {GetStatValues(histo), CalcAllValues(histo)} \/ \E f : histo' = AfterFit(histo, f)
      BY <1>5, Zenon DEF GetStat, CalcAll, Fit, Calls
    <3> QED BY <3>1, Noted
  <2>2. offered' = offered /\ dumped' = dumped
    BY <1>5 DEF GetStat, CalcAll, Fit, Same
  <2> QED BY <2>1, <2>2, SameCounts
<1>6. CASE Dump
  <2>1. ~histo.wrecked /\ histo' = histo /\ dumped' = DumpToFile(histo) /\ offered' = offered
    BY <1>6 DEF Dump, Calls
  <2>2. histo.n \in Int
    <3>1. Among(offered.values, CountsOf(histo)) \in Nat
      <4>1. \A v \in Int : Among(offered.values, CountsOf(histo)) \in Nat
        BY AmongMore DEF IsOffer
      <4>2. 0 \in Int
        OBVIOUS
      <4> QED BY <4>1, <4>2, Zenon
    <3>2. HitsOf(offered.from) \in Int
      BY DEF IsOffer, IsDump, HitsOf
    <3> QED BY <2>1, <3>1, <3>2 DEF Tally
  <2>3. \A i \in Bins(histo) : histo.tab[i] \in Nat
    BY <2>1 DEF Binned
  <2>4. IsDump(dumped')
    BY <2>1, <2>2, <2>3 DEF IsDump, DumpToFile, Binned, Bins
  <2> QED BY <2>1, <2>4
<1>7. CASE Read
  <2>1. /\ ~histo.wrecked /\ dumped # NoFile /\ histo' = ReadHisto(histo, dumped)
        /\ offered' = [from |-> dumped, values |-> <<>>] /\ dumped' = dumped
    BY <1>7 DEF Read, Calls
  <2>2. DOMAIN offered' = {"from", "values"} /\ IsOffer(offered')
    BY <2>1 DEF IsOffer
  <2> QED BY <2>1, <2>2, ReadBack
<1>8. CASE UNCHANGED histoVars
  BY <1>8 DEF histoVars
<1> QED BY <1>1, <1>2, <1>3, <1>4, <1>5, <1>6, <1>7, <1>8 DEF HistoNext

(* Among natural numbers there is a least one. *)
LEMMA LeastOf ==
  ASSUME NEW T, T \subseteq Nat, T # {}
  PROVE  \E x \in T : \A y \in T : x <= y
<1>1. PICK x \in T : \A y \in T : ~(<<y, x>> \in OpToRel(<, Nat))
  BY WFMin, NatLessThanWellFounded
<1>2. \A y \in T : ~(y < x)
  BY <1>1 DEF OpToRel
<1> QED BY <1>2

(* Min finds it.                                                            *)
LEMMA MinOf ==
  ASSUME NEW T, T \subseteq Nat, T # {}
  PROVE  Min(T) \in T
<1>1. \E x \in T : \A y \in T : x <= y
  BY LeastOf
<1> QED BY <1>1, Zenon DEF Min

(* One of some of the first n is highest. *)
LEMMA HighestOf ==
  ASSUME NEW n \in Nat, NEW S, S \subseteq 0 .. n - 1, S # {}, NEW tab, \A i \in S : tab[i] \in Nat
  PROVE  \E i \in S : \A j \in S : tab[j] <= tab[i]
<1> DEFINE Upto(k) == {i \in S : i <= k}
           Bad == {k \in Nat : Upto(k) # {} /\ ~\E i \in Upto(k) : \A j \in Upto(k) : tab[j] <= tab[i]}
<1>0. \A i \in S : i \in Nat /\ i <= n
  OBVIOUS
<1>1. Bad = {}
  <2> SUFFICES ASSUME Bad # {} PROVE FALSE
    OBVIOUS
  <2>1. PICK k \in Bad : \A l \in Bad : k <= l
    BY LeastOf
  <2>2. k \in Nat /\ Upto(k) # {} /\ ~\E i \in Upto(k) : \A j \in Upto(k) : tab[j] <= tab[i]
    BY <2>1
  <2>3. k = 0 \/ k - 1 \notin Bad
    BY <2>1, <2>2
  <2>4. ASSUME NEW j \in Upto(k) PROVE j = k \/ (k # 0 /\ j \in Upto(k - 1))
    <3>1. j \in S /\ j \in Nat /\ j <= k
      BY <1>0
    <3>2. k \in Nat
      BY <2>2
    <3>3. j # k => k # 0 /\ j <= k - 1
      BY <3>1, <3>2
    <3>4. j # k => j \in Upto(k - 1)
      BY <3>1, <3>3
    <3> HIDE DEF Upto, Bad
    <3> QED BY <3>3, <3>4, Zenon
  <2>5. Upto(k - 1) \subseteq Upto(k)
    <3>1. ASSUME NEW i \in S, i <= k - 1 PROVE i <= k
      BY <1>0, <2>2, <3>1
    <3> HIDE DEF Bad
    <3> QED BY <3>1
  <2>6. CASE k = 0 \/ Upto(k - 1) = {}
    <3>1. Upto(k) = {k}
      BY <2>2, <2>4, <2>6
    <3>2. k \in S
      BY <3>1
    <3>3. tab[k] <= tab[k]
      BY <3>2
    <3> HIDE DEF Upto
    <3> QED BY <2>2, <3>1, <3>3
  <2>7. CASE k # 0 /\ Upto(k - 1) # {}
    <3>1. PICK i \in Upto(k - 1) : \A j \in Upto(k - 1) : tab[j] <= tab[i]
      <4>1. k - 1 \in Nat /\ k - 1 \notin Bad
        BY <2>2, <2>3, <2>7
      <4> HIDE DEF Upto
      <4> QED BY <4>1, <2>7, Zenon
    <3>2. i \in Upto(k) /\ i \in S
      BY <2>5, <2>7, <3>1
    <3>3. k \notin S \/ (k \in S /\ k \in Upto(k) /\ tab[k] \in Nat)
      BY <2>2
    <3>4. Upto(k) \subseteq S
      OBVIOUS
    <3> HIDE DEF Upto, Bad
    <3>5. CASE k \notin S \/ tab[k] <= tab[i]
      BY <2>2, <2>4, <3>1, <3>2, <3>4, <3>5
    <3>6. CASE k \in S /\ ~(tab[k] <= tab[i])
      <4>1. tab[i] \in Nat /\ tab[k] \in Nat /\ tab[i] <= tab[k] /\ k \in Upto(k)
        BY <3>2, <3>3, <3>6
      <4>2. \A j \in Upto(k) : tab[j] <= tab[k]
        <5>1. ASSUME NEW j \in Upto(k) PROVE tab[j] <= tab[k]
          <6>1. CASE j = k
            BY <4>1, <6>1
          <6>2. CASE j # k
            <7>1. tab[j] <= tab[i] /\ tab[j] \in Nat
              BY <2>4, <3>1, <3>4, <6>2
            <7> QED BY <4>1, <7>1
          <6> QED BY <6>1, <6>2
        <5> QED BY <5>1
      <4> QED BY <2>2, <4>1, <4>2
    <3> QED BY <3>5, <3>6
  <2> QED BY <2>6, <2>7
<1>2. Upto(n) = S
  BY <1>0
<1>3. n \notin Bad
  BY <1>1
<1> HIDE DEF Upto
<1> QED BY <1>2, <1>3, Zenon

(* The ends of the stretch between two bins.                                *)
LEMMA OfTwo ==
  ASSUME NEW a \in Nat, NEW b \in Nat
  PROVE  Min({a, b}) = (IF a <= b THEN a ELSE b) /\ Max({a, b}) = (IF a <= b THEN b ELSE a)
<1>1. Min({a, b}) = IF a <= b THEN a ELSE b
  BY DEF Min
<1>2. Max({a, b}) = IF a <= b THEN b ELSE a
  BY DEF Max
<1> QED BY <1>1, <1>2

-----------------------------------------------------------------------------
(* The turns of the search for peaks. *)
LeftOver(h, peaks) == {i \in Bins(h) : h.tab[i] > 0} \ UNION {Hill(h, p) : p \in Range(peaks)}
Highest(h, S) == LET high == Max({h.tab[i] : i \in S}) IN Min({i \in S : h.tab[i] = high})
NextPeaks(h, peaks) ==
  IF LeftOver(h, peaks) = {} THEN peaks ELSE Append(peaks, Highest(h, LeftOver(h, peaks)))

(* Two turns of the search, one after the other.                            *)
LEMMA TwoPeaks ==
  ASSUME NEW h
  PROVE  FindPeaks(h, 2) = NextPeaks(h, NextPeaks(h, <<>>))
<1> DEFINE found == CHOOSE f : f = [n \in 0 .. 2 |-> IF n = 0 THEN <<>> ELSE NextPeaks(h, f[n - 1])]
           g == [n \in 0 .. 2 |-> IF n = 0 THEN <<>> ELSE IF n = 1 THEN NextPeaks(h, <<>>) ELSE NextPeaks(h, NextPeaks(h, <<>>))]
<1>1. FindPeaks(h, 2) = found[2]
  BY Zenon DEF FindPeaks, NextPeaks, LeftOver, Highest
<1>2. g = [n \in 0 .. 2 |-> IF n = 0 THEN <<>> ELSE NextPeaks(h, g[n - 1])]
  <2>1. \A n \in 0 .. 2 : n = 0 \/ n = 1 \/ n = 2
    OBVIOUS
  <2>2. g[0] = <<>> /\ g[1] = NextPeaks(h, <<>>)
    OBVIOUS
  <2>3. 1 - 1 = 0 /\ 2 - 1 = 1 /\ 1 # 0 /\ 2 # 0 /\ 2 # 1
    OBVIOUS
  <2>4. \A n \in 0 .. 2 : g[n] = IF n = 0 THEN <<>> ELSE NextPeaks(h, g[n - 1])
    BY <2>1, <2>2, <2>3
  <2> QED BY <2>4
<1> HIDE DEF g
<1>3. found = [n \in 0 .. 2 |-> IF n = 0 THEN <<>> ELSE NextPeaks(h, found[n - 1])]
  BY <1>2, Zenon
<1> HIDE DEF found
<1>4. found[0] = <<>>
  BY <1>3
<1>5. found[1] = NextPeaks(h, found[0])
  BY <1>3
<1>6. found[2] = NextPeaks(h, found[1])
  BY <1>3
<1> QED BY <1>1, <1>4, <1>5, <1>6

(* The first of the highest bins of some is one of them, and none is higher. *)
LEMMA HighestIs ==
  ASSUME NEW h, Binned(h), ~h.wrecked, NEW S, S \subseteq Bins(h), S # {}
  PROVE  Highest(h, S) \in S /\ \A j \in S : h.tab[j] <= h.tab[Highest(h, S)]
<1> DEFINE V == {h.tab[i] : i \in S}
           T == {i \in S : h.tab[i] = Max(V)}
<1>1. h.bins \in Nat /\ S \subseteq 0 .. h.bins - 1 /\ S \subseteq Nat /\ \A i \in S : h.tab[i] \in Nat
  BY DEF Binned, Bins
<1>2. PICK i \in S : \A j \in S : h.tab[j] <= h.tab[i]
  BY <1>1, HighestOf
<1>3. Max(V) = h.tab[i]
  <2>1. h.tab[i] \in V /\ \A v \in V : h.tab[i] >= v /\ v \in Nat
    BY <1>1, <1>2
  <2> HIDE DEF V
  <2>2. \A v \in V : (\A u \in V : v >= u) => v = h.tab[i]
    BY <2>1
  <2> QED BY <2>1, <2>2 DEF Max
<1>4. T \subseteq Nat /\ T # {} /\ T \subseteq S
  BY <1>1, <1>2, <1>3
<1>5. Highest(h, S) = Min(T)
  BY Zenon DEF Highest
<1>6. Min(T) \in T
  BY <1>4, MinOf
<1> HIDE DEF V
<1>7. Min(T) \in S /\ h.tab[Min(T)] = h.tab[i]
  BY <1>3, <1>6
<1> HIDE DEF T
<1> QED BY <1>2, <1>5, <1>7

(* The peaks found in sound bins stand apart and leave no higher bin out.   *)
LEMMA PeaksOf ==
  ASSUME HistoSound
  PROVE  PeaksStand
<1> SUFFICES ASSUME ~histo.wrecked, histo.bins > 0 PROVE PeaksStand
  BY DEF PeaksStand
<1> DEFINE tab == histo.tab
           peaks == FindPeaks(histo, 2)
           apart(a, b) == \E k \in Min({a, b}) .. Max({a, b}) : tab[k] = 0
           L1 == LeftOver(histo, <<>>)
           p1 == Highest(histo, L1)
           L2 == LeftOver(histo, <<p1>>)
           p2 == Highest(histo, L2)
<1>1. Binned(histo) /\ Bins(histo) \subseteq Nat /\ \A i \in Bins(histo) : tab[i] \in Nat
  BY DEF HistoSound, Binned, Bins
<1>2. L1 = {i \in Bins(histo) : tab[i] > 0}
  <2>1. Range(<<>>) = {}
    BY DEF Range
  <2> QED BY <2>1 DEF LeftOver
<1>3. L2 = {i \in Bins(histo) : tab[i] > 0} \ Hill(histo, p1)
  <2> DEFINE p == p1
  <2> HIDE DEF p
  <2>1. Range(<<p>>) = {p}
    BY DEF Range
  <2>2. LeftOver(histo, <<p>>) = {i \in Bins(histo) : tab[i] > 0} \ Hill(histo, p)
    BY <2>1 DEF LeftOver
  <2> QED BY <2>2 DEF p
<1>4. L1 # {} => p1 \in L1 /\ \A j \in L1 : tab[j] <= tab[p1]
  <2> L1 \subseteq Bins(histo)
    BY <1>2
  <2> QED BY <1>1, HighestIs, Zenon
<1>5. L2 # {} => p2 \in L2 /\ \A j \in L2 : tab[j] <= tab[p2]
  <2> L2 \subseteq Bins(histo)
    BY <1>3
  <2> QED BY <1>1, HighestIs, Zenon
<1>6. peaks = IF L1 = {} THEN <<>> ELSE IF L2 = {} THEN <<p1>> ELSE <<p1, p2>>
  <2>1. NextPeaks(histo, <<>>) = IF L1 = {} THEN <<>> ELSE <<p1>>
    <3>1. NextPeaks(histo, <<>>) = IF L1 = {} THEN <<>> ELSE Append(<<>>, p1)
      BY Zenon DEF NextPeaks
    <3> HIDE DEF L1, p1
    <3> QED BY <3>1
  <2>2. NextPeaks(histo, <<p1>>) = IF L2 = {} THEN <<p1>> ELSE <<p1, p2>>
    <3>1. NextPeaks(histo, <<p1>>) = IF L2 = {} THEN <<p1>> ELSE Append(<<p1>>, p2)
      BY Zenon DEF NextPeaks
    <3> HIDE DEF L2, p1, p2
    <3> QED BY <3>1
  <2>3. peaks = NextPeaks(histo, NextPeaks(histo, <<>>))
    BY TwoPeaks
  <2> HIDE DEF L1, p1, L2, p2, peaks
  <2> QED BY <2>1, <2>2, <2>3
<1> HIDE DEF L1, p1, L2, p2, peaks
<1>7. ASSUME NEW b \in L1, p1 \in L1
      PROVE  b \in Hill(histo, p1) <=> ~apart(p1, b)
  <2>1. b \in Bins(histo) /\ p1 \in Bins(histo) /\ tab[p1] > 0 /\ b \in Nat /\ p1 \in Nat
    BY <1>1, <1>2, <1>7
  <2>2. Min({b, p1}) .. Max({b, p1}) \subseteq Bins(histo)
    <3>1. Min({b, p1}) \in {b, p1} /\ Max({b, p1}) \in {b, p1}
      BY <2>1, OfTwo
    <3>2. histo.bins \in Nat
      BY <1>1 DEF Binned
    <3> QED BY <2>1, <3>1, <3>2 DEF Bins
  <2>3. {p1, b} = {b, p1}
    OBVIOUS
  <2>4. b \in Hill(histo, p1) <=> \A j \in Min({b, p1}) .. Max({b, p1}) : tab[j] > 0
    BY <2>1 DEF Hill
  <2>5. \A j \in Min({b, p1}) .. Max({b, p1}) : tab[j] > 0 <=> ~(tab[j] = 0)
    BY <1>1, <2>2
  <2> QED BY <2>3, <2>4, <2>5
<1>8. \A a, b : apart(a, b) <=> apart(b, a)
  <2>1. \A a, b : {a, b} = {b, a}
    OBVIOUS
  <2> QED BY <2>1, Zenon
<1> HIDE DEF apart
<1>9. CASE L1 = {}
  <2>1. DOMAIN peaks = {}
    BY <1>6, <1>9
  <2>2. \A b \in Bins(histo) : ~(tab[b] > 0)
    BY <1>2, <1>9
  <2> QED BY <2>1, <2>2 DEF PeaksStand, peaks
<1>10. CASE L1 # {} /\ L2 = {}
  <2>1. DOMAIN peaks = {1} /\ peaks[1] = p1 /\ p1 \in L1
    BY <1>4, <1>6, <1>10
  <2>2. \A i, j \in DOMAIN peaks : i # j => apart(peaks[i], peaks[j])
    BY <2>1
  <2>3. ASSUME NEW b \in Bins(histo), tab[b] > 0
        PROVE  1 \in DOMAIN peaks /\ ~apart(peaks[1], b) /\ tab[peaks[1]] >= tab[b]
    <3>1. b \in L1 /\ b \in Hill(histo, p1)
      BY <1>2, <1>3, <1>10, <2>3
    <3>2. tab[b] <= tab[p1] /\ tab[b] \in Nat /\ tab[p1] \in Nat
      BY <1>1, <1>2, <1>4, <1>10, <2>1, <3>1
    <3> QED BY <1>7, <2>1, <3>1, <3>2
  <2> QED BY <2>2, <2>3 DEF PeaksStand, peaks, apart
<1>11. CASE L1 # {} /\ L2 # {}
  <2>1. /\ DOMAIN peaks = {1, 2} /\ peaks[1] = p1 /\ peaks[2] = p2 /\ Len(peaks) = 2
        /\ p1 \in L1 /\ p2 \in L2 /\ p2 \in L1
    BY <1>2, <1>3, <1>4, <1>5, <1>6, <1>11
  <2>2. apart(p1, p2) /\ apart(p2, p1)
    <3>1. p2 \notin Hill(histo, p1)
      BY <1>3, <2>1
    <3> QED BY <1>7, <1>8, <2>1, <3>1
  <2>3. \A i, j \in DOMAIN peaks : i # j => apart(peaks[i], peaks[j])
    BY <2>1, <2>2
  <2>4. ASSUME NEW b \in Bins(histo), tab[b] > 0
        PROVE  \/ \E i \in DOMAIN peaks : ~apart(peaks[i], b) /\ tab[peaks[i]] >= tab[b]
               \/ Len(peaks) = 2 /\ \A i \in DOMAIN peaks : tab[peaks[i]] >= tab[b]
    <3>1. b \in L1
      BY <1>2, <2>4
    <3>2. tab[b] \in Nat /\ tab[p1] \in Nat /\ tab[p2] \in Nat
      BY <1>1, <1>2, <2>1, <3>1
    <3>3. tab[p1] >= tab[b]
      BY <1>4, <2>1, <3>1, <3>2
    <3>4. CASE b \in Hill(histo, p1)
      <4>1. ~apart(peaks[1], b) /\ 1 \in DOMAIN peaks /\ tab[peaks[1]] >= tab[b]
        BY <1>7, <2>1, <3>1, <3>3, <3>4
      <4> QED BY <4>1
    <3>5. CASE b \notin Hill(histo, p1)
      <4>1. b \in L2
        BY <1>2, <1>3, <3>1, <3>5
      <4>2. tab[p2] >= tab[b]
        BY <1>5, <2>1, <3>2, <4>1
      <4> QED BY <2>1, <3>3, <4>2
    <3> QED BY <3>4, <3>5
  <2> QED BY <2>3, <2>4 DEF PeaksStand, peaks, apart
<1> QED BY <1>9, <1>10, <1>11

(* What the last tries have found makes sense.                              *)
LEMMA LastTrySense ==
  ASSUME NEW tries \in [Stages -> Results]
  PROVE  LET last == LastTry(tries) IN last.fit => tries[last.stage] = "sense"
<1> DEFINE makes(s) == RetryFitGauss(tries, s, FALSE, s)
<1>1. \A s \in Stages : makes(s) <=> tries[s] = "sense"
  BY DEF RetryFitGauss, CheckIfReasonableFit
<1>2. /\ makes("range") <=> tries["range"] = "sense"
      /\ makes("norm down") <=> tries["norm down"] = "sense"
      /\ makes("norm up") <=> tries["norm up"] = "sense"
  BY <1>1 DEF Stages
<1>3. RetryFitGauss(tries, "up", TRUE, "up around") <=> tries["up"] = "sense" \/ tries["up around"] = "sense"
  BY DEF RetryFitGauss, CheckIfReasonableFit
<1> HIDE DEF makes
<1>4. LastTry(tries) =
        IF makes("range") THEN [stage |-> "range", fit |-> TRUE]
        ELSE IF makes("norm down") THEN [stage |-> "norm down", fit |-> TRUE]
        ELSE IF makes("norm up") THEN [stage |-> "norm up", fit |-> TRUE]
        ELSE [stage |-> IF tries["up"] = "sense" THEN "up" ELSE "up around", fit |-> RetryFitGauss(tries, "up", TRUE, "up around")]
  BY Zenon DEF LastTry, makes
<1> DEFINE last == LastTry(tries)
           up == RetryFitGauss(tries, "up", TRUE, "up around")
<1> HIDE DEF last, up
<1>5. CASE makes("range")
  <2>1. last = [stage |-> "range", fit |-> TRUE]
    BY <1>4, <1>5 DEF last
  <2>2. last.stage = "range" /\ tries["range"] = "sense"
    BY <1>2, <1>5, <2>1
  <2>3. last.fit => tries[last.stage] = "sense"
    BY <2>2
  <2> QED BY <2>3 DEF last
<1>6. CASE ~makes("range") /\ makes("norm down")
  <2>1. last = [stage |-> "norm down", fit |-> TRUE]
    BY <1>4, <1>6 DEF last
  <2>2. last.stage = "norm down" /\ tries["norm down"] = "sense"
    BY <1>2, <1>6, <2>1
  <2>3. last.fit => tries[last.stage] = "sense"
    BY <2>2
  <2> QED BY <2>3 DEF last
<1>7. CASE ~makes("range") /\ ~makes("norm down") /\ makes("norm up")
  <2>1. last = [stage |-> "norm up", fit |-> TRUE]
    BY <1>4, <1>7 DEF last
  <2>2. last.stage = "norm up" /\ tries["norm up"] = "sense"
    BY <1>2, <1>7, <2>1
  <2>3. last.fit => tries[last.stage] = "sense"
    BY <2>2
  <2> QED BY <2>3 DEF last
<1>8. CASE ~makes("range") /\ ~makes("norm down") /\ ~makes("norm up")
  <2>1. last = [stage |-> IF tries["up"] = "sense" THEN "up" ELSE "up around", fit |-> up]
    BY <1>4, <1>8 DEF last, up
  <2>2. last.fit <=> up
    BY <2>1
  <2>3. last.stage = IF tries["up"] = "sense" THEN "up" ELSE "up around"
    BY <2>1
  <2>4. last.fit => tries[last.stage] = "sense"
    BY <1>3, <2>2, <2>3 DEF up
  <2> QED BY <2>4 DEF last
<1> QED BY <1>5, <1>6, <1>7, <1>8

(* What any try beyond the first has found makes sense.                     *)
LEMMA TriedSense ==
  ASSUME NEW h, NEW tries \in [Stages -> Results], NEW retry \in BOOLEAN
  PROVE  LET last == Tried(h, tries, retry)
         IN  last.fit => last.stage = "first" \/ tries[last.stage] = "sense"
<1> DEFINE last == Tried(h, tries, retry)
           around == RetryFitGauss(tries, "again", TRUE, "again around")
<1>1. CASE tries["first"] # "none"
  <2>1. last = [stage |-> "first", fit |-> TRUE]
    BY <1>1 DEF Tried
  <2> QED BY <2>1
<1>2. CASE tries["first"] = "none" /\ ~retry
  <2>1. last = [stage |-> "first", fit |-> FALSE]
    BY <1>2 DEF Tried
  <2> QED BY <2>1
<1>3. CASE tries["first"] = "none" /\ retry
  <2>1. last = IF around THEN [stage |-> IF tries["again"] = "sense" THEN "again" ELSE "again around", fit |-> TRUE]
               ELSE IF h.bins \div 2 < 5 THEN [stage |-> "given up", fit |-> FALSE]
               ELSE IF CheckIfReasonableFit(tries["halved"]) THEN [stage |-> "halved", fit |-> TRUE]
               ELSE IF NoEnd(h, tries) THEN [stage |-> "norm down", fit |-> FALSE]
               ELSE LastTry(tries)
    BY <1>3 DEF Tried
  <2>2. around <=> tries["again"] = "sense" \/ tries["again around"] = "sense"
    BY DEF RetryFitGauss, CheckIfReasonableFit
  <2>3. CheckIfReasonableFit(tries["halved"]) <=> tries["halved"] = "sense"
    BY DEF CheckIfReasonableFit
  <2> DEFINE end == LastTry(tries)
  <2>4. end.fit => tries[end.stage] = "sense"
    BY LastTrySense
  <2> HIDE DEF around, end, last
  <2>5. last.fit => tries[last.stage] = "sense"
    <3>1. CASE around
      BY <2>1, <2>2, <3>1
    <3>2. CASE ~around /\ ~(h.bins \div 2 < 5) /\ CheckIfReasonableFit(tries["halved"])
      BY <2>1, <2>3, <3>2
    <3>3. CASE ~around /\ (h.bins \div 2 < 5)
      BY <2>1, <3>3
    <3>4. CASE ~around /\ ~(h.bins \div 2 < 5) /\ ~CheckIfReasonableFit(tries["halved"]) /\ NoEnd(h, tries)
      BY <2>1, <3>4
    <3>5. CASE ~around /\ ~(h.bins \div 2 < 5) /\ ~CheckIfReasonableFit(tries["halved"]) /\ ~NoEnd(h, tries)
      <4>1. last = end
        BY <2>1, <3>5 DEF end
      <4> QED BY <2>4, <4>1
    <3> QED BY <3>1, <3>2, <3>3, <3>4, <3>5
  <2> QED BY <2>5 DEF last
<1> QED BY <1>1, <1>2, <1>3

(* What a fit that is told to have been found has been.                     *)
LEMMA FitSense ==
  ASSUME NEW h, NEW tries \in [Stages -> Results], NEW retry \in BOOLEAN, NEW check \in BOOLEAN
  PROVE  LET f == FitGauss(h, tries, retry, check)
         IN  f.ret = "TRUE" => f.sense \/ (f.gave = "first" /\ ~f.checked)
<1> DEFINE last == Tried(h, tries, retry)
           refused == last.stage = "first" /\ check /\ ~CheckIfReasonableFit(tries["first"])
           never == retry /\ last = [stage |-> "norm down", fit |-> FALSE]
           f == FitGauss(h, tries, retry, check)
<1>1. last.fit => last.stage = "first" \/ tries[last.stage] = "sense"
  BY TriedSense
<1>2. refused <=> last.stage = "first" /\ check /\ tries["first"] # "sense"
  BY DEF CheckIfReasonableFit
<1> HIDE DEF last
<1>3. /\ f.ret = IF never THEN "never" ELSE IF last.fit /\ ~refused THEN "TRUE" ELSE "FALSE"
      /\ f.gave = IF last.fit THEN last.stage ELSE "passed"
      /\ f.sense <=> last.fit /\ tries[last.stage] = "sense"
      /\ f.checked <=> check
  BY DEF FitGauss, last
<1> HIDE DEF refused, never, f
<1>4. f.ret = "TRUE" => last.fit /\ ~refused
  BY <1>3
<1>5. f.ret = "TRUE" => f.sense \/ (f.gave = "first" /\ ~f.checked)
  BY <1>1, <1>2, <1>3, <1>4
<1> QED BY <1>5 DEF f

(* A fit is told to have been found only when it makes sense, if that was   *)
(* to be checked or it took more than one attempt (CMyHisto::FitGauss).     *)
THEOREM FitsMakeSense == HistoSpec => []FitMakesSense
<1>1. HistoInit => FitMakesSense
  BY DEF HistoInit, NoFit, FitMakesSense
<1>2. FitMakesSense /\ [HistoNext]_histoVars => FitMakesSense'
  <2> SUFFICES ASSUME FitMakesSense, [HistoNext]_histoVars PROVE FitMakesSense'
    OBVIOUS
  <2>1. ASSUME UNCHANGED fitted
        PROVE  FitMakesSense'
    BY <2>1 DEF FitMakesSense
  <2>2. CASE Fit
    <3>1. PICK first \in Results, check \in BOOLEAN, retry \in BOOLEAN, others \in {"nonsense", "none"}, good \in Stages :
            fitted' = FitGauss(histo, Tries(first, good, others), retry, check)
      BY <2>2 DEF Fit
    <3>2. Tries(first, good, others) \in [Stages -> Results]
      BY DEF Tries, Results
    <3> QED BY <3>1, <3>2, FitSense DEF FitMakesSense
  <2>3. CASE UNCHANGED histoVars
    BY <2>1, <2>3 DEF histoVars
  <2>4. CASE InitTable_ \/ Clear \/ SkipBigger \/ FillOne \/ GetStat \/ CalcAll \/ Dump \/ Read
    BY <2>1, <2>4, Zenon DEF InitTable_, Clear, SkipBigger, FillOne, GetStat, CalcAll, Dump, Read, Anew, Same
  <2> QED BY <2>2, <2>3, <2>4, Zenon DEF HistoNext
<1> QED BY <1>1, <1>2, PTL DEF HistoSpec

(* However a histogram was made, filled, cleared, given another range,      *)
(* dumped and read back, its bins are those of the file and what was filled *)
(* since, and the peaks found in them stand apart (CMyHisto).               *)
THEOREM TalliesShown == HistoSpec => []TalliesShow
<1>1. HistoInit => HistoSound
  BY HistoInitSound
<1>2. HistoSound /\ [HistoNext]_histoVars => HistoSound'
  BY HistoNextSound
<1>3. HistoSound => TalliesShow
  BY PeaksOf, TallyTells DEF TalliesShow, HistoSound
<1> QED BY <1>1, <1>2, <1>3, PTL DEF HistoSpec

-----------------------------------------------------------------------------
(* Areas. *)
(* A side divided: the areas are as long as told and reach its end, and     *)
(* only the last is cut.                                                    *)
LEMMA SideDivided ==
  ASSUME NEW px \in BOOLEAN, NEW size \in Nat, NEW by \in Nat \ {0}
  PROVE  LET s == Divided(px, size, by)
         IN  s.n \in Nat /\ s.d \in Nat /\ (size > 0 => s.d > 0) /\ size <= s.n * s.d
<1> DEFINE q == size \div by
<1>1. q \in Nat /\ q * by <= size /\ size < (q + 1) * by
  <2>1. q \in Int /\ q * by <= size /\ size < (q + 1) * by
    BY Quotient
  <2>2. ~(q + 1 <= 0)
    <3>1. q + 1 <= 0 => (q + 1) * by <= 0 * by
      BY <2>1, ProductGrows
    <3> HIDE DEF q
    <3> QED BY <2>1, <3>1
  <2> QED BY <2>1, <2>2
<1>2. size % by = size - by * q
  <2>1. size = by * (size \div by) + (size % by) /\ size % by \in Nat
    OBVIOUS
  <2>2. by * q \in Int
    BY <1>1
  <2> HIDE DEF q
  <2> QED BY <2>1, <2>2 DEF q
<1> HIDE DEF q
<1>3. q * by = by * q /\ by * q \in Nat /\ (q + 1) * by = q * by + by /\ by * (q + 1) = q * by + by
  BY <1>1
<1>4. CASE px
  <2> DEFINE s == Counted(size, by)
  <2>1. Divided(px, size, by) = s
    BY <1>4 DEF Divided
  <2>2. s.n = q + (IF size % by # 0 THEN 1 ELSE 0) /\ s.d = by
    BY DEF Counted, q
  <2> HIDE DEF s
  <2>3. CASE size % by # 0
    BY <1>1, <1>3, <2>1, <2>2, <2>3
  <2>4. CASE size % by = 0
    BY <1>1, <1>2, <1>3, <2>1, <2>2, <2>4
  <2> QED BY <2>3, <2>4
<1>5. CASE ~px
  <2> DEFINE s == Measured(size, by)
  <2>1. Divided(px, size, by) = s
    BY <1>5 DEF Divided
  <2>2. s.n = by /\ s.d = q + (IF q * by < size THEN 1 ELSE 0)
    BY DEF Measured, q
  <2> HIDE DEF s
  <2>3. CASE q * by < size
    BY <1>1, <1>3, <2>1, <2>2, <2>3
  <2>4. CASE ~(q * by < size)
    <3>1. size = q * by
      BY <1>1, <1>3, <2>4
    <3>2. q = 0 => q * by = 0
      BY <1>1
    <3> QED BY <1>1, <1>3, <2>1, <2>2, <2>4, <3>1, <3>2
  <2> QED BY <2>3, <2>4
<1> QED BY <1>4, <1>5

(* Along a side, what an area's ends hold lies in it, and the area a place  *)
(* is in holds it, further from the edge than the border.                   *)
LEMMA SideTold ==
  ASSUME NEW size \in Nat, NEW n \in Nat, NEW d \in Nat \ {0}, size <= n * d, NEW border \in Int, NEW x \in 0 .. size - 1
  PROVE  LET e(i) == Ends(size, [n |-> n, d |-> d], i, border)
         IN  /\ x \div d \in 0 .. n - 1
             /\ \A i \in 0 .. n - 1 : x >= e(i).from /\ x < e(i).to => i = x \div d
             /\ x >= border /\ x < size - border => x >= e(x \div d).from /\ x < e(x \div d).to
<1> DEFINE q == x \div d
           e(i) == Ends(size, [n |-> n, d |-> d], i, border)
<1>1. q \in Int /\ q * d <= x /\ x < (q + 1) * d /\ \A i \in Int : q = i <=> i * d <= x /\ x < (i + 1) * d
  BY Quotient
<1> HIDE DEF q
<1>2. q >= 0
  <2>1. q + 1 <= 0 => (q + 1) * d <= 0 * d
    BY <1>1, ProductGrows
  <2> QED BY <1>1, <2>1
<1>3. q < n
  <2>1. n <= q => n * d <= q * d
    BY <1>1, ProductGrows
  <2>2. n * d \in Int /\ q * d \in Int
    BY <1>1
  <2> QED BY <1>1, <2>1, <2>2
<1>4. ASSUME NEW i \in 0 .. n - 1
      PROVE  /\ e(i).from = i * d + (IF i = 0 THEN border ELSE 0)
             /\ e(i).to = (IF (i + 1) * d > size THEN size ELSE (i + 1) * d) - (IF i = n - 1 THEN border ELSE 0)
             /\ i * d \in Nat /\ (i + 1) * d \in Nat /\ (i = n - 1 => (i + 1) * d >= size) /\ i * d <= (i + 1) * d
             /\ i \in Int
  <2>1. i \in Nat /\ i + 1 \in Nat
    OBVIOUS
  <2>2. i * d \in Nat /\ (i + 1) * d \in Nat
    BY <2>1
  <2>3. i = n - 1 => i + 1 = n
    OBVIOUS
  <2>4. i * d <= (i + 1) * d
    BY <2>1, ProductGrows
  <2> QED BY <2>1, <2>2, <2>3, <2>4 DEF Ends
<1>5. ASSUME NEW i \in 0 .. n - 1, x >= e(i).from, x < e(i).to
      PROVE  i = q
  <2> DEFINE a == i * d  b == (i + 1) * d
  <2>1. /\ e(i).from = a + (IF i = 0 THEN border ELSE 0)
        /\ e(i).to = (IF b > size THEN size ELSE b) - (IF i = n - 1 THEN border ELSE 0)
        /\ a \in Nat /\ b \in Nat /\ (i = n - 1 => b >= size) /\ i \in Int /\ (i = 0 => a = 0)
    BY <1>4
  <2>2. a <= x /\ x < b => q = i
    BY <1>1, <2>1
  <2> HIDE DEF a, b, e
  <2>3. a <= x
    BY <2>1, <1>5
  <2>4. x < b
    BY <2>1, <1>5
  <2> QED BY <2>2, <2>3, <2>4
<1>6. ASSUME x >= border, x < size - border
      PROVE  x >= e(q).from /\ x < e(q).to
  <2> DEFINE a == q * d  b == (q + 1) * d
  <2>0. q \in 0 .. n - 1
    BY <1>1, <1>2, <1>3
  <2>1. /\ e(q).from = a + (IF q = 0 THEN border ELSE 0)
        /\ e(q).to = (IF b > size THEN size ELSE b) - (IF q = n - 1 THEN border ELSE 0)
        /\ a \in Nat /\ b \in Nat /\ (q = n - 1 => b >= size) /\ (q = 0 => a = 0) /\ a <= x /\ x < b
    BY <1>1, <1>4, <2>0
  <2> HIDE DEF a, b, e
  <2> QED BY <2>1, <1>6
<1> QED BY <1>1, <1>2, <1>3, <1>5, <1>6 DEF q

Side(size, n, d) == size \in Nat /\ n \in Nat /\ d \in Nat /\ (size > 0 => d > 0) /\ size <= n * d
MapOf(t) == [j \in 0 .. t.ny - 1 |-> [i \in 0 .. t.nx - 1 |->
              LET ex == Ends(t.x, [n |-> t.nx, d |-> t.dx], i, t.border)
                  ey == Ends(t.y, [n |-> t.ny, d |-> t.dy], j, t.border)
              IN  [x0 |-> ex.from, y0 |-> ey.from, x1 |-> ex.to, y1 |-> ey.to]]]
AreaFields == {"x", "y", "dx", "dy", "nx", "ny", "border", "map", "wrecked"}

(* A table of areas is for the sides it tells, or there is none. *)
AreasSound(t) ==
  /\ DOMAIN t = AreaFields
  /\ t.map # NoMap => /\ Side(t.x, t.nx, t.dx) /\ Side(t.y, t.ny, t.dy) /\ t.border \in Int
                      /\ t.map = MapOf(t)

(* Areas along divided sides tile the frame.                                *)
LEMMA AreasTile ==
  ASSUME AreasSound(areas)
  PROVE  Tiles
<1> SUFFICES ASSUME areas.map # NoMap, NEW x \in 0 .. areas.x - 1, NEW y \in 0 .. areas.y - 1
             PROVE  LET in == {p \in (0 .. areas.nx - 1) \X (0 .. areas.ny - 1) : Holds2(GetElem(areas, p[1], p[2]), x, y)}
                        b == areas.border
                    IN  /\ in \subseteq {GetAreaDescPos(areas, x, y)}
                        /\ x >= b /\ y >= b /\ x < areas.x - b /\ y < areas.y - b =>
                             in # {} /\ Holds2(GetAreaDesc(areas, x, y), x, y)
  BY Zenon DEF Tiles
<1> DEFINE t == areas
           b == t.border
           ex(i) == Ends(t.x, [n |-> t.nx, d |-> t.dx], i, b)
           ey(j) == Ends(t.y, [n |-> t.ny, d |-> t.dy], j, b)
           qx == x \div t.dx
           qy == y \div t.dy
<1>1. Side(t.x, t.nx, t.dx) /\ Side(t.y, t.ny, t.dy) /\ b \in Int /\ t.map = MapOf(t)
  BY DEF AreasSound
<1>2. t.dx \in Nat \ {0} /\ t.dy \in Nat \ {0}
  BY <1>1 DEF Side
<1>3. /\ qx \in 0 .. t.nx - 1
      /\ \A i \in 0 .. t.nx - 1 : x >= ex(i).from /\ x < ex(i).to => i = qx
      /\ x >= b /\ x < t.x - b => x >= ex(qx).from /\ x < ex(qx).to
  <2>1. t.x \in Nat /\ t.nx \in Nat /\ t.dx \in Nat \ {0} /\ t.x <= t.nx * t.dx /\ b \in Int
    BY <1>1, <1>2 DEF Side
  <2> QED BY <2>1, SideTold
<1>4. /\ qy \in 0 .. t.ny - 1
      /\ \A i \in 0 .. t.ny - 1 : y >= ey(i).from /\ y < ey(i).to => i = qy
      /\ y >= b /\ y < t.y - b => y >= ey(qy).from /\ y < ey(qy).to
  <2>1. t.y \in Nat /\ t.ny \in Nat /\ t.dy \in Nat \ {0} /\ t.y <= t.ny * t.dy /\ b \in Int
    BY <1>1, <1>2 DEF Side
  <2> QED BY <2>1, SideTold
<1>5. ASSUME NEW i \in 0 .. t.nx - 1, NEW j \in 0 .. t.ny - 1
      PROVE  GetElem(t, i, j) = [x0 |-> ex(i).from, y0 |-> ey(j).from, x1 |-> ex(i).to, y1 |-> ey(j).to]
  <2>1. GetElem(t, i, j) = MapOf(t)[j][i]
    BY <1>1, Zenon DEF GetElem
  <2> QED BY <2>1 DEF MapOf
<1> HIDE DEF ex, ey, qx, qy
<1>6. ASSUME NEW i \in 0 .. t.nx - 1, NEW j \in 0 .. t.ny - 1
      PROVE  Holds2(GetElem(t, i, j), x, y) <=> x >= ex(i).from /\ x < ex(i).to /\ y >= ey(j).from /\ y < ey(j).to
  BY <1>5 DEF Holds2
<1>7. GetAreaDescPos(t, x, y) = <<qx, qy>> /\ GetAreaDesc(t, x, y) = GetElem(t, qx, qy)
  BY DEF GetAreaDescPos, GetAreaDesc, qx, qy
<1> DEFINE in == {p \in (0 .. t.nx - 1) \X (0 .. t.ny - 1) : Holds2(GetElem(t, p[1], p[2]), x, y)}
<1>8. ASSUME NEW p \in in
      PROVE  p = <<qx, qy>>
  <2>1. p[1] \in 0 .. t.nx - 1 /\ p[2] \in 0 .. t.ny - 1 /\ p = <<p[1], p[2]>> /\ Holds2(GetElem(t, p[1], p[2]), x, y)
    OBVIOUS
  <2>2. p[1] = qx /\ p[2] = qy
    BY <1>3, <1>4, <1>6, <2>1
  <2> QED BY <2>1, <2>2
<1>9. ASSUME x >= b, y >= b, x < t.x - b, y < t.y - b
      PROVE  <<qx, qy>> \in in /\ Holds2(GetElem(t, qx, qy), x, y)
  <2>1. Holds2(GetElem(t, qx, qy), x, y)
    BY <1>3, <1>4, <1>6, <1>9
  <2> QED BY <1>3, <1>4, <2>1
<1> HIDE DEF in
<1>10. in \subseteq {<<qx, qy>>}
  BY <1>8
<1>11. x >= b /\ y >= b /\ x < t.x - b /\ y < t.y - b => in # {} /\ Holds2(GetAreaDesc(t, x, y), x, y)
  BY <1>7, <1>9
<1>12. in \subseteq {GetAreaDescPos(t, x, y)}
  BY <1>7, <1>10
<1> QED BY <1>11, <1>12, Zenon DEF in

(* A table that maps divided sides is sound.                                *)
LEMMA MappedSound ==
  ASSUME NEW t, DOMAIN t = AreaFields, Side(t.x, t.nx, t.dx), Side(t.y, t.ny, t.dy), NEW border \in Int
  PROVE  AreasSound(Init2DMap(t, border))
<1> DEFINE r == Init2DMap(t, border)
           map == [j \in 0 .. t.ny - 1 |-> [i \in 0 .. t.nx - 1 |->
              LET ex == Ends(t.x, [n |-> t.nx, d |-> t.dx], i, border)
                  ey == Ends(t.y, [n |-> t.ny, d |-> t.dy], j, border)
              IN  [x0 |-> ex.from, y0 |-> ey.from, x1 |-> ex.to, y1 |-> ey.to]]]
<1>1. r = [t EXCEPT !.border = border, !.map = map]
  BY Zenon DEF Init2DMap
<1> HIDE DEF map
<1>2. /\ DOMAIN r = AreaFields /\ r.border = border /\ r.map = map
      /\ r.x = t.x /\ r.y = t.y /\ r.nx = t.nx /\ r.ny = t.ny /\ r.dx = t.dx /\ r.dy = t.dy
  BY <1>1 DEF AreaFields
<1> HIDE DEF r
<1>3. MapOf(r) = map
  BY <1>2, Zenon DEF MapOf, map
<1>4. Side(r.x, r.nx, r.dx) /\ Side(r.y, r.ny, r.dy)
  BY <1>2
<1> QED BY <1>2, <1>3, <1>4 DEF AreasSound, r

(* Both sides of a table are divided, by parts or by pixels.                *)
LEMMA SizedSides ==
  ASSUME NEW t, DOMAIN t = AreaFields, NEW d \in Divisions
  PROVE  LET s == Sized(t, d)
         IN  DOMAIN s = AreaFields /\ Side(s.x, s.nx, s.dx) /\ Side(s.y, s.ny, s.dy) /\ d.border \in Int /\ s.map = t.map
<1> DEFINE s == Sized(t, d)
           sx == Divided(d.px, d.x, d.dx)
           sy == Divided(d.px, d.y, d.dy)
<1>0. s = [t EXCEPT !.x = d.x, !.y = d.y, !.dx = sx.d, !.dy = sy.d, !.nx = sx.n, !.ny = sy.n]
  BY Zenon DEF Sized
<1>1. d.x \in Nat /\ d.y \in Nat /\ d.dx \in Nat \ {0} /\ d.dy \in Nat \ {0} /\ d.border \in Int /\ d.px \in BOOLEAN
  BY RegionsAssumption
<1>2. Side(d.x, sx.n, sx.d) /\ Side(d.y, sy.n, sy.d)
  BY <1>1, SideDivided DEF Side
<1> HIDE DEF sx, sy
<1>3. /\ DOMAIN s = AreaFields /\ s.x = d.x /\ s.y = d.y /\ s.dx = sx.d /\ s.dy = sy.d /\ s.nx = sx.n /\ s.ny = sy.n
      /\ s.map = t.map
  BY <1>0 DEF AreaFields
<1> HIDE DEF s
<1> QED BY <1>1, <1>2, <1>3 DEF s

(* What is cleared keeps its sides.                                         *)
LEMMA ClearedAreas ==
  ASSUME NEW t, DOMAIN t = AreaFields
  PROVE  LET r == ClearAreas(t)
         IN  /\ DOMAIN r = AreaFields /\ r.map = NoMap
             /\ r.x = t.x /\ r.y = t.y /\ r.nx = t.nx /\ r.ny = t.ny /\ r.dx = t.dx /\ r.dy = t.dy
BY DEF ClearAreas, AreaFields

(* Every call leaves a sound table.                                         *)
LEMMA AreasMade ==
  ASSUME NEW t, AreasSound(t), NEW d \in Divisions
  PROVE  AreasSound(InitAreas(t, d)) /\ AreasSound(InitConstructorAreas(t, d)) /\ AreasSound(ClearAreas(t))
<1> DEFINE s == Sized(t, d)
<1>1. DOMAIN t = AreaFields
  BY DEF AreasSound
<1>2. DOMAIN s = AreaFields /\ Side(s.x, s.nx, s.dx) /\ Side(s.y, s.ny, s.dy) /\ d.border \in Int
  BY <1>1, SizedSides
<1> HIDE DEF s
<1>3. AreasSound(InitAreas(t, d))
  <2> DEFINE c == ClearAreas(s)
  <2>1. DOMAIN c = AreaFields /\ Side(c.x, c.nx, c.dx) /\ Side(c.y, c.ny, c.dy)
    BY <1>2, ClearedAreas
  <2> HIDE DEF c
  <2>2. AreasSound(Init2DMap(c, d.border))
    BY <1>2, <2>1, MappedSound
  <2> QED BY <2>2 DEF InitAreas, c, s
<1>4. AreasSound(InitConstructorAreas(t, d))
  <2> DEFINE c == [s EXCEPT !.map = NoMap]
  <2>1. DOMAIN c = AreaFields /\ c.x = s.x /\ c.nx = s.nx /\ c.dx = s.dx /\ c.y = s.y /\ c.ny = s.ny /\ c.dy = s.dy
    BY <1>2 DEF AreaFields
  <2> HIDE DEF c
  <2>2. AreasSound(Init2DMap(c, d.border))
    BY <1>2, <2>1, MappedSound
  <2> QED BY <2>2 DEF InitConstructorAreas, c, s
<1>5. AreasSound(ClearAreas(t))
  BY <1>1, ClearedAreas DEF AreasSound
<1> QED BY <1>3, <1>4, <1>5

-----------------------------------------------------------------------------
(* What holds at the start and is kept from one number to the next holds    *)
(* for all of them.                                                         *)
LEMMA Along ==
  ASSUME NEW N \in Nat, NEW f, NEW V, f[0] \in V, \A n \in 1 .. N : f[n - 1] \in V => f[n] \in V
  PROVE  \A n \in 0 .. N : f[n] \in V
<1> DEFINE Bad == {n \in Nat : n <= N /\ f[n] \notin V}
<1>1. Bad = {}
  <2> SUFFICES ASSUME Bad # {} PROVE FALSE
    OBVIOUS
  <2>1. PICK k \in Bad : \A l \in Bad : k <= l
    BY LeastOf
  <2>2. k \in Nat /\ k <= N /\ f[k] \notin V /\ k # 0
    BY <2>1
  <2>3. k - 1 \in Nat /\ k - 1 <= N /\ ~(k <= k - 1)
    BY <2>2
  <2>4. f[k - 1] \in V
    BY <2>1, <2>3
  <2>5. k \in 1 .. N
    BY <2>2
  <2> QED BY <2>2, <2>4, <2>5
<1>2. \A n \in 0 .. N : n \in Nat /\ n <= N
  OBVIOUS
<1> QED BY <1>1, <1>2

(* A function that tells each value by the one before it exists.            *)
Leads(N, V, b, F) == N \in Nat /\ b \in V /\ \A n \in 1 .. N : \A v \in V : F[n][v] \in V
Follows(g, N, V, b, F) == g \in [0 .. N -> V] /\ g[0] = b /\ \A n \in 1 .. N : g[n] = F[n][g[n - 1]]

(* A function told by steps that stay in V exists.                          *)
LEMMA OneByOne ==
  ASSUME NEW N, NEW V, NEW b, NEW F, Leads(N, V, b, F)
  PROVE  \E g : Follows(g, N, V, b, F)
<1> USE DEF Leads
<1> DEFINE Is(k, g) == g \in [0 .. k -> V] /\ g[0] = b /\ \A n \in 1 .. k : g[n] = F[n][g[n - 1]]
           Bad == {k \in Nat : k <= N /\ ~\E g : Is(k, g)}
<1>1. Bad = {}
  <2> SUFFICES ASSUME Bad # {} PROVE FALSE
    OBVIOUS
  <2>1. PICK k \in Bad : \A l \in Bad : k <= l
    BY LeastOf
  <2>2. k \in Nat /\ k <= N /\ ~\E g : Is(k, g)
    BY <2>1
  <2>3. CASE k = 0
    <3> DEFINE g == [n \in 0 .. 0 |-> b]
    <3>1. g \in [0 .. 0 -> V] /\ g[0] = b
      OBVIOUS
    <3>2. 1 .. 0 = {}
      OBVIOUS
    <3> HIDE DEF g
    <3>3. Is(0, g)
      BY <3>1, <3>2
    <3> QED BY <2>2, <2>3, <3>3
  <2>4. CASE k # 0
    <3>1. k - 1 \in Nat /\ k - 1 <= N /\ ~(k <= k - 1) /\ k \in 1 .. N
      BY <2>2, <2>4
    <3>2. k - 1 \notin Bad
      BY <2>1, <3>1
    <3>3. PICK g : Is(k - 1, g)
      BY <3>1, <3>2
    <3> DEFINE v == F[k][g[k - 1]]
               h == [n \in 0 .. k |-> IF n = k THEN v ELSE g[n]]
    <3>4. g[k - 1] \in V
      BY <3>1, <3>3
    <3>5. v \in V
      BY <3>1, <3>4
    <3>6. \A n \in 0 .. k : n # k => n \in 0 .. k - 1 /\ g[n] \in V
      BY <3>1, <3>3
    <3> HIDE DEF v
    <3>7. h \in [0 .. k -> V]
      BY <3>5, <3>6
    <3>8. h[0] = b
      BY <3>1, <3>3
    <3>9. ASSUME NEW n \in 1 .. k
          PROVE  h[n] = F[n][h[n - 1]]
      <4>0. n \in 0 .. k /\ n - 1 \in 0 .. k /\ n - 1 # k
        BY <3>1
      <4>1. h[n - 1] = g[n - 1]
        BY <4>0
      <4>2. CASE n = k
        <5>1. h[n] = v
          BY <4>0, <4>2
        <5> QED BY <4>1, <4>2, <5>1 DEF v
      <4>3. CASE n # k
        <5>1. n \in 1 .. k - 1
          BY <3>1, <4>3
        <5>2. h[n] = g[n]
          BY <4>0, <4>3
        <5>3. g[n] = F[n][g[n - 1]]
          BY <3>3, <5>1
        <5> QED BY <4>1, <5>2, <5>3
      <4> QED BY <4>2, <4>3
    <3> HIDE DEF h
    <3>10. Is(k, h)
      BY <3>7, <3>8, <3>9
    <3> HIDE DEF Is
    <3> QED BY <2>2, <3>10
  <2> QED BY <2>3, <2>4
<1>2. N \notin Bad
  BY <1>1
<1>3. \E g : Is(N, g)
  BY <1>2
<1> QED BY <1>3 DEF Follows

-----------------------------------------------------------------------------
(* Lists of rows and columns, each there once.                              *)
Types == {"eCCDRow", "eCCDCol", "eCCDUnknownType"}
RowCols == [type : Types, num : Int]
Once == {s \in Seq(RowCols) : \A i, j \in DOMAIN s : s[i] = s[j] => i = j}

(* Nothing is listed twice by adding what is not there.                     *)
LEMMA AddedOnce ==
  ASSUME NEW list \in Once, NEW type \in Types, NEW num \in Int
  PROVE  AddUnique(list, type, num) \in Once
<1> DEFINE e == [type |-> type, num |-> num]
           s == Append(list, e)
<1>1. list \in Seq(RowCols) /\ \A i, j \in DOMAIN list : list[i] = list[j] => i = j
  BY DEF Once
<1>2. e \in RowCols
  BY DEF RowCols
<1>3. CASE FindRowCol(list, type, num)
  BY <1>3 DEF AddUnique
<1>4. CASE ~FindRowCol(list, type, num)
  <2>1. \A i \in DOMAIN list : list[i] # e
    BY <1>4 DEF FindRowCol
  <2> HIDE DEF e
  <2>2. /\ s \in Seq(RowCols) /\ DOMAIN list = 1 .. Len(list) /\ Len(list) \in Nat
        /\ DOMAIN s = 1 .. Len(list) + 1 /\ s[Len(list) + 1] = e
        /\ \A i \in 1 .. Len(list) : s[i] = list[i]
    BY <1>1, <1>2
  <2> HIDE DEF s
  <2>3. \A i \in DOMAIN s : i = Len(list) + 1 \/ i \in DOMAIN list
    BY <2>2
  <2>4. ASSUME NEW i \in DOMAIN s, NEW j \in DOMAIN s, s[i] = s[j]
        PROVE  i = j
    BY <1>1, <2>1, <2>2, <2>3, <2>4
  <2>5. s \in Once
    BY <2>2, <2>4 DEF Once
  <2> QED BY <1>4, <2>5 DEF AddUnique, s, e
<1> QED BY <1>3, <1>4

(* Nor by the numbers of a line.                                            *)
LEMMA NumbersOnce ==
  ASSUME NEW list \in Once, NEW type \in Types, NEW nums \in Seq(Int)
  PROVE  AddNumbers(list, type, nums) \in Once
<1> DEFINE N == Len(nums)
           Next(n, v) == IF nums[n] >= 0 THEN AddUnique(v, type, nums[n]) ELSE v
           F == [n \in 1 .. N |-> [v \in Once |-> Next(n, v)]]
           added == CHOOSE f : f = [n \in 0 .. N |-> IF n = 0 THEN list ELSE Next(n, f[n - 1])]
<1>0. N \in Nat /\ \A n \in 1 .. N : nums[n] \in Int
  OBVIOUS
<1>1. AddNumbers(list, type, nums) = added[N]
  BY Zenon DEF AddNumbers
<1>2. \A n \in 1 .. N : \A v \in Once : F[n][v] = Next(n, v) /\ Next(n, v) \in Once
  <2>1. ASSUME NEW n \in 1 .. N, NEW v \in Once
        PROVE  F[n][v] = Next(n, v) /\ Next(n, v) \in Once
    <3>1. F[n][v] = Next(n, v)
      OBVIOUS
    <3>2. Next(n, v) \in Once
      BY <1>0, AddedOnce
    <3> QED BY <3>1, <3>2
  <2> QED BY <2>1
<1> HIDE DEF F, N, Next
<1>3. PICK g : Follows(g, N, Once, list, F)
  <2>1. Leads(N, Once, list, F)
    BY <1>0, <1>2 DEF Leads
  <2> QED BY <2>1, OneByOne
<1>4. \A n \in 0 .. N : n # 0 => n \in 1 .. N /\ n - 1 \in 0 .. N
  BY <1>0
<1>5. g = [n \in 0 .. N |-> IF n = 0 THEN list ELSE Next(n, g[n - 1])]
  <2>1. \A n \in 0 .. N : g[n] = IF n = 0 THEN list ELSE Next(n, g[n - 1])
    BY <1>2, <1>3, <1>4 DEF Follows
  <2> QED BY <1>3, <2>1 DEF Follows
<1>6. added = [n \in 0 .. N |-> IF n = 0 THEN list ELSE Next(n, added[n - 1])]
  BY <1>5, Zenon
<1> HIDE DEF added
<1>7. added[0] \in Once
  BY <1>0, <1>6
<1>8. \A n \in 1 .. N : n \in 0 .. N /\ n # 0
  BY <1>0
<1>9. \A n \in 1 .. N : added[n - 1] \in Once => added[n] \in Once
  BY <1>2, <1>6, <1>8
<1>10. \A n \in 0 .. N : added[n] \in Once
  BY <1>0, <1>7, <1>9, Along
<1> QED BY <1>0, <1>1, <1>10

(* Nor by the lines of a file.                                              *)
LEMMA ReadOnce ==
  ASSUME NEW file \in Seq([word : STRING, nums : Seq(Int)])
  PROVE  ReadRowCols(file) \in Once
<1> DEFINE N == Len(file)
           Next(n, v) == IF file[n].word = "#" \/ GetType(file[n].word) = "eCCDUnknownType" THEN v
                         ELSE AddNumbers(v, GetType(file[n].word), file[n].nums)
           F == [n \in 1 .. N |-> [v \in Once |-> Next(n, v)]]
           read == CHOOSE f : f = [n \in 0 .. N |-> IF n = 0 THEN <<>> ELSE Next(n, f[n - 1])]
<1>0. N \in Nat /\ \A n \in 1 .. N : file[n] \in [word : STRING, nums : Seq(Int)]
  <2> DEFINE L == [word : STRING, nums : Seq(Int)]
  <2>1. file \in Seq(L)
    OBVIOUS
  <2> HIDE DEF L
  <2>2. N \in Nat /\ \A n \in 1 .. N : file[n] \in L
    BY <2>1
  <2> QED BY <2>2 DEF L
<1>e. <<>> \in Once
  BY DEF Once
<1>t. \A w : GetType(w) \in Types
  BY DEF GetType, Types
<1>1. ReadRowCols(file) = read[N]
  BY Zenon DEF ReadRowCols
<1>2. \A n \in 1 .. N : \A v \in Once : F[n][v] = Next(n, v) /\ Next(n, v) \in Once
  <2>1. ASSUME NEW n \in 1 .. N, NEW v \in Once
        PROVE  F[n][v] = Next(n, v) /\ Next(n, v) \in Once
    <3>1. F[n][v] = Next(n, v)
      OBVIOUS
    <3>2. GetType(file[n].word) \in Types /\ file[n].nums \in Seq(Int)
      BY <1>0, <1>t
    <3>3. Next(n, v) \in Once
      BY <3>2, NumbersOnce
    <3> QED BY <3>1, <3>3
  <2> QED BY <2>1
<1> HIDE DEF F, N, Next
<1>3. PICK g : Follows(g, N, Once, <<>>, F)
  <2>1. Leads(N, Once, <<>>, F)
    BY <1>0, <1>e, <1>2 DEF Leads
  <2> QED BY <2>1, OneByOne
<1>4. \A n \in 0 .. N : n # 0 => n \in 1 .. N /\ n - 1 \in 0 .. N
  BY <1>0
<1>5. g = [n \in 0 .. N |-> IF n = 0 THEN <<>> ELSE Next(n, g[n - 1])]
  <2>1. \A n \in 0 .. N : g[n] = IF n = 0 THEN <<>> ELSE Next(n, g[n - 1])
    BY <1>2, <1>3, <1>4 DEF Follows
  <2> QED BY <1>3, <2>1 DEF Follows
<1>6. read = [n \in 0 .. N |-> IF n = 0 THEN <<>> ELSE Next(n, read[n - 1])]
  BY <1>5, Zenon
<1> HIDE DEF read
<1>7. read[0] \in Once
  BY <1>0, <1>6, <1>e
<1>8. \A n \in 1 .. N : n \in 0 .. N /\ n # 0
  BY <1>0
<1>9. \A n \in 1 .. N : read[n - 1] \in Once => read[n] \in Once
  BY <1>2, <1>6, <1>8
<1>10. \A n \in 0 .. N : read[n] \in Once
  BY <1>0, <1>7, <1>9, Along
<1> QED BY <1>0, <1>1, <1>10

-----------------------------------------------------------------------------
(* Bits.  A cell has a bit for each of eight pixels.                        *)
BitsSound(list, hit) ==
  /\ DOMAIN list = 0 .. ListSize \div 8
  /\ \A p \in Positions : CheckPixel(list, p) <=> p \in hit

(* A pixel has a cell of the list and a bit of its own there.               *)
LEMMA Cells ==
  /\ \A p \in Positions : CellOf(p) \in 0 .. ListSize \div 8 /\ p \in Int
  /\ \A p, q \in Positions : CellOf(p) = CellOf(q) /\ BitOf(p) = BitOf(q) => p = q
<1>1. ListSize \in Nat \ {0}
  BY RegionsAssumption
<1>2. \A p \in Positions : CellOf(p) \in 0 .. ListSize \div 8 /\ p \in Int
  BY <1>1 DEF Positions, CellOf
<1>3. \A p, q \in Positions : CellOf(p) = CellOf(q) /\ BitOf(p) = BitOf(q) => p = q
  <2>1. ASSUME NEW p \in Positions, NEW q \in Positions, CellOf(p) = CellOf(q), BitOf(p) = BitOf(q)
        PROVE  p = q
    <3> DEFINE c == CellOf(p)
    <3>1. p - 8 * c = q - 8 * c /\ p \in Int /\ q \in Int /\ c \in Int
      BY <1>2, <2>1 DEF BitOf
    <3> HIDE DEF c
    <3> QED BY <3>1
  <2> QED BY <2>1
<1> QED BY <1>2, <1>3

(* Hitting or clearing a pixel changes its bit and no other.                *)
LEMMA BitChanged ==
  ASSUME NEW list, NEW hit, BitsSound(list, hit), NEW pos \in Positions
  PROVE  /\ BitsSound(HitPixel(list, pos), hit \cup {pos})
         /\ BitsSound(ClearPixel(list, pos), hit \ {pos})
<1> DEFINE c == CellOf(pos)
<1>1. c \in DOMAIN list /\ DOMAIN list = 0 .. ListSize \div 8
  BY Cells DEF BitsSound
<1>2. ASSUME NEW l2, DOMAIN l2 = DOMAIN list, \A d \in DOMAIN list : d # c => l2[d] = list[d],
             NEW on \in BOOLEAN, l2[c] = IF on THEN list[c] \cup {BitOf(pos)} ELSE list[c] \ {BitOf(pos)}
      PROVE  BitsSound(l2, IF on THEN hit \cup {pos} ELSE hit \ {pos})
  <2>1. ASSUME NEW p \in Positions
        PROVE  CheckPixel(l2, p) <=> p \in IF on THEN hit \cup {pos} ELSE hit \ {pos}
    <3>1. CellOf(p) \in DOMAIN list /\ (CheckPixel(list, p) <=> p \in hit)
      BY <1>1, Cells DEF BitsSound
    <3>2. CASE CellOf(p) # c
      <4>1. p # pos
        BY <3>2
      <4>2. l2[CellOf(p)] = list[CellOf(p)]
        BY <1>2, <3>1, <3>2
      <4> QED BY <3>1, <4>1, <4>2 DEF CheckPixel
    <3>3. CASE CellOf(p) = c
      <4>1. BitOf(p) = BitOf(pos) <=> p = pos
        BY <3>3, Cells
      <4> HIDE DEF c
      <4> QED BY <1>2, <3>1, <3>3, <4>1 DEF CheckPixel
    <3> QED BY <3>2, <3>3
  <2> QED BY <1>1, <1>2, <2>1 DEF BitsSound
<1>3. BitsSound(HitPixel(list, pos), hit \cup {pos})
  <2> DEFINE l2 == HitPixel(list, pos)
  <2>1. DOMAIN l2 = DOMAIN list /\ (\A d \in DOMAIN list : d # c => l2[d] = list[d]) /\ l2[c] = list[c] \cup {BitOf(pos)}
    BY <1>1 DEF HitPixel
  <2> HIDE DEF l2, c
  <2>2. BitsSound(l2, IF TRUE THEN hit \cup {pos} ELSE hit \ {pos})
    BY <1>2, <2>1
  <2> QED BY <2>2 DEF l2
<1>4. BitsSound(ClearPixel(list, pos), hit \ {pos})
  <2> DEFINE l2 == ClearPixel(list, pos)
  <2>1. DOMAIN l2 = DOMAIN list /\ (\A d \in DOMAIN list : d # c => l2[d] = list[d]) /\ l2[c] = list[c] \ {BitOf(pos)}
    BY <1>1 DEF ClearPixel
  <2> HIDE DEF l2, c
  <2>2. BitsSound(l2, IF FALSE THEN hit \cup {pos} ELSE hit \ {pos})
    BY <1>2, <2>1
  <2> QED BY <2>2 DEF l2
<1> QED BY <1>3, <1>4

(* Clearing cells clears the bits of every pixel in them.                   *)
LEMMA PartCleared ==
  ASSUME NEW list, NEW hit, BitsSound(list, hit),
         NEW toClear \in PartsToClear
  PROVE  BitsSound(ClearPart(list, toClear).list, hit \ Unhitting(toClear))
<1> DEFINE reached == {i \in DOMAIN toClear : \A j \in 1 .. i : Fits(list, toClear[j])}
           gone == IF toClear[1] > ListSize THEN {} ELSE {p \in Positions : \E i \in DOMAIN toClear : CellOf(p) = CellOf(toClear[i])}
           l2 == [c \in DOMAIN list |-> IF \E i \in reached : CellOf(toClear[i]) = c THEN {} ELSE list[c]]
<1>0. ListSize \in Nat \ {0} /\ DOMAIN list = 0 .. ListSize \div 8
  BY RegionsAssumption DEF BitsSound
<1>1. ClearPart(list, toClear).list = l2
  BY DEF ClearPart
<1>2. reached = IF toClear[1] > ListSize THEN {} ELSE DOMAIN toClear
  <2>1. Fits(list, 0) /\ Fits(list, ListSize - 1) /\ ~Fits(list, ListSize + 8)
    BY <1>0 DEF Fits, CellOf
  <2>2. CASE toClear = << 0 >>
    <3>1. DOMAIN toClear = {1} /\ toClear[1] = 0 /\ 1 .. 1 = {1}
      BY <2>2
    <3> QED BY <1>0, <2>1, <3>1
  <2>3. CASE toClear = <<ListSize - 1, 0>>
    <3>1. DOMAIN toClear = {1, 2} /\ toClear[1] = ListSize - 1 /\ toClear[2] = 0 /\ 1 .. 1 = {1} /\ 1 .. 2 = {1, 2}
      BY <2>3
    <3> QED BY <1>0, <2>1, <3>1
  <2>4. CASE toClear = <<ListSize + 8, 0>>
    <3>1. DOMAIN toClear = {1, 2} /\ toClear[1] = ListSize + 8 /\ 1 \in 1 .. 1 /\ 1 \in 1 .. 2
      BY <2>4
    <3> QED BY <1>0, <2>1, <3>1
  <2> QED BY <2>2, <2>3, <2>4 DEF PartsToClear
<1> HIDE DEF reached
<1>3. ASSUME NEW p \in Positions
      PROVE  CheckPixel(l2, p) <=> p \in hit \ gone
  <2>1. CellOf(p) \in DOMAIN list /\ (CheckPixel(list, p) <=> p \in hit)
    BY <1>0, Cells DEF BitsSound
  <2>2. l2[CellOf(p)] = IF \E i \in reached : CellOf(toClear[i]) = CellOf(p) THEN {} ELSE list[CellOf(p)]
    BY <2>1
  <2>3. p \in gone <=> \E i \in reached : CellOf(toClear[i]) = CellOf(p)
    BY <1>2
  <2> HIDE DEF l2, gone
  <2> QED BY <2>1, <2>2, <2>3 DEF CheckPixel
<1>4. DOMAIN l2 = DOMAIN list
  OBVIOUS
<1> HIDE DEF l2, gone
<1>5. BitsSound(l2, hit \ gone)
  BY <1>0, <1>3, <1>4 DEF BitsSound
<1> QED BY <1>1, <1>5 DEF gone, Unhitting

-----------------------------------------------------------------------------
(* Defects.  A pixel or a rectangle, moved, covers the pixels of its shape. *)
LEMMA ShapeCovered ==
  ASSUME NEW n \in Seq(Int), Len(n) = 2 \/ Len(n) = 4, NEW dx \in Int, NEW junk, NEW x \in Int, NEW y \in Int
  PROVE  DefectIsBAD(DefectOf(n, dx, 0, junk), x, y) <=> <<x - dx, y>> \in Shape(n)
<1> DEFINE d == DefectOf(n, dx, 0, junk)
<1>1. CASE Len(n) = 2
  <2>1. n[1] \in Int /\ n[2] \in Int
    BY <1>1
  <2> DEFINE a == n[1]  b == n[2]
  <2>2. d = [x |-> a + dx, y |-> b + 0, dx |-> 0, dy |-> 0, r |-> junk, type |-> 0]
    BY <1>1 DEF DefectOf
  <2>3. Shape(n) = {<<a + i, b + j>> : i, j \in -1 .. 1}
    BY <1>1 DEF Shape
  <2>4. a \in Int /\ b \in Int
    BY <2>1
  <2> HIDE DEF d, a, b
  <2>5. DefectIsBAD(d, x, y) <=> Off(x, a + dx) <= 1 /\ Off(y, b) <= 1
    BY <2>2, <2>4 DEF DefectIsBAD, DefectIsOK
  <2>6. Off(x, a + dx) <= 1 <=> \E i \in -1 .. 1 : x - dx = a + i
    <3>1. Off(x, a + dx) <= 1 <=> x - dx - a \in -1 .. 1
      BY <2>4 DEF Off
    <3>2. x - dx = a + (x - dx - a)
      BY <2>4
    <3>3. \A i \in -1 .. 1 : x - dx = a + i => i = x - dx - a
      BY <2>4
    <3> QED BY <3>1, <3>2, <3>3
  <2>7. Off(y, b) <= 1 <=> \E j \in -1 .. 1 : y = b + j
    <3>1. Off(y, b) <= 1 <=> y - b \in -1 .. 1
      BY <2>4 DEF Off
    <3>2. y = b + (y - b)
      BY <2>4
    <3>3. \A i \in -1 .. 1 : y = b + i => i = y - b
      BY <2>4
    <3> QED BY <3>1, <3>2, <3>3
  <2>8. <<x - dx, y>> \in Shape(n) <=> (\E i \in -1 .. 1 : x - dx = a + i) /\ \E j \in -1 .. 1 : y = b + j
    BY <2>3
  <2> QED BY <2>5, <2>6, <2>7, <2>8 DEF d
<1>2. CASE Len(n) = 4
  <2>1. n[1] \in Int /\ n[2] \in Int /\ n[3] \in Int /\ n[4] \in Int
    BY <1>2
  <2> DEFINE a == n[1]  b == n[2]  w == n[3]  h == n[4]
  <2>2. d = [x |-> a + dx, y |-> b + 0, dx |-> w, dy |-> h, r |-> junk, type |-> 1]
    BY <1>2 DEF DefectOf
  <2>3. Shape(n) = {<<a + i, b + j>> : i \in 0 .. w, j \in 0 .. h}
    BY <1>2 DEF Shape
  <2>4. a \in Int /\ b \in Int /\ w \in Int /\ h \in Int
    BY <2>1
  <2> HIDE DEF d, a, b, w, h
  <2>5. DefectIsBAD(d, x, y) <=> x >= a + dx /\ x <= a + dx + w /\ y >= b /\ y <= b + h
    BY <2>2, <2>4 DEF DefectIsBAD, DefectIsOK
  <2>6. x >= a + dx /\ x <= a + dx + w <=> \E i \in 0 .. w : x - dx = a + i
    <3>1. x >= a + dx /\ x <= a + dx + w <=> x - dx - a \in 0 .. w
      BY <2>4
    <3>2. x - dx = a + (x - dx - a)
      BY <2>4
    <3>3. \A i \in 0 .. w : x - dx = a + i => i = x - dx - a
      BY <2>4
    <3> QED BY <3>1, <3>2, <3>3
  <2>7. y >= b /\ y <= b + h <=> \E j \in 0 .. h : y = b + j
    <3>1. y >= b /\ y <= b + h <=> y - b \in 0 .. h
      BY <2>4
    <3>2. y = b + (y - b)
      BY <2>4
    <3>3. \A i \in 0 .. h : y = b + i => i = y - b
      BY <2>4
    <3> QED BY <3>1, <3>2, <3>3
  <2>8. <<x - dx, y>> \in Shape(n) <=> (\E i \in 0 .. w : x - dx = a + i) /\ \E j \in 0 .. h : y = b + j
    BY <2>3
  <2> QED BY <2>5, <2>6, <2>7, <2>8 DEF d
<1> QED BY <1>1, <1>2

(* A bad pixel is bad.                                                      *)
LEMMA BadPixelBad ==
  ASSUME NEW d, NEW x, NEW y, DefectIsBadPixel(d, x, y, 1)
  PROVE  DefectIsBAD(d, x, y)
BY DEF DefectIsBadPixel, DefectIsBAD, DefectIsOK

(* What is kept of the defects is what was read. *)
DefectsSound ==
  past.file # <<>> =>
    /\ past.file \in DefectFiles /\ past.dx \in Int
    /\ \E junk : defects = ReadDefects(past.file, past.dx, 0, junk).list /\ ~ReadDefects(past.file, past.dx, 0, junk).bad

(* The defects read say of a pixel what their file says.                    *)
LEMMA DefectsKnown ==
  ASSUME DefectsSound, past.file # <<>>
  PROVE  LET read == {i \in DOMAIN past.file : past.file[i].word # "#"}
             shaped == \A i \in read : Len(past.file[i].nums) \in {2, 4}
         IN  \A x, y \in -1 .. 8 :
               /\ shaped => (IsBAD(defects, x, y) <=> \E i \in read : <<x - past.dx, y>> \in Shape(past.file[i].nums))
               /\ IsBadPixel(defects, x, y, 1) => IsBAD(defects, x, y)
<1> DEFINE file == past.file
           dx == past.dx
           read == {i \in DOMAIN file : file[i].word # "#"}
<1>1. file \in DefectFiles /\ dx \in Int
  BY DEF DefectsSound
<1>2. PICK junk : defects = ReadDefects(file, dx, 0, junk).list /\ ~ReadDefects(file, dx, 0, junk).bad
  BY DEF DefectsSound
<1>3. ReadDefects(file, dx, 0, junk) =
        IF \E i \in read : Len(file[i].nums) < 2 THEN [bad |-> TRUE, list |-> <<>>]
        ELSE [bad |-> FALSE, list |-> [i \in read |-> DefectOf(file[i].nums, dx, 0, junk)]]
  BY Zenon DEF ReadDefects
<1>4. \A i \in read : file[i].nums \in Seq(Int)
  <2> DEFINE L == [word : STRING, nums : Seq(Int)]
  <2>1. file \in Seq(L)
    BY <1>1, RegionsAssumption
  <2>2. \A l \in L : l.nums \in Seq(Int)
    OBVIOUS
  <2> HIDE DEF L, file
  <2>3. \A i \in DOMAIN file : file[i] \in L
    BY <2>1
  <2> QED BY <2>2, <2>3
<1> HIDE DEF read
<1>5. defects = [i \in read |-> DefectOf(file[i].nums, dx, 0, junk)]
  <2>1. CASE \E i \in read : Len(file[i].nums) < 2
    BY <1>2, <1>3, <2>1
  <2>2. CASE ~\E i \in read : Len(file[i].nums) < 2
    BY <1>2, <1>3, <2>2
  <2> QED BY <2>1, <2>2
<1>6. DOMAIN defects = read /\ \A i \in read : defects[i] = DefectOf(file[i].nums, dx, 0, junk)
  BY <1>5
<1> HIDE DEF file, dx
<1>7. ASSUME NEW x \in -1 .. 8, NEW y \in -1 .. 8, \A i \in read : Len(file[i].nums) \in {2, 4}
      PROVE  IsBAD(defects, x, y) <=> \E i \in read : <<x - dx, y>> \in Shape(file[i].nums)
  <2>1. x \in Int /\ y \in Int
    OBVIOUS
  <2>2. ASSUME NEW i \in read
        PROVE  DefectIsBAD(defects[i], x, y) <=> <<x - dx, y>> \in Shape(file[i].nums)
    <3>1. Len(file[i].nums) = 2 \/ Len(file[i].nums) = 4
      BY <1>7
    <3>2. file[i].nums \in Seq(Int) /\ defects[i] = DefectOf(file[i].nums, dx, 0, junk)
      BY <1>4, <1>6
    <3> QED BY <1>1, <2>1, <3>1, <3>2, ShapeCovered
  <2> QED BY <1>6, <2>2 DEF IsBAD
<1>8. ASSUME NEW x \in -1 .. 8, NEW y \in -1 .. 8
      PROVE  IsBadPixel(defects, x, y, 1) => IsBAD(defects, x, y)
  BY BadPixelBad DEF IsBadPixel, IsBAD
<1> QED BY <1>7, <1>8 DEF read, file, dx

(* What is in a sequence, and in two together. *)
In(s, q) == \E i \in 1 .. Len(s) : s[i] = q

(* What is in two sequences is in one or the other.                         *)
LEMMA InBoth ==
  ASSUME NEW s \in Seq(Int), NEW t \in Seq(Int), NEW q
  PROVE  s \o t \in Seq(Int) /\ (In(s \o t, q) <=> In(s, q) \/ In(t, q))
<1> DEFINE u == s \o t
<1>1. /\ u \in Seq(Int) /\ Len(u) = Len(s) + Len(t) /\ Len(s) \in Nat /\ Len(t) \in Nat
      /\ \A i \in 1 .. Len(s) : u[i] = s[i] /\ i \in 1 .. Len(u)
      /\ \A i \in 1 .. Len(t) : u[Len(s) + i] = t[i] /\ Len(s) + i \in 1 .. Len(u)
  OBVIOUS
<1>2. \A i \in 1 .. Len(u) : i \in 1 .. Len(s) \/ (i - Len(s) \in 1 .. Len(t) /\ i = Len(s) + (i - Len(s)))
  BY <1>1
<1> HIDE DEF u
<1>3. In(s, q) \/ In(t, q) => In(u, q)
  BY <1>1 DEF In
<1>4. ASSUME NEW i \in 1 .. Len(u), u[i] = q
      PROVE  In(s, q) \/ In(t, q)
  <2>1. CASE i \in 1 .. Len(s)
    BY <1>1, <1>4, <2>1 DEF In
  <2>2. CASE i - Len(s) \in 1 .. Len(t) /\ i = Len(s) + (i - Len(s))
    <3> DEFINE k == i - Len(s)
    <3>1. k \in 1 .. Len(t) /\ t[k] = q
      BY <1>1, <1>4, <2>2
    <3> QED BY <3>1 DEF In
  <2> QED BY <1>2, <2>1, <2>2
<1> QED BY <1>1, <1>3, <1>4 DEF In, u

(* A sequence of at most one.                                               *)
LEMMA InOne ==
  ASSUME NEW c \in BOOLEAN, NEW v \in Int, NEW q
  PROVE  LET s == IF c THEN <<v>> ELSE <<>> IN s \in Seq(Int) /\ (In(s, q) <=> c /\ v = q)
<1>1. CASE c
  <2>1. <<v>> \in Seq(Int) /\ Len(<<v>>) = 1 /\ <<v>>[1] = v
    OBVIOUS
  <2> QED BY <1>1, <2>1 DEF In
<1>2. CASE ~c
  <2>1. <<>> \in Seq(Int) /\ Len(<<>>) = 0
    OBVIOUS
  <2> QED BY <1>2, <2>1 DEF In
<1> QED BY <1>1, <1>2

(* Pixels are neighbours of each other.                                     *)
LEMMA Neighbours == Mutual
<1> SUFFICES ASSUME NEW p \in 0 .. 5, NEW q \in 0 .. 5
             PROVE  In(GetDesc(3, 2, p), q) <=> Off(p % 3, q % 3) + Off(p \div 3, q \div 3) <= 1
  BY DEF Mutual, In
<1> DEFINE x == p % 3
           y == p \div 3
           a == IF y > 0 THEN <<p - 3>> ELSE <<>>
           b == IF x > 0 THEN <<p - 1>> ELSE <<>>
           c == <<p>>
           d == IF x < 3 - 1 THEN <<p + 1>> ELSE <<>>
           e == IF y < 2 - 1 THEN <<p + 3>> ELSE <<>>
<1>1. p = 3 * y + x /\ x \in 0 .. 2 /\ y \in 0 .. 1
  OBVIOUS
<1>2. q = 3 * (q \div 3) + (q % 3) /\ q % 3 \in 0 .. 2 /\ q \div 3 \in 0 .. 1
  <2>1. q \in Int /\ q >= 0 /\ q <= 5
    OBVIOUS
  <2> DEFINE k == q \div 3  l == q % 3
  <2>2. q = 3 * k + l /\ l \in 0 .. 2 /\ k \in Int
    BY <2>1
  <2> HIDE DEF k, l
  <2>3. q = 3 * k + l /\ l \in 0 .. 2 /\ k \in 0 .. 1
    BY <2>1, <2>2
  <2> QED BY <2>3 DEF k, l
<1>3. GetDesc(3, 2, p) = a \o b \o c \o d \o e
  BY DEF GetDesc
<1> HIDE DEF x, y
<1>4. /\ a \in Seq(Int) /\ (In(a, q) <=> y > 0 /\ p - 3 = q)
      /\ b \in Seq(Int) /\ (In(b, q) <=> x > 0 /\ p - 1 = q)
      /\ d \in Seq(Int) /\ (In(d, q) <=> x < 2 /\ p + 1 = q)
      /\ e \in Seq(Int) /\ (In(e, q) <=> y < 1 /\ p + 3 = q)
  <2>1. p - 3 \in Int /\ p - 1 \in Int /\ p + 1 \in Int /\ p + 3 \in Int
    OBVIOUS
  <2>2. (y > 0) \in BOOLEAN /\ (x > 0) \in BOOLEAN /\ (x < 3 - 1) \in BOOLEAN /\ (y < 2 - 1) \in BOOLEAN
    BY <1>1
  <2>3. (x < 3 - 1 <=> x < 2) /\ (y < 2 - 1 <=> y < 1)
    OBVIOUS
  <2>4. a \in Seq(Int) /\ (In(a, q) <=> y > 0 /\ p - 3 = q)
    BY <2>1, <2>2, InOne, Zenon
  <2>5. b \in Seq(Int) /\ (In(b, q) <=> x > 0 /\ p - 1 = q)
    BY <2>1, <2>2, InOne, Zenon
  <2>6. d \in Seq(Int) /\ (In(d, q) <=> x < 3 - 1 /\ p + 1 = q)
    BY <2>1, <2>2, InOne, Zenon
  <2>7. e \in Seq(Int) /\ (In(e, q) <=> y < 2 - 1 /\ p + 3 = q)
    BY <2>1, <2>2, InOne, Zenon
  <2> HIDE DEF a, b, d, e
  <2> QED BY <2>3, <2>4, <2>5, <2>6, <2>7
<1>5. c \in Seq(Int) /\ (In(c, q) <=> p = q)
  <2>1. c \in Seq(Int) /\ Len(c) = 1 /\ c[1] = p
    OBVIOUS
  <2> HIDE DEF c
  <2> QED BY <2>1 DEF In
<1> HIDE DEF a, b, c, d, e
<1>6. a \o b \in Seq(Int) /\ (In(a \o b, q) <=> In(a, q) \/ In(b, q))
  BY <1>4, InBoth
<1>7. a \o b \o c \in Seq(Int) /\ (In(a \o b \o c, q) <=> In(a \o b, q) \/ In(c, q))
  BY <1>5, <1>6, InBoth
<1>8. a \o b \o c \o d \in Seq(Int) /\ (In(a \o b \o c \o d, q) <=> In(a \o b \o c, q) \/ In(d, q))
  BY <1>4, <1>7, InBoth
<1>9. In(a \o b \o c \o d \o e, q) <=> In(a \o b \o c \o d, q) \/ In(e, q)
  BY <1>4, <1>8, InBoth
<1>10. In(GetDesc(3, 2, p), q) <=> \/ y > 0 /\ p - 3 = q
                                   \/ x > 0 /\ p - 1 = q
                                   \/ p = q
                                   \/ x < 2 /\ p + 1 = q
                                   \/ y < 1 /\ p + 3 = q
  BY <1>3, <1>4, <1>5, <1>6, <1>7, <1>8, <1>9
<1> DEFINE u == q % 3
           v == q \div 3
<1>11. q = 3 * v + u /\ u \in 0 .. 2 /\ v \in 0 .. 1
  BY <1>2
<1> HIDE DEF u, v
<1>12. Off(x, u) + Off(y, v) <= 1 <=> \/ y > 0 /\ p - 3 = q
                                      \/ x > 0 /\ p - 1 = q
                                      \/ p = q
                                      \/ x < 2 /\ p + 1 = q
                                      \/ y < 1 /\ p + 3 = q
  BY <1>1, <1>11 DEF Off
<1> QED BY <1>10, <1>12 DEF x, y, u, v

-----------------------------------------------------------------------------
RegionsSound ==
  /\ AreasSound(areas)
  /\ DOMAIN lists = {"rowcols", "windows"} /\ lists.rowcols \in Once
  /\ DOMAIN past = {"file", "dx", "hit"} /\ BitsSound(bits, past.hit) /\ DefectsSound

(* Sound regions place every pixel.                                         *)
LEMMA RegionsPlaced ==
  ASSUME RegionsSound
  PROVE  Placed
<1>1. Tiles
  BY AreasTile DEF RegionsSound
<1>2. \A i, j \in DOMAIN lists.rowcols : lists.rowcols[i] = lists.rowcols[j] => i = j
  BY DEF RegionsSound, Once
<1>3. \A p \in Positions : CheckPixel(bits, p) <=> p \in past.hit
  BY DEF RegionsSound, BitsSound
<1>4. Known
  BY <1>2, <1>3, DefectsKnown, Neighbours, Zenon DEF Known, RegionsSound
<1> QED BY <1>1, <1>4 DEF Placed

(* Nothing read yet.                                                        *)
LEMMA RegionsInitSound ==
  ASSUME RegionInit
  PROVE  RegionsSound
<1>1. AreasSound(areas)
  BY DEF RegionInit, NoAreas, AreasSound, AreaFields, NoMap
<1>2. DOMAIN lists = {"rowcols", "windows"} /\ lists.rowcols \in Once
  BY DEF RegionInit, NoLists, Once
<1>3. DOMAIN past = {"file", "dx", "hit"} /\ past.hit = {} /\ past.file = <<>>
  BY DEF RegionInit, NoPast
<1>4. BitsSound(bits, {})
  <2>1. DOMAIN bits = 0 .. ListSize \div 8 /\ \A c \in DOMAIN bits : bits[c] = {}
    BY DEF RegionInit, NewPixelList
  <2> QED BY <2>1, Cells DEF BitsSound, CheckPixel
<1>5. DefectsSound
  BY <1>3 DEF DefectsSound
<1> QED BY <1>1, <1>2, <1>3, <1>4, <1>5 DEF RegionsSound

(* Every call keeps the regions sound.                                      *)
LEMMA RegionsNextSound ==
  ASSUME RegionsSound, [RegionNext]_regionVars
  PROVE  RegionsSound'
<1> USE DEF RegionsSound
<1>a. ASSUME UNCHANGED areas PROVE AreasSound(areas)'
  BY <1>a DEF AreasSound, MapOf
<1>l. ASSUME UNCHANGED lists
      PROVE  (DOMAIN lists = {"rowcols", "windows"} /\ lists.rowcols \in Once)'
  BY <1>l
<1>d. ASSUME UNCHANGED defects, past'.file = past.file, past'.dx = past.dx
      PROVE  DefectsSound'
  BY <1>d DEF DefectsSound
<1>1. CASE InitTable \/ ConstructTable \/ ClearTable
  <2>0. AreasSound(areas)
    OBVIOUS
  <2>1. AreasSound(areas')
    <3>1. CASE InitTable
      <4>1. PICK d \in Divisions : areas' = InitAreas(areas, d)
        BY <3>1, Zenon DEF InitTable
      <4> QED BY <2>0, <4>1, AreasMade
    <3>2. CASE ConstructTable
      <4>1. PICK d \in Divisions : areas' = InitConstructorAreas(areas, d)
        BY <3>2, Zenon DEF ConstructTable
      <4> QED BY <2>0, <4>1, AreasMade
    <3>3. CASE ClearTable
      BY <2>0, <3>3, ClearedAreas DEF ClearTable, AreasSound
    <3> QED BY <1>1, <3>1, <3>2, <3>3
  <2>2. UNCHANGED <<lists, defects, bits, past>>
    BY <1>1 DEF InitTable, ConstructTable, ClearTable
  <2> QED BY <1>l, <1>d, <2>1, <2>2
<1>2. CASE ReadList \/ AddToList
  <2>1. UNCHANGED <<areas, defects, bits, past>>
    BY <1>2 DEF ReadList, AddToList
  <2>2. ASSUME NEW v \in Once, lists' = [lists EXCEPT !.rowcols = v]
        PROVE  (DOMAIN lists = {"rowcols", "windows"} /\ lists.rowcols \in Once)'
    BY <2>2
  <2>3. ASSUME NEW v, lists' = [lists EXCEPT !.windows = v]
        PROVE  (DOMAIN lists = {"rowcols", "windows"} /\ lists.rowcols \in Once)'
    BY <2>3
  <2>4. \A f \in ListFiles : ReadRowCols(f) \in Once
    BY ReadOnce, RegionsAssumption
  <2>5. \A n \in {0, 2} : AddUnique(lists.rowcols, "eCCDRow", n) \in Once
    BY AddedOnce DEF Types
  <2>6. (DOMAIN lists = {"rowcols", "windows"} /\ lists.rowcols \in Once)'
    <3>1. CASE ReadList
      <4>1. PICK f \in ListFiles : \/ lists' = [lists EXCEPT !.rowcols = ReadRowCols(f)]
                                   \/ lists' = [lists EXCEPT !.windows = ReadWindows(f)]
        BY <3>1, Zenon DEF ReadList
      <4> QED BY <2>2, <2>3, <2>4, <4>1
    <3>2. CASE AddToList
      <4>1. PICK n \in {0, 2} : \/ lists' = [lists EXCEPT !.rowcols = AddUnique(@, "eCCDRow", n)]
                                \/ lists' = [lists EXCEPT !.windows = AddWindow(@, 0, 0, n, n)]
        BY <3>2, Zenon DEF AddToList
      <4> QED BY <2>2, <2>3, <2>5, <4>1
    <3> QED BY <1>2, <3>1, <3>2
  <2> QED BY <1>a, <1>d, <2>1, <2>6
<1>3. CASE ReadDefectList
  <2>1. PICK f \in DefectFiles, dx \in {0, 3}, junk \in Junk :
          /\ ~ReadDefects(f, dx, 0, junk).bad /\ defects' = ReadDefects(f, dx, 0, junk).list
          /\ past' = [past EXCEPT !.file = f, !.dx = dx] /\ UNCHANGED <<areas, lists, bits>>
    BY <1>3, Zenon DEF ReadDefectList
  <2>2. DOMAIN past' = {"file", "dx", "hit"} /\ past'.file = f /\ past'.dx = dx /\ past'.hit = past.hit
    BY <2>1
  <2>3. DefectsSound'
    BY <2>1, <2>2 DEF DefectsSound
  <2> QED BY <1>a, <1>l, <2>1, <2>2, <2>3
<1>4. CASE Hit \/ Unhit
  <2>1. PICK pos \in Positions : \/ bits' = HitPixel(bits, pos) /\ past' = [past EXCEPT !.hit = @ \cup {pos}]
                                 \/ bits' = ClearPixel(bits, pos) /\ past' = [past EXCEPT !.hit = @ \ {pos}]
    BY <1>4, Zenon DEF Hit, Unhit
  <2>2. UNCHANGED <<areas, lists, defects>>
    BY <1>4 DEF Hit, Unhit
  <2>3. /\ DOMAIN past' = {"file", "dx", "hit"} /\ past'.file = past.file /\ past'.dx = past.dx
        /\ \/ bits' = HitPixel(bits, pos) /\ past'.hit = past.hit \cup {pos}
           \/ bits' = ClearPixel(bits, pos) /\ past'.hit = past.hit \ {pos}
    BY <2>1
  <2>4. BitsSound(bits', past'.hit)
    <3>1. BitsSound(bits, past.hit)
      OBVIOUS
    <3>2. BitsSound(HitPixel(bits, pos), past.hit \cup {pos}) /\ BitsSound(ClearPixel(bits, pos), past.hit \ {pos})
      BY <3>1, BitChanged, Zenon
    <3> QED BY <2>3, <3>2
  <2> QED BY <1>a, <1>l, <1>d, <2>2, <2>3, <2>4
<1>5. CASE UnhitPart
  <2>1. PICK toClear \in PartsToClear :
          bits' = ClearPart(bits, toClear).list /\ past' = [past EXCEPT !.hit = @ \ Unhitting(toClear)]
    BY <1>5, Zenon DEF UnhitPart
  <2> DEFINE gone == Unhitting(toClear)
  <2>2. UNCHANGED <<areas, lists, defects>>
    BY <1>5 DEF UnhitPart
  <2>3. BitsSound(ClearPart(bits, toClear).list, past.hit \ gone)
    <3>1. BitsSound(bits, past.hit)
      OBVIOUS
    <3> QED BY <3>1, PartCleared
  <2>4. bits' = ClearPart(bits, toClear).list /\ past' = [past EXCEPT !.hit = @ \ gone]
    BY <2>1
  <2> HIDE DEF gone
  <2>5. DOMAIN past' = {"file", "dx", "hit"} /\ past'.file = past.file /\ past'.dx = past.dx /\ past'.hit = past.hit \ gone
    BY <2>4
  <2>6. BitsSound(bits', past'.hit)
    BY <2>3, <2>4, <2>5
  <2> QED BY <1>a, <1>l, <1>d, <2>2, <2>5, <2>6
<1>6. CASE UNCHANGED regionVars
  BY <1>a, <1>l, <1>d, <1>6 DEF regionVars
<1> QED BY <1>1, <1>2, <1>3, <1>4, <1>5, <1>6 DEF RegionNext

(* Every pixel is found in its area, and in the lists the files put it on   *)
(* (InfoTable2D, CRowColList, CCDDefectList, CPixelList, CDescTab2D).       *)
THEOREM PixelsPlaced == RegionSpec => []Placed
<1>1. RegionInit => RegionsSound
  BY RegionsInitSound
<1>2. RegionsSound /\ [RegionNext]_regionVars => RegionsSound'
  BY RegionsNextSound
<1>3. RegionsSound => Placed
  BY RegionsPlaced
<1> QED BY <1>1, <1>2, <1>3, PTL DEF RegionSpec
=============================================================================
