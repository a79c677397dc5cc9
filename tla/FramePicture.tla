----------------------------- MODULE FramePicture -----------------------------
(***************************************************************************)
(* What the operations of Table2D promise to whoever sees pictures and no  *)
(* memory: what a frame shows after a call, from what the frames showed    *)
(* before it.                                                              *)
(*                                                                         *)
(* shows[f] is whether f allocates for itself, its picture (Lost when it   *)
(* has no memory to show), the highest pixel noted, the shift it has made  *)
(* and the shift asked of it, in halves.  together says that both frames   *)
(* draw on one buffer.                                                     *)
(***************************************************************************)
EXTENDS Drawings, Laplace

VARIABLES shows, together, called, ret

vars == <<shows, together, called, ret>>

Lost == [w |-> -1, h |-> -1, at |-> <<>>]
Blank(w, h) == Drawing(w, h, LAMBDA x, y : 0)
Pic(f) == shows[f].pic
Showing(f) == Pic(f) # Lost
HasArea(p) == p.w > 0 /\ p.h > 0

(* An owner whose sizes were taken away no longer knows what to free.       *)
Emptied(f) == shows[f].own /\ ~HasArea(Pic(f))

Toward0(a, b) == Trunc(a, b)

Border(p, n) == {t \in DOMAIN p.at : t[1] < n \/ t[2] < n \/ t[1] >= p.w - n \/ t[2] >= p.h - n}

BorderMean(p, n) ==
  LET ofRow(y) == SumOver(LAMBDA t : p.at[t], {t \in Border(p, n) : t[2] = y})
  IN  Toward0(SumOver(ofRow, 0 .. p.h - 1), Cardinality(Border(p, n)))

InsideOf(p, x0, y0, lx, ly) == x0 >= 0 /\ y0 >= 0 /\ x0 + lx <= p.w /\ y0 + ly <= p.h

From(a) == Max({a, 0})
Cut(p, a) == Part(p, From(a[1]), Min({From(a[1]) + a[3], p.w}), From(a[2]), Min({From(a[2]) + a[4], p.h}))

Circled(p, a) ==
  Redrawn(p, LAMBDA x, y : LET d == (x - a[1]) * (x - a[1]) + (y - a[2]) * (y - a[2])
                               r == a[3]
                           IN  IF /\ r * r < d /\ d <= (r + a[4]) * (r + a[4])
                                  /\ Max({Magnitude(x - a[1]), Magnitude(y - a[2])}) <= r
                               THEN a[5] ELSE At(p, x, y))

(* What a pixel counts in a laplace of a type, in parts of how many pixels  *)
(* are taken away.                                                          *)
Parts(type) == Max({1, Len(gLaplaceInfo[type].minus)})
Weight(type, d) ==
  LET k == gLaplaceInfo[type]
      times(list) == Cardinality({i \in DOMAIN list : list[i] = d})
  IN  Parts(type) * times(k.plus) - Len(k.plus) * times(k.minus)

Filtered(p, x, y, type) ==
  Toward0(SumOver(LAMBDA d : Weight(type, d) * At(p, x + d[1], y + d[2]), Reaches(<<0, 0>>, type)), Parts(type))

Within5(p, x, y) == x \in 5 .. p.w - 6 /\ y \in 5 .. p.h - 6

-----------------------------------------------------------------------------
(* The frame a call draws in, and what it draws. *)
Target(c) ==
  CASE c.op \in {"Subtract", "Multiply"} -> c.a[1]
    [] c.op \in {"GetImage", "GetImageWithZeros", "CutBorder", "Laplace", "Laplace of a window", "LaplaceSafe"} -> c.g
    [] OTHER -> c.f

(* What is made 0 on request: a difference below it.  One that is drawn     *)
(* into the right frame itself has the right pixel's sign looked at.        *)
Zeroed(c, v, u) == IF c.a[1] = c.g THEN u < 0 ELSE v < u

Drawn(c) ==
  LET p == Pic(c.f)  q == Pic(c.g)  a == c.a
      each(f(_)) == Redrawn(p, LAMBDA x, y : f(At(p, x, y)))
      both(f(_, _)) == Redrawn(p, LAMBDA x, y : f(At(p, x, y), At(q, x, y)))
  IN  CASE c.op \in {"Table2D", "InitConstructor"} -> Blank(a[1], a[2])
        [] c.op \in {"Alloc", "ReSize"} -> IF p.w = a[1] /\ p.h = a[2] THEN p ELSE Blank(a[1], a[2])
        [] c.op \in {"=", "copy", "copy constructor"} -> q
        [] c.op = "SetData" -> each(LAMBDA v : a[1])
        [] c.op = "SubtractConst" -> each(LAMBDA v : IF a[2] THEN Max({v - a[1], 0}) ELSE v - a[1])
        [] c.op = "MultiplyByConst" -> each(LAMBDA v : Toward0(v * a[1], a[2]))
        [] c.op = "SubtractBacgroundInFrame" -> each(LAMBDA v : v - BorderMean(p, a[1]))
        [] c.op = "-=" -> both(Minus)
        [] c.op = "Subtract" -> both(LAMBDA v, u : IF a[2] /\ Zeroed(c, v, u) THEN 0 ELSE v - u)
        [] c.op = "Multiply" -> both(LAMBDA v, u : Min({a[3], Toward0(v * u, Max({a[2], 1}))}))
        [] c.op = "MarkStarWithCircle" -> Circled(p, a)
        [] c.op = "FlipImage" -> CASE a[1] = "eReverseImageHor" -> Mirrored(p)
                                   [] a[1] = "eReverseImageVert" -> UpsideDown(p)
                                   [] OTHER -> p
        [] c.op = "ClearBorder" -> Redrawn(p, LAMBDA x, y : IF <<x, y>> \in Border(p, a[1]) THEN 0 ELSE At(p, x, y))
        [] c.op = "GetImage" -> Cut(p, a)
        [] c.op = "GetImageWithZeros" ->
             Drawing(a[3], a[4], LAMBDA x, y : IF Within(p, a[1] + x, a[2] + y) THEN At(p, a[1] + x, a[2] + y) ELSE 0)
        [] c.op = "CutBorder" -> Part(p, a[1], p.w - a[3], a[4], p.h - a[2])
        [] c.op = "Laplace" ->
             Redrawn(p, LAMBDA x, y : IF Within5(p, x, y) THEN Filtered(p, x, y, a[1])
                                      ELSE IF SameSize(p, q) THEN At(q, x, y) ELSE 0)
        [] OTHER -> Pic(Target(c))

(* The highest pixel, the first of those by rows. *)
Highest(p) ==
  LET high == Max({p.at[t] : t \in DOMAIN p.at})
      first == CHOOSE t \in DOMAIN p.at : /\ p.at[t] = high
                 /\ \A u \in DOMAIN p.at : p.at[u] = high => t[2] < u[2] \/ (t[2] = u[2] /\ t[1] <= u[1])
  IN  <<high, first[1], first[2]>>

Noted(c) ==
  CASE c.op \in {"SubtractConst", "MultiplyByConst", "SubtractBacgroundInFrame"} /\ HasArea(Pic(c.f)) -> Highest(Drawn(c))
    [] c.op \in {"=", "copy constructor"} -> shows[c.g].max
    [] OTHER -> shows[Target(c)].max

Returned(c) ==
  LET p == Pic(c.f)  a == c.a
  IN  CASE c.op = "GetImage" -> IF SameSize(Cut(p, a), Drawing(a[3], a[4], LAMBDA x, y : 0)) THEN "TRUE" ELSE "FALSE"
        [] c.op = "GetImageWithZeros" -> IF InsideOf(p, a[1], a[2], a[3], a[4]) THEN "TRUE" ELSE "FALSE"
        [] c.op = "MarkStarWithCircle" -> IF Circled(Redrawn(p, LAMBDA x, y : 0), a) # Redrawn(p, LAMBDA x, y : 0)
                                          THEN "TRUE" ELSE "FALSE"
        [] c.op = "Compare" -> IF p = Pic(c.g) THEN "TRUE" ELSE "FALSE"
        [] OTHER -> ret'

-----------------------------------------------------------------------------
(* Nothing is promised of frames that show nothing or take memory of        *)
(* others for their own use, of buffers used for source and result at once, *)
(* of a border of no pixels and of parts that are not there.                *)
Allocates == {"Table2D", "InitConstructor", "Alloc", "ReSize", "Subtract", "Multiply", "GetImage",
              "GetImageWithZeros", "CutBorder", "Laplace", "Laplace of a window"}

OwnAfter(c) == CASE c.op \in {"Table2D", "InitConstructor"} -> c.a[3]
                 [] c.op = "CutBorder" -> TRUE
                 [] OTHER -> shows[Target(c)].own

TwoFrames == {"=", "copy", "copy constructor", "-=", "Subtract", "Multiply", "Compare"}

Open(c) ==
  LET p == Pic(c.f)  t == Target(c)
  IN  \/ c.op \in {"~Table2D", "SetDataPtr", "Laplace of a window", "LaplaceSafe"}
      \/ c.op \in Allocates /\ (~OwnAfter(c) \/ Emptied(t) \/ (together /\ c.f # c.g))
      \/ c.op \notin {"Table2D", "InitConstructor", "copy constructor", "Alloc", "ReSize", "="} /\ ~(Showing(c.f) /\ HasArea(p))
      \/ c.op \in TwoFrames /\ ~(Showing(c.g) /\ HasArea(Pic(c.g)))
      \/ c.op = "=" /\ (Emptied(c.f) \/ together)
      \/ c.op \in {"copy", "-="} /\ ~SameSize(p, Pic(c.g))
      \/ c.op \in {"Subtract", "Multiply", "-="} /\ together
      \/ c.op = "SubtractBacgroundInFrame" /\ c.a[1] <= 0
      \/ c.op \in {"GetImage", "GetImageWithZeros", "CutBorder"} /\ ~HasArea(Drawn(c))
      \/ c.op = "GetImage" /\ (c.a[1] >= p.w \/ c.a[2] >= p.h)
      \/ c.op \in {"ReSize", "Alloc"} /\ ~Showing(c.f)

Sizes(c) == c.op \in {"Subtract", "Multiply", "Compare"} /\ ~SameSize(Pic(c.f), Pic(c.g))

(* The others show what they showed, but for one on the same buffer. *)
Others(c) == \A f \in DOMAIN shows \ {Target(c)} : shows'[f] = [shows[f] EXCEPT !.pic = IF together THEN shows'[f].pic ELSE @]

Near(step, left) == Magnitude(2 * step - left) <= 1

(* A frame goes after its drift by whole pixels and is never more than half *)
(* a pixel behind; it goes left and down, or left and up, and refuses to go *)
(* elsewhere.                                                               *)
Asked(c) ==
  LET s == shows[c.f]  a == c.a
  IN  CASE c.op = "ShiftFrameWeighted" -> <<s.asked[1] + a[1], s.asked[2] + a[2]>>
        [] a[4] -> <<Max({a[1] - 1, 0}) * a[2], Max({a[1] - 1, 0}) * a[3]>>
        [] OTHER -> s.asked

Behind(c) ==
  LET s == shows[c.f]  a == c.a
  IN  IF c.op = "ShiftFrame" /\ ~a[4] THEN <<a[2], a[3]>>
      ELSE <<Asked(c)[1] - 2 * s.moved[1], Asked(c)[2] - 2 * s.moved[2]>>

Shifts(c) ==
  LET s == shows[c.f]  new == shows'[c.f]
      step == <<new.moved[1] - s.moved[1], new.moved[2] - s.moved[2]>>
  IN  /\ new.asked = Asked(c) /\ new.own = s.own /\ new.max = s.max
      /\ \/ /\ ret' # "thrown" /\ Near(step[1], Behind(c)[1]) /\ Near(step[2], Behind(c)[2])
            /\ new.pic = Moved(s.pic, s.pic, step[1], step[2], 1)
         \/ /\ ret' = "thrown" /\ step = <<0, 0>> /\ new.pic = s.pic
            /\ Behind(c)[1] > 0 \/ (Behind(c)[2] > 0 /\ c.op = "ShiftFrameWeighted")

Next ==
  LET c == called'  t == Target(c)
  IN  \/ Open(c)
      \/ Sizes(c) /\ ret' = "thrown" /\ shows' = shows
      \/ c.op \in {"ShiftFrame", "ShiftFrameWeighted"} /\ Shifts(c) /\ Others(c)
      \/ /\ ~Sizes(c) /\ c.op \notin {"ShiftFrame", "ShiftFrameWeighted"}
         /\ shows'[t].pic = Drawn(c) /\ shows'[t].max = Noted(c) /\ ret' = Returned(c)
         /\ Others(c)

Spec == [][Next]_vars
=============================================================================
