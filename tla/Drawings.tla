------------------------------ MODULE Drawings ------------------------------
(***************************************************************************)
(* A drawing is a width, a height and a value at each place.  How a        *)
(* program keeps it in memory is not seen here.                            *)
(***************************************************************************)
EXTENDS FloatValues

Drawing(w, h, at(_, _)) ==
  [w |-> w, h |-> h, at |-> [p \in (0 .. w - 1) \X (0 .. h - 1) |-> at(p[1], p[2])]]

Within(p, x, y) == x \in 0 .. p.w - 1 /\ y \in 0 .. p.h - 1

At(p, x, y) == IF Within(p, x, y) THEN p.at[x, y] ELSE NaN

SameSize(p, q) == p.w = q.w /\ p.h = q.h

Redrawn(p, at(_, _)) == Drawing(p.w, p.h, at)

(* Each pixel of p for itself. *)
Each(p, f(_)) == Redrawn(p, LAMBDA x, y : f(At(p, x, y)))

(* Each pixel of p with the one of q at its place. *)
Both(p, q, f(_, _)) == Redrawn(p, LAMBDA x, y : f(At(p, x, y), At(q, x, y)))

(* p moved by dx and dy over q, as far as it is inside. *)
Moved(p, q, dx, dy, mult) ==
  Redrawn(q, LAMBDA x, y : IF Within(p, x - dx, y - dy)
                           THEN Times(At(p, x - dx, y - dy), mult) ELSE At(q, x, y))

(* The columns x0 to x1 and rows y0 to y1, the last of each left out. *)
Part(p, x0, x1, y0, y1) ==
  Drawing(x1 - x0, y1 - y0, LAMBDA x, y : At(p, x0 + x, y0 + y))

UpsideDown(p) == Redrawn(p, LAMBDA x, y : At(p, x, p.h - 1 - y))

Mirrored(p) == Redrawn(p, LAMBDA x, y : At(p, p.w - 1 - x, y))
=============================================================================
