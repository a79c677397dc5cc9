---------------------------- MODULE MCStacking ------------------------------
EXTENDS Stacking

Kinds == {"good", "bright", "noisy", "missing"}
UpTo(n) == UNION {[1 .. m -> Kinds] : m \in 1 .. n}
AllLists == UpTo(4)
ShortLists == UpTo(3)

Opt(app, first, last, ignore) ==
  [app |-> app, first |-> first, last |-> last, ignore |-> ignore,
   beam |-> "none", cut |-> FALSE, max |-> FALSE, every |-> 0, limit |-> FALSE]

Totals == {Opt("sum", 0, 100, FALSE)}
Avgs == {[Opt("avg", s, e, g) EXCEPT !.beam = b, !.cut = c, !.max = TRUE] :
           s \in {0, 2}, e \in {3, 100}, g \in BOOLEAN, c \in BOOLEAN,
           b \in {"none", "read", "missing"}}
Homeos(starts) == {Opt("homeo", s, e, g) : s \in starts, e \in {3, 100}, g \in BOOLEAN}
Diffs(starts, everies, limits) ==
  {[Opt("diff", s, 100, g) EXCEPT !.every = n, !.limit = l] :
     s \in starts, g \in BOOLEAN, n \in everies, l \in limits}

All == Totals \cup Avgs \cup Homeos(0 .. 2) \cup Diffs(0 .. 2, 0 .. 3, BOOLEAN)
=============================================================================
