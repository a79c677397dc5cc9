------------------------------ MODULE MCShMem -------------------------------
(* Processes and arguments of Init for model checking.                      *)
EXTENDS ShMem, TLC

CONSTANTS p1, p2, p3

Three == {p1, p2, p3}

Same == Permutations(Procs)

Opt(a, l, rt, ru, n) == [assert |-> a, locks |-> l, retry |-> rt, reuse |-> ru, name |-> n]

Plain == {Opt(a, l, FALSE, FALSE, "ccd") : a \in BOOLEAN, l \in BOOLEAN}

Every ==
  {Opt(FALSE, FALSE, mode = "retry", mode = "reuse", n) :
     mode \in {"plain", "retry", "reuse"}, n \in {"ccd", "tab"}}

TheUses ==
  {[opts |-> Plain, most |-> 3, habits |-> {}],
   [opts |-> Plain, most |-> 2, habits |-> {"leave", "overlap"}],
   [opts |-> Every, most |-> 2, habits |-> {"no_init", "leave", "overlap", "clean"}]}

(* Orderly but for the time at which objects come. *)
Overlapping == {[opts |-> Plain, most |-> 3, habits |-> {"overlap"}]}
=============================================================================
