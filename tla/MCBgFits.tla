------------------------------ MODULE MCBgFits ------------------------------
(* Constants for model checking BgFits: two objects that share a file, or   *)
(* one that saves into two, for images of one line and of two.              *)
EXTENDS BgFits, TLC, FiniteSets

CONSTANT f2

Sizes == {<<1, 1>>, <<1, 2>>}
NoFiles == {}
Interchangeable == Permutations(Objs)

(* The second file, and what follows a save that failed, are for an object  *)
(* that is alone.                                                           *)
Few ==
  \/ Cardinality({o \in Objs : obj[o].alive}) <= 1
  \/ /\ disk[f2] = NoFile
     /\ \A o \in Objs : obj[o].fname # f2 /\ ~obj[o].failed
=============================================================================
