----------------------------- MODULE SpectraLog -----------------------------
(***************************************************************************)
(* What converting a voltage file promises of its FITS output: spectra are *)
(* numbered as they are made; at every moment those that were put away, on *)
(* disk or in a file whose write failed, are the first so many, and a      *)
(* conversion that finishes has put away all of them.  A conversion that   *)
(* is stopped leaves a prefix.                                             *)
(***************************************************************************)
EXTENDS Naturals

VARIABLES made,    (* spectra made so far *)
          stored,  (* the numbers of those put away *)
          state    (* "running", "finished" or "stopped" *)

logvars == <<made, stored, state>>

Init == made = 0 /\ stored = {} /\ state = "running"

Make ==
  /\ state = "running"
  /\ made' = made + 1
  /\ UNCHANGED <<stored, state>>

Store ==
  /\ state = "running"
  /\ stored' = 1..made
  /\ UNCHANGED <<made, state>>

Finish ==
  /\ state = "running"
  /\ stored' = 1..made
  /\ state' = "finished"
  /\ UNCHANGED made

Stop ==
  /\ state = "running"
  /\ \E k \in 0..made : stored \subseteq 1..k /\ stored' = 1..k
  /\ state' = "stopped"
  /\ UNCHANGED made

Next == Make \/ Store \/ Finish \/ Stop

Spec == Init /\ [][Next]_logvars
=============================================================================
