------------------------------- MODULE MCText -------------------------------
(***************************************************************************)
(* What is made of text: one job serves requests, the other reads and      *)
(* writes configuration files.  They share no state, so a run has one of   *)
(* them, and the other rests.                                              *)
(***************************************************************************)
EXTENDS TxtServer, CfgFile

CONSTANTS obj1, obj2, name1, name2

VARIABLE job

jobVars == <<vars, cfgVars, job>>
-----------------------------------------------------------------------------
(* The first request is longer than the buffer of the server. *)
Requests == [c \in {"c1", "c2", "c3"} |->
               CASE c = "c1" -> <<"a", "b", "c">>
                 [] c = "c2" -> <<"d">>
                 [] OTHER -> <<"e", "f">>]

Orderly(u) == [unix |-> u, die |-> FALSE, silent |-> FALSE, clients |-> {"c1", "c2", "c3"}]

FourSettings ==
  {Orderly(FALSE), Orderly(TRUE)} \cup
  [unix: BOOLEAN, die: {TRUE}, silent: {TRUE}, clients: {{"c1", "c2"}}]
-----------------------------------------------------------------------------
MCNames == {name1, name2}
MCFiles == {"main", "inc"}

(* The main file loads the other one before, between or after its own       *)
(* entries, which may be of one name; the other may not be there.           *)
Mains ==
  {<<Set(name1, "1"), Load("inc"), Set(name1, "2")>>, <<SafeLoad("inc"), Set(name2, "1")>>,
   <<Set(name2, "2"), Set(name1, "1"), Load("inc")>>, <<Set(name1, "2"), Set(name1, "1")>>, <<>>}
Incs == {Absent, <<Set(name1, "2")>>, <<Set(name2, "1"), Set(name1, "2")>>}

MCDisks == {("main" :> m) @@ ("inc" :> i) : m \in Mains, i \in Incs}
-----------------------------------------------------------------------------
JobInit ==
  \/ job = "serve" /\ Init /\ CfgInit /\ disk = ("main" :> <<>>) @@ ("inc" :> Absent)
  \/ job = "configure" /\ CfgInit /\ Init /\ set = Orderly(FALSE)

JobNext ==
  \/ job = "serve" /\ Next /\ UNCHANGED <<cfgVars, job>>
  \/ job = "configure" /\ CfgNext /\ UNCHANGED <<vars, job>>

(* The fairness of TxtServer's Spec. *)
JobSpec ==
  /\ JobInit /\ [][JobNext]_jobVars
  /\ WF_vars(Server)
  /\ \A c \in Clients : WF_vars(ReadAnswer(c) \/ Disconnect(c))
  /\ \A c \in Clients : WF_vars(~set.silent /\ SendRequest(c))
=============================================================================
