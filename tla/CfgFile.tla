------------------------------ MODULE CfgFile -------------------------------
(***************************************************************************)
(* The table of parameters of a configuration file: CCfgFile, CIniFile     *)
(* (src/src/cfgfile.cpp, myinifile.cpp).  A file is its lines; a line sets *)
(* a parameter, or loads another file (%LOAD%, %SAFELOAD%).  References to *)
(* the environment (env2str) are taken to be replaced already.             *)
(***************************************************************************)
EXTENDS Integers, Sequences, FiniteSets, SequencesExt

CONSTANTS
  Objs,      (* the CCfgFile objects of a program *)
  Names, Values,
  Files,     (* file names; None is not one *)
  Disks,     (* what the disk may hold: a file that is not there is Absent *)
  MaxOps,    (* bound: the operations after one another *)
  MaxSort    (* bound: the entries of a table that is sorted *)

None == "none"
Absent == << <<"absent">> >>

VARIABLES
  disk,
  tab,      (* tab[o]: m_CfgTab, pairs of a name and a value *)
  own,      (* own[o]: the name in m_CfgFile *)
  inited,   (* inited[o]: m_bInitialized *)
  stack,    (* the files being read: [f, k, o] *)
  ops,      (* the operations done *)
  exited,   (* an Assert ended the process *)
  read      (* read[o]: the entries of the file o has read, while o has not *)
            (* set or been given any other, nor put its entries in order    *)

cfgVars == <<disk, tab, own, inited, stack, ops, exited, read>>

Set(n, v) == <<"set", n, v>>
Load(f) == <<"load", f>>
SafeLoad(f) == <<"safeload", f>>

Exists(f) == disk[f] # Absent
Null == "null"
NotRead == << <<"not read">> >>

(* What the lines of a file may be; one that is not there has none of them. *)
AllLines == {Set(n, v) : n \in Names, v \in Values} \cup {Load(f) : f \in Files} \cup {SafeLoad(f) : f \in Files}
Loads(x) == x[1] \in {"load", "safeload"}

(* No file loads itself, nor one that loads it: that would never end.       *)
ASSUME CfgAssumption ==
  /\ IsFiniteSet(Names) /\ IsFiniteSet(Files) /\ None \notin Files
  /\ \A d \in Disks :
       /\ DOMAIN d = Files /\ \A f \in Files : d[f] = Absent \/ d[f] \in Seq(AllLines)
       /\ \E rank \in [Files -> 0 .. Cardinality(Files)] :
            \A f \in Files : \A k \in DOMAIN d[f] : Loads(d[f][k]) => rank[d[f][k][2]] < rank[f]

(* The entries of a line, and of the last lines of a file; those of a file  *)
(* that it loads in their place.                                            *)
EntriesOf(d, flat, x) ==
  IF x[1] = "set" THEN << <<x[2], x[3]>> >>
  ELSE IF Loads(x) /\ d[x[2]] # Absent THEN flat[x[2]] ELSE <<>>

LastLines(d, flat, f) ==
  LET last[n \in 0 .. Len(d[f])] ==
        IF n = 0 THEN <<>> ELSE EntriesOf(d, flat, d[f][Len(d[f]) - n + 1]) \o last[n - 1]
  IN  last

Flat(d, f) ==
  LET flat[g \in Files] == LastLines(d, flat, g)[Len(d[g])]
  IN  flat[f]

(* The place of the first entry of a name, as every search here finds it. *)
PlacesOf(t, n) == {k \in DOMAIN t : t[k][1] = n}
FirstPlace(t, n) == CHOOSE k \in PlacesOf(t, n) : \A j \in PlacesOf(t, n) : k <= j

(* One entry to a name. *)
Tabled(t) == {e[1] : e \in ToSet(t)}
OneToAName(t) == Cardinality(Tabled(t)) = Len(t)

FindValue(t, n) == IF PlacesOf(t, n) = {} THEN Null ELSE t[FirstPlace(t, n)][2]

-----------------------------------------------------------------------------
CfgInit ==
  /\ disk \in Disks
  /\ tab = [o \in Objs |-> <<>>] /\ own = [o \in Objs |-> None]
  /\ inited = [o \in Objs |-> FALSE] /\ read = [o \in Objs |-> NotRead]
  /\ stack = <<>> /\ ops = 0 /\ exited = FALSE

Idle == stack = <<>> /\ ~exited
Op == Idle /\ ops < MaxOps /\ ops' = ops + 1

(* CCfgFile::Init: a file that is not there is no error, and changes       *)
(* nothing.  A table that has entries keeps them, before the new ones.     *)
InitFrom(o, f) ==
  /\ Op
  /\ IF Exists(f)
     THEN /\ own' = [own EXCEPT ![o] = f]
          /\ stack' = <<[f |-> f, k |-> 1, o |-> o]>>
          /\ read' = [read EXCEPT ![o] = IF tab[o] = <<>> THEN Flat(disk, f) ELSE NotRead]
     ELSE UNCHANGED <<own, stack, read>>
  /\ UNCHANGED <<disk, tab, inited, exited>>

(* ReadCfgFile, which calls itself for a file to load. *)
Top == Last(stack)
Line == disk[Top.f][Top.k]
Below == Front(stack)
Passed == Append(Below, [Top EXCEPT !.k = @ + 1])
ReadingFile == stack # <<>> /\ ~exited /\ Top.k <= Len(disk[Top.f])

ReadSetBefore ==
  /\ ReadingFile /\ Line[1] = "set"
  /\ tab' = [tab EXCEPT ![Top.o] = <<<<Line[2], Line[3]>>>> \o @]
  /\ stack' = Passed
  /\ UNCHANGED <<disk, own, inited, ops, exited, read>>

ReadSet ==
  /\ ReadingFile /\ Line[1] = "set"
  /\ tab' = [tab EXCEPT ![Top.o] = Append(@, <<Line[2], Line[3]>>)]
  /\ stack' = Passed
  /\ UNCHANGED <<disk, own, inited, ops, exited, read>>

ReadLoad ==
  /\ ReadingFile /\ Line[1] \in {"load", "safeload"} /\ Exists(Line[2])
  /\ stack' = Append(Passed, [f |-> Line[2], k |-> 1, o |-> Top.o])
  /\ UNCHANGED <<disk, tab, own, inited, ops, exited, read>>

ReadMissing ==
  /\ ReadingFile /\ Line[1] \in {"load", "safeload"} /\ ~Exists(Line[2])
  /\ IF Line[1] = "load" THEN exited' = TRUE /\ stack' = stack
                         ELSE exited' = exited /\ stack' = Passed
  /\ UNCHANGED <<disk, tab, own, inited, ops, read>>

(* Close, and back to the file that loaded this one. *)
ReadEnd ==
  /\ stack # <<>> /\ ~exited /\ Top.k > Len(disk[Top.f])
  /\ inited' = [inited EXCEPT ![Top.o] = TRUE]
  /\ stack' = Below
  /\ UNCHANGED <<disk, tab, own, ops, exited, read>>

-----------------------------------------------------------------------------
(* GetParam: a name that is not there ends the process unless Null will do. *)
(* The file was closed when it was read, so InitCfgTab does not read it     *)
(* again, not even for an empty table.                                      *)
GetParam(o, n, allowNull) ==
  /\ Op
  /\ exited' = (FindValue(tab[o], n) = Null /\ ~allowNull)
  /\ UNCHANGED <<disk, tab, own, inited, stack, read>>

SetIn(t, n, v) ==
  IF PlacesOf(t, n) = {} THEN Append(t, <<n, v>>)
  ELSE [t EXCEPT ![FirstPlace(t, n)] = <<n, v>>]

SetParam(o, n, v) ==
  /\ Op
  /\ tab' = [tab EXCEPT ![o] = SetIn(@, n, v)]
  /\ read' = [read EXCEPT ![o] = NotRead]
  /\ UNCHANGED <<disk, own, inited, stack, exited>>

(* std::sort by the name: the order of entries of one name is not defined. *)
NameOrder == CHOOSE q \in [Names -> 1 .. Cardinality(Names)] : \A m, n \in Names : m # n => q[m] # q[n]
Precedes(a, b) == NameOrder[a[1]] < NameOrder[b[1]]
Ordered(t) == \A j, k \in DOMAIN t : j < k => ~Precedes(t[k], t[j])

Rearranged(t) == {[k \in DOMAIN t |-> t[p[k]]] : p \in Bijection(DOMAIN t, DOMAIN t)}

Sort(o) ==
  /\ Op /\ Len(tab[o]) <= MaxSort
  /\ \E t \in Rearranged(tab[o]) : Ordered(t) /\ tab' = [tab EXCEPT ![o] = t]
  /\ read' = IF OneToAName(tab[o]) THEN read ELSE [read EXCEPT ![o] = NotRead]
  /\ UNCHANGED <<disk, own, inited, stack, exited>>

(* CIniFile::Save writes the whole table, what other files gave with it,   *)
(* to the file it was read from; an empty table is not written.            *)
LinesOfLast(t) == <<Set(t[Len(t)][1], t[Len(t)][2])>>

Lines(t) == [k \in DOMAIN t |-> Set(t[k][1], t[k][2])]

Save(o) ==
  /\ Op
  /\ tab[o] # <<>> /\ own[o] # None
  /\ disk' = [disk EXCEPT ![own[o]] = Lines(tab[o])]
  /\ UNCHANGED <<tab, own, inited, stack, exited, read>>

(* A new object in place of o, and a new process after one that ended. *)
Renew(o) ==
  /\ Op
  /\ tab' = [tab EXCEPT ![o] = <<>>] /\ own' = [own EXCEPT ![o] = None]
  /\ inited' = [inited EXCEPT ![o] = FALSE] /\ read' = [read EXCEPT ![o] = NotRead]
  /\ UNCHANGED <<disk, stack, exited>>

Restart ==
  /\ exited /\ ops < MaxOps /\ ops' = ops + 1
  /\ tab' = [o \in Objs |-> <<>>] /\ own' = [o \in Objs |-> None]
  /\ inited' = [o \in Objs |-> FALSE] /\ read' = [o \in Objs |-> NotRead]
  /\ stack' = <<>> /\ exited' = FALSE
  /\ UNCHANGED disk

(* operator=: the table, but not the file. *)
Assign(o, p) ==
  /\ Op /\ o # p
  /\ tab' = [tab EXCEPT ![o] = tab[p]]
  /\ inited' = [inited EXCEPT ![o] = TRUE]
  /\ read' = [read EXCEPT ![o] = NotRead]
  /\ UNCHANGED <<disk, own, stack, exited>>

Stop == Idle /\ ops = MaxOps /\ UNCHANGED cfgVars
Exit == exited /\ UNCHANGED cfgVars

CfgNext ==
  \/ ReadSet \/ ReadLoad \/ ReadMissing \/ ReadEnd
  \/ \E o \in Objs : \/ \E f \in Files : InitFrom(o, f)
                     \/ \E n \in Names, a \in BOOLEAN : GetParam(o, n, a)
                     \/ \E n \in Names, v \in Values : SetParam(o, n, v)
                     \/ Sort(o) \/ Save(o) \/ Renew(o)
                     \/ \E p \in Objs : Assign(o, p)
  \/ Restart \/ Stop \/ Exit

CfgSpec == CfgInit /\ [][CfgNext]_cfgVars

-----------------------------------------------------------------------------
(* CompareEnvVarTables, of two sorted tables: the names it writes down, a   *)
(* step for each time it goes on in one of them or in both.                 *)
Compared(left, right, w) ==
  IF w.l > Len(left) /\ w.r > Len(right) THEN w
  ELSE IF w.l > Len(left) THEN [w EXCEPT !.r = @ + 1, !.right = @ \cup {right[w.r][1]}]
  ELSE IF w.r > Len(right) THEN [w EXCEPT !.l = @ + 1, !.left = @ \cup {left[w.l][1]}]
  ELSE IF left[w.l] = right[w.r] THEN [w EXCEPT !.l = @ + 1, !.r = @ + 1]
  ELSE IF left[w.l][1] = right[w.r][1]
  THEN [w EXCEPT !.l = @ + 1, !.r = @ + 1, !.same = FALSE, !.differ = @ \cup {left[w.l][1]}]
  ELSE IF Precedes(left[w.l], right[w.r])
  THEN [w EXCEPT !.l = @ + 1, !.same = FALSE, !.left = @ \cup {left[w.l][1]}]
  ELSE [w EXCEPT !.r = @ + 1, !.same = FALSE, !.right = @ \cup {right[w.r][1]}]

AtFirst == [l |-> 1, r |-> 1, same |-> TRUE, differ |-> {}, left |-> {}, right |-> {}]

Merge(left, right) ==
  LET w[n \in 0 .. Len(left) + Len(right)] == IF n = 0 THEN AtFirst ELSE Compared(left, right, w[n - 1])
      all == w[Len(left) + Len(right)]
  IN  [same |-> all.same /\ Len(left) = Len(right), differ |-> all.differ, left |-> all.left, right |-> all.right]

(* CompareEnvVarTablesNotSorted goes by the first entry of a name. *)
NotSorted(left, right) ==
  LET changed == {n \in Tabled(left) \cap Tabled(right) :
                    FindValue(left, n) # FindValue(right, n)}
      onlyLeft == Tabled(left) \ Tabled(right)
      onlyRight == Tabled(right) \ Tabled(left)
  IN [same |-> changed \cup onlyLeft \cup onlyRight = {},
      differ |-> changed, left |-> onlyLeft, right |-> onlyRight]

-----------------------------------------------------------------------------
(* Once a file is read, the answer to a name is the entry that is first in *)
(* the file, the files it loads taken in where it loads them ("first in    *)
(* the file takes over"), unless a table with more entries to a name has   *)
(* been sorted since.                                                      *)
FirstTakesOver ==
  Idle => \A o \in Objs : read[o] # NotRead =>
    \A n \in Names : FindValue(tab[o], n) = FindValue(read[o], n)

(* A file that is saved reads back as the table it was saved from.         *)
SavedReadsBack ==
  [][\A o \in Objs : Save(o) =>
       \A n \in Names : FindValue(Flat(disk', own[o]), n) = FindValue(tab[o], n)]_cfgVars

(* The comparison of two sorted tables finds them the same only if they    *)
(* are, and of tables with one entry to a name it names those that differ, *)
(* those only in the left and those only in the right one.                 *)
ComparesTables ==
  Idle => \A o, p \in Objs :
    Ordered(tab[o]) /\ Ordered(tab[p]) =>
      /\ Merge(tab[o], tab[p]).same <=> tab[o] = tab[p]
      /\ OneToAName(tab[o]) /\ OneToAName(tab[p]) =>
           Merge(tab[o], tab[p]) = NotSorted(tab[o], tab[p])

(* What a table tells of its names, alone or beside another table, is what  *)
(* the files said.                                                          *)
TablesTell == FirstTakesOver /\ ComparesTables
=============================================================================
