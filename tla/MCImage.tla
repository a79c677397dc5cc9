------------------------------ MODULE MCImage ------------------------------
(***************************************************************************)
(* One CBgFits, its header and its pixels, and the programs that go        *)
(* through a list of images: no operation looks at both halves but         *)
(* Transpose, so each is followed on its own, and so are the programs that *)
(* add the images of a list up.  A call that returns numbers leaves the    *)
(* images alone and comes last.                                            *)
(***************************************************************************)
EXTENDS Header, ImageList, MCStacking

ImageOf(sx, sy, vals) == [x |-> sx, y |-> sy, data |-> [n \in 0 .. sx * sy - 1 |-> vals[n + 1]]]

(* A square image with a pixel without value, and an oblong one. *)
SomeImages == {ImageOf(2, 2, <<1, -2, NaN, 3>>), ImageOf(3, 2, <<1, 0, -1, 2, 5, NaN>>)}
SomePlaces == {-1, 0, 2}
SomeValues == {-1, 0, 2}

(* Nothing but the total, everything, and only the power of the first       *)
(* channel.                                                                 *)
NoCuts == [total |-> 2, part |-> Unset, from |-> 0, to |-> 0, channel |-> 100, last |-> 2,
           orbcomm |-> <<0, 0>>, local |-> Unset]
SomeCuts == {NoCuts, [NoCuts EXCEPT !.part = 3, !.to = 1, !.channel = 1, !.local = 1],
             [NoCuts EXCEPT !.total = 0, !.channel = 0, !.last = 1, !.orbcomm = <<1, 1>>]}

(* With states and a start time, with states and a date, both ways round,   *)
(* with the antenna's cards alone, and with neither.                        *)
WithTime == [x |-> 2, y |-> 6, cards |->
  <<Card("DATE", 30), Card("DTIME-FS", 40), Card("INTTIME", 2), Card("CRVAL1", 7), Card("CDELT1", 3),
    Card("STATES", <<"REF", "ANT">>), Card("ANT", <<1, 2>>), Card("REF", <<3, 3>>),
    Card("NSON", <<4, 4>>), Card("ANT", <<5, 5>>)>>]
WithDate == [x |-> 3, y |-> 4, cards |->
  <<Card("CTYPE1", "Time"), Card("DATE", 30), Card("DATE-OBS", 20), Card("CRVAL2", 5), Card("CDELT2", 1),
    Card("CDELT1", 4), Card("STATES", <<"ANT", "NSOFF", "TERM">>), Card("ANT", <<3, 4>>),
    Card("TERM", <<1, 1>>), Card("NSOFF", <<2, 2>>)>>]
AntennaOnly == [x |-> 2, y |-> 6, cards |->
  <<Card("DATE-OBS", 21), Card("DATE", 31), Card("ANT", <<3, 4>>), Card("CDELT2", 6)>>]
Plain == [x |-> 2, y |-> 3, cards |-> <<Card("STARTFRQ", 9), Card("CDELT1", 2), Card("STOPFRQ", 11)>>]

SomeFiles == {WithTime, WithDate, AntennaOnly, Plain}
SomeTold == {[time |-> 50, inttime |-> 2, start |-> 7, delta |-> 1],
             [time |-> 60, inttime |-> 1, start |-> 8, delta |-> 3]}

-----------------------------------------------------------------------------
(* ImageLists of three images, one of them missing or of another size, and of    *)
(* names that come late, twice, outside of the spectrum or unread.          *)
One == ImageOf(2, 2, <<1, 8, 3, 4>>)
Two == ImageOf(2, 2, <<5, 2, 3, 9>>)
Three == ImageOf(2, 2, <<0, 6, 7, 4>>)
Small == ImageOf(2, 1, <<7, 8>>)
Turned == ImageOf(1, 2, <<7, 8>>)
Narrow == ImageOf(1, 2, <<6, 5>>)
Wide == ImageOf(3, 2, <<9, 2, 5, 1, 0, 8>>)

Named(ux, cc, timestep, finech) == [ux |-> ux, cc |-> cc, timestep |-> timestep, finech |-> finech]
File1(name, image) == [name |-> name, image |-> image]
Files1(images) == [k \in DOMAIN images |-> File1(Unparsed, images[k])]

ImageLists == {<<One, Two, Three>>, <<Two, Three, One, Two>>, <<Three, Missing, One>>, <<One, Two, Small>>,
          <<Small, Turned, Small>>, <<One, Wide, Three>>, <<Wide, One, Two>>, <<One, Narrow, Two>>}
Names == {Named(100, 109, 3, 5), Named(101, 109, 0, 4), Named(100, 110, 49, 31), Named(111, 109, 0, 0), Unparsed}
NamedLists == {<<File1(a, One), File1(b, Two), File1(c, m)>> : a, b, c \in Names, m \in {Three, Missing}}

Programs(progs, asks) == {[prog |-> p, list |-> Files1(l), ask |-> a] : p \in progs, l \in ImageLists, a \in asks}

Line(from, to, cuttype, label) == [start |-> from, end |-> to, cuttype |-> cuttype, label |-> label]
CutLines == {Line(0, 1, "rows", "a"), Line(0, 1, "columns", ""), Line(0, 1, "columns", "a"),
             Line(1, 2, "both", "a"), Line(0, 0, "rows", "a")}

SomeJobs ==
  Programs({"images2cube"}, {0})
  \cup Programs({"fits2txt"}, {[ignore |-> g] : g \in BOOLEAN})
  \cup Programs({"median_fits_images"}, {0})
  \cup Programs({"CalcMedian"}, {[average |-> a] : a \in BOOLEAN})
  \cup Programs({"subtract_images"}, {[image |-> ImageOf(2, 2, <<1, 2, NaN, 4>>)]})
  \cup {[prog |-> "build_dynaspec_simple", list |-> l, ask |-> [x |-> 1, y |-> 0]] : l \in NamedLists}
  \cup {[prog |-> "select_integrations", list |-> <<0, 1, 2>>,
           ask |-> [threshold |-> t, image |-> ImageOf(2, 3, <<1, 4, 0, NaN, 5, 2>>)]] : t \in {5, 6, 9}}
  \cup {[prog |-> "cutimages", list |-> <<a, b, c>>,
           ask |-> [image |-> ImageOf(3, 3, <<1, 2, 3, 4, 5, 6, 7, 8, 9>>), gStartY |-> 1, gEndY |-> 3]]
           : a, b, c \in CutLines}
  \cup {[prog |-> "running_median", list |-> l,
           ask |-> [half |-> h, count |-> n, central |-> c, direction |-> d, max |-> 1]]
           : l \in {<<3, 1, 4, 1, 9, 2>>, <<1, 1, 1, 1, 60, 2, 1>>, <<8>>}, h \in {1, 2}, n \in {2, 9},
             c \in BOOLEAN, d \in {-1, 0, 1}}

-----------------------------------------------------------------------------
(* The image that is there while a list is gone through. *)
Still == ImageOf(2, 2, <<1, -2, NaN, 3>>)

NoJob == [prog |-> "none", list |-> <<>>, ask |-> 0]
IdleList == job = NoJob /\ turn = 1 /\ kept = <<>> /\ made = <<>> /\ end = "none"
OneImage == HeaderInit /\ left = Still /\ right = Still

VARIABLE user   (* "image", or "stack" where images are added up *)

ImageInit ==
  /\ \/ user = "image" /\ PixelsInit /\ HeaderInit /\ IdleList
     \/ user = "image" /\ PixelsInit /\ OneImage /\ ListInit
     \/ user = "stack" /\ PixelsInit /\ OneImage /\ IdleList
  /\ Init /\ (user = "image" => list = <<"good">> /\ ask.app = "sum")

Goes == ret = <<>> /\ steps = 0 /\ end = "none"

OfImage ==
  \/ Goes /\ PixelsNext /\ UNCHANGED <<headerVars, listVars>>
  \/ Goes /\ StatNext /\ UNCHANGED <<headerVars, listVars>>
  \/ end = "none" /\ calls = 0 /\ HeaderNext /\ UNCHANGED <<pixelVars, listVars>>
  \/ ListNext /\ UNCHANGED <<pixelVars, headerVars>>

ImageNext ==
  \/ user = "image" /\ OfImage /\ UNCHANGED <<vars, user>>
  \/ user = "stack" /\ Next /\ UNCHANGED <<pixelVars, headerVars, listVars, user>>

ImageSpec == ImageInit /\ [][ImageNext]_<<pixelVars, headerVars, listVars, vars, user>>
=============================================================================
