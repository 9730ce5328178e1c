--------------------------- MODULE MiddlewareProofs ---------------------------
(***************************************************************************)
(* Proofs about Middleware, for any answers of the modem, any paths of     *)
(* cached files, and either configuration of the control system and of the *)
(* local service:                                                          *)
(*   - TypeCorrect: TypeOK is an invariant;                                *)
(*   - UndefinedOnlyForCause: UndefinedNeedsCause is an invariant;         *)
(*   - ListsWhatStayed: every completed list satisfies ListsWhatStays.     *)
(***************************************************************************)
EXTENDS Middleware, TLAPS, WellFoundedInduction

LEMMA MembersBuilt ==
  /\ Len(Members) = 5
  /\ \A n \in 0 .. 5 :
       /\ (\E i \in 1 .. n : Members[i] = "_api") <=> n >= 1
       /\ (\E i \in 1 .. n : Members[i] = "_cache") <=> n >= 2
       /\ (\E i \in 1 .. n : Members[i] = "_service_announcement") <=> n >= 3
       /\ (\E i \in 1 .. n : Members[i] = "_services") <=> n >= 4
<1>1. /\ Len(Members) = 5
      /\ Members[1] = "_api" /\ Members[2] = "_cache"
      /\ Members[3] = "_service_announcement" /\ Members[4] = "_services"
      /\ Members[5] = "_timer"
  BY DEF Members
<1>2. ASSUME NEW n \in 0 .. 5, NEW name, NEW k \in 1 .. 5,
             \A i \in 1 .. 5 : Members[i] = name <=> i = k
      PROVE  (\E i \in 1 .. n : Members[i] = name) <=> n >= k
  BY <1>2
<1>3. /\ \A i \in 1 .. 5 : Members[i] = "_api" <=> i = 1
      /\ \A i \in 1 .. 5 : Members[i] = "_cache" <=> i = 2
      /\ \A i \in 1 .. 5 : Members[i] = "_service_announcement" <=> i = 3
      /\ \A i \in 1 .. 5 : Members[i] = "_services" <=> i = 4
  <2>1. \A i \in 1 .. 5 : i = 1 \/ i = 2 \/ i = 3 \/ i = 4 \/ i = 5
    OBVIOUS
  <2> QED  BY <1>1, <2>1
<1> QED  BY <1>1, <1>2, <1>3

LEMMA MembersExist ==
  ASSUME built \in 0 .. Len(Members)
  PROVE  /\ built \in 0 .. 5
         /\ Exists("_api") <=> built >= 1
         /\ Exists("_cache") <=> built >= 2
         /\ Exists("_service_announcement") <=> built >= 3
         /\ Exists("_services") <=> built >= 4
BY MembersBuilt DEF Exists

LEMMA HasLeast ==
  ASSUME NEW S \in SUBSET Nat, S # {}
  PROVE  \E m \in S : \A t \in S : m =< t
<1> DEFINE R == OpToRel(<, Nat)
<1>1. IsWellFoundedOn(R, Nat)
  BY NatLessThanWellFounded
<1>2. \A x, y \in Nat : x < y => <<x, y>> \in R
  BY DEF OpToRel
<1> HIDE DEF R
<1>3. PICK m \in S : \A t \in S : ~(<<t, m>> \in R)
  BY <1>1, WFMin
<1>4. SUFFICES ASSUME NEW t \in S PROVE m =< t
  OBVIOUS
<1>5. m \in Nat /\ t \in Nat
  OBVIOUS
<1>6. ~(t < m)
  BY <1>2, <1>3, <1>5
<1> QED  BY <1>5, <1>6

(* operator++ of the map's iterator.                                       *)
LEMMA FollowingIs ==
  ASSUME cached \in SUBSET Location, NEW l \in Location \cup {End}
  PROVE  \/ /\ Following(l) \in cached /\ Following(l) > l /\ Following(l) # End
            /\ \A j \in cached : j > l => Following(l) =< j
         \/ Following(l) = End /\ \A j \in cached : ~(j > l)
<1>1. Location \in SUBSET Nat /\ l \in Int
  BY ConstantsAssumption DEF End
<1> DEFINE Later == {k \in cached : k > l}
<1>2. CASE Later = {}
  BY <1>2 DEF Following
<1>3. CASE Later # {}
  <2>1. PICK m \in Later : \A t \in Later : m =< t
    BY <1>1, <1>3, HasLeast
  <2>2. \E k \in cached : k > l /\ \A j \in cached : j > l => k =< j
    BY <2>1
  <2>3. Following(l) \in cached /\ Following(l) > l
        /\ \A j \in cached : j > l => Following(l) =< j
    BY <2>2 DEF Following
  <2>4. Following(l) # End
    BY <2>3, <1>1 DEF End
  <2> QED  BY <2>3, <2>4
<1> QED  BY <1>2, <1>3

(***************************************************************************)
(* Types.                                                                  *)
(***************************************************************************)

(* The GET's fields, and what TypeOK needs to be inductive: the timers and *)
(* the thread are at rest unless the process is up.                        *)
GetShape ==
  get \in [pc : {"idle", "loop", "undefined"}, what : Listing \cup {"alone"},
           at : Location \cup {End}, listed : SUBSET Location, valid : BOOLEAN,
           stayed : SUBSET Location, seen : SUBSET Location, lost : SUBSET Location,
           raced : BOOLEAN, handled : BOOLEAN, lifetime : BOOLEAN]

AtRest ==
  /\ process = "construction" => built < Len(Members)
  /\ process # "up" => armed = {} /\ due = {} /\ main = "free"

ShapeInv == TypeOK /\ GetShape /\ AtRest

LEMMA ShapeInit == Init => ShapeInv
<1> SUFFICES ASSUME Init PROVE ShapeInv
  OBVIOUS
<1>1. ~Exists("_cache") /\ 0 \in 0 .. Len(Members) /\ 0 < Len(Members)
  BY MembersBuilt DEF Init, Exists
<1>2. NoGet \in [pc : {"idle", "loop", "undefined"}, what : Listing \cup {"alone"},
           at : Location \cup {End}, listed : SUBSET Location, valid : BOOLEAN,
           stayed : SUBSET Location, seen : SUBSET Location, lost : SUBSET Location,
           raced : BOOLEAN, handled : BOOLEAN, lifetime : BOOLEAN]
  BY DEF NoGet, Listing
<1> QED  BY <1>1, <1>2 DEF Init, ShapeInv, TypeOK, GetShape, AtRest, NoGet, Listing

(* What an action does to the GET keeps its shape.                         *)
LEMMA SetCacheShape ==
  ASSUME ShapeInv, NEW after \in SUBSET Location, NEW written, SetCache(after, written)
  PROVE  /\ GetShape' /\ cached' \in SUBSET Location /\ cached' = after
         /\ orphans' \subseteq cached' \cap Playlist
<1>1. cached' = after /\ orphans' = (orphans \cap after) \ written
  BY DEF SetCache
<1>2. orphans' \subseteq cached' \cap Playlist
  BY <1>1 DEF ShapeInv, TypeOK
<1>3. GetShape'
  <2>1. CASE get.pc # "loop"
    BY <2>1, Zenon DEF ShapeInv, GetShape, SetCache
  <2>2. CASE get.pc = "loop"
    <3>1. PICK clash \in {FALSE, get.what = "files" /\ get.at # End
                                  /\ (after # cached \/ get.at \in written)} :
            get' = [get EXCEPT !.valid = /\ @ /\ ~clash
                                         /\ get.what = "files" => ~Invalidated(get.at, after),
                               !.stayed = @ \cap after, !.seen = @ \cup after,
                               !.lost = @ \cup (cached \ after),
                               !.raced = @ \/ clash]
      BY <2>2, Zenon DEF SetCache
    <3> DEFINE valid == /\ get.valid /\ ~clash
                        /\ get.what = "files" => ~Invalidated(get.at, after)
               raced == get.raced \/ clash
    <3>2. valid \in BOOLEAN /\ raced \in BOOLEAN
      BY Zenon
    <3>3. /\ get.stayed \cap after \in SUBSET Location /\ get.seen \cup after \in SUBSET Location
          /\ get.lost \cup (cached \ after) \in SUBSET Location
      BY DEF ShapeInv, TypeOK, GetShape
    <3>4. get' = [get EXCEPT !.valid = valid, !.stayed = get.stayed \cap after,
                             !.seen = get.seen \cup after,
                             !.lost = get.lost \cup (cached \ after), !.raced = raced]
      BY <3>1, Zenon
    <3> HIDE DEF valid, raced
    <3> QED  BY <3>2, <3>3, <3>4, Zenon DEF ShapeInv, GetShape
  <2> QED  BY <2>1, <2>2
<1> QED  BY <1>1, <1>2, <1>3

(* What it does to the fields of a GET in its loop.                        *)
LEMMA SetCacheFields ==
  ASSUME ShapeInv, NEW after \in SUBSET Location, NEW written, SetCache(after, written),
         get.pc = "loop"
  PROVE  /\ get'.pc = "loop" /\ get'.what = get.what /\ get'.at = get.at
         /\ get'.listed = get.listed /\ get'.lifetime = get.lifetime
         /\ get'.handled = get.handled /\ get'.lost = get.lost \cup (cached \ after)
         /\ get'.stayed = get.stayed \cap after /\ get'.seen = get.seen \cup after
         /\ get'.valid => get.valid /\ (get.what = "files" => ~Invalidated(get.at, after))
         /\ ~get'.valid => \/ ~get.valid
                           \/ get.what = "files" /\ Invalidated(get.at, after)
                           \/ get.what = "files" /\ get'.raced
         /\ get.raced => get'.raced
<1>1. PICK clash \in {FALSE, get.what = "files" /\ get.at # End
                              /\ (after # cached \/ get.at \in written)} :
        get' = [get EXCEPT !.valid = /\ @ /\ ~clash
                                     /\ get.what = "files" => ~Invalidated(get.at, after),
                           !.stayed = @ \cap after, !.seen = @ \cup after,
                           !.lost = @ \cup (cached \ after),
                           !.raced = @ \/ clash]
  BY Zenon DEF SetCache
<1>2. /\ get'.pc = get.pc /\ get'.what = get.what /\ get'.at = get.at
      /\ get'.listed = get.listed /\ get'.lifetime = get.lifetime
      /\ get'.handled = get.handled /\ get'.lost = get.lost \cup (cached \ after)
      /\ get'.stayed = get.stayed \cap after /\ get'.seen = get.seen \cup after
  BY <1>1, Zenon DEF ShapeInv, GetShape
<1>3. get'.valid = (/\ get.valid /\ ~clash
                    /\ get.what = "files" => ~Invalidated(get.at, after))
      /\ get'.raced = (get.raced \/ clash)
  BY <1>1, Zenon DEF ShapeInv, GetShape
<1>4. clash => get.what = "files"
  BY <1>1, Zenon
<1>5. /\ get'.valid => get.valid /\ (get.what = "files" => ~Invalidated(get.at, after))
      /\ ~get'.valid => \/ ~get.valid
                        \/ get.what = "files" /\ Invalidated(get.at, after)
                        \/ get.what = "files" /\ get'.raced
      /\ get.raced => get'.raced
  BY <1>3, <1>4, Zenon
<1> QED  BY <1>2, <1>5

(* Actions that change the process, its members and its timers.            *)
LEMMA ShapeProcess ==
  ASSUME ShapeInv,
         ModemChanges \/ Launch \/ Construct \/ Destroy \/ Exit
           \/ (\E timer \in Timer : TimerExpires(timer))
  PROVE  ShapeInv'
<1> USE DEF ShapeInv, TypeOK, GetShape, AtRest
<1>0. built \in 0 .. 5 /\ Len(Members) = 5
  BY MembersBuilt
<1>1. CASE ModemChanges
  BY <1>1 DEF ModemChanges, Exists
<1>2. CASE Launch
  BY <1>2, <1>0 DEF Launch, Exists
<1>3. CASE Construct
  <2>1. /\ process = "construction" /\ built' = built + 1 /\ built < 5
        /\ built' \in 0 .. 5 /\ due = {} /\ main = "free" /\ armed = {}
    BY <1>3, <1>0 DEF Construct
  <2>2. GetShape'
    BY <1>3, Zenon DEF Construct, LifetimeSeen
  <2>3. Exists("_cache") => Exists("_cache")'
    BY <2>1, MembersBuilt DEF Exists
  <2>4. AtStart \in {"none", "deaf"}
    BY DEF AtStart
  <2>5. UNCHANGED <<main, due, modem, swept, cached, orphans>>
    BY <1>3 DEF Construct
  <2>6. CASE built' = 5
    <3>1. process' = "up" /\ armed' = Timer /\ announcement' = AtStart
      BY <1>3, <2>6, <1>0 DEF Construct
    <3> QED  BY <3>1, <2>1, <2>2, <2>3, <2>4, <2>5, <2>6, <1>0
  <2>7. CASE built' # 5
    <3>1. UNCHANGED <<process, armed, announcement>>
      BY <1>3, <2>7, <1>0 DEF Construct
    <3> QED  BY <3>1, <2>1, <2>2, <2>3, <2>5, <2>7, <1>0
  <2> QED  BY <2>6, <2>7
<1>4. CASE Destroy
  <2>1. /\ process = "destruction" /\ built > 0 /\ built' = built - 1 /\ built' \in 0 .. 5
        /\ UNCHANGED <<process, main, armed, due, modem, swept>>
    BY <1>4, <1>0 DEF Destroy
  <2>2. GetShape'
    BY <1>4, Zenon DEF Destroy, LifetimeSeen
  <2>3. cached' \in SUBSET Location /\ announcement' \in {"none", "deaf"} \cup Valid
    BY <1>4 DEF Destroy
  <2>5. orphans' \subseteq cached' \cap Playlist
    BY <1>4 DEF Destroy
  <2>4. ~Exists("_cache")' => cached' = {}
    <3>1. CASE built = 2
      BY <3>1, <1>4 DEF Destroy, Members
    <3>2. CASE built # 2
      <4>1. ~Exists("_cache")' => ~Exists("_cache")
        BY <3>2, <2>1, <1>0, MembersBuilt DEF Exists
      <4>2. cached = {} => cached' = {}
        BY <1>4 DEF Destroy
      <4> QED  BY <4>1, <4>2
    <3> QED  BY <3>1, <3>2
  <2> QED  BY <2>1, <2>2, <2>3, <2>4, <2>5, <1>0
<1>5. CASE Exit
  <2>1. GetShape'
    BY <1>5 DEF Exit, NoGet, Listing
  <2> QED  BY <1>5, <2>1, <1>0 DEF Exit, Exists, NoGet, Listing
<1>6. ASSUME NEW timer \in Timer, TimerExpires(timer) PROVE ShapeInv'
  <2>1. /\ process = "up" /\ armed' = armed \ {timer} /\ due' = due \cup {timer}
        /\ timer \in armed
        /\ UNCHANGED <<process, built, main, modem, announcement, swept, cached, orphans, get>>
    BY <1>6 DEF TimerExpires
  <2>2. armed' \cup due' = armed \cup due /\ due' \in SUBSET (Timer \ armed')
    BY <2>1
  <2>3. armed' \in SUBSET Timer
    BY <2>1
  <2> QED  BY <2>1, <2>2, <2>3 DEF Exists
<1> QED  BY <1>1, <1>2, <1>3, <1>4, <1>5, <1>6

LEMMA AskShape ==
  ASSUME ShapeInv, NEW timer \in Timer, NEW question, Ask(timer, question),
         \/ timer = "tick" /\ question = "mch_info"
         \/ timer = "control" /\ question = "status"
  PROVE  ShapeInv'
<1> USE DEF ShapeInv, TypeOK, GetShape, AtRest
<1>1. /\ process = "up" /\ main = "free" /\ timer \in due
      /\ due' = due \ {timer} /\ main' = question
      /\ UNCHANGED <<process, built, armed, modem, announcement, swept, cached, orphans, get>>
  BY DEF Ask
<1>2. armed \cup due = Timer /\ due \in SUBSET (Timer \ armed)
  BY <1>1
<1>3. armed' \cup due' = Timer \ {timer} /\ due' \in SUBSET (Timer \ armed')
  BY <1>1, <1>2
<1> QED  BY <1>1, <1>3 DEF Exists

(* The timer of the handler that has ended runs again.                     *)
LEMMA RearmShape ==
  ASSUME ShapeInv, NEW timer \in Timer, process = "up", Rearm(timer), main' = "free",
         armed \cup due = Timer \ {timer}, UNCHANGED <<process, built, due>>
  PROVE  /\ armed' \in SUBSET Timer /\ due' \in SUBSET (Timer \ armed')
         /\ armed' \cup due' = Timer /\ AtRest'
<1> USE DEF ShapeInv, TypeOK, AtRest
<1>1. armed' = armed \cup {timer}
  BY DEF Rearm
<1>2. timer \notin due /\ due \in SUBSET (Timer \ armed)
  BY Zenon
<1> QED  BY <1>1, <1>2

LEMMA ChosenType ==
  ASSUME TypeOK
  PROVE  Chosen \in {"none", "deaf"} \cup Valid
<1>1. \A dest : Listening(dest) \in {"none", "deaf"} \cup Valid
  BY Zenon DEF Listening
<1> QED  BY <1>1 DEF Chosen, TypeOK

(* The two handlers.                                                       *)
LEMMA ShapeTicks ==
  ASSUME ShapeInv,
         TickBegins \/ TickEnds \/ TickThrows \/ ControlBegins \/ StatusAnswered
           \/ HelloAnswered
  PROVE  ShapeInv'
<1> USE DEF ShapeInv
<1>1. CASE TickBegins
  BY <1>1, AskShape DEF TickBegins, Timer
<1>2. CASE TickEnds
  <2>1. PICK kept \in SUBSET cached : SetCache(kept, {})
    BY <1>2 DEF TickEnds
  <2>2. kept \in SUBSET Location
    BY DEF TypeOK
  <2>3. GetShape' /\ cached' = kept /\ orphans' \subseteq cached' \cap Playlist
    BY <2>1, <2>2, SetCacheShape
  <2>4. /\ process = "up" /\ main = "mch_info" /\ announcement' = Chosen /\ swept' = ~swept
        /\ Rearm("tick") /\ main' = "free" /\ UNCHANGED <<process, built, due, modem>>
    BY <1>2 DEF TickEnds
  <2>5. armed \cup due = Timer \ {"tick"}
    BY <2>4 DEF TypeOK
  <2>6. /\ armed' \in SUBSET Timer /\ due' \in SUBSET (Timer \ armed')
        /\ armed' \cup due' = Timer /\ AtRest'
    BY <2>4, <2>5, RearmShape DEF Timer
  <2>7. announcement' \in {"none", "deaf"} \cup Valid
    BY <2>4, ChosenType
  <2>8. ~Exists("_cache")' => cached' = {}
    BY <2>1, <2>3, <2>4 DEF Exists, TypeOK
  <2> QED  BY <2>2, <2>3, <2>4, <2>6, <2>7, <2>8 DEF TypeOK, GetShape
<1>3. CASE TickThrows
  BY <1>3, MembersBuilt DEF TickThrows, TypeOK, GetShape, AtRest, Exists
<1>4. CASE ControlBegins
  <2>1. CASE Control
    BY <1>4, <2>1, AskShape DEF ControlBegins, Timer
  <2>2. CASE ~Control
    <3>1. /\ process = "up" /\ main = "free" /\ "control" \in due
          /\ due' = due \ {"control"} /\ armed' = armed \cup {"control"}
          /\ UNCHANGED <<process, built, main, modem, announcement, swept, cached, orphans, get>>
      BY <1>4, <2>2 DEF ControlBegins, Rearm
    <3>2. armed \cup due = Timer /\ due \in SUBSET (Timer \ armed) /\ armed \in SUBSET Timer
      BY <3>1 DEF TypeOK
    <3>3. armed' \cup due' = Timer /\ due' \in SUBSET (Timer \ armed')
          /\ armed' \in SUBSET Timer
      BY <3>1, <3>2 DEF Timer
    <3> QED  BY <3>1, <3>3 DEF TypeOK, GetShape, AtRest, Exists
  <2> QED  BY <2>1, <2>2
<1>5. CASE StatusAnswered
  <2>1. /\ process = "up" /\ main = "status"
        /\ UNCHANGED <<process, built, due, modem, announcement, swept, cached, orphans, get>>
    BY <1>5 DEF StatusAnswered
  <2>2. armed \cup due = Timer \ {"control"}
    BY <2>1 DEF TypeOK
  <2>3. CASE main' = "hello" /\ UNCHANGED armed
    BY <2>1, <2>2, <2>3 DEF TypeOK, GetShape, AtRest, Exists
  <2>4. CASE main' = "free" /\ Rearm("control")
    <3>1. /\ armed' \in SUBSET Timer /\ due' \in SUBSET (Timer \ armed')
          /\ armed' \cup due' = Timer /\ AtRest'
      BY <2>1, <2>2, <2>4, RearmShape DEF Timer
    <3> QED  BY <2>1, <2>4, <3>1 DEF TypeOK, GetShape, Exists
  <2> QED  BY <1>5, <2>3, <2>4 DEF StatusAnswered
<1>6. CASE HelloAnswered
  <2>1. /\ process = "up" /\ main = "hello" /\ main' = "free" /\ Rearm("control")
        /\ UNCHANGED <<process, built, due, modem, announcement, swept, cached, orphans, get>>
    BY <1>6 DEF HelloAnswered
  <2>2. armed \cup due = Timer \ {"control"}
    BY <2>1 DEF TypeOK
  <2>3. /\ armed' \in SUBSET Timer /\ due' \in SUBSET (Timer \ armed')
        /\ armed' \cup due' = Timer /\ AtRest'
    BY <2>1, <2>2, RearmShape DEF Timer
  <2> QED  BY <2>1, <2>3 DEF TypeOK, GetShape, Exists
<1> QED  BY <1>1, <1>2, <1>3, <1>4, <1>5, <1>6

(* Changes of the containers.                                              *)
LEMMA ShapeContainers ==
  ASSUME ShapeInv,
         \/ \E l \in Location : FileAdded(l) \/ FileRemoved(l) \/ EntryWritten(l)
         \/ AnnouncementHandled
  PROVE  ShapeInv'
<1> USE DEF ShapeInv
<1>1. ASSUME NEW after \in SUBSET Location, NEW written, SetCache(after, written),
             process = "up",
             UNCHANGED <<process, built, main, armed, due, modem, announcement, swept>>
      PROVE  ShapeInv'
  <2>1. GetShape' /\ cached' = after /\ orphans' \subseteq cached' \cap Playlist
    BY <1>1, SetCacheShape
  <2>2. Exists("_cache")'
    BY <1>1, MembersBuilt DEF TypeOK, Exists
  <2> QED  BY <1>1, <2>1, <2>2 DEF TypeOK, GetShape, AtRest
<1>2. ASSUME NEW l \in Location, FileAdded(l) PROVE ShapeInv'
  <2>1. cached \cup {l} \in SUBSET Location
    BY DEF TypeOK
  <2> QED  BY <1>1, <1>2, <2>1 DEF FileAdded
<1>3. ASSUME NEW l \in Location, FileRemoved(l) PROVE ShapeInv'
  <2>1. cached \ {l} \in SUBSET Location
    BY DEF TypeOK
  <2> QED  BY <1>1, <1>3, <2>1 DEF FileRemoved
<1>4. CASE AnnouncementHandled
  <2>1. PICK gone \in SUBSET (cached \cap Playlist), valid \in {get.valid, FALSE} :
          /\ orphans' = orphans \cup gone
          /\ get' = IF get.pc # "loop" THEN get
                     ELSE IF get.what = "files" THEN [get EXCEPT !.lost = @ \cup gone]
                     ELSE [get EXCEPT !.valid = valid, !.handled = TRUE]
    BY <1>4, Zenon DEF AnnouncementHandled
  <2>2. gone \in SUBSET Location /\ get.lost \cup gone \in SUBSET Location
    BY DEF TypeOK, GetShape
  <2>3. valid \in BOOLEAN
    BY Zenon DEF GetShape
  <2>4. [get EXCEPT !.lost = @ \cup gone] \in
          [pc : {"idle", "loop", "undefined"}, what : Listing \cup {"alone"},
           at : Location \cup {End}, listed : SUBSET Location, valid : BOOLEAN,
           stayed : SUBSET Location, seen : SUBSET Location, lost : SUBSET Location,
           raced : BOOLEAN, handled : BOOLEAN, lifetime : BOOLEAN]
    BY <2>2, Zenon DEF GetShape
  <2>5. [get EXCEPT !.valid = valid, !.handled = TRUE] \in
          [pc : {"idle", "loop", "undefined"}, what : Listing \cup {"alone"},
           at : Location \cup {End}, listed : SUBSET Location, valid : BOOLEAN,
           stayed : SUBSET Location, seen : SUBSET Location, lost : SUBSET Location,
           raced : BOOLEAN, handled : BOOLEAN, lifetime : BOOLEAN]
    BY <2>3, Zenon DEF GetShape
  <2>6. GetShape'
    BY <2>1, <2>4, <2>5 DEF GetShape
  <2>7. orphans' \subseteq cached \cap Playlist
    BY <2>1 DEF TypeOK
  <2>8. UNCHANGED <<process, built, main, armed, due, modem, announcement, swept, cached>>
    BY <1>4 DEF AnnouncementHandled
  <2> QED  BY <2>6, <2>7, <2>8 DEF TypeOK, GetShape, AtRest, Exists
<1>5. ASSUME NEW l \in Location, EntryWritten(l) PROVE ShapeInv'
  <2>1. GetShape'
    BY <1>5, Zenon DEF EntryWritten, GetShape
  <2> QED  BY <1>5, <2>1 DEF EntryWritten, TypeOK, GetShape, AtRest, Exists
<1> QED  BY <1>2, <1>3, <1>4, <1>5

(* The steps of a GET.                                                     *)
LEMMA ShapeGet ==
  ASSUME ShapeInv,
         \/ \E what \in Listing : GetBegins(what)
         \/ GetAlone \/ ListFile \/ GetEnds \/ GetGoesOn
  PROVE  ShapeInv'
<1> USE DEF ShapeInv
<1>0. UnchangedByGet
  BY DEF GetBegins, GetAlone, ListFile, GetEnds, GetGoesOn
<1>1. ASSUME NEW l \in Location \cup {End} PROVE Following(l) \in Location \cup {End}
  BY FollowingIs DEF TypeOK
<1>2. NoGet \in [pc : {"idle", "loop", "undefined"}, what : Listing \cup {"alone"},
           at : Location \cup {End}, listed : SUBSET Location, valid : BOOLEAN,
           stayed : SUBSET Location, seen : SUBSET Location, lost : SUBSET Location,
           raced : BOOLEAN, handled : BOOLEAN, lifetime : BOOLEAN]
  BY DEF NoGet, Listing
<1>3. Undefined => GetShape'
  BY Zenon DEF Undefined, GetShape
<1>4. GetShape'
  <2>1. ASSUME NEW what \in Listing, GetBegins(what) PROVE GetShape'
    <3>1. Following(End) \in Location \cup {End} /\ End \in Location \cup {End}
          /\ cached \in SUBSET Location
      BY <1>1 DEF TypeOK
    <3> DEFINE at == IF what = "files" /\ Exists("_cache") THEN Following(End) ELSE End
               all == IF what = "files" THEN cached ELSE {}
               gone == IF what = "files" THEN orphans ELSE {}
               pc == IF Exists(Needed(what)) THEN "loop" ELSE "undefined"
               lifetime == process # "up"
    <3>2. at \in Location \cup {End} /\ all \in SUBSET Location
          /\ pc \in {"idle", "loop", "undefined"} /\ lifetime \in BOOLEAN
          /\ gone \in SUBSET Location
      BY <3>1 DEF TypeOK
    <3>3. get' = [NoGet EXCEPT !.pc = pc, !.what = what, !.lifetime = lifetime, !.at = at,
                               !.stayed = all, !.seen = all, !.lost = gone]
      BY <2>1, Zenon DEF GetBegins
    <3> HIDE DEF at, all, gone, pc, lifetime
    <3> QED  BY <3>2, <3>3, <1>2, Zenon DEF GetShape
  <2>2. ASSUME ListFile PROVE GetShape'
    <3>1. get.at \in Location /\ get.listed \cup {get.at} \in SUBSET Location
      BY <2>2 DEF ListFile, GetShape
    <3>2. Following(get.at) \in Location \cup {End}
      BY <1>1, <3>1
    <3> QED  BY <2>2, <1>3, <3>1, <3>2, Zenon DEF ListFile, GetShape
  <2>3. ASSUME GetEnds PROVE GetShape'
    BY <2>3, <1>2, <1>3 DEF GetEnds, GetShape
  <2>4. ASSUME GetGoesOn PROVE GetShape'
    BY <2>4, <1>2 DEF GetGoesOn, GetShape
  <2>5. ASSUME GetAlone PROVE GetShape'
    BY <2>5, <1>2, Zenon DEF GetAlone, GetShape
  <2> QED  BY <2>1, <2>2, <2>3, <2>4, <2>5
<1> QED  BY <1>0, <1>4 DEF UnchangedByGet, TypeOK, GetShape, AtRest, Exists

LEMMA ShapeCrash ==
  ASSUME ShapeInv, GetCrashes
  PROVE  ShapeInv'
<1>1. /\ process' = "down" /\ built' = 0 /\ main' = "free" /\ armed' = {} /\ due' = {}
      /\ announcement' = "none" /\ cached' = {} /\ orphans' = {} /\ get' = NoGet
      /\ UNCHANGED <<modem, swept>>
  BY DEF GetCrashes
<1>2. 0 \in 0 .. Len(Members)
  BY MembersBuilt
<1>3. GetShape'
  BY <1>1 DEF GetShape, NoGet, Listing
<1> QED  BY <1>1, <1>2, <1>3 DEF ShapeInv, TypeOK, AtRest, NoGet, Listing

LEMMA ShapeStep == ShapeInv /\ [Next]_vars => ShapeInv'
<1> SUFFICES ASSUME ShapeInv, [Next]_vars PROVE ShapeInv'
  OBVIOUS
<1>1. CASE UNCHANGED vars
  BY <1>1 DEF vars, ShapeInv, TypeOK, GetShape, AtRest, Exists
<1>2. CASE Next
  BY <1>2, ShapeProcess, ShapeTicks, ShapeContainers, ShapeGet, ShapeCrash DEF Next
<1> QED  BY <1>1, <1>2

(* The process, its members, its timers and a GET keep their shape; while  *)
(* the process is up each timer runs, is queued, or is the one whose       *)
(* handler the thread is in.                                               *)
THEOREM TypeCorrect == Spec => []TypeOK
BY ShapeInit, ShapeStep, PTL DEF Spec, ShapeInv

(***************************************************************************)
(* Undefined behaviour in a GET.                                           *)
(***************************************************************************)

(* A GET that did not begin or go on while members came or went has all of *)
(* them, and knows of every entry without owner.  The list has only what   *)
(* the iterator has left behind, so that an entry erased under it, or one  *)
(* without owner that it comes to, is none of the list.                    *)
LoopInv ==
  get.pc = "loop" =>
    /\ get.lifetime \/ built = Len(Members)
    /\ get.what = "files" /\ get.at # End /\ get.valid => \A l \in get.listed : l < get.at
    /\ get.what = "files" /\ ~get.valid => get.raced \/ ~(get.lost \subseteq get.listed)
    /\ get.what = "files" => get.lifetime \/ orphans \subseteq get.lost
    /\ get.what # "files" /\ ~get.valid => get.handled
    /\ get.what \in Listing /\ (get.at # End => get.what = "files")

CauseInv == LoopInv /\ UndefinedNeedsCause

LEMMA UsableUnlessCause ==
  ASSUME ShapeInv, LoopInv, get.pc = "loop", ~Usable
  PROVE  \/ get.lifetime
         \/ get.what = "files" /\ (get.raced \/ ~(get.lost \subseteq get.listed))
         \/ get.what \in {"service_announcement", "services"} /\ get.handled
<1>1. CASE ~get.valid
  BY <1>1 DEF LoopInv, Listing
<1>2. CASE ~Exists(Needed(get.what))
  <2>1. get.what \in Listing
    BY DEF LoopInv
  <2>2. built # 5 /\ Len(Members) = 5
    BY <1>2, <2>1, MembersExist, MembersBuilt DEF ShapeInv, TypeOK, Listing, Needed
  <2> QED  BY <2>2 DEF LoopInv
<1> QED  BY <1>1, <1>2 DEF Usable

LEMMA CauseSetCache ==
  ASSUME ShapeInv, CauseInv, NEW after \in SUBSET Location, NEW written, SetCache(after, written),
         UNCHANGED built
  PROVE  CauseInv'
<1>1. CASE get.pc # "loop"
  <2>1. get' = get
    BY <1>1 DEF SetCache
  <2> QED  BY <1>1, <2>1 DEF CauseInv, LoopInv, UndefinedNeedsCause
<1>2. CASE get.pc = "loop"
  <2>1. /\ get'.pc = "loop" /\ get'.what = get.what /\ get'.at = get.at
        /\ get'.listed = get.listed /\ get'.lifetime = get.lifetime
        /\ get'.handled = get.handled /\ get'.lost = get.lost \cup (cached \ after)
        /\ get'.valid => get.valid /\ (get.what = "files" => ~Invalidated(get.at, after))
        /\ ~get'.valid => \/ ~get.valid
                          \/ get.what = "files" /\ Invalidated(get.at, after)
                          \/ get.what = "files" /\ get'.raced
        /\ get.raced => get'.raced
    BY <1>2, SetCacheFields
  <2>2. UndefinedNeedsCause'
    BY <2>1 DEF UndefinedNeedsCause
  <2>3. get.what = "files" /\ ~get'.valid => get'.raced \/ ~(get'.lost \subseteq get'.listed)
    <3> SUFFICES ASSUME get.what = "files", ~get'.valid, ~get'.raced
                 PROVE  ~(get'.lost \subseteq get'.listed)
      OBVIOUS
    <3>1. CASE ~get.valid
      BY <3>1, <2>1, <1>2 DEF CauseInv, LoopInv
    <3>2. CASE get.valid /\ Invalidated(get.at, after)
      <4>1. get.at \in cached \ after /\ get.at \in Location /\ get.at # End
        BY <3>2, ConstantsAssumption DEF Invalidated, ShapeInv, TypeOK, End
      <4>2. \A l \in get.listed : l < get.at /\ l \in Nat
        BY <3>2, <4>1, <1>2, ConstantsAssumption DEF CauseInv, LoopInv, ShapeInv, TypeOK
      <4>3. get.at \notin get.listed
        BY <4>2
      <4> QED  BY <4>1, <4>3, <2>1
    <3> QED  BY <3>1, <3>2, <2>1
  <2>7. get.what = "files" => get.lifetime \/ orphans' \subseteq get'.lost
    <3>1. orphans' \subseteq orphans
      BY DEF SetCache
    <3> QED  BY <3>1, <2>1, <1>2 DEF CauseInv, LoopInv
  <2>8. get.what \in Listing /\ (get.at # End => get.what = "files")
    BY <1>2 DEF CauseInv, LoopInv
  <2>4. get.what # "files" /\ ~get'.valid => get.handled
    BY <2>1, <1>2 DEF CauseInv, LoopInv
  <2>5. get.lifetime \/ built' = Len(Members)
    BY <1>2 DEF CauseInv, LoopInv
  <2>6. get.what = "files" /\ get.at # End /\ get'.valid => \A l \in get.listed : l < get.at
    BY <2>1, <1>2 DEF CauseInv, LoopInv
  <2> QED  BY <2>1, <2>2, <2>3, <2>4, <2>5, <2>6, <2>7, <2>8 DEF CauseInv, LoopInv
<1> QED  BY <1>1, <1>2

(* Members that come or go are noted.                                      *)
LEMMA CauseLifetime ==
  ASSUME ShapeInv, CauseInv, LifetimeSeen
  PROVE  CauseInv'
<1>1. /\ get'.lifetime = (get.lifetime \/ get.pc # "idle")
      /\ get'.pc = get.pc /\ get'.what = get.what /\ get'.at = get.at
      /\ get'.valid = get.valid /\ get'.listed = get.listed /\ get'.lost = get.lost
      /\ get'.handled = get.handled /\ get'.raced = get.raced
  BY Zenon DEF LifetimeSeen, ShapeInv, GetShape
<1> QED  BY <1>1 DEF CauseInv, LoopInv, UndefinedNeedsCause

LEMMA CauseGet ==
  ASSUME ShapeInv, CauseInv,
         \/ \E what \in Listing : GetBegins(what)
         \/ GetAlone \/ ListFile \/ GetEnds \/ GetGoesOn
  PROVE  CauseInv'
<1>0. UNCHANGED <<process, built, cached, orphans>>
  BY DEF GetBegins, GetAlone, ListFile, GetEnds, GetGoesOn, UnchangedByGet
<1>1. ASSUME Undefined, get.pc = "loop", ~Usable \/ (get.at # End /\ get.at \in orphans)
      PROVE  CauseInv'
  <2>1. /\ get'.pc = "undefined" /\ get'.what = get.what /\ get'.listed = get.listed
        /\ get'.lost = get.lost /\ get'.handled = get.handled
        /\ get'.lifetime = get.lifetime /\ get'.raced = get.raced
    BY <1>1, Zenon DEF Undefined, ShapeInv, GetShape
  <2>2. CASE ~Usable
    BY <2>1, <2>2, <1>1, UsableUnlessCause DEF CauseInv, LoopInv, UndefinedNeedsCause
  <2>3. CASE Usable /\ get.at # End /\ get.at \in orphans
    <3>1. get.what \in Listing
      BY <1>1 DEF CauseInv, LoopInv
    <3>2. get.what = "files"
      BY <2>3, <1>1 DEF CauseInv, LoopInv
    <3>3. \A l \in get.listed : l < get.at /\ l \in Nat
      BY <2>3, <3>2, <1>1, ConstantsAssumption DEF CauseInv, LoopInv, ShapeInv, TypeOK, Usable
    <3>4. get.at \notin get.listed
      BY <3>3
    <3>5. get.lifetime \/ get.at \in get.lost
      BY <2>3, <3>2, <1>1 DEF CauseInv, LoopInv
    <3> QED  BY <2>1, <3>2, <3>4, <3>5 DEF CauseInv, LoopInv, UndefinedNeedsCause
  <2> QED  BY <1>1, <2>2, <2>3
<1>2. get' = NoGet => CauseInv'
  BY DEF NoGet, CauseInv, LoopInv, UndefinedNeedsCause
<1>3. ASSUME NEW what \in Listing, GetBegins(what) PROVE CauseInv'
  <2>1. /\ get'.pc = IF Exists(Needed(what)) THEN "loop" ELSE "undefined"
        /\ get'.what = what /\ get'.listed = {} /\ get'.valid = TRUE
        /\ get'.lifetime = (process # "up")
        /\ get'.lost = IF what = "files" THEN orphans ELSE {}
        /\ get'.at # End => what = "files"
    BY <1>3 DEF GetBegins, NoGet
  <2>2. process = "up" => built = Len(Members)
    BY DEF ShapeInv, TypeOK
  <2>3. built = Len(Members) => Exists(Needed(what))
    BY MembersExist, MembersBuilt DEF ShapeInv, TypeOK, Listing, Needed
  <2>4. LoopInv'
    BY <2>1, <2>2, <1>0 DEF LoopInv
  <2>5. UndefinedNeedsCause'
    BY <2>1, <2>2, <2>3 DEF UndefinedNeedsCause
  <2> QED  BY <2>4, <2>5 DEF CauseInv
<1>4. CASE ListFile
  <2>1. get.pc = "loop" /\ get.at # End
    BY <1>4 DEF ListFile
  <2>2. CASE ~(Usable /\ get.at \notin orphans)
    BY <1>1, <1>4, <2>1, <2>2 DEF ListFile
  <2>3. CASE Usable /\ get.at \notin orphans
    <3>1. /\ get'.pc = "loop" /\ get'.what = get.what /\ get'.valid = get.valid
          /\ get'.listed = get.listed \cup {get.at} /\ get'.at = Following(get.at)
          /\ get'.lifetime = get.lifetime /\ get'.handled = get.handled
          /\ get'.lost = get.lost
      BY <1>4, <2>1, <2>3, Zenon DEF ListFile, ShapeInv, GetShape
    <3>2. get.valid
      BY <2>3 DEF Usable
    <3>3. UndefinedNeedsCause'
      BY <3>1 DEF UndefinedNeedsCause
    <3>4. ASSUME get.what = "files", Following(get.at) # End, NEW l \in get'.listed
          PROVE  l < Following(get.at)
      <4>1. cached \in SUBSET Location /\ get.at \in Location /\ Location \in SUBSET Nat
            /\ get.listed \in SUBSET Location
        BY <2>1, ConstantsAssumption DEF ShapeInv, TypeOK
      <4>2. Following(get.at) \in cached /\ Following(get.at) > get.at
        BY <4>1, <3>4, FollowingIs
      <4>3. \A k \in get.listed : k < get.at
        BY <3>2, <3>4, <2>1, Zenon DEF CauseInv, LoopInv
      <4>4. l \in get.listed \cup {get.at}
        BY <3>1, <3>4, Zenon
      <4>5. l = get.at \/ (l \in get.listed /\ l < get.at)
        BY <4>3, <4>4
      <4>6. get.at \in Nat /\ l \in Nat /\ Following(get.at) \in Nat
        BY <4>1, <4>2, <4>5
      <4> QED  BY <4>2, <4>5, <4>6
    <3>5. LoopInv'
      BY <3>1, <3>2, <3>4, <2>1, <1>0 DEF CauseInv, LoopInv
    <3> QED  BY <3>3, <3>5 DEF CauseInv
  <2> QED  BY <2>2, <2>3
<1>5. CASE GetEnds
  BY <1>1, <1>2, <1>5 DEF GetEnds
<1>6. CASE GetGoesOn
  BY <1>2, <1>6 DEF GetGoesOn
<1>7. CASE GetAlone
  <2>1. get'.pc = "undefined" /\ get'.what = "alone"
    BY <1>7 DEF GetAlone, NoGet
  <2> QED  BY <2>1 DEF CauseInv, LoopInv, UndefinedNeedsCause
<1> QED  BY <1>3, <1>4, <1>5, <1>6, <1>7

LEMMA CauseStep == ShapeInv /\ CauseInv /\ [Next]_vars => CauseInv'
<1> SUFFICES ASSUME ShapeInv, CauseInv, [Next]_vars PROVE CauseInv'
  OBVIOUS
<1> USE DEF ShapeInv
<1>1. ASSUME UNCHANGED <<get, built, orphans>> PROVE CauseInv'
  BY <1>1 DEF CauseInv, LoopInv, UndefinedNeedsCause
<1>2. CASE UNCHANGED vars
  BY <1>1, <1>2 DEF vars
<1>3. CASE ModemChanges \/ Launch
  BY <1>1, <1>3 DEF ModemChanges, Launch
<1>4. CASE Construct
  BY <1>4, CauseLifetime DEF Construct
<1>5. CASE Destroy
  BY <1>5, CauseLifetime DEF Destroy
<1>6. CASE Exit
  BY <1>6 DEF Exit, NoGet, CauseInv, LoopInv, UndefinedNeedsCause
<1>7. ASSUME NEW l \in Location, FileAdded(l) PROVE CauseInv'
  <2>1. cached \cup {l} \in SUBSET Location
    BY DEF TypeOK
  <2> QED  BY <2>1, <1>7, CauseSetCache DEF FileAdded
<1>8. ASSUME NEW l \in Location, FileRemoved(l) PROVE CauseInv'
  <2>1. cached \ {l} \in SUBSET Location
    BY DEF TypeOK
  <2> QED  BY <2>1, <1>8, CauseSetCache DEF FileRemoved
<1>9. CASE AnnouncementHandled
  <2>1. PICK gone \in SUBSET (cached \cap Playlist), valid \in {get.valid, FALSE} :
          /\ orphans' = orphans \cup gone
          /\ get' = IF get.pc # "loop" THEN get
                     ELSE IF get.what = "files" THEN [get EXCEPT !.lost = @ \cup gone]
                     ELSE [get EXCEPT !.valid = valid, !.handled = TRUE]
    BY <1>9, Zenon DEF AnnouncementHandled
  <2>2. built' = built
    BY <1>9 DEF AnnouncementHandled
  <2>3. CASE get.pc # "loop"
    <3>1. get' = get
      BY <2>1, <2>3
    <3> QED  BY <2>2, <2>3, <3>1 DEF CauseInv, LoopInv, UndefinedNeedsCause
  <2>4. CASE get.pc = "loop" /\ get.what = "files"
    <3>1. get' = [get EXCEPT !.lost = @ \cup gone]
      BY <2>1, <2>4
    <3>2. /\ get'.what = get.what /\ get'.pc = get.pc /\ get'.at = get.at
          /\ get'.lifetime = get.lifetime /\ get'.lost = get.lost \cup gone
          /\ get'.listed = get.listed /\ get'.raced = get.raced /\ get'.valid = get.valid
      BY <3>1, Zenon DEF GetShape
    <3> QED  BY <2>1, <2>2, <2>4, <3>2 DEF CauseInv, LoopInv, UndefinedNeedsCause
  <2>5. CASE get.pc = "loop" /\ get.what # "files"
    <3>1. get' = [get EXCEPT !.valid = valid, !.handled = TRUE]
      BY <2>1, <2>5
    <3>2. /\ get'.handled = TRUE /\ get'.what = get.what /\ get'.pc = get.pc
          /\ get'.lifetime = get.lifetime /\ get'.at = get.at
      BY <3>1, Zenon DEF GetShape
    <3> QED  BY <2>2, <2>5, <3>2 DEF CauseInv, LoopInv, UndefinedNeedsCause
  <2> QED  BY <2>3, <2>4, <2>5
<1>10. CASE \/ \E what \in Listing : GetBegins(what)
            \/ GetAlone \/ ListFile \/ GetEnds \/ GetGoesOn
  BY <1>10, CauseGet
<1>11. CASE \E timer \in Timer : TimerExpires(timer)
  BY <1>1, <1>11 DEF TimerExpires
<1>12. CASE TickBegins \/ ControlBegins
  BY <1>1, <1>12 DEF TickBegins, ControlBegins, Ask
<1>13. CASE TickEnds
  <2>1. PICK kept \in SUBSET cached : SetCache(kept, {})
    BY <1>13 DEF TickEnds
  <2>2. kept \in SUBSET Location
    BY DEF TypeOK
  <2> QED  BY <2>1, <2>2, <1>13, CauseSetCache DEF TickEnds
<1>14. CASE TickThrows \/ StatusAnswered \/ HelloAnswered
  BY <1>1, <1>14 DEF TickThrows, StatusAnswered, HelloAnswered
<1>15. ASSUME NEW l \in Location, EntryWritten(l) PROVE CauseInv'
  <2>1. /\ get'.what = get.what /\ get'.pc = get.pc /\ get'.lifetime = get.lifetime
        /\ get.pc = "loop" /\ get.what = "files" /\ get'.raced = TRUE /\ get'.valid = FALSE
        /\ get'.at = get.at /\ get'.lost = get.lost
        /\ UNCHANGED <<built, orphans>>
    BY <1>15, Zenon DEF EntryWritten, GetShape
  <2> QED  BY <2>1 DEF CauseInv, LoopInv, UndefinedNeedsCause
<1>16. CASE GetCrashes
  BY <1>16 DEF GetCrashes, NoGet, CauseInv, LoopInv, UndefinedNeedsCause
<1> QED  BY <1>2, <1>3, <1>4, <1>5, <1>6, <1>7, <1>8, <1>9, <1>10, <1>11, <1>12, <1>13,
            <1>14, <1>15, <1>16 DEF Next

(* A GET of mw-api is undefined only because its path ends there; because  *)
(* members came or went; because an entry of the cache was erased, or its  *)
(* owner destroyed, that it had yet to list, or was written to in its      *)
(* turn; or because an announcement was handled while it went through      *)
(* items or services.                                                      *)
THEOREM UndefinedOnlyForCause == Spec => []UndefinedNeedsCause
<1>1. Init => CauseInv
  BY DEF Init, NoGet, CauseInv, LoopInv, UndefinedNeedsCause
<1> QED  BY <1>1, ShapeInit, ShapeStep, CauseStep, PTL DEF Spec, CauseInv

(***************************************************************************)
(* What a list of files has.                                               *)
(***************************************************************************)

(* Of what was cached all the while, what the iterator has passed is on    *)
(* the list; and the iterator refers to an entry that is still there.      *)
ListInv ==
  get.pc = "loop" =>
    /\ built > 0
    /\ process = "destruction" \/ Exists(Needed(get.what))
    /\ get.what = "files" /\ get.valid /\ Exists("_cache") =>
         /\ get.stayed \subseteq cached /\ cached \subseteq get.seen
         /\ get.at # End => get.at \in cached
         /\ get.listed \subseteq get.seen
         /\ \A l \in get.stayed : l \in get.listed \/ (get.at # End /\ get.at =< l)

LEMMA ListSetCache ==
  ASSUME ShapeInv, ListInv, NEW after \in SUBSET Location, NEW written, SetCache(after, written),
         process = "up", UNCHANGED built
  PROVE  ListInv'
<1>1. CASE get.pc # "loop"
  <2>1. get' = get
    BY <1>1 DEF SetCache
  <2> QED  BY <1>1, <2>1 DEF ListInv
<1>2. CASE get.pc = "loop"
  <2>1. /\ get'.what = get.what /\ get'.at = get.at /\ get'.listed = get.listed
        /\ get'.stayed = get.stayed \cap after /\ get'.seen = get.seen \cup after
        /\ get'.valid => get.valid /\ (get.what = "files" => ~Invalidated(get.at, after))
        /\ cached' = after
    BY <1>2, SetCacheFields, SetCacheShape
  <2>2. built > 0 /\ (process = "destruction" \/ Exists(Needed(get.what)))
    BY <1>2 DEF ListInv
  <2>3. Exists(Needed(get.what)) /\ Exists(Needed(get.what))'
    BY <2>1, <2>2 DEF Exists
  <2>4. ASSUME get'.what = "files", get'.valid, Exists("_cache")'
        PROVE  /\ get'.stayed \subseteq after /\ after \subseteq get'.seen
               /\ get'.at # End => get'.at \in after
               /\ get'.listed \subseteq get'.seen
               /\ \A l \in get'.stayed :
                    l \in get'.listed \/ (get'.at # End /\ get'.at =< l)
    <3>1. get.valid /\ ~Invalidated(get.at, after) /\ Exists("_cache") /\ get.what = "files"
      BY <2>1, <2>4 DEF Exists
    <3>2. /\ get.at # End => get.at \in cached
          /\ get.listed \subseteq get.seen
          /\ \A l \in get.stayed : l \in get.listed \/ (get.at # End /\ get.at =< l)
      BY <3>1, <1>2 DEF ListInv
    <3> QED  BY <3>1, <3>2, <2>1 DEF Invalidated
  <2> QED  BY <2>1, <2>2, <2>3, <2>4 DEF ListInv
<1> QED  BY <1>1, <1>2

LEMMA ListGet ==
  ASSUME ShapeInv, ListInv,
         \/ \E what \in Listing : GetBegins(what)
         \/ GetAlone \/ ListFile \/ GetEnds \/ GetGoesOn
  PROVE  ListInv'
<1>0. UNCHANGED <<process, built, cached, orphans>>
  BY DEF GetBegins, GetAlone, ListFile, GetEnds, GetGoesOn, UnchangedByGet
<1>1. get'.pc # "loop" => ListInv'
  BY DEF ListInv
<1>2. Undefined => get'.pc # "loop"
  BY DEF Undefined, ShapeInv, GetShape
<1>3. NoGet.pc # "loop"
  BY DEF NoGet
<1>4. ASSUME NEW what \in Listing, GetBegins(what) PROVE ListInv'
  <2>1. Exists("_api") /\ built > 0
    <3>1. Exists("_api")
      BY <1>4 DEF GetBegins
    <3>2. built \in 0 .. 5 /\ built >= 1
      BY <3>1, MembersExist DEF ShapeInv, TypeOK
    <3> QED  BY <3>1, <3>2
  <2>2. /\ get'.pc = IF Exists(Needed(what)) THEN "loop" ELSE "undefined"
        /\ get'.what = what /\ get'.listed = {}
        /\ get'.at = IF what = "files" /\ Exists("_cache") THEN Following(End) ELSE End
        /\ get'.stayed = IF what = "files" THEN cached ELSE {}
        /\ get'.seen = IF what = "files" THEN cached ELSE {}
    BY <1>4 DEF GetBegins, NoGet
  <2>3. ASSUME Exists("_cache"), what = "files"
        PROVE  /\ get'.stayed = cached /\ get'.seen = cached
               /\ get'.at # End => get'.at \in cached
               /\ \A l \in cached : get'.at # End /\ get'.at =< l
    <3>1. cached \in SUBSET Location /\ \A l \in cached : l > End
      BY ConstantsAssumption DEF ShapeInv, TypeOK, End
    <3>2. \/ /\ Following(End) \in cached /\ Following(End) # End
             /\ \A j \in cached : j > End => Following(End) =< j
          \/ Following(End) = End /\ \A j \in cached : ~(j > End)
      BY <3>1, FollowingIs
    <3> QED  BY <2>2, <2>3, <3>1, <3>2
  <2>4. get'.pc = "loop" => Exists(Needed(what))'
    BY <2>2, <1>0 DEF Exists
  <2>5. Exists("_cache")' => Exists("_cache")
    BY <1>0 DEF Exists
  <2> QED  BY <2>1, <2>2, <2>3, <2>4, <2>5, <1>0 DEF ListInv
<1>5. CASE ListFile
  <2>1. get.pc = "loop" /\ get.at # End
    BY <1>5 DEF ListFile
  <2>2. CASE ~(Usable /\ get.at \notin orphans)
    BY <1>1, <1>2, <1>5, <2>2 DEF ListFile
  <2>3. CASE Usable /\ get.at \notin orphans
    <3>1. /\ get'.pc = "loop" /\ get'.what = get.what /\ get'.valid = get.valid
          /\ get'.listed = get.listed \cup {get.at} /\ get'.at = Following(get.at)
          /\ get'.stayed = get.stayed /\ get'.seen = get.seen
      BY <1>5, <2>1, <2>3, Zenon DEF ListFile, ShapeInv, GetShape
    <3>2. built' > 0 /\ (process' = "destruction" \/ Exists(Needed(get.what))')
      BY <3>1, <2>1, <1>0 DEF ListInv, Exists
    <3>3. ASSUME get.what = "files", get.valid, Exists("_cache")
          PROVE  /\ get.stayed \subseteq cached /\ cached \subseteq get.seen
                 /\ Following(get.at) # End => Following(get.at) \in cached
                 /\ get'.listed \subseteq get.seen
                 /\ \A l \in get.stayed :
                      \/ l \in get'.listed
                      \/ Following(get.at) # End /\ Following(get.at) =< l
      <4>1. /\ get.stayed \subseteq cached /\ cached \subseteq get.seen
            /\ get.at \in cached /\ get.listed \subseteq get.seen
            /\ \A l \in get.stayed : l \in get.listed \/ get.at =< l
        BY <3>3, <2>1 DEF ListInv
      <4>2. cached \in SUBSET Location /\ Location \in SUBSET Nat
        BY ConstantsAssumption DEF ShapeInv, TypeOK
      <4>3. \/ /\ Following(get.at) \in cached /\ Following(get.at) # End
               /\ \A j \in cached : j > get.at => Following(get.at) =< j
            \/ Following(get.at) = End /\ \A j \in cached : ~(j > get.at)
        BY <4>1, <4>2, FollowingIs
      <4>4. ASSUME NEW l \in get.stayed, l \notin get'.listed
            PROVE  Following(get.at) # End /\ Following(get.at) =< l
        <5>1. l \notin get.listed /\ l # get.at
          BY <4>4, <3>1
        <5>2. l \in cached /\ get.at =< l /\ l \in Nat /\ get.at \in Nat
          BY <5>1, <4>1, <4>2
        <5>3. l > get.at
          BY <5>1, <5>2
        <5> QED  BY <5>2, <5>3, <4>3
      <4>5. get'.listed \subseteq get.seen
        BY <3>1, <4>1
      <4> QED  BY <4>1, <4>3, <4>4, <4>5
    <3>4. Exists("_cache")' => Exists("_cache")
      BY <1>0 DEF Exists
    <3> QED  BY <3>1, <3>2, <3>3, <3>4, <1>0 DEF ListInv
  <2> QED  BY <2>2, <2>3
<1>6. CASE GetEnds
  BY <1>1, <1>2, <1>3, <1>6 DEF GetEnds
<1>7. CASE GetGoesOn
  BY <1>1, <1>3, <1>7 DEF GetGoesOn
<1>8. CASE GetAlone
  BY <1>1, <1>8 DEF GetAlone, NoGet
<1> QED  BY <1>4, <1>5, <1>6, <1>7, <1>8

LEMMA ListStep == ShapeInv /\ ListInv /\ [Next]_vars => ListInv'
<1> SUFFICES ASSUME ShapeInv, ListInv, [Next]_vars PROVE ListInv'
  OBVIOUS
<1> USE DEF ShapeInv
<1>1. ASSUME UNCHANGED <<get, built, cached>>, process' = process \/ process' = "destruction"
      PROVE  ListInv'
  BY <1>1 DEF ListInv, Exists
<1>2. CASE UNCHANGED vars
  BY <1>1, <1>2 DEF vars
<1>3. CASE ModemChanges
  BY <1>1, <1>3 DEF ModemChanges
<1>4. CASE Launch
  <2>1. get.pc # "loop"
    BY <1>4 DEF Launch, TypeOK, ListInv
  <2> QED  BY <1>4, <2>1 DEF Launch, ListInv
<1>5. CASE Construct
  <2>1. /\ process = "construction" /\ built' = built + 1 /\ cached' = cached
        /\ built \in 0 .. 5 /\ built' \in 0 .. 5
    BY <1>5, MembersBuilt DEF Construct, TypeOK, AtRest
  <2>2. /\ get'.pc = get.pc /\ get'.what = get.what /\ get'.at = get.at
        /\ get'.valid = get.valid /\ get'.listed = get.listed /\ get'.seen = get.seen
        /\ get'.stayed = get.stayed
    BY <1>5, Zenon DEF Construct, LifetimeSeen, GetShape
  <2>3. \A member : Exists(member) => Exists(member)'
    BY <2>1 DEF Exists
  <2>4. get.pc = "loop" /\ get.what = "files" => Exists("_cache")
    BY <2>1 DEF ListInv, Needed
  <2>5. get.pc = "loop" => built' > 0 /\ Exists(Needed(get.what))'
    BY <2>1, <2>2, <2>3 DEF ListInv
  <2> QED  BY <2>1, <2>2, <2>4, <2>5 DEF ListInv
<1>6. CASE Destroy
  <2>1. /\ process' = "destruction" /\ built > 0 /\ built' = built - 1
        /\ built \in 1 .. 5 /\ built' \in 0 .. 4
        /\ Members[built] = "_api" => get.pc # "loop"
        /\ cached' = IF Members[built] = "_cache" THEN {} ELSE cached
    BY <1>6, MembersBuilt DEF Destroy, TypeOK
  <2>2. /\ get'.pc = get.pc /\ get'.what = get.what /\ get'.at = get.at
        /\ get'.valid = get.valid /\ get'.listed = get.listed /\ get'.seen = get.seen
        /\ get'.stayed = get.stayed
    BY <1>6, Zenon DEF Destroy, LifetimeSeen, GetShape
  <2>3. get.pc = "loop" => built' > 0
    BY <2>1 DEF Members
  <2>4. Exists("_cache")' => Exists("_cache") /\ cached' = cached
    <3>1. Exists("_cache")' => built' >= 2
      BY <2>1, MembersBuilt DEF Exists
    <3>2. built' >= 2 => Members[built] # "_cache" /\ Exists("_cache")
      BY <2>1, MembersExist DEF Members, TypeOK
    <3> QED  BY <3>1, <3>2, <2>1
  <2> QED  BY <2>1, <2>2, <2>3, <2>4 DEF ListInv
<1>7. CASE Exit
  BY <1>7 DEF Exit, NoGet, ListInv
<1>8. ASSUME NEW l \in Location, FileAdded(l) PROVE ListInv'
  <2>1. cached \cup {l} \in SUBSET Location
    BY DEF TypeOK
  <2> QED  BY <2>1, <1>8, ListSetCache DEF FileAdded
<1>9. ASSUME NEW l \in Location, FileRemoved(l) PROVE ListInv'
  <2>1. cached \ {l} \in SUBSET Location
    BY DEF TypeOK
  <2> QED  BY <2>1, <1>9, ListSetCache DEF FileRemoved
<1>10. CASE AnnouncementHandled
  <2>1. PICK gone \in SUBSET (cached \cap Playlist), valid \in {get.valid, FALSE} :
          /\ orphans' = orphans \cup gone
          /\ get' = IF get.pc # "loop" THEN get
                     ELSE IF get.what = "files" THEN [get EXCEPT !.lost = @ \cup gone]
                     ELSE [get EXCEPT !.valid = valid, !.handled = TRUE]
    BY <1>10, Zenon DEF AnnouncementHandled
  <2>2. UNCHANGED <<process, built, cached>>
    BY <1>10 DEF AnnouncementHandled
  <2>3. CASE get.pc # "loop"
    BY <2>1, <2>3, <2>2 DEF ListInv, Exists
  <2>4. CASE get.pc = "loop" /\ get.what = "files"
    <3>1. get' = [get EXCEPT !.lost = @ \cup gone]
      BY <2>1, <2>4
    <3>2. /\ get'.what = get.what /\ get'.pc = get.pc /\ get'.at = get.at
          /\ get'.listed = get.listed /\ get'.seen = get.seen /\ get'.stayed = get.stayed
          /\ get'.valid = get.valid
      BY <3>1, Zenon DEF GetShape
    <3> QED  BY <2>2, <3>2 DEF ListInv, Exists
  <2>5. CASE get.pc = "loop" /\ get.what # "files"
    <3>1. get' = [get EXCEPT !.valid = valid, !.handled = TRUE]
      BY <2>1, <2>5
    <3>2. get'.what = get.what /\ get'.pc = get.pc
      BY <3>1, Zenon DEF GetShape
    <3> QED  BY <2>2, <2>5, <3>2 DEF ListInv, Exists
  <2> QED  BY <2>3, <2>4, <2>5
<1>11. CASE \/ \E what \in Listing : GetBegins(what)
            \/ GetAlone \/ ListFile \/ GetEnds \/ GetGoesOn
  BY <1>11, ListGet
<1>12. CASE \E timer \in Timer : TimerExpires(timer)
  BY <1>1, <1>12 DEF TimerExpires
<1>13. CASE TickBegins \/ ControlBegins
  BY <1>1, <1>13 DEF TickBegins, ControlBegins, Ask
<1>14. CASE TickEnds
  <2>1. PICK kept \in SUBSET cached : SetCache(kept, {})
    BY <1>14 DEF TickEnds
  <2>2. kept \in SUBSET Location
    BY DEF TypeOK
  <2> QED  BY <2>1, <2>2, <1>14, ListSetCache DEF TickEnds
<1>15. CASE TickThrows \/ StatusAnswered \/ HelloAnswered
  BY <1>1, <1>15 DEF TickThrows, StatusAnswered, HelloAnswered
<1>16. ASSUME NEW l \in Location, EntryWritten(l) PROVE ListInv'
  <2>1. get'.what = get.what /\ get'.pc = get.pc /\ get'.valid = FALSE
        /\ UNCHANGED <<process, built>>
    BY <1>16, Zenon DEF EntryWritten, GetShape
  <2> QED  BY <2>1 DEF ListInv, Exists
<1>17. CASE GetCrashes
  BY <1>17 DEF GetCrashes, NoGet, ListInv
<1> QED  BY <1>2, <1>3, <1>4, <1>5, <1>6, <1>7, <1>8, <1>9, <1>10, <1>11, <1>12, <1>13,
            <1>14, <1>15, <1>16, <1>17 DEF Next

(* A list of files that is completed has every file that was cached all    *)
(* the while, and only files that were cached at some moment of it.        *)
THEOREM ListsWhatStayed == Spec => ListsWhatStays
<1> DEFINE Completed ==
             GetEnds /\ get.what = "files" /\ get' = NoGet =>
               get.stayed \subseteq get.listed /\ get.listed \subseteq get.seen
<1>1. Init => ListInv
  BY DEF Init, NoGet, ListInv
<1>2. ShapeInv /\ ListInv => Completed
  <2> SUFFICES ASSUME ShapeInv, ListInv, GetEnds, get.what = "files", get' = NoGet
               PROVE  get.stayed \subseteq get.listed /\ get.listed \subseteq get.seen
    OBVIOUS
  <2>1. get.pc = "loop" /\ get.at = End
    BY DEF GetEnds
  <2>2. Usable
    BY DEF GetEnds, Undefined, NoGet, ShapeInv, GetShape
  <2>3. get.valid /\ Exists("_cache")
    BY <2>2 DEF Usable, Needed
  <2> QED  BY <2>1, <2>3 DEF ListInv
<1>3. ShapeInv /\ ListInv /\ [Next]_vars => [Completed]_vars
  BY <1>2
<1>4. [][Completed]_vars => ListsWhatStays
  BY PTL DEF ListsWhatStays
<1> QED  BY <1>1, <1>3, <1>4, ShapeInit, ShapeStep, ListStep, PTL DEF Spec
================================================================================
