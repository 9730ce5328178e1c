------------------------------ MODULE Middleware ------------------------------
(***************************************************************************)
(* The process: main.cpp, Middleware and what it asks of the modem and the *)
(* control system (RpRestClient, ControlSystemRestClient); and the GETs of *)
(* mw-api (RestHandler) that go on meanwhile.                              *)
(*                                                                         *)
(* One thread runs all handlers.  Two timers make it ask the modem which   *)
(* multicast channels (MTCHs) there are, and report to the control system; *)
(* it blocks until they answer.  An error in the answer to the first       *)
(* question ends the process, which systemd starts again; errors in the    *)
(* rest are swallowed.                                                     *)
(*                                                                         *)
(* The members of Middleware are constructed one by one, and destroyed in  *)
(* the opposite order when an exception leaves io.run().  The listener is  *)
(* open as long as _api exists.  A GET of mw-api goes through a container  *)
(* of one of the others on a pool thread, without a lock, and asks each    *)
(* entry of the cache for its length: for a playlist, a call to its owner. *)
(***************************************************************************)
EXTENDS Integers, Sequences, FiniteSets

CONSTANTS
  Answers,       \* what the modem may say: sequences of MTCHs
  Valid,         \* destinations that are written host:port
  Location,      \* cache keys; numbers, in the order of the map
  Playlist,      \* those of playlists and manifests, which a stream or service owns
  Control,       \* mw.control_system.enabled
  LocalService   \* mw.local_service.enabled, with a bootstrap file

ASSUME ConstantsAssumption ==
  /\ Location \in SUBSET Nat /\ IsFiniteSet(Location) /\ Playlist \subseteq Location
  /\ Control \in BOOLEAN /\ LocalService \in BOOLEAN
  /\ "none" \notin Valid /\ "deaf" \notin Valid

(* An MTCH: whether it can be read at all, whether its TMGI is one of a    *)
(* service announcement, and its destination.  A body that is not JSON is  *)
(* an MTCH that cannot be read; no modem, or a status other than 200, is   *)
(* an empty list.                                                          *)

VARIABLES
  process,       \* "down", being constructed, "up" or being destroyed
  built,         \* how many of the Members exist
  main,          \* what the thread waits for: "mch_info", "status", "hello"
  armed,         \* the timers that are running
  due,           \* the timers whose handler is queued
  modem,         \* what the modem would answer now
  announcement,  \* _service_announcement: "none", "deaf" or where it listens
  swept,         \* flips with each sweep of the cache
  cached,        \* _cache: the locations that have an entry
  orphans,       \* those entries whose stream or service has been destroyed
  get            \* a GET of mw-api

vars == <<process, built, main, armed, due, modem, announcement, swept, cached, orphans, get>>

(* Those of Middleware's members that a GET needs, as they are declared;   *)
(* with _timer, the last of all, on which the handlers depend.             *)
Members == <<"_api", "_cache", "_service_announcement", "_services", "_timer">>
Exists(member) == \E i \in 1 .. built : Members[i] = member

(* What a GET lists, and the member it goes through.                       *)
Listing == {"files", "service_announcement", "services"}
Needed(what) == CASE what = "files" -> "_cache"
                  [] what = "service_announcement" -> "_service_announcement"
                  [] what = "services" -> "_services"

(* A GET: whether it is in its loop or has met undefined behaviour; for    *)
(* files, the entry its iterator refers to, or End, and what it has put on *)
(* the list; whether it can go on.  History: what was cached all the time, *)
(* and at any time, since it began; what was erased or without its owner;  *)
(* whether another thread wrote during its turn, or handled an             *)
(* announcement; and whether members came or went.                         *)
End == -1
NoGet == [pc |-> "idle", what |-> "files", at |-> End, listed |-> {}, valid |-> TRUE,
          stayed |-> {}, seen |-> {}, lost |-> {}, raced |-> FALSE, handled |-> FALSE,
          lifetime |-> FALSE]

Timer == {"tick", "control"}

TypeOK ==
  /\ process \in {"down", "construction", "up", "destruction"}
  /\ built \in 0 .. Len(Members)
  /\ process = "up" => built = Len(Members)
  /\ process = "down" => built = 0
  /\ cached \in SUBSET Location /\ (~Exists("_cache") => cached = {})
  /\ orphans \subseteq cached \cap Playlist
  /\ get.pc \in {"idle", "loop", "undefined"} /\ get.what \in Listing \cup {"alone"}
  /\ get.at \in Location \cup {End} /\ get.listed \in SUBSET Location
  /\ main \in {"free", "mch_info", "status", "hello"}
  /\ armed \in SUBSET Timer /\ due \in SUBSET (Timer \ armed)
  /\ modem \in Answers
  /\ announcement \in {"none", "deaf"} \cup Valid
  /\ swept \in BOOLEAN
  /\ process = "up" =>
       armed \cup due = Timer \ (CASE main = "free" -> {} [] main = "mch_info" -> {"tick"}
                                   [] OTHER -> {"control"})

(* _handle_local_service_announcement: the object is there whatever became *)
(* of the file, and has no receiver.                                       *)
AtStart == IF LocalService THEN "deaf" ELSE "none"

Init ==
  /\ process = "down" /\ built = 0 /\ main = "free"
  /\ armed = {} /\ due = {}
  /\ modem \in Answers
  /\ announcement = "none"
  /\ swept = FALSE
  /\ cached = {} /\ orphans = {}
  /\ get = NoGet

------------------------------------------------------------------------------
(* Around the process.                                                     *)

ModemChanges ==
  /\ modem' \in Answers
  /\ UNCHANGED <<process, built, main, armed, due, announcement, swept, cached, orphans, get>>

(* systemd: Restart=always.  What the process knew is gone.                *)
Launch ==
  /\ process = "down"
  /\ process' = "construction"
  /\ UNCHANGED <<built, main, armed, due, modem, announcement, swept, cached, orphans, get>>

(* A GET that is in progress sees members come or go.                     *)
LifetimeSeen == get' = [get EXCEPT !.lifetime = @ \/ get.pc # "idle"]

(* The constructor: the members, then the local announcement.              *)
Construct ==
  /\ process = "construction"
  /\ built' = built + 1
  /\ IF built' = Len(Members)
     THEN process' = "up" /\ armed' = Timer /\ announcement' = AtStart
     ELSE UNCHANGED <<process, armed, announcement>>
  /\ LifetimeSeen
  /\ UNCHANGED <<main, due, modem, swept, cached, orphans>>

(* The destructor.  That of the listener waits for the GETs; the streams   *)
(* and services go before the cache that has their playlists.              *)
Destroy ==
  /\ process = "destruction" /\ built > 0
  /\ Members[built] = "_api" => get.pc # "loop"
  /\ built' = built - 1
  /\ announcement' = IF Members[built] = "_service_announcement" THEN "none"
                     ELSE announcement
  /\ cached' = IF Members[built] = "_cache" THEN {} ELSE cached
  /\ orphans' = CASE Members[built] = "_cache" -> {}
                  [] Members[built] = "_services" -> cached \cap Playlist
                  [] OTHER -> orphans
  /\ LifetimeSeen
  /\ UNCHANGED <<process, main, armed, due, modem, swept>>

(* main's catch, and the end of the process and of what is left of a GET.  *)
Exit ==
  /\ process = "destruction" /\ built = 0
  /\ process' = "down"
  /\ get' = NoGet
  /\ UNCHANGED <<built, main, armed, due, modem, announcement, swept, cached, orphans>>

TimerExpires(timer) ==
  /\ process = "up" /\ timer \in armed
  /\ armed' = armed \ {timer}
  /\ due' = due \cup {timer}
  /\ UNCHANGED <<process, built, main, modem, announcement, swept, cached, orphans, get>>

(* Fault variant: the timer is set again before the question.              *)
RearmThenAsk(timer, question) ==
  /\ process = "up" /\ main = "free" /\ timer \in due
  /\ due' = due \ {timer} /\ armed' = armed \cup {timer}
  /\ main' = question
  /\ UNCHANGED <<process, built, modem, announcement, swept, cached, orphans, get>>

(* A handler starts, and asks.                                             *)
Ask(timer, question) ==
  /\ process = "up" /\ main = "free" /\ timer \in due
  /\ due' = due \ {timer}
  /\ main' = question
  /\ UNCHANGED <<process, built, armed, modem, announcement, swept, cached, orphans, get>>

(* Fault variant: nothing to do, return early.                             *)
RearmAfterWork(timer) == armed' = IF modem = <<>> THEN armed ELSE armed \cup {timer}

(* expires_at and async_wait.                                              *)
Rearm(timer) == armed' = armed \cup {timer}

(* Fault variant: of an unordered_map, which may be rehashed when it grows. *)
InvalidatedByGrowth(at, after) == ~(after \subseteq cached)

(* The iterator of a std::map stays valid unless its own entry is erased.  *)
Invalidated(at, after) == at \in cached \ after

(* The cache changes, with new items at the locations written.  If it does *)
(* so just as a GET looks at such an entry or steps to the next one, that  *)
(* is a data race, of which anything may come.                             *)
SetCache(after, written) ==
  /\ cached' = after
  /\ orphans' = (orphans \cap after) \ written
  /\ \E clash \in {FALSE, get.what = "files" /\ get.at # End
                            /\ (after # cached \/ get.at \in written)} :
       get' = IF get.pc = "loop"
              THEN [get EXCEPT !.valid = /\ @ /\ ~clash
                                         /\ get.what = "files" => ~Invalidated(get.at, after),
                               !.stayed = @ \cap after, !.seen = @ \cup after,
                               !.lost = @ \cup (cached \ after),
                               !.raced = @ \/ clash]
              ELSE get

------------------------------------------------------------------------------
(* The containers change.                                                  *)

(* add_item, by the thread that runs the handlers or by a worker.          *)
FileAdded(l) ==
  /\ process = "up"
  /\ SetCache(cached \cup {l}, {l})
  /\ UNCHANGED <<process, built, main, armed, due, modem, announcement, swept>>

(* remove_item, by a worker; of segments only.                             *)
FileRemoved(l) ==
  /\ process = "up" /\ l \in cached \ Playlist
  /\ SetCache(cached \ {l}, {})
  /\ UNCHANGED <<process, built, main, armed, due, modem, announcement, swept>>

(* What a GET reads of an entry is assigned at that moment: the text of a  *)
(* playlist or manifest, or the content of a segment.                      *)
EntryWritten(l) ==
  /\ process = "up"
  /\ get.pc = "loop" /\ get.what = "files" /\ get.at = l /\ l \in cached
  /\ get' = [get EXCEPT !.valid = FALSE, !.raced = TRUE]
  /\ UNCHANGED <<process, built, main, armed, due, modem, announcement, swept, cached, orphans>>

(* parse_bootstrap adds to _items, which may be moved to a larger block;   *)
(* streams replace others, whose playlists stay in the cache.  The loop of *)
(* a GET of items or services may be affected or not.                      *)
AnnouncementHandled ==
  /\ process = "up" /\ main = "free" /\ announcement \in Valid
  /\ \E gone \in SUBSET (cached \cap Playlist), valid \in {get.valid, FALSE} :
       /\ orphans' = orphans \cup gone
       /\ get' = IF get.pc # "loop" THEN get
                  ELSE IF get.what = "files" THEN [get EXCEPT !.lost = @ \cup gone]
                  ELSE [get EXCEPT !.valid = valid, !.handled = TRUE]
  /\ UNCHANGED <<process, built, main, armed, due, modem, announcement, swept, cached>>

------------------------------------------------------------------------------
(* tick_handler.                                                           *)

TickBegins == Ask("tick", "mch_info")

(* The MTCHs that the loop gets to.                                        *)
Readable == {i \in DOMAIN modem : \A j \in 1 .. i : modem[j].readable}

(* Fault variant: any destination will do.                                 *)
AnyDestination(mtch) == mtch.dest # ""

IsServiceAnnouncement(mtch) == mtch.sa /\ mtch.dest # ""

(* start_flute_receiver gives up on a destination without a colon, and the *)
(* object stays.                                                           *)
Listening(dest) == IF dest \in Valid THEN dest ELSE "deaf"

(* The first service announcement, if there is none yet.                   *)
Chosen ==
  LET candidates == {i \in Readable : IsServiceAnnouncement(modem[i])}
  IN  IF announcement # "none" \/ candidates = {} THEN announcement
      ELSE Listening(modem[CHOOSE i \in candidates : \A j \in candidates : i <= j].dest)

(* The rest of the handler: the cache's sweep drops some entries.          *)
TickEnds ==
  /\ process = "up" /\ main = "mch_info"
  /\ Readable = DOMAIN modem
  /\ announcement' = Chosen
  /\ swept' = ~swept
  /\ \E kept \in SUBSET cached : SetCache(kept, {})
  /\ Rearm("tick")
  /\ main' = "free"
  /\ UNCHANGED <<process, built, due, modem>>

(* json_exception, invalid_argument: out of io.run() and main's try block; *)
(* the cache is not swept.                                                 *)
TickThrows ==
  /\ process = "up" /\ main = "mch_info"
  /\ Readable # DOMAIN modem
  /\ process' = "destruction" /\ main' = "free"
  /\ armed' = {} /\ due' = {}
  /\ UNCHANGED <<built, modem, announcement, swept, cached, orphans, get>>

------------------------------------------------------------------------------
(* control_tick_handler: two questions, and errors in either are caught.   *)

ControlBegins ==
  IF Control THEN Ask("control", "status")
  ELSE /\ process = "up" /\ main = "free" /\ "control" \in due
       /\ due' = due \ {"control"}
       /\ Rearm("control")
       /\ UNCHANGED <<process, built, main, modem, announcement, swept, cached, orphans, get>>

(* The status has a cinr_db, and sendHello follows; or it has not.         *)
StatusAnswered ==
  /\ process = "up" /\ main = "status"
  /\ \/ main' = "hello" /\ UNCHANGED armed
     \/ main' = "free" /\ Rearm("control")
  /\ UNCHANGED <<process, built, due, modem, announcement, swept, cached, orphans, get>>

HelloAnswered ==
  /\ process = "up" /\ main = "hello"
  /\ Rearm("control")
  /\ main' = "free"
  /\ UNCHANGED <<process, built, due, modem, announcement, swept, cached, orphans, get>>

------------------------------------------------------------------------------
(* RestHandler::get for mw-api, on a pool thread.                          *)

UnchangedByGet ==
  UNCHANGED <<process, built, main, armed, due, modem, announcement, swept, cached, orphans>>

Undefined == get' = [get EXCEPT !.pc = "undefined", !.at = End, !.stayed = {}, !.seen = {}]

(* Fault variant: the loop increments twice.                               *)
SkipOne(l) == IF \E k \in cached : k > l + 1
              THEN CHOOSE k \in cached : k > l + 1 /\ \A j \in cached : j > l + 1 => k =< j
              ELSE End

(* operator++: the entry that follows in the map as it is now.             *)
Following(l) == IF \E k \in cached : k > l
                THEN CHOOSE k \in cached : k > l /\ \A j \in cached : j > l => k =< j
                ELSE End

(* The listener is open.  There is no service announcement yet: 404.       *)
GetBegins(what) ==
  /\ Exists("_api") /\ get.pc = "idle"
  /\ ~(what = "service_announcement" /\ Exists(Needed(what)) /\ announcement = "none")
  /\ get' = [NoGet EXCEPT !.pc = IF Exists(Needed(what)) THEN "loop" ELSE "undefined",
                          !.what = what,
                          !.lifetime = process # "up",
                          !.at = IF what = "files" /\ Exists("_cache") THEN Following(End)
                                 ELSE End,
                          !.stayed = IF what = "files" THEN cached ELSE {},
                          !.seen = IF what = "files" THEN cached ELSE {},
                          !.lost = IF what = "files" THEN orphans ELSE {}]
  /\ UnchangedByGet

(* mw-api and nothing after it: the second part of the path is read though *)
(* there is none.                                                          *)
GetAlone ==
  /\ Exists("_api") /\ get.pc = "idle"
  /\ get' = [NoGet EXCEPT !.pc = "undefined", !.what = "alone"]
  /\ UnchangedByGet

Usable == Exists(Needed(get.what)) /\ get.valid

(* The loop over the entries of the cache, one turn; content_length of a   *)
(* playlist calls its owner.                                               *)
ListFile ==
  /\ get.pc = "loop" /\ get.at # End
  /\ IF Usable /\ get.at \notin orphans
     THEN get' = [get EXCEPT !.listed = @ \cup {get.at}, !.at = Following(get.at)]
     ELSE Undefined
  /\ UnchangedByGet

(* The end of the loop, and the reply; the loops over the items, and over  *)
(* the services and their streams, are one turn.                           *)
GetEnds ==
  /\ get.pc = "loop" /\ get.at = End
  /\ IF Usable THEN get' = NoGet ELSE Undefined
  /\ UnchangedByGet

(* Undefined behaviour may end the process,                                *)
GetCrashes ==
  /\ get.pc = "undefined"
  /\ process' = "down" /\ built' = 0 /\ main' = "free"
  /\ armed' = {} /\ due' = {} /\ announcement' = "none"
  /\ cached' = {} /\ orphans' = {} /\ get' = NoGet
  /\ UNCHANGED <<modem, swept>>

(* or the GET goes on with whatever it has left.                           *)
GetGoesOn ==
  /\ get.pc = "undefined"
  /\ get' = NoGet
  /\ UnchangedByGet

------------------------------------------------------------------------------
Next ==
  \/ ModemChanges \/ Launch \/ Construct \/ Destroy \/ Exit
  \/ \E l \in Location : FileAdded(l) \/ FileRemoved(l) \/ EntryWritten(l)
  \/ AnnouncementHandled
  \/ \E what \in Listing : GetBegins(what)
  \/ GetAlone \/ ListFile \/ GetEnds \/ GetCrashes \/ GetGoesOn
  \/ \E timer \in Timer : TimerExpires(timer)
  \/ TickBegins \/ TickEnds \/ TickThrows
  \/ ControlBegins \/ StatusAnswered \/ HelloAnswered

Spec == Init /\ [][Next]_vars

(* Timers expire; a queued handler gets its turn, since the io_service     *)
(* runs them in order; the HTTP client gives up on an answer after its     *)
(* timeout; systemd restarts.  A pool thread runs on, and the destructor   *)
(* of the listener, which accepts no more requests, gets its turn.         *)
Fairness ==
  /\ WF_vars(Launch) /\ WF_vars(Construct) /\ SF_vars(Destroy) /\ WF_vars(Exit)
  /\ WF_vars(ListFile) /\ WF_vars(GetEnds)
  /\ \A timer \in Timer : WF_vars(TimerExpires(timer))
  /\ SF_vars(TickBegins) /\ SF_vars(ControlBegins)
  /\ WF_vars(TickEnds) /\ WF_vars(TickThrows)
  /\ WF_vars(StatusAnswered) /\ WF_vars(HelloAnswered)

FairSpec == Spec /\ Fairness

------------------------------------------------------------------------------
(* Properties.                                                             *)

WellFormed == \A i \in DOMAIN modem : modem[i].readable

(* The modem has one service announcement, at dest.                        *)
Announces(dest) ==
  /\ WellFormed
  /\ \E i \in DOMAIN modem : modem[i].sa /\ modem[i].dest = dest
  /\ \A i \in DOMAIN modem : modem[i].sa => modem[i].dest = dest

(* No GET ends the process any more.                                       *)
Defined == get.pc # "undefined"

(* "automatically start receiving the service announcement"                *)
(* (Middleware.cpp:101): once the modem keeps announcing a destination,    *)
(* the middleware ends up listening there, whatever answers came before    *)
(* and however often they, or undefined GETs, ended the process: if no     *)
(* answer named another destination, for what is taken once is kept.       *)
AnnouncementReceived ==
  \A dest \in Valid : <>[](Announces(dest) /\ Defined) => <>[](announcement = dest)

(* As long as the modem makes sense or keeps quiet, the cache is swept     *)
(* again and again: neither early answers nor the control system's         *)
(* silence keep tick_handler from reaching check_file_expiry_and_...       *)
SweepsGoOn == <>[](WellFormed /\ Defined) => []<>swept /\ []<>~swept

(* A GET of mw-api meets undefined behaviour only for a reason: its path   *)
(* ends there (RestHandler.cpp:93); it began or was going on while the     *)
(* members were constructed or destroyed; of the files (:120-:124), an     *)
(* entry was erased, or its owner destroyed, that it had yet to list, or   *)
(* another thread wrote just what its turn was reading; or an announcement *)
(* was handled while it went through items or services.  Files that are    *)
(* added between two turns, or dropped after they were listed, do no harm. *)
UndefinedNeedsCause ==
  get.pc = "undefined" =>
    \/ get.what = "alone"
    \/ get.lifetime
    \/ get.what = "files" /\ (get.raced \/ ~(get.lost \subseteq get.listed))
    \/ get.what \in {"service_announcement", "services"} /\ get.handled

(* The list of files has each entry that was cached all the while the list *)
(* was made, and none that was not cached at some moment of it, however    *)
(* the cache changed in between.                                           *)
ListsWhatStays ==
  [][GetEnds /\ get.what = "files" /\ get' = NoGet =>
       get.stayed \subseteq get.listed /\ get.listed \subseteq get.seen]_vars
================================================================================
