--------------------------- MODULE SegmentDelivery ---------------------------
(***************************************************************************)
(* Clients asking for one segment of a seamless stream that FLUTE has not  *)
(* delivered: RestHandler::get, Segment::buffer, Segment::fetch_from_cdn   *)
(* and CdnClient::get, statement by statement where another thread can get *)
(* in between.                                                             *)
(*                                                                         *)
(* A GET runs on a thread of the HTTP library's pool.  It looks the cache  *)
(* entry up, asks for its buffer, and, having got one, asks again for the  *)
(* origin, the buffer and the length; the reply is sent from that buffer   *)
(* after the handler has returned.  Nothing in it holds on to the cache    *)
(* entry, the segment or the file.  A segment without content starts a     *)
(* request to the CDN and the thread waits for the response headers, which *)
(* are handled by a thread of the same pool; so is the body.               *)
(***************************************************************************)
EXTENDS Integers, FiniteSets

CONSTANTS
  Client,    \* clients, each with one GET at a time
  Threads,   \* size of the pool
  MaxFiles,  \* bound: CDN bodies received
  Evictions  \* the sweep and the trimming loop may take the segment away

ASSUME ConstantsAssumption ==
  /\ IsFiniteSet(Client)
  /\ Threads \in Nat \ {0}
  /\ MaxFiles \in Nat
  /\ Evictions \in BOOLEAN

VARIABLES
  request,   \* where each client's GET is, and the file it replies from
  bodies,    \* CDN responses with status 200 whose body is being read
  cached,    \* the segment's entry is in _cache_items
  alive,     \* the Segment object exists
  files,     \* how many CdnFiles have been made: file i is the i-th
  cdn_file,  \* _cdn_file, 0 for none
  freed,     \* the CdnFiles that have been destroyed
  dangling,  \* something destroyed has been used
  served     \* history: the clients that have got the content

vars == <<request, bodies, cached, alive, files, cdn_file, freed, dangling, served>>

File == 1 .. MaxFiles

(* "found": the entry is looked up; "waiting": in fetch_from_cdn;          *)
(* "checked": the buffer is there; "labelled": the header with the origin  *)
(* is added; "pointed": the reply's buffer is taken; "sending": the reply  *)
(* is under way.                                                           *)
Stage == {"idle", "found", "waiting", "checked", "labelled", "pointed", "sending"}

TypeOK ==
  /\ request \in [Client -> [at : Stage, file : File \cup {0}]]
  /\ bodies \in 0 .. MaxFiles
  /\ cached \in BOOLEAN /\ alive \in BOOLEAN
  /\ files \in 0 .. MaxFiles
  /\ cdn_file \in File \cup {0}
  /\ freed \in SUBSET File
  /\ dangling \in BOOLEAN
  /\ served \in SUBSET Client

NoRequest == [at |-> "idle", file |-> 0]

Init ==
  /\ request = [c \in Client |-> NoRequest]
  /\ bodies = 0
  /\ cached = TRUE
  /\ alive = TRUE
  /\ files = 0
  /\ cdn_file = 0
  /\ freed = {}
  /\ dangling = FALSE
  /\ served = {}

------------------------------------------------------------------------------
(* The pool.                                                               *)

(* A handler has its thread until it has replied.                          *)
Busy == {c \in Client : request[c].at \notin {"idle", "sending"}}

FreeThread == Cardinality(Busy) < Threads

(* Every thread of the pool is held by a GET that waits for headers.       *)
PoolExhausted == Cardinality({c \in Client : request[c].at = "waiting"}) >= Threads

Goto(c, stage) == request' = [request EXCEPT ![c].at = stage]

(* NotFound, at whatever stage.                                            *)
Reply404(c) == request' = [request EXCEPT ![c] = NoRequest]

------------------------------------------------------------------------------
(* RestHandler::get.                                                       *)

(* find(path): without an entry the reply is 404 at once.                  *)
Find(c) ==
  /\ request[c].at = "idle"
  /\ FreeThread
  /\ cached
  /\ Goto(c, "found")
  /\ UNCHANGED <<bodies, cached, alive, files, cdn_file, freed, dangling, served>>

(* it->second->buffer() == nullptr ?  The iterator dangles if the entry    *)
(* has been erased meanwhile.                                              *)
CheckBuffer(c) ==
  /\ request[c].at = "found"
  /\ Goto(c, IF cdn_file # 0 THEN "checked" ELSE "waiting")
  /\ dangling' = (dangling \/ ~cached)
  /\ UNCHANGED <<bodies, cached, alive, files, cdn_file, freed, served>>

(* it->second->item_source_as_string(), for the header.                    *)
Label(c) ==
  /\ request[c].at = "checked"
  /\ Goto(c, "labelled")
  /\ dangling' = (dangling \/ ~cached)
  /\ UNCHANGED <<bodies, cached, alive, files, cdn_file, freed, served>>

(* The second it->second->buffer(): the file the reply is sent from.       *)
Point(c) ==
  /\ request[c].at = "labelled"
  /\ request' = [request EXCEPT ![c] = [at |-> "pointed", file |-> cdn_file]]
  /\ dangling' = (dangling \/ ~cached)
  /\ UNCHANGED <<bodies, cached, alive, files, cdn_file, freed, served>>

(* it->second->content_length(); the reply is handed to the library and    *)
(* the handler returns.                                                    *)
Reply200(c) ==
  /\ request[c].at = "pointed"
  /\ Goto(c, "sending")
  /\ dangling' = (dangling \/ ~cached)
  /\ UNCHANGED <<bodies, cached, alive, files, cdn_file, freed, served>>

(* The library reads the buffer and sends it.                              *)
Sent(c) ==
  /\ request[c].at = "sending"
  /\ FreeThread
  /\ request' = [request EXCEPT ![c] = NoRequest]
  /\ dangling' = (dangling \/ request[c].file \in freed \cup {0})
  /\ served' = served \cup {c}
  /\ UNCHANGED <<bodies, cached, alive, files, cdn_file, freed>>

------------------------------------------------------------------------------
(* CdnClient::get for the segment.  Once the wait is over, buffer() writes *)
(* a message with the segment's location, whether or not there still is a  *)
(* segment.                                                                *)

(* The headers of a response with status 200: reading the body begins, and *)
(* wait() returns in the thread that asked.  buffer() is null all the      *)
(* same, so this GET ends with 404.                                        *)
HeadersOK(c) ==
  /\ request[c].at = "waiting"
  /\ FreeThread
  /\ bodies + files < MaxFiles
  /\ bodies' = bodies + 1
  /\ Reply404(c)
  /\ dangling' = (dangling \/ ~alive)
  /\ UNCHANGED <<cached, alive, files, cdn_file, freed, served>>

(* Fault variant: only a response with status 200 ends the wait.           *)
HeadersFailHangs(c) ==
  /\ request[c].at = "waiting"
  /\ FreeThread
  /\ UNCHANGED vars

(* Another status, or an http_exception: nobody is told.                   *)
HeadersFail(c) ==
  /\ request[c].at = "waiting"
  /\ FreeThread
  /\ Reply404(c)
  /\ dangling' = (dangling \/ ~alive)
  /\ UNCHANGED <<bodies, cached, alive, files, cdn_file, freed, served>>

(* Fault variant: the segment keeps a pointer to the file, not a share.    *)
FreedWithoutShare(old, new) == {old, new} \ {0}

(* Fault variant: a null file is destroyed, too.                           *)
FreedNull(old, new) == {old}

(* What the move into _cdn_file destroys: the file that was there.         *)
FreedBy(old, new) == {old} \ {0}

(* Fault variant: the file is moved on before it is stored.                *)
StoredAfterMove(file) == 0

(* The content of _cdn_file once `file` has been moved into it.            *)
Stored(file) == file

(* A body is complete: the completion callback moves it into the Segment   *)
(* it was started for, of which it has only the address.                   *)
BodyRead ==
  /\ bodies > 0
  /\ FreeThread
  /\ bodies' = bodies - 1
  /\ files' = files + 1
  /\ IF alive
     THEN /\ cdn_file' = Stored(files + 1)
          /\ freed' = freed \cup FreedBy(cdn_file, files + 1)
          /\ UNCHANGED dangling
     ELSE /\ dangling' = TRUE
          /\ UNCHANGED <<cdn_file, freed>>
  /\ UNCHANGED <<request, cached, alive, served>>

------------------------------------------------------------------------------
(* Other threads.                                                          *)

(* The sweep drops the entry of a segment that has content; the segment    *)
(* stays in the stream's window.                                           *)
Expire ==
  /\ Evictions /\ cached /\ cdn_file # 0
  /\ cached' = FALSE
  /\ UNCHANGED <<request, bodies, alive, files, cdn_file, freed, dangling, served>>

(* handle_playlist trims the segment: entry, Segment and file are gone.    *)
Trim ==
  /\ Evictions /\ alive
  /\ alive' = FALSE
  /\ cached' = FALSE
  /\ cdn_file' = 0
  /\ freed' = freed \cup ({cdn_file} \ {0})
  /\ UNCHANGED <<request, bodies, files, dangling, served>>

------------------------------------------------------------------------------
Next ==
  \/ BodyRead
  \/ Expire
  \/ Trim
  \/ \E c \in Client : \/ Find(c)
                       \/ CheckBuffer(c)
                       \/ Label(c)
                       \/ Point(c)
                       \/ Reply200(c)
                       \/ Sent(c)
                       \/ HeadersOK(c)
                       \/ HeadersFail(c)

Spec == Init /\ [][Next]_vars

(* Clients ask again after a 404; handlers run; the CDN answers every      *)
(* request, and 200 again and again.  The pool takes what waits for a      *)
(* thread in the order in which it came, hence strong fairness for what    *)
(* needs one: it gets it if threads become free again and again.           *)
FairSpec ==
  /\ Spec
  /\ SF_vars(BodyRead)
  /\ \A c \in Client : /\ SF_vars(Find(c))
                       /\ WF_vars(CheckBuffer(c) \/ Label(c) \/ Point(c) \/ Reply200(c))
                       /\ SF_vars(Sent(c))
                       /\ SF_vars(HeadersOK(c) \/ HeadersFail(c))
                       /\ SF_vars(HeadersOK(c))

------------------------------------------------------------------------------
(* Properties.                                                             *)

(* Nothing destroyed is used unless the segment was evicted under a GET or *)
(* under a fetch, or was fetched twice, which destroys the first copy.     *)
DanglingNeedsEvictionOrRefetch == dangling => ~cached \/ files > 1

(* A client that asks, and asks again after each 404, gets the segment,    *)
(* unless it is evicted or every thread of the pool waits.                 *)
AskingAgainHelps == \A c \in Client : <>(c \in served \/ ~cached \/ PoolExhausted)

(* CdnClient::get blocks a thread of the pool until another one has        *)
(* handled the headers.  That must be the only way to wait for ever: a GET *)
(* stops waiting unless all threads come to wait at once, whatever the CDN *)
(* answers and whatever is evicted or fetched meanwhile.                   *)
WaitsEnd ==
  \A c \in Client : request[c].at = "waiting" ~> request[c].at # "waiting" \/ PoolExhausted
==============================================================================
