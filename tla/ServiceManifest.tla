---------------------------- MODULE ServiceManifest ----------------------------
(***************************************************************************)
(* The manifest of one service: Service with the ContentStream objects it  *)
(* starts, the cache entry the manifest is served from, and a client that  *)
(* GETs it.                                                                *)
(*                                                                         *)
(* The io_service thread handles announcements, receives the MPDs that     *)
(* come by FLUTE and sweeps the cache; the reply to a GET is put together  *)
(* on a pool thread, in steps between which the io_service thread may do   *)
(* anything.  An announcement is handled as a plan of calls of Service:    *)
(* all announcements received so far are handled again, and each time the  *)
(* master manifests of all of them are read.                               *)
(***************************************************************************)
EXTENDS HlsPrimaryPlaylist, SessionDescription, Integers, FiniteSets

CONSTANTS
  Settings,    \* the announcements the program may receive, and their protocol
  BasePath,    \* of the manifest, as tokens
  Paths,       \* all playlist paths, in the order of the map _content_streams
  Leftover,    \* what uninitialised memory may hold, as a number
  MaxFileAge,  \* mw.cache.max_file_age
  MaxTime,     \* bound: the clock stops here
  Mpds,        \* bound: the MPDs that come by FLUTE, numbered as they are sent
  MaxGets      \* bound: GETs of the manifest

(* A setting:                                                              *)
(*   protocol      - "HLS" or "DASH", by the service's MIME type           *)
(*   announcements - what comes, in this order.  Each has a master: a text *)
(*                   of an HLS playlist, or the number of an MPD; and its  *)
(*                   streams, each with the parts that its base pattern    *)
(*                   and its sessionDescriptionURI refer to: its own       *)
(*                   primary playlist, and its SDP.  Both URIs together    *)
(*                   are its base here: they do not change separately.     *)
(*   broadcast_only - the default format without seamless switching, in    *)
(*                   which a stream needs a usable SDP                     *)
(*   legacy        - the legacy format, the only one in which the streams  *)
(*                   are told the base path (set_base_path)                *)
PlaylistTexts == Seq([tag : STRING, text : Seq(STRING)])
Sdps == Seq([field : STRING, words : Seq(STRING)])
Part == [base : STRING, text : PlaylistTexts, sdp : Sdps]

ASSUME ConstantsAssumption ==
  /\ \A s \in Settings :
       /\ s.protocol \in {"HLS", "DASH"}
       /\ s.announcements \in
            Seq([master  : IF s.protocol = "HLS" THEN PlaylistTexts ELSE Seq(Nat),
                 streams : Seq(Part)])
       /\ s.broadcast_only \in BOOLEAN /\ s.legacy \in BOOLEAN
       /\ ~(s.broadcast_only /\ s.legacy)
  /\ Leftover \subseteq Numeral /\ Leftover # {}
  /\ BasePath \in Seq(STRING)
  /\ Paths \in Seq(Seq(STRING))
  /\ \A i, j \in DOMAIN Paths : Paths[i] = Paths[j] => i = j
  /\ MaxFileAge \in Nat /\ MaxTime \in Nat \ {0} /\ MaxGets \in Nat
  /\ Mpds \subseteq Nat

VARIABLES
  setting,         \* what the program runs with
  now,             \* time(nullptr)
  received,        \* how many announcements have come
  plan,            \* what is left to do of the one being handled
  primary,         \* _hls_primary_playlist.streams(), or _dash_manifest
  content_streams, \* _content_streams: path -> attributes and session of the stream
  manifest,        \* _manifest
  entry,           \* the cache entry at _manifest_path
  terminated,      \* an exception met no handler
  turned,          \* history: a second began between two looks at the clock
  mpds,            \* history: the MPDs that came by FLUTE
  since,           \* history: those of them since a master was read
  get              \* the GET in progress, and its answer

vars == <<setting, now, received, plan, primary, content_streams, manifest, entry,
          terminated, turned, mpds, since, get>>

HLS == setting.protocol = "HLS"

(* A _manifest: its text, and how often it was assigned, since each        *)
(* assignment may free the characters or write over them.                  *)
NoManifest == [text |-> <<>>, assigned |-> 0]

(* A cache entry: the node of the map, and the item in it; a file has the  *)
(* number of an MPD and the time it was received at.                       *)
NoEntry == [node |-> 0, item |-> "none", mpd |-> 0, at |-> 0]

(* A GET: how far it is; the node its iterator refers to; what buffer()    *)
(* and content_length() returned; whether the manifest or the entry were   *)
(* changed since it began (history); and the answer.                       *)
NoGet == [pc |-> "idle", number |-> 0, node |-> 0, buffer |-> <<>>, length |-> <<>>,
          disturbed |-> FALSE, answer |-> "none"]

Init ==
  /\ setting \in Settings
  /\ now = 1 /\ received = 0 /\ plan = <<>>
  /\ primary = <<>>
  /\ content_streams = <<>>
  /\ manifest = NoManifest /\ entry = NoEntry
  /\ terminated = FALSE /\ turned = FALSE /\ mpds = {} /\ since = {}
  /\ get = NoGet

------------------------------------------------------------------------------
(* The io_service thread: announcements.                                   *)

MainFree == ~terminated /\ plan = <<>>

(* The parts of the first k announcements, in _items, for a base pattern.  *)
PartsFor(streams, base) ==
  FlattenSeq([i \in DOMAIN streams |->
    IF streams[i].base = base THEN <<streams[i]>> ELSE <<>>])

Parts(k, base) ==
  FlattenSeq([a \in 1 .. k |-> PartsFor(setting.announcements[a].streams, base)])

(* The calls that the handling of the k-th announcement makes: for each    *)
(* one received, read_master_manifest with each master there is, and       *)
(* add_and_start_content_stream with each of its streams, which is made    *)
(* from all the parts there are for it.                                    *)
Plan(k) ==
  LET masters    == [a \in 1 .. k |->
                       [call |-> "master", text |-> setting.announcements[a].master]]
      streams(a) == [i \in DOMAIN setting.announcements[a].streams |->
                       [call  |-> "stream",
                        parts |-> Parts(k, setting.announcements[a].streams[i].base)]]
  IN  FlattenSeq([a \in 1 .. k |-> masters \o streams(a)])

Receive ==
  /\ MainFree /\ received < Len(setting.announcements)
  /\ received' = received + 1
  /\ plan' = Plan(received + 1)
  /\ UNCHANGED <<setting, now, primary, content_streams, manifest, entry, terminated,
                 turned, mpds, since, get>>

(* What the parser throws is no std::exception: no handler up to main's    *)
(* catches it.                                                             *)
Terminate ==
  /\ terminated' = TRUE
  /\ UNCHANGED <<setting, now, received, plan, primary, content_streams, manifest,
                 entry, turned, mpds, since, get>>

Disturb == get' = [get EXCEPT !.disturbed = @ \/ get.pc # "idle"]

(* add_item: another item in the node, or a new node.                      *)
Store(item, mpd, at) ==
  entry' = [node |-> IF entry.item = "none" THEN entry.node + 1 ELSE entry.node,
            item |-> item, mpd |-> mpd, at |-> at]

(* Fault variant: only the first time.                                     *)
CacheManifestOnce ==
  IF manifest.assigned > 0 THEN UNCHANGED entry ELSE Store("playlist", 0, 0)

CacheManifest == Store("playlist", 0, 0)

(* Service::read_master_manifest.                                          *)
ReadMaster ==
  /\ ~terminated /\ plan # <<>> /\ plan[1].call = "master"
  /\ IF HLS /\ Parse(plan[1].text, BasePath).threw
     THEN Terminate
     ELSE /\ primary' = IF HLS THEN Parse(plan[1].text, BasePath).streams ELSE plan[1].text
          /\ CacheManifest
          /\ since' = {}
          /\ Disturb
          /\ plan' = Tail(plan)
          /\ UNCHANGED <<setting, now, received, content_streams, manifest, terminated,
                         turned, mpds>>

(* ContentStream::read_master_manifest with each part: the path of the     *)
(* last that has one stream.  DASH streams have none.                      *)
PlaylistPath(parts) ==
  LET single == SelectSeq(parts, LAMBDA p : Len(Parse(p.text, <<>>).streams) = 1)
  IN  IF HLS /\ single # <<>> THEN Parse(Last(single).text, <<>>).streams[1].uri ELSE <<>>

Unreadable(parts) == HLS /\ \E p \in Range(parts) : Parse(p.text, <<>>).threw

(* Fault variant: the first part that goes with the stream is enough.      *)
SessionOfFirst(parts) == Configure(NoSession, parts[1].sdp)

(* configure_5gbc_delivery_from_sdp with each part.                        *)
SessionOf(parts) == FoldLeft(LAMBDA s, p : Configure(s, p.sdp), NoSession, parts)

(* Fault variant: the first entry of the master that matches counts.       *)
FirstMatch(path) ==
  LET i == SelectInSeq(primary, LAMBDA s : s.uri = path) IN primary[i].attributes

(* What the loop over the master's entries leaves in a stream's members:   *)
(* those of the last one that matches.                                     *)
LastMatch(path) ==
  LET i == SelectLastInSeq(primary, LAMBDA s : s.uri = path) IN primary[i].attributes

(* The constructor initialises neither _bandwidth nor _frame_rate.         *)
Uninitialised(bandwidth, frame_rate) ==
  [Unknown EXCEPT !.bandwidth = bandwidth, !.frame_rate = frame_rate]

Matches(path) == HLS /\ \E i \in DOMAIN primary : primary[i].uri = path

(* Fault variant: the manifest has the streams just started only.          *)
JustStarted(streams, path) == [p \in {path} |-> streams[p]]

(* The streams the manifest is made of: all of the map.                    *)
Listed(streams, path) == streams

(* The manifest recreated: the streams in the order of the map.            *)
Recreated(streams) ==
  LET ordered == FlattenSeq([i \in DOMAIN Paths |->
                   IF Paths[i] \in DOMAIN streams THEN <<Paths[i]>> ELSE <<>>])
  IN  PlaylistText([i \in DOMAIN ordered |->
        Entry(<<"/">> \o ordered[i], streams[ordered[i]].attributes)])

(* A stream is made and reads its parts, and                               *)
(* Service::add_and_start_content_stream, if it has a source.              *)
StartStream(bandwidth, frame_rate) ==
  /\ ~terminated /\ plan # <<>> /\ plan[1].call = "stream"
  /\ IF Unreadable(plan[1].parts)
     THEN Terminate
     ELSE LET path    == PlaylistPath(plan[1].parts)
              session == SessionOf(plan[1].parts)
              started == [attributes |-> IF Matches(path) THEN LastMatch(path)
                                         ELSE Uninitialised(bandwidth, frame_rate),
                          session    |-> session]
          IN  /\ IF setting.broadcast_only /\ ~Available(session)
                 THEN UNCHANGED <<content_streams, manifest, get>>
                 ELSE /\ content_streams' =
                           [p \in DOMAIN content_streams \cup {path} |->
                              IF p = path THEN started ELSE content_streams[p]]
                      /\ manifest' = [text     |-> IF HLS THEN Recreated(Listed(content_streams', path))
                                                   ELSE primary,
                                      assigned |-> manifest.assigned + 1]
                      /\ Disturb
              /\ plan' = Tail(plan)
              /\ UNCHANGED <<setting, now, received, primary, entry, terminated, turned,
                             mpds, since>>

------------------------------------------------------------------------------
(* The io_service thread: MPDs by FLUTE, and the cache's sweep.            *)

(* Fault variant: the representation of the MPD is left alone.             *)
KeepEntry(mpd) == UNCHANGED entry

(* Whether the streams' base path, empty unless they were told, is the     *)
(* service's.                                                              *)
SamePath == BasePath = <<>> \/ setting.legacy

(* An MPD is stored as manifest.mpd under the stream's base path.  If that *)
(* is the service's, it takes the place of the manifest; otherwise it has  *)
(* an entry of its own, which is not the one served.                       *)
CacheMpd(mpd) == IF SamePath THEN Store("file", mpd, now) ELSE UNCHANGED entry

(* ContentStream::flute_file_received for an .mpd, once a stream receives. *)
FluteMpd(mpd) ==
  /\ MainFree /\ ~HLS
  /\ \E p \in DOMAIN content_streams : IsFlute(content_streams[p].session)
  /\ \A m \in mpds : m < mpd
  /\ CacheMpd(mpd)
  /\ mpds' = mpds \cup {mpd} /\ since' = since \cup {mpd}
  /\ IF SamePath THEN Disturb ELSE UNCHANGED get
  /\ UNCHANGED <<setting, now, received, plan, primary, content_streams, manifest,
                 terminated, turned>>

ClockTick ==
  /\ ~terminated /\ now < MaxTime
  /\ now' = now + 1
  /\ UNCHANGED <<setting, received, plan, primary, content_streams, manifest, entry,
                 terminated, turned, mpds, since, get>>

Erase == entry' = [NoEntry EXCEPT !.node = entry.node] /\ Disturb

(* check_file_expiry_and_cache_size at this entry: a playlist's date is    *)
(* always now.  What is dropped for its size is left to CacheManagement.   *)
Expire ==
  /\ MainFree
  /\ entry.item = "file" /\ now - entry.at > MaxFileAge
  /\ Erase
  /\ UNCHANGED <<setting, now, received, plan, primary, content_streams, manifest,
                 terminated, turned, mpds, since>>

(* The same for a playlist when a second begins between time(nullptr) and  *)
(* the one in received_at(): the age is -1, as an unsigned long.           *)
ExpireAtTurn ==
  /\ MainFree /\ now < MaxTime
  /\ entry.item = "playlist"
  /\ now' = now + 1
  /\ Erase
  /\ turned' = TRUE
  /\ UNCHANGED <<setting, received, plan, primary, content_streams, manifest,
                 terminated, mpds, since>>

------------------------------------------------------------------------------
(* A GET of the manifest, on a pool thread.                                *)

(* Fault variant: the callback returns a copy.                             *)
CopiedContent == [kind |-> get.pc, text |-> manifest.text, stamp |-> manifest.assigned]

(* What buffer() and content_length() refer to.                            *)
Content ==
  IF entry.item = "file" THEN [kind |-> "file", text |-> <<entry.mpd>>, stamp |-> entry.node]
  ELSE [kind |-> "playlist", text |-> manifest.text, stamp |-> manifest.assigned]

GetStep(from) == ~terminated /\ get.pc = from

UnchangedByGet ==
  UNCHANGED <<setting, now, received, plan, primary, content_streams, manifest, entry,
              terminated, turned, mpds, since>>

Answer(answer) ==
  get' = [NoGet EXCEPT !.number = get.number, !.disturbed = get.disturbed,
                       !.answer = answer]

(* The iterator's node is gone.                                            *)
Dangles == entry.item = "none" \/ entry.node # get.node

(* item_map().find(path).                                                  *)
Find ==
  /\ GetStep("idle") /\ get.number < MaxGets
  /\ IF entry.item = "none"
     THEN get' = [NoGet EXCEPT !.number = get.number + 1, !.answer = "404"]
     ELSE get' = [NoGet EXCEPT !.pc = "found", !.number = get.number + 1,
                               !.node = entry.node]
  /\ UnchangedByGet

(* buffer() and content_length(), the arguments of open_istream, in the    *)
(* order the compiler chooses.  (That buffer() is not null is asked before *)
(* them; the buffers here never are.)                                      *)
TakeFirst(what) ==
  /\ GetStep("found")
  /\ IF Dangles THEN Answer("dangling")
     ELSE get' = [get EXCEPT !.pc = "half", ![what] = <<Content>>]
  /\ UnchangedByGet

TakeSecond ==
  /\ GetStep("half")
  /\ IF Dangles THEN Answer("dangling")
     ELSE get' = [get EXCEPT !.pc = "sending",
                             !.buffer = IF @ = <<>> THEN <<Content>> ELSE @,
                             !.length = IF @ = <<>> THEN <<Content>> ELSE @]
  /\ UnchangedByGet

(* The library reads the characters: they are the answer if they are still *)
(* there and as many as were counted.                                      *)
Sent ==
  /\ GetStep("sending")
  /\ IF get.buffer = get.length /\ get.buffer[1] = Content /\ ~Dangles
     THEN Answer("200")
     ELSE Answer("torn")
  /\ UnchangedByGet

------------------------------------------------------------------------------
Next ==
  \/ Receive
  \/ ReadMaster
  \/ \E bandwidth, frame_rate \in Leftover : StartStream(bandwidth, frame_rate)
  \/ \E mpd \in Mpds : FluteMpd(mpd)
  \/ ClockTick \/ Expire \/ ExpireAtTurn
  \/ Find \/ TakeFirst("buffer") \/ TakeFirst("length") \/ TakeSecond \/ Sent

Spec == Init /\ [][Next]_vars

------------------------------------------------------------------------------
(* Properties.                                                             *)

Attributes == [resolution : Seq(STRING), codecs : Seq(STRING), bandwidth : Numeral,
               frame_rate : Numeral]

(* Type invariant.                                                         *)
TypeOK ==
  /\ setting \in Settings
  /\ now \in 1 .. MaxTime
  /\ received \in 0 .. Len(setting.announcements)
  /\ HLS => \A i \in DOMAIN primary : primary[i].attributes \in Attributes
  /\ DOMAIN content_streams \subseteq Range(Paths)
  /\ \A p \in DOMAIN content_streams : content_streams[p].attributes \in Attributes
  /\ manifest.assigned \in Nat
  /\ entry.item \in {"none", "playlist", "file"} /\ entry.node \in Nat
  /\ terminated \in BOOLEAN /\ turned \in BOOLEAN
  /\ since \subseteq mpds /\ mpds \subseteq Mpds
  /\ get.pc \in {"idle", "found", "half", "sending"}
  /\ get.answer \in {"none", "200", "404", "torn", "dangling"}

(* The streams that a client finds in the manifest, parsing it the way     *)
(* this code parses playlists.                                             *)
Shown == Parse(manifest.text, <<>>)

(* The parser takes back what to_string wrote, quotes, commas and all: one *)
(* entry for each stream, with its attributes; all but the bandwidth,      *)
(* which is written as BANDWITH (HlsPrimaryPlaylist.cpp:123).              *)
ManifestReadsBack ==
  HLS /\ content_streams # <<>> =>
    /\ ~Shown.threw
    /\ Len(Shown.streams) = Cardinality(DOMAIN content_streams)
    /\ \A p \in DOMAIN content_streams :
         LET a == content_streams[p].attributes
         IN  Entry(<<"/">> \o p, [a EXCEPT !.bandwidth = "0", !.frame_rate = Fixed[@]])
               \in Range(Shown.streams)

(* A stream that has been announced stays in the manifest, whatever other  *)
(* announcements come: as long as its own playlist names one path, by      *)
(* which streams are told apart, and it has a source.                      *)
AnnouncedIsListed ==
  HLS /\ MainFree =>
    \A a \in 1 .. received : \A s \in Range(setting.announcements[a].streams) :
      LET parts == Parts(a, s.base)
      IN  PlaylistPath(parts) # <<>>
            /\ (setting.broadcast_only => Available(SessionOf(parts))) =>
          \E t \in Range(Shown.streams) : t.uri = <<"/">> \o PlaylistPath(parts)

(* A stream receives where its newest SDP says, if that says everything:   *)
(* nothing of an earlier one is left, although all of them are read again. *)
(* (What the newest does not say, an earlier one still does.)  Streams     *)
(* with the same path are one.                                             *)
NewestSdpRuns ==
  MainFree =>
    \A a \in 1 .. received : \A s \in Range(setting.announcements[a].streams) :
      LET path     == PlaylistPath(Parts(received, s.base))
          newest   == Configure(NoSession, Last(Parts(received, s.base)).sdp)
          complete == \A f \in DOMAIN NoSession : newest[f] # NoSession[f]
          alone    == \A b \in 1 .. received : \A t \in Range(setting.announcements[b].streams) :
                        PlaylistPath(Parts(received, t.base)) = path => t.base = s.base
      IN  complete /\ alone => content_streams[path].session = newest

(* All streams, those of earlier announcements too, have the attributes of *)
(* the newest master, of its last entry that matches; one that it does not *)
(* list has what uninitialised members held.                               *)
AttributesOfNewestMaster ==
  HLS /\ MainFree /\ received > 0 =>
    LET entries == Parse(setting.announcements[received].master, BasePath).streams
        At(p)   == {i \in DOMAIN entries : entries[i].uri = p}
    IN  \A p \in DOMAIN content_streams :
          IF At(p) = {} THEN content_streams[p].attributes.resolution = <<>>
          ELSE content_streams[p].attributes = entries[Max(At(p))].attributes

(* What a DASH client is given is the newest MPD: that of the newest       *)
(* announcement, or one that came by FLUTE since, if it is stored at the   *)
(* manifest's path (ContentStream.cpp:110).  (An announcement that is      *)
(* repeated brings its own MPD back.)                                      *)
NewestMpdServed ==
  ~HLS /\ MainFree /\ entry.item # "none" =>
    Content.text = IF SamePath /\ since # {} THEN <<Max(since)>>
                   ELSE setting.announcements[received].master

(* The manifest leaves the cache only when it is an MPD that came by FLUTE *)
(* and was stored at its path, and has become too old; or by the second    *)
(* that turns between two looks at the clock.                              *)
ManifestStays ==
  received > 0 /\ MainFree /\ entry.item = "none" => turned \/ (SamePath /\ since # {})

(* The answer is a whole manifest, unless the manifest or its entry was    *)
(* changed while the GET was going on.                                     *)
TornNeedsChange == get.answer \in {"torn", "dangling"} => get.disturbed

(* The process survives the texts it parses, unless one has no first line  *)
(* or two versions.                                                        *)
TerminatesForMalformed ==
  terminated =>
    \E text \in IF plan[1].call = "master" THEN {plan[1].text}
                 ELSE {p.text : p \in Range(plan[1].parts)} :
      \/ text[1].tag # "#EXTM3U"
      \/ \E i, j \in DOMAIN text : i < j /\ {text[i].tag, text[j].tag} = {"#EXT-X-VERSION"}
================================================================================
