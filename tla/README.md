# TLA+ model of rt-mbms-mw

rt-mbms-mw is the middleware of a 5G broadcast (MBMS) receiver. It finds the
service announcement through the modem, receives the announced services'
files by FLUTE over multicast, fetches what is missing from a CDN, keeps
everything in a cache, and serves it to players over HTTP. This directory
models its control: who changes which state, in which order, on which thread,
and what must nevertheless hold.

Line references are to `src/src/` unless they say otherwise.

## 1. The system

### Threads

| thread | runs | 
| --- | --- |
| main (`io.run()`, main.cpp:157) | both Middleware timers, the seamless streams' timers, the FLUTE receivers' completion callbacks (one socket, one io_service), parsing of announcements |
| pool (cpprestsdk) | `RestHandler::get` / `put`, the continuations of every CDN request |
| one per FLUTE stream | creates the `LibFlute::Receiver`, then returns (ContentStream.cpp:126) |

Only `SeamlessContentStream::_segments` has a mutex. The cache, the services
map, the announcement's items, a stream's playlist text, a segment's files are
shared by main and pool without one.

### Components

| component | state | operations | what makes it correct |
| --- | --- | --- | --- |
| Middleware, main | timers, `_services`, `_service_announcement` | construction and destruction of the members, `tick_handler`, `control_tick_handler`, `_handle_local_service_announcement` | the announcement is received once the modem has it; the cache is swept for ever |
| RpRestClient, ControlSystemRestClient | - | `getMchInfo`, `getStatus`, `sendHello`: each blocks main | an error in them is no worse than a lost tick |
| ServiceAnnouncement | `_items` | `start_flute_receiver`, `parse_bootstrap`, the three `_setupBy...` | after any announcements each service runs the streams last described |
| Service | `_content_streams`, `_manifest`, the parsed master | `add_and_start_content_stream`, `read_master_manifest` | a stream replaces one with its path, nothing refers to what was replaced; the manifest has every stream, as the newest master describes it, and stays in the cache |
| ContentStream | `_flute_thread`, `_flute_receiver` | `start`, destructor, `flute_file_received` | every thread is started once and joined |
| SeamlessContentStream | `_segments`, `_flute_files`, `_playlist`, timer | `flute_file_received`, `handle_playlist`, `tick_handler`, `set_cdn_endpoint` | the playlist is a window that slides forward; what it lists can be fetched |
| Segment, CdnClient, CdnFile | `_flute_file`, `_cdn_file` | `buffer`, `fetch_from_cdn`, `get` | a GET gets its answer in the end and never sends what was destroyed (neither holds without conditions, see `SegmentDelivery`) |
| CacheManagement, CacheItems | `_cache_items` | `add_item`, `remove_item`, `check_file_expiry_and_cache_size` | what is too old or too much goes, nothing else does |
| RestHandler | - | `get`, `put` | answers from the cache, whole; lists files, items and services that change meanwhile |
| HlsMediaPlaylist, HlsPrimaryPlaylist, DashManifest | a parsed playlist | the constructors, `to_string` | numbers and attributes are those of the text; what is rendered is read back; an exception only for a malformed text |

They interact by plain calls on the main thread; by callbacks that hold a plain
`this` (cached manifests and playlists, timers, CDN continuations, FLUTE
completion); and through the cache, which every one of them changes.

### What is hard

* **Interleaving.** The sweep's two loops with a worker's `remove_item` between
  them; a GET that looks at a cache entry four times, or goes through a container
  entry by entry; two fetches of one segment.
* **Ordering.** Two sources for the same playlist, each late and out of order;
  a file after or before the playlist that lists it.
* **Lifetime.** An announcement replaces streams whose timer, continuation,
  cached playlist or starting thread is still there. The listener is open before
  the members its handlers use exist, and after they have gone.
* **Partial failure.** An exception in the middle of setting a service up; an
  answer of the modem, or a playlist, that ends the process.
* **Numeric edges.** The truncation count, unsigned ages and a clock that is read
  twice, sizes in 32 bits, sequence numbers in an int and in a window with gaps.
* **Waiting.** A GET blocks a pool thread for headers the same pool must handle; if
  every thread of the pool does, none is ever answered.

`PROJECT.json` lists each at its line under "hazards", with the properties that
cover it or the reason why none does.

## 2. The modules

| module | models | composed with |
| --- | --- | --- |
| `LiveWindow` | abstract: what a player may rely on in a seamless stream's playlist | implemented by `SeamlessContentStream` |
| `CachePolicy` | the eviction policy as pure operators | used by the next two |
| `SeamlessContentStream` | one seamless stream with its two sources, its part of the cache, the sweep as one step | `LiveWindow`, `CachePolicy` |
| `CacheManagement` | the cache and the sweep loop by loop, all users of the cache | `CachePolicy` |
| `SegmentDelivery` | GETs of one segment, CDN fetches, the thread pool | - |
| `ServiceAnnouncement` | announcements, services, streams, threads, owners | - |
| `HlsMediaPlaylist` | a media playlist parsed line by line, rendered, parsed again | - |
| `HlsPrimaryPlaylist` | primary playlists as operators: `Parse`, `PlaylistText` | used by `ServiceManifest` |
| `SessionDescription` | what a stream takes from an SDP, as operators: `Configure` | used by the next |
| `ServiceManifest` | the manifest and the streams of one service: announcements, MPDs by FLUTE, sweep, a GET | `HlsPrimaryPlaylist`, `SessionDescription` |
| `Middleware` | process, members, timers, modem, control system, GETs of `mw-api` | - |
| `MC...` | instances for TLC | |
| `...Proofs` | theorems about the module named, proved with TLAPS | |
| `SharedLemmas` | what the proofs need of numbers, concatenations, folds and sums | |

Definitions named `Fault variant` in the comment before them are not used by
any specification: each is a plausible mistake in the code, put in the place of
the definition it stands before to see that a property notices it ("mutants" in
`PROJECT.json`).

### SeamlessContentStream

`published` is the encoder's progress and the clock. `segments`, `flute_files`,
`playlist` are `_segments`, `_flute_files`, `_playlist`; `source` and
`received_at` what a `Segment` object answers; `cache` the stream's entries in
`_cache_items`. `handler` is the call of `handle_playlist` that holds
`_segments_mutex`.

| code | actions |
| --- | --- |
| `flute_file_received` (cpp:44) | `FluteSegment`, `FlutePlaylist` |
| `tick_handler` (149), its continuation (155) | `TickHandler`, `CdnPlaylist` |
| `handle_playlist` (91): up to the mutex, a turn of the merge loop, a turn of the trimming loop, the rest | `StartHandler`, `MergeNew` / `MergeKnown`, `TrimOldest`, `PublishPlaylist` |
| `Segment::buffer`, `fetch_from_cdn` | `RestFetch`, `FetchDone`, `FetchFail` |
| `CacheManagement::check_file_expiry_and_cache_size` | `CheckFileExpiry` |

The text of a playlist is the set of entries it lists, a file is the time it
came. A playlist numbers its entries from its `EXT-X-MEDIA-SEQUENCE`
(HlsMediaPlaylist.cpp:68), so those an encoder publishes are a constant,
`FirstOf`, which is assumed to be numbered without gaps.
An answer of the CDN is the playlist of the moment the CDN took it; `cdn_answers`
being a set, any of them may be handled next, and of identical ones that are
outstanding at the same time one is.

### CacheManagement

An item is its kind, the time it came and its length; a segment that is made for a
file has the file's time. The first loop is one step: main does not give way in it,
what it does to one entry does not depend on another, and what a worker changes
meanwhile it sees or not, as if before or after, unless the worker removes the very
entry its iterator stands on, which is `ScanRaced`. The clock may move on between
any two of its looks: `SweepScan(turn)`, `turn` being the look before which a second
began.
A playlist takes two looks, `time(nullptr)` in the loop and again in
`received_at()`. Of the second loop each turn is a step, because it looks up
again what the first one noted. `age` is computed modulo `ULONG`, sums modulo
`UINT`. With `setting.pool_threads` (seamless switching) workers add, fill and
remove segments at any moment. `before` (kept only without workers, where a property
asks for it) and `raced` are history for the properties. `setting`, here and in the modules below, never changes: it is what
one process is configured with, and lets one run go through several
configurations.

### SegmentDelivery

The stages of a request are the points of `RestHandler::get` (180-197) between
which another thread can act: `Find`, then one action for each use of the iterator,
`CheckBuffer` (186), `Label` (188), `Point` and `Reply200` (189: `buffer()`,
`content_length()`). A stage that blocks or computes occupies a thread of the pool.
`HeadersOK` and `HeadersFail` are the end of the wait, after which `buffer()` goes on
in a segment that may have been trimmed. `PoolExhausted` says that every thread is
waiting for headers: a deadlock of the code, since the pool is all there is to handle
them, and reached in the run. `freed` and `dangling` record the use of something destroyed; the
model goes on after it, as the program may. `Expire` and `Trim` are what the
main thread does to the segment (`Evictions`).

### ServiceAnnouncement

An announcement file is the sequence of user service descriptions (USDs) it
yields; MIME and XML are parsed away. `_items` is never cleared and every file
received makes all of it be parsed again, so `pending` starts as all of `items`.
The setup of a USD is a list of steps (`Plan`): `OneByOne` for the default format,
`ByMethod` for the two 5G-MAG ones, which goes through the USD's `methods`; they
differ in when a stream is created, started and let go. `service`, `setup`, `made`
are the locals of the running setup. `Held` is what `shared_ptr`s keep alive; `Release` destroys
the rest, and notes a thread that is not joined (ContentStream.cpp:34) and a
timer that is still to fire. A stream's thread gets its receiver (`ThreadReady`)
whenever the scheduler lets it. `std::terminate` is therefore reachable, and by
nothing more than a second announcement: the first is handled again before it, at
once (`earlier` marks the streams made before the bundle in hand), and replaces
streams just started. `cached` has, for each path, who renders it. `setting`
has the format, whether switching is seamless, and what may arrive.

### HlsMediaPlaylist

A line is its kind and the number after its last colon, a URI a number to which
slashes may have been prefixed. The constructor's loop (HlsMediaPlaylist.cpp:32-70)
is an action per kind of line (`FirstLine`, `VersionLine`, `TargetDurationLine`,
`MediaSequenceLine`, `ExtInfLine`, `IgnoredLine`, `UriLine`, `EndOfText`). The
running number `seq_nr` is an int and wraps (`AsInt`); the duration `extinf` is
not reset after a segment; `_targetduration` starts with whatever the memory holds
(`Leftover`). `Render` is `to_string` (cpp:74-90) of any of the parsed segments in
the order of their numbers (`Windows`), which is what `handle_playlist` renders; a
reader then parses the text with the same actions. Durations are written with six
significant digits (`Rounded`).

### HlsPrimaryPlaylist

A line is its kind and its rest as a sequence of tokens, of which `:` `=` `,` and
`"` are those the parser looks at. `ParseParameters` is `parse_parameters`
character by character over tokens (the `in_quotes`, `in_key` flags, the `=` it
drops wherever it stands), `Parse` the constructor's loop as a fold over the
lines, `PlaylistText` `to_string`, with `BANDWITH` as it writes it. `Fixed` is
what `setprecision(3)` leaves of a number.

### SessionDescription

A line of an SDP is its letter and the words of its value; `ReadConnection`,
`ReadMedia`, `ReadAttribute` are the three regular expressions of
`configure_5gbc_delivery_from_sdp` (ContentStream.cpp:52-84), with the greedy first
group of the one for `m=`, and `Configure` its loop. The members it sets are not
reset first, which is why `Configure` takes the session it adds to. A `flute-tsi`
that `stoul` cannot read throws, which is what `malformed` stands for in
`ServiceAnnouncement`.

### ServiceManifest

| code | actions |
| --- | --- |
| `parse_bootstrap` over `_items`: its calls of `Service`, in their order | `Receive` makes the `Plan` |
| `Service::read_master_manifest` (Service.cpp:28) | `ReadMaster`, or `Terminate` if the parser throws |
| the loops over `_items` for one stream (ServiceAnnouncement.cpp:514-524), `ContentStream::read_master_manifest`, `Service::add_and_start_content_stream` | `StartStream` |
| `ContentStream::flute_file_received` for an MPD (cpp:107-111) | `FluteMpd`, `CacheMpd` |
| the sweep at the manifest's entry | `Expire`, `ExpireAtTurn` (a second begins between the two looks) |
| `RestHandler::get` (180-197): `find`; `buffer()` and `content_length()` in either order; the reply | `Find`, `TakeFirst`, `TakeSecond`, `Sent` |

Every announcement handles all of those before it again, and each time reads the
masters of all of them: `Plan` is that list of calls. A stream is made from all
items that go with its base pattern (`Parts`), those of older announcements first:
the last playlist with one entry gives its path, the SDPs its `session` field by
field. `content_streams` are attributes and session by playlist path, `_bandwidth` and `_frame_rate` being uninitialised
memory until a master names the stream. `manifest` counts its assignments, since
each may free or overwrite the characters a reply is still to send. `entry` has
the node of the map and what is in it: assigning an item keeps the node, erasing
and adding does not. An MPD by FLUTE is stored as `manifest.mpd` under the stream's
base path, which only the legacy format sets (ServiceAnnouncement.cpp:449): there, or
if the service's own path is empty, that is the manifest's entry (`SamePath`); in the
default and bc_uc formats it is another one, and the manifest is not touched, in spite
of the comment at ContentStream.cpp:107. `since`, `mpds`, `turned` and `get.disturbed` are history.

### Middleware

`process` goes from down through construction, member by member (`Construct`),
to up; an exception leads to destruction in the opposite order (`Destroy`) and
`Exit`. `Members` are those that a GET needs, in the order of Middleware.h:47-60,
and `built` is how many exist. The listener is open while `_api` exists; its
destructor waits for the GETs in progress.

`main` is the answer the only thread waits for. An unreadable answer of the modem
leaves `io.run()` (`TickThrows`), and `Launch` is systemd's `Restart=always`.
`announcement` is where `_service_announcement` listens, or "deaf" if it exists
and listens nowhere.

A GET of `mw-api/files` goes through the cache's map entry by entry (`GetBegins`,
`ListFile`, `GetEnds`) while `FileAdded`, `FileRemoved` and the sweep change it. There
is no lock: a change of the map (`SetCache`), or of an entry's text or content
(`EntryWritten`), just as a turn of the loop reads it is a data race, of which
anything may come, so each change may or may not clash with the turn. The entries
at `Playlist` are rendered by a stream or service, which `content_length()` (124)
calls: those whose owner a later announcement or the destructor has destroyed are
`orphans`. A GET of items or services is a single turn that `AnnouncementHandled` may
invalidate. One of `mw-api` with nothing after it reads a second part of the path
that is not there (93: `GetAlone`). Undefined behaviour ends the process
(`GetCrashes`) or leaves something that is not followed (`GetGoesOn`). `get` notes
what happened since it began: `stayed`, `seen`, `lost`, `raced`, `handled`,
`lifetime`.

## 3. The runs

Passing:

| run | question | bounds, and why they do |
| --- | --- | --- |
| `SeamlessWindow` | Does the window only slide forward, never losing its size or going back in its media sequence, whatever the two sources send, when an encoder restarts its numbering or leaves a gap in it? Does the number players give a segment never fall? Is the cache just the window, as long as nothing expires? | 4 segments, numbered 2 3, 1 2, of which the later playlists list one or two, so that missing one leaves a gap; window of 2: every playlist can be late by two, be merged while another waits, and bring back what was trimmed. No sweep effects (ages and sizes are never reached). |
| `SeamlessCache` | Does the stream implement `LiveWindow`, and can what it lists be fetched, with the sweep and GETs in between? | 3 segments, playlists of up to 3 of which the CDN's are truncated, window of 2, contents older than one segment duration or more than one go: each segment can be received, listed, expired and trimmed. |
| `SeamlessLive` | Does the CDN alone bring the playlist to the live edge? | 3 segments, truncation by 1. Fairness below. |
| `CacheSweep` | Do two loops come to the policy, and does what is stale go? What does a worker's removal in or between the loops do? | Alone: 3 locations (the least with a tie and a third entry), ages to 2 with a limit of 1, a clock that moves on inside the sweep and is set back at will. With workers: 2 locations, one removed while the other is visited. |
| `SegmentDelivery` | Can a GET use what is gone? Can it wait for ever for another reason than that all threads wait? | 2 clients, one of which may fetch again or evict under the other; a pool of 2, so that both threads may wait at once, which no larger pool with fewer clients could; 3 bodies. |
| `AnnounceUpdates` | Is the newest description what runs, with nothing left behind? When is a thread left unjoined, or a handler run late? | Threads as slow as they may be throughout. Default format: 3 files of 4 that add, replace and change streams or fail half-way, 2 services; without seamless switching, 2 files with a stream that has no source. bc_uc format: 2 files of the 4, or 1 of 3 with one or two delivery methods. |
| `HlsMedia` | Does the loop find the segments the text has? Is what is rendered read back, and what throws? | Every text of up to 4 lines of 11 kinds after the first line, and lists of 6 numbers, durations and URIs; ints from -4 to 3, so that numbers wrap, and windows of up to 6 segments with gaps. |
| `Manifest` | Is the manifest what the announcements say, and is it there when asked for? Does each stream receive where its newest SDP says? | 11 settings of up to 2 announcements: masters that add, repeat, reorder and leave out streams, malformed ones, SDPs that move a stream or say only a part, a DASH service in the legacy and in another format; 2 MPDs by FLUTE, a clock to 4 with a limit of 1, 2 GETs. Two announcements are enough for the second to handle the first again. |
| `MiddlewareLive` | Is the announcement received and the cache swept in the end? What do GETs meet, from the first member's construction to the last one's destruction? | 6 answers: none, good ones of one destination, one without, damaged ones; 2 locations, a file's and a playlist's, so that an entry at and one after the iterator can go, be written or lose its owner; one GET at a time. |

`CHECK_DEADLOCK FALSE` stands where a bound stops the model: the encoder, the
clock, the files or the CDN bodies are used up, or the text has been read.
`MiddlewareLive` has no such bound and is checked for deadlock.

What they show:

* The two-threaded merge is a sliding window in every interleaving; old playlists
  are harmless. Where the window has a gap players know the segments after it by
  too low a number; but the number never falls.
* The sweep, run alone, is exactly the policy even across clock changes, but for
  a playlist that is lost when a second begins between its two looks at the clock.
  The same takes the manifest of a service out of the cache, until an announcement
  puts it back; an MPD that came by FLUTE expires as any file does.
* The sweep dereferences null, or a lost iterator, only if a worker removed an entry
  in or between its loops, which with seamless switching can happen; a GET uses
  something destroyed only after an eviction or a second fetch, which can happen too.
* A GET that waits for headers stops waiting, and asking again brings the segment,
  unless as many GETs as the pool has threads come to wait at once. Then all wait
  for ever: the deadlock is in the state space, and `WaitsEnd` without its last
  disjunct fails.
* A stream's destructor leaves a thread unjoined, which ends the process, only if
  the thread's stream is older than the bundle in hand or that bundle loses one of
  its own. The first is no rare case: any second announcement can bring it about.
* Re-parsing all items never brings an old description back: each stream ends as
  the newest USD has it, with the attributes of the newest master's last entry
  that matches, and receiving where its newest complete SDP says; one that this
  master does not list keeps uninitialised numbers, and what the newest SDP does
  not say is still as an older one said it.
* A manifest reads back with all streams and attributes except the bandwidth
  (HlsPrimaryPlaylist.cpp:123 writes `BANDWITH`); so does a media playlist, with
  six digits of each duration. Parsers throw only for a text without its first
  line or with two versions. (What they throw nobody catches.)
* A GET of a manifest is answered torn only if it changed meanwhile. A GET of
  `mw-api` is undefined for one of five causes, all of which occur: nothing follows
  `mw-api`; members come and go; an entry goes, or its owner, that is yet to be
  listed; what a turn of the loop reads is written in that moment; an announcement
  is handled under items or services. A list of files that is completed has what
  stayed all the while.
* A DASH client gets the newest MPD that came by FLUTE only in the legacy format (or
  with an empty path); in the others it gets the announcement's.

Runs that find a disagreement between the code and what the repository says of it:

| run | what happens | said where |
| --- | --- | --- |
| `SeamlessLateFile` | A FLUTE file that completes after its segment was listed waits in `_flute_files`, where only the creation of a segment looks. It is never served and never freed. | src/README.md:76 "FLUTE decoded and the files are stored in the cache" |
| `AnnounceWithdrawn` | A stream announced anew without a CDN endpoint replaces the old one, whose cached playlist keeps calling it. | src/README.md:16 "each service is available like an CDN publishing point including manifest and segment files" |
| `AnnounceMethods` | With two delivery methods the first one's streams are started again, which assigns to a joinable `std::thread`. | ServiceAnnouncement.cpp:424 "Create content stream objects for each broadcastAppService::basePattern element" |

Further observations, each at its line under "hazards": two entries more of a CDN
playlist are merged than the truncation allows (SeamlessContentStream.cpp:125); a listed
segment may expire (CacheManagement.cpp:36); sizes from 4096 MB on wrap
(CacheManagement.cpp:25); an announcement that moves is not followed
(Middleware.cpp:100); a service without a usable stream is made anew each time
(ServiceAnnouncement.cpp:225).

### Fairness

* `SeamlessLive`: a call of `handle_playlist` ends; the stream's timer keeps
  firing, and its handler gets its turn in the io_service's queue (strong, since
  FLUTE handlers come in between); each answer's continuation gets the mutex in
  the end (strong, for the same reason); the encoder goes on. Nothing is assumed
  of FLUTE or clients.
* `CacheSweep`: Middleware's timer starts the sweep again and again and the sweep
  goes on (weak fairness of the sweep as a whole). Nothing of the clock.
* `SegmentDelivery`: handlers run; the CDN answers; of infinitely many requests
  some get status 200; clients ask again after 404. What needs a thread of the pool
  gets it only if threads become free again and again (strong): nothing is assumed
  that would end the wait when the pool is exhausted.
* `MiddlewareLive`: timers expire; a queued handler gets its turn (strong, since
  the other timer's handlers come in between); the HTTP client gives up on an answer after its timeout;
  construction and destruction go on; a GET's loop goes on and ends (weak); the
  listener, which takes no more requests while it is destroyed, gets to its
  destructor's end (strong, since the GETs in progress hold it up); systemd
  restarts, its start limit left out. `AnnouncementReceived` and `SweepsGoOn` are about
  behaviours in which GETs stop being undefined in the end (`Defined`): undefined
  behaviour that ends the process again and again, as a GET of `mw-api` alone may,
  keeps it from anything.

`HlsMedia` and `Manifest` check safety only.

### Assumptions of the models

* In the default format with seamless switching every stream has a source: the base
  pattern of one without a broadcast is taken for a CDN endpoint
  (ServiceAnnouncement.cpp:529-532), and `ConstantsAssumption` says so.
* In `ServiceAnnouncement` the sweep does not remove manifests and playlists: their
  `received_at` is always now (CacheItems.h). One that alone exceeds
  `max_total_size` would be (`CacheManagement`), and so is one visited when a
  second begins (`CacheManagement`, `ServiceManifest`).
* In `ServiceManifest` an entry goes by age only; what goes for its size is
  `CacheManagement`'s. MPDs arrive in the order they were sent, and only once a
  stream runs. Handling an announcement is not interleaved with the sweep, which
  runs on the same thread, but is with a GET.
* In `HlsMediaPlaylist` the window to be rendered is of increasing numbers, which
  is how `_segments`, a `std::map`, keeps it.
* A number in a playlist is no punctuation (`PunctuationAssumption`), and `Paths` has
  each path once, in the order in which the map `_content_streams` has them.
* A FLUTE file is complete when it is reported, may be late, out of order,
  repeated, or never come.

## 4. The proofs

All with the constants' assumptions (`ConstantsAssumption` of each module) only,
unless stated. A theorem that states a property of a run names it as its
conclusion.

| theorem | of | says |
| --- | --- | --- |
| `TypeCorrect` | SeamlessContentStream, CacheManagement, SegmentDelivery, HlsMediaPlaylist, Middleware, ServiceAnnouncement; ServiceManifest if `Paths` has all paths (`PathsKnown`) | `[]TypeOK` |
| `CacheHoldsNoOrphan` | SeamlessContentStream | `[]NoOrphan` |
| `RefinesLiveWindow` | SeamlessContentStream | `Spec => Live!Spec` |
| `ListedStaysFetchable` | SeamlessContentStream | `[]ListedIsFetchable`, if no two segments share a URI (`DistinctUris`) |
| `ListedCachedUntilSwept` | SeamlessContentStream | `[]ListedIsCached` in behaviours whose sweeps take nothing (`SweepTakesNothing`), if `DistinctUris` |
| `WindowSlidesForward` | SeamlessContentStream | `SlidesForward`: what an update drops from the playlist is older than all it keeps |
| `MediaSequenceStays` | SeamlessContentStream | `MediaSequenceNeverGoesBack`: of a full window; while it fills, the number may fall |
| `NumbersNeverFall` | SeamlessContentStream | `ShownNumbersNeverFall`: from a full window on |
| `CrashOnlyByRace` | CacheManagement | `[]CrashNeedsRace` |
| `SweepIsPolicy` | CacheManagement | `SweepFollowsPolicy`, if an unsigned holds all sizes (`NoWrap`) |
| `DanglingOnlyByEvictionOrRefetch` | SegmentDelivery | `[]DanglingNeedsEvictionOrRefetch` |
| `WrittenIsReadBack` | HlsMediaPlaylist | `[]ReadBack` |
| `ThrowsExactlyForMalformed` | HlsMediaPlaylist | `[]ThrowsForMalformed`, if no version reads as -1 (`VersionsReadable`) |
| `SegmentsFoundAsWritten` | HlsMediaPlaylist | `[]SegmentsAsWritten`, if no text has a number below the least int (`NumbersReadable`) |
| `UndefinedOnlyForCause` | Middleware | `[]UndefinedNeedsCause` |
| `ListsWhatStayed` | Middleware | `ListsWhatStays` |
| `OnlyCausedLate` | ServiceAnnouncement | `LateHandlerNeedsCause` |
| `UnjoinedOnlyForCause` | ServiceAnnouncement | `UnjoinedOnlyIfOvertaken` |
| `StartedOnce` | ServiceAnnouncement | `[]OneStartPerPattern`, if `FluteLast` |
| `NewestWinsIfFaithful` | ServiceAnnouncement | `[]NewestWins`, if `Faithful` |
| `OwnersAliveIfSteady` | ServiceAnnouncement | `[]OwnersAlive`, if `Steady` |
| `LostOnlyAsMpdOrAtTurn` | ServiceManifest | `[]ManifestStays` |
| `WholeUnlessDisturbed` | ServiceManifest | `[]TornNeedsChange` |
| `NewestMpdIsServed` | ServiceManifest | `[]NewestMpdServed`, if each DASH announcement has a stream that starts (`EachHasSource`) |
| `NewestSdpIsRun` | ServiceManifest | `[]NewestSdpRuns` |
| `AllHaveNewestAttributes` | ServiceManifest | `[]AttributesOfNewestMaster`, if a stream with a source keeps it and its path when announcements follow (`StreamsStay`) |
| `AnnouncedStaysListed` | ServiceManifest | `[]AnnouncedIsListed`, if `PathsKnown` |
| `ManifestIsReadBack` | ServiceManifest | `[]ManifestReadsBack`, if `PathsKnown` and no master gives a resolution with a comma (`PlainResolutions`) |
| `OnlyMalformedTerminates` | ServiceManifest | `[]TerminatesForMalformed` |

**Seamless stream.** `WindowInv` is `TypeOK`, `Placed` (a segment in the window is
under its own sequence number), `NoOrphan`, and `PlaylistTrails`: outside a
trimming, what the playlist lists is still in the window at the same place; in
one, what may be missing from the window is older than all that is left, and the
window has at least `SegmentsToKeep` segments. `NoOrphan` alone is not inductive:
that trimming a segment removes the right cache entry needs `Placed`. The
refinement follows at `PublishPlaylist`: by `PlaylistTrails` the window is the
newest `SegmentsToKeep` of it and the old playlist together (`LiveWindow`'s
`Newest`), by the cardinality of the sets above a sequence number; every other
step leaves the playlist alone. For `ListedStaysFetchable`, `FetchInv` says that
a segment without content has no date, that an undated segment of the window is
cached (the sweep takes only dated ones), and that with the mutex free the
playlist is the window. It needs `NothingEarly`, that nothing happens before the
first publication: a fetch that ended at time 0 would give content without a date.
`ListedIsCached` needs `CachedInv`, that each segment of the window is cached under
its URI, which only the sweep can break. That is the most that can be proved: a listed
segment does expire (CacheManagement.cpp:36).

**Sliding window.** The three action properties are proved of `LiveWindow`'s
`Update` alone and carried over by the refinement (`LiveSteps`). All is counting
the finite sets above a number: what an update drops is older than what it keeps
(`DroppedIsOlder`), a full window stays full (`KeptAtLeast`, `UpdateStaysFull`),
and a segment's shown number is the least kept number plus those below it
(`ShownAsCounts`), of which no more leave than the least one moves up by
(`UpdateNumbers`).

**Cache.** `SweepInv`: what the second loop has still to visit is cached unless a
worker removed some of it; without workers `RemoveItem` waits for the sweep's end, and
there is no `ScanRaced`.
`Walk` compares a sweep under way with the policy: of the entries that were not too
old, those visited precede those left in the order of age and location; the total
is the sum of their sizes, dropped ones included; and what was dropped is just what
did not fit when its turn came, which the policy says without an order. It holds
without workers, and as long as no sum wraps: `NoWrap` bounds the limit and the
contents, and without it a limit of 4096 MB is one of 0 (CacheManagement.cpp:25).

**Delivery.** `DeliveryInv` is `TypeOK`, `FilesCounted` (bodies and files within the
bound, `_cdn_file` one of those made), and `HeldWhileCached`: while the entry is
cached the segment lives and a GET that has passed the check has a file to reply
from, and the first file is destroyed only by an eviction or for a second one.

**Media playlist.** `ReadBack` speaks of the result; `Reading` says how far a
reader is: the text is what `PlaylistText` writes of the window (`Header`, `Found`),
after `idx` lines as many segments are found as URI lines were passed (`Count`),
the running number is the first plus that many, and the window is `Increasing`, so
that no number read exceeds the segment's own and none wraps. For the exceptions,
`VersionInv` says what the lines read so far are and that `_version` is -1 exactly
if no version was among them; a version that reads as -1 could be followed by
another, which is the theorem's assumption. `AsWritten` says what the loop carries:
the duration is that of the last `#EXTINF` line read, the number the last one given
plus the URI lines since, unless it has left an int, and there is a segment for
each URI line read, at the place that the number of URI lines up to it says. A
number below the least int (`NumbersReadable` excludes it) would come back wrapped
and be counted on from as if it were small.

**Middleware.** `ShapeInv` is `TypeOK`, the shape of a GET, and `AtRest`: while the
process is not up nothing is armed, due or asked. `CauseInv` adds that an iterator
has only left behind what it listed, that one that is no longer valid was raced or
lost an entry not on the list, and that what has no owner is among the lost, unless
members came or went (`LoopInv`). `ListInv` says that of what
stayed all that the iterator has passed is listed, and that the iterator's entry
is still there.

**Announcements.** All is about one inductive invariant, `Whole`, built up in
layers. `Place` says where the main thread is in `_items`: what is pending is a
suffix of them, and the current bundle one of the current file's. `Setup` says
what the steps still to come are, which takes the most work, because `Plan`
concatenates sequences: `DefaultAhead` and `MethodAhead` say what may stand in the
rest of a plan, the lemmas before them that the plan starts so and that taking off
its first step keeps it so. (`FlattenSeq` is recursive over the sequence; its
partial concatenations are a function whose rule is unrolled by `FlattenRule`, and
"for all positions" is got from the least one that fails, `HasLeast`.) `Streams` is
the shape and that the live streams are those held; `Starts`, that an old stream
of a path is replaced only by one that is not running yet. These make `TypeOK`.
`Services` and `OnePath` say that a service is one id's and has one stream per
path, `Origins` that each of its streams is as some handled item has it, and `Reaches`
that what a setup has passed is in the service. From these, `GoneStep`: what a step
destroys is of an earlier bundle, unless the one in hand loses a stream, which gives
`OnlyCausedLate` and `UnjoinedOnlyForCause` without any condition.

The other three hold under a condition on what was announced. Each is a
state predicate over `items`, true in every state of `AnnounceUpdates`, and
without it the property fails, as the hazards of the lines named say:

* `FluteLast`: in the 5G-MAG formats only a USD's last delivery method has FLUTE
  streams. Otherwise the next one's turn starts them again (`AnnounceMethods`).
  `Rested`: what is still to be started is idle.
* `Faithful`: in the 5G-MAG formats a USD names each path once (or the unicast
  ones would be started first, whichever comes last), and of what an exception
  may skip, all items say the same. Then by `Latest` a service's stream
  is as the last item that was handled has it, whichever items were handled before.
* `Steady`: a path once announced with a CDN endpoint always is (`AnnounceWithdrawn`
  shows what happens otherwise); a USD that may fail caches nothing, and one with
  a manifest has a stream that runs, or its service is destroyed with the manifest
  still cached (ServiceAnnouncement.cpp:225). By `ServicesHeld` and `StreamsHeld`
  every owner in the cache is registered, or held by the setup that will register
  it or put it in its service (`Listed`).

**Manifest.** `EntryInv`: a file in the entry came by FLUTE since the last master
was read; and as long as none did and no second turned, the entry is there unless
the first master is still to be read, which is the first call of every plan
(`PlanIs`). `GetInv`: what an undisturbed GET has taken is what is there now.

`NewestMpdServed` is about the end of a plan, in which masters of all announcements
are read over and over: `MpdInv` says that the newest master is still to be read,
right before the newest announcement's streams (`MasterAhead`), or has been read
last of all, and either a stream that starts is still to come or the manifest is it
already (`MasterIsRead`). `FileIsNewest` says the same of the MPDs by FLUTE, where they take the manifest's place (`SamePath`). It
takes `EachHasSource`: the manifest is assigned only when a stream starts
(Service.cpp:88), so that after an announcement none of whose streams has a
usable SDP, the manifest would still be the MPD of the one before.

The two about streams need the whole of a plan, not only its end: `HasStreams` says
that a plan has every stream of every announcement, `StreamsFollow` that right before
a stream is another stream or the newest master. `SdpInv` says
that a stream with a source is still to be started, or runs as the SDPs of one with its path
say; that these, read in order, leave what the newest one says if it says
everything is `NewestSession` (`Configure` writes each field it finds, and no
other: `ConfigureAgrees`). `MasterInv` says that when a stream's turn comes the
master read last is the newest, and that a stream of the map has what that says or
is still to be started again. The latter takes `StreamsStay`, which all settings of
`Manifest` meet: a stream whose path a later item changes would stay in the map under
its old one, with attributes of an older master.

The two about what a client finds rest on one round trip, `PlaylistReadsBack`: what
`PlaylistText` writes of any streams, parsed again, is those streams in their order.
`PieceAt` says where each part of a stream's line stands; the only `:` is the one
before the list (`AfterColonPieces`), because `Numeral` has no punctuation
(`PunctuationAssumption`) and a value that was read may have commas in it but none of the others. Each part
is then a few steps of the loop (`NameStep`, `NumberStep`, `QuoteStep`), or a value
that grows token by token (`ValueRead`); at a comma it would end, unless it is
quoted, and `to_string` quotes codecs only (HlsPrimaryPlaylist.cpp:126). That is why
attributes come back for `PlainResolutions` only: a master that quotes a
resolution with a comma makes `ManifestReadsBack` fail. Paths come back in any case,
so that `AnnouncedIsListed` does not take it. `OrderedLists` says that the
manifest has each stream of the map once, since `Paths` has each path once,
`ManifestInv` that the manifest is that of the streams there are whenever there is
one, and `StartedInv` that a stream with a source is there unless it belongs to the
newest announcement and is still to be started: what later parts make of its path
does not matter, since no stream leaves the map.

For `OnlyMalformedTerminates`, `PlanInv` says that the process ended at a call of
which a text throws. `ThrowsForBad` follows the parser line by line: as long as it
has not thrown, it has counted the lines and found a version only where there is
one. `TypeCorrect` takes what the same loop builds (`ReadLineType`, and the types of
the parameters it splits a line into; the lemmas about the parser are for any set of
tokens).

**Folds.** The community modules' folds over a sequence are folds over its set of
positions, by a function chosen to obey a rule. `FoldTable` makes the function that
obeys it, one set of positions after the other; `MaxInduction` shows that the chosen one
agrees; `FoldSteps` makes the steps of the loop out of it. `SumIs` does the same for
sums, in whatever order they are taken. What is not possible is to say it once for
all operators, so that each fold is unrolled where it is used.

### Only model-checked

* Liveness (`LiveEdgeCatchesUp`, `StaleGoes`, `AskingAgainHelps`, `WaitsEnd`,
  `AnnouncementReceived`, `SweepsGoOn`), which is out of the prover's reach, as are
  ENABLED, induction over data and recursive operators.

Each invariant and action property of a passing run has its theorem.

## 5. What is not modelled

* MIME and XML: a USD and its streams are what they yield. The metadata envelope's
  validity and version are stored, and only listed by `mw-api`: no item is dropped
  when it is no longer valid.
* `put`, which does nothing; the bearer token; TLS.
* What a local service announcement's file contains (that there is one, is).
* A GET that sends a seamless stream's `_playlist` while a worker assigns it: the
  manifest's GET goes through the same callback (`ServiceManifest`), the
  composition with `SeamlessContentStream` is not written.
* How long an answer takes; packets lost while main waits.
* Configuration, logging, command line, enumerations: no control of interest.
* libflute (not in the tree), cpprestsdk, boost: from how the code uses them.

## 6. What is left to do

1. `PlaylistDelivery`: `RestHandler::get` of a playlist composed with
   `SeamlessContentStream`'s two threads.
