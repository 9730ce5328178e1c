-------------------------- MODULE ServiceAnnouncement --------------------------
(***************************************************************************)
(* From a service announcement to running content streams:                 *)
(* ServiceAnnouncement::parse_bootstrap and what it calls in Service,      *)
(* ContentStream and SeamlessContentStream, and who owns whom.             *)
(*                                                                         *)
(* All parts ever received stay in _items, and each file received makes    *)
(* the io_service thread go through all of them again.  Each user service  *)
(* description (USD) of a bundle finds or creates its Service, caches the  *)
(* service's manifest, creates content streams, and starts them in the     *)
(* service, where a stream replaces one with the same playlist path.  A    *)
(* started stream makes a thread create its FLUTE receiver.  Streams and   *)
(* services are counted references; manifests and playlists in the cache   *)
(* hold plain pointers to the service or stream they are rendered by.      *)
(***************************************************************************)
EXTENDS Integers, Sequences, FiniteSets, SequencesExt

CONSTANTS
  ServiceId,     \* the service ids announced
  Settings       \* the circumstances the program may run in

(* A USD:                                                                  *)
(*   id        - its serviceId                                             *)
(*   manifest  - where the manifest its appService names is cached         *)
(*   inline    - the announcement has that manifest                        *)
(*   methods   - how many delivery methods it has                          *)
(*   streams   - its base patterns: playlist path, delivery method it      *)
(*               stands in, whether an SDP makes it a FLUTE stream,        *)
(*               whether it has a CDN endpoint, and whether it is a        *)
(*               unicastAppService one                                     *)
(*   malformed - handling it may throw a std::exception                    *)
Pattern == [path : STRING, method : Nat, flute : BOOLEAN, cdn : BOOLEAN, unicast : BOOLEAN]
Description == [id : ServiceId, manifest : STRING, inline : BOOLEAN, methods : Nat,
                streams : Seq(Pattern), malformed : BOOLEAN]

(* In the default format, seamless switching takes the base pattern of a   *)
(* stream without a broadcast for a CDN endpoint.                          *)
(*                                                                         *)
(* A setting:                                                              *)
(*   format   - mw.bootstrap_format                                        *)
(*   seamless - mw.seamless_switching.enabled                              *)
(*   bundles  - the USD bundles that may arrive: sequences of USDs         *)
(*   files    - bound: announcement files received                         *)
ASSUME ConstantsAssumption ==
  \A w \in Settings :
    /\ w.format \in {"default", "5gmag_bc_uc", "5gmag_legacy"}
    /\ w.seamless \in BOOLEAN
    /\ w.files \in Nat \ {0}
    /\ w.bundles \subseteq Seq(Description)
    /\ \A bundle \in w.bundles : \A u \in DOMAIN bundle : \A i \in DOMAIN bundle[u].streams :
         /\ bundle[u].streams[i].method \in 1 .. bundle[u].methods
         /\ w.format = "default" /\ w.seamless =>
              bundle[u].streams[i].flute \/ bundle[u].streams[i].cdn

VARIABLES
  setting,    \* what the program runs with
  items,      \* _items: the bundles received so far
  pending,    \* what parse_bootstrap still has to go through
  service,    \* the Service of the USD being set up, 0 between two
  setup,      \* the steps its setup still has to take
  made,       \* the streams its setup refers to, by base pattern
  registered, \* Middleware::_services: the number of each service, or 0
  content,    \* _content_streams of each Service made so far
  thread,     \* the live streams, and what became of their _flute_thread
  cached,     \* who renders the manifest or playlist cached at a path
  born,       \* how many streams have been created
  fate,       \* how std::terminate was called, if it was
  late,       \* streams destroyed with a timer handler outstanding
  announced,  \* history: the bundles in the order they came
  earlier     \* history: streams created before the bundle in hand was begun

vars == <<setting, items, pending, service, setup, made, registered, content, thread, cached,
          born, fate, late, announced, earlier>>

Usd == Head(Head(pending))

(* A seamless stream has a timer from its constructor on.                  *)
Timed == setting.seamless /\ setting.format # "5gmag_legacy"

Init ==
  /\ setting \in Settings
  /\ items = <<>> /\ pending = <<>>
  /\ service = 0 /\ setup = <<>> /\ made = <<>>
  /\ registered = [id \in ServiceId |-> 0]
  /\ content = <<>>
  /\ thread = <<>> /\ cached = <<>>
  /\ born = 0
  /\ fate = "running"
  /\ late = {} /\ announced = <<>> /\ earlier = 0

------------------------------------------------------------------------------
(* The order in which a USD's streams are created and started.             *)

(* The same step for each of some streams, in their order.                 *)
Each(step, usd, positions) ==
  FlattenSeq([i \in DOMAIN usd.streams |->
                IF i \in positions THEN <<<<step, i>>>> ELSE <<>>])

(* Whether a stream has a source to start from.                            *)
HasSource(pattern) == pattern.flute \/ pattern.cdn

(* _setupByAlternativeContentElement: one by one, those with a broadcast   *)
(* or CDN source are started; the local reference ends with the iteration. *)
OneByOne(usd) ==
  FlattenSeq([i \in DOMAIN usd.streams |->
    IF HasSource(usd.streams[i]) THEN <<<<"create", i>>, <<"start", i>>, <<"drop", i>>>>
                                 ELSE <<<<"create", i>>, <<"drop", i>>>>])

(* _setupBy5GMagConfig and _setupBy5GMagLegacyFormat: the streams of one   *)
(* delivery method are created, then all streams created so far, of this   *)
(* and of earlier methods, are started, unicast ones first.                *)
ByMethod(usd) ==
  LET Of(m) == {i \in DOMAIN usd.streams : usd.streams[i].method = m}
      Upto(m, uc) == {i \in DOMAIN usd.streams :
                        usd.streams[i].method <= m /\ usd.streams[i].unicast = uc}
  IN  FlattenSeq([m \in 1 .. usd.methods |->
        Each("create", usd, Of(m))
        \o Each("start", usd, Upto(m, TRUE)) \o Each("start", usd, Upto(m, FALSE))])

Plan(usd) == IF setting.format = "default" THEN OneByOne(usd) ELSE ByMethod(usd)

------------------------------------------------------------------------------
(* Ownership.                                                              *)

(* A service is kept by Middleware and by the setup that is using it.      *)
Kept(reg, using) == (Range(reg) \cup {using}) \ {0}

(* A stream is kept by the services that are, and by the setup.            *)
Held(kept, streams, local) == (UNION {streams[n] : n \in kept}) \cup Range(local)

(* Fault variant: the destructor does not wait for the receiver.           *)
NeverJoined(state) == state # "idle"

(* ~ContentStream joins the thread only once it sees the receiver.         *)
Unjoined(state) == state = "starting"

(* Fault variant: streams are never deleted.                               *)
Leak(threads, kept, streams, local) == thread' = threads /\ UNCHANGED <<late, fate>>

(* Streams nobody keeps are destroyed.                                     *)
Release(threads, kept, streams, local) ==
  LET gone == DOMAIN threads \ Held(kept, streams, local)
  IN  /\ thread' = Restrict(threads, DOMAIN threads \ gone)
      /\ late' = IF Timed THEN late \cup gone ELSE late
      /\ fate' = IF \E s \in gone : Unjoined(threads[s]) THEN "unjoined" ELSE fate

(* A map's assignment.                                                     *)
With(f, x, v) == [y \in DOMAIN f \cup {x} |-> IF y = x THEN v ELSE f[y]]

(* Fault variant: map::emplace.                                            *)
CachedUnlessPresent(path, owner) == cached' = cached @@ (path :> owner)

(* CacheManagement::add_item.                                              *)
CachedBy(path, owner) == cached' = With(cached, path, owner)

------------------------------------------------------------------------------
(* Handling a file.                                                        *)

Idle == pending = <<>>

(* The main thread does not wait for those it has started.                 *)
MainFree == fate = "running"

(* Fault variant: newest first.                                            *)
NewestFirst(bundle) == <<bundle>> \o items

(* _addServiceAnnouncementItems.                                           *)
WithItems(bundle) == Append(items, bundle)

(* The completion callback, or the local file at startup.  _bootstrapped   *)
(* is never set: each file completed is parsed.                            *)
Receive(bundle) ==
  /\ MainFree /\ Idle
  /\ Len(items) < setting.files
  /\ items' = WithItems(bundle)
  /\ pending' = items'
  /\ announced' = Append(announced, bundle)
  /\ UNCHANGED <<setting, service, setup, made, registered, content, thread, cached, born,
                 fate, late, earlier>>

(* _registerService and _handleAppService.                                 *)
BeginUsd ==
  /\ MainFree /\ ~Idle /\ service = 0
  /\ Head(pending) # <<>>
  /\ IF registered[Usd.id] # 0
       THEN service' = registered[Usd.id] /\ UNCHANGED content
       ELSE service' = Len(content) + 1 /\ content' = Append(content, {})
  /\ IF Usd.inline THEN CachedBy(Usd.manifest, [is |-> "service", n |-> service'])
                   ELSE UNCHANGED cached
  /\ setup' = Plan(Usd)
  /\ UNCHANGED <<setting, items, pending, made, registered, thread, born, fate, late,
                 announced, earlier>>

Step(name) == MainFree /\ service # 0 /\ setup # <<>> /\ Head(setup)[1] = name

Position == Head(setup)[2]

(* make_shared, read_master_manifest, the SDP, and set_cdn_endpoint.       *)
CreateStream ==
  LET s == [n |-> born + 1, of |-> Usd.streams[Position]]
  IN  /\ Step("create")
      /\ made' = With(made, Position, s)
      /\ thread' = With(thread, s, "idle")
      /\ IF s.of.cdn THEN CachedBy(s.of.path, [is |-> "stream", n |-> s.n])
                     ELSE UNCHANGED cached
      /\ born' = born + 1
      /\ setup' = Tail(setup)
      /\ UNCHANGED <<setting, items, pending, service, registered, content, fate, late, announced, earlier>>

(* Fault variant: the stream that is there stays.                          *)
KeepsOld(streams, s) ==
  IF \E old \in streams : old.of.path = s.of.path THEN streams ELSE streams \cup {s}

(* _content_streams[s->playlist_path()] = s                                *)
Put(streams, s) == {old \in streams : old.of.path # s.of.path} \cup {s}

(* Service::add_and_start_content_stream and ContentStream::start.  To     *)
(* assign to a std::thread that is joinable calls std::terminate.          *)
StartStream ==
  LET s == made[Position]
      streams == [content EXCEPT ![service] = Put(@, s)]
      started == [thread EXCEPT ![s] = IF s.of.flute THEN "starting" ELSE @]
  IN  /\ Step("start")
      /\ content' = streams
      /\ IF s.of.flute /\ thread[s] # "idle"
           THEN fate' = "restarted" /\ UNCHANGED <<thread, late>>
           ELSE Release(started, Kept(registered, service), streams, made)
      /\ setup' = Tail(setup)
      /\ UNCHANGED <<setting, items, pending, service, made, registered, cached, born, announced, earlier>>

DropStream ==
  LET others == Restrict(made, DOMAIN made \ {Position})
  IN  /\ Step("drop")
      /\ made' = others
      /\ Release(thread, Kept(registered, service), content, others)
      /\ setup' = Tail(setup)
      /\ UNCHANGED <<setting, items, pending, service, registered, content, cached, born, announced, earlier>>

(* Fault variant: a service with one stream is not worth registering.      *)
HasSeveral(streams) == Cardinality(streams) > 1

HasStreams(streams) == streams # {}

(* The end of _setupBy..., and _set_service for a new service.             *)
EndUsd ==
  LET reg == IF registered[Usd.id] = 0 /\ HasStreams(content[service])
               THEN [registered EXCEPT ![Usd.id] = service] ELSE registered
  IN  /\ MainFree /\ service # 0 /\ setup = <<>>
      /\ registered' = reg
      /\ made' = <<>>
      /\ Release(thread, Kept(reg, 0), content, <<>>)
      /\ service' = 0
      /\ pending' = <<Tail(Head(pending))>> \o Tail(pending)
      /\ UNCHANGED <<setting, items, setup, content, cached, born, announced, earlier>>

(* A std::exception anywhere in the setup: the rest of the bundle is       *)
(* skipped, and a new service is not registered.                           *)
UsdThrows ==
  /\ MainFree /\ service # 0 /\ Usd.malformed
  /\ made' = <<>> /\ setup' = <<>>
  /\ Release(thread, Kept(registered, 0), content, <<>>)
  /\ service' = 0
  /\ pending' = Tail(pending)
  /\ earlier' = born
  /\ UNCHANGED <<setting, items, registered, content, cached, born, announced>>

EndBundle ==
  /\ MainFree /\ ~Idle /\ service = 0
  /\ Head(pending) = <<>>
  /\ pending' = Tail(pending)
  /\ earlier' = born
  /\ UNCHANGED <<setting, items, service, setup, made, registered, content, thread, cached, born,
                 fate, late, announced>>

(* The stream's thread: _flute_receiver is set.                            *)
ThreadReady ==
  /\ fate = "running"
  /\ \E s \in DOMAIN thread :
       /\ thread[s] = "starting"
       /\ thread' = [thread EXCEPT ![s] = "receiving"]
  /\ UNCHANGED <<setting, items, pending, service, setup, made, registered, content, cached, born,
                 fate, late, announced, earlier>>

Next ==
  \/ \E bundle \in setting.bundles : Receive(bundle)
  \/ BeginUsd \/ CreateStream \/ StartStream \/ DropStream \/ EndUsd \/ UsdThrows
  \/ EndBundle
  \/ ThreadReady

Spec == Init /\ [][Next]_vars

------------------------------------------------------------------------------
(* Properties.                                                             *)

Owner == [is : {"service"}, n : DOMAIN content] \cup [is : {"stream"}, n : 1 .. born]

(* Type invariant: the shape of the state; a running setup's streams live. *)
TypeOK ==
  /\ setting \in Settings
  /\ items \in Seq(setting.bundles) /\ Len(items) <= setting.files
  /\ Len(pending) <= Len(items)
  /\ service \in 0 .. Len(content)
  /\ registered \in [ServiceId -> 0 .. Len(content)]
  /\ born \in Nat
  /\ DOMAIN thread = Held(Kept(registered, service), content, made)
  /\ Range(thread) \subseteq {"idle", "starting", "receiving"}
  /\ Range(cached) \subseteq Owner
  /\ earlier \in 0 .. born
  /\ fate \in {"running", "unjoined", "restarted"}

Lives(owner) ==
  IF owner.is = "service" THEN owner.n \in Kept(registered, service)
                          ELSE \E s \in DOMAIN thread : s.n = owner.n

(* A manifest or playlist in the cache is rendered by an object that is    *)
(* still there: read_master_manifest and set_cdn_endpoint hand the cache a *)
(* callback with a plain this, which the sweep and every GET call.         *)
OwnersAlive == fate = "running" => \A path \in DOMAIN cached : Lives(cached[path])

(* The i-th stream of the u-th USD in the b-th file is one of service id   *)
(* for a path, and gets started.                                           *)
Names(b, u, i, id, path) ==
  LET usd == announced[b][u]
  IN  /\ usd.id = id /\ usd.streams[i].path = path
      /\ setting.format = "default" => HasSource(usd.streams[i])

Earlier(x, y) ==
  \/ x[1] < y[1]
  \/ x[1] = y[1] /\ (x[2] < y[2] \/ (x[2] = y[2] /\ x[3] < y[3]))

(* When all files are handled, each service runs every stream as the last  *)
(* USD that names its path describes it: going through old items again     *)
(* (they stay in _items) never brings an old description back.             *)
NewestWins ==
  Idle /\ fate = "running" =>
    \A id \in ServiceId : registered[id] # 0 =>
      \A s \in content[registered[id]] :
        \E b \in DOMAIN announced : \E u \in DOMAIN announced[b] :
        \E i \in DOMAIN announced[b][u].streams :
          /\ Names(b, u, i, id, s.of.path) /\ s.of = announced[b][u].streams[i]
          /\ \A c \in DOMAIN announced : \A v \in DOMAIN announced[c] :
             \A j \in DOMAIN announced[c][v].streams :
               Names(c, v, j, id, s.of.path) => ~Earlier(<<b, u, i>>, <<c, v, j>>)

(* What makes a stream go away while the bundle that describes it is       *)
(* handled: a setup that fails, a stream with no source, which is dropped  *)
(* without having been started, or two streams of a service for one path.  *)
Loses(w, bundle) ==
  \/ \E u \in DOMAIN bundle :
       \/ bundle[u].malformed
       \/ /\ w.format = "default"
          /\ \E i \in DOMAIN bundle[u].streams : ~HasSource(bundle[u].streams[i])
  \/ \E u, v \in DOMAIN bundle :
     \E i \in DOMAIN bundle[u].streams : \E j \in DOMAIN bundle[v].streams :
       /\ <<u, i>> # <<v, j>>
       /\ bundle[u].id = bundle[v].id
       /\ bundle[u].streams[i].path = bundle[v].streams[j].path

(* The bundle that is being handled.                                       *)
InHand == items[Len(items) - Len(Tail(pending))]

(* The destructor of a stream joins a thread only once it sees its         *)
(* receiver (ContentStream.cpp:34), and an announcement makes all those    *)
(* before it be handled again at once (ServiceAnnouncement.cpp:110).  It   *)
(* meets a thread too slow for it, and ends the process, only if some      *)
(* stream is without its receiver when a later bundle is in hand, or if    *)
(* that bundle loses one of its own.                                       *)
UnjoinedOnlyIfOvertaken ==
  [][fate' = "unjoined" =>
       \/ \E s \in DOMAIN thread : s.n <= earlier /\ thread[s] = "starting"
       \/ Loses(setting, InHand)]_vars

(* A stream goes away while its timer's handler, which runs even if the    *)
(* timer is cancelled, is still to come (SeamlessContentStream.cpp:38-42), *)
(* only when a later bundle is in hand, or the one it comes from loses it. *)
LateHandlerNeedsCause ==
  [][\A s \in late' \ late : s.n <= earlier \/ Loses(setting, InHand)]_vars

(* One stream object is set up, and started, per base pattern.             *)
OneStartPerPattern == fate # "restarted"
================================================================================
