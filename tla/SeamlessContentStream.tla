------------------------ MODULE SeamlessContentStream ------------------------
(***************************************************************************)
(* One seamless-switching HLS stream: SeamlessContentStream with its       *)
(* Segment objects, the entries it keeps in the cache and the two sources  *)
(* that feed it, FLUTE broadcast and a CDN.                                *)
(*                                                                         *)
(* Two threads run its code.  The io_service thread ("main") delivers      *)
(* FLUTE files, polls the CDN each second and sweeps the cache; the        *)
(* continuation of a CDN answer runs on a worker ("pool").  Both call      *)
(* handle_playlist, which holds _segments_mutex while it merges a          *)
(* playlist, trims the window and rewrites the playlist text; here each    *)
(* turn of its loops is a step, so that everything the mutex does not      *)
(* exclude happens in between.                                             *)
(*                                                                         *)
(* The encoder publishes segments 1, 2, ... Published; `published` counts  *)
(* them and is also the clock, one segment duration being the unit of      *)
(* time.  The media playlist it publishes with segment h lists FirstOf[h]  *)
(* to h.  Numbers in a playlist are counted from its EXT-X-MEDIA-SEQUENCE, *)
(* so an encoder that restarts its numbering starts its playlist anew.     *)
(* Zero stands for "none" wherever a segment or a time is expected, as     *)
(* received_at == 0 does in the code.                                      *)
(***************************************************************************)
EXTENDS Integers, FiniteSets, CachePolicy

CONSTANTS
  Published,       \* bound: how many segments the encoder publishes
  SeqNr,           \* SeqNr[n]: media sequence number of the n-th segment
  UriOf,           \* UriOf[n]: its URI, with _playlist_dir in front
  FirstOf,         \* FirstOf[n]: first entry of the playlist that ends with n
  SegmentsToKeep,  \* mw.cache.max_segments_per_stream
  Truncate,        \* mw.seamless_switching.truncate_cdn_playlist_segments
  MaxFileAge,      \* mw.cache.max_file_age, in segment durations
  MaxCacheSize,    \* mw.cache.max_total_size, in segments of equal size
  MaxFetches       \* bound: CDN requests in flight for one segment

Segment == 1 .. Published
NoSegment == 0
Time == 0 .. Published
Seqs == {SeqNr[n] : n \in Segment}
Uris == {UriOf[n] : n \in Segment}

ASSUME ConstantsAssumption ==
  /\ Published \in Nat
  /\ SeqNr \in [Segment -> Nat]
  /\ UriOf \in [Segment -> Nat]
  /\ FirstOf \in [Segment -> Segment]
  /\ \A h \in Segment :
       /\ FirstOf[h] =< h
       /\ \A n \in FirstOf[h] .. h : SeqNr[h] - SeqNr[n] = h - n
  /\ SegmentsToKeep \in Nat
  /\ Truncate \in Nat
  /\ MaxFileAge \in Nat
  /\ MaxCacheSize \in Nat
  /\ MaxFetches \in Nat

VARIABLES
  published,    \* how many segments the encoder has published; the time
  segments,     \* _segments: sequence number -> segment in the window
  source,       \* data_source() of each Segment object, "none" when destroyed
  received_at,  \* _content_received_at of each Segment object
  flute_files,  \* _flute_files: URI -> when the unclaimed FLUTE file came
  cache,        \* the CachedSegment entries of _cache: URI -> segment
  playlist,     \* _playlist: the entries of the text last generated
  cdn_answers,  \* CDN playlists whose continuation has not run yet
  fetches,      \* CDN requests in flight for each segment's content
  handler       \* the handle_playlist call that holds _segments_mutex

vars == <<published, segments, source, received_at, flute_files, cache,
          playlist, cdn_answers, fetches, handler>>

Runner == {"main", "pool"}

(* A call of handle_playlist: who runs it, the entry its loop is at, and   *)
(* the last one the loop will process.                                     *)
Handler == [runner : Runner, next : 1 .. Published + 1, stop : Time]
Idle == [runner |-> "none", next |-> 1, stop |-> 0]

TypeOK ==
  /\ published \in Time
  /\ segments \in [Seqs -> Segment \cup {NoSegment}]
  /\ source \in [Segment -> {"none", "Unavailable", "Broadcast", "CDN"}]
  /\ received_at \in [Segment -> Time]
  /\ flute_files \in [Uris -> Time]
  /\ cache \in [Uris -> Segment \cup {NoSegment}]
  /\ playlist \in [Seqs -> Segment \cup {NoSegment}]
  /\ cdn_answers \in SUBSET Segment
  /\ fetches \in [Segment -> 0 .. MaxFetches]
  /\ handler \in Handler \cup {Idle}

Init ==
  /\ published = 0
  /\ segments = [s \in Seqs |-> NoSegment]
  /\ source = [n \in Segment |-> "none"]
  /\ received_at = [n \in Segment |-> 0]
  /\ flute_files = [u \in Uris |-> 0]
  /\ cache = [u \in Uris |-> NoSegment]
  /\ playlist = [s \in Seqs |-> NoSegment]
  /\ cdn_answers = {}
  /\ fetches = [n \in Segment |-> 0]
  /\ handler = Idle

------------------------------------------------------------------------------
(* Helpers.                                                                *)

Window == {s \in Seqs : segments[s] # NoSegment}
Listed == {s \in Seqs : playlist[s] # NoSegment}

MutexFree == handler = Idle

(* The io_service thread runs one handler at a time, handle_playlist       *)
(* included.                                                               *)
MainFree == handler.runner # "main"

(* Fault variant: the loop takes no more than the first entry of a CDN     *)
(* playlist.                                                               *)
ProcessedFirst(size, runner) == IF runner = "pool" THEN 1 ELSE size

(* Fault variant: the loop runs one entry past the end.                    *)
ProcessedPastEnd(size, runner) == size + 1

(* How many of a playlist's `size` entries the merge loop processes.  The  *)
(* loop leaves after the entry at which idx++ > count, the (count + 2)-th; *)
(* count is the size, less Truncate for a CDN playlist, as a size_t: it    *)
(* wraps to a huge number when the playlist is shorter than Truncate.      *)
Processed(size, runner) ==
  IF runner = "pool" /\ size >= Truncate /\ size - Truncate + 2 < size
  THEN size - Truncate + 2
  ELSE size

(* handle_playlist up to the loop: parse the playlist ending at h and take *)
(* the mutex.                                                              *)
StartHandler(runner, h) ==
  /\ MutexFree
  /\ handler' = [runner |-> runner,
                 next   |-> FirstOf[h],
                 stop   |-> FirstOf[h] + Processed(h - FirstOf[h] + 1, runner) - 1]

(* What set_flute_file leaves in a Segment created now, given the FLUTE    *)
(* file that waits for it under its URI, if any.                           *)
SourceAtBirth(n) == IF flute_files[UriOf[n]] # 0 THEN "Broadcast" ELSE "Unavailable"

(* Fault variant: the iterator is one entry too far.                       *)
IsSecondOldest(s, S) == s \in S /\ Cardinality({t \in S : t < s}) = 1

(* Fault variant: the newest sequence number is taken for the oldest.      *)
IsNewest(s, S) == s \in S /\ \A t \in S : t =< s

(* The oldest of the sequence numbers in S, _segments.begin() of S.        *)
IsOldest(s, S) == s \in S /\ \A t \in S : s =< t

------------------------------------------------------------------------------
(* The environment: the encoder, FLUTE and the CDN.                        *)

Publish ==
  /\ published < Published
  /\ published' = published + 1
  /\ UNCHANGED <<segments, source, received_at, flute_files, cache, playlist,
                 cdn_answers, fetches, handler>>

------------------------------------------------------------------------------
(* The io_service thread.                                                  *)

(* flute_file_received for the file of segment n, complete at the moment   *)
(* of the callback.  The file waits in _flute_files whether or not its     *)
(* segment already exists; only handle_playlist looks there.               *)
FluteSegment(n) ==
  /\ MainFree
  /\ n =< published
  /\ flute_files' = [flute_files EXCEPT ![UriOf[n]] = published]
  /\ UNCHANGED <<published, segments, source, received_at, cache, playlist,
                 cdn_answers, fetches, handler>>

(* flute_file_received for a media playlist.  Files arrive late and out of *)
(* order: it may be any playlist the encoder has published.                *)
FlutePlaylist(h) ==
  /\ MainFree
  /\ h =< published
  /\ StartHandler("main", h)
  /\ UNCHANGED <<published, segments, source, received_at, flute_files, cache,
                 playlist, cdn_answers, fetches>>

(* tick_handler: ask the CDN for the playlist; its answer, taken by the    *)
(* CDN now, is handled whenever a worker gets to it.  A tick whose request *)
(* fails changes nothing.                                                  *)
TickHandler ==
  /\ MainFree
  /\ published > 0
  /\ cdn_answers' = cdn_answers \cup {published}
  /\ UNCHANGED <<published, segments, source, received_at, flute_files, cache,
                 playlist, fetches, handler>>

(* Fault variant: received_at 0 is a date like any other.                  *)
AgedOrUndated(u) == cache[u] # NoSegment

Aged(u) == cache[u] # NoSegment /\ received_at[cache[u]] # 0
Age == [u \in Uris |-> IF Aged(u) THEN published - received_at[cache[u]] ELSE 0]

(* CacheManagement's sweep over this stream's segments, as one step.       *)
CheckFileExpiry ==
  LET dated == {u \in Uris : Aged(u)}
      kept  == Retained(Age, [u \in Uris |-> 1], dated, MaxFileAge, MaxCacheSize)
  IN  /\ MainFree
      /\ cache' = [u \in Uris |-> IF u \in dated \ kept THEN NoSegment ELSE cache[u]]
      /\ UNCHANGED <<published, segments, source, received_at, flute_files,
                     playlist, cdn_answers, fetches, handler>>

------------------------------------------------------------------------------
(* The worker threads.                                                     *)

(* The continuation of a CDN playlist request.  Answers overtake each      *)
(* other: any outstanding one may be next.                                 *)
CdnPlaylist(h) ==
  /\ h \in cdn_answers
  /\ StartHandler("pool", h)
  /\ cdn_answers' = cdn_answers \ {h}
  /\ UNCHANGED <<published, segments, source, received_at, flute_files, cache,
                 playlist, fetches>>

(* A client's GET of segment n finds no content: Segment::buffer starts    *)
(* fetch_from_cdn.  Nothing keeps it from being started twice.             *)
RestFetch(n) ==
  /\ cache[UriOf[n]] = n
  /\ source[n] = "Unavailable"
  /\ fetches[n] < MaxFetches
  /\ fetches' = [fetches EXCEPT ![n] = @ + 1]
  /\ UNCHANGED <<published, segments, source, received_at, flute_files, cache,
                 playlist, cdn_answers, handler>>

(* Its completion: the CDN file becomes the segment's content.             *)
FetchDone(n) ==
  /\ fetches[n] > 0
  /\ fetches' = [fetches EXCEPT ![n] = @ - 1]
  /\ source' = [source EXCEPT ![n] = "CDN"]
  /\ received_at' = [received_at EXCEPT ![n] = published]
  /\ UNCHANGED <<published, segments, flute_files, cache, playlist,
                 cdn_answers, handler>>

(* The CDN answers other than 200 OK, or not at all: nobody is told.       *)
FetchFail(n) ==
  /\ fetches[n] > 0
  /\ fetches' = [fetches EXCEPT ![n] = @ - 1]
  /\ UNCHANGED <<published, segments, source, received_at, flute_files, cache,
                 playlist, cdn_answers, handler>>

------------------------------------------------------------------------------
(* handle_playlist under the mutex, on either thread.                      *)

(* Fault variant: every entry of a playlist passes for a new one.          *)
AlwaysNew(n) == TRUE

(* _segments has no segment under n's sequence number.                     *)
IsNew(n) == segments[SeqNr[n]] = NoSegment

(* Fault variant: the entry is cached only when its content is not there.  *)
CacheUnlessReceived(n) ==
  [cache EXCEPT ![UriOf[n]] = IF flute_files[UriOf[n]] = 0 THEN n ELSE @]

(* The entry a new segment gets in the cache.                              *)
CacheSegment(n) == [cache EXCEPT ![UriOf[n]] = n]

(* The loop at an entry with a new sequence number: create the Segment,    *)
(* give it the FLUTE file that waits for it, list it and cache it.         *)
MergeNew ==
  LET n == handler.next IN
  /\ handler # Idle
  /\ n =< handler.stop
  /\ IsNew(n)
  /\ segments' = [segments EXCEPT ![SeqNr[n]] = n]
  /\ source' = [source EXCEPT ![n] = SourceAtBirth(n)]
  /\ received_at' = [received_at EXCEPT ![n] = flute_files[UriOf[n]]]
  /\ flute_files' = [flute_files EXCEPT ![UriOf[n]] = 0]
  /\ cache' = CacheSegment(n)
  /\ handler' = [handler EXCEPT !.next = n + 1]
  /\ UNCHANGED <<published, playlist, cdn_answers, fetches>>

(* The loop at an entry whose sequence number is already there.            *)
MergeKnown ==
  /\ handler # Idle
  /\ handler.next =< handler.stop
  /\ ~IsNew(handler.next)
  /\ handler' = [handler EXCEPT !.next = @ + 1]
  /\ UNCHANGED <<published, segments, source, received_at, flute_files, cache,
                 playlist, cdn_answers, fetches>>

Merged == handler # Idle /\ handler.next > handler.stop

(* Fault variant: one segment more than asked for stays in the window.     *)
OverfullByOne == Cardinality(Window) > SegmentsToKeep + 1

Overfull == Cardinality(Window) > SegmentsToKeep

(* Fault variant: the cache entry of the removed segment stays.            *)
UncacheNothing(u) == cache

(* remove_item(uri): whatever is cached there.                             *)
Uncache(u) == [cache EXCEPT ![u] = NoSegment]

(* The trimming loop removes the oldest segment and what is cached at its  *)
(* URI.  The Segment dies; the requests for its content that are still in  *)
(* flight can reach no live object (see SegmentDelivery).                  *)
TrimOldest ==
  /\ Merged
  /\ Overfull
  /\ \E s \in Seqs :
       LET n == segments[s] IN
       /\ IsOldest(s, Window)
       /\ segments' = [segments EXCEPT ![s] = NoSegment]
       /\ cache' = Uncache(UriOf[n])
       /\ source' = [source EXCEPT ![n] = "none"]
       /\ received_at' = [received_at EXCEPT ![n] = 0]
       /\ fetches' = [fetches EXCEPT ![n] = 0]
  /\ UNCHANGED <<published, flute_files, playlist, cdn_answers, handler>>

(* The playlist text is written anew and the mutex released.               *)
PublishPlaylist ==
  /\ Merged
  /\ ~Overfull
  /\ playlist' = segments
  /\ handler' = Idle
  /\ UNCHANGED <<published, segments, source, received_at, flute_files, cache,
                 cdn_answers, fetches>>

------------------------------------------------------------------------------
Next ==
  \/ Publish
  \/ TickHandler
  \/ CheckFileExpiry
  \/ MergeNew
  \/ MergeKnown
  \/ TrimOldest
  \/ PublishPlaylist
  \/ \E n \in Segment : \/ FluteSegment(n)
                        \/ FlutePlaylist(n)
                        \/ CdnPlaylist(n)
                        \/ RestFetch(n)
                        \/ FetchDone(n)
                        \/ FetchFail(n)

Spec == Init /\ [][Next]_vars

(* A call of handle_playlist runs to its end; the timer keeps firing, and  *)
(* its handler gets its turn on the io_service thread among FLUTE files,   *)
(* handlers being queued in order; the CDN keeps answering and the workers *)
(* running continuations; one waiting for the mutex gets it in the end,    *)
(* however often FLUTE playlists take it first.  Nothing is assumed of     *)
(* FLUTE or of the clients.                                                *)
Fairness ==
  /\ WF_vars(MergeNew)
  /\ WF_vars(MergeKnown)
  /\ WF_vars(TrimOldest)
  /\ WF_vars(PublishPlaylist)
  /\ SF_vars(TickHandler)
  /\ WF_vars(Publish)
  /\ \A n \in Segment : SF_vars(CdnPlaylist(n))

FairSpec == Spec /\ Fairness

------------------------------------------------------------------------------
(* Properties.                                                             *)

(* Whatever is cached under a segment's URI is a segment of the window: a  *)
(* trimmed segment leaves no copy behind, and no playlist that arrives     *)
(* late brings one back.  This is what bounds the cache: no sweep removes  *)
(* a segment without content.                                              *)
NoOrphan ==
  \A u \in Uris : cache[u] # NoSegment =>
    /\ UriOf[cache[u]] = u
    /\ segments[SeqNr[cache[u]]] = cache[u]

(* While nobody rewrites the playlist, every segment it lists can be       *)
(* asked for: one without content is still cached, so that a GET can start *)
(* the fetch from the CDN.  The sweep, which runs without the mutex, must  *)
(* not touch it, nor may any trimming.                                     *)
ListedIsFetchable ==
  MutexFree =>
    \A s \in Listed : source[playlist[s]] = "Unavailable" =>
                        cache[UriOf[playlist[s]]] = playlist[s]

(* README, "How it works": "each service is available like an CDN          *)
(* publishing point including manifest and segment files".  Every listed   *)
(* segment is in the cache.                                                *)
ListedIsCached ==
  MutexFree => \A s \in Listed : cache[UriOf[playlist[s]]] = playlist[s]

(* README, "Running": "Received multicast packets from the Receive Process *)
(* are FLUTE decoded and the files are stored in the cache".  A segment    *)
(* that is listed and whose file has been received is served from it.      *)
ReceivedIsServed ==
  MutexFree => \A s \in Listed : source[playlist[s]] = "Unavailable" =>
                                   flute_files[UriOf[playlist[s]]] = 0

(* With nothing arriving by broadcast, the CDN alone moves the live edge:  *)
(* once the encoder has published everything, the playlist comes within    *)
(* Truncate entries of the last one, in spite of stale answers and of      *)
(* playlists that hold the mutex.                                          *)
LiveEdgeCatchesUp ==
  published = Published ~> \E s \in Listed : s >= SeqNr[Published - Truncate]

(* The playlist players see only slides forward (see LiveWindow).          *)
Live == INSTANCE LiveWindow WITH Keep <- SegmentsToKeep
ImplementsLiveWindow == Live!Spec

(* What an update of the playlist drops is older than all that is in it    *)
(* afterwards: late playlists of the slower source do not take it back.    *)
SlidesForward == Live!SlidesForward

(* A full window stays full, and the EXT-X-MEDIA-SEQUENCE never goes back. *)
MediaSequenceNeverGoesBack == Live!MediaSequenceNeverGoesBack

(* to_string writes one EXT-X-MEDIA-SEQUENCE and no gaps                   *)
(* (HlsMediaPlaylist.cpp:83): players count on from it.  In a full window  *)
(* the number they so give a segment never falls.                          *)
ShownNumbersNeverFall == Live!ShownNumbersNeverFall
==============================================================================
