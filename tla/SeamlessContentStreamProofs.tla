---------------------- MODULE SeamlessContentStreamProofs ----------------------
(***************************************************************************)
(* Proofs about SeamlessContentStream, for every number of segments, every *)
(* numbering and naming of them and every setting of the limits:           *)
(*   - TypeCorrect: TypeOK is an invariant;                                *)
(*   - CacheHoldsNoOrphan: NoOrphan is an invariant;                       *)
(*   - RefinesLiveWindow: the playlist is a LiveWindow;                    *)
(*   - ListedStaysFetchable: with distinct URIs, ListedIsFetchable is an   *)
(*     invariant;                                                          *)
(*   - WindowSlidesForward, MediaSequenceStays, NumbersNeverFall: what     *)
(*     players may rely on;                                                *)
(*   - ListedCachedUntilSwept: ListedIsCached, until the sweep takes a     *)
(*     segment.                                                            *)
(* All share the inductive invariant WindowInv; those about the cache add  *)
(* FetchInv and CachedInv.                                                 *)
(***************************************************************************)
EXTENDS SeamlessContentStream, SharedLemmas

(* Each segment of the window stands under its own sequence number.        *)
Placed == \A s \in Seqs : segments[s] # NoSegment => SeqNr[segments[s]] = s

(* The playlist last written against the window being rewritten: an entry  *)
(* is still in the window, or the trimming loop has taken it, which leaves *)
(* a window that is full and newer.                                        *)
PlaylistTrails ==
  \A s \in Seqs : playlist[s] # NoSegment =>
    \/ segments[s] = playlist[s]
    \/ /\ segments[s] = NoSegment
       /\ Merged
       /\ \A t \in Window : s < t
       /\ Cardinality(Window) >= SegmentsToKeep

WindowInv == TypeOK /\ Placed /\ NoOrphan /\ PlaylistTrails

------------------------------------------------------------------------------
(* The sequence numbers are finitely many naturals.                        *)
LEMMA SeqsFinite == Seqs \in SUBSET Nat /\ IsFiniteSet(Seqs)
<1>1. IsFiniteSet(Segment)
  BY FS_Interval, ConstantsAssumption DEF Segment
<1>2. SeqNr \in Surjection(Segment, Seqs)
  BY ConstantsAssumption DEF Surjection, Seqs
<1>3. IsFiniteSet(Seqs)
  BY <1>1, <1>2, FS_Surjection
<1> QED  BY <1>3, ConstantsAssumption DEF Seqs

(* The window is finite.                                                   *)
LEMMA WindowFinite == IsFiniteSet(Window) /\ Cardinality(Window) \in Nat
<1>1. Window \in SUBSET Seqs
  BY DEF Window
<1> QED  BY <1>1, SeqsFinite, FS_Subset, FS_CardinalityType

(* A playlist that ends at h starts at a segment, not after h.             *)
LEMMA FirstOfType ==
  ASSUME NEW h \in Segment
  PROVE  FirstOf[h] \in 1 .. h
BY ConstantsAssumption DEF Segment

(* The merge loop never runs past the end of the playlist.                 *)
LEMMA ProcessedBound ==
  ASSUME NEW size \in Nat, NEW runner
  PROVE  Processed(size, runner) \in 0 .. size
BY ConstantsAssumption DEF Processed

(* Taking the mutex sets a well-typed handler up.                          *)
LEMMA StartHandlerType ==
  ASSUME NEW runner \in Runner, NEW h \in Segment, StartHandler(runner, h)
  PROVE  handler' \in Handler
<1> DEFINE size == h - FirstOf[h] + 1
<1>1. FirstOf[h] \in 1 .. h /\ h \in 1 .. Published
  BY FirstOfType DEF Segment
<1>2. size \in Nat
  BY <1>1
<1>3. Processed(size, runner) \in 0 .. size
  BY <1>2, ProcessedBound
<1>4. FirstOf[h] + Processed(size, runner) - 1 \in 0 .. Published
  BY <1>1, <1>2, <1>3, ConstantsAssumption
<1>5. FirstOf[h] \in 1 .. Published + 1 /\ h \in Time
  BY <1>1, ConstantsAssumption DEF Time
<1> HIDE DEF size
<1> QED  BY <1>4, <1>5 DEF StartHandler, Handler, Time, size

(* Moving the loop on keeps the handler well-typed.                        *)
LEMMA NextEntryType ==
  ASSUME NEW h \in Handler, NEW m \in 1 .. Published + 1
  PROVE  [h EXCEPT !.next = m] \in Handler
BY DEF Handler

(* While the loop runs, the entry it is at is a segment.                   *)
LEMMA EntryType ==
  ASSUME TypeOK, handler # Idle, handler.next =< handler.stop
  PROVE  /\ handler \in Handler
         /\ handler.next \in Segment
         /\ handler.next + 1 \in 1 .. Published + 1
<1>1. handler \in Handler
  BY DEF TypeOK
<1>2. handler.next \in 1 .. Published + 1 /\ handler.stop \in 0 .. Published
  BY <1>1 DEF Handler, Time
<1>3. Published \in Nat
  BY ConstantsAssumption
<1> QED  BY <1>1, <1>2, <1>3 DEF Segment

------------------------------------------------------------------------------
(* TypeOK is inductive by itself.                                          *)
LEMMA TypeStep == TypeOK /\ [Next]_vars => TypeOK'
<1> SUFFICES ASSUME TypeOK, [Next]_vars PROVE TypeOK'
  OBVIOUS
<1>1. CASE Publish
  BY <1>1, ConstantsAssumption DEF Publish, TypeOK, Time
<1>2. CASE TickHandler
  <2>1. published \in Segment
    BY <1>2, ConstantsAssumption DEF TickHandler, TypeOK, Time, Segment
  <2> QED  BY <1>2, <2>1 DEF TickHandler, TypeOK
<1>3. CASE CheckFileExpiry
  BY <1>3 DEF CheckFileExpiry, TypeOK
<1>4. CASE MergeNew
  <2> DEFINE n == handler.next
  <2>1. handler \in Handler /\ n \in Segment /\ n + 1 \in 1 .. Published + 1
    BY <1>4, EntryType DEF MergeNew
  <2>2. SeqNr[n] \in Seqs /\ UriOf[n] \in Uris
    BY <2>1 DEF Seqs, Uris
  <2>3. handler' \in Handler
    BY <1>4, <2>1, NextEntryType DEF MergeNew
  <2>4. SourceAtBirth(n) \in {"none", "Unavailable", "Broadcast", "CDN"}
    BY DEF SourceAtBirth
  <2>5. flute_files[UriOf[n]] \in Time /\ 0 \in Time
    BY <2>2, ConstantsAssumption DEF TypeOK, Time
  <2>6. /\ segments' = [segments EXCEPT ![SeqNr[n]] = n]
        /\ source' = [source EXCEPT ![n] = SourceAtBirth(n)]
        /\ received_at' = [received_at EXCEPT ![n] = flute_files[UriOf[n]]]
        /\ flute_files' = [flute_files EXCEPT ![UriOf[n]] = 0]
        /\ cache' = [cache EXCEPT ![UriOf[n]] = n]
        /\ UNCHANGED <<published, playlist, cdn_answers, fetches>>
    BY <1>4 DEF MergeNew, CacheSegment
  <2> HIDE DEF n
  <2> QED  BY <2>1, <2>2, <2>3, <2>4, <2>5, <2>6 DEF TypeOK
<1>5. CASE MergeKnown
  <2>1. handler' \in Handler
    BY <1>5, EntryType, NextEntryType DEF MergeKnown
  <2> QED  BY <1>5, <2>1 DEF MergeKnown, TypeOK
<1>6. CASE TrimOldest
  <2>1. 0 \in Time /\ 0 \in 0 .. MaxFetches
    BY ConstantsAssumption DEF Time
  <2>2. PICK s \in Seqs :
          /\ segments' = [segments EXCEPT ![s] = NoSegment]
          /\ cache' = [cache EXCEPT ![UriOf[segments[s]]] = NoSegment]
          /\ source' = [source EXCEPT ![segments[s]] = "none"]
          /\ received_at' = [received_at EXCEPT ![segments[s]] = 0]
          /\ fetches' = [fetches EXCEPT ![segments[s]] = 0]
    BY <1>6 DEF TrimOldest, Uncache
  <2>3. UNCHANGED <<published, flute_files, playlist, cdn_answers, handler>>
    BY <1>6 DEF TrimOldest
  <2> QED  BY <2>1, <2>2, <2>3 DEF TypeOK
<1>7. CASE PublishPlaylist
  BY <1>7 DEF PublishPlaylist, TypeOK
<1>8. ASSUME NEW n \in Segment, FluteSegment(n) PROVE TypeOK'
  BY <1>8 DEF FluteSegment, TypeOK
<1>9. ASSUME NEW n \in Segment, FlutePlaylist(n) PROVE TypeOK'
  <2>1. handler' \in Handler
    BY <1>9, StartHandlerType DEF FlutePlaylist, Runner
  <2> QED  BY <1>9, <2>1 DEF FlutePlaylist, TypeOK
<1>10. ASSUME NEW n \in Segment, CdnPlaylist(n) PROVE TypeOK'
  <2>1. handler' \in Handler
    BY <1>10, StartHandlerType DEF CdnPlaylist, Runner
  <2> QED  BY <1>10, <2>1 DEF CdnPlaylist, TypeOK
<1>11. ASSUME NEW n \in Segment, RestFetch(n) PROVE TypeOK'
  <2>1. fetches' \in [Segment -> 0 .. MaxFetches]
    BY <1>11, ConstantsAssumption DEF RestFetch, TypeOK
  <2> QED  BY <1>11, <2>1 DEF RestFetch, TypeOK
<1>12. ASSUME NEW n \in Segment, FetchDone(n) PROVE TypeOK'
  <2>1. fetches' \in [Segment -> 0 .. MaxFetches]
    BY <1>12, ConstantsAssumption DEF FetchDone, TypeOK
  <2> QED  BY <1>12, <2>1 DEF FetchDone, TypeOK
<1>13. ASSUME NEW n \in Segment, FetchFail(n) PROVE TypeOK'
  <2>1. fetches' \in [Segment -> 0 .. MaxFetches]
    BY <1>13, ConstantsAssumption DEF FetchFail, TypeOK
  <2> QED  BY <1>13, <2>1 DEF FetchFail, TypeOK
<1>14. CASE UNCHANGED vars
  BY <1>14 DEF vars, TypeOK
<1> QED
  BY <1>1, <1>2, <1>3, <1>4, <1>5, <1>6, <1>7, <1>8, <1>9, <1>10, <1>11,
     <1>12, <1>13, <1>14 DEF Next

(* The types hold initially.                                               *)
LEMMA TypeInit == Init => TypeOK
BY ConstantsAssumption DEF Init, TypeOK, Time, NoSegment, Idle

(* Every variable keeps its type: in particular the merge loop stays       *)
(* within the playlist, truncated or not.                                  *)
THEOREM TypeCorrect == Spec => []TypeOK
BY TypeInit, TypeStep, PTL DEF Spec

------------------------------------------------------------------------------
(* WindowInv.  Its parts after the actions that can disturb them: the ones *)
(* that write segments, cache, playlist or handler.                        *)

(* An action that leaves those four alone cannot.                          *)
LEMMA WindowFrame ==
  ASSUME Placed, NoOrphan, PlaylistTrails,
         UNCHANGED <<segments, cache, playlist, handler>>
  PROVE  Placed' /\ NoOrphan' /\ PlaylistTrails'
BY DEF Placed, NoOrphan, PlaylistTrails, Merged, Window

(* While the merge loop runs the window still has all the playlist lists.  *)
LEMMA NotMergedListed ==
  ASSUME PlaylistTrails, ~Merged, NEW s \in Seqs, playlist[s] # NoSegment
  PROVE  segments[s] = playlist[s]
BY DEF PlaylistTrails

LEMMA SweepWindow ==
  ASSUME WindowInv, CheckFileExpiry
  PROVE  Placed' /\ NoOrphan' /\ PlaylistTrails'
<1>1. \A u \in Uris : cache'[u] \in {cache[u], NoSegment}
  BY DEF CheckFileExpiry
<1>2. UNCHANGED <<segments, playlist, handler>>
  BY DEF CheckFileExpiry
<1> QED
  BY <1>1, <1>2
  DEF WindowInv, Placed, NoOrphan, PlaylistTrails, Merged, Window, NoSegment

LEMMA StartWindow ==
  ASSUME WindowInv, NEW runner \in Runner, NEW h \in Segment,
         StartHandler(runner, h), UNCHANGED <<segments, cache, playlist>>
  PROVE  Placed' /\ NoOrphan' /\ PlaylistTrails'
<1>1. ~Merged
  BY DEF StartHandler, MutexFree, Merged
<1>2. \A s \in Seqs : playlist[s] # NoSegment => segments[s] = playlist[s]
  BY <1>1, NotMergedListed DEF WindowInv
<1> QED
  BY <1>2 DEF WindowInv, Placed, NoOrphan, PlaylistTrails

LEMMA MergeNewWindow ==
  ASSUME WindowInv, MergeNew
  PROVE  Placed' /\ NoOrphan' /\ PlaylistTrails'
<1> DEFINE n == handler.next
<1>1. n \in Segment
  BY EntryType DEF MergeNew, WindowInv
<1>2. SeqNr[n] \in Seqs /\ UriOf[n] \in Uris
  BY <1>1 DEF Seqs, Uris
<1>3. segments \in [Seqs -> Segment \cup {NoSegment}] /\ cache \in [Uris -> Segment \cup {NoSegment}]
  BY DEF WindowInv, TypeOK
<1>4. /\ segments' = [segments EXCEPT ![SeqNr[n]] = n]
      /\ cache' = [cache EXCEPT ![UriOf[n]] = n]
      /\ playlist' = playlist
      /\ segments[SeqNr[n]] = NoSegment
  BY DEF MergeNew, CacheSegment, IsNew
<1>5. ~Merged
  <2>1. n =< handler.stop /\ n \in Int /\ handler.stop \in Int
    BY <1>1, EntryType DEF MergeNew, WindowInv, Segment, Handler, Time
  <2> QED  BY <2>1 DEF Merged
<1>6. \A s \in Seqs : playlist[s] # NoSegment => segments[s] = playlist[s]
  BY <1>5, NotMergedListed DEF WindowInv
<1> HIDE DEF n
<1>7. Placed'
  BY <1>2, <1>3, <1>4 DEF WindowInv, Placed
<1>8. NoOrphan'
  <2> SUFFICES ASSUME NEW u \in Uris, cache'[u] # NoSegment
               PROVE  /\ UriOf[cache'[u]] = u
                      /\ segments'[SeqNr[cache'[u]]] = cache'[u]
    BY DEF NoOrphan
  <2>1. CASE u = UriOf[n]
    BY <2>1, <1>2, <1>3, <1>4
  <2>2. CASE u # UriOf[n]
    <3>1. cache'[u] = cache[u] /\ cache[u] \in Segment
      BY <2>2, <1>3, <1>4
    <3>2. UriOf[cache[u]] = u /\ segments[SeqNr[cache[u]]] = cache[u]
      BY <3>1 DEF WindowInv, NoOrphan
    <3>3. SeqNr[cache[u]] \in Seqs /\ SeqNr[cache[u]] # SeqNr[n]
      BY <3>1, <3>2, <1>4 DEF Seqs
    <3> QED  BY <3>1, <3>2, <3>3, <1>3, <1>4
  <2> QED  BY <2>1, <2>2
<1>9. PlaylistTrails'
  BY <1>2, <1>3, <1>4, <1>6 DEF PlaylistTrails
<1> QED  BY <1>7, <1>8, <1>9

LEMMA MergeKnownWindow ==
  ASSUME WindowInv, MergeKnown
  PROVE  Placed' /\ NoOrphan' /\ PlaylistTrails'
<1>1. handler \in Handler /\ handler.next \in Int /\ handler.stop \in Int
  BY EntryType DEF MergeKnown, WindowInv, Segment, Handler, Time
<1>2. ~Merged
  BY <1>1 DEF MergeKnown, Merged
<1>3. \A s \in Seqs : playlist[s] # NoSegment => segments[s] = playlist[s]
  BY <1>2, NotMergedListed DEF WindowInv
<1>4. UNCHANGED <<segments, cache, playlist>>
  BY DEF MergeKnown
<1> QED  BY <1>3, <1>4 DEF WindowInv, Placed, NoOrphan, PlaylistTrails

(* The trimming loop takes the oldest segment while there are more than    *)
(* SegmentsToKeep: at least that many are left, all of them newer.         *)
LEMMA TrimWindow ==
  ASSUME WindowInv, TrimOldest
  PROVE  Placed' /\ NoOrphan' /\ PlaylistTrails'
<1>1. PICK s \in Seqs :
        /\ IsOldest(s, Window)
        /\ segments' = [segments EXCEPT ![s] = NoSegment]
        /\ cache' = [cache EXCEPT ![UriOf[segments[s]]] = NoSegment]
  BY DEF TrimOldest, Uncache
<1>2. UNCHANGED <<playlist, handler>>
  BY DEF TrimOldest
<1>3. segments \in [Seqs -> Segment \cup {NoSegment}] /\ cache \in [Uris -> Segment \cup {NoSegment}]
  BY DEF WindowInv, TypeOK
<1>4. segments[s] \in Segment /\ UriOf[segments[s]] \in Uris /\ SeqNr[segments[s]] = s
  BY <1>1, <1>3 DEF IsOldest, Window, WindowInv, Placed, Uris
<1>5. Window' = Window \ {s}
  BY <1>1, <1>3 DEF Window
<1>6. Cardinality(Window') >= SegmentsToKeep
  <2>1. Cardinality(Window') = Cardinality(Window) - 1
    BY <1>1, <1>5, WindowFinite, FS_RemoveElement DEF IsOldest
  <2>2. Cardinality(Window) > SegmentsToKeep
    BY DEF TrimOldest, Overfull
  <2> QED  BY <2>1, <2>2, WindowFinite, ConstantsAssumption
<1>7. \A t \in Window' : s < t
  BY <1>1, <1>5, SeqsFinite DEF IsOldest, Window
<1>8. Placed'
  BY <1>1, <1>3 DEF WindowInv, Placed
<1>9. NoOrphan'
  <2> SUFFICES ASSUME NEW u \in Uris, cache'[u] # NoSegment
               PROVE  /\ UriOf[cache'[u]] = u
                      /\ segments'[SeqNr[cache'[u]]] = cache'[u]
    BY DEF NoOrphan
  <2>1. u # UriOf[segments[s]] /\ cache'[u] = cache[u] /\ cache[u] \in Segment
    BY <1>1, <1>3, <1>4
  <2>2. UriOf[cache[u]] = u /\ segments[SeqNr[cache[u]]] = cache[u]
    BY <2>1 DEF WindowInv, NoOrphan
  <2>3. SeqNr[cache[u]] \in Seqs /\ SeqNr[cache[u]] # s
    BY <2>1, <2>2 DEF Seqs
  <2> QED  BY <2>1, <2>2, <2>3, <1>1, <1>3
<1>10. PlaylistTrails'
  <2> SUFFICES ASSUME NEW r \in Seqs, playlist[r] # NoSegment
               PROVE  \/ segments'[r] = playlist[r]
                      \/ /\ segments'[r] = NoSegment
                         /\ Merged'
                         /\ \A t \in Window' : r < t
                         /\ Cardinality(Window') >= SegmentsToKeep
    BY <1>2 DEF PlaylistTrails
  <2>1. Merged'
    BY <1>2 DEF TrimOldest, Merged
  <2>2. CASE r = s
    BY <2>1, <2>2, <1>1, <1>3, <1>6, <1>7
  <2>3. CASE r # s
    <3>1. segments'[r] = segments[r]
      BY <2>3, <1>1, <1>3
    <3>2. \/ segments[r] = playlist[r]
          \/ segments[r] = NoSegment /\ \A t \in Window : r < t
      BY DEF WindowInv, PlaylistTrails
    <3> QED  BY <2>1, <3>1, <3>2, <1>5, <1>6
  <2> QED  BY <2>2, <2>3
<1> QED  BY <1>8, <1>9, <1>10

LEMMA PublishWindow ==
  ASSUME WindowInv, PublishPlaylist
  PROVE  Placed' /\ NoOrphan' /\ PlaylistTrails'
BY DEF PublishPlaylist, WindowInv, Placed, NoOrphan, PlaylistTrails

(* Every other action leaves the four variables alone.                     *)
LEMMA OtherWindow ==
  ASSUME WindowInv,
         \/ Publish
         \/ TickHandler
         \/ \E n \in Segment : \/ FluteSegment(n)
                               \/ RestFetch(n)
                               \/ FetchDone(n)
                               \/ FetchFail(n)
         \/ UNCHANGED vars
  PROVE  Placed' /\ NoOrphan' /\ PlaylistTrails'
<1>1. UNCHANGED <<segments, cache, playlist, handler>>
  BY DEF Publish, TickHandler, FluteSegment, RestFetch, FetchDone, FetchFail, vars
<1> QED  BY <1>1, WindowFrame DEF WindowInv

LEMMA WindowInit == Init => WindowInv
BY TypeInit DEF Init, WindowInv, Placed, NoOrphan, PlaylistTrails, NoSegment

LEMMA WindowStep == WindowInv /\ [Next]_vars => WindowInv'
<1> SUFFICES ASSUME WindowInv, [Next]_vars PROVE WindowInv'
  OBVIOUS
<1>1. TypeOK'
  BY TypeStep DEF WindowInv
<1>2. ASSUME NEW n \in Segment, FlutePlaylist(n) \/ CdnPlaylist(n)
      PROVE  Placed' /\ NoOrphan' /\ PlaylistTrails'
  BY <1>2, StartWindow DEF FlutePlaylist, CdnPlaylist, Runner
<1>3. Placed' /\ NoOrphan' /\ PlaylistTrails'
  BY <1>2, SweepWindow, MergeNewWindow, MergeKnownWindow, TrimWindow,
     PublishWindow, OtherWindow DEF Next
<1> QED  BY <1>1, <1>3 DEF WindowInv

LEMMA WindowAlways == Spec => []WindowInv
BY WindowInit, WindowStep, PTL DEF Spec

(* Nothing is ever cached under a segment's URI but the segment of that    *)
(* URI that is in the window, whichever thread added or trimmed it.        *)
THEOREM CacheHoldsNoOrphan == Spec => []NoOrphan
BY WindowAlways, PTL DEF WindowInv

------------------------------------------------------------------------------
(* The refinement.  Only PublishPlaylist changes what players see; what it *)
(* shows is the newest SegmentsToKeep of the old playlist and the window.  *)

LEMMA WindowIsNewest ==
  ASSUME WindowInv, Cardinality(Window) =< SegmentsToKeep
  PROVE  Window = Live!Newest(Live!Entries \cup Window)
<1> DEFINE All == Live!Entries \cup Window
           Above(s) == {t \in All : t > s}
<1>1. Window \subseteq Seqs /\ Live!Entries \subseteq Seqs
  BY DEF Window, Live!Entries, Live!EntriesOf
<1>2. Seqs \subseteq Int
  BY SeqsFinite
<1>3. IsFiniteSet(All)
  BY <1>1, SeqsFinite, FS_Subset
<1>4. ASSUME NEW s \in Seqs
      PROVE  IsFiniteSet(Above(s)) /\ Cardinality(Above(s)) \in Nat
  BY <1>3, FS_Subset, FS_CardinalityType
<1>5. ASSUME NEW r \in All \ Window
      PROVE  (\A t \in Window : r < t) /\ Cardinality(Window) >= SegmentsToKeep
  BY <1>5 DEF Live!Entries, Live!EntriesOf, WindowInv, PlaylistTrails, Window
<1>6. ASSUME NEW s \in Window
      PROVE  Cardinality(Above(s)) < SegmentsToKeep
  <2>1. Above(s) \subseteq Window \ {s}
    <3> SUFFICES ASSUME NEW t \in All, t > s
                 PROVE  t \in Window /\ t # s
      OBVIOUS
    <3>1. t \in Int /\ s \in Int
      BY <1>1, <1>2
    <3>2. t \notin Window => t < s
      BY <1>5
    <3> QED  BY <3>1, <3>2
  <2>2. /\ IsFiniteSet(Window \ {s})
        /\ Cardinality(Window \ {s}) = Cardinality(Window) - 1
    BY WindowFinite, FS_RemoveElement
  <2>3. Cardinality(Above(s)) =< Cardinality(Window \ {s})
    BY <2>1, <2>2, FS_Subset
  <2>4. s \in Seqs
    BY <1>1
  <2> HIDE DEF Above
  <2> QED  BY <2>2, <2>3, <2>4, <1>4, WindowFinite, ConstantsAssumption
<1>7. ASSUME NEW r \in All \ Window
      PROVE  ~(Cardinality(Above(r)) < SegmentsToKeep)
  <2>1. Window \subseteq Above(r)
    BY <1>1, <1>2, <1>5
  <2>2. r \in Seqs
    BY <1>1
  <2>3. IsFiniteSet(Above(r)) /\ Cardinality(Above(r)) \in Nat
    BY <1>4, <2>2
  <2>4. Cardinality(Window) =< Cardinality(Above(r))
    BY <2>1, <2>3, FS_Subset
  <2>5. Cardinality(Window) >= SegmentsToKeep
    BY <1>5
  <2> HIDE DEF Above
  <2> QED  BY <2>3, <2>4, <2>5, WindowFinite, ConstantsAssumption
<1>8. Live!Newest(All) = {s \in All : Cardinality(Above(s)) < SegmentsToKeep}
  BY DEF Live!Newest, Live!Cardinality, Cardinality
<1>9. Window \subseteq All
  OBVIOUS
<1> HIDE DEF Above, All
<1>10. \A s \in All : s \in Window <=> Cardinality(Above(s)) < SegmentsToKeep
  BY <1>6, <1>7
<1>11. Live!Newest(All) = Window
  BY <1>8, <1>9, <1>10
<1> QED  BY <1>11 DEF All

LEMMA LiveInit == Init => Live!Init
BY DEF Init, Live!Init

LEMMA PublishUpdates ==
  ASSUME WindowInv, PublishPlaylist
  PROVE  Live!Update
<1>1. playlist' = segments
  BY DEF PublishPlaylist
<1>2. Cardinality(Window) =< SegmentsToKeep
  BY WindowFinite, ConstantsAssumption DEF PublishPlaylist, Overfull
<1>3. Window = Live!Newest(Live!Entries \cup Window)
  BY <1>2, WindowIsNewest
<1>4. Live!EntriesOf(playlist') = Window
  BY <1>1 DEF Live!EntriesOf, Window
<1>5. \A s \in Window \cap Live!Entries : playlist'[s] = playlist[s]
  BY <1>1 DEF Live!Entries, Live!EntriesOf, Window, WindowInv, PlaylistTrails
<1>6. playlist' \in [Seqs -> Segment \cup {NoSegment}]
  BY <1>1 DEF WindowInv, TypeOK
<1>7. Window \in SUBSET Seqs
  BY DEF Window
<1> QED  BY <1>3, <1>4, <1>5, <1>6, <1>7 DEF Live!Update

LEMMA LiveStep == WindowInv /\ [Next]_vars => [Live!Next]_playlist
<1> SUFFICES ASSUME WindowInv, [Next]_vars, playlist' # playlist
             PROVE  Live!Update
  BY DEF Live!Next
<1>1. PublishPlaylist
  BY DEF Next, Publish, TickHandler, CheckFileExpiry, MergeNew, MergeKnown,
         TrimOldest, FluteSegment, FlutePlaylist, CdnPlaylist, RestFetch,
         FetchDone, FetchFail, vars
<1> QED  BY <1>1, PublishUpdates

(* The playlist is a LiveWindow: it keeps the newest SegmentsToKeep        *)
(* entries of all it is offered, changes none while it is listed and only  *)
(* slides forward, whatever arrives from either source in whatever order.  *)
THEOREM RefinesLiveWindow == Spec => ImplementsLiveWindow
<1>1. Spec => Live!Init /\ [][Live!Next]_playlist
  BY LiveInit, LiveStep, WindowAlways, PTL DEF Spec
<1> QED  BY <1>1 DEF ImplementsLiveWindow, Live!Spec

------------------------------------------------------------------------------
(* Fetchability.                                                           *)

DistinctUris == \A m, n \in Segment : UriOf[m] = UriOf[n] => m = n

(* A segment of the window without content is cached: the sweep only takes *)
(* dated entries.  The playlist between two calls is the window.           *)
FetchInv ==
  /\ \A n \in Segment : source[n] = "Unavailable" => received_at[n] = 0
  /\ \A s \in Seqs : segments[s] # NoSegment /\ received_at[segments[s]] = 0
                       => cache[UriOf[segments[s]]] = segments[s]
  /\ MutexFree => playlist = segments

(* Nothing happens before the first segment is published.                  *)
NothingEarly ==
  published = 0 => /\ MutexFree
                   /\ cdn_answers = {}
                   /\ \A s \in Seqs : segments[s] = NoSegment
                   /\ \A n \in Segment : fetches[n] = 0

LEMMA EarlyInit == Init => NothingEarly
BY DEF Init, NothingEarly, MutexFree

LEMMA EarlyStep == WindowInv /\ NothingEarly /\ [Next]_vars => NothingEarly'
<1> SUFFICES ASSUME WindowInv, NothingEarly, [Next]_vars, published' = 0
             PROVE  NothingEarly'
  BY DEF NothingEarly
<1>1. published \in Nat
  BY ConstantsAssumption DEF WindowInv, TypeOK, Time
<1>2. published = 0
  BY <1>1 DEF Next, Publish, TickHandler, CheckFileExpiry, MergeNew, MergeKnown,
         TrimOldest, PublishPlaylist, FluteSegment, FlutePlaylist, CdnPlaylist,
         RestFetch, FetchDone, FetchFail, vars
<1>3. /\ handler = Idle
      /\ cdn_answers = {}
      /\ \A s \in Seqs : segments[s] = NoSegment
      /\ \A n \in Segment : fetches[n] = 0
  BY <1>2 DEF NothingEarly, MutexFree
<1>4. ASSUME NEW n \in Segment PROVE ~RestFetch(n)
  <2>1. n # NoSegment /\ UriOf[n] \in Uris /\ SeqNr[n] \in Seqs
    BY DEF Segment, NoSegment, Uris, Seqs
  <2> QED  BY <2>1, <1>3 DEF RestFetch, WindowInv, NoOrphan
<1>5. UNCHANGED <<handler, cdn_answers, segments, fetches>>
  BY <1>2, <1>3, <1>4
  DEF Next, Publish, TickHandler, CheckFileExpiry, MergeNew, MergeKnown,
      TrimOldest, PublishPlaylist, FluteSegment, FlutePlaylist, CdnPlaylist,
      Merged, FetchDone, FetchFail, vars, Segment
<1> QED  BY <1>3, <1>5 DEF NothingEarly, MutexFree

LEMMA FetchInit == Init => FetchInv
BY DEF Init, FetchInv, NoSegment, MutexFree

LEMMA SweepFetch ==
  ASSUME WindowInv, FetchInv, CheckFileExpiry
  PROVE  FetchInv'
<1>1. UNCHANGED <<segments, source, received_at, playlist, handler>>
  BY DEF CheckFileExpiry
<1>2. ASSUME NEW u \in Uris, ~Aged(u) PROVE cache'[u] = cache[u]
  BY <1>2 DEF CheckFileExpiry
<1>3. ASSUME NEW s \in Seqs, segments[s] # NoSegment, received_at[segments[s]] = 0
      PROVE  cache'[UriOf[segments[s]]] = segments[s]
  <2>1. cache[UriOf[segments[s]]] = segments[s]
    BY <1>3 DEF FetchInv
  <2>2. UriOf[segments[s]] \in Uris
    BY <1>3 DEF WindowInv, TypeOK, Uris
  <2>3. ~Aged(UriOf[segments[s]])
    BY <2>1, <1>3 DEF Aged
  <2> QED  BY <2>1, <2>2, <2>3, <1>2
<1> QED  BY <1>1, <1>3 DEF FetchInv, MutexFree

LEMMA MergeNewFetch ==
  ASSUME DistinctUris, WindowInv, FetchInv, MergeNew
  PROVE  FetchInv'
<1> DEFINE n == handler.next
<1>1. n \in Segment /\ handler \in Handler /\ handler' \in Handler
  BY EntryType, NextEntryType DEF MergeNew, WindowInv
<1>2. SeqNr[n] \in Seqs /\ UriOf[n] \in Uris
  BY <1>1 DEF Seqs, Uris
<1>3. TypeOK
  BY DEF WindowInv
<1>4. /\ segments' = [segments EXCEPT ![SeqNr[n]] = n]
      /\ cache' = [cache EXCEPT ![UriOf[n]] = n]
      /\ source' = [source EXCEPT ![n] = SourceAtBirth(n)]
      /\ received_at' = [received_at EXCEPT ![n] = flute_files[UriOf[n]]]
  BY DEF MergeNew, CacheSegment
<1>5. SourceAtBirth(n) = "Unavailable" => flute_files[UriOf[n]] = 0
  BY DEF SourceAtBirth
<1>6. ~MutexFree'
  BY <1>1 DEF MutexFree, Handler, Idle, Runner
<1> HIDE DEF n
<1>7. ASSUME NEW m \in Segment, source'[m] = "Unavailable"
      PROVE  received_at'[m] = 0
  BY <1>1, <1>3, <1>4, <1>5, <1>7 DEF FetchInv, TypeOK
<1>8. ASSUME NEW s \in Seqs, segments'[s] # NoSegment, received_at'[segments'[s]] = 0
      PROVE  cache'[UriOf[segments'[s]]] = segments'[s]
  <2>1. CASE s = SeqNr[n]
    BY <2>1, <1>2, <1>3, <1>4 DEF TypeOK
  <2>2. CASE s # SeqNr[n]
    <3>1. segments'[s] = segments[s] /\ segments[s] \in Segment
      BY <2>2, <1>3, <1>4, <1>8 DEF TypeOK
    <3>2. segments[s] # n
      BY <3>1, <2>2, <1>8 DEF WindowInv, Placed
    <3>3. received_at[segments[s]] = 0
      BY <3>1, <3>2, <1>3, <1>4, <1>8 DEF TypeOK
    <3>4. cache[UriOf[segments[s]]] = segments[s]
      BY <3>1, <3>3, <1>8 DEF FetchInv
    <3>5. UriOf[segments[s]] # UriOf[n] /\ UriOf[segments[s]] \in Uris
      BY <3>1, <3>2, <1>1 DEF DistinctUris, Uris
    <3> QED  BY <3>1, <3>4, <3>5, <1>3, <1>4 DEF TypeOK
  <2> QED  BY <2>1, <2>2
<1> QED  BY <1>6, <1>7, <1>8 DEF FetchInv

LEMMA TrimFetch ==
  ASSUME DistinctUris, WindowInv, FetchInv, TrimOldest
  PROVE  FetchInv'
<1>1. PICK s \in Seqs :
        /\ IsOldest(s, Window)
        /\ segments' = [segments EXCEPT ![s] = NoSegment]
        /\ cache' = [cache EXCEPT ![UriOf[segments[s]]] = NoSegment]
        /\ source' = [source EXCEPT ![segments[s]] = "none"]
        /\ received_at' = [received_at EXCEPT ![segments[s]] = 0]
  BY DEF TrimOldest, Uncache
<1>2. TypeOK
  BY DEF WindowInv
<1>3. segments[s] \in Segment /\ SeqNr[segments[s]] = s
  BY <1>1, <1>2 DEF IsOldest, Window, WindowInv, Placed, TypeOK
<1>4. ~MutexFree'
  BY DEF TrimOldest, Merged, MutexFree
<1>5. ASSUME NEW m \in Segment, source'[m] = "Unavailable"
      PROVE  received_at'[m] = 0
  BY <1>1, <1>2, <1>3, <1>5 DEF FetchInv, TypeOK
<1>6. ASSUME NEW r \in Seqs, segments'[r] # NoSegment, received_at'[segments'[r]] = 0
      PROVE  cache'[UriOf[segments'[r]]] = segments'[r]
  <2>1. r # s /\ segments'[r] = segments[r] /\ segments[r] \in Segment
    BY <1>1, <1>2, <1>6 DEF TypeOK
  <2>2. segments[r] # segments[s]
    BY <2>1, <1>3 DEF WindowInv, Placed, NoSegment, Segment
  <2>3. received_at[segments[r]] = 0
    BY <2>1, <2>2, <1>1, <1>2, <1>6 DEF TypeOK
  <2>4. cache[UriOf[segments[r]]] = segments[r]
    BY <2>1, <2>3, <1>6 DEF FetchInv
  <2>5. UriOf[segments[r]] # UriOf[segments[s]] /\ UriOf[segments[r]] \in Uris
    BY <2>1, <2>2, <1>3 DEF DistinctUris, Uris
  <2> QED  BY <2>1, <2>4, <2>5, <1>1, <1>2 DEF TypeOK
<1> QED  BY <1>4, <1>5, <1>6 DEF FetchInv

LEMMA FetchDoneFetch ==
  ASSUME WindowInv, NothingEarly, FetchInv, NEW n \in Segment, FetchDone(n)
  PROVE  FetchInv'
<1>1. /\ source' = [source EXCEPT ![n] = "CDN"]
      /\ received_at' = [received_at EXCEPT ![n] = published]
      /\ UNCHANGED <<segments, cache, playlist, handler>>
  BY DEF FetchDone
<1>2. TypeOK
  BY DEF WindowInv
<1>3. published # 0
  <2>1. fetches[n] # 0
    BY DEF FetchDone
  <2> QED  BY <2>1 DEF NothingEarly
<1>4. ASSUME NEW m \in Segment, source'[m] = "Unavailable"
      PROVE  received_at'[m] = 0
  BY <1>1, <1>2, <1>4 DEF FetchInv, TypeOK
<1>5. ASSUME NEW s \in Seqs, segments'[s] # NoSegment, received_at'[segments'[s]] = 0
      PROVE  cache'[UriOf[segments'[s]]] = segments'[s]
  <2>1. segments[s] \in Segment /\ segments[s] # n
    BY <1>1, <1>2, <1>3, <1>5 DEF TypeOK
  <2> QED  BY <2>1, <1>1, <1>2, <1>5 DEF FetchInv, TypeOK
<1> QED  BY <1>1, <1>4, <1>5 DEF FetchInv, MutexFree

LEMMA FetchStep ==
  DistinctUris /\ WindowInv /\ NothingEarly /\ FetchInv /\ [Next]_vars => FetchInv'
<1> SUFFICES ASSUME DistinctUris, WindowInv, NothingEarly, FetchInv, [Next]_vars
             PROVE  FetchInv'
  OBVIOUS
<1>1. ASSUME UNCHANGED <<segments, source, received_at, cache, playlist>>,
             MutexFree' => MutexFree
      PROVE  FetchInv'
  BY <1>1 DEF FetchInv
<1>2. CASE \/ Publish
           \/ TickHandler
           \/ \E n \in Segment : FluteSegment(n) \/ RestFetch(n) \/ FetchFail(n)
           \/ UNCHANGED vars
  BY <1>1, <1>2 DEF Publish, TickHandler, FluteSegment, RestFetch, FetchFail, vars, MutexFree
<1>3. ASSUME NEW n \in Segment, FlutePlaylist(n) \/ CdnPlaylist(n)
      PROVE  FetchInv'
  BY <1>1, <1>3 DEF FlutePlaylist, CdnPlaylist, StartHandler
<1>4. CASE MergeKnown
  <2>1. handler' # Idle
    BY <1>4, EntryType, NextEntryType DEF MergeKnown, WindowInv, Handler, Idle, Runner
  <2> QED  BY <1>1, <1>4, <2>1 DEF MergeKnown, MutexFree
<1>5. CASE PublishPlaylist
  BY <1>5 DEF PublishPlaylist, FetchInv
<1> QED
  BY <1>2, <1>3, <1>4, <1>5, SweepFetch, MergeNewFetch, TrimFetch,
     FetchDoneFetch DEF Next

LEMMA FetchAlways ==
  ASSUME DistinctUris
  PROVE  Spec => []FetchInv
<1>1. Spec => []NothingEarly
  BY EarlyInit, EarlyStep, WindowAlways, PTL DEF Spec
<1>2. DistinctUris /\ WindowInv /\ NothingEarly /\ FetchInv /\ [Next]_vars => FetchInv'
  BY FetchStep
<1>3. WindowInv /\ NothingEarly /\ FetchInv /\ [Next]_vars => FetchInv'
  BY <1>2
<1> QED  BY <1>1, <1>3, FetchInit, WindowAlways, PTL DEF Spec

(* With distinct URIs, a listed segment without content can always be      *)
(* asked for, and so fetched: neither the sweep nor a late playlist takes  *)
(* it out of the cache.                                                    *)
THEOREM ListedStaysFetchable ==
  ASSUME DistinctUris
  PROVE  Spec => []ListedIsFetchable
<1>1. WindowInv /\ FetchInv => ListedIsFetchable
  <2> SUFFICES ASSUME WindowInv, FetchInv, MutexFree, NEW s \in Seqs,
                      playlist[s] # NoSegment,
                      source[playlist[s]] = "Unavailable"
               PROVE  cache[UriOf[playlist[s]]] = playlist[s]
    BY DEF ListedIsFetchable, Listed
  <2>1. playlist[s] = segments[s] /\ segments[s] \in Segment
    BY DEF FetchInv, WindowInv, TypeOK
  <2> QED  BY <2>1 DEF FetchInv
<1> QED  BY <1>1, FetchAlways, WindowAlways, PTL

------------------------------------------------------------------------------
(* What players may rely on: the properties of LiveWindow, from its Update *)
(* alone, and carried over by RefinesLiveWindow.  All of it is counting:   *)
(* an update keeps the newest SegmentsToKeep of a finite set of sequence   *)
(* numbers, that is, those with fewer than SegmentsToKeep others above     *)
(* them.                                                                   *)

Above(S, s) == {t \in S : t > s}
Below(S, s) == {t \in S : t < s}

(* The newest SegmentsToKeep of S, as LiveWindow has them.                 *)
Kept(S) == {s \in S : Cardinality(Above(S, s)) < SegmentsToKeep}

------------------------------------------------------------------------------
(* Sets of naturals.                                                       *)

LEMMA AboveCount ==
  ASSUME NEW S \in SUBSET Nat, IsFiniteSet(S), NEW s
  PROVE  /\ IsFiniteSet(Above(S, s)) /\ IsFiniteSet(Below(S, s))
         /\ Cardinality(Above(S, s)) \in Nat
         /\ Cardinality(Below(S, s)) \in Nat
<1>1. Above(S, s) \in SUBSET S /\ Below(S, s) \in SUBSET S
  BY DEF Above, Below
<1> QED  BY <1>1, FS_Subset, FS_CardinalityType

(* A member splits a set into those below, itself and those above.         *)
LEMMA SplitAt ==
  ASSUME NEW S \in SUBSET Nat, IsFiniteSet(S), NEW s \in S
  PROVE  Cardinality(S) = Cardinality(Below(S, s)) + Cardinality(Above(S, s)) + 1
<1>0. s \in Nat /\ \A t \in S : t \in Nat
  OBVIOUS
<1>1. S \ {s} = Below(S, s) \cup Above(S, s)
  <2>1. \A t \in S : t # s <=> (t < s \/ t > s)
    BY <1>0
  <2> QED  BY <2>1 DEF Below, Above
<1>2. Below(S, s) \cap Above(S, s) = {}
  <2>1. \A t \in S : ~(t < s /\ t > s)
    BY <1>0
  <2> QED  BY <2>1 DEF Below, Above
<1>3. Cardinality(S \ {s}) = Cardinality(S) - 1
  BY FS_RemoveElement
<1>4. Cardinality(S \ {s}) = Cardinality(Below(S, s)) + Cardinality(Above(S, s)) - 0
  BY <1>1, <1>2, AboveCount, FS_Union, FS_EmptySet
<1>5. Cardinality(S) \in Nat
  BY FS_CardinalityType
<1> QED  BY <1>3, <1>4, <1>5, AboveCount

(* The smaller of two members has more above it.                           *)
LEMMA AboveGrows ==
  ASSUME NEW S \in SUBSET Nat, IsFiniteSet(S), NEW s \in S, NEW t \in S, s < t
  PROVE  Cardinality(Above(S, t)) < Cardinality(Above(S, s))
<1>1. s \in Nat /\ t \in Nat
  OBVIOUS
<1>2. Above(S, t) \in SUBSET Above(S, s)
  <2>1. \A u \in S : u \in Nat /\ (u > t => u > s)
    BY <1>1
  <2> QED  BY <2>1 DEF Above
<1>3. t \in Above(S, s) /\ t \notin Above(S, t)
  BY <1>1 DEF Above
<1>4. /\ Cardinality(Above(S, t)) =< Cardinality(Above(S, s))
      /\ Cardinality(Above(S, s)) = Cardinality(Above(S, t)) => Above(S, s) = Above(S, t)
  BY <1>2, AboveCount, FS_Subset
<1> QED  BY <1>3, <1>4, AboveCount

------------------------------------------------------------------------------
(* What is kept.                                                           *)

(* What is dropped is older than all that is kept.                         *)
LEMMA DroppedIsOlder ==
  ASSUME NEW S \in SUBSET Nat, IsFiniteSet(S), NEW s \in S \ Kept(S), NEW t \in Kept(S)
  PROVE  s < t
<1>1. s \in Nat /\ t \in Nat /\ t \in S
  BY DEF Kept
<1>2. /\ ~(Cardinality(Above(S, s)) < SegmentsToKeep)
      /\ Cardinality(Above(S, t)) < SegmentsToKeep
  BY DEF Kept
<1>3. t < s => Cardinality(Above(S, s)) < Cardinality(Above(S, t))
  BY <1>1, AboveGrows
<1>4. s # t
  BY DEF Kept
<1> QED  BY <1>1, <1>2, <1>3, <1>4, AboveCount, ConstantsAssumption

(* Not more than SegmentsToKeep are kept: the oldest of them has all the   *)
(* others above it.                                                        *)
LEMMA KeptAtMost ==
  ASSUME NEW S \in SUBSET Nat, IsFiniteSet(S)
  PROVE  IsFiniteSet(Kept(S)) /\ Cardinality(Kept(S)) \in 0 .. SegmentsToKeep
<1>1. Kept(S) \in SUBSET S /\ IsFiniteSet(Kept(S)) /\ Cardinality(Kept(S)) \in Nat
  BY FS_Subset, FS_CardinalityType DEF Kept
<1>2. CASE Kept(S) = {}
  BY <1>1, <1>2, FS_EmptySet, ConstantsAssumption
<1>3. CASE Kept(S) # {}
  <2>1. PICK m \in Kept(S) : \A t \in Kept(S) : m =< t
    BY <1>1, <1>3, HasLeast
  <2>2. Kept(S) \ {m} \in SUBSET Above(S, m)
    <3> SUFFICES ASSUME NEW t \in Kept(S), t # m PROVE t \in S /\ t > m
      BY DEF Above
    <3>1. t \in Nat /\ m \in Nat /\ t \in S
      BY <1>1
    <3> QED  BY <2>1, <3>1
  <2>3. Cardinality(Kept(S) \ {m}) = Cardinality(Kept(S)) - 1
    BY <1>1, <2>1, FS_RemoveElement
  <2>4. Cardinality(Kept(S) \ {m}) =< Cardinality(Above(S, m))
    BY <2>2, AboveCount, FS_Subset
  <2>5. Cardinality(Above(S, m)) < SegmentsToKeep
    BY DEF Kept
  <2> QED  BY <1>1, <2>3, <2>4, <2>5, AboveCount, ConstantsAssumption
<1> QED  BY <1>2, <1>3

(* And not fewer if there are as many: the newest of those dropped has     *)
(* SegmentsToKeep above it, all of them kept.                              *)
LEMMA KeptAtLeast ==
  ASSUME NEW S \in SUBSET Nat, IsFiniteSet(S), Cardinality(S) >= SegmentsToKeep
  PROVE  Cardinality(Kept(S)) = SegmentsToKeep
<1> DEFINE Dropped == S \ Kept(S)
           Counts == {Cardinality(Above(S, d)) : d \in Dropped}
<1>1. IsFiniteSet(Kept(S)) /\ Cardinality(Kept(S)) \in 0 .. SegmentsToKeep
  BY KeptAtMost
<1>2. CASE Dropped = {}
  <2>1. Kept(S) = S
    BY <1>2 DEF Kept
  <2> QED  BY <1>1, <2>1, ConstantsAssumption
<1>3. CASE Dropped # {}
  <2>1. Counts \in SUBSET Nat /\ Counts # {}
    BY <1>3, AboveCount
  <2>2. PICK c \in Counts : \A k \in Counts : c =< k
    BY <2>1, HasLeast
  <2>3. PICK x \in Dropped : c = Cardinality(Above(S, x))
    OBVIOUS
  <2>4. Above(S, x) \in SUBSET Kept(S)
    <3> SUFFICES ASSUME NEW t \in S, t > x, t \in Dropped PROVE FALSE
      BY DEF Above
    <3>1. Cardinality(Above(S, t)) < Cardinality(Above(S, x))
      <4>1. x \in Nat /\ t \in Nat
        OBVIOUS
      <4> QED  BY <4>1, AboveGrows
    <3>2. c =< Cardinality(Above(S, t))
      BY <2>2
    <3> QED  BY <2>3, <3>1, <3>2, AboveCount
  <2>5. Cardinality(Above(S, x)) =< Cardinality(Kept(S))
    BY <1>1, <2>4, FS_Subset
  <2>6. ~(Cardinality(Above(S, x)) < SegmentsToKeep)
    BY <2>3 DEF Kept
  <2> QED  BY <1>1, <2>5, <2>6, AboveCount, ConstantsAssumption
<1> QED  BY <1>2, <1>3

------------------------------------------------------------------------------
(* An update.                                                              *)

LEMMA UpdateKeeps ==
  ASSUME Live!Update
  PROVE  \E S \in SUBSET Nat :
           /\ IsFiniteSet(S)
           /\ Live!Entries \subseteq S
           /\ Live!EntriesOf(playlist') = Kept(S)
<1>1. PICK offered \in SUBSET Seqs :
        Live!EntriesOf(playlist') = Live!Newest(Live!Entries \cup offered)
  BY DEF Live!Update
<1> DEFINE S == Live!Entries \cup offered
<1>2. Live!Entries \subseteq Seqs
  BY DEF Live!Entries, Live!EntriesOf
<1>3. S \in SUBSET Seqs
  BY <1>2
<1>4. IsFiniteSet(S) /\ S \in SUBSET Nat
  BY <1>3, SeqsFinite, FS_Subset
<1>5. Live!Newest(S) = Kept(S)
  BY DEF Live!Newest, Live!Cardinality, Cardinality, Kept, Above
<1>6. Live!EntriesOf(playlist') = Kept(S)
  BY <1>1, <1>5
<1>7. Live!Entries \subseteq S
  OBVIOUS
<1> QED  BY <1>4, <1>6, <1>7

(* What leaves the window is older than all that is in it afterwards.      *)
LEMMA UpdateSlides ==
  ASSUME Live!Update,
         NEW s \in Live!Entries \ Live!EntriesOf(playlist'),
         NEW t \in Live!EntriesOf(playlist')
  PROVE  s < t
<1>1. PICK S \in SUBSET Nat :
        IsFiniteSet(S) /\ Live!Entries \subseteq S /\ Live!EntriesOf(playlist') = Kept(S)
  BY UpdateKeeps
<1>2. s \in S \ Kept(S) /\ t \in Kept(S)
  BY <1>1
<1> QED  BY <1>1, <1>2, DroppedIsOlder

LEMMA EntriesFinite ==
  /\ Live!Entries \in SUBSET Nat /\ IsFiniteSet(Live!Entries)
  /\ Cardinality(Live!Entries) \in Nat
<1>1. Live!Entries \in SUBSET Seqs
  BY DEF Live!Entries, Live!EntriesOf
<1> QED  BY <1>1, SeqsFinite, FS_Subset, FS_CardinalityType

(* A full window stays full, and nothing older than its first entry comes  *)
(* in.                                                                     *)
LEMMA UpdateStaysFull ==
  ASSUME Live!Update, Cardinality(Live!Entries) = SegmentsToKeep
  PROVE  /\ Live!EntriesOf(playlist') \in SUBSET Nat
         /\ IsFiniteSet(Live!EntriesOf(playlist'))
         /\ Cardinality(Live!EntriesOf(playlist')) = SegmentsToKeep
         /\ \A t \in Live!EntriesOf(playlist') : \E s \in Live!Entries : s =< t
<1> DEFINE E == Live!Entries
           F == Live!EntriesOf(playlist')
<1>1. PICK S \in SUBSET Nat : IsFiniteSet(S) /\ E \subseteq S /\ F = Kept(S)
  BY UpdateKeeps
<1>2. E \in SUBSET S
  BY <1>1
<1>3. IsFiniteSet(E) /\ Cardinality(E) = SegmentsToKeep
  BY EntriesFinite
<1>4. Cardinality(S) >= SegmentsToKeep
  BY <1>1, <1>2, <1>3, FS_Subset, FS_CardinalityType
<1> HIDE DEF E, F
<1>5. IsFiniteSet(F) /\ Cardinality(F) = SegmentsToKeep /\ F \in SUBSET Nat
  BY <1>1, <1>4, KeptAtMost, KeptAtLeast DEF Kept
<1>6. ASSUME NEW t \in F, \A s \in E : ~(s =< t)
      PROVE  FALSE
  <2>1. t \in Nat /\ \A s \in E : s \in Nat /\ s \in S
    BY <1>1, <1>2, <1>5
  <2>2. E \in SUBSET Above(S, t)
    BY <2>1, <1>6 DEF Above
  <2>3. Cardinality(E) =< Cardinality(Above(S, t))
    BY <2>2, <1>1, AboveCount, FS_Subset
  <2>4. Cardinality(Above(S, t)) < SegmentsToKeep
    BY <1>1 DEF Kept
  <2> QED  BY <2>3, <2>4, <1>1, <1>3, AboveCount, ConstantsAssumption
<1> QED  BY <1>5, <1>6 DEF E, F

(* The number a segment is shown by: its first entry's, and one more for   *)
(* each entry before it.                                                   *)
LEMMA ShownAsCounts ==
  ASSUME NEW p, Live!EntriesOf(p) \in SUBSET Nat, NEW s \in Live!EntriesOf(p)
  PROVE  \E m \in Live!EntriesOf(p) :
           /\ \A t \in Live!EntriesOf(p) : m =< t
           /\ Live!ShownAs(p, s) = m + Cardinality(Below(Live!EntriesOf(p), s))
<1> DEFINE P == Live!EntriesOf(p)
           m == CHOOSE k \in P : \A t \in P : k =< t
<1>1. m \in P /\ \A t \in P : m =< t
  BY HasLeast
<1>2. Live!ShownAs(p, s) = m + Cardinality(Below(P, s))
  BY DEF Live!ShownAs, Live!Cardinality, Cardinality, Below
<1> QED  BY <1>1, <1>2

(* With d entries new above s, at least d have left the full window, all   *)
(* of them between its old first entry and its new one.                    *)
LEMMA UpdateNumbers ==
  ASSUME Live!Update, Cardinality(Live!Entries) = SegmentsToKeep,
         NEW s \in Live!Entries \cap Live!EntriesOf(playlist')
  PROVE  Live!ShownAs(playlist', s) >= Live!ShownAs(playlist, s)
<1> DEFINE E == Live!Entries
           F == Live!EntriesOf(playlist')
<1>1. /\ E \in SUBSET Nat /\ IsFiniteSet(E) /\ Cardinality(E) = SegmentsToKeep
      /\ F \in SUBSET Nat /\ IsFiniteSet(F) /\ Cardinality(F) = SegmentsToKeep
      /\ \A t \in F : \E r \in E : r =< t
  BY EntriesFinite, UpdateStaysFull
<1>2. \A r \in E \ F, t \in F : r < t
  BY UpdateSlides
<1>3. PICK S \in SUBSET Nat : IsFiniteSet(S) /\ E \subseteq S /\ F = Kept(S)
  BY UpdateKeeps
<1>4. E = Live!EntriesOf(playlist)
  BY DEF Live!Entries
<1>5. PICK a \in E : /\ \A t \in E : a =< t
                    /\ Live!ShownAs(playlist, s) = a + Cardinality(Below(E, s))
  BY <1>1, <1>4, ShownAsCounts
<1>6. PICK b \in F : /\ \A t \in F : b =< t
                    /\ Live!ShownAs(playlist', s) = b + Cardinality(Below(F, s))
  BY <1>1, ShownAsCounts
<1>7. s \in E /\ s \in F
  OBVIOUS
<1> HIDE DEF E, F
<1>8. a \in Nat /\ b \in Nat /\ s \in Nat /\ a =< b
  <2>1. PICK r \in E : r =< b
    BY <1>1, <1>6
  <2>2. a \in Nat /\ b \in Nat /\ s \in Nat /\ r \in Nat
    BY <1>1, <1>7
  <2> QED  BY <2>1, <2>2, <1>5
<1>9. /\ Cardinality(Below(E, s)) + Cardinality(Above(E, s)) + 1 = SegmentsToKeep
      /\ Cardinality(Below(F, s)) + Cardinality(Above(F, s)) + 1 = SegmentsToKeep
  BY <1>1, <1>7, SplitAt
<1>10. Cardinality(E \ F) =< b - a
  <2>1. E \ F \in SUBSET (a .. b - 1)
    <3> SUFFICES ASSUME NEW r \in E \ F PROVE r \in a .. b - 1
      OBVIOUS
    <3>1. r \in Nat /\ a =< r /\ r < b
      BY <1>1, <1>2, <1>5, <1>6
    <3> QED  BY <3>1, <1>8
  <2>2. b - 1 \in Int /\ a \in Int
    BY <1>8
  <2>3. /\ IsFiniteSet(a .. b - 1)
        /\ Cardinality(a .. b - 1) = IF a > b - 1 THEN 0 ELSE b - 1 - a + 1
    BY <2>2, FS_Interval
  <2>4. Cardinality(E \ F) =< Cardinality(a .. b - 1)
    BY <2>1, <2>3, FS_Subset
  <2>5. Cardinality(E \ F) \in Nat
    BY <1>1, FS_Difference, FS_CardinalityType
  <2> QED  BY <1>8, <2>3, <2>4, <2>5
<1>11. Cardinality(F \ E) = Cardinality(E \ F)
  <2>1. /\ Cardinality(E \ F) = Cardinality(E) - Cardinality(E \cap F)
        /\ Cardinality(F \ E) = Cardinality(F) - Cardinality(F \cap E)
    BY <1>1, FS_Difference
  <2>2. E \cap F = F \cap E
    OBVIOUS
  <2> QED  BY <1>1, <2>1, <2>2
<1>12. Cardinality(Above(F, s)) - Cardinality(Above(E, s)) =< Cardinality(F \ E)
  <2>1. Above(E, s) \in SUBSET Above(F, s)
    <3> SUFFICES ASSUME NEW t \in E, t > s PROVE t \in F
      BY DEF Above
    <3>1. t \in Nat
      BY <1>1
    <3>2. t \notin F => t < s
      BY <1>2, <1>7
    <3> QED  BY <1>8, <3>1, <3>2
  <2>2. Above(F, s) \cap Above(E, s) = Above(E, s)
    BY <2>1
  <2>3. Cardinality(Above(F, s) \ Above(E, s))
        = Cardinality(Above(F, s)) - Cardinality(Above(E, s))
    <3>1. IsFiniteSet(Above(F, s))
      BY <1>1, AboveCount
    <3>2. Cardinality(Above(F, s) \ Above(E, s))
          = Cardinality(Above(F, s)) - Cardinality(Above(F, s) \cap Above(E, s))
      BY <3>1, FS_Difference
    <3> QED  BY <2>2, <3>2
  <2>4. Above(F, s) \ Above(E, s) \in SUBSET (F \ E)
    BY DEF Above
  <2>5. IsFiniteSet(F \ E)
    BY <1>1, FS_Difference
  <2> QED  BY <2>3, <2>4, <2>5, FS_Subset
<1>13. Cardinality(E \ F) \in Nat
  BY <1>1, FS_Difference, FS_CardinalityType
<1> QED
  BY <1>1, <1>5, <1>6, <1>8, <1>9, <1>10, <1>11, <1>12, <1>13, AboveCount, ConstantsAssumption

------------------------------------------------------------------------------
(* The properties of the stream.                                           *)

LEMMA LiveSteps == Spec => [][Live!Next]_playlist
BY RefinesLiveWindow, PTL DEF ImplementsLiveWindow, Live!Spec

(* What an update of the playlist drops is older than all that is in it    *)
(* afterwards, whatever the two sources send and when.                     *)
THEOREM WindowSlidesForward == Spec => SlidesForward
<1> DEFINE A == \A s \in Live!Entries \ Live!Entries', t \in Live!Entries' : s < t
<1>1. [Live!Next]_playlist => [A]_playlist
  BY UpdateSlides DEF Live!Next, Live!Entries
<1>2. Spec => [][A]_playlist
  BY <1>1, LiveSteps, PTL
<1> QED  BY <1>2 DEF SlidesForward, Live!SlidesForward

(* A full window stays full and its media sequence number never goes back. *)
THEOREM MediaSequenceStays == Spec => MediaSequenceNeverGoesBack
<1> DEFINE A == Live!Cardinality(Live!Entries) = SegmentsToKeep =>
                  /\ Live!Cardinality(Live!Entries') = SegmentsToKeep
                  /\ \A t \in Live!Entries' : \E s \in Live!Entries : s =< t
<1>1. [Live!Next]_playlist => [A]_playlist
  BY UpdateStaysFull DEF Live!Next, Live!Entries, Live!Cardinality, Cardinality
<1>2. Spec => [][A]_playlist
  BY <1>1, LiveSteps, PTL
<1> QED
  BY <1>2 DEF MediaSequenceNeverGoesBack, Live!MediaSequenceNeverGoesBack

(* In a full window the number players give a segment never falls, however *)
(* many playlists were missed or come late.                                *)
THEOREM NumbersNeverFall == Spec => ShownNumbersNeverFall
<1> DEFINE A == Live!Cardinality(Live!Entries) = SegmentsToKeep =>
                  \A s \in Live!Entries \cap Live!Entries' :
                    Live!ShownAs(playlist', s) >= Live!ShownAs(playlist, s)
<1>1. [Live!Next]_playlist => [A]_playlist
  BY UpdateNumbers DEF Live!Next, Live!Entries, Live!Cardinality, Cardinality
<1>2. Spec => [][A]_playlist
  BY <1>1, LiveSteps, PTL
<1> QED
  BY <1>2 DEF ShownNumbersNeverFall, Live!ShownNumbersNeverFall

------------------------------------------------------------------------------
(* All that is listed is cached, until the sweep takes something.          *)

CachedInv ==
  \A s \in Seqs : segments[s] # NoSegment => cache[UriOf[segments[s]]] = segments[s]

SweepTakesNothing == CheckFileExpiry => cache' = cache

LEMMA CachedStep ==
  ASSUME DistinctUris, WindowInv, CachedInv, [Next]_vars, SweepTakesNothing
  PROVE  CachedInv'
<1>1. TypeOK
  BY DEF WindowInv
<1>2. ASSUME UNCHANGED <<segments, cache>> PROVE CachedInv'
  BY <1>2 DEF CachedInv
<1>3. CASE \/ Publish \/ TickHandler \/ MergeKnown \/ PublishPlaylist \/ UNCHANGED vars
           \/ \E n \in Segment : \/ FluteSegment(n) \/ FlutePlaylist(n) \/ CdnPlaylist(n)
                                 \/ RestFetch(n) \/ FetchDone(n) \/ FetchFail(n)
  BY <1>2, <1>3 DEF Publish, TickHandler, MergeKnown, PublishPlaylist, FluteSegment,
     FlutePlaylist, CdnPlaylist, RestFetch, FetchDone, FetchFail, vars
<1>4. CASE CheckFileExpiry
  BY <1>2, <1>4 DEF CheckFileExpiry, SweepTakesNothing
<1>5. CASE MergeNew
  <2> DEFINE n == handler.next
  <2>1. n \in Segment
    BY <1>1, <1>5, EntryType DEF MergeNew
  <2>2. SeqNr[n] \in Seqs /\ UriOf[n] \in Uris
    BY <2>1 DEF Seqs, Uris
  <2>3. /\ segments' = [segments EXCEPT ![SeqNr[n]] = n]
        /\ cache' = [cache EXCEPT ![UriOf[n]] = n]
    BY <1>5 DEF MergeNew, CacheSegment
  <2> HIDE DEF n
  <2>4. ASSUME NEW s \in Seqs, segments'[s] # NoSegment
        PROVE  cache'[UriOf[segments'[s]]] = segments'[s]
    <3>1. CASE s = SeqNr[n]
      BY <3>1, <2>2, <2>3, <1>1 DEF TypeOK
    <3>2. CASE s # SeqNr[n]
      <4>1. segments'[s] = segments[s] /\ segments[s] \in Segment
        BY <3>2, <2>3, <2>4, <1>1 DEF TypeOK
      <4>2. segments[s] # n
        BY <4>1, <3>2, <2>4 DEF WindowInv, Placed
      <4>3. cache[UriOf[segments[s]]] = segments[s]
        BY <4>1, <2>4 DEF CachedInv
      <4>4. UriOf[segments[s]] # UriOf[n] /\ UriOf[segments[s]] \in Uris
        BY <4>1, <4>2, <2>1 DEF DistinctUris, Uris
      <4> QED  BY <4>1, <4>3, <4>4, <2>3, <1>1 DEF TypeOK
    <3> QED  BY <3>1, <3>2
  <2> QED  BY <2>4 DEF CachedInv
<1>6. CASE TrimOldest
  <2>1. PICK s \in Seqs :
          /\ IsOldest(s, Window)
          /\ segments' = [segments EXCEPT ![s] = NoSegment]
          /\ cache' = [cache EXCEPT ![UriOf[segments[s]]] = NoSegment]
    BY <1>6 DEF TrimOldest, Uncache
  <2>2. segments[s] \in Segment /\ SeqNr[segments[s]] = s
    BY <1>1, <2>1 DEF IsOldest, Window, WindowInv, Placed, TypeOK
  <2>3. ASSUME NEW r \in Seqs, segments'[r] # NoSegment
        PROVE  cache'[UriOf[segments'[r]]] = segments'[r]
    <3>1. r # s /\ segments'[r] = segments[r] /\ segments[r] \in Segment
      BY <1>1, <2>1, <2>3 DEF TypeOK
    <3>2. segments[r] # segments[s]
      BY <3>1, <2>2 DEF WindowInv, Placed, NoSegment, Segment
    <3>3. cache[UriOf[segments[r]]] = segments[r]
      BY <3>1, <2>3 DEF CachedInv
    <3>4. UriOf[segments[r]] # UriOf[segments[s]] /\ UriOf[segments[r]] \in Uris
      BY <3>1, <3>2, <2>2 DEF DistinctUris, Uris
    <3> QED  BY <3>1, <3>3, <3>4, <2>1, <1>1 DEF TypeOK
  <2> QED  BY <2>3 DEF CachedInv
<1> QED  BY <1>3, <1>4, <1>5, <1>6 DEF Next

(* With distinct URIs, every listed segment is in the cache, whatever the  *)
(* two sources and the clients do, up to the first segment that the sweep  *)
(* (CacheManagement.cpp:36) takes.                                         *)
THEOREM ListedCachedUntilSwept ==
  ASSUME DistinctUris
  PROVE  Spec /\ [][SweepTakesNothing]_vars => []ListedIsCached
<1>1. Init => CachedInv
  BY DEF Init, CachedInv
<1>2. WindowInv /\ CachedInv /\ [Next]_vars /\ [SweepTakesNothing]_vars => CachedInv'
  <2>1. UNCHANGED vars => SweepTakesNothing
    BY DEF vars, SweepTakesNothing
  <2> QED  BY <2>1, CachedStep
<1>3. Spec /\ [][SweepTakesNothing]_vars => []CachedInv
  BY <1>1, <1>2, WindowAlways, PTL DEF Spec
<1>4. CachedInv /\ FetchInv => ListedIsCached
  BY DEF CachedInv, FetchInv, ListedIsCached, Listed
<1> QED  BY <1>3, <1>4, FetchAlways, PTL
================================================================================
