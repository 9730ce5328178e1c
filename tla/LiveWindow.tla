----------------------------- MODULE LiveWindow -----------------------------
(***************************************************************************)
(* What a seamless stream promises the players that poll its media         *)
(* playlist, whatever its sources send and in whatever order: the playlist *)
(* is a window onto the stream that only slides forward.                   *)
(*                                                                         *)
(* One variable, the playlist last served.  A change of it takes some new  *)
(* entries in and keeps the newest Keep of what is then there.  How        *)
(* SeamlessContentStream comes to that (two sources, two threads, a merge  *)
(* entry by entry and a trimming loop) is not visible here; that it does   *)
(* implement this module is checked and proved in SeamlessContentStream    *)
(* and SeamlessContentStreamProofs.                                        *)
(***************************************************************************)
EXTENDS Integers, FiniteSets

CONSTANTS
  Seqs,      \* media sequence numbers, finitely many naturals
  Segment,   \* segments
  NoSegment, \* stands for "not in the playlist"
  Keep       \* the size of the window

VARIABLE playlist

EntriesOf(p) == {s \in Seqs : p[s] # NoSegment}
Entries == EntriesOf(playlist)

(* The Keep greatest elements of S.                                        *)
Newest(S) == {s \in S : Cardinality({t \in S : t > s}) < Keep}

Init == playlist = [s \in Seqs |-> NoSegment]

(* Take entries at the sequence numbers `offered` in, but never a second   *)
(* time at one that is there.                                              *)
Update ==
  /\ playlist' \in [Seqs -> Segment \cup {NoSegment}]
  /\ \E offered \in SUBSET Seqs :
       LET kept == Newest(Entries \cup offered)
       IN  /\ EntriesOf(playlist') = kept
           /\ \A s \in kept \cap Entries : playlist'[s] = playlist[s]

Next == Update
Spec == Init /\ [][Next]_playlist

------------------------------------------------------------------------------
(* What an update drops is older than all that is in the window after it:  *)
(* the window loses segments at its old end only.  Late playlists of the   *)
(* slower source are what could break this.                                *)
SlidesForward ==
  [][\A s \in Entries \ Entries', t \in Entries' : s < t]_playlist

(* Once the window is full it stays full and its first entry, the          *)
(* EXT-X-MEDIA-SEQUENCE players rely on, never goes back.                  *)
MediaSequenceNeverGoesBack ==
  [][Cardinality(Entries) = Keep =>
       /\ Cardinality(Entries') = Keep
       /\ \A t \in Entries' : \E s \in Entries : s =< t]_playlist

(* The number a player knows entry s of window p by: a media playlist says *)
(* the number of its first entry, and players count on from there.  With a *)
(* gap below s it is less than s.                                          *)
ShownAs(p, s) ==
  LET oldest == CHOOSE m \in EntriesOf(p) : \A t \in EntriesOf(p) : m =< t
  IN  oldest + Cardinality({t \in EntriesOf(p) : t < s})

(* The number a player knows a segment by may change, when a gap (playlists*)
(* that were missed) leaves the full window or a late playlist fills it,   *)
(* but it never falls: a player does not take what it has played for new.  *)
ShownNumbersNeverFall ==
  [][Cardinality(Entries) = Keep =>
       \A s \in Entries \cap Entries' :
         ShownAs(playlist', s) >= ShownAs(playlist, s)]_playlist
==============================================================================
