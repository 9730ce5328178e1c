----------------------- MODULE MCSeamlessContentStream -----------------------
(* Instances of SeamlessContentStream for TLC.                             *)
EXTENDS SeamlessContentStream, Sequences

(* Sequence numbers and URIs as an encoder counts them.                    *)
Counting == [n \in 1 .. Published |-> n]

(* Playlists of the last three segments.                                   *)
SlidingBy3 == [n \in 1 .. Published |-> IF n =< 3 THEN 1 ELSE n - 2]

(* The encoder restarts after two segments: MEDIA-SEQUENCE starts over,    *)
(* with a new playlist; the file names do not.  Playlists are of one entry *)
(* but for the last one, so that missing one leaves a gap.                 *)
Restarting == [n \in 1 .. Published |-> IF n =< 2 THEN n + 1 ELSE n - 2]
SlidingAnew == [n \in 1 .. Published |-> IF n =< 3 THEN n ELSE 3]
==============================================================================
