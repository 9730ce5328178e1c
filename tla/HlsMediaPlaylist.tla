--------------------------- MODULE HlsMediaPlaylist ---------------------------
(***************************************************************************)
(* Parsing and rendering of HLS media playlists: the constructor of        *)
(* HlsMediaPlaylist turn by turn of its loop over the lines, and           *)
(* to_string.  A playlist is parsed; a seamless stream's handle_playlist   *)
(* then renders a window of such segments, in the order of their numbers;  *)
(* and a reader parses what was rendered, the way this constructor does.   *)
(*                                                                         *)
(* A line is the kind of line it is and the number after its last ':'.     *)
(***************************************************************************)
EXTENDS Integers, Sequences, FiniteSets

CONSTANTS
  Contents,  \* the texts that may be parsed: sequences of lines
  Leftover,  \* what an uninitialised int may hold
  INT,       \* one more than the greatest int
  Digit,     \* durations are in units of which the last digit written is Digit
  NoValue    \* of a line without ':'

Tag == {"#EXTM3U", "#EXT-X-VERSION", "#EXT-X-TARGETDURATION",
        "#EXT-X-MEDIA-SEQUENCE", "#EXTINF", "ignored", "uri"}

(* The value of a uri line is the uri, to which slashes were prefixed.     *)
Line == [tag : Tag, value : Int \cup {NoValue}, slashes : Nat]

ASSUME ConstantsAssumption ==
  /\ Contents \subseteq Seq(Line)
  /\ Leftover # {} /\ Leftover \subseteq 0 .. INT - 1
  /\ INT \in Nat \ {0} /\ Digit \in Nat \ {0}
  /\ NoValue \notin Int

VARIABLES
  content,        \* the text being parsed
  idx,            \* how many of its lines have been read
  version,        \* _version
  targetduration, \* _targetduration
  seq_nr, extinf, \* for the next segment
  segments,       \* _segments
  outcome,        \* whether the constructor is in its loop, returned or threw
  rendered        \* the window that content was rendered from, if it was

vars == <<content, idx, version, targetduration, seq_nr, extinf, segments, outcome,
          rendered>>

Received == [segments |-> <<>>, targetduration |-> -1]

(* The beginning of the constructor.  _targetduration is not initialised.  *)
Init ==
  /\ content \in Contents
  /\ idx = 0 /\ version = -1 /\ seq_nr = 0 /\ extinf = -1 /\ segments = <<>>
  /\ targetduration \in Leftover
  /\ outcome = "parsing"
  /\ rendered = Received

------------------------------------------------------------------------------
(* The loop.                                                               *)

(* Fault variant: atol and a long.                                         *)
AsLong(n) == n

(* atoi, and the increment of an int: what is too large wraps.             *)
AsInt(n) == IF n \in -INT .. INT - 1 THEN n ELSE ((n + INT) % (2 * INT)) - INT

(* A line without a value leaves a variable as it is.                      *)
HasValue == content[idx + 1].value # NoValue
IntOr(old) == IF HasValue THEN AsInt(content[idx + 1].value) ELSE old

(* The loop's turn at a line of this kind that is not the first.           *)
Turn(tag) ==
  /\ outcome = "parsing"
  /\ 0 < idx /\ idx < Len(content)
  /\ content[idx + 1].tag = tag

Throws ==
  /\ outcome' = "thrown"
  /\ UNCHANGED <<content, idx, version, targetduration, seq_nr, extinf, segments, rendered>>

FirstLine ==
  /\ outcome = "parsing" /\ idx = 0 /\ content # <<>>
  /\ IF content[1].tag = "#EXTM3U"
       THEN idx' = 1 /\ UNCHANGED <<content, version, targetduration, seq_nr, extinf,
                                    segments, outcome, rendered>>
       ELSE Throws

(* Fault variant: no check.                                                *)
NeverDuplicate == FALSE

DuplicateVersion == version # -1

VersionLine ==
  /\ Turn("#EXT-X-VERSION")
  /\ IF DuplicateVersion
       THEN Throws
       ELSE /\ version' = IntOr(version)
            /\ idx' = idx + 1
            /\ UNCHANGED <<content, targetduration, seq_nr, extinf, segments, outcome,
                           rendered>>

TargetDurationLine ==
  /\ Turn("#EXT-X-TARGETDURATION")
  /\ targetduration' = IntOr(targetduration)
  /\ idx' = idx + 1
  /\ UNCHANGED <<content, version, seq_nr, extinf, segments, outcome, rendered>>

MediaSequenceLine ==
  /\ Turn("#EXT-X-MEDIA-SEQUENCE")
  /\ seq_nr' = IntOr(seq_nr)
  /\ idx' = idx + 1
  /\ UNCHANGED <<content, version, targetduration, extinf, segments, outcome, rendered>>

ExtInfLine ==
  /\ Turn("#EXTINF")
  /\ extinf' = IF HasValue THEN content[idx + 1].value ELSE extinf
  /\ idx' = idx + 1
  /\ UNCHANGED <<content, version, targetduration, seq_nr, segments, outcome, rendered>>

(* Tags that are not known, and empty lines.                               *)
IgnoredLine ==
  /\ Turn("ignored") \/ Turn("#EXTM3U")
  /\ idx' = idx + 1
  /\ UNCHANGED <<content, version, targetduration, seq_nr, extinf, segments, outcome,
                 rendered>>

(* Fault variant: ++seq_nr.                                                *)
SegmentAfterIncrement(line) ==
  [uri |-> line.value, slashes |-> line.slashes, seq |-> AsInt(seq_nr + 1),
   extinf |-> extinf]

SegmentOf(line) ==
  [uri |-> line.value, slashes |-> line.slashes, seq |-> seq_nr, extinf |-> extinf]

(* The duration of the segment before is not forgotten.                    *)
UriLine ==
  /\ Turn("uri")
  /\ segments' = Append(segments, SegmentOf(content[idx + 1]))
  /\ seq_nr' = AsInt(seq_nr + 1)
  /\ idx' = idx + 1
  /\ UNCHANGED <<content, version, targetduration, extinf, outcome, rendered>>

EndOfText ==
  /\ outcome = "parsing"
  /\ idx = Len(content)
  /\ outcome' = "parsed"
  /\ UNCHANGED <<content, idx, version, targetduration, seq_nr, extinf, segments, rendered>>

------------------------------------------------------------------------------
(* Rendering.                                                              *)

Written(tag, value) == [tag |-> tag, value |-> value, slashes |-> 0]

(* A stream writes six significant digits of a double.                     *)
Rounded(d) == IF d < 0 THEN d ELSE ((d + Digit \div 2) \div Digit) * Digit

(* Fault variant: the number of the last segment.                          *)
SequenceOfLast(window) == window[Len(window)].seq

SequenceOf(window) == window[1].seq

(* to_string.                                                              *)
PlaylistText(window, target) ==
  IF window = <<>> THEN <<Written("#EXTM3U", NoValue), Written("#EXT-X-VERSION", 3)>>
  ELSE [k \in 1 .. 4 + 2 * Len(window) |->
    IF k = 1 THEN Written("#EXTM3U", NoValue)
    ELSE IF k = 2 THEN Written("#EXT-X-VERSION", 3)
    ELSE IF k = 3 THEN Written("#EXT-X-TARGETDURATION", target)
    ELSE IF k = 4 THEN Written("#EXT-X-MEDIA-SEQUENCE", SequenceOf(window))
    ELSE IF k % 2 = 1 THEN Written("#EXTINF", Rounded(window[(k - 3) \div 2].extinf))
    ELSE [tag |-> "uri", value |-> window[(k - 4) \div 2].uri,
          slashes |-> window[(k - 4) \div 2].slashes + 1]]

(* handle_playlist renders segments it has kept, one per number and in the *)
(* order of their numbers; a reader parses the result.                     *)
Render(window) ==
  /\ outcome = "parsed" /\ rendered = Received
  /\ content' = PlaylistText(window, targetduration)
  /\ rendered' = [segments |-> window, targetduration |-> targetduration]
  /\ idx' = 0 /\ version' = -1 /\ seq_nr' = 0 /\ extinf' = -1 /\ segments' = <<>>
  /\ targetduration' \in Leftover
  /\ outcome' = "parsing"

(* Some of the parsed segments, by the positions picked.                   *)
Windows ==
  UNION {{[i \in 1 .. n |-> segments[pick[i]]] :
            pick \in {p \in [1 .. n -> DOMAIN segments] :
                        \A i, j \in 1 .. n : i < j => segments[p[i]].seq < segments[p[j]].seq}} :
         n \in 0 .. Len(segments)}

ReadLine ==
  \/ FirstLine
  \/ VersionLine \/ TargetDurationLine \/ MediaSequenceLine \/ ExtInfLine
  \/ IgnoredLine
  \/ UriLine
  \/ EndOfText

Next == ReadLine \/ \E window \in Windows : Render(window)

Spec == Init /\ [][Next]_vars

------------------------------------------------------------------------------
(* Properties.                                                             *)

Int32 == -INT .. INT - 1
Segment == [uri : Int \cup {NoValue}, slashes : Nat, seq : Int32, extinf : Int]

(* Type invariant.                                                         *)
TypeOK ==
  /\ content \in Seq(Line)
  /\ idx \in 0 .. Len(content)
  /\ version \in Int32 /\ targetduration \in Int32 /\ seq_nr \in Int32
  /\ extinf \in Int
  /\ segments \in Seq(Segment)
  /\ outcome \in {"parsing", "parsed", "thrown"}
  /\ rendered \in [segments : Seq(Segment), targetduration : Int32]

LinesRead(tag) == {k \in 2 .. idx : content[k].tag = tag}
Before(tag, k) == {j \in LinesRead(tag) : j < k /\ content[j].value # NoValue}
LastOf(lines) == CHOOSE m \in lines : \A j \in lines : j =< m

(* What the text says of the segment whose uri is in line k: the duration  *)
(* given last, and the number given last plus the segments since then.     *)
Duration(k) ==
  IF Before("#EXTINF", k) = {} THEN -1 ELSE content[LastOf(Before("#EXTINF", k))].value
Number(k) ==
  LET given == Before("#EXT-X-MEDIA-SEQUENCE", k)
      since == IF given = {} THEN 1 ELSE LastOf(given)
  IN  (IF given = {} THEN 0 ELSE content[since].value)
      + Cardinality({j \in LinesRead("uri") : since < j /\ j < k})

(* The loop, which carries the number and the duration along, finds the    *)
(* segments of the text in their order, with the durations and, as long as *)
(* an int can hold them, the numbers the text gives them.                  *)
SegmentsAsWritten ==
  LET uris == LinesRead("uri")
  IN  /\ Len(segments) = Cardinality(uris)
      /\ \A k \in uris :
           LET segment == segments[Cardinality({j \in uris : j =< k})]
           IN  /\ segment.uri = content[k].value
               /\ segment.extinf = Duration(k)
               /\ Number(k) < INT => segment.seq = Number(k)

(* What handle_playlist wrote is read back without an exception: the same  *)
(* segments and durations, six digits of them.  The numbers count on from  *)
(* the first, whatever gaps the window has: a reader knows a segment by a  *)
(* number that is never above its own.                                     *)
ReadBack ==
  rendered # Received =>
    /\ outcome # "thrown"
    /\ \A i \in DOMAIN segments :
         /\ segments[i].uri = rendered.segments[i].uri
         /\ segments[i].extinf = Rounded(rendered.segments[i].extinf)
         /\ segments[i].seq = rendered.segments[1].seq + i - 1
         /\ segments[i].seq =< rendered.segments[i].seq
    /\ outcome = "parsed" =>
         /\ Len(segments) = Len(rendered.segments)
         /\ segments # <<>> => targetduration = rendered.targetduration

(* A text without the first line, or with two versions.                    *)
Malformed ==
  \/ content # <<>> /\ content[1].tag # "#EXTM3U"
  \/ \E j, k \in 2 .. Len(content) :
       /\ j < k
       /\ {content[j].tag, content[k].tag} = {"#EXT-X-VERSION"}
       /\ content[j].value # NoValue

(* The constructor throws for such a text, and for no other: what it       *)
(* throws is a string, which no handler of std::exception (main.cpp:158)   *)
(* catches, so it must not be thrown lightly.                              *)
ThrowsForMalformed ==
  /\ outcome = "thrown" => Malformed
  /\ outcome = "parsed" => ~Malformed
==============================================================================
