------------------------ MODULE HlsMediaPlaylistProofs ------------------------
(***************************************************************************)
(* Proofs about HlsMediaPlaylist, for every text, every window of parsed   *)
(* segments and every width of an int:                                     *)
(*   - TypeCorrect: TypeOK is an invariant; numbers never leave an int;    *)
(*   - WrittenIsReadBack: ReadBack is an invariant;                        *)
(*   - ThrowsExactlyForMalformed: ThrowsForMalformed is an invariant, if   *)
(*     no version reads as -1;                                             *)
(*   - SegmentsFoundAsWritten: SegmentsAsWritten is an invariant, if no    *)
(*     number given is too small for an int.                               *)
(***************************************************************************)
EXTENDS HlsMediaPlaylist, SharedLemmas

(* What is read into an int is an int.                                     *)
LEMMA AsIntType ==
  ASSUME NEW n \in Int
  PROVE  AsInt(n) \in Int32 /\ (n \in Int32 => AsInt(n) = n)
<1>1. INT \in Nat \ {0} /\ 2 * INT \in Nat \ {0}
  BY ConstantsAssumption
<1>2. (n + INT) % (2 * INT) \in 0 .. 2 * INT - 1
  BY <1>1
<1> QED  BY <1>1, <1>2 DEF AsInt, Int32

LEMMA AsIntFits == \A n \in Int32 : n \in Int /\ AsInt(n) = n
<1>1. INT \in Nat
  BY ConstantsAssumption
<1>2. \A n \in Int32 : n \in Int
  BY <1>1 DEF Int32
<1> QED  BY <1>2, AsIntType

LEMMA LineType ==
  ASSUME TypeOK, idx < Len(content)
  PROVE  /\ content[idx + 1] \in Line
         /\ idx + 1 \in 0 .. Len(content)
<1>1. content \in Seq(Line) /\ idx \in 0 .. Len(content) /\ Len(content) \in Nat
  BY DEF TypeOK
<1>2. idx + 1 \in 1 .. Len(content)
  BY <1>1
<1> QED  BY <1>1, <1>2

LEMMA IntOrType ==
  ASSUME TypeOK, idx < Len(content), NEW old \in Int32
  PROVE  IntOr(old) \in Int32
<1>1. content[idx + 1].value \in Int \cup {NoValue}
  BY LineType DEF Line
<1> QED  BY <1>1, AsIntType DEF IntOr, HasValue

(* A window of parsed segments is a sequence of segments.                  *)
LEMMA WindowsType ==
  ASSUME TypeOK, NEW window \in Windows
  PROVE  /\ window \in Seq(Segment)
         /\ \A i, j \in DOMAIN window : i < j => window[i].seq < window[j].seq
<1> DEFINE Picks(n) == {p \in [1 .. n -> DOMAIN segments] :
                          \A i, j \in 1 .. n : i < j => segments[p[i]].seq < segments[p[j]].seq}
           Of(n) == {[i \in 1 .. n |-> segments[pick[i]]] : pick \in Picks(n)}
<1>A. window \in UNION {Of(n) : n \in 0 .. Len(segments)}
  BY Zenon DEF Windows
<1>B. PICK n \in 0 .. Len(segments) : window \in Of(n)
  BY <1>A
<1>1. PICK pick \in Picks(n) : window = [i \in 1 .. n |-> segments[pick[i]]]
  BY <1>B
<1>2. segments \in Seq(Segment) /\ n \in Nat
  BY DEF TypeOK
<1>3. \A i \in 1 .. n : segments[pick[i]] \in Segment
  BY <1>2
<1>4. window \in [1 .. n -> Segment]
  BY <1>1, <1>3
<1>5. DOMAIN window = 1 .. n
  BY <1>1
<1>6. window \in Seq(Segment)
  BY <1>2, <1>4
<1>7. \A i \in 1 .. n : window[i] = segments[pick[i]]
  BY <1>1
<1> QED  BY <1>1, <1>5, <1>6, <1>7

LEMMA RoundedType ==
  ASSUME NEW d \in Int
  PROVE  Rounded(d) \in Int
<1>1. Digit \in Nat \ {0} /\ Digit \div 2 \in Int
  BY ConstantsAssumption
<1>2. (d + Digit \div 2) \div Digit \in Int
  BY <1>1
<1> QED  BY <1>1, <1>2 DEF Rounded

(* The lines to_string writes for a window with segments.                  *)
LEMMA RenderedLines ==
  ASSUME NEW window \in Seq(Segment), window # <<>>, NEW target \in Int32
  PROVE  /\ PlaylistText(window, target) \in Seq(Line)
         /\ Len(PlaylistText(window, target)) = 4 + 2 * Len(window)
         /\ PlaylistText(window, target)[1] = Written("#EXTM3U", NoValue)
         /\ PlaylistText(window, target)[2] = Written("#EXT-X-VERSION", 3)
         /\ PlaylistText(window, target)[3] = Written("#EXT-X-TARGETDURATION", target)
         /\ PlaylistText(window, target)[4] = Written("#EXT-X-MEDIA-SEQUENCE", window[1].seq)
         /\ \A i \in DOMAIN window :
              /\ PlaylistText(window, target)[3 + 2 * i]
                   = Written("#EXTINF", Rounded(window[i].extinf))
              /\ PlaylistText(window, target)[4 + 2 * i]
                   = [tag |-> "uri", value |-> window[i].uri,
                      slashes |-> window[i].slashes + 1]
<1> DEFINE t == PlaylistText(window, target)
           n == Len(window)
           LineOf(k) ==
             IF k = 1 THEN Written("#EXTM3U", NoValue)
             ELSE IF k = 2 THEN Written("#EXT-X-VERSION", 3)
             ELSE IF k = 3 THEN Written("#EXT-X-TARGETDURATION", target)
             ELSE IF k = 4 THEN Written("#EXT-X-MEDIA-SEQUENCE", window[1].seq)
             ELSE IF k % 2 = 1
               THEN Written("#EXTINF", Rounded(window[(k - 3) \div 2].extinf))
             ELSE [tag |-> "uri", value |-> window[(k - 4) \div 2].uri,
                   slashes |-> window[(k - 4) \div 2].slashes + 1]
<1>1. n \in Nat \ {0} /\ DOMAIN window = 1 .. n
  OBVIOUS
<1>2. 4 + 2 * n \in Nat
  BY <1>1
<1> HIDE DEF n
<1>4. DOMAIN t = 1 .. 4 + 2 * n
  BY DEF PlaylistText, n
<1>5. /\ 1 \in 1 .. 4 + 2 * n /\ 2 \in 1 .. 4 + 2 * n /\ 3 \in 1 .. 4 + 2 * n
      /\ 4 \in 1 .. 4 + 2 * n
  BY <1>1
<1>A. t = [k \in 1 .. 4 + 2 * n |-> LineOf(k)]
  BY DEF PlaylistText, SequenceOf, n
<1> HIDE DEF t, LineOf
<1>3. \A k \in 1 .. 4 + 2 * n : t[k] = LineOf(k)
  BY <1>A, Zenon
<1>9. t[1] = Written("#EXTM3U", NoValue) /\ t[2] = Written("#EXT-X-VERSION", 3)
      /\ t[3] = Written("#EXT-X-TARGETDURATION", target)
      /\ t[4] = Written("#EXT-X-MEDIA-SEQUENCE", window[1].seq)
  <2>1. t[1] = LineOf(1) /\ t[2] = LineOf(2) /\ t[3] = LineOf(3) /\ t[4] = LineOf(4)
    BY <1>3, <1>5
  <2> QED  BY <2>1 DEF LineOf
<1>6. ASSUME NEW i \in 1 .. n
      PROVE  /\ t[3 + 2 * i] = Written("#EXTINF", Rounded(window[i].extinf))
             /\ t[4 + 2 * i] = [tag |-> "uri", value |-> window[i].uri,
                                slashes |-> window[i].slashes + 1]
  <2>1. 3 + 2 * i \in 1 .. 4 + 2 * n /\ 4 + 2 * i \in 1 .. 4 + 2 * n
    BY <1>1
  <2>2. /\ (3 + 2 * i) % 2 = 1 /\ ((3 + 2 * i) - 3) \div 2 = i
        /\ (4 + 2 * i) % 2 = 0 /\ ((4 + 2 * i) - 4) \div 2 = i
    OBVIOUS
  <2>3. /\ 3 + 2 * i # 1 /\ 3 + 2 * i # 2 /\ 3 + 2 * i # 3 /\ 3 + 2 * i # 4
        /\ 4 + 2 * i # 1 /\ 4 + 2 * i # 2 /\ 4 + 2 * i # 3 /\ 4 + 2 * i # 4
    BY <1>1
  <2>4. LineOf(3 + 2 * i) = Written("#EXTINF", Rounded(window[i].extinf))
    BY <2>2, <2>3 DEF LineOf
  <2>5. LineOf(4 + 2 * i) = [tag |-> "uri", value |-> window[i].uri,
                             slashes |-> window[i].slashes + 1]
    BY <2>2, <2>3 DEF LineOf
  <2>6. t[3 + 2 * i] = LineOf(3 + 2 * i) /\ t[4 + 2 * i] = LineOf(4 + 2 * i)
    BY <1>3, <2>1, Zenon
  <2> QED  BY <2>4, <2>5, <2>6
<1>7. ASSUME NEW k \in 1 .. 4 + 2 * n
      PROVE  t[k] \in Line
  <2>1. window[1] \in Segment
    BY <1>1
  <2>2. target \in Int /\ window[1].seq \in Int
    BY <2>1, ConstantsAssumption DEF Int32, Segment
  <2>3. CASE k = 1 \/ k = 2 \/ k = 3 \/ k = 4
    BY <2>3, <1>9, <2>2 DEF Written, Line, Tag
  <2>4. CASE k > 4
    <3>1. \E i \in 1 .. n : k = 3 + 2 * i \/ k = 4 + 2 * i
      <4>1. k % 2 = 1 => (k - 3) \div 2 \in 1 .. n /\ k = 3 + 2 * ((k - 3) \div 2)
        BY <2>4, <1>1
      <4>2. k % 2 # 1 => (k - 4) \div 2 \in 1 .. n /\ k = 4 + 2 * ((k - 4) \div 2)
        BY <2>4, <1>1
      <4> QED  BY <4>1, <4>2
    <3>2. PICK i \in 1 .. n : k = 3 + 2 * i \/ k = 4 + 2 * i
      BY <3>1
    <3>3. window[i] \in Segment
      BY <1>1
    <3>4. Rounded(window[i].extinf) \in Int
      BY <3>3, RoundedType DEF Segment
    <3>5. Written("#EXTINF", Rounded(window[i].extinf)) \in Line
      BY <3>4 DEF Written, Line, Tag
    <3>6. [tag |-> "uri", value |-> window[i].uri, slashes |-> window[i].slashes + 1] \in Line
      BY <3>3 DEF Line, Tag, Segment
    <3> QED  BY <1>6, <3>2, <3>5, <3>6
  <2> QED  BY <2>3, <2>4, <1>1
<1>8. t \in Seq(Line) /\ Len(t) = 4 + 2 * n
  <2>1. t = [k \in 1 .. 4 + 2 * n |-> t[k]]
    BY <1>A, <1>3
  <2>2. t \in [1 .. 4 + 2 * n -> Line]
    BY <1>7, <2>1
  <2> QED  BY <1>2, <2>2
<1> QED  BY <1>1, <1>6, <1>8, <1>9 DEF t, n

(* And for one without.                                                    *)
LEMMA EmptyLines ==
  ASSUME NEW target
  PROVE  /\ PlaylistText(<<>>, target) \in Seq(Line)
         /\ PlaylistText(<<>>, target)
              = <<Written("#EXTM3U", NoValue), Written("#EXT-X-VERSION", 3)>>
BY DEF PlaylistText, Written, Line, Tag

(* The lines after the fourth are durations and uris.                      *)
LEMMA RenderedTags ==
  ASSUME NEW window \in Seq(Segment), window # <<>>, NEW target \in Int32,
         NEW k \in DOMAIN PlaylistText(window, target), k > 4
  PROVE  PlaylistText(window, target)[k].tag \in {"#EXTINF", "uri"}
<1> DEFINE t == PlaylistText(window, target)
           n == Len(window)
<1>1. /\ t \in Seq(Line) /\ Len(t) = 4 + 2 * n
      /\ \A i \in DOMAIN window :
           /\ t[3 + 2 * i] = Written("#EXTINF", Rounded(window[i].extinf))
           /\ t[4 + 2 * i]
                 = [tag |-> "uri", value |-> window[i].uri,
                    slashes |-> window[i].slashes + 1]
  BY RenderedLines
<1>2. n \in Nat /\ DOMAIN window = 1 .. n
  OBVIOUS
<1>3. k \in 1 .. 4 + 2 * n
  BY <1>1
<1> HIDE DEF t, n
<1>4. /\ k % 2 = 1 => (k - 3) \div 2 \in 1 .. n /\ k = 3 + 2 * ((k - 3) \div 2)
      /\ k % 2 # 1 => (k - 4) \div 2 \in 1 .. n /\ k = 4 + 2 * ((k - 4) \div 2)
  <2>1. k % 2 = 1 => (k - 3) \div 2 \in 1 .. n /\ k = 3 + 2 * ((k - 3) \div 2)
    BY <1>2, <1>3
  <2>2. k % 2 # 1 => (k - 4) \div 2 \in 1 .. n /\ k = 4 + 2 * ((k - 4) \div 2)
    BY <1>2, <1>3
  <2> QED  BY <2>1, <2>2
<1>5. PICK i \in DOMAIN window : k = 3 + 2 * i \/ k = 4 + 2 * i
  BY <1>2, <1>4
<1>6. t[3 + 2 * i].tag = "#EXTINF" /\ t[4 + 2 * i].tag = "uri"
  <2>1. /\ t[3 + 2 * i] = Written("#EXTINF", Rounded(window[i].extinf))
        /\ t[4 + 2 * i]
              = [tag |-> "uri", value |-> window[i].uri, slashes |-> window[i].slashes + 1]
    BY <1>1, Zenon
  <2> QED  BY <2>1 DEF Written
<1> QED  BY <1>5, <1>6 DEF t

(***************************************************************************)
(* Types.                                                                  *)
(***************************************************************************)

LEMMA TypeInit == Init => TypeOK
<1> SUFFICES ASSUME Init PROVE TypeOK
  OBVIOUS
<1>1. content \in Seq(Line) /\ targetduration \in 0 .. INT - 1 /\ INT \in Nat \ {0}
  BY ConstantsAssumption DEF Init
<1>2. idx \in 0 .. Len(content)
  BY <1>1 DEF Init
<1>3. -1 \in Int32 /\ 0 \in Int32 /\ targetduration \in Int32
  BY <1>1 DEF Int32
<1> QED  BY <1>1, <1>2, <1>3 DEF Init, TypeOK, Received

(* The turns of the loop, one by one.                                      *)
LEMMA TypeReadLine == TypeOK /\ ReadLine => TypeOK'
<1> SUFFICES ASSUME TypeOK, ReadLine PROVE TypeOK'
  OBVIOUS
<1> USE DEF TypeOK
<1>1. ASSUME NEW tag, Turn(tag)
      PROVE  idx < Len(content) /\ idx + 1 \in 0 .. Len(content) /\ content[idx + 1] \in Line
  BY <1>1, LineType DEF Turn
<1>2. CASE FirstLine
  <2>1. content # <<>> => 1 \in 0 .. Len(content)
    OBVIOUS
  <2> QED  BY <1>2, <2>1 DEF FirstLine, Throws
<1>3. CASE VersionLine
  BY <1>3, <1>1, IntOrType DEF VersionLine, Throws, Turn
<1>4. CASE TargetDurationLine
  BY <1>4, <1>1, IntOrType DEF TargetDurationLine, Turn
<1>5. CASE MediaSequenceLine
  BY <1>5, <1>1, IntOrType DEF MediaSequenceLine, Turn
<1>6. CASE ExtInfLine
  BY <1>6, <1>1 DEF ExtInfLine, HasValue, Line
<1>7. CASE IgnoredLine
  BY <1>7, <1>1 DEF IgnoredLine
<1>8. CASE UriLine
  <2>1. seq_nr + 1 \in Int
    BY ConstantsAssumption DEF Int32
  <2>2. AsInt(seq_nr + 1) \in Int32
    BY <2>1, AsIntType
  <2>4. SegmentOf(content[idx + 1]) \in Segment
    BY <1>8, <1>1 DEF UriLine, SegmentOf, Segment, Line
  <2> QED  BY <1>8, <1>1, <2>2, <2>4 DEF UriLine
<1>9. CASE EndOfText
  BY <1>9 DEF EndOfText
<1> QED  BY <1>2, <1>3, <1>4, <1>5, <1>6, <1>7, <1>8, <1>9 DEF ReadLine
LEMMA TypeRender ==
  ASSUME TypeOK, NEW window \in Windows, Render(window)
  PROVE  TypeOK'
<1>1. window \in Seq(Segment) /\ targetduration \in Int32
  BY WindowsType DEF TypeOK
<1>2. PlaylistText(window, targetduration) \in Seq(Line)
  BY <1>1, RenderedLines, EmptyLines
<1>3. -1 \in Int32 /\ 0 \in Int32 /\ Leftover \subseteq Int32
  BY ConstantsAssumption DEF Int32
<1>4. 0 \in 0 .. Len(PlaylistText(window, targetduration))
  BY <1>2
<1> QED  BY <1>1, <1>2, <1>3, <1>4 DEF Render, TypeOK

LEMMA TypeStep == TypeOK /\ [Next]_vars => TypeOK'
<1> SUFFICES ASSUME TypeOK, [Next]_vars PROVE TypeOK'
  OBVIOUS
<1>1. CASE UNCHANGED vars
  BY <1>1 DEF vars, TypeOK
<1>2. CASE Next
  BY <1>2, TypeReadLine, TypeRender DEF Next
<1> QED  BY <1>1, <1>2

(* Numbers never leave an int, however long the text and whatever numbers  *)
(* it has, those that atoi cannot represent included; and the constructor  *)
(* and to_string handle lines, segments and windows of them only.          *)
THEOREM TypeCorrect == Spec => []TypeOK
BY TypeInit, TypeStep, PTL DEF Spec

(***************************************************************************)
(* Reading back what was written.  The loop is at a known place of the     *)
(* text: after the line of a tag, or after as many pairs of #EXTINF and    *)
(* uri as there are segments, perhaps with the next segment's #EXTINF.     *)
(***************************************************************************)

Window == rendered.segments

Header ==
  /\ idx < 2 => version = -1
  /\ idx < 4 => segments = <<>>
  /\ Window # <<>> /\ idx >= 3 => targetduration = rendered.targetduration

Place ==
  Window # <<>> /\ idx >= 4 =>
    \/ idx = 4 + 2 * Len(segments)
    \/ /\ idx = 5 + 2 * Len(segments)
       /\ Len(segments) < Len(Window)
       /\ extinf = Rounded(Window[Len(segments) + 1].extinf)

(* The next segment's number, as the reader counts, is not above its own.  *)
Count ==
  Window # <<>> /\ idx >= 4 /\ Len(segments) < Len(Window) =>
    /\ seq_nr = Window[1].seq + Len(segments)
    /\ seq_nr =< Window[Len(segments) + 1].seq

Found ==
  \A i \in DOMAIN segments :
    /\ i \in DOMAIN Window
    /\ segments[i].uri = Window[i].uri
    /\ segments[i].extinf = Rounded(Window[i].extinf)
    /\ segments[i].seq = Window[1].seq + i - 1
    /\ segments[i].seq =< Window[i].seq

Increasing == \A i, j \in DOMAIN Window : i < j => Window[i].seq < Window[j].seq

Reading ==
  rendered # Received =>
    /\ Increasing
    /\ content = PlaylistText(Window, rendered.targetduration)
    /\ outcome # "thrown"
    /\ outcome = "parsed" => idx = Len(content)
    /\ Header /\ Place /\ Count /\ Found

(* The line the loop is at.                                                *)
NextLine(line, n) ==
  \/ idx = 0 /\ line = Written("#EXTM3U", NoValue)
  \/ idx = 1 /\ line = Written("#EXT-X-VERSION", 3)
  \/ Window # <<>> /\ \/ idx = 2 /\ line = Written("#EXT-X-TARGETDURATION",
                                                   rendered.targetduration)
                      \/ idx = 3 /\ line = Written("#EXT-X-MEDIA-SEQUENCE", Window[1].seq)
                      \/ /\ idx = 4 + 2 * n /\ n < Len(Window)
                         /\ line = Written("#EXTINF", Rounded(Window[n + 1].extinf))
                      \/ /\ idx = 5 + 2 * n /\ n < Len(Window)
                         /\ line.tag = "uri" /\ line.value = Window[n + 1].uri
                         /\ extinf = Rounded(Window[n + 1].extinf)

LEMMA LinePlace ==
  ASSUME TypeOK, Reading, rendered # Received, idx < Len(content)
  PROVE  NextLine(content[idx + 1], Len(segments))
<1> DEFINE n == Len(segments)
           line == content[idx + 1]
<1>1. /\ Window \in Seq(Segment) /\ rendered.targetduration \in Int32
      /\ idx \in Nat /\ n \in Nat /\ Len(Window) \in Nat
  BY DEF TypeOK, Window
<1>2. content = PlaylistText(Window, rendered.targetduration)
  BY DEF Reading
<1>3. CASE Window = <<>>
  <2>1. content = <<Written("#EXTM3U", NoValue), Written("#EXT-X-VERSION", 3)>>
    BY <1>2, <1>3, EmptyLines
  <2>2. idx = 0 \/ idx = 1
    BY <2>1, <1>1
  <2> QED  BY <2>1, <2>2 DEF NextLine
<1>4. CASE Window # <<>>
  <2>1. /\ Len(content) = 4 + 2 * Len(Window)
        /\ content[1] = Written("#EXTM3U", NoValue)
        /\ content[2] = Written("#EXT-X-VERSION", 3)
        /\ content[3] = Written("#EXT-X-TARGETDURATION", rendered.targetduration)
        /\ content[4] = Written("#EXT-X-MEDIA-SEQUENCE", Window[1].seq)
        /\ \A i \in DOMAIN Window :
             /\ content[3 + 2 * i] = Written("#EXTINF", Rounded(Window[i].extinf))
             /\ content[4 + 2 * i]
                   = [tag |-> "uri", value |-> Window[i].uri,
                      slashes |-> Window[i].slashes + 1]
    BY <1>1, <1>2, <1>4, RenderedLines
  <2>2. CASE idx < 4
    <3>1. idx = 0 \/ idx = 1 \/ idx = 2 \/ idx = 3
      BY <2>2, <1>1
    <3>2. /\ idx = 0 => line = content[1]
          /\ idx = 1 => line = content[2]
          /\ idx = 2 => line = content[3]
          /\ idx = 3 => line = content[4]
      OBVIOUS
    <3> QED  BY <3>1, <3>2, <2>1, <1>4 DEF NextLine
  <2>3. CASE idx >= 4
    <3>1. \/ idx = 4 + 2 * n
          \/ /\ idx = 5 + 2 * n /\ n < Len(Window)
             /\ extinf = Rounded(Window[n + 1].extinf)
      BY <2>3, <1>4 DEF Reading, Place
    <3> HIDE DEF n
    <3>2. n < Len(Window)
      BY <3>1, <2>1, <1>1
    <3>3. n + 1 \in DOMAIN Window
      BY <3>2, <1>1
    <3>4. /\ content[3 + 2 * (n + 1)] = Written("#EXTINF", Rounded(Window[n + 1].extinf))
          /\ content[4 + 2 * (n + 1)]
                = [tag |-> "uri", value |-> Window[n + 1].uri,
                   slashes |-> Window[n + 1].slashes + 1]
      BY <2>1, <3>3
    <3>5. /\ idx = 4 + 2 * n => idx + 1 = 3 + 2 * (n + 1)
          /\ idx = 5 + 2 * n => idx + 1 = 4 + 2 * (n + 1)
      BY <1>1
    <3>6. NextLine(line, n)
      BY <3>1, <3>2, <3>4, <3>5, <1>4 DEF NextLine
    <3> QED  BY <3>6 DEF n
  <2> QED  BY <2>2, <2>3, <1>1
<1> QED  BY <1>3, <1>4

LEMMA ReadingRender ==
  ASSUME TypeOK, NEW window \in Windows, Render(window)
  PROVE  Reading'
<1>1. \A i, j \in DOMAIN window : i < j => window[i].seq < window[j].seq
  BY WindowsType
<1>2. rendered'.segments = window /\ rendered'.targetduration = targetduration
  BY DEF Render
<1>3. Increasing' /\ content' = PlaylistText(window, targetduration)
  BY <1>1, <1>2 DEF Render, Increasing, Window
<1>4. Header' /\ Place' /\ Count' /\ Found'
  BY DEF Render, Header, Place, Count, Found
<1> QED  BY <1>2, <1>3, <1>4 DEF Render, Reading, Window

(* The turns of the loop, one by one.                                      *)
LEMMA ReadingReadLine ==
  ASSUME TypeOK, Reading, ReadLine
  PROVE  Reading'
<1> DEFINE n == Len(segments)
           line == content[idx + 1]
<1>0. rendered' = rendered /\ content' = content
  BY DEF ReadLine, FirstLine, Throws, VersionLine, TargetDurationLine, MediaSequenceLine,
         ExtInfLine, IgnoredLine, UriLine, EndOfText
<1> SUFFICES ASSUME rendered # Received PROVE Reading'
  BY <1>0 DEF Reading
<1> USE DEF Window
<1>1. /\ Window \in Seq(Segment) /\ rendered.targetduration \in Int32
      /\ idx \in Nat /\ n \in Nat /\ Len(Window) \in Nat /\ Len(content) \in Nat
      /\ idx =< Len(content)
  BY DEF TypeOK
<1>2. /\ Increasing /\ content = PlaylistText(Window, rendered.targetduration)
      /\ outcome # "thrown" /\ Header /\ Place /\ Count /\ Found
  BY DEF Reading
<1>3. Increasing' /\ content' = PlaylistText(Window', rendered'.targetduration)
  BY <1>0, <1>2 DEF Increasing
<1>4. idx < Len(content) => NextLine(line, n)
  BY LinePlace
<1>5. Written("#EXTM3U", NoValue).tag = "#EXTM3U"
      /\ \A tag, value : Written(tag, value).tag = tag /\ Written(tag, value).value = value
  BY DEF Written
<1>6. CASE FirstLine
  <2>1. idx = 0 /\ idx < Len(content)
    BY <1>6, <1>1 DEF FirstLine
  <2>2. content[1].tag = "#EXTM3U"
    BY <2>1, <1>4, <1>5, <1>1 DEF NextLine
  <2>3. /\ idx' = 1
        /\ UNCHANGED <<version, targetduration, seq_nr, extinf, segments, outcome>>
    BY <1>6, <2>2 DEF FirstLine
  <2>4. outcome = "parsing"
    BY <1>6 DEF FirstLine
  <2>5. Header' /\ Place' /\ Count'
    BY <2>1, <2>3, <1>0, <1>2 DEF Header, Place, Count
  <2>6. Found'
    BY <2>3, <1>0, <1>2 DEF Found
  <2> QED  BY <2>3, <2>4, <2>5, <2>6, <1>3 DEF Reading
<1>7. CASE VersionLine
  <2>1. idx = 1 /\ line = Written("#EXT-X-VERSION", 3)
    BY <1>7, <1>4, <1>5 DEF VersionLine, Turn, NextLine
  <2>2. ~DuplicateVersion
    BY <2>1, <1>2 DEF Header, DuplicateVersion
  <2>3. /\ idx' = 2
        /\ UNCHANGED <<targetduration, seq_nr, extinf, segments, outcome>>
    BY <1>7, <2>1, <2>2 DEF VersionLine
  <2>4. outcome = "parsing"
    BY <1>7 DEF VersionLine, Turn
  <2>5. Header' /\ Place' /\ Count'
    BY <2>1, <2>3, <1>0, <1>2 DEF Header, Place, Count
  <2>6. Found'
    BY <2>3, <1>0, <1>2 DEF Found
  <2> QED  BY <2>3, <2>4, <2>5, <2>6, <1>3 DEF Reading
<1>8. CASE TargetDurationLine
  <2>1. /\ Window # <<>> /\ idx = 2
        /\ line = Written("#EXT-X-TARGETDURATION", rendered.targetduration)
    BY <1>8, <1>4, <1>5 DEF TargetDurationLine, Turn, NextLine
  <2>2. line.value = rendered.targetduration /\ line.value # NoValue
    BY <2>1, <1>5, <1>1, ConstantsAssumption DEF Int32
  <2>3. AsInt(rendered.targetduration) = rendered.targetduration
    BY <1>1, AsIntFits
  <2>4. targetduration' = rendered.targetduration
    BY <1>8, <2>2, <2>3 DEF TargetDurationLine, IntOr, HasValue
  <2>5. idx' = 3 /\ UNCHANGED <<version, seq_nr, extinf, segments, outcome>>
    BY <1>8, <2>1 DEF TargetDurationLine
  <2>6. outcome = "parsing"
    BY <1>8 DEF TargetDurationLine, Turn
  <2>7. Header' /\ Place' /\ Count'
    BY <2>1, <2>4, <2>5, <1>0, <1>2 DEF Header, Place, Count
  <2>8. Found'
    BY <2>5, <1>0, <1>2 DEF Found
  <2> QED  BY <2>5, <2>6, <2>7, <2>8, <1>3 DEF Reading
<1>9. CASE MediaSequenceLine
  <2>1. /\ Window # <<>> /\ idx = 3
        /\ line = Written("#EXT-X-MEDIA-SEQUENCE", Window[1].seq)
    BY <1>9, <1>4, <1>5 DEF MediaSequenceLine, Turn, NextLine
  <2>2. Window[1] \in Segment /\ Window[1].seq \in Int32
    <3>1. 1 \in DOMAIN Window
      BY <2>1, <1>1
    <3>2. Window[1] \in Segment
      BY <3>1, <1>1
    <3> QED  BY <3>2 DEF Segment
  <2>3. line.value = Window[1].seq /\ line.value # NoValue
    BY <2>1, <2>2, <1>5, ConstantsAssumption DEF Int32
  <2>4. AsInt(Window[1].seq) = Window[1].seq
    BY <2>2, AsIntFits
  <2>5. seq_nr' = Window[1].seq
    BY <1>9, <2>3, <2>4 DEF MediaSequenceLine, IntOr, HasValue
  <2>6. idx' = 4 /\ UNCHANGED <<version, targetduration, extinf, segments, outcome>>
    BY <1>9, <2>1 DEF MediaSequenceLine
  <2>7. outcome = "parsing" /\ segments = <<>>
    BY <1>9, <2>1, <1>2 DEF MediaSequenceLine, Turn, Header
  <2>8. Header' /\ Place'
    BY <2>1, <2>6, <2>7, <1>0, <1>2 DEF Header, Place
  <2>9. Count'
    <3>1. Window[1].seq \in Int
      BY <2>2, ConstantsAssumption DEF Int32
    <3> QED  BY <3>1, <2>5, <2>6, <2>7, <1>0 DEF Count
  <2>10. Found'
    BY <2>6, <1>0, <1>2 DEF Found
  <2> QED  BY <2>6, <2>7, <2>8, <2>9, <2>10, <1>3 DEF Reading
<1>10. CASE ExtInfLine
  <2>1. /\ Window # <<>> /\ idx = 4 + 2 * n /\ n < Len(Window)
        /\ line = Written("#EXTINF", Rounded(Window[n + 1].extinf))
    BY <1>10, <1>4, <1>5 DEF ExtInfLine, Turn, NextLine
  <2>2. Window[n + 1] \in Segment
    BY <2>1, <1>1
  <2>3. line.value = Rounded(Window[n + 1].extinf) /\ line.value # NoValue
    BY <2>1, <2>2, <1>5, RoundedType, ConstantsAssumption DEF Segment
  <2>4. extinf' = Rounded(Window[n + 1].extinf)
    BY <1>10, <2>3 DEF ExtInfLine, HasValue
  <2>5. idx' = idx + 1 /\ UNCHANGED <<version, targetduration, seq_nr, segments, outcome>>
    BY <1>10 DEF ExtInfLine
  <2>6. outcome = "parsing"
    BY <1>10 DEF ExtInfLine, Turn
  <2>7. idx' = 5 + 2 * Len(segments')
    BY <2>1, <2>5, <1>1
  <2>8. Header'
    BY <2>1, <2>5, <1>0, <1>1, <1>2 DEF Header
  <2>9. Place'
    BY <2>1, <2>4, <2>5, <2>7, <1>0 DEF Place
  <2>10. Count'
    BY <2>1, <2>5, <1>0, <1>1, <1>2 DEF Count
  <2>11. Found'
    BY <2>5, <1>0, <1>2 DEF Found
  <2> QED  BY <2>5, <2>6, <2>8, <2>9, <2>10, <2>11, <1>3 DEF Reading
<1>11. CASE IgnoredLine
  <2>1. idx # 0 /\ idx < Len(content) /\ line.tag \in {"ignored", "#EXTM3U"}
    BY <1>11, <1>1 DEF IgnoredLine, Turn
  <2> QED  BY <2>1, <1>4, <1>5 DEF NextLine
<1>12. CASE UriLine
  <2> DEFINE new == SegmentOf(line)
  <2>1. /\ Window # <<>> /\ idx = 5 + 2 * n /\ n < Len(Window)
        /\ line.value = Window[n + 1].uri
        /\ extinf = Rounded(Window[n + 1].extinf)
    BY <1>12, <1>4, <1>5 DEF UriLine, Turn, NextLine
  <2>2. /\ idx' = idx + 1 /\ segments' = Append(segments, new)
        /\ seq_nr' = AsInt(seq_nr + 1)
        /\ UNCHANGED <<version, targetduration, extinf, outcome>>
    BY <1>12 DEF UriLine
  <2>3. outcome = "parsing"
    BY <1>12 DEF UriLine, Turn
  <2>4. segments \in Seq(Segment) /\ new.uri = line.value /\ new.seq = seq_nr
        /\ new.extinf = extinf
    BY DEF TypeOK, SegmentOf
  <2>5. /\ Len(segments') = n + 1 /\ segments'[n + 1] = new
        /\ \A i \in 1 .. n : segments'[i] = segments[i]
        /\ DOMAIN segments' = 1 .. n + 1
    BY <2>2, <2>4
  <2>6. seq_nr = Window[1].seq + n /\ seq_nr =< Window[n + 1].seq
    BY <2>1, <1>1, <1>2 DEF Count
  <2>7. /\ 1 \in DOMAIN Window /\ n + 1 \in DOMAIN Window
        /\ n + 1 < Len(Window) => n + 2 \in DOMAIN Window
    BY <2>1, <1>1
  <2>8. \A i \in DOMAIN Window : Window[i].seq \in Int32 /\ Window[i].seq \in Int
    <3>1. \A i \in DOMAIN Window : Window[i] \in Segment
      BY <1>1
    <3>2. \A i \in DOMAIN Window : Window[i].seq \in Int32
      BY <3>1 DEF Segment
    <3> QED  BY <3>2, AsIntFits
  <2> HIDE DEF n, line, new
  <2>9. idx' = 4 + 2 * Len(segments') /\ idx' > 4
    BY <2>1, <2>2, <2>5, <1>1
  <2>10. Header' /\ Place'
    <3>1. idx' >= 4 /\ idx >= 3
      BY <2>1, <2>9, <1>1
    <3>2. ~(idx' < 2) /\ ~(idx' < 4)
      BY <3>1, <2>2, <1>1
    <3>3. targetduration = rendered.targetduration
      BY <3>1, <2>1, <1>2 DEF Header
    <3>4. Header'
      BY <3>2, <3>3, <2>2, <1>0 DEF Header
    <3> QED  BY <3>4, <2>9 DEF Place
  <2>11. Count'
    <3> SUFFICES ASSUME n + 1 < Len(Window)
                 PROVE  /\ seq_nr' = Window[1].seq + (n + 1)
                        /\ seq_nr' =< Window[n + 2].seq
      BY <2>5, <1>0, <1>1 DEF Count
    <3>1. n + 1 < n + 2 /\ n + 1 \in DOMAIN Window /\ n + 2 \in DOMAIN Window
      BY <2>7, <1>1
    <3>2. Window[n + 1].seq < Window[n + 2].seq
      BY <3>1, <1>2, Zenon DEF Increasing
    <3>3. /\ Window[1].seq \in Int32 /\ Window[n + 1].seq \in Int32
          /\ Window[n + 2].seq \in Int32
      BY <3>1, <2>7, <2>8
    <3> DEFINE first == Window[1].seq
               this == Window[n + 1].seq
               following == Window[n + 2].seq
    <3>4. first \in Int /\ this \in Int /\ following \in Int /\ INT \in Nat
      BY <3>3, AsIntFits, ConstantsAssumption
    <3>5. /\ this < following /\ seq_nr = first + n /\ seq_nr =< this
          /\ first \in -INT .. INT - 1 /\ following \in -INT .. INT - 1
      BY <3>2, <3>3, <2>6 DEF Int32
    <3> HIDE DEF first, this, following
    <3>6. first + (n + 1) \in -INT .. INT - 1 /\ first + (n + 1) =< following
      BY <3>4, <3>5, <1>1
    <3>7. Window[1].seq + (n + 1) \in Int32 /\ Window[1].seq + (n + 1) =< Window[n + 2].seq
      BY <3>6 DEF first, following, Int32
    <3>8. seq_nr + 1 = first + (n + 1) /\ seq_nr + 1 \in Int
      BY <3>4, <3>5, <1>1
    <3>9. seq_nr + 1 = Window[1].seq + (n + 1) /\ seq_nr + 1 \in Int
      BY <3>8 DEF first
    <3>10. AsInt(seq_nr + 1) = seq_nr + 1
      BY <3>7, <3>9, AsIntType
    <3> QED  BY <2>2, <3>7, <3>9, <3>10
  <2>12. Found'
    <3> SUFFICES ASSUME NEW i \in 1 .. n + 1
                 PROVE  /\ i \in DOMAIN Window
                        /\ segments'[i].uri = Window[i].uri
                        /\ segments'[i].extinf = Rounded(Window[i].extinf)
                        /\ segments'[i].seq = Window[1].seq + i - 1
                        /\ segments'[i].seq =< Window[i].seq
      BY <2>5, <1>0 DEF Found
    <3>1. CASE i = n + 1
      <4>1. Window[1].seq + n = Window[1].seq + i - 1
        BY <3>1, <2>7, <2>8, <1>1
      <4> QED  BY <3>1, <4>1, <2>1, <2>4, <2>5, <2>6, <2>7
    <3>2. CASE i # n + 1
      <4>1. i \in 1 .. n /\ i \in DOMAIN segments
        BY <3>2, <1>1, <2>4 DEF n
      <4> QED  BY <4>1, <2>5, <1>2 DEF Found
    <3> QED  BY <3>1, <3>2
  <2> QED  BY <2>2, <2>3, <2>10, <2>11, <2>12, <1>3 DEF Reading
<1>13. CASE EndOfText
  <2>1. /\ outcome' = "parsed" /\ idx' = idx /\ idx = Len(content)
        /\ UNCHANGED <<version, targetduration, seq_nr, extinf, segments>>
    BY <1>13 DEF EndOfText
  <2>2. Header' /\ Place' /\ Count'
    BY <2>1, <1>0, <1>2 DEF Header, Place, Count
  <2>3. Found'
    BY <2>1, <1>0, <1>2 DEF Found
  <2> QED  BY <2>1, <2>2, <2>3, <1>0, <1>3 DEF Reading
<1> QED  BY <1>6, <1>7, <1>8, <1>9, <1>10, <1>11, <1>12, <1>13 DEF ReadLine

LEMMA ReadingStep == TypeOK /\ Reading /\ [Next]_vars => Reading'
<1> SUFFICES ASSUME TypeOK, Reading, [Next]_vars PROVE Reading'
  OBVIOUS
<1>1. CASE UNCHANGED vars
  BY <1>1 DEF vars, Reading, Increasing, Header, Place, Count, Found, Window
<1>2. CASE Next
  BY <1>2, ReadingReadLine, ReadingRender DEF Next
<1> QED  BY <1>1, <1>2

(* At the end of the text every segment of the window has been found.      *)
LEMMA ReadingImplies == TypeOK /\ Reading => ReadBack
<1> SUFFICES ASSUME TypeOK, Reading, rendered # Received PROVE ReadBack
  BY DEF ReadBack
<1>1. /\ Window \in Seq(Segment) /\ rendered.targetduration \in Int32
      /\ idx \in Nat /\ Len(segments) \in Nat /\ Len(Window) \in Nat
      /\ segments \in Seq(Segment)
  BY DEF TypeOK, Window
<1>2. /\ content = PlaylistText(Window, rendered.targetduration)
      /\ outcome # "thrown" /\ Header /\ Place /\ Found
      /\ outcome = "parsed" => idx = Len(content)
  BY DEF Reading
<1>3. ASSUME outcome = "parsed"
      PROVE  /\ Len(segments) = Len(Window)
             /\ segments # <<>> => targetduration = rendered.targetduration
  <2>1. CASE Window = <<>>
    <3>1. Len(content) = 2
      BY <2>1, <1>2, EmptyLines
    <3>2. segments = <<>>
      BY <3>1, <1>2, <1>3 DEF Header
    <3> QED  BY <3>2, <2>1
  <2>2. CASE Window # <<>>
    <3>1. Len(content) = 4 + 2 * Len(Window) /\ idx = Len(content)
      BY <2>2, <1>1, <1>2, <1>3, RenderedLines
    <3>2. idx = 4 + 2 * Len(segments) \/ idx = 5 + 2 * Len(segments)
      BY <3>1, <2>2, <1>1, <1>2 DEF Place
    <3>3. idx >= 3
      BY <3>1, <1>1
    <3>4. Len(segments) = Len(Window)
      BY <3>1, <3>2, <1>1
    <3> QED  BY <3>3, <3>4, <2>2, <1>2 DEF Header
  <2> QED  BY <2>1, <2>2
<1> QED  BY <1>2, <1>3 DEF ReadBack, Found, Window

(* What to_string writes of any window of segments in the order of their   *)
(* numbers, the constructor reads without throwing: all of the segments,   *)
(* the target duration, and numbers that count on from the first and are   *)
(* never above the ones the segments had.                                  *)
THEOREM WrittenIsReadBack == Spec => []ReadBack
<1>1. Init => Reading
  BY DEF Init, Reading
<1> QED  BY <1>1, TypeInit, TypeStep, ReadingStep, ReadingImplies, PTL DEF Spec

(***************************************************************************)
(* What the constructor throws for.                                        *)
(***************************************************************************)

IsVersion(line) == line.tag = "#EXT-X-VERSION"
Readable(line) == IsVersion(line) /\ line.value # NoValue => AsInt(line.value) # -1

(* No version is written as -1, or as a number that reads as -1: _version  *)
(* has that value as long as there was none.                               *)
VersionsReadable ==
  /\ AsInt(3) # -1
  /\ \A text \in Contents : \A k \in DOMAIN text : Readable(text[k])

(* Of the lines read, the first is #EXTM3U, one at most is a version that  *)
(* another may not follow, and _version tells whether there was one.       *)
VersionInv ==
  /\ \A k \in DOMAIN content : Readable(content[k])
  /\ idx >= 1 => content[1].tag = "#EXTM3U"
  /\ version # -1 => \E j \in 2 .. idx : IsVersion(content[j]) /\ content[j].value # NoValue
  /\ version = -1 => \A j \in 2 .. idx : IsVersion(content[j]) => content[j].value = NoValue
  /\ \A j, k \in 2 .. idx :
       j < k /\ IsVersion(content[j]) /\ IsVersion(content[k]) => content[j].value = NoValue
  /\ outcome = "thrown" => Malformed
  /\ outcome = "parsed" => idx = Len(content)

LEMMA MalformedIs ==
  Malformed <=>
    \/ content # <<>> /\ content[1].tag # "#EXTM3U"
    \/ \E j, k \in 2 .. Len(content) :
         /\ j < k /\ IsVersion(content[j]) /\ IsVersion(content[k])
         /\ content[j].value # NoValue
BY DEF Malformed, IsVersion

LEMMA RenderedReadable ==
  ASSUME VersionsReadable, NEW window \in Seq(Segment), NEW target \in Int32,
         NEW k \in DOMAIN PlaylistText(window, target)
  PROVE  Readable(PlaylistText(window, target)[k])
<1> DEFINE t == PlaylistText(window, target)
<1>1. \A tag, value : Written(tag, value).tag = tag /\ Written(tag, value).value = value
  BY DEF Written
<1>2. Readable(Written("#EXT-X-VERSION", 3))
  BY <1>1 DEF Readable, IsVersion, VersionsReadable
<1>3. \A tag, value : tag # "#EXT-X-VERSION" => Readable(Written(tag, value))
  BY <1>1 DEF Readable, IsVersion
<1>4. CASE window = <<>>
  <2>1. t = <<Written("#EXTM3U", NoValue), Written("#EXT-X-VERSION", 3)>>
    BY <1>4, EmptyLines
  <2>2. k = 1 \/ k = 2
    BY <2>1
  <2> QED  BY <2>1, <2>2, <1>2, <1>3
<1>5. CASE window # <<>>
  <2>1. /\ t \in Seq(Line) /\ Len(t) = 4 + 2 * Len(window)
        /\ t[1] = Written("#EXTM3U", NoValue) /\ t[2] = Written("#EXT-X-VERSION", 3)
        /\ t[3] = Written("#EXT-X-TARGETDURATION", target)
        /\ t[4] = Written("#EXT-X-MEDIA-SEQUENCE", window[1].seq)
        /\ \A i \in DOMAIN window :
             /\ t[3 + 2 * i] = Written("#EXTINF", Rounded(window[i].extinf))
             /\ t[4 + 2 * i]
                   = [tag |-> "uri", value |-> window[i].uri,
                      slashes |-> window[i].slashes + 1]
    BY <1>5, RenderedLines
  <2> HIDE DEF t
  <2>2. k \in 1 .. 4 + 2 * Len(window) /\ Len(window) \in Nat
    BY <2>1 DEF t
  <2>3. CASE k =< 4
    <3>1. k = 1 \/ k = 2 \/ k = 3 \/ k = 4
      BY <2>2, <2>3
    <3>2. Readable(t[1]) /\ Readable(t[2]) /\ Readable(t[3]) /\ Readable(t[4])
      BY <2>1, <1>2, <1>3
    <3> QED  BY <3>1, <3>2 DEF t
  <2>4. CASE k > 4
    BY <1>5, <2>4, RenderedTags DEF Readable, IsVersion, t
  <2> QED  BY <2>2, <2>3, <2>4
<1> QED  BY <1>4, <1>5

(* A turn of the loop that reads a line which is no version.               *)
LEMMA OtherLineRead ==
  ASSUME TypeOK, VersionInv, outcome = "parsing", outcome' = outcome,
         0 < idx, idx < Len(content), idx' = idx + 1, ~IsVersion(content[idx + 1]),
         UNCHANGED <<content, version>>
  PROVE  VersionInv'
<1>1. idx \in Nat /\ Len(content) \in Nat
  BY DEF TypeOK
<1>2. \A j \in 2 .. idx' : IsVersion(content[j]) => j \in 2 .. idx
  BY <1>1
<1>3. \A j \in 2 .. idx : j \in 2 .. idx'
  BY <1>1
<1> QED  BY <1>1, <1>2, <1>3 DEF VersionInv

LEMMA VersionInvStep ==
  ASSUME VersionsReadable, TypeOK, VersionInv, [Next]_vars
  PROVE  VersionInv'
<1>1. idx \in Nat /\ Len(content) \in Nat /\ idx =< Len(content)
      /\ DOMAIN content = 1 .. Len(content)
  BY DEF TypeOK
<1>2. CASE UNCHANGED vars
  BY <1>2 DEF vars, VersionInv, Malformed
<1>3. CASE FirstLine
  <2>1. idx = 0 /\ content # <<>> /\ content' = content /\ outcome = "parsing"
        /\ 1 \in DOMAIN content
    BY <1>3, <1>1 DEF FirstLine, Throws
  <2>2. CASE content[1].tag = "#EXTM3U"
    <3>1. idx' = 1 /\ UNCHANGED <<version, outcome>>
      BY <1>3, <2>2 DEF FirstLine
    <3> QED  BY <2>1, <2>2, <3>1 DEF VersionInv
  <2>3. CASE content[1].tag # "#EXTM3U"
    <3>1. outcome' = "thrown" /\ idx' = idx /\ version' = version
      BY <1>3, <2>3 DEF FirstLine, Throws
    <3>2. Malformed'
      BY <2>1, <2>3 DEF Malformed
    <3> QED  BY <2>1, <3>1, <3>2 DEF VersionInv
  <2> QED  BY <2>2, <2>3
<1>4. CASE VersionLine
  <2> DEFINE line == content[idx + 1]
  <2>1. /\ outcome = "parsing" /\ 0 < idx /\ idx < Len(content) /\ IsVersion(line)
        /\ idx + 1 \in 2 .. Len(content) /\ content' = content
    BY <1>4, <1>1 DEF VersionLine, Turn, IsVersion, Throws
  <2>2. CASE version # -1
    <3>1. outcome' = "thrown" /\ idx' = idx /\ version' = version
      BY <1>4, <2>2 DEF VersionLine, DuplicateVersion, Throws
    <3>2. PICK j \in 2 .. idx : IsVersion(content[j]) /\ content[j].value # NoValue
      BY <2>2 DEF VersionInv
    <3>3. j \in 2 .. Len(content) /\ j < idx + 1
      BY <1>1
    <3>4. Malformed
      BY <2>1, <3>2, <3>3, MalformedIs
    <3>5. Malformed'
      BY <3>4, <2>1 DEF Malformed
    <3> QED  BY <2>1, <3>1, <3>5 DEF VersionInv
  <2>3. CASE version = -1
    <3>1. idx' = idx + 1 /\ version' = IntOr(version) /\ outcome' = outcome
      BY <1>4, <2>3 DEF VersionLine, DuplicateVersion
    <3>2. \A j \in 2 .. idx' : j \in 2 .. idx \/ j = idx + 1
      BY <3>1, <1>1
    <3>3. \A j, k \in 2 .. idx' :
            j < k /\ IsVersion(content[j]) /\ IsVersion(content[k])
              => content[j].value = NoValue
      <4> SUFFICES ASSUME NEW j \in 2 .. idx', NEW k \in 2 .. idx', j < k,
                          IsVersion(content[j])
                   PROVE  content[j].value = NoValue
        OBVIOUS
      <4>1. j \in 2 .. idx
        BY <3>1, <3>2, <1>1
      <4> QED  BY <4>1, <2>3 DEF VersionInv
    <3>4. CASE line.value = NoValue
      <4>1. version' = -1
        BY <3>1, <3>4, <2>3 DEF IntOr, HasValue
      <4>2. \A j \in 2 .. idx' : IsVersion(content[j]) => content[j].value = NoValue
        BY <3>2, <3>4, <2>3 DEF VersionInv
      <4> QED  BY <2>1, <3>1, <3>3, <4>1, <4>2, <1>1 DEF VersionInv
    <3>5. CASE line.value # NoValue
      <4>1. Readable(line)
        BY <2>1, <1>1 DEF VersionInv
      <4>2. version' # -1
        BY <3>1, <3>5, <4>1, <2>1 DEF IntOr, HasValue, Readable
      <4>3. idx + 1 \in 2 .. idx'
        BY <3>1, <2>1, <1>1
      <4> QED  BY <2>1, <3>1, <3>3, <3>5, <4>2, <4>3, <1>1 DEF VersionInv
    <3> QED  BY <3>4, <3>5
  <2> QED  BY <2>2, <2>3
<1>5. CASE TargetDurationLine
  BY <1>5, OtherLineRead DEF TargetDurationLine, Turn, IsVersion
<1>6. CASE MediaSequenceLine
  BY <1>6, OtherLineRead DEF MediaSequenceLine, Turn, IsVersion
<1>7. CASE ExtInfLine
  BY <1>7, OtherLineRead DEF ExtInfLine, Turn, IsVersion
<1>8. CASE IgnoredLine
  BY <1>8, OtherLineRead DEF IgnoredLine, Turn, IsVersion
<1>9. CASE UriLine
  BY <1>9, OtherLineRead DEF UriLine, Turn, IsVersion
<1>10. CASE EndOfText
  BY <1>10 DEF EndOfText, VersionInv, Malformed
<1>11. ASSUME NEW window \in Windows, Render(window) PROVE VersionInv'
  <2>1. window \in Seq(Segment) /\ targetduration \in Int32
    BY WindowsType DEF TypeOK
  <2>2. \A k \in DOMAIN content' : Readable(content'[k])
    BY <1>11, <2>1, RenderedReadable DEF Render
  <2>3. idx' = 0 /\ version' = -1 /\ outcome' = "parsing"
    BY <1>11 DEF Render
  <2> QED  BY <2>2, <2>3 DEF VersionInv
<1> QED  BY <1>2, <1>3, <1>4, <1>5, <1>6, <1>7, <1>8, <1>9, <1>10, <1>11 DEF Next, ReadLine

LEMMA VersionInvImplies == TypeOK /\ VersionInv => ThrowsForMalformed
<1> SUFFICES ASSUME TypeOK, VersionInv, outcome = "parsed" PROVE ~Malformed
  BY DEF ThrowsForMalformed, VersionInv
<1>1. idx = Len(content) /\ Len(content) \in Nat
  BY DEF VersionInv, TypeOK
<1>2. content # <<>> => idx >= 1
  BY <1>1 DEF TypeOK
<1> QED  BY <1>1, <1>2, MalformedIs DEF VersionInv

(* The constructor throws for a text without the first line or with two    *)
(* versions and for no other, provided that none reads as -1.              *)
THEOREM ThrowsExactlyForMalformed ==
  ASSUME VersionsReadable
  PROVE  Spec => []ThrowsForMalformed
<1>1. Init => VersionInv
  BY DEF Init, VersionInv, VersionsReadable
<1> QED  BY <1>1, TypeInit, TypeStep, VersionInvStep, VersionInvImplies, PTL DEF Spec

(***************************************************************************)
(* The loop finds what the text says.                                      *)
(***************************************************************************)

(* The uris among the first k lines of a text, and the tags of a kind with *)
(* a value.  The first line is none of them.                               *)
UrisIn(text, k) == {j \in 2 .. k : text[j].tag = "uri"}
ValuedIn(text, tag, k) == {j \in 2 .. k : text[j].tag = tag /\ text[j].value # NoValue}

(* What the first k lines say of a segment that comes next.                *)
DurationAfter(text, k) ==
  IF ValuedIn(text, "#EXTINF", k) = {} THEN -1
  ELSE text[LastOf(ValuedIn(text, "#EXTINF", k))].value
GivenAt(text, k) ==
  IF ValuedIn(text, "#EXT-X-MEDIA-SEQUENCE", k) = {} THEN 1
  ELSE LastOf(ValuedIn(text, "#EXT-X-MEDIA-SEQUENCE", k))
SinceGiven(text, k) == {j \in UrisIn(text, k) : GivenAt(text, k) < j}
NumberAfter(text, k) ==
  (IF ValuedIn(text, "#EXT-X-MEDIA-SEQUENCE", k) = {} THEN 0 ELSE text[GivenAt(text, k)].value)
  + Cardinality(SinceGiven(text, k))

(* The last of some lines, and of those with a later one added.            *)
LEMMA LastIs ==
  ASSUME NEW k \in Nat, NEW S \in SUBSET (2 .. k)
  PROVE  /\ LastOf(S \cup {k + 1}) = k + 1
         /\ S # {} => LastOf(S) \in S /\ \A j \in S : j =< LastOf(S)
<1>1. LastOf(S \cup {k + 1}) = k + 1
  <2> DEFINE T == S \cup {k + 1}
             IsLast(m) == m \in T /\ \A j \in T : j =< m
  <2>1. IsLast(k + 1)
    OBVIOUS
  <2>2. \A m : IsLast(m) => m = k + 1
    OBVIOUS
  <2>3. LastOf(T) = CHOOSE m : IsLast(m)
    BY DEF LastOf
  <2> HIDE DEF IsLast
  <2>4. IsLast(CHOOSE m : IsLast(m))
    BY <2>1
  <2> QED  BY <2>2, <2>3, <2>4
<1>2. ASSUME S # {} PROVE LastOf(S) \in S /\ \A j \in S : j =< LastOf(S)
  <2> DEFINE D == {k - j : j \in S}
  <2>1. D \in SUBSET Nat /\ D # {}
    <3>1. PICK s \in S : TRUE
      BY <1>2
    <3>2. k - s \in D
      BY <3>1
    <3>3. D \in SUBSET Nat
      OBVIOUS
    <3> QED  BY <3>2, <3>3
  <2>2. PICK d \in D : \A e \in D : d =< e
    BY <2>1, HasLeast
  <2>3. PICK m \in S : d = k - m
    OBVIOUS
  <2>4. \A j \in S : j =< m
    BY <2>2, <2>3
  <2> QED  BY <2>4 DEF LastOf
<1> QED  BY <1>1, <1>2

(* What one more line adds to them.                                        *)
LEMMA OneMoreLine ==
  ASSUME NEW text \in Seq(Line), NEW k \in Nat, k < Len(text), NEW tag
  PROVE  /\ UrisIn(text, k) \in SUBSET (2 .. k) /\ ValuedIn(text, tag, k) \in SUBSET (2 .. k)
         /\ UrisIn(text, k + 1) = IF 0 < k /\ text[k + 1].tag = "uri"
                                  THEN UrisIn(text, k) \cup {k + 1} ELSE UrisIn(text, k)
         /\ ValuedIn(text, tag, k + 1)
              = IF 0 < k /\ text[k + 1].tag = tag /\ text[k + 1].value # NoValue
                THEN ValuedIn(text, tag, k) \cup {k + 1} ELSE ValuedIn(text, tag, k)
<1>1. \A j : j \in 2 .. k + 1 <=> j \in 2 .. k \/ (0 < k /\ j = k + 1)
  OBVIOUS
<1>2. UrisIn(text, k) \in SUBSET (2 .. k) /\ ValuedIn(text, tag, k) \in SUBSET (2 .. k)
  BY DEF UrisIn, ValuedIn
<1>3. \A j : j \in UrisIn(text, k + 1) <=>
               j \in UrisIn(text, k) \/ (0 < k /\ j = k + 1 /\ text[k + 1].tag = "uri")
  BY <1>1 DEF UrisIn
<1>4. \A j : j \in ValuedIn(text, tag, k + 1) <=>
               \/ j \in ValuedIn(text, tag, k)
               \/ 0 < k /\ j = k + 1 /\ text[k + 1].tag = tag /\ text[k + 1].value # NoValue
  BY <1>1 DEF ValuedIn
<1> QED  BY <1>2, <1>3, <1>4, Zenon

LEMMA UrisCounted ==
  ASSUME NEW text \in Seq(Line), NEW k \in Nat, k < Len(text)
  PROVE  /\ IsFiniteSet(UrisIn(text, k)) /\ Cardinality(UrisIn(text, k)) \in Nat
         /\ 0 < k /\ text[k + 1].tag = "uri" =>
              Cardinality(UrisIn(text, k + 1)) = Cardinality(UrisIn(text, k)) + 1
<1>1. UrisIn(text, k) \in SUBSET (2 .. k) /\ k + 1 \notin UrisIn(text, k)
  <2>1. UrisIn(text, k) \in SUBSET (2 .. k)
    BY DEF UrisIn
  <2> QED  BY <2>1
<1>2. IsFiniteSet(UrisIn(text, k))
  <2>1. IsFiniteSet(2 .. k)
    BY FS_Interval
  <2> QED  BY <1>1, <2>1, FS_Subset
<1>3. ASSUME 0 < k, text[k + 1].tag = "uri"
      PROVE  UrisIn(text, k + 1) = UrisIn(text, k) \cup {k + 1}
  BY <1>3, OneMoreLine
<1> QED  BY <1>1, <1>2, <1>3, FS_AddElement, FS_CardinalityType

(* The first line, and lines without a value, say nothing of durations; an *)
(* #EXTINF does.                                                           *)
LEMMA DurationLine ==
  ASSUME NEW text \in Seq(Line), NEW k \in Nat, k < Len(text)
  PROVE  DurationAfter(text, k + 1)
           = IF 0 < k /\ text[k + 1].tag = "#EXTINF" /\ text[k + 1].value # NoValue
             THEN text[k + 1].value ELSE DurationAfter(text, k)
<1> DEFINE V == ValuedIn(text, "#EXTINF", k)
           W == ValuedIn(text, "#EXTINF", k + 1)
           Says == 0 < k /\ text[k + 1].tag = "#EXTINF" /\ text[k + 1].value # NoValue
<1>1. V \in SUBSET (2 .. k) /\ W = IF Says THEN V \cup {k + 1} ELSE V
  BY OneMoreLine
<1> HIDE DEF V, W, Says
<1>2. CASE Says
  <2>1. W # {} /\ LastOf(W) = k + 1
    BY <1>1, <1>2, LastIs
  <2> QED  BY <1>2, <2>1 DEF DurationAfter, W, Says
<1>3. CASE ~Says
  BY <1>1, <1>3 DEF DurationAfter, V, W, Says
<1> QED  BY <1>2, <1>3

(* A number given is the next segment's, a uri is followed by the next     *)
(* number, and no other line changes it.                                   *)
LEMMA NumberLine ==
  ASSUME NEW text \in Seq(Line), NEW k \in Nat, k < Len(text)
  PROVE  /\ NumberAfter(text, k) \in Int
         /\ NumberAfter(text, k + 1)
              = IF /\ 0 < k /\ text[k + 1].tag = "#EXT-X-MEDIA-SEQUENCE"
                   /\ text[k + 1].value # NoValue
                THEN text[k + 1].value
                ELSE NumberAfter(text, k)
                     + (IF 0 < k /\ text[k + 1].tag = "uri" THEN 1 ELSE 0)
<1> DEFINE V == ValuedIn(text, "#EXT-X-MEDIA-SEQUENCE", k)
           W == ValuedIn(text, "#EXT-X-MEDIA-SEQUENCE", k + 1)
           U == UrisIn(text, k)
           X == UrisIn(text, k + 1)
           Gives == /\ 0 < k /\ text[k + 1].tag = "#EXT-X-MEDIA-SEQUENCE"
                    /\ text[k + 1].value # NoValue
           Counts == 0 < k /\ text[k + 1].tag = "uri"
<1>1. /\ V \in SUBSET (2 .. k) /\ W = IF Gives THEN V \cup {k + 1} ELSE V
      /\ U \in SUBSET (2 .. k) /\ X = IF Counts THEN U \cup {k + 1} ELSE U
  BY OneMoreLine
<1>2. IsFiniteSet(U)
  BY UrisCounted
<1>3. \A j \in V : text[j].value \in Int
  <2>1. \A j \in V : j \in 1 .. Len(text) /\ text[j].value # NoValue
    BY <1>1 DEF ValuedIn
  <2>2. \A j \in 1 .. Len(text) : text[j] \in Line
    OBVIOUS
  <2>3. \A line \in Line : line.value \in Int \cup {NoValue}
    BY DEF Line
  <2> QED  BY <2>1, <2>2, <2>3
<1>4. Gives => ~Counts /\ text[k + 1].value \in Int
  <2>1. text[k + 1] \in Line
    OBVIOUS
  <2>2. text[k + 1].value \in Int \cup {NoValue}
    BY <2>1 DEF Line
  <2> QED  BY <2>2
<1> HIDE DEF V, W, U, X, Gives, Counts
<1>5. GivenAt(text, k) \in Int /\ (0 < k => GivenAt(text, k) =< k)
  <2>1. CASE V = {}
    BY <2>1 DEF GivenAt, V
  <2>2. CASE V # {}
    <3>1. LastOf(V) \in V
      BY <1>1, <2>2, LastIs
    <3> QED  BY <1>1, <2>2, <3>1 DEF GivenAt, V
  <2> QED  BY <2>1, <2>2
<1>6. SinceGiven(text, k) \in SUBSET U /\ IsFiniteSet(SinceGiven(text, k))
      /\ Cardinality(SinceGiven(text, k)) \in Nat
  <2>1. SinceGiven(text, k) \in SUBSET U
    BY DEF SinceGiven, U
  <2> QED  BY <1>2, <2>1, FS_Subset, FS_CardinalityType
<1>7. V # {} => text[GivenAt(text, k)].value \in Int
  <2>1. V # {} => LastOf(V) \in V /\ GivenAt(text, k) = LastOf(V)
    BY <1>1, LastIs DEF GivenAt, V
  <2> QED  BY <1>3, <2>1
<1>8. NumberAfter(text, k) \in Int
  BY <1>6, <1>7 DEF NumberAfter, V
<1>9. CASE Gives
  <2>1. W # {} /\ GivenAt(text, k + 1) = k + 1
    BY <1>1, <1>9, LastIs DEF GivenAt, W
  <2>2. X = U
    BY <1>1, <1>4, <1>9
  <2>3. SinceGiven(text, k + 1) = {}
    <3>1. \A j \in X : ~(k + 1 < j)
      BY <1>1, <2>2
    <3> QED  BY <2>1, <3>1 DEF SinceGiven, X
  <2>4. NumberAfter(text, k + 1) = text[k + 1].value
    <3>1. Cardinality(SinceGiven(text, k + 1)) = 0
      BY <2>3, FS_EmptySet
    <3>2. text[k + 1].value \in Int
      BY <1>4, <1>9
    <3> QED  BY <2>1, <3>1, <3>2 DEF NumberAfter, W
  <2> QED  BY <1>8, <1>9, <2>4 DEF Gives
<1>10. CASE ~Gives
  <2>1. V = W /\ GivenAt(text, k + 1) = GivenAt(text, k)
    <3>1. V = W
      BY <1>1, <1>10
    <3> QED  BY <3>1, Zenon DEF GivenAt, V, W
  <2>2. CASE Counts
    <3>1. GivenAt(text, k) < k + 1
      BY <1>5, <2>2 DEF Counts
    <3>2. SinceGiven(text, k + 1) = SinceGiven(text, k) \cup {k + 1}
      BY <1>1, <2>1, <2>2, <3>1 DEF SinceGiven, U, X
    <3>3. k + 1 \notin SinceGiven(text, k)
      BY <1>1, <1>6
    <3>4. Cardinality(SinceGiven(text, k + 1)) = Cardinality(SinceGiven(text, k)) + 1
      BY <1>6, <3>2, <3>3, FS_AddElement
    <3>5. NumberAfter(text, k + 1) = NumberAfter(text, k) + 1
      BY <1>6, <1>7, <2>1, <3>4 DEF NumberAfter, V, W
    <3> QED  BY <1>8, <1>10, <2>2, <3>5 DEF Gives, Counts
  <2>3. CASE ~Counts
    <3>1. SinceGiven(text, k + 1) = SinceGiven(text, k)
      BY <1>1, <2>1, <2>3 DEF SinceGiven, U, X
    <3>2. NumberAfter(text, k + 1) = NumberAfter(text, k)
      BY <2>1, <3>1, Zenon DEF NumberAfter, V, W
    <3> QED  BY <1>8, <1>10, <2>3, <3>2 DEF Gives, Counts
  <2> QED  BY <2>2, <2>3
<1> QED  BY <1>8, <1>9, <1>10

------------------------------------------------------------------------------
(* What the loop has found so far, the number and the duration it carries  *)
(* included, is what the lines read so far say.                            *)
Numbered(text) ==
  \A k \in DOMAIN text :
    text[k].tag = "#EXT-X-MEDIA-SEQUENCE" /\ text[k].value # NoValue => -INT =< text[k].value

FoundAt(k) ==
  LET segment == segments[Cardinality(UrisIn(content, k))]
  IN  /\ segment.uri = content[k].value
      /\ segment.extinf = DurationAfter(content, k - 1)
      /\ NumberAfter(content, k - 1) < INT => segment.seq = NumberAfter(content, k - 1)

AsWritten ==
  /\ Numbered(content)
  /\ extinf = DurationAfter(content, idx)
  /\ NumberAfter(content, idx) < INT => seq_nr = NumberAfter(content, idx)
  /\ Len(segments) = Cardinality(UrisIn(content, idx))
  /\ \A k \in UrisIn(content, idx) : FoundAt(k)

(* No text gives a number that is too small for an int.                    *)
NumbersReadable == \A text \in Contents : Numbered(text)

(* No line has been read.                                                  *)
LEMMA NothingRead ==
  ASSUME NEW text
  PROVE  /\ UrisIn(text, 0) = {} /\ Cardinality(UrisIn(text, 0)) = 0
         /\ DurationAfter(text, 0) = -1 /\ NumberAfter(text, 0) = 0
<1>1. UrisIn(text, 0) = {} /\ \A tag : ValuedIn(text, tag, 0) = {}
  BY DEF UrisIn, ValuedIn
<1>2. SinceGiven(text, 0) = {}
  BY <1>1 DEF SinceGiven
<1>3. NumberAfter(text, 0) = 0
  BY <1>1, <1>2, FS_EmptySet DEF NumberAfter
<1> QED  BY <1>1, <1>3, FS_EmptySet DEF DurationAfter

(* A line has been read that is no uri.                                    *)
LEMMA NoUriRead ==
  ASSUME TypeOK, AsWritten, idx < Len(content), 0 < idx => content[idx + 1].tag # "uri",
         content' = content, idx' = idx + 1, segments' = segments,
         extinf' = DurationAfter(content, idx + 1),
         NumberAfter(content, idx + 1) < INT => seq_nr' = NumberAfter(content, idx + 1)
  PROVE  AsWritten'
<1>1. content \in Seq(Line) /\ idx \in Nat
  BY DEF TypeOK
<1>2. UrisIn(content, idx + 1) = UrisIn(content, idx)
  BY <1>1, OneMoreLine
<1>3. \A k \in UrisIn(content, idx) : FoundAt(k)'
  BY DEF AsWritten, FoundAt
<1> QED  BY <1>2, <1>3 DEF AsWritten

(* A line that says nothing.                                               *)
LEMMA PlainLineRead ==
  ASSUME TypeOK, AsWritten, idx < Len(content),
         0 < idx => content[idx + 1].tag # "uri"
                    /\ (content[idx + 1].value = NoValue
                        \/ content[idx + 1].tag \notin {"#EXTINF", "#EXT-X-MEDIA-SEQUENCE"}),
         content' = content, idx' = idx + 1,
         UNCHANGED <<segments, extinf, seq_nr>>
  PROVE  AsWritten'
<1>1. content \in Seq(Line) /\ idx \in Nat
  BY DEF TypeOK
<1>2. DurationAfter(content, idx + 1) = DurationAfter(content, idx)
  BY <1>1, DurationLine
<1>3. NumberAfter(content, idx + 1) = NumberAfter(content, idx)
  BY <1>1, NumberLine
<1> QED  BY <1>2, <1>3, NoUriRead DEF AsWritten

LEMMA UriRead == TypeOK /\ AsWritten /\ UriLine => AsWritten'
<1> SUFFICES ASSUME TypeOK, AsWritten, UriLine PROVE AsWritten'
  OBVIOUS
<1> DEFINE line == content[idx + 1]
           n == Cardinality(UrisIn(content, idx))
<1>1. /\ content \in Seq(Line) /\ idx \in Nat /\ 0 < idx /\ idx < Len(content)
      /\ line.tag = "uri" /\ segments \in Seq(Segment) /\ seq_nr \in Int32
  BY DEF TypeOK, UriLine, Turn
<1>2. /\ content' = content /\ idx' = idx + 1 /\ extinf' = extinf
      /\ segments' = Append(segments, SegmentOf(line)) /\ seq_nr' = AsInt(seq_nr + 1)
  BY DEF UriLine
<1>3. n \in Nat /\ Cardinality(UrisIn(content, idx + 1)) = n + 1 /\ Len(segments) = n
  BY <1>1, UrisCounted DEF AsWritten
<1>4. UrisIn(content, idx + 1) = UrisIn(content, idx) \cup {idx + 1}
      /\ UrisIn(content, idx) \in SUBSET (2 .. idx)
  BY <1>1, OneMoreLine
<1>5. DurationAfter(content, idx + 1) = DurationAfter(content, idx)
  BY <1>1, DurationLine
<1>6. NumberAfter(content, idx) \in Int
      /\ NumberAfter(content, idx + 1) = NumberAfter(content, idx) + 1
  BY <1>1, NumberLine
<1>7. Len(segments') = n + 1 /\ segments'[n + 1] = SegmentOf(line)
      /\ \A i \in 1 .. n : segments'[i] = segments[i]
  BY <1>1, <1>2, <1>3
<1>8. NumberAfter(content, idx + 1) < INT => seq_nr' = NumberAfter(content, idx + 1)
  <2> SUFFICES ASSUME NumberAfter(content, idx) + 1 < INT
               PROVE  seq_nr' = NumberAfter(content, idx) + 1
    BY <1>6
  <2>1. INT \in Nat
    BY ConstantsAssumption
  <2>2. seq_nr = NumberAfter(content, idx)
    BY <1>6, <2>1 DEF AsWritten
  <2>3. seq_nr + 1 \in Int32
    BY <1>1, <2>1, <2>2 DEF Int32
  <2> QED  BY <1>2, <2>2, <2>3, AsIntFits
<1>9. ASSUME NEW k \in UrisIn(content, idx) PROVE FoundAt(k)'
  <2>1. Cardinality(UrisIn(content, k)) \in 1 .. n
    <3>1. k \in UrisIn(content, k) /\ UrisIn(content, k) \subseteq UrisIn(content, idx)
      BY <1>1, <1>4 DEF UrisIn
    <3>2. IsFiniteSet(UrisIn(content, idx))
      BY <1>1, UrisCounted
    <3>3. IsFiniteSet(UrisIn(content, k)) /\ Cardinality(UrisIn(content, k)) =< n
          /\ Cardinality(UrisIn(content, k)) \in Nat
      BY <3>1, <3>2, FS_Subset, FS_CardinalityType
    <3>4. Cardinality(UrisIn(content, k)) # 0
      BY <3>1, <3>3, FS_EmptySet
    <3> QED  BY <1>3, <3>3, <3>4
  <2>2. segments'[Cardinality(UrisIn(content, k))] = segments[Cardinality(UrisIn(content, k))]
    BY <1>7, <2>1
  <2>3. FoundAt(k)
    BY DEF AsWritten
  <2> QED  BY <1>2, <2>2, <2>3 DEF FoundAt
<1>10. ASSUME NEW k, k = idx + 1 PROVE FoundAt(k)'
  <2>1. k - 1 = idx
    BY <1>1, <1>10
  <2>2. segments'[Cardinality(UrisIn(content, k))] = SegmentOf(line)
    BY <1>3, <1>7, <1>10
  <2>3. /\ SegmentOf(line).uri = line.value /\ SegmentOf(line).extinf = extinf
        /\ SegmentOf(line).seq = seq_nr
    BY DEF SegmentOf
  <2>4. extinf = DurationAfter(content, idx)
        /\ (NumberAfter(content, idx) < INT => seq_nr = NumberAfter(content, idx))
    BY DEF AsWritten
  <2> QED  BY <1>2, <1>10, <2>1, <2>2, <2>3, <2>4 DEF FoundAt
<1>11. \A k \in UrisIn(content, idx + 1) : FoundAt(k)'
  BY <1>4, <1>9, <1>10
<1>12. Numbered(content) /\ extinf' = DurationAfter(content, idx + 1)
  BY <1>2, <1>5 DEF AsWritten
<1> QED  BY <1>2, <1>3, <1>7, <1>8, <1>11, <1>12 DEF AsWritten

LEMMA MediaSequenceRead == TypeOK /\ AsWritten /\ MediaSequenceLine => AsWritten'
<1> SUFFICES ASSUME TypeOK, AsWritten, MediaSequenceLine PROVE AsWritten'
  OBVIOUS
<1> DEFINE line == content[idx + 1]
<1>1. /\ content \in Seq(Line) /\ idx \in Nat /\ 0 < idx /\ idx < Len(content)
      /\ line.tag = "#EXT-X-MEDIA-SEQUENCE" /\ line \in Line
  BY LineType DEF TypeOK, MediaSequenceLine, Turn
<1>2. /\ content' = content /\ idx' = idx + 1 /\ extinf' = extinf /\ segments' = segments
      /\ seq_nr' = IntOr(seq_nr)
  BY DEF MediaSequenceLine
<1>3. CASE line.value = NoValue
  <2>1. seq_nr' = seq_nr
    BY <1>2, <1>3 DEF IntOr, HasValue
  <2> QED  BY <1>1, <1>2, <1>3, <2>1, PlainLineRead
<1>4. CASE line.value # NoValue
  <2>1. line.value \in Int /\ -INT =< line.value
    <3>1. line.value \in Int
      BY <1>1, <1>4 DEF Line
    <3>2. idx + 1 \in DOMAIN content
      BY <1>1
    <3> QED  BY <1>1, <1>4, <3>1, <3>2 DEF AsWritten, Numbered
  <2>2. NumberAfter(content, idx + 1) = line.value
    BY <1>1, <1>4, NumberLine
  <2>3. extinf' = DurationAfter(content, idx + 1)
    BY <1>1, <1>2, DurationLine DEF AsWritten
  <2>4. line.value < INT => seq_nr' = line.value
    <3>1. INT \in Nat
      BY ConstantsAssumption
    <3>2. line.value < INT => line.value \in Int32
      BY <2>1, <3>1 DEF Int32
    <3> QED  BY <1>2, <1>4, <3>2, AsIntFits DEF IntOr, HasValue
  <2> QED  BY <1>1, <1>2, <2>2, <2>3, <2>4, NoUriRead
<1> QED  BY <1>3, <1>4

LEMMA ExtInfRead == TypeOK /\ AsWritten /\ ExtInfLine => AsWritten'
<1> SUFFICES ASSUME TypeOK, AsWritten, ExtInfLine PROVE AsWritten'
  OBVIOUS
<1>1. /\ content \in Seq(Line) /\ idx \in Nat /\ 0 < idx /\ idx < Len(content)
      /\ content[idx + 1].tag = "#EXTINF"
  BY DEF TypeOK, ExtInfLine, Turn
<1>2. /\ content' = content /\ idx' = idx + 1 /\ seq_nr' = seq_nr /\ segments' = segments
      /\ extinf' = IF HasValue THEN content[idx + 1].value ELSE extinf
  BY DEF ExtInfLine
<1>3. extinf' = DurationAfter(content, idx + 1)
  BY <1>1, <1>2, DurationLine DEF AsWritten, HasValue
<1>4. NumberAfter(content, idx + 1) = NumberAfter(content, idx)
  BY <1>1, NumberLine
<1> QED  BY <1>1, <1>2, <1>3, <1>4, NoUriRead DEF AsWritten

(* What is rendered has the number of a parsed segment.                    *)
LEMMA RenderedNumbered ==
  ASSUME NEW window \in Seq(Segment), NEW target \in Int32
  PROVE  Numbered(PlaylistText(window, target))
<1> DEFINE t == PlaylistText(window, target)
<1>1. CASE window = <<>>
  <2>1. t = <<Written("#EXTM3U", NoValue), Written("#EXT-X-VERSION", 3)>>
    BY <1>1, EmptyLines
  <2> QED  BY <2>1 DEF Numbered, Written
<1>2. CASE window # <<>>
  <2>1. window[1].seq >= -INT
    <3>1. window[1] \in Segment
      BY <1>2
    <3> QED  BY <3>1, ConstantsAssumption DEF Segment, Int32
  <2>2. /\ t \in Seq(Line)
        /\ t[1] = Written("#EXTM3U", NoValue) /\ t[2] = Written("#EXT-X-VERSION", 3)
        /\ t[3] = Written("#EXT-X-TARGETDURATION", target)
        /\ t[4] = Written("#EXT-X-MEDIA-SEQUENCE", window[1].seq)
    BY <1>2, RenderedLines
  <2>3. ASSUME NEW k \in DOMAIN t, k # 4 PROVE t[k].tag # "#EXT-X-MEDIA-SEQUENCE"
    <3>1. k \in Nat \ {0}
      BY <2>2
    <3>2. k > 4 => t[k].tag \in {"#EXTINF", "uri"}
      BY <1>2, RenderedTags
    <3>3. k = 1 \/ k = 2 \/ k = 3 \/ k > 4
      BY <2>3, <3>1
    <3> HIDE DEF t
    <3> QED  BY <2>2, <3>2, <3>3 DEF Written
  <2>4. t[4].value = window[1].seq
    BY <2>2 DEF Written
  <2> HIDE DEF t
  <2>5. Numbered(t)
    BY <2>1, <2>3, <2>4 DEF Numbered
  <2> QED  BY <2>5 DEF t
<1> QED  BY <1>1, <1>2

LEMMA AsWrittenStep == TypeOK /\ AsWritten /\ [Next]_vars => AsWritten'
<1> SUFFICES ASSUME TypeOK, AsWritten, [Next]_vars PROVE AsWritten'
  OBVIOUS
<1>1. CASE UNCHANGED vars
  BY <1>1 DEF vars, AsWritten, FoundAt
<1>3. CASE FirstLine
  <2>1. Throws => AsWritten'
    BY DEF Throws, AsWritten, FoundAt
  <2>2. idx < Len(content)
    <3>1. content \in Seq(Line) /\ idx = 0 /\ content # <<>>
      BY <1>3 DEF FirstLine, TypeOK
    <3> QED  BY <3>1
  <2> QED  BY <1>3, <2>1, <2>2, PlainLineRead DEF FirstLine
<1>4. CASE VersionLine
  <2>1. Throws => AsWritten'
    BY DEF Throws, AsWritten, FoundAt
  <2> QED  BY <1>4, <2>1, PlainLineRead DEF VersionLine, Turn
<1>5. CASE TargetDurationLine
  BY <1>5, PlainLineRead DEF TargetDurationLine, Turn
<1>6. CASE MediaSequenceLine
  BY <1>6, MediaSequenceRead
<1>7. CASE ExtInfLine
  BY <1>7, ExtInfRead
<1>8. CASE IgnoredLine
  BY <1>8, PlainLineRead DEF IgnoredLine, Turn
<1>9. CASE UriLine
  BY <1>9, UriRead
<1>10. CASE EndOfText
  BY <1>10 DEF EndOfText, AsWritten, FoundAt
<1>11. ASSUME NEW window \in Windows, Render(window) PROVE AsWritten'
  <2>1. window \in Seq(Segment) /\ targetduration \in Int32
    BY WindowsType DEF TypeOK
  <2>2. Numbered(content')
    BY <1>11, <2>1, RenderedNumbered DEF Render
  <2> QED  BY <1>11, <2>2, NothingRead DEF Render, AsWritten
<1> QED  BY <1>1, <1>3, <1>4, <1>5, <1>6, <1>7, <1>8, <1>9, <1>10, <1>11 DEF Next, ReadLine

LEMMA AsWrittenImplies == TypeOK /\ AsWritten => SegmentsAsWritten
<1> SUFFICES ASSUME TypeOK, AsWritten PROVE SegmentsAsWritten
  OBVIOUS
<1>1. LinesRead("uri") = UrisIn(content, idx)
  BY DEF LinesRead, UrisIn
<1>2. ASSUME NEW k \in LinesRead("uri")
      PROVE  /\ {j \in LinesRead("uri") : j =< k} = UrisIn(content, k)
             /\ Duration(k) = DurationAfter(content, k - 1)
             /\ Number(k) = NumberAfter(content, k - 1)
  <2>1. idx \in Nat /\ k \in 2 .. idx
    BY DEF TypeOK, LinesRead
  <2>2. {j \in LinesRead("uri") : j =< k} = UrisIn(content, k)
    <3>1. \A j : j \in 2 .. idx /\ j =< k <=> j \in 2 .. k
      BY <2>1
    <3> QED  BY <3>1 DEF LinesRead, UrisIn
  <2>3. \A j : j \in 2 .. idx /\ j < k <=> j \in 2 .. k - 1
    BY <2>1
  <2>4. \A tag : Before(tag, k) = ValuedIn(content, tag, k - 1)
    BY <2>3 DEF Before, LinesRead, ValuedIn
  <2>5. {j \in LinesRead("uri") : GivenAt(content, k - 1) < j /\ j < k}
          = SinceGiven(content, k - 1)
    BY <2>3 DEF LinesRead, SinceGiven, UrisIn
  <2>6. Duration(k) = DurationAfter(content, k - 1)
    <3>1. Before("#EXTINF", k) = ValuedIn(content, "#EXTINF", k - 1)
      BY <2>4
    <3> QED  BY <3>1 DEF Duration, DurationAfter
  <2>7. GivenAt(content, k - 1)
          = IF Before("#EXT-X-MEDIA-SEQUENCE", k) = {} THEN 1
            ELSE LastOf(Before("#EXT-X-MEDIA-SEQUENCE", k))
    <3>1. Before("#EXT-X-MEDIA-SEQUENCE", k)
            = ValuedIn(content, "#EXT-X-MEDIA-SEQUENCE", k - 1)
      BY <2>4
    <3> QED  BY <3>1 DEF GivenAt
  <2>8. Number(k) = NumberAfter(content, k - 1)
    BY <2>4, <2>5, <2>7 DEF Number, NumberAfter
  <2> QED  BY <2>2, <2>6, <2>8
<1>3. Len(segments) = Cardinality(LinesRead("uri"))
  BY <1>1 DEF AsWritten
<1>4. \A k \in LinesRead("uri") : FoundAt(k)
  BY <1>1 DEF AsWritten
<1> QED  BY <1>2, <1>3, <1>4 DEF SegmentsAsWritten, FoundAt

(* The loop carries a number and a duration along and finds the segments   *)
(* of the text in their order, with the durations given last and the       *)
(* numbers counted from the one given last, of every text that gives no    *)
(* number too small for an int.                                            *)
THEOREM SegmentsFoundAsWritten ==
  ASSUME NumbersReadable
  PROVE  Spec => []SegmentsAsWritten
<1>1. Init => AsWritten
  BY NothingRead DEF Init, AsWritten, NumbersReadable
<1> QED  BY <1>1, TypeInit, TypeStep, AsWrittenStep, AsWrittenImplies, PTL DEF Spec
================================================================================
