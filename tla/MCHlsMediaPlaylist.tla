-------------------------- MODULE MCHlsMediaPlaylist --------------------------
(* Texts for TLC.                                                          *)
EXTENDS HlsMediaPlaylist

WithValue(tag, value) == [tag |-> tag, value |-> value, slashes |-> 0]

(* Durations are 5, 7 (rounded to 4, 8) and none; sequence numbers may not *)
(* fit an int of -4 .. 3.                                                  *)
Lines ==
  {WithValue("#EXT-X-VERSION", 3), WithValue("#EXT-X-VERSION", NoValue),
   WithValue("#EXT-X-TARGETDURATION", 2),
   WithValue("#EXT-X-MEDIA-SEQUENCE", 1), WithValue("#EXT-X-MEDIA-SEQUENCE", 3),
   WithValue("#EXT-X-MEDIA-SEQUENCE", 6), WithValue("#EXT-X-MEDIA-SEQUENCE", NoValue),
   WithValue("#EXTINF", 5), WithValue("#EXTINF", 7),
   WithValue("ignored", NoValue), WithValue("uri", 9)}

Header == WithValue("#EXTM3U", NoValue)

(* Any few lines; and longer lists of segments.                            *)
AnyTexts ==
  {<<>>} \cup {<<line>> : line \in Lines}
  \cup {<<Header>> \o s : s \in UNION {[1 .. n -> Lines] : n \in 0 .. 4}}
Lists ==
  {<<Header, WithValue("#EXT-X-TARGETDURATION", 1)>> \o s :
     s \in [1 .. 6 -> {WithValue("#EXT-X-MEDIA-SEQUENCE", 1), WithValue("#EXTINF", 5),
                       WithValue("uri", 9)}]}
SomeTexts == AnyTexts \cup Lists
==============================================================================
