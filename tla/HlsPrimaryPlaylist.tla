-------------------------- MODULE HlsPrimaryPlaylist --------------------------
(***************************************************************************)
(* Parsing and rendering of HLS primary playlists (HlsPrimaryPlaylist.cpp) *)
(* as operators on texts.  A text is a sequence of lines; a line is what   *)
(* kind of line it is and the rest of it as a sequence of tokens, of which *)
(* ':', '=', ',' and '"' are those the parser tells apart.                 *)
(***************************************************************************)
EXTENDS Sequences, SequencesExt

CONSTANTS
  Numeral,  \* tokens that atoi and atof read as numbers, and the numbers
  Fixed     \* the number that is read from what setprecision(3) leaves of one

Quote == "\""

ASSUME NumeralAssumption ==
  /\ "0" \in Numeral
  /\ Fixed \in [Numeral -> Numeral]
  /\ \A n \in Numeral : Fixed[Fixed[n]] = Fixed[n]

(* What the parser tells apart is no number.                               *)
ASSUME PunctuationAssumption == Numeral \cap {":", "=", ",", Quote} = {}

(* A stream's attributes before anything is known of it, and a Stream.     *)
Unknown == [resolution |-> <<>>, codecs |-> <<>>, bandwidth |-> "0", frame_rate |-> "0"]
Entry(uri, attributes) == [uri |-> uri, attributes |-> attributes]

(* Fault variant: the text is kept.                                        *)
AsText(text) == text

(* atoi, atof: no number, no value.                                        *)
AsNumber(text) == IF Len(text) = 1 /\ text[1] \in Numeral THEN text[1] ELSE "0"

------------------------------------------------------------------------------
(* parse_parameters.                                                       *)

NothingRead == [quoted |-> FALSE, in_key |-> TRUE, key |-> <<>>, value |-> <<>>,
                result |-> <<>>]

(* The loop at one token.  A comma separates parameters when it is not     *)
(* quoted; a '=' is dropped wherever it stands.                            *)
ReadToken(p, token) ==
  CASE token = Quote -> [p EXCEPT !.quoted = ~@]
    [] token = "," /\ ~p.quoted ->
         [NothingRead EXCEPT !.result = Append(p.result, <<p.key, p.value>>)]
    [] token = "=" -> [p EXCEPT !.in_key = FALSE]
    [] OTHER -> IF p.in_key THEN [p EXCEPT !.key = Append(@, token)]
                            ELSE [p EXCEPT !.value = Append(@, token)]

ParseParameters(text) ==
  LET p == FoldLeft(ReadToken, NothingRead, text)
  IN  Append(p.result, <<p.key, p.value>>)

------------------------------------------------------------------------------
(* The constructor.                                                        *)

(* What follows the last ':' of a line that has one.                       *)
HasColon(line) == Contains(line.text, ":")
AfterColon(line) == SubSeq(line.text, SelectLastInSeq(line.text, LAMBDA t : t = ":") + 1,
                           Len(line.text))

(* The loop over the parameters of one line.                               *)
SetAttribute(attributes, param) ==
  CASE param[1] = <<"BANDWIDTH">>  -> [attributes EXCEPT !.bandwidth = AsNumber(param[2])]
    [] param[1] = <<"FRAME-RATE">> -> [attributes EXCEPT !.frame_rate = AsNumber(param[2])]
    [] param[1] = <<"RESOLUTION">> -> [attributes EXCEPT !.resolution = param[2]]
    [] param[1] = <<"CODECS">>     -> [attributes EXCEPT !.codecs = param[2]]
    [] OTHER -> attributes

Parsing == [idx |-> 0, version |-> FALSE, attributes |-> Unknown, streams |-> <<>>,
            threw |-> FALSE]

(* Fault variant: _version is initialised with 0.                          *)
AnyVersion(p) == TRUE

DuplicateVersion(p) == p.version

(* _version is another number than the -1 it began with.                   *)
SetsVersion(line) == HasColon(line) /\ AfterColon(line) # <<"-1">>

(* The loop at one line.                                                   *)
ReadLine(base_path, p, line) ==
  LET q == [p EXCEPT !.idx = @ + 1] IN
  CASE p.threw -> p
    [] ~p.threw /\ p.idx = 0 ->
         IF line.tag = "#EXTM3U" THEN q ELSE [p EXCEPT !.threw = TRUE]
    [] ~p.threw /\ p.idx > 0 /\ line.tag = "#EXT-X-VERSION" ->
         IF DuplicateVersion(p) THEN [p EXCEPT !.threw = TRUE]
         ELSE [q EXCEPT !.version = SetsVersion(line)]
    [] ~p.threw /\ p.idx > 0 /\ line.tag = "#EXT-X-STREAM-INF" /\ HasColon(line) ->
         [q EXCEPT !.attributes = FoldLeft(SetAttribute, @, ParseParameters(AfterColon(line)))]
    [] ~p.threw /\ p.idx > 0 /\ line.tag = "uri" ->
         [q EXCEPT !.streams = Append(@, Entry(base_path \o line.text, p.attributes)),
                   !.attributes = Unknown]
    [] OTHER -> q

Parse(text, base_path) ==
  FoldLeft(LAMBDA p, line : ReadLine(base_path, p, line), Parsing, text)

------------------------------------------------------------------------------
(* to_string.                                                              *)

Line(tag, text) == [tag |-> tag, text |-> text]

(* Fault variant: the codecs are not quoted.                               *)
Bare(text) == text

Quoted(text) == <<Quote>> \o text \o <<Quote>>

StreamInf(attributes) ==
  Line("#EXT-X-STREAM-INF",
       <<":", "BANDWITH", "=", attributes.bandwidth>>
       \o <<",", "RESOLUTION", "=">> \o attributes.resolution
       \o <<",", "FRAME-RATE", "=", Fixed[attributes.frame_rate]>>
       \o <<",", "CODECS", "=">> \o Quoted(attributes.codecs))

PlaylistText(streams) ==
  <<Line("#EXTM3U", <<>>), Line("#EXT-X-VERSION", <<":", "3">>)>>
  \o FlattenSeq([i \in DOMAIN streams |->
       <<StreamInf(streams[i].attributes), Line("uri", streams[i].uri)>>])
==============================================================================
