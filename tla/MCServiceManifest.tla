--------------------------- MODULE MCServiceManifest ---------------------------
(* Announcements for TLC.                                                  *)
EXTENDS ServiceManifest

Numerals == {"0", "3", "29.97002997", "29.970", "800", "900"}
ThreeDecimals ==
  [n \in Numerals |-> CASE n = "29.97002997" -> "29.970" [] OTHER -> n]

Dir == <<"dir/">>
Header == Line("#EXTM3U", <<>>)
Version == Line("#EXT-X-VERSION", <<":", "3">>)
Uri(name) == Line("uri", <<name>>)

(* An entry of a master, the attributes in an order of their own, the      *)
(* codecs with a comma.                                                    *)
Low == <<Line("#EXT-X-STREAM-INF",
              <<":", "BANDWIDTH", "=", "800", ",", "CODECS", "=", "\"", "avc1", ",", "mp4a",
                "\"", ",", "FRAME-RATE", "=", "29.97002997">>), Uri("low")>>
High == <<Line("#EXT-X-STREAM-INF",
               <<":", "RESOLUTION", "=", "1280x720", ",", "BANDWIDTH", "=", "900">>),
          Uri("high")>>
LowAgain == <<Line("#EXT-X-STREAM-INF", <<":", "RESOLUTION", "=", "640x360">>), Uri("low")>>

Own(name) == <<Header, Line("#EXT-X-STREAM-INF", <<>>), Line("uri", Dir \o <<name>>)>>
OwnOfTwo == <<Header, Uri("low"), Uri("high")>>

Field(field, words) == [field |-> field, words |-> words]

(* Where multicast addresses are followed by a TTL.                        *)
Addresses == ("238.1.1.95/127" :> "238.1.1.95") @@ ("239.0.0.1" :> "239.0.0.1")

Sdp(address, port, tsi) ==
  <<Field("v", <<"0">>), Field("m", <<"application", port, "FLUTE/UDP", "0">>),
    Field("c", <<"IN", "IP4", address>>), Field("a", <<"flute-tsi:", tsi>>)>>
WithoutTsi == <<Field("c", <<"IN", "IP4", "239.0.0.1">>),
                Field("m", <<"application", "5000", "FLUTE/UDP">>)>>
Incomplete == <<Field("c", <<"IN", "IP6", "ff1e::1">>), Field("a", <<"recvonly">>),
                Field("m", <<"application", "5000">>)>>

Stream(base, text, sdp) == [base |-> base, text |-> text, sdp |-> sdp]
LowStream(sdp) == Stream("low", Own("low"), sdp)
HighStream(sdp) == Stream("high", Own("high"), sdp)
MpdStream(base, sdp) == Stream(base, <<>>, sdp)

Announcement(master, streams) == [master |-> master, streams |-> streams]

Usual == Sdp("238.1.1.95/127", "4001", "1")
Moved == Sdp("239.0.0.1", "4002", "2")

First == Announcement(<<Header, Version>> \o Low \o High, <<LowStream(Usual)>>)
Second == Announcement(<<Header, Version>> \o LowAgain \o High \o Low, <<HighStream(Usual)>>)
Third == Announcement(<<Header>> \o High \o LowAgain,
                      <<Stream("both", OwnOfTwo, Usual), HighStream(Moved)>>)
Fourth == Announcement(<<Header>> \o Low, <<LowStream(WithoutTsi), HighStream(Incomplete)>>)
NoHeader == Announcement(<<Version>> \o Low, <<LowStream(Usual)>>)
TwoVersions == Announcement(<<Header, Version, Version>> \o Low, <<LowStream(Usual)>>)
OwnUnreadable == Announcement(<<Header>> \o Low, <<Stream("low", <<Version>>, Usual)>>)

Hls(announcements) ==
  [protocol |-> "HLS", announcements |-> announcements, broadcast_only |-> FALSE,
   legacy |-> FALSE]
BroadcastOnly(announcements) == [Hls(announcements) EXCEPT !.broadcast_only = TRUE]
Dash(announcements) == [Hls(announcements) EXCEPT !.protocol = "DASH"]
LegacyDash(announcements) == [Dash(announcements) EXCEPT !.legacy = TRUE]

TwoMpds == <<Announcement(<<1>>, <<MpdStream("a", Usual), MpdStream("b", Moved)>>),
             Announcement(<<3>>, <<MpdStream("a", Moved)>>)>>

SomeSettings ==
  {Hls(<<First, Second>>), Hls(<<Second, First>>), Hls(<<Third, First>>),
   Hls(<<Second, Third>>), Hls(<<First, NoHeader>>), Hls(<<TwoVersions>>),
   Hls(<<OwnUnreadable>>),
   BroadcastOnly(<<Fourth>>), BroadcastOnly(<<First, Fourth>>),
   Dash(TwoMpds), LegacyDash(TwoMpds)}

SomePaths == << <<>>, Dir \o <<"high">>, Dir \o <<"low">> >>
================================================================================
