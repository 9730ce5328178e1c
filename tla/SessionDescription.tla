------------------------- MODULE SessionDescription -------------------------
(***************************************************************************)
(* What a content stream takes from an SDP                                 *)
(* (ContentStream::configure_5gbc_delivery_from_sdp).  An SDP is a         *)
(* sequence of lines, a line its letter and the words of its value.        *)
(*                                                                         *)
(* The members it sets are those of the stream, and are never reset: what  *)
(* one SDP does not say stays as another one left it.                      *)
(***************************************************************************)
EXTENDS Naturals, Sequences, SequencesExt

CONSTANT
  Address  \* words that begin with digits and dots -> these digits and dots

NoSession == [type |-> "none", addr |-> "", port |-> <<>>, tsi |-> "0"]

(* "^IN (IP.) ([0-9\\.]+).*$"                                              *)
ReadConnection(session, words) ==
  IF /\ Len(words) >= 3 /\ words[1] = "IN"
     /\ words[2] \in {"IP4", "IP6"} /\ words[3] \in DOMAIN Address
  THEN [session EXCEPT !.addr = Address[words[3]]] ELSE session

(* "^application (.+) (.+)$", and "^application (.+) (.+) (.+)$", which    *)
(* overrides it.  The first group takes as many words as it can.           *)
ReadMedia(session, words) ==
  LET n == Len(words)
  IN  IF n < 3 \/ words[1] # "application" THEN session
      ELSE IF n = 3 THEN [session EXCEPT !.port = <<words[2]>>, !.type = words[3]]
      ELSE [session EXCEPT !.port = SubSeq(words, 2, n - 2), !.type = words[n - 1]]

(* "^flute-tsi:(.+)$", the number a word of its own here.                  *)
ReadAttribute(session, words) ==
  IF Len(words) = 2 /\ words[1] = "flute-tsi:" THEN [session EXCEPT !.tsi = words[2]]
  ELSE session

(* The loop at one line.                                                   *)
ReadSdpLine(session, line) ==
  CASE line.field = "c" -> ReadConnection(session, line.words)
    [] line.field = "m" -> ReadMedia(session, line.words)
    [] line.field = "a" -> ReadAttribute(session, line.words)
    [] OTHER -> session

Configure(session, sdp) == FoldLeft(ReadSdpLine, session, sdp)

(* What it returns; the type is never empty.                               *)
Available(session) == session.addr # "" /\ session.port # <<>>

(* Whether start() creates a receiver.                                     *)
IsFlute(session) == session.type = "FLUTE/UDP"
=============================================================================
