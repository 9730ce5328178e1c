------------------------- MODULE MCServiceAnnouncement -------------------------
(* Announcements for TLC: services a and b, playlist paths p and q.        *)
EXTENDS ServiceAnnouncement

Flute(path, method) ==
  [path |-> path, method |-> method, flute |-> TRUE, cdn |-> FALSE, unicast |-> FALSE]
Both(path, method) == [Flute(path, method) EXCEPT !.cdn = TRUE]
Cdn(path, method) == [Both(path, method) EXCEPT !.flute = FALSE]
Unicast(path, method) == [Cdn(path, method) EXCEPT !.unicast = TRUE]
Nothing(path, method) == [Flute(path, method) EXCEPT !.flute = FALSE]

UsdOf(id, streams) ==
  [id |-> id, manifest |-> "m" \o id, inline |-> TRUE, streams |-> streams,
   methods |-> Cardinality({streams[i].method : i \in DOMAIN streams}),
   malformed |-> FALSE]

(* Seamless services that come and go, change sources and grow.  One USD   *)
(* has a fault, which may show or not.                                     *)
Updates ==
  {<<UsdOf("a", <<Both("p", 1)>>)>>,
   <<UsdOf("a", <<Cdn("p", 1), Both("q", 1)>>)>>,
   <<UsdOf("b", <<Both("q", 1)>>), [UsdOf("a", <<Cdn("q", 1)>>) EXCEPT !.inline = FALSE]>>,
   <<[UsdOf("b", <<Flute("r", 1)>>) EXCEPT !.inline = FALSE, !.malformed = TRUE]>>}

(* Without seamless switching a stream may have no source.                 *)
Broadcasts ==
  {<<UsdOf("a", <<Nothing("s", 1), Flute("r", 1)>>)>>, <<UsdOf("a", <<Flute("s", 1)>>)>>}

(* One announcement; only the last delivery method has FLUTE streams.      *)
Firsts ==
  {<<UsdOf("a", <<Both("p", 1), Both("q", 1), Unicast("r", 1)>>)>>,
   <<UsdOf("a", <<Unicast("r", 1), Flute("p", 2), Unicast("s", 2), Both("t", 2)>>),
     UsdOf("b", <<Both("q", 1)>>)>>,
   <<UsdOf("a", <<Flute("p", 1), Both("q", 1), Both("r", 1), Both("s", 1), Both("t", 1)>>)>>}

(* A CDN endpoint is announced, then withdrawn.                            *)
Withdrawn == {<<UsdOf("a", <<Both("p", 1)>>)>>, <<UsdOf("a", <<Flute("p", 1)>>)>>}

(* Two delivery methods.                                                   *)
TwoMethods == {<<UsdOf("a", <<Flute("p", 1), Flute("q", 2)>>)>>}

Running(format, seamless, bundles, files) ==
  [format |-> format, seamless |-> seamless, bundles |-> bundles, files |-> files]

(* Threads have their receivers as late as they like.                      *)
UpdatesAndFirsts == {Running("default", TRUE, Updates, 3),
                     Running("default", FALSE, Broadcasts, 2),
                     Running("5gmag_bc_uc", TRUE, Updates, 2),
                     Running("5gmag_bc_uc", TRUE, Firsts, 1)}
Withdrawing == {Running("default", TRUE, Withdrawn, 2)}
Methods == {Running("5gmag_legacy", FALSE, TwoMethods, 1)}
================================================================================
