------------------------- MODULE SegmentDeliveryProofs -------------------------
(* Proofs about SegmentDelivery: what a GET, its fetch and its reply touch *)
(* is there, unless the segment was evicted or fetched twice.              *)
EXTENDS SegmentDelivery, TLAPS

(* No more files than bodies that were read, and none before the first.    *)
FilesCounted ==
  /\ bodies + files <= MaxFiles
  /\ cdn_file # 0 => files >= 1
  /\ cdn_file <= files

(* While the entry is cached, so are the Segment and, from the moment a    *)
(* GET has seen it, some file; the first file goes only for a second one.  *)
HeldWhileCached ==
  /\ cached => alive
  /\ \A c \in Client :
       /\ request[c].at \in {"checked", "labelled"} => ~cached \/ cdn_file # 0
       /\ request[c].at \in {"pointed", "sending"} => ~cached \/ request[c].file # 0
  /\ freed # {} => ~cached \/ files > 1

DeliveryInv == TypeOK /\ FilesCounted /\ HeldWhileCached /\ DanglingNeedsEvictionOrRefetch

LEMMA InitInv == Init => DeliveryInv
<1> SUFFICES ASSUME Init PROVE DeliveryInv
    OBVIOUS
<1>1. request \in [Client -> [at : Stage, file : File \cup {0}]]
      /\ \A c \in Client : request[c].at = "idle"
      BY DEF Init, NoRequest, Stage
<1>2. bodies \in 0 .. MaxFiles /\ files \in 0 .. MaxFiles /\ cdn_file \in File \cup {0}
      /\ FilesCounted
      BY ConstantsAssumption DEF Init, FilesCounted, File
<1>3. cached \in BOOLEAN /\ alive \in BOOLEAN /\ dangling \in BOOLEAN
      BY Zenon DEF Init
<1>4. freed = {} /\ served = {}
      BY DEF Init
<1>5. cached /\ alive /\ ~dangling
      BY Zenon DEF Init
<1>6. TypeOK
      BY <1>1, <1>2, <1>3, <1>4 DEF TypeOK
<1>7. HeldWhileCached /\ DanglingNeedsEvictionOrRefetch
      BY <1>1, <1>4, <1>5 DEF HeldWhileCached, DanglingNeedsEvictionOrRefetch
<1>8. QED BY <1>2, <1>6, <1>7 DEF DeliveryInv

Booleans == cached \in BOOLEAN /\ alive \in BOOLEAN /\ dangling \in BOOLEAN

(* The Boolean variables, apart: the assignments are FALSE, or a disjunct  *)
(* more than before, or the same.                                          *)
LEMMA BooleansStay == TypeOK /\ [Next]_vars => Booleans'
<1> SUFFICES ASSUME Booleans, [Next]_vars PROVE Booleans'
    BY Zenon DEF TypeOK, Booleans
<1> USE DEF Booleans
<1>1. CASE BodyRead BY Zenon, <1>1 DEF BodyRead
<1>2. CASE Expire BY Zenon, <1>2 DEF Expire
<1>3. CASE Trim BY Zenon, <1>3 DEF Trim
<1>4. ASSUME NEW c \in Client, Find(c) PROVE Booleans'
      BY Zenon, <1>4 DEF Find
<1>5. ASSUME NEW c \in Client, CheckBuffer(c) PROVE Booleans'
      BY Zenon, <1>5 DEF CheckBuffer
<1>6. ASSUME NEW c \in Client, Reply200(c) PROVE Booleans'
      BY Zenon, <1>6 DEF Reply200
<1>7. ASSUME NEW c \in Client, Sent(c) PROVE Booleans'
      BY Zenon, <1>7 DEF Sent
<1>8. ASSUME NEW c \in Client, HeadersOK(c) PROVE Booleans'
      BY Zenon, <1>8 DEF HeadersOK
<1>9. ASSUME NEW c \in Client, HeadersFail(c) PROVE Booleans'
      BY Zenon, <1>9 DEF HeadersFail
<1>10. ASSUME NEW c \in Client, Label(c) PROVE Booleans'
      BY Zenon, <1>10 DEF Label
<1>11. ASSUME NEW c \in Client, Point(c) PROVE Booleans'
      BY Zenon, <1>11 DEF Point
<1>12. CASE UNCHANGED vars BY Zenon, <1>12 DEF vars
<1>13. QED BY <1>1, <1>2, <1>3, <1>4, <1>5, <1>6, <1>7, <1>8, <1>9, <1>10, <1>11, <1>12
      DEF Next

LEMMA NextTyped == DeliveryInv /\ [Next]_vars => TypeOK' /\ FilesCounted'
<1> SUFFICES ASSUME DeliveryInv, [Next]_vars PROVE TypeOK' /\ FilesCounted'
    OBVIOUS
<1> USE ConstantsAssumption DEF DeliveryInv, TypeOK, FilesCounted, File
<1>0. cached' \in BOOLEAN /\ alive' \in BOOLEAN /\ dangling' \in BOOLEAN
      BY BooleansStay DEF Booleans
<1>1. CASE BodyRead
  <2>1. files' \in 0 .. MaxFiles /\ bodies' \in 0 .. MaxFiles /\ bodies' + files' <= MaxFiles
        /\ files' = files + 1 /\ UNCHANGED <<request, served>>
        BY <1>1 DEF BodyRead
  <2>2. cdn_file' \in File \cup {0} /\ cdn_file' <= files' /\ freed' \in SUBSET File
    <3>1. CASE alive
      <4>1. cdn_file' = files + 1 /\ freed' = freed \cup ({cdn_file} \ {0})
            BY <1>1, <3>1 DEF BodyRead, Stored, FreedBy
      <4>2. QED BY <2>1, <4>1
    <3>2. CASE ~alive
      <4>1. cdn_file' = cdn_file /\ freed' = freed
            BY <1>1, <3>2 DEF BodyRead
      <4>2. QED BY <2>1, <4>1
    <3>3. QED BY <3>1, <3>2
  <2>3. TypeOK'
    <3>1. request' \in [Client -> [at : Stage, file : File \cup {0}]]
          /\ served' \in SUBSET Client
          BY <2>1
    <3>2. QED BY Zenon, <1>0, <2>1, <2>2, <3>1
  <2>4. cdn_file' # 0 => files' >= 1
        BY <2>1
  <2>5. QED BY <2>1, <2>2, <2>3, <2>4
<1>2. CASE Expire
  <2>1. UNCHANGED <<request, bodies, files, cdn_file, freed, served>>
        BY <1>2 DEF Expire
  <2>2. QED BY <1>0, <2>1
<1>3. CASE Trim BY <1>0, <1>3 DEF Trim
<1>4. ASSUME NEW c \in Client, Find(c) PROVE TypeOK' /\ FilesCounted'
      BY <1>0, <1>4 DEF Find, Goto, Stage
<1>5. ASSUME NEW c \in Client, CheckBuffer(c) PROVE TypeOK' /\ FilesCounted'
      BY <1>0, <1>5 DEF CheckBuffer, Goto, Stage
<1>6. ASSUME NEW c \in Client, Reply200(c) PROVE TypeOK' /\ FilesCounted'
      BY <1>0, <1>6 DEF Reply200, Goto, Stage
<1>7. ASSUME NEW c \in Client, Sent(c) PROVE TypeOK' /\ FilesCounted'
      BY <1>0, <1>7 DEF Sent, NoRequest, Stage
<1>8. ASSUME NEW c \in Client, HeadersOK(c) PROVE TypeOK' /\ FilesCounted'
      BY <1>0, <1>8 DEF HeadersOK, Reply404, NoRequest, Stage
<1>9. ASSUME NEW c \in Client, HeadersFail(c) PROVE TypeOK' /\ FilesCounted'
      BY <1>0, <1>9 DEF HeadersFail, Reply404, NoRequest, Stage
<1>10. ASSUME NEW c \in Client, Label(c) PROVE TypeOK' /\ FilesCounted'
      BY <1>0, <1>10 DEF Label, Goto, Stage
<1>11. ASSUME NEW c \in Client, Point(c) PROVE TypeOK' /\ FilesCounted'
      BY <1>0, <1>11 DEF Point, Stage
<1>12. CASE UNCHANGED vars BY <1>0, <1>12 DEF vars
<1>13. QED BY <1>1, <1>2, <1>3, <1>4, <1>5, <1>6, <1>7, <1>8, <1>9, <1>10, <1>11, <1>12
      DEF Next

LEMMA NextHeld ==
  DeliveryInv /\ [Next]_vars => HeldWhileCached' /\ DanglingNeedsEvictionOrRefetch'
<1> DEFINE Goal == HeldWhileCached' /\ DanglingNeedsEvictionOrRefetch'
<1> SUFFICES ASSUME DeliveryInv, [Next]_vars PROVE Goal
    OBVIOUS
<1> USE ConstantsAssumption DEF DeliveryInv, TypeOK, FilesCounted, HeldWhileCached,
        DanglingNeedsEvictionOrRefetch, File
<1>1. CASE BodyRead
  <2>1. files' = files + 1 /\ UNCHANGED <<request, cached, alive>>
        BY <1>1 DEF BodyRead
  <2>2. CASE alive
    <3>1. cdn_file' = files + 1 /\ freed' = freed \cup ({cdn_file} \ {0})
          /\ dangling' = dangling
          BY <1>1, <2>2 DEF BodyRead, Stored, FreedBy
    <3>2. freed' # {} => ~cached' \/ files' > 1
          BY <2>1, <3>1
    <3>3. QED BY <2>1, <2>2, <3>1, <3>2
  <2>3. CASE ~alive
        BY <1>1, <2>1, <2>3 DEF BodyRead
  <2>4. QED BY <2>2, <2>3
<1>2. CASE Expire BY <1>2 DEF Expire
<1>3. CASE Trim BY <1>3 DEF Trim
<1>4. ASSUME NEW c \in Client, Find(c) PROVE Goal
      BY <1>4 DEF Find, Goto
<1>5. ASSUME NEW c \in Client, CheckBuffer(c) PROVE Goal
      BY <1>5 DEF CheckBuffer, Goto
<1>6. ASSUME NEW c \in Client, Reply200(c) PROVE Goal
      BY <1>6 DEF Reply200, Goto
<1>7. ASSUME NEW c \in Client, Sent(c) PROVE Goal
      BY <1>7 DEF Sent, NoRequest
<1>8. ASSUME NEW c \in Client, HeadersOK(c) PROVE Goal
      BY <1>8 DEF HeadersOK, Reply404, NoRequest
<1>9. ASSUME NEW c \in Client, HeadersFail(c) PROVE Goal
      BY <1>9 DEF HeadersFail, Reply404, NoRequest
<1>10. ASSUME NEW c \in Client, Label(c) PROVE Goal
      BY <1>10 DEF Label, Goto
<1>11. ASSUME NEW c \in Client, Point(c) PROVE Goal
      BY <1>11 DEF Point
<1>12. CASE UNCHANGED vars BY <1>12 DEF vars
<1>13. QED BY <1>1, <1>2, <1>3, <1>4, <1>5, <1>6, <1>7, <1>8, <1>9, <1>10, <1>11, <1>12
      DEF Next

(* Every reachable state has the shape that TypeOK gives it: no client is  *)
(* at a stage, and no pointer at a file, that there is not.                *)
THEOREM TypeCorrect == Spec => []TypeOK
<1>1. DeliveryInv /\ [Next]_vars => DeliveryInv'
      BY NextTyped, NextHeld DEF DeliveryInv
<1>2. DeliveryInv => TypeOK
      BY DEF DeliveryInv
<1>3. QED BY InitInv, <1>1, <1>2, PTL DEF Spec

(* For any number of clients and threads: a GET, its CDN fetch and its     *)
(* reply use something destroyed only if the entry was evicted meanwhile   *)
(* or the segment was fetched a second time.                               *)
THEOREM DanglingOnlyByEvictionOrRefetch == Spec => []DanglingNeedsEvictionOrRefetch
<1>1. DeliveryInv /\ [Next]_vars => DeliveryInv'
      BY NextTyped, NextHeld DEF DeliveryInv
<1>2. DeliveryInv => DanglingNeedsEvictionOrRefetch
      BY DEF DeliveryInv
<1>3. QED BY InitInv, <1>1, <1>2, PTL DEF Spec
================================================================================
