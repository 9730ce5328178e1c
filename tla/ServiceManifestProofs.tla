------------------------ MODULE ServiceManifestProofs ------------------------
(***************************************************************************)
(* Proofs about ServiceManifest, for any announcements in any order, any   *)
(* texts, MPDs and times:                                                  *)
(*   - LostOnlyAsMpdOrAtTurn: ManifestStays is an invariant;               *)
(*   - NewestMpdIsServed: NewestMpdServed is an invariant, if a stream of  *)
(*     each announcement starts;                                           *)
(*   - WholeUnlessDisturbed: TornNeedsChange is an invariant;              *)
(*   - OnlyMalformedTerminates: TerminatesForMalformed is an invariant;    *)
(*   - TypeCorrect: TypeOK is an invariant, if Paths has all paths;        *)
(*   - NewestSdpIsRun: NewestSdpRuns is an invariant;                      *)
(*   - AllHaveNewestAttributes: AttributesOfNewestMaster is an invariant,  *)
(*     if streams keep their paths and sources;                            *)
(*   - AnnouncedStaysListed: AnnouncedIsListed is an invariant, if Paths   *)
(*     has all paths;                                                      *)
(*   - ManifestIsReadBack: ManifestReadsBack is an invariant, if besides   *)
(*     no master gives a resolution with a comma.                          *)
(***************************************************************************)
EXTENDS ServiceManifest, SharedLemmas

(***************************************************************************)
(* The manifest stays in the cache.                                        *)
(***************************************************************************)

(* Announcements.                                                          *)
LEMMA Announcements ==
  ASSUME setting \in Settings
  PROVE  /\ Len(setting.announcements) \in Nat
         /\ \A a \in 1 .. Len(setting.announcements) :
              setting.announcements[a].streams \in Seq(Part)
<1> DEFINE Masters == IF setting.protocol = "HLS" THEN PlaylistTexts ELSE Seq(Nat)
           Announcement == [master : Masters, streams : Seq(Part)]
<1>1. setting.announcements \in Seq(Announcement)
  BY ConstantsAssumption
<1> HIDE DEF Masters, Announcement
<1>2. /\ Len(setting.announcements) \in Nat
      /\ \A a \in 1 .. Len(setting.announcements) : setting.announcements[a] \in Announcement
  BY <1>1
<1> QED  BY <1>2 DEF Announcement

(* The calls of the plan of the k-th announcement.                         *)
MasterCall(a) == [call |-> "master", text |-> setting.announcements[a].master]
StreamCall(k, a, i) ==
  [call |-> "stream", parts |-> Parts(k, setting.announcements[a].streams[i].base)]
StreamCalls(k, a) ==
  [i \in DOMAIN setting.announcements[a].streams |-> StreamCall(k, a, i)]
Calls(k) ==
  {MasterCall(a) : a \in 1 .. k}
    \cup UNION {{StreamCall(k, a, i) : i \in DOMAIN setting.announcements[a].streams} :
                a \in 1 .. k}

(* The k-th master is read, and then the streams of the a-th announcement  *)
(* are started, and nothing else.                                          *)
EndsAt(p, m, k, a) ==
  /\ p[m] = MasterCall(k)
  /\ Len(p) = m + Len(setting.announcements[a].streams)
  /\ \A i \in DOMAIN setting.announcements[a].streams : p[m + i] = StreamCall(k, a, i)

(* A plan begins with the first master, and ends with the newest and the   *)
(* streams of the newest announcement.                                     *)
LEMMA PlanIs ==
  ASSUME setting \in Settings, NEW k \in 1 .. Len(setting.announcements)
  PROVE  /\ Plan(k) \in Seq(Calls(k)) /\ Plan(k) # <<>> /\ Plan(k)[1] = MasterCall(1)
         /\ \E m \in 1 .. Len(Plan(k)) : EndsAt(Plan(k), m, k, k)
<1> DEFINE S == Calls(k)
           masters == [a \in 1 .. k |-> MasterCall(a)]
           blocks == [a \in 1 .. k |-> masters \o StreamCalls(k, a)]
           Begins(f, a) == IF a = 0 THEN f = <<>> ELSE f # <<>> /\ f[1] = MasterCall(1)
           Ends(f, a) == a # 0 => \E m \in 1 .. Len(f) : EndsAt(f, m, k, a)
           G == {x \in (0 .. k) \X Seq(S) : Begins(x[2], x[1]) /\ Ends(x[2], x[1])}
<1>1. /\ k \in Nat /\ k >= 1
      /\ \A a \in 1 .. k : /\ setting.announcements[a].streams \in Seq(Part)
                          /\ DOMAIN setting.announcements[a].streams
                               = 1 .. Len(setting.announcements[a].streams)
                          /\ Len(setting.announcements[a].streams) \in Nat
  BY Announcements
<1>2. masters \in Seq(S) /\ Len(masters) = k /\ \A a \in 1 .. k : masters[a] = MasterCall(a)
  <2>1. \A a \in 1 .. k : MasterCall(a) \in S
    BY DEF Calls
  <2> HIDE DEF S
  <2> QED  BY <1>1, <2>1
<1>3. ASSUME NEW a \in 1 .. k
      PROVE  /\ StreamCalls(k, a) \in Seq(S)
             /\ Len(StreamCalls(k, a)) = Len(setting.announcements[a].streams)
             /\ \A i \in DOMAIN setting.announcements[a].streams :
                  StreamCalls(k, a)[i] = StreamCall(k, a, i)
  <2>1. \A i \in DOMAIN setting.announcements[a].streams : StreamCall(k, a, i) \in S
    BY DEF Calls
  <2> DEFINE n == Len(setting.announcements[a].streams)
  <2>2. n \in Nat /\ DOMAIN setting.announcements[a].streams = 1 .. n
    BY <1>1
  <2> HIDE DEF S, n
  <2>3. StreamCalls(k, a) = [i \in 1 .. n |-> StreamCall(k, a, i)]
    BY <2>2 DEF StreamCalls
  <2>4. [i \in 1 .. n |-> StreamCall(k, a, i)] \in [1 .. n -> S]
    BY <2>1, <2>2
  <2>5. StreamCalls(k, a) \in Seq(S) /\ Len(StreamCalls(k, a)) = n
    BY <2>2, <2>3, <2>4
  <2> QED  BY <2>2, <2>3, <2>5 DEF n
<1> HIDE DEF S, masters
<1>4. ASSUME NEW a \in 1 .. k
      PROVE  /\ blocks[a] \in Seq(S) /\ Len(blocks[a]) \in Nat /\ blocks[a] # <<>>
             /\ blocks[a][1] = MasterCall(1)
             /\ k \in 1 .. Len(blocks[a]) /\ EndsAt(blocks[a], k, k, a)
  <2> DEFINE st == StreamCalls(k, a)
             b == masters \o st
             n == Len(setting.announcements[a].streams)
  <2>1. st \in Seq(S) /\ Len(st) = n /\ n \in Nat
        /\ DOMAIN setting.announcements[a].streams = 1 .. n
        /\ \A i \in 1 .. n : st[i] = StreamCall(k, a, i)
    BY <1>1, <1>3
  <2> HIDE DEF st
  <2>2. /\ b \in Seq(S) /\ Len(b) = k + n
        /\ \A i \in 1 .. k : b[i] = masters[i]
        /\ \A i \in 1 .. n : b[k + i] = st[i]
    <3>1. /\ b \in Seq(S) /\ Len(b) = Len(masters) + Len(st)
          /\ \A i \in 1 .. Len(masters) : b[i] = masters[i]
          /\ \A i \in 1 .. Len(st) : b[Len(masters) + i] = st[i]
      <4>1. masters \in Seq(S) /\ st \in Seq(S)
        BY <1>2, <2>1
      <4> HIDE DEF n
      <4> QED  BY ONLY <4>1, Concat DEF b
    <3> HIDE DEF b, n
    <3> QED  BY <1>2, <2>1, <3>1
  <2> HIDE DEF b, n
  <2>3. b[1] = MasterCall(1) /\ b[k] = MasterCall(k) /\ b # <<>> /\ k \in 1 .. Len(b)
        /\ Len(b) \in Nat
    BY <1>1, <1>2, <2>1, <2>2
  <2>4. EndsAt(b, k, k, a)
    BY <2>1, <2>2, <2>3 DEF EndsAt, n
  <2> QED  BY <2>2, <2>3, <2>4 DEF b, st
<1> HIDE DEF blocks
<1>5. blocks \in Seq(Seq(S)) /\ Len(blocks) = k
  <2>1. blocks = [a \in 1 .. k |-> blocks[a]]
    BY DEF blocks
  <2>2. blocks \in [1 .. k -> Seq(S)]
    BY <1>4, <2>1
  <2> QED  BY <1>1, <2>2
<1>G. \A a, f : <<a, f>> \in G <=> a \in 0 .. k /\ f \in Seq(S) /\ Begins(f, a) /\ Ends(f, a)
  OBVIOUS
<1> HIDE DEF G
<1>6. <<0, <<>>>> \in G
  <2>1. 0 \in 0 .. k /\ <<>> \in Seq(S)
    BY <1>1
  <2> QED  BY <1>G, <2>1
<1>7. ASSUME NEW a \in 1 .. Len(blocks), NEW f \in Seq(S), <<a - 1, f>> \in G
      PROVE  <<a, f \o blocks[a]>> \in G
  <2> DEFINE b == blocks[a]
             p == f \o b
  <2>1. a \in 1 .. k /\ a \in 0 .. k /\ a # 0
    BY <1>5
  <2>2. /\ b \in Seq(S) /\ Len(b) \in Nat /\ b # <<>> /\ b[1] = MasterCall(1)
        /\ k \in 1 .. Len(b) /\ EndsAt(b, k, k, a)
    BY <1>4, <2>1
  <2> HIDE DEF b
  <2>3. /\ p \in Seq(S) /\ Len(f) \in Nat /\ Len(p) = Len(f) + Len(b)
        /\ \A i \in 1 .. Len(f) : p[i] = f[i]
        /\ \A i \in 1 .. Len(b) : p[Len(f) + i] = b[i]
    BY <2>2, Concat
  <2>4. a - 1 = 0 => f = <<>>
    BY <1>7, <1>G
  <2>5. a - 1 # 0 => f # <<>> /\ f[1] = MasterCall(1)
    BY <1>7, <1>G
  <2> HIDE DEF p
  <2>6. p # <<>> /\ p[1] = MasterCall(1)
    <3>1. CASE f = <<>>
      <4>1. Len(f) + 1 = 1 /\ 1 \in 1 .. Len(b) /\ Len(p) # 0
        BY <1>1, <2>2, <2>3, <3>1
      <4>2. p[Len(f) + 1] = b[1]
        BY <2>3, <4>1
      <4> QED  BY <2>2, <4>1, <4>2
    <3>2. CASE f # <<>>
      <4>1. 1 \in 1 .. Len(f) /\ Len(p) # 0
        BY <2>2, <2>3, <3>2
      <4>2. f[1] = MasterCall(1)
        BY <2>4, <2>5, <3>2
      <4> QED  BY <2>3, <4>1, <4>2
    <3> QED  BY <3>1, <3>2
  <2>7. EndsAt(p, Len(f) + k, k, a) /\ Len(f) + k \in 1 .. Len(p)
    <3> DEFINE n == Len(setting.announcements[a].streams)
    <3>1. /\ n \in Nat /\ DOMAIN setting.announcements[a].streams = 1 .. n
          /\ b[k] = MasterCall(k) /\ Len(b) = k + n
          /\ \A i \in 1 .. n : b[k + i] = StreamCall(k, a, i)
      BY <1>1, <2>1, <2>2 DEF EndsAt
    <3> HIDE DEF n
    <3>2. p[Len(f) + k] = MasterCall(k) /\ Len(p) = (Len(f) + k) + n
          /\ Len(f) + k \in 1 .. Len(p)
      BY <1>1, <2>2, <2>3, <3>1
    <3>3. ASSUME NEW i \in 1 .. n PROVE p[(Len(f) + k) + i] = StreamCall(k, a, i)
      <4>1. k + i \in 1 .. Len(b) /\ Len(f) + (k + i) = (Len(f) + k) + i
        BY <1>1, <2>3, <3>1
      <4>2. p[Len(f) + (k + i)] = b[k + i]
        BY <2>3, <4>1
      <4> QED  BY <3>1, <4>1, <4>2
    <3> QED  BY <3>1, <3>2, <3>3 DEF EndsAt, n
  <2>8. Begins(p, a) /\ Ends(p, a)
    BY <2>1, <2>6, <2>7
  <2>9. <<a, p>> \in G
    BY <1>G, <2>1, <2>3, <2>8
  <2> QED  BY <2>9 DEF p, b
<1>8. FlattenSeq(blocks) \in Seq(S) /\ <<Len(blocks), FlattenSeq(blocks)>> \in G
  BY <1>5, <1>6, <1>7, FlattenFolds
<1>9. Plan(k) = FlattenSeq(blocks)
  BY DEF Plan, blocks, masters, StreamCalls, StreamCall, MasterCall
<1>10. Begins(Plan(k), k) /\ Ends(Plan(k), k) /\ k # 0 /\ Plan(k) \in Seq(S)
  BY <1>1, <1>5, <1>8, <1>9, <1>G
<1> HIDE DEF G
<1> QED  BY <1>10 DEF S

(* A file in the entry came by FLUTE since the last master was read, and   *)
(* is stored at the manifest's path.  As long as none was and no second    *)
(* turned, the entry is there, unless the first master is still to be read. *)
EntryInv ==
  /\ setting \in Settings
  /\ received \in Nat
  /\ entry.item \in {"none", "playlist", "file"}
  /\ entry.item = "file" => SamePath /\ since # {}
  /\ received > 0 /\ ~turned /\ ~(SamePath /\ since # {}) /\ entry.item = "none" =>
       plan # <<>> /\ plan[1].call = "master"

LEMMA EntryStep == EntryInv /\ [Next]_vars => EntryInv'
<1> SUFFICES ASSUME EntryInv, [Next]_vars PROVE EntryInv'
  OBVIOUS
<1> USE DEF EntryInv, SamePath
<1>1. CASE UNCHANGED vars
  BY <1>1 DEF vars
<1>2. CASE Receive
  <2>1. /\ received' = received + 1 /\ plan = <<>> /\ plan' = Plan(received + 1)
        /\ received < Len(setting.announcements)
        /\ UNCHANGED <<setting, entry, turned, since>>
    BY <1>2 DEF Receive, MainFree
  <2>2. CASE received = 0
    <3>1. plan' = Plan(1)
      BY <2>1, <2>2
    <3>2. Plan(1) # <<>> /\ Plan(1)[1].call = "master"
      <4>1. 1 \in 1 .. Len(setting.announcements)
        BY <2>1, <2>2, Announcements
      <4> QED  BY <4>1, PlanIs DEF MasterCall
    <3> QED  BY <2>1, <3>1, <3>2
  <2>3. CASE received # 0
    BY <2>1, <2>3
  <2> QED  BY <2>2, <2>3
<1>3. CASE ReadMaster
  <2>1. CASE Terminate
    BY <2>1 DEF Terminate
  <2>2. CASE CacheManifest /\ UNCHANGED <<setting, received, turned>> /\ since' = {}
    BY <2>2 DEF CacheManifest, Store
  <2> QED  BY <1>3, <2>1, <2>2 DEF ReadMaster
<1>4. ASSUME NEW bandwidth, NEW frame_rate, StartStream(bandwidth, frame_rate)
      PROVE  EntryInv'
  <2>1. CASE Terminate
    BY <2>1 DEF Terminate
  <2>2. CASE UNCHANGED <<setting, received, entry, turned, since>>
    <3>1. plan[1].call = "stream"
      BY <1>4 DEF StartStream
    <3> QED  BY <2>2, <3>1
  <2> QED  BY <1>4, <2>1, <2>2 DEF StartStream
<1>5. ASSUME NEW mpd, FluteMpd(mpd) PROVE EntryInv'
  BY <1>5 DEF FluteMpd, CacheMpd, Store
<1>6. CASE ClockTick
  BY <1>6 DEF ClockTick
<1>7. CASE Expire
  BY <1>7 DEF Expire, Erase, NoEntry
<1>8. CASE ExpireAtTurn
  BY <1>8 DEF ExpireAtTurn, Erase, NoEntry
<1>9. CASE Find \/ TakeFirst("buffer") \/ TakeFirst("length") \/ TakeSecond \/ Sent
  BY <1>9 DEF Find, TakeFirst, TakeSecond, Sent, UnchangedByGet
<1> QED  BY <1>1, <1>2, <1>3, <1>4, <1>5, <1>6, <1>7, <1>8, <1>9 DEF Next

(* Once there was an announcement, its manifest leaves the cache only as   *)
(* an MPD that came by FLUTE, or when a second turns between two looks at  *)
(* the clock.                                                              *)
THEOREM LostOnlyAsMpdOrAtTurn == Spec => []ManifestStays
<1>1. Init => EntryInv
  BY DEF Init, EntryInv, NoEntry
<1>2. EntryInv => ManifestStays
  BY DEF EntryInv, ManifestStays, MainFree
<1> QED  BY <1>1, <1>2, EntryStep, PTL DEF Spec

(***************************************************************************)
(* The newest MPD.                                                         *)
(***************************************************************************)

(* Each DASH announcement has a stream that starts: the first that does puts    *)
(* the MPD into the manifest, and if none does, the manifest keeps the MPD *)
(* of an earlier announcement.                                             *)
Starts(parts) == setting.broadcast_only => Available(SessionOf(parts))
EachHasSource ==
  ~HLS => \A k \in 1 .. Len(setting.announcements) :
    \E i \in DOMAIN setting.announcements[k].streams :
      Starts(Parts(k, setting.announcements[k].streams[i].base))

(* Of the plan, the newest master is still to be read, before one last     *)
(* stream that starts; or it has been read, such a stream is still to be   *)
(* started, or the manifest is that master, and no other is read.          *)
NewestMaster == setting.announcements[received].master
MasterAhead(p) == \E m \in 1 .. Len(p) : EndsAt(p, m, received, received)
StreamsOnly(p) == \A i \in 1 .. Len(p) : p[i].call = "stream"
SourceLeft(p) == \E i \in 1 .. Len(p) : Starts(p[i].parts)
MasterIsRead(p, read, shown) ==
  read = NewestMaster /\ StreamsOnly(p) /\ (shown = read \/ SourceLeft(p))

(* A file in the entry is the MPD that came last, and no playlist takes    *)
(* its place before a master is read.                                      *)
FileIsNewest ==
  /\ since \subseteq mpds /\ mpds \subseteq Nat
  /\ entry.item \in {"none", "playlist", "file"}
  /\ entry.item = "file" => entry.mpd \in since /\ \A m \in since : m =< entry.mpd
  /\ SamePath /\ since # {} => entry.item # "playlist"
  /\ SamePath => (since = {} => entry.item # "file")
  /\ ~SamePath => entry.item # "file"

MpdInv ==
  /\ setting \in Settings
  /\ EachHasSource
  /\ received \in 0 .. Len(setting.announcements)
  /\ received = 0 => plan = <<>> /\ DOMAIN content_streams = {} /\ entry.item = "none"
  /\ received > 0 => /\ plan \in Seq(Calls(received))
                     /\ ~HLS => \/ MasterAhead(plan)
                                \/ MasterIsRead(plan, primary, manifest.text)
  /\ FileIsNewest

(* Steps that keep the setting keep what is said of announcements.         *)
PartsIn(s, k, base) ==
  FlattenSeq([a \in 1 .. k |-> PartsFor(s.announcements[a].streams, base)])
PartsAre == \A k, base : Parts(k, base) = PartsIn(setting, k, base)

LEMMA PartsAreNow == PartsAre
BY DEF PartsAre, Parts, PartsIn

LEMMA PartsAreNext == PartsAre'
BY PartsAreNow, PTL

LEMMA SettingKept ==
  ASSUME setting' = setting
  PROVE  /\ \A k, base : Parts(k, base)' = Parts(k, base)
         /\ \A a : MasterCall(a)' = MasterCall(a)
         /\ \A k, a, i : StreamCall(k, a, i)' = StreamCall(k, a, i)
         /\ \A k : Calls(k)' = Calls(k)
         /\ \A parts : Starts(parts)' <=> Starts(parts)
         /\ EachHasSource => EachHasSource'
         /\ HLS' <=> HLS
<1>1. \A k, base : Parts(k, base)' = Parts(k, base)
  BY PartsAreNow, PartsAreNext DEF PartsAre
<1>2. \A a : MasterCall(a)' = MasterCall(a)
  BY DEF MasterCall
<1>3. \A k, a, i : StreamCall(k, a, i)' = StreamCall(k, a, i)
  BY <1>1 DEF StreamCall
<1>4. \A k : Calls(k)' = Calls(k)
  BY <1>2, <1>3 DEF Calls
<1>5. \A parts : Starts(parts)' <=> Starts(parts)
  BY DEF Starts
<1>6. EachHasSource => EachHasSource'
  BY <1>1, <1>5 DEF EachHasSource, HLS
<1> QED  BY <1>1, <1>2, <1>3, <1>4, <1>5, <1>6 DEF HLS

LEMMA AheadKept ==
  ASSUME setting' = setting, received' = received
  PROVE  /\ MasterAhead(plan') => MasterAhead(plan)'
         /\ MasterIsRead(plan', primary', manifest'.text)
              => MasterIsRead(plan, primary, manifest.text)'
<1>1. MasterAhead(plan') => MasterAhead(plan)'
  BY SettingKept DEF MasterAhead, EndsAt
<1>2. NewestMaster' = NewestMaster /\ (StreamsOnly(plan') => StreamsOnly(plan)')
      /\ (SourceLeft(plan') => SourceLeft(plan)')
  BY SettingKept DEF NewestMaster, StreamsOnly, SourceLeft
<1> QED  BY <1>1, <1>2 DEF MasterIsRead

(* A step that is none of an announcement's.                               *)
LEMMA MpdElse ==
  ASSUME MpdInv, UNCHANGED <<setting, received, plan, primary, content_streams, manifest>>,
         FileIsNewest', received = 0 => entry'.item = "none"
  PROVE  MpdInv'
<1>1. EachHasSource' /\ Calls(received)' = Calls(received) /\ HLS' = HLS
  BY SettingKept DEF MpdInv, HLS
<1>2. MasterAhead(plan) => MasterAhead(plan)'
  BY AheadKept
<1>3. MasterIsRead(plan, primary, manifest.text)
        => MasterIsRead(plan, primary, manifest.text)'
  BY AheadKept
<1> QED  BY <1>1, <1>2, <1>3 DEF MpdInv

LEMMA TailIs ==
  ASSUME NEW S, NEW p \in Seq(S), p # <<>>
  PROVE  /\ Tail(p) \in Seq(S) /\ Len(p) \in Nat \ {0} /\ Len(Tail(p)) = Len(p) - 1
         /\ \A i \in 1 .. Len(Tail(p)) : Tail(p)[i] = p[i + 1] /\ i + 1 \in 1 .. Len(p)
OBVIOUS

(* What is done of the plan is no longer ahead.                            *)
LEMMA MasterNearer ==
  ASSUME setting \in Settings, received \in 1 .. Len(setting.announcements),
         plan \in Seq(Calls(received)), plan # <<>>,
         NEW m \in 1 .. Len(plan), EndsAt(plan, m, received, received), m # 1
  PROVE  MasterAhead(Tail(plan))
<1> DEFINE n == Len(setting.announcements[received].streams)
           p == Tail(plan)
<1>1. n \in Nat /\ DOMAIN setting.announcements[received].streams = 1 .. n
  <2>1. setting.announcements[received].streams \in Seq(Part)
    BY Announcements
  <2> QED  BY <2>1
<1>2. /\ Len(plan) \in Nat \ {0} /\ Len(p) = Len(plan) - 1
      /\ \A i \in 1 .. Len(p) : p[i] = plan[i + 1]
  BY TailIs
<1>3. /\ plan[m] = MasterCall(received) /\ Len(plan) = m + n
      /\ \A i \in 1 .. n : plan[m + i] = StreamCall(received, received, i)
  BY <1>1 DEF EndsAt
<1> HIDE DEF n, p
<1>4. m - 1 \in 1 .. Len(p) /\ (m - 1) + 1 = m /\ Len(p) = (m - 1) + n
  BY <1>1, <1>2, <1>3
<1>5. ASSUME NEW i \in 1 .. n PROVE p[(m - 1) + i] = StreamCall(received, received, i)
  <2>1. (m - 1) + i \in 1 .. Len(p) /\ ((m - 1) + i) + 1 = m + i
    BY <1>1, <1>4
  <2> QED  BY <1>2, <1>3, <2>1
<1>6. EndsAt(p, m - 1, received, received)
  BY <1>1, <1>2, <1>3, <1>4, <1>5 DEF EndsAt, n
<1> QED  BY <1>4, <1>6 DEF MasterAhead, p

LEMMA MpdRead == MpdInv /\ ReadMaster => MpdInv'
<1> SUFFICES ASSUME MpdInv, ReadMaster PROVE MpdInv'
  OBVIOUS
<1> USE DEF MpdInv
<1>1. CASE Terminate
  BY <1>1, MpdElse DEF Terminate, FileIsNewest, SamePath
<1>2. CASE ~(HLS /\ Parse(plan[1].text, BasePath).threw)
  <2>1. /\ plan # <<>> /\ plan[1].call = "master" /\ received > 0
        /\ received \in 1 .. Len(setting.announcements)
    BY DEF ReadMaster
  <2>2. /\ plan' = Tail(plan) /\ since' = {} /\ entry'.item = "playlist"
        /\ ~HLS => primary' = plan[1].text
        /\ UNCHANGED <<setting, received, content_streams, manifest, mpds>>
    BY <1>2 DEF ReadMaster, CacheManifest, Store
  <2>3. EachHasSource' /\ Calls(received)' = Calls(received)
    BY <2>2, SettingKept
  <2>4. FileIsNewest'
    BY <2>2 DEF FileIsNewest
  <2>5. plan' \in Seq(Calls(received))
    BY <2>1, <2>2, TailIs
  <2>6. ASSUME ~HLS PROVE MasterAhead(plan)' \/ MasterIsRead(plan, primary, manifest.text)'
    <3>1. MasterAhead(plan)
      <4>1. Len(plan) \in Nat /\ 1 \in 1 .. Len(plan)
        BY <2>1
      <4> QED  BY <2>1, <2>6, <4>1 DEF MasterIsRead, StreamsOnly
    <3>2. PICK m \in 1 .. Len(plan) : EndsAt(plan, m, received, received)
      BY <3>1 DEF MasterAhead
    <3>3. CASE m # 1
      <4>1. MasterAhead(Tail(plan))
        BY <2>1, <3>2, <3>3, MasterNearer
      <4> QED  BY <2>2, <4>1, AheadKept
    <3>4. CASE m = 1
      <4> DEFINE n == Len(setting.announcements[received].streams)
                 p == Tail(plan)
      <4>1. n \in Nat /\ DOMAIN setting.announcements[received].streams = 1 .. n
        <5>1. setting.announcements[received].streams \in Seq(Part)
          BY <2>1, Announcements
        <5> QED  BY <5>1
      <4>2. /\ Len(plan) \in Nat \ {0} /\ Len(p) = Len(plan) - 1
            /\ \A i \in 1 .. Len(p) : p[i] = plan[i + 1]
        BY <2>1, TailIs
      <4>3. /\ plan[1] = MasterCall(received) /\ Len(plan) = 1 + n
            /\ \A i \in 1 .. n : plan[1 + i] = StreamCall(received, received, i)
        BY <3>2, <3>4, <4>1 DEF EndsAt
      <4>4. \A i \in 1 .. n : p[i] = StreamCall(received, received, i)
        BY <4>1, <4>2, <4>3
      <4> HIDE DEF p
      <4>5. PICK i \in 1 .. n : Starts(Parts(received, setting.announcements[received].streams[i].base))
        BY <2>1, <2>6, <4>1 DEF EachHasSource
      <4>6. Len(p) = n
        BY <4>1, <4>2, <4>3
      <4>7. StreamsOnly(p) /\ SourceLeft(p)
        <5>1. \A j \in 1 .. n :
                /\ p[j].call = "stream"
                /\ p[j].parts = Parts(received, setting.announcements[received].streams[j].base)
          <6>1. \A j : /\ StreamCall(received, received, j).call = "stream"
                       /\ StreamCall(received, received, j).parts
                            = Parts(received, setting.announcements[received].streams[j].base)
            BY DEF StreamCall
          <6> QED  BY <4>4, <6>1
        <5>2. Starts(p[i].parts)
          BY <4>5, <5>1
        <5> QED  BY <4>6, <5>1, <5>2 DEF StreamsOnly, SourceLeft
      <4>8. primary' = NewestMaster
        BY <2>2, <2>6, <4>3 DEF NewestMaster, MasterCall
      <4>9. MasterIsRead(p, primary', manifest.text)
        BY <4>7, <4>8 DEF MasterIsRead
      <4> QED  BY <2>2, <4>9, AheadKept DEF p
    <3> QED  BY <3>3, <3>4
  <2> QED  BY <2>1, <2>2, <2>3, <2>4, <2>5, <2>6 DEF HLS
<1> QED  BY <1>1, <1>2 DEF ReadMaster

LEMMA MpdStart ==
  ASSUME MpdInv, NEW bandwidth, NEW frame_rate, StartStream(bandwidth, frame_rate)
  PROVE  MpdInv'
<1> USE DEF MpdInv
<1>1. CASE Terminate
  BY <1>1, MpdElse DEF Terminate, FileIsNewest, SamePath
<1>2. CASE ~Unreadable(plan[1].parts)
  <2>1. /\ plan # <<>> /\ plan[1].call = "stream" /\ received > 0
        /\ received \in 1 .. Len(setting.announcements)
    BY DEF StartStream
  <2>2. /\ plan' = Tail(plan)
        /\ UNCHANGED <<setting, received, primary, entry, since, mpds>>
    BY <1>2 DEF StartStream
  <2>0. ~HLS => \/ manifest' = manifest /\ ~Starts(plan[1].parts)
                \/ manifest'.text = primary
    BY <1>2 DEF StartStream, Starts
  <2>3. EachHasSource' /\ Calls(received)' = Calls(received) /\ FileIsNewest'
    BY <2>2, SettingKept DEF FileIsNewest, SamePath
  <2>4. plan' \in Seq(Calls(received))
    BY <2>1, <2>2, TailIs
  <2>5. CASE ~HLS /\ MasterAhead(plan)
    <3>1. PICK m \in 1 .. Len(plan) : EndsAt(plan, m, received, received)
      BY <2>5 DEF MasterAhead
    <3>2. m # 1
      BY <2>1, <3>1 DEF EndsAt, MasterCall
    <3>3. MasterAhead(Tail(plan))
      BY <2>1, <3>1, <3>2, MasterNearer
    <3>4. MasterAhead(plan)'
      BY <2>2, <3>3, AheadKept
    <3> QED  BY <2>1, <2>2, <2>3, <2>4, <3>4 DEF HLS
  <2>6. CASE ~HLS /\ MasterIsRead(plan, primary, manifest.text)
    <3> DEFINE p == Tail(plan)
    <3>1. /\ Len(plan) \in Nat \ {0} /\ Len(p) = Len(plan) - 1
          /\ \A i \in 1 .. Len(p) : p[i] = plan[i + 1] /\ i + 1 \in 1 .. Len(plan)
      BY <2>1, TailIs
    <3> HIDE DEF p
    <3>2. StreamsOnly(p)
      BY <2>6, <3>1 DEF MasterIsRead, StreamsOnly
    <3>3. manifest'.text = primary \/ SourceLeft(p)
      <4>1. CASE manifest' = manifest /\ ~Starts(plan[1].parts)
        <5>1. CASE SourceLeft(plan)
          <6>1. PICK i \in 1 .. Len(plan) : Starts(plan[i].parts)
            BY <5>1 DEF SourceLeft
          <6>2. i # 1 /\ i - 1 \in 1 .. Len(p) /\ (i - 1) + 1 = i
            BY <3>1, <4>1, <6>1
          <6>3. p[i - 1] = plan[i]
            BY <3>1, <6>2
          <6> QED  BY <6>1, <6>2, <6>3 DEF SourceLeft
        <5> QED  BY <2>6, <4>1, <5>1 DEF MasterIsRead
      <4> QED  BY <2>0, <2>6, <4>1
    <3>4. MasterIsRead(p, primary, manifest'.text)
      BY <2>6, <3>2, <3>3 DEF MasterIsRead
    <3>5. MasterIsRead(plan, primary, manifest.text)'
      BY <2>2, <3>4, AheadKept DEF p
    <3> QED  BY <2>1, <2>2, <2>3, <2>4, <3>5 DEF HLS
  <2>7. CASE HLS
    BY <2>1, <2>2, <2>3, <2>4, <2>7 DEF HLS
  <2> QED  BY <2>1, <2>5, <2>6, <2>7
<1> QED  BY <1>1, <1>2 DEF StartStream

LEMMA MpdStep == MpdInv /\ [Next]_vars => MpdInv'
<1> SUFFICES ASSUME MpdInv, [Next]_vars PROVE MpdInv'
  OBVIOUS
<1>0. ASSUME UNCHANGED <<setting, entry, since, mpds>> PROVE FileIsNewest'
  BY <1>0 DEF MpdInv, FileIsNewest, SamePath
<1>1. CASE UNCHANGED vars
  BY <1>0, <1>1, MpdElse DEF vars, MpdInv
<1>2. CASE Receive
  <2>1. /\ received' = received + 1 /\ plan' = Plan(received + 1)
        /\ received < Len(setting.announcements)
        /\ UNCHANGED <<setting, entry, since, mpds>>
    BY <1>2 DEF Receive
  <2>2. received + 1 \in 1 .. Len(setting.announcements) /\ received' > 0
    BY <2>1, Announcements DEF MpdInv
  <2>3. /\ Plan(received + 1) \in Seq(Calls(received + 1))
        /\ \E m \in 1 .. Len(Plan(received + 1)) :
             EndsAt(Plan(received + 1), m, received + 1, received + 1)
    BY <2>2, PlanIs DEF MpdInv
  <2>4. MasterAhead(plan)' /\ plan' \in Seq(Calls(received)')
    <3>1. Calls(received)' = Calls(received + 1)
      BY <2>1, SettingKept
    <3>2. MasterAhead(plan)'
      BY <2>1, <2>3, SettingKept DEF MasterAhead, EndsAt
    <3> QED  BY <2>1, <2>3, <3>1, <3>2
  <2>5. EachHasSource' /\ FileIsNewest'
    BY <1>0, <2>1, SettingKept DEF MpdInv
  <2>6. received' \in 0 .. Len(setting'.announcements) /\ received' # 0
    BY <2>1, <2>2
  <2> QED  BY <2>1, <2>4, <2>5, <2>6 DEF MpdInv
<1>3. CASE ReadMaster
  BY <1>3, MpdRead
<1>4. ASSUME NEW bandwidth, NEW frame_rate, StartStream(bandwidth, frame_rate)
      PROVE  MpdInv'
  BY <1>4, MpdStart
<1>5. ASSUME NEW mpd \in Mpds, FluteMpd(mpd) PROVE MpdInv'
  <2>1. /\ since' = since \cup {mpd} /\ setting' = setting
        /\ mpds' = mpds \cup {mpd} /\ \A m \in mpds : m < mpd
        /\ DOMAIN content_streams # {}
        /\ SamePath => entry'.item = "file" /\ entry'.mpd = mpd
        /\ ~SamePath => entry' = entry
    BY <1>5 DEF FluteMpd, CacheMpd, Store
  <2>2. mpd \in Nat /\ mpds \subseteq Nat /\ since \subseteq mpds
    BY ConstantsAssumption DEF MpdInv, FileIsNewest
  <2>3. \A m \in since' : m =< mpd
    BY <2>1, <2>2
  <2>6. SamePath' <=> SamePath
    BY <2>1 DEF SamePath
  <2>4. FileIsNewest'
    <3>1. CASE SamePath
      BY <2>1, <2>2, <2>3, <2>6, <3>1 DEF FileIsNewest
    <3>2. CASE ~SamePath
      BY <2>1, <2>2, <2>6, <3>2 DEF MpdInv, FileIsNewest
    <3> QED  BY <3>1, <3>2
  <2>5. received # 0
    BY <2>1 DEF MpdInv
  <2> QED  BY <1>5, <2>4, <2>5, MpdElse DEF FluteMpd
<1>6. CASE ClockTick
  BY <1>0, <1>6, MpdElse DEF ClockTick, MpdInv
<1>7. CASE Expire \/ ExpireAtTurn
  <2>1. entry'.item = "none" /\ UNCHANGED <<setting, since, mpds>>
    BY <1>7 DEF Expire, ExpireAtTurn, Erase, NoEntry
  <2>2. FileIsNewest'
    BY <2>1 DEF MpdInv, FileIsNewest
  <2> QED  BY <1>7, <2>1, <2>2, MpdElse DEF Expire, ExpireAtTurn
<1>8. CASE Find \/ TakeFirst("buffer") \/ TakeFirst("length") \/ TakeSecond \/ Sent
  <2>1. UnchangedByGet
    BY <1>8 DEF Find, TakeFirst, TakeSecond, Sent
  <2> QED  BY <1>0, <2>1, MpdElse DEF UnchangedByGet, MpdInv
<1> QED  BY <1>1, <1>2, <1>3, <1>4, <1>5, <1>6, <1>7, <1>8 DEF Next

LEMMA MpdInvImplies == MpdInv => NewestMpdServed
<1> SUFFICES ASSUME MpdInv, ~HLS, MainFree, entry.item # "none"
             PROVE  Content.text = IF SamePath /\ since # {} THEN <<Max(since)>>
                                   ELSE setting.announcements[received].master
  BY DEF NewestMpdServed
<1>1. plan = <<>> /\ received \in 1 .. Len(setting.announcements)
  BY DEF MpdInv, MainFree
<1>2. manifest.text = NewestMaster
  <2>1. Len(plan) = 0
    BY <1>1
  <2> QED  BY <1>1, <2>1 DEF MpdInv, MasterAhead, MasterIsRead, SourceLeft
<1>3. CASE ~(SamePath /\ since # {})
  <2>1. entry.item # "file"
    BY <1>3 DEF MpdInv, FileIsNewest
  <2> QED  BY <1>2, <1>3, <2>1 DEF Content, NewestMaster
<1>4. CASE SamePath /\ since # {}
  <2>1. entry.item = "file"
    BY <1>4 DEF MpdInv, FileIsNewest
  <2>2. entry.mpd \in since /\ (\A m \in since : m =< entry.mpd) /\ since \subseteq Nat
    BY <2>1 DEF MpdInv, FileIsNewest
  <2>3. Max(since) = entry.mpd
    <3>1. ASSUME NEW x \in since, \A y \in since : x >= y PROVE x = entry.mpd
      <4>1. x \in Nat /\ entry.mpd \in Nat /\ x >= entry.mpd /\ x =< entry.mpd
        BY <2>2, <3>1
      <4> QED  BY <4>1
    <3>2. ASSUME NEW y \in since PROVE entry.mpd >= y
      <4>1. y \in Nat /\ entry.mpd \in Nat /\ y =< entry.mpd
        BY <2>2
      <4> QED  BY <4>1
    <3> QED  BY <2>2, <3>1, <3>2 DEF Max
  <2> QED  BY <1>4, <2>1, <2>3 DEF Content
<1> QED  BY <1>3, <1>4

(* What a DASH client is given is the newest MPD, of the newest            *)
(* announcement or come by FLUTE since and stored at the manifest's path,  *)
(* if a stream of each announcement starts.                                *)
THEOREM NewestMpdIsServed == Spec /\ EachHasSource => []NewestMpdServed
<1>1. Init /\ EachHasSource => MpdInv
  <2> SUFFICES ASSUME Init, EachHasSource PROVE MpdInv
    OBVIOUS
  <2>1. received \in 0 .. Len(setting.announcements) /\ setting \in Settings
    BY Announcements DEF Init
  <2> QED  BY <2>1 DEF Init, MpdInv, FileIsNewest, NoEntry
<1> QED  BY <1>1, MpdStep, MpdInvImplies, PTL DEF Spec

(***************************************************************************)
(* A GET of the manifest.                                                  *)
(***************************************************************************)

GetIsRecord ==
  get = [pc |-> get.pc, number |-> get.number, node |-> get.node, buffer |-> get.buffer,
         length |-> get.length, disturbed |-> get.disturbed, answer |-> get.answer]

(* What an undisturbed GET has taken is what is there now.                 *)
Taken ==
  /\ entry.item # "none" /\ entry.node = get.node
  /\ get.pc = "found" => get.buffer = <<>> /\ get.length = <<>>
  /\ get.pc = "half" => \/ get.buffer = <<Content>> /\ get.length = <<>>
                        \/ get.buffer = <<>> /\ get.length = <<Content>>
  /\ get.pc = "sending" => get.buffer = <<Content>> /\ get.length = <<Content>>

GetInv ==
  /\ GetIsRecord
  /\ get.pc \in {"idle", "found", "half", "sending"}
  /\ get.pc # "idle" /\ ~get.disturbed => Taken
  /\ TornNeedsChange

LEMMA AnswerKeeps ==
  ASSUME GetInv, NEW answer, Answer(answer),
         answer \in {"torn", "dangling"} => get.disturbed
  PROVE  GetInv'
<1>1. /\ get'.pc = "idle" /\ get'.answer = answer /\ get'.disturbed = get.disturbed
      /\ GetIsRecord'
  BY DEF Answer, NoGet, GetIsRecord
<1> QED  BY <1>1 DEF GetInv, TornNeedsChange

(* Whoever changes the manifest or its entry disturbs the GET.             *)
LEMMA DisturbKeeps ==
  ASSUME GetInv, Disturb
  PROVE  GetInv'
<1>1. /\ get'.pc = get.pc /\ get'.answer = get.answer
      /\ get'.disturbed = (get.disturbed \/ get.pc # "idle")
  BY Zenon DEF Disturb, GetInv, GetIsRecord
<1>2. GetIsRecord'
  BY Zenon DEF Disturb, GetInv, GetIsRecord
<1> QED  BY <1>1, <1>2 DEF GetInv, TornNeedsChange

LEMMA GetStepKeeps ==
  ASSUME GetInv, Find \/ TakeFirst("buffer") \/ TakeFirst("length") \/ TakeSecond \/ Sent
  PROVE  GetInv'
<1>0. UNCHANGED <<entry, manifest>> /\ Content' = Content
  BY DEF Find, TakeFirst, TakeSecond, Sent, UnchangedByGet, Content
<1>1. CASE Find
  <2>1. CASE get' = [NoGet EXCEPT !.number = get.number + 1, !.answer = "404"]
    BY <2>1 DEF GetInv, TornNeedsChange, GetIsRecord, NoGet
  <2>2. CASE /\ entry.item # "none"
             /\ get' = [NoGet EXCEPT !.pc = "found", !.number = get.number + 1,
                                     !.node = entry.node]
    BY <2>2, <1>0 DEF GetInv, TornNeedsChange, GetIsRecord, NoGet, Taken
  <2> QED  BY <1>1, <2>1, <2>2 DEF Find
<1>2. ASSUME get.pc # "idle", Dangles PROVE get.disturbed
  BY <1>2 DEF GetInv, Taken, Dangles
<1>3. ASSUME NEW what \in {"buffer", "length"}, TakeFirst(what) PROVE GetInv'
  <2>1. get.pc = "found"
    BY <1>3 DEF TakeFirst, GetStep
  <2>2. CASE Dangles
    BY <2>1, <2>2, <1>2, <1>3, AnswerKeeps DEF TakeFirst
  <2>3. CASE ~Dangles
    <3>1. get' = [get EXCEPT !.pc = "half", ![what] = <<Content>>]
      BY <1>3, <2>3 DEF TakeFirst
    <3>2. /\ get'.pc = "half" /\ get'.node = get.node /\ get'.disturbed = get.disturbed
          /\ get'.answer = get.answer
          /\ get'.buffer = IF what = "buffer" THEN <<Content>> ELSE get.buffer
          /\ get'.length = IF what = "length" THEN <<Content>> ELSE get.length
          /\ GetIsRecord'
      BY <3>1 DEF GetInv, GetIsRecord
    <3>3. ~get.disturbed => Taken'
      BY <3>2, <2>1, <1>0 DEF GetInv, Taken
    <3> QED  BY <3>2, <3>3 DEF GetInv, TornNeedsChange
  <2> QED  BY <2>2, <2>3
<1>4. CASE TakeSecond
  <2>1. get.pc = "half"
    BY <1>4 DEF TakeSecond, GetStep
  <2>2. CASE Dangles
    BY <2>1, <2>2, <1>2, <1>4, AnswerKeeps DEF TakeSecond
  <2>3. CASE ~Dangles
    <3>1. /\ get'.pc = "sending" /\ get'.node = get.node /\ get'.disturbed = get.disturbed
          /\ get'.answer = get.answer
          /\ get'.buffer = IF get.buffer = <<>> THEN <<Content>> ELSE get.buffer
          /\ get'.length = IF get.length = <<>> THEN <<Content>> ELSE get.length
          /\ GetIsRecord'
      BY <1>4, <2>3 DEF TakeSecond, GetInv, GetIsRecord
    <3>2. ~get.disturbed => Taken'
      BY <3>1, <2>1, <1>0 DEF GetInv, Taken
    <3> QED  BY <3>1, <3>2 DEF GetInv, TornNeedsChange
  <2> QED  BY <2>2, <2>3
<1>5. CASE Sent
  <2>1. get.pc = "sending"
    BY <1>5 DEF Sent, GetStep
  <2>2. ~get.disturbed =>
          get.buffer = get.length /\ get.buffer[1] = Content /\ ~Dangles
    BY <2>1 DEF GetInv, Taken, Dangles
  <2> QED  BY <2>2, <1>5, AnswerKeeps DEF Sent
<1> QED  BY <1>1, <1>3, <1>4, <1>5

LEMMA GetInvStep == GetInv /\ [Next]_vars => GetInv'
<1> SUFFICES ASSUME GetInv, [Next]_vars PROVE GetInv'
  OBVIOUS
<1>1. ASSUME UNCHANGED <<entry, manifest, get>> PROVE GetInv'
  BY <1>1 DEF GetInv, GetIsRecord, Taken, Content, TornNeedsChange
<1>2. CASE UNCHANGED vars
  BY <1>1, <1>2 DEF vars
<1>3. CASE Receive \/ ClockTick
  BY <1>1, <1>3 DEF Receive, ClockTick
<1>4. Terminate => GetInv'
  BY <1>1 DEF Terminate
<1>5. CASE ReadMaster
  BY <1>4, <1>5, DisturbKeeps DEF ReadMaster
<1>6. ASSUME NEW bandwidth, NEW frame_rate, StartStream(bandwidth, frame_rate)
      PROVE  GetInv'
  <2>1. Terminate \/ Disturb \/ UNCHANGED <<entry, manifest, get>>
    BY <1>6 DEF StartStream
  <2> QED  BY <2>1, <1>1, <1>4, DisturbKeeps
<1>7. ASSUME NEW mpd, FluteMpd(mpd) PROVE GetInv'
  <2>1. Disturb \/ UNCHANGED <<entry, manifest, get>>
    BY <1>7 DEF FluteMpd, CacheMpd
  <2> QED  BY <2>1, <1>1, DisturbKeeps
<1>8. CASE Expire \/ ExpireAtTurn
  BY <1>8, DisturbKeeps DEF Expire, ExpireAtTurn, Erase
<1>9. CASE Find \/ TakeFirst("buffer") \/ TakeFirst("length") \/ TakeSecond \/ Sent
  BY <1>9, GetStepKeeps
<1> QED  BY <1>2, <1>3, <1>5, <1>6, <1>7, <1>8, <1>9 DEF Next

(* The answer to a GET is a whole manifest, unless the manifest or its     *)
(* entry was changed while the GET was going on.                           *)
THEOREM WholeUnlessDisturbed == Spec => []TornNeedsChange
<1>1. Init => GetInv
  BY DEF Init, GetInv, GetIsRecord, NoGet, TornNeedsChange
<1> QED  BY <1>1, GetInvStep, PTL DEF Spec, GetInv

(***************************************************************************)
(* The texts the process parses.                                           *)
(***************************************************************************)

(* What the parsers handle, when all tokens are in W.  In a value there is *)
(* no '=' and no '"', and no ':', since an attribute list follows the last *)
(* one of its line.                                                        *)
Text(W) == Seq(W)
ValueTokens(W) == W \ {":", "=", Quote}
Parameter(W) == Text(W) \X Text(ValueTokens(W))
TokensRead(W) == [quoted : BOOLEAN, in_key : BOOLEAN, key : Text(W), value : Text(ValueTokens(W)),
                  result : Seq(Parameter(W))]
AttributesOf(W) == [resolution : Text(ValueTokens(W)), codecs : Text(ValueTokens(W)),
                    bandwidth : Numeral, frame_rate : Numeral]

LEMMA AppendToText ==
  ASSUME NEW W, NEW t \in Text(W), NEW token \in W
  PROVE  Append(t, token) \in Text(W)
BY AppendProperties DEF Text

LEMMA ReadTokenType ==
  ASSUME NEW W, NEW p \in TokensRead(W), NEW token \in W \ {":"}
  PROVE  ReadToken(p, token) \in TokensRead(W)
<1>1. p.key \in Text(W) /\ p.value \in Text(ValueTokens(W)) /\ p.result \in Seq(Parameter(W))
  BY DEF TokensRead
<1>2. <<p.key, p.value>> \in Parameter(W)
  BY <1>1 DEF Parameter
<1>3. Append(p.result, <<p.key, p.value>>) \in Seq(Parameter(W))
  <2> HIDE DEF Parameter
  <2> QED  BY <1>1, <1>2, AppendProperties
<1>4. <<>> \in Text(W) /\ <<>> \in Text(ValueTokens(W))
  BY DEF Text
<1>5. CASE token = Quote
  <2>1. ReadToken(p, token) = [p EXCEPT !.quoted = ~p.quoted]
    BY <1>5 DEF ReadToken, Quote
  <2>2. \A b \in BOOLEAN : [p EXCEPT !.quoted = b] \in TokensRead(W)
    BY DEF TokensRead
  <2> QED  BY <2>1, <2>2
<1>6. CASE token # Quote /\ token = "," /\ ~p.quoted
  BY <1>3, <1>4, <1>6 DEF ReadToken, TokensRead, NothingRead
<1>7. CASE token # Quote /\ ~(token = "," /\ ~p.quoted) /\ token = "="
  BY <1>7 DEF ReadToken, TokensRead
<1>8. CASE token # Quote /\ ~(token = "," /\ ~p.quoted) /\ token # "="
  <2>1. Append(p.key, token) \in Text(W)
    BY <1>1, AppendToText
  <2>2. token \in ValueTokens(W)
    BY <1>8 DEF ValueTokens
  <2>3. Append(p.value, token) \in Text(ValueTokens(W))
    BY <1>1, <2>2, AppendToText
  <2>4. ReadToken(p, token) = IF p.in_key THEN [p EXCEPT !.key = Append(p.key, token)]
                              ELSE [p EXCEPT !.value = Append(p.value, token)]
    BY <1>8 DEF ReadToken
  <2>5. /\ [p EXCEPT !.key = Append(p.key, token)] \in TokensRead(W)
        /\ [p EXCEPT !.value = Append(p.value, token)] \in TokensRead(W)
    BY <2>1, <2>3 DEF TokensRead
  <2> QED  BY <2>4, <2>5
<1> QED  BY <1>5, <1>6, <1>7, <1>8

(* The tokens of an attribute list are read one after the other.           *)
ReadsTokens(T, W, text) ==
  /\ T \in [0 .. Len(text) -> TokensRead(W)] /\ T[0] = NothingRead
  /\ FoldLeft(ReadToken, NothingRead, text) = T[Len(text)]
  /\ \A k \in 1 .. Len(text) : k - 1 \in 0 .. Len(text) /\ T[k] = ReadToken(T[k - 1], text[k])

LEMMA TokenSteps ==
  ASSUME NEW W, NEW text \in Text(W \ {":"})
  PROVE  /\ Len(text) \in Nat /\ \A k \in 1 .. Len(text) : text[k] \in W \ {":"}
         /\ \E T : ReadsTokens(T, W, text)
<1> DEFINE n == Len(text)
           V == TokensRead(W)
           F == [x \in V \X (1 .. n) |-> ReadToken(x[1], text[x[2]])]
           Rule(g) == g = [s \in SUBSET DOMAIN text |->
                             IF s = {} THEN NothingRead
                             ELSE ReadToken(g[s \ {Max(s)}], text[Max(s)])]
           read == FoldLeft(ReadToken, NothingRead, text)
<1>1. n \in Nat /\ DOMAIN text = 1 .. n /\ \A k \in 1 .. n : text[k] \in W \ {":"}
  BY DEF Text
<1> HIDE DEF n
<1>2. NothingRead \in V
  BY DEF NothingRead, TokensRead, Text
<1>3. F \in [V \X (1 .. n) -> V]
  BY <1>1, ReadTokenType
<1>4. \A v \in V, k \in 1 .. n : F[<<v, k>>] = ReadToken(v, text[k])
  OBVIOUS
<1> HIDE DEF V, F
<1>5. PICK H \in [SUBSET (1 .. n) -> V] : IsFold(H, n, NothingRead, F)
  BY <1>1, <1>2, <1>3, FoldTable
<1>6. ASSUME NEW s \in SUBSET (1 .. n), s # {}
      PROVE  Max(s) \in 1 .. n /\ H[s] = ReadToken(H[s \ {Max(s)}], text[Max(s)])
  <2>1. Max(s) \in 1 .. n
    BY <1>1, <1>6, MaxIs
  <2>2. H[s \ {Max(s)}] \in V
    BY <1>5
  <2> QED  BY <1>4, <1>5, <1>6, <2>1, <2>2 DEF IsFold
<1>7. Rule(H)
  BY <1>1, <1>5, <1>6 DEF IsFold
<1>8. read = (CHOOSE g : Rule(g))[1 .. n]
  BY <1>1 DEF FoldLeft, MapThenFoldSet
<1>9. Rule(CHOOSE g : Rule(g))
  BY <1>7
<1> DEFINE h == CHOOSE g : Rule(g)
           P == {s \in SUBSET (1 .. n) : h[s] = H[s]}
<1>10. /\ h[{}] = NothingRead
       /\ \A s \in SUBSET (1 .. n) : s # {} => h[s] = ReadToken(h[s \ {Max(s)}], text[Max(s)])
  <2> HIDE DEF h
  <2>1. h = [s \in SUBSET (1 .. n) |-> IF s = {} THEN NothingRead
                                       ELSE ReadToken(h[s \ {Max(s)}], text[Max(s)])]
    BY <1>1, <1>9 DEF h
  <2> QED  BY <2>1
<1> HIDE DEF h
<1>11. {} \in P /\ \A s \in SUBSET (1 .. n) : s # {} /\ s \ {Max(s)} \in P => s \in P
  BY <1>5, <1>6, <1>10 DEF IsFold
<1>12. SUBSET (1 .. n) \subseteq P
  <2> HIDE DEF P
  <2> QED  BY <1>1, <1>11, MaxInduction
<1>13. read = H[1 .. n]
  BY <1>8, <1>12 DEF h
<1>14. PICK T : AreSteps(T, H, n, V, NothingRead, F)
  BY <1>1, <1>5, FoldSteps
<1>15. ASSUME NEW k \in 1 .. n
       PROVE  k - 1 \in 0 .. n /\ T[k] = ReadToken(T[k - 1], text[k])
  <2>1. k - 1 \in 0 .. n /\ T[k] = F[<<T[k - 1], k>>] /\ T[k - 1] \in V
    BY <1>14 DEF AreSteps
  <2> QED  BY <1>4, <2>1
<1>16. T \in [0 .. n -> V] /\ T[0] = NothingRead /\ T[n] = H[1 .. n]
  BY <1>14 DEF AreSteps
<1>17. ReadsTokens(T, W, text)
  BY <1>13, <1>15, <1>16 DEF ReadsTokens, n, V
<1> QED  BY <1>1, <1>17 DEF n

(* parse_parameters gives pairs of a key and a value.                      *)
LEMMA ParametersType ==
  ASSUME NEW W, NEW text \in Text(W \ {":"})
  PROVE  ParseParameters(text) \in Seq(Parameter(W))
<1> DEFINE read == FoldLeft(ReadToken, NothingRead, text)
<1>1. PICK T : ReadsTokens(T, W, text)
  BY TokenSteps
<1>2. Len(text) \in 0 .. Len(text)
  <2>1. Len(text) \in Nat
    BY TokenSteps
  <2> QED  BY <2>1
<1>3. read \in TokensRead(W)
  BY <1>1, <1>2 DEF ReadsTokens
<1> HIDE DEF read
<1>4. read.result \in Seq(Parameter(W)) /\ <<read.key, read.value>> \in Parameter(W)
  BY <1>3 DEF TokensRead, Parameter
<1>5. Append(read.result, <<read.key, read.value>>) \in Seq(Parameter(W))
  BY <1>4, AppendProperties
<1> QED  BY <1>5 DEF ParseParameters, read

(* An attribute list sets attributes.                                      *)
LEMMA SetAttributeType ==
  ASSUME NEW W, NEW a \in AttributesOf(W), NEW param \in Parameter(W)
  PROVE  SetAttribute(a, param) \in AttributesOf(W)
<1>1. param[2] \in Text(ValueTokens(W))
  BY DEF Parameter
<1>2. AsNumber(param[2]) \in Numeral
  BY NumeralAssumption DEF AsNumber
<1>3. a = [resolution |-> a.resolution, codecs |-> a.codecs, bandwidth |-> a.bandwidth,
           frame_rate |-> a.frame_rate]
  BY DEF AttributesOf
<1>4. /\ [a EXCEPT !.bandwidth = AsNumber(param[2])] \in AttributesOf(W)
      /\ [a EXCEPT !.frame_rate = AsNumber(param[2])] \in AttributesOf(W)
      /\ [a EXCEPT !.resolution = param[2]] \in AttributesOf(W)
      /\ [a EXCEPT !.codecs = param[2]] \in AttributesOf(W)
  BY <1>1, <1>2 DEF AttributesOf
<1>5. \/ SetAttribute(a, param) = [a EXCEPT !.bandwidth = AsNumber(param[2])]
      \/ SetAttribute(a, param) = [a EXCEPT !.frame_rate = AsNumber(param[2])]
      \/ SetAttribute(a, param) = [a EXCEPT !.resolution = param[2]]
      \/ SetAttribute(a, param) = [a EXCEPT !.codecs = param[2]]
      \/ SetAttribute(a, param) = a
  BY DEF SetAttribute
<1> QED  BY <1>4, <1>5

SetsAttributes(T, W, a, params) ==
  /\ T \in [0 .. Len(params) -> AttributesOf(W)] /\ T[0] = a
  /\ FoldLeft(SetAttribute, a, params) = T[Len(params)]
  /\ \A k \in 1 .. Len(params) :
       k - 1 \in 0 .. Len(params) /\ T[k] = SetAttribute(T[k - 1], params[k])

LEMMA AttributeSteps ==
  ASSUME NEW W, NEW a \in AttributesOf(W), NEW params \in Seq(Parameter(W))
  PROVE  Len(params) \in Nat /\ \E T : SetsAttributes(T, W, a, params)
<1> DEFINE n == Len(params)
           V == AttributesOf(W)
           F == [x \in V \X (1 .. n) |-> SetAttribute(x[1], params[x[2]])]
           Rule(g) == g = [s \in SUBSET DOMAIN params |->
                             IF s = {} THEN a
                             ELSE SetAttribute(g[s \ {Max(s)}], params[Max(s)])]
<1>1. n \in Nat /\ DOMAIN params = 1 .. n /\ \A k \in 1 .. n : params[k] \in Parameter(W)
  OBVIOUS
<1> HIDE DEF n
<1>3. F \in [V \X (1 .. n) -> V]
  BY <1>1, SetAttributeType
<1>4. \A v \in V, k \in 1 .. n : F[<<v, k>>] = SetAttribute(v, params[k])
  OBVIOUS
<1> HIDE DEF F
<1>5. PICK H \in [SUBSET (1 .. n) -> V] : IsFold(H, n, a, F)
  BY <1>1, <1>3, FoldTable
<1> HIDE DEF V
<1>6. ASSUME NEW s \in SUBSET (1 .. n), s # {}
      PROVE  Max(s) \in 1 .. n /\ H[s] = SetAttribute(H[s \ {Max(s)}], params[Max(s)])
  <2>1. Max(s) \in 1 .. n
    BY <1>1, <1>6, MaxIs
  <2>2. H[s \ {Max(s)}] \in V
    BY <1>5
  <2> QED  BY <1>4, <1>5, <1>6, <2>1, <2>2 DEF IsFold
<1>7. Rule(H)
  BY <1>1, <1>5, <1>6 DEF IsFold
<1>8. FoldLeft(SetAttribute, a, params) = (CHOOSE g : Rule(g))[1 .. n]
  BY <1>1 DEF FoldLeft, MapThenFoldSet
<1>9. Rule(CHOOSE g : Rule(g))
  BY <1>7
<1> DEFINE h == CHOOSE g : Rule(g)
           P == {s \in SUBSET (1 .. n) : h[s] = H[s]}
<1>10. /\ h[{}] = a
       /\ \A s \in SUBSET (1 .. n) : s # {} => h[s] = SetAttribute(h[s \ {Max(s)}], params[Max(s)])
  <2> HIDE DEF h
  <2>1. h = [s \in SUBSET (1 .. n) |-> IF s = {} THEN a
                                       ELSE SetAttribute(h[s \ {Max(s)}], params[Max(s)])]
    BY <1>1, <1>9 DEF h
  <2> QED  BY <2>1
<1> HIDE DEF h
<1>11. {} \in P /\ \A s \in SUBSET (1 .. n) : s # {} /\ s \ {Max(s)} \in P => s \in P
  BY <1>5, <1>6, <1>10 DEF IsFold
<1>12. SUBSET (1 .. n) \subseteq P
  <2> HIDE DEF P
  <2> QED  BY <1>1, <1>11, MaxInduction
<1>13. FoldLeft(SetAttribute, a, params) = H[1 .. n]
  BY <1>8, <1>12 DEF h
<1>14. PICK T : AreSteps(T, H, n, V, a, F)
  BY <1>1, <1>5, FoldSteps
<1>15. ASSUME NEW k \in 1 .. n
       PROVE  k - 1 \in 0 .. n /\ T[k] = SetAttribute(T[k - 1], params[k])
  <2>1. k - 1 \in 0 .. n /\ T[k] = F[<<T[k - 1], k>>] /\ T[k - 1] \in V
    BY <1>14 DEF AreSteps
  <2> QED  BY <1>4, <2>1
<1>16. T \in [0 .. n -> V] /\ T[0] = a /\ T[n] = H[1 .. n]
  BY <1>14 DEF AreSteps
<1>17. SetsAttributes(T, W, a, params)
  BY <1>13, <1>15, <1>16 DEF SetsAttributes, n, V
<1> QED  BY <1>1, <1>17 DEF n

LEMMA AttributesType ==
  ASSUME NEW W, NEW a \in AttributesOf(W), NEW params \in Seq(Parameter(W))
  PROVE  FoldLeft(SetAttribute, a, params) \in AttributesOf(W)
<1>1. PICK T : SetsAttributes(T, W, a, params)
  BY AttributeSteps
<1>2. Len(params) \in 0 .. Len(params)
  BY AttributeSteps
<1> QED  BY <1>1, <1>2 DEF SetsAttributes

LEMMA AfterColonType ==
  ASSUME NEW W, NEW text \in Text(W), NEW line, line.text = text
  PROVE  AfterColon(line) \in Text(W \ {":"})
<1> DEFINE n == Len(text)
           colons == {i \in 1 .. n : text[i] = ":"}
           last == SelectLastInSeq(text, LAMBDA t : t = ":")
<1>1. last = IF colons # {} THEN Max(colons) ELSE 0
  BY DEF SelectLastInSeq
<1>2. n \in Nat /\ \A i \in 1 .. n : text[i] \in W
  BY DEF Text
<1>3. AfterColon(line) = SubSeq(text, last + 1, n)
  BY DEF AfterColon
<1> HIDE DEF n
<1>4. colons \in SUBSET (1 .. n)
  OBVIOUS
<1>5. colons # {} => Max(colons) \in 1 .. n /\ \A i \in colons : i =< Max(colons)
  <2> HIDE DEF colons
  <2> QED  BY <1>2, <1>4, MaxIs
<1>6. last \in 0 .. n /\ \A i \in 1 .. n : text[i] = ":" => i =< last
  <2>1. CASE colons = {}
    BY <1>1, <1>2, <2>1
  <2>2. CASE colons # {}
    <3>1. last = Max(colons)
      BY <1>1, <2>2
    <3>2. \A i \in 1 .. n : text[i] = ":" => i \in colons
      OBVIOUS
    <3> HIDE DEF colons, last
    <3> QED  BY <1>2, <1>5, <2>2, <3>1, <3>2
  <2> QED  BY <2>1, <2>2
<1> HIDE DEF last
<1>7. ASSUME NEW i \in 1 .. n - last PROVE text[last + i] \in W \ {":"}
  <2>1. last + i \in 1 .. n /\ ~(last + i =< last)
    BY <1>2, <1>6
  <2> QED  BY <1>2, <1>6, <2>1
<1> DEFINE rest == SubSeq(text, last + 1, n)
<1>8. /\ rest \in Seq(W) /\ Len(rest) = n - last /\ n - last \in Nat
      /\ \A i \in 1 .. n - last : rest[i] = text[last + i]
  <2>1. text \in Seq(W) /\ last + 1 \in Nat /\ last + 1 >= 1 /\ n = Len(text)
    BY <1>2, <1>6 DEF Text, n
  <2> QED  BY <1>2, <1>6, <2>1
<1> HIDE DEF rest
<1>9. \A i \in 1 .. Len(rest) : rest[i] \in W \ {":"}
  BY <1>7, <1>8
<1>10. rest \in Seq(W \ {":"})
  <2>1. rest \in [1 .. Len(rest) -> W \ {":"}] /\ Len(rest) \in Nat
    BY <1>8, <1>9
  <2> QED  BY <2>1
<1> QED  BY <1>3, <1>10 DEF Text, rest

(* The constructor of a primary playlist.                                  *)
PlaylistLine(W) == [tag : W, text : Text(W)]
PlaylistEntry(W) == [uri : Text(W), attributes : AttributesOf(W)]
LinesParsed(W) == [idx : Nat, version : BOOLEAN, attributes : AttributesOf(W),
                   streams : Seq(PlaylistEntry(W)), threw : BOOLEAN]

LEMMA ReadLineType ==
  ASSUME NEW W, NEW base \in Text(W), NEW p \in LinesParsed(W), NEW line \in PlaylistLine(W)
  PROVE  ReadLine(base, p, line) \in LinesParsed(W)
<1> DEFINE q == [p EXCEPT !.idx = p.idx + 1]
           parsed == FoldLeft(SetAttribute, q.attributes, ParseParameters(AfterColon(line)))
           appended == Append(q.streams, Entry(base \o line.text, p.attributes))
<1>1. line.text \in Text(W)
  BY DEF PlaylistLine
<1>2. q \in LinesParsed(W)
  BY DEF LinesParsed
<1>3. parsed \in AttributesOf(W)
  <2>1. AfterColon(line) \in Text(W \ {":"})
    BY <1>1, AfterColonType
  <2>2. ParseParameters(AfterColon(line)) \in Seq(Parameter(W))
    BY <2>1, ParametersType
  <2>3. q.attributes \in AttributesOf(W)
    BY <1>2 DEF LinesParsed
  <2> HIDE DEF q
  <2> QED  BY <2>2, <2>3, AttributesType
<1>4. appended \in Seq(PlaylistEntry(W))
  <2>1. base \o line.text \in Text(W)
    BY <1>1 DEF Text
  <2>2. Entry(base \o line.text, p.attributes) \in PlaylistEntry(W)
    BY <2>1 DEF Entry, PlaylistEntry, LinesParsed
  <2>3. q.streams \in Seq(PlaylistEntry(W))
    BY <1>2 DEF LinesParsed
  <2> HIDE DEF q
  <2> QED  BY <2>2, <2>3, AppendProperties
<1>5. Unknown \in AttributesOf(W)
  BY NumeralAssumption DEF Unknown, AttributesOf, Text
<1>6. SetsVersion(line) \in BOOLEAN
  BY DEF SetsVersion, HasColon, Contains
<1>7. \/ ReadLine(base, p, line) = p
      \/ ReadLine(base, p, line) = q
      \/ ReadLine(base, p, line) = [p EXCEPT !.threw = TRUE]
      \/ ReadLine(base, p, line) = [q EXCEPT !.version = SetsVersion(line)]
      \/ ReadLine(base, p, line) = [q EXCEPT !.attributes = parsed]
      \/ ReadLine(base, p, line) = [q EXCEPT !.streams = appended, !.attributes = Unknown]
  BY DEF ReadLine
<1> HIDE DEF q, parsed, appended
<1>8. /\ [p EXCEPT !.threw = TRUE] \in LinesParsed(W)
      /\ [q EXCEPT !.attributes = parsed] \in LinesParsed(W)
      /\ [q EXCEPT !.streams = appended, !.attributes = Unknown] \in LinesParsed(W)
      /\ \A b \in BOOLEAN : [q EXCEPT !.version = b] \in LinesParsed(W)
  BY <1>2, <1>3, <1>4, <1>5 DEF LinesParsed
<1> QED  BY <1>2, <1>6, <1>7, <1>8

(* The lines of a playlist are read one after the other.                   *)
Texts(W) == Seq(PlaylistLine(W))
ReadsLines(T, W, base, text) ==
  /\ T \in [0 .. Len(text) -> LinesParsed(W)] /\ T[0] = Parsing
  /\ Parse(text, base) = T[Len(text)]
  /\ \A k \in 1 .. Len(text) :
       k - 1 \in 0 .. Len(text) /\ T[k] = ReadLine(base, T[k - 1], text[k])

LEMMA ParseSteps ==
  ASSUME NEW W, NEW base \in Text(W), NEW text \in Texts(W)
  PROVE  /\ Len(text) \in Nat
         /\ \A k \in 1 .. Len(text) : text[k] \in PlaylistLine(W)
         /\ \E T : ReadsLines(T, W, base, text)
<1> DEFINE n == Len(text)
           V == LinesParsed(W)
           F == [x \in V \X (1 .. n) |-> ReadLine(base, x[1], text[x[2]])]
           Rule(g) == g = [s \in SUBSET DOMAIN text |->
                             IF s = {} THEN Parsing
                             ELSE ReadLine(base, g[s \ {Max(s)}], text[Max(s)])]
<1>1. n \in Nat /\ DOMAIN text = 1 .. n /\ \A k \in 1 .. n : text[k] \in PlaylistLine(W)
  BY DEF Texts
<1> HIDE DEF n
<1>2. Parsing \in V
  BY NumeralAssumption DEF Parsing, LinesParsed, Unknown, AttributesOf, Text
<1>3. F \in [V \X (1 .. n) -> V]
  BY <1>1, ReadLineType
<1>4. \A v \in V, k \in 1 .. n : F[<<v, k>>] = ReadLine(base, v, text[k])
  OBVIOUS
<1> HIDE DEF V, F
<1>5. PICK H \in [SUBSET (1 .. n) -> V] : IsFold(H, n, Parsing, F)
  BY <1>1, <1>2, <1>3, FoldTable
<1>6. ASSUME NEW s \in SUBSET (1 .. n), s # {}
      PROVE  Max(s) \in 1 .. n /\ H[s] = ReadLine(base, H[s \ {Max(s)}], text[Max(s)])
  <2>1. Max(s) \in 1 .. n
    BY <1>1, <1>6, MaxIs
  <2>2. H[s \ {Max(s)}] \in V
    BY <1>5
  <2> QED  BY <1>4, <1>5, <1>6, <2>1, <2>2 DEF IsFold
<1>7. Rule(H)
  BY <1>1, <1>5, <1>6 DEF IsFold
<1>8. Parse(text, base) = (CHOOSE g : Rule(g))[1 .. n]
  BY <1>1 DEF Parse, FoldLeft, MapThenFoldSet
<1>9. Rule(CHOOSE g : Rule(g))
  BY <1>7
<1> DEFINE h == CHOOSE g : Rule(g)
           P == {s \in SUBSET (1 .. n) : h[s] = H[s]}
<1>10. /\ h[{}] = Parsing
       /\ \A s \in SUBSET (1 .. n) :
            s # {} => h[s] = ReadLine(base, h[s \ {Max(s)}], text[Max(s)])
  <2> HIDE DEF h
  <2>1. h = [s \in SUBSET (1 .. n) |-> IF s = {} THEN Parsing
                                       ELSE ReadLine(base, h[s \ {Max(s)}], text[Max(s)])]
    BY <1>1, <1>9 DEF h
  <2> QED  BY <2>1
<1> HIDE DEF h
<1>11. {} \in P /\ \A s \in SUBSET (1 .. n) : s # {} /\ s \ {Max(s)} \in P => s \in P
  BY <1>5, <1>6, <1>10 DEF IsFold
<1>12. SUBSET (1 .. n) \subseteq P
  <2> HIDE DEF P
  <2> QED  BY <1>1, <1>11, MaxInduction
<1>13. Parse(text, base) = H[1 .. n]
  BY <1>8, <1>12 DEF h
<1>14. PICK T : AreSteps(T, H, n, V, Parsing, F)
  BY <1>1, <1>5, FoldSteps
<1>15. ASSUME NEW k \in 1 .. n
       PROVE  k - 1 \in 0 .. n /\ T[k] = ReadLine(base, T[k - 1], text[k])
  <2>1. k - 1 \in 0 .. n /\ T[k] = F[<<T[k - 1], k>>] /\ T[k - 1] \in V
    BY <1>14 DEF AreSteps
  <2> QED  BY <1>4, <2>1
<1>16. T \in [0 .. n -> V] /\ T[0] = Parsing /\ T[n] = H[1 .. n]
  BY <1>14 DEF AreSteps
<1>17. ReadsLines(T, W, base, text)
  BY <1>13, <1>15, <1>16 DEF ReadsLines, n, V
<1> QED  BY <1>1, <1>17 DEF n

LEMMA ParseType ==
  ASSUME NEW W, NEW base \in Text(W), NEW text \in Texts(W)
  PROVE  Parse(text, base) \in LinesParsed(W)
<1>1. PICK T : ReadsLines(T, W, base, text)
  BY ParseSteps
<1>2. Len(text) \in 0 .. Len(text)
  BY ParseSteps
<1> QED  BY <1>1, <1>2 DEF ReadsLines

LEMMA StringTexts == PlaylistTexts = Texts(STRING)
BY DEF PlaylistTexts, Texts, PlaylistLine, Text

LEMMA StringAttributes == \A a \in AttributesOf(STRING) : a \in Attributes
<1>1. \A t \in Text(ValueTokens(STRING)) : t \in Seq(STRING)
  BY DEF Text, ValueTokens
<1> QED  BY <1>1 DEF AttributesOf, Attributes

(* A text that the parser does not take: the first line is another, or     *)
(* there are two versions.                                                 *)
Bad(text) ==
  \/ text[1].tag # "#EXTM3U"
  \/ \E i, j \in DOMAIN text : i < j /\ {text[i].tag, text[j].tag} = {"#EXT-X-VERSION"}

LEMMA ThrowsForBad ==
  ASSUME NEW W, NEW base \in Text(W), NEW text \in Texts(W), Parse(text, base).threw
  PROVE  Bad(text)
<1> DEFINE n == Len(text)
<1>1. PICK T \in [0 .. n -> LinesParsed(W)] :
        /\ T[0] = Parsing /\ Parse(text, base) = T[n]
        /\ \A k \in 1 .. n :
             k - 1 \in 0 .. n /\ T[k] = ReadLine(base, T[k - 1], text[k])
  BY ParseSteps DEF ReadsLines
<1>2. n \in Nat /\ DOMAIN text = 1 .. n
  BY DEF Texts
<1> HIDE DEF n
<1> DEFINE IsVersion(k) == text[k].tag = "#EXT-X-VERSION"
           Known(k) == /\ T[k].threw => Bad(text)
                       /\ ~T[k].threw => T[k].idx = k
                       /\ T[k].version => \E i \in 1 .. k : IsVersion(i)
           P == {k \in 0 .. n : Known(k)}
<1>3. 0 \in P
  BY <1>1, <1>2 DEF Parsing
<1>4. ASSUME NEW k \in 1 .. n, k - 1 \in P PROVE k \in P
  <2> DEFINE p == T[k - 1]
             line == text[k]
  <2>1. p \in LinesParsed(W) /\ T[k] = ReadLine(base, p, line) /\ k \in 0 .. n /\ k \in Nat
        /\ k \in DOMAIN text
    BY <1>1, <1>2
  <2>2. Known(k - 1)
    BY <1>4
  <2>3. /\ p.idx \in Nat /\ p.version \in BOOLEAN /\ p.threw \in BOOLEAN
    BY <2>1 DEF LinesParsed
  <2>4. CASE p.threw
    <3>1. T[k] = p
      BY <2>1, <2>4 DEF ReadLine
    <3>2. \A i \in 1 .. k - 1 : i \in 1 .. k
      BY <2>1
    <3> QED  BY <2>1, <2>2, <2>4, <3>1, <3>2
  <2>5. CASE ~p.threw /\ k = 1
    <3>1. p.idx = 0
      BY <2>2, <2>5
    <3>2. p.version = FALSE
      BY <1>1, <2>5 DEF Parsing
    <3>3. T[k] = IF line.tag = "#EXTM3U" THEN [p EXCEPT !.idx = @ + 1]
                 ELSE [p EXCEPT !.threw = TRUE]
      BY <2>1, <2>5, <3>1 DEF ReadLine
    <3>4. CASE line.tag = "#EXTM3U"
      <4>1. T[k].threw = FALSE /\ T[k].idx = 1 /\ T[k].version = FALSE
        BY <2>1, <2>5, <3>1, <3>2, <3>3, <3>4 DEF LinesParsed
      <4> QED  BY <2>1, <2>5, <4>1
    <3>5. CASE line.tag # "#EXTM3U"
      <4>1. T[k].threw = TRUE /\ T[k].version = FALSE
        BY <2>1, <3>2, <3>3, <3>5 DEF LinesParsed
      <4>2. Bad(text)
        BY <2>5, <3>5 DEF Bad
      <4> QED  BY <2>1, <4>1, <4>2
    <3> QED  BY <3>4, <3>5
  <2>6. CASE ~p.threw /\ k # 1
    <3>1. p.idx = k - 1 /\ p.idx > 0
      BY <2>1, <2>2, <2>6
    <3>2. CASE line.tag = "#EXT-X-VERSION" /\ p.version
      <4>1. PICK i \in 1 .. k - 1 : IsVersion(i)
        BY <2>2, <3>2
      <4>2. i \in DOMAIN text /\ i < k
        BY <1>2, <2>1
      <4>3. Bad(text)
        BY <2>1, <3>2, <4>1, <4>2 DEF Bad
      <4>4. T[k] = [p EXCEPT !.threw = TRUE]
        BY <2>1, <2>6, <3>1, <3>2 DEF ReadLine, DuplicateVersion
      <4>5. T[k].threw = TRUE
        BY <2>1, <4>4 DEF LinesParsed
      <4>6. IsVersion(k)
        BY <3>2
      <4> QED  BY <2>1, <4>3, <4>5, <4>6
    <3>3. CASE line.tag = "#EXT-X-VERSION" /\ ~p.version
      <4>1. T[k] = [[p EXCEPT !.idx = @ + 1] EXCEPT !.version = SetsVersion(line)]
        BY <2>1, <2>6, <3>1, <3>3 DEF ReadLine, DuplicateVersion
      <4>2. T[k].threw = FALSE /\ T[k].idx = k
        BY <2>1, <2>6, <3>1, <4>1 DEF LinesParsed
      <4>3. IsVersion(k)
        BY <3>3
      <4> QED  BY <2>1, <4>2, <4>3
    <3>4. CASE line.tag # "#EXT-X-VERSION"
      <4>1. /\ T[k].threw = p.threw /\ T[k].version = p.version /\ T[k].idx = p.idx + 1
        <5> DEFINE q == [p EXCEPT !.idx = p.idx + 1]
                   parsed == FoldLeft(SetAttribute, q.attributes, ParseParameters(AfterColon(line)))
                   appended == Append(q.streams, Entry(base \o line.text, p.attributes))
        <5>1. \/ T[k] = q
              \/ T[k] = [q EXCEPT !.attributes = parsed]
              \/ T[k] = [q EXCEPT !.streams = appended, !.attributes = Unknown]
          BY <2>1, <2>6, <3>1, <3>4 DEF ReadLine
        <5> HIDE DEF parsed, appended
        <5> QED  BY <2>1, <5>1 DEF LinesParsed
      <4>2. T[k].idx = k
        BY <2>1, <3>1, <4>1
      <4>3. \A i \in 1 .. k - 1 : i \in 1 .. k
        BY <2>1
      <4> QED  BY <2>1, <2>2, <2>6, <4>1, <4>2, <4>3
    <3> QED  BY <3>2, <3>3, <3>4
  <2> QED  BY <2>4, <2>5, <2>6
<1>5. n \in P
  <2> HIDE DEF P
  <2> QED  BY <1>2, <1>3, <1>4, UpTo
<1> QED  BY <1>1, <1>5


------------------------------------------------------------------------------
(* The parts of a stream are parts.                                        *)
LEMMA PartsForType ==
  ASSUME NEW streams \in Seq(Part), NEW base
  PROVE  PartsFor(streams, base) \in Seq(Part)
<1> DEFINE n == Len(streams)
           blocks == [i \in 1 .. n |-> IF streams[i].base = base THEN <<streams[i]>> ELSE <<>>]
           G == (0 .. n) \X Seq(Part)
<1>1. n \in Nat /\ DOMAIN streams = 1 .. n /\ \A i \in 1 .. n : streams[i] \in Part
  OBVIOUS
<1> HIDE DEF n
<1>2. blocks \in Seq(Seq(Part)) /\ Len(blocks) = n
  <2>1. \A i \in 1 .. n : <<streams[i]>> \in Seq(Part) /\ <<>> \in Seq(Part)
    BY <1>1
  <2>2. blocks \in [1 .. n -> Seq(Part)]
    BY <2>1
  <2> HIDE DEF blocks
  <2> QED  BY <1>1, <2>2
<1>3. PartsFor(streams, base) = FlattenSeq(blocks)
  BY <1>1 DEF PartsFor
<1> HIDE DEF blocks
<1>4. <<0, <<>>>> \in G
  <2>1. 0 \in 0 .. n /\ <<>> \in Seq(Part)
    BY <1>1
  <2> QED  BY <2>1
<1>5. ASSUME NEW k \in 1 .. Len(blocks), NEW f \in Seq(Part), <<k - 1, f>> \in G
      PROVE  <<k, f \o blocks[k]>> \in G
  <2>1. blocks[k] \in Seq(Part) /\ k \in 0 .. n
    BY <1>1, <1>2
  <2>2. f \o blocks[k] \in Seq(Part)
    BY <2>1, Concat
  <2> QED  BY <2>1, <2>2
<1> HIDE DEF G
<1> QED  BY <1>2, <1>3, <1>4, <1>5, FlattenFolds

LEMMA PartsType ==
  ASSUME setting \in Settings, NEW k \in 0 .. Len(setting.announcements), NEW base
  PROVE  Parts(k, base) \in Seq(Part)
<1> DEFINE blocks == [a \in 1 .. k |-> PartsFor(setting.announcements[a].streams, base)]
           G == (0 .. k) \X Seq(Part)
<1>1. k \in Nat /\ \A a \in 1 .. k : setting.announcements[a].streams \in Seq(Part)
  BY Announcements
<1>2. blocks \in Seq(Seq(Part)) /\ Len(blocks) = k
  <2>1. blocks \in [1 .. k -> Seq(Part)]
    BY <1>1, PartsForType
  <2> HIDE DEF blocks
  <2> QED  BY <1>1, <2>1
<1>3. Parts(k, base) = FlattenSeq(blocks)
  BY DEF Parts
<1> HIDE DEF blocks
<1>4. <<0, <<>>>> \in G
  <2>1. 0 \in 0 .. k /\ <<>> \in Seq(Part)
    BY <1>1
  <2> QED  BY <2>1
<1>5. ASSUME NEW a \in 1 .. Len(blocks), NEW f \in Seq(Part), <<a - 1, f>> \in G
      PROVE  <<a, f \o blocks[a]>> \in G
  <2>1. blocks[a] \in Seq(Part) /\ a \in 0 .. k
    BY <1>1, <1>2
  <2>2. f \o blocks[a] \in Seq(Part)
    BY <2>1, Concat
  <2> QED  BY <2>1, <2>2
<1> HIDE DEF G
<1> QED  BY <1>2, <1>3, <1>4, <1>5, FlattenFolds

(* What the calls of a plan have.                                          *)
LEMMA CallTypes ==
  ASSUME setting \in Settings, NEW k \in 1 .. Len(setting.announcements), NEW c \in Calls(k)
  PROVE  /\ c.call \in {"master", "stream"}
         /\ c.call = "master" /\ HLS => c.text \in PlaylistTexts
         /\ c.call = "stream" =>
              /\ c.parts \in Seq(Part)
              /\ \E a \in 1 .. k : \E i \in DOMAIN setting.announcements[a].streams :
                   c.parts = Parts(k, setting.announcements[a].streams[i].base)
<1>1. k \in 0 .. Len(setting.announcements) /\ k \in Nat
      /\ 1 .. k \subseteq 1 .. Len(setting.announcements)
  BY Announcements
<1>2. ASSUME NEW a \in 1 .. k, c = MasterCall(a)
      PROVE  c.call = "master" /\ (HLS => c.text \in PlaylistTexts)
  <2>1. c.call = "master" /\ c.text = setting.announcements[a].master
    BY <1>2 DEF MasterCall
  <2>2. ASSUME HLS PROVE setting.announcements[a].master \in PlaylistTexts
    <3> DEFINE Announcement == [master : PlaylistTexts, streams : Seq(Part)]
    <3>1. setting.announcements \in Seq(Announcement)
      BY <2>2, ConstantsAssumption DEF HLS
    <3> HIDE DEF Announcement
    <3>2. setting.announcements[a] \in Announcement
      BY <1>1, <3>1
    <3> QED  BY <3>2 DEF Announcement
  <2> QED  BY <2>1, <2>2
<1>3. ASSUME NEW a \in 1 .. k, NEW i \in DOMAIN setting.announcements[a].streams,
             c = StreamCall(k, a, i)
      PROVE  /\ c.call = "stream" /\ c.parts \in Seq(Part)
             /\ c.parts = Parts(k, setting.announcements[a].streams[i].base)
  BY <1>1, <1>3, PartsType DEF StreamCall
<1>4. \/ \E a \in 1 .. k : c = MasterCall(a)
      \/ \E a \in 1 .. k : \E i \in DOMAIN setting.announcements[a].streams :
           c = StreamCall(k, a, i)
  BY DEF Calls
<1>5. CASE \E a \in 1 .. k : c = MasterCall(a)
  BY <1>2, <1>5
<1>6. CASE \E a \in 1 .. k : \E i \in DOMAIN setting.announcements[a].streams :
             c = StreamCall(k, a, i)
  BY <1>3, <1>6
<1> QED  BY <1>4, <1>5, <1>6

(* The plan is one of calls for the announcements that have come; and when *)
(* the process terminates, the call it is at has a text that throws.       *)
Throws(c) ==
  /\ HLS
  /\ \/ c.call = "master" /\ Parse(c.text, BasePath).threw
     \/ c.call = "stream" /\ \E p \in Range(c.parts) : Parse(p.text, <<>>).threw

PlanInv ==
  /\ setting \in Settings
  /\ received \in 0 .. Len(setting.announcements)
  /\ received = 0 => plan = <<>>
  /\ received > 0 => plan \in Seq(Calls(received))
  /\ terminated => plan # <<>> /\ Throws(plan[1])

LEMMA PlanStep == PlanInv /\ [Next]_vars => PlanInv'
<1> SUFFICES ASSUME PlanInv, [Next]_vars PROVE PlanInv'
  OBVIOUS
<1> USE DEF PlanInv
<1>1. ASSUME UNCHANGED <<setting, received, plan, terminated>> PROVE PlanInv'
  <2>1. HLS' = HLS
    BY <1>1 DEF HLS
  <2>2. Calls(received)' = Calls(received)
    BY <1>1, SettingKept
  <2> QED  BY <1>1, <2>1, <2>2 DEF Throws
<1>2. ASSUME setting' = setting, received' = received, received > 0, plan # <<>>,
             plan' = Tail(plan), ~terminated'
      PROVE  PlanInv'
  <2>1. Calls(received)' = Calls(received)
    BY <1>2, SettingKept
  <2>2. plan' \in Seq(Calls(received))
    BY <1>2, TailIs
  <2> QED  BY <1>2, <2>1, <2>2
<1>3. ASSUME Terminate, ~terminated, plan # <<>>, Throws(plan[1]) PROVE PlanInv'
  <2>1. UNCHANGED <<setting, received, plan>> /\ terminated' = TRUE
    BY <1>3 DEF Terminate
  <2>2. HLS' = HLS
    BY <2>1 DEF HLS
  <2>3. Calls(received)' = Calls(received)
    BY <2>1, SettingKept
  <2> QED  BY <1>3, <2>1, <2>2, <2>3 DEF Throws
<1>4. CASE Receive
  <2>1. /\ received' = received + 1 /\ plan' = Plan(received + 1) /\ ~terminated'
        /\ received < Len(setting.announcements) /\ setting' = setting
    BY <1>4 DEF Receive, MainFree
  <2>2. received + 1 \in 1 .. Len(setting.announcements)
    BY <2>1, Announcements
  <2>3. Plan(received + 1) \in Seq(Calls(received + 1))
    BY <2>2, PlanIs
  <2>4. Calls(received)' = Calls(received + 1)
    BY <2>1, SettingKept
  <2> QED  BY <2>1, <2>2, <2>3, <2>4
<1>5. CASE ReadMaster
  <2>1. ~terminated /\ plan # <<>> /\ received > 0 /\ plan[1].call = "master"
    BY <1>5 DEF ReadMaster
  <2>2. CASE HLS /\ Parse(plan[1].text, BasePath).threw
    BY <1>3, <1>5, <2>1, <2>2 DEF ReadMaster, Throws
  <2>3. CASE ~(HLS /\ Parse(plan[1].text, BasePath).threw)
    BY <1>2, <1>5, <2>1, <2>3 DEF ReadMaster
  <2> QED  BY <2>2, <2>3
<1>6. ASSUME NEW bandwidth, NEW frame_rate, StartStream(bandwidth, frame_rate)
      PROVE  PlanInv'
  <2>1. ~terminated /\ plan # <<>> /\ received > 0 /\ plan[1].call = "stream"
    BY <1>6 DEF StartStream
  <2>2. CASE Unreadable(plan[1].parts)
    BY <1>3, <1>6, <2>1, <2>2 DEF StartStream, Throws, Unreadable
  <2>3. CASE ~Unreadable(plan[1].parts)
    BY <1>2, <1>6, <2>1, <2>3 DEF StartStream
  <2> QED  BY <2>2, <2>3
<1>7. ASSUME NEW mpd, FluteMpd(mpd) PROVE PlanInv'
  BY <1>1, <1>7 DEF FluteMpd
<1>8. CASE ClockTick \/ Expire \/ ExpireAtTurn
  BY <1>1, <1>8 DEF ClockTick, Expire, ExpireAtTurn
<1>9. CASE Find \/ TakeFirst("buffer") \/ TakeFirst("length") \/ TakeSecond \/ Sent
  BY <1>1, <1>9 DEF Find, TakeFirst, TakeSecond, Sent, UnchangedByGet
<1>10. CASE UNCHANGED vars
  BY <1>1, <1>10 DEF vars
<1> QED  BY <1>4, <1>5, <1>6, <1>7, <1>8, <1>9, <1>10 DEF Next

LEMMA PlanInvInit == Init => PlanInv
BY Announcements DEF Init, PlanInv

LEMMA PlanInvImplies == PlanInv => TerminatesForMalformed
<1> SUFFICES ASSUME PlanInv, terminated
             PROVE  \E text \in IF plan[1].call = "master" THEN {plan[1].text}
                                ELSE {p.text : p \in Range(plan[1].parts)} :
                      Bad(text)
  BY DEF TerminatesForMalformed, Bad
<1>1. /\ plan # <<>> /\ Throws(plan[1]) /\ HLS
      /\ received \in 1 .. Len(setting.announcements) /\ plan[1] \in Calls(received)
      /\ setting \in Settings
  BY DEF PlanInv, Throws
<1>2. CASE plan[1].call = "master"
  <2>1. plan[1].text \in PlaylistTexts /\ BasePath \in Text(STRING)
    BY <1>1, <1>2, CallTypes, ConstantsAssumption DEF Text
  <2>2. Bad(plan[1].text)
    BY <1>1, <1>2, <2>1, ThrowsForBad, StringTexts DEF Throws
  <2> QED  BY <1>2, <2>2
<1>3. CASE plan[1].call # "master"
  <2>1. plan[1].call = "stream" /\ plan[1].parts \in Seq(Part)
    BY <1>1, <1>3, CallTypes
  <2>2. PICK p \in Range(plan[1].parts) : Parse(p.text, <<>>).threw
    BY <1>1, <2>1 DEF Throws
  <2>3. p \in Part
    BY <2>1 DEF Range
  <2>4. p.text \in PlaylistTexts /\ <<>> \in Text(STRING)
    BY <2>3 DEF Part, Text
  <2>5. Bad(p.text)
    BY <2>2, <2>4, ThrowsForBad, StringTexts
  <2> QED  BY <1>3, <2>2, <2>5
<1> QED  BY <1>2, <1>3

(* The process terminates only for a text that has no first line or two    *)
(* versions.                                                               *)
THEOREM OnlyMalformedTerminates == Spec => []TerminatesForMalformed
BY PlanInvInit, PlanStep, PlanInvImplies, PTL DEF Spec

(***************************************************************************)
(* Types.                                                                  *)
(***************************************************************************)

(* Paths has the path of each stream of the setting.                       *)
PathsKnown ==
  \A k \in 1 .. Len(setting.announcements) : \A a \in 1 .. k :
    \A i \in DOMAIN setting.announcements[a].streams :
      PlaylistPath(Parts(k, setting.announcements[a].streams[i].base)) \in Range(Paths)

(* The state, as the steps of each part of it need it.                     *)
StreamInv ==
  /\ PathsKnown
  /\ HLS => primary \in Seq(PlaylistEntry(STRING))
  /\ DOMAIN content_streams \subseteq Range(Paths)
  /\ \A p \in DOMAIN content_streams : content_streams[p].attributes \in AttributesOf(STRING)

RestInv ==
  /\ now \in 1 .. MaxTime
  /\ manifest.assigned \in Nat
  /\ entry.item \in {"none", "playlist", "file"} /\ entry.node \in Nat
  /\ terminated \in BOOLEAN /\ turned \in BOOLEAN
  /\ since \subseteq mpds /\ mpds \subseteq Mpds

AnswerInv ==
  /\ GetIsRecord
  /\ get.pc \in {"idle", "found", "half", "sending"}
  /\ get.answer \in {"none", "200", "404", "torn", "dangling"}

(* The paths of streams depend on the setting only.                        *)
PathIn(s, parts) ==
  LET single == SelectSeq(parts, LAMBDA p : Len(Parse(p.text, <<>>).streams) = 1)
  IN  IF s.protocol = "HLS" /\ single # <<>> THEN Parse(Last(single).text, <<>>).streams[1].uri
      ELSE <<>>
PathsAre == \A parts : PlaylistPath(parts) = PathIn(setting, parts)

LEMMA PathsAreNow == PathsAre
BY DEF PathsAre, PlaylistPath, PathIn, HLS

LEMMA PathsAreNext == PathsAre'
BY PathsAreNow, PTL

LEMMA PathsKept ==
  ASSUME setting' = setting
  PROVE  /\ \A parts : PlaylistPath(parts)' = PlaylistPath(parts)
         /\ PathsKnown => PathsKnown'
<1>1. \A parts : PlaylistPath(parts)' = PlaylistPath(parts)
  BY PathsAreNow, PathsAreNext DEF PathsAre
<1>2. ASSUME NEW k, NEW a, NEW i
      PROVE  PlaylistPath(Parts(k, setting.announcements[a].streams[i].base))'
               = PlaylistPath(Parts(k, setting.announcements[a].streams[i].base))
  <2> DEFINE base == setting.announcements[a].streams[i].base
  <2>1. base' = base /\ Parts(k, base)' = PartsIn(setting, k, base)
        /\ Parts(k, base) = PartsIn(setting, k, base)
    BY PartsAreNow, PartsAreNext DEF PartsAre
  <2> QED  BY <2>1, PathsAreNow, PathsAreNext DEF PathsAre
<1>3. ASSUME PathsKnown PROVE PathsKnown'
  <2> SUFFICES ASSUME NEW k \in 1 .. Len(setting.announcements), NEW a \in 1 .. k,
                      NEW i \in DOMAIN setting.announcements[a].streams
               PROVE  PlaylistPath(Parts(k, setting.announcements[a].streams[i].base))'
                        \in Range(Paths)
    BY DEF PathsKnown
  <2>1. PlaylistPath(Parts(k, setting.announcements[a].streams[i].base)) \in Range(Paths)
    BY <1>3 DEF PathsKnown
  <2>2. PlaylistPath(Parts(k, setting.announcements[a].streams[i].base))'
          = PlaylistPath(Parts(k, setting.announcements[a].streams[i].base))
    BY <1>2
  <2> QED  BY <2>1, <2>2, Zenon
<1> QED  BY <1>1, <1>3

(* A started stream has the attributes of an entry of the master, or what  *)
(* uninitialised members held.                                             *)
LEMMA StartedType ==
  ASSUME HLS => primary \in Seq(PlaylistEntry(STRING)), NEW path,
         NEW bandwidth \in Leftover, NEW frame_rate \in Leftover
  PROVE  (IF Matches(path) THEN LastMatch(path) ELSE Uninitialised(bandwidth, frame_rate))
           \in AttributesOf(STRING)
<1>1. CASE ~Matches(path)
  <2>1. bandwidth \in Numeral /\ frame_rate \in Numeral
    BY ConstantsAssumption
  <2>2. Unknown \in AttributesOf(STRING)
    BY NumeralAssumption DEF Unknown, AttributesOf, Text
  <2>3. [Unknown EXCEPT !.bandwidth = bandwidth, !.frame_rate = frame_rate] \in AttributesOf(STRING)
    BY <2>1, <2>2 DEF AttributesOf
  <2> QED  BY <1>1, <2>3 DEF Uninitialised
<1>2. CASE Matches(path)
  <2> DEFINE I == {i \in 1 .. Len(primary) : primary[i].uri = path}
  <2>1. primary \in Seq(PlaylistEntry(STRING)) /\ Len(primary) \in Nat
        /\ DOMAIN primary = 1 .. Len(primary)
    BY <1>2 DEF Matches
  <2>2. I # {} /\ I \in SUBSET (1 .. Len(primary))
    BY <1>2, <2>1 DEF Matches
  <2>3. SelectLastInSeq(primary, LAMBDA s : s.uri = path) = Max(I)
    BY <2>2 DEF SelectLastInSeq
  <2>4. Max(I) \in 1 .. Len(primary)
    BY <2>1, <2>2, MaxIs
  <2>5. LastMatch(path) = primary[Max(I)].attributes
    BY <2>3 DEF LastMatch
  <2> HIDE DEF I
  <2>6. primary[Max(I)] \in PlaylistEntry(STRING)
    BY <2>1, <2>4
  <2> QED  BY <1>2, <2>5, <2>6 DEF PlaylistEntry
<1> QED  BY <1>1, <1>2

LEMMA StreamStep == PlanInv /\ StreamInv /\ [Next]_vars => StreamInv'
<1> SUFFICES ASSUME PlanInv, StreamInv, [Next]_vars PROVE StreamInv'
  OBVIOUS
<1>1. ASSUME UNCHANGED <<setting, primary, content_streams>> PROVE StreamInv'
  <2>1. HLS' = HLS /\ PathsKnown'
    BY <1>1, PathsKept DEF HLS, StreamInv
  <2> QED  BY <1>1, <2>1 DEF StreamInv
<1>2. CASE ReadMaster
  <2>1. CASE Terminate
    BY <1>1, <2>1 DEF Terminate
  <2>2. CASE ~(HLS /\ Parse(plan[1].text, BasePath).threw)
    <3>1. /\ plan # <<>> /\ plan[1].call = "master"
          /\ UNCHANGED <<setting, content_streams>>
          /\ HLS => primary' = Parse(plan[1].text, BasePath).streams
      BY <1>2, <2>2 DEF ReadMaster
    <3>2. HLS' = HLS /\ PathsKnown'
      BY <3>1, PathsKept DEF HLS, StreamInv
    <3>3. ASSUME HLS PROVE primary' \in Seq(PlaylistEntry(STRING))
      <4>1. plan[1] \in Calls(received) /\ received \in 1 .. Len(setting.announcements)
            /\ setting \in Settings
        BY <3>1 DEF PlanInv
      <4>2. plan[1].text \in PlaylistTexts /\ BasePath \in Text(STRING)
        BY <3>1, <3>3, <4>1, CallTypes, ConstantsAssumption DEF Text
      <4>3. Parse(plan[1].text, BasePath) \in LinesParsed(STRING)
        BY <4>2, ParseType, StringTexts
      <4> QED  BY <3>1, <3>3, <4>3 DEF LinesParsed
    <3> QED  BY <3>1, <3>2, <3>3 DEF StreamInv
  <2> QED  BY <1>2, <2>1, <2>2 DEF ReadMaster
<1>3. ASSUME NEW bandwidth \in Leftover, NEW frame_rate \in Leftover,
             StartStream(bandwidth, frame_rate)
      PROVE  StreamInv'
  <2>1. CASE Terminate
    BY <1>1, <2>1 DEF Terminate
  <2>2. CASE UNCHANGED <<setting, primary, content_streams>>
    BY <1>1, <2>2
  <2>3. CASE ~Unreadable(plan[1].parts) /\ content_streams' # content_streams
    <3> DEFINE path == PlaylistPath(plan[1].parts)
               value == [attributes |-> IF Matches(path) THEN LastMatch(path)
                                        ELSE Uninitialised(bandwidth, frame_rate),
                         session    |-> SessionOf(plan[1].parts)]
    <3>1. /\ plan # <<>> /\ plan[1].call = "stream" /\ UNCHANGED <<setting, primary>>
          /\ content_streams' = [p \in DOMAIN content_streams \cup {path} |->
                                   IF p = path THEN value ELSE content_streams[p]]
      BY <1>3, <2>3 DEF StartStream
    <3>2. value.attributes \in AttributesOf(STRING)
      <4>1. (IF Matches(path) THEN LastMatch(path) ELSE Uninitialised(bandwidth, frame_rate))
              \in AttributesOf(STRING)
        BY StartedType DEF StreamInv
      <4> HIDE DEF path
      <4> QED  BY <4>1
    <3>3. path \in Range(Paths)
      <4>1. plan[1] \in Calls(received) /\ received \in 1 .. Len(setting.announcements)
            /\ setting \in Settings
        BY <3>1 DEF PlanInv
      <4>2. PICK a \in 1 .. received : \E i \in DOMAIN setting.announcements[a].streams :
              plan[1].parts = Parts(received, setting.announcements[a].streams[i].base)
        BY <3>1, <4>1, CallTypes
      <4> QED  BY <4>1, <4>2 DEF StreamInv, PathsKnown
    <3> HIDE DEF path, value
    <3>4. /\ DOMAIN content_streams' = DOMAIN content_streams \cup {path}
          /\ \A p \in DOMAIN content_streams' :
               content_streams'[p] = IF p = path THEN value ELSE content_streams[p]
      BY <3>1
    <3>5. HLS' = HLS /\ PathsKnown'
      BY <3>1, PathsKept DEF HLS, StreamInv
    <3> QED  BY <3>1, <3>2, <3>3, <3>4, <3>5 DEF StreamInv
  <2> QED  BY <1>3, <2>1, <2>2, <2>3 DEF StartStream
<1>4. CASE Receive \/ ClockTick \/ Expire \/ ExpireAtTurn
  BY <1>1, <1>4 DEF Receive, ClockTick, Expire, ExpireAtTurn
<1>5. ASSUME NEW mpd, FluteMpd(mpd) PROVE StreamInv'
  BY <1>1, <1>5 DEF FluteMpd
<1>6. CASE Find \/ TakeFirst("buffer") \/ TakeFirst("length") \/ TakeSecond \/ Sent
  BY <1>1, <1>6 DEF Find, TakeFirst, TakeSecond, Sent, UnchangedByGet
<1>7. CASE UNCHANGED vars
  BY <1>1, <1>7 DEF vars
<1> QED  BY <1>2, <1>3, <1>4, <1>5, <1>6, <1>7 DEF Next

LEMMA RestStep == RestInv /\ [Next]_vars => RestInv'
<1> SUFFICES ASSUME RestInv, [Next]_vars PROVE RestInv'
  OBVIOUS
<1> USE DEF RestInv
<1>1. ASSUME UNCHANGED <<now, manifest, entry, turned, since, mpds>>, terminated' \in BOOLEAN
      PROVE  RestInv'
  BY <1>1
<1>2. CASE ReadMaster
  <2>1. CASE Terminate
    BY <1>1, <2>1 DEF Terminate
  <2>2. CASE CacheManifest /\ since' = {} /\ UNCHANGED <<now, manifest, terminated, turned, mpds>>
    BY <2>2 DEF CacheManifest, Store
  <2> QED  BY <1>2, <2>1, <2>2 DEF ReadMaster
<1>3. ASSUME NEW bandwidth, NEW frame_rate, StartStream(bandwidth, frame_rate)
      PROVE  RestInv'
  <2>1. CASE Terminate
    BY <1>1, <2>1 DEF Terminate
  <2>2. CASE /\ UNCHANGED <<now, entry, terminated, turned, since, mpds>>
             /\ manifest' = manifest \/ manifest'.assigned = manifest.assigned + 1
    BY <2>2
  <2> QED  BY <1>3, <2>1, <2>2 DEF StartStream
<1>4. ASSUME NEW mpd \in Mpds, FluteMpd(mpd) PROVE RestInv'
  BY <1>4 DEF FluteMpd, CacheMpd, Store
<1>5. CASE Receive
  BY <1>1, <1>5 DEF Receive
<1>6. CASE ClockTick
  BY <1>6, ConstantsAssumption DEF ClockTick
<1>7. CASE Expire
  BY <1>7 DEF Expire, Erase, NoEntry
<1>8. CASE ExpireAtTurn
  BY <1>8, ConstantsAssumption DEF ExpireAtTurn, Erase, NoEntry
<1>9. CASE Find \/ TakeFirst("buffer") \/ TakeFirst("length") \/ TakeSecond \/ Sent
  BY <1>1, <1>9 DEF Find, TakeFirst, TakeSecond, Sent, UnchangedByGet
<1>10. CASE UNCHANGED vars
  BY <1>1, <1>10 DEF vars
<1> QED  BY <1>2, <1>3, <1>4, <1>5, <1>6, <1>7, <1>8, <1>9, <1>10 DEF Next

LEMMA AnswerStep == AnswerInv /\ [Next]_vars => AnswerInv'
<1> SUFFICES ASSUME AnswerInv, [Next]_vars PROVE AnswerInv'
  OBVIOUS
<1> USE DEF AnswerInv
<1>1. ASSUME get' = get PROVE AnswerInv'
  BY <1>1 DEF GetIsRecord
<1>2. ASSUME Disturb PROVE AnswerInv'
  BY <1>2, Zenon DEF Disturb, GetIsRecord
<1>3. ASSUME NEW answer \in {"200", "torn", "dangling"}, Answer(answer) PROVE AnswerInv'
  BY <1>3 DEF Answer, NoGet, GetIsRecord
<1>4. CASE Find
  BY <1>4 DEF Find, NoGet, GetIsRecord
<1>5. ASSUME NEW what \in {"buffer", "length"}, TakeFirst(what) PROVE AnswerInv'
  BY <1>3, <1>5 DEF TakeFirst, GetIsRecord
<1>6. CASE TakeSecond
  BY <1>3, <1>6 DEF TakeSecond, GetIsRecord
<1>7. CASE Sent
  BY <1>3, <1>7 DEF Sent
<1>8. CASE ReadMaster
  BY <1>1, <1>2, <1>8 DEF ReadMaster, Terminate
<1>9. ASSUME NEW bandwidth, NEW frame_rate, StartStream(bandwidth, frame_rate)
      PROVE  AnswerInv'
  <2>1. get' = get \/ Disturb
    BY <1>9 DEF StartStream, Terminate
  <2> QED  BY <1>1, <1>2, <2>1
<1>10. ASSUME NEW mpd, FluteMpd(mpd) PROVE AnswerInv'
  <2>1. get' = get \/ Disturb
    BY <1>10 DEF FluteMpd
  <2> QED  BY <1>1, <1>2, <2>1
<1>11. CASE Receive \/ ClockTick
  BY <1>1, <1>11 DEF Receive, ClockTick
<1>12. CASE Expire \/ ExpireAtTurn
  BY <1>2, <1>12 DEF Expire, ExpireAtTurn, Erase
<1>13. CASE UNCHANGED vars
  BY <1>1, <1>13 DEF vars
<1> QED  BY <1>4, <1>5, <1>6, <1>7, <1>8, <1>9, <1>10, <1>11, <1>12, <1>13 DEF Next

(* The state has its types, in whatever order announcements, MPDs, sweeps  *)
(* and the steps of a GET come, if Paths has all paths there are.          *)
THEOREM TypeCorrect == Spec /\ PathsKnown => []TypeOK
<1> DEFINE Inv == PlanInv /\ StreamInv /\ RestInv /\ AnswerInv
<1>1. Init /\ PathsKnown => Inv
  <2> SUFFICES ASSUME Init, PathsKnown PROVE Inv
    OBVIOUS
  <2>1. StreamInv
    BY DEF Init, StreamInv
  <2>2. RestInv
    <3>1. 1 \in 1 .. MaxTime
      BY ConstantsAssumption
    <3> QED  BY <3>1 DEF Init, RestInv, NoManifest, NoEntry
  <2>3. AnswerInv
    BY DEF Init, AnswerInv, NoGet, GetIsRecord
  <2> QED  BY <2>1, <2>2, <2>3, PlanInvInit
<1>2. Inv /\ [Next]_vars => Inv'
  BY PlanStep, StreamStep, RestStep, AnswerStep
<1>3. Inv => TypeOK
  <2> SUFFICES ASSUME Inv PROVE TypeOK
    OBVIOUS
  <2>1. HLS => \A i \in DOMAIN primary : primary[i].attributes \in Attributes
    <3>1. ASSUME HLS, NEW i \in DOMAIN primary PROVE primary[i].attributes \in Attributes
      <4>1. primary[i] \in PlaylistEntry(STRING)
        BY <3>1 DEF StreamInv
      <4> QED  BY <4>1, StringAttributes DEF PlaylistEntry
    <3> QED  BY <3>1
  <2>2. \A p \in DOMAIN content_streams : content_streams[p].attributes \in Attributes
    BY StringAttributes DEF StreamInv
  <2> QED  BY <2>1, <2>2 DEF TypeOK, PlanInv, StreamInv, RestInv, AnswerInv
<1> QED  BY <1>1, <1>2, <1>3, PTL DEF Spec

(***************************************************************************)
(* The newest announcement wins.                                           *)
(***************************************************************************)

(* In a plan each stream follows another or the newest master, and there   *)
(* is a call for each stream of the announcements.                         *)
StreamsFollow(p, newest) ==
  \A j \in 1 .. Len(p) :
    p[j].call = "stream" /\ j # 1 => p[j - 1].call = "stream" \/ p[j - 1] = newest

HasStreams(p, k, n) ==
  \A a \in 1 .. n : \A i \in DOMAIN setting.announcements[a].streams :
    \E j \in 1 .. Len(p) : p[j] = StreamCall(k, a, i)

LEMMA PlanHas ==
  ASSUME setting \in Settings, NEW k \in 1 .. Len(setting.announcements)
  PROVE  StreamsFollow(Plan(k), MasterCall(k)) /\ HasStreams(Plan(k), k, k)
<1> DEFINE S == Calls(k)
           newest == MasterCall(k)
           masters == [a \in 1 .. k |-> MasterCall(a)]
           blocks == [a \in 1 .. k |-> masters \o StreamCalls(k, a)]
           G == {x \in (0 .. k) \X Seq(S) : /\ StreamsFollow(x[2], newest)
                                            /\ HasStreams(x[2], k, x[1])}
<1>1. /\ k \in Nat /\ k >= 1
      /\ \A a \in 1 .. k : /\ setting.announcements[a].streams \in Seq(Part)
                          /\ DOMAIN setting.announcements[a].streams
                               = 1 .. Len(setting.announcements[a].streams)
                          /\ Len(setting.announcements[a].streams) \in Nat
  BY Announcements
<1>2. masters \in Seq(S) /\ Len(masters) = k /\ \A a \in 1 .. k : masters[a] = MasterCall(a)
  <2>1. \A a \in 1 .. k : MasterCall(a) \in S
    BY DEF Calls
  <2> HIDE DEF S
  <2> QED  BY <1>1, <2>1
<1>3. \A a : MasterCall(a).call = "master"
  BY DEF MasterCall
<1>4. \A a, i : StreamCall(k, a, i).call = "stream"
  BY DEF StreamCall
<1> HIDE DEF S, masters, newest
<1>5. ASSUME NEW a \in 1 .. k
      PROVE  /\ blocks[a] \in Seq(S) /\ Len(blocks[a]) \in Nat
             /\ blocks[a] # <<>> /\ blocks[a][1].call = "master"
             /\ StreamsFollow(blocks[a], newest)
             /\ \A i \in DOMAIN setting.announcements[a].streams :
                  \E j \in 1 .. Len(blocks[a]) : blocks[a][j] = StreamCall(k, a, i)
  <2> DEFINE n == Len(setting.announcements[a].streams)
             st == StreamCalls(k, a)
             b == masters \o st
  <2>1. /\ st \in Seq(S) /\ Len(st) = n /\ n \in Nat
        /\ DOMAIN setting.announcements[a].streams = 1 .. n
        /\ \A i \in 1 .. n : st[i] = StreamCall(k, a, i)
    <3>1. \A i \in DOMAIN setting.announcements[a].streams : StreamCall(k, a, i) \in S
      BY DEF Calls, S
    <3>2. n \in Nat /\ DOMAIN setting.announcements[a].streams = 1 .. n
      BY <1>1
    <3> HIDE DEF n
    <3>3. st = [i \in 1 .. n |-> StreamCall(k, a, i)]
      BY <3>2 DEF StreamCalls
    <3>4. [i \in 1 .. n |-> StreamCall(k, a, i)] \in [1 .. n -> S]
      BY <3>1, <3>2
    <3> QED  BY <3>2, <3>3, <3>4
  <2> HIDE DEF st, n
  <2>2. /\ b \in Seq(S) /\ Len(b) = k + n /\ Len(b) \in Nat
        /\ \A i \in 1 .. k : b[i] = masters[i]
        /\ \A i \in 1 .. n : b[k + i] = st[i] /\ k + i \in 1 .. Len(b)
        /\ \A j \in 1 .. Len(b) : IF j =< k THEN j \in 1 .. k ELSE j - k \in 1 .. n
    <3>1. masters \in Seq(S) /\ st \in Seq(S)
      BY <1>2, <2>1
    <3>2. /\ b \in Seq(S) /\ Len(b) = Len(masters) + Len(st)
          /\ \A i \in 1 .. Len(masters) : b[i] = masters[i]
          /\ \A i \in 1 .. Len(st) : b[Len(masters) + i] = st[i]
                                     /\ Len(masters) + i \in 1 .. Len(b)
      BY ONLY <3>1, Concat DEF b
    <3> HIDE DEF b
    <3> QED  BY <1>1, <1>2, <2>1, <3>2
  <2> HIDE DEF b
  <2>3. b # <<>> /\ b[1].call = "master"
    <3>1. b[1] = MasterCall(1)
      BY <1>1, <1>2, <2>2
    <3> QED  BY <1>1, <1>3, <2>1, <2>2, <3>1
  <2>4. StreamsFollow(b, newest)
    <3> SUFFICES ASSUME NEW j \in 1 .. Len(b), b[j].call = "stream", j # 1
                 PROVE  b[j - 1].call = "stream" \/ b[j - 1] = newest
      BY DEF StreamsFollow
    <3>1. ~(j =< k)
      <4>1. ASSUME j =< k PROVE FALSE
        <5>1. b[j] = MasterCall(j)
          BY <1>2, <2>2, <4>1
        <5> QED  BY <1>3, <5>1
      <4> QED  BY <4>1
    <3>2. CASE j = k + 1
      <4>1. j - 1 = k /\ k \in 1 .. k
        BY <1>1, <3>2
      <4>2. b[j - 1] = MasterCall(k)
        BY <1>2, <2>2, <4>1
      <4> QED  BY <4>2 DEF newest
    <3>3. CASE j # k + 1
      <4>1. (j - 1) - k \in 1 .. n /\ k + ((j - 1) - k) = j - 1
        BY <1>1, <2>1, <2>2, <3>1, <3>3
      <4>2. b[j - 1] = StreamCall(k, a, (j - 1) - k)
        BY <2>1, <2>2, <4>1
      <4> QED  BY <1>4, <4>2
    <3> QED  BY <3>2, <3>3
  <2>5. ASSUME NEW i \in DOMAIN setting.announcements[a].streams
        PROVE  \E j \in 1 .. Len(b) : b[j] = StreamCall(k, a, i)
    BY <2>1, <2>2
  <2> QED  BY <2>2, <2>3, <2>4, <2>5 DEF b, st
<1> HIDE DEF blocks
<1>6. blocks \in Seq(Seq(S)) /\ Len(blocks) = k
  <2>1. blocks = [a \in 1 .. k |-> blocks[a]]
    BY DEF blocks
  <2>2. blocks \in [1 .. k -> Seq(S)]
    BY <1>5, <2>1
  <2> QED  BY <1>1, <2>2
<1>G. \A a, f : <<a, f>> \in G <=> /\ a \in 0 .. k /\ f \in Seq(S)
                                  /\ StreamsFollow(f, newest) /\ HasStreams(f, k, a)
  OBVIOUS
<1> HIDE DEF G
<1>7. <<0, <<>>>> \in G
  <2>1. 0 \in 0 .. k /\ <<>> \in Seq(S) /\ StreamsFollow(<<>>, newest)
        /\ HasStreams(<<>>, k, 0)
    BY <1>1 DEF StreamsFollow, HasStreams
  <2> QED  BY <1>G, <2>1
<1>8. ASSUME NEW a \in 1 .. Len(blocks), NEW f \in Seq(S), <<a - 1, f>> \in G
      PROVE  <<a, f \o blocks[a]>> \in G
  <2> DEFINE b == blocks[a]
             p == f \o b
  <2>1. a \in 1 .. k /\ a \in 0 .. k
    BY <1>6
  <2>2. /\ b \in Seq(S) /\ Len(b) \in Nat /\ b # <<>> /\ b[1].call = "master"
        /\ StreamsFollow(b, newest)
        /\ \A i \in DOMAIN setting.announcements[a].streams :
             \E j \in 1 .. Len(b) : b[j] = StreamCall(k, a, i)
    BY <1>5, <2>1
  <2>3. StreamsFollow(f, newest) /\ HasStreams(f, k, a - 1)
    BY <1>8, <1>G
  <2> HIDE DEF b
  <2>4. /\ p \in Seq(S) /\ Len(f) \in Nat /\ Len(p) = Len(f) + Len(b)
        /\ \A j \in 1 .. Len(f) : p[j] = f[j] /\ j \in 1 .. Len(p)
        /\ \A j \in 1 .. Len(b) : p[Len(f) + j] = b[j] /\ Len(f) + j \in 1 .. Len(p)
        /\ \A j \in 1 .. Len(p) :
             IF j =< Len(f) THEN j \in 1 .. Len(f) /\ p[j] = f[j]
             ELSE j - Len(f) \in 1 .. Len(b) /\ p[j] = b[j - Len(f)]
    BY <2>2, Concat
  <2> HIDE DEF p
  <2>5. StreamsFollow(p, newest)
    <3> SUFFICES ASSUME NEW j \in 1 .. Len(p), p[j].call = "stream", j # 1
                 PROVE  p[j - 1].call = "stream" \/ p[j - 1] = newest
      BY DEF StreamsFollow
    <3>1. CASE j =< Len(f)
      <4>1. j \in 1 .. Len(f) /\ j - 1 \in 1 .. Len(f) /\ f[j].call = "stream"
            /\ p[j - 1] = f[j - 1]
        BY <2>4, <3>1
      <4> QED  BY <2>3, <4>1 DEF StreamsFollow
    <3>2. CASE ~(j =< Len(f)) /\ j - Len(f) # 1
      <4> DEFINE m == j - Len(f)
      <4>1. /\ m \in 1 .. Len(b) /\ m - 1 \in 1 .. Len(b) /\ Len(f) + (m - 1) = j - 1
            /\ p[j] = b[m]
        BY <2>2, <2>4, <3>2
      <4> HIDE DEF m
      <4>2. p[j - 1] = b[m - 1]
        BY <2>4, <4>1
      <4>3. b[m - 1].call = "stream" \/ b[m - 1] = newest
        BY <2>2, <3>2, <4>1 DEF StreamsFollow, m
      <4> QED  BY <4>2, <4>3
    <3>3. CASE ~(j =< Len(f)) /\ j - Len(f) = 1
      BY <2>2, <2>4, <3>3
    <3> QED  BY <3>1, <3>2, <3>3
  <2>6. HasStreams(p, k, a)
    <3> SUFFICES ASSUME NEW c \in 1 .. a, NEW i \in DOMAIN setting.announcements[c].streams
                 PROVE  \E j \in 1 .. Len(p) : p[j] = StreamCall(k, c, i)
      BY DEF HasStreams
    <3>1. CASE c = a
      <4>1. PICK j \in 1 .. Len(b) : b[j] = StreamCall(k, c, i)
        BY <2>2, <3>1
      <4> QED  BY <2>4, <4>1
    <3>2. CASE c # a
      <4>1. c \in 1 .. (a - 1)
        BY <2>1, <3>2
      <4>2. PICK j \in 1 .. Len(f) : f[j] = StreamCall(k, c, i)
        BY <2>3, <4>1 DEF HasStreams
      <4> QED  BY <2>4, <4>2
    <3> QED  BY <3>1, <3>2
  <2>7. <<a, p>> \in G
    BY <1>G, <2>1, <2>4, <2>5, <2>6
  <2> QED  BY <2>7 DEF p, b
<1>9. FlattenSeq(blocks) \in Seq(S) /\ <<Len(blocks), FlattenSeq(blocks)>> \in G
  BY <1>6, <1>7, <1>8, FlattenFolds
<1>10. Plan(k) = FlattenSeq(blocks)
  BY DEF Plan, blocks, masters, StreamCalls, StreamCall, MasterCall
<1> QED  BY <1>6, <1>9, <1>10, <1>G DEF newest

(***************************************************************************)
(* The newest SDP.                                                         *)
(***************************************************************************)

(* What is read from SDPs.                                                 *)
SdpLine == [field : STRING, words : Seq(STRING)]
Addr == {""} \cup {Address[w] : w \in DOMAIN Address}
Word == STRING \cup {NoSession.type, NoSession.tsi}
Session == [type : Word, addr : Addr, port : Seq(STRING), tsi : Word]

(* What the newer of two sessions says, the older one does not change.     *)
Agrees(session, newest) ==
  \A f \in DOMAIN NoSession : newest[f] # NoSession[f] => session[f] = newest[f]

LEMMA SessionFields ==
  /\ NoSession \in Session /\ DOMAIN NoSession = {"type", "addr", "port", "tsi"}
  /\ \A s \in Session : Agrees(s, NoSession)
  /\ \A s, t \in Session :
       (\A f \in DOMAIN NoSession : t[f] # NoSession[f]) /\ Agrees(s, t) => s = t
<1>1. NoSession \in Session /\ DOMAIN NoSession = {"type", "addr", "port", "tsi"}
  <2>1. /\ NoSession.type \in Word /\ NoSession.tsi \in Word
        /\ NoSession.addr \in Addr /\ NoSession.port \in Seq(STRING)
    <3>1. NoSession.addr = "" /\ NoSession.port = <<>>
      BY DEF NoSession
    <3>2. "" \in Addr /\ <<>> \in Seq(STRING)
      <4>1. "" \in Addr
        BY Zenon DEF Addr
      <4>2. <<>> \in Seq(STRING)
        OBVIOUS
      <4> QED  BY <4>1, <4>2
    <3> QED  BY <3>1, <3>2 DEF Word
  <2>2. NoSession \in Session
    <3>1. NoSession = [type |-> NoSession.type, addr |-> NoSession.addr,
                       port |-> NoSession.port, tsi |-> NoSession.tsi]
      BY DEF NoSession
    <3> QED  BY <2>1, <3>1 DEF Session
  <2>3. DOMAIN NoSession = {"type", "addr", "port", "tsi"}
    BY DEF NoSession
  <2> QED  BY <2>2, <2>3
<1>2. ASSUME NEW s \in Session, NEW t \in Session,
             \A f \in {"type", "addr", "port", "tsi"} : s[f] = t[f]
      PROVE  s = t
  <2>1. /\ s = [type |-> s.type, addr |-> s.addr, port |-> s.port, tsi |-> s.tsi]
        /\ t = [type |-> t.type, addr |-> t.addr, port |-> t.port, tsi |-> t.tsi]
    BY DEF Session
  <2>2. s.type = t.type /\ s.addr = t.addr /\ s.port = t.port /\ s.tsi = t.tsi
    BY <1>2
  <2> QED  BY <2>1, <2>2
<1> QED  BY <1>1, <1>2 DEF Agrees

LEMMA SdpLineType ==
  ASSUME NEW s \in Session, NEW t \in Session, NEW line \in SdpLine
  PROVE  /\ ReadSdpLine(s, line) \in Session
         /\ Agrees(s, t) => Agrees(ReadSdpLine(s, line), ReadSdpLine(t, line))
<1> DEFINE w == line.words
<1>1. w \in Seq(STRING) /\ Len(w) \in Nat /\ \A i \in 1 .. Len(w) : w[i] \in STRING
  BY DEF SdpLine
<1> HIDE DEF w
<1>2. ASSUME NEW r \in Session
      PROVE  /\ \A x \in Addr : [r EXCEPT !.addr = x] \in Session
             /\ \A x \in Word : [r EXCEPT !.tsi = x] \in Session
             /\ \A x \in Seq(STRING), y \in Word :
                  [r EXCEPT !.port = x, !.type = y] \in Session
  BY DEF Session
<1>3. \A x \in DOMAIN Address : Address[x] \in Addr
  BY DEF Addr
<1>4. ASSUME Len(w) > 3
      PROVE  SubSeq(w, 2, Len(w) - 2) \in Seq(STRING) /\ w[Len(w) - 1] \in Word
  BY <1>1, <1>4 DEF Word
<1>5. ASSUME Len(w) >= 2 PROVE w[2] \in Word /\ <<w[2]>> \in Seq(STRING)
  BY <1>1, <1>5 DEF Word
<1>6. ASSUME Len(w) = 3 PROVE w[3] \in Word
  BY <1>1, <1>6 DEF Word
<1>7. \/ ReadSdpLine(s, line) = s /\ ReadSdpLine(t, line) = t
      \/ \E x \in Addr : /\ ReadSdpLine(s, line) = [s EXCEPT !.addr = x]
                         /\ ReadSdpLine(t, line) = [t EXCEPT !.addr = x]
      \/ \E x \in Word : /\ ReadSdpLine(s, line) = [s EXCEPT !.tsi = x]
                           /\ ReadSdpLine(t, line) = [t EXCEPT !.tsi = x]
      \/ \E x \in Seq(STRING), y \in Word :
           /\ ReadSdpLine(s, line) = [s EXCEPT !.port = x, !.type = y]
           /\ ReadSdpLine(t, line) = [t EXCEPT !.port = x, !.type = y]
  <2>1. CASE line.field = "c"
    <3>1. ReadSdpLine(s, line) = ReadConnection(s, w) /\ ReadSdpLine(t, line) = ReadConnection(t, w)
      BY <2>1 DEF ReadSdpLine, w
    <3> QED  BY <1>3, <3>1 DEF ReadConnection
  <2>2. CASE line.field = "m"
    <3>1. ReadSdpLine(s, line) = ReadMedia(s, w) /\ ReadSdpLine(t, line) = ReadMedia(t, w)
      BY <2>2 DEF ReadSdpLine, w
    <3>2. CASE Len(w) < 3 \/ w[1] # "application"
      BY <3>1, <3>2 DEF ReadMedia
    <3>3. CASE ~(Len(w) < 3 \/ w[1] # "application") /\ Len(w) = 3
      <4>1. /\ ReadSdpLine(s, line) = [s EXCEPT !.port = <<w[2]>>, !.type = w[3]]
            /\ ReadSdpLine(t, line) = [t EXCEPT !.port = <<w[2]>>, !.type = w[3]]
        BY <3>1, <3>3 DEF ReadMedia
      <4>2. <<w[2]>> \in Seq(STRING) /\ w[3] \in Word
        BY <1>1, <1>5, <1>6, <3>3
      <4> QED  BY <4>1, <4>2
    <3>4. CASE ~(Len(w) < 3 \/ w[1] # "application") /\ Len(w) # 3
      <4> DEFINE x == SubSeq(w, 2, Len(w) - 2)
                 y == w[Len(w) - 1]
      <4>1. /\ ReadSdpLine(s, line) = [s EXCEPT !.port = x, !.type = y]
            /\ ReadSdpLine(t, line) = [t EXCEPT !.port = x, !.type = y]
        BY <3>1, <3>4 DEF ReadMedia
      <4>2. Len(w) > 3
        <5>1. \A n \in Nat : ~(n < 3) /\ n # 3 => n > 3
          OBVIOUS
        <5>2. Len(w) \in Nat /\ ~(Len(w) < 3) /\ Len(w) # 3
          BY <1>1, <3>4
        <5> QED  BY <5>1, <5>2, Zenon
      <4>3. x \in Seq(STRING) /\ y \in Word
        BY <1>4, <4>2
      <4> HIDE DEF x, y
      <4> QED  BY <4>1, <4>3
    <3> QED  BY <3>2, <3>3, <3>4
  <2>3. CASE line.field = "a"
    <3>1. ReadSdpLine(s, line) = ReadAttribute(s, w) /\ ReadSdpLine(t, line) = ReadAttribute(t, w)
      BY <2>3 DEF ReadSdpLine, w
    <3>2. CASE Len(w) = 2 /\ w[1] = "flute-tsi:"
      <4>1. w[2] \in Word
        BY <1>5, <3>2
      <4>2. /\ ReadSdpLine(s, line) = [s EXCEPT !.tsi = w[2]]
            /\ ReadSdpLine(t, line) = [t EXCEPT !.tsi = w[2]]
        BY <3>1, <3>2 DEF ReadAttribute
      <4> QED  BY <4>1, <4>2
    <3>3. CASE ~(Len(w) = 2 /\ w[1] = "flute-tsi:")
      BY <3>1, <3>3 DEF ReadAttribute
    <3> QED  BY <3>2, <3>3
  <2>4. CASE line.field \notin {"c", "m", "a"}
    BY <2>4 DEF ReadSdpLine
  <2> QED  BY <2>1, <2>2, <2>3, <2>4
<1>8. ReadSdpLine(s, line) \in Session
  <2>1. CASE \E x \in Addr : ReadSdpLine(s, line) = [s EXCEPT !.addr = x]
    BY <1>2, <2>1
  <2>2. CASE \E x \in Word : ReadSdpLine(s, line) = [s EXCEPT !.tsi = x]
    BY <1>2, <2>2
  <2>3. CASE \E x \in Seq(STRING), y \in Word :
               ReadSdpLine(s, line) = [s EXCEPT !.port = x, !.type = y]
    BY <1>2, <2>3
  <2> QED  BY <1>7, <2>1, <2>2, <2>3
<1>9. ASSUME Agrees(s, t) PROVE Agrees(ReadSdpLine(s, line), ReadSdpLine(t, line))
  <2> DEFINE N == NoSession
  <2>1. \A f \in {"type", "addr", "port", "tsi"} : t[f] # N[f] => s[f] = t[f]
    BY <1>9, SessionFields DEF Agrees
  <2>2. /\ s = [type |-> s.type, addr |-> s.addr, port |-> s.port, tsi |-> s.tsi]
        /\ t = [type |-> t.type, addr |-> t.addr, port |-> t.port, tsi |-> t.tsi]
    BY DEF Session
  <2> HIDE DEF N
  <2>3. ASSUME NEW r, NEW u, NEW x,
               \/ r = [s EXCEPT !.addr = x] /\ u = [t EXCEPT !.addr = x]
               \/ r = [s EXCEPT !.tsi = x] /\ u = [t EXCEPT !.tsi = x]
        PROVE  \A f \in {"type", "addr", "port", "tsi"} : u[f] # N[f] => r[f] = u[f]
    BY <2>1, <2>2, <2>3
  <2>4. \A f \in {"type", "addr", "port", "tsi"} :
          ReadSdpLine(t, line)[f] # N[f] => ReadSdpLine(s, line)[f] = ReadSdpLine(t, line)[f]
    <3>1. CASE ReadSdpLine(s, line) = s /\ ReadSdpLine(t, line) = t
      BY <2>1, <3>1
    <3>2. CASE \E x \in Addr : /\ ReadSdpLine(s, line) = [s EXCEPT !.addr = x]
                              /\ ReadSdpLine(t, line) = [t EXCEPT !.addr = x]
      BY <2>3, <3>2
    <3>3. CASE \E x \in Word : /\ ReadSdpLine(s, line) = [s EXCEPT !.tsi = x]
                                /\ ReadSdpLine(t, line) = [t EXCEPT !.tsi = x]
      <4>1. PICK x \in Word : /\ ReadSdpLine(s, line) = [s EXCEPT !.tsi = x]
                              /\ ReadSdpLine(t, line) = [t EXCEPT !.tsi = x]
        BY <3>3
      <4> QED  BY <2>1, <2>2, <4>1
    <3>4. CASE \E x \in Seq(STRING), y \in Word :
                 /\ ReadSdpLine(s, line) = [s EXCEPT !.port = x, !.type = y]
                 /\ ReadSdpLine(t, line) = [t EXCEPT !.port = x, !.type = y]
      <4>1. PICK x \in Seq(STRING), y \in Word :
                 /\ ReadSdpLine(s, line) = [s EXCEPT !.port = x, !.type = y]
                 /\ ReadSdpLine(t, line) = [t EXCEPT !.port = x, !.type = y]
        BY <3>4
      <4> QED  BY <2>1, <2>2, <4>1
    <3> QED  BY <1>7, <3>1, <3>2, <3>3, <3>4
  <2> QED  BY <2>4, SessionFields DEF Agrees, N
<1> QED  BY <1>8, <1>9

(* The lines of an SDP are read one after the other.                       *)
Reads(T, s, sdp) ==
  /\ T \in [0 .. Len(sdp) -> Session] /\ T[0] = s /\ Configure(s, sdp) = T[Len(sdp)]
  /\ \A k \in 1 .. Len(sdp) : k - 1 \in 0 .. Len(sdp) /\ T[k] = ReadSdpLine(T[k - 1], sdp[k])

LEMMA ConfigureSteps ==
  ASSUME NEW s \in Session, NEW sdp \in Sdps
  PROVE  /\ Len(sdp) \in Nat /\ \A k \in 1 .. Len(sdp) : sdp[k] \in SdpLine
         /\ \E T : Reads(T, s, sdp)
<1> DEFINE n == Len(sdp)
           V == Session
           F == [x \in V \X (1 .. n) |-> ReadSdpLine(x[1], sdp[x[2]])]
           Rule(g) == g = [t \in SUBSET DOMAIN sdp |->
                             IF t = {} THEN s
                             ELSE ReadSdpLine(g[t \ {Max(t)}], sdp[Max(t)])]
<1>1. n \in Nat /\ DOMAIN sdp = 1 .. n /\ \A k \in 1 .. n : sdp[k] \in SdpLine
  <2>1. sdp \in Seq(SdpLine)
    BY DEF Sdps, SdpLine
  <2> QED  BY <2>1
<1> HIDE DEF n
<1>2. F \in [V \X (1 .. n) -> V]
  BY <1>1, SdpLineType
<1>3. \A v \in V, k \in 1 .. n : F[<<v, k>>] = ReadSdpLine(v, sdp[k])
  OBVIOUS
<1>4. s \in V
  OBVIOUS
<1> HIDE DEF V, F
<1>5. PICK H \in [SUBSET (1 .. n) -> V] : IsFold(H, n, s, F)
  BY <1>1, <1>2, <1>4, FoldTable
<1>6. ASSUME NEW t \in SUBSET (1 .. n), t # {}
      PROVE  Max(t) \in 1 .. n /\ H[t] = ReadSdpLine(H[t \ {Max(t)}], sdp[Max(t)])
  <2>1. Max(t) \in 1 .. n
    BY <1>1, <1>6, MaxIs
  <2>2. H[t \ {Max(t)}] \in V
    BY <1>5
  <2> QED  BY <1>3, <1>5, <1>6, <2>1, <2>2 DEF IsFold
<1>7. Rule(H)
  BY <1>1, <1>5, <1>6 DEF IsFold
<1>8. Configure(s, sdp) = (CHOOSE g : Rule(g))[1 .. n]
  BY <1>1 DEF Configure, FoldLeft, MapThenFoldSet
<1>9. Rule(CHOOSE g : Rule(g))
  BY <1>7
<1> DEFINE h == CHOOSE g : Rule(g)
           P == {t \in SUBSET (1 .. n) : h[t] = H[t]}
<1>10. /\ h[{}] = s
       /\ \A t \in SUBSET (1 .. n) :
            t # {} => h[t] = ReadSdpLine(h[t \ {Max(t)}], sdp[Max(t)])
  <2> HIDE DEF h
  <2>1. h = [t \in SUBSET (1 .. n) |-> IF t = {} THEN s
                                       ELSE ReadSdpLine(h[t \ {Max(t)}], sdp[Max(t)])]
    BY <1>1, <1>9 DEF h
  <2> QED  BY <2>1
<1> HIDE DEF h
<1>11. {} \in P /\ \A t \in SUBSET (1 .. n) : t # {} /\ t \ {Max(t)} \in P => t \in P
  BY <1>5, <1>6, <1>10 DEF IsFold
<1>12. SUBSET (1 .. n) \subseteq P
  <2> HIDE DEF P
  <2> QED  BY <1>1, <1>11, MaxInduction
<1>13. Configure(s, sdp) = H[1 .. n]
  BY <1>8, <1>12 DEF h
<1>14. PICK T : AreSteps(T, H, n, V, s, F)
  BY <1>1, <1>5, FoldSteps
<1>15. ASSUME NEW k \in 1 .. n
       PROVE  k - 1 \in 0 .. n /\ T[k] = ReadSdpLine(T[k - 1], sdp[k])
  <2>1. k - 1 \in 0 .. n /\ T[k] = F[<<T[k - 1], k>>] /\ T[k - 1] \in V
    BY <1>14 DEF AreSteps
  <2> QED  BY <1>3, <2>1
<1>16. T \in [0 .. n -> V] /\ T[0] = s /\ T[n] = H[1 .. n]
  BY <1>14 DEF AreSteps
<1>17. Reads(T, s, sdp)
  BY <1>13, <1>15, <1>16 DEF Reads, n, V
<1> QED  BY <1>1, <1>17 DEF n

(* What an SDP says, it says whatever was known before.                    *)
LEMMA ConfigureAgrees ==
  ASSUME NEW s \in Session, NEW t \in Session, Agrees(s, t), NEW sdp \in Sdps
  PROVE  Configure(s, sdp) \in Session /\ Agrees(Configure(s, sdp), Configure(t, sdp))
<1> DEFINE n == Len(sdp)
<1>1. n \in Nat /\ \A k \in 1 .. n : sdp[k] \in SdpLine
  BY ConfigureSteps
<1>2. PICK T : Reads(T, s, sdp)
  BY ConfigureSteps
<1>3. PICK U : Reads(U, t, sdp)
  BY ConfigureSteps
<1> HIDE DEF n
<1>4. /\ T \in [0 .. n -> Session] /\ T[0] = s /\ Configure(s, sdp) = T[n]
      /\ \A k \in 1 .. n : k - 1 \in 0 .. n /\ T[k] = ReadSdpLine(T[k - 1], sdp[k])
  BY <1>2 DEF Reads, n
<1>5. /\ U \in [0 .. n -> Session] /\ U[0] = t /\ Configure(t, sdp) = U[n]
      /\ \A k \in 1 .. n : U[k] = ReadSdpLine(U[k - 1], sdp[k])
  BY <1>3 DEF Reads, n
<1> DEFINE P == {k \in 0 .. n : Agrees(T[k], U[k])}
<1>6. 0 \in P
  BY <1>1, <1>4, <1>5
<1>7. ASSUME NEW k \in 1 .. n, k - 1 \in P PROVE k \in P
  <2>1. T[k - 1] \in Session /\ U[k - 1] \in Session /\ sdp[k] \in SdpLine /\ k \in 0 .. n
    BY <1>1, <1>4, <1>5
  <2>2. Agrees(T[k - 1], U[k - 1])
    BY <1>7
  <2>3. Agrees(T[k], U[k])
    BY <1>4, <1>5, <2>1, <2>2, SdpLineType
  <2> QED  BY <2>1, <2>3
<1>8. n \in P
  <2> HIDE DEF P
  <2> QED  BY <1>1, <1>6, <1>7, UpTo
<1>9. n \in 0 .. n
  BY <1>1
<1> QED  BY <1>4, <1>5, <1>8, <1>9

(* The last of the parts is read last.                                     *)
LEMMA SessionOfLast ==
  ASSUME NEW parts \in Seq(Part), parts # <<>>
  PROVE  \E s \in Session : SessionOf(parts) = Configure(s, Last(parts).sdp)
<1> DEFINE n == Len(parts)
           V == Session
           F == [x \in V \X (1 .. n) |-> Configure(x[1], parts[x[2]].sdp)]
           Rule(g) == g = [t \in SUBSET DOMAIN parts |->
                             IF t = {} THEN NoSession
                             ELSE Configure(g[t \ {Max(t)}], parts[Max(t)].sdp)]
<1>1. /\ n \in Nat \ {0} /\ DOMAIN parts = 1 .. n /\ Last(parts) = parts[n]
      /\ \A k \in 1 .. n : parts[k] \in Part /\ parts[k].sdp \in Sdps
  <2>1. n \in Nat \ {0} /\ DOMAIN parts = 1 .. n /\ Last(parts) = parts[n]
    BY DEF Last
  <2>2. \A k \in 1 .. n : parts[k] \in Part
    OBVIOUS
  <2>3. \A part \in Part : part.sdp \in Sdps
    BY DEF Part
  <2> QED  BY <2>1, <2>2, <2>3
<1> HIDE DEF n
<1>2. F \in [V \X (1 .. n) -> V]
  <2>1. ASSUME NEW v \in V, NEW k \in 1 .. n PROVE Configure(v, parts[k].sdp) \in V
    <3>1. Agrees(v, v)
      BY DEF Agrees
    <3> QED  BY <1>1, <3>1, ConfigureAgrees
  <2> HIDE DEF V
  <2> QED  BY <2>1
<1>3. \A v \in V, k \in 1 .. n : F[<<v, k>>] = Configure(v, parts[k].sdp)
  OBVIOUS
<1>4. NoSession \in V
  BY SessionFields
<1> HIDE DEF V, F
<1>5. PICK H \in [SUBSET (1 .. n) -> V] : IsFold(H, n, NoSession, F)
  BY <1>1, <1>2, <1>4, FoldTable
<1>6. ASSUME NEW t \in SUBSET (1 .. n), t # {}
      PROVE  /\ Max(t) \in 1 .. n /\ H[t \ {Max(t)}] \in V
             /\ H[t] = Configure(H[t \ {Max(t)}], parts[Max(t)].sdp)
  <2>1. Max(t) \in 1 .. n
    BY <1>1, <1>6, MaxIs
  <2>2. H[t \ {Max(t)}] \in V
    BY <1>5
  <2> QED  BY <1>3, <1>5, <1>6, <2>1, <2>2 DEF IsFold
<1>7. Rule(H)
  BY <1>1, <1>5, <1>6 DEF IsFold
<1>8. SessionOf(parts) = (CHOOSE g : Rule(g))[1 .. n]
  BY <1>1 DEF SessionOf, FoldLeft, MapThenFoldSet
<1>9. Rule(CHOOSE g : Rule(g))
  BY <1>7
<1> DEFINE h == CHOOSE g : Rule(g)
           P == {t \in SUBSET (1 .. n) : h[t] = H[t]}
<1>10. /\ h[{}] = NoSession
       /\ \A t \in SUBSET (1 .. n) :
            t # {} => h[t] = Configure(h[t \ {Max(t)}], parts[Max(t)].sdp)
  <2> HIDE DEF h
  <2>1. h = [t \in SUBSET (1 .. n) |-> IF t = {} THEN NoSession
                                       ELSE Configure(h[t \ {Max(t)}], parts[Max(t)].sdp)]
    BY <1>1, <1>9 DEF h
  <2> QED  BY <2>1
<1> HIDE DEF h
<1>11. {} \in P /\ \A t \in SUBSET (1 .. n) : t # {} /\ t \ {Max(t)} \in P => t \in P
  BY <1>5, <1>6, <1>10 DEF IsFold
<1>12. SUBSET (1 .. n) \subseteq P
  <2> HIDE DEF P
  <2> QED  BY <1>1, <1>11, MaxInduction
<1>13. SessionOf(parts) = H[1 .. n]
  BY <1>8, <1>12 DEF h
<1>14. Max(1 .. n) = n /\ 1 .. n # {} /\ 1 .. n \in SUBSET (1 .. n)
  <2>1. n \in Nat /\ n \in 1 .. n /\ 1 .. n \in SUBSET (1 .. n)
    BY <1>1
  <2>2. Max(1 .. n) = n
    BY ONLY <2>1, MaxOf
  <2> QED  BY <2>1, <2>2
<1> QED  BY <1>1, <1>6, <1>13, <1>14 DEF V

(* If the newest SDP says everything, nothing of another is left.          *)
Newest(parts) == Configure(NoSession, Last(parts).sdp)
Complete(session) == \A f \in DOMAIN NoSession : session[f] # NoSession[f]

LEMMA NewestSession ==
  ASSUME NEW parts \in Seq(Part), parts # <<>>, Complete(Newest(parts))
  PROVE  SessionOf(parts) = Newest(parts) /\ Available(SessionOf(parts))
<1>1. PICK s \in Session : SessionOf(parts) = Configure(s, Last(parts).sdp)
  BY SessionOfLast
<1>2. Last(parts).sdp \in Sdps
  <2>1. Last(parts) \in Part
    BY DEF Last
  <2> QED  BY <2>1 DEF Part
<1>3. NoSession \in Session /\ Agrees(s, NoSession) /\ Agrees(NoSession, NoSession)
  BY SessionFields
<1>4. /\ SessionOf(parts) \in Session /\ Newest(parts) \in Session
      /\ Agrees(SessionOf(parts), Newest(parts))
  BY <1>1, <1>2, <1>3, ConfigureAgrees DEF Newest
<1>5. SessionOf(parts) = Newest(parts)
  BY <1>4, SessionFields DEF Complete
<1>6. Newest(parts)["addr"] # NoSession["addr"] /\ Newest(parts)["port"] # NoSession["port"]
  BY SessionFields DEF Complete
<1>7. NoSession["addr"] = "" /\ NoSession["port"] = <<>>
  BY DEF NoSession
<1> QED  BY <1>5, <1>6, <1>7 DEF Available

(* A stream's parts and path, when k announcements have come.              *)
PartsOf(k, a, i) == StreamCall(k, a, i).parts
PathOf(k, a, i) == PlaylistPath(PartsOf(k, a, i))
Ahead(p, c) == \E j \in 1 .. Len(p) : p[j] = c

LEMMA StreamsKept ==
  ASSUME setting' = setting
  PROVE  \A k, a, i : /\ StreamCall(k, a, i)' = StreamCall(k, a, i)
                      /\ PartsOf(k, a, i)' = PartsOf(k, a, i)
                      /\ PathOf(k, a, i)' = PathOf(k, a, i)
                      /\ Starts(PartsOf(k, a, i))' <=> Starts(PartsOf(k, a, i))
<1> SUFFICES ASSUME NEW k, NEW a, NEW i
             PROVE  /\ StreamCall(k, a, i)' = StreamCall(k, a, i)
                    /\ PartsOf(k, a, i)' = PartsOf(k, a, i)
                    /\ PathOf(k, a, i)' = PathOf(k, a, i)
                    /\ Starts(PartsOf(k, a, i))' <=> Starts(PartsOf(k, a, i))
  OBVIOUS
<1>1. StreamCall(k, a, i)' = StreamCall(k, a, i)
  BY SettingKept
<1>2. PartsOf(k, a, i)' = PartsOf(k, a, i)
  BY <1>1 DEF PartsOf
<1>3. PathOf(k, a, i)' = PathOf(k, a, i)
  BY <1>2, PathsAreNow, PathsAreNext DEF PathsAre, PathOf
<1>4. Starts(PartsOf(k, a, i))' <=> Starts(PartsOf(k, a, i))
  BY <1>2 DEF Starts
<1> QED  BY <1>1, <1>2, <1>3, <1>4

(* Only what is done is no longer ahead.                                   *)
LEMMA StillAhead ==
  ASSUME NEW S, NEW p \in Seq(S), p # <<>>, NEW c, Ahead(p, c), p[1] # c
  PROVE  Ahead(Tail(p), c)
<1>1. PICK j \in 1 .. Len(p) : p[j] = c
  BY DEF Ahead
<1>2. /\ Len(p) \in Nat \ {0} /\ Len(Tail(p)) = Len(p) - 1
      /\ \A i \in 1 .. Len(Tail(p)) : Tail(p)[i] = p[i + 1]
  BY TailIs
<1>3. j - 1 \in 1 .. Len(Tail(p)) /\ (j - 1) + 1 = j
  BY <1>1, <1>2
<1>4. Tail(p)[j - 1] = c
  BY <1>1, <1>2, <1>3
<1> QED  BY <1>3, <1>4 DEF Ahead

(* A stream that is announced has parts.                                   *)
LEMMA HasParts ==
  ASSUME setting \in Settings, NEW k \in 0 .. Len(setting.announcements),
         NEW a \in 1 .. k, NEW i \in DOMAIN setting.announcements[a].streams
  PROVE  PartsOf(k, a, i) \in Seq(Part) /\ PartsOf(k, a, i) # <<>>
<1> DEFINE base == setting.announcements[a].streams[i].base
           blocks == [b \in 1 .. k |-> PartsFor(setting.announcements[b].streams, base)]
           streams == setting.announcements[a].streams
           own == [j \in DOMAIN streams |->
                     IF streams[j].base = base THEN <<streams[j]>> ELSE <<>>]
<1>1. k \in Nat /\ \A b \in 1 .. k : setting.announcements[b].streams \in Seq(Part)
  BY Announcements
<1>2. blocks \in Seq(Seq(Part)) /\ Len(blocks) = k
  <2>1. \A b \in 1 .. k : PartsFor(setting.announcements[b].streams, base) \in Seq(Part)
    BY <1>1, PartsForType
  <2> HIDE DEF base
  <2>2. blocks \in [1 .. k -> Seq(Part)]
    BY <2>1
  <2> HIDE DEF blocks
  <2> QED  BY <1>1, <2>2
<1>3. blocks[a] = PartsFor(streams, base)
  OBVIOUS
<1>4. PartsFor(streams, base) # <<>>
  <2>1. /\ streams \in Seq(Part) /\ Len(streams) \in Nat
        /\ DOMAIN streams = 1 .. Len(streams) /\ i \in 1 .. Len(streams)
        /\ \A j \in 1 .. Len(streams) : streams[j] \in Part
    BY <1>1
  <2>2. own[i] = <<streams[i]>>
    OBVIOUS
  <2> HIDE DEF streams, base
  <2>3. own \in Seq(Seq(Part)) /\ Len(own) = Len(streams)
    <3>1. \A j \in 1 .. Len(streams) : <<streams[j]>> \in Seq(Part) /\ <<>> \in Seq(Part)
      BY <2>1
    <3>2. own = [j \in 1 .. Len(streams) |->
                   IF streams[j].base = base THEN <<streams[j]>> ELSE <<>>]
      BY <2>1
    <3>3. own \in [1 .. Len(streams) -> Seq(Part)]
      BY <3>1, <3>2
    <3> HIDE DEF own
    <3> QED  BY <2>1, <3>3
  <2>4. PartsFor(streams, base) = FlattenSeq(own)
    BY DEF PartsFor
  <2> HIDE DEF own
  <2>5. own[i] # <<>>
    BY <2>2
  <2> QED  BY <2>1, <2>3, <2>4, <2>5, FlattenHas
<1>5. PartsOf(k, a, i) = Parts(k, base)
  BY DEF PartsOf, StreamCall
<1>6. Parts(k, base) = FlattenSeq(blocks)
  BY DEF Parts
<1>7. Parts(k, base) \in Seq(Part)
  BY PartsType
<1> HIDE DEF blocks, base, streams
<1>8. FlattenSeq(blocks) # <<>>
  BY <1>1, <1>2, <1>3, <1>4, FlattenHas
<1> QED  BY <1>5, <1>6, <1>7, <1>8

(* A stream that has a source is still to be started, or runs as the SDPs  *)
(* of one with its path say.                                               *)
IsOf(session, path) ==
  \E b \in 1 .. received : \E j \in DOMAIN setting.announcements[b].streams :
    path = PathOf(received, b, j) /\ session = SessionOf(PartsOf(received, b, j))
RunsNewest(a, i) ==
  Starts(PartsOf(received, a, i)) =>
    /\ PathOf(received, a, i) \in DOMAIN content_streams
    /\ IsOf(content_streams[PathOf(received, a, i)].session, PathOf(received, a, i))
SdpInv ==
  \A a \in 1 .. received : \A i \in DOMAIN setting.announcements[a].streams :
    Ahead(plan, StreamCall(received, a, i)) \/ RunsNewest(a, i)

LEMMA IsOfKept ==
  ASSUME setting' = setting, received' = received
  PROVE  \A session, path : IsOf(session, path) => IsOf(session, path)'
<1> SUFFICES ASSUME NEW session, NEW path, IsOf(session, path) PROVE IsOf(session, path)'
  OBVIOUS
<1>1. PICK b \in 1 .. received : \E j \in DOMAIN setting.announcements[b].streams :
        path = PathOf(received, b, j) /\ session = SessionOf(PartsOf(received, b, j))
  BY DEF IsOf
<1>2. PICK j \in DOMAIN setting.announcements[b].streams :
        path = PathOf(received, b, j) /\ session = SessionOf(PartsOf(received, b, j))
  BY <1>1
<1>3. PathOf(received, b, j)' = PathOf(received, b, j)
      /\ PartsOf(received, b, j)' = PartsOf(received, b, j)
  BY StreamsKept
<1> QED  BY <1>2, <1>3 DEF IsOf

LEMMA SdpStep == PlanInv /\ SdpInv /\ [Next]_vars => SdpInv'
<1> SUFFICES ASSUME PlanInv, SdpInv, [Next]_vars PROVE SdpInv'
  OBVIOUS
<1>2. ASSUME UNCHANGED <<setting, received, content_streams>>,
             NEW a, NEW i, RunsNewest(a, i)
      PROVE  RunsNewest(a, i)'
  <2>1. /\ PathOf(received, a, i)' = PathOf(received, a, i)
        /\ Starts(PartsOf(received, a, i))' <=> Starts(PartsOf(received, a, i))
    BY <1>2, StreamsKept
  <2> QED  BY <1>2, <2>1, IsOfKept DEF RunsNewest
<1>3. ASSUME UNCHANGED <<setting, received, plan, content_streams>> PROVE SdpInv'
  <2> SUFFICES ASSUME NEW a \in 1 .. received, NEW i \in DOMAIN setting.announcements[a].streams
               PROVE  (Ahead(plan, StreamCall(received, a, i)) \/ RunsNewest(a, i))'
    BY <1>3 DEF SdpInv
  <2>1. Ahead(plan, StreamCall(received, a, i)) \/ RunsNewest(a, i)
    BY DEF SdpInv
  <2>2. StreamCall(received, a, i)' = StreamCall(received, a, i)
    BY <1>3, StreamsKept
  <2> QED  BY <1>2, <1>3, <2>1, <2>2 DEF Ahead
<1>4. ASSUME UNCHANGED <<setting, received>>, received > 0, plan # <<>>, plan' = Tail(plan),
             \A a \in 1 .. received : \A i \in DOMAIN setting.announcements[a].streams :
               RunsNewest(a, i) \/ StreamCall(received, a, i) = plan[1] => RunsNewest(a, i)'
      PROVE  SdpInv'
  <2> SUFFICES ASSUME NEW a \in 1 .. received, NEW i \in DOMAIN setting.announcements[a].streams
               PROVE  (Ahead(plan, StreamCall(received, a, i)) \/ RunsNewest(a, i))'
    BY <1>4 DEF SdpInv
  <2>1. Ahead(plan, StreamCall(received, a, i)) \/ RunsNewest(a, i)
    BY DEF SdpInv
  <2>2. StreamCall(received, a, i)' = StreamCall(received, a, i)
    BY <1>4, StreamsKept
  <2>3. plan \in Seq(Calls(received))
    BY <1>4 DEF PlanInv
  <2>4. CASE Ahead(plan, StreamCall(received, a, i)) /\ plan[1] # StreamCall(received, a, i)
    <3>1. Ahead(Tail(plan), StreamCall(received, a, i))
      BY <1>4, <2>3, <2>4, StillAhead
    <3> QED  BY <1>4, <2>2, <3>1 DEF Ahead
  <2> QED  BY <1>4, <2>1, <2>4
<1>5. CASE Receive
  <2>1. /\ received' = received + 1 /\ plan' = Plan(received + 1) /\ setting' = setting
        /\ received + 1 \in 1 .. Len(setting.announcements) /\ setting \in Settings
    BY <1>5, Announcements DEF Receive, PlanInv
  <2>2. HasStreams(Plan(received + 1), received + 1, received + 1)
    BY <2>1, PlanHas
  <2> SUFFICES ASSUME NEW a \in 1 .. (received + 1),
                      NEW i \in DOMAIN setting.announcements[a].streams
               PROVE  Ahead(plan, StreamCall(received, a, i))'
    BY <2>1 DEF SdpInv
  <2>3. StreamCall(received, a, i)' = StreamCall(received + 1, a, i)
    BY <2>1, StreamsKept
  <2> QED  BY <2>1, <2>2, <2>3 DEF HasStreams, Ahead
<1>6. CASE ReadMaster
  <2>1. CASE Terminate
    BY <1>3, <2>1 DEF Terminate
  <2>2. CASE ~(HLS /\ Parse(plan[1].text, BasePath).threw)
    <3>1. /\ plan # <<>> /\ plan[1].call = "master" /\ received > 0 /\ plan' = Tail(plan)
          /\ UNCHANGED <<setting, received, content_streams>>
      BY <1>6, <2>2 DEF ReadMaster, PlanInv
    <3>2. \A a, i : StreamCall(received, a, i) # plan[1]
      BY <3>1 DEF StreamCall
    <3> QED  BY <1>2, <1>4, <3>1, <3>2
  <2> QED  BY <1>6, <2>1, <2>2 DEF ReadMaster
<1>7. ASSUME NEW bandwidth, NEW frame_rate, StartStream(bandwidth, frame_rate)
      PROVE  SdpInv'
  <2> DEFINE c == plan[1]
             path == PlaylistPath(c.parts)
             session == SessionOf(c.parts)
  <2>1. /\ plan # <<>> /\ c.call = "stream" /\ received > 0 /\ setting \in Settings
        /\ received \in 1 .. Len(setting.announcements) /\ plan \in Seq(Calls(received))
    BY <1>7 DEF StartStream, PlanInv
  <2>2. \E b \in 1 .. received : \E j \in DOMAIN setting.announcements[b].streams :
          c.parts = PartsOf(received, b, j)
    <3>1. c \in Calls(received)
      BY <2>1
    <3> QED  BY <2>1, <3>1, CallTypes DEF PartsOf, StreamCall
  <2>3. CASE Unreadable(c.parts)
    BY <1>3, <1>7, <2>3 DEF StartStream, Terminate
  <2>4. CASE ~Unreadable(c.parts) /\ ~Starts(c.parts)
    <3>1. /\ plan' = Tail(plan) /\ UNCHANGED <<setting, received, content_streams>>
      BY <1>7, <2>4 DEF StartStream, Starts
    <3>2. ASSUME NEW a, NEW i, StreamCall(received, a, i) = plan[1] PROVE RunsNewest(a, i)
      BY <2>4, <3>2 DEF RunsNewest, PartsOf
    <3> QED  BY <1>2, <1>4, <2>1, <3>1, <3>2
  <2>5. CASE ~Unreadable(c.parts) /\ Starts(c.parts)
    <3>1. /\ plan' = Tail(plan) /\ UNCHANGED <<setting, received>>
          /\ DOMAIN content_streams' = DOMAIN content_streams \cup {path}
          /\ content_streams'[path].session = session
          /\ \A p \in DOMAIN content_streams : p # path => content_streams'[p] = content_streams[p]
      <4> DEFINE value == [attributes |-> IF Matches(path) THEN LastMatch(path)
                                          ELSE Uninitialised(bandwidth, frame_rate),
                           session    |-> session]
      <4>1. /\ plan' = Tail(plan) /\ UNCHANGED <<setting, received>>
            /\ content_streams' = [p \in DOMAIN content_streams \cup {path} |->
                                     IF p = path THEN value ELSE content_streams[p]]
        BY <1>7, <2>5 DEF StartStream, Starts
      <4>2. value.session = session
        OBVIOUS
      <4> HIDE DEF path, session, value
      <4> QED  BY <4>1, <4>2
    <3>2. IsOf(session, path)
      BY <2>2 DEF IsOf, PathOf
    <3> HIDE DEF path, session
    <3>4. ASSUME NEW a \in 1 .. received, NEW i \in DOMAIN setting.announcements[a].streams,
                 RunsNewest(a, i) \/ StreamCall(received, a, i) = c
          PROVE  RunsNewest(a, i)'
      <4> DEFINE q == PathOf(received, a, i)
      <4>1. /\ PathOf(received, a, i)' = q
            /\ Starts(PartsOf(received, a, i))' <=> Starts(PartsOf(received, a, i))
        BY <3>1, StreamsKept
      <4>2. CASE q = path
        BY <3>1, <3>2, <4>1, <4>2, IsOfKept DEF RunsNewest
      <4>3. CASE q # path
        <5>1. RunsNewest(a, i)
          BY <3>4, <4>3 DEF PathOf, PartsOf, path
        <5> HIDE DEF q
        <5>2. ASSUME Starts(PartsOf(received, a, i))
              PROVE  /\ q \in DOMAIN content_streams' /\ content_streams'[q] = content_streams[q]
                     /\ IsOf(content_streams[q].session, q)
          BY <3>1, <4>3, <5>1, <5>2 DEF RunsNewest, q
        <5> QED  BY <3>1, <4>1, <5>2, IsOfKept DEF RunsNewest
      <4> QED  BY <4>2, <4>3
    <3> QED  BY <1>4, <2>1, <3>1, <3>4
  <2> QED  BY <2>3, <2>4, <2>5
<1>8. CASE ClockTick \/ Expire \/ ExpireAtTurn
  BY <1>3, <1>8 DEF ClockTick, Expire, ExpireAtTurn
<1>9. ASSUME NEW mpd, FluteMpd(mpd) PROVE SdpInv'
  BY <1>3, <1>9 DEF FluteMpd
<1>10. CASE Find \/ TakeFirst("buffer") \/ TakeFirst("length") \/ TakeSecond \/ Sent
  BY <1>3, <1>10 DEF Find, TakeFirst, TakeSecond, Sent, UnchangedByGet
<1>11. CASE UNCHANGED vars
  BY <1>3, <1>11 DEF vars
<1> QED  BY <1>5, <1>6, <1>7, <1>8, <1>9, <1>10, <1>11 DEF Next

LEMMA SdpInvImplies == PlanInv /\ SdpInv => NewestSdpRuns
<1> SUFFICES ASSUME PlanInv, SdpInv, MainFree, NEW a \in 1 .. received,
                    NEW s \in Range(setting.announcements[a].streams),
                    Complete(Newest(Parts(received, s.base))),
                    \A b \in 1 .. received : \A t \in Range(setting.announcements[b].streams) :
                      PlaylistPath(Parts(received, t.base)) = PlaylistPath(Parts(received, s.base))
                        => t.base = s.base
             PROVE  content_streams[PlaylistPath(Parts(received, s.base))].session
                      = Newest(Parts(received, s.base))
  BY DEF NewestSdpRuns, Newest, Complete
<1>1. PICK i \in DOMAIN setting.announcements[a].streams :
        s = setting.announcements[a].streams[i]
  BY DEF Range
<1>2. PartsOf(received, a, i) = Parts(received, s.base)
  BY <1>1 DEF PartsOf, StreamCall
<1>3. setting \in Settings /\ received \in 0 .. Len(setting.announcements)
  BY DEF PlanInv
<1>4. /\ SessionOf(Parts(received, s.base)) = Newest(Parts(received, s.base))
      /\ Available(SessionOf(Parts(received, s.base)))
  <2>1. PartsOf(received, a, i) \in Seq(Part) /\ PartsOf(received, a, i) # <<>>
    BY <1>3, HasParts
  <2> QED  BY <1>2, <2>1, NewestSession
<1>5. RunsNewest(a, i)
  BY DEF SdpInv, Ahead, MainFree
<1>6. IsOf(content_streams[PathOf(received, a, i)].session, PathOf(received, a, i))
  BY <1>2, <1>4, <1>5 DEF RunsNewest, Starts
<1>7. PICK b \in 1 .. received : \E j \in DOMAIN setting.announcements[b].streams :
        /\ PathOf(received, a, i) = PathOf(received, b, j)
        /\ content_streams[PathOf(received, a, i)].session = SessionOf(PartsOf(received, b, j))
  BY <1>6 DEF IsOf
<1>8. PICK j \in DOMAIN setting.announcements[b].streams :
        /\ PathOf(received, a, i) = PathOf(received, b, j)
        /\ content_streams[PathOf(received, a, i)].session = SessionOf(PartsOf(received, b, j))
  BY <1>7
<1> DEFINE t == setting.announcements[b].streams[j]
<1>9. PartsOf(received, b, j) = Parts(received, t.base)
  BY DEF PartsOf, StreamCall
<1>10. t \in Range(setting.announcements[b].streams)
  BY DEF Range
<1> HIDE DEF t
<1>11. t.base = s.base
  BY <1>2, <1>8, <1>9, <1>10 DEF PathOf
<1> QED  BY <1>2, <1>4, <1>8, <1>9, <1>11 DEF PathOf

(* Whatever announcements come and however often each is read again, a     *)
(* stream receives where its newest SDP says, if that says everything.     *)
THEOREM NewestSdpIsRun == Spec => []NewestSdpRuns
<1>1. Init => PlanInv /\ SdpInv
  BY PlanInvInit DEF Init, SdpInv
<1>2. PlanInv /\ SdpInv /\ [Next]_vars => (PlanInv /\ SdpInv)'
  BY PlanStep, SdpStep
<1> QED  BY <1>1, <1>2, SdpInvImplies, PTL DEF Spec

(***************************************************************************)
(* The newest master.                                                      *)
(***************************************************************************)

(* A stream that has a source keeps it and its path when announcements     *)
(* come after it.                                                          *)
StreamsStay ==
  \A k \in 1 .. Len(setting.announcements) - 1 : \A a \in 1 .. k :
    \A i \in DOMAIN setting.announcements[a].streams :
      Starts(PartsOf(k, a, i)) =>
        Starts(PartsOf(k + 1, a, i)) /\ PathOf(k + 1, a, i) = PathOf(k, a, i)

(* The newest master's entries, and what a stream that it has, or has not, *)
(* has of it.                                                              *)
NewestEntries == Parse(NewestMaster, BasePath).streams
HasOf(entries, path, attributes) ==
  LET at == {i \in DOMAIN entries : entries[i].uri = path}
  IN  IF at = {} THEN attributes.resolution = <<>>
      ELSE attributes = entries[Max(at)].attributes

(* When a stream is next, the newest master has been read; and each stream *)
(* has what the newest master says, or is still to be started again.       *)
IsAnnounced(path) ==
  \E a \in 1 .. received : \E i \in DOMAIN setting.announcements[a].streams :
    /\ PathOf(received, a, i) = path /\ Starts(PartsOf(received, a, i))
    /\ \/ HasOf(NewestEntries, path, content_streams[path].attributes)
       \/ Ahead(plan, StreamCall(received, a, i))
MasterInv ==
  HLS => /\ StreamsStay
         /\ received = 0 => DOMAIN content_streams = {}
         /\ StreamsFollow(plan, MasterCall(received))
         /\ plan # <<>> /\ plan[1].call = "stream" => primary = NewestEntries
         /\ \A path \in DOMAIN content_streams : IsAnnounced(path)

LEMMA MasterInvImplies == MasterInv => AttributesOfNewestMaster
<1> SUFFICES ASSUME MasterInv, HLS, MainFree, received > 0, NEW p \in DOMAIN content_streams
             PROVE  HasOf(NewestEntries, p, content_streams[p].attributes)
  BY DEF AttributesOfNewestMaster, HasOf, NewestEntries, NewestMaster
<1> QED  BY DEF MasterInv, MainFree, IsAnnounced, Ahead

(* A stream that is started takes what the master that was read says.      *)
LEMMA StartedHas ==
  ASSUME HLS, primary \in Seq(PlaylistEntry(STRING)), NEW path, NEW bandwidth, NEW frame_rate
  PROVE  HasOf(primary, path, IF Matches(path) THEN LastMatch(path)
                              ELSE Uninitialised(bandwidth, frame_rate))
<1> DEFINE at == {i \in DOMAIN primary : primary[i].uri = path}
<1>1. CASE ~Matches(path)
  <2>1. at = {}
    BY <1>1 DEF Matches
  <2>2. Uninitialised(bandwidth, frame_rate).resolution = <<>>
    BY DEF Uninitialised, Unknown
  <2> QED  BY <1>1, <2>1, <2>2 DEF HasOf
<1>2. CASE Matches(path)
  <2>1. at # {}
    BY <1>2 DEF Matches
  <2>2. SelectLastInSeq(primary, LAMBDA s : s.uri = path) = Max(at)
    <3>1. DOMAIN primary = 1 .. Len(primary)
      OBVIOUS
    <3> QED  BY <2>1, <3>1 DEF SelectLastInSeq
  <2>3. LastMatch(path) = primary[Max(at)].attributes
    BY <2>2 DEF LastMatch
  <2> QED  BY <1>2, <2>1, <2>3 DEF HasOf
<1> QED  BY <1>1, <1>2

LEMMA NewestKept ==
  ASSUME setting' = setting, received' = received
  PROVE  /\ NewestEntries' = NewestEntries /\ MasterCall(received)' = MasterCall(received)
         /\ \A path, attributes : HasOf(NewestEntries, path, attributes)'
                                    <=> HasOf(NewestEntries, path, attributes)
<1>1. NewestEntries' = NewestEntries
  BY DEF NewestEntries, NewestMaster
<1>2. MasterCall(received)' = MasterCall(received)
  BY SettingKept
<1> QED  BY <1>1, <1>2 DEF HasOf

LEMMA StreamsStayKept == StreamsStay /\ setting' = setting => StreamsStay'
<1> SUFFICES ASSUME StreamsStay, setting' = setting,
                    NEW k \in 1 .. Len(setting.announcements) - 1, NEW a \in 1 .. k,
                    NEW i \in DOMAIN setting.announcements[a].streams
             PROVE  (Starts(PartsOf(k, a, i)) =>
                       /\ Starts(PartsOf(k + 1, a, i))
                       /\ PathOf(k + 1, a, i) = PathOf(k, a, i))'
  BY DEF StreamsStay
<1>1. Starts(PartsOf(k, a, i)) =>
        Starts(PartsOf(k + 1, a, i)) /\ PathOf(k + 1, a, i) = PathOf(k, a, i)
  BY DEF StreamsStay
<1>2. /\ Starts(PartsOf(k, a, i))' <=> Starts(PartsOf(k, a, i))
      /\ Starts(PartsOf(k + 1, a, i))' <=> Starts(PartsOf(k + 1, a, i))
      /\ PathOf(k, a, i)' = PathOf(k, a, i) /\ PathOf(k + 1, a, i)' = PathOf(k + 1, a, i)
  BY StreamsKept
<1> QED  BY <1>1, <1>2

(* What follows follows when the first call is done.                       *)
LEMMA TailFollows ==
  ASSUME NEW S, NEW p \in Seq(S), p # <<>>, NEW newest, StreamsFollow(p, newest)
  PROVE  /\ StreamsFollow(Tail(p), newest)
         /\ Tail(p) # <<>> /\ Tail(p)[1].call = "stream"
              => p[1].call = "stream" \/ p[1] = newest
<1>1. /\ Tail(p) \in Seq(S) /\ Len(p) \in Nat \ {0} /\ Len(Tail(p)) = Len(p) - 1
      /\ \A i \in 1 .. Len(Tail(p)) : Tail(p)[i] = p[i + 1] /\ i + 1 \in 1 .. Len(p)
  BY TailIs
<1>2. StreamsFollow(Tail(p), newest)
  <2> SUFFICES ASSUME NEW j \in 1 .. Len(Tail(p)), Tail(p)[j].call = "stream", j # 1
               PROVE  Tail(p)[j - 1].call = "stream" \/ Tail(p)[j - 1] = newest
    BY DEF StreamsFollow
  <2>1. /\ Tail(p)[j] = p[j + 1] /\ j + 1 \in 1 .. Len(p) /\ j + 1 # 1
        /\ j - 1 \in 1 .. Len(Tail(p)) /\ (j - 1) + 1 = j /\ (j + 1) - 1 = j
    <3>1. Tail(p)[j] = p[j + 1] /\ j + 1 \in 1 .. Len(p)
      BY <1>1
    <3>2. Len(Tail(p)) \in Nat
      BY <1>1
    <3> QED  BY <3>1, <3>2
  <2>2. Tail(p)[j - 1] = p[j]
    BY <1>1, <2>1
  <2>3. p[j].call = "stream" \/ p[j] = newest
    BY <2>1 DEF StreamsFollow
  <2> QED  BY <2>2, <2>3
<1>3. ASSUME Tail(p) # <<>>, Tail(p)[1].call = "stream"
      PROVE  p[1].call = "stream" \/ p[1] = newest
  <2>1. 1 \in 1 .. Len(Tail(p)) /\ 2 \in 1 .. Len(p) /\ Tail(p)[1] = p[2]
    <3>1. Len(Tail(p)) # 0
      BY <1>1, <1>3
    <3>2. 1 \in 1 .. Len(Tail(p))
      BY <1>1, <3>1
    <3> QED  BY <1>1, <3>2
  <2>2. p[2].call = "stream" /\ 2 # 1 /\ 2 - 1 = 1
    BY <1>3, <2>1
  <2> QED  BY <2>1, <2>2 DEF StreamsFollow
<1> QED  BY <1>2, <1>3

LEMMA MasterStep == PlanInv /\ MasterInv /\ [Next]_vars => MasterInv'
<1> SUFFICES ASSUME PlanInv, MasterInv, [Next]_vars, HLS' PROVE MasterInv'
  BY DEF MasterInv
<1>1. setting' = setting
  BY DEF Next, Receive, ReadMaster, Terminate, StartStream, FluteMpd, ClockTick, Expire,
         ExpireAtTurn, Find, TakeFirst, TakeSecond, Sent, UnchangedByGet, vars
<1>2. HLS /\ StreamsStay /\ StreamsStay' /\ setting \in Settings
  BY <1>1, StreamsStayKept DEF HLS, MasterInv, PlanInv
<1>3. ASSUME UNCHANGED <<received, plan, primary, content_streams>> PROVE MasterInv'
  <2>1. ASSUME NEW path \in DOMAIN content_streams PROVE IsAnnounced(path)'
    <3>1. IsAnnounced(path)
      BY <1>2 DEF MasterInv
    <3>2. PICK a \in 1 .. received : \E i \in DOMAIN setting.announcements[a].streams :
            /\ PathOf(received, a, i) = path /\ Starts(PartsOf(received, a, i))
            /\ \/ HasOf(NewestEntries, path, content_streams[path].attributes)
               \/ Ahead(plan, StreamCall(received, a, i))
      BY <3>1 DEF IsAnnounced
    <3>3. PICK i \in DOMAIN setting.announcements[a].streams :
            /\ PathOf(received, a, i) = path /\ Starts(PartsOf(received, a, i))
            /\ \/ HasOf(NewestEntries, path, content_streams[path].attributes)
               \/ Ahead(plan, StreamCall(received, a, i))
      BY <3>2
    <3>4. /\ PathOf(received, a, i)' = PathOf(received, a, i)
          /\ StreamCall(received, a, i)' = StreamCall(received, a, i)
          /\ Starts(PartsOf(received, a, i))' <=> Starts(PartsOf(received, a, i))
      BY <1>1, <1>3, StreamsKept
    <3>5. NewestEntries' = NewestEntries
      BY <1>1, <1>3, NewestKept
    <3> QED  BY <1>1, <1>3, <3>3, <3>4, <3>5 DEF IsAnnounced, Ahead, HasOf
  <2>2. /\ NewestEntries' = NewestEntries /\ MasterCall(received)' = MasterCall(received)
    BY <1>1, <1>3, NewestKept
  <2> QED  BY <1>2, <1>3, <2>1, <2>2 DEF MasterInv, StreamsFollow
<1>4. CASE Receive
  <2> DEFINE k == received + 1
  <2>1. /\ received' = k /\ plan' = Plan(k) /\ UNCHANGED <<primary, content_streams>>
        /\ k \in 1 .. Len(setting.announcements) /\ plan = <<>> /\ received \in Nat
        /\ Len(setting.announcements) \in Nat
    BY <1>2, <1>4, Announcements DEF Receive, MainFree, PlanInv
  <2> HIDE DEF k
  <2>2. /\ HasStreams(Plan(k), k, k) /\ StreamsFollow(Plan(k), MasterCall(k))
        /\ Plan(k)[1] = MasterCall(1)
    BY <1>2, <2>1, PlanHas, PlanIs
  <2>3. StreamsFollow(plan, MasterCall(received))'
    <3>1. MasterCall(received)' = MasterCall(k)
      BY <1>1, <2>1, SettingKept
    <3> QED  BY <2>1, <2>2, <3>1 DEF StreamsFollow
  <2>4. plan'[1].call = "master"
    BY <2>1, <2>2 DEF MasterCall
  <2>5. ASSUME NEW path \in DOMAIN content_streams PROVE IsAnnounced(path)'
    <3>1. received # 0 /\ IsAnnounced(path)
      BY <1>2, <2>5 DEF MasterInv
    <3>2. PICK a \in 1 .. received : \E i \in DOMAIN setting.announcements[a].streams :
            PathOf(received, a, i) = path /\ Starts(PartsOf(received, a, i))
      BY <3>1 DEF IsAnnounced
    <3>3. PICK i \in DOMAIN setting.announcements[a].streams :
            PathOf(received, a, i) = path /\ Starts(PartsOf(received, a, i))
      BY <3>2
    <3>4. received \in 1 .. Len(setting.announcements) - 1 /\ a \in 1 .. k
      BY <2>1, <3>1 DEF k
    <3>5. Starts(PartsOf(k, a, i)) /\ PathOf(k, a, i) = path
      BY <1>2, <3>3, <3>4 DEF StreamsStay, k
    <3>6. Ahead(Plan(k), StreamCall(k, a, i))
      BY <2>2, <3>4 DEF HasStreams, Ahead
    <3>7. /\ PathOf(received, a, i)' = path /\ Starts(PartsOf(received, a, i))'
          /\ StreamCall(received, a, i)' = StreamCall(k, a, i)
      BY <1>1, <2>1, <3>5, StreamsKept
    <3> QED  BY <1>1, <2>1, <3>4, <3>6, <3>7 DEF IsAnnounced, Ahead
  <2>6. received' # 0 /\ content_streams' = content_streams
    BY <2>1
  <2> QED  BY <1>2, <2>3, <2>4, <2>5, <2>6 DEF MasterInv
<1>5. ASSUME received' = received, received > 0, plan # <<>>, plan' = Tail(plan),
             plan[1].call = "stream" => primary' = primary,
             plan[1] = MasterCall(received) => primary' = NewestEntries,
             \A path \in DOMAIN content_streams' : IsAnnounced(path)'
      PROVE  MasterInv'
  <2>1. plan \in Seq(Calls(received)) /\ StreamsFollow(plan, MasterCall(received))
    BY <1>2, <1>5 DEF PlanInv, MasterInv
  <2>2. /\ StreamsFollow(Tail(plan), MasterCall(received))
        /\ Tail(plan) # <<>> /\ Tail(plan)[1].call = "stream"
             => plan[1].call = "stream" \/ plan[1] = MasterCall(received)
    BY <1>5, <2>1, TailFollows
  <2>3. NewestEntries' = NewestEntries /\ MasterCall(received)' = MasterCall(received)
    BY <1>1, <1>5, NewestKept
  <2>4. StreamsFollow(plan, MasterCall(received))'
    BY <1>5, <2>2, <2>3 DEF StreamsFollow
  <2>5. plan' # <<>> /\ plan'[1].call = "stream" => primary' = NewestEntries'
    BY <1>2, <1>5, <2>2, <2>3 DEF MasterInv
  <2> QED  BY <1>2, <1>5, <2>4, <2>5 DEF MasterInv
<1>6. ASSUME received' = received, received > 0, plan # <<>>, plan' = Tail(plan),
             NEW path \in DOMAIN content_streams, content_streams'[path] = content_streams[path],
             \A a, i : StreamCall(received, a, i) = plan[1] =>
               ~(PathOf(received, a, i) = path /\ Starts(PartsOf(received, a, i)))
      PROVE  IsAnnounced(path)'
  <2>1. IsAnnounced(path)
    BY <1>2 DEF MasterInv
  <2>2. PICK a \in 1 .. received : \E i \in DOMAIN setting.announcements[a].streams :
          /\ PathOf(received, a, i) = path /\ Starts(PartsOf(received, a, i))
          /\ \/ HasOf(NewestEntries, path, content_streams[path].attributes)
             \/ Ahead(plan, StreamCall(received, a, i))
    BY <2>1 DEF IsAnnounced
  <2>3. PICK i \in DOMAIN setting.announcements[a].streams :
          /\ PathOf(received, a, i) = path /\ Starts(PartsOf(received, a, i))
          /\ \/ HasOf(NewestEntries, path, content_streams[path].attributes)
             \/ Ahead(plan, StreamCall(received, a, i))
    BY <2>2
  <2>4. /\ PathOf(received, a, i)' = PathOf(received, a, i)
        /\ StreamCall(received, a, i)' = StreamCall(received, a, i)
        /\ Starts(PartsOf(received, a, i))' <=> Starts(PartsOf(received, a, i))
        /\ NewestEntries' = NewestEntries
    BY <1>1, <1>6, StreamsKept, NewestKept
  <2>5. plan \in Seq(Calls(received))
    BY <1>6 DEF PlanInv
  <2>6. Ahead(plan, StreamCall(received, a, i)) => Ahead(Tail(plan), StreamCall(received, a, i))
    <3>1. plan[1] # StreamCall(received, a, i)
      BY <1>6, <2>3
    <3> QED  BY <1>6, <2>5, <3>1, StillAhead
  <2> QED  BY <1>1, <1>6, <2>3, <2>4, <2>6 DEF IsAnnounced, Ahead, HasOf
<1>7. CASE ReadMaster
  <2>1. CASE Terminate
    BY <1>3, <2>1 DEF Terminate
  <2>2. CASE ~(HLS /\ Parse(plan[1].text, BasePath).threw)
    <3>1. /\ plan # <<>> /\ plan[1].call = "master" /\ received > 0 /\ plan' = Tail(plan)
          /\ UNCHANGED <<received, content_streams>>
          /\ primary' = Parse(plan[1].text, BasePath).streams
      BY <1>2, <1>7, <2>2 DEF ReadMaster, PlanInv
    <3>2. plan[1] = MasterCall(received) => primary' = NewestEntries
      BY <3>1 DEF MasterCall, NewestEntries, NewestMaster
    <3>3. \A a, i : StreamCall(received, a, i) # plan[1]
      BY <3>1 DEF StreamCall
    <3>4. \A path \in DOMAIN content_streams : IsAnnounced(path)'
      BY <1>6, <3>1, <3>3
    <3> QED  BY <1>5, <3>1, <3>2, <3>4
  <2> QED  BY <1>7, <2>1, <2>2 DEF ReadMaster
<1>8. ASSUME NEW bandwidth, NEW frame_rate, StartStream(bandwidth, frame_rate)
      PROVE  MasterInv'
  <2> DEFINE c == plan[1]
             q == PlaylistPath(c.parts)
             attributes == IF Matches(q) THEN LastMatch(q)
                           ELSE Uninitialised(bandwidth, frame_rate)
             value == [attributes |-> attributes, session |-> SessionOf(c.parts)]
  <2>1. /\ plan # <<>> /\ c.call = "stream" /\ received > 0
        /\ received \in 1 .. Len(setting.announcements) /\ plan \in Seq(Calls(received))
    BY <1>8 DEF StartStream, PlanInv
  <2>2. \E b \in 1 .. received : \E j \in DOMAIN setting.announcements[b].streams :
          c.parts = PartsOf(received, b, j)
    <3>1. c \in Calls(received)
      BY <2>1
    <3> QED  BY <1>2, <2>1, <3>1, CallTypes DEF PartsOf, StreamCall
  <2>3. c # MasterCall(received)
    BY <2>1 DEF MasterCall
  <2>4. CASE Unreadable(c.parts)
    BY <1>3, <1>8, <2>4 DEF StartStream, Terminate
  <2>5. CASE ~Unreadable(c.parts) /\ ~Starts(c.parts)
    <3>1. /\ plan' = Tail(plan) /\ UNCHANGED <<received, primary, content_streams>>
      BY <1>8, <2>5 DEF StartStream, Starts
    <3>2. \A a, i : StreamCall(received, a, i) = plan[1] => ~Starts(PartsOf(received, a, i))
      BY <2>5 DEF PartsOf
    <3>3. \A path \in DOMAIN content_streams : IsAnnounced(path)'
      BY <1>6, <2>1, <3>1, <3>2
    <3> QED  BY <1>5, <2>1, <2>3, <3>1, <3>3
  <2>6. CASE ~Unreadable(c.parts) /\ Starts(c.parts)
    <3>1. /\ plan' = Tail(plan) /\ UNCHANGED <<received, primary>>
          /\ DOMAIN content_streams' = DOMAIN content_streams \cup {q}
          /\ content_streams'[q].attributes = attributes
          /\ \A p \in DOMAIN content_streams : p # q => content_streams'[p] = content_streams[p]
      <4>1. /\ plan' = Tail(plan) /\ UNCHANGED <<received, primary>>
            /\ content_streams' = [p \in DOMAIN content_streams \cup {q} |->
                                     IF p = q THEN value ELSE content_streams[p]]
        BY <1>8, <2>6 DEF StartStream, Starts
      <4>2. value.attributes = attributes
        OBVIOUS
      <4> HIDE DEF q, value, attributes
      <4> QED  BY <4>1, <4>2
    <3>2. primary = NewestEntries /\ primary \in Seq(PlaylistEntry(STRING))
      <4>1. primary = NewestEntries
        BY <1>2, <2>1 DEF MasterInv
      <4>2. NewestMaster \in PlaylistTexts /\ BasePath \in Text(STRING)
        <5>1. MasterCall(received) \in Calls(received)
          BY <2>1 DEF Calls
        <5>2. MasterCall(received).call = "master" /\ MasterCall(received).text = NewestMaster
          BY DEF MasterCall, NewestMaster
        <5> QED  BY <1>2, <2>1, <5>1, <5>2, CallTypes, ConstantsAssumption DEF Text
      <4>3. Parse(NewestMaster, BasePath) \in LinesParsed(STRING)
        BY <4>2, ParseType, StringTexts
      <4> QED  BY <4>1, <4>3 DEF LinesParsed, NewestEntries
    <3>3. HasOf(NewestEntries, q, attributes)
      BY <1>2, <3>2, StartedHas
    <3> HIDE DEF q, attributes
    <3>4. ASSUME NEW path, path = q PROVE IsAnnounced(path)'
      <4>1. PICK b \in 1 .. received : \E j \in DOMAIN setting.announcements[b].streams :
              c.parts = PartsOf(received, b, j)
        BY <2>2
      <4>2. PICK j \in DOMAIN setting.announcements[b].streams :
              c.parts = PartsOf(received, b, j)
        BY <4>1
      <4>3. PathOf(received, b, j) = path /\ Starts(PartsOf(received, b, j))
        BY <2>6, <3>4, <4>2 DEF PathOf, q
      <4>4. /\ PathOf(received, b, j)' = PathOf(received, b, j)
            /\ Starts(PartsOf(received, b, j))' <=> Starts(PartsOf(received, b, j))
            /\ NewestEntries' = NewestEntries
        BY <1>1, <3>1, StreamsKept, NewestKept
      <4> QED  BY <1>1, <3>1, <3>3, <3>4, <4>2, <4>3, <4>4 DEF IsAnnounced, HasOf
    <3>5. ASSUME NEW path \in DOMAIN content_streams, path # q PROVE IsAnnounced(path)'
      <4>1. \A a, i : StreamCall(received, a, i) = plan[1] => PathOf(received, a, i) # path
        BY <3>5 DEF PathOf, PartsOf, q
      <4> QED  BY <1>6, <2>1, <3>1, <3>5, <4>1
    <3> QED  BY <1>5, <2>1, <2>3, <3>1, <3>4, <3>5
  <2> QED  BY <2>4, <2>5, <2>6
<1>9. CASE ClockTick \/ Expire \/ ExpireAtTurn
  BY <1>3, <1>9 DEF ClockTick, Expire, ExpireAtTurn
<1>10. ASSUME NEW mpd, FluteMpd(mpd) PROVE MasterInv'
  BY <1>3, <1>10 DEF FluteMpd
<1>11. CASE Find \/ TakeFirst("buffer") \/ TakeFirst("length") \/ TakeSecond \/ Sent
  BY <1>3, <1>11 DEF Find, TakeFirst, TakeSecond, Sent, UnchangedByGet
<1>12. CASE UNCHANGED vars
  BY <1>3, <1>12 DEF vars
<1> QED  BY <1>4, <1>7, <1>8, <1>9, <1>10, <1>11, <1>12 DEF Next

(* All streams have the attributes of the newest master, those of earlier  *)
(* announcements too, if they keep their paths and their sources.          *)
THEOREM AllHaveNewestAttributes == Spec /\ StreamsStay => []AttributesOfNewestMaster
<1>1. Init /\ StreamsStay => PlanInv /\ MasterInv
  BY PlanInvInit DEF Init, MasterInv, StreamsFollow
<1>2. PlanInv /\ MasterInv /\ [Next]_vars => (PlanInv /\ MasterInv)'
  BY PlanStep, MasterStep
<1> QED  BY <1>1, <1>2, MasterInvImplies, PTL DEF Spec

(***************************************************************************)
(* What is written is read back.                                           *)
(***************************************************************************)

(* The tokens of a manifest, besides those of paths and attributes.        *)
Marks == {"#EXTM3U", "#EXT-X-VERSION", "#EXT-X-STREAM-INF", "uri", ":", "3", "BANDWITH", "=",
          ",", "RESOLUTION", "FRAME-RATE", "CODECS", Quote, "/"}
WrittenTokens == STRING \cup Numeral \cup Marks

(* A part s of a sequence, after the first m elements.                     *)
PieceAt(f, m, s) ==
  /\ m \in Nat /\ Len(s) \in Nat /\ m + Len(s) =< Len(f)
  /\ \A i \in 1 .. Len(s) : f[m + i] = s[i]

(* The parts of two sequences are parts of their concatenation.            *)
LEMMA PieceConcat ==
  ASSUME NEW S, NEW f \in Seq(S), NEW g \in Seq(S)
  PROVE  /\ f \o g \in Seq(S) /\ Len(f \o g) = Len(f) + Len(g)
         /\ Len(f) \in Nat /\ Len(g) \in Nat
         /\ PieceAt(f \o g, 0, f) /\ PieceAt(f \o g, Len(f), g)
         /\ \A m, s : PieceAt(f, m, s) => PieceAt(f \o g, m, s)
<1> DEFINE h == f \o g
<1>1. /\ h \in Seq(S) /\ Len(f) \in Nat /\ Len(g) \in Nat /\ Len(h) = Len(f) + Len(g)
      /\ \A k \in 1 .. Len(f) : h[k] = f[k]
      /\ \A k \in 1 .. Len(g) : h[Len(f) + k] = g[k]
  BY Concat
<1> HIDE DEF h
<1>2. PieceAt(h, 0, f)
  <2>1. \A i \in 1 .. Len(f) : 0 + i = i
    BY <1>1
  <2> QED  BY <1>1, <2>1 DEF PieceAt
<1>3. PieceAt(h, Len(f), g)
  BY <1>1 DEF PieceAt
<1>4. ASSUME NEW m, NEW s, PieceAt(f, m, s) PROVE PieceAt(h, m, s)
  <2>1. /\ m \in Nat /\ Len(s) \in Nat /\ m + Len(s) =< Len(f)
        /\ \A i \in 1 .. Len(s) : f[m + i] = s[i]
    BY <1>4 DEF PieceAt
  <2>2. \A i \in 1 .. Len(s) : m + i \in 1 .. Len(f)
    BY <1>1, <2>1
  <2> QED  BY <1>1, <2>1, <2>2 DEF PieceAt
<1> QED  BY <1>1, <1>2, <1>3, <1>4 DEF h

(* Short sequences.                                                        *)
LEMMA Tuples ==
  ASSUME NEW S, NEW x \in S, NEW y \in S, NEW z \in S
  PROVE  /\ <<x>> \in Seq(S) /\ Len(<<x>>) = 1
         /\ <<x, y, z>> \in Seq(S) /\ Len(<<x, y, z>>) = 3
         /\ \A w \in S : <<x, y, z, w>> \in Seq(S) /\ Len(<<x, y, z, w>>) = 4
OBVIOUS

(* The line of a stream.                                                   *)
Bandwidth(a) == <<":", "BANDWITH", "=", a.bandwidth>>
FrameRate(a) == <<",", "FRAME-RATE", "=", Fixed[a.frame_rate]>>
Resolution == <<",", "RESOLUTION", "=">>
Codecs == <<",", "CODECS", "=">>

(* What to_string writes for a stream, part by part.                       *)
LEMMA StreamInfPieces ==
  ASSUME NEW W, Marks \subseteq W, Numeral \subseteq W, NEW a \in AttributesOf(W)
  PROVE  LET text == StreamInf(a).text
             r    == Len(a.resolution)
             c    == Len(a.codecs)
         IN  /\ text \in Text(W) /\ r \in Nat /\ c \in Nat /\ Len(text) = 16 + r + c
             /\ PieceAt(text, 0, Bandwidth(a)) /\ PieceAt(text, 4, Resolution)
             /\ PieceAt(text, 7, a.resolution) /\ PieceAt(text, 7 + r, FrameRate(a))
             /\ PieceAt(text, 11 + r, Codecs) /\ PieceAt(text, 14 + r, <<Quote>>)
             /\ PieceAt(text, 15 + r, a.codecs) /\ PieceAt(text, 15 + r + c, <<Quote>>)
<1> DEFINE res == a.resolution
           cod == a.codecs
           r == Len(res)
           c == Len(cod)
           s1 == Bandwidth(a) \o Resolution
           s2 == s1 \o res
           s3 == s2 \o FrameRate(a)
           s4 == s3 \o Codecs
           q1 == <<Quote>> \o cod
           q2 == q1 \o <<Quote>>
           s5 == s4 \o q2
<1>1. /\ ":" \in W /\ "BANDWITH" \in W /\ "=" \in W /\ "," \in W /\ "RESOLUTION" \in W
      /\ "FRAME-RATE" \in W /\ "CODECS" \in W /\ Quote \in W
  BY DEF Marks
<1>2. a.bandwidth \in W /\ Fixed[a.frame_rate] \in W
  BY NumeralAssumption DEF AttributesOf
<1>3. res \in Seq(W) /\ cod \in Seq(W)
  BY DEF AttributesOf, Text, ValueTokens
<1>4. /\ Bandwidth(a) \in Seq(W) /\ Len(Bandwidth(a)) = 4
      /\ FrameRate(a) \in Seq(W) /\ Len(FrameRate(a)) = 4
  BY <1>1, <1>2, Tuples DEF Bandwidth, FrameRate
<1>5. /\ Resolution \in Seq(W) /\ Len(Resolution) = 3
      /\ Codecs \in Seq(W) /\ Len(Codecs) = 3
      /\ <<Quote>> \in Seq(W) /\ Len(<<Quote>>) = 1
  BY <1>1, Tuples DEF Resolution, Codecs
<1>6. StreamInf(a).text = s5
  BY DEF StreamInf, Line, Quoted, Bandwidth, Resolution, FrameRate, Codecs
<1> HIDE DEF res, cod
<1>7. /\ s1 \in Seq(W) /\ Len(s1) = 7
      /\ PieceAt(s1, 0, Bandwidth(a)) /\ PieceAt(s1, 4, Resolution)
  <2>1. Bandwidth(a) \in Seq(W) /\ Resolution \in Seq(W)
    BY <1>4, <1>5
  <2>2. /\ s1 \in Seq(W) /\ Len(s1) = Len(Bandwidth(a)) + Len(Resolution) /\ Len(Resolution) \in Nat
        /\ PieceAt(s1, 0, Bandwidth(a)) /\ PieceAt(s1, Len(Bandwidth(a)), Resolution)
        /\ \A m, s : PieceAt(Bandwidth(a), m, s) => PieceAt(s1, m, s)
    BY ONLY <2>1, PieceConcat DEF s1
  <2> HIDE DEF s1
  <2> QED  BY <1>4, <1>5, <2>2
<1> HIDE DEF s1
<1>8. /\ s2 \in Seq(W) /\ Len(s2) = 7 + r /\ r \in Nat
      /\ \A m, s : PieceAt(s1, m, s) => PieceAt(s2, m, s)
      /\ PieceAt(s2, 7, res)
  <2>1. s1 \in Seq(W) /\ res \in Seq(W)
    BY <1>3, <1>7
  <2>2. /\ s2 \in Seq(W) /\ Len(s2) = Len(s1) + Len(res) /\ Len(res) \in Nat
        /\ PieceAt(s2, 0, s1) /\ PieceAt(s2, Len(s1), res)
        /\ \A m, s : PieceAt(s1, m, s) => PieceAt(s2, m, s)
    BY ONLY <2>1, PieceConcat DEF s2
  <2> HIDE DEF s2
  <2> QED  BY <1>3, <1>7, <2>2
<1> HIDE DEF s2
<1>9. /\ s3 \in Seq(W) /\ Len(s3) = 11 + r
      /\ \A m, s : PieceAt(s2, m, s) => PieceAt(s3, m, s)
      /\ PieceAt(s3, 7 + r, FrameRate(a))
  <2>1. s2 \in Seq(W) /\ FrameRate(a) \in Seq(W)
    BY <1>4, <1>8
  <2>2. /\ s3 \in Seq(W) /\ Len(s3) = Len(s2) + Len(FrameRate(a)) /\ Len(FrameRate(a)) \in Nat
        /\ PieceAt(s3, 0, s2) /\ PieceAt(s3, Len(s2), FrameRate(a))
        /\ \A m, s : PieceAt(s2, m, s) => PieceAt(s3, m, s)
    BY ONLY <2>1, PieceConcat DEF s3
  <2> HIDE DEF s3
  <2> QED  BY <1>4, <1>8, <2>2
<1> HIDE DEF s3
<1>10. /\ s4 \in Seq(W) /\ Len(s4) = 14 + r
       /\ \A m, s : PieceAt(s3, m, s) => PieceAt(s4, m, s)
       /\ PieceAt(s4, 11 + r, Codecs)
  <2>1. s3 \in Seq(W) /\ Codecs \in Seq(W)
    BY <1>5, <1>8, <1>9
  <2>2. /\ s4 \in Seq(W) /\ Len(s4) = Len(s3) + Len(Codecs) /\ Len(Codecs) \in Nat
        /\ PieceAt(s4, 0, s3) /\ PieceAt(s4, Len(s3), Codecs)
        /\ \A m, s : PieceAt(s3, m, s) => PieceAt(s4, m, s)
    BY ONLY <2>1, PieceConcat DEF s4
  <2> HIDE DEF s4
  <2> QED  BY <1>5, <1>8, <1>9, <2>2
<1> HIDE DEF s4
<1>11. /\ q1 \in Seq(W) /\ Len(q1) = 1 + c /\ c \in Nat
       /\ PieceAt(q1, 0, <<Quote>>) /\ PieceAt(q1, 1, cod)
  <2>1. <<Quote>> \in Seq(W) /\ cod \in Seq(W)
    BY <1>3, <1>5
  <2>2. /\ q1 \in Seq(W) /\ Len(q1) = Len(<<Quote>>) + Len(cod) /\ Len(cod) \in Nat
        /\ PieceAt(q1, 0, <<Quote>>) /\ PieceAt(q1, Len(<<Quote>>), cod)
        /\ \A m, s : PieceAt(<<Quote>>, m, s) => PieceAt(q1, m, s)
    BY ONLY <2>1, PieceConcat DEF q1
  <2> HIDE DEF q1
  <2> QED  BY <1>3, <1>5, <2>2
<1> HIDE DEF q1
<1>12. /\ q2 \in Seq(W) /\ Len(q2) = 2 + c
       /\ PieceAt(q2, 0, <<Quote>>) /\ PieceAt(q2, 1, cod) /\ PieceAt(q2, 1 + c, <<Quote>>)
  <2>1. q1 \in Seq(W) /\ <<Quote>> \in Seq(W)
    BY <1>5, <1>11
  <2>2. /\ q2 \in Seq(W) /\ Len(q2) = Len(q1) + Len(<<Quote>>) /\ Len(<<Quote>>) \in Nat
        /\ PieceAt(q2, 0, q1) /\ PieceAt(q2, Len(q1), <<Quote>>)
        /\ \A m, s : PieceAt(q1, m, s) => PieceAt(q2, m, s)
    BY ONLY <2>1, PieceConcat DEF q2
  <2> HIDE DEF q2
  <2> QED  BY <1>5, <1>11, <2>2
<1> HIDE DEF q2
<1>13. /\ s5 \in Seq(W) /\ Len(s5) = 16 + r + c
       /\ \A m, s : PieceAt(s4, m, s) => PieceAt(s5, m, s)
       /\ PieceAt(s5, 14 + r, q2)
  <2>1. s4 \in Seq(W) /\ q2 \in Seq(W)
    BY <1>8, <1>10, <1>11, <1>12
  <2>2. /\ s5 \in Seq(W) /\ Len(s5) = Len(s4) + Len(q2) /\ Len(q2) \in Nat
        /\ PieceAt(s5, 0, s4) /\ PieceAt(s5, Len(s4), q2)
        /\ \A m, s : PieceAt(s4, m, s) => PieceAt(s5, m, s)
    BY ONLY <2>1, PieceConcat DEF s5
  <2> HIDE DEF s5
  <2> QED  BY <1>8, <1>10, <1>11, <1>12, <2>2
<1> HIDE DEF s5
<1>14. ASSUME NEW m \in Nat, NEW s, PieceAt(q2, m, s) PROVE PieceAt(s5, 14 + r + m, s)
  <2>1. /\ Len(s) \in Nat /\ m + Len(s) =< 2 + c
        /\ \A i \in 1 .. Len(s) : q2[m + i] = s[i]
    BY <1>12, <1>14 DEF PieceAt
  <2>2. \A i \in 1 .. 2 + c : s5[14 + r + i] = q2[i]
    BY <1>12, <1>13 DEF PieceAt
  <2>3. \A i \in 1 .. Len(s) : m + i \in 1 .. 2 + c /\ 14 + r + (m + i) = 14 + r + m + i
    BY <1>8, <1>11, <2>1
  <2>4. \A i \in 1 .. Len(s) : s5[14 + r + m + i] = s[i]
    BY <2>1, <2>2, <2>3
  <2>5. 14 + r + m \in Nat /\ 14 + r + m + Len(s) =< Len(s5)
    BY <1>8, <1>11, <1>13, <2>1
  <2> QED  BY <2>1, <2>4, <2>5 DEF PieceAt
<1>15. /\ PieceAt(s5, 14 + r, <<Quote>>) /\ PieceAt(s5, 15 + r, cod)
       /\ PieceAt(s5, 15 + r + c, <<Quote>>)
  <2>1. PieceAt(s5, 14 + r + 0, <<Quote>>) /\ PieceAt(s5, 14 + r + 1, cod)
        /\ PieceAt(s5, 14 + r + (1 + c), <<Quote>>)
    <3>1. 1 + c \in Nat
      BY <1>11
    <3> QED  BY <1>12, <1>14, <3>1
  <2>2. 14 + r + 0 = 14 + r /\ 14 + r + 1 = 15 + r /\ 14 + r + (1 + c) = 15 + r + c
    BY <1>8, <1>11
  <2> QED  BY <2>1, <2>2
<1>16. /\ PieceAt(s5, 0, Bandwidth(a)) /\ PieceAt(s5, 4, Resolution) /\ PieceAt(s5, 7, res)
       /\ PieceAt(s5, 7 + r, FrameRate(a)) /\ PieceAt(s5, 11 + r, Codecs)
  BY <1>7, <1>8, <1>9, <1>10, <1>13
<1> QED  BY <1>6, <1>8, <1>11, <1>13, <1>15, <1>16 DEF res, cod, Text

(* What follows its only colon.                                            *)
Written(a) == <<"BANDWITH", "=", a.bandwidth>>

(* What the parser looks at of it: all after the only ':', since there is  *)
(* none in the attributes.                                                 *)
LEMMA AfterColonPieces ==
  ASSUME NEW W, Marks \subseteq W, Numeral \subseteq W, NEW a \in AttributesOf(W)
  PROVE  LET list == AfterColon(StreamInf(a))
             r    == Len(a.resolution)
             c    == Len(a.codecs)
         IN  /\ HasColon(StreamInf(a)) /\ list \in Text(W \ {":"})
             /\ r \in Nat /\ c \in Nat /\ Len(list) = 15 + r + c
             /\ PieceAt(list, 0, Written(a)) /\ PieceAt(list, 3, Resolution)
             /\ PieceAt(list, 6, a.resolution) /\ PieceAt(list, 6 + r, FrameRate(a))
             /\ PieceAt(list, 10 + r, Codecs) /\ PieceAt(list, 13 + r, <<Quote>>)
             /\ PieceAt(list, 14 + r, a.codecs) /\ PieceAt(list, 14 + r + c, <<Quote>>)
<1> DEFINE res == a.resolution
           cod == a.codecs
           r == Len(res)
           c == Len(cod)
           text == StreamInf(a).text
           n == Len(text)
           colons == {i \in 1 .. n : text[i] = ":"}
           list == AfterColon(StreamInf(a))
<1>1. /\ text \in Text(W) /\ r \in Nat /\ c \in Nat /\ n = 16 + r + c
      /\ PieceAt(text, 0, Bandwidth(a)) /\ PieceAt(text, 4, Resolution)
      /\ PieceAt(text, 7, res) /\ PieceAt(text, 7 + r, FrameRate(a))
      /\ PieceAt(text, 11 + r, Codecs) /\ PieceAt(text, 14 + r, <<Quote>>)
      /\ PieceAt(text, 15 + r, cod) /\ PieceAt(text, 15 + r + c, <<Quote>>)
  BY StreamInfPieces
<1>2. SelectLastInSeq(text, LAMBDA t : t = ":") = IF colons # {} THEN Max(colons) ELSE 0
  BY DEF SelectLastInSeq
<1>3. list = SubSeq(text, SelectLastInSeq(text, LAMBDA t : t = ":") + 1, n)
  BY DEF AfterColon
<1>4. list \in Text(W \ {":"})
  BY <1>1, AfterColonType
<1>5. HasColon(StreamInf(a)) <=> \E i \in 1 .. n : text[i] = ":"
  <2>1. text \in Seq(W)
    BY <1>1 DEF Text
  <2>2. HasColon(StreamInf(a)) <=> \E i \in DOMAIN text : text[i] = ":"
    <3>1. HasColon(StreamInf(a)) <=> Contains(text, ":")
      BY DEF HasColon
    <3> HIDE DEF text
    <3> QED  BY <3>1 DEF Contains
  <2> HIDE DEF text
  <2>3. DOMAIN text = 1 .. n
    BY <2>1
  <2> QED  BY <2>2, <2>3
<1>6. /\ res \in Seq(ValueTokens(W)) /\ cod \in Seq(ValueTokens(W))
      /\ a.bandwidth \in Numeral /\ Fixed[a.frame_rate] \in Numeral
  BY NumeralAssumption DEF AttributesOf, Text
<1>7. /\ \A i \in 1 .. r : res[i] # ":"
      /\ \A i \in 1 .. c : cod[i] # ":"
      /\ a.bandwidth # ":" /\ Fixed[a.frame_rate] # ":"
  <2>1. \A i \in 1 .. r : res[i] \in ValueTokens(W)
    BY <1>6
  <2>2. \A i \in 1 .. c : cod[i] \in ValueTokens(W)
    BY <1>6
  <2>3. ":" \notin Numeral
    BY PunctuationAssumption
  <2> HIDE DEF res, cod
  <2> QED  BY <1>6, <2>1, <2>2, <2>3 DEF ValueTokens
<1> HIDE DEF res, cod, text, list
<1>8. /\ text[1] = ":" /\ text[2] # ":" /\ text[3] # ":" /\ text[4] = a.bandwidth
      /\ text[2] = "BANDWITH" /\ text[3] = "="
  <2>1. Len(Bandwidth(a)) = 4 /\ Bandwidth(a)[1] = ":" /\ Bandwidth(a)[2] = "BANDWITH"
        /\ Bandwidth(a)[3] = "=" /\ Bandwidth(a)[4] = a.bandwidth
    BY DEF Bandwidth
  <2>2. \A i \in 1 .. 4 : text[0 + i] = Bandwidth(a)[i]
    BY <1>1, <2>1 DEF PieceAt
  <2>3. text[1] = ":" /\ text[2] = "BANDWITH" /\ text[3] = "=" /\ text[4] = a.bandwidth
    BY <2>1, <2>2
  <2> QED  BY <2>3
<1>9. \A i \in 5 .. 7 : text[i] # ":"
  <2>1. Len(Resolution) = 3 /\ \A i \in 1 .. 3 : Resolution[i] # ":"
    BY DEF Resolution
  <2>2. \A i \in 1 .. 3 : text[4 + i] # ":"
    BY <1>1, <2>1 DEF PieceAt
  <2>3. \A i \in 5 .. 7 : i - 4 \in 1 .. 3 /\ 4 + (i - 4) = i
    OBVIOUS
  <2> QED  BY <2>2, <2>3
<1>10. \A i \in 8 .. 7 + r : text[i] # ":"
  <2>1. \A i \in 1 .. r : text[7 + i] # ":"
    BY <1>1, <1>7 DEF PieceAt
  <2>2. \A i \in 8 .. 7 + r : i - 7 \in 1 .. r /\ 7 + (i - 7) = i
    BY <1>1
  <2> QED  BY <2>1, <2>2
<1>11. \A i \in 8 + r .. 11 + r : text[i] # ":"
  <2>1. Len(FrameRate(a)) = 4 /\ \A i \in 1 .. 4 : FrameRate(a)[i] # ":"
    BY <1>7 DEF FrameRate
  <2>2. \A i \in 1 .. 4 : text[7 + r + i] # ":"
    BY <1>1, <2>1 DEF PieceAt
  <2>3. \A i \in 8 + r .. 11 + r : i - (7 + r) \in 1 .. 4 /\ 7 + r + (i - (7 + r)) = i
    BY <1>1
  <2> QED  BY <2>2, <2>3
<1>12. \A i \in 12 + r .. 14 + r : text[i] # ":"
  <2>1. Len(Codecs) = 3 /\ \A i \in 1 .. 3 : Codecs[i] # ":"
    BY DEF Codecs
  <2>2. \A i \in 1 .. 3 : text[11 + r + i] # ":"
    BY <1>1, <2>1 DEF PieceAt
  <2>3. \A i \in 12 + r .. 14 + r : i - (11 + r) \in 1 .. 3 /\ 11 + r + (i - (11 + r)) = i
    BY <1>1
  <2> QED  BY <2>2, <2>3
<1>13. text[15 + r] # ":" /\ text[16 + r + c] # ":"
  <2>1. Len(<<Quote>>) = 1 /\ <<Quote>>[1] # ":"
    BY DEF Quote
  <2>2. 1 \in 1 .. Len(<<Quote>>)
    BY <2>1
  <2>3. text[14 + r + 1] # ":" /\ text[15 + r + c + 1] # ":"
    BY <1>1, <2>1, <2>2 DEF PieceAt
  <2>4. 14 + r + 1 = 15 + r /\ 15 + r + c + 1 = 16 + r + c
    BY <1>1
  <2> QED  BY <2>3, <2>4
<1>14. \A i \in 16 + r .. 15 + r + c : text[i] # ":"
  <2>1. \A i \in 1 .. c : text[15 + r + i] # ":"
    BY <1>1, <1>7 DEF PieceAt
  <2>2. \A i \in 16 + r .. 15 + r + c : i - (15 + r) \in 1 .. c /\ 15 + r + (i - (15 + r)) = i
    BY <1>1
  <2> QED  BY <2>1, <2>2
<1>15. \A i \in 1 .. n : text[i] = ":" <=> i = 1
  <2> SUFFICES ASSUME NEW i \in 1 .. n, i # 1 PROVE text[i] # ":"
    BY <1>8
  <2>1. \/ i = 2 \/ i = 3 \/ i = 4 \/ i \in 5 .. 7 \/ i \in 8 .. 7 + r \/ i \in 8 + r .. 11 + r
        \/ i \in 12 + r .. 14 + r \/ i = 15 + r \/ i \in 16 + r .. 15 + r + c \/ i = 16 + r + c
    BY <1>1
  <2> QED  BY <1>7, <1>8, <1>9, <1>10, <1>11, <1>12, <1>13, <1>14, <2>1
<1>16. colons = {1} /\ 1 \in 1 .. n
  <2>1. n \in Nat /\ n >= 16
    BY <1>1
  <2> HIDE DEF n
  <2> QED  BY <1>15, <2>1
<1>17. Max(colons) = 1
  <2>1. {1} \in SUBSET (1 .. 1) /\ 1 \in {1} /\ 1 \in Nat
    OBVIOUS
  <2>2. Max({1}) = 1
    BY <2>1, MaxOf
  <2> HIDE DEF colons
  <2> QED  BY <1>16, <2>2
<1>18. list = SubSeq(text, 2, n)
  <2> HIDE DEF colons
  <2>1. colons # {}
    BY <1>16
  <2> QED  BY <1>2, <1>3, <1>17, <2>1
<1>19. Len(list) = 15 + r + c /\ \A i \in 1 .. 15 + r + c : list[i] = text[1 + i]
  <2>1. n = 16 + r + c /\ text \in Seq(W)
    BY <1>1 DEF Text
  <2>2. 2 \in 1 .. n + 1 /\ n \in 1 .. n
    BY <1>1
  <2>3. Len(list) = 15 + r + c
    BY <1>1, <1>18, <2>1
  <2>4. \A i \in 1 .. 15 + r + c : list[i] = text[2 + i - 1] /\ 2 + i - 1 = 1 + i
    BY <1>1, <1>18, <2>1
  <2> QED  BY <2>3, <2>4
<1> HIDE DEF n
<1>20. ASSUME NEW m \in Nat, NEW s, PieceAt(text, 1 + m, s) PROVE PieceAt(list, m, s)
  <2>1. /\ Len(s) \in Nat /\ 1 + m + Len(s) =< 16 + r + c
        /\ \A i \in 1 .. Len(s) : text[1 + m + i] = s[i]
    BY <1>1, <1>20 DEF PieceAt, n
  <2>2. \A i \in 1 .. Len(s) : m + i \in 1 .. 15 + r + c /\ 1 + (m + i) = 1 + m + i
    BY <1>1, <2>1
  <2>3. m + Len(s) =< Len(list)
    BY <1>1, <1>19, <2>1
  <2> QED  BY <1>19, <2>1, <2>2, <2>3 DEF PieceAt
<1>21. PieceAt(list, 0, Written(a))
  <2>1. Len(Written(a)) = 3 /\ Written(a)[1] = "BANDWITH" /\ Written(a)[2] = "="
        /\ Written(a)[3] = a.bandwidth
    BY DEF Written
  <2>2. list[1] = text[2] /\ list[2] = text[3] /\ list[3] = text[4]
    <3>1. 1 \in 1 .. 15 + r + c /\ 2 \in 1 .. 15 + r + c /\ 3 \in 1 .. 15 + r + c
      BY <1>1
    <3>2. 1 + 1 = 2 /\ 1 + 2 = 3 /\ 1 + 3 = 4
      OBVIOUS
    <3> QED  BY <1>19, <3>1, <3>2
  <2>3. \A i \in 1 .. 3 : list[i] = Written(a)[i]
    <3>1. \A i \in 1 .. 3 : i = 1 \/ i = 2 \/ i = 3
      OBVIOUS
    <3> QED  BY <1>8, <2>1, <2>2, <3>1
  <2>4. \A i \in 1 .. 3 : 0 + i = i
    OBVIOUS
  <2>5. 0 + 3 =< Len(list)
    BY <1>1, <1>19
  <2> QED  BY <2>1, <2>3, <2>4, <2>5 DEF PieceAt
<1>22. /\ PieceAt(list, 3, Resolution) /\ PieceAt(list, 6, res) /\ PieceAt(list, 6 + r, FrameRate(a))
       /\ PieceAt(list, 10 + r, Codecs) /\ PieceAt(list, 13 + r, <<Quote>>)
       /\ PieceAt(list, 14 + r, cod) /\ PieceAt(list, 14 + r + c, <<Quote>>)
  <2>1. /\ 1 + 3 = 4 /\ 1 + 6 = 7 /\ 1 + (6 + r) = 7 + r /\ 1 + (10 + r) = 11 + r
        /\ 1 + (13 + r) = 14 + r /\ 1 + (14 + r) = 15 + r /\ 1 + (14 + r + c) = 15 + r + c
        /\ 6 + r \in Nat /\ 10 + r \in Nat /\ 13 + r \in Nat /\ 14 + r \in Nat
        /\ 14 + r + c \in Nat
    BY <1>1
  <2> QED  BY <1>1, <1>20, <2>1
<1>23. HasColon(StreamInf(a))
  BY <1>5, <1>8, <1>16
<1> QED  BY <1>1, <1>4, <1>19, <1>21, <1>22, <1>23 DEF res, cod, list

(* A part of the list is read token by token; a value as it stands, if it  *)
(* is quoted or has no comma.                                              *)
LEMMA PieceRead ==
  ASSUME NEW W, NEW list \in Text(W \ {":"}), NEW T, ReadsTokens(T, W, list),
         NEW m, NEW s, PieceAt(list, m, s)
  PROVE  /\ m \in Nat /\ Len(s) \in Nat /\ T[m] \in TokensRead(W)
         /\ \A k \in 1 .. Len(s) : /\ T[m + k] = ReadToken(T[m + k - 1], s[k])
                                   /\ T[m + k] \in TokensRead(W)
<1>1. /\ m \in Nat /\ Len(s) \in Nat /\ m + Len(s) =< Len(list)
      /\ \A i \in 1 .. Len(s) : list[m + i] = s[i]
  BY DEF PieceAt
<1>2. Len(list) \in Nat /\ T \in [0 .. Len(list) -> TokensRead(W)]
      /\ \A k \in 1 .. Len(list) : T[k] = ReadToken(T[k - 1], list[k])
  BY DEF ReadsTokens, Text
<1>3. ASSUME NEW k \in 1 .. Len(s)
      PROVE  T[m + k] = ReadToken(T[m + k - 1], s[k]) /\ T[m + k] \in TokensRead(W)
  <2>1. m + k \in 1 .. Len(list) /\ m + k \in 0 .. Len(list)
    BY <1>1, <1>2
  <2> QED  BY <1>1, <1>2, <2>1
<1>4. m \in 0 .. Len(list)
  BY <1>1, <1>2
<1> QED  BY <1>1, <1>2, <1>3, <1>4

(* A sequence grows to its whole length, one element at a time.            *)
LEMMA SubSeqSteps ==
  ASSUME NEW S, NEW s \in Seq(S)
  PROVE  /\ SubSeq(s, 1, 0) = <<>> /\ SubSeq(s, 1, Len(s)) = s
         /\ \A k \in 1 .. Len(s) : Append(SubSeq(s, 1, k - 1), s[k]) = SubSeq(s, 1, k)
<1>1. SubSeq(s, 1, 0) = <<>> /\ SubSeq(s, 1, Len(s)) = s
  BY SubSeqFull
<1>2. ASSUME NEW k \in 1 .. Len(s) PROVE Append(SubSeq(s, 1, k - 1), s[k]) = SubSeq(s, 1, k)
  <2> DEFINE f == SubSeq(s, 1, k - 1)
             g == SubSeq(s, 1, k)
  <2>1. /\ k \in Nat /\ f \in Seq(S) /\ g \in Seq(S) /\ Len(f) = k - 1 /\ Len(g) = k
        /\ (\A i \in 1 .. k - 1 : f[i] = s[i])
        /\ (\A i \in 1 .. k : g[i] = s[i]) /\ s[k] \in S
    OBVIOUS
  <2> HIDE DEF f, g
  <2>2. /\ Append(f, s[k]) \in Seq(S) /\ Len(Append(f, s[k])) = k
        /\ \A i \in 1 .. k : Append(f, s[k])[i] = s[i]
    BY <2>1
  <2>3. Append(f, s[k]) = g
    BY <2>1, <2>2, SeqEqual
  <2> QED  BY <2>3 DEF f, g
<1> QED  BY <1>1, <1>2

NoComma(s) == \A k \in 1 .. Len(s) : s[k] # ","
ReadyFor(p, s) ==
  /\ ~p.in_key /\ p.value = <<>>
  /\ p.quoted \/ NoComma(s)

(* A value that has no comma, or is quoted, is read as it was written.     *)
LEMMA ValueRead ==
  ASSUME NEW W, NEW list \in Text(W \ {":"}), NEW T, ReadsTokens(T, W, list),
         NEW m, NEW s \in Text(ValueTokens(W)), PieceAt(list, m, s),
         ReadyFor(T[m], s)
  PROVE  T[m + Len(s)] = [T[m] EXCEPT !.value = s]
<1> DEFINE n == Len(s)
           P == {k \in 0 .. n : T[m + k] = [T[m] EXCEPT !.value = SubSeq(s, 1, k)]}
<1>1. /\ m \in Nat /\ n \in Nat /\ T[m] \in TokensRead(W)
      /\ \A k \in 1 .. n : T[m + k] = ReadToken(T[m + k - 1], s[k])
  <2>1. list \in Text(W \ {":"}) /\ ReadsTokens(T, W, list) /\ PieceAt(list, m, s)
    OBVIOUS
  <2>2. /\ m \in Nat /\ Len(s) \in Nat /\ T[m] \in TokensRead(W)
        /\ \A k \in 1 .. Len(s) : /\ T[m + k] = ReadToken(T[m + k - 1], s[k])
                                  /\ T[m + k] \in TokensRead(W)
    BY ONLY <2>1, PieceRead
  <2> QED  BY <2>2
<1>2. s \in Seq(ValueTokens(W))
  BY DEF Text
<1>3. /\ SubSeq(s, 1, 0) = <<>> /\ SubSeq(s, 1, n) = s
      /\ \A k \in 1 .. n : Append(SubSeq(s, 1, k - 1), s[k]) = SubSeq(s, 1, k)
  BY <1>2, SubSeqSteps
<1>4. \A k \in 1 .. n : s[k] # Quote /\ s[k] # "="
  <2>1. \A k \in 1 .. n : s[k] \in ValueTokens(W)
    BY <1>2
  <2> QED  BY <2>1 DEF ValueTokens
<1> HIDE DEF n
<1>5. 0 \in P
  <2> DEFINE p == T[m]
  <2>1. p \in TokensRead(W) /\ p.value = <<>>
    BY <1>1 DEF ReadyFor
  <2> HIDE DEF p
  <2>2. p = [p EXCEPT !.value = <<>>]
    BY <2>1 DEF TokensRead
  <2>3. m + 0 = m /\ 0 \in 0 .. n
    BY <1>1
  <2> QED  BY <1>3, <2>2, <2>3, Zenon DEF p
<1>6. ASSUME NEW k \in 1 .. n, k - 1 \in P PROVE k \in P
  <2> DEFINE p == T[m]
             before == SubSeq(s, 1, k - 1)
             q == [p EXCEPT !.value = before]
  <2>1. m + k - 1 = m + (k - 1) /\ T[m + (k - 1)] = q /\ k \in 0 .. n
    <3>1. m + k - 1 = m + (k - 1) /\ k \in 0 .. n
      BY <1>1
    <3>2. T[m + (k - 1)] = [T[m] EXCEPT !.value = SubSeq(s, 1, k - 1)]
      BY <1>6, Zenon
    <3> QED  BY <3>1, <3>2, Zenon
  <2>2. T[m + k] = ReadToken(q, s[k])
    BY <1>1, <2>1
  <2> HIDE DEF p, before
  <2>3. ReadToken(q, s[k]) = [q EXCEPT !.value = Append(q.value, s[k])]
    <3>1. ~q.in_key /\ (q.quoted \/ s[k] # ",")
      <4>1. q.in_key = p.in_key /\ q.quoted = p.quoted
        BY <1>1 DEF TokensRead, p
      <4>2. ReadyFor(p, s)
        BY DEF p
      <4> QED  BY <4>1, <4>2 DEF ReadyFor, NoComma, n
    <3> HIDE DEF q
    <3> QED  BY <1>4, <3>1 DEF ReadToken
  <2>4. [q EXCEPT !.value = Append(q.value, s[k])] = [p EXCEPT !.value = Append(before, s[k])]
    BY <1>1 DEF TokensRead, p
  <2> QED  BY <1>3, <2>1, <2>2, <2>3, <2>4 DEF p, before
<1>7. n \in P
  <2> HIDE DEF P
  <2> QED  BY <1>1, <1>5, <1>6, UpTo
<1> QED  BY <1>3, <1>7 DEF n

(* What a token does to what has been read.                                *)
Reading(quoted, in_key, key, value, result) ==
  [quoted |-> quoted, in_key |-> in_key, key |-> key, value |-> value, result |-> result]

Plain(t) == t \notin {Quote, ",", "="}

(* The first token of a name or value.                                     *)
LEMMA AppendOne == \A t : Append(<<>>, t) = <<t>>
OBVIOUS

(* What the tokens that the parser tells apart do.                         *)
LEMMA ReadTokenRules ==
  ASSUME NEW k, NEW v, NEW r
  PROVE  /\ ReadToken(Reading(FALSE, FALSE, k, v, r), ",")
              = Reading(FALSE, TRUE, <<>>, <<>>, Append(r, <<k, v>>))
         /\ ReadToken(Reading(FALSE, TRUE, k, v, r), "=") = Reading(FALSE, FALSE, k, v, r)
         /\ ReadToken(Reading(FALSE, FALSE, k, v, r), Quote) = Reading(TRUE, FALSE, k, v, r)
         /\ ReadToken(Reading(TRUE, FALSE, k, v, r), Quote) = Reading(FALSE, FALSE, k, v, r)
<1>1. ReadToken(Reading(FALSE, FALSE, k, v, r), ",")
        = Reading(FALSE, TRUE, <<>>, <<>>, Append(r, <<k, v>>))
  BY DEF ReadToken, Reading, NothingRead, Quote
<1>2. ReadToken(Reading(FALSE, TRUE, k, v, r), "=") = Reading(FALSE, FALSE, k, v, r)
  BY DEF ReadToken, Reading, Quote
<1>3. /\ ReadToken(Reading(FALSE, FALSE, k, v, r), Quote) = Reading(TRUE, FALSE, k, v, r)
      /\ ReadToken(Reading(TRUE, FALSE, k, v, r), Quote) = Reading(FALSE, FALSE, k, v, r)
  BY DEF ReadToken, Reading, Quote
<1> QED  BY <1>1, <1>2, <1>3

(* What the first other token of a name or value does.                     *)
LEMMA ReadPlainRules ==
  ASSUME NEW k, NEW v, NEW r, NEW t, Plain(t)
  PROVE  /\ ReadToken(Reading(FALSE, TRUE, <<>>, v, r), t) = Reading(FALSE, TRUE, <<t>>, v, r)
         /\ ReadToken(Reading(FALSE, FALSE, k, <<>>, r), t) = Reading(FALSE, FALSE, k, <<t>>, r)
<1>1. /\ ReadToken(Reading(FALSE, TRUE, <<>>, v, r), t)
           = Reading(FALSE, TRUE, Append(<<>>, t), v, r)
      /\ ReadToken(Reading(FALSE, FALSE, k, <<>>, r), t)
           = Reading(FALSE, FALSE, k, Append(<<>>, t), r)
  BY DEF ReadToken, Reading, Plain
<1> QED  BY <1>1, AppendOne

(* A name and its '=', at the start and after a comma.                     *)
LEMMA NameRead ==
  ASSUME NEW t, Plain(t)
  PROVE  /\ ReadToken(ReadToken(NothingRead, t), "=") = Reading(FALSE, FALSE, <<t>>, <<>>, <<>>)
         /\ \A k, v, r :
              ReadToken(ReadToken(ReadToken(Reading(FALSE, FALSE, k, v, r), ","), t), "=")
                = Reading(FALSE, FALSE, <<t>>, <<>>, Append(r, <<k, v>>))
<1>1. NothingRead = Reading(FALSE, TRUE, <<>>, <<>>, <<>>)
  BY DEF NothingRead, Reading
<1>2. \A q : ReadToken(Reading(FALSE, TRUE, <<>>, <<>>, q), t) = Reading(FALSE, TRUE, <<t>>, <<>>, q)
  BY ReadPlainRules
<1>3. \A q : ReadToken(ReadToken(Reading(FALSE, TRUE, <<>>, <<>>, q), t), "=")
               = Reading(FALSE, FALSE, <<t>>, <<>>, q)
  BY <1>2, ReadTokenRules
<1>4. \A k, v, r : ReadToken(Reading(FALSE, FALSE, k, v, r), ",")
                     = Reading(FALSE, TRUE, <<>>, <<>>, Append(r, <<k, v>>))
  BY ReadTokenRules
<1> QED  BY <1>1, <1>3, <1>4

(* One, three or four tokens in a row.                                     *)
LEMMA FewRead ==
  ASSUME NEW W, NEW list \in Text(W \ {":"}), NEW T, ReadsTokens(T, W, list), NEW m
  PROVE  /\ \A w : PieceAt(list, m, <<w>>) => T[m + 1] = ReadToken(T[m], w)
         /\ \A w, x, y : PieceAt(list, m, <<w, x, y>>) =>
              T[m + 3] = ReadToken(ReadToken(ReadToken(T[m], w), x), y)
         /\ \A w, x, y, z : PieceAt(list, m, <<w, x, y, z>>) =>
              T[m + 4] = ReadToken(ReadToken(ReadToken(ReadToken(T[m], w), x), y), z)
<1>1. ASSUME NEW s, PieceAt(list, m, s)
      PROVE  m \in Nat /\ \A k \in 1 .. Len(s) : T[m + k] = ReadToken(T[m + k - 1], s[k])
  <2>1. list \in Text(W \ {":"}) /\ ReadsTokens(T, W, list) /\ PieceAt(list, m, s)
    BY <1>1
  <2>2. /\ m \in Nat /\ Len(s) \in Nat /\ T[m] \in TokensRead(W)
        /\ \A k \in 1 .. Len(s) : /\ T[m + k] = ReadToken(T[m + k - 1], s[k])
                                  /\ T[m + k] \in TokensRead(W)
    BY ONLY <2>1, PieceRead
  <2> QED  BY <2>2
<1>2. ASSUME m \in Nat
      PROVE  m + 1 - 1 = m /\ m + 2 - 1 = m + 1 /\ m + 3 - 1 = m + 2 /\ m + 4 - 1 = m + 3
  BY <1>2
<1>3. ASSUME NEW w, PieceAt(list, m, <<w>>) PROVE T[m + 1] = ReadToken(T[m], w)
  <2>1. 1 \in 1 .. Len(<<w>>) /\ <<w>>[1] = w
    OBVIOUS
  <2>2. m \in Nat /\ T[m + 1] = ReadToken(T[m + 1 - 1], <<w>>[1])
    BY <1>1, <1>3, <2>1
  <2> QED  BY <1>2, <2>1, <2>2
<1>4. ASSUME NEW w, NEW x, NEW y, PieceAt(list, m, <<w, x, y>>)
      PROVE  T[m + 3] = ReadToken(ReadToken(ReadToken(T[m], w), x), y)
  <2> DEFINE s == <<w, x, y>>
  <2>1. 1 \in 1 .. Len(s) /\ 2 \in 1 .. Len(s) /\ 3 \in 1 .. Len(s)
        /\ s[1] = w /\ s[2] = x /\ s[3] = y
    OBVIOUS
  <2>2. PieceAt(list, m, s)
    BY <1>4
  <2> HIDE DEF s
  <2>3. /\ m \in Nat /\ T[m + 1] = ReadToken(T[m + 1 - 1], s[1])
        /\ T[m + 2] = ReadToken(T[m + 2 - 1], s[2]) /\ T[m + 3] = ReadToken(T[m + 3 - 1], s[3])
    BY <1>1, <2>1, <2>2
  <2> QED  BY <1>2, <2>1, <2>3
<1>5. ASSUME NEW w, NEW x, NEW y, NEW z, PieceAt(list, m, <<w, x, y, z>>)
      PROVE  T[m + 4] = ReadToken(ReadToken(ReadToken(ReadToken(T[m], w), x), y), z)
  <2> DEFINE s == <<w, x, y, z>>
  <2>1. 1 \in 1 .. Len(s) /\ 2 \in 1 .. Len(s) /\ 3 \in 1 .. Len(s) /\ 4 \in 1 .. Len(s)
        /\ s[1] = w /\ s[2] = x /\ s[3] = y /\ s[4] = z
    OBVIOUS
  <2>2. PieceAt(list, m, s)
    BY <1>5
  <2> HIDE DEF s
  <2>3. /\ m \in Nat /\ T[m + 1] = ReadToken(T[m + 1 - 1], s[1])
        /\ T[m + 2] = ReadToken(T[m + 2 - 1], s[2]) /\ T[m + 3] = ReadToken(T[m + 3 - 1], s[3])
        /\ T[m + 4] = ReadToken(T[m + 4 - 1], s[4])
    BY <1>1, <2>1, <2>2
  <2> QED  BY <1>2, <2>1, <2>3
<1> QED  BY <1>3, <1>4, <1>5

(* Names for literals, which the provers match as they do other terms.     *)
Comma == ","
Yes == TRUE
No == FALSE

(* A name, and a name with a plain value, after a comma.                   *)
LEMMA NameStep ==
  ASSUME NEW W, NEW list \in Text(W \ {":"}), NEW T, ReadsTokens(T, W, list),
         NEW m, NEW t, Plain(t), PieceAt(list, m, <<Comma, t, "=">>), NEW n, n = m + 3,
         NEW k, NEW v, NEW r, T[m] = Reading(No, No, k, v, r)
  PROVE  T[n] = Reading(No, No, <<t>>, <<>>, Append(r, <<k, v>>))
<1>1. list \in Text(W \ {":"}) /\ ReadsTokens(T, W, list)
  OBVIOUS
<1>2. \A w, x, y : PieceAt(list, m, <<w, x, y>>) =>
              T[m + 3] = ReadToken(ReadToken(ReadToken(T[m], w), x), y)
  BY ONLY <1>1, FewRead
<1>3. T[m + 3] = ReadToken(ReadToken(ReadToken(T[m], Comma), t), "=")
  <2>1. PieceAt(list, m, <<Comma, t, "=">>)
    OBVIOUS
  <2> QED  BY ONLY <1>2, <2>1
<1>4. Plain(t)
  OBVIOUS
<1>5. ReadToken(ReadToken(ReadToken(Reading(FALSE, FALSE, k, v, r), Comma), t), "=")
                = Reading(FALSE, FALSE, <<t>>, <<>>, Append(r, <<k, v>>))
  <2>1. \A x, y, z :
          ReadToken(ReadToken(ReadToken(Reading(FALSE, FALSE, x, y, z), ","), t), "=")
            = Reading(FALSE, FALSE, <<t>>, <<>>, Append(z, <<x, y>>))
    BY ONLY <1>4, NameRead
  <2> QED  BY ONLY <2>1 DEF Comma
<1>6. n = m + 3 /\ T[m] = Reading(No, No, k, v, r)
  OBVIOUS
<1> QED  BY ONLY <1>3, <1>5, <1>6 DEF No

(* A name with a number, after a comma.                                    *)
LEMMA NumberStep ==
  ASSUME NEW W, NEW list \in Text(W \ {":"}), NEW T, ReadsTokens(T, W, list),
         NEW m, NEW t, NEW x, Plain(t), Plain(x), PieceAt(list, m, <<Comma, t, "=", x>>),
         NEW n, n = m + 4, NEW k, NEW v, NEW r, T[m] = Reading(No, No, k, v, r)
  PROVE  T[n] = Reading(No, No, <<t>>, <<x>>, Append(r, <<k, v>>))
<1>1. list \in Text(W \ {":"}) /\ ReadsTokens(T, W, list)
  OBVIOUS
<1>2. \A w, u, y, z : PieceAt(list, m, <<w, u, y, z>>) =>
              T[m + 4] = ReadToken(ReadToken(ReadToken(ReadToken(T[m], w), u), y), z)
  BY ONLY <1>1, FewRead
<1>3. T[m + 4] = ReadToken(ReadToken(ReadToken(ReadToken(T[m], Comma), t), "="), x)
  <2>1. PieceAt(list, m, <<Comma, t, "=", x>>)
    OBVIOUS
  <2> QED  BY ONLY <1>2, <2>1
<1>4. Plain(t) /\ Plain(x)
  OBVIOUS
<1>5. ReadToken(ReadToken(ReadToken(Reading(FALSE, FALSE, k, v, r), Comma), t), "=")
                = Reading(FALSE, FALSE, <<t>>, <<>>, Append(r, <<k, v>>))
  <2>1. \A u, y, z :
          ReadToken(ReadToken(ReadToken(Reading(FALSE, FALSE, u, y, z), ","), t), "=")
            = Reading(FALSE, FALSE, <<t>>, <<>>, Append(z, <<u, y>>))
    BY ONLY <1>4, NameRead
  <2> QED  BY ONLY <2>1 DEF Comma
<1>6. ReadToken(Reading(FALSE, FALSE, <<t>>, <<>>, Append(r, <<k, v>>)), x)
                = Reading(FALSE, FALSE, <<t>>, <<x>>, Append(r, <<k, v>>))
  BY ONLY <1>4, ReadPlainRules
<1>7. n = m + 4 /\ T[m] = Reading(No, No, k, v, r)
  OBVIOUS
<1> QED  BY ONLY <1>3, <1>5, <1>6, <1>7 DEF No

(* A name with a number, at the start.                                     *)
LEMMA FirstStep ==
  ASSUME NEW W, NEW list \in Text(W \ {":"}), NEW T, ReadsTokens(T, W, list),
         NEW t, NEW n, Plain(t), Plain(n), PieceAt(list, 0, <<t, "=", n>>)
  PROVE  T[3] = Reading(No, No, <<t>>, <<n>>, <<>>)
<1>1. list \in Text(W \ {":"}) /\ ReadsTokens(T, W, list)
  OBVIOUS
<1>9. PieceAt(list, 0, <<t, "=", n>>)
  OBVIOUS
<1>2. \A w, x, y : PieceAt(list, 0, <<w, x, y>>) =>
              T[0 + 3] = ReadToken(ReadToken(ReadToken(T[0], w), x), y)
  BY ONLY <1>1, FewRead
<1>3. T[0 + 3] = ReadToken(ReadToken(ReadToken(T[0], t), "="), n)
  BY ONLY <1>2, <1>9
<1>4. Plain(t) /\ Plain(n)
  OBVIOUS
<1>5. ReadToken(ReadToken(NothingRead, t), "=") = Reading(FALSE, FALSE, <<t>>, <<>>, <<>>)
  BY ONLY <1>4, NameRead
<1>6. ReadToken(Reading(FALSE, FALSE, <<t>>, <<>>, <<>>), n) = Reading(FALSE, FALSE, <<t>>, <<n>>, <<>>)
  BY ONLY <1>4, ReadPlainRules
<1>7. 0 + 3 = 3
  OBVIOUS
<1>8. T[0] = NothingRead
  BY ONLY <1>1 DEF ReadsTokens
<1> QED  BY ONLY <1>3, <1>5, <1>6, <1>7, <1>8 DEF No

(* A quote, and a value.                                                   *)
LEMMA QuoteStep ==
  ASSUME NEW W, NEW list \in Text(W \ {":"}), NEW T, ReadsTokens(T, W, list),
         NEW m, PieceAt(list, m, <<Quote>>), NEW n, n = m + 1, NEW k, NEW v, NEW r
  PROVE  /\ T[m] = Reading(No, No, k, v, r) => T[n] = Reading(Yes, No, k, v, r)
         /\ T[m] = Reading(Yes, No, k, v, r) => T[n] = Reading(No, No, k, v, r)
<1>1. list \in Text(W \ {":"}) /\ ReadsTokens(T, W, list)
  OBVIOUS
<1>2. \A w : PieceAt(list, m, <<w>>) => T[m + 1] = ReadToken(T[m], w)
  BY ONLY <1>1, FewRead
<1>3. T[m + 1] = ReadToken(T[m], Quote) /\ n = m + 1
  BY <1>2, Zenon
<1>4. /\ ReadToken(Reading(FALSE, FALSE, k, v, r), Quote) = Reading(TRUE, FALSE, k, v, r)
      /\ ReadToken(Reading(TRUE, FALSE, k, v, r), Quote) = Reading(FALSE, FALSE, k, v, r)
  BY ONLY ReadTokenRules
<1>5. /\ ReadToken(Reading(No, No, k, v, r), Quote) = Reading(Yes, No, k, v, r)
      /\ ReadToken(Reading(Yes, No, k, v, r), Quote) = Reading(No, No, k, v, r)
  BY ONLY <1>4 DEF Yes, No
<1> QED  BY ONLY <1>3, <1>5

(* Reading with another value.                                             *)
LEMMA ValueWritten ==
  \A b, c, k, v, r, s : [Reading(b, c, k, v, r) EXCEPT !.value = s] = Reading(b, c, k, s, r)
BY DEF Reading

(* A value after its name.                                                 *)
LEMMA ValueStep ==
  ASSUME NEW W, NEW list \in Text(W \ {":"}), NEW T, ReadsTokens(T, W, list),
         NEW m, NEW s \in Text(ValueTokens(W)), PieceAt(list, m, s),
         NEW b, b = Yes \/ NoComma(s), NEW k, NEW r, T[m] = Reading(b, No, k, <<>>, r)
  PROVE  T[m + Len(s)] = Reading(b, No, k, s, r)
<1>1. ReadyFor(T[m], s)
  <2>1. T[m].in_key = No /\ T[m].value = <<>> /\ T[m].quoted = b
    BY DEF Reading
  <2>2. ~T[m].in_key
    BY <2>1 DEF No
  <2>3. CASE b = Yes
    <3>1. T[m].quoted
      BY <2>1, <2>3 DEF Yes
    <3> QED  BY <2>1, <2>2, <3>1 DEF ReadyFor
  <2>4. CASE NoComma(s)
    BY <2>1, <2>2, <2>4 DEF ReadyFor
  <2> QED  BY <2>3, <2>4
<1>2. list \in Text(W \ {":"}) /\ ReadsTokens(T, W, list) /\ s \in Text(ValueTokens(W))
      /\ PieceAt(list, m, s)
  OBVIOUS
<1>3. T[m + Len(s)] = [T[m] EXCEPT !.value = s]
  BY ONLY <1>1, <1>2, ValueRead
<1>4. [Reading(b, No, k, <<>>, r) EXCEPT !.value = s] = Reading(b, No, k, s, r)
  BY ValueWritten
<1> QED  BY <1>3, <1>4

(* What is written of attributes, read.                                    *)
IsWritten(params, a) ==
  /\ Len(params) = 4
  /\ params[1] = << <<"BANDWITH">>, <<a.bandwidth>> >>
  /\ params[2] = << <<"RESOLUTION">>, a.resolution >>
  /\ params[3] = << <<"FRAME-RATE">>, <<Fixed[a.frame_rate]>> >>
  /\ params[4] = << <<"CODECS">>, a.codecs >>

(* Four parameters, one after the other.                                   *)
LEMMA FourAppended ==
  ASSUME NEW x, NEW y, NEW z, NEW w
  PROVE  LET f == Append(Append(Append(Append(<<>>, x), y), z), w)
         IN  Len(f) = 4 /\ f[1] = x /\ f[2] = y /\ f[3] = z /\ f[4] = w
<1> DEFINE S == {x, y, z, w}
           f1 == Append(<<>>, x)
           f2 == Append(f1, y)
           f3 == Append(f2, z)
<1>1. x \in S /\ y \in S /\ z \in S /\ w \in S
  OBVIOUS
<1> HIDE DEF S, f1, f2, f3
<1>2. f1 \in Seq(S) /\ Len(f1) = 1 /\ f1[1] = x
  BY <1>1 DEF f1
<1>3. ASSUME NEW f \in Seq(S), NEW t \in S
      PROVE  /\ Append(f, t) \in Seq(S) /\ Len(Append(f, t)) = Len(f) + 1
             /\ Append(f, t)[Len(f) + 1] = t
             /\ \A i \in 1 .. Len(f) : Append(f, t)[i] = f[i]
  OBVIOUS
<1>4. f2 \in Seq(S) /\ Len(f2) = 2 /\ f2[1] = x /\ f2[2] = y
  <2>1. /\ f2 \in Seq(S) /\ Len(f2) = Len(f1) + 1 /\ f2[Len(f1) + 1] = y
        /\ \A i \in 1 .. Len(f1) : f2[i] = f1[i]
    BY <1>1, <1>2, <1>3 DEF f2
  <2> QED  BY <1>2, <2>1
<1>5. f3 \in Seq(S) /\ Len(f3) = 3 /\ f3[1] = x /\ f3[2] = y /\ f3[3] = z
  <2>1. /\ f3 \in Seq(S) /\ Len(f3) = Len(f2) + 1 /\ f3[Len(f2) + 1] = z
        /\ \A i \in 1 .. Len(f2) : f3[i] = f2[i]
    BY <1>1, <1>3, <1>4 DEF f3
  <2> QED  BY <1>4, <2>1
<1> DEFINE f4 == Append(f3, w)
<1>6. Len(f4) = 4 /\ f4[1] = x /\ f4[2] = y /\ f4[3] = z /\ f4[4] = w
  <2>1. /\ Len(f4) = Len(f3) + 1 /\ f4[Len(f3) + 1] = w
        /\ \A i \in 1 .. Len(f3) : f4[i] = f3[i]
    BY <1>1, <1>3, <1>5
  <2> HIDE DEF f4
  <2> QED  BY <1>5, <2>1
<1> QED  BY <1>6 DEF f1, f2, f3

(* The parser takes back the parameters that to_string wrote, if there is  *)
(* no comma in the resolution.                                             *)
LEMMA ParametersRead ==
  ASSUME NEW W, Marks \subseteq W, Numeral \subseteq W, NEW a \in AttributesOf(W),
         NoComma(a.resolution)
  PROVE  IsWritten(ParseParameters(AfterColon(StreamInf(a))), a)
<1> DEFINE res == a.resolution
           cod == a.codecs
           bw == a.bandwidth
           fr == Fixed[a.frame_rate]
           r == Len(res)
           c == Len(cod)
           list == AfterColon(StreamInf(a))
           nb == "BANDWITH"
           nr == "RESOLUTION"
           nf == "FRAME-RATE"
           nc == "CODECS"
           R1 == Append(<<>>, << <<nb>>, <<bw>> >>)
           R2 == Append(R1, << <<nr>>, res >>)
           R3 == Append(R2, << <<nf>>, <<fr>> >>)
<1>1. /\ list \in Text(W \ {":"})
      /\ r \in Nat /\ c \in Nat /\ Len(list) = 15 + r + c
      /\ PieceAt(list, 0, Written(a)) /\ PieceAt(list, 3, Resolution)
      /\ PieceAt(list, 6, res) /\ PieceAt(list, 6 + r, FrameRate(a))
      /\ PieceAt(list, 10 + r, Codecs) /\ PieceAt(list, 13 + r, <<Quote>>)
      /\ PieceAt(list, 14 + r, cod) /\ PieceAt(list, 14 + r + c, <<Quote>>)
  BY AfterColonPieces
<1>2. /\ res \in Text(ValueTokens(W)) /\ cod \in Text(ValueTokens(W))
      /\ bw \in Numeral /\ fr \in Numeral
  BY NumeralAssumption DEF AttributesOf
<1>3. /\ Plain(bw) /\ Plain(fr) /\ Plain(nb) /\ Plain(nr) /\ Plain(nf) /\ Plain(nc)
  BY <1>2, PunctuationAssumption DEF Plain, Quote
<1>4. /\ Written(a) = <<nb, "=", bw>> /\ Resolution = <<Comma, nr, "=">>
      /\ FrameRate(a) = <<Comma, nf, "=", fr>> /\ Codecs = <<Comma, nc, "=">>
  BY DEF Written, Resolution, FrameRate, Codecs, Comma
<1>5. NoComma(res)
  OBVIOUS
<1> HIDE DEF res, cod, fr, bw, list, nb, nr, nf, nc
<1>6. PICK T : ReadsTokens(T, W, list)
  BY <1>1, TokenSteps
<1>7. T[3] = Reading(No, No, <<nb>>, <<bw>>, <<>>)
  <2>1. list \in Text(W \ {":"}) /\ ReadsTokens(T, W, list) /\ Plain(nb) /\ Plain(bw)
        /\ PieceAt(list, 0, <<nb, "=", bw>>)
    BY <1>1, <1>3, <1>4, <1>6
  <2> QED  BY ONLY <2>1, FirstStep
<1>8. T[6] = Reading(No, No, <<nr>>, <<>>, R1)
  <2>1. list \in Text(W \ {":"}) /\ ReadsTokens(T, W, list) /\ Plain(nr)
    BY <1>1, <1>3, <1>6
  <2> DEFINE m == 3
             n == 6
             none == <<>>
  <2>2. PieceAt(list, m, <<Comma, nr, "=">>) /\ n = m + 3
    BY <1>1, <1>4
  <2>3. T[m] = Reading(No, No, <<nb>>, <<bw>>, none)
    BY <1>7
  <2> HIDE DEF m, n, none
  <2>4. T[n] = Reading(No, No, <<nr>>, <<>>, Append(none, << <<nb>>, <<bw>> >>))
    BY ONLY <2>1, <2>2, <2>3, NameStep
  <2> QED  BY ONLY <2>4 DEF n, none
<1>9. T[6 + r] = Reading(No, No, <<nr>>, res, R1)
  <2>1. list \in Text(W \ {":"}) /\ ReadsTokens(T, W, list) /\ PieceAt(list, 6, res)
        /\ res \in Text(ValueTokens(W))
    BY <1>1, <1>2, <1>6
  <2> HIDE DEF R1
  <2> QED  BY ONLY <1>5, <1>8, <2>1, ValueStep
<1>10. T[10 + r] = Reading(No, No, <<nf>>, <<fr>>, R2)
  <2>1. list \in Text(W \ {":"}) /\ ReadsTokens(T, W, list) /\ Plain(nf) /\ Plain(fr)
        /\ PieceAt(list, 6 + r, <<Comma, nf, "=", fr>>) /\ 10 + r = 6 + r + 4
    BY <1>1, <1>3, <1>4, <1>6
  <2> HIDE DEF R1
  <2> QED  BY ONLY <1>9, <2>1, NumberStep
<1>11. T[13 + r] = Reading(No, No, <<nc>>, <<>>, R3)
  <2>1. list \in Text(W \ {":"}) /\ ReadsTokens(T, W, list) /\ Plain(nc)
        /\ PieceAt(list, 10 + r, <<Comma, nc, "=">>) /\ 13 + r = 10 + r + 3
    BY <1>1, <1>3, <1>4, <1>6
  <2> HIDE DEF R2
  <2> QED  BY ONLY <1>10, <2>1, NameStep
<1> HIDE DEF R3
<1>12. T[14 + r + c] = Reading(Yes, No, <<nc>>, cod, R3)
  <2>1. list \in Text(W \ {":"}) /\ ReadsTokens(T, W, list) /\ PieceAt(list, 13 + r, <<Quote>>)
        /\ PieceAt(list, 14 + r, cod) /\ cod \in Text(ValueTokens(W)) /\ 14 + r = 13 + r + 1
    BY <1>1, <1>2, <1>6
  <2>2. T[14 + r] = Reading(Yes, No, <<nc>>, <<>>, R3)
    BY ONLY <1>11, <2>1, QuoteStep
  <2> QED  BY ONLY <2>1, <2>2, ValueStep
<1>13. T[15 + r + c] = Reading(No, No, <<nc>>, cod, R3)
  <2>1. list \in Text(W \ {":"}) /\ ReadsTokens(T, W, list)
        /\ PieceAt(list, 14 + r + c, <<Quote>>) /\ 15 + r + c = 14 + r + c + 1
    BY <1>1, <1>6
  <2> QED  BY ONLY <1>12, <2>1, QuoteStep
<1>14. ParseParameters(list) = Append(R3, << <<nc>>, cod >>)
  <2>1. FoldLeft(ReadToken, NothingRead, list) = T[Len(list)]
    BY <1>6 DEF ReadsTokens
  <2>2. FoldLeft(ReadToken, NothingRead, list) = Reading(No, No, <<nc>>, cod, R3)
    BY ONLY <1>1, <1>13, <2>1
  <2>3. Reading(No, No, <<nc>>, cod, R3).result = R3
        /\ Reading(No, No, <<nc>>, cod, R3).key = <<nc>>
        /\ Reading(No, No, <<nc>>, cod, R3).value = cod
    BY DEF Reading
  <2> QED  BY ONLY <2>2, <2>3 DEF ParseParameters
<1> QED  BY ONLY <1>14, FourAppended DEF IsWritten, R1, R2, R3, res, cod, bw, fr, list, nb, nr, nf, nc

(* What is read back of attributes.                                        *)
AsShown(a) == [a EXCEPT !.bandwidth = "0", !.frame_rate = Fixed[@]]

(* The fields of what is shown.                                            *)
LEMMA ShownFields ==
  ASSUME NEW W, NEW a \in AttributesOf(W)
  PROVE  AsShown(a) = [resolution |-> a.resolution, codecs |-> a.codecs, bandwidth |-> "0",
                       frame_rate |-> Fixed[a.frame_rate]]
<1> DEFINE z == "0"
           x == Fixed[a.frame_rate]
           e == [a EXCEPT !.bandwidth = z, !.frame_rate = x]
<1>1. z \in Numeral /\ x \in Numeral
  BY NumeralAssumption DEF AttributesOf
<1>2. AsShown(a) = e
  BY DEF AsShown
<1> HIDE DEF z, x
<1>3. /\ e \in AttributesOf(W) /\ e.resolution = a.resolution /\ e.codecs = a.codecs
      /\ e.bandwidth = z /\ e.frame_rate = x
  BY <1>1 DEF AttributesOf
<1> HIDE DEF e
<1>4. e = [resolution |-> a.resolution, codecs |-> a.codecs, bandwidth |-> z, frame_rate |-> x]
  BY <1>3 DEF AttributesOf
<1> QED  BY <1>2, <1>4 DEF z, x

(* What each parameter sets: BANDWITH sets nothing.                        *)
LEMMA SetRules ==
  ASSUME NEW s
  PROVE  /\ \A v : SetAttribute(s, << <<"BANDWITH">>, v >>) = s
         /\ \A v : SetAttribute(s, << <<"RESOLUTION">>, v >>) = [s EXCEPT !.resolution = v]
         /\ \A n \in Numeral :
              SetAttribute(s, << <<"FRAME-RATE">>, <<n>> >>) = [s EXCEPT !.frame_rate = n]
         /\ \A v : SetAttribute(s, << <<"CODECS">>, v >>) = [s EXCEPT !.codecs = v]
<1>1. \A p : p[1] = <<"BANDWITH">> => SetAttribute(s, p) = s
  BY DEF SetAttribute
<1>2. \A p : p[1] = <<"RESOLUTION">> => SetAttribute(s, p) = [s EXCEPT !.resolution = p[2]]
  BY DEF SetAttribute
<1>3. \A p : p[1] = <<"FRAME-RATE">> => SetAttribute(s, p) = [s EXCEPT !.frame_rate = AsNumber(p[2])]
  BY DEF SetAttribute
<1>4. \A p : p[1] = <<"CODECS">> => SetAttribute(s, p) = [s EXCEPT !.codecs = p[2]]
  BY DEF SetAttribute
<1>5. \A n \in Numeral : AsNumber(<<n>>) = n
  BY DEF AsNumber
<1>6. \A x, y : <<x, y>>[1] = x /\ <<x, y>>[2] = y
  OBVIOUS
<1>7. ASSUME NEW v
      PROVE  /\ SetAttribute(s, << <<"BANDWITH">>, v >>) = s
             /\ SetAttribute(s, << <<"RESOLUTION">>, v >>) = [s EXCEPT !.resolution = v]
             /\ SetAttribute(s, << <<"CODECS">>, v >>) = [s EXCEPT !.codecs = v]
  <2>1. SetAttribute(s, << <<"BANDWITH">>, v >>) = s
    BY ONLY <1>1, <1>6
  <2>2. SetAttribute(s, << <<"RESOLUTION">>, v >>) = [s EXCEPT !.resolution = v]
    BY ONLY <1>2, <1>6
  <2>3. SetAttribute(s, << <<"CODECS">>, v >>) = [s EXCEPT !.codecs = v]
    BY ONLY <1>4, <1>6
  <2> QED  BY <2>1, <2>2, <2>3
<1>8. ASSUME NEW n \in Numeral
      PROVE  SetAttribute(s, << <<"FRAME-RATE">>, <<n>> >>) = [s EXCEPT !.frame_rate = n]
  <2>1. AsNumber(<<n>>) = n
    BY <1>5
  <2> QED  BY ONLY <2>1, <1>3, <1>6
<1> QED  BY <1>7, <1>8

(* The attributes that the parser makes of what to_string wrote.           *)
LEMMA AttributesRead ==
  ASSUME NEW W, Marks \subseteq W, Numeral \subseteq W, NEW a \in AttributesOf(W),
         NoComma(a.resolution)
  PROVE  FoldLeft(SetAttribute, Unknown, ParseParameters(AfterColon(StreamInf(a)))) = AsShown(a)
<1> DEFINE params == ParseParameters(AfterColon(StreamInf(a)))
           fr == Fixed[a.frame_rate]
<1>1. IsWritten(params, a)
  BY ParametersRead
<1>2. params \in Seq(Parameter(W))
  <2>1. AfterColon(StreamInf(a)) \in Text(W \ {":"})
    BY AfterColonPieces
  <2> QED  BY <2>1, ParametersType
<1>3. Unknown \in AttributesOf(W)
  BY NumeralAssumption DEF Unknown, AttributesOf, Text
<1> HIDE DEF params
<1>4. PICK T : SetsAttributes(T, W, Unknown, params)
  BY <1>2, <1>3, AttributeSteps
<1>5. /\ T[0] = Unknown /\ FoldLeft(SetAttribute, Unknown, params) = T[4]
      /\ T[1] = SetAttribute(T[0], params[1]) /\ T[2] = SetAttribute(T[1], params[2])
      /\ T[3] = SetAttribute(T[2], params[3]) /\ T[4] = SetAttribute(T[3], params[4])
      /\ T[0] \in AttributesOf(W) /\ T[1] \in AttributesOf(W) /\ T[2] \in AttributesOf(W)
      /\ T[3] \in AttributesOf(W)
  <2>1. Len(params) = 4
    BY <1>1 DEF IsWritten
  <2>2. /\ T \in [0 .. 4 -> AttributesOf(W)] /\ T[0] = Unknown
        /\ FoldLeft(SetAttribute, Unknown, params) = T[4]
        /\ \A k \in 1 .. 4 : T[k] = SetAttribute(T[k - 1], params[k])
    BY <1>4, <2>1 DEF SetsAttributes
  <2>3. /\ 1 \in 1 .. 4 /\ 2 \in 1 .. 4 /\ 3 \in 1 .. 4 /\ 4 \in 1 .. 4
        /\ 1 - 1 = 0 /\ 2 - 1 = 1 /\ 3 - 1 = 2 /\ 4 - 1 = 3
        /\ 0 \in 0 .. 4 /\ 1 \in 0 .. 4 /\ 2 \in 0 .. 4 /\ 3 \in 0 .. 4
    OBVIOUS
  <2>4. /\ T[1] = SetAttribute(T[1 - 1], params[1]) /\ T[2] = SetAttribute(T[2 - 1], params[2])
        /\ T[3] = SetAttribute(T[3 - 1], params[3]) /\ T[4] = SetAttribute(T[4 - 1], params[4])
    BY <2>2, <2>3
  <2> QED  BY <2>2, <2>3, <2>4
<1>6. fr \in Numeral /\ a.bandwidth \in Numeral
  BY NumeralAssumption DEF AttributesOf
<1>7. /\ params[1] = << <<"BANDWITH">>, <<a.bandwidth>> >>
      /\ params[2] = << <<"RESOLUTION">>, a.resolution >>
      /\ params[3] = << <<"FRAME-RATE">>, <<fr>> >>
      /\ params[4] = << <<"CODECS">>, a.codecs >>
  BY <1>1 DEF IsWritten
<1> DEFINE res == a.resolution
           cod == a.codecs
<1> HIDE DEF fr
<1>8. \A s : /\ SetAttribute(s, params[1]) = s
             /\ SetAttribute(s, params[2]) = [s EXCEPT !.resolution = res]
             /\ SetAttribute(s, params[3]) = [s EXCEPT !.frame_rate = fr]
             /\ SetAttribute(s, params[4]) = [s EXCEPT !.codecs = cod]
  <2> SUFFICES ASSUME NEW s
               PROVE  /\ SetAttribute(s, params[1]) = s
                      /\ SetAttribute(s, params[2]) = [s EXCEPT !.resolution = res]
                      /\ SetAttribute(s, params[3]) = [s EXCEPT !.frame_rate = fr]
                      /\ SetAttribute(s, params[4]) = [s EXCEPT !.codecs = cod]
    OBVIOUS
  <2>1. /\ \A v : SetAttribute(s, << <<"BANDWITH">>, v >>) = s
        /\ \A v : SetAttribute(s, << <<"RESOLUTION">>, v >>) = [s EXCEPT !.resolution = v]
        /\ \A n \in Numeral :
             SetAttribute(s, << <<"FRAME-RATE">>, <<n>> >>) = [s EXCEPT !.frame_rate = n]
        /\ \A v : SetAttribute(s, << <<"CODECS">>, v >>) = [s EXCEPT !.codecs = v]
    BY ONLY SetRules
  <2>2. SetAttribute(s, params[1]) = s
    BY ONLY <2>1, <1>7
  <2>3. SetAttribute(s, params[2]) = [s EXCEPT !.resolution = res]
    BY ONLY <2>1, <1>7
  <2>4. SetAttribute(s, params[3]) = [s EXCEPT !.frame_rate = fr]
    BY ONLY <2>1, <1>6, <1>7
  <2>5. SetAttribute(s, params[4]) = [s EXCEPT !.codecs = cod]
    BY ONLY <2>1, <1>7
  <2> QED  BY <2>2, <2>3, <2>4, <2>5
<1>9. AsShown(a) = [resolution |-> res, codecs |-> cod, bandwidth |-> "0", frame_rate |-> fr]
  BY ShownFields DEF fr
<1> HIDE DEF res, cod
<1>10. T[1] = Unknown
  BY ONLY <1>5, <1>8
<1>11. T[2] = [Unknown EXCEPT !.resolution = res]
  BY ONLY <1>5, <1>8, <1>10
<1>12. T[3] = [T[2] EXCEPT !.frame_rate = fr]
  BY ONLY <1>5, <1>8
<1>13. T[4] = [T[3] EXCEPT !.codecs = cod]
  BY ONLY <1>5, <1>8
<1>14. T[4] = [resolution |-> res, codecs |-> cod, bandwidth |-> "0", frame_rate |-> fr]
  BY ONLY <1>11, <1>12, <1>13 DEF Unknown
<1> QED  BY <1>5, <1>9, <1>14 DEF params

(* A sequence of pairs, one after the other.                               *)
ArePairs(pairs, n, f, g) == Len(pairs) = n /\ \A i \in 1 .. n : pairs[i] = <<f[i], g[i]>>
Alternates(q, n, f, g, S) ==
  /\ q \in Seq(S) /\ Len(q) = 2 * n
  /\ \A i \in 1 .. n : q[2 * i - 1] = f[i] /\ q[2 * i] = g[i]

(* They alternate.                                                         *)
LEMMA FlattenPairs ==
  ASSUME NEW S, NEW n \in Nat, NEW f \in [1 .. n -> S], NEW g \in [1 .. n -> S],
         NEW pairs \in Seq(Seq(S)), ArePairs(pairs, n, f, g)
  PROVE  Alternates(FlattenSeq(pairs), n, f, g, S)
<1> DEFINE Has(q, k) == /\ Len(q) = 2 * k
                        /\ \A i \in 1 .. k : q[2 * i - 1] = f[i] /\ q[2 * i] = g[i]
           G == {x \in (0 .. n) \X Seq(S) : Has(x[2], x[1])}
<1>1. /\ pairs \in Seq(Seq(S)) /\ Len(pairs) = n
      /\ \A i \in 1 .. n : pairs[i] = <<f[i], g[i]>>
  BY DEF ArePairs
<1>G. \A k, q : <<k, q>> \in G <=> k \in 0 .. n /\ q \in Seq(S) /\ Has(q, k)
  OBVIOUS
<1> HIDE DEF G
<1>2. <<0, <<>>>> \in G
  <2>1. 0 \in 0 .. n /\ <<>> \in Seq(S) /\ Len(<<>>) = 2 * 0 /\ \A i \in 1 .. 0 : FALSE
    OBVIOUS
  <2> QED  BY <1>G, <2>1
<1>3. ASSUME NEW k \in 1 .. Len(pairs), NEW q \in Seq(S), <<k - 1, q>> \in G
      PROVE  <<k, q \o pairs[k]>> \in G
  <2> DEFINE b == <<f[k], g[k]>>
             p == q \o b
  <2>1. k \in 1 .. n /\ k \in 0 .. n /\ k \in Nat /\ k - 1 \in Nat
    BY <1>1
  <2>2. pairs[k] = b /\ b \in Seq(S) /\ Len(b) = 2 /\ b[1] = f[k] /\ b[2] = g[k]
    BY <1>1, <2>1
  <2>3. Has(q, k - 1)
    BY <1>3, <1>G
  <2> HIDE DEF b
  <2>4. /\ p \in Seq(S) /\ Len(p) = Len(q) + Len(b) /\ Len(q) \in Nat
        /\ \A i \in 1 .. Len(q) : p[i] = q[i]
        /\ \A i \in 1 .. Len(b) : p[Len(q) + i] = b[i]
    <3>1. q \in Seq(S) /\ b \in Seq(S)
      BY <2>2
    <3> QED  BY ONLY <3>1, Concat DEF p
  <2> HIDE DEF p
  <2>5. Len(q) = 2 * k - 2 /\ Len(p) = 2 * k
    BY <2>1, <2>2, <2>3, <2>4
  <2>6. p[2 * k - 1] = f[k] /\ p[2 * k] = g[k]
    <3>1. 1 \in 1 .. Len(b) /\ 2 \in 1 .. Len(b)
      BY <2>2
    <3>2. Len(q) + 1 = 2 * k - 1 /\ Len(q) + 2 = 2 * k
      BY <2>1, <2>5
    <3>3. p[Len(q) + 1] = b[1] /\ p[Len(q) + 2] = b[2]
      BY <2>4, <3>1
    <3> QED  BY <2>2, <3>2, <3>3
  <2>7. ASSUME NEW i \in 1 .. k - 1 PROVE p[2 * i - 1] = f[i] /\ p[2 * i] = g[i]
    <3>1. q[2 * i - 1] = f[i] /\ q[2 * i] = g[i]
      BY <2>3
    <3>2. 2 * i - 1 \in 1 .. Len(q) /\ 2 * i \in 1 .. Len(q)
      BY <2>1, <2>5
    <3> QED  BY <2>4, <3>1, <3>2
  <2>8. \A i \in 1 .. k : i \in 1 .. k - 1 \/ i = k
    BY <2>1
  <2>9. Has(p, k)
    BY <2>5, <2>6, <2>7, <2>8
  <2> QED  BY <1>G, <2>1, <2>2, <2>4, <2>9 DEF p
<1>4. FlattenSeq(pairs) \in Seq(S) /\ <<Len(pairs), FlattenSeq(pairs)>> \in G
  BY <1>1, <1>2, <1>3, FlattenFolds
<1>5. Has(FlattenSeq(pairs), n)
  BY <1>1, <1>4, <1>G
<1> QED  BY <1>4, <1>5 DEF Alternates

(* The lines of a playlist.                                                *)
FirstLine == Line("#EXTM3U", <<>>)
VersionLine == Line("#EXT-X-VERSION", <<":", "3">>)
UriLine(uri) == Line("uri", uri)
IsPlaylist(text, streams) ==
  /\ Len(text) = 2 + 2 * Len(streams)
  /\ text[1] = FirstLine /\ text[2] = VersionLine
  /\ \A i \in 1 .. Len(streams) : /\ text[1 + 2 * i] = StreamInf(streams[i].attributes)
                                  /\ text[2 + 2 * i] = UriLine(streams[i].uri)

(* What to_string writes for streams, line by line.                        *)
LEMMA PlaylistLines ==
  ASSUME NEW W, Marks \subseteq W, Numeral \subseteq W, NEW streams \in Seq(PlaylistEntry(W))
  PROVE  /\ PlaylistText(streams) \in Texts(W)
         /\ IsPlaylist(PlaylistText(streams), streams)
<1> DEFINE n == Len(streams)
           S == PlaylistLine(W)
           f == [i \in 1 .. n |-> StreamInf(streams[i].attributes)]
           g == [i \in 1 .. n |-> UriLine(streams[i].uri)]
           h == <<FirstLine, VersionLine>>
           pairs == [i \in 1 .. n |-> <<f[i], g[i]>>]
           q == FlattenSeq(pairs)
           t == h \o q
<1>1. n \in Nat /\ DOMAIN streams = 1 .. n /\ \A i \in 1 .. n : streams[i] \in PlaylistEntry(W)
  OBVIOUS
<1>2. ASSUME NEW tag \in Marks, NEW s \in Text(W) PROVE Line(tag, s) \in S
  BY <1>2 DEF Line, PlaylistLine
<1>3. h \in Seq(S) /\ Len(h) = 2 /\ h[1] = FirstLine /\ h[2] = VersionLine
  <2>1. "#EXTM3U" \in Marks /\ "#EXT-X-VERSION" \in Marks /\ ":" \in W /\ "3" \in W
    BY DEF Marks
  <2>2. <<>> \in Text(W) /\ <<":", "3">> \in Text(W)
    BY <2>1 DEF Text
  <2>3. FirstLine \in S /\ VersionLine \in S
    BY <1>2, <2>1, <2>2 DEF FirstLine, VersionLine
  <2> HIDE DEF S
  <2> QED  BY <2>3
<1>4. ASSUME NEW i \in 1 .. n
      PROVE  StreamInf(streams[i].attributes) \in S /\ UriLine(streams[i].uri) \in S
  <2>1. streams[i].attributes \in AttributesOf(W) /\ streams[i].uri \in Text(W)
    BY <1>1 DEF PlaylistEntry
  <2>2. "uri" \in Marks /\ "#EXT-X-STREAM-INF" \in Marks
    BY DEF Marks
  <2>3. UriLine(streams[i].uri) \in S
    BY <1>2, <2>1, <2>2 DEF UriLine
  <2> DEFINE a == streams[i].attributes
  <2>4. StreamInf(a).text \in Text(W)
    <3>1. a \in AttributesOf(W)
      BY <2>1
    <3> HIDE DEF a
    <3> QED  BY <3>1, StreamInfPieces
  <2>5. StreamInf(a) = Line("#EXT-X-STREAM-INF", StreamInf(a).text)
    BY DEF StreamInf, Line
  <2>6. StreamInf(a) \in S
    BY <1>2, <2>2, <2>4, <2>5
  <2> QED  BY <2>3, <2>6
<1>5. /\ f \in [1 .. n -> S] /\ g \in [1 .. n -> S]
      /\ \A i \in 1 .. n : f[i] = StreamInf(streams[i].attributes) /\ g[i] = UriLine(streams[i].uri)
  BY <1>4
<1>6. [i \in DOMAIN streams |-> <<StreamInf(streams[i].attributes), Line("uri", streams[i].uri)>>]
        = pairs
  BY <1>1, <1>5 DEF UriLine
<1>7. PlaylistText(streams) = t
  BY <1>6 DEF PlaylistText, FirstLine, VersionLine
<1> HIDE DEF f, g, h, S
<1>8. /\ q \in Seq(S) /\ Len(q) = 2 * n
      /\ \A i \in 1 .. n : q[2 * i - 1] = f[i] /\ q[2 * i] = g[i]
  <2>1. n \in Nat /\ f \in [1 .. n -> S] /\ g \in [1 .. n -> S]
    BY <1>1, <1>5
  <2> HIDE DEF n
  <2>2. \A i \in 1 .. n : /\ f[i] \in S /\ g[i] \in S
                          /\ pairs[i] = <<f[i], g[i]>> /\ pairs[i] \in Seq(S)
    BY <2>1
  <2>3. pairs = [i \in 1 .. n |-> pairs[i]]
    OBVIOUS
  <2>4. pairs \in [1 .. n -> Seq(S)]
    BY <2>2, <2>3
  <2> HIDE DEF pairs
  <2>5. pairs \in Seq(Seq(S)) /\ Len(pairs) = n
    BY <2>1, <2>4
  <2>6. ArePairs(pairs, n, f, g)
    BY <2>2, <2>5 DEF ArePairs
  <2>7. Alternates(q, n, f, g, S)
    BY ONLY <2>1, <2>5, <2>6, FlattenPairs DEF q
  <2> HIDE DEF q
  <2> QED  BY <2>7 DEF Alternates
<1> HIDE DEF n, q
<1>9. /\ t \in Seq(S) /\ Len(t) = Len(h) + Len(q)
      /\ \A i \in 1 .. Len(h) : t[i] = h[i]
      /\ \A i \in 1 .. Len(q) : t[Len(h) + i] = q[i]
  <2>1. h \in Seq(S) /\ q \in Seq(S)
    BY <1>3, <1>8
  <2> QED  BY ONLY <2>1, Concat DEF t
<1> HIDE DEF t
<1>10. Len(t) = 2 + 2 * n /\ t[1] = FirstLine /\ t[2] = VersionLine
  <2>1. 1 \in 1 .. Len(h) /\ 2 \in 1 .. Len(h)
    BY <1>3
  <2> QED  BY <1>1, <1>3, <1>8, <1>9, <2>1
<1>11. ASSUME NEW i \in 1 .. n PROVE t[1 + 2 * i] = f[i] /\ t[2 + 2 * i] = g[i]
  <2>1. 2 * i - 1 \in 1 .. Len(q) /\ 2 * i \in 1 .. Len(q)
        /\ Len(h) + (2 * i - 1) = 1 + 2 * i /\ Len(h) + 2 * i = 2 + 2 * i
    BY <1>1, <1>3, <1>8
  <2>2. t[Len(h) + (2 * i - 1)] = q[2 * i - 1] /\ t[Len(h) + 2 * i] = q[2 * i]
    BY <1>9, <2>1
  <2> QED  BY <1>8, <2>1, <2>2
<1>12. IsPlaylist(t, streams)
  BY <1>5, <1>10, <1>11 DEF IsPlaylist, n
<1> QED  BY <1>7, <1>9, <1>12 DEF Texts, S

(* What each kind of line that to_string writes does to the parser.        *)
LEMMA VersionRead ==
  ASSUME NEW W, NEW base
  PROVE  LET p == ReadLine(base, Parsing, FirstLine)
             q == ReadLine(base, p, VersionLine)
         IN  ~q.threw /\ q.idx = 2 /\ q.attributes = Unknown /\ q.streams = <<>>
<1> DEFINE p == ReadLine(base, Parsing, FirstLine)
           q == ReadLine(base, p, VersionLine)
           r == [p EXCEPT !.idx = p.idx + 1]
           g == [Parsing EXCEPT !.idx = Parsing.idx + 1]
           e == [r EXCEPT !.version = SetsVersion(VersionLine)]
<1>1. p = g
  BY DEF ReadLine, Parsing, FirstLine, Line
<1>2. Parsing \in LinesParsed(W)
  BY NumeralAssumption DEF Parsing, LinesParsed, Unknown, AttributesOf, Text
<1>3. /\ ~Parsing.threw /\ Parsing.idx = 0 /\ ~Parsing.version
      /\ Parsing.attributes = Unknown /\ Parsing.streams = <<>>
  BY DEF Parsing
<1>4. g \in LinesParsed(W) /\ ~g.threw /\ g.idx = 1 /\ ~g.version
      /\ g.attributes = Unknown /\ g.streams = <<>>
  BY <1>2, <1>3 DEF LinesParsed
<1>5. VersionLine.tag = "#EXT-X-VERSION"
  BY DEF VersionLine, Line
<1> HIDE DEF p, g
<1>6. q = e
  BY <1>1, <1>4, <1>5 DEF ReadLine, DuplicateVersion
<1>7. r \in LinesParsed(W) /\ ~r.threw /\ r.idx = 2 /\ r.attributes = Unknown
      /\ r.streams = <<>>
  BY <1>1, <1>4 DEF LinesParsed
<1>8. SetsVersion(VersionLine) \in BOOLEAN
  BY DEF SetsVersion, HasColon, Contains
<1> HIDE DEF r
<1>9. ~e.threw /\ e.idx = 2 /\ e.attributes = Unknown /\ e.streams = <<>>
  BY <1>7, <1>8 DEF LinesParsed
<1> QED  BY <1>6, <1>9 DEF p

(* The line of a stream sets the attributes.                               *)
LEMMA StreamInfRead ==
  ASSUME NEW W, NEW p \in LinesParsed(W), NEW base, NEW line, ~p.threw, p.idx > 0,
         line.tag = "#EXT-X-STREAM-INF", HasColon(line)
  PROVE  LET q == ReadLine(base, p, line)
         IN  /\ ~q.threw /\ q.idx = p.idx + 1 /\ q.streams = p.streams
             /\ q.attributes = FoldLeft(SetAttribute, p.attributes, ParseParameters(AfterColon(line)))
<1> DEFINE r == [p EXCEPT !.idx = p.idx + 1]
           parsed == FoldLeft(SetAttribute, r.attributes, ParseParameters(AfterColon(line)))
           e == [r EXCEPT !.attributes = parsed]
<1>1. ReadLine(base, p, line) = e
  BY DEF ReadLine
<1>2. r \in LinesParsed(W) /\ ~r.threw /\ r.idx = p.idx + 1 /\ r.streams = p.streams
      /\ r.attributes = p.attributes
  BY DEF LinesParsed
<1>3. parsed = FoldLeft(SetAttribute, p.attributes, ParseParameters(AfterColon(line)))
  BY <1>2
<1> HIDE DEF r, parsed
<1>4. ~e.threw /\ e.idx = r.idx /\ e.streams = r.streams /\ e.attributes = parsed
  BY <1>2 DEF LinesParsed
<1> QED  BY <1>1, <1>2, <1>3, <1>4

(* A path ends the stream.                                                 *)
LEMMA UriRead ==
  ASSUME NEW W, NEW p \in LinesParsed(W), NEW base, NEW uri, ~p.threw, p.idx > 0
  PROVE  LET q == ReadLine(base, p, UriLine(uri))
         IN  /\ ~q.threw /\ q.idx = p.idx + 1 /\ q.attributes = Unknown
             /\ q.streams = Append(p.streams, Entry(base \o uri, p.attributes))
<1> DEFINE r == [p EXCEPT !.idx = p.idx + 1]
           appended == Append(r.streams, Entry(base \o uri, p.attributes))
           e == [r EXCEPT !.streams = appended, !.attributes = Unknown]
<1>1. UriLine(uri).tag = "uri" /\ UriLine(uri).text = uri
  BY DEF UriLine, Line
<1>2. ReadLine(base, p, UriLine(uri)) = e
  BY <1>1 DEF ReadLine
<1>3. r \in LinesParsed(W) /\ ~r.threw /\ r.idx = p.idx + 1 /\ r.streams = p.streams
  BY DEF LinesParsed
<1>4. appended = Append(p.streams, Entry(base \o uri, p.attributes))
  BY <1>3
<1> HIDE DEF r, appended
<1>5. ~e.threw /\ e.idx = r.idx /\ e.streams = appended /\ e.attributes = Unknown
  BY <1>3 DEF LinesParsed
<1> QED  BY <1>2, <1>3, <1>4, <1>5

(* A playlist that is written, parsed again: the streams in their order,   *)
(* and of each what is shown of it.                                        *)
Shows(s, written) ==
  /\ s.uri = written.uri
  /\ NoComma(written.attributes.resolution) =>
       s = Entry(written.uri, AsShown(written.attributes))
ReadsBack(p, k, streams) ==
  /\ ~p.threw /\ Len(p.streams) = k
  /\ \A i \in 1 .. k : Shows(p.streams[i], streams[i])
BetweenStreams(p, k, streams) ==
  p.idx = 2 + 2 * k /\ p.attributes = Unknown /\ ReadsBack(p, k, streams)

(* One stream is read back.                                                *)
LEMMA OneReadBack ==
  ASSUME NEW W, Marks \subseteq W, Numeral \subseteq W, NEW streams \in Seq(PlaylistEntry(W)),
         NEW k \in 1 .. Len(streams), NEW p \in LinesParsed(W), NEW base, base = <<>>,
         BetweenStreams(p, k - 1, streams)
  PROVE  LET q == ReadLine(base, p, StreamInf(streams[k].attributes))
         IN  q \in LinesParsed(W) =>
               BetweenStreams(ReadLine(base, q, UriLine(streams[k].uri)), k, streams)
<1> DEFINE a == streams[k].attributes
           uri == streams[k].uri
           q == ReadLine(base, p, StreamInf(a))
           r == ReadLine(base, q, UriLine(uri))
           e == Entry(base \o uri, q.attributes)
<1> SUFFICES ASSUME q \in LinesParsed(W) PROVE BetweenStreams(r, k, streams)
  OBVIOUS
<1>1. /\ p.idx = 2 + 2 * (k - 1) /\ p.attributes = Unknown /\ ~p.threw /\ Len(p.streams) = k - 1
      /\ \A i \in 1 .. (k - 1) : Shows(p.streams[i], streams[i])
  BY DEF BetweenStreams, ReadsBack
<1>2. k \in Nat /\ k > 0 /\ p.idx > 0 /\ p.idx + 2 = 2 + 2 * k
  BY <1>1
<1>3. a \in AttributesOf(W) /\ uri \in Text(W)
  <2>1. streams[k] \in PlaylistEntry(W)
    OBVIOUS
  <2> QED  BY <2>1 DEF PlaylistEntry
<1> HIDE DEF a, uri
<1>4. HasColon(StreamInf(a))
  BY <1>3, AfterColonPieces
<1>5. StreamInf(a).tag = "#EXT-X-STREAM-INF"
  BY DEF StreamInf, Line
<1> DEFINE l == StreamInf(a)
<1>6. /\ ~q.threw /\ q.idx = p.idx + 1 /\ q.streams = p.streams
      /\ q.attributes = FoldLeft(SetAttribute, p.attributes, ParseParameters(AfterColon(l)))
  <2> HIDE DEF l
  <2>1. HasColon(l) /\ l.tag = "#EXT-X-STREAM-INF" /\ ~p.threw /\ p.idx > 0
    BY <1>1, <1>2, <1>4, <1>5 DEF l
  <2>2. LET x == ReadLine(base, p, l)
         IN  /\ ~x.threw /\ x.idx = p.idx + 1 /\ x.streams = p.streams
             /\ x.attributes = FoldLeft(SetAttribute, p.attributes, ParseParameters(AfterColon(l)))
    BY <2>1, StreamInfRead
  <2> QED  BY <2>2 DEF l
<1>7. NoComma(a.resolution) => q.attributes = AsShown(a)
  BY <1>1, <1>3, <1>6, AttributesRead
<1> HIDE DEF l, q
<1>8. /\ ~r.threw /\ r.idx = q.idx + 1 /\ r.attributes = Unknown
      /\ r.streams = Append(q.streams, e)
  <2>1. q.idx > 0 /\ ~q.threw
    BY <1>1, <1>2, <1>6
  <2>2. LET x == ReadLine(base, q, UriLine(uri))
        IN  /\ ~x.threw /\ x.idx = q.idx + 1 /\ x.attributes = Unknown
            /\ x.streams = Append(q.streams, Entry(base \o uri, q.attributes))
    BY <2>1, UriRead
  <2> QED  BY <2>2
<1>9. base \o uri = uri
  BY <1>3 DEF Text
<1>10. Shows(e, streams[k])
  BY <1>7, <1>9 DEF Shows, Entry, a, uri
<1> HIDE DEF r, e
<1>11. /\ Len(r.streams) = k /\ r.streams[k] = e
       /\ \A i \in 1 .. (k - 1) : r.streams[i] = p.streams[i]
  <2>1. p.streams \in Seq(PlaylistEntry(W))
    BY DEF LinesParsed
  <2> DEFINE s == p.streams
  <2>2. s \in Seq(PlaylistEntry(W)) /\ Len(s) = k - 1 /\ r.streams = Append(s, e)
    BY <1>1, <1>6, <1>8, <2>1
  <2> HIDE DEF s
  <2>3. /\ Len(r.streams) = k /\ r.streams[k] = e
        /\ \A i \in 1 .. (k - 1) : r.streams[i] = s[i]
    BY <1>2, <2>2
  <2> QED  BY <2>3 DEF s
<1>12. \A i \in 1 .. k : i = k \/ i \in 1 .. (k - 1)
  BY <1>2
<1>13. \A i \in 1 .. k : Shows(r.streams[i], streams[i])
  BY <1>1, <1>10, <1>11, <1>12
<1>14. r.idx = 2 + 2 * k
  BY <1>1, <1>2, <1>6, <1>8
<1>15. BetweenStreams(r, k, streams)
  BY <1>8, <1>11, <1>13, <1>14 DEF BetweenStreams, ReadsBack
<1> QED  BY <1>15 DEF r, q, a, uri

(* All streams are read back.                                              *)
LEMMA PlaylistReadsBack ==
  ASSUME NEW W, Marks \subseteq W, Numeral \subseteq W, NEW streams \in Seq(PlaylistEntry(W))
  PROVE  ReadsBack(Parse(PlaylistText(streams), <<>>), Len(streams), streams)
<1> DEFINE text == PlaylistText(streams)
           n == Len(streams)
           base == <<>>
<1>1. text \in Texts(W) /\ IsPlaylist(text, streams)
  BY PlaylistLines
<1>2. base \in Text(W) /\ n \in Nat
  BY DEF Text
<1> HIDE DEF text
<1>b. base = <<>>
  OBVIOUS
<1> HIDE DEF base
<1>3. PICK T : ReadsLines(T, W, base, text)
  BY <1>1, <1>2, ParseSteps
<1>4. /\ Len(text) = 2 + 2 * n /\ text[1] = FirstLine /\ text[2] = VersionLine
      /\ \A k \in 1 .. n : /\ text[1 + 2 * k] = StreamInf(streams[k].attributes)
                           /\ text[2 + 2 * k] = UriLine(streams[k].uri)
  BY <1>1 DEF IsPlaylist
<1>5. /\ T \in [0 .. Len(text) -> LinesParsed(W)] /\ T[0] = Parsing
      /\ Parse(text, base) = T[Len(text)]
      /\ \A k \in 1 .. Len(text) : T[k] = ReadLine(base, T[k - 1], text[k])
  BY <1>3 DEF ReadsLines
<1> DEFINE P == {k \in 0 .. n : BetweenStreams(T[2 + 2 * k], k, streams)}
<1>6. 0 \in P
  <2>1. 1 \in 1 .. Len(text) /\ 2 \in 1 .. Len(text) /\ 1 - 1 = 0 /\ 2 - 1 = 1
    BY <1>2, <1>4
  <2>2. T[1] = ReadLine(base, T[1 - 1], text[1]) /\ T[2] = ReadLine(base, T[2 - 1], text[2])
    BY <1>5, <2>1
  <2>3. T[1] = ReadLine(base, Parsing, FirstLine) /\ T[2] = ReadLine(base, T[1], VersionLine)
    BY <1>4, <1>5, <2>1, <2>2
  <2>4. ~T[2].threw /\ T[2].idx = 2 /\ T[2].attributes = Unknown /\ T[2].streams = <<>>
    BY <2>3, VersionRead
  <2>5. 2 + 2 * 0 = 2 /\ 0 \in 0 .. n /\ Len(<<>>) = 0 /\ 1 .. 0 = {}
    BY <1>2
  <2>6. ReadsBack(T[2], 0, streams)
    BY <2>4, <2>5 DEF ReadsBack
  <2>7. BetweenStreams(T[2 + 2 * 0], 0, streams)
    BY <2>4, <2>5, <2>6 DEF BetweenStreams
  <2> QED  BY <2>5, <2>7
<1>7. ASSUME NEW k \in 1 .. n, k - 1 \in P PROVE k \in P
  <2> DEFINE p == T[2 * k]
             q == T[1 + 2 * k]
             r == T[2 + 2 * k]
  <2>1. /\ 2 * k \in 0 .. Len(text) /\ 1 + 2 * k \in 1 .. Len(text) /\ 2 + 2 * k \in 1 .. Len(text)
        /\ 1 + 2 * k \in 0 .. Len(text) /\ (1 + 2 * k) - 1 = 2 * k /\ (2 + 2 * k) - 1 = 1 + 2 * k
        /\ 2 + 2 * (k - 1) = 2 * k
    BY <1>2, <1>4
  <2>2. BetweenStreams(p, k - 1, streams)
    BY <1>7, <2>1
  <2>3. p \in LinesParsed(W) /\ q \in LinesParsed(W)
    BY <1>5, <2>1
  <2>4. /\ T[1 + 2 * k] = ReadLine(base, T[(1 + 2 * k) - 1], text[1 + 2 * k])
        /\ T[2 + 2 * k] = ReadLine(base, T[(2 + 2 * k) - 1], text[2 + 2 * k])
    BY <1>5, <2>1
  <2>5. /\ q = ReadLine(base, p, StreamInf(streams[k].attributes))
        /\ r = ReadLine(base, q, UriLine(streams[k].uri))
    BY <1>4, <2>1, <2>4
  <2> HIDE DEF p, q, r
  <2>6. BetweenStreams(r, k, streams)
    BY <1>b, <2>2, <2>3, <2>5, OneReadBack
  <2> QED  BY <1>2, <2>6 DEF r
<1> HIDE DEF P
<1>8. n \in P
  BY <1>2, <1>6, <1>7, UpTo
<1>9. ReadsBack(T[2 + 2 * n], n, streams)
  BY <1>8 DEF P, BetweenStreams
<1>10. ReadsBack(Parse(text, base), n, streams)
  BY <1>4, <1>5, <1>9
<1> QED  BY <1>10 DEF base, text

(* The elements of a set, each once, in a sequence.                        *)
Lists(q, s) ==
  /\ IsFiniteSet(s) /\ Len(q) = Cardinality(s)
  /\ \A j \in 1 .. Len(q) : q[j] \in s
  /\ \A x \in s : \E j \in 1 .. Len(q) : q[j] = x

(* One element more.                                                       *)
LEMMA ListsMore ==
  ASSUME NEW S, NEW q \in Seq(S), NEW s, Lists(q, s), NEW x \in S, x \notin s
  PROVE  Lists(q \o <<x>>, s \cup {x})
<1> DEFINE r == q \o <<x>>
           t == s \cup {x}
           n == Len(q)
<1>1. /\ IsFiniteSet(s) /\ n = Cardinality(s) /\ n \in Nat
      /\ \A j \in 1 .. n : q[j] \in s
      /\ \A y \in s : \E j \in 1 .. n : q[j] = y
  BY DEF Lists
<1>2. IsFiniteSet(t) /\ Cardinality(t) = Cardinality(s) + 1
  BY <1>1, FS_AddElement
<1>3. Len(r) = n + 1 /\ r[n + 1] = x /\ \A j \in 1 .. n : r[j] = q[j]
  OBVIOUS
<1>4. \A y : y \in t <=> y \in s \/ y = x
  OBVIOUS
<1> HIDE DEF r, t, n
<1>5. \A j \in 1 .. (n + 1) : j \in 1 .. n \/ j = n + 1
  BY <1>1
<1>6. ASSUME NEW j \in 1 .. Len(r) PROVE r[j] \in t
  BY <1>1, <1>3, <1>4, <1>5
<1>7. ASSUME NEW y \in t PROVE \E j \in 1 .. Len(r) : r[j] = y
  <2>1. CASE y = x
    <3>1. n + 1 \in 1 .. Len(r)
      BY <1>1, <1>3
    <3> QED  BY <1>3, <2>1, <3>1
  <2>2. CASE y \in s
    <3>1. PICK j \in 1 .. n : q[j] = y
      BY <1>1, <2>2
    <3>2. j \in 1 .. Len(r) /\ r[j] = y
      BY <1>1, <1>3, <3>1
    <3> QED  BY <3>2
  <2> QED  BY <1>4, <2>1, <2>2
<1>8. Lists(r, t)
  BY <1>1, <1>2, <1>3, <1>6, <1>7 DEF Lists
<1> QED  BY <1>8 DEF r, t

(* The paths of a set of streams in the order of Paths.                    *)
Ordered(D) ==
  FlattenSeq([i \in DOMAIN Paths |-> IF Paths[i] \in D THEN <<Paths[i]>> ELSE <<>>])

(* Each path of the set is there once, since Paths has each once.          *)
LEMMA OrderedLists ==
  ASSUME NEW D \in SUBSET Range(Paths)
  PROVE  Ordered(D) \in Seq(Text(STRING)) /\ Lists(Ordered(D), D)
<1> DEFINE S == Text(STRING)
           n == Len(Paths)
           blocks == [i \in DOMAIN Paths |-> IF Paths[i] \in D THEN <<Paths[i]>> ELSE <<>>]
           Upto(k) == {Paths[i] : i \in 1 .. k} \cap D
           G == {x \in (0 .. n) \X Seq(S) : Lists(x[2], Upto(x[1]))}
<1>1. n \in Nat /\ DOMAIN Paths = 1 .. n /\ \A i \in 1 .. n : Paths[i] \in S
  BY ConstantsAssumption DEF Text
<1>2. \A i, j \in 1 .. n : Paths[i] = Paths[j] => i = j
  BY <1>1, ConstantsAssumption
<1>3. \A k, q : <<k, q>> \in G <=> k \in 0 .. n /\ q \in Seq(S) /\ Lists(q, Upto(k))
  OBVIOUS
<1>4. \A i \in 1 .. n : blocks[i] = IF Paths[i] \in D THEN <<Paths[i]>> ELSE <<>>
  BY <1>1
<1>5. blocks \in Seq(Seq(S)) /\ Len(blocks) = n
  <2>1. \A i \in 1 .. n : blocks[i] \in Seq(S)
    <3> HIDE DEF blocks, S
    <3>1. \A x \in S : <<x>> \in Seq(S) /\ <<>> \in Seq(S)
      OBVIOUS
    <3>2. ASSUME NEW i \in 1 .. n PROVE blocks[i] \in Seq(S)
      <4>1. Paths[i] \in S
        BY <1>1
      <4>2. <<Paths[i]>> \in Seq(S) /\ <<>> \in Seq(S)
        BY <3>1, <4>1
      <4>3. blocks[i] = <<Paths[i]>> \/ blocks[i] = <<>>
        BY <1>4
      <4> QED  BY <4>2, <4>3, Zenon
    <3> QED  BY <3>2
  <2>2. blocks = [i \in 1 .. n |-> blocks[i]]
    BY <1>1
  <2>3. blocks \in [1 .. n -> Seq(S)]
    <3> HIDE DEF blocks, S
    <3> QED  BY <2>1, <2>2
  <2> HIDE DEF blocks, S
  <2> QED  BY <1>1, <2>3
<1>6. Ordered(D) = FlattenSeq(blocks)
  BY DEF Ordered
<1> HIDE DEF blocks, S, n, G
<1>7. <<0, <<>>>> \in G
  <2>1. Upto(0) = {} /\ 0 \in 0 .. n /\ <<>> \in Seq(S) /\ Len(<<>>) = 0
    BY <1>1
  <2>2. Lists(<<>>, {})
    BY FS_EmptySet DEF Lists
  <2>3. Lists(<<>>, Upto(0))
    BY <2>1, <2>2, Zenon
  <2> HIDE DEF Upto
  <2> QED  BY <1>3, <2>1, <2>3
<1>8. ASSUME NEW k \in 1 .. Len(blocks), NEW q \in Seq(S), <<k - 1, q>> \in G
      PROVE  <<k, q \o blocks[k]>> \in G
  <2>1. k \in 1 .. n /\ k \in 0 .. n
    BY <1>1, <1>5
  <2>2. \A i : i \in 1 .. k <=> i \in 1 .. (k - 1) \/ i = k
    BY <1>1, <2>1
  <2>3. Lists(q, Upto(k - 1))
    BY <1>3, <1>8
  <2>4. CASE Paths[k] \in D
    <3> DEFINE x == Paths[k]
               s == Upto(k - 1)
    <3>1. Upto(k) = s \cup {x}
      BY <2>2, <2>4
    <3>2. x \notin s
      <4>1. \A i \in 1 .. (k - 1) : Paths[i] # Paths[k]
        BY <1>1, <1>2, <2>1
      <4> QED  BY <4>1
    <3>3. x \in S
      BY <1>1, <2>1
    <3>4. blocks[k] = <<x>>
      BY <1>4, <2>1, <2>4
    <3> HIDE DEF s, x
    <3>5. Lists(q, s)
      BY <2>3 DEF s
    <3>6. Lists(q \o <<x>>, s \cup {x})
      BY <3>2, <3>3, <3>5, ListsMore
    <3>7. q \o <<x>> \in Seq(S)
      BY <3>3
    <3>8. Lists(q \o <<x>>, Upto(k))
      BY <3>1, <3>6, Zenon
    <3> HIDE DEF Upto
    <3> QED  BY <1>3, <2>1, <3>4, <3>7, <3>8
  <2>5. CASE Paths[k] \notin D
    <3>1. Upto(k) = Upto(k - 1)
      BY <2>2, <2>5
    <3>2. blocks[k] = <<>>
      BY <1>4, <2>1, <2>5
    <3>3. q \o blocks[k] = q
      BY <3>2
    <3>4. Lists(q, Upto(k))
      BY <2>3, <3>1, Zenon
    <3> HIDE DEF Upto
    <3> QED  BY <1>3, <2>1, <3>3, <3>4
  <2> QED  BY <2>4, <2>5
<1> HIDE DEF Upto
<1>9. FlattenSeq(blocks) \in Seq(S) /\ <<Len(blocks), FlattenSeq(blocks)>> \in G
  BY <1>5, <1>7, <1>8, FlattenFolds
<1>10. Lists(FlattenSeq(blocks), Upto(n))
  BY <1>3, <1>5, <1>9
<1>11. Upto(n) = D
  BY <1>1 DEF Upto, Range
<1>12. Lists(FlattenSeq(blocks), D)
  BY <1>10, <1>11, Zenon
<1> QED  BY <1>6, <1>9, <1>12 DEF S

(* Types with more tokens.                                                 *)
LEMMA SeqMonotone ==
  ASSUME NEW A, NEW B, A \subseteq B, NEW t \in Seq(A)
  PROVE  t \in Seq(B)
<1>1. Len(t) \in Nat /\ t \in [1 .. Len(t) -> A]
  OBVIOUS
<1>2. t \in [1 .. Len(t) -> B]
  BY <1>1
<1> QED  BY <1>1, <1>2

LEMMA AttributesMonotone ==
  ASSUME NEW A, NEW B, A \subseteq B,
         NEW a \in [resolution : A, codecs : A, bandwidth : Numeral, frame_rate : Numeral]
  PROVE  a \in [resolution : B, codecs : B, bandwidth : Numeral, frame_rate : Numeral]
OBVIOUS

(* The tokens of a manifest are written ones.                              *)
LEMMA ManifestTokens ==
  /\ Marks \subseteq WrittenTokens /\ Numeral \subseteq WrittenTokens
  /\ \A t \in Text(STRING) : <<"/">> \o t \in Text(WrittenTokens)
  /\ \A a \in AttributesOf(STRING) : a \in AttributesOf(WrittenTokens)
<1> DEFINE W == WrittenTokens
           V == ValueTokens(STRING)
           U == ValueTokens(W)
<1>1. Marks \subseteq W /\ Numeral \subseteq W /\ STRING \subseteq W
  BY DEF WrittenTokens
<1>2. V \subseteq U
  BY <1>1 DEF ValueTokens
<1>3. "/" \in W
  BY <1>1 DEF Marks
<1> HIDE DEF V, U, W
<1>4. \A t : t \in Seq(STRING) => t \in Seq(W)
  BY <1>1, SeqMonotone
<1>5. \A t : t \in Seq(V) => t \in Seq(U)
  BY <1>2, SeqMonotone
<1>6. \A t \in Text(STRING) : <<"/">> \o t \in Text(W)
  <2>1. <<"/">> \in Seq(W)
    BY <1>3
  <2>2. ASSUME NEW t \in Text(STRING) PROVE <<"/">> \o t \in Seq(W)
    <3>1. t \in Seq(W)
      BY <1>4 DEF Text
    <3> QED  BY <2>1, <3>1, Concat
  <2> QED  BY <2>2 DEF Text
<1>7. \A a \in AttributesOf(STRING) : a \in AttributesOf(W)
  <2>1. /\ AttributesOf(STRING) = [resolution : Seq(V), codecs : Seq(V), bandwidth : Numeral,
                                   frame_rate : Numeral]
        /\ AttributesOf(W) = [resolution : Seq(U), codecs : Seq(U), bandwidth : Numeral,
                              frame_rate : Numeral]
    BY DEF AttributesOf, Text, V, U
  <2>2. Seq(V) \subseteq Seq(U)
    BY <1>5
  <2>3. \A a \in AttributesOf(STRING) : a \in AttributesOf(W)
    BY ONLY <2>1, <2>2, AttributesMonotone
  <2> QED  BY <2>3
<1> QED  BY <1>1, <1>6, <1>7 DEF W

(* The manifest recreated, parsed again: all streams and no other.         *)
IsShown(streams, path, attributes) ==
  \E i \in 1 .. Len(streams) :
    Shows(streams[i], Entry(<<"/">> \o path, attributes))
ShowsAll(shown, streams) ==
  /\ ~shown.threw
  /\ Len(shown.streams) = Cardinality(DOMAIN streams)
  /\ \A p \in DOMAIN streams : IsShown(shown.streams, p, streams[p].attributes)

(* The manifest that is recreated, parsed again, has all streams.          *)
LEMMA RecreatedShows ==
  ASSUME NEW streams, DOMAIN streams \subseteq Range(Paths),
         \A p \in DOMAIN streams : streams[p].attributes \in AttributesOf(STRING)
  PROVE  ShowsAll(Parse(Recreated(streams), <<>>), streams)
<1> DEFINE D == DOMAIN streams
           W == WrittenTokens
           o == Ordered(D)
           F(p) == Entry(<<"/">> \o p, streams[p].attributes)
           q == [i \in DOMAIN o |-> F(o[i])]
           shown == Parse(PlaylistText(q), <<>>)
<1>1. o \in Seq(Text(STRING)) /\ Lists(o, D)
  BY OrderedLists
<1>2. Recreated(streams) = PlaylistText(q)
  BY DEF Recreated, Ordered
<1> HIDE DEF o
<1>3. /\ Len(o) \in Nat /\ DOMAIN o = 1 .. Len(o) /\ Len(o) = Cardinality(D)
      /\ \A i \in 1 .. Len(o) : o[i] \in D /\ o[i] \in Text(STRING)
      /\ \A p \in D : \E i \in 1 .. Len(o) : o[i] = p
  BY <1>1 DEF Lists
<1>4. \A i \in 1 .. Len(o) : F(o[i]) \in PlaylistEntry(W)
  <2> SUFFICES ASSUME NEW i \in 1 .. Len(o) PROVE F(o[i]) \in PlaylistEntry(W)
    OBVIOUS
  <2>1. <<"/">> \o o[i] \in Text(W) /\ streams[o[i]].attributes \in AttributesOf(W)
    BY <1>3, ManifestTokens
  <2> QED  BY <2>1 DEF Entry, PlaylistEntry
<1> HIDE DEF F, D
<1>5. q \in Seq(PlaylistEntry(W)) /\ Len(q) = Len(o) /\ \A i \in 1 .. Len(o) : q[i] = F(o[i])
  <2>1. q = [i \in 1 .. Len(o) |-> F(o[i])]
    BY <1>3
  <2>2. q \in [1 .. Len(o) -> PlaylistEntry(W)] /\ \A i \in 1 .. Len(o) : q[i] = F(o[i])
    BY <1>4, <2>1
  <2> HIDE DEF q
  <2> QED  BY <1>3, <2>2
<1> HIDE DEF q
<1>6. ReadsBack(shown, Len(q), q)
  <2>1. Marks \subseteq W /\ Numeral \subseteq W
    BY ManifestTokens
  <2> QED  BY <1>5, <2>1, PlaylistReadsBack
<1> HIDE DEF shown
<1>7. /\ ~shown.threw /\ Len(shown.streams) = Len(o)
      /\ \A i \in 1 .. Len(o) : Shows(shown.streams[i], F(o[i]))
  BY <1>5, <1>6 DEF ReadsBack
<1>8. ASSUME NEW p \in D PROVE IsShown(shown.streams, p, streams[p].attributes)
  <2>1. PICK i \in 1 .. Len(o) : o[i] = p
    BY <1>3
  <2>2. i \in 1 .. Len(shown.streams) /\ Shows(shown.streams[i], F(p))
    BY <1>7, <2>1
  <2> QED  BY <2>2 DEF IsShown, F
<1>9. ShowsAll(shown, streams)
  BY <1>3, <1>7, <1>8 DEF ShowsAll, D
<1> QED  BY <1>2, <1>9 DEF shown

(***************************************************************************)
(* All streams are in the manifest, and stay there.                        *)
(***************************************************************************)

(* What a step that starts a stream does to what is shown.                 *)
Stays == plan' = Tail(plan) /\ UNCHANGED <<setting, received, primary>>
AddsStream(path, value) ==
  /\ DOMAIN content_streams' = DOMAIN content_streams \cup {path}
  /\ \A p \in DOMAIN content_streams' :
       content_streams'[p] = IF p = path THEN value ELSE content_streams[p]
  /\ HLS => manifest'.text = Recreated(content_streams')
StartedAttributes(path, bandwidth, frame_rate) ==
  IF Matches(path) THEN LastMatch(path) ELSE Uninitialised(bandwidth, frame_rate)

LEMMA StartOutcome ==
  ASSUME NEW bandwidth, NEW frame_rate, StartStream(bandwidth, frame_rate)
  PROVE  LET c    == plan[1]
             path == PlaylistPath(c.parts)
         IN  /\ plan # <<>> /\ c.call = "stream"
             /\ \/ Terminate
                \/ Stays /\ ~Starts(c.parts) /\ UNCHANGED <<content_streams, manifest>>
                \/ /\ Stays /\ Starts(c.parts)
                   /\ \E value : /\ value.attributes = StartedAttributes(path, bandwidth, frame_rate)
                                 /\ AddsStream(path, value)
<1> DEFINE c == plan[1]
           path == PlaylistPath(c.parts)
           value == [attributes |-> StartedAttributes(path, bandwidth, frame_rate),
                     session    |-> SessionOf(c.parts)]
<1>1. plan # <<>> /\ c.call = "stream"
  BY DEF StartStream
<1>2. CASE Unreadable(c.parts)
  BY <1>1, <1>2 DEF StartStream
<1>3. CASE ~Unreadable(c.parts) /\ ~Starts(c.parts)
  <2>1. Stays /\ UNCHANGED <<content_streams, manifest>>
    BY <1>3 DEF StartStream, Starts, Stays
  <2> QED  BY <1>1, <1>3, <2>1
<1>4. CASE ~Unreadable(c.parts) /\ Starts(c.parts)
  <2>1. /\ Stays
        /\ content_streams' = [p \in DOMAIN content_streams \cup {path} |->
                                 IF p = path THEN value ELSE content_streams[p]]
        /\ manifest' = [text     |-> IF HLS THEN Recreated(Listed(content_streams', path)) ELSE primary,
                        assigned |-> manifest.assigned + 1]
    BY <1>4 DEF StartStream, Starts, Stays, StartedAttributes
  <2>2. value.attributes = StartedAttributes(path, bandwidth, frame_rate)
    OBVIOUS
  <2> HIDE DEF value, path
  <2>3. /\ DOMAIN content_streams' = DOMAIN content_streams \cup {path}
        /\ \A p \in DOMAIN content_streams' :
             content_streams'[p] = IF p = path THEN value ELSE content_streams[p]
    BY <2>1
  <2>4. HLS => manifest'.text = Recreated(content_streams')
    BY <2>1 DEF Listed
  <2>5. AddsStream(path, value)
    BY <2>3, <2>4 DEF AddsStream
  <2> QED  BY <1>1, <1>4, <2>1, <2>2, <2>5 DEF path
<1> QED  BY <1>2, <1>3, <1>4

(* The manifest is that of the streams there are.                          *)
ManifestInv == HLS /\ content_streams # <<>> => manifest.text = Recreated(content_streams)

(* A manifest is made whenever a stream is started.                        *)
LEMMA ManifestStep == ManifestInv /\ [Next]_vars => ManifestInv'
<1> SUFFICES ASSUME ManifestInv, [Next]_vars PROVE ManifestInv'
  OBVIOUS
<1>1. ASSUME UNCHANGED <<setting, content_streams, manifest>> PROVE ManifestInv'
  <2>1. HLS' <=> HLS
    BY <1>1, SettingKept
  <2>2. Recreated(content_streams)' = Recreated(content_streams')
    BY DEF Recreated
  <2> QED  BY <1>1, <2>1, <2>2 DEF ManifestInv
<1>2. ASSUME NEW bandwidth, NEW frame_rate, StartStream(bandwidth, frame_rate)
      PROVE  ManifestInv'
  <2>1. CASE Terminate
    BY <1>1, <2>1 DEF Terminate
  <2>2. CASE Stays /\ UNCHANGED <<content_streams, manifest>>
    BY <1>1, <2>2 DEF Stays
  <2>3. ASSUME NEW path, NEW value, Stays, AddsStream(path, value) PROVE ManifestInv'
    <3>1. HLS' <=> HLS
      BY <2>3, SettingKept DEF Stays
    <3>2. HLS => manifest'.text = Recreated(content_streams')
      BY <2>3 DEF AddsStream
    <3> QED  BY <3>1, <3>2 DEF ManifestInv
  <2> QED  BY <1>2, <2>1, <2>2, <2>3, StartOutcome
<1>3. CASE ReadMaster
  BY <1>1, <1>3 DEF ReadMaster, Terminate
<1>4. CASE Receive \/ ClockTick \/ Expire \/ ExpireAtTurn
  BY <1>1, <1>4 DEF Receive, ClockTick, Expire, ExpireAtTurn
<1>5. ASSUME NEW mpd, FluteMpd(mpd) PROVE ManifestInv'
  BY <1>1, <1>5 DEF FluteMpd
<1>6. CASE Find \/ TakeFirst("buffer") \/ TakeFirst("length") \/ TakeSecond \/ Sent
  BY <1>1, <1>6 DEF Find, TakeFirst, TakeSecond, Sent, UnchangedByGet
<1>7. CASE UNCHANGED vars
  BY <1>1, <1>7 DEF vars
<1> QED  BY <1>2, <1>3, <1>4, <1>5, <1>6, <1>7 DEF Next

(* The text of the manifest shows all streams.                             *)
LEMMA ManifestShows ==
  ASSUME StreamInv, ManifestInv, HLS, content_streams # <<>>
  PROVE  ShowsAll(Shown, content_streams)
<1>1. manifest.text = Recreated(content_streams)
  BY DEF ManifestInv
<1>2. ShowsAll(Parse(Recreated(content_streams), <<>>), content_streams)
  BY RecreatedShows DEF StreamInv
<1> QED  BY <1>1, <1>2 DEF Shown

(* A stream of the newest announcement is still to be started; all others  *)
(* that have a source are there.                                           *)
IsStarted(a, i) == Starts(PartsOf(a, a, i)) => PathOf(a, a, i) \in DOMAIN content_streams
StartedInv ==
  \A a \in 1 .. received : \A i \in DOMAIN setting.announcements[a].streams :
    (a = received /\ Ahead(plan, StreamCall(a, a, i))) \/ IsStarted(a, i)

(* A stream that is started stays; one that is announced is started.       *)
LEMMA StartedStep == PlanInv /\ StartedInv /\ [Next]_vars => StartedInv'
<1> SUFFICES ASSUME PlanInv, StartedInv, [Next]_vars PROVE StartedInv'
  OBVIOUS
<1>1. ASSUME setting' = setting, DOMAIN content_streams \subseteq DOMAIN content_streams',
             NEW a, NEW i, IsStarted(a, i)
      PROVE  IsStarted(a, i)'
  <2>1. /\ PathOf(a, a, i)' = PathOf(a, a, i)
        /\ Starts(PartsOf(a, a, i))' <=> Starts(PartsOf(a, a, i))
    BY <1>1, StreamsKept
  <2> QED  BY <1>1, <2>1 DEF IsStarted
<1>2. ASSUME UNCHANGED <<setting, received, plan, content_streams>> PROVE StartedInv'
  <2> SUFFICES ASSUME NEW a \in 1 .. received, NEW i \in DOMAIN setting.announcements[a].streams
               PROVE  ((a = received /\ Ahead(plan, StreamCall(a, a, i))) \/ IsStarted(a, i))'
    BY <1>2 DEF StartedInv
  <2>1. (a = received /\ Ahead(plan, StreamCall(a, a, i))) \/ IsStarted(a, i)
    BY DEF StartedInv
  <2>2. StreamCall(a, a, i)' = StreamCall(a, a, i)
    BY <1>2, StreamsKept
  <2> QED  BY <1>1, <1>2, <2>1, <2>2 DEF Ahead
<1>3. ASSUME UNCHANGED <<setting, received>>, received > 0, plan # <<>>, plan' = Tail(plan),
             DOMAIN content_streams \subseteq DOMAIN content_streams',
             \A a, i : StreamCall(a, a, i) = plan[1] => IsStarted(a, i)'
      PROVE  StartedInv'
  <2> SUFFICES ASSUME NEW a \in 1 .. received, NEW i \in DOMAIN setting.announcements[a].streams
               PROVE  ((a = received /\ Ahead(plan, StreamCall(a, a, i))) \/ IsStarted(a, i))'
    BY <1>3 DEF StartedInv
  <2>1. (a = received /\ Ahead(plan, StreamCall(a, a, i))) \/ IsStarted(a, i)
    BY DEF StartedInv
  <2>2. StreamCall(a, a, i)' = StreamCall(a, a, i)
    BY <1>3, StreamsKept
  <2>3. plan \in Seq(Calls(received))
    BY <1>3 DEF PlanInv
  <2>4. CASE a = received /\ Ahead(plan, StreamCall(a, a, i)) /\ plan[1] # StreamCall(a, a, i)
    <3>1. Ahead(Tail(plan), StreamCall(a, a, i))
      BY <1>3, <2>3, <2>4, StillAhead
    <3> QED  BY <1>3, <2>2, <2>4, <3>1 DEF Ahead
  <2>5. CASE plan[1] = StreamCall(a, a, i)
    BY <1>3, <2>5
  <2>6. CASE IsStarted(a, i)
    BY <1>1, <1>3, <2>6
  <2> QED  BY <2>1, <2>4, <2>5, <2>6
<1>4. CASE Receive
  <2>1. /\ received' = received + 1 /\ plan' = Plan(received + 1) /\ setting' = setting
        /\ received + 1 \in 1 .. Len(setting.announcements) /\ setting \in Settings
        /\ plan = <<>> /\ content_streams' = content_streams /\ received \in Nat
    BY <1>4, Announcements DEF Receive, PlanInv, MainFree
  <2>2. HasStreams(Plan(received + 1), received + 1, received + 1)
    BY <2>1, PlanHas
  <2> SUFFICES ASSUME NEW a \in 1 .. (received + 1),
                      NEW i \in DOMAIN setting.announcements[a].streams
               PROVE  ((a = received /\ Ahead(plan, StreamCall(a, a, i))) \/ IsStarted(a, i))'
    BY <2>1 DEF StartedInv
  <2>3. CASE a = received + 1
    <3>1. StreamCall(a, a, i)' = StreamCall(a, a, i)
      BY <2>1, StreamsKept
    <3>2. \E j \in 1 .. Len(Plan(received + 1)) : Plan(received + 1)[j] = StreamCall(a, a, i)
      BY <2>2, <2>3 DEF HasStreams
    <3> QED  BY <2>1, <2>3, <3>1, <3>2 DEF Ahead
  <2>4. CASE a \in 1 .. received
    <3>1. ~Ahead(plan, StreamCall(a, a, i))
      BY <2>1 DEF Ahead
    <3>2. IsStarted(a, i)
      BY <2>4, <3>1 DEF StartedInv
    <3> QED  BY <1>1, <2>1, <3>2
  <2> QED  BY <2>1, <2>3, <2>4
<1>5. CASE ReadMaster
  <2>1. CASE Terminate
    BY <1>2, <2>1 DEF Terminate
  <2>2. CASE ~(HLS /\ Parse(plan[1].text, BasePath).threw)
    <3>1. /\ plan # <<>> /\ plan[1].call = "master" /\ received > 0 /\ plan' = Tail(plan)
          /\ UNCHANGED <<setting, received, content_streams>>
      BY <1>5, <2>2 DEF ReadMaster, PlanInv
    <3>2. \A a, i : StreamCall(a, a, i) # plan[1]
      BY <3>1 DEF StreamCall
    <3> QED  BY <1>3, <3>1, <3>2
  <2> QED  BY <1>5, <2>1, <2>2 DEF ReadMaster
<1>6. ASSUME NEW bandwidth, NEW frame_rate, StartStream(bandwidth, frame_rate)
      PROVE  StartedInv'
  <2> DEFINE parts == plan[1].parts
             path == PlaylistPath(parts)
  <2>1. CASE Terminate
    BY <1>2, <2>1 DEF Terminate
  <2>2. ASSUME Stays, plan # <<>>, DOMAIN content_streams \subseteq DOMAIN content_streams',
               Starts(parts) => path \in DOMAIN content_streams'
        PROVE  StartedInv'
    <3>1. UNCHANGED <<setting, received>> /\ plan' = Tail(plan) /\ received > 0
      BY <2>2 DEF Stays, PlanInv
    <3>2. ASSUME NEW a, NEW i, StreamCall(a, a, i) = plan[1] PROVE IsStarted(a, i)'
      <4>1. PartsOf(a, a, i) = parts
        BY <3>2 DEF PartsOf
      <4>2. /\ PathOf(a, a, i)' = PathOf(a, a, i)
            /\ Starts(PartsOf(a, a, i))' <=> Starts(PartsOf(a, a, i))
        BY <3>1, StreamsKept
      <4>3. PathOf(a, a, i) = path
        BY <4>1 DEF PathOf
      <4> HIDE DEF parts, path
      <4> QED  BY <2>2, <4>1, <4>2, <4>3 DEF IsStarted
    <3> HIDE DEF parts, path
    <3> QED  BY <1>3, <2>2, <3>1, <3>2
  <2>3. CASE plan # <<>> /\ Stays /\ ~Starts(parts) /\ UNCHANGED <<content_streams, manifest>>
    BY <2>2, <2>3
  <2>4. ASSUME NEW value, plan # <<>>, Stays, AddsStream(path, value) PROVE StartedInv'
    <3> HIDE DEF parts, path
    <3>1. /\ DOMAIN content_streams \subseteq DOMAIN content_streams'
          /\ path \in DOMAIN content_streams'
      BY <2>4 DEF AddsStream
    <3> QED  BY <2>2, <2>4, <3>1
  <2> QED  BY <1>6, <2>1, <2>3, <2>4, StartOutcome
<1>7. CASE ClockTick \/ Expire \/ ExpireAtTurn
  BY <1>2, <1>7 DEF ClockTick, Expire, ExpireAtTurn
<1>8. ASSUME NEW mpd, FluteMpd(mpd) PROVE StartedInv'
  BY <1>2, <1>8 DEF FluteMpd
<1>9. CASE Find \/ TakeFirst("buffer") \/ TakeFirst("length") \/ TakeSecond \/ Sent
  BY <1>2, <1>9 DEF Find, TakeFirst, TakeSecond, Sent, UnchangedByGet
<1>10. CASE UNCHANGED vars
  BY <1>2, <1>10 DEF vars
<1> QED  BY <1>4, <1>5, <1>6, <1>7, <1>8, <1>9, <1>10 DEF Next

(* What is started is listed.                                              *)
LEMMA StartedImplies ==
  PlanInv /\ StreamInv /\ ManifestInv /\ StartedInv => AnnouncedIsListed
<1> SUFFICES ASSUME PlanInv, StreamInv, ManifestInv, StartedInv, HLS, MainFree,
                    NEW a \in 1 .. received, NEW s \in Range(setting.announcements[a].streams),
                    Starts(Parts(a, s.base))
             PROVE  \E t \in Range(Shown.streams) :
                      t.uri = <<"/">> \o PlaylistPath(Parts(a, s.base))
  BY DEF AnnouncedIsListed, Starts
<1>1. PICK i \in DOMAIN setting.announcements[a].streams :
        s = setting.announcements[a].streams[i]
  BY DEF Range
<1>2. PartsOf(a, a, i) = Parts(a, s.base)
  BY <1>1 DEF PartsOf, StreamCall
<1>3. ~Ahead(plan, StreamCall(a, a, i))
  BY DEF MainFree, Ahead
<1> DEFINE path == PathOf(a, a, i)
<1>4. path \in DOMAIN content_streams
  BY <1>2, <1>3 DEF StartedInv, IsStarted
<1>5. ShowsAll(Shown, content_streams)
  <2>1. content_streams # <<>>
    BY <1>4
  <2> QED  BY <2>1, ManifestShows
<1>6. path = PlaylistPath(Parts(a, s.base))
  BY <1>2 DEF PathOf
<1> HIDE DEF path
<1>7. PICK j \in 1 .. Len(Shown.streams) :
        Shows(Shown.streams[j], Entry(<<"/">> \o path, content_streams[path].attributes))
  BY <1>4, <1>5 DEF ShowsAll, IsShown
<1>8. Shown.streams[j].uri = <<"/">> \o path
  BY <1>7 DEF Shows, Entry
<1>9. j \in DOMAIN Shown.streams
  BY <1>7
<1> QED  BY <1>6, <1>8, <1>9 DEF Range

(* A stream that has been announced, and has a source, stays listed,       *)
(* whatever other announcements come.                                      *)
THEOREM AnnouncedStaysListed == Spec /\ PathsKnown => []AnnouncedIsListed
<1>1. Init /\ PathsKnown => PlanInv /\ StreamInv /\ ManifestInv /\ StartedInv
  BY PlanInvInit DEF Init, StreamInv, ManifestInv, StartedInv
<1>2. PlanInv /\ StreamInv /\ ManifestInv /\ StartedInv /\ [Next]_vars
        => (PlanInv /\ StreamInv /\ ManifestInv /\ StartedInv)'
  BY PlanStep, StreamStep, ManifestStep, StartedStep
<1> QED  BY <1>1, <1>2, StartedImplies, PTL DEF Spec

(* No master gives a resolution with a comma in it (which would have to be *)
(* quoted, and to_string does not quote resolutions).                      *)
PlainResolutions ==
  HLS => \A a \in 1 .. Len(setting.announcements) :
    LET entries == Parse(setting.announcements[a].master, BasePath).streams
    IN  \A i \in DOMAIN entries : NoComma(entries[i].attributes.resolution)

PlainInv ==
  /\ PlainResolutions
  /\ HLS => \A i \in DOMAIN primary : NoComma(primary[i].attributes.resolution)
  /\ HLS => \A p \in DOMAIN content_streams : NoComma(content_streams[p].attributes.resolution)

(* An uninitialised stream has no resolution.                              *)
LEMMA NoneHasNoComma == NoComma(<<>>)
<1> DEFINE none == <<>>
<1>1. 1 .. Len(none) = {}
  OBVIOUS
<1> HIDE DEF none
<1>2. \A k \in 1 .. Len(none) : FALSE
  BY <1>1
<1>3. NoComma(none)
  BY <1>2, Zenon DEF NoComma
<1> QED  BY <1>3 DEF none

(* The masters stay as they are.                                           *)
LEMMA PlainKept ==
  ASSUME setting' = setting, PlainResolutions
  PROVE  PlainResolutions' /\ (HLS' <=> HLS)
BY DEF PlainResolutions, HLS

(* A stream that is started takes the resolution of an entry, or none.     *)
LEMMA StartedPlain ==
  ASSUME HLS, primary \in Seq(PlaylistEntry(STRING)),
         \A i \in DOMAIN primary : NoComma(primary[i].attributes.resolution),
         NEW path, NEW bandwidth, NEW frame_rate
  PROVE  NoComma(StartedAttributes(path, bandwidth, frame_rate).resolution)
<1> DEFINE I == {i \in 1 .. Len(primary) : primary[i].uri = path}
<1>1. DOMAIN primary = 1 .. Len(primary) /\ Len(primary) \in Nat
  OBVIOUS
<1>2. CASE ~Matches(path)
  <2>1. Uninitialised(bandwidth, frame_rate).resolution = <<>>
    BY DEF Uninitialised, Unknown
  <2> QED  BY <1>2, <2>1, NoneHasNoComma DEF StartedAttributes
<1>3. CASE Matches(path)
  <2>1. I # {} /\ I \in SUBSET (1 .. Len(primary))
    BY <1>1, <1>3 DEF Matches
  <2>2. SelectLastInSeq(primary, LAMBDA s : s.uri = path) = Max(I)
    BY <1>1, <2>1 DEF SelectLastInSeq
  <2>3. Max(I) \in 1 .. Len(primary)
    BY <1>1, <2>1, MaxIs
  <2>4. LastMatch(path) = primary[Max(I)].attributes
    BY <2>2 DEF LastMatch
  <2> HIDE DEF I
  <2> QED  BY <1>1, <1>3, <2>3, <2>4 DEF StartedAttributes
<1> QED  BY <1>2, <1>3

(* No resolution that is read has a comma.                                 *)
LEMMA PlainStep == PlanInv /\ StreamInv /\ PlainInv /\ [Next]_vars => PlainInv'
<1> SUFFICES ASSUME PlanInv, StreamInv, PlainInv, [Next]_vars PROVE PlainInv'
  OBVIOUS
<1>1. ASSUME UNCHANGED <<setting, primary, content_streams>> PROVE PlainInv'
  BY <1>1, PlainKept DEF PlainInv
<1>2. CASE ReadMaster
  <2>1. CASE Terminate
    BY <1>1, <2>1 DEF Terminate
  <2>2. CASE ~(HLS /\ Parse(plan[1].text, BasePath).threw)
    <3>1. /\ plan # <<>> /\ plan[1].call = "master" /\ UNCHANGED <<setting, content_streams>>
          /\ HLS => primary' = Parse(plan[1].text, BasePath).streams
      BY <1>2, <2>2 DEF ReadMaster
    <3>2. PlainResolutions' /\ (HLS' <=> HLS)
      BY <3>1, PlainKept DEF PlainInv
    <3>3. PICK a \in 1 .. Len(setting.announcements) :
            plan[1].text = setting.announcements[a].master
      <4>1. plan[1] \in Calls(received) /\ received \in 0 .. Len(setting.announcements)
            /\ Len(setting.announcements) \in Nat
        BY <3>1, Announcements DEF PlanInv
      <4>2. PICK a \in 1 .. received : plan[1] = MasterCall(a)
        BY <3>1, <4>1 DEF Calls, StreamCall
      <4> QED  BY <4>1, <4>2 DEF MasterCall
    <3>4. HLS => \A i \in DOMAIN primary' : NoComma(primary'[i].attributes.resolution)
      BY <3>1, <3>3 DEF PlainInv, PlainResolutions
    <3> QED  BY <3>1, <3>2, <3>4 DEF PlainInv
  <2> QED  BY <1>2, <2>1, <2>2 DEF ReadMaster
<1>3. ASSUME NEW bandwidth, NEW frame_rate, StartStream(bandwidth, frame_rate)
      PROVE  PlainInv'
  <2> DEFINE path == PlaylistPath(plan[1].parts)
  <2>1. CASE Terminate
    BY <1>1, <2>1 DEF Terminate
  <2>2. CASE Stays /\ UNCHANGED <<content_streams, manifest>>
    BY <1>1, <2>2 DEF Stays
  <2>3. ASSUME NEW value, Stays, AddsStream(path, value),
               value.attributes = StartedAttributes(path, bandwidth, frame_rate)
        PROVE  PlainInv'
    <3> HIDE DEF path
    <3>1. PlainResolutions' /\ (HLS' <=> HLS) /\ primary' = primary
      BY <2>3, PlainKept DEF PlainInv, Stays
    <3>2. HLS => NoComma(value.attributes.resolution)
      BY <2>3, StartedPlain DEF PlainInv, StreamInv
    <3>3. ASSUME HLS, NEW p \in DOMAIN content_streams'
          PROVE  NoComma(content_streams'[p].attributes.resolution)
      <4>1. CASE p = path
        BY <2>3, <3>2, <3>3, <4>1 DEF AddsStream
      <4>2. CASE p # path
        <5>1. p \in DOMAIN content_streams /\ content_streams'[p] = content_streams[p]
          BY <2>3, <4>2 DEF AddsStream
        <5> QED  BY <3>3, <5>1 DEF PlainInv
      <4> QED  BY <4>1, <4>2
    <3> QED  BY <3>1, <3>3 DEF PlainInv
  <2> QED  BY <1>3, <2>1, <2>2, <2>3, StartOutcome
<1>4. CASE Receive \/ ClockTick \/ Expire \/ ExpireAtTurn
  BY <1>1, <1>4 DEF Receive, ClockTick, Expire, ExpireAtTurn
<1>5. ASSUME NEW mpd, FluteMpd(mpd) PROVE PlainInv'
  BY <1>1, <1>5 DEF FluteMpd
<1>6. CASE Find \/ TakeFirst("buffer") \/ TakeFirst("length") \/ TakeSecond \/ Sent
  BY <1>1, <1>6 DEF Find, TakeFirst, TakeSecond, Sent, UnchangedByGet
<1>7. CASE UNCHANGED vars
  BY <1>1, <1>7 DEF vars
<1> QED  BY <1>2, <1>3, <1>4, <1>5, <1>6, <1>7 DEF Next

(* All streams are shown with their attributes.                            *)
LEMMA PlainImplies == StreamInv /\ ManifestInv /\ PlainInv => ManifestReadsBack
<1> SUFFICES ASSUME StreamInv, ManifestInv, PlainInv, HLS, content_streams # <<>>
             PROVE  /\ ~Shown.threw
                    /\ Len(Shown.streams) = Cardinality(DOMAIN content_streams)
                    /\ \A p \in DOMAIN content_streams :
                         Entry(<<"/">> \o p, AsShown(content_streams[p].attributes))
                           \in Range(Shown.streams)
  BY DEF ManifestReadsBack, AsShown
<1>1. ShowsAll(Shown, content_streams)
  BY ManifestShows
<1>2. ASSUME NEW p \in DOMAIN content_streams
      PROVE  Entry(<<"/">> \o p, AsShown(content_streams[p].attributes)) \in Range(Shown.streams)
  <2> DEFINE a == content_streams[p].attributes
             uri == <<"/">> \o p
  <2>1. NoComma(a.resolution)
    BY DEF PlainInv
  <2>2. IsShown(Shown.streams, p, a)
    BY <1>1 DEF ShowsAll
  <2>3. PICK i \in 1 .. Len(Shown.streams) : Shows(Shown.streams[i], Entry(uri, a))
    BY <2>2 DEF IsShown
  <2> HIDE DEF a, uri
  <2>4. Shown.streams[i] = Entry(uri, AsShown(a))
    <3>1. Entry(uri, a).uri = uri /\ Entry(uri, a).attributes = a
      BY DEF Entry
    <3> QED  BY <2>1, <2>3, <3>1 DEF Shows
  <2>5. i \in DOMAIN Shown.streams
    BY <2>3
  <2> QED  BY <2>4, <2>5 DEF Range, a, uri
<1> QED  BY <1>1, <1>2 DEF ShowsAll

(* The parser takes back what to_string wrote, of every stream there is.   *)
THEOREM ManifestIsReadBack == Spec /\ PathsKnown /\ PlainResolutions => []ManifestReadsBack
<1>1. Init /\ PathsKnown /\ PlainResolutions => PlanInv /\ StreamInv /\ ManifestInv /\ PlainInv
  BY PlanInvInit DEF Init, StreamInv, ManifestInv, PlainInv
<1>2. PlanInv /\ StreamInv /\ ManifestInv /\ PlainInv /\ [Next]_vars
        => (PlanInv /\ StreamInv /\ ManifestInv /\ PlainInv)'
  BY PlanStep, StreamStep, ManifestStep, PlainStep
<1> QED  BY <1>1, <1>2, PlainImplies, PTL DEF Spec
==============================================================================
