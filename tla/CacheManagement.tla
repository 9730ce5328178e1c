--------------------------- MODULE CacheManagement ---------------------------
(***************************************************************************)
(* The file cache: CacheManagement with the items of CacheItems.h, and the *)
(* sweep check_file_expiry_and_cache_size that Middleware's timer runs     *)
(* each second.                                                            *)
(*                                                                         *)
(* The map has no lock.  The io_service thread adds files and playlists    *)
(* and sweeps; with seamless switching, a worker thread adds and removes   *)
(* segments and fills them with CDN content whenever it likes, also in the *)
(* middle of a sweep.  The sweep is two loops: one drops what is too old   *)
(* and orders the rest by age, the other walks that order, adding lengths  *)
(* up and dropping what exceeds the size.  The first loop is one step, as  *)
(* nothing it does to one entry depends on another; a worker that changes  *)
(* the map in the middle of it either comes to the same as before or after *)
(* it, or breaks its iterator.  The second is one step per entry.          *)
(***************************************************************************)
EXTENDS CachePolicy, FiniteSets

CONSTANTS
  Location,    \* cache keys; numbers, in the order of the map
  MaxFileAge,  \* mw.cache.max_file_age
  MaxTotalMB,  \* mw.cache.max_total_size
  MiB,         \* 1024 * 1024
  UINT,        \* one more than the greatest unsigned and uint32_t
  ULONG,       \* one more than the greatest unsigned long
  MaxLen,      \* bound: the longest content
  MaxTime,     \* bound: the clock stops here
  Settings     \* the circumstances the program may run in

(* A setting:                                                              *)
(*   locations    - the cache keys that are used                           *)
(*   clock_steps  - the wall clock may be set back                         *)
(*   pool_threads - mw.seamless_switching.enabled: workers use the cache   *)
Setting == [locations : SUBSET Location, clock_steps : BOOLEAN, pool_threads : BOOLEAN]

ASSUME ConstantsAssumption ==
  /\ Location \in SUBSET Nat /\ IsFiniteSet(Location)
  /\ MaxFileAge \in Nat /\ MaxTotalMB \in Nat
  /\ MiB \in Nat \ {0} /\ UINT \in Nat \ {0} /\ ULONG \in Nat \ {0}
  /\ MaxLen \in Nat /\ MaxTime \in Nat \ {0}
  /\ Settings \subseteq Setting

VARIABLES
  setting,     \* what the program runs with
  now,         \* time(nullptr)
  cache_items, \* _cache_items
  sweep,       \* the sweep in progress
  before,      \* history, without workers: the cache when the sweep began, and
               \* its looks at the clock
  raced,       \* history: a worker removed an entry the sweep had still to visit
  crashed      \* a null item or a lost iterator was dereferenced

vars == <<setting, now, cache_items, sweep, before, raced, crashed>>

Time == 1 .. MaxTime

(* A CacheItem: the time it was received at, 0 if it was not, and the      *)
(* length of its content.  CachedManifest behaves as CachedPlaylist.       *)
Item == [kind : {"File", "Segment", "Playlist"}, at : Time \cup {0}, len : 0 .. MaxLen]
None == [kind |-> "none", at |-> 0, len |-> 0]
Cache == [Location -> Item \cup {None}]

(* A sweep: which loop it is in, what is left of items_by_age, the ages it *)
(* is ordered by, and total_size.                                          *)
SweepState == [pc : {"idle", "evict"}, items_by_age : SUBSET Location,
               age : [Location -> 0 .. ULONG - 1], total_size : 0 .. UINT - 1]

(* What the two looks at the clock that the sweep takes at an entry showed: *)
(* time(nullptr), and the same in a playlist's received_at().              *)
Looks == [first : Time, second : Time]

NoLooks == [first |-> 1, second |-> 1]

TypeOK ==
  /\ setting \in Settings
  /\ now \in Time
  /\ cache_items \in Cache
  /\ sweep \in SweepState
  /\ before \in [cache : Cache, looks : [Location -> Looks]]
  /\ raced \in BOOLEAN /\ crashed \in BOOLEAN

NoSweep == [pc |-> "idle", items_by_age |-> {}, age |-> [l \in Location |-> 0],
            total_size |-> 0]

NoHistory == [cache |-> [l \in Location |-> None],
              looks |-> [l \in Location |-> NoLooks]]

Init ==
  /\ setting \in Settings
  /\ now = 1
  /\ cache_items = [l \in Location |-> None]
  /\ sweep = NoSweep
  /\ before = NoHistory
  /\ raced = FALSE
  /\ crashed = FALSE

------------------------------------------------------------------------------
(* Helpers.                                                                *)

Cached == {l \in Location : cache_items[l] # None}

(* received_at(): playlists are always of this second.                     *)
ReceivedAt(item, clock) == IF item.kind = "Playlist" THEN clock ELSE item.at

(* Fault variant: a segment has no received_at() of its own.               *)
DatedFiles(items) == {l \in Location : \/ items[l].kind = "Playlist"
                                       \/ items[l].kind = "File" /\ items[l].at # 0}

(* The entries with a received_at() other than 0.                          *)
Dated(items) == {l \in Location : items[l].kind = "Playlist" \/ items[l].at # 0}

(* Fault variant: a signed subtraction.                                    *)
SignedAgeOf(item, look) == look.first - ReceivedAt(item, look.second)

(* time(nullptr) - received_at(), an unsigned subtraction: an item of the  *)
(* future is very old, and so is a playlist when a new second begins       *)
(* between the two looks at the clock.                                     *)
AgeOf(item, look) == (look.first - ReceivedAt(item, look.second)) % ULONG

Expired(age) == age > MaxFileAge

(* _max_cache_size, multiplied in an unsigned.                             *)
MaxCacheSize == (MaxTotalMB * MiB) % UINT

(* The io_service thread is not inside the sweep.                          *)
MainFree == sweep.pc = "idle"

Alive == ~crashed

Store(l, item) == cache_items' = [cache_items EXCEPT ![l] = item]

------------------------------------------------------------------------------
(* The wall clock.                                                         *)

ClockTick ==
  /\ Alive /\ now < MaxTime
  /\ now' = now + 1
  /\ UNCHANGED <<setting, cache_items, sweep, before, raced, crashed>>

ClockSetBack ==
  /\ Alive /\ setting.clock_steps /\ now > 1
  /\ now' = now - 1
  /\ UNCHANGED <<setting, cache_items, sweep, before, raced, crashed>>

------------------------------------------------------------------------------
(* add_item and remove_item, by their callers.                             *)

(* ContentStream::flute_file_received: the file replaces what was there.   *)
AddFile(l, len) ==
  /\ Alive /\ MainFree
  /\ Store(l, [kind |-> "File", at |-> now, len |-> len])
  /\ UNCHANGED <<setting, now, sweep, before, raced, crashed>>

(* Service::read_master_manifest, SeamlessContentStream::set_cdn_endpoint: *)
(* a playlist, whose text has some length now.                             *)
AddPlaylist(l, len) ==
  /\ Alive /\ MainFree
  /\ Store(l, [kind |-> "Playlist", at |-> 0, len |-> len])
  /\ UNCHANGED <<setting, now, sweep, before, raced, crashed>>

(* handle_playlist, on either thread: a segment without content, or with   *)
(* that of the FLUTE file that came before it, of the time of that file.   *)
AddSegment(l, at, len) ==
  /\ Alive /\ (MainFree \/ setting.pool_threads)
  /\ cache_items[l].kind \notin {"File", "Playlist"}
  /\ at = 0 <=> len = 0
  /\ Store(l, [kind |-> "Segment", at |-> at, len |-> len])
  /\ UNCHANGED <<setting, now, sweep, before, raced, crashed>>

(* The completion of Segment::fetch_from_cdn, on a worker.                 *)
FillSegment(l, len) ==
  /\ Alive /\ setting.pool_threads
  /\ cache_items[l].kind = "Segment"
  /\ Store(l, [kind |-> "Segment", at |-> now, len |-> len])
  /\ UNCHANGED <<setting, now, sweep, before, raced, crashed>>

(* The trimming loop of handle_playlist, on either thread.                 *)
RemoveItem(l) ==
  /\ Alive /\ (MainFree \/ setting.pool_threads)
  /\ cache_items[l].kind = "Segment"
  /\ Store(l, None)
  /\ raced' = (raced \/ l \in sweep.items_by_age)
  /\ UNCHANGED <<setting, now, sweep, before, crashed>>

------------------------------------------------------------------------------
(* check_file_expiry_and_cache_size.                                       *)

(* Fault variant: what has expired is put into items_by_age all the same.  *)
ByAgeWithExpired(dated, expired) == dated

(* items_by_age after the first loop.                                      *)
ByAge(dated, expired) == dated \ expired

(* When a second may begin in the first loop: before the visit of entry l, *)
(* 2l, or within it, 2l + 1.  It makes a difference between two entries    *)
(* with a date, and within the visit of a playlist.                        *)
NoTurn == -1
Turns ==
  LET dated == Dated(cache_items)
      turns == {2 * l : l \in {d \in dated : \E k \in dated : k < d}}
               \cup {2 * l + 1 : l \in {d \in dated : cache_items[d].kind = "Playlist"}}
  IN  {NoTurn} \cup IF now < MaxTime THEN turns ELSE {}

ClockAt(turn, visit) == IF turn # NoTurn /\ turn =< visit THEN now + 1 ELSE now

(* The first loop: an entry with a date is dropped or put into             *)
(* items_by_age, one without is passed over.                               *)
SweepScan(turn) ==
  LET looks == [l \in Location |-> IF l \in Dated(cache_items)
                                   THEN [first  |-> ClockAt(turn, 2 * l),
                                         second |-> ClockAt(turn, 2 * l + 1)]
                                   ELSE NoLooks]
      age   == [l \in Location |-> IF l \in Dated(cache_items)
                                   THEN AgeOf(cache_items[l], looks[l]) ELSE 0]
      gone  == {l \in Dated(cache_items) : Expired(age[l])}
  IN  /\ Alive /\ MainFree
      /\ now' = IF turn = NoTurn THEN now ELSE now + 1
      /\ cache_items' = [l \in Location |-> IF l \in gone THEN None ELSE cache_items[l]]
      /\ sweep' = [pc |-> "evict",
                   items_by_age |-> ByAge(Dated(cache_items), gone),
                   age |-> age,
                   total_size |-> 0]
      /\ before' = IF setting.pool_threads THEN NoHistory
                   ELSE [cache |-> cache_items, looks |-> looks]
      /\ raced' = FALSE
      /\ UNCHANGED <<setting, crashed>>

(* A worker removes the very entry that the iterator of the first loop     *)
(* stands on (there is no lock): the loop goes on from a freed node.       *)
ScanRaced(l) ==
  /\ Alive /\ MainFree /\ setting.pool_threads
  /\ cache_items[l].kind = "Segment"
  /\ Store(l, None)
  /\ raced' = TRUE
  /\ crashed' = TRUE
  /\ UNCHANGED <<setting, now, sweep, before>>

(* Fault variant: the walk starts with the oldest entry.                   *)
WalkFromOldest(l, S) == l \in S /\ \A k \in S : ~WalkedBefore(sweep.age, l, k)

(* The entry of items_by_age, of those left, that the walk is at.          *)
WalkIsAt(l, S) == l \in S /\ \A k \in S : ~WalkedBefore(sweep.age, k, l)

(* The second loop at entry l.  operator[] puts a null item where a worker *)
(* has removed the entry, and its content_length() is asked for.           *)
SweepItem(l) ==
  LET total == (sweep.total_size + cache_items[l].len) % UINT
  IN  /\ Alive /\ sweep.pc = "evict"
      /\ WalkIsAt(l, sweep.items_by_age)
      /\ IF cache_items[l] = None
         THEN crashed' = TRUE /\ UNCHANGED <<cache_items, sweep>>
         ELSE /\ sweep' = [sweep EXCEPT !.items_by_age = @ \ {l}, !.total_size = total]
              /\ cache_items' = [cache_items EXCEPT
                                   ![l] = IF total > MaxCacheSize THEN None ELSE @]
              /\ UNCHANGED crashed
      /\ UNCHANGED <<setting, now, before, raced>>

SweepEnd ==
  /\ Alive /\ sweep.pc = "evict" /\ sweep.items_by_age = {}
  /\ sweep' = NoSweep
  /\ before' = NoHistory
  /\ raced' = FALSE
  /\ UNCHANGED <<setting, now, cache_items, crashed>>

------------------------------------------------------------------------------
Scan == \E turn \in Turns : SweepScan(turn)
Sweep == Scan \/ SweepEnd \/ \E l \in Location : SweepItem(l)

Next ==
  \/ ClockTick
  \/ ClockSetBack
  \/ Scan
  \/ SweepEnd
  \/ \E l \in Location : SweepItem(l) \/ RemoveItem(l) \/ ScanRaced(l)
  \/ \E l \in setting.locations, len \in 0 .. MaxLen :
       \/ AddFile(l, len)
       \/ AddPlaylist(l, len)
       \/ \E at \in 0 .. now : AddSegment(l, at, len)
       \/ FillSegment(l, len)

Spec == Init /\ [][Next]_vars

(* The timer keeps sweeping.  Of the clock nothing is assumed.             *)
FairSpec == Spec /\ WF_vars(Sweep)

------------------------------------------------------------------------------
(* Properties.                                                             *)

(* What a sweep leaves of the cache it began with, by the policy of        *)
(* CachePolicy: everything undated, and of the dated the young that fit.   *)
SweptFrom(b) ==
  LET dated == Dated(b.cache)
      age   == [l \in Location |->
                  IF b.cache[l].kind # "Playlist"
                    THEN (b.looks[l].first - b.cache[l].at) % ULONG
                  ELSE IF b.looks[l].first = b.looks[l].second THEN 0
                  ELSE ULONG - 1]
      len   == [l \in Location |-> b.cache[l].len]
      kept  == Retained(age, len, dated, MaxFileAge, MaxTotalMB * MiB)
  IN  [l \in Location |-> IF l \in dated \ kept THEN None ELSE b.cache[l]]

(* With one thread, the two loops, the expiry that goes by time and the    *)
(* eviction that goes by a running total, come to exactly the policy: no   *)
(* entry is kept or lost because of the order of the walk or of ties in    *)
(* age; and because of the clock running on meanwhile, only a playlist,    *)
(* which is lost when a second begins within its visit.                    *)
SweepFollowsPolicy ==
  [][SweepEnd /\ ~setting.pool_threads => cache_items = SweptFrom(before)]_vars

(* The second loop finds every entry it looks up, and the first can go on  *)
(* from every entry it visits, unless a worker takes one out meanwhile;    *)
(* with one thread they always do (CacheManagement.cpp:31-56).             *)
CrashNeedsRace == crashed => raced /\ setting.pool_threads

Stale(item) == item.at # 0 /\ now - item.at > MaxFileAge

(* With one thread, content does not outlive max_file_age by more than the *)
(* wait for the next sweep, whatever is added meanwhile and however the    *)
(* clock is set; with several, unless the race crashes the program.        *)
StaleGoes == \A l \in Location : []<>(~Stale(cache_items[l]) \/ crashed)
==============================================================================
