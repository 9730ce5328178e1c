------------------------ MODULE CacheManagementProofs ------------------------
(***************************************************************************)
(* Proofs about CacheManagement, for every set of locations and every      *)
(* value of the limits:                                                    *)
(*   - TypeCorrect: TypeOK is an invariant;                                *)
(*   - CrashOnlyByRace: CrashNeedsRace is an invariant;                    *)
(*   - SweepIsPolicy: if an unsigned holds all sizes, SweepFollowsPolicy.  *)
(* The second rests on SweepInv: what the second loop of the sweep has     *)
(* still to visit is cached unless a worker took it out.  The third adds   *)
(* Walk: how far the second loop is in the order of the ages.              *)
(***************************************************************************)
EXTENDS CacheManagement, SharedLemmas

LEMMA NoneIsNoItem == None \notin Item
BY DEF None, Item

LEMMA EmptyTypes ==
  /\ NoSweep \in SweepState
  /\ NoHistory \in [cache : Cache, looks : [Location -> Looks]]
<1>1. /\ 0 \in 0 .. ULONG - 1
      /\ 0 \in 0 .. UINT - 1
      /\ 1 \in Time
  BY ConstantsAssumption DEF Time
<1> QED  BY <1>1 DEF NoSweep, SweepState, NoHistory, Cache, NoLooks, Looks

(* An age is an unsigned long, whatever the clock has done.                *)
LEMMA AgeType ==
  ASSUME NEW look \in Looks, NEW item \in Item
  PROVE  AgeOf(item, look) \in 0 .. ULONG - 1
<1>1. ReceivedAt(item, look.second) \in Int /\ look.first \in Int
  BY DEF ReceivedAt, Item, Looks, Time
<1>2. look.first - ReceivedAt(item, look.second) \in Int
  BY <1>1
<1>3. \A i \in Int : i % ULONG \in 0 .. ULONG - 1
  BY ConstantsAssumption
<1> QED  BY <1>2, <1>3 DEF AgeOf

LEMMA TypeInit == Init => TypeOK
<1>1. 1 \in Time /\ [l \in Location |-> None] \in Cache
  BY ConstantsAssumption DEF Time, Cache
<1> QED  BY <1>1, EmptyTypes DEF Init, TypeOK

(* Storing an item keeps the cache well-typed.                             *)
LEMMA StoreType ==
  ASSUME cache_items \in Cache, NEW l \in Location, NEW item \in Item \cup {None},
         Store(l, item)
  PROVE  cache_items' \in Cache
BY DEF Store, Cache

(* What the program runs with never changes.                               *)
LEMMA SettingFixed == [Next]_vars => setting' = setting
BY DEF Next, vars, ClockTick, ClockSetBack, Scan, SweepScan, SweepEnd, SweepItem, RemoveItem,
       ScanRaced, AddFile, AddPlaylist, AddSegment, FillSegment

LEMMA UsedLocations == TypeOK => setting.locations \subseteq Location
BY ConstantsAssumption DEF TypeOK, Setting

(* The clock at each visit of the first loop.                              *)
LEMMA ClockType ==
  ASSUME now \in Time, NEW turn \in Turns, NEW visit
  PROVE  ClockAt(turn, visit) \in Time /\ (turn # NoTurn => now + 1 \in Time)
<1>1. turn # NoTurn => now < MaxTime
  BY DEF Turns
<1> QED  BY <1>1, ConstantsAssumption DEF ClockAt, Time

LEMMA TypeStep == TypeOK /\ [Next]_vars => TypeOK'
<1> SUFFICES ASSUME TypeOK, [Next]_vars PROVE TypeOK'
  OBVIOUS
<1>1. CASE ClockTick \/ ClockSetBack
  <2>1. now' \in Time
    BY <1>1, ConstantsAssumption DEF ClockTick, ClockSetBack, TypeOK, Time
  <2> QED  BY <1>1, <2>1 DEF ClockTick, ClockSetBack, TypeOK
<1>2. ASSUME NEW l \in Location, NEW len \in 0 .. MaxLen, AddFile(l, len)
      PROVE  TypeOK'
  <2>1. [kind |-> "File", at |-> now, len |-> len] \in Item
    BY <1>2 DEF Item, TypeOK
  <2> QED  BY <1>2, <2>1, StoreType DEF AddFile, TypeOK
<1>3. ASSUME NEW l \in Location, NEW len \in 0 .. MaxLen, AddPlaylist(l, len)
      PROVE  TypeOK'
  <2>1. [kind |-> "Playlist", at |-> 0, len |-> len] \in Item
    BY <1>3 DEF Item, TypeOK
  <2> QED  BY <1>3, <2>1, StoreType DEF AddPlaylist, TypeOK
<1>4. ASSUME NEW l \in Location, NEW len \in 0 .. MaxLen, NEW at \in 0 .. now,
             AddSegment(l, at, len)
      PROVE  TypeOK'
  <2>1. at \in Time \cup {0}
    BY ConstantsAssumption DEF TypeOK, Time
  <2>2. [kind |-> "Segment", at |-> at, len |-> len] \in Item
    BY <2>1 DEF Item
  <2> QED  BY <1>4, <2>2, StoreType DEF AddSegment, TypeOK
<1>5. ASSUME NEW l \in Location, NEW len \in 0 .. MaxLen, FillSegment(l, len)
      PROVE  TypeOK'
  <2>1. [kind |-> "Segment", at |-> now, len |-> len] \in Item
    BY <1>5 DEF Item, TypeOK
  <2> QED  BY <1>5, <2>1, StoreType DEF FillSegment, TypeOK
<1>6. ASSUME NEW l \in Location, RemoveItem(l) \/ ScanRaced(l) PROVE TypeOK'
  <2>1. cache_items' \in Cache
    BY <1>6, StoreType DEF RemoveItem, ScanRaced, TypeOK
  <2> QED  BY <1>6, <2>1 DEF RemoveItem, ScanRaced, TypeOK
<1>7. ASSUME NEW turn \in Turns, SweepScan(turn) PROVE TypeOK'
  <2> DEFINE looks == [l \in Location |-> IF l \in Dated(cache_items)
                                          THEN [first  |-> ClockAt(turn, 2 * l),
                                                second |-> ClockAt(turn, 2 * l + 1)]
                                          ELSE NoLooks]
             age   == [l \in Location |-> IF l \in Dated(cache_items)
                                          THEN AgeOf(cache_items[l], looks[l]) ELSE 0]
             gone  == {l \in Dated(cache_items) : Expired(age[l])}
  <2>1. looks \in [Location -> Looks]
    <3>1. NoLooks \in Looks
      BY ConstantsAssumption DEF NoLooks, Looks, Time
    <3>2. ASSUME NEW l \in Location
          PROVE  [first |-> ClockAt(turn, 2 * l), second |-> ClockAt(turn, 2 * l + 1)] \in Looks
      BY ClockType DEF TypeOK, Looks
    <3> QED  BY <3>1, <3>2
  <2>2. ASSUME NEW l \in Dated(cache_items)
        PROVE  AgeOf(cache_items[l], looks[l]) \in 0 .. ULONG - 1
    <3>1. l \in Location /\ cache_items[l] # None
      BY DEF Dated, None
    <3>2. cache_items[l] \in Item
      BY <3>1 DEF TypeOK, Cache
    <3>3. looks[l] \in Looks
      BY <2>1, <3>1
    <3> QED  BY <3>2, <3>3, AgeType
  <2>3. /\ sweep' = [pc |-> "evict", items_by_age |-> ByAge(Dated(cache_items), gone),
                     age |-> age, total_size |-> 0]
        /\ cache_items' = [l \in Location |-> IF l \in gone THEN None ELSE cache_items[l]]
        /\ before' = IF setting.pool_threads THEN NoHistory
                     ELSE [cache |-> cache_items, looks |-> looks]
        /\ raced' = FALSE
        /\ now' = IF turn = NoTurn THEN now ELSE now + 1
        /\ UNCHANGED <<setting, crashed>>
    BY <1>7 DEF SweepScan
  <2> HIDE DEF looks
  <2>4. age \in [Location -> 0 .. ULONG - 1]
    BY <2>2, ConstantsAssumption
  <2>5. ByAge(Dated(cache_items), gone) \in SUBSET Location
    BY DEF ByAge, Dated
  <2>6. 0 \in 0 .. UINT - 1
    BY ConstantsAssumption
  <2>7. now' \in Time
    BY <2>3, ClockType DEF TypeOK
  <2> HIDE DEF age, gone
  <2>8. sweep' \in SweepState
    BY <2>3, <2>4, <2>5, <2>6 DEF SweepState
  <2>9. before' \in [cache : Cache, looks : [Location -> Looks]]
    BY <2>1, <2>3, EmptyTypes DEF TypeOK
  <2> QED  BY <2>3, <2>7, <2>8, <2>9 DEF TypeOK, Cache
<1>8. ASSUME NEW l \in Location, SweepItem(l) PROVE TypeOK'
  <2> DEFINE total == (sweep.total_size + cache_items[l].len) % UINT
  <2>1. CASE cache_items[l] = None
    BY <1>8, <2>1 DEF SweepItem, TypeOK
  <2>2. CASE cache_items[l] # None
    <3>1. cache_items[l] \in Item
      BY <2>2 DEF TypeOK, Cache
    <3>2. sweep.total_size + cache_items[l].len \in Int
      BY <3>1 DEF Item, TypeOK, SweepState
    <3>3. \A i \in Int : i % UINT \in 0 .. UINT - 1
      BY ConstantsAssumption
    <3>4. total \in 0 .. UINT - 1
      BY <3>2, <3>3
    <3>5. /\ sweep' = [sweep EXCEPT !.items_by_age = @ \ {l}, !.total_size = total]
          /\ cache_items' = [cache_items EXCEPT ![l] = IF total > MaxCacheSize THEN None ELSE @]
          /\ UNCHANGED <<setting, crashed, now, before, raced>>
      BY <1>8, <2>2 DEF SweepItem
    <3> HIDE DEF total
    <3>6. sweep' \in SweepState
      BY <3>4, <3>5 DEF TypeOK, SweepState
    <3>7. cache_items' \in Cache
      BY <3>5 DEF TypeOK, Cache
    <3> QED  BY <3>5, <3>6, <3>7 DEF TypeOK
  <2> QED  BY <2>1, <2>2
<1>9. CASE SweepEnd
  BY <1>9, EmptyTypes DEF SweepEnd, TypeOK
<1>10. CASE UNCHANGED vars
  BY <1>10 DEF vars, TypeOK
<1> QED
  BY <1>1, <1>2, <1>3, <1>4, <1>5, <1>6, <1>7, <1>8, <1>9, <1>10, UsedLocations DEF Next, Scan

(* Every variable keeps its type; ages and the running total stay unsigned *)
(* even when the clock is set back.                                        *)
THEOREM TypeCorrect == Spec => []TypeOK
BY TypeInit, TypeStep, PTL DEF Spec

------------------------------------------------------------------------------
(* What the second loop has still to visit is cached, unless a worker took *)
(* some of it out since the first; between sweeps there is nothing to      *)
(* visit.                                                                  *)
SweepInv ==
  /\ TypeOK
  /\ sweep.pc = "idle" => sweep.items_by_age = {}
  /\ ~raced => \A l \in sweep.items_by_age : cache_items[l] # None
  /\ crashed => raced

LEMMA SweepInvInit == Init => SweepInv
BY TypeInit DEF Init, SweepInv, NoSweep

(* Putting an item somewhere takes none away.                              *)
LEMMA StoreKeeps ==
  ASSUME SweepInv, NEW l \in Location, NEW item, item # None, Store(l, item),
         UNCHANGED <<sweep, raced, crashed>>, TypeOK'
  PROVE  SweepInv'
BY DEF SweepInv, Store, TypeOK, Cache, SweepState

LEMMA SweepInvStep == SweepInv /\ [Next]_vars => SweepInv'
<1> SUFFICES ASSUME SweepInv, [Next]_vars PROVE SweepInv'
  OBVIOUS
<1>1. TypeOK /\ TypeOK'
  BY TypeStep DEF SweepInv
<1>2. CASE ClockTick \/ ClockSetBack \/ UNCHANGED vars
  BY <1>1, <1>2 DEF ClockTick, ClockSetBack, vars, SweepInv
<1>3. ASSUME NEW l \in Location, NEW len \in 0 .. MaxLen,
             AddFile(l, len) \/ AddPlaylist(l, len)
      PROVE  SweepInv'
  BY <1>1, <1>3, StoreKeeps DEF AddFile, AddPlaylist, None
<1>4. ASSUME NEW l \in Location, NEW len \in 0 .. MaxLen, NEW at \in 0 .. now,
             AddSegment(l, at, len)
      PROVE  SweepInv'
  BY <1>1, <1>4, StoreKeeps DEF AddSegment, None
<1>9. ASSUME NEW l \in Location, NEW len \in 0 .. MaxLen, FillSegment(l, len)
      PROVE  SweepInv'
  BY <1>1, <1>9, StoreKeeps DEF FillSegment, None
<1>5. ASSUME NEW l \in Location, RemoveItem(l) PROVE SweepInv'
  <2>1. /\ cache_items' = [cache_items EXCEPT ![l] = None]
        /\ raced' = (raced \/ l \in sweep.items_by_age)
        /\ UNCHANGED <<sweep, crashed>>
    BY <1>5 DEF RemoveItem, Store
  <2>2. crashed = FALSE
    BY <1>1, <1>5 DEF RemoveItem, Alive, TypeOK
  <2> QED  BY <1>1, <2>1, <2>2 DEF SweepInv, TypeOK, Cache, SweepState
<1>10. ASSUME NEW l \in Location, ScanRaced(l) PROVE SweepInv'
  BY <1>1, <1>10 DEF ScanRaced, MainFree, SweepInv
<1>6. ASSUME NEW turn \in Turns, SweepScan(turn) PROVE SweepInv'
  <2>1. PICK gone :
          /\ sweep'.pc = "evict"
          /\ sweep'.items_by_age = Dated(cache_items) \ gone
          /\ cache_items' = [l \in Location |-> IF l \in gone THEN None ELSE cache_items[l]]
    BY <1>6 DEF SweepScan, ByAge
  <2>2. \A l \in Dated(cache_items) : l \in Location /\ cache_items[l] # None
    BY DEF Dated, None
  <2>3. crashed' = FALSE
    BY <1>1, <1>6 DEF SweepScan, Alive, TypeOK
  <2> QED  BY <1>1, <2>1, <2>2, <2>3 DEF SweepInv
<1>7. ASSUME NEW l \in Location, SweepItem(l) PROVE SweepInv'
  <2>1. l \in sweep.items_by_age /\ sweep.pc = "evict" /\ UNCHANGED raced
    BY <1>7 DEF SweepItem, WalkIsAt
  <2>2. CASE cache_items[l] = None
    <3>1. raced
      BY <2>1, <2>2 DEF SweepInv
    <3> QED  BY <1>1, <1>7, <2>1, <2>2, <3>1 DEF SweepItem, SweepInv
  <2>3. CASE cache_items[l] # None
    <3> DEFINE total == (sweep.total_size + cache_items[l].len) % UINT
    <3>1. /\ sweep' = [sweep EXCEPT !.items_by_age = @ \ {l}, !.total_size = total]
          /\ cache_items' = [cache_items EXCEPT ![l] = IF total > MaxCacheSize THEN None ELSE @]
          /\ UNCHANGED crashed
      BY <1>7, <2>3 DEF SweepItem
    <3> HIDE DEF total
    <3>2. sweep'.items_by_age = sweep.items_by_age \ {l} /\ sweep'.pc = "evict"
      BY <1>1, <2>1, <3>1 DEF TypeOK, SweepState
    <3>3. \A k \in Location \ {l} : cache_items'[k] = cache_items[k]
      BY <1>1, <3>1 DEF TypeOK, Cache
    <3>4. sweep.items_by_age \subseteq Location
      BY <1>1 DEF TypeOK, SweepState
    <3> QED  BY <1>1, <2>1, <3>1, <3>2, <3>3, <3>4 DEF SweepInv
  <2> QED  BY <2>2, <2>3
<1>8. CASE SweepEnd
  <2>1. crashed' = FALSE
    BY <1>1, <1>8 DEF SweepEnd, Alive, TypeOK
  <2> QED  BY <1>1, <1>8, <2>1 DEF SweepEnd, SweepInv, NoSweep
<1> QED
  BY <1>1, <1>2, <1>3, <1>4, <1>5, <1>6, <1>7, <1>8, <1>9, <1>10, UsedLocations DEF Next, Scan

LEMMA SweepInvAlways == Spec => []SweepInv
BY SweepInvInit, SweepInvStep, PTL DEF Spec

(* The sweep dereferences a null item or a lost iterator only if a worker  *)
(* removed an entry it had still to visit, which without seamless switching none does.      *)
THEOREM CrashOnlyByRace == Spec => []CrashNeedsRace
<1> DEFINE Undisturbed == ~setting.pool_threads => raced = FALSE
<1>1. Init => Undisturbed
  BY DEF Init
<1>2. SweepInv /\ Undisturbed /\ [Next]_vars => Undisturbed'
  <2> SUFFICES ASSUME SweepInv, Undisturbed, [Next]_vars, ~setting.pool_threads
               PROVE  raced' = FALSE
    BY SettingFixed
  <2>1. ASSUME NEW l \in Location, RemoveItem(l) PROVE raced' = FALSE
    BY <2>1 DEF RemoveItem, MainFree, SweepInv
  <2> QED
    BY <2>1 DEF Next, ClockTick, ClockSetBack, Scan, SweepScan, ScanRaced, SweepEnd, SweepItem,
               AddFile, AddPlaylist, AddSegment, FillSegment, vars
<1>3. SweepInv /\ Undisturbed => CrashNeedsRace
  BY DEF SweepInv, CrashNeedsRace
<1> HIDE DEF Undisturbed
<1> QED  BY <1>1, <1>2, <1>3, SweepInvAlways, PTL DEF Spec

------------------------------------------------------------------------------
(* The two loops come to the policy.                                       *)

LengthsOf(items) == [l \in Location |-> items[l].len]

(* The assumption under which an unsigned holds all sizes: the limit, and  *)
(* all contents together, are less than UINT bytes (CacheManagement.h).    *)
NoWrap ==
  /\ MaxTotalMB * MiB < UINT
  /\ \A items \in Cache : SumFunctionOnSet(LengthsOf(items), Location) < UINT

(* The ages of SweptFrom, and the entries that have not expired.           *)
PolicyAge(b) ==
  [l \in Location |->
     IF b.cache[l].kind # "Playlist" THEN (b.looks[l].first - b.cache[l].at) % ULONG
     ELSE IF b.looks[l].first = b.looks[l].second THEN 0
     ELSE ULONG - 1]
Young(b) == {l \in Dated(b.cache) : PolicyAge(b)[l] =< MaxFileAge}

(* The running total at entry l fits.                                      *)
Fits(b, l) == RunningTotal(PolicyAge(b), LengthsOf(b.cache), Young(b), l) =< MaxTotalMB * MiB

(* The walk over items_by_age, with `left` of it still to go: what has     *)
(* been walked comes before what is left, its lengths have been added up,  *)
(* and of it is cached what fits.                                          *)
Walked(b, left, age, total, items) ==
  /\ left \subseteq Young(b)
  /\ \A l \in Young(b) : age[l] = PolicyAge(b)[l]
  /\ \A k \in Young(b) \ left : \A l \in left : WalkedBefore(PolicyAge(b), k, l)
  /\ total = SumFunctionOnSet(LengthsOf(b.cache), Young(b) \ left)
  /\ \A l \in Location :
       items[l] = IF \/ l \in Dated(b.cache) \ Young(b)
                     \/ l \in Young(b) \ left /\ ~Fits(b, l)
                  THEN None ELSE b.cache[l]

Walk ==
  ~setting.pool_threads /\ sweep.pc = "evict" =>
    Walked(before, sweep.items_by_age, sweep.age, sweep.total_size, cache_items)

(* Small numbers are their own remainder, and -1 is the greatest unsigned. *)
LEMMA Remainders ==
  ASSUME NEW n \in Nat \ {0}
  PROVE  /\ \A i \in 0 .. n - 1 : i % n = i
         /\ (-1) % n = n - 1
<1>1. \A i \in 0 .. n - 1 : i % n = i
  OBVIOUS
<1>2. (-1) % n = n - 1
  OBVIOUS
<1> QED  BY <1>1, <1>2

(* Lengths are numbers that can be added up.                               *)
LEMMA LengthSums ==
  ASSUME NEW items \in Cache
  PROVE  /\ SumFunctionOnSet(LengthsOf(items), {}) = 0
         /\ \A T \in SUBSET Location : SumFunctionOnSet(LengthsOf(items), T) \in Nat
         /\ \A T \in SUBSET Location : \A l \in Location \ T :
              SumFunctionOnSet(LengthsOf(items), T \cup {l})
                = SumFunctionOnSet(LengthsOf(items), T) + items[l].len
         /\ \A T \in SUBSET Location :
              SumFunctionOnSet(LengthsOf(items), T) =< SumFunctionOnSet(LengthsOf(items), Location)
<1> DEFINE f == LengthsOf(items)
<1>1. \A l \in Location : f[l] = items[l].len
  BY DEF LengthsOf
<1>2. \A l \in Location : items[l].len \in Nat
  BY ConstantsAssumption DEF Cache, Item, None
<1>3. \A l \in Location : f[l] \in Nat
  BY <1>1, <1>2
<1> HIDE DEF f
<1>4. /\ SumFunctionOnSet(f, {}) = 0
      /\ \A T \in SUBSET Location : SumFunctionOnSet(f, T) \in Nat
      /\ \A T \in SUBSET Location : \A x \in Location \ T :
           SumFunctionOnSet(f, T \cup {x}) = SumFunctionOnSet(f, T) + f[x]
      /\ \A T \in SUBSET Location : SumFunctionOnSet(f, T) =< SumFunctionOnSet(f, Location)
  BY <1>3, ConstantsAssumption, SumRules
<1>5. \A T \in SUBSET Location : \A x \in Location \ T :
        SumFunctionOnSet(f, T \cup {x}) = SumFunctionOnSet(f, T) + items[x].len
  BY <1>1, <1>4
<1> QED  BY <1>4, <1>5 DEF f

(* The ages the first loop computes are those of the policy.               *)
LEMMA ScanAges ==
  ASSUME TypeOK, NEW turn \in Turns, NEW l \in Dated(cache_items),
         NEW looks, looks \in [Location -> Looks],
         looks[l] = [first |-> ClockAt(turn, 2 * l), second |-> ClockAt(turn, 2 * l + 1)]
  PROVE  AgeOf(cache_items[l], looks[l]) = PolicyAge([cache |-> cache_items, looks |-> looks])[l]
<1> DEFINE b == [cache |-> cache_items, looks |-> looks]
<1>1. l \in Location /\ l \in Nat /\ b.cache = cache_items /\ b.looks = looks
  BY ConstantsAssumption DEF Dated
<1> HIDE DEF b
<1>2. CASE cache_items[l].kind # "Playlist"
  BY <1>1, <1>2 DEF AgeOf, ReceivedAt, PolicyAge
<1>3. CASE cache_items[l].kind = "Playlist"
  <2>1. AgeOf(cache_items[l], looks[l]) = (looks[l].first - looks[l].second) % ULONG
    BY <1>3 DEF AgeOf, ReceivedAt
  <2>2. looks[l].first = ClockAt(turn, 2 * l) /\ looks[l].second = ClockAt(turn, 2 * l + 1)
    OBVIOUS
  <2>3. turn \in Int /\ now \in Nat
    BY ConstantsAssumption DEF Turns, NoTurn, Dated, TypeOK, Time
  <2>4. looks[l].first = looks[l].second \/ looks[l].second = looks[l].first + 1
    BY <1>1, <2>2, <2>3 DEF ClockAt
  <2>5. looks[l].first \in Int /\ looks[l].second \in Int
    BY <1>1, <2>2, <2>3 DEF ClockAt
  <2>6. looks[l].first - looks[l].second = IF looks[l].first = looks[l].second THEN 0 ELSE -1
    BY <2>4, <2>5
  <2>7. 0 % ULONG = 0 /\ (-1) % ULONG = ULONG - 1
    <3>1. 0 \in 0 .. ULONG - 1 /\ ULONG \in Nat \ {0}
      BY ConstantsAssumption
    <3> QED  BY <3>1, Remainders
  <2>8. PolicyAge(b)[l] = IF looks[l].first = looks[l].second THEN 0 ELSE ULONG - 1
    BY <1>1, <1>3 DEF PolicyAge
  <2> QED  BY <2>1, <2>6, <2>7, <2>8 DEF b
<1> QED  BY <1>2, <1>3 DEF b

(* The limit is not cut off.                                               *)
LEMMA LimitWhole ==
  ASSUME NoWrap
  PROVE  MaxCacheSize = MaxTotalMB * MiB /\ MaxTotalMB * MiB \in Nat
<1> DEFINE limit == MaxTotalMB * MiB
<1>1. limit \in Nat
  BY ConstantsAssumption
<1>2. limit < UINT /\ UINT \in Nat \ {0} /\ MaxCacheSize = limit % UINT
  BY ConstantsAssumption DEF NoWrap, MaxCacheSize
<1> HIDE DEF limit
<1>3. limit \in 0 .. UINT - 1
  BY <1>1, <1>2
<1>4. limit % UINT = limit
  BY <1>2, <1>3, Remainders
<1> QED  BY <1>1, <1>2, <1>4 DEF limit

LEMMA YoungParts ==
  ASSUME NEW b, b.cache \in Cache, b.looks \in [Location -> Looks]
  PROVE  /\ Young(b) \subseteq Dated(b.cache) /\ Dated(b.cache) \subseteq Location
         /\ \A l \in Dated(b.cache) : b.cache[l] # None /\ PolicyAge(b)[l] \in Nat
<1>1. Young(b) \subseteq Dated(b.cache) /\ Dated(b.cache) \subseteq Location
  BY DEF Young, Dated
<1>2. ASSUME NEW l \in Dated(b.cache) PROVE b.cache[l] # None /\ PolicyAge(b)[l] \in Nat
  <2>1. l \in Location /\ b.cache[l] # None
    BY <1>1 DEF Dated, None
  <2>2. b.cache[l] \in Item /\ b.looks[l] \in Looks
    BY <2>1 DEF Cache
  <2>3. b.looks[l].first - b.cache[l].at \in Int
    BY <2>2, ConstantsAssumption DEF Item, Looks, Time
  <2>4. \A i \in Int : i % ULONG \in Nat
    BY ConstantsAssumption
  <2>5. ULONG - 1 \in Nat
    BY ConstantsAssumption
  <2> QED  BY <2>1, <2>3, <2>4, <2>5 DEF PolicyAge
<1> QED  BY <1>1, <1>2

(* One entry further.                                                      *)
LEMMA WalkOn ==
  ASSUME NoWrap, NEW b, b.cache \in Cache, b.looks \in [Location -> Looks],
         NEW left, NEW age, NEW total, NEW items \in Cache,
         Walked(b, left, age, total, items),
         NEW l \in left, \A k \in left : ~WalkedBefore(age, k, l),
         NEW next, next = (total + items[l].len) % UINT,
         NEW after, after = [items EXCEPT ![l] = IF next > MaxCacheSize THEN None ELSE @]
  PROVE  items[l] # None /\ Walked(b, left \ {l}, age, next, after)
<1> DEFINE young == Young(b)
           done == young \ left
           Sum(T) == SumFunctionOnSet(LengthsOf(b.cache), T)
           Before(k, m) == WalkedBefore(PolicyAge(b), k, m)
<1>1. /\ young \subseteq Dated(b.cache) /\ Dated(b.cache) \subseteq Location
      /\ \A k \in young : PolicyAge(b)[k] \in Nat /\ k \in Nat
  BY YoungParts, ConstantsAssumption
<1>2. left \subseteq young /\ \A k \in young : age[k] = PolicyAge(b)[k]
  BY DEF Walked
<1>3. \A k \in left : ~Before(k, l)
  BY <1>2 DEF WalkedBefore
<1>4. \A k \in done : \A m \in left : Before(k, m)
  BY DEF Walked
<1>5. {k \in young : k = l \/ Before(k, l)} = done \cup {l}
  BY <1>2, <1>3, <1>4
<1>6. done \cup {l} = young \ (left \ {l}) /\ done \in SUBSET Location
      /\ l \in Location \ done /\ done \cup {l} \in SUBSET Location
  BY <1>1, <1>2
<1>7. items[l] = b.cache[l] /\ items[l] # None
  <2>1. l \in Location /\ l \in young /\ l \notin Dated(b.cache) \ young /\ l \notin done
    BY <1>1, <1>2
  <2>2. b.cache[l] # None
    BY <1>1, <2>1, YoungParts
  <2> QED  BY <2>1, <2>2 DEF Walked
<1>8. total = Sum(done)
  BY DEF Walked
<1>9. /\ Sum(done \cup {l}) = Sum(done) + b.cache[l].len
      /\ Sum(done \cup {l}) =< Sum(Location) /\ Sum(Location) < UINT
      /\ Sum(done \cup {l}) \in Nat /\ Sum(Location) \in Nat
  <2>1. Sum(Location) < UINT
    BY DEF NoWrap
  <2>2. Location \in SUBSET Location
    OBVIOUS
  <2> HIDE DEF done
  <2> QED  BY <1>6, <2>1, <2>2, LengthSums
<1>10. next = Sum(done \cup {l})
  <2> DEFINE sum == Sum(done \cup {l})
  <2>1. sum \in 0 .. UINT - 1 /\ UINT \in Nat \ {0}
    BY <1>9, ConstantsAssumption
  <2>2. next = sum % UINT
    BY <1>7, <1>8, <1>9
  <2> HIDE DEF sum
  <2>3. sum % UINT = sum
    BY <2>1, Remainders
  <2> QED  BY <2>2, <2>3 DEF sum
<1>11. RunningTotal(PolicyAge(b), LengthsOf(b.cache), young, l) = next
  <2>1. RunningTotal(PolicyAge(b), LengthsOf(b.cache), young, l)
          = Sum({k \in young : k = l \/ Before(k, l)})
    BY DEF RunningTotal
  <2> HIDE DEF Before, Sum, done, young
  <2> QED  BY <1>5, <1>10, <2>1, Zenon
<1>12. next > MaxCacheSize <=> ~Fits(b, l)
  <2>1. next \in Nat
    BY <1>9, <1>10
  <2> QED  BY <1>11, <2>1, LimitWhole DEF Fits
<1>13. ASSUME NEW k \in young \ (left \ {l}), NEW m \in left \ {l} PROVE Before(k, m)
  <2>1. CASE k \in done
    BY <1>4, <2>1, <1>13
  <2>2. CASE k = l
    <3>1. ~Before(m, l) /\ m # l /\ m \in young /\ l \in young
      BY <1>2, <1>3
    <3> QED  BY <1>1, <2>2, <3>1 DEF WalkedBefore
  <2> QED  BY <2>1, <2>2
<1>14. ASSUME NEW k \in Location
       PROVE  after[k] = IF \/ k \in Dated(b.cache) \ young
                            \/ k \in young \ (left \ {l}) /\ ~Fits(b, k)
                         THEN None ELSE b.cache[k]
  <2>1. k \in DOMAIN items
    BY DEF Cache
  <2>2. items[k] = IF \/ k \in Dated(b.cache) \ young
                      \/ k \in done /\ ~Fits(b, k)
                   THEN None ELSE b.cache[k]
    BY DEF Walked
  <2>3. CASE k = l
    <3>1. after[k] = IF ~Fits(b, l) THEN None ELSE b.cache[l]
      BY <1>7, <1>12, <2>1, <2>3
    <3>2. l \in young /\ l \notin left \ {l}
      BY <1>2
    <3> QED  BY <2>3, <3>1, <3>2
  <2>4. CASE k # l
    <3>1. after[k] = items[k]
      BY <2>1, <2>4
    <3>2. k \in done <=> k \in young \ (left \ {l})
      BY <2>4
    <3> QED  BY <2>2, <3>1, <3>2
  <2> QED  BY <2>3, <2>4
<1>15. next = Sum(young \ (left \ {l}))
  BY <1>6, <1>10
<1>16. left \ {l} \subseteq young
  BY <1>2
<1> QED  BY <1>2, <1>7, <1>13, <1>14, <1>15, <1>16 DEF Walked

(* After the last entry, what is cached is what the policy keeps.          *)
LEMMA WalkDone ==
  ASSUME NEW b, b.cache \in Cache, b.looks \in [Location -> Looks],
         NEW age, NEW total, NEW items \in Cache, Walked(b, {}, age, total, items)
  PROVE  items = SweptFrom(b)
<1> DEFINE kept == Retained(PolicyAge(b), LengthsOf(b.cache), Dated(b.cache), MaxFileAge, MaxTotalMB * MiB)
<1>1. SweptFrom(b) = [l \in Location |-> IF l \in Dated(b.cache) \ kept THEN None ELSE b.cache[l]]
  BY DEF SweptFrom, PolicyAge, LengthsOf
<1>2. kept = {l \in Young(b) : Fits(b, l)}
  BY DEF Retained, Young, Fits
<1>3. Young(b) \subseteq Dated(b.cache)
  BY YoungParts
<1> HIDE DEF kept
<1>4. ASSUME NEW l \in Location
      PROVE  items[l] = IF l \in Dated(b.cache) \ kept THEN None ELSE b.cache[l]
  <2>1. items[l] = IF \/ l \in Dated(b.cache) \ Young(b)
                      \/ l \in Young(b) /\ ~Fits(b, l)
                   THEN None ELSE b.cache[l]
    BY DEF Walked
  <2> QED  BY <1>2, <1>3, <2>1
<1>5. items = [l \in Location |-> items[l]]
  BY DEF Cache
<1> QED  BY <1>1, <1>4, <1>5

(* The first loop leaves the whole walk to go.                             *)
LEMMA WalkBegins ==
  ASSUME TypeOK, NEW turn \in Turns, SweepScan(turn), ~setting.pool_threads
  PROVE  Walk'
<1> DEFINE looks == [l \in Location |-> IF l \in Dated(cache_items)
                                        THEN [first  |-> ClockAt(turn, 2 * l),
                                              second |-> ClockAt(turn, 2 * l + 1)]
                                        ELSE NoLooks]
           age   == [l \in Location |-> IF l \in Dated(cache_items)
                                        THEN AgeOf(cache_items[l], looks[l]) ELSE 0]
           gone  == {l \in Dated(cache_items) : Expired(age[l])}
           b     == [cache |-> cache_items, looks |-> looks]
<1>1. /\ sweep' = [pc |-> "evict", items_by_age |-> Dated(cache_items) \ gone,
                   age |-> age, total_size |-> 0]
      /\ cache_items' = [l \in Location |-> IF l \in gone THEN None ELSE cache_items[l]]
      /\ before' = b
  BY DEF SweepScan, ByAge
<1>2. TypeOK'
  BY TypeStep DEF Next, Scan
<1>3. looks \in [Location -> Looks]
  BY <1>1, <1>2 DEF TypeOK
<1>4. Dated(cache_items) \subseteq Location
  BY DEF Dated
<1>5. ASSUME NEW l \in Dated(cache_items) PROVE age[l] = PolicyAge(b)[l]
  <2>1. /\ looks[l] = [first |-> ClockAt(turn, 2 * l), second |-> ClockAt(turn, 2 * l + 1)]
        /\ age[l] = AgeOf(cache_items[l], looks[l])
    BY <1>4
  <2> HIDE DEF looks, age
  <2> QED  BY <1>3, <2>1, ScanAges
<1>6. b.cache = cache_items /\ b.looks = looks /\ cache_items \in Cache
  BY DEF TypeOK
<1> HIDE DEF b, age, looks
<1>7. \A l \in Dated(cache_items) : PolicyAge(b)[l] \in Nat
  BY <1>3, <1>6, YoungParts
<1>8. gone = Dated(cache_items) \ Young(b) /\ Young(b) = Dated(cache_items) \ gone
  BY <1>5, <1>6, <1>7, ConstantsAssumption DEF Young, Expired
<1>9. Walked(b, Young(b), age, 0, cache_items')
  <2>1. SumFunctionOnSet(LengthsOf(b.cache), {}) = 0 /\ Young(b) \ Young(b) = {}
    BY <1>6, LengthSums
  <2>2. \A l \in Young(b) : age[l] = PolicyAge(b)[l]
    BY <1>5, <1>8
  <2>3. \A l \in Location : cache_items'[l] = IF l \in Dated(cache_items) \ Young(b)
                                              THEN None ELSE cache_items[l]
    BY <1>1, <1>8
  <2>4. 0 = SumFunctionOnSet(LengthsOf(b.cache), Young(b) \ Young(b))
    BY <2>1, Zenon
  <2> QED  BY <1>6, <2>2, <2>3, <2>4 DEF Walked
<1>10. Walked(before', sweep'.items_by_age, sweep'.age, sweep'.total_size, cache_items')
  <2>1. sweep'.items_by_age = Young(b) /\ sweep'.age = age /\ sweep'.total_size = 0
    BY <1>1, <1>8
  <2> QED  BY <1>1, <1>9, <2>1, Zenon
<1> QED  BY <1>10 DEF Walk

LEMMA WalkStep ==
  ASSUME NoWrap, SweepInv, TypeOK', Walk, [Next]_vars, ~crashed
  PROVE  Walk'
<1> SUFFICES ASSUME ~setting'.pool_threads, sweep'.pc = "evict"
             PROVE  Walk'
  BY DEF Walk
<1>1. TypeOK /\ setting' = setting
  BY SettingFixed DEF SweepInv
<1>2. ASSUME UNCHANGED <<setting, cache_items, sweep, before>> PROVE Walk'
  BY <1>2 DEF Walk
<1>3. CASE ClockTick \/ ClockSetBack \/ UNCHANGED vars
  BY <1>2, <1>3 DEF ClockTick, ClockSetBack, vars
<1>4. \A l \in Location : \A len \in 0 .. MaxLen :
        /\ ~AddFile(l, len) /\ ~AddPlaylist(l, len) /\ ~FillSegment(l, len)
        /\ \A at \in 0 .. now : ~AddSegment(l, at, len)
  BY <1>1 DEF AddFile, AddPlaylist, AddSegment, FillSegment, MainFree
<1>5. \A l \in Location : ~RemoveItem(l) /\ ~ScanRaced(l)
  BY <1>1 DEF RemoveItem, ScanRaced, MainFree
<1>6. ASSUME NEW turn \in Turns, SweepScan(turn) PROVE Walk'
  BY <1>1, <1>6, WalkBegins
<1>7. ASSUME NEW l \in Location, SweepItem(l) PROVE Walk'
  <2> DEFINE next == (sweep.total_size + cache_items[l].len) % UINT
             after == [cache_items EXCEPT ![l] = IF next > MaxCacheSize THEN None ELSE @]
  <2>1. Walked(before, sweep.items_by_age, sweep.age, sweep.total_size, cache_items)
    BY <1>1, <1>7 DEF Walk, SweepItem
  <2>2. l \in sweep.items_by_age /\ \A k \in sweep.items_by_age : ~WalkedBefore(sweep.age, k, l)
    BY <1>7 DEF SweepItem, WalkIsAt
  <2>3. before.cache \in Cache /\ before.looks \in [Location -> Looks] /\ cache_items \in Cache
    BY <1>1 DEF TypeOK
  <2>4. /\ cache_items[l] # None
        /\ Walked(before, sweep.items_by_age \ {l}, sweep.age, next, after)
    <3> HIDE DEF next
    <3>1. next = (sweep.total_size + cache_items[l].len) % UINT
      BY DEF next
    <3>2. after = [cache_items EXCEPT ![l] = IF next > MaxCacheSize THEN None ELSE @]
      OBVIOUS
    <3> HIDE DEF after
    <3> QED  BY <2>1, <2>2, <2>3, <3>1, <3>2, WalkOn
  <2>5. /\ sweep' = [sweep EXCEPT !.items_by_age = @ \ {l}, !.total_size = next]
        /\ cache_items' = after /\ before' = before
    BY <1>7, <2>4 DEF SweepItem
  <2> HIDE DEF next, after
  <2>6. /\ sweep'.items_by_age = sweep.items_by_age \ {l}
        /\ sweep'.age = sweep.age /\ sweep'.total_size = next
    BY <1>1, <2>5 DEF TypeOK, SweepState
  <2>7. Walked(before, sweep.items_by_age, sweep.age, sweep.total_size, cache_items)'
    BY <2>4, <2>5, <2>6, Zenon
  <2> QED  BY <2>7 DEF Walk
<1>8. CASE SweepEnd
  BY <1>8 DEF SweepEnd, NoSweep
<1> QED
  <2>1. setting.locations \subseteq Location
    BY <1>1, UsedLocations
  <2> QED  BY <2>1, <1>3, <1>4, <1>6, <1>7, <1>8, <1>5 DEF Next, Scan

(* With one thread the sweep, which first drops what is too old, and then  *)
(* walks the rest by age and drops what exceeds the size, keeps exactly    *)
(* what the policy says (CacheManagement.cpp:29-58), for all contents that *)
(* an unsigned can count.                                                  *)
THEOREM SweepIsPolicy ==
  ASSUME NoWrap
  PROVE  Spec => SweepFollowsPolicy
<1> DEFINE Alone == crashed => setting.pool_threads
<1>1. Spec => []Alone
  <2>1. CrashNeedsRace => Alone
    BY DEF CrashNeedsRace
  <2> HIDE DEF Alone
  <2> QED  BY <2>1, CrashOnlyByRace, PTL
<1>2. Init => Walk
  BY DEF Init, Walk, NoSweep
<1>3. SweepInv /\ Alone /\ Walk /\ [Next]_vars => Walk'
  <2> SUFFICES ASSUME SweepInv, Alone, Walk, [Next]_vars PROVE Walk'
    OBVIOUS
  <2>1. TypeOK'
    BY TypeStep DEF SweepInv
  <2>2. CASE crashed
    BY <2>2, SettingFixed DEF Walk
  <2> QED  BY <2>1, <2>2, WalkStep
<1>4. SweepInv /\ Walk /\ [Next]_vars
        => [SweepEnd /\ ~setting.pool_threads => cache_items = SweptFrom(before)]_vars
  <2> SUFFICES ASSUME SweepInv, Walk, SweepEnd, ~setting.pool_threads
               PROVE  cache_items = SweptFrom(before)
    OBVIOUS
  <2>1. /\ Walked(before, {}, sweep.age, sweep.total_size, cache_items)
        /\ before.cache \in Cache /\ before.looks \in [Location -> Looks] /\ cache_items \in Cache
    BY DEF Walk, SweepEnd, SweepInv, TypeOK
  <2> QED  BY <2>1, WalkDone
<1> HIDE DEF Alone
<1> QED  BY <1>1, <1>2, <1>3, <1>4, SweepInvAlways, PTL DEF Spec, SweepFollowsPolicy
================================================================================
