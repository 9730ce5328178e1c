----------------------------- MODULE CachePolicy -----------------------------
(***************************************************************************)
(* The eviction policy of the file cache, as pure operators: what a whole  *)
(* pass of CacheManagement::check_file_expiry_and_cache_size leaves in the *)
(* cache.  CacheManagement runs the same pass statement by statement and   *)
(* is compared with these operators; SeamlessContentStream uses them for   *)
(* the pass as one step.                                                   *)
(*                                                                         *)
(* An entry is named by its cache location, a number: the order of the     *)
(* numbers stands for the order of the std::map's string keys.             *)
(***************************************************************************)
EXTENDS Integers, Functions

(* The order in which the std::multimap items_by_age is walked: by age,    *)
(* and entries of one age in the order the scan inserted them, which is    *)
(* the order of their locations.                                           *)
WalkedBefore(age, k, l) == \/ age[k] < age[l]
                           \/ age[k] = age[l] /\ k < l

(* The value of total_size when the walk has added entry l.                *)
RunningTotal(age, length, walked, l) ==
  SumFunctionOnSet(length, {k \in walked : k = l \/ WalkedBefore(age, k, l)})

(* The entries of `dated` (those with a received_at) a pass leaves cached: *)
(* not older than maxAge, and, youngest first, within maxSize.  An entry   *)
(* that does not fit still counts, so nothing older than it fits either.   *)
Retained(age, length, dated, maxAge, maxSize) ==
  LET fresh == {l \in dated : age[l] =< maxAge}
  IN  {l \in fresh : RunningTotal(age, length, fresh, l) =< maxSize}
==============================================================================
