------------------------------ MODULE SharedLemmas ------------------------------
(***************************************************************************)
(* Induction up to a number, and what it gives of the flattening of a      *)
(* sequence of sequences, of a fold over a sequence, and of the sum of a   *)
(* function's values over a set.                                           *)
(***************************************************************************)
EXTENDS Integers, SequencesExt, TLAPS, FiniteSetTheorems, SequenceTheorems, WellFoundedInduction

(* A nonempty set of numbers has a least one.                              *)
LEMMA HasLeast ==
  ASSUME NEW S \in SUBSET Nat, S # {}
  PROVE  \E m \in S : \A t \in S : m =< t
<1> DEFINE R == OpToRel(<, Nat)
<1>1. IsWellFoundedOn(R, Nat)
  BY NatLessThanWellFounded
<1>2. \A x, y \in Nat : x < y => <<x, y>> \in R
  BY DEF OpToRel
<1> HIDE DEF R
<1>3. PICK m \in S : \A t \in S : ~(<<t, m>> \in R)
  BY <1>1, WFMin
<1>4. SUFFICES ASSUME NEW t \in S PROVE m =< t
  OBVIOUS
<1>5. m \in Nat /\ t \in Nat
  OBVIOUS
<1>6. t < m => <<t, m>> \in R
  BY <1>2, <1>5
<1>7. ~(t < m)
  BY <1>3, <1>6
<1> QED  BY <1>5, <1>7

(* Induction up to n, for a set of numbers.                                *)
LEMMA UpTo ==
  ASSUME NEW n \in Nat, NEW P, 0 \in P,
         \A k \in 1 .. n : k - 1 \in P => k \in P
  PROVE  n \in P
<1> DEFINE Missing == {k \in 0 .. n : k \notin P}
<1>1. SUFFICES ASSUME Missing # {} PROVE FALSE
  OBVIOUS
<1>2. Missing \in SUBSET Nat
  OBVIOUS
<1>3. PICK m \in Missing : \A t \in Missing : m =< t
  BY <1>1, <1>2, HasLeast
<1>4. m # 0 /\ m \in 1 .. n /\ m - 1 \in 0 .. n /\ ~(m =< m - 1)
  OBVIOUS
<1>5. m - 1 \in P
  BY <1>3, <1>4
<1> QED  BY <1>3, <1>4, <1>5

------------------------------------------------------------------------------
(* Sequences.                                                              *)

(* FlattenSeq's recursion has a solution: the partial concatenations.      *)
LEMMA FlattenRule ==
  ASSUME NEW S, NEW seqs \in Seq(Seq(S)), seqs # <<>>
  PROVE  \E f \in [1 .. Len(seqs) -> Seq(S)] :
           /\ \A i \in 1 .. Len(seqs) : f[i] = IF i = 1 THEN seqs[i] ELSE f[i - 1] \o seqs[i]
           /\ FlattenSeq(seqs) = f[Len(seqs)]
<1> DEFINE n == Len(seqs)
           Good(k, f) == /\ f \in [1 .. k -> Seq(S)]
                         /\ \A i \in 1 .. k : f[i] = IF i = 1 THEN seqs[i] ELSE f[i - 1] \o seqs[i]
           P == {k \in 0 .. n : \E f : Good(k, f)}
           Rule(f) == f = [i \in 1 .. Len(seqs) |-> IF i = 1 THEN seqs[i] ELSE f[i - 1] \o seqs[i]]
<1>1. n \in Nat /\ n > 0 /\ \A i \in 1 .. n : seqs[i] \in Seq(S)
  OBVIOUS
<1>2. 0 \in P
  <2>1. Good(0, [i \in 1 .. 0 |-> <<>>])
    OBVIOUS
  <2> HIDE DEF Good
  <2> QED  BY <2>1, <1>1
<1>3. ASSUME NEW k \in 1 .. n, k - 1 \in P PROVE k \in P
  <2>1. PICK f : Good(k - 1, f)
    BY <1>3
  <2> DEFINE g == [i \in 1 .. k |-> IF i < k THEN f[i]
                                    ELSE IF i = 1 THEN seqs[i] ELSE f[i - 1] \o seqs[i]]
  <2>2. k \in Nat /\ seqs[k] \in Seq(S) /\ 1 .. (k - 1) \subseteq 1 .. k
    BY <1>1
  <2>3. k # 1 => f[k - 1] \in Seq(S) /\ f[k - 1] \o seqs[k] \in Seq(S)
    BY <2>1, <2>2
  <2>4. g \in [1 .. k -> Seq(S)]
    <3> SUFFICES ASSUME NEW i \in 1 .. k PROVE g[i] \in Seq(S)
      OBVIOUS
    <3>1. CASE i < k
      <4>1. i \in 1 .. (k - 1)
        BY <3>1
      <4> QED  BY <2>1, <3>1, <4>1
    <3>2. CASE ~(i < k)
      <4>1. i = k
        BY <3>2
      <4> QED  BY <2>2, <2>3, <4>1
    <3> QED  BY <3>1, <3>2
  <2>5. \A i \in 1 .. k : g[i] = IF i = 1 THEN seqs[i] ELSE g[i - 1] \o seqs[i]
    <3> SUFFICES ASSUME NEW i \in 1 .. k
                 PROVE  g[i] = IF i = 1 THEN seqs[i] ELSE g[i - 1] \o seqs[i]
      OBVIOUS
    <3>1. i # 1 => i - 1 \in 1 .. k /\ i - 1 < k /\ g[i - 1] = f[i - 1]
      OBVIOUS
    <3>2. i < k => i \in 1 .. (k - 1)
      OBVIOUS
    <3> QED  BY <2>1, <3>1, <3>2
  <2>6. Good(k, g)
    BY <2>4, <2>5
  <2> HIDE DEF Good
  <2> QED  BY <2>2, <2>6, <1>1
<1>4. n \in P
  <2> HIDE DEF P
  <2> QED  BY <1>1, <1>2, <1>3, UpTo
<1>5. PICK f : Good(n, f)
  BY <1>4
<1>6. Rule(f)
  BY <1>5
<1>7. FlattenSeq(seqs) = (CHOOSE g : Rule(g))[n]
  BY <1>1 DEF FlattenSeq
<1>8. Rule(CHOOSE g : Rule(g))
  BY <1>6
<1> DEFINE h == CHOOSE g : Rule(g)
<1>9. h = [i \in 1 .. n |-> IF i = 1 THEN seqs[i] ELSE h[i - 1] \o seqs[i]]
  BY <1>8
<1> HIDE DEF h
<1> DEFINE Q == {k \in 0 .. n : k # 0 => h[k] = f[k]}
<1>10. n \in Q
  <2>1. 0 \in Q
    BY <1>1
  <2>2. ASSUME NEW k \in 1 .. n, k - 1 \in Q PROVE k \in Q
    <3>1. h[k] = IF k = 1 THEN seqs[k] ELSE h[k - 1] \o seqs[k]
      BY <1>9
    <3>2. f[k] = IF k = 1 THEN seqs[k] ELSE f[k - 1] \o seqs[k]
      BY <1>5
    <3> QED  BY <2>2, <3>1, <3>2
  <2> HIDE DEF Q
  <2> QED  BY <1>1, <2>1, <2>2, UpTo
<1>11. FlattenSeq(seqs) = f[n]
  BY <1>1, <1>7, <1>10 DEF h
<1> QED  BY <1>5, <1>11

(* What the concatenation of the first k sequences has, for every k, if    *)
(* adding one more keeps it.                                               *)
LEMMA FlattenFolds ==
  ASSUME NEW S, NEW seqs \in Seq(Seq(S)), NEW G, <<0, <<>>>> \in G,
         \A k \in 1 .. Len(seqs) : \A f \in Seq(S) :
           <<k - 1, f>> \in G => <<k, f \o seqs[k]>> \in G
  PROVE  FlattenSeq(seqs) \in Seq(S) /\ <<Len(seqs), FlattenSeq(seqs)>> \in G
<1>1. CASE seqs = <<>>
  BY <1>1 DEF FlattenSeq
<1>2. CASE seqs # <<>>
  <2>1. PICK f \in [1 .. Len(seqs) -> Seq(S)] :
          /\ \A i \in 1 .. Len(seqs) : f[i] = IF i = 1 THEN seqs[i] ELSE f[i - 1] \o seqs[i]
          /\ FlattenSeq(seqs) = f[Len(seqs)]
    BY <1>2, FlattenRule
  <2>2. Len(seqs) \in Nat /\ Len(seqs) > 0 /\ \A i \in 1 .. Len(seqs) : seqs[i] \in Seq(S)
    BY <1>2
  <2> DEFINE P == {k \in 0 .. Len(seqs) : k # 0 => <<k, f[k]>> \in G}
  <2>3. 0 \in P
    BY <2>2
  <2>4. ASSUME NEW k \in 1 .. Len(seqs), k - 1 \in P PROVE k \in P
    <3>1. seqs[k] \in Seq(S)
      BY <2>2
    <3> SUFFICES <<k, f[k]>> \in G
      BY <2>2
    <3>2. CASE k = 1
      <4>1. <<>> \in Seq(S) /\ <<>> \o seqs[1] = seqs[1]
        BY <3>1, <3>2, ConcatEmptySeq
      <4>2. <<k - 1, <<>>>> \in G => <<k, <<>> \o seqs[k]>> \in G
        BY <4>1
      <4>3. k - 1 = 0 /\ f[k] = <<>> \o seqs[k]
        <5>1. f[k] = seqs[k]
          BY <2>1, <3>2
        <5>2. <<>> \o seqs[k] = seqs[k]
          BY <3>1, ConcatEmptySeq
        <5> QED  BY <3>2, <5>1, <5>2
      <4> HIDE DEF P
      <4> QED  BY <4>2, <4>3
    <3>3. CASE k # 1
      <4>1. k - 1 \in 1 .. Len(seqs) /\ k - 1 # 0
        BY <3>3
      <4>2. <<k - 1, f[k - 1]>> \in G /\ f[k - 1] \in Seq(S)
        BY <2>1, <2>4, <4>1
      <4>3. <<k, f[k - 1] \o seqs[k]>> \in G
        BY <4>2
      <4>4. f[k] = f[k - 1] \o seqs[k]
        BY <2>1, <3>3
      <4> QED  BY <4>3, <4>4
    <3> QED  BY <2>2, <3>2, <3>3
  <2>5. Len(seqs) \in P
    <3> HIDE DEF P
    <3> QED  BY <2>2, <2>3, <2>4, UpTo
  <2> QED  BY <2>1, <2>2, <2>5
<1> QED  BY <1>1, <1>2

(* Where the elements of a concatenation are.                              *)
LEMMA Concat ==
  ASSUME NEW S, NEW f \in Seq(S), NEW g \in Seq(S)
  PROVE  /\ f \o g \in Seq(S)
         /\ Len(f) \in Nat /\ Len(g) \in Nat /\ Len(f \o g) = Len(f) + Len(g)
         /\ \A k \in 1 .. Len(f) : (f \o g)[k] = f[k] /\ k \in 1 .. Len(f \o g)
         /\ \A k \in 1 .. Len(g) : (f \o g)[Len(f) + k] = g[k] /\ Len(f) + k \in 1 .. Len(f \o g)
         /\ \A k \in 1 .. Len(f \o g) :
              IF k =< Len(f) THEN k \in 1 .. Len(f) /\ (f \o g)[k] = f[k]
              ELSE k - Len(f) \in 1 .. Len(g) /\ (f \o g)[k] = g[k - Len(f)]
<1>1. f \o g \in Seq(S) /\ Len(f) \in Nat /\ Len(g) \in Nat /\ Len(f \o g) = Len(f) + Len(g)
  OBVIOUS
<1>2. \A k \in 1 .. Len(f) + Len(g) : (f \o g)[k] = IF k =< Len(f) THEN f[k] ELSE g[k - Len(f)]
  BY ConcatProperties
<1>3. ASSUME NEW k \in 1 .. Len(f) PROVE (f \o g)[k] = f[k] /\ k \in 1 .. Len(f \o g)
  BY <1>1, <1>2
<1>4. ASSUME NEW k \in 1 .. Len(g)
      PROVE  (f \o g)[Len(f) + k] = g[k] /\ Len(f) + k \in 1 .. Len(f \o g)
  <2>1. Len(f) + k \in 1 .. Len(f) + Len(g) /\ ~(Len(f) + k =< Len(f)) /\ Len(f) + k - Len(f) = k
    BY <1>1
  <2> QED  BY <1>1, <1>2, <2>1
<1>5. ASSUME NEW k \in 1 .. Len(f \o g)
      PROVE  IF k =< Len(f) THEN k \in 1 .. Len(f) /\ (f \o g)[k] = f[k]
             ELSE k - Len(f) \in 1 .. Len(g) /\ (f \o g)[k] = g[k - Len(f)]
  BY <1>1, <1>2
<1> QED  BY <1>1, <1>3, <1>4, <1>5

(* A concatenation has what its parts have.                                *)
LEMMA FlattenHas ==
  ASSUME NEW S, NEW seqs \in Seq(Seq(S)), NEW i \in 1 .. Len(seqs), seqs[i] # <<>>
  PROVE  FlattenSeq(seqs) # <<>>
<1> DEFINE G == {x \in (0 .. Len(seqs)) \X Seq(S) : i =< x[1] => x[2] # <<>>}
<1>1. Len(seqs) \in Nat /\ \A k \in 1 .. Len(seqs) : seqs[k] \in Seq(S)
  OBVIOUS
<1>2. \A k, f : <<k, f>> \in G <=> k \in 0 .. Len(seqs) /\ f \in Seq(S) /\ (i =< k => f # <<>>)
  OBVIOUS
<1> HIDE DEF G
<1>3. <<0, <<>>>> \in G
  <2>1. 0 \in 0 .. Len(seqs) /\ <<>> \in Seq(S) /\ ~(i =< 0)
    BY <1>1
  <2> QED  BY <1>2, <2>1
<1>4. ASSUME NEW k \in 1 .. Len(seqs), NEW f \in Seq(S), <<k - 1, f>> \in G
      PROVE  <<k, f \o seqs[k]>> \in G
  <2>1. /\ f \o seqs[k] \in Seq(S)
        /\ Len(f) \in Nat /\ Len(seqs[k]) \in Nat /\ Len(f \o seqs[k]) = Len(f) + Len(seqs[k])
    BY <1>1, Concat
  <2>2. i =< k => f # <<>> \/ seqs[k] # <<>>
    <3>1. CASE i = k
      BY <3>1
    <3>2. CASE i # k
      <4>1. i =< k => i =< k - 1
        BY <3>2
      <4> QED  BY <1>2, <1>4, <4>1
    <3> QED  BY <3>1, <3>2
  <2>3. ASSUME f # <<>> \/ seqs[k] # <<>> PROVE f \o seqs[k] # <<>>
    <3>1. seqs[k] \in Seq(S)
      BY <1>1
    <3>2. Len(f \o seqs[k]) # 0
      BY <2>1, <2>3, <3>1, EmptySeq
    <3> QED  BY <3>2
  <2>4. k \in 0 .. Len(seqs)
    BY <1>1
  <2> QED  BY <1>2, <2>1, <2>2, <2>3, <2>4
<1>5. <<Len(seqs), FlattenSeq(seqs)>> \in G
  BY <1>3, <1>4, FlattenFolds
<1> QED  BY <1>1, <1>2, <1>5

(* The greatest of some numbers.                                           *)
LEMMA MaxIs ==
  ASSUME NEW n \in Nat, NEW s \in SUBSET (1 .. n), s # {}
  PROVE  Max(s) \in s /\ \A j \in s : j =< Max(s)
<1> DEFINE D == {n - j : j \in s}
<1>1. PICK i \in s : TRUE
  OBVIOUS
<1>2. n - i \in D /\ D \in SUBSET Nat
  OBVIOUS
<1>3. PICK d \in D : \A e \in D : d =< e
  BY <1>2, HasLeast
<1>4. PICK m \in s : d = n - m
  OBVIOUS
<1>5. ASSUME NEW j \in s PROVE m >= j
  <2>1. d =< n - j
    BY <1>3
  <2>2. m \in Nat /\ j \in Nat
    <3>1. m \in 1 .. n /\ j \in 1 .. n
      OBVIOUS
    <3> QED  BY <3>1
  <2> QED  BY <1>4, <2>1, <2>2
<1>6. Max(s) \in s /\ \A j \in s : Max(s) >= j
  BY <1>5 DEF Max
<1>7. ASSUME NEW j \in s PROVE j =< Max(s)
  <2>1. j \in 1 .. n /\ Max(s) \in 1 .. n /\ Max(s) >= j
    BY <1>6
  <2> QED  BY <2>1
<1> QED  BY <1>6, <1>7

LEMMA MaxOf ==
  ASSUME NEW n \in Nat, NEW s \in SUBSET (1 .. n), n \in s
  PROVE  Max(s) = n
<1>1. Max(s) \in s /\ n =< Max(s)
  BY MaxIs
<1>2. Max(s) \in 1 .. n
  BY <1>1
<1> QED  BY <1>1, <1>2

(* Induction over sets of numbers, the greatest removed.                   *)
LEMMA MaxInduction ==
  ASSUME NEW n \in Nat, NEW P, {} \in P,
         \A s \in SUBSET (1 .. n) : s # {} /\ s \ {Max(s)} \in P => s \in P
  PROVE  SUBSET (1 .. n) \subseteq P
<1> DEFINE Q == {k \in 0 .. n : SUBSET (1 .. k) \subseteq P}
<1>1. 0 \in Q
  <2>1. \A s \in SUBSET (1 .. 0) : s = {}
    OBVIOUS
  <2>2. SUBSET (1 .. 0) \subseteq P
    BY <2>1
  <2>3. 0 \in 0 .. n
    OBVIOUS
  <2> QED  BY <2>2, <2>3, Zenon
<1>2. ASSUME NEW k \in 1 .. n, k - 1 \in Q PROVE k \in Q
  <2> SUFFICES ASSUME NEW s \in SUBSET (1 .. k) PROVE s \in P
    OBVIOUS
  <2>1. k \in Nat /\ SUBSET (1 .. (k - 1)) \subseteq P /\ s \in SUBSET (1 .. n)
    BY <1>2
  <2>2. CASE k \in s
    <3>1. Max(s) = k
      BY <2>1, <2>2, MaxOf
    <3>2. s \ {k} \in SUBSET (1 .. (k - 1)) /\ s # {}
      BY <2>1, <2>2
    <3>3. s \ {Max(s)} \in P
      BY <2>1, <3>1, <3>2
    <3> QED  BY <2>1, <3>2, <3>3
  <2>3. CASE k \notin s
    <3>1. s \in SUBSET (1 .. (k - 1))
      BY <2>1, <2>3
    <3> QED  BY <2>1, <3>1
  <2> QED  BY <2>2, <2>3
<1>3. n \in Q
  <2> HIDE DEF Q
  <2> QED  BY <1>1, <1>2, UpTo
<1> QED  BY <1>3

(* What FoldLeft computes: for an operation on values of V, given as a     *)
(* function of the value so far and the position, there is a table of the  *)
(* values for all sets of positions, those of the first k ones included.   *)
IsFold(H, n, base, F) ==
  /\ H[{}] = base
  /\ \A s \in SUBSET (1 .. n) : s # {} => H[s] = F[<<H[s \ {Max(s)}], Max(s)>>]

LEMMA FoldTable ==
  ASSUME NEW n \in Nat, NEW V, NEW base \in V, NEW F \in [V \X (1 .. n) -> V]
  PROVE  \E H \in [SUBSET (1 .. n) -> V] : IsFold(H, n, base, F)
<1> DEFINE Has(k) == \E H \in [SUBSET (1 .. k) -> V] : IsFold(H, k, base, F)
           Q == {k \in 0 .. n : Has(k)}
<1>1. 0 \in Q
  <2> DEFINE H == [s \in SUBSET (1 .. 0) |-> base]
  <2>1. \A s \in SUBSET (1 .. 0) : s = {}
    OBVIOUS
  <2>2. H \in [SUBSET (1 .. 0) -> V] /\ IsFold(H, 0, base, F)
    BY <2>1 DEF IsFold
  <2> HIDE DEF H
  <2>3. Has(0)
    BY <2>2
  <2> HIDE DEF Has
  <2> QED  BY <2>3
<1>2. ASSUME NEW k \in 1 .. n, k - 1 \in Q PROVE k \in Q
  <2>1. PICK G \in [SUBSET (1 .. (k - 1)) -> V] : IsFold(G, k - 1, base, F)
    BY <1>2
  <2> DEFINE H == [s \in SUBSET (1 .. k) |-> IF k \in s THEN F[<<G[s \ {k}], k>>] ELSE G[s]]
  <2>2. ASSUME NEW s \in SUBSET (1 .. k)
        PROVE  /\ s \ {k} \in SUBSET (1 .. (k - 1))
               /\ k \notin s => s \in SUBSET (1 .. (k - 1))
    OBVIOUS
  <2>3. ASSUME NEW s \in SUBSET (1 .. k) PROVE H[s] \in V
    <3>1. CASE k \in s
      <4>1. G[s \ {k}] \in V
        BY <2>1, <2>2
      <4> QED  BY <3>1, <4>1
    <3>2. CASE k \notin s
      BY <2>1, <2>2, <3>2
    <3> QED  BY <3>1, <3>2
  <2>4. H[{}] = base
    BY <2>1 DEF IsFold
  <2>5. ASSUME NEW s \in SUBSET (1 .. k), s # {}
        PROVE  H[s] = F[<<H[s \ {Max(s)}], Max(s)>>]
    <3>1. CASE k \in s
      <4>1. Max(s) = k
        BY <3>1, MaxOf
      <4>2. s \ {k} \in SUBSET (1 .. k) /\ k \notin s \ {k}
        OBVIOUS
      <4>3. H[s] = F[<<G[s \ {k}], k>>] /\ H[s \ {k}] = G[s \ {k}]
        BY <3>1, <4>2
      <4> HIDE DEF H
      <4> QED  BY <4>1, <4>3
    <3>2. CASE k \notin s
      <4>1. s \in SUBSET (1 .. (k - 1)) /\ k - 1 \in Nat
        BY <2>2, <3>2
      <4>2. Max(s) \in s
        BY <2>5, <4>1, MaxIs
      <4>3. s \ {Max(s)} \in SUBSET (1 .. k) /\ k \notin s \ {Max(s)}
        BY <3>2
      <4>4. H[s] = G[s] /\ H[s \ {Max(s)}] = G[s \ {Max(s)}]
        BY <3>2, <4>3
      <4>5. G[s] = F[<<G[s \ {Max(s)}], Max(s)>>]
        BY <2>1, <2>5, <4>1 DEF IsFold
      <4> HIDE DEF H
      <4> QED  BY <4>4, <4>5
    <3> QED  BY <3>1, <3>2
  <2>6. H \in [SUBSET (1 .. k) -> V]
    <3>1. H = [s \in SUBSET (1 .. k) |-> H[s]]
      OBVIOUS
    <3> HIDE DEF H
    <3> QED  BY <2>3, <3>1
  <2>7. IsFold(H, k, base, F)
    <3> HIDE DEF H
    <3> QED  BY <2>4, <2>5 DEF IsFold
  <2> HIDE DEF H
  <2> QED  BY <2>6, <2>7
<1>3. n \in Q
  <2> HIDE DEF Has
  <2> QED  BY <1>1, <1>2, UpTo
<1> QED  BY <1>3

(* The values after the first k positions, for each k.                     *)
AreSteps(T, H, n, V, base, F) ==
  /\ T \in [0 .. n -> V] /\ T[0] = base /\ T[n] = H[1 .. n]
  /\ \A k \in 1 .. n : k - 1 \in 0 .. n /\ T[k] = F[<<T[k - 1], k>>]

LEMMA FoldSteps ==
  ASSUME NEW n \in Nat, NEW V, NEW H \in [SUBSET (1 .. n) -> V], NEW base, NEW F,
         IsFold(H, n, base, F)
  PROVE  \E T : AreSteps(T, H, n, V, base, F)
<1> DEFINE T == [k \in 0 .. n |-> H[1 .. k]]
<1>1. \A k \in 0 .. n : 1 .. k \in SUBSET (1 .. n)
  OBVIOUS
<1>2. T \in [0 .. n -> V] /\ T[n] = H[1 .. n]
  BY <1>1
<1>3. T[0] = base
  <2>1. 1 .. 0 = {}
    OBVIOUS
  <2> QED  BY <2>1 DEF IsFold
<1>4. ASSUME NEW k \in 1 .. n PROVE k - 1 \in 0 .. n /\ T[k] = F[<<T[k - 1], k>>]
  <2>1. 1 .. k \in SUBSET (1 .. n) /\ 1 .. k # {} /\ k \in Nat /\ k - 1 \in 0 .. n
    OBVIOUS
  <2>2. Max(1 .. k) = k
    BY <2>1, MaxOf
  <2>3. (1 .. k) \ {k} = 1 .. (k - 1)
    OBVIOUS
  <2>4. H[1 .. k] = F[<<H[(1 .. k) \ {Max(1 .. k)}], Max(1 .. k)>>]
    BY <2>1 DEF IsFold
  <2>5. H[1 .. k] = F[<<H[1 .. (k - 1)], k>>]
    BY <2>2, <2>3, <2>4, Zenon
  <2> QED  BY <2>1, <2>5
<1> HIDE DEF T
<1>5. AreSteps(T, H, n, V, base, F)
  BY <1>2, <1>3, <1>4 DEF AreSteps
<1> QED  BY <1>5

------------------------------------------------------------------------------
(* Sums.                                                                   *)

(* G has the sums of f over the subsets of S.                              *)
Adds(f, S, G) ==
  /\ G[{}] = 0
  /\ \A T \in SUBSET S : \A x \in T : G[T] = f[x] + G[T \ {x}]

(* There is such a G.                                                      *)
LEMMA SumTable ==
  ASSUME NEW S, IsFiniteSet(S), NEW f, \A x \in S : f[x] \in Nat
  PROVE  \E G \in [SUBSET S -> Nat] : Adds(f, S, G)
<1> DEFINE Has(T) == \E G \in [SUBSET T -> Nat] : Adds(f, T, G)
           P == {k \in 0 .. Cardinality(S) : \A T \in SUBSET S : Cardinality(T) = k => Has(T)}
<1>1. \A T \in SUBSET S : IsFiniteSet(T) /\ Cardinality(T) \in 0 .. Cardinality(S)
  BY FS_Subset, FS_CardinalityType
<1>2. S \in SUBSET S /\ Cardinality(S) \in Nat
  BY FS_CardinalityType
<1>3. 0 \in P
  <2>1. \A T \in SUBSET S : Cardinality(T) = 0 => T = {}
    BY <1>1, FS_EmptySet
  <2>2. Has({})
    <3> DEFINE G == [T \in SUBSET {} |-> 0]
    <3>1. G \in [SUBSET {} -> Nat] /\ Adds(f, {}, G)
      BY DEF Adds
    <3> HIDE DEF G
    <3> QED  BY <3>1
  <2> HIDE DEF Has
  <2> QED  BY <1>2, <2>1, <2>2
<1>4. ASSUME NEW k \in 1 .. Cardinality(S), k - 1 \in P PROVE k \in P
  <2> HIDE DEF Has
  <2> SUFFICES ASSUME NEW T \in SUBSET S, Cardinality(T) = k PROVE Has(T)
    BY <1>2
  <2>0. k # 0 /\ T # {}
    BY <1>2, FS_EmptySet
  <2>1. PICK a \in T : TRUE
    BY <2>0
  <2> DEFINE R == T \ {a}
  <2>2. R \in SUBSET S /\ Cardinality(R) = k - 1 /\ T = R \cup {a} /\ a \notin R /\ f[a] \in Nat
    BY <1>1, <2>1, FS_RemoveElement
  <2>3. PICK G \in [SUBSET R -> Nat] : Adds(f, R, G)
    <3>1. Has(R)
      BY <1>4, <2>2
    <3> QED  BY <3>1 DEF Has
  <2> HIDE DEF R
  <2> DEFINE H == [U \in SUBSET T |-> IF a \in U THEN f[a] + G[U \ {a}] ELSE G[U]]
  <2>4. \A U \in SUBSET T : U \ {a} \in SUBSET R /\ (a \notin U => U \in SUBSET R)
    BY <2>2
  <2>5. H \in [SUBSET T -> Nat]
    BY <2>2, <2>3, <2>4
  <2>6. H[{}] = 0
    BY <2>3 DEF Adds
  <2>7. ASSUME NEW U \in SUBSET T, NEW x \in U PROVE H[U] = f[x] + H[U \ {x}]
    <3>1. CASE x = a
      BY <3>1, <2>4
    <3>2. CASE x # a /\ a \notin U
      BY <3>2, <2>3, <2>4 DEF Adds
    <3>3. CASE x # a /\ a \in U
      <4>1. U \ {a} \in SUBSET R /\ x \in U \ {a} /\ f[x] \in Nat
        BY <3>3, <2>4
      <4>2. G[U \ {a}] = f[x] + G[(U \ {a}) \ {x}]
        BY <2>3, <4>1 DEF Adds
      <4>3. (U \ {x}) \ {a} = (U \ {a}) \ {x} /\ (U \ {a}) \ {x} \in SUBSET R
            /\ U \ {x} \in SUBSET T /\ a \in U \ {x}
        BY <3>3, <4>1
      <4>4. H[U] = f[a] + G[U \ {a}] /\ H[U \ {x}] = f[a] + G[(U \ {a}) \ {x}]
        BY <3>3, <4>3
      <4>5. G[(U \ {a}) \ {x}] \in Nat
        BY <4>3
      <4> HIDE DEF H
      <4> QED  BY <2>2, <4>1, <4>2, <4>4, <4>5
    <3> QED  BY <3>1, <3>2, <3>3
  <2>8. Adds(f, T, H)
    BY <2>6, <2>7 DEF Adds
  <2> HIDE DEF H
  <2> QED  BY <2>5, <2>8 DEF Has
<1>5. Cardinality(S) \in P
  <2> HIDE DEF P
  <2> QED  BY <1>2, <1>3, <1>4, UpTo
<1> HIDE DEF Has
<1>6. Has(S)
  BY <1>2, <1>5
<1> QED  BY <1>6 DEF Has

(* The fold over a set takes its members in an unknown order; whatever it  *)
(* is, it gives the sum.                                                   *)
LEMMA SumIs ==
  ASSUME NEW S, IsFiniteSet(S), NEW f, \A x \in S : f[x] \in Nat,
         NEW G \in [SUBSET S -> Nat], Adds(f, S, G)
  PROVE  SumFunctionOnSet(f, S) = G[S]
<1> DEFINE Next(s) == CHOOSE x \in s : TRUE
           Rule(g) == g = [s \in SUBSET S |-> IF s = {} THEN 0 ELSE f[Next(s)] + g[s \ {Next(s)}]]
<1>1. Rule(G)
  <2>1. ASSUME NEW s \in SUBSET S, s # {} PROVE G[s] = f[Next(s)] + G[s \ {Next(s)}]
    <3>1. Next(s) \in s
      BY <2>1
    <3> QED  BY <3>1 DEF Adds
  <2>2. G[{}] = 0
    BY DEF Adds
  <2> HIDE DEF Next
  <2> QED  BY <2>1, <2>2
<1>2. SumFunctionOnSet(f, S) = (CHOOSE g : Rule(g))[S]
  BY DEF SumFunctionOnSet, FoldFunctionOnSet, MapThenFoldSet
<1>3. Rule(CHOOSE g : Rule(g))
  BY <1>1
<1> DEFINE h == CHOOSE g : Rule(g)
<1>4. h = [s \in SUBSET S |-> IF s = {} THEN 0 ELSE f[Next(s)] + h[s \ {Next(s)}]]
  BY <1>3
<1>5. h[{}] = 0
  BY <1>4
<1>6. ASSUME NEW s \in SUBSET S, s # {}
      PROVE  /\ Next(s) \in s
             /\ h[s] = f[Next(s)] + h[s \ {Next(s)}]
             /\ G[s] = f[Next(s)] + G[s \ {Next(s)}]
  <2>1. Next(s) \in s
    BY <1>6
  <2> HIDE DEF Next, h
  <2> QED  BY <1>4, <1>6, <2>1 DEF Adds
<1> HIDE DEF h, Next
<1> DEFINE P == {k \in 0 .. Cardinality(S) : \A s \in SUBSET S : Cardinality(s) = k => h[s] = G[s]}
<1>7. \A s \in SUBSET S : IsFiniteSet(s) /\ Cardinality(s) \in 0 .. Cardinality(S)
  BY FS_Subset, FS_CardinalityType
<1>8. S \in SUBSET S /\ Cardinality(S) \in Nat
  BY FS_CardinalityType
<1>9. 0 \in P
  <2>1. \A s \in SUBSET S : Cardinality(s) = 0 => s = {}
    BY <1>7, FS_EmptySet
  <2>2. G[{}] = 0
    BY DEF Adds
  <2>3. ASSUME NEW s \in SUBSET S, Cardinality(s) = 0 PROVE h[s] = G[s]
    <3>1. s = {}
      BY <2>1, <2>3
    <3> QED  BY <1>5, <2>2, <3>1
  <2> QED  BY <1>8, <2>3
<1>10. ASSUME NEW k \in 1 .. Cardinality(S), k - 1 \in P PROVE k \in P
  <2> SUFFICES ASSUME NEW s \in SUBSET S, Cardinality(s) = k PROVE h[s] = G[s]
    BY <1>8
  <2>1. s # {}
    BY <1>8, FS_EmptySet
  <2>2. s \ {Next(s)} \in SUBSET S /\ Cardinality(s \ {Next(s)}) = k - 1
    BY <1>6, <1>7, <2>1, FS_RemoveElement
  <2> QED  BY <1>6, <1>10, <2>1, <2>2
<1>11. Cardinality(S) \in P
  <2> HIDE DEF P
  <2> QED  BY <1>8, <1>9, <1>10, UpTo
<1>12. h[S] = G[S]
  BY <1>8, <1>11
<1> QED  BY <1>2, <1>12 DEF h

(* A sum over a part of a set is one of its table.                         *)
LEMMA SumOfPart ==
  ASSUME NEW S, IsFiniteSet(S), NEW f, \A x \in S : f[x] \in Nat,
         NEW G \in [SUBSET S -> Nat], Adds(f, S, G), NEW T \in SUBSET S
  PROVE  SumFunctionOnSet(f, T) = G[T]
<1> DEFINE H == [U \in SUBSET T |-> G[U]]
<1>1. IsFiniteSet(T)
  BY FS_Subset
<1>2. H \in [SUBSET T -> Nat]
  OBVIOUS
<1>3. Adds(f, T, H)
  <2>1. \A U \in SUBSET T : U \in SUBSET S /\ \A x \in U : U \ {x} \in SUBSET T
    OBVIOUS
  <2> QED  BY <2>1 DEF Adds
<1>4. H[T] = G[T]
  OBVIOUS
<1> HIDE DEF H
<1> QED  BY <1>1, <1>2, <1>3, <1>4, SumIs

(* A sum is a number, adding one more adds its value, and a part has no    *)
(* greater sum.                                                            *)
LEMMA SumRules ==
  ASSUME NEW S, IsFiniteSet(S), NEW f, \A x \in S : f[x] \in Nat
  PROVE  /\ SumFunctionOnSet(f, {}) = 0
         /\ \A T \in SUBSET S : SumFunctionOnSet(f, T) \in Nat
         /\ \A T \in SUBSET S : \A x \in S \ T :
              SumFunctionOnSet(f, T \cup {x}) = SumFunctionOnSet(f, T) + f[x]
         /\ \A T \in SUBSET S : SumFunctionOnSet(f, T) =< SumFunctionOnSet(f, S)
<1>1. PICK G \in [SUBSET S -> Nat] : Adds(f, S, G)
  BY SumTable
<1>2. \A T \in SUBSET S : SumFunctionOnSet(f, T) = G[T]
  BY <1>1, SumOfPart
<1>3. G[{}] = 0
  BY <1>1 DEF Adds
<1>4. ASSUME NEW T \in SUBSET S, NEW x \in S \ T PROVE G[T \cup {x}] = G[T] + f[x]
  <2>1. T \cup {x} \in SUBSET S /\ (T \cup {x}) \ {x} = T /\ f[x] \in Nat /\ G[T] \in Nat
    OBVIOUS
  <2>2. G[T \cup {x}] = f[x] + G[(T \cup {x}) \ {x}]
    BY <1>1, <2>1 DEF Adds
  <2>3. G[(T \cup {x}) \ {x}] = G[T]
    BY <2>1, Zenon
  <2> QED  BY <2>1, <2>2, <2>3
<1>5. ASSUME NEW T \in SUBSET S PROVE G[T] =< G[S]
  <2> DEFINE P == {k \in 0 .. Cardinality(S) :
                     \A U \in SUBSET S : Cardinality(S \ U) = k => G[U] =< G[S]}
  <2>1. \A U \in SUBSET S : IsFiniteSet(S \ U) /\ Cardinality(S \ U) \in 0 .. Cardinality(S)
    BY FS_Subset, FS_CardinalityType
  <2>2. Cardinality(S) \in Nat
    BY FS_CardinalityType
  <2>3. 0 \in P
    <3>1. ASSUME NEW U \in SUBSET S, Cardinality(S \ U) = 0 PROVE G[U] =< G[S]
      <4>1. S \ U = {}
        BY <2>1, <3>1, FS_EmptySet
      <4>2. U = S /\ G[S] \in Nat
        BY <4>1
      <4> QED  BY <4>2
    <3> QED  BY <2>2, <3>1
  <2>4. ASSUME NEW k \in 1 .. Cardinality(S), k - 1 \in P PROVE k \in P
    <3> SUFFICES ASSUME NEW U \in SUBSET S, Cardinality(S \ U) = k PROVE G[U] =< G[S]
      BY <2>2
    <3>0. k # 0
      BY <2>2
    <3>1. S \ U # {}
      BY <2>1, <3>0, FS_EmptySet
    <3>2. PICK x \in S \ U : TRUE
      BY <3>1
    <3>3. U \cup {x} \in SUBSET S /\ S \ (U \cup {x}) = (S \ U) \ {x}
      OBVIOUS
    <3>4. Cardinality(S \ (U \cup {x})) = k - 1
      <4>1. Cardinality((S \ U) \ {x}) = k - 1
        BY <2>1, <3>2, FS_RemoveElement
      <4> QED  BY <3>3, <4>1, Zenon
    <3>5. G[U \cup {x}] =< G[S]
      BY <2>4, <3>3, <3>4
    <3>6. /\ G[U \cup {x}] = G[U] + f[x] /\ f[x] \in Nat
          /\ G[U] \in Nat /\ G[U \cup {x}] \in Nat /\ G[S] \in Nat
      BY <1>4, <3>2, <3>3
    <3> QED  BY <3>5, <3>6
  <2> HIDE DEF P
  <2>5. Cardinality(S \ T) \in P
    <3>1. Cardinality(S \ T) \in Nat /\ 1 .. Cardinality(S \ T) \subseteq 1 .. Cardinality(S)
      <4>1. Cardinality(S \ T) \in 0 .. Cardinality(S)
        BY <2>1
      <4> QED  BY <2>2, <4>1
    <3> QED  BY <2>3, <2>4, <3>1, UpTo
  <2> QED  BY <2>5 DEF P
<1>6. {} \in SUBSET S /\ \A T \in SUBSET S : \A x \in S \ T : T \cup {x} \in SUBSET S
  OBVIOUS
<1> QED  BY <1>2, <1>3, <1>4, <1>5, <1>6
================================================================================
