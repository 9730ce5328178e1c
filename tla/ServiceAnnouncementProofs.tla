---------------------- MODULE ServiceAnnouncementProofs ----------------------
(***************************************************************************)
(* Theorems about ServiceAnnouncement.                                     *)
(*                                                                         *)
(* In parts: what the plans of a setup contain (folds over sequences       *)
(* unrolled); where the main thread is among the announcements; the state  *)
(* of a setup and of its streams, which give TypeOK; whose service is      *)
(* which and where its streams come from; and the safety properties.       *)
(***************************************************************************)
EXTENDS ServiceAnnouncement, SharedLemmas

------------------------------------------------------------------------------
(* Plans.                                                                  *)

(* What Each has: the positions, in their order.                           *)
EachHas(p, step, positions) ==
  /\ p \in Seq({step} \X positions)
  /\ \A j, k \in 1 .. Len(p) : j < k => p[j][2] < p[k][2]
  /\ \A i \in positions : \E k \in 1 .. Len(p) : p[k] = <<step, i>>

(* Each has the step for exactly the positions, in their order.            *)
LEMMA EachSteps ==
  ASSUME NEW step, NEW usd \in Description, NEW positions \in SUBSET DOMAIN usd.streams
  PROVE  EachHas(Each(step, usd, positions), step, positions)
<1> DEFINE n == Len(usd.streams)
           S == {step} \X positions
           one(i) == <<<<step, i>>>>
           seqs == [i \in DOMAIN usd.streams |-> IF i \in positions THEN one(i) ELSE <<>>]
           Upto(k) == {i \in positions : i =< k}
           G == {x \in (0 .. n) \X Seq(S) : EachHas(x[2], step, Upto(x[1]))}
<1>1. DOMAIN usd.streams = 1 .. n /\ n \in Nat
  BY DEF Description
<1>2. seqs \in Seq(Seq(S)) /\ Len(seqs) = n
  <2>1. ASSUME NEW i \in 1 .. n PROVE seqs[i] \in Seq(S)
    <3>1. i \in positions => <<step, i>> \in S
      OBVIOUS
    <3>2. i \in positions => one(i) \in Seq(S)
      BY <3>1
    <3>3. <<>> \in Seq(S)
      OBVIOUS
    <3>4. seqs[i] = IF i \in positions THEN one(i) ELSE <<>>
      BY <1>1
    <3> QED  BY <3>2, <3>3, <3>4
  <2>2. seqs \in [1 .. n -> Seq(S)]
    BY <1>1, <2>1
  <2> QED  BY <1>1, <2>2
<1> HIDE DEF S
<1>G. \A k, f : <<k, f>> \in G <=> k \in 0 .. n /\ f \in Seq(S) /\ EachHas(f, step, Upto(k))
  OBVIOUS
<1> HIDE DEF G
<1>3. <<0, <<>>>> \in G
  <2>1. Upto(0) = {}
    BY <1>1
  <2>2. EachHas(<<>>, step, {})
    BY DEF EachHas
  <2>3. <<>> \in Seq(S) /\ 0 \in 0 .. n
    BY <1>1
  <2> QED  BY <1>G, <2>1, <2>2, <2>3
<1>4. ASSUME NEW k \in 1 .. Len(seqs), NEW f \in Seq(S), <<k - 1, f>> \in G
      PROVE  <<k, f \o seqs[k]>> \in G
  <2>1. k \in 1 .. n /\ k \in 0 .. n /\ k \in Nat /\ EachHas(f, step, Upto(k - 1))
    BY <1>1, <1>2, <1>4, <1>G
  <2>2. CASE k \notin positions
    <3>1. Upto(k) = Upto(k - 1)
      BY <1>1, <2>2
    <3>2. f \o seqs[k] = f
      BY <1>1, <2>1, <2>2
    <3> QED  BY <1>4, <1>G, <2>1, <3>1, <3>2
  <2>3. CASE k \in positions
    <3> DEFINE p == f \o one(k)
    <3>1. Upto(k) = Upto(k - 1) \cup {k} /\ \A i \in Upto(k - 1) : i < k
      BY <1>1, <2>3
    <3>2. one(k) \in Seq(S) /\ Len(one(k)) = 1 /\ one(k)[1] = <<step, k>>
      BY <2>3 DEF S
    <3> HIDE DEF one
    <3>3. /\ p \in Seq(S)
          /\ Len(f) \in Nat /\ Len(p) = Len(f) + 1
          /\ \A j \in 1 .. Len(f) : p[j] = f[j] /\ j \in 1 .. Len(p)
          /\ p[Len(f) + 1] = <<step, k>> /\ Len(f) + 1 \in 1 .. Len(p)
          /\ \A j \in 1 .. Len(p) : j \in 1 .. Len(f) \/ j = Len(f) + 1
      <4>1. /\ p \in Seq(S)
            /\ Len(f) \in Nat /\ Len(p) = Len(f) + 1
            /\ \A j \in 1 .. Len(f) : p[j] = f[j] /\ j \in 1 .. Len(p)
            /\ \A j \in 1 .. 1 : p[Len(f) + j] = one(k)[j] /\ Len(f) + j \in 1 .. Len(p)
        <5> DEFINE o == one(k)
        <5>1. o \in Seq(S) /\ Len(o) = 1
          BY <3>2
        <5> HIDE DEF o
        <5>2. /\ f \o o \in Seq(S)
              /\ Len(f) \in Nat /\ Len(f \o o) = Len(f) + Len(o)
              /\ \A j \in 1 .. Len(f) : (f \o o)[j] = f[j] /\ j \in 1 .. Len(f \o o)
              /\ \A j \in 1 .. Len(o) : (f \o o)[Len(f) + j] = o[j] /\ Len(f) + j \in 1 .. Len(f \o o)
          BY <5>1, Concat
        <5> QED  BY <5>1, <5>2 DEF o
      <4> QED  BY <3>2, <4>1
    <3> HIDE DEF p
    <3>4. \A j \in 1 .. Len(f) : f[j][1] = step /\ f[j][2] \in Upto(k - 1)
                                 /\ f[j] = <<f[j][1], f[j][2]>>
      <4> SUFFICES ASSUME NEW j \in 1 .. Len(f)
                   PROVE  f[j][1] = step /\ f[j][2] \in Upto(k - 1) /\ f[j] = <<f[j][1], f[j][2]>>
        OBVIOUS
      <4>1. f[j] \in {step} \X Upto(k - 1)
        BY <2>1 DEF EachHas
      <4> QED  BY <4>1
    <3>5. \A j \in 1 .. Len(p) : p[j] \in {step} \X Upto(k)
      <4> SUFFICES ASSUME NEW j \in 1 .. Len(p) PROVE p[j] \in {step} \X Upto(k)
        OBVIOUS
      <4>1. CASE j \in 1 .. Len(f)
        <5>1. p[j] = <<step, f[j][2]>> /\ f[j][2] \in Upto(k)
          BY <3>1, <3>3, <3>4, <4>1
        <5> HIDE DEF Upto
        <5> QED  BY <5>1
      <4>2. CASE j = Len(f) + 1
        <5>1. p[j] = <<step, k>> /\ k \in Upto(k)
          BY <3>1, <3>3, <4>2
        <5> HIDE DEF Upto
        <5> QED  BY <5>1
      <4> QED  BY <3>3, <4>1, <4>2
    <3>6. p \in Seq({step} \X Upto(k))
      BY <3>3, <3>5
    <3>7. ASSUME NEW j \in 1 .. Len(p), NEW l \in 1 .. Len(p), j < l
          PROVE  p[j][2] < p[l][2]
      <4>1. CASE l \in 1 .. Len(f)
        <5>1. j \in 1 .. Len(f)
          BY <3>3, <3>7, <4>1
        <5> QED  BY <2>1, <3>3, <3>7, <4>1, <5>1 DEF EachHas
      <4>2. CASE l = Len(f) + 1
        <5>1. j \in 1 .. Len(f)
          BY <3>3, <3>7, <4>2
        <5> QED  BY <3>1, <3>3, <3>4, <4>2, <5>1
      <4> QED  BY <3>3, <4>1, <4>2
    <3>8. ASSUME NEW i \in Upto(k) PROVE \E j \in 1 .. Len(p) : p[j] = <<step, i>>
      <4>1. CASE i = k
        BY <3>3, <4>1
      <4>2. CASE i \in Upto(k - 1)
        <5>1. PICK j \in 1 .. Len(f) : f[j] = <<step, i>>
          BY <2>1, <4>2 DEF EachHas
        <5> QED  BY <3>3, <5>1
      <4> QED  BY <3>1, <4>1, <4>2
    <3>9. EachHas(p, step, Upto(k))
      BY <3>6, <3>7, <3>8 DEF EachHas
    <3>10. seqs[k] = one(k)
      BY <1>1, <2>1, <2>3
    <3> QED  BY <1>G, <2>1, <3>3, <3>9, <3>10 DEF p
  <2> QED  BY <2>2, <2>3
<1>5. <<Len(seqs), FlattenSeq(seqs)>> \in G
  <2> HIDE DEF seqs
  <2> QED  BY <1>2, <1>3, <1>4, FlattenFolds
<1>6. Upto(n) = positions
  BY <1>1
<1>7. Each(step, usd, positions) = FlattenSeq(seqs)
  BY DEF Each
<1> HIDE DEF seqs
<1> QED  BY <1>2, <1>5, <1>6, <1>7, <1>G

StepsOf(usd) == {"create", "start", "drop"} \X DOMAIN usd.streams

MethodOf(usd, i) == usd.streams[i].method

(* The part of a plan for the m-th delivery method.                        *)
MethodPart(p, usd, m) ==
  /\ p \in Seq(StepsOf(usd))
  /\ \A k \in 1 .. Len(p) : \/ p[k][1] = "create" /\ MethodOf(usd, p[k][2]) = m
                            \/ p[k][1] = "start" /\ MethodOf(usd, p[k][2]) =< m
  /\ \A j, k \in 1 .. Len(p) : j < k => p[j] # p[k]
  /\ \A j, k \in 1 .. Len(p) : p[j][1] = "create" /\ p[k][1] = "start" => j < k
  /\ \A i \in DOMAIN usd.streams :
       MethodOf(usd, i) = m => \E k \in 1 .. Len(p) : p[k] = <<"create", i>>
  /\ \A i \in DOMAIN usd.streams :
       MethodOf(usd, i) =< m => \E k \in 1 .. Len(p) : p[k] = <<"start", i>>

Of(usd, m) == {i \in DOMAIN usd.streams : usd.streams[i].method = m}
Upto(usd, m, uc) == {i \in DOMAIN usd.streams :
                       usd.streams[i].method <= m /\ usd.streams[i].unicast = uc}

Part(usd, m) == Each("create", usd, Of(usd, m))
                \o Each("start", usd, Upto(usd, m, TRUE)) \o Each("start", usd, Upto(usd, m, FALSE))

(* The steps ByMethod takes for one delivery method.                       *)
LEMMA MethodParts ==
  ASSUME NEW usd \in Description, NEW m \in Nat
  PROVE  MethodPart(Part(usd, m), usd, m)
<1> DEFINE S == StepsOf(usd)
           c == Each("create", usd, Of(usd, m))
           t == Each("start", usd, Upto(usd, m, TRUE))
           e == Each("start", usd, Upto(usd, m, FALSE))
           ct == c \o t
           p == ct \o e
<1>1. /\ EachHas(c, "create", Of(usd, m))
      /\ EachHas(t, "start", Upto(usd, m, TRUE))
      /\ EachHas(e, "start", Upto(usd, m, FALSE))
  BY EachSteps DEF Of, Upto
<1>2. /\ DOMAIN usd.streams = 1 .. Len(usd.streams)
      /\ \A i \in DOMAIN usd.streams :
           usd.streams[i].method \in Nat /\ usd.streams[i].unicast \in BOOLEAN
  <2>1. usd.streams \in Seq(Pattern)
    BY DEF Description
  <2>2. \A i \in DOMAIN usd.streams : usd.streams[i] \in Pattern
    BY <2>1
  <2> QED  BY <2>1, <2>2 DEF Pattern
<1> DEFINE At(q, step, positions) ==
             \A k \in 1 .. Len(q) : q[k] = <<step, q[k][2]>> /\ q[k][2] \in positions
                                    /\ q[k][1] = step /\ q[k] \in S
           Differ(q) == \A j, k \in 1 .. Len(q) : j < k => q[j] # q[k]
<1>3. ASSUME NEW q, NEW step \in {"create", "start"}, NEW positions \in SUBSET DOMAIN usd.streams,
             EachHas(q, step, positions)
      PROVE  At(q, step, positions) /\ q \in Seq(S) /\ Differ(q)
  <2>1. q \in Seq({step} \X positions)
    BY <1>3 DEF EachHas
  <2>2. ASSUME NEW k \in 1 .. Len(q)
        PROVE  /\ q[k] = <<step, q[k][2]>> /\ q[k][2] \in positions
               /\ q[k][1] = step /\ q[k] \in S
    <3>1. q[k] \in {step} \X positions
      BY <2>1
    <3> QED  BY <3>1 DEF StepsOf
  <2>3. Differ(q)
    <3> SUFFICES ASSUME NEW j \in 1 .. Len(q), NEW k \in 1 .. Len(q), j < k, q[j] = q[k]
                 PROVE  FALSE
      OBVIOUS
    <3>1. q[j][2] < q[k][2]
      BY <1>3 DEF EachHas
    <3>2. q[j][2] \in Nat
      BY <1>2, <2>2
    <3> QED  BY <3>1, <3>2
  <2> QED  BY <2>1, <2>2, <2>3
<1>4. /\ Of(usd, m) \in SUBSET DOMAIN usd.streams
      /\ \A uc \in BOOLEAN : Upto(usd, m, uc) \in SUBSET DOMAIN usd.streams
  BY DEF Of, Upto
<1> HIDE DEF S, c, t, e, At, Differ
<1>5. /\ At(c, "create", Of(usd, m)) /\ c \in Seq(S) /\ Differ(c)
      /\ At(t, "start", Upto(usd, m, TRUE)) /\ t \in Seq(S) /\ Differ(t)
      /\ At(e, "start", Upto(usd, m, FALSE)) /\ e \in Seq(S) /\ Differ(e)
  BY <1>1, <1>3, <1>4
<1>6. /\ ct \in Seq(S)
      /\ Len(c) \in Nat /\ Len(t) \in Nat /\ Len(ct) = Len(c) + Len(t)
      /\ \A k \in 1 .. Len(c) : ct[k] = c[k] /\ k \in 1 .. Len(ct)
      /\ \A k \in 1 .. Len(t) : ct[Len(c) + k] = t[k] /\ Len(c) + k \in 1 .. Len(ct)
      /\ \A k \in 1 .. Len(ct) :
           IF k =< Len(c) THEN k \in 1 .. Len(c) /\ ct[k] = c[k]
           ELSE k - Len(c) \in 1 .. Len(t) /\ ct[k] = t[k - Len(c)]
  BY <1>5, Concat
<1> HIDE DEF ct
<1>7. /\ p \in Seq(S)
      /\ Len(e) \in Nat /\ Len(p) = Len(ct) + Len(e)
      /\ \A k \in 1 .. Len(ct) : p[k] = ct[k] /\ k \in 1 .. Len(p)
      /\ \A k \in 1 .. Len(e) : p[Len(ct) + k] = e[k] /\ Len(ct) + k \in 1 .. Len(p)
      /\ \A k \in 1 .. Len(p) :
           IF k =< Len(ct) THEN k \in 1 .. Len(ct) /\ p[k] = ct[k]
           ELSE k - Len(ct) \in 1 .. Len(e) /\ p[k] = e[k - Len(ct)]
  <2>1. ct \in Seq(S) /\ e \in Seq(S)
    BY <1>5, <1>6
  <2> QED  BY <2>1, Concat
<1> HIDE DEF p
<1> DEFINE a == Len(c)
           b == Len(ct)
<1>8. ASSUME NEW k \in 1 .. Len(p)
      PROVE  \/ k =< a /\ k \in 1 .. Len(c) /\ p[k] = c[k]
             \/ a < k /\ k =< b /\ k - a \in 1 .. Len(t) /\ p[k] = t[k - a]
             \/ b < k /\ k - b \in 1 .. Len(e) /\ p[k] = e[k - b]
  BY <1>6, <1>7
<1>9. /\ \A k \in 1 .. Len(c) : p[k] = c[k] /\ k \in 1 .. Len(p)
      /\ \A k \in 1 .. Len(t) : p[a + k] = t[k] /\ a + k \in 1 .. Len(p)
      /\ \A k \in 1 .. Len(e) : p[b + k] = e[k] /\ b + k \in 1 .. Len(p)
  BY <1>6, <1>7
<1>10. a \in Nat /\ b \in Nat /\ a =< b
  BY <1>6
<1> HIDE DEF a, b
<1>11. ASSUME NEW k \in 1 .. Len(p)
       PROVE  \/ p[k][1] = "create" /\ MethodOf(usd, p[k][2]) = m /\ k =< a
              \/ p[k][1] = "start" /\ MethodOf(usd, p[k][2]) =< m /\ a < k
  <2>1. CASE k =< a /\ k \in 1 .. Len(c) /\ p[k] = c[k]
    <3>1. p[k][1] = "create" /\ p[k][2] \in Of(usd, m)
      BY <1>5, <2>1 DEF At
    <3> QED  BY <2>1, <3>1 DEF MethodOf, Of
  <2>2. CASE a < k /\ k =< b /\ k - a \in 1 .. Len(t) /\ p[k] = t[k - a]
    <3>1. p[k][1] = "start" /\ p[k][2] \in Upto(usd, m, TRUE)
      BY <1>5, <2>2 DEF At
    <3> QED  BY <2>2, <3>1 DEF MethodOf, Upto
  <2>3. CASE b < k /\ k - b \in 1 .. Len(e) /\ p[k] = e[k - b]
    <3>1. p[k][1] = "start" /\ p[k][2] \in Upto(usd, m, FALSE)
      BY <1>5, <2>3 DEF At
    <3> QED  BY <1>10, <2>3, <3>1 DEF MethodOf, Upto
  <2> QED  BY <1>8, <2>1, <2>2, <2>3
<1>12. ASSUME NEW j \in 1 .. Len(p), NEW k \in 1 .. Len(p), j < k, p[j] = p[k]
       PROVE  FALSE
  <2>1. CASE k =< a
    <3>1. j =< a /\ j \in 1 .. Len(c) /\ p[j] = c[j] /\ k \in 1 .. Len(c) /\ p[k] = c[k]
      BY <1>8, <1>10, <1>12, <2>1
    <3> QED  BY <1>5, <1>12, <3>1 DEF Differ
  <2>2. CASE a < k /\ j =< a
    BY <1>10, <1>11, <1>12, <2>2
  <2>3. CASE a < j /\ k =< b
    <3>1. /\ j - a \in 1 .. Len(t) /\ p[j] = t[j - a] /\ k - a \in 1 .. Len(t) /\ p[k] = t[k - a]
          /\ j - a < k - a
      BY <1>8, <1>10, <1>12, <2>3
    <3> QED  BY <1>5, <1>12, <3>1 DEF Differ
  <2>4. CASE b < j
    <3>1. /\ j - b \in 1 .. Len(e) /\ p[j] = e[j - b] /\ k - b \in 1 .. Len(e) /\ p[k] = e[k - b]
          /\ j - b < k - b
      BY <1>8, <1>10, <1>12, <2>4
    <3> QED  BY <1>5, <1>12, <3>1 DEF Differ
  <2>5. CASE a < j /\ j =< b /\ b < k
    <3>1. j - a \in 1 .. Len(t) /\ p[j] = t[j - a]
      BY <1>8, <1>10, <2>5
    <3>3. k - b \in 1 .. Len(e) /\ p[k] = e[k - b]
      BY <1>8, <1>10, <2>5
    <3>2. p[j][2] \in Upto(usd, m, TRUE) /\ p[k][2] \in Upto(usd, m, FALSE)
      BY <1>5, <3>1, <3>3 DEF At
    <3> QED  BY <1>12, <3>2 DEF Upto
  <2> QED  BY <1>10, <1>12, <2>1, <2>2, <2>3, <2>4, <2>5
<1>13. ASSUME NEW i \in DOMAIN usd.streams, MethodOf(usd, i) = m
       PROVE  \E k \in 1 .. Len(p) : p[k] = <<"create", i>>
  <2>1. i \in Of(usd, m)
    BY <1>13 DEF Of, MethodOf
  <2>2. PICK k \in 1 .. Len(c) : c[k] = <<"create", i>>
    BY <1>1, <2>1 DEF EachHas
  <2> QED  BY <1>9, <2>2
<1>14. ASSUME NEW i \in DOMAIN usd.streams, MethodOf(usd, i) =< m
       PROVE  \E k \in 1 .. Len(p) : p[k] = <<"start", i>>
  <2>1. i \in Upto(usd, m, TRUE) \/ i \in Upto(usd, m, FALSE)
    BY <1>2, <1>14 DEF Upto, MethodOf
  <2>2. CASE i \in Upto(usd, m, TRUE)
    <3>1. PICK k \in 1 .. Len(t) : t[k] = <<"start", i>>
      BY <1>1, <2>2 DEF EachHas
    <3> QED  BY <1>9, <3>1
  <2>3. CASE i \in Upto(usd, m, FALSE)
    <3>1. PICK k \in 1 .. Len(e) : e[k] = <<"start", i>>
      BY <1>1, <2>3 DEF EachHas
    <3> QED  BY <1>9, <3>1
  <2> QED  BY <2>1, <2>2, <2>3
<1>15. \A j, k \in 1 .. Len(p) : p[j][1] = "create" /\ p[k][1] = "start" => j < k
  <2> SUFFICES ASSUME NEW j \in 1 .. Len(p), NEW k \in 1 .. Len(p),
                      p[j][1] = "create", p[k][1] = "start"
               PROVE  j < k
    OBVIOUS
  <2>1. j =< a /\ a < k
    BY <1>11
  <2> QED  BY <1>10, <2>1
<1>16. MethodPart(p, usd, m)
  BY <1>7, <1>11, <1>12, <1>13, <1>14, <1>15 DEF MethodPart, S
<1> QED  BY <1>16 DEF p, ct, c, t, e, Part

(* What is ahead in a setup by delivery method, when M have been created:  *)
(* each stream is created once and started later, and only those not of    *)
(* the last method more than once.                                         *)
MethodAhead(p, usd, M, last) ==
  /\ p \in Seq(StepsOf(usd))
  /\ \A k \in 1 .. Len(p) : p[k][1] \in {"create", "start"}
  /\ \A j, k \in 1 .. Len(p) :
       j < k /\ p[j] = p[k] => p[k][1] = "start" /\ MethodOf(usd, p[k][2]) < last
  /\ \A k \in 1 .. Len(p) : p[k][1] = "create" =>
       p[k][2] \notin M /\ \E l \in 1 .. Len(p) : k < l /\ p[l] = <<"start", p[k][2]>>
  /\ \A k \in 1 .. Len(p) : p[k][1] = "start" =>
       p[k][2] \in M \/ \E j \in 1 .. Len(p) : j < k /\ p[j] = <<"create", p[k][2]>>

(* The parts for the first m methods.                                      *)
MethodPrefix(p, usd, m) ==
  /\ MethodAhead(p, usd, {}, m)
  /\ \A k \in 1 .. Len(p) : MethodOf(usd, p[k][2]) =< m
  /\ \A i \in DOMAIN usd.streams :
       MethodOf(usd, i) =< m => \E k \in 1 .. Len(p) : p[k] = <<"create", i>>

(* A step is what to do and a position.                                    *)
LEMMA StepParts ==
  ASSUME NEW usd, NEW x \in StepsOf(usd)
  PROVE  x = <<x[1], x[2]>> /\ x[2] \in DOMAIN usd.streams /\ x[1] \in {"create", "start", "drop"}
BY DEF StepsOf

(* What the plan says of the first methods, it says of one more.           *)
LEMMA MethodPrefixes ==
  ASSUME NEW usd \in Description, NEW m \in Nat \ {0}, NEW f, NEW g,
         MethodPrefix(f, usd, m - 1), MethodPart(g, usd, m)
  PROVE  MethodPrefix(f \o g, usd, m)
<1> DEFINE S == StepsOf(usd)
           p == f \o g
           a == Len(f)
<1>1. /\ \A i \in DOMAIN usd.streams : MethodOf(usd, i) \in Nat
  <2>1. usd.streams \in Seq(Pattern)
    BY DEF Description
  <2>2. \A i \in DOMAIN usd.streams : usd.streams[i] \in Pattern
    BY <2>1
  <2> QED  BY <2>1, <2>2 DEF Pattern, MethodOf
<1>2. f \in Seq(S) /\ g \in Seq(S)
  BY DEF MethodPrefix, MethodAhead, MethodPart
<1>3. /\ p \in Seq(S)
      /\ a \in Nat /\ Len(g) \in Nat /\ Len(p) = a + Len(g)
      /\ \A k \in 1 .. Len(f) : p[k] = f[k] /\ k \in 1 .. Len(p)
      /\ \A k \in 1 .. Len(g) : p[a + k] = g[k] /\ a + k \in 1 .. Len(p)
      /\ \A k \in 1 .. Len(p) :
           IF k =< a THEN k \in 1 .. Len(f) /\ p[k] = f[k]
           ELSE k - a \in 1 .. Len(g) /\ p[k] = g[k - a]
  <2>1. f \in Seq(S) /\ g \in Seq(S)
    BY <1>2
  <2> HIDE DEF S
  <2> QED  BY ONLY <2>1, Concat DEF p, a
<1> HIDE DEF p
<1>4. ASSUME NEW k \in 1 .. Len(p)
      PROVE  \/ k =< a /\ k \in 1 .. Len(f) /\ p[k] = f[k]
             \/ a < k /\ k - a \in 1 .. Len(g) /\ p[k] = g[k - a]
  BY <1>3
<1>5. ASSUME NEW x \in S
      PROVE  /\ x = <<x[1], x[2]>> /\ x[2] \in DOMAIN usd.streams
             /\ MethodOf(usd, x[2]) \in Nat
  BY <1>1, <1>5, StepParts
<1>6. \A k \in 1 .. Len(p) : p[k] \in S
  BY <1>3
<1> HIDE DEF a, S
<1>7. ASSUME NEW k \in 1 .. Len(p)
      PROVE  p[k][1] \in {"create", "start"} /\ MethodOf(usd, p[k][2]) =< m
  <2>1. CASE k =< a /\ k \in 1 .. Len(f) /\ p[k] = f[k]
    <3>1. p[k][1] \in {"create", "start"} /\ MethodOf(usd, p[k][2]) =< m - 1
      BY <2>1 DEF MethodPrefix, MethodAhead
    <3> QED  BY <1>5, <1>6, <3>1
  <2>2. CASE a < k /\ k - a \in 1 .. Len(g) /\ p[k] = g[k - a]
    <3>1. \/ p[k][1] = "create" /\ MethodOf(usd, p[k][2]) = m
          \/ p[k][1] = "start" /\ MethodOf(usd, p[k][2]) =< m
      BY <2>2 DEF MethodPart
    <3> QED  BY <3>1
  <2> QED  BY <1>4, <2>1, <2>2
<1>8. ASSUME NEW j \in 1 .. Len(p), NEW k \in 1 .. Len(p), j < k, p[j] = p[k]
      PROVE  p[k][1] = "start" /\ MethodOf(usd, p[k][2]) < m
  <2>1. CASE k =< a
    <3>1. j =< a
      BY <1>3, <1>8, <2>1
    <3>2. j \in 1 .. Len(f) /\ p[j] = f[j] /\ k \in 1 .. Len(f) /\ p[k] = f[k]
      BY <1>3, <1>4, <2>1, <3>1
    <3>3. p[k][1] = "start" /\ MethodOf(usd, p[k][2]) < m - 1
      BY <1>8, <3>2 DEF MethodPrefix, MethodAhead
    <3> QED  BY <1>5, <1>6, <3>3
  <2>2. CASE a < j
    <3>1. a < k
      BY <1>3, <1>8, <2>2
    <3>2. j - a \in 1 .. Len(g) /\ p[j] = g[j - a] /\ k - a \in 1 .. Len(g) /\ p[k] = g[k - a]
      BY <1>3, <1>4, <2>2, <3>1
    <3>3. j - a < k - a
      BY <1>3, <1>8
    <3> QED  BY <1>8, <3>2, <3>3 DEF MethodPart
  <2>3. CASE j =< a /\ a < k
    <3>1. j \in 1 .. Len(f) /\ p[j] = f[j]
      BY <1>3, <1>4, <2>3
    <3>2. k - a \in 1 .. Len(g) /\ p[k] = g[k - a]
      BY <1>3, <1>4, <2>3
    <3>3. MethodOf(usd, p[j][2]) =< m - 1
      BY <3>1 DEF MethodPrefix
    <3>4. \/ p[k][1] = "create" /\ MethodOf(usd, p[k][2]) = m
          \/ p[k][1] = "start" /\ MethodOf(usd, p[k][2]) =< m
      BY <3>2 DEF MethodPart
    <3>5. MethodOf(usd, p[k][2]) \in Nat
      BY <1>5, <1>6
    <3> QED  BY <1>8, <3>3, <3>4, <3>5
  <2> QED  BY <1>3, <1>4, <2>1, <2>2, <2>3
<1>9. ASSUME NEW k \in 1 .. Len(p), p[k][1] = "create"
      PROVE  \E l \in 1 .. Len(p) : k < l /\ p[l] = <<"start", p[k][2]>>
  <2>1. CASE k =< a /\ k \in 1 .. Len(f) /\ p[k] = f[k]
    <3>1. PICK l \in 1 .. Len(f) : k < l /\ f[l] = <<"start", p[k][2]>>
      BY <1>9, <2>1 DEF MethodPrefix, MethodAhead
    <3> QED  BY <1>3, <3>1
  <2>2. CASE a < k /\ k - a \in 1 .. Len(g) /\ p[k] = g[k - a]
    <3>1. MethodOf(usd, p[k][2]) = m /\ p[k][2] \in DOMAIN usd.streams
      BY <1>5, <1>6, <1>9, <2>2 DEF MethodPart
    <3> DEFINE i == p[k][2]
    <3> HIDE DEF i
    <3>5. MethodOf(usd, i) = m /\ m =< m /\ i \in DOMAIN usd.streams
      BY <3>1 DEF i
    <3>6. \E l \in 1 .. Len(g) : g[l] = <<"start", i>>
      BY <3>5 DEF MethodPart
    <3>2. PICK l \in 1 .. Len(g) : g[l] = <<"start", p[k][2]>>
      BY <3>6 DEF i
    <3>3. k - a < l
      BY <1>9, <2>2, <3>2 DEF MethodPart
    <3>4. k < a + l /\ p[a + l] = g[l] /\ a + l \in 1 .. Len(p)
      BY <1>3, <3>3
    <3> QED  BY <3>2, <3>4
  <2> QED  BY <1>4, <2>1, <2>2
<1>10. ASSUME NEW i \in DOMAIN usd.streams, MethodOf(usd, i) =< m
       PROVE  \E k \in 1 .. Len(p) : p[k] = <<"create", i>>
  <2>1. CASE MethodOf(usd, i) = m
    <3>1. PICK l \in 1 .. Len(g) : g[l] = <<"create", i>>
      BY <2>1 DEF MethodPart
    <3> QED  BY <1>3, <3>1
  <2>2. CASE MethodOf(usd, i) # m
    <3>1. MethodOf(usd, i) =< m - 1
      BY <1>1, <1>10, <2>2
    <3>2. PICK l \in 1 .. Len(f) : f[l] = <<"create", i>>
      BY <3>1 DEF MethodPrefix
    <3> QED  BY <1>3, <3>2
  <2> QED  BY <2>1, <2>2
<1>11. ASSUME NEW k \in 1 .. Len(p), p[k][1] = "start"
       PROVE  \E j \in 1 .. Len(p) : j < k /\ p[j] = <<"create", p[k][2]>>
  <2>1. CASE k =< a /\ k \in 1 .. Len(f) /\ p[k] = f[k]
    <3>1. PICK j \in 1 .. Len(f) : j < k /\ f[j] = <<"create", p[k][2]>>
      BY <1>11, <2>1 DEF MethodPrefix, MethodAhead
    <3> QED  BY <1>3, <3>1
  <2>2. CASE a < k /\ k - a \in 1 .. Len(g) /\ p[k] = g[k - a]
    <3>0. MethodOf(usd, p[k][2]) =< m /\ p[k][2] \in DOMAIN usd.streams
      BY <1>5, <1>6, <1>7
    <3>1. PICK j \in 1 .. Len(p) : p[j] = <<"create", p[k][2]>>
      BY <1>10, <3>0
    <3>2. CASE j =< a
      <4>1. j < k
        BY <1>3, <2>2, <3>2
      <4> QED  BY <3>1, <4>1
    <3>3. CASE a < j
      <4>1. j - a \in 1 .. Len(g) /\ p[j] = g[j - a]
        BY <1>3, <1>4, <3>3
      <4>2. j - a < k - a
        BY <1>11, <2>2, <3>1, <4>1 DEF MethodPart
      <4> QED  BY <1>3, <3>1, <4>2
    <3> QED  BY <1>3, <3>2, <3>3
  <2> QED  BY <1>4, <2>1, <2>2
<1>12. MethodAhead(p, usd, {}, m)
  BY <1>3, <1>7, <1>8, <1>9, <1>11 DEF MethodAhead, S
<1> QED  BY <1>7, <1>10, <1>12 DEF MethodPrefix, p

(* ByMethod creates each stream before it starts it, once; only a stream   *)
(* of an earlier method than the last is started again.                    *)
LEMMA MethodPlan ==
  ASSUME NEW usd \in Description,
         \A i \in DOMAIN usd.streams : usd.streams[i].method \in 1 .. usd.methods
  PROVE  /\ MethodAhead(ByMethod(usd), usd, {}, usd.methods)
         /\ \A i \in DOMAIN usd.streams :
              \E k \in 1 .. Len(ByMethod(usd)) : ByMethod(usd)[k] = <<"start", i>>
<1> DEFINE S == StepsOf(usd)
           n == usd.methods
           seqs == [m \in 1 .. n |-> Part(usd, m)]
           G == {x \in (0 .. n) \X Seq(S) : MethodPrefix(x[2], usd, x[1])}
<1>1. n \in Nat
  BY DEF Description
<1>2. ASSUME NEW m \in 1 .. n PROVE MethodPart(Part(usd, m), usd, m)
  BY <1>1, MethodParts
<1>3. seqs \in Seq(Seq(S)) /\ Len(seqs) = n
  <2>1. \A m \in 1 .. n : Part(usd, m) \in Seq(S)
    BY <1>2 DEF MethodPart
  <2>2. seqs \in [1 .. n -> Seq(S)]
    BY <2>1
  <2> QED  BY <1>1, <2>2
<1>4. ByMethod(usd) = FlattenSeq(seqs)
  BY DEF ByMethod, Part, Of, Upto
<1>5. \A m \in 1 .. n : seqs[m] = Part(usd, m)
  OBVIOUS
<1> HIDE DEF seqs, S
<1>G. \A m, f : <<m, f>> \in G <=> m \in 0 .. n /\ f \in Seq(S) /\ MethodPrefix(f, usd, m)
  OBVIOUS
<1> HIDE DEF G
<1>6. <<0, <<>>>> \in G
  <2>1. \A i \in DOMAIN usd.streams : ~(MethodOf(usd, i) =< 0)
    BY <1>1 DEF MethodOf
  <2>2. <<>> \in Seq(StepsOf(usd)) /\ Len(<<>>) = 0
    OBVIOUS
  <2>3. MethodAhead(<<>>, usd, {}, 0)
    BY <2>2 DEF MethodAhead
  <2>4. MethodPrefix(<<>>, usd, 0)
    BY <2>1, <2>2, <2>3 DEF MethodPrefix
  <2>5. <<>> \in Seq(S) /\ 0 \in 0 .. n
    BY <1>1
  <2> QED  BY <1>G, <2>4, <2>5
<1>7. ASSUME NEW m \in 1 .. Len(seqs), NEW f \in Seq(S), <<m - 1, f>> \in G
      PROVE  <<m, f \o seqs[m]>> \in G
  <2>1. m \in 1 .. n /\ m \in 0 .. n /\ m \in Nat \ {0} /\ MethodPrefix(f, usd, m - 1)
    BY <1>1, <1>3, <1>7, <1>G
  <2>2. MethodPart(seqs[m], usd, m)
    BY <1>2, <1>5, <2>1
  <2>3. MethodPrefix(f \o seqs[m], usd, m)
    BY <2>1, <2>2, MethodPrefixes
  <2>4. f \o seqs[m] \in Seq(S)
    BY <2>3 DEF MethodPrefix, MethodAhead, S
  <2> QED  BY <1>G, <2>1, <2>3, <2>4
<1>8. <<n, FlattenSeq(seqs)>> \in G
  BY <1>3, <1>6, <1>7, FlattenFolds
<1> DEFINE p == ByMethod(usd)
<1>9. MethodPrefix(p, usd, n)
  BY <1>4, <1>8, <1>G
<1> HIDE DEF p
<1>10. ASSUME NEW i \in DOMAIN usd.streams PROVE \E k \in 1 .. Len(p) : p[k] = <<"start", i>>
  <2>1. MethodOf(usd, i) =< n
    BY <1>1 DEF MethodOf
  <2>2. PICK k \in 1 .. Len(p) : p[k] = <<"create", i>>
    BY <1>9, <2>1 DEF MethodPrefix
  <2>3. PICK l \in 1 .. Len(p) : p[l] = <<"start", p[k][2]>>
    <3>1. p[k][1] = "create" /\ MethodAhead(p, usd, {}, n)
      BY <1>9, <2>2 DEF MethodPrefix
    <3> QED  BY <3>1 DEF MethodAhead
  <2> QED  BY <2>2, <2>3
<1> QED  BY <1>9, <1>10 DEF MethodPrefix, p

(* What is ahead in a setup in the default format: streams one by one, in  *)
(* their order, each dropped before the next is created.                   *)
DefaultAhead(p, usd) ==
  /\ p \in Seq(StepsOf(usd))
  /\ \A k \in 1 .. Len(p) :
       /\ p[k][1] = "create" =>
            /\ k + 1 \in 1 .. Len(p)
            /\ p[k + 1] = IF HasSource(usd.streams[p[k][2]]) THEN <<"start", p[k][2]>>
                          ELSE <<"drop", p[k][2]>>
       /\ p[k][1] = "start" =>
            /\ HasSource(usd.streams[p[k][2]])
            /\ k + 1 \in 1 .. Len(p) /\ p[k + 1] = <<"drop", p[k][2]>>
       /\ p[k][1] = "drop" /\ k + 1 \in 1 .. Len(p) => p[k + 1][1] = "create"
  /\ \A j, k \in 1 .. Len(p) : j < k => p[j][2] =< p[k][2]
  /\ \A j, k \in 1 .. Len(p) : j < k /\ p[j][1] = "drop" => p[j][2] < p[k][2]

(* The parts for the first m streams.                                      *)
DefaultPrefix(p, usd, m) ==
  /\ DefaultAhead(p, usd)
  /\ \A k \in 1 .. Len(p) : p[k][2] =< m
  /\ p # <<>> => p[1][1] = "create"
  /\ \A i \in DOMAIN usd.streams :
       i =< m /\ HasSource(usd.streams[i]) => \E k \in 1 .. Len(p) : p[k] = <<"start", i>>

(* The part of a plan for the m-th stream.                                 *)
DefaultPart(usd, m) ==
  IF HasSource(usd.streams[m]) THEN <<<<"create", m>>, <<"start", m>>, <<"drop", m>>>>
                               ELSE <<<<"create", m>>, <<"drop", m>>>>

(* The steps OneByOne takes for one stream.                                *)
LEMMA DefaultParts ==
  ASSUME NEW usd, NEW m \in DOMAIN usd.streams
  PROVE  LET g == DefaultPart(usd, m)
         IN  /\ g \in Seq(StepsOf(usd)) /\ Len(g) \in {2, 3}
             /\ g[1] = <<"create", m>> /\ g[Len(g)] = <<"drop", m>>
             /\ \A k \in 1 .. Len(g) : g[k][2] = m
             /\ Len(g) = 3 <=> HasSource(usd.streams[m])
             /\ Len(g) = 3 => g[2] = <<"start", m>>
<1> DEFINE S == StepsOf(usd)
           c == <<"create", m>>
           t == <<"start", m>>
           d == <<"drop", m>>
<1>1. c \in S /\ t \in S /\ d \in S /\ c[2] = m /\ t[2] = m /\ d[2] = m
  BY DEF StepsOf
<1> HIDE DEF S, c, t, d
<1>2. <<c, t, d>> \in Seq(S) /\ <<c, d>> \in Seq(S)
  BY <1>1
<1>3. CASE HasSource(usd.streams[m])
  <2>1. DefaultPart(usd, m) = <<c, t, d>>
    BY <1>3 DEF DefaultPart, c, t, d
  <2> QED  BY <1>1, <1>2, <1>3, <2>1 DEF S, c, t, d
<1>4. CASE ~HasSource(usd.streams[m])
  <2>1. DefaultPart(usd, m) = <<c, d>>
    BY <1>4 DEF DefaultPart, c, t, d
  <2> QED  BY <1>1, <1>2, <1>4, <2>1 DEF S, c, t, d
<1> QED  BY <1>3, <1>4

(* What the plan says of the first streams, it says of one more.           *)
LEMMA DefaultPrefixes ==
  ASSUME NEW usd \in Description, NEW m \in DOMAIN usd.streams, NEW f,
         DefaultPrefix(f, usd, m - 1)
  PROVE  DefaultPrefix(f \o DefaultPart(usd, m), usd, m)
<1> DEFINE S == StepsOf(usd)
           g == DefaultPart(usd, m)
           p == f \o g
           a == Len(f)
<1>1. /\ DOMAIN usd.streams \subseteq Nat /\ m \in Nat
  BY DEF Description
<1>2. /\ g \in Seq(S) /\ Len(g) \in {2, 3}
      /\ g[1] = <<"create", m>> /\ g[Len(g)] = <<"drop", m>>
      /\ \A k \in 1 .. Len(g) : g[k][2] = m
      /\ Len(g) = 3 <=> HasSource(usd.streams[m])
      /\ Len(g) = 3 => g[2] = <<"start", m>>
  BY DefaultParts
<1> HIDE DEF g
<1>3. f \in Seq(S)
  BY DEF DefaultPrefix, DefaultAhead
<1>4. /\ p \in Seq(S)
      /\ a \in Nat /\ Len(g) \in Nat /\ Len(p) = a + Len(g)
      /\ \A k \in 1 .. Len(f) : p[k] = f[k] /\ k \in 1 .. Len(p)
      /\ \A k \in 1 .. Len(g) : p[a + k] = g[k] /\ a + k \in 1 .. Len(p)
      /\ \A k \in 1 .. Len(p) :
           IF k =< a THEN k \in 1 .. Len(f) /\ p[k] = f[k]
           ELSE k - a \in 1 .. Len(g) /\ p[k] = g[k - a]
  BY <1>2, <1>3, Concat
<1> HIDE DEF p
<1>5. ASSUME NEW k \in 1 .. Len(p)
      PROVE  \/ k =< a /\ k \in 1 .. Len(f) /\ p[k] = f[k]
             \/ k = a + 1 /\ p[k] = <<"create", m>>
             \/ k = a + 2 /\ Len(g) = 3 /\ p[k] = <<"start", m>>
             \/ k = Len(p) /\ a < k /\ p[k] = <<"drop", m>>
  <2>1. k =< a => k \in 1 .. Len(f) /\ p[k] = f[k]
    BY <1>4
  <2>2. ~(k =< a) => k - a \in 1 .. Len(g) /\ p[k] = g[k - a]
    BY <1>4
  <2>3. ~(k =< a) => \/ k - a = 1
                     \/ k - a = 2 /\ Len(g) = 3
                     \/ k - a = Len(g)
    <3> SUFFICES ASSUME ~(k =< a)
                 PROVE  k - a = 1 \/ (k - a = 2 /\ Len(g) = 3) \/ k - a = Len(g)
      OBVIOUS
    <3> DEFINE x == k - a
    <3>1. x \in 1 .. Len(g)
      BY <2>2
    <3> HIDE DEF x
    <3>2. CASE Len(g) = 2
      BY <3>1, <3>2 DEF x
    <3>3. CASE Len(g) = 3
      BY <3>1, <3>3 DEF x
    <3> QED  BY <1>2, <3>2, <3>3
  <2>4. (k - a = 1 => k = a + 1) /\ (k - a = 2 => k = a + 2) /\ (k - a = Len(g) => k = Len(p))
        /\ (~(k =< a) => a < k)
    BY <1>4
  <2> QED  BY <1>2, <2>1, <2>2, <2>3, <2>4
<1>6. /\ p[a + 1] = <<"create", m>> /\ a + 1 \in 1 .. Len(p)
      /\ Len(g) = 3 => p[a + 2] = <<"start", m>> /\ a + 2 \in 1 .. Len(p)
      /\ p[Len(p)] = <<"drop", m>> /\ Len(p) \in 1 .. Len(p)
      /\ Len(p) = a + Len(g)
  BY <1>2, <1>4
<1>7. \A k \in 1 .. Len(p) : p[k] = <<p[k][1], p[k][2]>> /\ p[k][2] \in Nat
                             /\ p[k][1] \in {"create", "start", "drop"}
  <2> SUFFICES ASSUME NEW k \in 1 .. Len(p)
               PROVE  p[k] = <<p[k][1], p[k][2]>> /\ p[k][2] \in Nat
                      /\ p[k][1] \in {"create", "start", "drop"}
    OBVIOUS
  <2>1. p[k] \in S
    BY <1>4
  <2> QED  BY <1>1, <2>1, StepParts
<1>8. ASSUME NEW k \in 1 .. Len(f)
      PROVE  f[k][2] =< m - 1 /\ f[k][2] < m /\ p[k] = f[k]
  <2>1. f[k][2] =< m - 1 /\ p[k] = f[k] /\ k \in 1 .. Len(p)
    BY <1>4 DEF DefaultPrefix
  <2> QED  BY <1>1, <1>7, <2>1
<1>9. DefaultAhead(f, usd)
  BY DEF DefaultPrefix
<1> HIDE DEF a, S
<1>10. ASSUME NEW k \in 1 .. Len(p), p[k][1] = "create"
       PROVE  /\ k + 1 \in 1 .. Len(p)
              /\ p[k + 1] = IF HasSource(usd.streams[p[k][2]]) THEN <<"start", p[k][2]>>
                            ELSE <<"drop", p[k][2]>>
  <2>1. CASE k =< a /\ k \in 1 .. Len(f) /\ p[k] = f[k]
    <3>1. /\ k + 1 \in 1 .. Len(f)
          /\ f[k + 1] = IF HasSource(usd.streams[p[k][2]]) THEN <<"start", p[k][2]>>
                        ELSE <<"drop", p[k][2]>>
      BY <1>9, <1>10, <2>1 DEF DefaultAhead
    <3> QED  BY <1>4, <3>1
  <2>2. CASE k = a + 1
    <3>2. p[k][2] = m
      BY <1>6, <2>2
    <3>4. a \in Nat /\ Len(p) = a + Len(g)
      BY <1>4
    <3>5. k + 1 = a + 2
      BY <2>2, <3>4
    <3>6. Len(g) = 2 => a + 2 = Len(p)
      BY <3>4
    <3>3. k + 1 = a + 2 /\ (Len(g) = 2 => k + 1 = Len(p))
      BY <3>5, <3>6
    <3>1. k + 1 = a + 2 /\ (Len(g) = 2 => k + 1 = Len(p)) /\ p[k][2] = m
      BY <3>2, <3>3
    <3> QED  BY <1>2, <1>6, <3>1
  <2> QED  BY <1>5, <1>10, <2>1, <2>2
<1>11. ASSUME NEW k \in 1 .. Len(p), p[k][1] = "start"
       PROVE  /\ HasSource(usd.streams[p[k][2]])
              /\ k + 1 \in 1 .. Len(p) /\ p[k + 1] = <<"drop", p[k][2]>>
  <2>1. CASE k =< a /\ k \in 1 .. Len(f) /\ p[k] = f[k]
    <3>1. /\ HasSource(usd.streams[p[k][2]])
          /\ k + 1 \in 1 .. Len(f) /\ f[k + 1] = <<"drop", p[k][2]>>
      BY <1>9, <1>11, <2>1 DEF DefaultAhead
    <3> QED  BY <1>4, <3>1
  <2>2. CASE k = a + 2 /\ Len(g) = 3 /\ p[k] = <<"start", m>>
    <3>1. k + 1 = Len(p) /\ p[k][2] = m
      BY <1>4, <1>6, <2>2
    <3> QED  BY <1>2, <1>6, <2>2, <3>1
  <2> QED  BY <1>5, <1>11, <2>1, <2>2
<1>12. ASSUME NEW k \in 1 .. Len(p), p[k][1] = "drop", k + 1 \in 1 .. Len(p)
       PROVE  p[k + 1][1] = "create"
  <2>1. CASE k =< a /\ k \in 1 .. Len(f) /\ p[k] = f[k]
    <3>1. CASE k = a
      BY <1>6, <3>1
    <3>2. CASE k # a
      <4>1. k + 1 \in 1 .. Len(f) /\ p[k + 1] = f[k + 1]
        BY <1>4, <2>1, <3>2 DEF a
      <4> QED  BY <1>9, <1>12, <2>1, <4>1 DEF DefaultAhead
    <3> QED  BY <3>1, <3>2
  <2>2. CASE k = Len(p)
    BY <1>4, <1>12, <2>2
  <2> QED  BY <1>5, <1>12, <2>1, <2>2
<1>13. ASSUME NEW j \in 1 .. Len(p), NEW k \in 1 .. Len(p), j < k
       PROVE  p[j][2] =< p[k][2] /\ (p[j][1] = "drop" => p[j][2] < p[k][2])
  <2>1. CASE k =< a /\ k \in 1 .. Len(f) /\ p[k] = f[k]
    <3>1. j \in 1 .. Len(f) /\ p[j] = f[j]
      BY <1>4, <1>13, <2>1
    <3> QED  BY <1>9, <1>13, <2>1, <3>1 DEF DefaultAhead
  <2>2. CASE ~(k =< a) /\ p[k][2] = m
    <3>1. CASE j =< a /\ j \in 1 .. Len(f)
      <4>1. p[j][2] < m
        BY <1>8, <3>1
      <4>2. p[j][2] \in Nat
        BY <1>7
      <4> QED  BY <1>1, <2>2, <4>1, <4>2
    <3>2. CASE j # Len(p) /\ p[j][2] = m
      <4>1. p[j][1] # "drop"
        <5> SUFFICES ASSUME p[j][1] = "drop" PROVE FALSE
          OBVIOUS
        <5>1. j \in 1 .. Len(f)
          BY <1>5, <3>2
        <5>2. p[j][2] < m
          BY <1>8, <5>1
        <5> QED  BY <1>1, <3>2, <5>2
      <4> QED  BY <1>1, <2>2, <3>2, <4>1
    <3>3. CASE j = Len(p)
      BY <1>4, <1>13, <3>3
    <3>4. (j =< a /\ j \in 1 .. Len(f)) \/ p[j][2] = m
      BY <1>5
    <3> QED  BY <3>1, <3>2, <3>3, <3>4
  <2>3. (k =< a /\ k \in 1 .. Len(f) /\ p[k] = f[k]) \/ (~(k =< a) /\ p[k][2] = m)
    <3>1. k = a + 1 \/ k = a + 2 => ~(k =< a)
      BY <1>4
    <3>2. a < k => ~(k =< a)
      BY <1>4
    <3> QED  BY <1>5, <3>1, <3>2
  <2> QED  BY <2>1, <2>2, <2>3
<1>14. DefaultAhead(p, usd)
  BY <1>4, <1>10, <1>11, <1>12, <1>13 DEF DefaultAhead, S
<1>15. ASSUME NEW k \in 1 .. Len(p) PROVE p[k][2] =< m
  <2>1. CASE k \in 1 .. Len(f)
    <3>1. p[k][2] < m /\ p[k][2] \in Nat
      BY <1>7, <1>8, <2>1
    <3> QED  BY <1>1, <3>1
  <2>2. CASE p[k][2] = m
    BY <1>1, <2>2
  <2> QED  BY <1>5, <2>1, <2>2
<1>16. p[1][1] = "create"
  <2>1. CASE f = <<>>
    BY <1>4, <1>6, <2>1 DEF a
  <2>2. CASE f # <<>>
    <3>1. 1 \in 1 .. Len(f)
      BY <1>3, <2>2
    <3> QED  BY <1>8, <2>2, <3>1 DEF DefaultPrefix
  <2> QED  BY <2>1, <2>2
<1>17. ASSUME NEW i \in DOMAIN usd.streams, i =< m, HasSource(usd.streams[i])
       PROVE  \E k \in 1 .. Len(p) : p[k] = <<"start", i>>
  <2>1. CASE i = m
    BY <1>2, <1>6, <1>17, <2>1
  <2>2. CASE i # m
    <3>1. i =< m - 1
      BY <1>1, <1>17, <2>2
    <3>2. PICK k \in 1 .. Len(f) : f[k] = <<"start", i>>
      BY <1>17, <3>1 DEF DefaultPrefix
    <3> QED  BY <1>4, <3>2
  <2> QED  BY <2>1, <2>2
<1> QED  BY <1>14, <1>15, <1>16, <1>17 DEF DefaultPrefix, p, g

(* OneByOne creates, starts and drops the streams in their order.          *)
LEMMA DefaultPlan ==
  ASSUME NEW usd \in Description
  PROVE  /\ DefaultAhead(OneByOne(usd), usd)
         /\ OneByOne(usd) # <<>> => OneByOne(usd)[1][1] = "create"
         /\ \A i \in DOMAIN usd.streams :
              HasSource(usd.streams[i]) =>
                \E k \in 1 .. Len(OneByOne(usd)) : OneByOne(usd)[k] = <<"start", i>>
<1> DEFINE S == StepsOf(usd)
           n == Len(usd.streams)
           seqs == [m \in DOMAIN usd.streams |-> DefaultPart(usd, m)]
           G == {x \in (0 .. n) \X Seq(S) : DefaultPrefix(x[2], usd, x[1])}
<1>1. n \in Nat /\ DOMAIN usd.streams = 1 .. n
  BY DEF Description
<1>2. seqs \in Seq(Seq(S)) /\ Len(seqs) = n
  <2>1. \A m \in 1 .. n : DefaultPart(usd, m) \in Seq(S)
    BY <1>1, DefaultParts
  <2>2. seqs \in [1 .. n -> Seq(S)]
    BY <1>1, <2>1
  <2> QED  BY <1>1, <2>2
<1>3. OneByOne(usd) = FlattenSeq(seqs)
  BY DEF OneByOne, DefaultPart
<1>4. \A m \in 1 .. n : seqs[m] = DefaultPart(usd, m)
  BY <1>1
<1> HIDE DEF seqs, S
<1>G. \A m, f : <<m, f>> \in G <=> m \in 0 .. n /\ f \in Seq(S) /\ DefaultPrefix(f, usd, m)
  OBVIOUS
<1> HIDE DEF G
<1>5. <<0, <<>>>> \in G
  <2>1. \A i \in DOMAIN usd.streams : ~(i =< 0)
    BY <1>1
  <2>2. <<>> \in Seq(StepsOf(usd)) /\ Len(<<>>) = 0
    OBVIOUS
  <2>3. DefaultAhead(<<>>, usd)
    BY <2>2 DEF DefaultAhead
  <2>4. DefaultPrefix(<<>>, usd, 0)
    BY <2>1, <2>2, <2>3 DEF DefaultPrefix
  <2>5. <<>> \in Seq(S) /\ 0 \in 0 .. n
    BY <1>1
  <2> QED  BY <1>G, <2>4, <2>5
<1>6. ASSUME NEW m \in 1 .. Len(seqs), NEW f \in Seq(S), <<m - 1, f>> \in G
      PROVE  <<m, f \o seqs[m]>> \in G
  <2>1. m \in DOMAIN usd.streams /\ m \in 0 .. n /\ DefaultPrefix(f, usd, m - 1)
    BY <1>1, <1>2, <1>6, <1>G
  <2>2. DefaultPrefix(f \o seqs[m], usd, m)
    BY <1>1, <1>4, <2>1, DefaultPrefixes
  <2>3. f \o seqs[m] \in Seq(S)
    BY <2>2 DEF DefaultPrefix, DefaultAhead, S
  <2> QED  BY <1>G, <2>1, <2>2, <2>3
<1>7. <<n, FlattenSeq(seqs)>> \in G
  BY <1>2, <1>5, <1>6, FlattenFolds
<1>8. DefaultPrefix(OneByOne(usd), usd, n)
  BY <1>3, <1>7, <1>G
<1>9. \A i \in DOMAIN usd.streams : i =< n
  BY <1>1
<1> QED  BY <1>8, <1>9 DEF DefaultPrefix

------------------------------------------------------------------------------
(* The remaining steps of a setup, one step later.                         *)

(* The first element of a sequence and the others.                         *)
LEMMA TailParts ==
  ASSUME NEW S, NEW p \in Seq(S), p # <<>>
  PROVE  /\ Len(p) \in Nat \ {0} /\ Head(p) = p[1] /\ p[1] \in S /\ 1 \in 1 .. Len(p)
         /\ Tail(p) \in Seq(S) /\ Len(Tail(p)) = Len(p) - 1
         /\ \A k \in 1 .. Len(Tail(p)) : Tail(p)[k] = p[k + 1] /\ k + 1 \in 1 .. Len(p)
         /\ \A k \in 1 .. Len(p) : k # 1 => k - 1 \in 1 .. Len(Tail(p)) /\ Tail(p)[k - 1] = p[k]
<1>1. /\ Len(p) \in Nat \ {0} /\ Head(p) = p[1] /\ p[1] \in S /\ 1 \in 1 .. Len(p)
      /\ Tail(p) \in Seq(S) /\ Len(Tail(p)) = Len(p) - 1
  OBVIOUS
<1>2. \A k \in 1 .. Len(Tail(p)) : Tail(p)[k] = p[k + 1] /\ k + 1 \in 1 .. Len(p)
  OBVIOUS
<1>3. ASSUME NEW k \in 1 .. Len(p), k # 1
      PROVE  k - 1 \in 1 .. Len(Tail(p)) /\ Tail(p)[k - 1] = p[k]
  <2>1. k - 1 \in 1 .. Len(Tail(p)) /\ (k - 1) + 1 = k
    BY <1>1, <1>3
  <2> QED  BY <1>2, <2>1
<1> QED  BY <1>1, <1>2, <1>3

(* A setup of the default format, one step later.                          *)
LEMMA DefaultTail ==
  ASSUME NEW usd, NEW p, p # <<>>, DefaultAhead(p, usd)
  PROVE  /\ DefaultAhead(Tail(p), usd)
         /\ p[1][1] = "create" =>
              /\ Tail(p) # <<>>
              /\ Tail(p)[1] = IF HasSource(usd.streams[p[1][2]]) THEN <<"start", p[1][2]>>
                              ELSE <<"drop", p[1][2]>>
         /\ p[1][1] = "start" => Tail(p) # <<>> /\ Tail(p)[1] = <<"drop", p[1][2]>>
         /\ p[1][1] = "drop" => Tail(p) = <<>> \/ Tail(p)[1][1] = "create"
<1> DEFINE S == StepsOf(usd)
           t == Tail(p)
<1>1. p \in Seq(S)
  BY DEF DefaultAhead
<1>2. /\ Len(p) \in Nat \ {0} /\ 1 \in 1 .. Len(p)
      /\ t \in Seq(S) /\ Len(t) = Len(p) - 1
      /\ \A k \in 1 .. Len(t) : t[k] = p[k + 1] /\ k + 1 \in 1 .. Len(p)
  BY <1>1, TailParts
<1>3. Len(t) \in Nat /\ (t = <<>> <=> Len(t) = 0) /\ (t # <<>> => t[1] = p[2] /\ 2 \in 1 .. Len(p))
  <2> HIDE DEF t, S
  <2>1. Len(t) \in Nat /\ (t = <<>> <=> Len(t) = 0)
    BY <1>2
  <2>2. t # <<>> => 1 \in 1 .. Len(t)
    BY <2>1
  <2>3. 1 + 1 = 2
    OBVIOUS
  <2> QED  BY <1>2, <2>1, <2>2, <2>3
<1> HIDE DEF t, S
<1>4. DefaultAhead(t, usd)
  <2>1. ASSUME NEW k \in 1 .. Len(t)
        PROVE  /\ t[k][1] = "create" =>
                    /\ k + 1 \in 1 .. Len(t)
                    /\ t[k + 1] = IF HasSource(usd.streams[t[k][2]]) THEN <<"start", t[k][2]>>
                                  ELSE <<"drop", t[k][2]>>
               /\ t[k][1] = "start" =>
                    /\ HasSource(usd.streams[t[k][2]])
                    /\ k + 1 \in 1 .. Len(t) /\ t[k + 1] = <<"drop", t[k][2]>>
               /\ t[k][1] = "drop" /\ k + 1 \in 1 .. Len(t) => t[k + 1][1] = "create"
    <3>1. t[k] = p[k + 1] /\ k + 1 \in 1 .. Len(p)
      BY <1>2
    <3>2. k + 1 + 1 \in 1 .. Len(p) => k + 1 \in 1 .. Len(t)
      BY <1>2, <1>3
    <3>3. k + 1 \in 1 .. Len(t) => t[k + 1] = p[k + 1 + 1] /\ k + 1 + 1 \in 1 .. Len(p)
      BY <1>2
    <3> DEFINE j == k + 1
    <3> HIDE DEF j
    <3>4. /\ p[j][1] = "create" =>
               /\ j + 1 \in 1 .. Len(p)
               /\ p[j + 1] = IF HasSource(usd.streams[p[j][2]]) THEN <<"start", p[j][2]>>
                             ELSE <<"drop", p[j][2]>>
          /\ p[j][1] = "start" =>
               /\ HasSource(usd.streams[p[j][2]])
               /\ j + 1 \in 1 .. Len(p) /\ p[j + 1] = <<"drop", p[j][2]>>
          /\ p[j][1] = "drop" /\ j + 1 \in 1 .. Len(p) => p[j + 1][1] = "create"
      BY <3>1 DEF DefaultAhead, j
    <3> QED  BY <3>1, <3>2, <3>3, <3>4 DEF j
  <2>2. ASSUME NEW j \in 1 .. Len(t), NEW k \in 1 .. Len(t), j < k
        PROVE  t[j][2] =< t[k][2] /\ (t[j][1] = "drop" => t[j][2] < t[k][2])
    <3>1. t[j] = p[j + 1] /\ j + 1 \in 1 .. Len(p) /\ t[k] = p[k + 1] /\ k + 1 \in 1 .. Len(p)
          /\ j + 1 < k + 1
      BY <1>2, <2>2
    <3> QED  BY <3>1 DEF DefaultAhead
  <2> QED  BY <1>2, <2>1, <2>2 DEF DefaultAhead, S
<1>5. /\ p[1][1] = "create" =>
           /\ 2 \in 1 .. Len(p)
           /\ p[2] = IF HasSource(usd.streams[p[1][2]]) THEN <<"start", p[1][2]>>
                     ELSE <<"drop", p[1][2]>>
      /\ p[1][1] = "start" => 2 \in 1 .. Len(p) /\ p[2] = <<"drop", p[1][2]>>
      /\ p[1][1] = "drop" /\ 2 \in 1 .. Len(p) => p[2][1] = "create"
  <2>1. 1 + 1 = 2
    OBVIOUS
  <2> QED  BY <1>2, <2>1 DEF DefaultAhead
<1>6. 2 \in 1 .. Len(p) => t # <<>>
  BY <1>2, <1>3
<1> QED  BY <1>3, <1>4, <1>5, <1>6 DEF t

(* A setup by delivery methods, one step later; M are the streams made.    *)
LEMMA MethodTail ==
  ASSUME NEW usd, NEW p, NEW M, NEW last, p # <<>>, MethodAhead(p, usd, M, last)
  PROVE  /\ MethodAhead(Tail(p), usd, IF p[1][1] = "create" THEN M \cup {p[1][2]} ELSE M, last)
         /\ p[1][1] = "create" => p[1][2] \notin M
         /\ p[1][1] = "start" => p[1][2] \in M
         /\ p[1][1] \in {"create", "start"}
<1> DEFINE S == StepsOf(usd)
           t == Tail(p)
           N == IF p[1][1] = "create" THEN M \cup {p[1][2]} ELSE M
<1>1. p \in Seq(S)
  BY DEF MethodAhead
<1>2. /\ Len(p) \in Nat \ {0} /\ 1 \in 1 .. Len(p)
      /\ t \in Seq(S) /\ Len(t) = Len(p) - 1
      /\ \A k \in 1 .. Len(t) : t[k] = p[k + 1] /\ k + 1 \in 1 .. Len(p)
      /\ \A k \in 1 .. Len(p) : k # 1 => k - 1 \in 1 .. Len(t) /\ t[k - 1] = p[k]
  BY <1>1, TailParts
<1>3. \A k \in 1 .. Len(p) : p[k] = <<p[k][1], p[k][2]>>
  BY <1>1, StepParts
<1> HIDE DEF t, S, N
<1>4. /\ p[1][1] = "create" => p[1][2] \notin M
      /\ p[1][1] \in {"create", "start"}
  BY <1>2 DEF MethodAhead
<1>5. p[1][1] = "start" => p[1][2] \in M
  <2> SUFFICES ASSUME p[1][1] = "start", NEW j \in 1 .. Len(p), j < 1 PROVE FALSE
    BY <1>2 DEF MethodAhead
  <2> QED  BY <1>2
<1>6. \A k \in 1 .. Len(t) : t[k][1] \in {"create", "start"}
  BY <1>2 DEF MethodAhead
<1>7. ASSUME NEW j \in 1 .. Len(t), NEW k \in 1 .. Len(t), j < k, t[j] = t[k]
      PROVE  t[k][1] = "start" /\ MethodOf(usd, t[k][2]) < last
  <2>1. j + 1 \in 1 .. Len(p) /\ k + 1 \in 1 .. Len(p) /\ j + 1 < k + 1
        /\ t[j] = p[j + 1] /\ t[k] = p[k + 1]
    BY <1>2, <1>7
  <2> QED  BY <1>7, <2>1 DEF MethodAhead
<1>8. ASSUME NEW k \in 1 .. Len(t), t[k][1] = "create"
      PROVE  t[k][2] \notin N /\ \E l \in 1 .. Len(t) : k < l /\ t[l] = <<"start", t[k][2]>>
  <2>1. k + 1 \in 1 .. Len(p) /\ t[k] = p[k + 1] /\ 1 < k + 1
    BY <1>2
  <2>2. PICK l \in 1 .. Len(p) : k + 1 < l /\ p[l] = <<"start", t[k][2]>>
    BY <1>8, <2>1 DEF MethodAhead
  <2>3. l - 1 \in 1 .. Len(t) /\ t[l - 1] = p[l] /\ k < l - 1
    BY <1>2, <2>2
  <2>4. t[k][2] \notin M
    BY <1>8, <2>1 DEF MethodAhead
  <2>5. p[1][1] = "create" => t[k][2] # p[1][2]
    <3> SUFFICES ASSUME p[1][1] = "create", t[k][2] = p[1][2] PROVE FALSE
      OBVIOUS
    <3>1. p[1] = <<"create", p[1][2]>> /\ p[k + 1] = <<p[k + 1][1], p[k + 1][2]>>
      BY <1>2, <1>3, <2>1
    <3>2. p[k + 1] = <<"create", p[1][2]>>
      BY <1>8, <2>1, <3>1
    <3>3. p[1] = p[k + 1]
      BY <3>1, <3>2
    <3> QED  BY <1>2, <1>8, <2>1, <3>3 DEF MethodAhead
  <2> QED  BY <2>2, <2>3, <2>4, <2>5 DEF N
<1>9. ASSUME NEW k \in 1 .. Len(t), t[k][1] = "start"
      PROVE  t[k][2] \in N \/ \E j \in 1 .. Len(t) : j < k /\ t[j] = <<"create", t[k][2]>>
  <2>1. k + 1 \in 1 .. Len(p) /\ t[k] = p[k + 1]
    BY <1>2
  <2>2. t[k][2] \in M \/ \E j \in 1 .. Len(p) : j < k + 1 /\ p[j] = <<"create", t[k][2]>>
    BY <1>9, <2>1 DEF MethodAhead
  <2>3. ASSUME NEW j \in 1 .. Len(p), j < k + 1, p[j] = <<"create", t[k][2]>>
        PROVE  t[k][2] \in N \/ \E i \in 1 .. Len(t) : i < k /\ t[i] = <<"create", t[k][2]>>
    <3>1. CASE j = 1
      BY <2>3, <3>1 DEF N
    <3>2. CASE j # 1
      <4>1. j - 1 \in 1 .. Len(t) /\ t[j - 1] = p[j] /\ j - 1 < k
        BY <1>2, <2>3, <3>2
      <4> QED  BY <2>3, <4>1
    <3> QED  BY <3>1, <3>2
  <2>4. M \subseteq N
    BY DEF N
  <2> QED  BY <2>2, <2>3, <2>4
<1>10. MethodAhead(t, usd, N, last)
  BY <1>2, <1>6, <1>7, <1>8, <1>9 DEF MethodAhead, S
<1> QED  BY <1>4, <1>5, <1>10 DEF t, N

------------------------------------------------------------------------------
(* Where the main thread is.                                               *)

Suffix(t, s) ==
  Len(t) =< Len(s) /\ \A k \in 1 .. Len(t) : t[k] = s[Len(s) - Len(t) + k]

(* The number of the bundle being handled, and of its USD.                 *)
AtBundle == Len(items) - Len(Tail(pending))
AtUsd == Len(items[AtBundle]) - Len(Tail(Head(pending)))

Place ==
  /\ setting \in Settings
  /\ items \in Seq(setting.bundles) /\ Len(items) =< setting.files
  /\ announced = items
  /\ pending \in Seq(Seq(Description))
  /\ pending # <<>> =>
       Len(pending) =< Len(items) /\ Suffix(Tail(pending), items)
       /\ Suffix(Head(pending), items[AtBundle])
  /\ service # 0 => pending # <<>> /\ Head(pending) # <<>>

(* The tail of a suffix is one, and starts where the suffix did.           *)
LEMMA SuffixTail ==
  ASSUME NEW S, NEW s \in Seq(S), NEW t \in Seq(S), t # <<>>, Suffix(t, s)
  PROVE  /\ Suffix(Tail(t), s)
         /\ Len(s) - Len(Tail(t)) \in 1 .. Len(s)
         /\ Head(t) = s[Len(s) - Len(Tail(t))]
<1>1. /\ Len(t) \in Nat \ {0} /\ Head(t) = t[1] /\ 1 \in 1 .. Len(t) /\ Len(s) \in Nat
      /\ Len(Tail(t)) = Len(t) - 1
      /\ \A k \in 1 .. Len(Tail(t)) : Tail(t)[k] = t[k + 1] /\ k + 1 \in 1 .. Len(t)
  BY TailParts
<1>2. Len(t) =< Len(s)
  BY DEF Suffix
<1>3. Len(s) - Len(Tail(t)) = Len(s) - Len(t) + 1 /\ Len(s) - Len(Tail(t)) \in 1 .. Len(s)
  BY <1>1, <1>2
<1>4. ASSUME NEW k \in 1 .. Len(Tail(t))
      PROVE  Tail(t)[k] = s[Len(s) - Len(Tail(t)) + k]
  <2>1. Len(s) - Len(Tail(t)) + k = Len(s) - Len(t) + (k + 1)
    BY <1>1
  <2> QED  BY <1>1, <2>1 DEF Suffix
<1>5. Len(Tail(t)) =< Len(s)
  BY <1>1, <1>2
<1>6. Head(t) = s[Len(s) - Len(Tail(t))]
  BY <1>1, <1>3 DEF Suffix
<1> QED  BY <1>3, <1>4, <1>5, <1>6 DEF Suffix

(* A sequence is a suffix of itself.                                       *)
LEMMA SuffixSelf ==
  ASSUME NEW S, NEW s \in Seq(S)
  PROVE  Suffix(s, s)
<1>1. Len(s) \in Nat /\ \A k \in 1 .. Len(s) : Len(s) - Len(s) + k = k
  OBVIOUS
<1> QED  BY <1>1 DEF Suffix

(* The items are bundles that may arrive.                                  *)
LEMMA BundlesOfDescriptions ==
  ASSUME ConstantsAssumption, Place
  PROVE  /\ items \in Seq(Seq(Description)) /\ Len(items) \in Nat
         /\ \A b \in 1 .. Len(items) : items[b] \in setting.bundles /\ items[b] \in Seq(Description)
         /\ setting.bundles \subseteq Seq(Description)
<1>1. setting.bundles \subseteq Seq(Description)
  BY DEF Place, ConstantsAssumption
<1>2. items \in Seq(setting.bundles)
  BY DEF Place
<1>3. Len(items) \in Nat /\ \A b \in 1 .. Len(items) : items[b] \in setting.bundles
  BY <1>2
<1>4. items \in Seq(Seq(Description))
  BY <1>1, <1>2
<1> QED  BY <1>1, <1>3, <1>4

(* The USD being handled is one of the announced.                          *)
LEMMA UsdAnnounced ==
  ASSUME ConstantsAssumption, Place, pending # <<>>, Head(pending) # <<>>
  PROVE  /\ AtBundle \in 1 .. Len(items) /\ AtUsd \in 1 .. Len(items[AtBundle])
         /\ Usd = items[AtBundle][AtUsd]
         /\ Usd \in Description
         /\ \A i \in DOMAIN Usd.streams : Usd.streams[i].method \in 1 .. Usd.methods
<1>1. /\ items \in Seq(Seq(Description)) /\ Len(items) \in Nat
      /\ \A b \in 1 .. Len(items) : items[b] \in setting.bundles /\ items[b] \in Seq(Description)
  BY BundlesOfDescriptions
<1>2. pending \in Seq(Seq(Description)) /\ Suffix(Tail(pending), items)
      /\ Suffix(Head(pending), items[AtBundle]) /\ Len(pending) =< Len(items)
  BY DEF Place
<1>3. Len(pending) \in Nat \ {0} /\ Len(Tail(pending)) = Len(pending) - 1
  BY <1>2
<1>4. AtBundle \in 1 .. Len(items)
  BY <1>1, <1>2, <1>3 DEF AtBundle
<1>5. Head(pending) \in Seq(Description) /\ items[AtBundle] \in Seq(Description)
  BY <1>1, <1>2, <1>4
<1>6. AtUsd \in 1 .. Len(items[AtBundle]) /\ Usd = items[AtBundle][AtUsd]
  <2> DEFINE h == Head(pending)
             s == items[AtBundle]
  <2>1. h \in Seq(Description) /\ s \in Seq(Description) /\ h # <<>> /\ Suffix(h, s)
    BY <1>2, <1>5
  <2> HIDE DEF h, s
  <2>2. Len(s) - Len(Tail(h)) \in 1 .. Len(s) /\ Head(h) = s[Len(s) - Len(Tail(h))]
    BY <2>1, SuffixTail
  <2> QED  BY <2>2 DEF AtUsd, Usd, h, s
<1>7. Usd \in Description
  BY <1>5, <1>6
<1>8. /\ items[AtBundle] \in setting.bundles /\ setting \in Settings
      /\ AtUsd \in DOMAIN items[AtBundle]
  BY <1>1, <1>4, <1>5, <1>6 DEF Place
<1>9. \A i \in DOMAIN Usd.streams : Usd.streams[i].method \in 1 .. Usd.methods
  BY <1>6, <1>8 DEF ConstantsAssumption
<1> QED  BY <1>4, <1>6, <1>7, <1>9

(* At first nothing is being handled.                                      *)
LEMMA PlaceInit ==
  ASSUME ConstantsAssumption, Init
  PROVE  Place
<1>1. setting \in Settings /\ setting.files \in Nat \ {0}
  BY DEF Init, ConstantsAssumption
<1>2. items \in Seq(setting.bundles) /\ Len(items) = 0 /\ pending \in Seq(Seq(Description))
  BY DEF Init
<1> QED  BY <1>1, <1>2 DEF Init, Place

(* Handling a bundle or a USD goes on to the next one.                     *)
LEMMA PlaceStep ==
  ASSUME ConstantsAssumption, Place, [Next]_vars
  PROVE  Place'
<1>1. /\ items \in Seq(Seq(Description)) /\ Len(items) \in Nat
      /\ \A b \in 1 .. Len(items) : items[b] \in setting.bundles /\ items[b] \in Seq(Description)
      /\ setting.bundles \subseteq Seq(Description)
      /\ setting \in Settings /\ setting.files \in Nat
  BY BundlesOfDescriptions DEF Place, ConstantsAssumption
<1>2. ASSUME NEW p \in Seq(Seq(Description)), NEW is \in Seq(Seq(Description)), p # <<>>, Suffix(p, is)
      PROVE  /\ Len(p) =< Len(is) /\ Suffix(Tail(p), is)
             /\ Suffix(Head(p), is[Len(is) - Len(Tail(p))])
  <2>1. Suffix(Tail(p), is) /\ Head(p) = is[Len(is) - Len(Tail(p))]
    BY <1>2, SuffixTail
  <2>2. Head(p) \in Seq(Description)
    BY <1>2
  <2>3. Suffix(Head(p), Head(p))
    BY <2>2, SuffixSelf
  <2>4. Len(p) =< Len(is)
    BY <1>2 DEF Suffix
  <2> QED  BY <2>1, <2>3, <2>4
<1>3. ASSUME NEW bundle \in setting.bundles, Receive(bundle) PROVE Place'
  <2>1. items' \in Seq(setting.bundles) /\ items' \in Seq(Seq(Description)) /\ Len(items') = Len(items) + 1
    <3>1. bundle \in Seq(Description) /\ items \in Seq(setting.bundles) /\ items' = Append(items, bundle)
      BY <1>1, <1>3 DEF Place, Receive, WithItems
    <3> QED  BY <1>1, <3>1
  <2>2. Len(items') =< setting'.files
    BY <1>1, <1>3, <2>1 DEF Receive
  <2>3. announced' = items' /\ setting' = setting /\ pending' = items' /\ service' = service
    BY <1>3 DEF Receive, WithItems, Place
  <2>4. service = 0
    BY <1>3 DEF Place, Receive, Idle
  <2>5. Suffix(items', items')
    BY <2>1, SuffixSelf
  <2>6. pending' # <<>> =>
          Len(pending') =< Len(items') /\ Suffix(Tail(pending'), items')
          /\ Suffix(Head(pending'), items'[Len(items') - Len(Tail(pending'))])
    BY <1>2, <2>1, <2>3, <2>5
  <2> QED  BY <1>1, <2>1, <2>2, <2>3, <2>4, <2>6 DEF Place, AtBundle
<1> DEFINE Same == /\ setting' = setting /\ items' = items /\ announced' = announced
<1>4. ASSUME Same, pending' = pending, service' = service \/ (pending # <<>> /\ Head(pending) # <<>>)
      PROVE  Place'
  BY <1>4 DEF Place, AtBundle
<1>5. ASSUME Same, pending # <<>>, pending' = Tail(pending), service' = 0
      PROVE  Place'
  <2>1. pending \in Seq(Seq(Description)) /\ pending' \in Seq(Seq(Description))
        /\ Suffix(Tail(pending), items)
    BY <1>5 DEF Place
  <2>2. pending' # <<>> =>
          Len(pending') =< Len(items) /\ Suffix(Tail(pending'), items)
          /\ Suffix(Head(pending'), items[Len(items) - Len(Tail(pending'))])
    BY <1>1, <1>2, <1>5, <2>1
  <2> QED  BY <1>5, <2>1, <2>2 DEF Place, AtBundle
<1>6. ASSUME EndUsd PROVE Place'
  <2>1. pending \in Seq(Seq(Description)) /\ pending # <<>> /\ Head(pending) # <<>>
        /\ pending' = <<Tail(Head(pending))>> \o Tail(pending)
        /\ setting' = setting /\ items' = items /\ announced' = announced /\ service' = 0
    BY <1>6 DEF EndUsd, Place
  <2>2. Head(pending) \in Seq(Description) /\ Tail(Head(pending)) \in Seq(Description)
        /\ Tail(pending) \in Seq(Seq(Description))
    BY <2>1
  <2>3. /\ pending' \in Seq(Seq(Description)) /\ pending' # <<>> /\ Tail(pending') = Tail(pending)
        /\ Head(pending') = Tail(Head(pending)) /\ Len(pending') = Len(pending)
    <3> DEFINE h == Tail(Head(pending))
               t == Tail(pending)
    <3>1. h \in Seq(Description) /\ t \in Seq(Seq(Description)) /\ pending' = <<h>> \o t
          /\ Len(t) = Len(pending) - 1 /\ Len(pending) \in Nat
      BY <2>1, <2>2
    <3> HIDE DEF h, t
    <3>2. /\ <<h>> \o t \in Seq(Seq(Description)) /\ Len(<<h>> \o t) = Len(t) + 1
          /\ Head(<<h>> \o t) = h /\ Tail(<<h>> \o t) = t
      BY <3>1
    <3> QED  BY <3>1, <3>2 DEF h, t
  <2>4. AtBundle \in 1 .. Len(items) /\ items[AtBundle] \in Seq(Description)
    BY <1>1, <2>1, UsdAnnounced
  <2>5. Suffix(Tail(Head(pending)), items[AtBundle])
    <3> DEFINE h == Head(pending)
               s == items[AtBundle]
    <3>1. h \in Seq(Description) /\ s \in Seq(Description) /\ h # <<>> /\ Suffix(h, s)
      BY <2>1, <2>2, <2>4 DEF Place
    <3> HIDE DEF h, s
    <3>2. Suffix(Tail(h), s)
      BY <3>1, SuffixTail
    <3> QED  BY <3>2 DEF h, s
  <2> QED  BY <2>1, <2>3, <2>5 DEF Place, AtBundle
<1>7. ASSUME UNCHANGED vars PROVE Place'
  BY <1>4, <1>7 DEF vars
<1>8. BeginUsd => Place'
  BY <1>4 DEF BeginUsd, Idle
<1>9. CreateStream => Place'
  BY <1>4 DEF CreateStream
<1>10. StartStream => Place'
  BY <1>4 DEF StartStream
<1>11. DropStream => Place'
  BY <1>4 DEF DropStream
<1>12. UsdThrows => Place'
  BY <1>5 DEF UsdThrows, Place
<1>13. EndBundle => Place'
  BY <1>5 DEF EndBundle, Idle
<1>14. ThreadReady => Place'
  BY <1>4 DEF ThreadReady
<1> QED  BY <1>3, <1>6, <1>7, <1>8, <1>9, <1>10, <1>11, <1>12, <1>13, <1>14 DEF Next

------------------------------------------------------------------------------
(* What the setup of a USD still has to do, and which streams it refers to. *)

Stream == [n : Nat, of : Pattern]

Setup ==
  IF service = 0 THEN setup = <<>> /\ DOMAIN made = {}
  ELSE /\ DOMAIN made \subseteq DOMAIN Usd.streams
       /\ \A i \in DOMAIN made : made[i] \in Stream /\ made[i].of = Usd.streams[i]
       /\ setting.format = "default" =>
            /\ DefaultAhead(setup, Usd)
            /\ DOMAIN made = IF setup = <<>> \/ setup[1][1] = "create" THEN {} ELSE {setup[1][2]}
       /\ setting.format # "default" => MethodAhead(setup, Usd, DOMAIN made, Usd.methods)

Streams ==
  /\ born \in Nat
  /\ content \in Seq(SUBSET Stream)
  /\ service \in 0 .. Len(content) /\ registered \in [ServiceId -> 0 .. Len(content)]
  /\ DOMAIN thread = Held(Kept(registered, service), content, made)
  /\ thread \in [DOMAIN thread -> {"idle", "starting", "receiving"}]
  /\ \A s \in DOMAIN thread : s \in Stream /\ s.n \in 1 .. born
  /\ Range(cached) \subseteq Owner
  /\ fate \in {"running", "unjoined", "restarted"}

(* Where a start may find a stream that has its thread.                    *)
Starts ==
  service # 0 =>
    /\ setting.format = "default" =>
         (setup # <<>> /\ setup[1][1] = "start" => thread[made[setup[1][2]]] = "idle")
    /\ setting.format # "default" =>
         \A i \in DOMAIN made : thread[made[i]] # "idle" =>
           \A s \in content[service] : s.of.path = made[i].of.path => s \in Range(made)

(* A map's assignment.                                                     *)
LEMMA Inserted ==
  ASSUME NEW f, NEW x, NEW v
  PROVE  /\ DOMAIN With(f, x, v) = DOMAIN f \cup {x}
         /\ With(f, x, v)[x] = v
         /\ \A y \in DOMAIN f : y # x => With(f, x, v)[y] = f[y]
         /\ Range(With(f, x, v)) \subseteq Range(f) \cup {v}
BY DEF With, Range

(* One more element.                                                       *)
LEMMA Appended ==
  ASSUME NEW S, NEW s \in Seq(S), NEW e \in S
  PROVE  /\ Append(s, e) \in Seq(S) /\ Len(Append(s, e)) = Len(s) + 1 /\ Len(s) \in Nat
         /\ \A k \in 1 .. Len(s) : Append(s, e)[k] = s[k]
         /\ Append(s, e)[Len(s) + 1] = e
OBVIOUS

(* What the first step of a setup is.                                      *)
LEMMA FirstStep ==
  ASSUME ConstantsAssumption, Place, Setup, service # 0, setup # <<>>
  PROVE  /\ Position \in DOMAIN Usd.streams /\ Usd.streams[Position] \in Pattern
         /\ setup[1] = Head(setup) /\ setup[1] = <<setup[1][1], setup[1][2]>>
         /\ Position = setup[1][2]
         /\ Step("start") => Position \in DOMAIN made
         /\ Step("drop") => Position \in DOMAIN made /\ setting.format = "default"
<1>1. Usd \in Description
  BY UsdAnnounced DEF Place
<1>2. setup \in Seq(StepsOf(Usd))
  BY DEF Setup, DefaultAhead, MethodAhead
<1>3. setup[1] \in StepsOf(Usd) /\ Head(setup) = setup[1]
  BY <1>2, TailParts
<1>4. /\ setup[1] = <<setup[1][1], setup[1][2]>> /\ setup[1][2] \in DOMAIN Usd.streams
      /\ Position = setup[1][2]
  BY <1>3, StepParts DEF Position
<1>5. \A i \in DOMAIN Usd.streams : Usd.streams[i] \in Pattern
  <2>1. Usd.streams \in Seq(Pattern)
    BY <1>1 DEF Description
  <2> QED  BY <2>1
<1>6. setting.format # "default" =>
        /\ setup[1][1] = "start" => setup[1][2] \in DOMAIN made
        /\ setup[1][1] \in {"create", "start"}
  BY MethodTail DEF Setup
<1>7. Step("start") \/ Step("drop") => setup[1][1] # "create"
  BY <1>3 DEF Step
<1>8. setting.format = "default" /\ setup[1][1] # "create" => setup[1][2] \in DOMAIN made
  BY DEF Setup
<1> QED  BY <1>3, <1>4, <1>5, <1>6, <1>7, <1>8 DEF Step

(* Every step of the program leaves a setup that has its streams: one that *)
(* is started or dropped has been created.                                 *)
LEMMA SetupStep ==
  ASSUME ConstantsAssumption, Place, Setup, Streams, [Next]_vars
  PROVE  Setup'
<1>1. ASSUME service' = 0, setup' = <<>>, DOMAIN made' = {}
      PROVE  Setup'
  BY <1>1 DEF Setup
<1>2. ASSUME service' = service, setup' = setup, made' = made, setting' = setting,
             pending' = pending \/ service = 0
      PROVE  Setup'
  <2>1. CASE service = 0
    BY <1>2, <2>1 DEF Setup
  <2>2. CASE service # 0
    <3>1. Usd' = Usd
      BY <1>2, <2>2 DEF Usd
    <3> QED  BY <1>2, <2>2, <3>1 DEF Setup
  <2> QED  BY <2>1, <2>2
<1>3. ASSUME NEW bundle \in setting.bundles, Receive(bundle) PROVE Setup'
  <2>1. service = 0
    BY <1>3 DEF Receive, Idle, Place
  <2> QED  BY <1>2, <1>3, <2>1 DEF Receive
<1>4. ASSUME BeginUsd PROVE Setup'
  <2>1. /\ Usd' = Usd /\ made' = made /\ setup' = Plan(Usd) /\ setting' = setting
        /\ DOMAIN made = {}
    BY <1>4 DEF BeginUsd, Usd, Setup
  <2>2. Usd \in Description /\ \A i \in DOMAIN Usd.streams : Usd.streams[i].method \in 1 .. Usd.methods
    BY <1>4, UsdAnnounced DEF BeginUsd, Idle
  <2>3. setting.format = "default" =>
          DefaultAhead(setup', Usd) /\ (setup' = <<>> \/ setup'[1][1] = "create")
    BY <2>1, <2>2, DefaultPlan DEF Plan
  <2>4. setting.format # "default" => MethodAhead(setup', Usd, {}, Usd.methods)
    BY <2>1, <2>2, MethodPlan DEF Plan
  <2>5. DOMAIN made' = {} /\ setup' = Plan(Usd)
    BY <2>1
  <2>6. service' # 0
    <3>1. content \in Seq(SUBSET Stream)
      BY DEF Streams
    <3>2. Len(content) \in Nat
      BY <3>1
    <3>3. service' = IF registered[Usd.id] # 0 THEN registered[Usd.id] ELSE Len(content) + 1
      BY <1>4 DEF BeginUsd
    <3> QED  BY <3>2, <3>3
  <2> QED  BY <2>1, <2>3, <2>4, <2>5, <2>6 DEF Setup
<1>5. ASSUME service # 0, setup # <<>>, service' = service, setup' = Tail(setup),
             pending' = pending, setting' = setting
      PROVE  /\ Usd' = Usd
             /\ setting.format = "default" =>
                  /\ DefaultAhead(setup', Usd)
                  /\ setup[1][1] = "create" =>
                       /\ setup' # <<>> /\ setup'[1][1] # "create" /\ setup'[1][2] = setup[1][2]
                  /\ setup[1][1] = "start" =>
                       /\ setup' # <<>> /\ setup'[1][1] # "create" /\ setup'[1][2] = setup[1][2]
                  /\ setup[1][1] = "drop" => setup' = <<>> \/ setup'[1][1] = "create"
             /\ setting.format # "default" =>
                  MethodAhead(setup', Usd, IF setup[1][1] = "create"
                                           THEN DOMAIN made \cup {setup[1][2]} ELSE DOMAIN made,
                              Usd.methods)
  <2>1. Usd' = Usd
    BY <1>5 DEF Usd
  <2>2. setting.format = "default" => DefaultAhead(setup, Usd)
    BY <1>5 DEF Setup
  <2>3. setting.format # "default" => MethodAhead(setup, Usd, DOMAIN made, Usd.methods)
    BY <1>5 DEF Setup
  <2>4. setting.format # "default" =>
                  MethodAhead(setup', Usd, IF setup[1][1] = "create"
                                           THEN DOMAIN made \cup {setup[1][2]} ELSE DOMAIN made,
                              Usd.methods)
    BY <1>5, <2>3, MethodTail
  <2>5. setting.format = "default" =>
         /\ DefaultAhead(setup', Usd)
         /\ setup[1][1] = "create" =>
              /\ setup' # <<>>
              /\ setup'[1] = IF HasSource(Usd.streams[setup[1][2]]) THEN <<"start", setup[1][2]>>
                              ELSE <<"drop", setup[1][2]>>
         /\ setup[1][1] = "start" => setup' # <<>> /\ setup'[1] = <<"drop", setup[1][2]>>
         /\ setup[1][1] = "drop" => setup' = <<>> \/ setup'[1][1] = "create"
    BY <1>5, <2>2, DefaultTail
  <2> QED  BY <2>1, <2>4, <2>5
<1>6. ASSUME CreateStream PROVE Setup'
  <2> DEFINE s == [n |-> born + 1, of |-> Usd.streams[Position]]
  <2>1. /\ service # 0 /\ setup # <<>> /\ service' = service /\ setup' = Tail(setup)
        /\ pending' = pending /\ setting' = setting /\ made' = With(made, Position, s)
        /\ Head(setup)[1] = "create"
    BY <1>6 DEF CreateStream, Step
  <2>2. Position \in DOMAIN Usd.streams /\ setup[1] = Head(setup) /\ Position = setup[1][2]
        /\ Usd.streams[Position] \in Pattern
    BY <2>1, FirstStep
  <2>3. s \in Stream /\ s.of = Usd.streams[Position]
    BY <2>2 DEF Stream, Streams
  <2> HIDE DEF s
  <2>4. /\ DOMAIN made' = DOMAIN made \cup {Position} /\ made'[Position] = s
        /\ \A i \in DOMAIN made : i # Position => made'[i] = made[i]
    BY <2>1 DEF With
  <2>5. \A i \in DOMAIN made : made[i] \in Stream /\ made[i].of = Usd.streams[i]
    BY <2>1 DEF Setup
  <2>6. \A i \in DOMAIN made' : made'[i] \in Stream /\ made'[i].of = Usd.streams[i]
    BY <2>3, <2>4, <2>5
  <2>7. DOMAIN made' \subseteq DOMAIN Usd.streams
    BY <2>1, <2>2, <2>4 DEF Setup
  <2>8. setting.format = "default" => DOMAIN made = {}
    BY <2>1, <2>2 DEF Setup
  <2>9. Usd' = Usd
    BY <1>5, <2>1
  <2>10. setting.format = "default" =>
           /\ DefaultAhead(setup', Usd)
           /\ setup' # <<>> /\ setup'[1][1] # "create" /\ setup'[1][2] = Position
    BY <1>5, <2>1, <2>2
  <2>11. setting.format # "default" => MethodAhead(setup', Usd, DOMAIN made', Usd.methods)
    BY <1>5, <2>1, <2>2, <2>4
  <2> QED  BY <2>1, <2>4, <2>6, <2>7, <2>8, <2>9, <2>10, <2>11 DEF Setup
<1>7. ASSUME StartStream PROVE Setup'
  <2>1. /\ service # 0 /\ setup # <<>> /\ service' = service /\ setup' = Tail(setup)
        /\ pending' = pending /\ setting' = setting /\ made' = made
        /\ Head(setup)[1] = "start"
    BY <1>7 DEF StartStream, Step
  <2>2. setup[1] = Head(setup) /\ setup[1][1] = "start"
    BY <2>1, FirstStep
  <2>3. /\ Usd' = Usd
        /\ setting.format = "default" =>
             /\ DefaultAhead(setup', Usd)
             /\ setup' # <<>> /\ setup'[1][1] # "create" /\ setup'[1][2] = setup[1][2]
        /\ setting.format # "default" => MethodAhead(setup', Usd, DOMAIN made, Usd.methods)
    BY <1>5, <2>1, <2>2
  <2>4. setting.format = "default" => DOMAIN made = {setup[1][2]}
    BY <2>1, <2>2 DEF Setup
  <2> QED  BY <2>1, <2>3, <2>4 DEF Setup
<1>8. ASSUME DropStream PROVE Setup'
  <2>1. /\ service # 0 /\ setup # <<>> /\ service' = service /\ setup' = Tail(setup)
        /\ pending' = pending /\ setting' = setting
        /\ made' = Restrict(made, DOMAIN made \ {Position})
        /\ Head(setup)[1] = "drop" /\ Step("drop")
    BY <1>8 DEF DropStream, Step
  <2>2. /\ setup[1] = Head(setup) /\ setup[1][1] = "drop" /\ setting.format = "default"
        /\ Position = setup[1][2]
    BY <2>1, FirstStep
  <2>3. DOMAIN made = {Position}
    BY <2>1, <2>2 DEF Setup
  <2>4. DOMAIN made' = {}
    BY <2>1, <2>3 DEF Restrict
  <2>5. Usd' = Usd /\ DefaultAhead(setup', Usd) /\ (setup' = <<>> \/ setup'[1][1] = "create")
    BY <1>5, <2>1, <2>2
  <2> QED  BY <2>1, <2>2, <2>4, <2>5 DEF Setup
<1>9. EndUsd => Setup'
  BY <1>1 DEF EndUsd
<1>10. UsdThrows => Setup'
  BY <1>1 DEF UsdThrows
<1>11. EndBundle => Setup'
  BY <1>2 DEF EndBundle
<1>12. ThreadReady => Setup'
  BY <1>2 DEF ThreadReady
<1>13. UNCHANGED vars => Setup'
  BY <1>2 DEF vars
<1> QED  BY <1>3, <1>4, <1>6, <1>7, <1>8, <1>9, <1>10, <1>11, <1>12, <1>13 DEF Next

------------------------------------------------------------------------------
(* Who is kept.                                                            *)

(* The services that are kept: registered ones and the one in use.         *)
LEMMA KeptParts ==
  ASSUME NEW reg, NEW using
  PROVE  \A n : n \in Kept(reg, using) <=> n # 0 /\ (n = using \/ \E id \in DOMAIN reg : n = reg[id])
BY DEF Kept, Range

(* The streams that are held: those of the services kept, and those the    *)
(* setup refers to.                                                        *)
LEMMA HeldParts ==
  ASSUME NEW kept, NEW streams, NEW local
  PROVE  \A s : s \in Held(kept, streams, local) <=>
                  \/ \E n \in kept : s \in streams[n]
                  \/ \E i \in DOMAIN local : s = local[i]
<1> TAKE s
<1>1. s \in Range(local) <=> \E i \in DOMAIN local : s = local[i]
  BY DEF Range
<1> DEFINE U == UNION {streams[n] : n \in kept}
<1>2. s \in U <=> \E n \in kept : s \in streams[n]
  OBVIOUS
<1>3. Held(kept, streams, local) = U \cup Range(local)
  BY DEF Held
<1> HIDE DEF U
<1> QED  BY <1>1, <1>2, <1>3

States == {"idle", "starting", "receiving"}

(* Release destroys exactly the streams that are not held.                 *)
LEMMA ReleaseKeeps ==
  ASSUME NEW threads, NEW kept, NEW streams, NEW local,
         Release(threads, kept, streams, local),
         Held(kept, streams, local) \subseteq DOMAIN threads
  PROVE  /\ DOMAIN thread' = Held(kept, streams, local)
         /\ thread' = [s \in DOMAIN thread' |-> threads[s]]
         /\ fate' = fate \/ fate' = "unjoined"
         /\ fate' # fate =>
              \E s \in DOMAIN threads \ Held(kept, streams, local) : threads[s] = "starting"
         /\ late' \subseteq late \cup (DOMAIN threads \ Held(kept, streams, local))
<1> DEFINE held == Held(kept, streams, local)
<1>1. DOMAIN threads \ (DOMAIN threads \ held) = held
  OBVIOUS
<1>2. thread' = [s \in held |-> threads[s]]
  BY <1>1 DEF Release, Restrict
<1> QED  BY <1>2 DEF Release, Unjoined

(* After a release the live streams are those held.                        *)
LEMMA Released ==
  ASSUME Streams, NEW reg \in [ServiceId -> 0 .. Len(content)], NEW using \in 0 .. Len(content),
         NEW streams \in Seq(SUBSET Stream), Len(streams) = Len(content),
         NEW local, NEW threads \in [DOMAIN thread -> States],
         Held(Kept(reg, using), streams, local) \subseteq DOMAIN thread,
         Release(threads, Kept(reg, using), streams, local),
         registered' = reg, service' = using, content' = streams, made' = local,
         cached' = cached, born' = born
  PROVE  Streams'
<1>1. /\ DOMAIN thread' = Held(Kept(reg, using), streams, local)
      /\ thread' = [s \in DOMAIN thread' |-> threads[s]]
      /\ fate' = fate \/ fate' = "unjoined"
  BY ReleaseKeeps
<1>2. thread' \in [DOMAIN thread' -> {"idle", "starting", "receiving"}]
  BY <1>1 DEF States
<1>3. \A s \in DOMAIN thread' : s \in Stream /\ s.n \in 1 .. born'
  BY <1>1 DEF Streams
<1>4. content \in Seq(SUBSET Stream)
  BY DEF Streams
<1>5. DOMAIN content' = DOMAIN content
  BY <1>4
<1>6. Owner' = Owner
  BY <1>5 DEF Owner
<1>7. Range(cached') \subseteq Owner'
  BY <1>6 DEF Streams
<1>8. fate' \in {"running", "unjoined", "restarted"} /\ born' \in Nat
  BY <1>1 DEF Streams
<1> QED  BY <1>1, <1>2, <1>3, <1>7, <1>8 DEF Streams

(* What may be in the cache stays something that may be.                   *)
LEMMA OwnerGrows ==
  ASSUME Streams, born' \in Nat, born =< born', Len(content') \in Nat, Len(content) =< Len(content'),
         content' \in Seq(SUBSET Stream)
  PROVE  Owner \subseteq Owner'
<1>1. content \in Seq(SUBSET Stream) /\ born \in Nat
  BY DEF Streams
<1>2. DOMAIN content = 1 .. Len(content) /\ Len(content) \in Nat /\ DOMAIN content' = 1 .. Len(content')
  BY <1>1
<1>3. DOMAIN content \subseteq DOMAIN content' /\ 1 .. born \subseteq 1 .. born'
  BY <1>1, <1>2
<1> QED  BY <1>3 DEF Owner

(* Finding or creating the service of a USD.                               *)
LEMMA BeginStreams ==
  ASSUME ConstantsAssumption, Place, Setup, Streams, BeginUsd
  PROVE  /\ Streams'
         /\ service' # 0 /\ service' \in 1 .. Len(content')
         /\ \A n \in 1 .. Len(content) : content'[n] = content[n] /\ n \in 1 .. Len(content')
         /\ content' = content \/ (service' = Len(content) + 1 /\ content'[service'] = {})
<1> DEFINE old == registered[Usd.id] # 0
<1>1. /\ content \in Seq(SUBSET Stream) /\ Len(content) \in Nat
      /\ registered \in [ServiceId -> 0 .. Len(content)] /\ service = 0
      /\ DOMAIN made = {}
  <2>1. content \in Seq(SUBSET Stream)
    BY DEF Streams
  <2> QED  BY <2>1 DEF Streams, BeginUsd, Setup
<1>2. Usd \in Description /\ Usd.id \in ServiceId
  <2>1. Usd \in Description
    BY UsdAnnounced DEF BeginUsd, Idle
  <2> QED  BY <2>1 DEF Description
<1>3. old => service' = registered[Usd.id] /\ content' = content
  BY DEF BeginUsd
<1>4. ~old => service' = Len(content) + 1 /\ content' = Append(content, {})
  BY DEF BeginUsd
<1>5. ~old => /\ content' \in Seq(SUBSET Stream) /\ Len(content') = Len(content) + 1
              /\ \A n \in 1 .. Len(content) : content'[n] = content[n]
              /\ content'[Len(content) + 1] = {}
  <2>1. {} \in SUBSET Stream
    OBVIOUS
  <2>2. /\ Append(content, {}) \in Seq(SUBSET Stream)
        /\ Len(Append(content, {})) = Len(content) + 1
        /\ \A n \in 1 .. Len(content) : Append(content, {})[n] = content[n]
        /\ Append(content, {})[Len(content) + 1] = {}
    BY <1>1, <2>1, Appended
  <2> QED  BY <1>4, <2>2
<1>6. /\ content' \in Seq(SUBSET Stream) /\ Len(content') \in Nat /\ Len(content) =< Len(content')
      /\ service' \in 1 .. Len(content') /\ service' # 0
      /\ \A n \in 1 .. Len(content) : content'[n] = content[n] /\ n \in 1 .. Len(content')
      /\ content' = content \/ (service' = Len(content) + 1 /\ content'[service'] = {})
  <2>1. CASE old
    <3>1. registered[Usd.id] \in 0 .. Len(content)
      BY <1>1, <1>2
    <3> QED  BY <1>1, <1>3, <2>1, <3>1
  <2>2. CASE ~old
    BY <1>1, <1>4, <1>5, <2>2
  <2> QED  BY <2>1, <2>2
<1>7. registered' = registered /\ thread' = thread /\ made' = made /\ born' = born /\ fate' = fate
  BY DEF BeginUsd
<1>8. registered' \in [ServiceId -> 0 .. Len(content')] /\ service' \in 0 .. Len(content')
  <2>1. registered \in [ServiceId -> 0 .. Len(content')]
    BY <1>1, <1>6
  <2> QED  BY <1>6, <1>7, <2>1
<1>9. Held(Kept(registered', service'), content', made') = Held(Kept(registered, service), content, made)
  <2>1. \A s : s \in Held(Kept(registered', service'), content', made') <=>
               \E n \in Kept(registered', service') : s \in content'[n]
    BY <1>1, <1>7, HeldParts
  <2>2. \A s : s \in Held(Kept(registered, service), content, made) <=>
               \E n \in Kept(registered, service) : s \in content[n]
    BY <1>1, HeldParts
  <2>3. \A n : n \in Kept(registered, service) <=> n # 0 /\ \E id \in ServiceId : n = registered[id]
    BY <1>1, KeptParts
  <2>4. \A n : n \in Kept(registered', service') <=>
               n # 0 /\ (n = service' \/ \E id \in ServiceId : n = registered[id])
    BY <1>1, <1>7, KeptParts
  <2>5. \A n \in Kept(registered, service) : n \in Kept(registered', service') /\ content'[n] = content[n]
    <3>1. \A n \in Kept(registered, service) : n \in 1 .. Len(content)
      BY <1>1, <2>3
    <3> QED  BY <1>6, <2>3, <2>4, <3>1
  <2>6. \A n \in Kept(registered', service') : content'[n] # {} => n \in Kept(registered, service)
    BY <1>2, <1>3, <1>4, <1>6, <2>3, <2>4, <1>5
  <2>7. \A s : s \in Held(Kept(registered', service'), content', made') <=>
               s \in Held(Kept(registered, service), content, made)
    BY <2>1, <2>2, <2>5, <2>6
  <2> QED  BY <2>7
<1>10. Range(cached') \subseteq Owner'
  <2>1. Range(cached) \subseteq Owner'
    BY <1>6, <1>7, OwnerGrows DEF Streams
  <2>2. [is |-> "service", n |-> service'] \in Owner'
    BY <1>6 DEF Owner
  <2>3. Range(cached') \subseteq Range(cached) \cup {[is |-> "service", n |-> service']}
    <3>1. cached' = cached \/ cached' = With(cached, Usd.manifest, [is |-> "service", n |-> service'])
      BY DEF BeginUsd, CachedBy
    <3> QED  BY <3>1 DEF With, Range
  <2> QED  BY <2>1, <2>2, <2>3
<1> QED  BY <1>6, <1>7, <1>8, <1>9, <1>10 DEF Streams

------------------------------------------------------------------------------
(* The streams, step by step.                                              *)

(* A stream that is created is new.                                        *)
LEMMA CreateStreams ==
  ASSUME ConstantsAssumption, Place, Setup, Streams, CreateStream,
         NEW s, s = [n |-> born + 1, of |-> Usd.streams[Position]]
  PROVE  /\ Streams'
         /\ s \in Stream /\ s \notin DOMAIN thread /\ Position \notin DOMAIN made
         /\ DOMAIN made' = DOMAIN made \cup {Position} /\ made'[Position] = s
         /\ \A i \in DOMAIN made : made'[i] = made[i]
         /\ DOMAIN thread' = DOMAIN thread \cup {s} /\ thread'[s] = "idle"
         /\ \A old \in DOMAIN thread : thread'[old] = thread[old]
<1>1. /\ service # 0 /\ setup # <<>> /\ service' = service /\ content' = content
      /\ registered' = registered /\ made' = With(made, Position, s)
      /\ thread' = With(thread, s, "idle") /\ born' = born + 1 /\ fate' = fate
      /\ cached' = cached \/ cached' = With(cached, s.of.path, [is |-> "stream", n |-> s.n])
      /\ Head(setup)[1] = "create"
  BY DEF CreateStream, Step, CachedBy
<1>2. Position \in DOMAIN Usd.streams /\ Usd.streams[Position] \in Pattern
      /\ setup[1] = Head(setup) /\ Position = setup[1][2]
  BY <1>1, FirstStep
<1>3. Position \notin DOMAIN made
  <2>1. CASE setting.format = "default"
    BY <1>1, <1>2, <2>1 DEF Setup
  <2>2. CASE setting.format # "default"
    <3>1. MethodAhead(setup, Usd, DOMAIN made, Usd.methods)
      BY <1>1, <2>2 DEF Setup
    <3> QED  BY <1>1, <1>2, <3>1, MethodTail
  <2> QED  BY <2>1, <2>2
<1>4. /\ born \in Nat /\ content \in Seq(SUBSET Stream) /\ Len(content) \in Nat
      /\ \A old \in DOMAIN thread : old \in Stream /\ old.n \in 1 .. born
  <2>1. content \in Seq(SUBSET Stream)
    BY DEF Streams
  <2> QED  BY <2>1 DEF Streams
<1>5. s \in Stream /\ s.n = born + 1 /\ s.n \in 1 .. born'
  BY <1>1, <1>2, <1>4 DEF Stream
<1>6. s \notin DOMAIN thread
  BY <1>4, <1>5
<1>7. /\ DOMAIN made' = DOMAIN made \cup {Position} /\ made'[Position] = s
      /\ \A i \in DOMAIN made : made'[i] = made[i]
  BY <1>1, <1>3 DEF With
<1>8. /\ DOMAIN thread' = DOMAIN thread \cup {s} /\ thread'[s] = "idle"
      /\ \A old \in DOMAIN thread : thread'[old] = thread[old]
  BY <1>1, <1>6 DEF With
<1>9. thread' \in [DOMAIN thread' -> {"idle", "starting", "receiving"}]
  <2>1. thread \in [DOMAIN thread -> {"idle", "starting", "receiving"}]
    BY DEF Streams
  <2>2. \A x \in DOMAIN thread' : thread'[x] \in {"idle", "starting", "receiving"}
    BY <1>8, <2>1
  <2>3. thread' = [x \in DOMAIN thread' |-> thread'[x]]
    BY <1>1 DEF With
  <2> QED  BY <2>2, <2>3
<1>10. DOMAIN thread' = Held(Kept(registered', service'), content', made')
  <2> DEFINE kept == Kept(registered, service)
  <2>1. Kept(registered', service') = kept
    BY <1>1
  <2> HIDE DEF kept
  <2>2. \A x : x \in Held(kept, content', made') <=>
               (\E n \in kept : x \in content[n]) \/ \E i \in DOMAIN made' : x = made'[i]
    BY <1>1, HeldParts
  <2>3. \A x : x \in Held(kept, content, made) <=>
               (\E n \in kept : x \in content[n]) \/ \E i \in DOMAIN made : x = made[i]
    BY HeldParts
  <2>4. \A x : (\E i \in DOMAIN made' : x = made'[i]) <=> x = s \/ \E i \in DOMAIN made : x = made[i]
    BY <1>3, <1>7
  <2>5. DOMAIN thread = Held(kept, content, made)
    BY DEF Streams, kept
  <2>6. \A x : x \in Held(kept, content', made') <=> x \in DOMAIN thread'
    <3> TAKE x
    <3>1. x \in DOMAIN thread' <=> x \in DOMAIN thread \/ x = s
      BY <1>8
    <3> QED  BY <2>2, <2>3, <2>4, <2>5, <3>1
  <2>7. Held(kept, content', made') = DOMAIN thread'
    BY <2>6
  <2> QED  BY <2>1, <2>7
<1>11. Range(cached') \subseteq Owner'
  <2>1. Range(cached) \subseteq Owner'
    BY <1>1, <1>4, OwnerGrows DEF Streams
  <2>2. [is |-> "stream", n |-> s.n] \in Owner'
    BY <1>5 DEF Owner
  <2>3. Range(cached') \subseteq Range(cached) \cup {[is |-> "stream", n |-> s.n]}
    BY <1>1 DEF With, Range
  <2> QED  BY <2>1, <2>2, <2>3
<1>12. \A x \in DOMAIN thread' : x \in Stream /\ x.n \in 1 .. born'
  BY <1>1, <1>4, <1>5, <1>8
<1>13. Streams'
  BY <1>1, <1>4, <1>9, <1>10, <1>11, <1>12 DEF Streams
<1> QED  BY <1>3, <1>5, <1>6, <1>7, <1>8, <1>13

(* What a start puts in place of what.                                     *)
Current == made[Position]
Replacing == [content EXCEPT ![service] = Put(@, Current)]
Starting == [thread EXCEPT ![Current] = IF Current.of.flute THEN "starting" ELSE @]

(* A start takes streams of one path out of one service.                   *)
LEMMA StartParts ==
  ASSUME ConstantsAssumption, Place, Setup, Streams, StartStream
  PROVE  /\ service \in 1 .. Len(content) /\ service \in Kept(registered, service)
         /\ Position \in DOMAIN made /\ Current \in DOMAIN thread /\ Current \in Stream
         /\ Current.of = Usd.streams[Position]
         /\ Replacing \in Seq(SUBSET Stream) /\ Len(Replacing) = Len(content)
         /\ Replacing[service] = {old \in content[service] : old.of.path # Current.of.path} \cup {Current}
         /\ \A n \in 1 .. Len(content) : n # service => Replacing[n] = content[n]
         /\ Starting \in [DOMAIN thread -> States]
         /\ \A old \in DOMAIN thread : old # Current => Starting[old] = thread[old]
         /\ Starting[Current] = IF Current.of.flute THEN "starting" ELSE thread[Current]
         /\ Current \in Held(Kept(registered, service), Replacing, made)
         /\ Held(Kept(registered, service), Replacing, made) \subseteq DOMAIN thread
<1> DEFINE kept == Kept(registered, service)
<1>1. Step("start") /\ service # 0 /\ setup # <<>>
  BY DEF StartStream, Step
<1>2. Position \in DOMAIN made
  BY <1>1, FirstStep
<1>3. Current \in Stream /\ Current.of = Usd.streams[Position]
  BY <1>1, <1>2 DEF Setup, Current
<1>4. content \in Seq(SUBSET Stream) /\ service \in 0 .. Len(content)
  BY DEF Streams
<1>5. service \in 1 .. Len(content) /\ DOMAIN content = 1 .. Len(content) /\ Len(content) \in Nat
  BY <1>1, <1>4
<1>6. Put(content[service], Current) = {old \in content[service] : old.of.path # Current.of.path} \cup {Current}
  BY DEF Put
<1>7. Put(content[service], Current) \in SUBSET Stream
  <2>1. content[service] \in SUBSET Stream
    BY <1>4, <1>5
  <2> QED  BY <1>3, <1>6, <2>1
<1>8. Replacing \in Seq(SUBSET Stream) /\ Len(Replacing) = Len(content)
      /\ Replacing[service] = Put(content[service], Current)
      /\ \A n \in 1 .. Len(content) : n # service => Replacing[n] = content[n]
  BY <1>4, <1>5, <1>7 DEF Replacing
<1>9. service \in kept
  BY <1>1, KeptParts
<1>A. DOMAIN thread = Held(kept, content, made)
  BY DEF Streams
<1> HIDE DEF kept
<1>10. \A x : x \in DOMAIN thread <=>
              (\E n \in kept : x \in content[n]) \/ \E i \in DOMAIN made : x = made[i]
  BY <1>A, HeldParts
<1>11. Current \in DOMAIN thread
  BY <1>2, <1>10 DEF Current
<1>12. \A x : x \in Held(kept, Replacing, made) <=>
              (\E n \in kept : x \in Replacing[n]) \/ \E i \in DOMAIN made : x = made[i]
  BY HeldParts
<1>13. \A n \in kept : n \in 1 .. Len(content)
  <2>1. registered \in [ServiceId -> 0 .. Len(content)]
    BY DEF Streams
  <2> USE DEF kept
  <2>2. \A n \in kept : n # 0 /\ (n = service \/ \E id \in ServiceId : n = registered[id])
    BY <2>1, KeptParts
  <2> QED  BY <1>5, <2>1, <2>2
<1>14. ASSUME NEW n \in kept, NEW x \in Replacing[n] PROVE x \in DOMAIN thread
  <2>1. CASE n = service
    <3>1. x = Current \/ x \in content[service]
      BY <1>6, <1>8, <1>14, <2>1
    <3> QED  BY <1>9, <1>10, <1>11, <3>1
  <2>2. CASE n # service
    BY <1>8, <1>10, <1>13, <1>14, <2>2
  <2> QED  BY <2>1, <2>2
<1>15. Held(kept, Replacing, made) \subseteq DOMAIN thread /\ Current \in Held(kept, Replacing, made)
  BY <1>2, <1>10, <1>12, <1>14 DEF Current
<1>16. thread \in [DOMAIN thread -> States]
  BY DEF Streams, States
<1>17. /\ Starting \in [DOMAIN thread -> States]
       /\ \A old \in DOMAIN thread : old # Current => Starting[old] = thread[old]
       /\ Starting[Current] = IF Current.of.flute THEN "starting" ELSE thread[Current]
  <2>1. (IF Current.of.flute THEN "starting" ELSE thread[Current]) \in States
    BY <1>11, <1>16 DEF States
  <2> QED  BY <1>11, <1>16, <2>1 DEF Starting
<1> QED  BY <1>2, <1>3, <1>5, <1>6, <1>8, <1>9, <1>11, <1>15, <1>17 DEF kept

(* A start leaves the live streams those held.                             *)
LEMMA StartStreams ==
  ASSUME ConstantsAssumption, Place, Setup, Streams, Starts, StartStream
  PROVE  Streams'
<1> DEFINE kept == Kept(registered, service)
<1>1. /\ content' = Replacing /\ registered' = registered /\ service' = service /\ made' = made
      /\ cached' = cached /\ born' = born
      /\ Step("start") /\ service # 0 /\ setup # <<>>
  BY DEF StartStream, Step, Replacing, Current
<1>2. /\ service \in kept /\ Position \in DOMAIN made
      /\ Replacing \in Seq(SUBSET Stream) /\ Len(Replacing) = Len(content)
      /\ Replacing[service] = {old \in content[service] : old.of.path # Current.of.path} \cup {Current}
      /\ \A n \in 1 .. Len(content) : n # service => Replacing[n] = content[n]
      /\ Starting \in [DOMAIN thread -> States]
      /\ Held(kept, Replacing, made) \subseteq DOMAIN thread
  BY StartParts
<1>3. registered \in [ServiceId -> 0 .. Len(content)] /\ service \in 0 .. Len(content)
  BY DEF Streams
<1>4. CASE ~(Current.of.flute /\ thread[Current] # "idle")
  <2>1. Release(Starting, kept, Replacing, made)
    BY <1>4 DEF StartStream, Replacing, Starting, Current
  <2> QED  BY <1>1, <1>2, <1>3, <2>1, Released
<1>5. CASE Current.of.flute /\ thread[Current] # "idle"
  <2>1. thread' = thread /\ fate' = "restarted"
    BY <1>5 DEF StartStream, Current
  <2>2. setup[1] = Head(setup) /\ Position = setup[1][2] /\ setup[1][1] = "start"
    BY <1>1, FirstStep DEF Step
  <2>3. setting.format # "default"
    BY <1>1, <1>5, <2>2 DEF Starts, Current
  <2>4. \A old \in content[service] : old.of.path = Current.of.path => old \in Range(made)
    BY <1>1, <1>2, <1>5, <2>3 DEF Starts, Current
  <2>A. DOMAIN thread = Held(kept, content, made)
    BY DEF Streams
  <2>K. \A n \in kept : n # service => n # 0 /\ \E id \in ServiceId : n = registered[id]
    BY <1>3, KeptParts
  <2> HIDE DEF kept
  <2>5. \A x : x \in Held(kept, Replacing, made) <=>
              (\E n \in kept : x \in Replacing[n]) \/ \E i \in DOMAIN made : x = made[i]
    BY HeldParts
  <2>6. \A x : x \in DOMAIN thread <=>
              (\E n \in kept : x \in content[n]) \/ \E i \in DOMAIN made : x = made[i]
    BY <2>A, HeldParts
  <2>7. ASSUME NEW n \in kept, NEW x \in content[n]
        PROVE  x \in Held(kept, Replacing, made)
    <3>1. CASE n = service /\ x.of.path = Current.of.path
      <4>1. x \in Range(made)
        BY <2>4, <2>7, <3>1
      <4> QED  BY <2>5, <4>1 DEF Range
    <3>2. CASE n = service /\ x.of.path # Current.of.path
      BY <1>2, <2>5, <2>7, <3>2
    <3>3. CASE n # service
      <4>1. n # 0 /\ \E id \in ServiceId : n = registered[id]
        BY <2>K, <3>3
      <4>2. n \in 1 .. Len(content)
        <5>1. Len(content) \in Nat
          BY <1>2
        <5> QED  BY <1>3, <4>1, <5>1
      <4> QED  BY <1>2, <2>5, <2>7, <3>3, <4>2
    <3> QED  BY <3>1, <3>2, <3>3
  <2>8. \A x \in DOMAIN thread : x \in Held(kept, Replacing, made)
    BY <2>5, <2>6, <2>7
  <2>9. DOMAIN thread' = Held(kept, Replacing, made)
    BY <1>2, <2>1, <2>8
  <2>10. Owner' = Owner
    <3>1. content \in Seq(SUBSET Stream)
      BY DEF Streams
    <3>2. DOMAIN content' = DOMAIN content
      BY <1>1, <1>2, <3>1
    <3> QED  BY <1>1, <3>2 DEF Owner
  <2> QED  BY <1>1, <1>2, <1>3, <2>1, <2>9, <2>10 DEF Streams, kept
<1> QED  BY <1>4, <1>5

(* Who holds less keeps less.                                              *)
LEMMA HeldShrinks ==
  ASSUME NEW more, NEW kept \in SUBSET more, NEW streams, NEW local, NEW all,
         Range(local) \subseteq Range(all)
  PROVE  Held(kept, streams, local) \subseteq Held(more, streams, all)
BY DEF Held

(* The setup is over: its streams are kept by the services only.           *)
LEMMA EndStreams ==
  ASSUME ConstantsAssumption, Place, Setup, Streams, EndUsd \/ UsdThrows
  PROVE  /\ Streams'
         /\ Held(Kept(registered', 0), content, <<>>) \subseteq DOMAIN thread
         /\ Release(thread, Kept(registered', 0), content, <<>>)
         /\ registered' = registered
            \/ (registered[Usd.id] = 0 /\ registered' = [registered EXCEPT ![Usd.id] = service])
<1>1. /\ service' = 0 /\ made' = <<>> /\ content' = content /\ cached' = cached /\ born' = born
      /\ Release(thread, Kept(registered', 0), content, <<>>)
      /\ registered' = registered
         \/ (registered[Usd.id] = 0 /\ registered' = [registered EXCEPT ![Usd.id] = service])
      /\ service # 0
  BY DEF EndUsd, UsdThrows
<1>2. Usd.id \in ServiceId
  <2>1. Usd \in Description
    BY <1>1, UsdAnnounced DEF Place
  <2> QED  BY <2>1 DEF Description
<1>3. /\ registered \in [ServiceId -> 0 .. Len(content)] /\ service \in 0 .. Len(content)
      /\ content \in Seq(SUBSET Stream)
  BY DEF Streams
<1>4. registered' \in [ServiceId -> 0 .. Len(content)]
  BY <1>1, <1>2, <1>3
<1>5. Kept(registered', 0) \subseteq Kept(registered, service)
  <2>1. \A n : n \in Kept(registered', 0) <=> n # 0 /\ (n = 0 \/ \E id \in ServiceId : n = registered'[id])
    BY <1>4, KeptParts
  <2>2. \A n : n \in Kept(registered, service) <=>
               n # 0 /\ (n = service \/ \E id \in ServiceId : n = registered[id])
    BY <1>3, KeptParts
  <2>3. \A id \in ServiceId : registered'[id] = registered[id] \/ registered'[id] = service
    BY <1>1, <1>2, <1>3
  <2> QED  BY <2>1, <2>2, <2>3
<1>6. Range(<<>>) \subseteq Range(made)
  BY DEF Range
<1>7. Held(Kept(registered', 0), content, <<>>) \subseteq DOMAIN thread
  <2> DEFINE kept == Kept(registered', 0)
             more == Kept(registered, service)
  <2>1. kept \in SUBSET more /\ DOMAIN thread = Held(more, content, made)
    BY <1>5 DEF Streams
  <2> HIDE DEF kept, more
  <2>2. Held(kept, content, <<>>) \subseteq Held(more, content, made)
    BY <1>6, <2>1, HeldShrinks
  <2> QED  BY <2>1, <2>2 DEF kept
<1>8. thread \in [DOMAIN thread -> States] /\ 0 \in 0 .. Len(content)
  BY <1>3 DEF Streams, States
<1>9. Streams'
  <2> DEFINE reg == registered'
  <2>1. /\ reg \in [ServiceId -> 0 .. Len(content)] /\ registered' = reg
        /\ Held(Kept(reg, 0), content, <<>>) \subseteq DOMAIN thread
        /\ Release(thread, Kept(reg, 0), content, <<>>)
    BY <1>1, <1>4, <1>7
  <2> HIDE DEF reg
  <2> QED  BY <1>1, <1>3, <1>8, <2>1, Released
<1> QED  BY <1>1, <1>7, <1>9

(* A local reference that ends takes at most its stream.                   *)
LEMMA DropStreams ==
  ASSUME ConstantsAssumption, Place, Setup, Streams, DropStream
  PROVE  /\ Streams'
         /\ Held(Kept(registered, service), content, made') \subseteq DOMAIN thread
<1>1. /\ service' = service /\ content' = content /\ cached' = cached /\ born' = born
      /\ registered' = registered
      /\ Release(thread, Kept(registered, service), content, made')
      /\ made' = Restrict(made, DOMAIN made \ {Position})
  BY DEF DropStream
<1>2. Range(made') \subseteq Range(made)
  BY <1>1 DEF Range, Restrict
<1>3. /\ registered \in [ServiceId -> 0 .. Len(content)] /\ service \in 0 .. Len(content)
      /\ content \in Seq(SUBSET Stream) /\ thread \in [DOMAIN thread -> States]
  BY DEF Streams, States
<1>4. Held(Kept(registered, service), content, made') \subseteq DOMAIN thread
  <2> DEFINE kept == Kept(registered, service)
  <2>1. kept \in SUBSET kept /\ DOMAIN thread = Held(kept, content, made)
    BY DEF Streams
  <2> HIDE DEF kept
  <2>2. Held(kept, content, made') \subseteq Held(kept, content, made)
    BY <1>2, <2>1, HeldShrinks
  <2> QED  BY <2>1, <2>2 DEF kept
<1>5. Streams'
  <2> DEFINE local == made'
  <2>1. /\ Held(Kept(registered, service), content, local) \subseteq DOMAIN thread
        /\ Release(thread, Kept(registered, service), content, local) /\ made' = local
    BY <1>1, <1>4
  <2> HIDE DEF local
  <2> QED  BY <1>1, <1>3, <2>1, Released
<1> QED  BY <1>4, <1>5

(* At first there are neither services nor streams.                        *)
LEMMA StreamsInit ==
  ASSUME Init
  PROVE  Setup /\ Streams /\ Starts
<1>1. Setup /\ Starts
  BY DEF Init, Setup, Starts
<1>2. Kept(registered, service) = {}
  BY DEF Init, Kept, Range
<1>3. Held(Kept(registered, service), content, made) = {}
  BY <1>2 DEF Init, Held, Range
<1>4. DOMAIN thread = {} /\ thread \in [DOMAIN thread -> States] /\ Range(cached) = {}
  BY DEF Init, Range
<1>5. content \in Seq(SUBSET Stream) /\ Len(content) = 0
  BY DEF Init
<1> QED  BY <1>1, <1>3, <1>4, <1>5 DEF Streams, Init, States

(* Every step leaves the live streams those held.                          *)
LEMMA StreamsStep ==
  ASSUME ConstantsAssumption, Place, Setup, Streams, Starts, [Next]_vars
  PROVE  Streams'
<1> DEFINE Same == /\ service' = service /\ content' = content /\ registered' = registered
                   /\ made' = made /\ cached' = cached /\ born' = born
<1>1. ASSUME Same, thread' = thread, fate' = fate PROVE Streams'
  BY <1>1 DEF Streams, Owner
<1>2. ASSUME ThreadReady PROVE Streams'
  <2>1. PICK s \in DOMAIN thread : thread' = [thread EXCEPT ![s] = "receiving"]
    BY <1>2 DEF ThreadReady
  <2>2. Same /\ fate' = fate
    BY <1>2 DEF ThreadReady
  <2>3. DOMAIN thread' = DOMAIN thread /\ thread' \in [DOMAIN thread -> {"idle", "starting", "receiving"}]
    BY <2>1 DEF Streams
  <2> QED  BY <2>2, <2>3 DEF Streams, Owner
<1>3. ASSUME NEW bundle \in setting.bundles, Receive(bundle) PROVE Streams'
  BY <1>1, <1>3 DEF Receive
<1>4. BeginUsd => Streams'
  BY BeginStreams
<1>5. CreateStream => Streams'
  BY CreateStreams
<1>6. StartStream => Streams'
  BY StartStreams
<1>7. DropStream => Streams'
  BY DropStreams
<1>8. EndUsd \/ UsdThrows => Streams'
  BY EndStreams
<1>9. EndBundle => Streams'
  BY <1>1 DEF EndBundle
<1>10. UNCHANGED vars => Streams'
  BY <1>1 DEF vars
<1> QED  BY <1>2, <1>3, <1>4, <1>5, <1>6, <1>7, <1>8, <1>9, <1>10 DEF Next

(* Every step leaves a stream that has a thread, and is still to be        *)
(* started, alone with its path in the service.                            *)
LEMMA StartsStep ==
  ASSUME ConstantsAssumption, Place, Setup, Streams, Starts, [Next]_vars, fate' # "restarted"
  PROVE  Starts'
<1>1. service' = 0 => Starts'
  BY DEF Starts
<1>2. ASSUME service' = service, setup' = setup, made' = made, content' = content, setting' = setting,
             thread' = thread
      PROVE  Starts'
  BY <1>2 DEF Starts
<1>3. ASSUME ThreadReady PROVE Starts'
  <2>1. PICK s \in DOMAIN thread : thread[s] = "starting" /\ thread' = [thread EXCEPT ![s] = "receiving"]
    BY <1>3 DEF ThreadReady
  <2>2. service' = service /\ setup' = setup /\ made' = made /\ content' = content
        /\ setting' = setting
    BY <1>3 DEF ThreadReady
  <2>3. \A x \in DOMAIN thread : (thread'[x] = "idle") <=> (thread[x] = "idle")
    BY <2>1 DEF Streams
  <2>4. \A i \in DOMAIN made : made[i] \in DOMAIN thread
    BY HeldParts DEF Streams
  <2>5. setting.format = "default" /\ setup # <<>> /\ setup[1][1] = "start" /\ service # 0 =>
          setup[1][2] \in DOMAIN made
    BY DEF Setup
  <2> QED  BY <2>2, <2>3, <2>4, <2>5 DEF Starts
<1>4. ASSUME BeginUsd PROVE Starts'
  <2>1. /\ setup' = Plan(Usd) /\ setting' = setting /\ DOMAIN made' = {} /\ Usd \in Description
    BY <1>4, UsdAnnounced DEF BeginUsd, Setup, Idle
  <2>2. setting.format = "default" /\ setup' # <<>> => setup'[1][1] = "create"
    BY <2>1, DefaultPlan DEF Plan
  <2> QED  BY <2>1, <2>2 DEF Starts
<1>5. ASSUME CreateStream PROVE Starts'
  <2> DEFINE s == [n |-> born + 1, of |-> Usd.streams[Position]]
  <2>1. /\ Position \notin DOMAIN made
        /\ DOMAIN made' = DOMAIN made \cup {Position} /\ made'[Position] = s
        /\ \A i \in DOMAIN made : made'[i] = made[i]
        /\ thread'[s] = "idle" /\ \A old \in DOMAIN thread : thread'[old] = thread[old]
    BY <1>5, CreateStreams
  <2>2. /\ service # 0 /\ setup # <<>> /\ service' = service /\ content' = content
        /\ setting' = setting /\ setup' = Tail(setup) /\ Head(setup)[1] = "create"
    BY <1>5 DEF CreateStream, Step
  <2>3. setup[1] = Head(setup) /\ Position = setup[1][2]
    BY <2>2, FirstStep
  <2> HIDE DEF s
  <2>4. setting.format = "default" =>
          (setup' # <<>> /\ setup'[1][1] = "start" => thread'[made'[setup'[1][2]]] = "idle")
    <3> SUFFICES ASSUME setting.format = "default", setup' # <<>>, setup'[1][1] = "start"
                 PROVE  setup'[1][2] = Position
      BY <2>1
    <3>1. DefaultAhead(setup, Usd)
      BY <2>2 DEF Setup
    <3>2. setup'[1] = <<"start", Position>> \/ setup'[1] = <<"drop", Position>>
      BY <2>2, <2>3, <3>1, DefaultTail
    <3> QED  BY <3>2
  <2>5. \A i \in DOMAIN made : made[i] \in DOMAIN thread
    BY HeldParts DEF Streams
  <2>6. Range(made) \subseteq Range(made')
    BY <2>1 DEF Range
  <2>7. ASSUME setting.format # "default", NEW i \in DOMAIN made', thread'[made'[i]] # "idle",
               NEW x \in content'[service'], x.of.path = made'[i].of.path
        PROVE  x \in Range(made')
    <3>1. i # Position /\ i \in DOMAIN made
      BY <2>1, <2>7
    <3>2. made'[i] = made[i] /\ thread[made[i]] # "idle"
      BY <2>1, <2>5, <2>7, <3>1
    <3> QED  BY <2>2, <2>6, <2>7, <3>1, <3>2 DEF Starts
  <2> QED  BY <2>2, <2>4, <2>7 DEF Starts
<1>6. ASSUME StartStream PROVE Starts'
  <2>1. /\ service # 0 /\ setup # <<>> /\ service' = service /\ content' = Replacing
        /\ setting' = setting /\ setup' = Tail(setup) /\ Head(setup)[1] = "start" /\ made' = made
        /\ Step("start")
    BY <1>6 DEF StartStream, Step, Replacing, Current
  <2>2. setup[1] = Head(setup) /\ Position = setup[1][2]
    BY <2>1, FirstStep
  <2>3. setting.format = "default" => setup' # <<>> /\ setup'[1][1] = "drop"
    <3> SUFFICES ASSUME setting.format = "default" PROVE setup' # <<>> /\ setup'[1][1] = "drop"
      OBVIOUS
    <3>1. DefaultAhead(setup, Usd)
      BY <2>1 DEF Setup
    <3>2. setup' # <<>> /\ setup'[1] = <<"drop", Position>>
      BY <2>1, <2>2, <3>1, DefaultTail
    <3> QED  BY <3>2
  <2>4. /\ Position \in DOMAIN made
        /\ Replacing[service] = {old \in content[service] : old.of.path # Current.of.path} \cup {Current}
        /\ \A old \in DOMAIN thread : old # Current => Starting[old] = thread[old]
        /\ Held(Kept(registered, service), Replacing, made) \subseteq DOMAIN thread
    BY <1>6, StartParts
  <2>5. Release(Starting, Kept(registered, service), Replacing, made)
    BY <1>6 DEF StartStream, Starting, Replacing, Current
  <2>6. /\ DOMAIN Starting = DOMAIN thread
    BY DEF Starting
  <2>7. /\ DOMAIN thread' = Held(Kept(registered, service), Replacing, made)
        /\ thread' = [s \in DOMAIN thread' |-> Starting[s]]
    BY <2>4, <2>5, <2>6, ReleaseKeeps
  <2>8. \A i \in DOMAIN made : made[i] \in DOMAIN thread'
    BY <2>7, HeldParts
  <2>9. \A i \in DOMAIN made : made[i] # Current => thread'[made[i]] = thread[made[i]]
    BY <2>4, <2>7, <2>8
  <2>10. Current \in Range(made)
    BY <2>4 DEF Current, Range
  <2>11. ASSUME setting.format # "default", NEW i \in DOMAIN made, thread'[made[i]] # "idle",
                NEW x \in Replacing[service], x.of.path = made[i].of.path
         PROVE  x \in Range(made)
    <3>1. CASE x = Current
      BY <2>10, <3>1
    <3>2. CASE x # Current
      <4>1. x \in content[service] /\ x.of.path # Current.of.path
        BY <2>4, <2>11, <3>2
      <4>2. made[i] # Current
        BY <2>11, <4>1
      <4> QED  BY <2>1, <2>9, <2>11, <4>1, <4>2 DEF Starts
    <3> QED  BY <3>1, <3>2
  <2> QED  BY <2>1, <2>3, <2>11 DEF Starts
<1>7. ASSUME DropStream PROVE Starts'
  <2>1. /\ service # 0 /\ setup # <<>> /\ setting' = setting /\ setup' = Tail(setup)
        /\ Step("drop")
    BY <1>7 DEF DropStream, Step
  <2>2. setting.format = "default" /\ setup[1] = Head(setup)
    BY <2>1, FirstStep
  <2>3. DefaultAhead(setup, Usd)
    BY <2>1, <2>2 DEF Setup
  <2>4. setup' = <<>> \/ setup'[1][1] = "create"
    BY <2>1, <2>2, <2>3, DefaultTail DEF Step
  <2> QED  BY <2>1, <2>2, <2>4 DEF Starts
<1>8. EndUsd \/ UsdThrows => Starts'
  BY <1>1 DEF EndUsd, UsdThrows
<1>9. EndBundle \/ UNCHANGED vars => Starts'
  BY <1>2 DEF EndBundle, vars
<1>10. ASSUME NEW bundle \in setting.bundles, Receive(bundle) PROVE Starts'
  BY <1>2, <1>10 DEF Receive
<1> QED  BY <1>3, <1>4, <1>5, <1>6, <1>7, <1>8, <1>9, <1>10 DEF Next

(* Between two passes through the announcements all streams are earlier.   *)
Counted ==
  /\ earlier \in Nat /\ earlier =< born
  /\ pending = <<>> => earlier = born

(* No step loses count of the streams.                                     *)
LEMMA CountedStep ==
  ASSUME ConstantsAssumption, Place, Streams, Counted, [Next]_vars
  PROVE  Counted'
<1>1. born \in Nat /\ pending \in Seq(Seq(Description))
  BY DEF Streams, Place
<1>2. CASE EndBundle \/ UsdThrows
  BY <1>1, <1>2 DEF EndBundle, UsdThrows, Counted
<1>3. CASE CreateStream
  <2>1. service # 0 /\ pending' = pending /\ born' = born + 1 /\ earlier' = earlier
    BY <1>3 DEF CreateStream, Step
  <2> QED  BY <1>1, <2>1 DEF Counted, Place
<1>4. CASE EndUsd
  <2>1. /\ pending' = <<Tail(Head(pending))>> \o Tail(pending) /\ service # 0
        /\ born' = born /\ earlier' = earlier
    BY <1>4 DEF EndUsd
  <2>2. Head(pending) \in Seq(Description) /\ Tail(pending) \in Seq(Seq(Description))
    BY <1>1, <2>1 DEF Place
  <2>3. Len(pending') # 0
    BY <2>1, <2>2
  <2>4. pending' # <<>>
    BY <2>3
  <2> QED  BY <2>1, <2>4 DEF Counted
<1>5. CASE BeginUsd \/ StartStream \/ DropStream \/ ThreadReady \/ UNCHANGED vars
  BY <1>5 DEF BeginUsd, StartStream, DropStream, ThreadReady, vars, Counted
<1>6. ASSUME NEW bundle \in setting.bundles, Receive(bundle) PROVE Counted'
  BY <1>6 DEF Receive, Idle, Counted
<1> QED  BY <1>2, <1>3, <1>4, <1>5, <1>6 DEF Next

Core == Place /\ Setup /\ Streams /\ Counted /\ (fate = "running" => Starts)

(* Once std::terminate is called nothing happens.                          *)
LEMMA OnlyRunning ==
  ASSUME Next
  PROVE  fate = "running"
BY DEF Next, Receive, BeginUsd, CreateStream, StartStream, DropStream, EndUsd, UsdThrows, EndBundle,
       ThreadReady, Step, MainFree

(* The invariant holds at first.                                           *)
LEMMA CoreInit ==
  ASSUME ConstantsAssumption, Init
  PROVE  Core
BY PlaceInit, StreamsInit DEF Core, Counted, Init

(* Every step keeps the invariant.                                         *)
LEMMA CoreStep ==
  ASSUME ConstantsAssumption, Core, [Next]_vars
  PROVE  Core'
<1>1. CASE Next
  <2>1. fate = "running"
    BY <1>1, OnlyRunning
  <2>2. Counted'
    BY CountedStep DEF Core
  <2> QED  BY <2>1, <2>2, PlaceStep, SetupStep, StreamsStep, StartsStep DEF Core
<1>2. CASE UNCHANGED vars
  <2>1. Place' /\ Setup'
    BY PlaceStep, SetupStep DEF Core
  <2>2. Streams' /\ (Starts <=> Starts') /\ fate' = fate
    BY <1>2 DEF Core, vars, Streams, Starts, Owner
  <2>3. Counted'
    BY CountedStep DEF Core
  <2> QED  BY <2>1, <2>2, <2>3 DEF Core
<1> QED  BY <1>1, <1>2

(* The invariant implies the type invariant.                               *)
LEMMA CoreTypes ==
  ASSUME ConstantsAssumption, Core
  PROVE  TypeOK
<1>1. Len(pending) =< Len(items)
  <2>1. pending \in Seq(Seq(Description)) /\ Len(items) \in Nat
    BY BundlesOfDescriptions DEF Core, Place
  <2>2. pending = <<>> => Len(pending) = 0
    OBVIOUS
  <2> QED  BY <2>1, <2>2 DEF Core, Place
<1>2. Range(thread) \subseteq {"idle", "starting", "receiving"}
  BY DEF Core, Streams, Range
<1>3. earlier \in 0 .. born
  BY DEF Core, Counted, Streams
<1> QED  BY <1>1, <1>2, <1>3 DEF Core, Place, Streams, TypeOK

(* The place among the announcements, the setup and the live streams are   *)
(* always as described.                                                    *)
THEOREM SpecCore == Spec => []Core
<1>1. Init => Core
  BY ConstantsAssumption, CoreInit
<1>2. Core /\ [Next]_vars => Core'
  BY ConstantsAssumption, CoreStep
<1> QED  BY <1>1, <1>2, PTL DEF Spec

(* The state has its shape: the live streams are exactly those that a      *)
(* registered service, or the setup, holds (Service.h, Middleware.h).      *)
THEOREM TypeCorrect == Spec => []TypeOK
<1>1. Core => TypeOK
  BY ConstantsAssumption, CoreTypes
<1> QED  BY <1>1, SpecCore, PTL

------------------------------------------------------------------------------
(* Whose service is which.                                                 *)

Belongs(n, id) == n # 0 /\ (n = registered[id] \/ (n = service /\ id = Usd.id))

Services ==
  /\ \A n \in 1 .. Len(content) : \A a, b \in ServiceId : Belongs(n, a) /\ Belongs(n, b) => a = b
  /\ service # 0 => registered[Usd.id] \in {0, service}

(* What the invariant says of the service in use and of its USD.           *)
LEMMA CoreParts ==
  ASSUME ConstantsAssumption, Core
  PROVE  /\ Place /\ Setup /\ Streams /\ Counted /\ (fate = "running" => Starts)
         /\ content \in Seq(SUBSET Stream) /\ Len(content) \in Nat
         /\ registered \in [ServiceId -> 0 .. Len(content)]
         /\ service \in 0 .. Len(content)
         /\ service # 0 =>
              /\ service \in 1 .. Len(content)
              /\ pending # <<>> /\ Head(pending) # <<>>
              /\ Usd \in Description /\ Usd.id \in ServiceId /\ Belongs(service, Usd.id)
              /\ AtBundle \in 1 .. Len(items) /\ AtUsd \in 1 .. Len(items[AtBundle])
              /\ Usd = items[AtBundle][AtUsd]
<1>1. Place /\ Setup /\ Streams /\ Counted /\ (fate = "running" => Starts)
  BY DEF Core
<1>2. /\ content \in Seq(SUBSET Stream) /\ registered \in [ServiceId -> 0 .. Len(content)]
      /\ service \in 0 .. Len(content)
  BY <1>1 DEF Streams
<1>3. Len(content) \in Nat
  BY <1>2
<1>4. ASSUME service # 0
      PROVE  /\ service \in 1 .. Len(content)
             /\ pending # <<>> /\ Head(pending) # <<>>
             /\ Usd \in Description /\ Usd.id \in ServiceId /\ Belongs(service, Usd.id)
             /\ AtBundle \in 1 .. Len(items) /\ AtUsd \in 1 .. Len(items[AtBundle])
             /\ Usd = items[AtBundle][AtUsd]
  <2>1. pending # <<>> /\ Head(pending) # <<>>
    BY <1>1, <1>4 DEF Place
  <2>2. /\ Usd \in Description /\ AtBundle \in 1 .. Len(items) /\ AtUsd \in 1 .. Len(items[AtBundle])
        /\ Usd = items[AtBundle][AtUsd]
    BY <1>1, <2>1, UsdAnnounced
  <2>3. Usd.id \in ServiceId
    BY <2>2 DEF Description
  <2>4. service \in 1 .. Len(content)
    BY <1>2, <1>3, <1>4
  <2> QED  BY <1>4, <2>1, <2>2, <2>3, <2>4 DEF Belongs
<1> QED  BY <1>1, <1>2, <1>3, <1>4

(* A step gives nobody a service of somebody else's, and only a start      *)
(* changes the streams of one.                                             *)
LEMMA OwnStep ==
  ASSUME ConstantsAssumption, Core, [Next]_vars,
         NEW id \in ServiceId, NEW n \in 1 .. Len(content'), Belongs(n, id)'
  PROVE  \/ content'[n] = {} /\ n = Len(content) + 1 /\ id = Usd.id
         \/ /\ n \in 1 .. Len(content) /\ Belongs(n, id)
            /\ \/ content'[n] = content[n] /\ ~(StartStream /\ n = service)
               \/ /\ StartStream /\ n = service
                  /\ content'[n] = {old \in content[n] : old.of.path # Current.of.path} \cup {Current}
<1>1. /\ content \in Seq(SUBSET Stream) /\ Len(content) \in Nat
      /\ registered \in [ServiceId -> 0 .. Len(content)]
      /\ service \in 0 .. Len(content)
      /\ service # 0 => service \in 1 .. Len(content) /\ Usd.id \in ServiceId
      /\ service # 0 => pending # <<>>
      /\ Place /\ Setup /\ Streams
  BY CoreParts
<1>2. ASSUME content' = content, registered' = registered,
             service' = 0 \/ (service' = service /\ pending' = pending)
      PROVE  n \in 1 .. Len(content) /\ Belongs(n, id) /\ content'[n] = content[n]
  BY <1>2 DEF Belongs, Usd
<1>3. ASSUME BeginUsd
      PROVE  \/ content'[n] = {} /\ n = Len(content) + 1 /\ id = Usd.id
             \/ n \in 1 .. Len(content) /\ Belongs(n, id) /\ content'[n] = content[n]
  <2>1. /\ registered' = registered /\ pending' = pending /\ Usd' = Usd
        /\ service' = IF registered[Usd.id] # 0 THEN registered[Usd.id] ELSE Len(content) + 1
    BY <1>3 DEF BeginUsd, Usd
  <2>2. /\ \A m \in 1 .. Len(content) : content'[m] = content[m]
        /\ content' = content \/ (service' = Len(content) + 1 /\ content'[service'] = {})
    BY <1>1, <1>3, BeginStreams
  <2>3. n # 0 /\ (n = registered[id] \/ (n = service' /\ id = Usd.id))
    BY <2>1 DEF Belongs
  <2>4. CASE n = registered[id]
    BY <1>1, <2>2, <2>3, <2>4 DEF Belongs
  <2>5. CASE n = service' /\ id = Usd.id /\ n # registered[id]
    <3>1. n = Len(content) + 1 /\ content' # content
      <4>1. n = Len(content) + 1
        BY <2>1, <2>5
      <4>2. n \notin 1 .. Len(content)
        BY <1>1, <4>1
      <4> QED  BY <4>1, <4>2
    <3> QED  BY <2>2, <2>5, <3>1
  <2> QED  BY <2>3, <2>4, <2>5
<1>4. ASSUME StartStream
      PROVE  /\ n \in 1 .. Len(content) /\ Belongs(n, id)
             /\ n # service => content'[n] = content[n]
             /\ n = service =>
                  content'[n] = {old \in content[n] : old.of.path # Current.of.path} \cup {Current}
  <2>1. content' = Replacing /\ registered' = registered /\ service' = service /\ pending' = pending
    BY <1>4 DEF StartStream, Replacing, Current
  <2>2. /\ Len(Replacing) = Len(content)
        /\ Replacing[service] = {old \in content[service] : old.of.path # Current.of.path} \cup {Current}
        /\ \A m \in 1 .. Len(content) : m # service => Replacing[m] = content[m]
    BY <1>1, <1>4, StartParts
  <2>3. Belongs(n, id)
    BY <2>1 DEF Belongs, Usd
  <2> QED  BY <2>1, <2>2, <2>3 DEF Belongs
<1>5. ASSUME EndUsd \/ UsdThrows
      PROVE  n \in 1 .. Len(content) /\ Belongs(n, id) /\ content'[n] = content[n]
  <2>1. /\ content' = content /\ service' = 0 /\ service # 0
        /\ registered' = registered
           \/ (registered[Usd.id] = 0 /\ registered' = [registered EXCEPT ![Usd.id] = service])
    BY <1>5, <1>1, EndStreams DEF EndUsd, UsdThrows
  <2>2. n # 0 /\ n = registered'[id]
    BY <2>1 DEF Belongs
  <2>3. n = registered[id] \/ (n = service /\ id = Usd.id)
    BY <1>1, <2>1, <2>2
  <2> QED  BY <2>1, <2>2, <2>3 DEF Belongs
<1>6. ASSUME NEW bundle \in setting.bundles, Receive(bundle)
      PROVE  n \in 1 .. Len(content) /\ Belongs(n, id) /\ content'[n] = content[n]
  <2>1. service = 0
    BY <1>1, <1>6 DEF Receive, Idle
  <2> QED  BY <1>2, <1>6, <2>1 DEF Receive
<1>7. CreateStream \/ DropStream \/ EndBundle \/ ThreadReady \/ UNCHANGED vars =>
        n \in 1 .. Len(content) /\ Belongs(n, id) /\ content'[n] = content[n]
  BY <1>2 DEF CreateStream, DropStream, EndBundle, ThreadReady, vars
<1>8. CASE StartStream
  BY <1>4, <1>8
<1>9. CASE ~StartStream
  BY <1>3, <1>5, <1>6, <1>7, <1>9 DEF Next
<1> QED  BY <1>8, <1>9

(* No step gives a service to a second id.                                 *)
LEMMA ServicesStep ==
  ASSUME ConstantsAssumption, Core, Services, [Next]_vars
  PROVE  Services'
<1>1. /\ content \in Seq(SUBSET Stream) /\ Len(content) \in Nat
      /\ registered \in [ServiceId -> 0 .. Len(content)]
      /\ service \in 0 .. Len(content)
      /\ service # 0 => service \in 1 .. Len(content) /\ Usd.id \in ServiceId
      /\ Place /\ Setup /\ Streams
  BY CoreParts
<1>2. ASSUME NEW n \in 1 .. Len(content'), NEW a \in ServiceId, NEW b \in ServiceId,
             Belongs(n, a)', Belongs(n, b)'
      PROVE  a = b
  <2>1. CASE n = Len(content) + 1
    <3>1. n \notin 1 .. Len(content)
      BY <1>1, <2>1
    <3>2. a = Usd.id
      BY <1>2, <3>1, OwnStep
    <3>3. b = Usd.id
      BY <1>2, <3>1, OwnStep
    <3> QED  BY <3>2, <3>3
  <2>2. CASE n # Len(content) + 1
    <3>1. n \in 1 .. Len(content) /\ Belongs(n, a)
      BY <1>2, <2>2, OwnStep
    <3>2. Belongs(n, b)
      BY <1>2, <2>2, OwnStep
    <3> QED  BY <3>1, <3>2 DEF Services
  <2> QED  BY <2>1, <2>2
<1>3. service' # 0 => registered'[Usd'.id] \in {0, service'}
  <2>1. ASSUME service' = service, registered' = registered, pending' = pending \/ service = 0
        PROVE  service' # 0 => registered'[Usd'.id] \in {0, service'}
    BY <2>1 DEF Services, Usd
  <2>2. BeginUsd /\ service' # 0 => registered'[Usd'.id] \in {0, service'}
    BY DEF BeginUsd, Usd
  <2>3. EndUsd \/ UsdThrows => service' = 0
    BY DEF EndUsd, UsdThrows
  <2>4. ASSUME NEW bundle \in setting.bundles, Receive(bundle)
        PROVE  service' # 0 => registered'[Usd'.id] \in {0, service'}
    <3>1. service = 0
      BY <1>1, <2>4 DEF Receive, Idle, Place
    <3> QED  BY <2>1, <2>4, <3>1 DEF Receive
  <2> QED  BY <2>1, <2>2, <2>3, <2>4
           DEF Next, CreateStream, StartStream, DropStream, EndBundle, ThreadReady, vars
<1> QED  BY <1>2, <1>3 DEF Services

(* A service has one stream per playlist path.                             *)
OnePath ==
  \A id \in ServiceId : \A n \in 1 .. Len(content) : Belongs(n, id) =>
    \A x, y \in content[n] : x.of.path = y.of.path => x = y

(* No step gives a service a second stream for a path.                     *)
LEMMA OnePathStep ==
  ASSUME ConstantsAssumption, Core, OnePath, [Next]_vars
  PROVE  OnePath'
<1> SUFFICES ASSUME NEW id \in ServiceId, NEW n \in 1 .. Len(content'), Belongs(n, id)',
                    NEW x \in content'[n], NEW y \in content'[n], x.of.path = y.of.path
             PROVE  x = y
  BY DEF OnePath
<1>1. \/ content'[n] = {}
      \/ /\ n \in 1 .. Len(content) /\ Belongs(n, id)
         /\ \/ content'[n] = content[n]
            \/ content'[n] = {old \in content[n] : old.of.path # Current.of.path} \cup {Current}
  BY OwnStep
<1> QED  BY <1>1 DEF OnePath

------------------------------------------------------------------------------
(* What has been handled of the announcements.                             *)

Default == setting.format = "default"

(* A stream that has a start in the plan.                                  *)
Runs(pattern) == Default => HasSource(pattern)

IsPlace(b, u, i) ==
  b \in 1 .. Len(items) /\ u \in 1 .. Len(items[b]) /\ i \in DOMAIN items[b][u].streams

Mentions(b, u, i, id, path) ==
  /\ IsPlace(b, u, i)
  /\ items[b][u].id = id /\ items[b][u].streams[i].path = path
  /\ Runs(items[b][u].streams[i])

(* The USDs before the present one in this pass through the bundles.       *)
Passed(b, u) ==
  \/ pending = <<>> \/ b < AtBundle
  \/ b = AtBundle /\ u =< Len(items[b]) - Len(Head(pending))

Ahead(i) == \E k \in 1 .. Len(setup) : setup[k] = <<"start", i>>

Started(i) == IF Default THEN ~Ahead(i) ELSE i \in DOMAIN made /\ made[i] \in content[service]

Handled(b, u, i) ==
  Passed(b, u) \/ (service # 0 /\ b = AtBundle /\ u = AtUsd /\ Started(i))

(* What is announced stays where it is.                                    *)
LEMMA PlacesStay ==
  ASSUME ConstantsAssumption, Core, [Next]_vars, NEW b, NEW u, NEW i, IsPlace(b, u, i)
  PROVE  /\ IsPlace(b, u, i)' /\ items'[b] = items[b] /\ setting' = setting
         /\ Len(items) =< Len(items') /\ Len(items') \in Nat
<1>1. items \in Seq(Seq(Description)) /\ Len(items) \in Nat /\ setting.bundles \subseteq Seq(Description)
  BY BundlesOfDescriptions DEF Core
<1>2. setting' = setting
  BY DEF Next, Receive, BeginUsd, CreateStream, StartStream, DropStream, EndUsd, UsdThrows,
         EndBundle, ThreadReady, vars
<1>3. CASE items' = items
  BY <1>1, <1>2, <1>3 DEF IsPlace
<1>4. ASSUME NEW bundle \in setting.bundles, Receive(bundle)
      PROVE  /\ IsPlace(b, u, i)' /\ items'[b] = items[b]
             /\ Len(items) =< Len(items') /\ Len(items') \in Nat
  <2>1. bundle \in Seq(Description) /\ items' = Append(items, bundle)
    BY <1>1, <1>4 DEF Receive, WithItems
  <2>2. Len(items') = Len(items) + 1 /\ \A k \in 1 .. Len(items) : items'[k] = items[k]
    BY <1>1, <2>1, Appended
  <2> QED  BY <1>1, <2>2 DEF IsPlace
<1>5. (\E bundle \in setting.bundles : Receive(bundle)) \/ items' = items
  BY DEF Next, BeginUsd, CreateStream, StartStream, DropStream, EndUsd, UsdThrows,
         EndBundle, ThreadReady, vars
<1> QED  BY <1>2, <1>3, <1>4, <1>5

(* How far it is.                                                          *)
LEMMA PassedParts ==
  ASSUME ConstantsAssumption, Core, pending # <<>>
  PROVE  /\ items \in Seq(Seq(Description)) /\ Len(items) \in Nat
         /\ AtBundle \in 1 .. Len(items) /\ Len(items[AtBundle]) \in Nat
         /\ Len(Head(pending)) \in Nat /\ AtBundle \in Nat
         /\ Tail(pending) \in Seq(Seq(Description))
         /\ Tail(pending) # <<>> =>
              /\ AtBundle + 1 = Len(items) - Len(Tail(Tail(pending)))
              /\ Head(Tail(pending)) = items[AtBundle + 1] /\ AtBundle + 1 \in 1 .. Len(items)
         /\ Tail(pending) = <<>> => AtBundle = Len(items)
         /\ Head(pending) # <<>> =>
              AtUsd = Len(items[AtBundle]) - Len(Head(pending)) + 1
              /\ AtUsd \in 1 .. Len(items[AtBundle])
<1>1. /\ items \in Seq(Seq(Description)) /\ Len(items) \in Nat
      /\ pending \in Seq(Seq(Description)) /\ Suffix(Tail(pending), items)
      /\ Suffix(Head(pending), items[AtBundle]) /\ Len(pending) =< Len(items)
  BY BundlesOfDescriptions DEF Core, Place
<1>2. /\ Len(pending) \in Nat \ {0} /\ Tail(pending) \in Seq(Seq(Description))
      /\ Len(Tail(pending)) = Len(pending) - 1 /\ Head(pending) \in Seq(Description)
  BY <1>1
<1>3. AtBundle \in 1 .. Len(items)
  BY <1>1, <1>2 DEF AtBundle
<1>4. items[AtBundle] \in Seq(Description)
  BY <1>1, <1>3
<1>5. Len(items[AtBundle]) \in Nat /\ Len(Head(pending)) \in Nat
      /\ Len(Head(pending)) =< Len(items[AtBundle])
  <2>1. Len(Head(pending)) \in Nat /\ Len(items[AtBundle]) \in Nat
    BY <1>2, <1>4
  <2> QED  BY <1>1, <2>1 DEF Suffix
<1>6. ASSUME Tail(pending) # <<>>
      PROVE  /\ AtBundle + 1 = Len(items) - Len(Tail(Tail(pending)))
             /\ Head(Tail(pending)) = items[AtBundle + 1] /\ AtBundle + 1 \in 1 .. Len(items)
  <2> DEFINE t == Tail(pending)
  <2>1. t \in Seq(Seq(Description)) /\ t # <<>> /\ Suffix(t, items)
    BY <1>1, <1>2, <1>6
  <2> HIDE DEF t
  <2>2. Len(items) - Len(Tail(t)) \in 1 .. Len(items) /\ Head(t) = items[Len(items) - Len(Tail(t))]
    BY <1>1, <2>1, SuffixTail
  <2>3. Len(Tail(t)) = Len(t) - 1 /\ Len(t) \in Nat
    BY <2>1, TailParts
  <2>4. AtBundle = Len(items) - Len(t)
    BY DEF AtBundle, t
  <2>5. AtBundle + 1 = Len(items) - Len(Tail(t))
    <3>1. \A l, n \in Nat : l - n + 1 = l - (n - 1)
      OBVIOUS
    <3>2. AtBundle + 1 = Len(items) - (Len(t) - 1)
      BY <1>1, <2>3, <2>4, <3>1
    <3> QED  BY <2>3, <3>2
  <2> QED  BY <2>2, <2>5 DEF t
<1>7. Tail(pending) = <<>> => AtBundle = Len(items)
  <2>1. Len(<<>>) = 0 /\ Len(items) - 0 = Len(items)
    BY <1>1
  <2> QED  BY <2>1 DEF AtBundle
<1>8. Head(pending) # <<>> =>
        AtUsd = Len(items[AtBundle]) - Len(Head(pending)) + 1 /\ AtUsd \in 1 .. Len(items[AtBundle])
  <2> SUFFICES ASSUME Head(pending) # <<>>
               PROVE  /\ AtUsd = Len(items[AtBundle]) - Len(Head(pending)) + 1
                      /\ AtUsd \in 1 .. Len(items[AtBundle])
    OBVIOUS
  <2> DEFINE h == Head(pending)
             l == Len(items[AtBundle])
  <2>1. h \in Seq(Description) /\ h # <<>> /\ l \in Nat /\ Len(h) \in Nat /\ Len(h) =< l
        /\ AtUsd = l - Len(Tail(h))
    BY <1>2, <1>5 DEF AtUsd
  <2> HIDE DEF h, l
  <2>2. Len(Tail(h)) = Len(h) - 1 /\ Len(h) # 0
    BY <2>1, TailParts
  <2>3. AtUsd = l - Len(h) + 1 /\ AtUsd \in 1 .. l
    BY <2>1, <2>2
  <2> QED  BY <2>3 DEF h, l
<1>9. AtBundle \in Nat
  BY <1>3
<1> QED  BY <1>1, <1>2, <1>3, <1>5, <1>6, <1>7, <1>8, <1>9

(* The place a before which l - h of l are, and the others.                *)
LEMMA PlaceParts ==
  ASSUME NEW l \in Nat, NEW h \in Nat, NEW v \in Nat, NEW a, a = l - h + 1
  PROVE  /\ v =< l - (h - 1) <=> v =< l - h \/ v = a
         /\ v =< l - h \/ a =< v
OBVIOUS

(* How each step goes on through the announcements.                        *)
LEMMA PassedStep ==
  ASSUME ConstantsAssumption, Core, [Next]_vars, NEW b, NEW u, NEW i, IsPlace(b, u, i)
  PROVE  /\ EndUsd => (Passed(b, u)' <=> Passed(b, u) \/ (b = AtBundle /\ u = AtUsd))
         /\ UsdThrows => (Passed(b, u)' <=> Passed(b, u) \/ (b = AtBundle /\ AtUsd =< u))
         /\ ~(EndUsd \/ UsdThrows \/ \E bundle \in setting.bundles : Receive(bundle)) =>
              (Passed(b, u)' <=> Passed(b, u))
         /\ pending # <<>> /\ Head(pending) # <<>> => ~Passed(AtBundle, AtUsd)
<1>1. items \in Seq(Seq(Description)) /\ Len(items) \in Nat
  BY BundlesOfDescriptions DEF Core
<1>2. b \in 1 .. Len(items) /\ u \in 1 .. Len(items[b])
  BY DEF IsPlace
<1>3. Len(items[b]) \in Nat
  BY <1>1, <1>2
<1>4. ASSUME pending # <<>>, pending' = Tail(pending), items' = items
      PROVE  Passed(b, u)' <=> b =< AtBundle
  <2>1. CASE Tail(pending) = <<>>
    <3>1. AtBundle = Len(items) /\ Passed(b, u)'
      BY <1>4, <2>1, PassedParts DEF Passed
    <3> QED  BY <1>1, <1>2, <3>1
  <2>2. CASE Tail(pending) # <<>>
    <3>1. /\ AtBundle + 1 = Len(items) - Len(Tail(Tail(pending)))
          /\ Head(Tail(pending)) = items[AtBundle + 1] /\ AtBundle \in Nat
      BY <1>4, <2>2, PassedParts
    <3>2. AtBundle' = AtBundle + 1 /\ Head(pending') = items[AtBundle + 1]
      BY <1>4, <3>1 DEF AtBundle
    <3>3. Len(items[b]) - Len(items[b]) = 0 /\ ~(u =< 0)
      BY <1>2, <1>3
    <3>4. Passed(b, u)' <=> b < AtBundle + 1 \/ (b = AtBundle + 1 /\ u =< Len(items[b]) - Len(items[b]))
      BY <1>4, <2>2, <3>2 DEF Passed
    <3>5. Passed(b, u)' <=> b < AtBundle + 1
      BY <3>3, <3>4
    <3> QED  BY <1>2, <3>1, <3>5
  <2> QED  BY <2>1, <2>2
<1>5. ASSUME pending # <<>>
      PROVE  /\ AtBundle \in 1 .. Len(items) /\ Len(items[AtBundle]) \in Nat
             /\ Len(Head(pending)) \in Nat /\ AtBundle \in Nat
             /\ Head(pending) # <<>> =>
                  AtUsd = Len(items[AtBundle]) - Len(Head(pending)) + 1
                  /\ AtUsd \in 1 .. Len(items[AtBundle])
  BY <1>5, PassedParts
<1>6. ASSUME EndUsd PROVE Passed(b, u)' <=> Passed(b, u) \/ (b = AtBundle /\ u = AtUsd)
  <2>1. /\ pending # <<>> /\ Head(pending) # <<>> /\ items' = items
        /\ pending' = <<Tail(Head(pending))>> \o Tail(pending)
    BY <1>6, CoreParts DEF EndUsd
  <2>2. Head(pending) \in Seq(Description) /\ Tail(pending) \in Seq(Seq(Description))
    BY <2>1, PassedParts DEF Core, Place
  <2>3. /\ pending' # <<>> /\ Tail(pending') = Tail(pending) /\ Head(pending') = Tail(Head(pending))
    <3> DEFINE h == Tail(Head(pending))
               t == Tail(pending)
    <3>1. h \in Seq(Description) /\ t \in Seq(Seq(Description)) /\ pending' = <<h>> \o t
      BY <2>1, <2>2
    <3> HIDE DEF h, t
    <3>2. /\ <<h>> \o t # <<>> /\ Head(<<h>> \o t) = h /\ Tail(<<h>> \o t) = t
      BY <3>1
    <3> QED  BY <3>1, <3>2 DEF h, t
  <2>4. Len(Tail(Head(pending))) = Len(Head(pending)) - 1
    BY <2>1, <2>2
  <2>5. AtBundle' = AtBundle
    BY <2>1, <2>3 DEF AtBundle
  <2>6. Passed(b, u)' <=> b < AtBundle \/ (b = AtBundle /\ u =< Len(items[b]) - (Len(Head(pending)) - 1))
    BY <2>1, <2>3, <2>4, <2>5 DEF Passed
  <2>7. Passed(b, u) <=> b < AtBundle \/ (b = AtBundle /\ u =< Len(items[b]) - Len(Head(pending)))
    BY <2>1 DEF Passed
  <2>8. /\ AtUsd = Len(items[AtBundle]) - Len(Head(pending)) + 1
        /\ Len(items[AtBundle]) \in Nat /\ Len(Head(pending)) \in Nat
    BY <1>5, <2>1
  <2>9. b = AtBundle =>
          (u =< Len(items[b]) - (Len(Head(pending)) - 1) <=>
             u =< Len(items[b]) - Len(Head(pending)) \/ u = AtUsd)
    <3> SUFFICES ASSUME b = AtBundle
                 PROVE  u =< Len(items[b]) - (Len(Head(pending)) - 1) <=>
                          u =< Len(items[b]) - Len(Head(pending)) \/ u = AtUsd
      OBVIOUS
    <3>1. u \in Nat /\ Len(items[b]) \in Nat /\ Len(Head(pending)) \in Nat
          /\ AtUsd = Len(items[b]) - Len(Head(pending)) + 1
      BY <1>2, <1>3, <2>8
    <3> QED  BY ONLY <3>1, PlaceParts
  <2> QED  BY <2>6, <2>7, <2>9
<1>7. ASSUME UsdThrows PROVE Passed(b, u)' <=> Passed(b, u) \/ (b = AtBundle /\ AtUsd =< u)
  <2>1. pending # <<>> /\ Head(pending) # <<>> /\ items' = items /\ pending' = Tail(pending)
    BY <1>7, CoreParts DEF UsdThrows
  <2>2. Passed(b, u)' <=> b =< AtBundle
    BY <1>4, <2>1
  <2>3. Passed(b, u) <=> b < AtBundle \/ (b = AtBundle /\ u =< Len(items[b]) - Len(Head(pending)))
    BY <2>1 DEF Passed
  <2>4. /\ AtUsd = Len(items[AtBundle]) - Len(Head(pending)) + 1
        /\ Len(items[AtBundle]) \in Nat /\ Len(Head(pending)) \in Nat /\ AtBundle \in Nat
    BY <1>5, <2>1
  <2>5. b = AtBundle => u =< Len(items[b]) - Len(Head(pending)) \/ AtUsd =< u
    <3> SUFFICES ASSUME b = AtBundle
                 PROVE  u =< Len(items[b]) - Len(Head(pending)) \/ AtUsd =< u
      OBVIOUS
    <3>1. u \in Nat /\ Len(items[b]) \in Nat /\ Len(Head(pending)) \in Nat
          /\ AtUsd = Len(items[b]) - Len(Head(pending)) + 1
      BY <1>2, <1>3, <2>4
    <3> QED  BY ONLY <3>1, PlaceParts
  <2>6. b =< AtBundle <=> b < AtBundle \/ b = AtBundle
    BY <1>2, <2>4
  <2> QED  BY <2>2, <2>3, <2>5, <2>6
<1>8. ASSUME EndBundle PROVE Passed(b, u)' <=> Passed(b, u)
  <2>1. pending # <<>> /\ Head(pending) = <<>> /\ items' = items /\ pending' = Tail(pending)
    BY <1>8 DEF EndBundle, Idle
  <2>2. Passed(b, u)' <=> b =< AtBundle
    BY <1>4, <2>1
  <2>3. Len(Head(pending)) = 0
    BY <2>1
  <2>4. Passed(b, u) <=> b < AtBundle \/ (b = AtBundle /\ u =< Len(items[b]) - 0)
    BY <2>1, <2>3 DEF Passed
  <2>5. AtBundle \in Nat /\ u =< Len(items[b]) - 0
    BY <1>2, <1>3, <1>5, <2>1
  <2>6. b =< AtBundle <=> b < AtBundle \/ b = AtBundle
    BY <1>2, <2>5
  <2> QED  BY <2>2, <2>4, <2>5, <2>6
<1>9. ASSUME pending' = pending, items' = items PROVE Passed(b, u)' <=> Passed(b, u)
  BY <1>9 DEF Passed, AtBundle
<1>10. pending # <<>> /\ Head(pending) # <<>> => ~Passed(AtBundle, AtUsd)
  <2> SUFFICES ASSUME pending # <<>>, Head(pending) # <<>> PROVE ~Passed(AtBundle, AtUsd)
    OBVIOUS
  <2>1. /\ AtUsd = Len(items[AtBundle]) - Len(Head(pending)) + 1 /\ AtBundle \in Nat
        /\ Len(items[AtBundle]) \in Nat /\ Len(Head(pending)) \in Nat
    BY <1>5
  <2> QED  BY <2>1 DEF Passed
<1> QED  BY <1>6, <1>7, <1>8, <1>9, <1>10
         DEF Next, BeginUsd, CreateStream, StartStream, DropStream, ThreadReady, vars

(* What is to be started, one step later.                                  *)
LEMMA AheadTail ==
  ASSUME NEW S, setup \in Seq(S), setup # <<>>, setup' = Tail(setup), NEW i
  PROVE  Ahead(i) <=> Ahead(i)' \/ setup[1] = <<"start", i>>
<1>1. /\ \A k \in 1 .. Len(Tail(setup)) : Tail(setup)[k] = setup[k + 1] /\ k + 1 \in 1 .. Len(setup)
      /\ \A k \in 1 .. Len(setup) :
           k # 1 => k - 1 \in 1 .. Len(Tail(setup)) /\ Tail(setup)[k - 1] = setup[k]
      /\ 1 \in 1 .. Len(setup)
  BY TailParts
<1>2. Ahead(i)' <=> \E k \in 1 .. Len(Tail(setup)) : Tail(setup)[k] = <<"start", i>>
  BY DEF Ahead
<1>3. ASSUME NEW k \in 1 .. Len(setup), setup[k] = <<"start", i>>, k # 1 PROVE Ahead(i)'
  BY <1>1, <1>2, <1>3
<1>4. Ahead(i)' => Ahead(i)
  BY <1>1, <1>2 DEF Ahead
<1> QED  BY <1>1, <1>3, <1>4 DEF Ahead

(* A start is first done, then no longer ahead; the other steps leave what *)
(* is started.                                                             *)
LEMMA StartedStep ==
  ASSUME ConstantsAssumption, Core, CreateStream \/ StartStream \/ DropStream
  PROVE  /\ service # 0 /\ service' = service /\ pending' = pending /\ items' = items
         /\ setting' = setting /\ Usd' = Usd
         /\ Position \in DOMAIN Usd.streams
         /\ CreateStream \/ DropStream =>
              \A i \in DOMAIN Usd.streams : (Ahead(i)' <=> Ahead(i)) /\ (Started(i)' <=> Started(i))
         /\ StartStream =>
              /\ Ahead(Position) /\ Position \in DOMAIN made
              /\ Current = made[Position] /\ Current.of = Usd.streams[Position]
              /\ \A i : i = Position => Started(i)' /\ (Default => ~Ahead(i)')
              /\ \A i \in DOMAIN Usd.streams :
                   /\ Ahead(i) <=> Ahead(i)' \/ i = Position
                   /\ Usd.streams[i].path # Current.of.path => (Started(i)' <=> Started(i))
<1>1. /\ Place /\ Setup /\ Streams /\ content \in Seq(SUBSET Stream)
  BY CoreParts
<1>2. /\ service # 0 /\ service' = service /\ pending' = pending /\ items' = items
      /\ setting' = setting /\ Usd' = Usd /\ setup # <<>> /\ setup' = Tail(setup)
  BY DEF CreateStream, StartStream, DropStream, Step, Usd
<1>3. setup \in Seq(StepsOf(Usd))
  BY <1>1, <1>2 DEF Setup, DefaultAhead, MethodAhead
<1>4. /\ Position \in DOMAIN Usd.streams /\ Position = setup[1][2]
      /\ setup[1] = Head(setup) /\ setup[1] = <<setup[1][1], setup[1][2]>>
  BY <1>1, <1>2, FirstStep
<1>5. \A i : Ahead(i) <=> Ahead(i)' \/ setup[1] = <<"start", i>>
  BY <1>2, <1>3, AheadTail
<1>6. CreateStream => setup[1][1] = "create"
  BY <1>4 DEF CreateStream, Step
<1>7. DropStream => setup[1][1] = "drop" /\ Step("drop")
  BY <1>4 DEF DropStream, Step
<1>8. StartStream => setup[1][1] = "start" /\ Step("start")
  BY <1>4 DEF StartStream, Step
<1>9. CreateStream \/ DropStream => \A i : Ahead(i)' <=> Ahead(i)
  BY <1>5, <1>6, <1>7
<1>10. StartStream => \A i : Ahead(i) <=> Ahead(i)' \/ i = Position
  BY <1>4, <1>5, <1>8
<1>11. ASSUME CreateStream, NEW i \in DOMAIN Usd.streams PROVE Started(i)' <=> Started(i)
  <2>1. CASE Default
    <3>1. Default'
      BY <1>2, <2>1 DEF Default
    <3> QED  BY <1>9, <1>11, <2>1, <3>1 DEF Started
  <2>2. CASE ~Default
    <3> DEFINE s == [n |-> born + 1, of |-> Usd.streams[Position]]
    <3>1. /\ s \notin DOMAIN thread /\ Position \notin DOMAIN made
          /\ DOMAIN made' = DOMAIN made \cup {Position} /\ made'[Position] = s
          /\ \A j \in DOMAIN made : made'[j] = made[j]
      BY <1>1, <1>11, CreateStreams
    <3> HIDE DEF s
    <3>2. content' = content /\ ~Default'
      BY <1>2, <1>11, <2>2 DEF CreateStream, Default
    <3>3. content[service] \subseteq DOMAIN thread
      <4> DEFINE kept == Kept(registered, service)
      <4>1. DOMAIN thread = Held(kept, content, made)
        BY <1>1 DEF Streams
      <4>2. service \in kept
        BY <1>2, KeptParts
      <4> HIDE DEF kept
      <4> QED  BY <4>1, <4>2, HeldParts
    <3> QED  BY <1>2, <2>2, <3>1, <3>2, <3>3 DEF Started
  <2> QED  BY <2>1, <2>2
<1>12. ASSUME DropStream, NEW i \in DOMAIN Usd.streams PROVE Started(i)' <=> Started(i)
  <2>1. Default /\ Default'
    BY <1>1, <1>2, <1>7, <1>12, FirstStep DEF Default
  <2> QED  BY <1>9, <1>12, <2>1 DEF Started
<1>13. ASSUME StartStream
       PROVE  /\ Ahead(Position) /\ Position \in DOMAIN made
              /\ Current = made[Position] /\ Current.of = Usd.streams[Position]
              /\ \A i : i = Position => Started(i)' /\ (Default => ~Ahead(i)')
              /\ \A i \in DOMAIN Usd.streams :
                   Usd.streams[i].path # Current.of.path => (Started(i)' <=> Started(i))
  <2>1. /\ Position \in DOMAIN made /\ Current.of = Usd.streams[Position]
        /\ Replacing[service] = {old \in content[service] : old.of.path # Current.of.path} \cup {Current}
        /\ content' = Replacing /\ made' = made
    BY <1>1, <1>13, StartParts DEF StartStream, Replacing, Current
  <2>2. Current = made[Position]
    BY DEF Current
  <2>3. ASSUME NEW i, i = Position, Default PROVE ~Ahead(i)'
    <3> SUFFICES ASSUME NEW k \in 1 .. Len(Tail(setup)), Tail(setup)[k] = <<"start", i>>
                 PROVE  FALSE
      BY <1>2 DEF Ahead
    <3>1. DefaultAhead(setup, Usd)
      BY <1>1, <1>2, <2>3 DEF Setup, Default
    <3>2. /\ DefaultAhead(Tail(setup), Usd) /\ Tail(setup) # <<>>
          /\ Tail(setup)[1] = <<"drop", i>>
      BY <1>2, <1>4, <1>8, <1>13, <2>3, <3>1, DefaultTail
    <3>3. 1 \in 1 .. Len(Tail(setup)) /\ k # 1 /\ 1 < k
      <4>1. Tail(setup) \in Seq(StepsOf(Usd))
        BY <3>2 DEF DefaultAhead
      <4>2. 1 \in 1 .. Len(Tail(setup))
        BY <3>2, <4>1
      <4> QED  BY <3>2, <4>2
    <3>4. Tail(setup)[1][1] = "drop" /\ Tail(setup)[1][2] = i /\ Tail(setup)[k][2] = i
      BY <3>2
    <3>5. Tail(setup)[1][2] < Tail(setup)[k][2]
      BY <3>2, <3>3, <3>4 DEF DefaultAhead
    <3>6. i \in Nat
      <4>1. Usd \in Description
        BY <1>2, CoreParts
      <4> QED  BY <1>4, <2>3, <4>1 DEF Description
    <3> QED  BY <3>4, <3>5, <3>6
  <2>4. ASSUME NEW i, i = Position PROVE Started(i)'
    <3>1. CASE Default
      BY <1>2, <2>3, <2>4, <3>1 DEF Started, Default
    <3>2. CASE ~Default
      <4>1. ~Default' /\ content'[service'] = Replacing[service] /\ made'[i] = Current
            /\ i \in DOMAIN made'
        BY <1>2, <2>1, <2>2, <2>4, <3>2 DEF Default
      <4>2. Current \in content'[service']
        BY <2>1, <4>1
      <4> QED  BY <4>1, <4>2 DEF Started
    <3> QED  BY <3>1, <3>2
  <2>5. ASSUME NEW i \in DOMAIN Usd.streams, Usd.streams[i].path # Current.of.path
        PROVE  Started(i)' <=> Started(i)
    <3>1. CASE Default
      <4>1. Default' /\ i # Position
        BY <1>2, <2>1, <2>5, <3>1 DEF Default
      <4> QED  BY <1>10, <1>13, <3>1, <4>1 DEF Started
    <3>2. CASE ~Default
      <4>1. ~Default' /\ content'[service'] = Replacing[service] /\ made' = made
        BY <1>2, <2>1, <3>2 DEF Default
      <4>2. i \in DOMAIN made => made[i].of = Usd.streams[i]
        BY <1>1, <1>2 DEF Setup
      <4>3. i \in DOMAIN made => (made[i] \in Replacing[service] <=> made[i] \in content[service])
        BY <2>1, <2>5, <4>2
      <4> QED  BY <3>2, <4>1, <4>3 DEF Started
    <3> QED  BY <3>1, <3>2
  <2>6. Ahead(Position)
    BY <1>10, <1>13
  <2> QED  BY <2>1, <2>2, <2>3, <2>4, <2>5, <2>6
<1> QED  BY <1>2, <1>4, <1>9, <1>10, <1>11, <1>12, <1>13

Received == \E bundle \in setting.bundles : Receive(bundle)

(* A new pass starts from the first bundle.                                *)
LEMMA ReceiveHandles ==
  ASSUME ConstantsAssumption, Core, Received, NEW b, NEW u, NEW i, IsPlace(b, u, i)'
  PROVE  ~Handled(b, u, i)'
<1>1. PICK bundle \in setting.bundles : Receive(bundle)
  BY DEF Received
<1>2. items \in Seq(Seq(Description)) /\ Len(items) \in Nat /\ setting.bundles \subseteq Seq(Description)
  BY BundlesOfDescriptions DEF Core
<1>3. bundle \in Seq(Description) /\ items' = Append(items, bundle) /\ pending' = items'
      /\ service' = service /\ service = 0
  BY <1>1, <1>2 DEF Receive, WithItems, Idle, Core, Place
<1>4. items' \in Seq(Seq(Description)) /\ Len(items') = Len(items) + 1 /\ items' # <<>>
  BY <1>2, <1>3
<1>5. Len(Tail(items')) = Len(items') - 1 /\ Head(items') = items'[1] /\ 1 \in 1 .. Len(items')
      /\ Len(items') \in Nat
  BY <1>4, TailParts
<1>6. AtBundle' = 1
  BY <1>3, <1>5 DEF AtBundle
<1>7. b \in 1 .. Len(items') /\ u \in 1 .. Len(items'[b])
  BY DEF IsPlace
<1>8. b = 1 => Len(items'[b]) - Len(Head(items')) = 0
  <2>1. items'[1] \in Seq(Description)
    BY <1>4, <1>5
  <2> QED  BY <1>5, <2>1
<1>9. ~Passed(b, u)'
  <2>1. ~(b < 1) /\ ~(u =< 0)
    BY <1>5, <1>7
  <2> QED  BY <1>3, <1>4, <1>6, <1>8, <2>1 DEF Passed
<1> QED  BY <1>3, <1>9 DEF Handled

(* All streams that have a start in the plan are to be started.            *)
LEMMA BeginAhead ==
  ASSUME ConstantsAssumption, Core, BeginUsd
  PROVE  /\ service = 0 /\ service' # 0 /\ Usd' = Usd /\ items' = items /\ pending' = pending
         /\ setting' = setting /\ DOMAIN made' = {}
         /\ pending # <<>> /\ Head(pending) # <<>>
         /\ Usd = items[AtBundle][AtUsd]
         /\ \A i \in DOMAIN Usd.streams : Runs(Usd.streams[i]) => Ahead(i)' /\ ~Started(i)'
<1>1. /\ service = 0 /\ Usd' = Usd /\ items' = items /\ pending' = pending
      /\ setting' = setting /\ made' = made
      /\ pending # <<>> /\ Head(pending) # <<>> /\ setup' = Plan(Usd)
  BY DEF BeginUsd, Usd, Idle
<1>2. service' # 0
  BY BeginStreams, CoreParts
<1>3. /\ Usd = items[AtBundle][AtUsd] /\ Usd \in Description
      /\ \A i \in DOMAIN Usd.streams : Usd.streams[i].method \in 1 .. Usd.methods
  BY <1>1, UsdAnnounced DEF Core
<1>4. DOMAIN made' = {}
  BY <1>1 DEF Core, Setup
<1>5. ASSUME NEW i \in DOMAIN Usd.streams, Runs(Usd.streams[i]) PROVE Ahead(i)' /\ ~Started(i)'
  <2>1. CASE Default
    <3>1. setup' = OneByOne(Usd) /\ HasSource(Usd.streams[i]) /\ Default'
      BY <1>1, <1>5, <2>1 DEF Plan, Default, Runs
    <3>2. \E k \in 1 .. Len(OneByOne(Usd)) : OneByOne(Usd)[k] = <<"start", i>>
      BY <1>3, <3>1, DefaultPlan
    <3> QED  BY <3>1, <3>2 DEF Ahead, Started
  <2>2. CASE ~Default
    <3>1. setup' = ByMethod(Usd) /\ ~Default'
      BY <1>1, <1>5, <2>2 DEF Plan, Default
    <3>2. \E k \in 1 .. Len(ByMethod(Usd)) : ByMethod(Usd)[k] = <<"start", i>>
      BY <1>3, MethodPlan
    <3> QED  BY <1>4, <3>1, <3>2 DEF Ahead, Started
  <2> QED  BY <2>1, <2>2
<1> QED  BY <1>1, <1>2, <1>3, <1>4, <1>5

(* What each step makes handled: a start its stream, the end of a setup    *)
(* its USD, and a failure the rest of its bundle.                          *)
LEMMA HandledStep ==
  ASSUME ConstantsAssumption, Core, [Next]_vars, ~Received,
         NEW b, NEW u, NEW i, IsPlace(b, u, i), Runs(items[b][u].streams[i])
  PROVE  /\ items' = items /\ setting' = setting
         /\ \/ StartStream /\ b = AtBundle /\ u = AtUsd /\ items[b][u].streams[i].path = Current.of.path
            \/ (EndUsd \/ UsdThrows) /\ b = AtBundle /\ AtUsd =< u
            \/ Handled(b, u, i)' <=> Handled(b, u, i)
         /\ (EndUsd \/ UsdThrows) /\ Handled(b, u, i) => Handled(b, u, i)'
<1>1. items' = items /\ setting' = setting
  BY DEF Next, BeginUsd, CreateStream, StartStream, DropStream, EndUsd, UsdThrows,
         EndBundle, ThreadReady, vars, Received
<1>2. service # 0 =>
        /\ Usd = items[AtBundle][AtUsd] /\ pending # <<>>
        /\ AtUsd \in Nat /\ AtBundle \in Nat
  BY CoreParts
<1>3. b \in 1 .. Len(items) /\ u \in 1 .. Len(items[b]) /\ i \in DOMAIN items[b][u].streams
  BY DEF IsPlace
<1>4. CASE CreateStream \/ StartStream \/ DropStream
  <2>1. /\ service # 0 /\ service' = service /\ pending' = pending
        /\ CreateStream \/ DropStream =>
             \A j \in DOMAIN Usd.streams : (Started(j)' <=> Started(j))
        /\ StartStream =>
             \A j \in DOMAIN Usd.streams :
                Usd.streams[j].path # Current.of.path => (Started(j)' <=> Started(j))
    BY <1>4, StartedStep
  <2>2. AtBundle' = AtBundle /\ AtUsd' = AtUsd /\ (Passed(b, u)' <=> Passed(b, u))
    BY <1>1, <2>1 DEF AtBundle, AtUsd, Passed
  <2>3. ~EndUsd /\ ~UsdThrows
    BY <2>1 DEF EndUsd, UsdThrows
  <2>4. CASE ~(b = AtBundle /\ u = AtUsd)
    BY <1>1, <2>2, <2>3, <2>4 DEF Handled
  <2>5. CASE b = AtBundle /\ u = AtUsd
    <3>1. items[b][u] = Usd /\ i \in DOMAIN Usd.streams
      BY <1>2, <1>3, <2>1, <2>5
    <3>2. (Usd.streams[i].path = Current.of.path /\ StartStream) \/ (Started(i)' <=> Started(i))
      BY <1>4, <2>1, <3>1
    <3> QED  BY <1>1, <2>1, <2>2, <2>3, <2>5, <3>1, <3>2 DEF Handled
  <2> QED  BY <2>4, <2>5
<1>5. CASE BeginUsd
  <2>1. /\ service = 0 /\ service' # 0 /\ Usd' = Usd /\ pending' = pending
        /\ Usd = items[AtBundle][AtUsd]
        /\ \A j \in DOMAIN Usd.streams : Runs(Usd.streams[j]) => ~Started(j)'
    BY <1>5, BeginAhead
  <2>2. AtBundle' = AtBundle /\ AtUsd' = AtUsd /\ (Passed(b, u)' <=> Passed(b, u))
    BY <1>1, <2>1 DEF AtBundle, AtUsd, Passed
  <2>3. ~EndUsd /\ ~UsdThrows
    BY <2>1 DEF EndUsd, UsdThrows
  <2> QED  BY <1>1, <1>3, <2>1, <2>2, <2>3 DEF Handled
<1>6. CASE EndUsd
  <2>1. (Passed(b, u)' <=> Passed(b, u) \/ (b = AtBundle /\ u = AtUsd))
    BY <1>6, PassedStep
  <2>2. service' = 0
    BY <1>6 DEF EndUsd
  <2>3. service # 0 /\ AtUsd =< AtUsd
    BY <1>2, <1>6 DEF EndUsd
  <2> QED  BY <1>1, <2>1, <2>2, <2>3, <1>6 DEF Handled
<1>7. CASE UsdThrows
  <2>1. (Passed(b, u)' <=> Passed(b, u) \/ (b = AtBundle /\ AtUsd =< u))
    BY <1>7, PassedStep
  <2>2. service' = 0
    BY <1>7 DEF UsdThrows
  <2>3. service # 0 /\ AtUsd =< AtUsd
    BY <1>2, <1>7 DEF UsdThrows
  <2> QED  BY <1>1, <2>1, <2>2, <2>3, <1>7 DEF Handled
<1>8. CASE EndBundle
  <2>1. (Passed(b, u)' <=> Passed(b, u))
    <3>1. ~(EndUsd \/ UsdThrows)
      BY <1>8 DEF EndBundle, EndUsd, UsdThrows
    <3> QED  BY <3>1, PassedStep DEF Received
  <2>2. service' = 0 /\ service = 0
    BY <1>8 DEF EndBundle
  <2>3. ~EndUsd /\ ~UsdThrows
    BY <2>2 DEF EndUsd, UsdThrows
  <2> QED  BY <1>1, <2>1, <2>2, <2>3 DEF Handled
<1>9. CASE ThreadReady \/ UNCHANGED vars
  <2>1. pending' = pending /\ service' = service /\ setup' = setup /\ made' = made /\ content' = content
    BY <1>9 DEF ThreadReady, vars
  <2>2. Handled(b, u, i)' <=> Handled(b, u, i)
    BY <1>1, <2>1 DEF Handled, Passed, AtBundle, AtUsd, Started, Ahead, Default
  <2> QED  BY <1>1, <2>2
<1> QED  BY <1>4, <1>5, <1>6, <1>7, <1>8, <1>9 DEF Next, Received

------------------------------------------------------------------------------
(* Where the streams of a service come from, and that those of a USD get   *)
(* there.                                                                  *)

(* Those that are not earlier ones come from the bundle in hand.           *)
Origins ==
  \A id \in ServiceId : \A n \in 1 .. Len(content) : Belongs(n, id) =>
    \A x \in content[n] : \E b, u, i :
      /\ Mentions(b, u, i, id, x.of.path) /\ x.of = items[b][u].streams[i]
      /\ x.n > earlier => b = AtBundle /\ Handled(b, u, i)

OncePer(usd) ==
  \A i, j \in DOMAIN usd.streams : usd.streams[i].path = usd.streams[j].path => i = j

Reaches ==
  service # 0 =>
    /\ \A i \in DOMAIN Usd.streams : Runs(Usd.streams[i]) =>
         Ahead(i) \/ \E x \in content[service] : x.of.path = Usd.streams[i].path
    /\ Default \/ OncePer(Usd) => \A i \in DOMAIN made : Runs(Usd.streams[i]) =>
         Ahead(i) \/ made[i] \in content[service]
    /\ ~Default => \A i \in DOMAIN Usd.streams : Ahead(i) \/ i \in DOMAIN made
    /\ Default => \A i \in DOMAIN Usd.streams : HasSource(Usd.streams[i]) /\ ~Ahead(i) =>
         \A k \in 1 .. Len(setup) :
           i =< setup[k][2] /\ (setup[k][1] # "drop" => i < setup[k][2])

(* A stream that is started has a start; one that is created and has one   *)
(* gets it.                                                                *)
LEMMA StartRuns ==
  ASSUME ConstantsAssumption, Core
  PROVE  /\ StartStream => Runs(Usd.streams[Position]) /\ (Default => DOMAIN made = {Position})
         /\ CreateStream /\ Runs(Usd.streams[Position]) => Ahead(Position)
<1>1. Setup /\ Place /\ Streams
  BY CoreParts
<1>2. ASSUME Step("start") PROVE Runs(Usd.streams[Position]) /\ (Default => DOMAIN made = {Position})
  <2>1. service # 0 /\ setup # <<>> /\ Head(setup)[1] = "start"
    BY <1>2 DEF Step
  <2>2. setup[1] = Head(setup) /\ Position = setup[1][2]
    BY <1>1, <2>1, FirstStep
  <2>3. Default => DefaultAhead(setup, Usd)
    BY <1>1, <2>1 DEF Setup, Default
  <2>4. Default => 1 \in 1 .. Len(setup)
    BY <2>1, <2>3, TailParts DEF DefaultAhead
  <2>5. Default => HasSource(Usd.streams[setup[1][2]])
    BY <2>1, <2>2, <2>3, <2>4 DEF DefaultAhead
  <2>6. Default => DOMAIN made = {Position}
    BY <1>1, <2>1, <2>2 DEF Setup, Default
  <2> QED  BY <2>2, <2>5, <2>6 DEF Runs
<1>3. ASSUME Step("create"), Runs(Usd.streams[Position]) PROVE Ahead(Position)
  <2>1. service # 0 /\ setup # <<>> /\ Head(setup)[1] = "create"
    BY <1>3 DEF Step
  <2>2. setup[1] = Head(setup) /\ Position = setup[1][2] /\ setup[1][1] = "create"
    BY <1>1, <2>1, FirstStep
  <2>3. CASE Default
    <3>1. DefaultAhead(setup, Usd) /\ HasSource(Usd.streams[setup[1][2]])
      BY <1>1, <1>3, <2>1, <2>2, <2>3 DEF Setup, Default, Runs
    <3>2. 1 \in 1 .. Len(setup)
      BY <2>1, <3>1, TailParts DEF DefaultAhead
    <3>3. 1 + 1 \in 1 .. Len(setup) /\ setup[1 + 1] = <<"start", setup[1][2]>>
      BY <2>2, <3>1, <3>2 DEF DefaultAhead
    <3> QED  BY <2>2, <3>3 DEF Ahead
  <2>4. CASE ~Default
    <3>1. MethodAhead(setup, Usd, DOMAIN made, Usd.methods)
      BY <1>1, <2>1, <2>4 DEF Setup, Default
    <3>2. 1 \in 1 .. Len(setup)
      BY <2>1, <3>1, TailParts DEF MethodAhead
    <3>3. \E l \in 1 .. Len(setup) : setup[l] = <<"start", setup[1][2]>>
      BY <2>2, <3>1, <3>2 DEF MethodAhead
    <3> QED  BY <2>2, <3>3 DEF Ahead
  <2> QED  BY <2>3, <2>4
<1> QED  BY <1>2, <1>3 DEF StartStream, CreateStream

(* The streams of a service are among those created.                       *)
LEMMA LiveNumbers ==
  ASSUME ConstantsAssumption, Core, NEW id \in ServiceId, NEW n \in 1 .. Len(content),
         Belongs(n, id), NEW x \in content[n]
  PROVE  x.n \in Nat /\ x.n =< born
<1>1. Streams
  BY DEF Core
<1>2. n \in Kept(registered, service)
  BY <1>1, KeptParts DEF Belongs, Streams
<1>3. x \in DOMAIN thread
  BY <1>1, <1>2, HeldParts DEF Streams
<1> QED  BY <1>1, <1>3 DEF Streams

(* The steps that neither begin nor end a bundle leave it in hand.         *)
LEMMA InHandStays ==
  ASSUME ConstantsAssumption, Core, [Next]_vars, ~Received, ~EndBundle, ~UsdThrows
  PROVE  AtBundle' = AtBundle /\ earlier' = earlier
<1>1. pending \in Seq(Seq(Description)) /\ (service # 0 => pending # <<>>)
  BY DEF Core, Place
<1>2. CASE EndUsd
  <2>1. /\ pending' = <<Tail(Head(pending))>> \o Tail(pending) /\ service # 0
        /\ items' = items /\ earlier' = earlier
    BY <1>2 DEF EndUsd
  <2> DEFINE h == Tail(Head(pending))
             t == Tail(pending)
  <2>0. pending # <<>> /\ Head(pending) # <<>> /\ Head(pending) \in Seq(Description)
        /\ Tail(pending) \in Seq(Seq(Description))
    BY <1>1, <2>1 DEF Core, Place
  <2>2. h \in Seq(Description) /\ t \in Seq(Seq(Description)) /\ pending' = <<h>> \o t
    BY <2>0, <2>1
  <2> HIDE DEF h, t
  <2>3. Tail(<<h>> \o t) = t
    BY <2>2
  <2>4. Tail(pending') = Tail(pending)
    BY <2>2, <2>3 DEF t
  <2> QED  BY <2>1, <2>4 DEF AtBundle
<1>3. CASE pending' = pending /\ items' = items /\ earlier' = earlier
  BY <1>3 DEF AtBundle
<1> QED  BY <1>2, <1>3 DEF Next, Received, BeginUsd, CreateStream, StartStream, DropStream,
                            ThreadReady, vars

(* Every step leaves each stream of a service one that was announced for   *)
(* it.                                                                     *)
LEMMA OriginsStep ==
  ASSUME ConstantsAssumption, Core, Services, Origins, [Next]_vars
  PROVE  Origins'
<1> SUFFICES ASSUME NEW id \in ServiceId, NEW n \in 1 .. Len(content'), Belongs(n, id)',
                    NEW x \in content'[n]
             PROVE  \E b, u, i : /\ Mentions(b, u, i, id, x.of.path)'
                                 /\ x.of = items'[b][u].streams[i]
                                 /\ x.n > earlier' => AtBundle' = b /\ Handled(b, u, i)'
  BY DEF Origins
<1>1. /\ n \in 1 .. Len(content) /\ Belongs(n, id)
      /\ \/ x \in content[n] /\ ~(StartStream /\ n = service /\ x.of.path = Current.of.path)
         \/ StartStream /\ n = service /\ x = Current
  BY OwnStep
<1>2. items \in Seq(Seq(Description)) /\ Len(items) \in Nat
  BY BundlesOfDescriptions DEF Core
<1>3. CASE x \in content[n] /\ ~(StartStream /\ n = service /\ x.of.path = Current.of.path)
  <2>1. PICK b, u, i : /\ Mentions(b, u, i, id, x.of.path) /\ x.of = items[b][u].streams[i]
                       /\ x.n > earlier => b = AtBundle /\ Handled(b, u, i)
    BY <1>1, <1>3 DEF Origins
  <2>2. /\ IsPlace(b, u, i) /\ items[b][u].id = id /\ items[b][u].streams[i].path = x.of.path
        /\ Runs(items[b][u].streams[i])
    BY <2>1 DEF Mentions
  <2>3. /\ IsPlace(b, u, i)' /\ items'[b] = items[b] /\ setting' = setting /\ Len(items') \in Nat
    BY <2>2, PlacesStay
  <2>4. Mentions(b, u, i, id, x.of.path)' /\ x.of = items'[b][u].streams[i]
    BY <2>1, <2>2, <2>3 DEF Mentions, Runs, Default
  <2>5. ASSUME x.n > earlier' PROVE AtBundle' = b /\ Handled(b, u, i)'
    <3>0. x.n \in Nat /\ x.n =< born /\ born \in Nat /\ Counted
      BY <1>1, <1>3, LiveNumbers DEF Core, Streams
    <3>1. ~Received
      BY <2>5, <3>0 DEF Received, Receive, Idle, Counted
    <3>2. ~EndBundle /\ ~UsdThrows
      BY <2>5, <3>0 DEF EndBundle, UsdThrows
    <3>4. AtBundle' = AtBundle /\ b = AtBundle /\ Handled(b, u, i)
      BY <2>1, <2>5, <3>1, <3>2, InHandStays
    <3>3. ~(StartStream /\ b = AtBundle /\ u = AtUsd /\ items[b][u].streams[i].path = Current.of.path)
      <4> SUFFICES ASSUME StartStream, b = AtBundle, u = AtUsd,
                          items[b][u].streams[i].path = Current.of.path
                   PROVE  FALSE
        OBVIOUS
      <4>1. service # 0
        BY DEF StartStream, Step
      <4>2. id = Usd.id
        BY <2>2, <4>1, CoreParts
      <4>3. n = service
        BY <1>1, <4>1, <4>2 DEF Belongs, Services
      <4> QED  BY <1>3, <2>2, <4>3
    <3> QED  BY <2>2, <3>1, <3>3, <3>4, HandledStep
  <2> QED  BY <2>4, <2>5
<1>4. CASE StartStream /\ n = service /\ x = Current
  <2>1. /\ service # 0 /\ service' = service /\ pending' = pending /\ items' = items
        /\ setting' = setting
        /\ Position \in DOMAIN Usd.streams
        /\ Current.of = Usd.streams[Position] /\ \A i : i = Position => Started(i)'
    BY <1>4, StartedStep
  <2>2. /\ AtBundle \in 1 .. Len(items) /\ AtUsd \in 1 .. Len(items[AtBundle])
        /\ Usd = items[AtBundle][AtUsd] /\ Usd.id \in ServiceId /\ Belongs(service, Usd.id)
        /\ service \in 1 .. Len(content)
    BY <2>1, CoreParts
  <2>3. id = Usd.id
    BY <1>1, <1>4, <2>2 DEF Services
  <2>4. Runs(Usd.streams[Position])
    BY <1>4, StartRuns
  <2>5. PICK b, u, i : b = AtBundle /\ u = AtUsd /\ i = Position
    OBVIOUS
  <2>6. Mentions(b, u, i, id, x.of.path)' /\ x.of = items'[b][u].streams[i]
    BY <1>4, <2>1, <2>2, <2>3, <2>4, <2>5 DEF Mentions, IsPlace, Runs, Default
  <2>7. AtBundle' = AtBundle /\ AtUsd' = AtUsd
    BY <2>1 DEF AtBundle, AtUsd
  <2>8. Handled(b, u, i)'
    BY <2>1, <2>5, <2>7 DEF Handled
  <2> QED  BY <2>5, <2>6, <2>7, <2>8
<1> QED  BY <1>1, <1>3, <1>4

(* Every step leaves what is to be started to be started, and what has     *)
(* been started in the service.                                            *)
LEMMA ReachesStep ==
  ASSUME ConstantsAssumption, Core, Reaches, [Next]_vars
  PROVE  Reaches'
<1>1. service' = 0 => Reaches'
  BY DEF Reaches
<1>2. ASSUME service' = service, setup' = setup, made' = made, content' = content, setting' = setting,
             pending' = pending \/ service = 0
      PROVE  Reaches'
  BY <1>2 DEF Reaches, Usd, Ahead, Runs, Default
<1>3. ASSUME BeginUsd PROVE Reaches'
  <2>1. /\ Usd' = Usd /\ setting' = setting /\ DOMAIN made' = {}
        /\ \A i \in DOMAIN Usd.streams : Runs(Usd.streams[i]) => Ahead(i)'
    BY <1>3, BeginAhead
  <2>2. (Default' <=> Default) /\ \A i \in DOMAIN Usd.streams : Runs(Usd.streams[i])' <=> Runs(Usd.streams[i])
    BY <2>1 DEF Default, Runs
  <2>3. \A i \in DOMAIN Usd.streams : ~Default \/ HasSource(Usd.streams[i]) => Runs(Usd.streams[i])
    BY DEF Runs
  <2> QED  BY <2>1, <2>2, <2>3 DEF Reaches
<1>4. ASSUME CreateStream \/ StartStream \/ DropStream
      PROVE  Reaches'
  <2>1. /\ service # 0 /\ service' = service /\ setting' = setting /\ Usd' = Usd
        /\ Position \in DOMAIN Usd.streams
        /\ CreateStream \/ DropStream => \A i \in DOMAIN Usd.streams : (Ahead(i)' <=> Ahead(i))
        /\ StartStream =>
              /\ Position \in DOMAIN made
              /\ Current = made[Position] /\ Current.of = Usd.streams[Position]
              /\ \A i \in DOMAIN Usd.streams : Ahead(i) <=> Ahead(i)' \/ i = Position
    BY <1>4, StartedStep
  <2>2. Setup /\ Place /\ Streams
    BY CoreParts
  <2>3. setup # <<>> /\ setup' = Tail(setup)
    BY <1>4 DEF CreateStream, StartStream, DropStream, Step
  <2>4. (Default' <=> Default) /\ \A i \in DOMAIN Usd.streams : Runs(Usd.streams[i])' <=> Runs(Usd.streams[i])
    BY <2>1 DEF Default, Runs
  <2>5. DOMAIN made \subseteq DOMAIN Usd.streams /\ \A i \in DOMAIN made : made[i].of = Usd.streams[i]
    BY <2>1, <2>2 DEF Setup
  <2>6. StartStream =>
          content'[service] = {old \in content[service] : old.of.path # Current.of.path} \cup {Current}
          /\ made' = made
    <3> SUFFICES ASSUME StartStream
                 PROVE  /\ content'[service] =
                             {old \in content[service] : old.of.path # Current.of.path} \cup {Current}
                        /\ made' = made
      OBVIOUS
    <3>1. content' = Replacing /\ made' = made
      BY DEF StartStream, Replacing, Current
    <3> QED  BY <2>2, <3>1, StartParts
  <2>7. ASSUME NEW i \in DOMAIN Usd.streams, Runs(Usd.streams[i])
        PROVE  Ahead(i)' \/ \E x \in content'[service] : x.of.path = Usd.streams[i].path
    <3>1. CASE StartStream
      <4>1. CASE i = Position
        BY <2>1, <2>6, <3>1, <4>1
      <4>2. CASE i # Position
        <5>1. Ahead(i)' \/ \E x \in content[service] : x.of.path = Usd.streams[i].path
          BY <2>1, <2>7, <3>1, <4>2 DEF Reaches
        <5>2. ASSUME NEW x \in content[service], x.of.path = Usd.streams[i].path
              PROVE  \E y \in content'[service] : y.of.path = Usd.streams[i].path
          <6>1. CASE x.of.path = Current.of.path
            BY <2>6, <3>1, <5>2, <6>1
          <6>2. CASE x.of.path # Current.of.path
            BY <2>6, <3>1, <5>2, <6>2
          <6> QED  BY <6>1, <6>2
        <5> QED  BY <5>1, <5>2
      <4> QED  BY <4>1, <4>2
    <3>2. CASE CreateStream \/ DropStream
      <4>1. content' = content
        BY <3>2 DEF CreateStream, DropStream
      <4> QED  BY <2>1, <2>7, <3>2, <4>1 DEF Reaches
    <3> QED  BY <1>4, <3>1, <3>2
  <2>8. ASSUME Default \/ OncePer(Usd), NEW i \in DOMAIN made', Runs(Usd.streams[i])
        PROVE  Ahead(i)' \/ made'[i] \in content'[service]
    <3>1. CASE CreateStream
      <4> DEFINE s == [n |-> born + 1, of |-> Usd.streams[Position]]
      <4>1. /\ DOMAIN made' = DOMAIN made \cup {Position}
            /\ \A j \in DOMAIN made : made'[j] = made[j]
        BY <2>2, <3>1, CreateStreams
      <4>2. content' = content
        BY <3>1 DEF CreateStream
      <4>3. CASE i = Position
        BY <2>1, <2>8, <3>1, <4>3, StartRuns
      <4>4. CASE i \in DOMAIN made
        BY <2>1, <2>5, <2>8, <3>1, <4>1, <4>2, <4>4 DEF Reaches
      <4> QED  BY <4>1, <4>3, <4>4
    <3>2. CASE DropStream
      <4>1. content' = content /\ i \in DOMAIN made /\ made'[i] = made[i]
        BY <2>8, <3>2 DEF DropStream, Restrict
      <4> QED  BY <2>1, <2>5, <2>8, <3>2, <4>1 DEF Reaches
    <3>3. CASE StartStream
      <4>1. CASE i = Position
        BY <2>1, <2>6, <3>3, <4>1
      <4>2. CASE i # Position
        <5>1. i \in DOMAIN made /\ made'[i] = made[i]
          BY <2>6, <2>8, <3>3
        <5>2. ~Default
          BY <3>3, <4>2, <5>1, StartRuns
        <5>3. Usd.streams[i].path # Usd.streams[Position].path
          BY <2>1, <2>5, <2>8, <4>2, <5>1, <5>2 DEF OncePer
        <5>4. Ahead(i)' \/ made[i] \in content[service]
          BY <2>1, <2>5, <2>8, <3>3, <4>2, <5>1 DEF Reaches
        <5>5. made[i].of.path # Current.of.path
          BY <2>1, <2>5, <3>3, <5>1, <5>3
        <5> QED  BY <2>6, <3>3, <5>1, <5>4, <5>5
      <4> QED  BY <4>1, <4>2
    <3> QED  BY <1>4, <3>1, <3>2, <3>3
  <2>9. ASSUME ~Default, NEW i \in DOMAIN Usd.streams PROVE Ahead(i)' \/ i \in DOMAIN made'
    <3>1. Ahead(i) \/ i \in DOMAIN made
      BY <2>1, <2>9 DEF Reaches
    <3>2. CASE CreateStream
      BY <2>1, <2>2, <3>1, <3>2, CreateStreams
    <3>3. CASE StartStream
      BY <2>1, <2>6, <3>1, <3>3
    <3>4. CASE DropStream
      <4>1. Default
        BY <2>1, <2>2, <2>3, <3>4, FirstStep DEF Default, DropStream
      <4> QED  BY <2>9, <4>1
    <3> QED  BY <1>4, <3>2, <3>3, <3>4
  <2>10. ASSUME Default, NEW i \in DOMAIN Usd.streams, HasSource(Usd.streams[i]), ~Ahead(i)',
                NEW k \in 1 .. Len(setup')
         PROVE  i =< setup'[k][2] /\ (setup'[k][1] # "drop" => i < setup'[k][2])
    <3>1. DefaultAhead(setup, Usd)
      BY <2>1, <2>2, <2>10 DEF Setup, Default
    <3>2. setup'[k] = setup[k + 1] /\ k + 1 \in 1 .. Len(setup)
      <4>1. setup \in Seq(StepsOf(Usd))
        BY <3>1 DEF DefaultAhead
      <4> QED  BY <2>3, <2>10, <4>1, TailParts
    <3>3. CASE ~Ahead(i)
      BY <2>1, <2>10, <3>2, <3>3 DEF Reaches
    <3>4. CASE Ahead(i)
      <4>1. StartStream /\ i = Position
        BY <1>4, <2>1, <2>10, <3>4
      <4>2. setup[1][1] = "start" /\ setup[1][2] = i
        BY <2>1, <2>2, <2>3, <4>1, FirstStep DEF StartStream, Step
      <4>3. DefaultAhead(setup', Usd) /\ setup' # <<>> /\ setup'[1] = <<"drop", i>>
        BY <2>3, <3>1, <4>2, DefaultTail
      <4>4. setup'[1][1] = "drop" /\ setup'[1][2] = i /\ 1 \in 1 .. Len(setup')
        <5>1. setup' \in Seq(StepsOf(Usd))
          BY <4>3 DEF DefaultAhead
        <5> QED  BY <4>3, <5>1, TailParts
      <4>5. i \in Nat
        <5>1. Usd \in Description
          BY <2>1, CoreParts
        <5> QED  BY <5>1 DEF Description
      <4>6. CASE k = 1
        BY <4>4, <4>5, <4>6
      <4>7. CASE k # 1
        <5>1. 1 < k
          BY <4>4, <4>7
        <5>2. i < setup'[k][2]
          BY <4>3, <4>4, <5>1 DEF DefaultAhead
        <5>3. setup'[k][2] \in Nat
          <6>1. setup' \in Seq(StepsOf(Usd))
            BY <4>3 DEF DefaultAhead
          <6>2. setup'[k] \in StepsOf(Usd)
            BY <6>1
          <6>3. setup'[k][2] \in DOMAIN Usd.streams
            BY <6>2, StepParts
          <6>4. Usd \in Description
            BY <2>1, CoreParts
          <6> QED  BY <6>3, <6>4 DEF Description
        <5> QED  BY <4>5, <5>2, <5>3
      <4> QED  BY <4>6, <4>7
    <3> QED  BY <3>3, <3>4
  <2>11. /\ \A i \in DOMAIN Usd'.streams : Runs(Usd.streams[i])' =>
              Ahead(i)' \/ \E x \in content'[service'] : x.of.path = Usd'.streams[i].path
    BY <2>1, <2>4, <2>7
  <2>12. (Default \/ OncePer(Usd))' => \A i \in DOMAIN made' : Runs(Usd.streams[i])' =>
           Ahead(i)' \/ made'[i] \in content'[service']
    <3>1. (Default \/ OncePer(Usd))' => Default \/ OncePer(Usd)
      BY <2>1, <2>4 DEF OncePer
    <3>2. DOMAIN made' \subseteq DOMAIN Usd'.streams
      BY <2>1, SetupStep DEF Core, Setup
    <3> QED  BY <2>1, <2>4, <2>8, <3>1, <3>2
  <2>13. ~Default' => \A i \in DOMAIN Usd'.streams : Ahead(i)' \/ i \in DOMAIN made'
    BY <2>1, <2>4, <2>9
  <2>14. Default' => \A i \in DOMAIN Usd'.streams : HasSource(Usd'.streams[i]) /\ ~Ahead(i)' =>
           \A k \in 1 .. Len(setup') :
             i =< setup'[k][2] /\ (setup'[k][1] # "drop" => i < setup'[k][2])
    BY <2>1, <2>4, <2>10
  <2> QED  BY <2>11, <2>12, <2>13, <2>14 DEF Reaches
<1>5. EndUsd \/ UsdThrows => Reaches'
  BY <1>1 DEF EndUsd, UsdThrows
<1>6. EndBundle \/ ThreadReady \/ UNCHANGED vars => Reaches'
  BY <1>2 DEF EndBundle, ThreadReady, vars
<1>7. ASSUME NEW bundle \in setting.bundles, Receive(bundle) PROVE Reaches'
  <2>1. service = 0
    BY <1>7 DEF Receive, Idle, Core, Place
  <2> QED  BY <1>2, <1>7, <2>1 DEF Receive
<1> QED  BY <1>3, <1>4, <1>5, <1>6, <1>7 DEF Next

------------------------------------------------------------------------------
(* A bundle that loses no stream.                                          *)

(* What such a bundle says of its USDs.                                    *)
LEMMA LosslessParts ==
  ASSUME ConstantsAssumption, Core, service # 0, ~Loses(setting, InHand)
  PROVE  /\ ~Usd.malformed /\ OncePer(Usd)
         /\ \A i \in DOMAIN Usd.streams : Runs(Usd.streams[i])
         /\ \A u, i, j : Mentions(AtBundle, u, i, Usd.id, Usd.streams[j].path) /\ j \in DOMAIN Usd.streams
              => u = AtUsd /\ i = j
<1>1. /\ AtBundle \in 1 .. Len(items) /\ AtUsd \in 1 .. Len(items[AtBundle])
      /\ Usd = items[AtBundle][AtUsd]
  BY CoreParts
<1>2. /\ items \in Seq(Seq(Description)) /\ Len(items) \in Nat /\ items[AtBundle] \in Seq(Description)
  BY <1>1, BundlesOfDescriptions DEF Core
<1>3. AtBundle \in DOMAIN items /\ AtUsd \in DOMAIN items[AtBundle]
  BY <1>1, <1>2
<1>4. ~Loses(setting, items[AtBundle])
  BY DEF InHand, AtBundle
<1>5. ~Usd.malformed /\ \A i \in DOMAIN Usd.streams : Runs(Usd.streams[i])
  BY <1>1, <1>3, <1>4 DEF Loses, Runs, Default
<1>6. OncePer(Usd)
  <2> SUFFICES ASSUME NEW i \in DOMAIN Usd.streams, NEW j \in DOMAIN Usd.streams,
                      Usd.streams[i].path = Usd.streams[j].path
               PROVE  i = j
    BY DEF OncePer
  <2>1. <<AtUsd, i>> = <<AtUsd, j>>
    BY <1>1, <1>3, <1>4 DEF Loses
  <2> QED  BY <2>1
<1>7. ASSUME NEW u, NEW i, NEW j, Mentions(AtBundle, u, i, Usd.id, Usd.streams[j].path),
             j \in DOMAIN Usd.streams
      PROVE  u = AtUsd /\ i = j
  <2>1. /\ u \in 1 .. Len(items[AtBundle]) /\ i \in DOMAIN items[AtBundle][u].streams
        /\ items[AtBundle][u].id = Usd.id
        /\ items[AtBundle][u].streams[i].path = Usd.streams[j].path
    BY <1>7 DEF Mentions, IsPlace
  <2>2. u \in DOMAIN items[AtBundle]
    BY <1>2, <2>1
  <2>3. <<u, i>> = <<AtUsd, j>>
    BY <1>1, <1>3, <1>4, <1>7, <2>1, <2>2 DEF Loses
  <2> QED  BY <2>3
<1> QED  BY <1>5, <1>6, <1>7

(* A stream that is dropped is not started any more.                       *)
LEMMA DropDone ==
  ASSUME ConstantsAssumption, Core, DropStream
  PROVE  service # 0 /\ Default /\ Position \in DOMAIN made /\ ~Ahead(Position)
<1>1. /\ Place /\ Setup /\ service # 0 /\ setup # <<>> /\ Step("drop") /\ Head(setup)[1] = "drop"
  BY CoreParts DEF DropStream, Step
<1>2. /\ Position \in DOMAIN made /\ Default /\ setup[1] = Head(setup) /\ Position = setup[1][2]
      /\ Position \in DOMAIN Usd.streams
  BY <1>1, FirstStep DEF Default
<1>3. DefaultAhead(setup, Usd)
  BY <1>1, <1>2 DEF Setup, Default
<1>4. ASSUME NEW k \in 1 .. Len(setup), setup[k] = <<"start", Position>> PROVE FALSE
  <2>1. setup \in Seq(StepsOf(Usd))
    BY <1>3 DEF DefaultAhead
  <2>2. k # 1
    BY <1>1, <1>2, <1>4
  <2>3. 1 \in 1 .. Len(setup) /\ 1 < k
    BY <1>1, <2>1, <2>2
  <2>4. Position < setup[k][2]
    BY <1>1, <1>2, <1>3, <2>3 DEF DefaultAhead
  <2>5. Position \in Nat
    <3>1. Usd \in Description
      BY <1>1, CoreParts
    <3> QED  BY <1>2, <3>1 DEF Description
  <2> QED  BY <1>4, <2>4, <2>5
<1> QED  BY <1>1, <1>2, <1>4 DEF Ahead

(* Such a bundle takes from its services earlier streams only.             *)
LEMMA LosslessKeeps ==
  ASSUME ConstantsAssumption, Core, Services, OnePath, Origins, Reaches, service # 0,
         ~Loses(setting, InHand)
  PROVE  /\ StartStream => \A x \in DOMAIN thread : x.n > earlier =>
                           x \in Held(Kept(registered, service), Replacing, made)
         /\ DropStream => DOMAIN thread \subseteq Held(Kept(registered, service), content, made')
         /\ EndUsd => DOMAIN thread \subseteq Held(Kept(registered', 0), content, <<>>)
         /\ ~UsdThrows
<1>1. /\ Place /\ Setup /\ Streams
      /\ content \in Seq(SUBSET Stream) /\ Len(content) \in Nat
      /\ registered \in [ServiceId -> 0 .. Len(content)]
      /\ service \in 0 .. Len(content)
      /\ service # 0 =>
           /\ service \in 1 .. Len(content) /\ pending # <<>> /\ Head(pending) # <<>>
           /\ Usd.id \in ServiceId /\ Belongs(service, Usd.id)
           /\ AtBundle \in 1 .. Len(items) /\ Usd = items[AtBundle][AtUsd]
  BY CoreParts
<1>2. service # 0 =>
        /\ ~Usd.malformed /\ OncePer(Usd)
        /\ \A i \in DOMAIN Usd.streams : Runs(Usd.streams[i])
        /\ \A u, i, j : Mentions(AtBundle, u, i, Usd.id, Usd.streams[j].path) /\ j \in DOMAIN Usd.streams
              => u = AtUsd /\ i = j
  BY LosslessParts
<1>3. ASSUME NEW x \in DOMAIN thread
      PROVE  (\E n \in Kept(registered, service) : x \in content[n]) \/ (\E i \in DOMAIN made : x = made[i])
  BY <1>1, HeldParts DEF Streams
<1>4. ASSUME StartStream, NEW x \in DOMAIN thread, x.n > earlier
      PROVE  x \in Held(Kept(registered, service), Replacing, made)
  <2>1. /\ service # 0 /\ Position \in DOMAIN Usd.streams /\ Ahead(Position)
        /\ Current = made[Position] /\ Current.of = Usd.streams[Position]
    BY <1>4, StartedStep
  <2>2. /\ service \in Kept(registered, service) /\ Position \in DOMAIN made
        /\ Replacing[service] = {old \in content[service] : old.of.path # Current.of.path} \cup {Current}
        /\ \A n \in 1 .. Len(content) : n # service => Replacing[n] = content[n]
        /\ Current \in Held(Kept(registered, service), Replacing, made)
    BY <1>1, <1>4, StartParts
  <2>3. CASE \E i \in DOMAIN made : x = made[i]
    BY <2>3, HeldParts
  <2>4. ASSUME NEW n \in Kept(registered, service), x \in content[n]
        PROVE  x \in Held(Kept(registered, service), Replacing, made)
    <3>1. n \in 1 .. Len(content)
      BY <1>1, KeptParts
    <3>2. CASE n # service \/ x.of.path # Current.of.path
      <4>1. x \in Replacing[n]
        BY <2>2, <2>4, <3>1, <3>2
      <4> QED  BY <4>1, HeldParts
    <3>3. CASE n = service /\ x.of.path = Current.of.path
      <4>1. PICK b, u, i : Mentions(b, u, i, Usd.id, x.of.path) /\ b = AtBundle /\ Handled(b, u, i)
        BY <1>1, <1>4, <2>1, <2>4, <3>3 DEF Origins
      <4>2. b = AtBundle /\ u = AtUsd /\ i = Position
        <5>1. x.of.path = Usd.streams[Position].path
          BY <2>1, <3>3
        <5>2. Mentions(AtBundle, u, i, Usd.id, Usd.streams[Position].path)
          BY <4>1, <5>1
        <5> QED  BY <1>2, <2>1, <4>1, <5>2
      <4>3. Handled(AtBundle, AtUsd, Position)
        BY <4>1, <4>2
      <4>4. ~Passed(AtBundle, AtUsd)
        <5>1. IsPlace(b, u, i)
          BY <4>1 DEF Mentions
        <5> QED  BY <1>1, <1>4, <2>1, <5>1, PassedStep DEF Next
      <4>5. Started(Position)
        BY <4>3, <4>4 DEF Handled
      <4>6. Current \in content[service]
        BY <2>1, <4>5 DEF Started
      <4>7. x = Current
        BY <1>1, <2>1, <2>4, <3>3, <4>6 DEF OnePath
      <4> QED  BY <2>2, <4>7
    <3> QED  BY <3>2, <3>3
  <2> QED  BY <1>3, <1>4, <2>3, <2>4
<1>5. ASSUME DropStream, NEW x \in DOMAIN thread
      PROVE  x \in Held(Kept(registered, service), content, made')
  <2>1. /\ service # 0 /\ setup # <<>> /\ Step("drop") /\ made' = Restrict(made, DOMAIN made \ {Position})
        /\ Head(setup)[1] = "drop"
    BY <1>5 DEF DropStream, Step
  <2>2. /\ Position \in DOMAIN made /\ Default /\ setup[1] = Head(setup) /\ Position = setup[1][2]
        /\ Position \in DOMAIN Usd.streams
    BY <1>1, <2>1, FirstStep DEF Default
  <2>3. ~Ahead(Position)
    BY <1>5, DropDone
  <2>4. made[Position] \in content[service]
    BY <1>2, <2>1, <2>2, <2>3 DEF Reaches
  <2>5. service \in Kept(registered, service)
    BY <2>1, KeptParts
  <2>6. CASE \E n \in Kept(registered, service) : x \in content[n]
    BY <2>6, HeldParts
  <2>7. ASSUME NEW i \in DOMAIN made, x = made[i]
        PROVE  x \in Held(Kept(registered, service), content, made')
    <3>1. CASE i = Position
      BY <2>4, <2>5, <2>7, <3>1, HeldParts
    <3>2. CASE i # Position
      <4>1. i \in DOMAIN made' /\ x = made'[i]
        BY <2>1, <2>7, <3>2 DEF Restrict
      <4> QED  BY <4>1, HeldParts
    <3> QED  BY <3>1, <3>2
  <2> QED  BY <1>3, <1>5, <2>6, <2>7
<1>6. ASSUME EndUsd, NEW x \in DOMAIN thread
      PROVE  x \in Held(Kept(registered', 0), content, <<>>)
  <2>1. /\ service # 0 /\ setup = <<>>
        /\ registered' = IF registered[Usd.id] = 0 /\ HasStreams(content[service])
                         THEN [registered EXCEPT ![Usd.id] = service] ELSE registered
    BY <1>6 DEF EndUsd
  <2>2. \A i \in DOMAIN Usd.streams : ~Ahead(i)
    <3>1. Len(setup) = 0
      BY <2>1
    <3> QED  BY <3>1 DEF Ahead
  <2>3. \A i \in DOMAIN made : made[i] \in content[service]
    <3>1. DOMAIN made \subseteq DOMAIN Usd.streams
      BY <1>1, <2>1 DEF Setup
    <3> QED  BY <1>2, <2>1, <2>2, <3>1 DEF Reaches
  <2>4. registered[Usd.id] \in {0, service}
    BY <2>1 DEF Services
  <2>5. /\ DOMAIN registered' = ServiceId
        /\ \A id \in ServiceId : registered[id] # 0 => registered'[id] = registered[id]
        /\ content[service] # {} => registered'[Usd.id] = service
    BY <1>1, <2>1, <2>4 DEF HasStreams
  <2>6. PICK n \in Kept(registered, service) : x \in content[n]
    <3>1. service \in Kept(registered, service)
      BY <2>1, KeptParts
    <3> QED  BY <1>3, <1>6, <2>3, <3>1
  <2>7. n \in Kept(registered', 0)
    <3>1. n # 0 /\ (n = service \/ \E id \in ServiceId : n = registered[id])
      BY <1>1, KeptParts
    <3>2. \E id \in ServiceId : n = registered'[id]
      BY <1>1, <2>1, <2>5, <2>6, <3>1
    <3> QED  BY <2>5, <3>1, <3>2, KeptParts
  <2> QED  BY <2>6, <2>7, HeldParts
<1>7. ~UsdThrows
  BY <1>2 DEF UsdThrows
<1> QED  BY <1>4, <1>5, <1>6, <1>7

(* What a step destroys is an earlier stream, or the bundle in hand loses  *)
(* one.                                                                    *)
LEMMA GoneStep ==
  ASSUME ConstantsAssumption, Core, Services, OnePath, Origins, Reaches, Next,
         ~Loses(setting, InHand)
  PROVE  /\ fate' = "unjoined" => \E s \in DOMAIN thread : s.n =< earlier /\ thread[s] = "starting"
         /\ \A s \in late' \ late : s.n =< earlier
<1>1. Place /\ Setup /\ Streams /\ Counted /\ fate = "running"
  BY CoreParts, OnlyRunning
<1>2. earlier \in Nat /\ \A s \in DOMAIN thread : s.n \in Nat
  BY <1>1 DEF Counted, Streams
<1>3. ASSUME NEW threads, NEW kept, NEW streams, NEW local, Release(threads, kept, streams, local),
             DOMAIN threads = Held(kept, streams, local)
      PROVE  fate' # "unjoined" /\ late' \subseteq late
  BY <1>1, <1>3, ReleaseKeeps
<1>4. CASE StartStream
  <2>1. service # 0
    BY <1>4 DEF StartStream, Step
  <2> DEFINE held == Held(Kept(registered, service), Replacing, made)
  <2>2. /\ Current \in held /\ held \subseteq DOMAIN thread
        /\ \A old \in DOMAIN thread : old # Current => Starting[old] = thread[old]
        /\ DOMAIN Starting = DOMAIN thread
    BY <1>1, <1>4, StartParts DEF Starting
  <2>3. ASSUME NEW s \in DOMAIN thread \ held
        PROVE  s.n =< earlier /\ Starting[s] = thread[s]
    <3>1. ~(s.n > earlier)
      BY <1>4, <2>1, LosslessKeeps
    <3> QED  BY <1>2, <2>2, <3>1
  <2>4. (fate' = "restarted" /\ late' = late) \/ Release(Starting, Kept(registered, service), Replacing, made)
    BY <1>4 DEF StartStream, Starting, Replacing, Current
  <2>5. CASE Release(Starting, Kept(registered, service), Replacing, made)
    <3>1. /\ fate' # fate => \E s \in DOMAIN Starting \ held : Starting[s] = "starting"
          /\ late' \subseteq late \cup (DOMAIN Starting \ held)
      BY <2>2, <2>5, ReleaseKeeps
    <3> QED  BY <1>1, <2>2, <2>3, <3>1
  <2> QED  BY <2>4, <2>5
<1>5. CASE DropStream
  <2>1. service # 0
    BY <1>5 DEF DropStream, Step
  <2>2. DOMAIN thread = Held(Kept(registered, service), content, made')
    BY <1>1, <1>5, <2>1, LosslessKeeps, DropStreams
  <2>3. Release(thread, Kept(registered, service), content, made')
    BY <1>5 DEF DropStream
  <2> QED  BY <1>3, <2>2, <2>3
<1>6. CASE EndUsd
  <2>1. service # 0
    BY <1>6 DEF EndUsd
  <2>2. DOMAIN thread = Held(Kept(registered', 0), content, <<>>)
    BY <1>1, <1>6, <2>1, LosslessKeeps, EndStreams
  <2>3. Release(thread, Kept(registered', 0), content, <<>>)
    BY <1>1, <1>6, EndStreams
  <2> QED  BY <1>3, <2>2, <2>3
<1>7. ~UsdThrows
  BY LosslessKeeps DEF UsdThrows
<1> QED  BY <1>1, <1>4, <1>5, <1>6, <1>7
         DEF Next, Receive, BeginUsd, CreateStream, EndBundle, ThreadReady

(* Everything together.                                                    *)
Whole == Core /\ Services /\ OnePath /\ Origins /\ Reaches

(* The invariant holds at first.                                           *)
LEMMA WholeInit ==
  ASSUME ConstantsAssumption, Init
  PROVE  Whole
<1>1. Core /\ service = 0 /\ Len(content) = 0
  BY CoreInit DEF Init
<1>2. 1 .. Len(content) = {}
  BY <1>1
<1> QED  BY <1>1, <1>2 DEF Whole, Services, OnePath, Origins, Reaches

(* Every step keeps the invariant.                                         *)
LEMMA WholeStep ==
  ASSUME ConstantsAssumption, Whole, [Next]_vars
  PROVE  Whole'
BY CoreStep, ServicesStep, OnePathStep, OriginsStep, ReachesStep DEF Whole

(* The invariant of the properties below always holds.                     *)
THEOREM SpecWhole == Spec => []Whole
<1>1. Init => Whole
  BY ConstantsAssumption, WholeInit
<1>2. Whole /\ [Next]_vars => Whole'
  BY ConstantsAssumption, WholeStep
<1> QED  BY <1>1, <1>2, PTL DEF Spec

(* A stream is destroyed with its timer's handler outstanding              *)
(* (SeamlessContentStream.cpp:38-42) only while a later bundle is handled, *)
(* or if the bundle it comes from loses one.                               *)
THEOREM OnlyCausedLate == Spec => LateHandlerNeedsCause
<1>1. Whole /\ [Next]_vars =>
        [\A s \in late' \ late : s.n <= earlier \/ Loses(setting, InHand)]_vars
  BY ConstantsAssumption, GoneStep DEF Whole
<1> QED  BY <1>1, SpecWhole, PTL DEF Spec, LateHandlerNeedsCause

(* Whatever the threads do, a destructor finds one that it does not join   *)
(* (ContentStream.cpp:34) only if a stream is without its receiver when a  *)
(* later bundle is handled, or if the bundle in hand loses one.            *)
THEOREM UnjoinedOnlyForCause == Spec => UnjoinedOnlyIfOvertaken
<1>1. Whole /\ [Next]_vars =>
        [fate' = "unjoined" =>
           \/ \E s \in DOMAIN thread : s.n <= earlier /\ thread[s] = "starting"
           \/ Loses(setting, InHand)]_vars
  BY ConstantsAssumption, GoneStep DEF Whole
<1> QED  BY <1>1, SpecWhole, PTL DEF Spec, UnjoinedOnlyIfOvertaken

------------------------------------------------------------------------------
(* When no stream is started twice.                                        *)

(* Only the last delivery method of a USD has FLUTE streams.               *)
FluteLast ==
  ~Default => \A b, u, i : IsPlace(b, u, i) /\ items[b][u].streams[i].flute =>
                items[b][u].streams[i].method = items[b][u].methods

(* The FLUTE streams still to be started have no thread.                   *)
Rested ==
  ~Default /\ FluteLast /\ service # 0 =>
    /\ \A i, j \in DOMAIN made : made[i] = made[j] => i = j
    /\ \A i \in DOMAIN made : made[i].of.flute /\ Ahead(i) => thread[made[i]] = "idle"

(* What is said of all announcements was so before the last.               *)
LEMMA HypothesesBefore ==
  ASSUME ConstantsAssumption, Core, [Next]_vars, FluteLast'
  PROVE  FluteLast
<1>1. setting' = setting
  BY DEF Next, Receive, BeginUsd, CreateStream, StartStream, DropStream, EndUsd, UsdThrows,
         EndBundle, ThreadReady, vars
<1> SUFFICES ASSUME ~Default, NEW b, NEW u, NEW i, IsPlace(b, u, i), items[b][u].streams[i].flute
             PROVE  items[b][u].streams[i].method = items[b][u].methods
  BY DEF FluteLast
<1>2. IsPlace(b, u, i)' /\ items'[b] = items[b] /\ ~Default'
  BY <1>1, PlacesStay DEF Default
<1> QED  BY <1>2 DEF FluteLast

(* No step gives a FLUTE stream its thread before its only start.          *)
LEMMA RestedStep ==
  ASSUME ConstantsAssumption, Core, Rested, [Next]_vars
  PROVE  Rested'
<1> SUFFICES ASSUME ~Default', FluteLast', service' # 0
             PROVE  /\ \A i, j \in DOMAIN made' : made'[i] = made'[j] => i = j
                    /\ \A i \in DOMAIN made' :
                         made'[i].of.flute /\ Ahead(i)' => thread'[made'[i]] = "idle"
  BY DEF Rested
<1>1. ~Default /\ FluteLast
  <2>1. setting' = setting
    BY DEF Next, Receive, BeginUsd, CreateStream, StartStream, DropStream, EndUsd, UsdThrows,
           EndBundle, ThreadReady, vars
  <2> QED  BY <2>1, HypothesesBefore DEF Default
<1>2. Place /\ Setup /\ Streams /\ (service # 0 => Rested)
  BY CoreParts
<1>3. CASE BeginUsd
  <2>1. DOMAIN made' = {}
    BY <1>3, BeginAhead
  <2> QED  BY <2>1
<1>4. ASSUME service # 0
      PROVE  \A i \in DOMAIN made : made[i] \in DOMAIN thread /\ i \in DOMAIN Usd.streams
  <2>1. DOMAIN thread = Held(Kept(registered, service), content, made)
    BY <1>2 DEF Streams
  <2>2. DOMAIN made \subseteq DOMAIN Usd.streams
    BY <1>2, <1>4 DEF Setup
  <2> QED  BY <2>1, <2>2, HeldParts
<1>5. CASE CreateStream
  <2>1. /\ service # 0
        /\ \A i \in DOMAIN Usd.streams : (Ahead(i)' <=> Ahead(i))
    BY <1>5, StartedStep
  <2> DEFINE s == [n |-> born + 1, of |-> Usd.streams[Position]]
  <2>2. /\ s \notin DOMAIN thread /\ Position \notin DOMAIN made
        /\ DOMAIN made' = DOMAIN made \cup {Position} /\ made'[Position] = s
        /\ \A i \in DOMAIN made : made'[i] = made[i]
        /\ thread'[s] = "idle"
        /\ \A old \in DOMAIN thread : thread'[old] = thread[old]
    BY <1>2, <1>5, CreateStreams
  <2> HIDE DEF s
  <2>3. ASSUME NEW i \in DOMAIN made', made'[i].of.flute, Ahead(i)'
        PROVE  thread'[made'[i]] = "idle"
    <3>1. CASE i = Position
      BY <2>2, <3>1
    <3>2. CASE i \in DOMAIN made
      <4>1. made[i] \in DOMAIN thread /\ Ahead(i)
        BY <1>4, <2>1, <2>3, <3>2
      <4>2. thread[made[i]] = "idle"
        BY <1>1, <2>1, <2>2, <2>3, <3>2, <4>1 DEF Rested
      <4> QED  BY <2>2, <3>2, <4>1, <4>2
    <3> QED  BY <2>2, <3>1, <3>2
  <2>4. ASSUME NEW i \in DOMAIN made', NEW j \in DOMAIN made', made'[i] = made'[j]
        PROVE  i = j
    BY <1>1, <1>4, <2>1, <2>2, <2>4 DEF Rested
  <2> QED  BY <2>3, <2>4
<1>6. CASE StartStream
  <2>1. /\ service # 0 /\ Position \in DOMAIN Usd.streams
        /\ Position \in DOMAIN made
        /\ Current = made[Position] /\ Current.of = Usd.streams[Position]
        /\ \A i \in DOMAIN Usd.streams : Ahead(i) <=> Ahead(i)' \/ i = Position
        /\ made' = made /\ setup # <<>> /\ setup' = Tail(setup) /\ Head(setup)[1] = "start"
    BY <1>6, StartedStep DEF StartStream, Step
  <2>2. ASSUME NEW i, i = Position, Current.of.flute, Ahead(i)' PROVE FALSE
    <3>1. MethodAhead(setup, Usd, DOMAIN made, Usd.methods)
      BY <1>1, <1>2, <2>1 DEF Setup, Default
    <3>2. setup \in Seq(StepsOf(Usd))
      BY <3>1 DEF MethodAhead
    <3>3. setup[1] = <<"start", Position>>
      BY <1>2, <2>1, FirstStep
    <3>4. PICK k \in 1 .. Len(Tail(setup)) : Tail(setup)[k] = <<"start", i>>
      BY <2>1, <2>2 DEF Ahead
    <3>5. k + 1 \in 1 .. Len(setup) /\ setup[k + 1] = setup[1] /\ 1 \in 1 .. Len(setup)
      BY <2>1, <2>2, <3>2, <3>3, <3>4, TailParts
    <3>6. 1 < k + 1
      <4>1. Len(Tail(setup)) \in Nat
        BY <2>1, <3>2, TailParts
      <4> QED  BY <4>1
    <3>7. MethodOf(Usd, setup[k + 1][2]) < Usd.methods
      BY <3>1, <3>5, <3>6 DEF MethodAhead
    <3>8. /\ AtBundle \in 1 .. Len(items) /\ AtUsd \in 1 .. Len(items[AtBundle])
          /\ Usd = items[AtBundle][AtUsd] /\ Usd \in Description
      BY <2>1, CoreParts
    <3>9. MethodOf(Usd, Position) = Usd.methods
      BY <1>1, <2>1, <2>2, <3>8 DEF FluteLast, IsPlace, MethodOf
    <3>10. Usd.methods \in Nat
      BY <3>8 DEF Description
    <3> QED  BY <3>3, <3>5, <3>7, <3>9, <3>10
  <2>3. ASSUME NEW i \in DOMAIN made, made[i].of.flute, Ahead(i)'
        PROVE  i # Position /\ made[i] # Current /\ made[i] \in DOMAIN thread /\ thread[made[i]] = "idle"
    <3>1. i # Position
      BY <2>1, <2>2, <2>3
    <3>2. Ahead(i) /\ made[i] \in DOMAIN thread
      BY <1>4, <2>1, <2>3
    <3> QED  BY <1>1, <2>1, <2>3, <3>1, <3>2 DEF Rested
  <2>4. /\ \A old \in DOMAIN thread : old # Current => Starting[old] = thread[old]
        /\ Held(Kept(registered, service), Replacing, made) \subseteq DOMAIN thread
        /\ DOMAIN Starting = DOMAIN thread
    BY <1>2, <1>6, StartParts DEF Starting
  <2>5. thread' = thread \/ Release(Starting, Kept(registered, service), Replacing, made)
    BY <1>6 DEF StartStream, Starting, Replacing, Current
  <2>6. CASE thread' = thread
    BY <1>1, <2>1, <2>3, <2>6 DEF Rested
  <2>7. CASE Release(Starting, Kept(registered, service), Replacing, made)
    <3>1. /\ DOMAIN thread' = Held(Kept(registered, service), Replacing, made)
          /\ thread' = [s \in DOMAIN thread' |-> Starting[s]]
      BY <2>4, <2>7, ReleaseKeeps
    <3>2. \A i \in DOMAIN made : made[i] \in DOMAIN thread'
      BY <3>1, HeldParts
    <3>3. ASSUME NEW i \in DOMAIN made', made'[i].of.flute, Ahead(i)'
          PROVE  thread'[made'[i]] = "idle"
      BY <2>1, <2>3, <2>4, <3>1, <3>2, <3>3
    <3> QED  BY <1>1, <2>1, <3>3 DEF Rested
  <2> QED  BY <2>5, <2>6, <2>7
<1>7. CASE DropStream
  <2>1. Default
    BY <1>2, <1>7, FirstStep DEF DropStream, Step, Default
  <2> QED  BY <1>1, <2>1
<1>8. EndUsd \/ UsdThrows => service' = 0
  BY DEF EndUsd, UsdThrows
<1>9. CASE ThreadReady
  <2>1. /\ service # 0 /\ setup' = setup /\ made' = made
        /\ \E s \in DOMAIN thread : thread[s] = "starting" /\ thread' = [thread EXCEPT ![s] = "receiving"]
    BY <1>9 DEF ThreadReady
  <2> QED  BY <1>1, <1>4, <2>1 DEF Rested, Ahead
<1>10. CASE EndBundle \/ UNCHANGED vars
  BY <1>1, <1>10 DEF EndBundle, vars, Rested, Ahead
<1>11. ASSUME NEW bundle \in setting.bundles, Receive(bundle) PROVE FALSE
  BY <1>2, <1>11 DEF Receive, Idle, Place
<1> QED  BY <1>3, <1>5, <1>6, <1>7, <1>8, <1>9, <1>10, <1>11 DEF Next

(* No step starts a stream that has its thread.                            *)
LEMMA OnceStep ==
  ASSUME ConstantsAssumption, Core, Rested, FluteLast, OneStartPerPattern, [Next]_vars
  PROVE  OneStartPerPattern'
<1>1. Place /\ Setup /\ Streams
  BY DEF Core
<1>2. ASSUME NEW threads, NEW kept, NEW streams, NEW local, Release(threads, kept, streams, local),
             Held(kept, streams, local) \subseteq DOMAIN threads
      PROVE  OneStartPerPattern'
  BY <1>2, ReleaseKeeps DEF OneStartPerPattern
<1>3. CASE StartStream
  <2>1. /\ service # 0 /\ setup # <<>> /\ Head(setup)[1] = "start" /\ Step("start") /\ fate = "running"
    BY <1>3 DEF StartStream, Step, MainFree
  <2>2. /\ Position \in DOMAIN made /\ Ahead(Position) /\ Current = made[Position]
    BY <1>1, <1>3, StartedStep
  <2>3. Current.of.flute => thread[Current] = "idle"
    <3>1. CASE Default
      <4>1. Position = setup[1][2] /\ setup[1][1] = "start"
        BY <1>1, <2>1, FirstStep
      <4> QED  BY <1>1, <2>1, <2>2, <3>1, <4>1 DEF Core, Starts, Default
    <3>2. CASE ~Default
      BY <2>1, <2>2, <3>2 DEF Rested
    <3> QED  BY <3>1, <3>2
  <2>4. Release(Starting, Kept(registered, service), Replacing, made)
    BY <1>3, <2>3 DEF StartStream, Starting, Replacing, Current
  <2>5. Held(Kept(registered, service), Replacing, made) \subseteq DOMAIN Starting
    BY <1>1, <1>3, StartParts DEF Starting
  <2> QED  BY <1>2, <2>4, <2>5
<1>4. CASE DropStream
  <2>1. Release(thread, Kept(registered, service), content, made')
    BY <1>4 DEF DropStream
  <2>2. Held(Kept(registered, service), content, made') \subseteq DOMAIN thread
    BY <1>1, <1>4, DropStreams
  <2> QED  BY <1>2, <2>1, <2>2
<1>5. CASE EndUsd \/ UsdThrows
  <2>1. /\ Held(Kept(registered', 0), content, <<>>) \subseteq DOMAIN thread
        /\ Release(thread, Kept(registered', 0), content, <<>>)
    BY <1>1, <1>5, EndStreams
  <2> QED  BY <1>2, <2>1
<1>6. CASE fate' = fate
  BY <1>6 DEF OneStartPerPattern
<1> QED  BY <1>3, <1>4, <1>5, <1>6
         DEF Next, Receive, BeginUsd, CreateStream, EndBundle, ThreadReady, vars

(* If only the last delivery method of a USD has FLUTE streams, or the     *)
(* format is the default one, no stream is given a second thread           *)
(* (ContentStream.cpp:126).                                                *)
THEOREM StartedOnce == Spec => [](FluteLast => OneStartPerPattern)
<1> DEFINE Once == FluteLast => OneStartPerPattern
<1>1. Init => Rested /\ Once
  BY DEF Init, Rested, OneStartPerPattern
<1>2. Whole /\ Rested /\ Once /\ [Next]_vars => (Rested /\ Once)'
  <2> SUFFICES ASSUME Whole, Rested, Once, [Next]_vars PROVE Rested' /\ Once'
    OBVIOUS
  <2>1. Rested'
    BY ConstantsAssumption, RestedStep DEF Whole
  <2>2. FluteLast' => FluteLast
    BY ConstantsAssumption, HypothesesBefore DEF Whole
  <2>3. FluteLast /\ OneStartPerPattern => OneStartPerPattern'
    BY ConstantsAssumption, OnceStep DEF Whole
  <2> QED  BY <2>1, <2>2, <2>3
<1> HIDE DEF Once
<1>3. Whole /\ Rested /\ Once => (FluteLast => OneStartPerPattern)
  BY DEF Once
<1> QED  BY <1>1, <1>2, <1>3, SpecWhole, PTL DEF Spec

------------------------------------------------------------------------------
(* The newest description wins.                                            *)

OnceEach == ~Default => \A b \in 1 .. Len(items) : \A u \in 1 .. Len(items[b]) : OncePer(items[b][u])

(* A USD that may fail, or one behind it in its bundle, describes a stream *)
(* as all others do.                                                       *)
Faithful ==
  /\ OnceEach
  /\ \A id, path, b, u, i, c, v, j :
       /\ Mentions(b, u, i, id, path) /\ Mentions(c, v, j, id, path)
       /\ \E w \in 1 .. Len(items[b]) : w =< u /\ items[b][w].malformed
       => items[b][u].streams[i] = items[c][v].streams[j]

LastHandled(b, u, i, id, path) ==
  /\ Mentions(b, u, i, id, path) /\ Handled(b, u, i)
  /\ \A c, v, j : Mentions(c, v, j, id, path) /\ Handled(c, v, j) =>
       ~Earlier(<<b, u, i>>, <<c, v, j>>)

Latest ==
  Faithful =>
    \A id \in ServiceId : \A n \in 1 .. Len(content) : Belongs(n, id) =>
      \A x \in content[n] : \A b, u, i : LastHandled(b, u, i, id, x.of.path) =>
        x.of = items[b][u].streams[i]

(* A mention stays one.                                                    *)
LEMMA MentionsStay ==
  ASSUME ConstantsAssumption, Core, [Next]_vars, NEW b, NEW u, NEW i, NEW id, NEW path,
         Mentions(b, u, i, id, path)
  PROVE  Mentions(b, u, i, id, path)' /\ items'[b] = items[b]
<1>1. IsPlace(b, u, i)' /\ items'[b] = items[b] /\ setting' = setting
  BY PlacesStay DEF Mentions
<1> QED  BY <1>1 DEF Mentions, Runs, Default

(* USDs that name each path once did so before the next announcement.      *)
LEMMA OnceBefore ==
  ASSUME ConstantsAssumption, Core, [Next]_vars, OnceEach'
  PROVE  OnceEach
<1> SUFFICES ASSUME ~Default, NEW b \in 1 .. Len(items), NEW u \in 1 .. Len(items[b]),
                    NEW i \in DOMAIN items[b][u].streams, NEW j \in DOMAIN items[b][u].streams,
                    items[b][u].streams[i].path = items[b][u].streams[j].path
             PROVE  i = j
  BY DEF OnceEach, OncePer
<1>1. IsPlace(b, u, i)
  BY DEF IsPlace
<1>2. IsPlace(b, u, i)' /\ items'[b] = items[b] /\ setting' = setting
  BY <1>1, PlacesStay
<1>3. ~Default' /\ b \in 1 .. Len(items') /\ u \in 1 .. Len(items'[b])
  BY <1>2 DEF Default, IsPlace
<1> QED  BY <1>2, <1>3 DEF OnceEach, OncePer

(* Announcements that describe a stream alike did so before the next.      *)
LEMMA FaithfulBefore ==
  ASSUME ConstantsAssumption, Core, [Next]_vars, Faithful'
  PROVE  Faithful
<1>1. OnceEach
  BY OnceBefore DEF Faithful
<1>2. ASSUME NEW id, NEW path, NEW b, NEW u, NEW i, NEW c, NEW v, NEW j,
             Mentions(b, u, i, id, path), Mentions(c, v, j, id, path),
             NEW w \in 1 .. Len(items[b]), w =< u, items[b][w].malformed
      PROVE  items[b][u].streams[i] = items[c][v].streams[j]
  <2>1. Mentions(b, u, i, id, path)' /\ items'[b] = items[b]
    BY <1>2, MentionsStay
  <2>2. Mentions(c, v, j, id, path)' /\ items'[c] = items[c]
    BY <1>2, MentionsStay
  <2> QED  BY <1>2, <2>1, <2>2 DEF Faithful
<1> QED  BY <1>1, <1>2 DEF Faithful

(* What a setup has started when it ends.                                  *)
LEMMA EndStarts ==
  ASSUME ConstantsAssumption, Core, Reaches, OnceEach, EndUsd,
         NEW i \in DOMAIN Usd.streams, Runs(Usd.streams[i])
  PROVE  Started(i)
<1>1. service # 0 /\ Len(setup) = 0
  BY DEF EndUsd
<1>2. ~Ahead(i)
  BY <1>1 DEF Ahead
<1>3. CASE Default
  BY <1>2, <1>3 DEF Started
<1>4. CASE ~Default
  <2>1. OncePer(Usd)
    BY <1>1, <1>4, CoreParts DEF OnceEach
  <2>2. i \in DOMAIN made
    BY <1>1, <1>2, <1>4 DEF Reaches
  <2> QED  BY <1>1, <1>2, <1>4, <2>1, <2>2 DEF Reaches, Started
<1> QED  BY <1>3, <1>4

(* The stream just started is described by the last mention handled.       *)
LEMMA StartedIsLatest ==
  ASSUME ConstantsAssumption, Core, Reaches, OnceEach, StartStream,
         NEW id, id = Usd.id, NEW path, path = Current.of.path,
         NEW b, NEW u, NEW i, LastHandled(b, u, i, id, path)'
  PROVE  b = AtBundle /\ u = AtUsd /\ i = Position
<1>1. /\ service # 0 /\ service' = service /\ pending' = pending /\ items' = items
      /\ setting' = setting /\ Usd' = Usd
      /\ Position \in DOMAIN Usd.streams /\ Position \in DOMAIN made
      /\ Current = made[Position] /\ Current.of = Usd.streams[Position]
      /\ \A j : j = Position => Started(j)'
  BY StartedStep
<1>2. /\ AtBundle \in 1 .. Len(items) /\ AtUsd \in 1 .. Len(items[AtBundle])
      /\ Usd = items[AtBundle][AtUsd] /\ pending # <<>> /\ Head(pending) # <<>>
      /\ Usd \in Description
  BY <1>1, CoreParts
<1>3. AtBundle' = AtBundle /\ AtUsd' = AtUsd
  BY <1>1 DEF AtBundle, AtUsd
<1>4. PICK c, v, j : c = AtBundle /\ v = AtUsd /\ j = Position
  OBVIOUS
<1>5. Mentions(c, v, j, id, path)' /\ Handled(c, v, j)'
  <2>1. Runs(Usd.streams[Position])
    BY StartRuns
  <2>2. Mentions(c, v, j, id, path)'
    BY <1>1, <1>2, <1>4, <2>1 DEF Mentions, IsPlace, Runs, Default
  <2> QED  BY <1>1, <1>3, <1>4, <2>2 DEF Handled
<1>6. ~Earlier(<<b, u, i>>, <<c, v, j>>)
  BY <1>5 DEF LastHandled
<1>7. Mentions(b, u, i, id, path)' /\ Handled(b, u, i)'
  BY DEF LastHandled
<1>8. /\ b \in 1 .. Len(items) /\ u \in 1 .. Len(items[b]) /\ i \in DOMAIN items[b][u].streams
      /\ items[b][u].streams[i].path = path /\ Runs(items[b][u].streams[i])
  BY <1>1, <1>7 DEF Mentions, IsPlace, Runs, Default
<1>9. ~Passed(b, u)'
  <2> SUFFICES ASSUME Passed(b, u)' PROVE FALSE
    OBVIOUS
  <2>1. b < AtBundle \/ (b = AtBundle /\ u =< Len(items[b]) - Len(Head(pending)))
    BY <1>1, <1>2, <1>3 DEF Passed
  <2>2. /\ AtUsd = Len(items[AtBundle]) - Len(Head(pending)) + 1
        /\ Len(items[AtBundle]) \in Nat /\ Len(Head(pending)) \in Nat
    BY <1>2, PassedParts
  <2>3. CASE b < AtBundle
    BY <1>4, <1>6, <2>3 DEF Earlier
  <2>4. CASE b = AtBundle
    <3> DEFINE l == Len(items[AtBundle])
               h == Len(Head(pending))
    <3>1. l \in Nat /\ h \in Nat /\ AtUsd = l - h + 1 /\ u =< l - h /\ u \in Nat
      <4>1. ~(b < AtBundle)
        BY <1>2, <2>4
      <4>2. u \in Nat
        BY <1>8
      <4> QED  BY <2>1, <2>2, <2>4, <4>1, <4>2
    <3> HIDE DEF l, h
    <3>2. u < AtUsd
      BY <3>1
    <3> QED  BY <1>4, <1>6, <2>4, <3>2 DEF Earlier
  <2> QED  BY <2>1, <2>3, <2>4
<1>10. b = AtBundle /\ u = AtUsd /\ Started(i)' /\ items[b][u] = Usd /\ i \in DOMAIN Usd.streams
  BY <1>1, <1>2, <1>3, <1>7, <1>8, <1>9 DEF Handled
<1>11. ~(i < Position)
  BY <1>4, <1>6, <1>10 DEF Earlier
<1>12. CASE ~Default
  <2>1. OncePer(Usd)
    BY <1>2, <1>12 DEF OnceEach
  <2> QED  BY <1>1, <1>8, <1>10, <2>1 DEF OncePer
<1>13. CASE Default
  <2>1. ~Ahead(i)' /\ HasSource(Usd.streams[i]) /\ Default'
    BY <1>1, <1>8, <1>10, <1>13 DEF Started, Default, Runs
  <2>2. setup' # <<>> /\ setup'[1] = <<"drop", Position>> /\ setup' \in Seq(StepsOf(Usd))
    <3>1. setup # <<>> /\ setup' = Tail(setup) /\ Head(setup)[1] = "start" /\ Place /\ Setup
      BY CoreParts DEF StartStream, Step
    <3>2. DefaultAhead(setup, Usd) /\ setup[1][1] = "start" /\ setup[1][2] = Position
      BY <1>1, <1>13, <3>1, FirstStep DEF Setup, Default
    <3> QED  BY <3>1, <3>2, DefaultTail DEF DefaultAhead
  <2>3. 1 \in 1 .. Len(setup')
    BY <2>2, TailParts
  <2>4. i =< setup'[1][2]
    <3>1. Reaches'
      BY ReachesStep DEF Next
    <3> QED  BY <1>1, <1>10, <2>1, <2>3, <3>1 DEF Reaches
  <2>5. i \in Nat /\ Position \in Nat
    BY <1>1, <1>2, <1>10 DEF Description
  <2> QED  BY <1>10, <1>11, <2>2, <2>4, <2>5
<1> QED  BY <1>10, <1>12, <1>13

(* Every step leaves each stream as the last mention handled describes it. *)
LEMMA LatestStep ==
  ASSUME ConstantsAssumption, Core, Services, Origins, Reaches, Latest, [Next]_vars
  PROVE  Latest'
<1> SUFFICES ASSUME Faithful', NEW id \in ServiceId, NEW n \in 1 .. Len(content'), Belongs(n, id)',
                    NEW x \in content'[n], NEW b, NEW u, NEW i, NEW path, path = x.of.path,
                    LastHandled(b, u, i, id, path)'
             PROVE  x.of = items'[b][u].streams[i]
  BY DEF Latest
<1>1. Faithful /\ OnceEach
  BY FaithfulBefore DEF Faithful
<1>2. Mentions(b, u, i, id, path)' /\ Handled(b, u, i)'
  BY DEF LastHandled
<1>3. ~Received
  BY <1>2, ReceiveHandles DEF Mentions
<1>4. items' = items /\ setting' = setting
  BY <1>3 DEF Next, BeginUsd, CreateStream, StartStream, DropStream, EndUsd, UsdThrows,
         EndBundle, ThreadReady, vars, Received
<1>5. \A c, v, j : Mentions(c, v, j, id, path)' <=> Mentions(c, v, j, id, path)
  BY <1>4 DEF Mentions, IsPlace, Runs, Default
<1>6. CASE StartStream /\ n = service /\ x = Current
  <2>1. /\ service # 0 /\ Current.of = Usd.streams[Position] /\ service' = service
        /\ pending' = pending /\ registered' = registered /\ Usd' = Usd
    BY <1>6, StartedStep DEF StartStream
  <2>2. /\ Usd = items[AtBundle][AtUsd] /\ Usd.id \in ServiceId /\ Belongs(service, Usd.id)
        /\ service \in 1 .. Len(content)
    BY <2>1, CoreParts
  <2>3. Belongs(n, id)
    BY <2>1 DEF Belongs
  <2>4. id = Usd.id
    BY <1>6, <2>2, <2>3 DEF Services
  <2>5. b = AtBundle /\ u = AtUsd /\ i = Position
    BY <1>1, <1>6, <2>4, StartedIsLatest
  <2> QED  BY <1>4, <1>6, <2>1, <2>2, <2>5
<1>7. ASSUME n \in 1 .. Len(content), Belongs(n, id), x \in content[n],
             StartStream /\ n = service => path # Current.of.path
      PROVE  x.of = items'[b][u].streams[i]
  <2>1. ASSUME NEW c, NEW v, NEW j, Mentions(c, v, j, id, path)
        PROVE  /\ \/ (EndUsd \/ UsdThrows) /\ c = AtBundle /\ AtUsd =< v
                  \/ Handled(c, v, j)' <=> Handled(c, v, j)
               /\ (EndUsd \/ UsdThrows) /\ Handled(c, v, j) => Handled(c, v, j)'
    <3>1. IsPlace(c, v, j) /\ Runs(items[c][v].streams[j]) /\ items[c][v].id = id
          /\ items[c][v].streams[j].path = path
      BY <2>1 DEF Mentions
    <3>2. ASSUME StartStream, c = AtBundle, v = AtUsd, path = Current.of.path PROVE FALSE
      <4>1. service # 0 /\ items[c][v] = Usd /\ Usd.id = id
        BY <3>1, <3>2, StartedStep, CoreParts
      <4>2. registered[id] \in {0, service}
        BY <4>1 DEF Services
      <4>3. n = service
        BY <1>7, <4>2 DEF Belongs
      <4> QED  BY <1>7, <3>2, <4>3
    <3> QED  BY <1>3, <3>1, <3>2, HandledStep
  <2>2. \A c, v, j : Mentions(c, v, j, id, path) /\ Handled(c, v, j) => Handled(c, v, j)'
    BY <2>1
  <2>3. CASE Handled(b, u, i)
    <3>1. LastHandled(b, u, i, id, path)
      BY <1>2, <1>5, <2>2, <2>3 DEF LastHandled
    <3> QED  BY <1>1, <1>4, <1>7, <3>1 DEF Latest
  <2>4. CASE ~Handled(b, u, i)
    <3>1. (EndUsd \/ UsdThrows) /\ b = AtBundle /\ AtUsd =< u
      BY <1>2, <1>5, <2>1, <2>4
    <3>2. service # 0 /\ service' = 0
      BY <3>1 DEF EndUsd, UsdThrows
    <3>3. /\ AtBundle \in 1 .. Len(items) /\ AtUsd \in 1 .. Len(items[AtBundle])
          /\ Usd = items[AtBundle][AtUsd]
      BY <3>2, CoreParts
    <3>4. IsPlace(b, u, i) /\ Runs(items[b][u].streams[i])
      BY <1>2, <1>5 DEF Mentions
    <3>5. CASE EndUsd
      <4>1. Passed(b, u) \/ (b = AtBundle /\ u = AtUsd)
        BY <1>2, <3>2, <3>4, <3>5, PassedStep DEF Handled
      <4>2. u = AtUsd /\ items[b][u] = Usd
        BY <2>4, <3>1, <3>3, <4>1 DEF Handled
      <4>3. i \in DOMAIN Usd.streams
        BY <3>4, <4>2 DEF IsPlace
      <4>4. Started(i)
        BY <1>1, <3>4, <3>5, <4>2, <4>3, EndStarts
      <4> QED  BY <2>4, <3>1, <3>2, <4>2, <4>4 DEF Handled
    <3>6. CASE UsdThrows
      <4>1. items[b][AtUsd].malformed /\ AtUsd \in 1 .. Len(items[b])
        BY <3>1, <3>3, <3>6 DEF UsdThrows
      <4>2. PICK c, v, j : Mentions(c, v, j, id, path) /\ x.of = items[c][v].streams[j]
        BY <1>7 DEF Origins
      <4> QED  BY <1>1, <1>2, <1>4, <1>5, <3>1, <4>1, <4>2 DEF Faithful
    <3> QED  BY <3>1, <3>5, <3>6
  <2> QED  BY <2>3, <2>4
<1>8. \/ content'[n] = {} /\ n = Len(content) + 1 /\ id = Usd.id
      \/ /\ n \in 1 .. Len(content) /\ Belongs(n, id)
         /\ \/ content'[n] = content[n] /\ ~(StartStream /\ n = service)
            \/ /\ StartStream /\ n = service
               /\ content'[n] = {old \in content[n] : old.of.path # Current.of.path} \cup {Current}
  BY OwnStep
<1> QED  BY <1>6, <1>7, <1>8

(* A nonempty set of numbers up to a bound has a greatest one.             *)
LEMMA HasGreatest ==
  ASSUME NEW N \in Nat, NEW S \in SUBSET (1 .. N), S # {}
  PROVE  \E m \in S : \A t \in S : t =< m
<1> DEFINE T == {N - x : x \in S}
<1>1. T \in SUBSET Nat /\ T # {}
  <2>1. \A x \in S : N - x \in Nat
    OBVIOUS
  <2> QED  BY <2>1
<1>2. PICK l \in T : \A t \in T : l =< t
  BY <1>1, HasLeast
<1>3. PICK m \in S : l = N - m
  BY <1>2
<1>4. ASSUME NEW t \in S PROVE t =< m
  <2>1. N - t \in T
    OBVIOUS
  <2>2. N - m =< N - t
    BY <1>2, <1>3, <2>1
  <2> QED  BY <2>2
<1> QED  BY <1>4

(* Of the mentions of a path there is a last one.                          *)
LEMMA HasLastMention ==
  ASSUME ConstantsAssumption, Core, NEW id, NEW path, \E b, u, i : Mentions(b, u, i, id, path)
  PROVE  \E b, u, i : /\ Mentions(b, u, i, id, path)
                      /\ \A c, v, j : Mentions(c, v, j, id, path) =>
                           ~Earlier(<<b, u, i>>, <<c, v, j>>)
<1>1. /\ items \in Seq(Seq(Description)) /\ Len(items) \in Nat
      /\ \A b \in 1 .. Len(items) : items[b] \in Seq(Description) /\ Len(items[b]) \in Nat
  <2>1. items \in Seq(Seq(Description)) /\ Len(items) \in Nat
    BY BundlesOfDescriptions DEF Core
  <2>2. \A b \in 1 .. Len(items) : items[b] \in Seq(Description)
    BY <2>1
  <2>3. \A b \in 1 .. Len(items) : Len(items[b]) \in Nat
    BY <2>2
  <2> QED  BY <2>1, <2>2, <2>3
<1>2. ASSUME NEW b, NEW u, NEW i, Mentions(b, u, i, id, path)
      PROVE  /\ b \in 1 .. Len(items) /\ u \in 1 .. Len(items[b])
             /\ i \in 1 .. Len(items[b][u].streams) /\ Len(items[b][u].streams) \in Nat
  <2>1. b \in 1 .. Len(items) /\ u \in 1 .. Len(items[b]) /\ i \in DOMAIN items[b][u].streams
    BY <1>2 DEF Mentions, IsPlace
  <2>2. items[b][u] \in Description
    BY <1>1, <2>1
  <2>3. items[b][u].streams \in Seq(Pattern)
    BY <2>2 DEF Description
  <2> QED  BY <2>1, <2>3
<1> DEFINE B == {b \in 1 .. Len(items) : \E u, i : Mentions(b, u, i, id, path)}
<1>3. B \in SUBSET (1 .. Len(items)) /\ B # {}
  BY <1>2
<1>4. PICK b \in B : \A c \in B : c =< b
  BY <1>1, <1>3, HasGreatest
<1> DEFINE U == {u \in 1 .. Len(items[b]) : \E i : Mentions(b, u, i, id, path)}
<1>5. U \in SUBSET (1 .. Len(items[b])) /\ U # {} /\ Len(items[b]) \in Nat
  BY <1>1, <1>2, <1>4
<1>6. PICK u \in U : \A v \in U : v =< u
  BY <1>5, HasGreatest
<1> DEFINE I == {i \in 1 .. Len(items[b][u].streams) : Mentions(b, u, i, id, path)}
<1>7. I \in SUBSET (1 .. Len(items[b][u].streams)) /\ I # {} /\ Len(items[b][u].streams) \in Nat
  BY <1>2, <1>6
<1>8. PICK i \in I : \A j \in I : j =< i
  BY <1>7, HasGreatest
<1>9. ASSUME NEW c, NEW v, NEW j, Mentions(c, v, j, id, path), Earlier(<<b, u, i>>, <<c, v, j>>)
      PROVE  FALSE
  <2>1. c \in B /\ c \in Nat /\ b \in Nat
    <3>1. c \in 1 .. Len(items) /\ b \in 1 .. Len(items)
      BY <1>2, <1>9
    <3>2. c \in B
      BY <1>9, <3>1
    <3> QED  BY <3>1, <3>2
  <2>2. c =< b /\ b =< c
    BY <1>4, <1>9, <2>1 DEF Earlier
  <2>3. c = b
    BY <2>1, <2>2
  <2>4. v \in U /\ v \in Nat /\ u \in Nat
    <3>1. v \in 1 .. Len(items[b]) /\ u \in 1 .. Len(items[b])
      BY <1>2, <1>9, <2>3
    <3>2. v \in U
      BY <1>9, <2>3, <3>1
    <3> QED  BY <3>1, <3>2
  <2>5. v =< u /\ u =< v
    BY <1>6, <1>9, <2>1, <2>3, <2>4 DEF Earlier
  <2>6. v = u
    BY <2>4, <2>5
  <2>7. j \in I /\ j \in Nat /\ i \in Nat
    <3>1. j \in 1 .. Len(items[b][u].streams) /\ i \in 1 .. Len(items[b][u].streams)
      BY <1>2, <1>9, <2>3, <2>6
    <3>2. j \in I
      BY <1>9, <2>3, <2>6, <3>1
    <3> QED  BY <3>1, <3>2
  <2>8. j =< i
    BY <1>8, <2>7
  <2> QED  BY <1>9, <2>1, <2>3, <2>4, <2>6, <2>7, <2>8 DEF Earlier
<1> QED  BY <1>8, <1>9

(* When all is handled the last mention handled is the last mention.       *)
LEMMA LatestWins ==
  ASSUME ConstantsAssumption, Core, Origins, Latest, Faithful
  PROVE  NewestWins
<1> SUFFICES ASSUME Idle, NEW id \in ServiceId, registered[id] # 0, NEW s \in content[registered[id]]
             PROVE  \E b \in DOMAIN announced : \E u \in DOMAIN announced[b] :
                    \E i \in DOMAIN announced[b][u].streams :
                      /\ Names(b, u, i, id, s.of.path) /\ s.of = announced[b][u].streams[i]
                      /\ \A c \in DOMAIN announced : \A v \in DOMAIN announced[c] :
                         \A j \in DOMAIN announced[c][v].streams :
                           Names(c, v, j, id, s.of.path) => ~Earlier(<<b, u, i>>, <<c, v, j>>)
  BY DEF NewestWins
<1>1. /\ announced = items /\ items \in Seq(Seq(Description)) /\ Len(items) \in Nat
      /\ registered \in [ServiceId -> 0 .. Len(content)] /\ Len(content) \in Nat
  BY BundlesOfDescriptions, CoreParts DEF Core, Place
<1>2. registered[id] \in 1 .. Len(content) /\ Belongs(registered[id], id)
  BY <1>1 DEF Belongs
<1>3. \E b, u, i : Mentions(b, u, i, id, s.of.path)
  BY <1>2 DEF Origins
<1>4. PICK b, u, i : /\ Mentions(b, u, i, id, s.of.path)
                     /\ \A c, v, j : Mentions(c, v, j, id, s.of.path) =>
                          ~Earlier(<<b, u, i>>, <<c, v, j>>)
  <2> DEFINE path == s.of.path
  <2>1. \E b, u, i : Mentions(b, u, i, id, path)
    BY <1>3
  <2> HIDE DEF path
  <2>2. \E b, u, i : /\ Mentions(b, u, i, id, path)
                     /\ \A c, v, j : Mentions(c, v, j, id, path) =>
                          ~Earlier(<<b, u, i>>, <<c, v, j>>)
    BY <2>1, HasLastMention, Zenon
  <2> QED  BY <2>2 DEF path
<1>5. Handled(b, u, i)
  BY DEF Handled, Passed, Idle
<1>6. s.of = items[b][u].streams[i]
  BY <1>2, <1>4, <1>5 DEF Latest, LastHandled
<1>7. \A c, v, j : c \in DOMAIN announced /\ v \in DOMAIN announced[c] /\ j \in DOMAIN announced[c][v].streams
                     => (Names(c, v, j, id, s.of.path) <=> Mentions(c, v, j, id, s.of.path))
  <2> TAKE c, v, j
  <2> SUFFICES ASSUME c \in DOMAIN items, v \in DOMAIN items[c], j \in DOMAIN items[c][v].streams
               PROVE  Names(c, v, j, id, s.of.path) <=> Mentions(c, v, j, id, s.of.path)
    BY <1>1
  <2>1. c \in 1 .. Len(items)
    BY <1>1
  <2>2. items[c] \in Seq(Description)
    BY <1>1, <2>1
  <2>3. v \in 1 .. Len(items[c])
    BY <2>2
  <2> QED  BY <1>1, <2>1, <2>3 DEF Names, Mentions, IsPlace, Runs, Default
<1>8. b \in DOMAIN announced /\ u \in DOMAIN announced[b] /\ i \in DOMAIN announced[b][u].streams
  <2>1. b \in 1 .. Len(items) /\ u \in 1 .. Len(items[b]) /\ i \in DOMAIN items[b][u].streams
    BY <1>4 DEF Mentions, IsPlace
  <2>2. items[b] \in Seq(Description)
    BY <1>1, <2>1
  <2> QED  BY <1>1, <2>1, <2>2
<1>9. Names(b, u, i, id, s.of.path) /\ s.of = announced[b][u].streams[i]
  BY <1>1, <1>4, <1>6, <1>7, <1>8
<1>10. \A c \in DOMAIN announced : \A v \in DOMAIN announced[c] :
       \A j \in DOMAIN announced[c][v].streams :
         Names(c, v, j, id, s.of.path) => ~Earlier(<<b, u, i>>, <<c, v, j>>)
  BY <1>4, <1>7, Zenon
<1> QED  BY <1>8, <1>9, <1>10

(* If a USD that may fail, and those behind it in its bundle, describe a   *)
(* stream as all others do, each service runs every stream as the last USD *)
(* that names its path describes it, though all items are gone through     *)
(* again at each announcement (ServiceAnnouncement.cpp:77).                *)
THEOREM NewestWinsIfFaithful == Spec => [](Faithful => NewestWins)
<1>1. Init => Whole /\ Latest
  <2> SUFFICES ASSUME Init PROVE Whole /\ Latest
    OBVIOUS
  <2>1. Len(content) = 0
    BY DEF Init
  <2>2. 1 .. Len(content) = {}
    BY <2>1
  <2> QED  BY <2>2, ConstantsAssumption, WholeInit DEF Latest
<1>2. Whole /\ Latest /\ [Next]_vars => (Whole /\ Latest)'
  BY ConstantsAssumption, WholeStep, LatestStep DEF Whole
<1>3. Whole /\ Latest => (Faithful => NewestWins)
  BY ConstantsAssumption, LatestWins DEF Whole
<1> QED  BY <1>1, <1>2, <1>3, PTL DEF Spec

------------------------------------------------------------------------------
(* What the cache refers to is there.                                      *)

(* The streams of a service for a path all have a CDN endpoint, or none    *)
(* has; a USD that may fail puts nothing in the cache; and one whose       *)
(* manifest is cached has a stream to run.                                 *)
Steady ==
  /\ OnceEach
  /\ \A id, path, b, u, i, c, v, j :
       /\ Mentions(b, u, i, id, path) /\ Mentions(c, v, j, id, path)
       /\ items[b][u].streams[i].cdn
       => items[c][v].streams[j].cdn
  /\ \A b \in 1 .. Len(items) : \A u \in 1 .. Len(items[b]) :
       /\ items[b][u].malformed =>
            ~items[b][u].inline /\ \A i \in DOMAIN items[b][u].streams : ~items[b][u].streams[i].cdn
       /\ items[b][u].inline => \E i \in DOMAIN items[b][u].streams : Runs(items[b][u].streams[i])

Registered(n) == n # 0 /\ \E id \in ServiceId : registered[id] = n

ServicesHeld ==
  \A path \in DOMAIN cached : cached[path].is = "service" =>
    Registered(cached[path].n) \/ (service # 0 /\ cached[path].n = service /\ Usd.inline)

HeldStream(s) ==
  \/ \E n \in 1 .. Len(content) : Registered(n) /\ s \in content[n]
  \/ service # 0 /\ s \in content[service]
  \/ \E i \in DOMAIN made : s = made[i] /\ Ahead(i)

StreamsHeld ==
  \A path \in DOMAIN cached : cached[path].is = "stream" =>
    \E s \in Stream : s.n = cached[path].n /\ s.of.path = path /\ s.of.cdn /\ HeldStream(s)

(* A stream being set up is the newest for its path.                       *)
Listed ==
  service # 0 => \A i \in DOMAIN made : made[i].of.cdn =>
    /\ made[i].of.path \in DOMAIN cached
    /\ cached[made[i].of.path] = [is |-> "stream", n |-> made[i].n]

OwnersHeld == Steady => ServicesHeld /\ StreamsHeld /\ Listed

(* A new service has streams of the present USD.                           *)
OwnStreams ==
  service # 0 /\ registered[Usd.id] = 0 =>
    \A x \in content[service] : \E i \in DOMAIN Usd.streams : x.of = Usd.streams[i]

(* A bundle announced stays one.                                           *)
LEMMA BundleStays ==
  ASSUME ConstantsAssumption, Core, [Next]_vars, NEW b \in 1 .. Len(items)
  PROVE  b \in 1 .. Len(items') /\ items'[b] = items[b] /\ setting' = setting
<1>1. items \in Seq(Seq(Description)) /\ Len(items) \in Nat /\ setting.bundles \subseteq Seq(Description)
  BY BundlesOfDescriptions DEF Core
<1>2. setting' = setting
  BY DEF Next, Receive, BeginUsd, CreateStream, StartStream, DropStream, EndUsd, UsdThrows,
         EndBundle, ThreadReady, vars
<1>3. ASSUME NEW bundle \in setting.bundles, Receive(bundle)
      PROVE  b \in 1 .. Len(items') /\ items'[b] = items[b]
  <2>1. bundle \in Seq(Description) /\ items' = Append(items, bundle)
    BY <1>1, <1>3 DEF Receive, WithItems
  <2>2. Len(items') = Len(items) + 1 /\ \A k \in 1 .. Len(items) : items'[k] = items[k]
    BY <1>1, <2>1, Appended
  <2> QED  BY <1>1, <2>2
<1>4. (\E bundle \in setting.bundles : Receive(bundle)) \/ items' = items
  BY DEF Next, BeginUsd, CreateStream, StartStream, DropStream, EndUsd, UsdThrows,
         EndBundle, ThreadReady, vars
<1> QED  BY <1>2, <1>3, <1>4

(* Announcements that agree on CDN endpoints did so before the next.       *)
LEMMA SteadyBefore ==
  ASSUME ConstantsAssumption, Core, [Next]_vars, Steady'
  PROVE  Steady
<1>1. OnceEach
  BY OnceBefore DEF Steady
<1>2. ASSUME NEW id, NEW path, NEW b, NEW u, NEW i, NEW c, NEW v, NEW j,
             Mentions(b, u, i, id, path), Mentions(c, v, j, id, path), items[b][u].streams[i].cdn
      PROVE  items[c][v].streams[j].cdn
  <2>1. Mentions(b, u, i, id, path)' /\ items'[b] = items[b]
    BY <1>2, MentionsStay
  <2>2. Mentions(c, v, j, id, path)' /\ items'[c] = items[c]
    BY <1>2, MentionsStay
  <2> QED  BY <1>2, <2>1, <2>2 DEF Steady
<1>3. ASSUME NEW b \in 1 .. Len(items), NEW u \in 1 .. Len(items[b])
      PROVE  /\ items[b][u].malformed =>
                  ~items[b][u].inline /\ \A i \in DOMAIN items[b][u].streams : ~items[b][u].streams[i].cdn
             /\ items[b][u].inline => \E i \in DOMAIN items[b][u].streams : Runs(items[b][u].streams[i])
  <2>1. b \in 1 .. Len(items') /\ items'[b] = items[b] /\ setting' = setting
    BY BundleStays
  <2>2. \A i : Runs(items[b][u].streams[i])' <=> Runs(items[b][u].streams[i])
    BY <2>1 DEF Runs, Default
  <2> QED  BY <2>1, <2>2 DEF Steady
<1> QED  BY <1>1, <1>2, <1>3 DEF Steady

(* No step gives a new service streams of another USD.                     *)
LEMMA OwnStreamsStep ==
  ASSUME ConstantsAssumption, Core, OwnStreams, [Next]_vars
  PROVE  OwnStreams'
<1>1. Place /\ Setup /\ Streams
  BY CoreParts
<1>2. service' = 0 => OwnStreams'
  BY DEF OwnStreams
<1>3. ASSUME service' = service, registered' = registered, content' = content,
             pending' = pending \/ service = 0
      PROVE  OwnStreams'
  BY <1>3 DEF OwnStreams, Usd
<1>4. CASE BeginUsd
  <2>1. Usd' = Usd /\ registered' = registered
    BY <1>4 DEF BeginUsd, Usd
  <2>2. registered[Usd.id] = 0 => content' = Append(content, {}) /\ service' = Len(content) + 1
    BY <1>4 DEF BeginUsd
  <2>3. registered[Usd.id] = 0 => content'[service'] = {}
    <3>1. content \in Seq(SUBSET Stream) /\ {} \in SUBSET Stream
      BY CoreParts
    <3> QED  BY <2>2, <3>1, Appended
  <2> QED  BY <2>1, <2>3 DEF OwnStreams
<1>5. CASE StartStream
  <2>1. /\ service # 0 /\ service' = service /\ Usd' = Usd /\ registered' = registered
        /\ Position \in DOMAIN Usd.streams /\ Current.of = Usd.streams[Position]
        /\ content' = Replacing
    BY <1>5, StartedStep DEF StartStream, Replacing, Current
  <2>2. Replacing[service] = {old \in content[service] : old.of.path # Current.of.path} \cup {Current}
    BY <1>1, <1>5, StartParts
  <2> QED  BY <2>1, <2>2 DEF OwnStreams
<1>6. CreateStream \/ DropStream \/ EndBundle \/ ThreadReady \/ UNCHANGED vars => OwnStreams'
  BY <1>3 DEF CreateStream, DropStream, EndBundle, ThreadReady, vars
<1>7. EndUsd \/ UsdThrows => OwnStreams'
  BY <1>2 DEF EndUsd, UsdThrows
<1>8. ASSUME NEW bundle \in setting.bundles, Receive(bundle) PROVE OwnStreams'
  <2>1. service = 0
    BY <1>1, <1>8 DEF Receive, Idle, Place
  <2> QED  BY <1>3, <1>8, <2>1 DEF Receive
<1> QED  BY <1>4, <1>5, <1>6, <1>7, <1>8 DEF Next

(* A step that leaves the services and what is cached, and that drops no   *)
(* stream to be started, leaves the owners.                                *)
LEMMA SameOwners ==
  ASSUME ConstantsAssumption, Core, Steady, OwnersHeld,
         registered' = registered, cached' = cached, content' = content, service' = service,
         pending' = pending \/ service = 0,
         \A i \in DOMAIN made : Ahead(i) => i \in DOMAIN made' /\ Ahead(i)',
         \A i \in DOMAIN made' : i \in DOMAIN made /\ made'[i] = made[i]
  PROVE  ServicesHeld' /\ StreamsHeld' /\ Listed'
<1>1. ServicesHeld /\ StreamsHeld /\ Listed
  BY DEF OwnersHeld
<1>2. ServicesHeld'
  BY <1>1 DEF ServicesHeld, Registered, Usd
<1>3. \A s : HeldStream(s) => HeldStream(s)'
  BY DEF HeldStream, Registered
<1>4. StreamsHeld'
  BY <1>1, <1>3 DEF StreamsHeld
<1>5. Listed'
  BY <1>1 DEF Listed
<1> QED  BY <1>2, <1>4, <1>5

(* The service that renders a manifest is the one in use.                  *)
LEMMA OwnersBegin ==
  ASSUME ConstantsAssumption, Core, Steady, OwnersHeld, BeginUsd
  PROVE  ServicesHeld' /\ StreamsHeld' /\ Listed'
<1>1. ServicesHeld /\ StreamsHeld /\ Listed
  BY DEF OwnersHeld
<1>2. /\ service = 0 /\ service' # 0 /\ Usd' = Usd /\ DOMAIN made' = {} /\ registered' = registered
      /\ made' = made
      /\ cached' = IF Usd.inline THEN With(cached, Usd.manifest, [is |-> "service", n |-> service'])
                   ELSE cached
  BY BeginAhead DEF BeginUsd, CachedBy
<1>3. /\ \A n \in 1 .. Len(content) : content'[n] = content[n] /\ n \in 1 .. Len(content')
  BY BeginStreams, CoreParts
<1>4. ASSUME NEW path \in DOMAIN cached'
      PROVE  \/ path \in DOMAIN cached /\ cached'[path] = cached[path]
             \/ Usd.inline /\ cached'[path] = [is |-> "service", n |-> service']
  BY <1>2 DEF With
<1>5. ServicesHeld'
  BY <1>1, <1>2, <1>4 DEF ServicesHeld, Registered
<1>6. \A s : HeldStream(s) => HeldStream(s)'
  BY <1>2, <1>3 DEF HeldStream, Registered
<1>7. StreamsHeld'
  BY <1>1, <1>4, <1>6 DEF StreamsHeld
<1>8. Listed'
  BY <1>2 DEF Listed
<1> QED  BY <1>5, <1>7, <1>8

(* A stream that renders its playlist is to be started.                    *)
LEMMA OwnersCreate ==
  ASSUME ConstantsAssumption, Core, Steady, OwnersHeld, CreateStream
  PROVE  ServicesHeld' /\ StreamsHeld' /\ Listed'
<1>1. ServicesHeld /\ StreamsHeld /\ Listed
  BY DEF OwnersHeld
<1>2. /\ service # 0 /\ service' = service /\ Usd' = Usd /\ content' = content
      /\ registered' = registered
      /\ Position \in DOMAIN Usd.streams
      /\ \A i \in DOMAIN Usd.streams : (Ahead(i)' <=> Ahead(i))
  BY StartedStep DEF CreateStream
<1> DEFINE s == [n |-> born + 1, of |-> Usd.streams[Position]]
<1>3. Place /\ Setup /\ Streams
  BY CoreParts
<1>4. /\ s \in Stream /\ Position \notin DOMAIN made
      /\ DOMAIN made' = DOMAIN made \cup {Position} /\ made'[Position] = s
      /\ \A i \in DOMAIN made : made'[i] = made[i]
  BY <1>3, CreateStreams
<1>5. /\ s.of = Usd.streams[Position]
      /\ cached' = IF s.of.cdn THEN With(cached, s.of.path, [is |-> "stream", n |-> s.n]) ELSE cached
  BY DEF CreateStream, CachedBy
<1> HIDE DEF s
<1>6. DOMAIN made \subseteq DOMAIN Usd.streams /\ \A i \in DOMAIN made : made[i].of = Usd.streams[i]
  BY <1>2, <1>3 DEF Setup
<1>7. ASSUME NEW path \in DOMAIN cached'
      PROVE  \/ path \in DOMAIN cached /\ cached'[path] = cached[path]
             \/ s.of.cdn /\ path = s.of.path /\ cached'[path] = [is |-> "stream", n |-> s.n]
  BY <1>5 DEF With
<1>8. ServicesHeld'
  BY <1>1, <1>2, <1>7 DEF ServicesHeld, Registered
<1>9. ASSUME NEW x, HeldStream(x) PROVE HeldStream(x)'
  <2>1. CASE \E i \in DOMAIN made : x = made[i] /\ Ahead(i)
    BY <1>2, <1>4, <1>6, <2>1 DEF HeldStream
  <2>2. CASE ~\E i \in DOMAIN made : x = made[i] /\ Ahead(i)
    BY <1>2, <1>9, <2>2 DEF HeldStream, Registered
  <2> QED  BY <2>1, <2>2
<1>10. ASSUME s.of.cdn, NEW x, x = s PROVE HeldStream(x)'
  <2>1. Runs(Usd.streams[Position])
    BY <1>5, <1>10 DEF Runs, HasSource
  <2>2. Ahead(Position)
    BY <2>1, StartRuns
  <2>3. \E i \in DOMAIN made' : x = made'[i] /\ Ahead(i)'
    BY <1>2, <1>4, <1>10, <2>2
  <2> QED  BY <2>3 DEF HeldStream
<1>11. StreamsHeld'
  <2> SUFFICES ASSUME NEW path \in DOMAIN cached', cached'[path].is = "stream"
               PROVE  \E x \in Stream : /\ x.n = cached'[path].n /\ x.of.path = path /\ x.of.cdn
                                        /\ HeldStream(x)'
    BY DEF StreamsHeld
  <2>1. CASE path \in DOMAIN cached /\ cached'[path] = cached[path]
    BY <1>1, <1>9, <2>1 DEF StreamsHeld
  <2>2. CASE s.of.cdn /\ path = s.of.path /\ cached'[path] = [is |-> "stream", n |-> s.n]
    <3>1. PICK x : x = s
      OBVIOUS
    <3>2. HeldStream(x)'
      BY <1>10, <2>2, <3>1
    <3> QED  BY <1>4, <2>2, <3>1, <3>2
  <2> QED  BY <1>7, <2>1, <2>2
<1>12. ASSUME NEW i \in DOMAIN made', made'[i].of.cdn
       PROVE  /\ made'[i].of.path \in DOMAIN cached'
              /\ cached'[made'[i].of.path] = [is |-> "stream", n |-> made'[i].n]
  <2>1. CASE i = Position
    BY <1>4, <1>5, <1>12, <2>1 DEF With
  <2>2. CASE i # Position
    <3>1. i \in DOMAIN made /\ made'[i] = made[i]
      BY <1>4, <2>2
    <3>2. /\ made[i].of.path \in DOMAIN cached
          /\ cached[made[i].of.path] = [is |-> "stream", n |-> made[i].n]
      BY <1>1, <1>2, <1>12, <3>1 DEF Listed
    <3>3. made[i].of.path # s.of.path
      <4>1. ~Default
        <5>1. Default => DOMAIN made = {}
          <6>1. setup # <<>> /\ Head(setup)[1] = "create"
            BY DEF CreateStream, Step
          <6>2. setup[1] = Head(setup)
            BY <1>2, <1>3, <6>1, FirstStep
          <6> QED  BY <1>2, <1>3, <6>1, <6>2 DEF Setup, Default
        <5> QED  BY <3>1, <5>1
      <4>2. OncePer(Usd)
        BY <1>2, <4>1, CoreParts DEF Steady, OnceEach
      <4> QED  BY <1>2, <1>5, <1>6, <2>2, <3>1, <4>2 DEF OncePer
    <3> QED  BY <1>5, <3>1, <3>2, <3>3 DEF With
  <2> QED  BY <2>1, <2>2
<1>13. Listed'
  BY <1>12 DEF Listed
<1> QED  BY <1>8, <1>11, <1>13

(* A start replaces the stream cached for its path, if any is.             *)
LEMMA OwnersStart ==
  ASSUME ConstantsAssumption, Core, Origins, Steady, OwnersHeld, StartStream
  PROVE  ServicesHeld' /\ StreamsHeld' /\ Listed'
<1>1. ServicesHeld /\ StreamsHeld /\ Listed
  BY DEF OwnersHeld
<1>2. /\ service # 0 /\ service' = service /\ Usd' = Usd
      /\ registered' = registered /\ cached' = cached /\ made' = made /\ content' = Replacing
      /\ Position \in DOMAIN Usd.streams /\ Position \in DOMAIN made
      /\ Current = made[Position] /\ Current.of = Usd.streams[Position]
      /\ \A i \in DOMAIN Usd.streams : Ahead(i) <=> Ahead(i)' \/ i = Position
  BY StartedStep DEF StartStream, Replacing, Current
<1>3. Place /\ Setup /\ Streams /\ Len(content) \in Nat /\ service \in 1 .. Len(content)
      /\ Usd.id \in ServiceId /\ Belongs(service, Usd.id)
      /\ AtBundle \in 1 .. Len(items) /\ AtUsd \in 1 .. Len(items[AtBundle])
      /\ Usd = items[AtBundle][AtUsd]
  BY <1>2, CoreParts
<1>4. /\ Current \in Stream
      /\ Len(Replacing) = Len(content)
      /\ Replacing[service] = {old \in content[service] : old.of.path # Current.of.path} \cup {Current}
      /\ \A n \in 1 .. Len(content) : n # service => Replacing[n] = content[n]
  BY <1>3, StartParts
<1>5. ServicesHeld'
  BY <1>1, <1>2 DEF ServicesHeld, Registered
<1>6. Listed'
  BY <1>1, <1>2 DEF Listed
<1>7. DOMAIN made \subseteq DOMAIN Usd.streams
  BY <1>2, <1>3 DEF Setup
<1>8. ASSUME NEW x, x = Current PROVE HeldStream(x)'
  <2>1. x \in content'[service'] /\ service' # 0
    BY <1>2, <1>4, <1>8
  <2> QED  BY <2>1 DEF HeldStream
<1>9. ASSUME NEW x, HeldStream(x), x.of.path # Current.of.path PROVE HeldStream(x)'
  <2>1. CASE \E n \in 1 .. Len(content) : Registered(n) /\ x \in content[n]
    <3>1. PICK n \in 1 .. Len(content) : Registered(n) /\ x \in content[n]
      BY <2>1
    <3>2. x \in Replacing[n] /\ n \in 1 .. Len(content')
      BY <1>2, <1>4, <1>9, <3>1
    <3>3. Registered(n)'
      BY <1>2, <3>1 DEF Registered
    <3> QED  BY <1>2, <3>2, <3>3 DEF HeldStream
  <2>2. CASE service # 0 /\ x \in content[service]
    <3>1. x \in Replacing[service]
      BY <1>4, <1>9, <2>2
    <3> QED  BY <1>2, <3>1 DEF HeldStream
  <2>3. CASE \E i \in DOMAIN made : x = made[i] /\ Ahead(i)
    <3>1. PICK i \in DOMAIN made : x = made[i] /\ Ahead(i)
      BY <2>3
    <3>2. i # Position
      BY <1>2, <1>9, <3>1
    <3>3. Ahead(i)'
      BY <1>2, <1>7, <3>1, <3>2
    <3> QED  BY <1>2, <3>1, <3>3 DEF HeldStream
  <2> QED  BY <1>9, <2>1, <2>2, <2>3 DEF HeldStream
<1>10. ASSUME NEW x, x \in content[service], x.of.cdn, x.of.path = Current.of.path
       PROVE  Current.of.cdn
  <2>1. PICK b, u, i : Mentions(b, u, i, Usd.id, x.of.path) /\ x.of = items[b][u].streams[i]
    BY <1>3, <1>10 DEF Origins
  <2>2. Mentions(AtBundle, AtUsd, Position, Usd.id, x.of.path)
    <3>1. Runs(Usd.streams[Position])
      BY StartRuns
    <3> QED  BY <1>2, <1>3, <1>10, <3>1 DEF Mentions, IsPlace
  <2> QED  BY <1>2, <1>3, <1>10, <2>1, <2>2 DEF Steady
<1>11. ASSUME NEW path \in DOMAIN cached, cached[path].is = "stream"
       PROVE  \E y \in Stream : y.n = cached[path].n /\ y.of.path = path /\ y.of.cdn /\ HeldStream(y)'
  <2>1. PICK x \in Stream : x.n = cached[path].n /\ x.of.path = path /\ x.of.cdn /\ HeldStream(x)
    BY <1>1, <1>11 DEF StreamsHeld
  <2>2. CASE path # Current.of.path
    BY <1>9, <2>1, <2>2
  <2>3. CASE path = Current.of.path /\ Current.of.cdn
    <3>1. cached[path] = [is |-> "stream", n |-> Current.n]
      BY <1>1, <1>2, <2>3 DEF Listed
    <3>2. PICK y : y = Current
      OBVIOUS
    <3>3. HeldStream(y)'
      BY <1>8, <3>2
    <3> QED  BY <1>4, <2>3, <3>1, <3>2, <3>3
  <2>4. CASE path = Current.of.path /\ ~Current.of.cdn
    <3>1. x \notin content[service]
      BY <1>10, <2>1, <2>4
    <3>2. CASE \E n \in 1 .. Len(content) : Registered(n) /\ x \in content[n]
      <4>1. PICK n \in 1 .. Len(content) : Registered(n) /\ x \in content[n]
        BY <3>2
      <4>2. x \in Replacing[n] /\ n \in 1 .. Len(content')
        BY <1>2, <1>4, <3>1, <4>1
      <4>3. Registered(n)'
        BY <1>2, <4>1 DEF Registered
      <4>4. HeldStream(x)'
        BY <1>2, <4>2, <4>3 DEF HeldStream
      <4> QED  BY <2>1, <4>4
    <3>3. CASE \E i \in DOMAIN made : x = made[i] /\ Ahead(i)
      <4>1. PICK i \in DOMAIN made : x = made[i] /\ Ahead(i)
        BY <3>3
      <4>2. i # Position
        BY <1>2, <2>1, <2>4, <4>1
      <4>3. Ahead(i)'
        BY <1>2, <1>7, <4>1, <4>2
      <4>4. HeldStream(x)'
        BY <1>2, <4>1, <4>3 DEF HeldStream
      <4> QED  BY <2>1, <4>4
    <3> QED  BY <2>1, <3>1, <3>2, <3>3 DEF HeldStream
  <2> QED  BY <2>2, <2>3, <2>4
<1>12. StreamsHeld'
  BY <1>2, <1>11 DEF StreamsHeld
<1> QED  BY <1>5, <1>6, <1>12

(* The service of a cached manifest, or with a cached stream, is           *)
(* registered.                                                             *)
LEMMA OwnersEnd ==
  ASSUME ConstantsAssumption, Core, Services, Reaches, OwnStreams, Steady, OwnersHeld,
         EndUsd \/ UsdThrows
  PROVE  ServicesHeld' /\ StreamsHeld' /\ Listed'
<1>1. ServicesHeld /\ StreamsHeld /\ Listed
  BY DEF OwnersHeld
<1>2. /\ service # 0 /\ service' = 0 /\ cached' = cached /\ content' = content /\ made' = <<>>
      /\ registered \in [ServiceId -> 0 .. Len(content)]
      /\ service \in 1 .. Len(content) /\ Usd.id \in ServiceId
      /\ AtBundle \in 1 .. Len(items) /\ AtUsd \in 1 .. Len(items[AtBundle])
      /\ Usd = items[AtBundle][AtUsd]
      /\ Place /\ Setup /\ Streams
  BY CoreParts DEF EndUsd, UsdThrows
<1>3. registered[Usd.id] \in {0, service}
  BY <1>2 DEF Services
<1>4. /\ Usd.malformed => ~Usd.inline /\ \A i \in DOMAIN Usd.streams : ~Usd.streams[i].cdn
      /\ Usd.inline => \E i \in DOMAIN Usd.streams : Runs(Usd.streams[i])
  BY <1>2 DEF Steady
<1>5. DOMAIN made \subseteq DOMAIN Usd.streams /\ \A i \in DOMAIN made : made[i].of = Usd.streams[i]
  BY <1>2 DEF Setup
<1>6. EndUsd => /\ \A i : ~Ahead(i)
                /\ registered' = IF registered[Usd.id] = 0 /\ HasStreams(content[service])
                                  THEN [registered EXCEPT ![Usd.id] = service] ELSE registered
  <2>1. EndUsd => Len(setup) = 0
    BY DEF EndUsd
  <2> QED  BY <2>1 DEF EndUsd, Ahead
<1>7. UsdThrows => registered' = registered /\ Usd.malformed
  BY DEF UsdThrows
<1>8. ASSUME NEW n, Registered(n) PROVE Registered(n)'
  <2>1. PICK id \in ServiceId : n # 0 /\ registered[id] = n
    BY <1>8 DEF Registered
  <2>2. registered'[id] = n
    BY <1>2, <1>6, <1>7, <2>1
  <2> QED  BY <2>1, <2>2 DEF Registered
<1>9. ASSUME EndUsd, content[service] # {} PROVE registered'[Usd.id] = service
  BY <1>2, <1>3, <1>6, <1>9 DEF HasStreams
<1>10. ServicesHeld'
  <2> SUFFICES ASSUME NEW path \in DOMAIN cached, cached[path].is = "service"
               PROVE  Registered(cached[path].n)'
    BY <1>2 DEF ServicesHeld
  <2>1. Registered(cached[path].n) \/ (cached[path].n = service /\ Usd.inline)
    BY <1>1 DEF ServicesHeld
  <2>2. CASE Registered(cached[path].n)
    <3>1. PICK n : n = cached[path].n
      OBVIOUS
    <3>2. Registered(n)'
      BY <1>8, <2>2, <3>1
    <3> QED  BY <1>2, <3>1, <3>2 DEF Registered
  <2>3. CASE cached[path].n = service /\ Usd.inline
    <3>1. EndUsd
      BY <1>4, <1>7, <2>3
    <3>2. content[service] # {}
      BY <1>2, <1>4, <1>6, <2>3, <3>1 DEF Reaches
    <3>3. registered'[Usd.id] = service
      BY <1>9, <3>1, <3>2
    <3> QED  BY <1>2, <2>3, <3>3 DEF Registered
  <2> QED  BY <2>1, <2>2, <2>3
<1>11. ASSUME NEW x, HeldStream(x), x.of.cdn PROVE HeldStream(x)'
  <2>1. CASE \E n \in 1 .. Len(content) : Registered(n) /\ x \in content[n]
    BY <1>2, <1>8, <2>1 DEF HeldStream
  <2>2. CASE x \in content[service]
    <3>1. CASE EndUsd
      <4>1. registered'[Usd.id] = service
        BY <1>9, <2>2, <3>1
      <4>2. \A n : n = service => Registered(n)'
        BY <1>2, <4>1 DEF Registered
      <4>3. \E n \in 1 .. Len(content') : Registered(n)' /\ x \in content'[n]
        BY <1>2, <2>2, <4>2
      <4> QED  BY <4>3 DEF HeldStream
    <3>2. CASE UsdThrows
      <4>1. registered[Usd.id] = service
        <5>1. ASSUME registered[Usd.id] = 0 PROVE FALSE
          <6>1. PICK i \in DOMAIN Usd.streams : x.of = Usd.streams[i]
            BY <1>2, <2>2, <5>1 DEF OwnStreams
          <6> QED  BY <1>4, <1>7, <1>11, <3>2, <6>1
        <5> QED  BY <1>3, <5>1
      <4>2. \A n : n = service => Registered(n)'
        BY <1>2, <1>7, <3>2, <4>1 DEF Registered
      <4>3. \E n \in 1 .. Len(content') : Registered(n)' /\ x \in content'[n]
        BY <1>2, <2>2, <4>2
      <4> QED  BY <4>3 DEF HeldStream
    <3> QED  BY <3>1, <3>2
  <2>3. CASE \E i \in DOMAIN made : x = made[i] /\ Ahead(i)
    <3>1. UsdThrows
      BY <1>6, <2>3
    <3> QED  BY <1>4, <1>5, <1>7, <1>11, <2>3, <3>1
  <2> QED  BY <1>11, <2>1, <2>2, <2>3 DEF HeldStream
<1>12. StreamsHeld'
  BY <1>1, <1>2, <1>11 DEF StreamsHeld
<1>13. Listed'
  BY <1>2 DEF Listed
<1> QED  BY <1>10, <1>12, <1>13

(* Every step leaves what is cached held by somebody.                      *)
LEMMA OwnersStep ==
  ASSUME ConstantsAssumption, Core, Services, Origins, Reaches, OwnStreams, OwnersHeld, [Next]_vars
  PROVE  OwnersHeld'
<1> SUFFICES ASSUME Steady'
             PROVE  ServicesHeld' /\ StreamsHeld' /\ Listed'
  BY DEF OwnersHeld
<1>1. Steady
  BY SteadyBefore
<1>2. CASE DropStream
  <2>1. /\ service' = service /\ pending' = pending
        /\ \A i \in DOMAIN Usd.streams : (Ahead(i)' <=> Ahead(i))
    BY <1>2, StartedStep
  <2>2. service # 0 /\ ~Ahead(Position)
    BY <1>2, DropDone
  <2>3. /\ registered' = registered /\ cached' = cached /\ content' = content
        /\ \A i : i \in DOMAIN made' <=> i \in DOMAIN made /\ i # Position
        /\ \A i \in DOMAIN made' : made'[i] = made[i]
    BY <1>2 DEF DropStream, Restrict
  <2>4. DOMAIN made \subseteq DOMAIN Usd.streams
    BY <2>2, CoreParts DEF Setup
  <2>5. \A i \in DOMAIN made : Ahead(i) => i \in DOMAIN made' /\ Ahead(i)'
    BY <2>1, <2>2, <2>3, <2>4
  <2> QED  BY <1>1, <2>1, <2>3, <2>5, SameOwners
<1>3. CASE EndBundle \/ ThreadReady \/ UNCHANGED vars
  <2>1. /\ registered' = registered /\ cached' = cached /\ content' = content /\ service' = service
        /\ made' = made /\ setup' = setup /\ (pending' = pending \/ service = 0)
    BY <1>3 DEF EndBundle, ThreadReady, vars
  <2>2. \A i : Ahead(i)' <=> Ahead(i)
    BY <2>1 DEF Ahead
  <2> QED  BY <1>1, <2>1, <2>2, SameOwners
<1>4. ASSUME NEW bundle \in setting.bundles, Receive(bundle)
      PROVE  ServicesHeld' /\ StreamsHeld' /\ Listed'
  <2>1. service = 0
    BY <1>4, CoreParts DEF Receive, Idle, Place
  <2>2. /\ registered' = registered /\ cached' = cached /\ content' = content /\ service' = service
        /\ made' = made /\ setup' = setup
    BY <1>4 DEF Receive
  <2>3. \A i : Ahead(i)' <=> Ahead(i)
    BY <2>2 DEF Ahead
  <2> QED  BY <1>1, <2>1, <2>2, <2>3, SameOwners
<1> QED  BY <1>1, <1>2, <1>3, <1>4, OwnersBegin, OwnersCreate, OwnersStart, OwnersEnd DEF Next

(* Who holds a cached service or stream keeps it alive.                    *)
LEMMA HeldIsAlive ==
  ASSUME ConstantsAssumption, Core, OwnersHeld, Steady
  PROVE  OwnersAlive
<1> SUFFICES ASSUME NEW path \in DOMAIN cached
             PROVE  Lives(cached[path])
  BY DEF OwnersAlive
<1>1. Place /\ Setup /\ Streams /\ registered \in [ServiceId -> 0 .. Len(content)]
  BY CoreParts
<1>2. cached[path].is = "service" \/ cached[path].is = "stream"
  <2>1. cached[path] \in Owner
    BY <1>1 DEF Streams, Range
  <2> QED  BY <2>1 DEF Owner
<1>3. ASSUME NEW n, Registered(n) \/ (service # 0 /\ n = service)
      PROVE  n \in Kept(registered, service)
  BY <1>1, <1>3, KeptParts DEF Registered
<1>4. CASE cached[path].is = "service"
  BY <1>3, <1>4 DEF OwnersHeld, ServicesHeld, Lives
<1>5. CASE cached[path].is = "stream"
  <2>1. PICK s \in Stream : s.n = cached[path].n /\ HeldStream(s)
    BY <1>5 DEF OwnersHeld, StreamsHeld
  <2>2. s \in Held(Kept(registered, service), content, made)
    BY <1>3, <2>1, HeldParts DEF HeldStream
  <2>3. s \in DOMAIN thread
    BY <1>1, <2>2 DEF Streams
  <2> QED  BY <1>5, <2>1, <2>3 DEF Lives
<1> QED  BY <1>2, <1>4, <1>5

(* If the streams of a service for a path agree on having a CDN endpoint,  *)
(* and USDs that may fail, or that have no stream to run, cache nothing,   *)
(* then what the cache renders by a plain pointer is alive                 *)
(* (ContentStream.cpp, Service.cpp).                                       *)
THEOREM OwnersAliveIfSteady == Spec => [](Steady => OwnersAlive)
<1>1. Init => Whole /\ OwnStreams /\ OwnersHeld
  <2> SUFFICES ASSUME Init PROVE Whole /\ OwnStreams /\ OwnersHeld
    OBVIOUS
  <2>1. service = 0 /\ DOMAIN cached = {}
    BY DEF Init
  <2> QED  BY <2>1, ConstantsAssumption, WholeInit
           DEF OwnStreams, OwnersHeld, ServicesHeld, StreamsHeld, Listed
<1>2. Whole /\ OwnStreams /\ OwnersHeld /\ [Next]_vars => (Whole /\ OwnStreams /\ OwnersHeld)'
  BY ConstantsAssumption, WholeStep, OwnStreamsStep, OwnersStep DEF Whole
<1>3. Whole /\ OwnStreams /\ OwnersHeld => (Steady => OwnersAlive)
  BY ConstantsAssumption, HeldIsAlive DEF Whole
<1> QED  BY <1>1, <1>2, <1>3, PTL DEF Spec

================================================================================
