--------------------------- MODULE Engine_proofs ---------------------------
(***************************************************************************)
(* Proofs about the processes of the engine: first what they compute and   *)
(* how they are started (Engine, with Recognition and Launch), for any     *)
(* vectors, frames, settings, environments and languages; then how the app *)
(* supervises its daemon (Supervision), for any number of launches,        *)
(* daemons and changes of the settings: an app has one daemon at most, the *)
(* daemon has the settings that are shown, and of daemons that do not      *)
(* start together the newest is the one that is reached.                   *)
(***************************************************************************)
EXTENDS Engine, Supervision, FiniteSetTheorems, SequenceTheorems, WellFoundedInduction, TLAPS

-----------------------------------------------------------------------------
(* Induction.                                                              *)

(* A set that holds 0 and with every number the next one holds them all:   *)
(* a least number that it lacks would follow one that it holds.            *)
LEMMA Induct ==
    ASSUME NEW S, 0 \in S, \A n \in Nat : n \in S => n + 1 \in S
    PROVE  Nat \subseteq S
<1> DEFINE lacking == Nat \ S
           R == OpToRel(<, Nat)
<1> SUFFICES ASSUME lacking # {} PROVE FALSE
  OBVIOUS
<1>1. IsWellFoundedOn(R, Nat)
  BY NatLessThanWellFounded
<1>2. \A m, n \in Nat : <<m, n>> \in R <=> m < n
  BY DEF OpToRel
<1>3. lacking \subseteq Nat
  OBVIOUS
<1> HIDE DEF lacking, R
<1>4. PICK n \in lacking : \A m \in lacking : ~ (<<m, n>> \in R)
  BY <1>1, <1>3, WFMin
<1> USE DEF lacking
<1>5. n # 0 /\ n - 1 \in Nat /\ n - 1 + 1 = n /\ n - 1 < n
  BY <1>4
<1>6. n - 1 \in S
  BY <1>2, <1>4, <1>5
<1> QED
  BY <1>4, <1>5, <1>6

(* A loop: what holds before it and is kept by each of its rounds holds    *)
(* after each.                                                             *)
LEMMA Along ==
    ASSUME NEW m \in Nat, NEW g, NEW Good, g[0] \in Good[0],
           \A k \in 1 .. m : g[k - 1] \in Good[k - 1] => g[k] \in Good[k]
    PROVE  \A k \in 0 .. m : g[k] \in Good[k]
<1> DEFINE S == {k \in Nat : k <= m => g[k] \in Good[k]}
<1>1. 0 \in S
  OBVIOUS
<1>2. ASSUME NEW n \in Nat, n \in S PROVE n + 1 \in S
  <2> SUFFICES ASSUME n + 1 <= m PROVE g[n + 1] \in Good[n + 1]
    OBVIOUS
  <2>1. n + 1 \in 1 .. m /\ n + 1 - 1 = n /\ g[n] \in Good[n]
    BY <1>2
  <2> QED
    BY <2>1
<1>3. Nat \subseteq S
  <2> HIDE DEF S
  <2> QED
    BY <1>1, <1>2, Induct
<1> QED
  BY <1>3

(* g is what a loop of m rounds makes of the value it begins with.         *)
LoopOf(g, base, next, m) ==
    g = [k \in 0 .. m |-> IF k = 0 THEN base ELSE next[<<k, g[k - 1]>>]]

(* There is such a function, for it can be continued round by round.       *)
LEMMA LoopExists ==
    ASSUME NEW Good, NEW base \in Good, NEW m \in Nat, NEW next \in [(1 .. m) \X Good -> Good]
    PROVE  \E g \in [0 .. m -> Good] : LoopOf(g, base, next, m)
<1> DEFINE Loop(g, n) == /\ g \in [0 .. n -> Good]
                         /\ g[0] = base
                         /\ \A k \in 1 .. n : g[k] = next[<<k, g[k - 1]>>]
           S == {n \in Nat : n <= m => \E g : Loop(g, n)}
<1>1. 0 \in S
  <2> DEFINE g == [k \in 0 .. 0 |-> base]
  <2>1. Loop(g, 0)
    OBVIOUS
  <2> QED
    BY <2>1
<1>2. ASSUME NEW n \in Nat, n \in S PROVE n + 1 \in S
  <2> SUFFICES ASSUME n + 1 <= m PROVE \E g : Loop(g, n + 1)
    OBVIOUS
  <2>1. PICK g : Loop(g, n)
    BY <1>2
  <2> DEFINE last == next[<<n + 1, g[n]>>]
             h == [k \in 0 .. n + 1 |-> IF k = n + 1 THEN last ELSE g[k]]
  <2>2. g[n] \in Good /\ last \in Good
    BY <2>1
  <2>3. \A k \in 0 .. n : h[k] = g[k]
    OBVIOUS
  <2>4. h[n + 1] = last /\ h \in [0 .. n + 1 -> Good]
    BY <2>1, <2>2
  <2> HIDE DEF h
  <2>5. ASSUME NEW k \in 1 .. n + 1 PROVE h[k] = next[<<k, h[k - 1]>>]
    <3>1. CASE k = n + 1
      BY <2>3, <2>4, <3>1
    <3>2. CASE k # n + 1
      <4>1. k \in 1 .. n /\ k \in 0 .. n /\ k - 1 \in 0 .. n
        BY <3>2
      <4> QED
        BY <2>1, <2>3, <4>1
    <3> QED
      BY <3>1, <3>2
  <2>6. Loop(h, n + 1)
    BY <2>1, <2>3, <2>4, <2>5
  <2> QED
    BY <2>6
<1>3. Nat \subseteq S
  <2> HIDE DEF S
  <2> QED
    BY <1>1, <1>2, Induct
<1>4. PICK g : Loop(g, m)
  BY <1>3
<1>5. \A k \in 0 .. m : g[k] = IF k = 0 THEN base ELSE next[<<k, g[k - 1]>>]
  BY <1>4
<1>6. LoopOf(g, base, next, m)
  BY <1>4, <1>5 DEF LoopOf
<1> QED
  BY <1>4, <1>6

-----------------------------------------------------------------------------
(* Recognition: vectors and similarities.                                  *)

LEMMA DotType ==
    ASSUME NEW a \in Vectors, NEW b \in Vectors
    PROVE  Dot(a, b) \in Int /\ Add(a, b) \in Vectors
  BY DEF Dot, Add, Vectors

(* The limits the engine uses, and what a missing value is not.            *)
LEMMA Limits ==
    /\ CosineThreshold \in Int /\ GoodScore \in Int /\ FairScore \in Int
    /\ MinCos \in Int /\ MinKeep \in Nat
  BY RecognitionAssumption

(* What passes a threshold that is fair is fair.                           *)
LEMMA PassingIsFair ==
    FairScore <= CosineThreshold =>
        \A score \in Int : score >= CosineThreshold => score >= FairScore
  BY Limits

(* A missing value is none of those that may be there.                     *)
LEMMA NoneIsNothing == None \notin Vectors /\ None \notin Seq(Vectors) /\ None \notin Files
  BY RecognitionAssumption

(* A similarity is a number: the vectors' norms are divided by only if     *)
(* neither is null.                                                        *)
LEMMA CosineType ==
    ASSUME NEW a \in Vectors, NEW b \in Vectors
    PROVE  Cosine(a, b) \in Int
<1>1. \A v \in Vectors : Dot(v, v) \in Nat
  <2> TAKE v \in Vectors
  <2>1. v[1] \in Int /\ v[2] \in Int
    BY DEF Vectors
  <2>2. \A x \in Int : x * x \in Nat
    OBVIOUS
  <2> QED
    BY <2>1, <2>2 DEF Dot
<1>2. Dot(a, b) \in Int
  BY DotType
<1> DEFINE norms == Dot(a, a) * Dot(b, b)
           d == Dot(a, b)
           square == (d * d * 10000) \div norms
<1>3. norms \in Nat
  BY <1>1
<1>4. d * d * 10000 \in Int
  BY <1>2
<1>5. norms # 0 => square \in Int
  <2> HIDE DEF norms, d
  <2> QED
    BY <1>3, <1>4
<1>6. Cosine(a, b) = IF norms = 0 THEN 0 ELSE IF d < 0 THEN -square ELSE square
  BY DEF Cosine
<1> HIDE DEF norms, d, square
<1> QED
  BY <1>5, <1>6

(* What best_match returns reaches a limit exactly if an enrolled vector   *)
(* does.                                                                   *)
LEMMA BestMatchIsBest ==
    ASSUME NEW feat \in Vectors, NEW enrolled \in Seq(Vectors)
    PROVE  /\ BestMatch(feat, enrolled) \in Int
           /\ \A limit \in Int : BestMatch(feat, enrolled) >= limit <=>
                 Lowest >= limit \/ \E k \in DOMAIN enrolled : Cosine(feat, enrolled[k]) >= limit
<1> DEFINE m == Len(enrolled)
           Value(g) == g = [k \in 0 .. m |->
                IF k = 0 THEN Lowest
                ELSE IF Cosine(feat, enrolled[k]) > g[k - 1] THEN Cosine(feat, enrolled[k])
                ELSE g[k - 1]]
<1>1. m \in Nat /\ \A k \in 1 .. m : Cosine(feat, enrolled[k]) \in Int
  <2> HIDE DEF Value
  <2>1. m \in Nat /\ \A k \in 1 .. m : enrolled[k] \in Vectors
    OBVIOUS
  <2> QED
    BY <2>1, CosineType
<1> HIDE DEF m
<1>2. \E g : Value(g)
  <2> DEFINE Z == Int
             next == [p \in (1 .. m) \X Z |->
                        IF Cosine(feat, enrolled[p[1]]) > p[2] THEN Cosine(feat, enrolled[p[1]])
                        ELSE p[2]]
  <2>1. Lowest \in Z /\ next \in [(1 .. m) \X Z -> Z]
    BY <1>1 DEF Lowest
  <2>2. \A k \in 1 .. m, x \in Int : next[<<k, x>>] =
              IF Cosine(feat, enrolled[k]) > x THEN Cosine(feat, enrolled[k]) ELSE x
    BY <1>1
  <2> HIDE DEF next, Z
  <2>3. PICK g \in [0 .. m -> Z] : LoopOf(g, Lowest, next, m)
    BY <1>1, <2>1, LoopExists
  <2>4. \A k \in 0 .. m : g[k] \in Int
    BY <2>3 DEF Z
  <2>5. \A k \in 0 .. m : g[k] = IF k = 0 THEN Lowest ELSE next[<<k, g[k - 1]>>]
    BY <2>3 DEF LoopOf
  <2>6. ASSUME NEW k \in 0 .. m
        PROVE  g[k] = IF k = 0 THEN Lowest
                      ELSE IF Cosine(feat, enrolled[k]) > g[k - 1] THEN Cosine(feat, enrolled[k])
                      ELSE g[k - 1]
    <3>1. CASE k = 0
      BY <2>5, <3>1
    <3>2. CASE k # 0
      <4>1. k \in 1 .. m /\ k - 1 \in 0 .. m
        BY <1>1, <3>2
      <4>2. g[k - 1] \in Int
        BY <2>4, <4>1
      <4>3. g[k] = next[<<k, g[k - 1]>>]
        BY <2>5, <3>2
      <4> QED
        BY <2>2, <3>2, <4>1, <4>2, <4>3
    <3> QED
      BY <3>1, <3>2
  <2>7. Value(g)
    BY <2>3, <2>6 DEF LoopOf
  <2> QED
    BY <2>7
<1> DEFINE g == CHOOSE g : Value(g)
<1>3. Value(g)
  <2> HIDE DEF Value
  <2> QED
    BY <1>2
<1>4. BestMatch(feat, enrolled) = g[m]
  BY Zenon DEF BestMatch, m
<1> HIDE DEF g
<1>5. \A k \in 0 .. m : g[k] =
        IF k = 0 THEN Lowest
        ELSE IF Cosine(feat, enrolled[k]) > g[k - 1] THEN Cosine(feat, enrolled[k])
        ELSE g[k - 1]
  BY <1>3
<1> DEFINE Reaches(x, limit, k) ==
             x >= limit <=> Lowest >= limit \/ \E j \in 1 .. k : Cosine(feat, enrolled[j]) >= limit
           Good == [k \in 0 .. m |-> {x \in Int : \A limit \in Int : Reaches(x, limit, k)}]
<1>6. \A k \in 0 .. m : g[k] \in Good[k]
  <2>1. g[0] \in Good[0]
    BY <1>1, <1>5 DEF Lowest
  <2>2. ASSUME NEW k \in 1 .. m, g[k - 1] \in Good[k - 1] PROVE g[k] \in Good[k]
    <3>1. k \in 0 .. m /\ k - 1 \in 0 .. m /\ k # 0
      BY <1>1
    <3>2. g[k - 1] \in Int /\ \A limit \in Int : Reaches(g[k - 1], limit, k - 1)
      BY <2>2, <3>1
    <3>3. g[k] \in {g[k - 1], Cosine(feat, enrolled[k])} /\ g[k] >= g[k - 1]
          /\ g[k] >= Cosine(feat, enrolled[k]) /\ g[k] \in Int
      BY <1>1, <1>5, <3>1, <3>2
    <3>4. \A j \in 1 .. k : j = k \/ j \in 1 .. k - 1
      BY <1>1
    <3>5. \A j \in 1 .. k - 1 : j \in 1 .. k
      BY <1>1
    <3>6. \A limit \in Int : g[k] >= limit <=> g[k - 1] >= limit \/ Cosine(feat, enrolled[k]) >= limit
      BY <1>1, <3>2, <3>3
    <3>7. \A limit \in Int : Reaches(g[k], limit, k)
      BY <1>1, <3>2, <3>4, <3>5, <3>6
    <3> QED
      BY <3>1, <3>3, <3>7
  <2> HIDE DEF Good
  <2> QED
    BY <1>1, <2>1, <2>2, Along
<1>7. m \in 0 .. m /\ DOMAIN enrolled = 1 .. m
  BY <1>1 DEF m
<1> QED
  BY <1>4, <1>6, <1>7

(* A frame passes against some vectors exactly if one of them is like it,  *)
(* or if the threshold lets anything pass.                                 *)
LEMMA AcceptsAny ==
    ASSUME NEW feat \in Vectors, NEW enrolled \in Seq(Vectors)
    PROVE  Accepts(enrolled, feat) <=>
              \/ Lowest >= CosineThreshold
              \/ \E k \in DOMAIN enrolled : Cosine(feat, enrolled[k]) >= CosineThreshold
<1>1. CosineThreshold \in Int
  BY Limits
<1> QED
  BY <1>1, BestMatchIsBest DEF Accepts

(* The similarity of a sample with the others is a number.                 *)
LEMMA ScoreType ==
    ASSUME NEW samples \in Seq(Vectors), NEW i \in DOMAIN samples
    PROVE  Score(samples, i) \in Int
<1> DEFINE m == Len(samples)
           Value(g) == g = [k \in 0 .. m |->
                IF k = 0 THEN <<0, 0>>
                ELSE IF k = i THEN g[k - 1] ELSE Add(g[k - 1], samples[k])]
<1>1. m \in Nat /\ \A k \in 1 .. m : samples[k] \in Vectors
  OBVIOUS
<1> HIDE DEF m
<1>2. \E g : Value(g)
  <2> DEFINE next == [p \in (1 .. m) \X Vectors |->
                        IF p[1] = i THEN p[2] ELSE Add(p[2], samples[p[1]])]
  <2>1. <<0, 0>> \in Vectors /\ next \in [(1 .. m) \X Vectors -> Vectors]
    <3>1. <<0, 0>> \in Vectors
      BY DEF Vectors
    <3> QED
      BY <1>1, <3>1, DotType
  <2>2. \A k \in 1 .. m, v \in Vectors :
            next[<<k, v>>] = IF k = i THEN v ELSE Add(v, samples[k])
    BY <1>1
  <2> HIDE DEF next
  <2>3. PICK g \in [0 .. m -> Vectors] : LoopOf(g, <<0, 0>>, next, m)
    BY <1>1, <2>1, LoopExists
  <2>4. \A k \in 0 .. m : g[k] \in Vectors
    BY <2>3
  <2>5. \A k \in 0 .. m : g[k] = IF k = 0 THEN <<0, 0>> ELSE next[<<k, g[k - 1]>>]
    BY <2>3 DEF LoopOf
  <2>6. ASSUME NEW k \in 0 .. m
        PROVE  g[k] = IF k = 0 THEN <<0, 0>>
                      ELSE IF k = i THEN g[k - 1] ELSE Add(g[k - 1], samples[k])
    <3>1. CASE k = 0
      BY <2>5, <3>1
    <3>2. CASE k # 0
      <4>1. k \in 1 .. m /\ k - 1 \in 0 .. m
        BY <1>1, <3>2
      <4>2. g[k - 1] \in Vectors
        BY <2>4, <4>1
      <4>3. g[k] = next[<<k, g[k - 1]>>]
        BY <2>5, <3>2
      <4> QED
        BY <2>2, <3>2, <4>1, <4>2, <4>3
    <3> QED
      BY <3>1, <3>2
  <2>7. Value(g)
    BY <2>3, <2>6 DEF LoopOf
  <2> QED
    BY <2>7
<1> DEFINE g == CHOOSE g : Value(g)
<1>3. Value(g)
  <2> HIDE DEF Value
  <2> QED
    BY <1>2
<1>4. Score(samples, i) = Cosine(samples[i], g[m])
  BY Zenon DEF Score, m
<1> HIDE DEF g
<1>5. \A k \in 0 .. m : g[k] =
        IF k = 0 THEN <<0, 0>>
        ELSE IF k = i THEN g[k - 1] ELSE Add(g[k - 1], samples[k])
  BY <1>3
<1> DEFINE Good == [k \in 0 .. m |-> Vectors]
<1>6. \A k \in 0 .. m : g[k] \in Good[k]
  <2>1. g[0] \in Good[0]
    <3>1. g[0] = <<0, 0>> /\ Good[0] = Vectors
      BY <1>1, <1>5
    <3>2. <<0, 0>> \in Vectors
      BY DEF Vectors
    <3> QED
      BY <3>1, <3>2
  <2>2. ASSUME NEW k \in 1 .. m, g[k - 1] \in Good[k - 1] PROVE g[k] \in Good[k]
    <3>1. k \in 0 .. m /\ k - 1 \in 0 .. m /\ k # 0
      BY <1>1
    <3>2. g[k - 1] \in Vectors /\ samples[k] \in Vectors
      BY <1>1, <2>2, <3>1
    <3>3. g[k] \in Vectors
      BY <1>5, <3>1, <3>2, DotType
    <3> QED
      BY <3>1, <3>3
  <2> HIDE DEF Good
  <2> QED
    BY <1>1, <2>1, <2>2, Along
<1>7. g[m] \in Vectors
  BY <1>1, <1>6
<1> QED
  BY <1>4, <1>7, CosineType

(* There is a first of the largest faces, and largest_face returns it.     *)
LEMMA LargestFaceIsLargest ==
    ASSUME NEW faces \in Frames, faces # <<>>
    PROVE  \E i \in DOMAIN faces :
              /\ LargestFace(faces) = faces[i]
              /\ \A j \in DOMAIN faces : Area(faces[j]) <= Area(faces[i])
<1> DEFINE Largest(i, n) == /\ \A j \in 1 .. n : Area(faces[j]) <= Area(faces[i])
                            /\ \A j \in 1 .. i - 1 : Area(faces[j]) < Area(faces[i])
           S == {n \in Nat : n + 1 <= Len(faces) => \E i \in 1 .. n + 1 : Largest(i, n + 1)}
<1>1. Len(faces) \in Nat /\ Len(faces) # 0 /\ DOMAIN faces = 1 .. Len(faces)
      /\ \A k \in 1 .. Len(faces) : Area(faces[k]) \in Nat
  <2>1. faces \in Seq(Faces)
    BY DEF Frames
  <2>2. \A face \in Faces : Area(face) \in Nat
    <3>1. \A x, y \in Nat : x * y \in Nat
      OBVIOUS
    <3> QED
      BY <3>1 DEF Area, Faces
  <2> QED
    BY <2>1, <2>2
<1>2. 0 \in S
  <2>1. 1 <= Len(faces) => Largest(1, 1)
    BY <1>1
  <2> QED
    BY <2>1
<1>3. ASSUME NEW n \in Nat, n \in S PROVE n + 1 \in S
  <2> SUFFICES ASSUME n + 2 <= Len(faces) PROVE \E i \in 1 .. n + 2 : Largest(i, n + 2)
    OBVIOUS
  <2>1. PICK i \in 1 .. n + 1 : Largest(i, n + 1)
    BY <1>1, <1>3
  <2>2. \A j \in 1 .. n + 2 : (j = n + 2 \/ j \in 1 .. n + 1) /\ Area(faces[j]) \in Nat
    BY <1>1
  <2>3. CASE Area(faces[n + 2]) > Area(faces[i])
    <3>1. \A j \in 1 .. n + 1 : Area(faces[j]) < Area(faces[n + 2])
      BY <2>1, <2>2, <2>3
    <3>2. Largest(n + 2, n + 2)
      BY <2>2, <3>1
    <3> QED
      BY <3>2
  <2>4. CASE ~ (Area(faces[n + 2]) > Area(faces[i]))
    <3>1. Largest(i, n + 2)
      BY <2>1, <2>2, <2>4
    <3> QED
      BY <3>1
  <2> QED
    BY <2>3, <2>4
<1>4. Nat \subseteq S
  <2> HIDE DEF S
  <2> QED
    BY <1>2, <1>3, Induct
<1>5. \E i \in DOMAIN faces : Largest(i, Len(faces))
  <2>1. Len(faces) - 1 \in Nat /\ Len(faces) - 1 + 1 = Len(faces)
    BY <1>1
  <2>2. Len(faces) - 1 \in S
    <3> HIDE DEF S
    <3> QED
      BY <1>4, <2>1
  <2>3. \E i \in 1 .. Len(faces) : Largest(i, Len(faces))
    BY <1>1, <2>1, <2>2
  <2> QED
    BY <1>1, <2>3
<1> DEFINE First(i) == /\ \A j \in DOMAIN faces : Area(faces[j]) <= Area(faces[i])
                       /\ \A j \in 1 .. i - 1 : Area(faces[j]) < Area(faces[i])
           first == CHOOSE i \in DOMAIN faces : First(i)
<1>6. LargestFace(faces) = faces[first]
  BY DEF LargestFace
<1>7. \E i \in DOMAIN faces : First(i)
  BY <1>1, <1>5
<1>8. first \in DOMAIN faces /\ First(first)
  <2> HIDE DEF First
  <2> QED
    BY <1>7
<1> HIDE DEF first
<1> QED
  BY <1>6, <1>8

(* The feature of a frame is a vector, or there is none.                   *)
LEMMA FeatureType ==
    ASSUME NEW faces \in Frames, FrameFeature(faces).feat # None
    PROVE  FrameFeature(faces).feat \in Vectors
<1>1. faces # <<>>
  BY DEF FrameFeature, LargestFace
<1>2. LargestFace(faces).of \in Vectors
  <2>1. PICK i \in DOMAIN faces : LargestFace(faces) = faces[i]
    BY <1>1, LargestFaceIsLargest
  <2>2. faces[i] \in Faces
    BY DEF Frames
  <2> QED
    BY <2>1, <2>2 DEF Faces
<1> QED
  BY <1>2 DEF FrameFeature

-----------------------------------------------------------------------------
(* Recognition: the filter.                                                *)

(* A sequence of the elements of a set, each of them once, has them all.   *)
LEMMA SeqsOfSet ==
    ASSUME NEW S, IsFiniteSet(S), NEW f \in SetToSeqs(S)
    PROVE  /\ Cardinality(S) \in Nat /\ f \in [1 .. Cardinality(S) -> S]
           /\ \A i, j \in 1 .. Cardinality(S) : i # j => f[i] # f[j]
           /\ \A x \in S : \E i \in 1 .. Cardinality(S) : f[i] = x
<1> DEFINE n == Cardinality(S)
<1>1. n \in Nat
  BY FS_CardinalityType
<1>2. f \in [1 .. n -> S] /\ \A i, j \in 1 .. n : i # j => f[i] # f[j]
  BY DEF SetToSeqs
<1>3. IsFiniteSet(1 .. n) /\ Cardinality(1 .. n) = n
  BY <1>1, FS_Interval
<1> HIDE DEF n
<1>4. f \in Injection(1 .. n, S)
  BY <1>2 DEF Injection, IsInjective
<1>5. f \in Surjection(1 .. n, S)
  BY <1>3, <1>4, FS_Injection DEF n
<1>6. \A x \in S : \E i \in 1 .. n : f[i] = x
  BY <1>5 DEF Surjection
<1> QED
  BY <1>1, <1>2, <1>6 DEF n

First(f, k) == {f[i] : i \in 1 .. k}

(* The first elements of such a sequence are as many as one takes.         *)
LEMMA PrefixOfSeq ==
    ASSUME NEW n \in Nat, NEW S, NEW f \in [1 .. n -> S],
           \A i, j \in 1 .. n : i # j => f[i] # f[j], NEW k \in 0 .. n
    PROVE  IsFiniteSet(First(f, k)) /\ Cardinality(First(f, k)) = k
<1> DEFINE Good == First(f, k)
           g == [i \in 1 .. k |-> f[i]]
<1>1. \A i \in 1 .. k : i \in 1 .. n
  OBVIOUS
<1>2. g \in [1 .. k -> Good]
  BY DEF First
<1>3. \A i, j \in 1 .. k : g[i] = g[j] => i = j
  BY <1>1
<1>4. \A x \in Good : \E i \in 1 .. k : g[i] = x
  BY DEF First
<1>5. IsFiniteSet(1 .. k) /\ Cardinality(1 .. k) = k
  BY FS_Interval
<1> HIDE DEF Good, g
<1>6. g \in Bijection(1 .. k, Good)
  BY <1>2, <1>3, <1>4 DEF Bijection, Injection, Surjection, IsInjective
<1>7. IsFiniteSet(Good) /\ Cardinality(Good) = k
  BY <1>5, <1>6, FS_Bijection DEF ExistsBijection
<1> QED
  BY <1>7 DEF Good

(* What _filter_outliers keeps.                                            *)
LEMMA FilterKeeps ==
    ASSUME NEW samples \in Seq(Vectors), NEW kept \in FilterOutliers(samples)
    PROVE  /\ kept \in Seq(DOMAIN samples)
           /\ \A j, k \in DOMAIN kept : j < k => kept[j] < kept[k]
           /\ Cardinality(ToSet(kept)) = Len(kept)
           /\ ToSet(kept) = DOMAIN samples \/ Cardinality(ToSet(kept)) >= MinKeep
           /\ Cardinality(ToSet(kept)) > MinKeep =>
                 \A i \in ToSet(kept) : Score(samples, i) >= MinCos
           /\ \A i \in ToSet(kept), j \in DOMAIN samples \ ToSet(kept) :
                 Score(samples, j) <= Score(samples, i) /\ Score(samples, j) < MinCos
<1> DEFINE all == DOMAIN samples
           n == Len(samples)
           scores == [i \in all |-> Score(samples, i)]
           close == {i \in all : scores[i] >= MinCos}
           Kept(order) == IF Cardinality(close) >= MinKeep THEN close
                          ELSE {order[k] : k \in DOMAIN order \cap 1 .. MinKeep}
<1>1. PICK order \in Orders(scores) :
         /\ kept \in SetToSeqs(Kept(order))
         /\ \A j, k \in DOMAIN kept : j < k => kept[j] < kept[k]
  BY DEF FilterOutliers
<1>2. MinKeep \in Nat /\ MinCos \in Int
  BY Limits
<1>3. n \in Nat /\ all = 1 .. n /\ IsFiniteSet(all) /\ Cardinality(all) = n /\ DOMAIN scores = all
      /\ \A i \in all : scores[i] = Score(samples, i) /\ scores[i] \in Int
  <2>1. n \in Nat /\ all = 1 .. n
    OBVIOUS
  <2>2. IsFiniteSet(all) /\ Cardinality(all) = n
    <3> HIDE DEF all, n
    <3>1. IsFiniteSet(1 .. n) /\ Cardinality(1 .. n) = n
      BY <2>1, FS_Interval
    <3> QED
      BY <2>1, <3>1
  <2> QED
    BY <2>1, <2>2, ScoreType
<1> HIDE DEF all, n, scores
<1>4. /\ order \in [1 .. n -> all]
      /\ \A i, j \in 1 .. n : i # j => order[i] # order[j]
      /\ \A i \in all : \E k \in 1 .. n : order[k] = i
      /\ \A j, k \in 1 .. n : j < k => scores[order[j]] >= scores[order[k]]
  <2>1. order \in SetToSeqs(all)
        /\ \A j, k \in DOMAIN order : j < k => scores[order[j]] >= scores[order[k]]
    BY <1>1, <1>3 DEF Orders
  <2>2. /\ order \in [1 .. n -> all]
        /\ \A i, j \in 1 .. n : i # j => order[i] # order[j]
        /\ \A i \in all : \E k \in 1 .. n : order[k] = i
    <3>1. /\ order \in [1 .. Cardinality(all) -> all]
          /\ \A i, j \in 1 .. Cardinality(all) : i # j => order[i] # order[j]
          /\ \A i \in all : \E k \in 1 .. Cardinality(all) : order[k] = i
      <4>1. IsFiniteSet(all)
        BY <1>3
      <4> QED
        BY <2>1, <4>1, SeqsOfSet
    <3>2. Cardinality(all) = n
      BY <1>3
    <3> QED
      BY <3>1, <3>2
  <2> QED
    BY <2>1, <2>2
<1> DEFINE few == IF MinKeep <= n THEN MinKeep ELSE n
           K == Kept(order)
<1>5. /\ K \subseteq all
      /\ \/ K = close /\ Cardinality(close) >= MinKeep
         \/ K = First(order, few) /\ ~ (Cardinality(close) >= MinKeep)
  <2>1. DOMAIN order \cap 1 .. MinKeep = 1 .. few
    <3>1. DOMAIN order = 1 .. n
      BY <1>4
    <3>2. \A k : k \in 1 .. n /\ k \in 1 .. MinKeep <=> k \in 1 .. few
      BY <1>2, <1>3
    <3> QED
      BY <3>1, <3>2
  <2>2. \A k \in 1 .. few : order[k] \in all
    <3>1. \A k \in 1 .. few : k \in 1 .. n
      BY <1>2, <1>3
    <3> QED
      BY <1>4, <3>1
  <2> HIDE DEF few
  <2>3. K = IF Cardinality(close) >= MinKeep THEN close ELSE First(order, few)
    BY <2>1 DEF First
  <2>4. close \subseteq all
    OBVIOUS
  <2>5. First(order, few) \subseteq all
    BY <2>2 DEF First
  <2> HIDE DEF K, close
  <2>6. CASE Cardinality(close) >= MinKeep
    BY <2>3, <2>4, <2>6
  <2>7. CASE ~ (Cardinality(close) >= MinKeep)
    BY <2>3, <2>5, <2>7
  <2> QED
    BY <2>6, <2>7
<1>6. few \in 0 .. n
  BY <1>2, <1>3
<1> HIDE DEF few
<1>7. K = First(order, few) => Cardinality(K) = few
  <2>1. n \in Nat /\ order \in [1 .. n -> all] /\ few \in 0 .. n
        /\ \A i, j \in 1 .. n : i # j => order[i] # order[j]
    BY <1>3, <1>4, <1>6
  <2>2. Cardinality(First(order, few)) = few
    BY <2>1, PrefixOfSeq
  <2> QED
    BY <2>2
<1> HIDE DEF K, close
<1>8. IsFiniteSet(K) /\ Cardinality(K) \in Nat /\ Cardinality(close) \in Nat /\ IsFiniteSet(close)
  <2>1. close \subseteq all
    BY DEF close
  <2> QED
    BY <1>3, <1>5, <2>1, FS_Subset, FS_CardinalityType
<1>9. /\ kept \in [1 .. Cardinality(K) -> K]
      /\ \A x \in K : \E i \in 1 .. Cardinality(K) : kept[i] = x
  <2>1. kept \in SetToSeqs(K)
    BY <1>1 DEF K, close
  <2> QED
    BY <1>8, <2>1, SeqsOfSet
<1>10. ToSet(kept) = K /\ Len(kept) = Cardinality(K) /\ kept \in Seq(all)
  <2>1. DOMAIN kept = 1 .. Cardinality(K) /\ ToSet(kept) = {kept[i] : i \in DOMAIN kept}
    BY <1>9 DEF ToSet
  <2>2. ToSet(kept) = K
    BY <1>9, <2>1
  <2>3. kept \in [1 .. Cardinality(K) -> all]
    BY <1>5, <1>9
  <2> QED
    BY <1>8, <2>2, <2>3
<1>11. K = all \/ Cardinality(K) >= MinKeep
  <2>1. CASE few = n /\ K = First(order, few)
    <3>1. all \subseteq K
      BY <1>4, <2>1 DEF First
    <3> QED
      BY <1>5, <3>1
  <2>2. few = n \/ few = MinKeep
    BY DEF few
  <2> QED
    BY <1>2, <1>5, <1>7, <2>1, <2>2
<1>12. Cardinality(K) > MinKeep => \A i \in K : scores[i] >= MinCos
  <2>1. few <= MinKeep
    BY <1>2, <1>3 DEF few
  <2> QED
    BY <1>2, <1>5, <1>6, <1>7, <2>1 DEF close
<1>13. ASSUME NEW i \in K, NEW j \in all \ K
       PROVE  scores[j] <= scores[i] /\ scores[j] < MinCos
  <2>1. i \in all /\ scores[i] \in Int /\ scores[j] \in Int
    BY <1>3, <1>5
  <2>2. CASE K = close
    <3>1. scores[i] >= MinCos /\ ~ (scores[j] >= MinCos)
      BY <2>2 DEF close
    <3> QED
      BY <1>2, <2>1, <3>1
  <2>3. CASE K = First(order, few) /\ ~ (Cardinality(close) >= MinKeep)
    <3>1. PICK b \in 1 .. n : order[b] = j
      BY <1>4
    <3>2. b > few /\ few = MinKeep
      <4>1. ~ (b \in 1 .. few)
        BY <2>3, <3>1 DEF First
      <4> QED
        BY <1>2, <1>3, <1>6, <4>1 DEF few
    <3>3. \A x \in K : scores[j] <= scores[x]
      <4> TAKE x \in K
      <4>1. PICK a \in 1 .. few : order[a] = x
        BY <2>3 DEF First
      <4>2. a \in 1 .. n /\ a < b
        BY <1>3, <1>6, <3>2
      <4>3. x \in all /\ scores[x] \in Int
        BY <1>3, <1>5
      <4> QED
        BY <1>4, <2>1, <3>1, <4>1, <4>2, <4>3
    <3>4. scores[j] >= MinCos => K \subseteq close
      <4> SUFFICES ASSUME scores[j] >= MinCos, NEW x \in K PROVE x \in close
        OBVIOUS
      <4>1. x \in all /\ scores[x] \in Int /\ scores[j] <= scores[x]
        BY <1>3, <1>5, <3>3
      <4> QED
        BY <1>2, <2>1, <4>1 DEF close
    <3>5. ~ (K \subseteq close)
      <4>1. Cardinality(K) = MinKeep
        BY <1>7, <2>3, <3>2
      <4>2. K \subseteq close => Cardinality(K) <= Cardinality(close)
        BY <1>8, FS_Subset
      <4> QED
        BY <1>2, <1>8, <2>3, <4>1, <4>2
    <3> QED
      BY <1>2, <2>1, <3>3, <3>4, <3>5
  <2> QED
    BY <1>5, <2>2, <2>3
<1> USE DEF all
<1>14. /\ \A i \in ToSet(kept), j \in DOMAIN samples \ ToSet(kept) :
             Score(samples, j) <= Score(samples, i) /\ Score(samples, j) < MinCos
       /\ Cardinality(K) > MinKeep => \A i \in ToSet(kept) : Score(samples, i) >= MinCos
  BY <1>3, <1>5, <1>10, <1>12, <1>13
<1> QED
  BY <1>1, <1>10, <1>11, <1>14

-----------------------------------------------------------------------------
(* What processes leave behind.                                            *)

StoredType == stored = None \/ stored \in Files

LEMMA LoadType ==
    ASSUME stored = None \/ stored \in Files
    PROVE  /\ stored = None => LoadEmbeddings(stored) = None
           /\ stored # None => /\ LoadEmbeddings(stored) \in Seq(Vectors)
                               /\ LoadEmbeddings(stored) # None
<1>1. CASE stored = None
  BY <1>1 DEF LoadEmbeddings
<1>2. CASE stored \in [row : Vectors] /\ stored # None
  <2>1. DOMAIN stored = {"row"} /\ stored.row \in Vectors
    BY <1>2
  <2>2. LoadEmbeddings(stored) = <<stored.row>>
    BY <1>2, <2>1 DEF LoadEmbeddings
  <2>3. <<stored.row>> \in Seq(Vectors)
    BY <2>1
  <2>4. None \notin Seq(Vectors)
    BY NoneIsNothing
  <2> QED
    BY <1>2, <2>2, <2>3, <2>4
<1>3. CASE stored \in [rows : Seq(Vectors)] /\ stored # None
  BY <1>3, NoneIsNothing DEF LoadEmbeddings
<1> QED
  BY <1>1, <1>2, <1>3 DEF Files

LEMMA CosineSymmetric ==
    ASSUME NEW a \in Vectors, NEW b \in Vectors
    PROVE  Cosine(a, b) = Cosine(b, a)
<1>1. \A x, y \in Int : x * y = y * x
  OBVIOUS
<1>2. a[1] \in Int /\ a[2] \in Int /\ b[1] \in Int /\ b[2] \in Int
  BY DEF Vectors
<1>3. Dot(a, b) = Dot(b, a)
  BY <1>1, <1>2 DEF Dot
<1>4. Dot(a, a) * Dot(b, b) = Dot(b, b) * Dot(a, a)
  BY <1>1, DotType
<1> QED
  BY <1>3, <1>4 DEF Cosine

(* The file after an enrolment.                                            *)
LEMMA EnrollStores ==
    ASSUME NEW samples \in Samples, NEW append, Enroll(samples, append), StoredType
    PROVE  /\ event'.op = "enroll" /\ event'.samples = samples /\ event'.append = append
           /\ event'.kept \in FilterOutliers(samples)
           /\ Rows(samples, event'.kept) \in Seq(Vectors)
           /\ LoadEmbeddings(stored') =
                 Stacked(LoadEmbeddings(stored), Rows(samples, event'.kept), append)
           /\ LoadEmbeddings(stored') \in Seq(Vectors)
           /\ stored' \in Files
<1>1. samples \in Seq(Vectors)
  BY EngineAssumption
<1> DEFINE all(kept) == Stacked(LoadEmbeddings(stored), Rows(samples, kept), append)
<1>2. PICK kept \in FilterOutliers(samples) :
         /\ stored' = [rows |-> all(kept)]
         /\ event' = [op |-> "enroll", samples |-> samples, kept |-> kept, append |-> append]
  BY DEF Enroll
<1>3. kept \in Seq(DOMAIN samples)
  BY <1>1, FilterKeeps
<1>4. Rows(samples, kept) \in Seq(Vectors)
  <2>1. Len(kept) \in Nat /\ DOMAIN kept = 1 .. Len(kept)
        /\ \A k \in 1 .. Len(kept) : samples[kept[k]] \in Vectors
    BY <1>1, <1>3
  <2>2. Rows(samples, kept) \in [1 .. Len(kept) -> Vectors]
    BY <2>1 DEF Rows
  <2> QED
    BY <2>1, <2>2
<1>5. all(kept) \in Seq(Vectors)
  <2>1. LoadEmbeddings(stored) = None \/ LoadEmbeddings(stored) \in Seq(Vectors)
    BY LoadType DEF StoredType
  <2> QED
    BY <1>4, <2>1 DEF Stacked
<1>6. LoadEmbeddings(stored') = all(kept) /\ stored' \in Files
  <2> HIDE DEF all
  <2>1. stored' \in Files /\ stored' # None
    BY <1>2, <1>5, NoneIsNothing DEF Files
  <2>2. "row" \notin DOMAIN stored' /\ stored'.rows = all(kept)
    BY <1>2
  <2> QED
    BY <2>1, <2>2 DEF LoadEmbeddings
<1> QED
  BY <1>2, <1>4, <1>5, <1>6

LEMMA EnrollKeepsTheBest ==
    ASSUME NEW samples \in Samples, NEW append, Enroll(samples, append), StoredType
    PROVE  FilterKeepsTheBest'
<1>1. samples \in Seq(Vectors)
  BY EngineAssumption
<1>2. event'.samples = samples /\ event'.kept \in FilterOutliers(samples)
  BY EnrollStores
<1> DEFINE kept == event'.kept
<1>3. /\ \A j, k \in DOMAIN kept : j < k => kept[j] < kept[k]
      /\ Cardinality(ToSet(kept)) = Len(kept)
      /\ ToSet(kept) = DOMAIN samples \/ Cardinality(ToSet(kept)) >= MinKeep
      /\ Cardinality(ToSet(kept)) > MinKeep => \A i \in ToSet(kept) : Score(samples, i) >= MinCos
      /\ \A i \in ToSet(kept), j \in DOMAIN samples \ ToSet(kept) :
            Score(samples, j) <= Score(samples, i) /\ Score(samples, j) < MinCos
      /\ kept \in Seq(DOMAIN samples)
  BY <1>1, <1>2, FilterKeeps
<1>4. ToSet(kept) \subseteq DOMAIN samples
  BY <1>3 DEF ToSet
<1> HIDE DEF kept
<1> QED
  BY <1>2, <1>3, <1>4 DEF FilterKeepsTheBest, kept

LEMMA EnrollAccumulates ==
    ASSUME NEW samples \in Samples, NEW append \in BOOLEAN, Enroll(samples, append), StoredType,
           NEW face \in Vectors
    PROVE  Accepts(LoadEmbeddings(stored'), face) <=>
              \/ Accepts(Rows(event'.samples, event'.kept), face)
              \/ /\ event'.append /\ stored # None
                 /\ \E k \in DOMAIN LoadEmbeddings(stored) :
                      Cosine(LoadEmbeddings(stored)[k], face) >= CosineThreshold
<1> DEFINE rows == Rows(samples, event'.kept)
           old == LoadEmbeddings(stored)
           new == LoadEmbeddings(stored')
           Like(vectors) == \E k \in DOMAIN vectors : Cosine(face, vectors[k]) >= CosineThreshold
<1>1. /\ event'.samples = samples /\ event'.append = append
      /\ rows \in Seq(Vectors) /\ new \in Seq(Vectors)
      /\ new = IF append /\ old # None /\ old # <<>> THEN old \o rows ELSE rows
  BY EnrollStores DEF Stacked
<1>2. stored # None <=> old # None
  BY LoadType DEF StoredType
<1>3. old # None => old \in Seq(Vectors)
  BY LoadType DEF StoredType
<1> HIDE DEF rows, old, new
<1>4. Accepts(new, face) <=> Lowest >= CosineThreshold \/ Like(new)
  BY <1>1, AcceptsAny
<1>5. Accepts(rows, face) <=> Lowest >= CosineThreshold \/ Like(rows)
  BY <1>1, AcceptsAny
<1>6. old # None => (Like(old) <=> \E k \in DOMAIN old : Cosine(old[k], face) >= CosineThreshold)
  <2> SUFFICES ASSUME old # None, NEW k \in DOMAIN old PROVE Cosine(old[k], face) = Cosine(face, old[k])
    OBVIOUS
  <2>1. old[k] \in Vectors
    BY <1>3
  <2> QED
    BY <2>1, CosineSymmetric
<1>7. Like(new) <=> Like(rows) \/ (append /\ old # None /\ Like(old))
  <2>1. CASE append /\ old # None /\ old # <<>>
    <3>1. new = old \o rows /\ old \in Seq(Vectors)
      BY <1>1, <1>3, <2>1
    <3>2. /\ Len(new) = Len(old) + Len(rows) /\ Len(old) \in Nat /\ Len(rows) \in Nat
          /\ DOMAIN new = 1 .. Len(new) /\ DOMAIN old = 1 .. Len(old) /\ DOMAIN rows = 1 .. Len(rows)
          /\ \A k \in 1 .. Len(old) : k \in 1 .. Len(new) /\ new[k] = old[k]
          /\ \A k \in 1 .. Len(rows) : Len(old) + k \in 1 .. Len(new) /\ new[Len(old) + k] = rows[k]
          /\ \A k \in 1 .. Len(new) : k \in 1 .. Len(old) \/ k - Len(old) \in 1 .. Len(rows)
      BY <1>1, <3>1
    <3>3. Like(new) => Like(rows) \/ Like(old)
      <4> SUFFICES ASSUME NEW k \in DOMAIN new, Cosine(face, new[k]) >= CosineThreshold
                   PROVE  Like(rows) \/ Like(old)
        OBVIOUS
      <4>1. CASE k \in 1 .. Len(old)
        BY <3>2, <4>1
      <4>2. CASE k - Len(old) \in 1 .. Len(rows)
        <5>1. k = Len(old) + (k - Len(old))
          BY <3>2
        <5> QED
          BY <3>2, <4>2, <5>1
      <4> QED
        BY <3>2, <4>1, <4>2
    <3>4. Like(rows) => Like(new)
      BY <3>2
    <3>5. Like(old) => Like(new)
      BY <3>2
    <3> HIDE DEF Like
    <3> QED
      BY <2>1, <3>3, <3>4, <3>5
  <2>2. CASE ~ (append /\ old # None /\ old # <<>>)
    <3>1. new = rows
      BY <1>1, <2>2
    <3>2. old = <<>> => ~Like(old)
      OBVIOUS
    <3> HIDE DEF Like
    <3> QED
      BY <2>2, <3>1, <3>2
  <2> QED
    BY <2>1, <2>2
<1> HIDE DEF Like
<1>8. Accepts(new, face) <=>
         \/ Accepts(rows, face)
         \/ /\ append /\ stored # None
            /\ \E k \in DOMAIN old : Cosine(old[k], face) >= CosineThreshold
  BY <1>2, <1>4, <1>5, <1>6, <1>7
<1> QED
  BY <1>1, <1>8 DEF rows, old, new

(* What a diagnosis counts and advises.                                    *)
LEMMA DiagnoseAgrees ==
    ASSUME NEW threshold, NEW models, NEW camera, NEW reads \in Reads,
           Diagnose(threshold, models, camera, reads), StoredType
    PROVE  DiagnosisAgrees'
<1> DEFINE enrolled == LoadEmbeddings(stored)
           Usable(r) == r # None /\ FrameFeature(r).feat # None
           Feat(k) == FrameFeature(reads[k]).feat
           usable == {n \in DOMAIN reads : Usable(reads[n])}
           scores == Scores(reads, enrolled)
           Passes(r) == /\ r # None /\ FrameFeature(r).feat # None
                        /\ Accepts(enrolled, FrameFeature(r).feat)
           passing == {k \in DOMAIN reads : Passes(reads[k])}
           counted == {k \in DOMAIN scores : scores[k] >= threshold}
           told == event'.did.told
<1>1. /\ event'.op = "diag" /\ event'.reads = reads /\ stored' = stored
      /\ event'.threshold = threshold
      /\ event'.did = Diagnosis(threshold, models, stored, camera, reads)
  BY DEF Diagnose
<1>0. Passing' = passing
  BY <1>1 DEF Passing, Accepts
<1> SUFFICES ASSUME event'.did.code = 0
             PROVE  /\ threshold = CosineThreshold => told.passed = Cardinality(passing)
                    /\ told.advice = "good" /\ CosineThreshold <= GoodScore => passing # {}
                    /\ told.advice = "low" /\ FairScore <= CosineThreshold => passing = {}
                    /\ told.advice = "no face" => passing = {}
                    /\ told.advice = "no face" <=> told.faces = 0
  <2> HIDE DEF passing, told
  <2> QED
    BY <1>0, <1>1 DEF DiagnosisAgrees, told
<1>2. /\ enrolled # None
      /\ told.passed = Cardinality(counted)
      /\ told.faces = Cardinality(DOMAIN scores)
      /\ told.advice = Advice(scores)
  <2> DEFINE Told(code, t) == [code |-> code, told |-> t]
             count == Cardinality({k \in DOMAIN reads : reads[k] # None})
             faces == Cardinality(DOMAIN scores)
             passed == Cardinality(counted)
             worst == WorstPair(enrolled)
             advice == Advice(scores)
  <2>1. Diagnosis(threshold, models, stored, camera, reads) =
          IF ~FaceEngine(models) \/ enrolled = None THEN Told(1, None)
          ELSE IF ~camera THEN Told(2, None)
          ELSE Told(0, [frames |-> count, faces |-> faces, passed |-> passed, worst |-> worst,
                        advice |-> advice])
    BY DEF Diagnosis
  <2> HIDE DEF count, faces, passed, worst, advice, enrolled
  <2>2. enrolled # None /\ told = [frames |-> count, faces |-> faces, passed |-> passed,
                                   worst |-> worst, advice |-> advice]
    BY <1>1, <2>1
  <2> QED
    BY <2>2 DEF faces, passed, advice
<1>3. enrolled \in Seq(Vectors)
  BY <1>2, LoadType DEF StoredType
<1> HIDE DEF told, enrolled
<1>4. DOMAIN scores = usable /\ \A k \in usable : scores[k] = BestMatch(Feat(k), enrolled)
  BY DEF Scores
<1>5. reads \in Seq(Frames \cup {None})
  BY EngineAssumption
<1>6. \A k \in usable : Feat(k) \in Vectors
  <2> TAKE k \in usable
  <2>1. reads[k] \in Frames
    BY <1>5
  <2> QED
    BY <2>1, FeatureType
<1>7. \A k \in usable : scores[k] \in Int
  <2> HIDE DEF usable, Feat, scores
  <2> QED
    BY <1>3, <1>4, <1>6, BestMatchIsBest
<1> HIDE DEF scores
<1>8. threshold = CosineThreshold => counted = passing
  BY <1>4 DEF Accepts
<1>9. IsFiniteSet(usable)
  <2>1. IsFiniteSet(1 .. Len(reads)) /\ DOMAIN reads = 1 .. Len(reads)
    BY <1>5, FS_Interval
  <2>2. usable \subseteq 1 .. Len(reads)
    BY <2>1
  <2> HIDE DEF usable
  <2> QED
    BY <2>1, <2>2, FS_Subset
<1> DEFINE Reaches(limit) == \E k \in usable : scores[k] >= limit
<1>10. /\ Advice(scores) = "no face" <=> usable = {}
       /\ Advice(scores) = "good" => Reaches(GoodScore)
       /\ Advice(scores) = "low" => ~Reaches(FairScore)
  BY <1>4 DEF Advice
<1>11. CosineThreshold \in Int /\ GoodScore \in Int /\ FairScore \in Int
  BY Limits
<1>12. \A k : k \in passing <=> k \in usable /\ scores[k] >= CosineThreshold
  BY <1>4 DEF Accepts
<1> HIDE DEF passing, usable
<1>13. told.advice = "good" /\ CosineThreshold <= GoodScore => passing # {}
  BY <1>2, <1>7, <1>10, <1>11, <1>12
<1>16. told.advice = "no face" => passing = {}
  BY <1>2, <1>10, <1>12
<1>14. told.advice = "low" /\ FairScore <= CosineThreshold => passing = {}
  <2> SUFFICES ASSUME told.advice = "low", FairScore <= CosineThreshold, NEW k \in passing
               PROVE  FALSE
    OBVIOUS
  <2>1. k \in usable /\ scores[k] \in Int /\ scores[k] >= CosineThreshold
    BY <1>7, <1>12
  <2>2. scores[k] >= FairScore
    <3> HIDE DEF told, scores, usable, passing, enrolled, counted, Reaches
    <3> QED
      BY <2>1, PassingIsFair
  <2>3. Reaches(FairScore)
    BY <2>1, <2>2
  <2> QED
    BY <1>2, <1>10, <2>1, <2>3
<1>15. told.advice = "no face" <=> told.faces = 0
  BY <1>2, <1>4, <1>9, <1>10, FS_EmptySet
<1> QED
  BY <1>2, <1>8, <1>13, <1>14, <1>15, <1>16

LEMMA SelfTestAgrees ==
    ASSUME NEW models, NEW samples \in Samples, TestSelf(models, samples[1])
    PROVE  DiagnosisAgrees' /\ (stored' = stored)
<1> DEFINE feature == samples[1]
<1>1. feature \in Vectors
  <2>1. samples \in Seq(Vectors) /\ samples # <<>>
    BY EngineAssumption
  <2> QED
    BY <2>1
<1> HIDE DEF feature
<1>2. /\ event' = [op |-> "selftest", feature |-> feature, did |-> SelfTest(models, feature)]
      /\ stored' = stored
  BY DEF TestSelf, feature
<1>3. SelfTest(models, feature) /\ CosineThreshold <= Highest => Accepts(<<feature>>, feature)
  <2>1. <<feature>> \in Seq(Vectors) /\ 1 \in DOMAIN <<feature>> /\ <<feature>>[1] = feature
    BY <1>1
  <2>2. CosineThreshold \in Int
    BY Limits
  <2>3. SelfTest(models, feature) /\ CosineThreshold <= Highest =>
            Cosine(feature, feature) >= CosineThreshold
    BY <2>2 DEF SelfTest, Highest
  <2> QED
    BY <1>1, <2>1, <2>3, AcceptsAny
<1> QED
  BY <1>2, <1>3 DEF DiagnosisAgrees

-----------------------------------------------------------------------------
(* How a process is started.                                               *)

LEMMA Elements ==
    /\ ToSet(<<>>) = {}
    /\ \A a : ToSet(<<a>>) = {a}
    /\ \A a, b : ToSet(<<a, b>>) = {a, b}
    /\ \A a, b, c : ToSet(<<a, b, c>>) = {a, b, c}
<1>1. \A a : ToSet(<<a>>) = {a}
  BY DEF ToSet
<1>2. \A a, b : ToSet(<<a, b>>) = {a, b}
  BY DEF ToSet
<1>3. \A a, b, c : ToSet(<<a, b, c>>) = {a, b, c}
  BY DEF ToSet
<1>4. ToSet(<<>>) = {}
  BY DEF ToSet
<1> QED
  BY <1>1, <1>2, <1>3, <1>4

LEMMA Prepended ==
    ASSUME NEW S, NEW a \in S, NEW rest \in Seq(S)
    PROVE  ToSet(<<a>> \o rest) = {a} \cup ToSet(rest)
<1> DEFINE c == <<a>> \o rest
           n == Len(rest)
<1>1. <<a>> \in Seq(S) /\ Len(<<a>>) = 1 /\ <<a>>[1] = a
  OBVIOUS
<1>2. n \in Nat /\ DOMAIN rest = 1 .. n
  OBVIOUS
<1>3. c \in Seq(S) /\ Len(c) = n + 1
  BY <1>1
<1>4. c[1] = a
  BY <1>1, <1>2
<1>5. \A k \in 1 .. n : c[k + 1] = rest[k]
  BY <1>1
<1>6. DOMAIN c = 1 .. n + 1
  BY <1>3
<1> HIDE DEF c, n
<1>7. \A k \in 1 .. n : k + 1 \in 1 .. n + 1
  BY <1>2
<1>8. \A k \in 1 .. n + 1 : k = 1 \/ (k - 1 \in 1 .. n /\ (k - 1) + 1 = k)
  BY <1>2
<1>9. 1 \in 1 .. n + 1
  BY <1>2
<1>10. ASSUME NEW x \in ToSet(c) PROVE x \in {a} \cup ToSet(rest)
  <2>1. PICK k \in 1 .. n + 1 : c[k] = x
    BY <1>6 DEF ToSet
  <2>2. CASE k = 1
    BY <1>4, <2>1, <2>2
  <2>3. CASE k - 1 \in 1 .. n /\ (k - 1) + 1 = k
    <3>1. x = rest[k - 1]
      BY <1>5, <2>1, <2>3
    <3> QED
      BY <1>2, <2>3, <3>1 DEF ToSet
  <2> QED
    BY <1>8, <2>2, <2>3
<1>11. ASSUME NEW x \in {a} \cup ToSet(rest) PROVE x \in ToSet(c)
  <2>1. CASE x = a
    BY <1>4, <1>6, <1>9, <2>1 DEF ToSet
  <2>2. CASE x \in ToSet(rest)
    <3>1. PICK k \in 1 .. n : rest[k] = x
      BY <1>2, <2>2 DEF ToSet
    <3> QED
      BY <1>5, <1>6, <1>7, <3>1 DEF ToSet
  <2> QED
    BY <2>1, <2>2
<1> QED
  BY <1>10, <1>11 DEF c

(* Either way of starting the engine runs the same program, in the same    *)
(* mode and with the same flags.                                           *)
LEMMA SameProgram ==
    ASSUME NEW sub \in Subcommands
    PROVE  /\ DevCommand(sub).main = BundledCommand(sub).main
           /\ DevCommand(sub).lock = BundledCommand(sub).lock
           /\ EnrollFlags(DevCommand(sub)) = EnrollFlags(BundledCommand(sub))
           /\ EnrollFlags(DevCommand(sub)).append <=> "--append" \in ToSet(sub)
<1> DEFINE dev == DevCommand(sub)
           bin == BundledCommand(sub)
<1> SUFFICES /\ dev.main = bin.main /\ dev.lock = bin.lock
             /\ "--json" \in ToSet(dev.argv) <=> "--json" \in ToSet(bin.argv)
             /\ "--append" \in ToSet(dev.argv) <=> "--append" \in ToSet(sub)
             /\ "--append" \in ToSet(bin.argv) <=> "--append" \in ToSet(sub)
  <2>1. EnrollFlags(dev) = EnrollFlags(bin)
    BY DEF EnrollFlags
  <2>2. EnrollFlags(dev).append <=> "--append" \in ToSet(dev.argv)
    BY DEF EnrollFlags
  <2> HIDE DEF dev, bin
  <2> QED
    BY <2>1, <2>2 DEF dev, bin
<1> DEFINE Words == {"daemon", "faceid", "verify", "verify-lock", "verify_client", "selftest",
                     "enroll", "--lock", "--json", "--append"}
<1>1. \A a \in Words, rest \in Seq(Words) : ToSet(<<a>> \o rest) = {a} \cup ToSet(rest)
  BY Prepended
<1>2. /\ \A x \in Words : <<x>> \in Seq(Words)
      /\ <<>> \in Seq(Words)
      /\ <<"--json", "--append">> \in Seq(Words)
      /\ <<"enroll", "--json", "--append">> \in Seq(Words)
  OBVIOUS
<1>3. /\ "daemon" \in Words /\ "faceid" \in Words /\ "verify" \in Words /\ "verify-lock" \in Words
      /\ "verify_client" \in Words /\ "selftest" \in Words /\ "enroll" \in Words
      /\ "--lock" \in Words /\ "--json" \in Words
  OBVIOUS
<1> HIDE DEF Words
<1>4. CASE sub = <<"daemon">>
  <2>1. sub # <<>> /\ Head(sub) = "daemon" /\ Tail(sub) = <<>>
    BY <1>4
  <2>2. dev.main = "daemon" /\ dev.argv = <<"daemon">> \o <<>> /\ dev.lock = FALSE
    BY <2>1 DEF DevCommand
  <2>3. bin.main = "daemon" /\ bin.argv = <<"faceid">> \o <<"daemon">> /\ bin.lock = FALSE
    BY <1>4, <2>1 DEF BundledCommand
  <2> HIDE DEF dev, bin
  <2>4. ToSet(<<"daemon">> \o <<>>) = {"daemon"} \cup ToSet(<<>>)
    BY <1>1, <1>2, <1>3
  <2>5. ToSet(<<"faceid">> \o <<"daemon">>) = {"faceid"} \cup ToSet(<<"daemon">>)
    BY <1>1, <1>2, <1>3
  <2>6. ToSet(dev.argv) = {"daemon"} /\ ToSet(bin.argv) = {"faceid", "daemon"}
    BY <2>2, <2>3, <2>4, <2>5, Elements
  <2>7. ToSet(sub) = {"daemon"}
    BY <1>4, Elements
  <2> QED
    BY <2>2, <2>3, <2>6, <2>7
<1>5. CASE sub = <<"verify">>
  <2>1. sub # <<>> /\ Head(sub) = "verify" /\ Tail(sub) = <<>>
    BY <1>5
  <2>2. dev.main = "verify_client" /\ dev.argv = <<"verify_client">> \o <<>> /\ dev.lock = FALSE
    BY <2>1 DEF DevCommand
  <2>3. bin.main = "verify_client" /\ bin.argv = <<"faceid">> \o <<"verify">> /\ bin.lock = FALSE
    BY <1>5, <2>1 DEF BundledCommand
  <2> HIDE DEF dev, bin
  <2>4. ToSet(<<"verify_client">> \o <<>>) = {"verify_client"} \cup ToSet(<<>>)
    BY <1>1, <1>2, <1>3
  <2>5. ToSet(<<"faceid">> \o <<"verify">>) = {"faceid"} \cup ToSet(<<"verify">>)
    BY <1>1, <1>2, <1>3
  <2>6. ToSet(dev.argv) = {"verify_client"} /\ ToSet(bin.argv) = {"faceid", "verify"}
    BY <2>2, <2>3, <2>4, <2>5, Elements
  <2>7. ToSet(sub) = {"verify"}
    BY <1>5, Elements
  <2> QED
    BY <2>2, <2>3, <2>6, <2>7
<1>6. CASE sub = <<"verify-lock">>
  <2>1. sub # <<>> /\ Head(sub) = "verify-lock" /\ Tail(sub) = <<>>
    BY <1>6
  <2>2. dev.main = "verify_client" /\ dev.argv = <<"verify_client">> \o <<"--lock">> /\ dev.lock = TRUE
    BY <2>1 DEF DevCommand
  <2>3. bin.main = "verify_client" /\ bin.argv = <<"faceid">> \o <<"verify-lock">> /\ bin.lock = TRUE
    BY <1>6, <2>1 DEF BundledCommand
  <2> HIDE DEF dev, bin
  <2>4. ToSet(<<"verify_client">> \o <<"--lock">>) = {"verify_client"} \cup ToSet(<<"--lock">>)
    BY <1>1, <1>2, <1>3
  <2>5. ToSet(<<"faceid">> \o <<"verify-lock">>) = {"faceid"} \cup ToSet(<<"verify-lock">>)
    BY <1>1, <1>2, <1>3
  <2>6. ToSet(dev.argv) = {"verify_client", "--lock"} /\ ToSet(bin.argv) = {"faceid", "verify-lock"}
    BY <2>2, <2>3, <2>4, <2>5, Elements
  <2>7. ToSet(sub) = {"verify-lock"}
    BY <1>6, Elements
  <2> QED
    BY <2>2, <2>3, <2>6, <2>7
<1>7. CASE sub = <<"selftest">>
  <2>1. sub # <<>> /\ Head(sub) = "selftest" /\ Tail(sub) = <<>>
    BY <1>7
  <2>2. dev.main = "selftest" /\ dev.argv = <<"selftest">> \o <<>> /\ dev.lock = FALSE
    BY <2>1 DEF DevCommand
  <2>3. bin.main = "selftest" /\ bin.argv = <<"faceid">> \o <<"selftest">> /\ bin.lock = FALSE
    BY <1>7, <2>1 DEF BundledCommand
  <2> HIDE DEF dev, bin
  <2>4. ToSet(<<"selftest">> \o <<>>) = {"selftest"} \cup ToSet(<<>>)
    BY <1>1, <1>2, <1>3
  <2>5. ToSet(<<"faceid">> \o <<"selftest">>) = {"faceid"} \cup ToSet(<<"selftest">>)
    BY <1>1, <1>2, <1>3
  <2>6. ToSet(dev.argv) = {"selftest"} /\ ToSet(bin.argv) = {"faceid", "selftest"}
    BY <2>2, <2>3, <2>4, <2>5, Elements
  <2>7. ToSet(sub) = {"selftest"}
    BY <1>7, Elements
  <2> QED
    BY <2>2, <2>3, <2>6, <2>7
<1>8. CASE sub = <<"enroll", "--json">>
  <2>1. sub # <<>> /\ Head(sub) = "enroll" /\ Tail(sub) = <<"--json">>
    BY <1>8
  <2>2. dev.main = "enroll" /\ dev.argv = <<"enroll">> \o <<"--json">> /\ dev.lock = FALSE
    BY <2>1 DEF DevCommand
  <2>3. bin.main = "enroll" /\ bin.argv = <<"enroll">> \o <<"--json">> /\ bin.lock = FALSE
    BY <1>8, <2>1 DEF BundledCommand
  <2> HIDE DEF dev, bin
  <2>4. ToSet(<<"enroll">> \o <<"--json">>) = {"enroll"} \cup ToSet(<<"--json">>)
    BY <1>1, <1>2, <1>3
  <2>5. ToSet(<<"enroll">> \o <<"--json">>) = {"enroll"} \cup ToSet(<<"--json">>)
    BY <1>1, <1>2, <1>3
  <2>6. ToSet(dev.argv) = {"enroll", "--json"} /\ ToSet(bin.argv) = {"enroll", "--json"}
    BY <2>2, <2>3, <2>4, <2>5, Elements
  <2>7. ToSet(sub) = {"enroll", "--json"}
    BY <1>8, Elements
  <2> QED
    BY <2>2, <2>3, <2>6, <2>7
<1>9. CASE sub = <<"enroll", "--json", "--append">>
  <2>1. sub # <<>> /\ Head(sub) = "enroll" /\ Tail(sub) = <<"--json", "--append">>
    BY <1>9
  <2>2. dev.main = "enroll" /\ dev.argv = <<"enroll">> \o <<"--json", "--append">> /\ dev.lock = FALSE
    BY <2>1 DEF DevCommand
  <2>3. bin.main = "enroll" /\ bin.argv = <<"enroll">> \o <<"--json", "--append">> /\ bin.lock = FALSE
    BY <1>9, <2>1 DEF BundledCommand
  <2> HIDE DEF dev, bin
  <2>4. ToSet(<<"enroll">> \o <<"--json", "--append">>) = {"enroll"} \cup ToSet(<<"--json", "--append">>)
    BY <1>1, <1>2, <1>3
  <2>5. ToSet(<<"enroll">> \o <<"--json", "--append">>) = {"enroll"} \cup ToSet(<<"--json", "--append">>)
    BY <1>1, <1>2, <1>3
  <2>6. ToSet(dev.argv) = {"enroll", "--json", "--append"} /\ ToSet(bin.argv) = {"enroll", "--json", "--append"}
    BY <2>2, <2>3, <2>4, <2>5, Elements
  <2>7. ToSet(sub) = {"enroll", "--json", "--append"}
    BY <1>9, Elements
  <2> QED
    BY <2>2, <2>3, <2>6, <2>7
<1> QED
  BY <1>4, <1>5, <1>6, <1>7, <1>8, <1>9 DEF Subcommands

LEMMA CommandIsAsAsked ==
    ASSUME NEW bundled \in BOOLEAN, NEW sub \in Subcommands, RunCommand(bundled, sub)
    PROVE  StartedAsAsked'
<1> DEFINE did == FaceidCmd(bundled, sub)
           other == FaceidCmd(~bundled, sub)
<1>1. /\ did.main = other.main
      /\ did.lock = other.lock
      /\ EnrollFlags(did) = EnrollFlags(other)
      /\ EnrollFlags(did).append <=> "--append" \in ToSet(sub)
  <2>1. CASE bundled
    <3>1. did = BundledCommand(sub) /\ other = DevCommand(sub)
      BY <2>1 DEF FaceidCmd
    <3> HIDE DEF did, other
    <3> QED
      BY <3>1, SameProgram
  <2>2. CASE ~bundled
    <3>1. did = DevCommand(sub) /\ other = BundledCommand(sub)
      BY <2>2 DEF FaceidCmd
    <3> HIDE DEF did, other
    <3> QED
      BY <3>1, SameProgram
  <2> QED
    BY <2>1, <2>2
<1>2. event' = [op |-> "command", bundled |-> bundled, sub |-> sub, did |-> did]
  BY DEF RunCommand
<1>3. event'.op = "command" /\ event'.sub = sub /\ event'.did = did /\ (event'.bundled <=> bundled)
  BY <1>2
<1>4. FaceidCmd(~event'.bundled, event'.sub) = other
  BY <1>3 DEF FaceidCmd
<1> HIDE DEF did, other
<1> QED
  BY <1>1, <1>3, <1>4 DEF StartedAsAsked

(* The environment of a daemon that the app starts.                        *)
LEMMA AppsEnvironment ==
    ASSUME NEW own, NEW bundled \in BOOLEAN, NEW localization, NEW settings
    PROVE  LET env == DaemonEnv(own, bundled, localization, settings)
           IN  /\ {"FACEID_LANG", "FACEID_I18N", "FACEID_THRESHOLD", "FACEID_MODAL",
                   "FACEID_HUD"} \subseteq DOMAIN env
               /\ env["FACEID_LANG"] = localization /\ env["FACEID_I18N"] = EngineJson
               /\ env["FACEID_THRESHOLD"] = settings.threshold
               /\ env["FACEID_MODAL"] = IF settings.modal THEN "1" ELSE "0"
               /\ env["FACEID_HUD"] = IF settings.hud THEN "1" ELSE "0"
               /\ \A name \in {"FACEID_HELPERS_DIR", "FACEID_MODELS_DIR"} :
                     IF bundled THEN name \in DOMAIN env /\ env[name] = "bundle"
                     ELSE /\ name \in DOMAIN env <=> name \in DOMAIN own
                          /\ name \in DOMAIN env => env[name] = own[name]
<1> DEFINE env == DaemonEnv(own, bundled, localization, settings)
           app == ChildEnv(bundled, localization)
           set == SettingsEnv(settings)
<1> DEFINE first == [FACEID_LANG |-> localization, FACEID_I18N |-> EngineJson]
           dirs == [FACEID_HELPERS_DIR |-> "bundle", FACEID_ASSETS_DIR |-> "bundle",
                    FACEID_MODELS_DIR |-> "bundle"]
           under == Merge(own, app)
           Merged(f, e, n) == /\ DOMAIN f = DOMAIN e \cup DOMAIN n
                              /\ \A x \in DOMAIN n : f[x] = n[x]
                              /\ \A x \in DOMAIN e \ DOMAIN n : f[x] = e[x]
<1>1. ASSUME NEW e, NEW n PROVE Merged(Merge(e, n), e, n)
  BY DEF Merge
<1>2. /\ DOMAIN set = {"FACEID_THRESHOLD", "FACEID_MODAL", "FACEID_HUD"}
      /\ set["FACEID_THRESHOLD"] = settings.threshold
      /\ set["FACEID_MODAL"] = IF settings.modal THEN "1" ELSE "0"
      /\ set["FACEID_HUD"] = IF settings.hud THEN "1" ELSE "0"
  BY DEF SettingsEnv
<1>3. /\ DOMAIN first = {"FACEID_LANG", "FACEID_I18N"}
      /\ first["FACEID_LANG"] = localization /\ first["FACEID_I18N"] = EngineJson
  OBVIOUS
<1>4. /\ DOMAIN dirs = {"FACEID_HELPERS_DIR", "FACEID_ASSETS_DIR", "FACEID_MODELS_DIR"}
      /\ dirs["FACEID_HELPERS_DIR"] = "bundle" /\ dirs["FACEID_MODELS_DIR"] = "bundle"
  OBVIOUS
<1>5. app = Merge(first, IF bundled THEN dirs ELSE <<>>)
  BY DEF ChildEnv
<1>6. env = Merge(under, set)
  BY DEF DaemonEnv
<1> HIDE DEF env, app, set, first, dirs
<1>7. Merged(under, own, app)
  BY <1>1
<1> HIDE DEF under
<1>8. Merged(env, under, set)
  <2>1. Merged(Merge(under, set), under, set)
    BY <1>1
  <2> HIDE DEF Merged
  <2> QED
    BY <1>6, <2>1
<1>9. CASE bundled
  <2>1. Merged(app, first, dirs)
    <3>1. Merged(Merge(first, dirs), first, dirs)
      BY <1>1
    <3> HIDE DEF Merged
    <3> QED
      BY <1>5, <1>9, <3>1
  <2>2. /\ DOMAIN app = {"FACEID_LANG", "FACEID_I18N", "FACEID_HELPERS_DIR",
                         "FACEID_ASSETS_DIR", "FACEID_MODELS_DIR"}
        /\ app["FACEID_LANG"] = localization /\ app["FACEID_I18N"] = EngineJson
        /\ app["FACEID_HELPERS_DIR"] = "bundle" /\ app["FACEID_MODELS_DIR"] = "bundle"
    BY <1>3, <1>4, <2>1
  <2>3. /\ DOMAIN app \subseteq DOMAIN under
        /\ under["FACEID_LANG"] = localization /\ under["FACEID_I18N"] = EngineJson
        /\ under["FACEID_HELPERS_DIR"] = "bundle" /\ under["FACEID_MODELS_DIR"] = "bundle"
    BY <1>7, <2>2
  <2>4. /\ DOMAIN app \subseteq DOMAIN env /\ DOMAIN set \subseteq DOMAIN env
        /\ env["FACEID_LANG"] = localization /\ env["FACEID_I18N"] = EngineJson
        /\ env["FACEID_HELPERS_DIR"] = "bundle" /\ env["FACEID_MODELS_DIR"] = "bundle"
    BY <1>2, <1>8, <2>2, <2>3
  <2> HIDE DEF Merged
  <2>5. \A name \in {"FACEID_HELPERS_DIR", "FACEID_MODELS_DIR"} :
          name \in DOMAIN env /\ env[name] = "bundle"
    BY <2>2, <2>4
  <2>6. {"FACEID_LANG", "FACEID_I18N", "FACEID_THRESHOLD", "FACEID_MODAL", "FACEID_HUD"}
          \subseteq DOMAIN env
    BY <1>2, <2>2, <2>4
  <2>7. \A x \in DOMAIN set : env[x] = set[x]
    BY <1>8 DEF Merged
  <2> QED
    BY <1>2, <1>9, <2>4, <2>5, <2>6, <2>7 DEF env
<1>10. CASE ~bundled
  <2>1. Merged(app, first, <<>>) /\ DOMAIN <<>> = {}
    <3>1. Merged(Merge(first, <<>>), first, <<>>)
      BY <1>1
    <3>2. DOMAIN <<>> = {}
      OBVIOUS
    <3> HIDE DEF Merged
    <3> QED
      BY <1>5, <1>10, <3>1, <3>2
  <2>2. /\ DOMAIN app = {"FACEID_LANG", "FACEID_I18N"}
        /\ app["FACEID_LANG"] = localization /\ app["FACEID_I18N"] = EngineJson
    BY <1>3, <2>1
  <2>3. /\ DOMAIN app \subseteq DOMAIN under
        /\ under["FACEID_LANG"] = localization /\ under["FACEID_I18N"] = EngineJson
    BY <1>7, <2>2
  <2>4. /\ DOMAIN app \subseteq DOMAIN env /\ DOMAIN set \subseteq DOMAIN env
        /\ env["FACEID_LANG"] = localization /\ env["FACEID_I18N"] = EngineJson
    BY <1>2, <1>8, <2>2, <2>3
  <2>5. \A name \in {"FACEID_HELPERS_DIR", "FACEID_MODELS_DIR"} :
          name \notin DOMAIN app /\ name \notin DOMAIN set
    BY <1>2, <2>2
  <2>6. \A name \in {"FACEID_HELPERS_DIR", "FACEID_MODELS_DIR"} :
          /\ name \in DOMAIN env <=> name \in DOMAIN own
          /\ name \in DOMAIN env => env[name] = own[name]
    <3> TAKE name \in {"FACEID_HELPERS_DIR", "FACEID_MODELS_DIR"}
    <3>1. name \notin DOMAIN app /\ name \notin DOMAIN set
      BY <2>5
    <3> QED
      BY <1>7, <1>8, <3>1
  <2> HIDE DEF Merged
  <2>7. {"FACEID_LANG", "FACEID_I18N", "FACEID_THRESHOLD", "FACEID_MODAL", "FACEID_HUD"}
          \subseteq DOMAIN env
    BY <1>2, <2>2, <2>4
  <2>8. \A x \in DOMAIN set : env[x] = set[x]
    BY <1>8 DEF Merged
  <2> QED
    BY <1>2, <1>10, <2>4, <2>6, <2>7, <2>8 DEF env
<1> QED
  BY <1>9, <1>10

(* The app leaves every number but the threshold as its own environment    *)
(* has it.                                                                 *)
LEMMA OtherNumbers ==
    ASSUME NEW own, NEW bundled \in BOOLEAN, NEW localization, NEW settings,
           NEW name \in NumberNames \ {"FACEID_THRESHOLD"}
    PROVE  LET env == DaemonEnv(own, bundled, localization, settings)
           IN  /\ name \in DOMAIN env <=> name \in DOMAIN own
               /\ name \in DOMAIN env => env[name] = own[name]
<1> DEFINE app == ChildEnv(bundled, localization)
           set == SettingsEnv(settings)
<1>1. name \notin DOMAIN set
  BY DEF NumberNames, SettingsEnv
<1>2. name \notin DOMAIN app
  BY DEF NumberNames, ChildEnv, Merge
<1> HIDE DEF app, set
<1>3. DaemonEnv(own, bundled, localization, settings) = Merge(Merge(own, app), set)
  BY DEF DaemonEnv, app, set
<1> QED
  BY <1>1, <1>2, <1>3 DEF Merge

LEMMA AppStartsAsAsked ==
    ASSUME NEW own \in OwnEnvs, NEW bundled \in BOOLEAN, NEW localization \in Langs,
           NEW settings \in Settings, StartFromApp(own, bundled, localization, settings)
    PROVE  StartedAsAsked'
<1> DEFINE env == DaemonEnv(own, bundled, localization, settings)
           config == event'.config
           read == Config(env, <<>>)
<1>1. /\ settings.modal \in BOOLEAN /\ settings.hud \in BOOLEAN /\ settings.threshold # ""
      /\ \A name \in DOMAIN own \cap {"FACEID_HELPERS_DIR", "FACEID_MODELS_DIR"} :
            own[name] # "bundle"
  BY EngineAssumption
<1>2. event' = [op |-> "start", own |-> own, bundled |-> bundled, localization |-> localization,
                settings |-> settings, config |-> read]
  BY DEF StartFromApp
<1>3. /\ event'.op = "start" /\ event'.settings = settings /\ config = read
      /\ event'.own = own
      /\ event'.bundled <=> bundled
  BY <1>2
<1>4. /\ "FACEID_THRESHOLD" \in DOMAIN env /\ env["FACEID_THRESHOLD"] = settings.threshold
      /\ "FACEID_MODAL" \in DOMAIN env /\ env["FACEID_MODAL"] = IF settings.modal THEN "1" ELSE "0"
      /\ "FACEID_HUD" \in DOMAIN env /\ env["FACEID_HUD"] = IF settings.hud THEN "1" ELSE "0"
      /\ \A name \in {"FACEID_HELPERS_DIR", "FACEID_MODELS_DIR"} :
            IF bundled THEN name \in DOMAIN env /\ env[name] = "bundle"
            ELSE /\ name \in DOMAIN env <=> name \in DOMAIN own
                 /\ name \in DOMAIN env => env[name] = own[name]
  BY AppsEnvironment
<1> HIDE DEF env, config
<1>5. /\ read.valid <=> "" \notin {Number(env, name, "0") : name \in NumberNames}
      /\ read.threshold = Number(env, "FACEID_THRESHOLD", "0.36")
      /\ read.hud = Flag(env, "FACEID_HUD", "1") /\ read.modal = Flag(env, "FACEID_MODAL", "0")
      /\ read.helpers = OrDefault(env, "FACEID_HELPERS_DIR", "project")
      /\ read.models = OrDefault(env, "FACEID_MODELS_DIR", "support")
  BY DEF Config
<1> HIDE DEF read
<1>6. read.threshold = settings.threshold
  BY <1>4, <1>5 DEF Number
<1>11. read.valid <=>
         \A name \in (NumberNames \ {"FACEID_THRESHOLD"}) \cap DOMAIN own : own[name] # ""
  <2> DEFINE others == NumberNames \ {"FACEID_THRESHOLD"}
  <2>1. \A name \in others : /\ name \in DOMAIN env <=> name \in DOMAIN own
                             /\ name \in DOMAIN env => env[name] = own[name]
    BY OtherNumbers DEF env
  <2>2. "FACEID_THRESHOLD" \in NumberNames
    BY DEF NumberNames
  <2>3. Number(env, "FACEID_THRESHOLD", "0") # ""
    BY <1>1, <1>4 DEF Number
  <2>4. read.valid <=> \A name \in others : Number(env, name, "0") # ""
    BY <1>5, <2>2, <2>3
  <2>5. \A name \in others : Number(env, name, "0") # "" <=> (name \in DOMAIN own => own[name] # "")
    BY <2>1 DEF Number
  <2> HIDE DEF others
  <2>6. read.valid <=> \A name \in others \cap DOMAIN own : own[name] # ""
    BY <2>4, <2>5
  <2> QED
    BY <2>6 DEF others
<1>7. read.hud = settings.hud /\ read.modal = settings.modal
  <2>1. Flag(env, "FACEID_HUD", "1") = settings.hud
    BY <1>1, <1>4 DEF Flag, OrDefault
  <2>2. Flag(env, "FACEID_MODAL", "0") = settings.modal
    BY <1>1, <1>4 DEF Flag, OrDefault
  <2> QED
    BY <1>5, <2>1, <2>2
<1>8. bundled <=> OrDefault(env, "FACEID_MODELS_DIR", "support") = "bundle"
  BY <1>1, <1>4 DEF OrDefault
<1>9. bundled <=> OrDefault(env, "FACEID_HELPERS_DIR", "project") = "bundle"
  BY <1>1, <1>4 DEF OrDefault
<1>10. /\ event'.bundled <=> read.models = "bundle"
       /\ event'.bundled <=> read.helpers = "bundle"
  BY <1>3, <1>5, <1>8, <1>9
<1> QED
  BY <1>3, <1>6, <1>7, <1>10, <1>11 DEF StartedAsAsked, config

-----------------------------------------------------------------------------
(* The language.                                                           *)

(* A text is a pair that begins with its key, in either file.              *)
LEMMA Texts ==
    /\ DOMAIN EngineJson = Langs
    /\ \A lang \in Langs :
          /\ DOMAIN EngineJson[lang] = EngineKeys
          /\ \A key \in EngineKeys :
                /\ EngineJson[lang][key] = LocalizableStrings[lang][key]
                /\ \E l \in Langs : EngineJson[lang][key] = <<key, l>>
<1>1. English \in Langs /\ EngineKeys \subseteq Keys
      /\ \A key \in Keys : <<key, English>> \notin Untranslated
  BY LaunchAssumption
<1>2. \A key \in Keys, lang \in Langs : \E l \in Langs : Translation(key, lang) = <<key, l>>
  <2> TAKE key \in Keys, lang \in Langs
  <2>1. /\ DOMAIN TR[key] = {l \in Langs : <<key, l>> \notin Untranslated}
        /\ \A l \in DOMAIN TR[key] : TR[key][l] = <<key, l>>
    BY DEF TR
  <2> QED
    BY <1>1, <2>1 DEF Translation
<1>3. /\ DOMAIN EngineJson = Langs
      /\ \A lang \in Langs :
            /\ DOMAIN EngineJson[lang] = EngineKeys
            /\ \A key \in EngineKeys : EngineJson[lang][key] = Translation(key, lang)
  BY DEF EngineJson
<1>4. \A lang \in Langs, key \in Keys : LocalizableStrings[lang][key] = Translation(key, lang)
  BY DEF LocalizableStrings
<1> QED
  BY <1>1, <1>2, <1>3, <1>4

(* The least of some of four numbers.                                      *)
LEMMA LeastKnown ==
    ASSUME NEW known \in SUBSET (1 .. 4), NEW m \in known, \A j \in known : m <= j
    PROVE  (CHOOSE k \in known : \A j \in known : k <= j) = m
<1> DEFINE Least(k) == \A j \in known : k <= j
           least == CHOOSE k \in known : Least(k)
<1>1. least \in known /\ Least(least)
  <2>1. \E k \in known : Least(k)
    OBVIOUS
  <2> HIDE DEF Least
  <2> QED
    BY <2>1
<1> HIDE DEF least
<1>2. m \in Int /\ least \in Int /\ m <= least /\ least <= m
  BY <1>1
<1>3. least = m
  BY <1>2
<1> QED
  BY <1>3 DEF least

LEMMA LeastExists ==
    ASSUME NEW known \in SUBSET (1 .. 4), known # {}
    PROVE  \E m \in known : \A j \in known : m <= j
<1>1. \A j \in known : j = 1 \/ j = 2 \/ j = 3 \/ j = 4
  OBVIOUS
<1>2. CASE 1 \in known
  BY <1>1, <1>2
<1>3. CASE 1 \notin known /\ 2 \in known
  BY <1>1, <1>3
<1>4. CASE 1 \notin known /\ 2 \notin known /\ 3 \in known
  BY <1>1, <1>4
<1>5. CASE 1 \notin known /\ 2 \notin known /\ 3 \notin known
  <2>1. 4 \in known
    BY <1>1, <1>5
  <2>2. \A j \in known : j = 4
    BY <1>1, <1>5
  <2> QED
    BY <2>1, <2>2
<1> QED
  BY <1>2, <1>3, <1>4, <1>5

(* Whatever the environment, the texts are those of the first candidate    *)
(* there is: English is always one.                                        *)
LEMMA Loaded ==
    ASSUME NEW env, NEW preferences,
           "FACEID_I18N" \in DOMAIN env => env["FACEID_I18N"] = EngineJson
    PROVE  \E m \in 1 .. 4 :
              LET candidates == Candidates(PreferredLang(env, preferences))
              IN  /\ candidates[m] \in Langs
                  /\ \A j \in 1 .. 4 : j < m => candidates[j] \notin Langs
                  /\ LoadTranslations(env, preferences) = EngineJson[candidates[m]]
<1> DEFINE candidates == Candidates(PreferredLang(env, preferences))
           table == IF "FACEID_I18N" \in DOMAIN env THEN env["FACEID_I18N"] ELSE EngineJson
<1>1. table = EngineJson
  OBVIOUS
<1>2. DOMAIN candidates = 1 .. 4 /\ candidates[4] = English
  BY DEF Candidates
<1>3. DOMAIN table = Langs
  BY <1>1, Texts
<1> HIDE DEF candidates, table
<1> DEFINE known == {k \in DOMAIN candidates : candidates[k] \in DOMAIN table}
           least == CHOOSE k \in known : \A j \in known : k <= j
<1>4. LoadTranslations(env, preferences) = IF known = {} THEN <<>> ELSE table[candidates[least]]
  BY DEF LoadTranslations, table, candidates
<1>5. known \in SUBSET (1 .. 4) /\ 4 \in known
  BY <1>2, <1>3, LaunchAssumption
<1>6. \A k \in 1 .. 4 : k \in known <=> candidates[k] \in Langs
  BY <1>2, <1>3
<1> HIDE DEF known
<1>7. PICK m \in known : \A j \in known : m <= j
  BY <1>5, LeastExists
<1>8. least = m
  BY <1>5, <1>7, LeastKnown
<1> HIDE DEF least
<1>9. /\ m \in 1 .. 4 /\ candidates[m] \in Langs
      /\ \A j \in 1 .. 4 : j < m => candidates[j] \notin Langs
      /\ LoadTranslations(env, preferences) = EngineJson[candidates[m]]
  BY <1>1, <1>4, <1>5, <1>6, <1>7, <1>8
<1> QED
  BY <1>9 DEF candidates

TextsOfKeys ==
  event.op \in {"start", "terminal"} =>
    \A key \in EngineKeys : \E lang \in Langs : event.config.texts[key] = <<key, lang>>

(* The texts of a configuration are those of the language it has.          *)
LEMMA ConfigTexts ==
    ASSUME NEW env, NEW preferences, NEW lang \in Langs,
           LoadTranslations(env, preferences) = EngineJson[lang], NEW key \in EngineKeys
    PROVE  /\ Config(env, preferences).texts[key] = LocalizableStrings[lang][key]
           /\ \E l \in Langs : Config(env, preferences).texts[key] = <<key, l>>
<1>1. Config(env, preferences).texts[key] = T(LoadTranslations(env, preferences), key)
  BY DEF Config
<1>2. key \in DOMAIN EngineJson[lang] /\ EngineJson[lang][key] = LocalizableStrings[lang][key]
      /\ \E l \in Langs : EngineJson[lang][key] = <<key, l>>
  BY Texts
<1> QED
  BY <1>1, <1>2 DEF T

LEMMA AppStartsInItsLanguage ==
    ASSUME NEW own, NEW bundled \in BOOLEAN, NEW localization \in Langs, NEW settings,
           StartFromApp(own, bundled, localization, settings)
    PROVE  SpeaksTheAppsLanguage' /\ TextsOfKeys'
<1> DEFINE env == DaemonEnv(own, bundled, localization, settings)
<1>1. /\ event'.op = "start" /\ event'.localization = localization
      /\ event'.config = Config(env, <<>>)
  BY DEF StartFromApp
<1>2. /\ "FACEID_LANG" \in DOMAIN env /\ env["FACEID_LANG"] = localization
      /\ "FACEID_I18N" \in DOMAIN env /\ env["FACEID_I18N"] = EngineJson
  BY AppsEnvironment
<1> HIDE DEF env
<1>3. localization # <<>>
  BY LaunchAssumption DEF Locales
<1>4. PreferredLang(env, <<>>) = localization
  BY <1>2, <1>3 DEF PreferredLang
<1>5. Candidates(localization)[1] = localization
  BY DEF Candidates
<1>6. LoadTranslations(env, <<>>) = EngineJson[localization]
  <2>1. PICK m \in 1 .. 4 :
          /\ \A j \in 1 .. 4 : j < m => Candidates(localization)[j] \notin Langs
          /\ LoadTranslations(env, <<>>) = EngineJson[Candidates(localization)[m]]
    BY <1>2, <1>4, Loaded
  <2>2. m = 1
    <3>1. ~ (1 < m)
      BY <1>5, <2>1
    <3> QED
      BY <3>1
  <2> QED
    BY <1>5, <2>1, <2>2
<1>7. \A key \in EngineKeys :
        /\ event'.config.texts[key] = LocalizableStrings[localization][key]
        /\ \E l \in Langs : event'.config.texts[key] = <<key, l>>
  BY <1>1, <1>6, ConfigTexts
<1> QED
  BY <1>1, <1>7 DEF SpeaksTheAppsLanguage, TextsOfKeys

(* In a terminal.                                                          *)
LEMMA TerminalTexts ==
    ASSUME NEW own \in OwnEnvs, NEW preferences \in Preferences, StartInTerminal(own, preferences)
    PROVE  TextsOfKeys'
<1>1. event'.config = Config(own, preferences)
  BY DEF StartInTerminal
<1>2. "FACEID_I18N" \in DOMAIN own => own["FACEID_I18N"] = EngineJson
  BY EngineAssumption
<1>3. PICK lang \in Langs : LoadTranslations(own, preferences) = EngineJson[lang]
  BY <1>2, Loaded
<1> QED
  BY <1>1, <1>3, ConfigTexts DEF TextsOfKeys

(* The candidates of a locale of at most three subtags are its prefixes,   *)
(* the longest first, and English.                                         *)
LEMMA CandidatesArePrefixes ==
    ASSUME NEW wanted \in Locales, Len(wanted) <= 3
    PROVE  LET candidates == Candidates(wanted)
               n == Len(wanted)
           IN  /\ n \in 1 .. 3
               /\ candidates[1] = SubSeq(wanted, 1, n)
               /\ candidates[2] = IF n > 1 THEN SubSeq(wanted, 1, n - 1) ELSE SubSeq(wanted, 1, 1)
               /\ candidates[3] = SubSeq(wanted, 1, 1)
               /\ candidates[4] = English
<1> DEFINE S == STRING
<1>1. wanted \in Seq(S) /\ wanted # <<>>
  BY DEF Locales
<1> HIDE DEF S
<1>2. Len(wanted) \in 1 .. 3 /\ DOMAIN wanted = 1 .. Len(wanted)
  <2>1. Len(wanted) \in Nat /\ DOMAIN wanted = 1 .. Len(wanted)
    BY <1>1
  <2>2. Len(wanted) # 0
    BY <1>1, EmptySeq
  <2> QED
    BY <2>1, <2>2
<1>3. SubSeq(wanted, 1, Len(wanted)) = wanted
  BY <1>1, SubSeqFull
<1>4. SubSeq(wanted, 1, 1) = <<Head(wanted)>>
  <2> DEFINE p == SubSeq(wanted, 1, 1)
             q == <<Head(wanted)>>
  <2>1. \A i \in 1 .. 1 : wanted[i] \in S
    BY <1>1, <1>2
  <2>2. p \in Seq(S) /\ Len(p) = 1 /\ \A i \in 1 .. 1 : p[i] = wanted[i]
    <3>1. /\ p \in Seq(S) /\ Len(p) = IF 1 <= 1 THEN 1 - 1 + 1 ELSE 0
          /\ \A i \in 1 .. 1 - 1 + 1 : p[i] = wanted[1 + i - 1]
      BY <2>1, SubSeqProperties
    <3> QED
      BY <3>1
  <2>3. q \in Seq(S) /\ Len(q) = 1 /\ q[1] = wanted[1]
    BY <1>1, <2>1
  <2> HIDE DEF p, q
  <2>4. \A i \in 1 .. 1 : p[i] = q[i]
    BY <2>2, <2>3
  <2> QED
    BY <2>2, <2>3, <2>4, SeqEqual DEF p, q
<1>5. Front(wanted) = SubSeq(wanted, 1, Len(wanted) - 1)
  BY DEF Front
<1>6. Len(wanted) = 1 => wanted = SubSeq(wanted, 1, 1)
  BY <1>3
<1> DEFINE candidates == Candidates(wanted)
<1>7. /\ candidates[1] = wanted /\ candidates[3] = <<Head(wanted)>> /\ candidates[4] = English
      /\ candidates[2] = IF Len(wanted) > 1 THEN Front(wanted) ELSE wanted
  BY DEF Candidates
<1> HIDE DEF candidates
<1>8. candidates[2] = IF Len(wanted) > 1 THEN SubSeq(wanted, 1, Len(wanted) - 1)
                      ELSE SubSeq(wanted, 1, 1)
  <2>1. CASE Len(wanted) > 1
    BY <1>5, <1>7, <2>1
  <2>2. CASE ~ (Len(wanted) > 1)
    <3>1. Len(wanted) = 1
      BY <1>2, <2>2
    <3> QED
      BY <1>6, <1>7, <2>2, <3>1
  <2> QED
    BY <2>1, <2>2
<1> QED
  BY <1>2, <1>3, <1>4, <1>7, <1>8 DEF candidates

LEMMA GreatestForm ==
    ASSUME NEW forms \in SUBSET Int, NEW m \in forms, \A j \in forms : j <= m
    PROVE  (CHOOSE n \in forms : \A j \in forms : j <= n) = m
<1> DEFINE Greatest(n) == \A j \in forms : j <= n
           greatest == CHOOSE n \in forms : Greatest(n)
<1>1. greatest \in forms /\ Greatest(greatest)
  <2>1. \E n \in forms : Greatest(n)
    OBVIOUS
  <2> HIDE DEF Greatest
  <2> QED
    BY <2>1
<1> HIDE DEF greatest
<1>2. m \in Int /\ greatest \in Int /\ m <= greatest /\ greatest <= m
  BY <1>1
<1>3. greatest = m
  BY <1>2
<1> QED
  BY <1>3 DEF greatest

LEMMA TerminalSpeaks ==
    ASSUME NEW own \in OwnEnvs, NEW preferences \in Preferences, StartInTerminal(own, preferences)
    PROVE  SpeaksTheAppsLanguage'
<1>1. /\ event'.op = "terminal" /\ event'.own = own /\ event'.preferences = preferences
      /\ event'.config = Config(own, preferences)
  BY DEF StartInTerminal
<1>2. CASE preferences = <<>> \/ "FACEID_LANG" \in DOMAIN own
  BY <1>1, <1>2 DEF SpeaksTheAppsLanguage
<1>3. CASE preferences # <<>> /\ "FACEID_LANG" \notin DOMAIN own
  <2> DEFINE wanted == Head(preferences)
             n == Len(wanted)
             P(k) == SubSeq(wanted, 1, k)
             forms == {k \in 1 .. n : P(k) \in Langs}
             greatest == CHOOSE k \in forms : \A j \in forms : j <= k
             closest == IF forms = {} THEN English ELSE P(greatest)
             candidates == Candidates(wanted)
  <2>1. wanted \in Locales /\ n <= 3
    <3>1. preferences \in Seq(Locales) /\ \A k \in DOMAIN preferences : Len(preferences[k]) <= 3
      BY EngineAssumption
    <3>2. 1 \in DOMAIN preferences /\ Head(preferences) = preferences[1]
      BY <1>3, <3>1, EmptySeq
    <3> QED
      BY <3>1, <3>2
  <2>2. PreferredLang(own, preferences) = wanted
    BY <1>3 DEF PreferredLang
  <2>3. "FACEID_I18N" \in DOMAIN own => own["FACEID_I18N"] = EngineJson
    BY EngineAssumption
  <2>4. PICK m \in 1 .. 4 :
          /\ candidates[m] \in Langs
          /\ \A j \in 1 .. 4 : j < m => candidates[j] \notin Langs
          /\ LoadTranslations(own, preferences) = EngineJson[candidates[m]]
    BY <2>2, <2>3, Loaded
  <2>5. /\ n \in 1 .. 3
        /\ candidates[1] = P(n) /\ candidates[3] = P(1) /\ candidates[4] = English
        /\ n > 1 => candidates[2] = P(n - 1)
        /\ n = 1 => candidates[2] = P(1)
    <3> HIDE DEF wanted
    <3>1. /\ Len(wanted) \in 1 .. 3
          /\ candidates[1] = SubSeq(wanted, 1, Len(wanted))
          /\ candidates[2] = IF Len(wanted) > 1 THEN SubSeq(wanted, 1, Len(wanted) - 1)
                             ELSE SubSeq(wanted, 1, 1)
          /\ candidates[3] = SubSeq(wanted, 1, 1)
          /\ candidates[4] = English
      BY <2>1, CandidatesArePrefixes
    <3>2. n = 1 => ~ (n > 1)
      OBVIOUS
    <3> HIDE DEF candidates
    <3> QED
      BY <3>1, <3>2
  <2> HIDE DEF P, candidates, n
  <2>6. \A k \in 1 .. n : k = n \/ k = 1 \/ k = n - 1
    BY <2>5
  <2>7. forms \in SUBSET Int /\ \A k : k \in forms <=> k \in 1 .. n /\ P(k) \in Langs
    OBVIOUS
  <2> HIDE DEF forms
  <2>8. \A g \in forms : (\A j \in forms : j <= g) => closest = P(g)
    <3> SUFFICES ASSUME NEW g \in forms, \A j \in forms : j <= g PROVE closest = P(g)
      OBVIOUS
    <3>1. greatest = g
      BY <2>7, GreatestForm
    <3> HIDE DEF greatest
    <3> QED
      BY <3>1
  <2>9. candidates[m] = closest
    <3>1. CASE m = 1
      <4>1. n \in forms /\ \A j \in forms : j <= n
        BY <2>4, <2>5, <2>7, <3>1
      <4> QED
        BY <2>5, <2>8, <3>1, <4>1
    <3>2. CASE m = 2
      <4>1. candidates[1] \notin Langs /\ candidates[2] \in Langs
        BY <2>4, <3>2
      <4>2. n > 1 /\ P(n) \notin Langs /\ P(n - 1) \in Langs
        BY <2>5, <4>1
      <4>3. n - 1 \in forms /\ \A j \in forms : j # n /\ j \in 1 .. n
        BY <2>5, <2>7, <4>2
      <4>4. \A j \in forms : j <= n - 1
        BY <2>5, <4>3
      <4> QED
        BY <2>5, <2>8, <3>2, <4>2, <4>3, <4>4
    <3>3. CASE m = 3
      <4>1. candidates[1] \notin Langs /\ candidates[2] \notin Langs /\ candidates[3] \in Langs
        BY <2>4, <3>3
      <4>2. 1 \in forms /\ P(n) \notin Langs /\ P(n - 1) \notin Langs
        BY <2>5, <2>7, <4>1
      <4>3. \A j \in forms : j = 1
        BY <2>6, <2>7, <4>2
      <4>4. \A j \in forms : j <= 1
        BY <4>3
      <4> QED
        BY <2>5, <2>8, <3>3, <4>2, <4>4
    <3>4. CASE m = 4
      <4>1. candidates[1] \notin Langs /\ candidates[2] \notin Langs /\ candidates[3] \notin Langs
        BY <2>4, <3>4
      <4>2. P(n) \notin Langs /\ P(1) \notin Langs /\ (n > 1 => P(n - 1) \notin Langs)
        BY <2>5, <4>1
      <4>3. forms = {}
        BY <2>5, <2>6, <2>7, <4>2
      <4> QED
        BY <2>5, <3>4, <4>3
    <3>5. m = 1 \/ m = 2 \/ m = 3 \/ m = 4
      OBVIOUS
    <3> QED
      BY <3>1, <3>2, <3>3, <3>4, <3>5
  <2> HIDE DEF closest
  <2>10. \A key \in EngineKeys : event'.config.texts[key] = LocalizableStrings[closest][key]
    BY <1>1, <2>4, <2>9, ConfigTexts
  <2> QED
    BY <1>1, <2>10 DEF SpeaksTheAppsLanguage, closest, greatest, forms, P, n
<1> QED
  BY <1>2, <1>3

-----------------------------------------------------------------------------
(* The choice of a method.                                                 *)

(* The texts of the buttons tell them apart, from no answer and from a     *)
(* dialog that was cancelled.                                              *)
LEMMA ButtonsDiffer ==
    ASSUME event.op \in {"start", "terminal"}, TextsOfKeys
    PROVE  LET Text(b) == event.config.texts[Buttons[b]]
           IN  /\ \A b \in DOMAIN Buttons : Text(b) # None /\ Text(b) # <<>>
               /\ Text("face") # Text("touch") /\ Text("face") # Text("password")
               /\ Text("touch") # Text("password")
<1> DEFINE Text(b) == event.config.texts[Buttons[b]]
           S == STRING
<1>1. /\ DOMAIN Buttons = {"face", "touch", "password"}
      /\ Buttons["face"] = "engine.btn.face" /\ Buttons["touch"] = "engine.btn.touch"
      /\ Buttons["password"] = "engine.btn.password"
  BY DEF Buttons
<1>2. \A b \in DOMAIN Buttons : Buttons[b] \in EngineKeys
  BY EngineAssumption
<1>3. None \notin EngineKeys \X Seq(S) /\ Langs \subseteq Seq(S)
  BY EngineAssumption, LaunchAssumption DEF Locales
<1> HIDE DEF S
<1>4. \A b \in DOMAIN Buttons : \E lang \in Langs : Text(b) = <<Buttons[b], lang>>
  BY <1>2 DEF TextsOfKeys
<1> HIDE DEF Text
<1>5. \A b \in DOMAIN Buttons : Text(b) # None /\ Text(b) # <<>> /\ Text(b)[1] = Buttons[b]
  <2> TAKE b \in DOMAIN Buttons
  <2>1. PICK lang \in Langs : Text(b) = <<Buttons[b], lang>>
    BY <1>4
  <2>2. Text(b) \in EngineKeys \X Seq(S)
    BY <1>2, <1>3, <2>1
  <2> QED
    BY <1>3, <2>1, <2>2
<1>6. /\ Text("face")[1] = "engine.btn.face" /\ Text("touch")[1] = "engine.btn.touch"
      /\ Text("password")[1] = "engine.btn.password"
  BY <1>1, <1>5
<1>7. Text("face") # Text("touch") /\ Text("face") # Text("password") /\ Text("touch") # Text("password")
  BY <1>6
<1> QED
  BY <1>5, <1>7 DEF Text

LEMMA ChoiceUnderstood ==
    ASSUME NEW panel \in {"native", "dialog", "nothing"},
           NEW clicked \in DOMAIN Buttons \cup {"cancel", None},
           clicked = "cancel" => panel = "dialog", panel = "nothing" => clicked = None,
           Choose(panel, clicked), TextsOfKeys
    PROVE  ChoiceIsUnderstood'
<1> DEFINE c == event.config
           Text(b) == c.texts[Buttons[b]]
           authModal == IF panel # "native" THEN None
                        ELSE IF clicked = None THEN "password" ELSE clicked
           dialog == CASE panel # "dialog" \/ clicked = None -> None
                       [] panel = "dialog" /\ clicked = "cancel" -> <<>>
                       [] OTHER -> c.texts[Buttons[clicked]]
           did == ChooseMethod(c, authModal, dialog)
<1>1. /\ event.op \in {"start", "terminal"}
      /\ event' = [op |-> "choose", modal |-> c.modal, panel |-> panel, clicked |-> clicked,
                   did |-> did]
  BY DEF Choose
<1>2. event'.op = "choose" /\ event'.panel = panel /\ event'.clicked = clicked /\ event'.did = did
      /\ (event'.modal <=> c.modal)
  BY <1>1
<1>3. /\ DOMAIN Buttons = {"face", "touch", "password"}
      /\ Text("face") = c.texts[Buttons.face] /\ Text("touch") = c.texts[Buttons.touch]
  BY DEF Buttons
<1>4. None \notin {"face", "touch", "password", "cancel"}
  BY <1>3, EngineAssumption
<1>5. /\ \A b \in DOMAIN Buttons : Text(b) # None /\ Text(b) # <<>>
      /\ Text("face") # Text("touch") /\ Text("face") # Text("password")
      /\ Text("touch") # Text("password") /\ <<>> # None
  BY <1>1, ButtonsDiffer, EngineAssumption
<1>6. CASE c.modal
  <2>1. did = IF authModal \in DOMAIN Buttons THEN authModal
              ELSE IF dialog = None THEN "face"
              ELSE IF dialog = Text("face") THEN "face"
              ELSE IF dialog = Text("touch") THEN "touch" ELSE "password"
    <3> HIDE DEF c, authModal, dialog
    <3>1. CASE authModal \in DOMAIN Buttons
      BY <1>6, <3>1 DEF ChooseMethod
    <3>2. CASE authModal \notin DOMAIN Buttons
      BY <1>3, <1>5, <1>6, <3>2 DEF ChooseMethod
    <3> QED
      BY <3>1, <3>2
  <2>2. clicked \in {"face", "touch", "password", "cancel", None}
    BY <1>3
  <2> HIDE DEF did
  <2>3. CASE panel = "native"
    <3>1. did = IF clicked = None THEN "password" ELSE clicked
      BY <1>3, <2>1, <2>2, <2>3
    <3> QED
      BY <1>2, <1>3, <1>4, <2>2, <2>3, <3>1 DEF ChoiceIsUnderstood
  <2>4. CASE panel = "nothing"
    <3>1. clicked = None /\ authModal = None /\ dialog = None
      BY <2>4
    <3>2. did = "face"
      BY <1>3, <1>4, <2>1, <3>1
    <3> QED
      BY <1>2, <1>3, <1>4, <2>4, <3>1, <3>2 DEF ChoiceIsUnderstood
  <2>5. CASE panel = "dialog"
    <3>1. authModal = None /\ authModal \notin DOMAIN Buttons
      BY <1>3, <1>4, <2>5
    <3>2. CASE clicked = None
      <4>1. did = "face"
        <5>1. dialog = None
          BY <1>4, <3>2
        <5> HIDE DEF authModal, dialog
        <5> QED
          BY <2>1, <3>1, <5>1
      <4> QED
        BY <1>2, <1>3, <1>4, <2>5, <3>2, <4>1 DEF ChoiceIsUnderstood
    <3>3. CASE clicked = "cancel"
      <4>1. dialog = <<>>
        BY <1>4, <2>5, <3>3
      <4>2. did = "password"
        BY <1>3, <1>5, <2>1, <3>1, <4>1
      <4> QED
        BY <1>2, <1>3, <1>4, <3>3, <4>2 DEF ChoiceIsUnderstood
    <3>4. CASE clicked \in DOMAIN Buttons
      <4>1. dialog = Text(clicked)
        BY <1>3, <1>4, <2>5, <3>4
      <4> HIDE DEF Text, dialog, authModal
      <4>2. did = clicked
        BY <1>3, <1>5, <2>1, <3>1, <3>4, <4>1
      <4> QED
        BY <1>2, <1>3, <1>4, <3>4, <4>2 DEF ChoiceIsUnderstood
    <3> QED
      BY <3>2, <3>3, <3>4
  <2> QED
    BY <2>3, <2>4, <2>5
<1>7. CASE ~c.modal
  BY <1>2, <1>7 DEF ChoiceIsUnderstood
<1> QED
  BY <1>6, <1>7

-----------------------------------------------------------------------------
(* The invariant.                                                          *)

(* What the properties say, the type of the file a process finds, and what *)
(* a request finds in the texts of the daemon that answers it.             *)
EngineInv ==
  /\ StoredType /\ TextsOfKeys
  /\ FilterKeepsTheBest
  /\ DiagnosisAgrees
  /\ StartedAsAsked
  /\ SpeaksTheAppsLanguage
  /\ ChoiceIsUnderstood

(* Each part is about processes of its own.                                *)
LEMMA OtherProcesses ==
    /\ event'.op # "enroll" => FilterKeepsTheBest'
    /\ event'.op \notin {"diag", "selftest"} => DiagnosisAgrees'
    /\ event'.op \notin {"command", "start"} => StartedAsAsked'
    /\ event'.op \notin {"start", "terminal"} => SpeaksTheAppsLanguage' /\ TextsOfKeys'
    /\ event'.op # "choose" => ChoiceIsUnderstood'
<1>1. event'.op # "enroll" => FilterKeepsTheBest'
  BY DEF FilterKeepsTheBest
<1>2. event'.op \notin {"diag", "selftest"} => DiagnosisAgrees'
  BY DEF DiagnosisAgrees
<1>3. event'.op \notin {"command", "start"} => StartedAsAsked'
  BY DEF StartedAsAsked
<1>4. event'.op \notin {"start", "terminal"} => SpeaksTheAppsLanguage' /\ TextsOfKeys'
  BY DEF SpeaksTheAppsLanguage, TextsOfKeys
<1>5. event'.op # "choose" => ChoiceIsUnderstood'
  BY DEF ChoiceIsUnderstood
<1> QED
  BY <1>1, <1>2, <1>3, <1>4, <1>5

LEMMA EngineBegins ==
    EngineInit => EngineInv
<1> SUFFICES ASSUME EngineInit PROVE EngineInv
  OBVIOUS
<1>1. event.op = "none"
  BY DEF EngineInit
<1>2. StoredType
  <2> SUFFICES ASSUME NEW samples \in Samples, stored = [row |-> samples[1]] PROVE StoredType
    BY DEF EngineInit, StoredType
  <2>1. samples \in Seq(Vectors) /\ samples # <<>>
    BY EngineAssumption
  <2>2. samples[1] \in Vectors
    BY <2>1
  <2> QED
    BY <2>2 DEF StoredType, Files
<1> QED
  BY <1>1, <1>2 DEF EngineInv, TextsOfKeys, FilterKeepsTheBest, DiagnosisAgrees, StartedAsAsked,
    SpeaksTheAppsLanguage, ChoiceIsUnderstood

LEMMA EngineKeeps ==
    EngineInv /\ [EngineNext]_engineVars => EngineInv'
<1> SUFFICES ASSUME EngineInv, [EngineNext]_engineVars PROVE EngineInv'
  OBVIOUS
<1> USE DEF EngineInv
<1>0. stored' = stored => StoredType'
  BY DEF StoredType
<1>1. CASE \E samples \in Samples, append \in BOOLEAN : Enroll(samples, append)
  <2>1. PICK samples \in Samples, append \in BOOLEAN : Enroll(samples, append)
    BY <1>1
  <2>2. FilterKeepsTheBest'
    BY <2>1, EnrollKeepsTheBest
  <2>3. event'.op = "enroll" /\ StoredType'
    BY <2>1, EnrollStores DEF StoredType
  <2> QED
    BY <2>2, <2>3, OtherProcesses
<1>2. CASE \E threshold \in Thresholds, models \in Models, camera \in BOOLEAN, reads \in Reads :
             Diagnose(threshold, models, camera, reads)
  <2>1. PICK threshold \in Thresholds, models \in Models, camera \in BOOLEAN, reads \in Reads :
          Diagnose(threshold, models, camera, reads)
    BY <1>2
  <2>2. DiagnosisAgrees'
    BY <2>1, DiagnoseAgrees
  <2>3. event'.op = "diag" /\ stored' = stored
    BY <2>1 DEF Diagnose
  <2> QED
    BY <1>0, <2>2, <2>3, OtherProcesses
<1>3. CASE \E models \in Models, samples \in Samples : TestSelf(models, samples[1])
  <2>1. PICK models \in Models, samples \in Samples : TestSelf(models, samples[1])
    BY <1>3
  <2>2. DiagnosisAgrees'
    BY <2>1, SelfTestAgrees
  <2>3. event'.op = "selftest" /\ stored' = stored
    BY <2>1 DEF TestSelf
  <2> QED
    BY <1>0, <2>2, <2>3, OtherProcesses
<1>4. CASE \E bundled \in BOOLEAN, sub \in Subcommands : RunCommand(bundled, sub)
  <2>1. PICK bundled \in BOOLEAN, sub \in Subcommands : RunCommand(bundled, sub)
    BY <1>4
  <2>2. StartedAsAsked'
    BY <2>1, CommandIsAsAsked
  <2>3. event'.op = "command" /\ stored' = stored
    BY <2>1 DEF RunCommand
  <2> QED
    BY <1>0, <2>2, <2>3, OtherProcesses
<1>5. CASE \E own \in OwnEnvs, bundled \in BOOLEAN, localization \in Langs, settings \in Settings :
             StartFromApp(own, bundled, localization, settings)
  <2>1. PICK own \in OwnEnvs, bundled \in BOOLEAN, localization \in Langs, settings \in Settings :
          StartFromApp(own, bundled, localization, settings)
    BY <1>5
  <2>2. StartedAsAsked'
    BY <2>1, AppStartsAsAsked
  <2>3. SpeaksTheAppsLanguage' /\ TextsOfKeys'
    BY <2>1, AppStartsInItsLanguage
  <2>4. event'.op = "start" /\ stored' = stored
    BY <2>1 DEF StartFromApp
  <2> QED
    BY <1>0, <2>2, <2>3, <2>4, OtherProcesses
<1>6. CASE \E own \in OwnEnvs, preferences \in Preferences : StartInTerminal(own, preferences)
  <2>1. PICK own \in OwnEnvs, preferences \in Preferences : StartInTerminal(own, preferences)
    BY <1>6
  <2>2. SpeaksTheAppsLanguage' /\ TextsOfKeys'
    BY <2>1, TerminalSpeaks, TerminalTexts
  <2>3. event'.op = "terminal" /\ stored' = stored
    BY <2>1 DEF StartInTerminal
  <2> QED
    BY <1>0, <2>2, <2>3, OtherProcesses
<1>7. CASE \E panel \in {"native", "dialog", "nothing"},
              clicked \in DOMAIN Buttons \cup {"cancel", None} :
             /\ clicked = "cancel" => panel = "dialog"
             /\ panel = "nothing" => clicked = None
             /\ Choose(panel, clicked)
  <2>1. PICK panel \in {"native", "dialog", "nothing"},
             clicked \in DOMAIN Buttons \cup {"cancel", None} :
          /\ clicked = "cancel" => panel = "dialog"
          /\ panel = "nothing" => clicked = None
          /\ Choose(panel, clicked)
    BY <1>7
  <2>2. ChoiceIsUnderstood'
    BY <2>1, ChoiceUnderstood
  <2>3. event'.op = "choose" /\ stored' = stored
    BY <2>1 DEF Choose
  <2> QED
    BY <1>0, <2>2, <2>3, OtherProcesses
<1>8. CASE End
  <2>1. event'.op = "none" /\ stored' = stored
    BY <1>8 DEF End
  <2> QED
    BY <1>0, <2>1, OtherProcesses
<1>9. CASE UNCHANGED engineVars
  <2>1. stored' = stored /\ event' = event
    BY <1>9 DEF engineVars
  <2>2. TextsOfKeys'
    BY <2>1 DEF TextsOfKeys
  <2>3. FilterKeepsTheBest'
    BY <2>1 DEF FilterKeepsTheBest
  <2>4. DiagnosisAgrees'
    BY <2>1 DEF DiagnosisAgrees, Passing, Accepts
  <2>5. StartedAsAsked'
    BY <2>1 DEF StartedAsAsked
  <2>6. SpeaksTheAppsLanguage'
    BY <2>1 DEF SpeaksTheAppsLanguage
  <2>7. ChoiceIsUnderstood'
    BY <2>1 DEF ChoiceIsUnderstood
  <2> QED
    BY <1>0, <2>1, <2>2, <2>3, <2>4, <2>5, <2>6, <2>7
<1> QED
  BY <1>1, <1>2, <1>3, <1>4, <1>5, <1>6, <1>7, <1>8, <1>9 DEF EngineNext

(* What the file holds and what a process was told stay of their kinds,    *)
(* whatever programs are run one after the other, and with them the        *)
(* properties of what these do.                                            *)
THEOREM EngineInvariant ==
    EngineSpec => []EngineInv
<1> QED
  BY EngineBegins, EngineKeeps, PTL DEF EngineSpec

(* Whatever the samples and their similarities, the filter drops none that *)
(* is like the others and keeps none that is worse than one it drops       *)
(* (enroll.py:42).                                                         *)
THEOREM Filtered ==
    EngineSpec => []FilterKeepsTheBest
<1>1. EngineInv => FilterKeepsTheBest
  BY DEF EngineInv
<1> QED
  BY <1>1, EngineInvariant, PTL

(* Whatever is read from the camera and whatever thresholds the diagnosis  *)
(* and the daemon have, what it says of frames that pass is right where    *)
(* these thresholds allow it (diag.py:88).                                 *)
THEOREM Agreed ==
    EngineSpec => []DiagnosisAgrees
<1>1. EngineInv => DiagnosisAgrees
  BY DEF EngineInv
<1> QED
  BY <1>1, EngineInvariant, PTL

(* Whatever the environment of the app holds, the engine runs the program  *)
(* that is asked for, with the app's settings and files, unless one of the *)
(* other numbers of that environment is none (Branding.swift:120).         *)
THEOREM Asked ==
    EngineSpec => []StartedAsAsked
<1>1. EngineInv => StartedAsAsked
  BY DEF EngineInv
<1> QED
  BY <1>1, EngineInvariant, PTL

(* Whatever languages there are and the user prefers, the engine has the   *)
(* texts of the app's language, or of the closest one (config.py:57).      *)
THEOREM Spoken ==
    EngineSpec => []SpeaksTheAppsLanguage
<1>1. EngineInv => SpeaksTheAppsLanguage
  BY DEF EngineInv
<1> QED
  BY <1>1, EngineInvariant, PTL

(* In every language and on either panel, the method that is used is the   *)
(* one that was clicked (daemon.py:129).                                   *)
THEOREM Understood ==
    EngineSpec => []ChoiceIsUnderstood
<1>1. EngineInv => ChoiceIsUnderstood
  BY DEF EngineInv
<1> QED
  BY <1>1, EngineInvariant, PTL

(* Whatever was enrolled and is added, whoever was recognised still is,    *)
(* and nobody else but whom the new rows are like (enroll.py:9).           *)
THEOREM Accumulated ==
    EngineSpec => AppearancesAccumulate
<1> DEFINE Added ==
             event'.op = "enroll" =>
               \A face \in {s[1] : s \in Samples} :
                 Accepts(LoadEmbeddings(stored'), face) <=>
                   \/ Accepts(Rows(event'.samples, event'.kept), face)
                   \/ /\ event'.append /\ stored # None
                      /\ \E k \in DOMAIN LoadEmbeddings(stored) :
                           Cosine(LoadEmbeddings(stored)[k], face) >= CosineThreshold
<1>1. EngineInv /\ [EngineNext]_engineVars => [Added]_engineVars
  <2> SUFFICES ASSUME EngineInv, EngineNext, event'.op = "enroll", NEW s \in Samples
               PROVE  Accepts(LoadEmbeddings(stored'), s[1]) <=>
                        \/ Accepts(Rows(event'.samples, event'.kept), s[1])
                        \/ /\ event'.append /\ stored # None
                           /\ \E k \in DOMAIN LoadEmbeddings(stored) :
                                Cosine(LoadEmbeddings(stored)[k], s[1]) >= CosineThreshold
    OBVIOUS
  <2>1. PICK samples \in Samples, append \in BOOLEAN : Enroll(samples, append)
    BY DEF EngineNext, Diagnose, TestSelf, RunCommand, StartFromApp, StartInTerminal, Choose, End
  <2>2. s[1] \in Vectors
    <3>1. s \in Seq(Vectors) /\ s # <<>>
      BY EngineAssumption
    <3> QED
      BY <3>1
  <2> QED
    BY <2>1, <2>2, EnrollAccumulates DEF EngineInv
<1> QED
  BY <1>1, EngineInvariant, PTL DEF EngineSpec, AppearancesAccumulate

-----------------------------------------------------------------------------
(* Supervision: types.                                                     *)

AppState ==
  [up : BOOLEAN, proc : Nat, settings : Nat, editing : BOOLEAN,
   pending : BOOLEAN, refresh : BOOLEAN, shown : BOOLEAN]

DaemonState ==
  [pc : {"boot", "unlink", "bind", "chmod", "serving", "dead", "socket"},
   by : Nat, settings : Nat]

Typed ==
  /\ apps \in Seq(AppState)
  /\ daemons \in Seq(DaemonState)
  /\ socket \in Nat /\ saved \in Nat /\ contended \in BOOLEAN
  /\ \A i \in Apps : apps[i].proc \in 0 .. Len(daemons)
  /\ \A d \in Daemons : daemons[d].by \in Apps

-----------------------------------------------------------------------------
(* The invariant.                                                          *)

(* Of the daemons an app has started one lives at most, and if the app     *)
(* still runs, it knows it.                                                *)
OneIsKnown ==
  /\ \A d, e \in Daemons :
       Alive(daemons[d]) /\ Alive(daemons[e]) /\ daemons[d].by = daemons[e].by => d = e
  /\ \A d \in Daemons :
       Alive(daemons[d]) /\ apps[daemons[d].by].up => apps[daemons[d].by].proc = d

(* As long as no two daemons started together, only the last one can be at *)
(* its start, and it finds the socket file as it left it.                  *)
FileIsLasts ==
  ~contended =>
    \A d \in Daemons :
      /\ daemons[d].pc # "socket"
      /\ Alive(daemons[d]) /\ daemons[d].pc # "serving" => d = Len(daemons)
      /\ daemons[d].pc = "unlink" => socket # 0
      /\ daemons[d].pc = "bind" => socket = 0
      /\ daemons[d].pc = "chmod" => socket = d
      /\ daemons[d].pc = "serving" /\ d = Len(daemons) => socket = d

IInv == Typed /\ OneIsKnown /\ SettingsApply /\ FileIsLasts

(* What an operation of the controller leaves of app i and the processes:  *)
(* older processes are what they were or were stopped, at most one is new  *)
(* and it is the app's, and the app knows the one of its own that lives.   *)
Owns(i, app, procs) ==
  /\ app \in AppState /\ procs \in Seq(DaemonState) /\ app.proc \in 0 .. Len(procs)
  /\ Len(daemons) <= Len(procs) /\ Len(procs) <= Len(daemons) + 1
  /\ \A d \in Daemons : \/ procs[d] = daemons[d]
                        \/ procs[d].pc = "dead" /\ procs[d].by = daemons[d].by
  /\ \A d \in DOMAIN procs : d \notin Daemons => procs[d].pc = "boot" /\ procs[d].by = i
  /\ \A d, e \in DOMAIN procs :
       Alive(procs[d]) /\ Alive(procs[e]) /\ procs[d].by = i /\ procs[e].by = i => d = e
  /\ \A d \in DOMAIN procs : Alive(procs[d]) /\ procs[d].by = i /\ app.up => app.proc = d

(* And it has the app's settings.                                          *)
Fits(i, app, procs) ==
  /\ Owns(i, app, procs)
  /\ app.up /\ ~app.editing /\ app.proc # 0 /\ Alive(procs[app.proc])
       => procs[app.proc].settings = app.settings

-----------------------------------------------------------------------------
(* Lemmas.                                                                 *)

(* Two daemons at their start are counted.                                 *)
LEMMA TwoStarting ==
  ASSUME NEW procs \in Seq(DaemonState), NEW d \in Starting(procs), NEW e \in Starting(procs), d # e
  PROVE  Cardinality(Starting(procs)) > 1
<1>1. Starting(procs) \subseteq 1 .. Len(procs) /\ Len(procs) \in Nat
  BY DEF Starting
<1>2. IsFiniteSet(Starting(procs))
  <2>1. IsFiniteSet(1 .. Len(procs))
    BY <1>1, FS_Interval
  <2> QED
    BY <1>1, <2>1, FS_Subset
<1>3. Cardinality(Starting(procs)) \in Nat
  BY <1>2, FS_CardinalityType
<1>4. Cardinality(Starting(procs)) # 0 /\ Cardinality(Starting(procs)) # 1
  BY <1>2, FS_EmptySet, FS_Singleton
<1> QED
  BY <1>3, <1>4

(* The types, one by one.                                                  *)
LEMMA TypeFacts ==
  ASSUME IInv
  PROVE  /\ apps \in Seq(AppState) /\ Apps = 1 .. Len(apps) /\ Len(apps) \in Nat
         /\ daemons \in Seq(DaemonState) /\ Daemons = 1 .. Len(daemons) /\ Len(daemons) \in Nat
         /\ \A i \in Apps : apps[i] \in AppState /\ apps[i].proc \in 0 .. Len(daemons)
         /\ \A d \in Daemons : daemons[d] \in DaemonState /\ daemons[d].by \in Apps
  BY DEF IInv, Typed, Apps, Daemons

(* What fits keeps the invariant, for an app that was there or is new.     *)
LEMMA FittingStep ==
  ASSUME IInv, NEW i \in Nat, NEW app, NEW procs, Fits(i, app, procs),
         apps' \in Seq(AppState), DOMAIN apps' = Apps \cup {i}, apps'[i] = app,
         \A j \in Apps : j # i => apps'[j] = apps[j],
         daemons' = procs, contended' = (contended \/ Cardinality(Starting(procs)) > 1),
         socket' = socket, saved' \in Nat
  PROVE  IInv'
<1>1. /\ daemons' \in Seq(DaemonState) /\ Daemons' = 1 .. Len(daemons') /\ Len(daemons') \in Nat
      /\ Daemons \subseteq Daemons'
      /\ \A d \in Daemons' : d \notin Daemons => d = Len(daemons') /\ d = Len(daemons) + 1
  BY TypeFacts DEF Fits, Owns, Daemons
<1>2. \A d \in Daemons' : daemons'[d].by \in Apps'
  BY <1>1, TypeFacts DEF Fits, Owns, Apps, Daemons
<1>3. \A j \in Apps' : apps'[j].proc \in 0 .. Len(daemons')
  BY <1>1, TypeFacts DEF Fits, Owns, Apps
<1>4. Typed'
  BY <1>1, <1>2, <1>3 DEF IInv, Typed
<1>5. OneIsKnown'
  <2>1. ASSUME NEW d \in Daemons', NEW e \in Daemons',
               Alive(daemons'[d]), Alive(daemons'[e]), daemons'[d].by = daemons'[e].by
        PROVE  d = e
    <3>1. CASE daemons'[d].by = i
      BY <1>1, <2>1, <3>1 DEF Fits, Owns, Daemons
    <3>2. CASE daemons'[d].by # i
      <4>1. /\ d \in Daemons /\ e \in Daemons
            /\ daemons'[d] = daemons[d] /\ daemons'[e] = daemons[e]
        BY <1>1, <2>1, <3>2 DEF Fits, Owns, Daemons, Alive
      <4> QED
        BY <2>1, <4>1 DEF IInv, OneIsKnown
    <3> QED
      BY <3>1, <3>2
  <2>2. ASSUME NEW d \in Daemons', Alive(daemons'[d]), apps'[daemons'[d].by].up
        PROVE  apps'[daemons'[d].by].proc = d
    <3>1. CASE daemons'[d].by = i
      BY <1>1, <2>2, <3>1 DEF Fits, Owns, Daemons
    <3>2. CASE daemons'[d].by # i
      <4>1. d \in Daemons /\ daemons'[d] = daemons[d] /\ daemons[d].by \in Apps
        BY <1>1, <2>2, <3>2, TypeFacts DEF Fits, Owns, Daemons, Alive
      <4> QED
        BY <2>2, <3>2, <4>1 DEF IInv, OneIsKnown
    <3> QED
      BY <3>1, <3>2
  <2> QED
    BY <2>1, <2>2 DEF OneIsKnown
<1>6. SettingsApply'
  <2> SUFFICES ASSUME NEW j \in Apps', apps'[j].up, ~apps'[j].editing, apps'[j].proc # 0, Alive(daemons'[apps'[j].proc])
               PROVE  daemons'[apps'[j].proc].settings = apps'[j].settings
    BY DEF SettingsApply, Live
  <2>1. CASE j = i
    BY <2>1 DEF Fits, Owns
  <2>2. CASE j # i
    <3>1. j \in Apps /\ apps'[j] = apps[j] /\ apps[j].proc \in Daemons
      BY <2>2, TypeFacts DEF Apps
    <3>2. daemons'[apps[j].proc] = daemons[apps[j].proc]
      BY <3>1 DEF Fits, Owns, Alive
    <3> QED
      BY <3>1, <3>2 DEF IInv, SettingsApply, Live
  <2> QED
    BY <2>1, <2>2
<1>7. FileIsLasts'
  <2> SUFFICES ASSUME ~contended', NEW d \in Daemons'
               PROVE  /\ daemons'[d].pc # "socket"
                      /\ Alive(daemons'[d]) /\ daemons'[d].pc # "serving" => d = Len(daemons')
                      /\ daemons'[d].pc = "unlink" => socket' # 0
                      /\ daemons'[d].pc = "bind" => socket' = 0
                      /\ daemons'[d].pc = "chmod" => socket' = d
                      /\ daemons'[d].pc = "serving" /\ d = Len(daemons') => socket' = d
    BY DEF FileIsLasts
  <2>1. CASE d \notin Daemons
    BY <1>1, <2>1 DEF Fits, Owns, Daemons
  <2>2. CASE d \in Daemons /\ daemons'[d] # daemons[d]
    BY <2>2 DEF Fits, Owns, Alive
  <2>3. CASE d \in Daemons /\ daemons'[d] = daemons[d] /\ Len(daemons') = Len(daemons)
    BY <2>3 DEF IInv, FileIsLasts
  <2>4. CASE d \in Daemons /\ daemons'[d] = daemons[d] /\ Len(daemons') # Len(daemons)
    <3>1. /\ Len(daemons') \in Daemons' /\ Len(daemons') \notin Daemons
          /\ daemons'[Len(daemons')].pc = "boot"
      <4>1. Len(daemons') > Len(daemons) /\ Len(daemons) \in Nat /\ Daemons = 1 .. Len(daemons)
        BY <1>1, <2>4, TypeFacts DEF Fits, Owns
      <4>2. Len(daemons') \in Daemons' /\ Len(daemons') \notin Daemons
        BY <1>1, <4>1
      <4> QED
        BY <1>1, <4>2 DEF Fits, Owns, Daemons
    <3>2. Len(daemons') \in Starting(daemons')
      BY <3>1 DEF Starting, Alive, Daemons
    <3>3. d \notin Starting(daemons')
      BY <1>1, <2>4, <3>1, <3>2, TwoStarting
    <3>4. ~Alive(daemons[d]) \/ daemons[d].pc = "serving"
      BY <2>4, <3>3 DEF Starting, Daemons
    <3> QED
      BY <2>4, <3>1, <3>4 DEF IInv, FileIsLasts, Alive
  <2> QED
    BY <2>1, <2>2, <2>3, <2>4
<1> QED
  BY <1>4, <1>5, <1>6, <1>7 DEF IInv

(* The same for an app that was there.                                     *)
LEMMA BecomesFitting ==
  ASSUME IInv, NEW i \in Apps, NEW app, NEW procs, Fits(i, app, procs),
         Becomes(i, app, procs), socket' = socket, saved' \in Nat
  PROVE  IInv'
<1>1. i \in Nat /\ app \in AppState
  BY TypeFacts DEF Fits, Owns
<1>2. /\ apps' \in Seq(AppState) /\ DOMAIN apps' = Apps \cup {i} /\ apps'[i] = app
      /\ \A j \in Apps : j # i => apps'[j] = apps[j]
  BY <1>1, TypeFacts DEF Becomes, Apps
<1> QED
  BY <1>1, <1>2, FittingStep DEF Becomes

(* As it stands, an app fits.                                              *)
LEMMA AppFits ==
  ASSUME IInv, NEW i \in Apps
  PROVE  Fits(i, apps[i], daemons)
<1>1. apps[i] \in AppState /\ daemons \in Seq(DaemonState) /\ apps[i].proc \in 0 .. Len(daemons)
  BY TypeFacts
<1>2. Len(daemons) \in Nat /\ DOMAIN daemons = Daemons
  BY TypeFacts DEF Daemons
<1>3. \A d, e \in Daemons : Alive(daemons[d]) /\ Alive(daemons[e]) /\ daemons[d].by = i
                             /\ daemons[e].by = i => d = e
  BY DEF IInv, OneIsKnown
<1>4. \A d \in Daemons : Alive(daemons[d]) /\ daemons[d].by = i /\ apps[i].up => apps[i].proc = d
  BY DEF IInv, OneIsKnown
<1>5. Owns(i, apps[i], daemons)
  BY <1>1, <1>2, <1>3, <1>4 DEF Owns
<1>6. /\ apps[i].up /\ ~apps[i].editing /\ apps[i].proc # 0 /\ Alive(daemons[apps[i].proc])
         => daemons[apps[i].proc].settings = apps[i].settings
  BY DEF IInv, SettingsApply, Live
<1> QED
  BY <1>5, <1>6 DEF Fits

(* What is shown, and whether it is due to be refreshed, does not matter.  *)
LEMMA RefreshedFits ==
  ASSUME IInv, NEW i, NEW app, NEW procs, Fits(i, app, procs), NEW b \in BOOLEAN
  PROVE  Fits(i, Refreshed(app, procs), procs) /\ Fits(i, [app EXCEPT !.refresh = b], procs)
<1>1. IsRunning(app, procs) \in BOOLEAN
  BY DEF IsRunning, Alive
<1>2. ASSUME NEW c \in BOOLEAN
      PROVE  Fits(i, [app EXCEPT !.shown = c], procs)
  BY <1>2 DEF Fits, Owns, AppState
<1>3. Fits(i, [app EXCEPT !.refresh = b], procs)
  BY DEF Fits, Owns, AppState
<1> QED
  BY <1>1, <1>2, <1>3 DEF Refreshed

(* start() begins a process only if the app has none.                      *)
LEMMA StartFits ==
  ASSUME IInv, NEW i \in Nat, NEW app, Fits(i, app, daemons), app.up,
         NEW s \in Start(i, app, daemons)
  PROVE  Fits(i, s[1], s[2])
<1>1. CASE s = <<app, daemons>>
  BY <1>1
<1>2. CASE /\ ~IsRunning(app, daemons)
           /\ s = <<[app EXCEPT !.proc = Len(daemons) + 1], Append(daemons, New(i, app))>>
  <2> DEFINE n == Len(daemons) + 1
             procs == Append(daemons, New(i, app))
             after == [app EXCEPT !.proc = n]
  <2>1. New(i, app) \in DaemonState /\ app \in AppState /\ daemons \in Seq(DaemonState)
        /\ n \in Nat /\ n > 0 /\ Daemons = 1 .. Len(daemons)
    BY TypeFacts DEF Fits, Owns, New, AppState, DaemonState
  <2>2. /\ procs \in Seq(DaemonState) /\ Len(procs) = n /\ DOMAIN procs = 1 .. n
        /\ procs[n] = New(i, app)
        /\ \A d \in Daemons : procs[d] = daemons[d]
    BY <2>1
  <2>3. /\ after \in AppState /\ after.proc = n /\ after.settings = app.settings
        /\ after.up /\ after.editing = app.editing
    BY <2>1 DEF AppState
  <2>4. New(i, app).pc = "boot" /\ New(i, app).by = i /\ New(i, app).settings = app.settings
    BY DEF New
  <2> HIDE DEF procs, after
  <2>5. \A d \in Daemons : Alive(procs[d]) => procs[d].by # i
    <3> SUFFICES ASSUME NEW d \in Daemons, Alive(daemons[d]), daemons[d].by = i
                 PROVE  FALSE
      BY <2>2
    <3>1. app.proc = d
      BY DEF Fits, Owns, Daemons
    <3> QED
      BY <1>2, <2>1, <3>1 DEF IsRunning
  <2>6. \A d \in DOMAIN procs : d \in Daemons \/ d = n
    BY <2>1, <2>2
  <2>7. Fits(i, after, procs)
    BY <2>1, <2>2, <2>3, <2>4, <2>5, <2>6 DEF Fits, Owns
  <2> QED
    BY <1>2, <2>7 DEF procs, after
<1> QED
  BY <1>1, <1>2 DEF Start

(* stop() leaves the app without a process.                                *)
LEMMA StopFits ==
  ASSUME IInv, NEW i \in Apps, NEW app, Owns(i, app, daemons), app.up
  PROVE  /\ Fits(i, Stop(app, daemons)[1], Stop(app, daemons)[2])
         /\ Stop(app, daemons)[1].proc = 0
         /\ \A d \in DOMAIN Stop(app, daemons)[2] :
              Alive(Stop(app, daemons)[2][d]) => Stop(app, daemons)[2][d].by # i
<1>0. daemons \in Seq(DaemonState) /\ Daemons = 1 .. Len(daemons) /\ Len(daemons) \in Nat
      /\ app \in AppState /\ DOMAIN daemons = Daemons
  BY TypeFacts DEF Fits, Owns, Daemons
<1>1. CASE IsRunning(app, daemons)
  <2> DEFINE procs == [daemons EXCEPT ![app.proc] = Dead(@, "dead")]
             after == [app EXCEPT !.proc = 0, !.refresh = TRUE]
  <2>1. app.proc \in Daemons
    BY <1>0, <1>1 DEF IsRunning, Fits, Owns
  <2>2. daemons[app.proc] \in DaemonState
    BY <1>0, <2>1
  <2>3. /\ Dead(daemons[app.proc], "dead") \in DaemonState
        /\ Dead(daemons[app.proc], "dead").pc = "dead"
        /\ Dead(daemons[app.proc], "dead").by = daemons[app.proc].by
    BY <2>2 DEF Dead, DaemonState
  <2>4. /\ procs \in Seq(DaemonState) /\ Len(procs) = Len(daemons) /\ DOMAIN procs = Daemons
        /\ procs[app.proc] = Dead(daemons[app.proc], "dead")
        /\ \A d \in Daemons : d # app.proc => procs[d] = daemons[d]
    BY <1>0, <2>1, <2>3
  <2>5. after \in AppState /\ after.proc = 0
    BY <1>0 DEF AppState
  <2>6. Stop(app, daemons) = <<after, procs>>
    BY <1>1 DEF Stop
  <2> HIDE DEF procs, after
  <2>7. \A d \in Daemons : Alive(procs[d]) => d # app.proc /\ procs[d].by # i
    BY <1>0, <2>3, <2>4 DEF Fits, Owns, Alive
  <2>8. Fits(i, after, procs)
    BY <1>0, <2>3, <2>4, <2>5, <2>7 DEF Fits, Owns
  <2> QED
    BY <2>4, <2>5, <2>6, <2>7, <2>8
<1>2. CASE ~IsRunning(app, daemons)
  <2> DEFINE after == [app EXCEPT !.proc = 0]
  <2>1. after \in AppState /\ after.proc = 0
    BY <1>0 DEF AppState
  <2>2. \A d \in Daemons : Alive(daemons[d]) => daemons[d].by # i
    <3> SUFFICES ASSUME NEW d \in Daemons, Alive(daemons[d]), daemons[d].by = i
                 PROVE  FALSE
      OBVIOUS
    <3>1. app.proc = d
      BY <1>0 DEF Fits, Owns
    <3> QED
      BY <1>0, <1>2, <3>1 DEF IsRunning
  <2>3. Stop(app, daemons) = <<after, daemons>>
    BY <1>2 DEF Stop
  <2> HIDE DEF after
  <2>4. Fits(i, after, daemons)
    BY <1>0, <2>1, <2>2 DEF Fits, Owns
  <2> QED
    BY <1>0, <2>1, <2>2, <2>3, <2>4
<1> QED
  BY <1>1, <1>2

(* restartDaemon() is a stop; what waits for its restart may differ.       *)
LEMMA RestartStep ==
  ASSUME IInv, NEW i \in Apps, apps[i].up, NEW app \in AppState,
         app.proc = apps[i].proc, app.up, RestartDaemon(i, app),
         socket' = socket, saved' \in Nat
  PROVE  IInv'
<1> DEFINE halted == [app EXCEPT !.pending = TRUE]
           stopped == Stop(app, daemons)
<1>1. Owns(i, halted, daemons)
  BY AppFits DEF Fits, Owns, AppState
<1>2. halted \in AppState /\ halted.up
  BY DEF AppState
<1>3. /\ Stop(halted, daemons)[1] = [stopped[1] EXCEPT !.pending = TRUE]
      /\ Stop(halted, daemons)[2] = stopped[2]
  BY DEF Stop, IsRunning, AppState
<1> HIDE DEF halted, stopped
<1>4. Fits(i, [stopped[1] EXCEPT !.pending = TRUE], stopped[2])
  <2>1. Fits(i, Stop(halted, daemons)[1], Stop(halted, daemons)[2])
    BY <1>1, <1>2, StopFits
  <2> QED
    BY <1>3, <2>1
<1> QED
  BY <1>4, BecomesFitting DEF RestartDaemon, stopped

-----------------------------------------------------------------------------
LEMMA InitInvariant == Init => IInv
<1> SUFFICES ASSUME Init PROVE IInv
  OBVIOUS
<1>1. /\ apps \in Seq(AppState) /\ daemons \in Seq(DaemonState)
      /\ Apps = {} /\ Daemons = {}
  BY DEF Init, Apps, Daemons
<1> QED
  BY <1>1 DEF Init, IInv, Typed, OneIsKnown, SettingsApply, FileIsLasts

(* The app's steps.                                                        *)
LEMMA AppSteps ==
  ASSUME IInv, NEW i \in Apps,
         Change(i) \/ Drag(i) \/ Release(i) \/ StartDaemon(i) \/ Main(i) \/ Quit(i) \/ Crash(i)
  PROVE  IInv'
<1>0. /\ i \in Nat /\ apps[i] \in AppState /\ saved \in Nat /\ saved + 1 \in Nat
      /\ Fits(i, apps[i], daemons)
  BY TypeFacts, AppFits DEF IInv, Typed
<1>1. CASE Change(i)
  <2>1. [apps[i] EXCEPT !.settings = saved'] \in AppState
    BY <1>0, <1>1 DEF Change, AppState
  <2> QED
    BY <1>0, <1>1, <2>1, RestartStep DEF Change, AppState
<1>2. CASE Drag(i)
  <2> DEFINE app == [apps[i] EXCEPT !.settings = saved', !.editing = TRUE]
  <2>1. Fits(i, app, daemons)
    BY <1>0, <1>2 DEF Drag, Fits, Owns, AppState
  <2>2. app \in AppState
    BY <2>1 DEF Fits, Owns
  <2>3. apps' = [apps EXCEPT ![i] = app] /\ UNCHANGED <<daemons, socket, contended>> /\ saved' \in Nat
    BY <1>0, <1>2 DEF Drag
  <2> HIDE DEF app
  <2>4. /\ apps' \in Seq(AppState) /\ DOMAIN apps' = Apps /\ apps'[i] = app
        /\ \A j \in Apps : j # i => apps'[j] = apps[j]
    BY <2>2, <2>3, TypeFacts DEF Apps
  <2>5. app.proc = apps[i].proc /\ app.up = apps[i].up /\ app.editing
    BY <1>0 DEF AppState, app
  <2>6. Typed'
    <3>1. \A j \in Apps : apps'[j].proc = apps[j].proc
      BY <2>4, <2>5
    <3> QED
      BY <2>3, <2>4, <3>1 DEF IInv, Typed, Apps, Daemons
  <2>7. OneIsKnown'
    <3>1. \A j \in Apps : apps'[j].proc = apps[j].proc /\ apps'[j].up = apps[j].up
      BY <2>4, <2>5
    <3>2. \A d \in Daemons : daemons[d].by \in Apps
      BY DEF IInv, Typed
    <3> QED
      BY <2>3, <3>1, <3>2 DEF IInv, OneIsKnown, Daemons
  <2>8. SettingsApply'
    BY <2>3, <2>4, <2>5 DEF IInv, SettingsApply, Live, Apps
  <2>9. FileIsLasts'
    BY <2>3 DEF IInv, FileIsLasts, Daemons
  <2> QED
    BY <2>6, <2>7, <2>8, <2>9 DEF IInv
<1>3. CASE Release(i)
  <2>1. [apps[i] EXCEPT !.editing = FALSE] \in AppState
    BY <1>0 DEF AppState
  <2> QED
    BY <1>0, <1>3, <2>1, RestartStep DEF Release, AppState
<1>4. CASE StartDaemon(i)
  <2>1. PICK r \in Start(i, apps[i], daemons) : Becomes(i, [r[1] EXCEPT !.refresh = TRUE], r[2])
    BY <1>4 DEF StartDaemon
  <2>2. Fits(i, r[1], r[2])
    BY <1>0, <1>4, <2>1, StartFits DEF StartDaemon
  <2>3. Fits(i, [r[1] EXCEPT !.refresh = TRUE], r[2])
    BY <2>2, RefreshedFits
  <2> QED
    BY <1>0, <1>4, <2>1, <2>3, BecomesFitting DEF StartDaemon
<1>5. CASE PendingRestart(i)
  <2> DEFINE app == [apps[i] EXCEPT !.pending = FALSE]
  <2>1. Fits(i, app, daemons) /\ app.up
    BY <1>0, <1>5 DEF PendingRestart, Fits, Owns, AppState
  <2>2. PICK r \in Start(i, app, daemons) : Becomes(i, Refreshed(r[1], r[2]), r[2])
    BY <1>5 DEF PendingRestart
  <2> HIDE DEF app
  <2>3. Fits(i, Refreshed(r[1], r[2]), r[2])
    BY <1>0, <2>1, <2>2, StartFits, RefreshedFits
  <2> QED
    BY <1>0, <1>5, <2>2, <2>3, BecomesFitting DEF PendingRestart
<1>6. CASE PostedRefresh(i)
  <2>1. Fits(i, Refreshed([apps[i] EXCEPT !.refresh = FALSE], daemons), daemons)
    BY <1>0, RefreshedFits
  <2> QED
    BY <1>0, <1>6, <2>1, BecomesFitting DEF PostedRefresh
<1>7. CASE Quit(i)
  <2>1. Fits(i, Stop(apps[i], daemons)[1], Stop(apps[i], daemons)[2])
    <3>1. Owns(i, apps[i], daemons)
      BY <1>0 DEF Fits
    <3> QED
      BY <1>0, <1>7, <3>1, StopFits DEF Quit
  <2>2. Fits(i, Gone, Stop(apps[i], daemons)[2])
    BY <2>1 DEF Fits, Owns, Gone, AppState
  <2> QED
    BY <1>0, <1>7, <2>2, BecomesFitting DEF Quit
<1>8. CASE Crash(i)
  <2>1. Fits(i, Gone, daemons)
    BY <1>0 DEF Fits, Owns, Gone, AppState
  <2> QED
    BY <1>0, <1>8, <2>1, BecomesFitting DEF Crash
<1> QED
  BY <1>1, <1>2, <1>3, <1>4, <1>5, <1>6, <1>7, <1>8 DEF Main

(* A new instance starts with what is saved.                               *)
LEMMA LaunchStep ==
  ASSUME IInv, Launch
  PROVE  IInv'
<1> DEFINE i == Len(apps) + 1
           app == [Gone EXCEPT !.up = TRUE, !.settings = saved]
<1>1. /\ i \in Nat /\ i \notin Apps /\ saved \in Nat
      /\ apps \in Seq(AppState) /\ Apps = 1 .. Len(apps) /\ Len(apps) \in Nat
  BY TypeFacts DEF IInv, Typed
<1>2. app \in AppState /\ app.up /\ app.proc = 0
  BY <1>1 DEF Gone, AppState
<1>3. PICK r \in Start(i, app, daemons) :
        /\ apps' = Append(apps, Refreshed(r[1], r[2]))
        /\ daemons' = r[2]
        /\ contended' = (contended \/ Cardinality(Starting(r[2])) > 1)
  BY DEF Launch
<1>4. UNCHANGED <<socket, saved>>
  BY DEF Launch
<1> HIDE DEF i, app
<1>5. Fits(i, app, daemons)
  <2>1. /\ daemons \in Seq(DaemonState) /\ DOMAIN daemons = Daemons /\ Len(daemons) \in Nat
        /\ \A d \in Daemons : daemons[d].by \in Apps
    BY TypeFacts DEF Daemons
  <2>2. Owns(i, app, daemons)
    <3>1. app.proc \in 0 .. Len(daemons) /\ Len(daemons) <= Len(daemons) + 1
      BY <1>2, <2>1
    <3>2. \A d \in Daemons : daemons[d].by # i
      BY <1>1, <2>1
    <3> QED
      BY <1>2, <2>1, <3>1, <3>2 DEF Owns
  <2> QED
    BY <1>2, <2>2 DEF Fits
<1>6. Fits(i, Refreshed(r[1], r[2]), r[2])
  BY <1>1, <1>2, <1>3, <1>5, StartFits, RefreshedFits
<1>7. Refreshed(r[1], r[2]) \in AppState
  BY <1>6 DEF Fits, Owns
<1>8. /\ apps' \in Seq(AppState) /\ DOMAIN apps' = Apps \cup {i}
      /\ apps'[i] = Refreshed(r[1], r[2])
      /\ \A j \in Apps : j # i => apps'[j] = apps[j]
  BY <1>1, <1>3, <1>7 DEF i
<1> QED
  BY <1>1, <1>3, <1>4, <1>6, <1>8, FittingStep

-----------------------------------------------------------------------------
(* The daemons' steps.                                                     *)

(* One daemon takes a step from its start, or ends; an app may be due to   *)
(* refresh what it shows.                                                  *)
DaemonStep(d, process) ==
  /\ daemons' = [daemons EXCEPT ![d] = process]
  /\ process \in DaemonState /\ process.by = daemons[d].by
  /\ Alive(daemons[d])
  /\ Alive(process) => process.settings = daemons[d].settings
  /\ \/ apps' = apps
     \/ \E b \in BOOLEAN : apps' = [apps EXCEPT ![daemons[d].by] = [@ EXCEPT !.refresh = b]]
  /\ UNCHANGED <<saved, contended>>

LEMMA DaemonStepKeeps ==
  ASSUME IInv, NEW d \in Daemons, NEW process, DaemonStep(d, process), socket' \in Nat
  PROVE  /\ Typed' /\ OneIsKnown' /\ SettingsApply'
         /\ Daemons' = Daemons /\ Len(daemons') = Len(daemons) /\ daemons'[d] = process
         /\ \A e \in Daemons : e # d => daemons'[e] = daemons[e]
<1>1. /\ daemons' \in Seq(DaemonState) /\ Daemons' = Daemons /\ Len(daemons') = Len(daemons)
      /\ daemons'[d] = process
      /\ \A e \in Daemons : e # d => daemons'[e] = daemons[e]
  BY TypeFacts DEF DaemonStep, Daemons
<1>2. /\ apps' \in Seq(AppState) /\ Apps' = Apps
      /\ \A i \in Apps : /\ apps'[i].up = apps[i].up /\ apps'[i].proc = apps[i].proc
                         /\ apps'[i].settings = apps[i].settings
                         /\ apps'[i].editing = apps[i].editing
  <2> DEFINE i == daemons[d].by
  <2>1. i \in Apps /\ apps[i] \in AppState
    BY TypeFacts
  <2>2. ASSUME NEW b \in BOOLEAN, apps' = [apps EXCEPT ![i] = [@ EXCEPT !.refresh = b]]
        PROVE  /\ apps' \in Seq(AppState) /\ DOMAIN apps' = Apps
               /\ apps'[i] = [apps[i] EXCEPT !.refresh = b]
               /\ \A j \in Apps : j # i => apps'[j] = apps[j]
    <3>1. [apps[i] EXCEPT !.refresh = b] \in AppState
      BY <2>1 DEF AppState
    <3> QED
      BY <2>1, <2>2, <3>1, TypeFacts DEF Apps
  <2>3. \A b \in BOOLEAN :
          LET app == [apps[i] EXCEPT !.refresh = b]
          IN  /\ app.up = apps[i].up /\ app.proc = apps[i].proc
              /\ app.settings = apps[i].settings /\ app.editing = apps[i].editing
    BY <2>1 DEF AppState
  <2>4. CASE apps' = apps
    BY <2>4, TypeFacts DEF Apps
  <2>5. CASE \E b \in BOOLEAN : apps' = [apps EXCEPT ![i] = [@ EXCEPT !.refresh = b]]
    BY <2>2, <2>3, <2>5 DEF Apps
  <2> QED
    BY <2>4, <2>5 DEF DaemonStep
<1>3. \A e \in Daemons : /\ daemons'[e].by = daemons[e].by
                         /\ Alive(daemons'[e]) => /\ Alive(daemons[e])
                                                  /\ daemons'[e].settings = daemons[e].settings
  BY <1>1 DEF DaemonStep
<1>4. Typed'
  BY <1>1, <1>2, <1>3, TypeFacts DEF IInv, Typed, DaemonStep
<1>5. OneIsKnown'
  <2>1. ASSUME NEW e \in Daemons, NEW f \in Daemons,
               Alive(daemons'[e]), Alive(daemons'[f]), daemons'[e].by = daemons'[f].by
        PROVE  e = f
    BY <1>3, <2>1 DEF IInv, OneIsKnown
  <2>2. ASSUME NEW e \in Daemons, Alive(daemons'[e]), apps'[daemons'[e].by].up
        PROVE  apps'[daemons'[e].by].proc = e
    <3>1. daemons[e].by \in Apps /\ daemons'[e].by = daemons[e].by /\ Alive(daemons[e])
      BY <1>3, <2>2, TypeFacts
    <3> QED
      BY <1>2, <2>2, <3>1 DEF IInv, OneIsKnown
  <2> QED
    BY <1>1, <2>1, <2>2 DEF OneIsKnown
<1>6. SettingsApply'
  <2> SUFFICES ASSUME NEW i \in Apps, apps'[i].up, ~apps'[i].editing,
                      apps'[i].proc # 0, Alive(daemons'[apps'[i].proc])
               PROVE  daemons'[apps'[i].proc].settings = apps'[i].settings
    BY <1>2 DEF SettingsApply, Live
  <2>1. /\ apps'[i].proc = apps[i].proc /\ apps[i].proc \in Daemons
        /\ apps[i].up /\ ~apps[i].editing /\ apps'[i].settings = apps[i].settings
    BY <1>2, TypeFacts
  <2> QED
    BY <1>3, <2>1, TypeFacts DEF IInv, SettingsApply, Live
<1> QED
  BY <1>1, <1>4, <1>5, <1>6

(* The file, for the others of daemon d, which is not the last unless it   *)
(* is the one that is at its start.                                        *)
LEMMA FileKept ==
  ASSUME IInv, NEW d \in Daemons, NEW process, DaemonStep(d, process), socket' \in Nat,
         ~contended =>
           \/ /\ socket' = socket
              /\ (process.pc = "dead" \/ (process.pc = "serving" /\ socket = d))
           \/ /\ daemons[d].pc # "serving"
              /\ \/ process.pc = "unlink" /\ socket' # 0
                 \/ process.pc = "bind" /\ socket' = 0
                 \/ process.pc = "chmod" /\ socket' = d
  PROVE  IInv'
<1>1. /\ Typed' /\ OneIsKnown' /\ SettingsApply'
      /\ Daemons' = Daemons /\ Len(daemons') = Len(daemons) /\ daemons'[d] = process
      /\ \A e \in Daemons : e # d => daemons'[e] = daemons[e]
  BY DaemonStepKeeps
<1>2. FileIsLasts'
  <2> SUFFICES ASSUME ~contended, NEW e \in Daemons
               PROVE  /\ daemons'[e].pc # "socket"
                      /\ Alive(daemons'[e]) /\ daemons'[e].pc # "serving" => e = Len(daemons)
                      /\ daemons'[e].pc = "unlink" => socket' # 0
                      /\ daemons'[e].pc = "bind" => socket' = 0
                      /\ daemons'[e].pc = "chmod" => socket' = e
                      /\ daemons'[e].pc = "serving" /\ e = Len(daemons) => socket' = e
    BY <1>1 DEF FileIsLasts, DaemonStep
  <2>1. CASE process.pc = "dead" /\ socket' = socket
    BY <1>1, <2>1 DEF IInv, FileIsLasts, Alive
  <2>2. CASE process.pc = "serving" /\ socket = d /\ socket' = socket
    BY <1>1, <2>2 DEF IInv, FileIsLasts, DaemonStep
  <2>3. CASE /\ daemons[d].pc # "serving"
             /\ \/ process.pc = "unlink" /\ socket' # 0
                \/ process.pc = "bind" /\ socket' = 0
                \/ process.pc = "chmod" /\ socket' = d
    <3>1. d = Len(daemons)
      BY <2>3 DEF IInv, FileIsLasts, DaemonStep
    <3>2. CASE e = d
      BY <1>1, <2>3, <3>1, <3>2
    <3>3. CASE e # d
      BY <1>1, <2>3, <3>1, <3>3 DEF IInv, FileIsLasts, Alive
    <3> QED
      BY <3>2, <3>3
  <2> QED
    BY <2>1, <2>2, <2>3
<1> QED
  BY <1>1, <1>2 DEF IInv

LEMMA DaemonSteps ==
  ASSUME IInv, NEW d \in Daemons, Serve(d) \/ Dies(d)
  PROVE  IInv'
<1>1. /\ daemons[d] \in DaemonState /\ daemons[d].by \in Apps /\ socket \in Nat
      /\ d \in Nat /\ d # 0
  BY TypeFacts DEF IInv, Typed
<1>2. ASSUME NEW from \in {"boot", "unlink", "bind", "chmod"},
             NEW to \in {"unlink", "bind", "chmod", "serving"}, GoesOn(d, from, to)
      PROVE  DaemonStep(d, [daemons[d] EXCEPT !.pc = to]) /\ [daemons[d] EXCEPT !.pc = to].pc = to
  BY <1>1, <1>2 DEF GoesOn, DaemonStep, DaemonState, Alive
<1>3. ASSUME NEW why \in {"dead", "socket"}, Ends(d, why), Alive(daemons[d])
      PROVE  DaemonStep(d, Dead(daemons[d], why)) /\ Dead(daemons[d], why).pc = why
  <2>1. /\ Dead(daemons[d], why) \in DaemonState /\ Dead(daemons[d], why).pc = why
        /\ Dead(daemons[d], why).by = daemons[d].by
    BY <1>1 DEF Dead, DaemonState
  <2>2. CASE apps[daemons[d].by].up
    BY <1>1, <1>3, <2>1, <2>2 DEF Ends, DaemonStep, Alive
  <2>3. CASE ~apps[daemons[d].by].up
    <3>1. apps' = apps
      BY <1>1, <1>3, <2>3, TypeFacts DEF Ends
    <3> QED
      BY <1>1, <1>3, <2>1, <3>1 DEF Ends, DaemonStep, Alive
  <2> QED
    BY <2>2, <2>3
<1>4. ASSUME Ends(d, "socket"), Alive(daemons[d]), contended, UNCHANGED socket
      PROVE  IInv'
  BY <1>1, <1>3, <1>4, FileKept
<1>5. CASE Exists(d)
  BY <1>1, <1>2, <1>5, FileKept DEF Exists, GoesOn
<1>6. CASE Unlink(d)
  <2>1. CASE socket # 0
    <3>1. GoesOn(d, "unlink", "bind") /\ socket' = 0 /\ daemons[d].pc = "unlink"
      BY <1>6, <2>1 DEF Unlink, GoesOn
    <3>2. /\ DaemonStep(d, [daemons[d] EXCEPT !.pc = "bind"])
          /\ [daemons[d] EXCEPT !.pc = "bind"].pc = "bind"
      BY <1>2, <3>1
    <3> QED
      BY <3>1, <3>2, FileKept
  <2>2. CASE socket = 0
    BY <1>4, <1>6, <2>2 DEF Unlink, Alive, IInv, FileIsLasts
  <2> QED
    BY <2>1, <2>2
<1>7. CASE Bind(d)
  <2>1. CASE socket = 0
    BY <1>1, <1>2, <1>7, <2>1, FileKept DEF Bind, GoesOn
  <2>2. CASE socket # 0
    BY <1>4, <1>7, <2>2 DEF Bind, Alive, IInv, FileIsLasts
  <2> QED
    BY <2>1, <2>2
<1>8. CASE Listen(d)
  <2>1. CASE socket # 0
    BY <1>1, <1>2, <1>8, <2>1, FileKept DEF Listen, GoesOn, IInv, FileIsLasts
  <2>2. CASE socket = 0
    BY <1>1, <1>4, <1>8, <2>2 DEF Listen, Alive, IInv, FileIsLasts
  <2> QED
    BY <2>1, <2>2
<1>9. CASE Dies(d)
  BY <1>1, <1>3, <1>9, FileKept DEF Dies, Live
<1> QED
  BY <1>5, <1>6, <1>7, <1>8, <1>9 DEF Serve

LEMMA StepInvariant == IInv /\ [Next]_vars => IInv'
<1> SUFFICES ASSUME IInv, [Next]_vars
             PROVE  IInv'
  OBVIOUS
<1>1. CASE UNCHANGED vars
  BY <1>1 DEF vars, IInv, Typed, OneIsKnown, SettingsApply, FileIsLasts, Apps, Daemons, Live
<1> QED
  BY <1>1, LaunchStep, AppSteps, DaemonSteps DEF Next

(* IInv is an invariant of every behaviour of apps and daemons.            *)
THEOREM InductiveInvariant == Spec => []IInv
  BY InitInvariant, StepInvariant, PTL DEF Spec

-----------------------------------------------------------------------------
(* An app never has two daemons, however fast settings are changed and     *)
(* whatever the menu is used for meanwhile (FaceIDApp.swift:361).          *)
THEOREM OneDaemon == Spec => []OneDaemonEach
<1>1. ASSUME IInv PROVE OneDaemonEach
  <2> SUFFICES ASSUME NEW i \in Apps
               PROVE  Cardinality({d \in Daemons : Live(d) /\ daemons[d].by = i}) <= 1
    BY DEF OneDaemonEach
  <2> DEFINE own == {d \in Daemons : Live(d) /\ daemons[d].by = i}
  <2>1. \A d, e \in own : d = e
    BY <1>1 DEF IInv, OneIsKnown, Live
  <2>2. own = {} \/ \E d : own = {d}
    BY <2>1
  <2>3. CASE own = {}
    <3>1. Cardinality(own) = 0
      BY <2>3, FS_EmptySet
    <3> QED
      BY <3>1
  <2>4. CASE \E d : own = {d}
    <3>1. Cardinality(own) = 1
      BY <2>4, FS_Singleton
    <3> QED
      BY <3>1
  <2> QED
    BY <2>2, <2>3, <2>4
<1> QED
  BY <1>1, InductiveInvariant, PTL

(* A daemon that is left running has the settings that are shown           *)
(* (FaceIDApp.swift:366).                                                  *)
THEOREM AppliedSettings == Spec => []SettingsApply
<1>1. IInv => SettingsApply
  BY DEF IInv
<1> QED
  BY <1>1, InductiveInvariant, PTL

(* Of daemons that never start together the newest is the one that         *)
(* connections reach, and no start fails over the file (daemon.py:405).    *)
THEOREM ReachedNewest == Spec => []NewestIsReached
<1>1. ASSUME IInv PROVE NewestIsReached
  BY <1>1, TypeFacts DEF IInv, FileIsLasts, NewestIsReached, Reached, Live, Alive
<1> QED
  BY <1>1, InductiveInvariant, PTL

=============================================================================
