-------------------------- MODULE PamConfig_proofs --------------------------
(* Proofs about the PAM configuration scripts, for any number of runners   *)
(* and any bounds: what "grep -v" keeps of a file, by induction over its   *)
(* lines; and from an inductive invariant that nobody is locked out of     *)
(* sudo, that an installation repairs, that a removal restores, and that   *)
(* other software keeps its rules.                                         *)
EXTENDS PamConfig, SequenceTheorems, WellFoundedInduction, TLAPS

-----------------------------------------------------------------------------
(* Induction.                                                              *)

(* A set of numbers that is not empty has a least one.                     *)
LEMMA Least ==
    ASSUME NEW S, S \subseteq Nat, S # {}
    PROVE  \E n \in S : \A m \in S : n <= m
<1> DEFINE R == OpToRel(<, Nat)
<1>1. IsWellFoundedOn(R, Nat)
  BY NatLessThanWellFounded
<1>2. \A m, n \in Nat : <<m, n>> \in R <=> m < n
  BY DEF OpToRel
<1> HIDE DEF R
<1>3. PICK x \in S : \A y \in S : ~ (<<y, x>> \in R)
  BY <1>1, WFMin
<1>4. \A y \in S : x \in Nat /\ y \in Nat /\ ~ (y < x)
  BY <1>2, <1>3
<1>5. \A y \in S : x <= y
  BY <1>4
<1> QED
  BY <1>5

(* A set that holds 0 and with every number the next one holds them all:   *)
(* otherwise there is a least one that it lacks.                           *)
LEMMA Induct ==
    ASSUME NEW S, 0 \in S, \A n \in Nat : n \in S => n + 1 \in S
    PROVE  \A n \in Nat : n \in S
<1> SUFFICES ASSUME NEW k \in Nat, k \notin S PROVE FALSE
  OBVIOUS
<1> DEFINE T == {n \in Nat : n \notin S}
<1>1. T \subseteq Nat /\ T # {}
  OBVIOUS
<1>2. PICK n \in T : \A m \in T : n <= m
  BY <1>1, Least
<1>3. n \in Nat /\ n # 0 /\ n - 1 \in Nat /\ ~(n <= n - 1)
  BY <1>2
<1>4. n - 1 \in S
  BY <1>2, <1>3
<1>5. n - 1 + 1 = n
  BY <1>3
<1> QED
  BY <1>2, <1>3, <1>4, <1>5

-----------------------------------------------------------------------------
(* What grep keeps.                                                        *)

(* g is what grep keeps of the first n lines of f, for n up to m.          *)
KeepsUpTo(g, f, m) ==
    g = [n \in 0 .. m |-> IF n = 0 THEN <<>>
        ELSE IF IsOther(f[n]) THEN Append(g[n - 1], f[n]) ELSE g[n - 1]]

(* There is such a function, for it can be continued from line to line.    *)
LEMMA KeptExists ==
    ASSUME NEW f
    PROVE  \A m \in Nat : \E g : KeepsUpTo(g, f, m)
<1> DEFINE S == {m \in Nat : \E g : KeepsUpTo(g, f, m)}
<1>1. 0 \in S
  <2> DEFINE g == [n \in 0 .. 0 |-> <<>>]
  <2>1. KeepsUpTo(g, f, 0)
    BY DEF KeepsUpTo
  <2> QED
    BY <2>1
<1>2. \A m \in Nat : m \in S => m + 1 \in S
  <2> SUFFICES ASSUME NEW m \in Nat, m \in S PROVE m + 1 \in S
    OBVIOUS
  <2>1. PICK g : KeepsUpTo(g, f, m)
    OBVIOUS
  <2> DEFINE last == IF IsOther(f[m + 1]) THEN Append(g[m], f[m + 1]) ELSE g[m]
             h == [n \in 0 .. m + 1 |-> IF n = m + 1 THEN last ELSE g[n]]
  <2>2. h[m + 1] = last /\ h[m] = g[m]
    OBVIOUS
  <2>3. \A n \in 0 .. m : h[n] = g[n] /\ (n # 0 => n - 1 \in 0 .. m /\ h[n - 1] = g[n - 1])
    OBVIOUS
  <2> HIDE DEF h
  <2>4. \A n \in 0 .. m : g[n] = IF n = 0 THEN <<>>
        ELSE IF IsOther(f[n]) THEN Append(g[n - 1], f[n]) ELSE g[n - 1]
    BY <2>1 DEF KeepsUpTo
  <2>5. \A n \in 0 .. m + 1 : h[n] = IF n = 0 THEN <<>>
        ELSE IF IsOther(f[n]) THEN Append(h[n - 1], f[n]) ELSE h[n - 1]
    <3> TAKE n \in 0 .. m + 1
    <3>1. CASE n = m + 1
      <4>1. n # 0 /\ n - 1 = m
        BY <3>1
      <4> QED
        BY <3>1, <4>1, <2>2
    <3>2. CASE n # m + 1
      <4>1. n \in 0 .. m
        BY <3>2
      <4> QED
        BY <4>1, <2>3, <2>4
    <3> QED
      BY <3>1, <3>2
  <2>6. h = [n \in 0 .. m + 1 |-> h[n]]
    BY DEF h
  <2>7. KeepsUpTo(h, f, m + 1)
    BY <2>5, <2>6 DEF KeepsUpTo
  <2> QED
    BY <2>7
<1>3. \A m \in Nat : m \in S
  <2> HIDE DEF S
  <2> QED
    BY <1>1, <1>2, Induct
<1> QED
  BY <1>3

(* Others is the end of it, line by line.                                  *)
LEMMA OthersKeeps ==
    ASSUME NEW A, NEW f \in Seq(A), Exists(f)
    PROVE  \E g : /\ g[0] = <<>>
                  /\ \A n \in 1 .. Len(f) :
                        g[n] = IF IsOther(f[n]) THEN Append(g[n - 1], f[n]) ELSE g[n - 1]
                  /\ Others(f) = g[Len(f)]
<1> DEFINE g == CHOOSE g : KeepsUpTo(g, f, Len(f))
<1>1. Len(f) \in Nat
  OBVIOUS
<1>2. KeepsUpTo(g, f, Len(f))
  BY <1>1, KeptExists
<1>3. Others(f) = g[Len(f)]
  BY Zenon DEF Others, KeepsUpTo
<1> HIDE DEF g
<1>4. \A n \in 0 .. Len(f) : g[n] = IF n = 0 THEN <<>>
        ELSE IF IsOther(f[n]) THEN Append(g[n - 1], f[n]) ELSE g[n - 1]
  BY <1>2 DEF KeepsUpTo
<1>5. g[0] = <<>>
  BY <1>1, <1>4
<1>6. \A n \in 1 .. Len(f) :
         g[n] = IF IsOther(f[n]) THEN Append(g[n - 1], f[n]) ELSE g[n - 1]
  BY <1>1, <1>4
<1> QED
  BY <1>3, <1>5, <1>6

(* None of FaceKey's rules is kept, and nothing but rules of the file.     *)
LEMMA OthersOnly ==
    ASSUME NEW A, NEW f \in Seq(A), Exists(f)
    PROVE  Others(f) \in Seq({r \in A : IsOther(r)})
<1> DEFINE B == {r \in A : IsOther(r)}
<1>1. PICK g : /\ g[0] = <<>>
               /\ \A n \in 1 .. Len(f) :
                    g[n] = IF IsOther(f[n]) THEN Append(g[n - 1], f[n]) ELSE g[n - 1]
               /\ Others(f) = g[Len(f)]
  BY OthersKeeps
<1> DEFINE S == {n \in Nat : n <= Len(f) => g[n] \in Seq(B)}
<1>2. 0 \in S
  <2>1. <<>> \in Seq(B)
    OBVIOUS
  <2>2. g[0] \in Seq(B)
    BY <1>1, <2>1, Zenon
  <2> QED
    BY <2>2
<1>3. ASSUME NEW n \in Nat, n \in S PROVE n + 1 \in S
  <2> SUFFICES ASSUME n + 1 <= Len(f) PROVE g[n + 1] \in Seq(B)
    OBVIOUS
  <2>1. n + 1 \in 1 .. Len(f) /\ n + 1 - 1 = n
    OBVIOUS
  <2>2. g[n] \in Seq(B)
    BY <1>3
  <2>3. f[n + 1] \in A
    BY <2>1
  <2>4. g[n + 1] = IF IsOther(f[n + 1]) THEN Append(g[n], f[n + 1]) ELSE g[n]
    BY <1>1, <2>1
  <2>5. IsOther(f[n + 1]) => Append(g[n], f[n + 1]) \in Seq(B)
    BY <2>2, <2>3
  <2> QED
    BY <2>2, <2>4, <2>5
<1>4. \A n \in Nat : n \in S
  <2> HIDE DEF S
  <2> QED
    BY <1>2, <1>3, Induct
<1> QED
  BY <1>1, <1>4

(* A file without FaceKey's rules is kept as it is.                        *)
LEMMA OthersOfOthers ==
    ASSUME NEW f \in Seq({r \in Rule : IsOther(r)})
    PROVE  Exists(f) /\ Others(f) = f
<1> DEFINE B == {r \in Rule : IsOther(r)}
<1>1. f \in File /\ \A i \in 1 .. Len(f) : f[i] \in B
  BY DEF File
<1>2. Exists(f)
  <2> SUFFICES ASSUME f = <<"absent">> PROVE FALSE
    BY DEF Exists, Absent
  <2>1. Len(f) = 1 /\ f[1] = "absent"
    OBVIOUS
  <2>2. "absent" \in Rule
    BY <1>1, <2>1
  <2> QED
    BY <2>2 DEF Rule
<1>3. PICK g : /\ g[0] = <<>>
               /\ \A n \in 1 .. Len(f) :
                    g[n] = IF IsOther(f[n]) THEN Append(g[n - 1], f[n]) ELSE g[n - 1]
               /\ Others(f) = g[Len(f)]
  BY <1>1, <1>2, OthersKeeps DEF File
<1> DEFINE S == {n \in Nat : n <= Len(f) => g[n] = SubSeq(f, 1, n)}
<1>4. 0 \in S
  <2>1. SubSeq(f, 1, 0) = <<>>
    BY <1>1 DEF File
  <2>2. g[0] = SubSeq(f, 1, 0)
    BY <1>3, <2>1, Zenon
  <2> QED
    BY <2>2
<1>5. ASSUME NEW n \in Nat, n \in S PROVE n + 1 \in S
  <2> SUFFICES ASSUME n + 1 <= Len(f) PROVE g[n + 1] = SubSeq(f, 1, n + 1)
    OBVIOUS
  <2>1. n + 1 \in 1 .. Len(f) /\ n + 1 - 1 = n
    OBVIOUS
  <2>2. g[n] = SubSeq(f, 1, n)
    BY <1>5
  <2>3. g[n + 1] = Append(g[n], f[n + 1])
    <3>1. g[n + 1] = IF IsOther(f[n + 1]) THEN Append(g[n], f[n + 1]) ELSE g[n]
      BY <1>3, <2>1
    <3>2. IsOther(f[n + 1])
      BY <1>1, <2>1
    <3> QED
      BY <3>1, <3>2
  <2>4. Append(SubSeq(f, 1, n), f[n + 1]) = SubSeq(f, 1, n + 1)
    BY <1>1, <2>1, AppendProperties, SubSeqProperties, SeqEqual DEF File
  <2> QED
    BY <2>2, <2>3, <2>4
<1>6. \A n \in Nat : n \in S
  <2> HIDE DEF S
  <2> QED
    BY <1>4, <1>5, Induct
<1>7. Others(f) = SubSeq(f, 1, Len(f))
  BY <1>3, <1>6
<1>8. SubSeq(f, 1, Len(f)) = f
  OBVIOUS
<1> QED
  BY <1>2, <1>7, <1>8

(* FaceKey's rule at the head of a file changes nothing about the others.  *)
LEMMA OthersOfOurs ==
    ASSUME NEW f \in File
    PROVE  <<"face">> \o f \in File /\ Others(<<"face">> \o f) = Others(f)
<1> DEFINE h == <<"face">> \o f
<1>1. h \in Seq(Rule) /\ Len(h) = Len(f) + 1 /\ h[1] = "face"
  BY DEF File, Rule
<1>2. \A n \in 1 .. Len(f) : h[n + 1] = f[n]
  BY DEF File
<1> HIDE DEF h
<1>3. Exists(f) /\ Exists(h)
  BY <1>1 DEF Exists, Absent, File, Rule
<1>4. PICK g : /\ g[0] = <<>>
               /\ \A n \in 1 .. Len(f) :
                    g[n] = IF IsOther(f[n]) THEN Append(g[n - 1], f[n]) ELSE g[n - 1]
               /\ Others(f) = g[Len(f)]
  BY <1>3, OthersKeeps DEF File
<1>5. PICK k : /\ k[0] = <<>>
               /\ \A n \in 1 .. Len(h) :
                    k[n] = IF IsOther(h[n]) THEN Append(k[n - 1], h[n]) ELSE k[n - 1]
               /\ Others(h) = k[Len(h)]
  BY <1>1, <1>3, OthersKeeps
<1> DEFINE S == {n \in Nat : n <= Len(f) => k[n + 1] = g[n]}
<1>6. 0 \in S
  <2>1. 1 \in 1 .. Len(h) /\ 1 - 1 = 0
    BY <1>1
  <2>2. k[1] = k[0]
    BY <1>1, <1>5, <2>1 DEF IsOther
  <2> QED
    BY <1>4, <1>5, <2>2
<1>7. ASSUME NEW n \in Nat, n \in S PROVE n + 1 \in S
  <2> SUFFICES ASSUME n + 1 <= Len(f) PROVE k[n + 2] = g[n + 1]
    OBVIOUS
  <2>1. /\ n + 1 \in 1 .. Len(f) /\ n + 1 - 1 = n
        /\ n + 2 \in 1 .. Len(h) /\ n + 2 - 1 = n + 1 /\ n + 1 + 1 = n + 2
    BY <1>1 DEF File
  <2>2. k[n + 1] = g[n]
    BY <1>7, <2>1
  <2>3. h[n + 2] = f[n + 1]
    BY <1>2, <2>1
  <2> QED
    BY <1>4, <1>5, <2>1, <2>2, <2>3
<1>8. \A n \in Nat : n \in S
  <2> HIDE DEF S
  <2> QED
    BY <1>6, <1>7, Induct
<1>9. Len(f) \in Nat /\ k[Len(h)] = g[Len(f)]
  BY <1>1, <1>8 DEF File
<1> QED
  BY <1>1, <1>4, <1>5, <1>9 DEF h, File

(* What grep keeps is a file with none of FaceKey's rules and no rule that *)
(* was not there; of what it keeps, with FaceKey's rule before it or not,  *)
(* it keeps all.                                                           *)
LEMMA OthersOf ==
    ASSUME NEW f \in File \cup {Absent}
    PROVE  /\ Others(f) \in File /\ ~Has(Others(f), "face")
           /\ \A r : Has(Others(f), r) => Has(f, r)
           /\ Others(Others(f)) = Others(f)
           /\ Others(<<"face">> \o Others(f)) = Others(f)
<1>1. Others(f) \in Seq({r \in Rule : IsOther(r)}) /\ \A r : Has(Others(f), r) => Has(f, r)
  <2>1. CASE Exists(f)
    <3> DEFINE A == {r \in Rule : Has(f, r)}
    <3>1. f \in File
      BY <2>1 DEF Exists
    <3>2. f \in Seq(Rule)
      BY <3>1 DEF File
    <3>3. f \in Seq(A)
      <4>1. \A i \in 1 .. Len(f) : f[i] \in A
        BY <3>2 DEF Has
      <4> QED
        BY <3>2, <4>1
    <3>4. Others(f) \in Seq({r \in Rule : IsOther(r)})
      BY <2>1, <3>2, OthersOnly
    <3>5. Others(f) \in Seq({r \in A : IsOther(r)})
      BY <2>1, <3>3, OthersOnly
    <3>6. \A i \in DOMAIN Others(f) : Others(f)[i] \in A
      BY <3>5
    <3> QED
      BY <3>4, <3>6 DEF Has
  <2>2. CASE ~Exists(f)
    BY <2>2 DEF Others, Has
  <2> QED
    BY <2>1, <2>2
<1>2. Others(f) \in File /\ ~Has(Others(f), "face")
  BY <1>1 DEF File, Has, IsOther
<1> QED
  BY <1>1, <1>2, OthersOfOthers, OthersOfOurs

-----------------------------------------------------------------------------
(* The other ways a file is made.                                          *)

(* A file that was truncated and not touched since holds what is written;  *)
(* any other may have a line cut in two behind it.                         *)
LEMMA WhatIsWritten ==
    ASSUME NEW f \in File, NEW g \in File \cup {Absent}
    PROVE  /\ Written(f, <<>>) = f
           /\ Written(f, g) \in File
           /\ \A r \in Rule : Has(f, r) => Has(Written(f, g), r)
           /\ \A r \in Rule \ {"junk"} : Has(Written(f, g), r) => Has(f, r)
<1>1. Written(f, <<>>) = f
  BY DEF Written, File
<1> DEFINE h == Append(f, "junk")
<1>2. h \in File /\ Len(h) = Len(f) + 1 /\ h[Len(f) + 1] = "junk"
  BY DEF File, Rule
<1>3. \A i \in 1 .. Len(f) : h[i] = f[i]
  BY DEF File
<1>4. DOMAIN f = 1 .. Len(f) /\ DOMAIN h = 1 .. Len(h) /\ Len(f) \in Nat
  BY <1>2 DEF File
<1> HIDE DEF h
<1>5. \A r : Has(f, r) => Has(h, r)
  BY <1>2, <1>3, <1>4 DEF Has
<1>6. \A r : Has(h, r) /\ r # "junk" => Has(f, r)
  BY <1>2, <1>3, <1>4 DEF Has
<1>7. Written(f, g) \in {f, h}
  BY DEF Written, h
<1> QED
  BY <1>1, <1>2, <1>5, <1>6, <1>7

(* The include is added and every other rule stays: there is a first rule  *)
(* to put it before.                                                       *)
LEMMA IncludeAdded ==
    ASSUME NEW f \in File, \E i \in DOMAIN f : IsRule(f[i])
    PROVE  /\ WithInclude(f) \in File /\ Has(WithInclude(f), "include")
           /\ \A r : Has(f, r) => Has(WithInclude(f), r)
           /\ \A r : Has(WithInclude(f), r) /\ r # "include" => Has(f, r)
<1> DEFINE S == {i \in DOMAIN f : IsRule(f[i])}
           IsFirst(i) == IsRule(f[i]) /\ \A j \in 1 .. (i - 1) : ~IsRule(f[j])
           first == CHOOSE i \in DOMAIN f : IsFirst(i)
           a == SubSeq(f, 1, first - 1)
           b == SubSeq(f, first, Len(f))
<1>1. DOMAIN f = 1 .. Len(f) /\ Len(f) \in Nat /\ \A i \in 1 .. Len(f) : f[i] \in Rule
  BY DEF File
<1>2. S \subseteq Nat /\ S # {}
  BY <1>1
<1>3. PICK n \in S : \A m \in S : n <= m
  BY <1>2, Least
<1>4. \A j \in 1 .. (n - 1) : j \in DOMAIN f /\ ~(n <= j)
  BY <1>1, <1>3
<1>5. IsFirst(n)
  BY <1>3, <1>4
<1>6. first \in DOMAIN f
  <2> HIDE DEF IsFirst
  <2> QED
    BY <1>3, <1>5
<1> HIDE DEF first
<1>7. WithInclude(f) = a \o <<"include">> \o b
  BY DEF WithInclude, first
<1>8. a \in File /\ Len(a) = first - 1 /\ \A i \in 1 .. (first - 1) : a[i] = f[i]
  BY <1>1, <1>6 DEF File
<1>9. /\ b \in File /\ Len(b) = Len(f) - first + 1
      /\ \A i \in 1 .. (Len(f) - first + 1) : b[i] = f[first + i - 1]
  BY <1>1, <1>6 DEF File
<1> HIDE DEF a, b
<1> DEFINE h == a \o <<"include">> \o b
<1>10. h \in File /\ Len(h) = Len(f) + 1
  <2>1. a \o <<"include">> \in File /\ Len(a \o <<"include">>) = first
    BY <1>1, <1>6, <1>8 DEF File, Rule
  <2>2. h \in File /\ Len(h) = Len(a \o <<"include">>) + Len(b)
    BY <2>1, <1>9, ConcatProperties DEF File
  <2> QED
    BY <2>1, <2>2, <1>1, <1>6, <1>9
<1>11. /\ \A i \in 1 .. (first - 1) : h[i] = f[i]
       /\ h[first] = "include"
       /\ \A i \in first .. Len(f) : h[i + 1] = f[i]
  <2>1. first \in Nat /\ first >= 1 /\ first <= Len(f)
    BY <1>1, <1>6
  <2>2. /\ a \o <<"include">> \in File /\ Len(a \o <<"include">>) = first
        /\ \A i \in 1 .. (first - 1) : (a \o <<"include">>)[i] = f[i]
        /\ (a \o <<"include">>)[first] = "include"
    BY <2>1, <1>8 DEF File, Rule
  <2>3. /\ \A i \in 1 .. first : h[i] = (a \o <<"include">>)[i]
        /\ \A i \in 1 .. Len(b) : h[first + i] = b[i]
    <3>1. b \in Seq(Rule) /\ a \o <<"include">> \in Seq(Rule)
      BY <2>2, <1>9 DEF File
    <3> QED
      BY <2>2, <3>1, ConcatProperties
  <2>4. ASSUME NEW i \in first .. Len(f) PROVE h[i + 1] = f[i]
    <3>1. i - first + 1 \in 1 .. Len(b) /\ first + (i - first + 1) = i + 1
          /\ first + (i - first + 1) - 1 = i
      BY <2>1, <1>1, <1>9
    <3>2. b[i - first + 1] = f[i]
      BY <3>1, <1>9
    <3>3. h[first + (i - first + 1)] = b[i - first + 1]
      BY <2>3, <3>1
    <3> QED
      BY <3>1, <3>2, <3>3
  <2>5. \A i \in 1 .. (first - 1) : h[i] = f[i]
    BY <2>1, <2>2, <2>3
  <2>6. h[first] = "include"
    BY <2>1, <2>2, <2>3
  <2> QED
    BY <2>4, <2>5, <2>6
<1> HIDE DEF h
<1>12. DOMAIN h = 1 .. (Len(f) + 1)
  BY <1>10 DEF File
<1>13. Has(h, "include")
  BY <1>1, <1>6, <1>11, <1>12 DEF Has
<1>14. ASSUME NEW r, Has(f, r) PROVE Has(h, r)
  <2>1. PICK i \in 1 .. Len(f) : f[i] = r
    BY <1>1, <1>14 DEF Has
  <2>2. CASE i < first
    BY <2>1, <2>2, <1>1, <1>6, <1>11, <1>12 DEF Has
  <2>3. CASE ~(i < first)
    <3>1. i \in first .. Len(f) /\ i + 1 \in DOMAIN h
      BY <2>3, <1>1, <1>6, <1>12
    <3> QED
      BY <2>1, <3>1, <1>11 DEF Has
  <2> QED
    BY <2>2, <2>3
<1>15. ASSUME NEW r, Has(h, r), r # "include" PROVE Has(f, r)
  <2>1. PICK i \in 1 .. (Len(f) + 1) : h[i] = r
    BY <1>12, <1>15 DEF Has
  <2>2. CASE i < first
    BY <2>1, <2>2, <1>1, <1>6, <1>11 DEF Has
  <2>3. CASE ~(i < first)
    <3>1. i # first
      BY <2>1, <1>11, <1>15
    <3>2. i - 1 \in first .. Len(f) /\ i - 1 \in DOMAIN f /\ i - 1 + 1 = i
      BY <2>3, <3>1, <1>1, <1>6
    <3> QED
      BY <2>1, <3>2, <1>11 DEF Has
  <2> QED
    BY <2>2, <2>3
<1> QED
  BY <1>7, <1>10, <1>13, <1>14, <1>15 DEF h

(* The rule of Touch ID is commented out, or back; no other rule changes.  *)
LEMMA TouchIDSwapped ==
    ASSUME NEW f \in File, NEW from \in Rule, NEW to \in Rule \ {from}
    PROVE  /\ Swapped(f, from, to) \in File
           /\ ~Has(Swapped(f, from, to), from)
           /\ \A r \in Rule \ {from, to} : Has(Swapped(f, from, to), r) <=> Has(f, r)
<1> DEFINE h == Swapped(f, from, to)
<1>1. DOMAIN f = 1 .. Len(f) /\ Len(f) \in Nat /\ \A i \in 1 .. Len(f) : f[i] \in Rule
  BY DEF File
<1>2. h = [i \in 1 .. Len(f) |-> IF f[i] = from THEN to ELSE f[i]]
  BY <1>1 DEF Swapped
<1>3. h \in File
  BY <1>1, <1>2 DEF File
<1>4. /\ DOMAIN h = DOMAIN f
      /\ \A i \in DOMAIN f : h[i] = IF f[i] = from THEN to ELSE f[i]
  BY <1>1, <1>2
<1> QED
  BY <1>3, <1>4 DEF Has

(* FaceKey's rule put at the head of a file.                               *)
LEMMA OursAdded ==
    ASSUME NEW f \in File
    PROVE  /\ <<"face">> \o f \in File
           /\ \A r : Has(<<"face">> \o f, r) <=> r = "face" \/ Has(f, r)
<1> DEFINE h == <<"face">> \o f
<1>1. h \in File /\ Len(h) = Len(f) + 1 /\ h[1] = "face" /\ Len(f) \in Nat
  BY DEF File, Rule
<1>2. \A i \in 1 .. Len(f) : h[i + 1] = f[i]
  BY DEF File
<1>3. DOMAIN f = 1 .. Len(f) /\ DOMAIN h = 1 .. (Len(f) + 1)
  BY <1>1 DEF File
<1> HIDE DEF h
<1>4. ASSUME NEW r, Has(f, r) PROVE Has(h, r)
  BY <1>1, <1>2, <1>3, <1>4 DEF Has
<1>5. Has(h, "face")
  BY <1>1, <1>3 DEF Has
<1>6. ASSUME NEW r, Has(h, r), r # "face" PROVE Has(f, r)
  <2>1. PICK i \in 1 .. (Len(f) + 1) : h[i] = r
    BY <1>3, <1>6 DEF Has
  <2>2. i # 1
    BY <2>1, <1>1, <1>6
  <2>3. i - 1 \in 1 .. Len(f) /\ i - 1 + 1 = i
    BY <2>2, <1>1
  <2> QED
    BY <2>1, <2>3, <1>2, <1>3 DEF Has
<1> QED
  BY <1>1, <1>4, <1>5, <1>6 DEF h

(* Which scripts change sudo's file, and what into.                        *)
LEMMA EditsOf ==
    ASSUME NEW f
    PROVE  /\ Edits("install", f) = ~Has(f, "include")
           /\ Edits("devInstall", f) = Has(f, "tid")
           /\ \A k \in {"uninstall", "devUninstall"} : Edits(k, f) = Has(f, "tidOff")
  BY DEF Edits

LEMMA RewrittenOf ==
    ASSUME NEW f
    PROVE  /\ Rewritten("devInstall", f) = Swapped(f, "tid", "tidOff")
           /\ (\E i \in DOMAIN f : IsRule(f[i])) => Rewritten("install", f) = WithInclude(f)
           /\ ~(\E i \in DOMAIN f : IsRule(f[i])) => Rewritten("install", f) = <<>>
           /\ \A k \in {"uninstall", "devUninstall"} :
                 Rewritten(k, f) = Swapped(f, "tidOff", "tid")
  BY DEF Rewritten

(* Neither direction of the swap touches the rules the properties speak of.*)
LEMMA SwapKeeps ==
    ASSUME NEW f \in File,
           NEW g \in {Swapped(f, "tid", "tidOff"), Swapped(f, "tidOff", "tid")}
    PROVE  /\ g \in File
           /\ \A r \in {"od", "face", "junk", "include"} : Has(g, r) <=> Has(f, r)
           /\ g = Swapped(f, "tidOff", "tid") => ~Has(g, "tidOff")
<1>1. {"tid", "tidOff", "od", "face", "junk", "include"} \subseteq Rule
  BY DEF Rule
<1>2. CASE g = Swapped(f, "tid", "tidOff")
  <2>1. /\ g \in File
        /\ \A r \in Rule \ {"tid", "tidOff"} : Has(g, r) <=> Has(f, r)
    BY <1>1, <1>2, TouchIDSwapped
  <2>2. g # Swapped(f, "tidOff", "tid") \/ ~Has(g, "tidOff")
    BY <1>1, TouchIDSwapped
  <2> QED
    BY <1>1, <2>1, <2>2
<1>3. CASE g = Swapped(f, "tidOff", "tid")
  <2>1. /\ g \in File /\ ~Has(g, "tidOff")
        /\ \A r \in Rule \ {"tid", "tidOff"} : Has(g, r) <=> Has(f, r)
    BY <1>1, <1>3, TouchIDSwapped
  <2> QED
    BY <1>1, <2>1
<1> QED
  BY <1>2, <1>3

-----------------------------------------------------------------------------
(* The inductive invariant.                                                *)

Busy(p) == pc[p] # "idle"
Alone(p) == Busy(p) /\ p \notin disturbed

(* Two scripts under way are disturbed, and are known to have overlapped.  *)
Overlaps ==
    /\ \A p, q \in Runners : p # q /\ Busy(p) /\ Busy(q) => p \in disturbed
    /\ disturbed # {} => overlapped

(* Which scripts take which steps.                                         *)
InPlace(p) ==
    /\ script[p] = "none" <=> pc[p] = "idle"
    /\ pc[p] \in {"copy", "copying", "backup", "backingUp"} => Installs(script[p])
    /\ pc[p] = "remove" => ~Installs(script[p])
    /\ pc[p] \in {"openSudo", "writeSudo"} => script[p] \in {"install", "uninstall"}
    /\ pc[p] \in {"verify", "openAgain", "restoring"} => script[p] = "install"

(* FaceKey's rule is in sudo_local and nowhere else.                       *)
OnlyInLocal == ~Has(sudo, "face") /\ ~Has(backup, "face")

(* What a script means to write: nothing of FaceKey's and no line cut in   *)
(* two; into sudo's file, the password's rule and what it came for.        *)
Prepared(p) ==
    /\ pc[p] \notin {"openLocal", "writeLocal", "openSudo", "writeSudo"} => text[p] = <<>>
    /\ ~Has(text[p], "face")
    /\ overlapped \/ ~Has(text[p], "junk")
    /\ pc[p] \in {"openSudo", "writeSudo"} =>
          /\ Has(text[p], "od")
          /\ script[p] = "install" => Has(text[p], "include")
          /\ script[p] = "uninstall" => ~Has(text[p], "tidOff")

(* A script that runs alone writes into what it truncated.                 *)
Truncated(p) ==
    Alone(p) =>
       /\ pc[p] = "writeLocal" => local = <<>>
       /\ pc[p] = "backingUp" => backup = <<>>
       /\ pc[p] \in {"writeSudo", "restoring"} => sudo = <<>>

AtSudo == {"readSudo", "backup", "backingUp", "rewrite", "openSudo", "writeSudo",
           "verify", "openAgain", "restoring"}

(* What a script that runs alone has done when it comes to sudo's file.    *)
Done(p) ==
    Alone(p) =>
       /\ Installs(script[p]) /\ pc[p] \notin {"copy", "copying"} => module = "whole"
       /\ script[p] = "install" /\ pc[p] \in AtSudo => Has(local, "face")
       /\ ~Installs(script[p]) /\ pc[p] \in AtSudo \cup {"remove"} => ~Has(local, "face")
       /\ pc[p] = "verify" => Has(sudo, "include")

(* Where the rules of other software are while a script runs alone and has *)
(* seen them.                                                              *)
Kept(p) ==
    Alone(p) /\ p \notin unread =>
       /\ pc[p] \in {"openLocal", "writeLocal"} => text[p] = Others(before[p].local)
       /\ pc[p] # "writeLocal" => Others(local) = Others(before[p].local)

At(p) == InPlace(p) /\ Prepared(p) /\ Truncated(p) /\ Done(p) /\ Kept(p)

(* Without overlaps, when the only script is at a step, or none is:        *)
(*   no line was cut in two,                                               *)
Readable == ~Has(local, "junk") /\ ~Has(sudo, "junk") /\ ~Has(backup, "junk")

(*   a rule names a module that is there,                                  *)
Loadable(step) ==
    \/ "module" \in spoilt
    \/ step = "copying"
    \/ module = "whole"
    \/ module = "none" /\ ~Has(local, "face")

(*   sudo's file has the password's rule, or is spoilt,                    *)
Accepting(step) == Has(sudo, "od") \/ "sudo" \in spoilt \/ step \in {"writeSudo", "restoring"}

(*   who changes it, or has changed it, made a backup first,               *)
Changes == {"backingUp", "rewrite", "openSudo", "writeSudo", "verify", "openAgain",
            "restoring"}
BackedUp(step) ==
    Exists(backup) \/ ("sudo" \notin spoilt /\ ~Has(sudo, "tidOff") /\ step \notin Changes)

(*   and the backup is good, or being made of a file that is.              *)
Restorable(step) ==
    \/ ~Exists(backup)
    \/ Has(backup, "od")
    \/ backup = <<>> /\ Has(sudo, "od") /\ step = "backingUp"

Sound(step) ==
    /\ Readable /\ Loadable(step)
    /\ "backup" \in spoilt \/ (Accepting(step) /\ BackedUp(step) /\ Restorable(step))

(* The step of the only script under way, "idle" when there is none.       *)
Current(step) == IF step = "idle" THEN \A p \in Runners : ~Busy(p)
                 ELSE \E p \in Runners : pc[p] = step

IInv ==
    /\ TypeOK /\ Overlaps /\ OnlyInLocal
    /\ \A p \in Runners : At(p)
    /\ overlapped \/ \A step \in Places : Current(step) => Sound(step)

-----------------------------------------------------------------------------
(* What every step of a script has in common.                              *)

(* Nothing is in an empty file, and none of the rules' files is missing.   *)
LEMMA Empty ==
    /\ <<>> \in File /\ Exists(<<>>) /\ \A r : ~Has(<<>>, r)
    /\ \A f \in File : Exists(f)
    /\ ~Exists(Absent) /\ \A r \in Rule : ~Has(Absent, r)
<1>1. <<>> \in File /\ \A r : ~Has(<<>>, r)
  BY DEF File, Has
<1>2. ASSUME NEW f \in File PROVE Exists(f)
  <2> SUFFICES ASSUME f = <<"absent">> PROVE FALSE
    BY DEF Exists, Absent
  <2>1. f \in Seq(Rule) /\ Len(f) = 1 /\ f[1] = "absent"
    BY DEF File
  <2>2. "absent" \in Rule
    BY <2>1
  <2> QED
    BY <2>2 DEF Rule
<1>3. ~Exists(Absent)
  BY DEF Exists
<1>4. \A r \in Rule : ~Has(Absent, r)
  BY DEF Absent, Has, Rule
<1> QED
  BY <1>1, <1>2, <1>3, <1>4

(* What p's step to another place does to control and nothing else: the    *)
(* other scripts stay where they are.                                      *)
Moves(p, step) ==
    /\ Busy(p) /\ step \in Places
    /\ pc' \in [Runners -> Places] /\ pc'[p] = step
    /\ script' \in [Runners -> Scripts \cup {"none"}]
    /\ script'[p] = IF step = "idle" THEN "none" ELSE script[p]
    /\ note' \in [Runners -> {"none", "ok", "failed", "untouched", "restored", "noTouchID"}]
    /\ before' \in [Runners -> [local : File \cup {Absent}, sudo : File \cup {Absent}]]
    /\ step # "idle" => before'[p] = before[p]
    /\ \A q \in Runners \ {p} : pc'[q] = pc[q] /\ script'[q] = script[q]

(* Going on to another step is such a step,                                *)
LEMMA GoMoves ==
    ASSUME TypeOK, NEW p \in Runners, Busy(p), NEW step \in Places \ {"idle"}, Go(p, step)
    PROVE  Moves(p, step)
  BY DEF TypeOK, Go, Moves

(*   and so is ending, however the script ends.                            *)
LEMMA EndMoves ==
    ASSUME TypeOK, NEW p \in Runners, Busy(p),
           NEW how \in {"none", "ok", "failed", "untouched", "restored", "noTouchID"},
           End(p, how)
    PROVE  Moves(p, "idle")
<1>1. "idle" \in Places
  BY DEF Places
<1>2. Unknown \in [local : File \cup {Absent}, sudo : File \cup {Absent}]
  BY DEF Unknown
<1> QED
  BY <1>1, <1>2 DEF TypeOK, End, Moves

(* What p means to write after its step.                                   *)
Holding(p, f) == (Keeps /\ f = text[p]) \/ Holds(p, f)

LEMMA HoldingText ==
    ASSUME TypeOK, NEW p \in Runners, NEW f \in File, Holding(p, f)
    PROVE  /\ text' \in [Runners -> File] /\ text'[p] = f
           /\ \A q \in Runners \ {p} : text'[q] = text[q]
  BY DEF TypeOK, Holding, Keeps, Holds

(* The types of the files and the bounds after a step.                     *)
FilesOK ==
    /\ module \in {"none", "part", "whole"}
    /\ local \in File \cup {Absent} /\ backup \in File \cup {Absent} /\ sudo \in File
    /\ spoilt \subseteq {"module", "local", "sudo", "backup"}
BoundsOK ==
    /\ starts \in 0..MaxStarts /\ failures \in 0..MaxFailures
    /\ stops \in 0..MaxStops /\ updates \in 0..MaxUpdates

(* A step may be remembered as one that did not see all of a file.         *)
Remembers == UNCHANGED <<disturbed, overlapped>> /\ unread' \subseteq Runners

(* A step of a script leaves the invariant true when it does for itself:   *)
(* who else is under way is disturbed and promises nothing.                *)
LEMMA Frame ==
    ASSUME IInv, NEW p \in Runners, NEW step, Moves(p, step),
           NEW f \in File, Holding(p, f), UNCHANGED history \/ Remembers,
           FilesOK', BoundsOK', OnlyInLocal', At(p)', overlapped \/ Sound(step)'
    PROVE  IInv'
<1>1. /\ text' \in [Runners -> File] /\ text'[p] = f
      /\ \A q \in Runners \ {p} : text'[q] = text[q]
  BY HoldingText DEF IInv
<1>2. disturbed' = disturbed /\ overlapped' = overlapped /\ unread' \subseteq Runners
  BY DEF history, Remembers, IInv, TypeOK
<1>3. \A q \in Runners \ {p} : Busy(q)' => Busy(q) /\ q \in disturbed
  BY DEF IInv, Overlaps, Busy, Moves
<1>4. Overlaps'
  <2>1. ASSUME NEW q \in Runners, NEW r \in Runners, q # r, Busy(q)', Busy(r)'
        PROVE  q \in disturbed'
    <3>1. Busy(q) /\ Busy(r)
      BY <2>1, <1>3 DEF Moves
    <3> QED
      BY <2>1, <3>1, <1>2 DEF IInv, Overlaps
  <2>2. disturbed' # {} => overlapped'
    BY <1>2 DEF IInv, Overlaps
  <2> QED
    BY <2>1, <2>2 DEF Overlaps
<1>5. ASSUME NEW q \in Runners PROVE At(q)'
  <2>1. CASE q = p
    BY <2>1
  <2>2. CASE q # p
    <3>1. pc'[q] = pc[q] /\ script'[q] = script[q] /\ text'[q] = text[q]
      BY <2>2, <1>1 DEF Moves
    <3>2. InPlace(q)' /\ Prepared(q)'
      <4>1. InPlace(q) /\ Prepared(q)
        BY DEF IInv, At
      <4> QED
        BY <3>1, <4>1, <1>2 DEF InPlace, Prepared
    <3>3. ~Alone(q)'
      BY <2>2, <1>2, <1>3 DEF Alone
    <3>4. Truncated(q)' /\ Done(q)' /\ Kept(q)'
      BY <3>3 DEF Truncated, Done, Kept
    <3> QED
      BY <3>2, <3>4 DEF At
  <2> QED
    BY <2>1, <2>2
<1>6. TypeOK'
  <2>1. \A q \in Runners : pc'[q] = "idle" => text'[q] = <<>>
    BY <1>5 DEF At, Prepared
  <2> QED
    BY <2>1, <1>1, <1>2 DEF IInv, TypeOK, Moves, FilesOK, BoundsOK
<1>7. ASSUME ~overlapped', NEW other \in Places, Current(other)' PROVE Sound(other)'
  <2>1. \A q \in Runners \ {p} : ~Busy(q)'
    BY <1>2, <1>3, <1>7 DEF IInv, Overlaps
  <2>2. other = step
    <3>1. CASE other = "idle"
      BY <3>1, <1>7 DEF Current, Busy, Moves
    <3>2. CASE other # "idle"
      BY <3>2, <1>7, <2>1 DEF Current, Busy, Moves
    <3> QED
      BY <3>1, <3>2
  <2> QED
    BY <1>2, <1>7, <2>2
<1> QED
  BY <1>4, <1>5, <1>6, <1>7 DEF IInv

(* Unless scripts overlapped, all is sound while one is at a step, and it  *)
(* is the only one.                                                        *)
LEMMA SoundAt ==
    ASSUME IInv, NEW p \in Runners, Busy(p)
    PROVE  overlapped \/ (Sound(pc[p]) /\ Alone(p))
<1>1. pc[p] \in Places /\ Current(pc[p])
  BY DEF IInv, TypeOK, Current, Busy
<1>2. overlapped \/ Alone(p)
  BY DEF IInv, Overlaps, Alone
<1> QED
  BY <1>1, <1>2 DEF IInv

(* A step that does what it should or fails keeps to the bounds.           *)
LEMMA Bounds ==
    ASSUME TypeOK, NEW p \in Runners, NEW step,
           UNCHANGED bounds \/ Does(p, step) \/ Caught(p, step) \/ Fails(p, step)
    PROVE  BoundsOK'
<1>1. MaxFailures \in Nat
  BY BoundsAreNatural
<1> QED
  BY <1>1 DEF TypeOK, BoundsOK, Does, Fails, Caught, bounds

(* A step after which the script goes on.                                  *)
LEMMA Goes ==
    ASSUME IInv, NEW p \in Runners, Busy(p), NEW step \in Places \ {"idle"}, Go(p, step),
           NEW f \in File, Holding(p, f), UNCHANGED history \/ Remembers,
           FilesOK', BoundsOK', OnlyInLocal', overlapped \/ Sound(step)',
           InPlace(p)', Prepared(p)', Truncated(p)', Done(p)', Kept(p)'
    PROVE  IInv'
<1>1. Moves(p, step) /\ At(p)'
  BY GoMoves DEF IInv, At
<1> QED
  BY <1>1, Frame

(* A step that ends the script, which has nothing more to write.           *)
LEMMA Ends ==
    ASSUME IInv, NEW p \in Runners, Busy(p),
           NEW how \in {"none", "ok", "failed", "untouched", "restored", "noTouchID"},
           End(p, how), Holding(p, <<>>), UNCHANGED history,
           FilesOK', BoundsOK', OnlyInLocal', overlapped \/ Sound("idle")'
    PROVE  IInv'
<1>1. Moves(p, "idle") /\ <<>> \in File
  BY EndMoves, Empty DEF IInv
<1>2. text'[p] = <<>>
  BY <1>1, HoldingText DEF IInv
<1>3. pc'[p] = "idle" /\ script'[p] = "none"
  BY <1>1 DEF Moves
<1>4. InPlace(p)' /\ Prepared(p)'
  BY <1>2, <1>3, Empty DEF InPlace, Prepared
<1>5. Truncated(p)' /\ Done(p)' /\ Kept(p)'
  BY <1>3 DEF Truncated, Done, Kept, Alone, Busy
<1> QED
  BY <1>1, <1>4, <1>5, Frame DEF At

(* Where a script has nothing to write, and what it has is a file.         *)
LEMMA TextAt ==
    ASSUME IInv, NEW p \in Runners
    PROVE  /\ text[p] \in File /\ (Keeps => Holding(p, text[p]))
           /\ (Drops(p) => Holding(p, <<>>))
           /\ \A f : Holds(p, f) => Holding(p, f)
           /\ pc[p] \notin {"openLocal", "writeLocal", "openSudo", "writeSudo"} => text[p] = <<>>
  BY DEF IInv, TypeOK, At, Prepared, Holding, Drops

-----------------------------------------------------------------------------
(* The steps of a script, each with its failures.                          *)

(* The module is copied, or the script ends.                              *)
LEMMA CopyModuleKeeps ==
    ASSUME IInv, NEW p \in Runners, CopyModule(p)
    PROVE  IInv'
<1>0. TypeOK /\ OnlyInLocal /\ At(p)
  BY DEF IInv
<1>1. ASSUME Does(p, "copy"),
             module' = "part",
             Go(p, "copying"),
             Keeps,
             UNCHANGED <<local, sudo, backup>>
      PROVE  IInv'
  <2>1. Busy(p) /\ pc[p] = "copy" /\ UNCHANGED history
    BY <1>1 DEF Does, Busy
  <2>2. text[p] \in File /\ Holding(p, text[p])
    BY <1>1, TextAt
  <2>3. FilesOK' /\ BoundsOK'
    BY <1>0, <1>1, Bounds DEF FilesOK, TypeOK, Does
  <2>4. OnlyInLocal'
    BY <1>0, <1>1 DEF OnlyInLocal
  <2>5. overlapped \/ Sound("copying")'
    BY <1>1, <2>1, SoundAt DEF Sound, Readable, Loadable, Accepting, BackedUp, Restorable,
       Changes, Does
  <2>6. pc'[p] = "copying" /\ script' = script /\ before' = before
    BY <1>0, <1>1 DEF Go, TypeOK
  <2>7. text'[p] = text[p]
    BY <1>0, <2>2, HoldingText
  <2>8. InPlace(p)' /\ Prepared(p)'
    BY <1>0, <2>1, <2>6, <2>7 DEF At, InPlace, Prepared, history
  <2>9. Truncated(p)' /\ Done(p)' /\ Kept(p)'
    BY <1>0, <1>1, <2>1, <2>6 DEF At, Truncated, Done, Kept, Alone, AtSudo, history
  <2> QED
    BY <1>1, <2>1, <2>2, <2>3, <2>4, <2>5, <2>8, <2>9, Goes DEF Places
<1>2. ASSUME Fails(p, "copy"),
             End(p, "failed"),
             Keeps,
             UNCHANGED <<files, spoilt>>
      PROVE  IInv'
  <2>1. Busy(p) /\ pc[p] = "copy" /\ UNCHANGED history
    BY <1>2 DEF Fails, Caught, Busy
  <2>2. Holding(p, <<>>)
    BY <1>2, <2>1, TextAt
  <2>3. FilesOK' /\ BoundsOK'
    BY <1>0, <1>2, Bounds DEF FilesOK, TypeOK, files
  <2>4. OnlyInLocal'
    BY <1>0, <1>2 DEF OnlyInLocal, files
  <2>5. overlapped \/ Sound("idle")'
    BY <1>2, <2>1, SoundAt DEF Sound, Readable, Loadable, Accepting, BackedUp, Restorable,
       Changes, files
  <2> QED
    BY <1>2, <2>1, <2>2, <2>3, <2>4, <2>5, Ends
<1>3. ASSUME pc[p] = "copying",
             module' = "whole",
             Go(p, "readLocal"),
             Keeps,
             spoilt' = spoilt \ {"module"},
             UNCHANGED <<local, sudo, backup, bounds, history>>
      PROVE  IInv'
  <2>1. Busy(p) /\ pc[p] = "copying" /\ UNCHANGED history
    BY <1>3 DEF Busy
  <2>2. text[p] \in File /\ Holding(p, text[p])
    BY <1>3, TextAt
  <2>3. FilesOK' /\ BoundsOK'
    BY <1>0, <1>3, Bounds DEF FilesOK, TypeOK
  <2>4. OnlyInLocal'
    BY <1>0, <1>3 DEF OnlyInLocal
  <2>5. overlapped \/ Sound("readLocal")'
    BY <1>3, <2>1, SoundAt DEF Sound, Readable, Loadable, Accepting, BackedUp, Restorable,
       Changes
  <2>6. pc'[p] = "readLocal" /\ script' = script /\ before' = before
    BY <1>0, <1>3 DEF Go, TypeOK
  <2>7. text'[p] = text[p]
    BY <1>0, <2>2, HoldingText
  <2>8. InPlace(p)' /\ Prepared(p)'
    BY <1>0, <1>3, <2>6, <2>7 DEF At, InPlace, Prepared, history
  <2>9. Truncated(p)' /\ Done(p)' /\ Kept(p)'
    BY <1>0, <1>3, <2>1, <2>6 DEF At, Truncated, Done, Kept, Alone, AtSudo, history
  <2> QED
    BY <1>3, <2>1, <2>2, <2>3, <2>4, <2>5, <2>8, <2>9, Goes DEF Places
<1>4. ASSUME Fails(p, "copying"),
             End(p, "failed"),
             Keeps,
             Spoils(p),
             UNCHANGED files
      PROVE  IInv'
  <2>1. Busy(p) /\ pc[p] = "copying" /\ UNCHANGED history
    BY <1>4 DEF Fails, Caught, Busy
  <2>2. Holding(p, <<>>)
    BY <1>4, <2>1, TextAt
  <2>3. FilesOK' /\ BoundsOK'
    BY <1>0, <1>4, Bounds DEF FilesOK, TypeOK, files, Spoils, Target
  <2>4. OnlyInLocal'
    BY <1>0, <1>4 DEF OnlyInLocal, files
  <2>5. overlapped \/ Sound("idle")'
    BY <1>4, <2>1, SoundAt DEF Sound, Readable, Loadable, Accepting, BackedUp, Restorable,
       Changes, files, Spoils, Target
  <2> QED
    BY <1>4, <2>1, <2>2, <2>3, <2>4, <2>5, Ends
<1> QED
  BY <1>1, <1>2, <1>3, <1>4 DEF CopyModule

(* sudo_local is read, or edited by a development script.                  *)
LEMMA ReadLocalKeeps ==
    ASSUME IInv, NEW p \in Runners, ReadLocal(p)
    PROVE  IInv'
<1>0. TypeOK /\ OnlyInLocal /\ At(p)
  BY DEF IInv
<1>1. ASSUME Does(p, "readLocal"),
             UNCHANGED <<module, sudo, backup, local>>,
             Holds(p, Others(local)),
             Go(p, "openLocal"),
             script[p] # "devUninstall"
      PROVE  IInv'
  <2>1. Busy(p) /\ pc[p] = "readLocal" /\ UNCHANGED history
    BY <1>1 DEF Does, Busy
  <2>2. Others(local) \in File /\ ~Has(Others(local), "face")
    BY <1>0, OthersOf DEF TypeOK
  <2>3. overlapped \/ ~Has(Others(local), "junk")
    BY <1>0, <2>1, SoundAt, OthersOf DEF TypeOK, Sound, Readable
  <2>4. Others(local) \in File /\ Holding(p, Others(local))
    BY <1>1, TextAt, <2>2
  <2>5. FilesOK' /\ BoundsOK'
    BY <1>0, <1>1, Bounds DEF FilesOK, TypeOK, Does
  <2>6. OnlyInLocal'
    BY <1>0, <1>1 DEF OnlyInLocal
  <2>7. overlapped \/ Sound("openLocal")'
    BY <1>1, <2>1, SoundAt DEF Sound, Readable, Loadable, Accepting, BackedUp, Restorable,
       Changes, Does
  <2>8. pc'[p] = "openLocal" /\ script' = script /\ before' = before
    BY <1>0, <1>1 DEF Go, TypeOK
  <2>9. text'[p] = Others(local)
    BY <1>0, <2>4, HoldingText
  <2>10. InPlace(p)' /\ Prepared(p)'
    BY <1>0, <2>1, <2>8, <2>9, <2>2, <2>3 DEF At, InPlace, Prepared, history
  <2>11. Truncated(p)' /\ Done(p)' /\ Kept(p)'
    BY <1>0, <1>1, <2>1, <2>8, <2>9 DEF At, Truncated, Done, Kept, Alone, AtSudo, history
  <2> QED
    BY <1>1, <2>1, <2>4, <2>5, <2>6, <2>7, <2>10, <2>11, Goes DEF Places
<1>2. ASSUME Does(p, "readLocal"),
             UNCHANGED <<module, sudo, backup, local>>,
             Keeps,
             Go(p, "remove"),
             script[p] \in {"uninstall", "devUninstall"},
             ~Exists(local)
      PROVE  IInv'
  <2>1. Busy(p) /\ pc[p] = "readLocal" /\ UNCHANGED history
    BY <1>2 DEF Does, Busy
  <2>2. ~Has(local, "face")
    BY <1>2, Empty DEF Exists, Rule
  <2>3. text[p] \in File /\ Holding(p, text[p])
    BY <1>2, TextAt
  <2>4. FilesOK' /\ BoundsOK'
    BY <1>0, <1>2, Bounds DEF FilesOK, TypeOK, Does
  <2>5. OnlyInLocal'
    BY <1>0, <1>2 DEF OnlyInLocal
  <2>6. overlapped \/ Sound("remove")'
    BY <1>2, <2>1, SoundAt DEF Sound, Readable, Loadable, Accepting, BackedUp, Restorable,
       Changes, Does
  <2>7. pc'[p] = "remove" /\ script' = script /\ before' = before
    BY <1>0, <1>2 DEF Go, TypeOK
  <2>8. text'[p] = text[p]
    BY <1>0, <2>3, HoldingText
  <2>9. InPlace(p)' /\ Prepared(p)'
    BY <1>0, <1>2, <2>1, <2>7, <2>8 DEF At, InPlace, Prepared, Installs, history
  <2>10. Truncated(p)' /\ Done(p)' /\ Kept(p)'
    BY <1>0, <1>2, <2>1, <2>7, <2>2 DEF At, Truncated, Done, Kept, Alone, history
  <2> QED
    BY <1>2, <2>1, <2>3, <2>4, <2>5, <2>6, <2>9, <2>10, Goes DEF Places
<1>3. ASSUME Does(p, "readLocal"),
             UNCHANGED <<module, sudo, backup>>,
             Keeps,
             Go(p, "readSudo"),
             script[p] = "devInstall",
             Exists(local),
             local' = IF Has(local, "face") \/ local = <<>> THEN local
                      ELSE <<"face">> \o local
      PROVE  IInv'
  <2>1. Busy(p) /\ pc[p] = "readLocal" /\ UNCHANGED history
    BY <1>3 DEF Does, Busy
  <2>2. local \in File
    BY <1>0, <1>3 DEF TypeOK, Exists
  <2>3. local' \in File /\ Others(local') = Others(local)
    BY <1>3, <2>2, OthersOfOurs
  <2>4. Has(local', "junk") => Has(local, "junk")
    BY <1>3, <2>2, OursAdded
  <2>5. text[p] \in File /\ Holding(p, text[p])
    BY <1>3, TextAt
  <2>6. FilesOK' /\ BoundsOK'
    BY <1>0, <1>3, Bounds, <2>3 DEF FilesOK, TypeOK, Does
  <2>7. OnlyInLocal'
    BY <1>0, <1>3 DEF OnlyInLocal
  <2>8. overlapped \/ Sound("readSudo")'
    BY <1>0, <1>3, <2>1, SoundAt, <2>4 DEF Sound, Readable, Loadable, Accepting, BackedUp,
       Restorable, Changes, Does, At, Done, Installs
  <2>9. pc'[p] = "readSudo" /\ script' = script /\ before' = before
    BY <1>0, <1>3 DEF Go, TypeOK
  <2>10. text'[p] = text[p]
    BY <1>0, <2>5, HoldingText
  <2>11. InPlace(p)' /\ Prepared(p)'
    BY <1>0, <2>1, <2>9, <2>10 DEF At, InPlace, Prepared, history
  <2>12. Truncated(p)' /\ Done(p)' /\ Kept(p)'
    BY <1>0, <1>3, <2>1, <2>9, <2>3 DEF At, Truncated, Done, Kept, Alone, Installs, history
  <2> QED
    BY <1>3, <2>1, <2>5, <2>6, <2>7, <2>8, <2>11, <2>12, Goes DEF Places
<1>4. ASSUME Does(p, "readLocal"),
             UNCHANGED <<module, sudo, backup>>,
             Keeps,
             Go(p, "remove"),
             script[p] = "devUninstall",
             Exists(local),
             local' = Others(local)
      PROVE  IInv'
  <2>1. Busy(p) /\ pc[p] = "readLocal" /\ UNCHANGED history
    BY <1>4 DEF Does, Busy
  <2>2. local' \in File /\ Others(local') = Others(local) /\ ~Has(local', "face")
    BY <1>0, <1>4, OthersOf DEF TypeOK
  <2>3. Has(local', "junk") => Has(local, "junk")
    BY <1>0, <1>4, OthersOf DEF TypeOK
  <2>4. text[p] \in File /\ Holding(p, text[p])
    BY <1>4, TextAt
  <2>5. FilesOK' /\ BoundsOK'
    BY <1>0, <1>4, Bounds, <2>2 DEF FilesOK, TypeOK, Does
  <2>6. OnlyInLocal'
    BY <1>0, <1>4 DEF OnlyInLocal
  <2>7. overlapped \/ Sound("remove")'
    BY <1>4, <2>1, SoundAt, <2>2, <2>3 DEF Sound, Readable, Loadable, Accepting, BackedUp,
       Restorable, Changes, Does
  <2>8. pc'[p] = "remove" /\ script' = script /\ before' = before
    BY <1>0, <1>4 DEF Go, TypeOK
  <2>9. text'[p] = text[p]
    BY <1>0, <2>4, HoldingText
  <2>10. InPlace(p)' /\ Prepared(p)'
    BY <1>0, <1>4, <2>1, <2>8, <2>9 DEF At, InPlace, Prepared, Installs, history
  <2>11. Truncated(p)' /\ Done(p)' /\ Kept(p)'
    BY <1>0, <1>4, <2>1, <2>8, <2>2 DEF At, Truncated, Done, Kept, Alone, history
  <2> QED
    BY <1>4, <2>1, <2>4, <2>5, <2>6, <2>7, <2>10, <2>11, Goes DEF Places
<1> QED
  BY <1>1, <1>2, <1>3, <1>4 DEF ReadLocal

(* sed cannot rename its file over sudo_local.                             *)
LEMMA EditLocalFailsKeeps ==
    ASSUME IInv, NEW p \in Runners, EditLocalFails(p)
    PROVE  IInv'
<1>0. TypeOK /\ OnlyInLocal /\ At(p)
  BY DEF IInv
<1>1. ASSUME Fails(p, "readLocal"),
             End(p, "failed"),
             Keeps,
             UNCHANGED <<files, spoilt>>
      PROVE  IInv'
  <2>1. Busy(p) /\ pc[p] = "readLocal" /\ UNCHANGED history
    BY <1>1 DEF Fails, Caught, Busy
  <2>2. Holding(p, <<>>)
    BY <1>1, <2>1, TextAt
  <2>3. FilesOK' /\ BoundsOK'
    BY <1>0, <1>1, Bounds DEF FilesOK, TypeOK, files
  <2>4. OnlyInLocal'
    BY <1>0, <1>1 DEF OnlyInLocal, files
  <2>5. overlapped \/ Sound("idle")'
    BY <1>1, <2>1, SoundAt DEF Sound, Readable, Loadable, Accepting, BackedUp, Restorable,
       Changes, files
  <2> QED
    BY <1>1, <2>1, <2>2, <2>3, <2>4, <2>5, Ends
<1> QED
  BY <1>1 DEF EditLocalFails

(* What grep keeps of the head of a file is a part of it.                  *)
LEMMA OthersOfHead ==
    ASSUME NEW f \in File, NEW n \in 0 .. Len(f)
    PROVE  /\ Others(SubSeq(f, 1, n)) \in File
           /\ \A r : Has(Others(SubSeq(f, 1, n)), r) => Has(f, r)
           /\ ~Has(Others(SubSeq(f, 1, n)), "face")
<1> DEFINE head == SubSeq(f, 1, n)
<1>1. f \in Seq(Rule) /\ Len(f) \in Nat
  BY DEF File
<1>2. /\ head \in Seq(Rule) /\ Len(head) = n
      /\ \A i \in 1 .. n : head[i] = f[i] /\ i \in 1 .. Len(f)
  BY <1>1
<1>3. head \in File /\ \A r : Has(head, r) => Has(f, r)
  BY <1>1, <1>2 DEF File, Has
<1> HIDE DEF head
<1>4. Others(head) \in File /\ ~Has(Others(head), "face") /\ \A r : Has(Others(head), r) => Has(head, r)
  BY <1>3, OthersOf
<1> QED
  BY <1>3, <1>4 DEF head

(* grep fails, and the script goes on with what it has, which other        *)
(* software may have lost something by.                                    *)
LEMMA GrepLocalFailsKeeps ==
    ASSUME IInv, NEW p \in Runners, GrepLocalFails(p)
    PROVE  IInv'
<1>0. TypeOK /\ OnlyInLocal /\ At(p)
  BY DEF IInv
<1>1. ASSUME Caught(p, "readLocal"),
             UNCHANGED <<module, sudo, backup, local, spoilt, disturbed, overlapped>>,
             NEW f \in File, ~Has(f, "face"), Has(f, "junk") => Has(local, "junk"),
             Holds(p, f),
             Go(p, "openLocal"),
             unread' = unread \cup {p},
             script[p] \in {"install", "uninstall"}
      PROVE  IInv'
  <2>1. Busy(p) /\ pc[p] = "readLocal" /\ Remembers
    BY <1>0, <1>1 DEF Caught, Busy, Remembers, TypeOK
  <2>2. overlapped \/ ~Has(f, "junk")
    BY <1>1, <2>1, SoundAt DEF Sound, Readable
  <2>3. Holding(p, f)
    BY <1>1, TextAt
  <2>4. FilesOK' /\ BoundsOK'
    BY <1>0, <1>1, Bounds DEF FilesOK, TypeOK
  <2>5. OnlyInLocal'
    BY <1>0, <1>1 DEF OnlyInLocal
  <2>6. overlapped \/ Sound("openLocal")'
    BY <1>1, <2>1, SoundAt DEF Sound, Readable, Loadable, Accepting, BackedUp, Restorable,
       Changes
  <2>7. pc'[p] = "openLocal" /\ script' = script /\ before' = before
    BY <1>0, <1>1 DEF Go, TypeOK
  <2>8. text'[p] = f
    BY <1>0, <2>3, HoldingText
  <2>9. InPlace(p)' /\ Prepared(p)'
    BY <1>0, <1>1, <2>1, <2>7, <2>8, <2>2 DEF At, InPlace, Prepared
  <2>10. Truncated(p)' /\ Done(p)' /\ Kept(p)'
    BY <1>0, <1>1, <2>1, <2>7 DEF At, Truncated, Done, Kept, Alone, AtSudo
  <2> QED
    BY <1>1, <2>1, <2>3, <2>4, <2>5, <2>6, <2>9, <2>10, Goes DEF Places
<1>2. ASSUME Caught(p, "readLocal"),
             UNCHANGED <<module, sudo, backup, spoilt, disturbed, overlapped>>,
             Keeps,
             Go(p, "readSudo"),
             script[p] = "devInstall",
             Exists(local),
             unread' = unread,
             local' = IF local = <<>> THEN local ELSE <<"face">> \o local
      PROVE  IInv'
  <2>1. Busy(p) /\ pc[p] = "readLocal" /\ UNCHANGED history
    BY <1>2 DEF Caught, Busy, history
  <2>2. local \in File
    BY <1>0, <1>2 DEF TypeOK, Exists
  <2>3. local' \in File /\ Others(local') = Others(local)
    BY <1>2, <2>2, OthersOfOurs
  <2>4. Has(local', "junk") => Has(local, "junk")
    BY <1>2, <2>2, OursAdded
  <2>5. text[p] \in File /\ Holding(p, text[p])
    BY <1>2, TextAt
  <2>6. FilesOK' /\ BoundsOK'
    BY <1>0, <1>2, Bounds, <2>3 DEF FilesOK, TypeOK
  <2>7. OnlyInLocal'
    BY <1>0, <1>2 DEF OnlyInLocal
  <2>8. overlapped \/ Sound("readSudo")'
    BY <1>0, <1>2, <2>1, SoundAt, <2>4 DEF Sound, Readable, Loadable, Accepting, BackedUp,
       Restorable, Changes, At, Done, Installs
  <2>9. pc'[p] = "readSudo" /\ script' = script /\ before' = before
    BY <1>0, <1>2 DEF Go, TypeOK
  <2>10. text'[p] = text[p]
    BY <1>0, <2>5, HoldingText
  <2>11. InPlace(p)' /\ Prepared(p)'
    BY <1>0, <2>1, <2>9, <2>10 DEF At, InPlace, Prepared, history
  <2>12. Truncated(p)' /\ Done(p)' /\ Kept(p)'
    BY <1>0, <1>2, <2>1, <2>9, <2>3 DEF At, Truncated, Done, Kept, Alone, Installs, history
  <2> QED
    BY <1>2, <2>1, <2>5, <2>6, <2>7, <2>8, <2>11, <2>12, Goes DEF Places
<1>3. local \in File
  BY <1>0 DEF GrepLocalFails, TypeOK, Exists
<1>4. CASE script[p] \in {"install", "uninstall"}
  <2>1. /\ Caught(p, "readLocal") /\ Go(p, "openLocal") /\ unread' = unread \cup {p}
        /\ UNCHANGED <<module, sudo, backup, local, spoilt, disturbed, overlapped>>
    BY <1>4 DEF GrepLocalFails
  <2>2. PICK n \in 0 .. Len(local) : Holds(p, Others(SubSeq(local, 1, n)))
    BY <1>4 DEF GrepLocalFails
  <2> DEFINE f == Others(SubSeq(local, 1, n))
  <2>3. f \in File /\ ~Has(f, "face") /\ (Has(f, "junk") => Has(local, "junk"))
    BY <1>3, OthersOfHead
  <2> HIDE DEF f
  <2>4. Holds(p, f)
    BY <2>2 DEF f
  <2> QED
    BY <1>1, <1>4, <2>1, <2>3, <2>4
<1>5. CASE script[p] = "devInstall"
  BY <1>2, <1>5 DEF GrepLocalFails
<1> QED
  BY <1>4, <1>5 DEF GrepLocalFails

(* sudo_local is truncated,                                                *)
LEMMA OpenLocalKeeps ==
    ASSUME IInv, NEW p \in Runners, OpenLocal(p)
    PROVE  IInv'
<1>0. TypeOK /\ OnlyInLocal /\ At(p)
  BY DEF IInv
<1>1. ASSUME Does(p, "openLocal"),
             local' = <<>>,
             Go(p, "writeLocal"),
             Keeps,
             UNCHANGED <<module, sudo, backup>>
      PROVE  IInv'
  <2>1. Busy(p) /\ pc[p] = "openLocal" /\ UNCHANGED history
    BY <1>1 DEF Does, Busy
  <2>2. text[p] \in File /\ Holding(p, text[p])
    BY <1>1, TextAt
  <2>3. FilesOK' /\ BoundsOK'
    BY <1>0, <1>1, Bounds, Empty DEF FilesOK, TypeOK, Does
  <2>4. OnlyInLocal'
    BY <1>0, <1>1 DEF OnlyInLocal
  <2>5. overlapped \/ Sound("writeLocal")'
    BY <1>1, <2>1, SoundAt, Empty DEF Sound, Readable, Loadable, Accepting, BackedUp,
       Restorable, Changes, Does
  <2>6. pc'[p] = "writeLocal" /\ script' = script /\ before' = before
    BY <1>0, <1>1 DEF Go, TypeOK
  <2>7. text'[p] = text[p]
    BY <1>0, <2>2, HoldingText
  <2>8. InPlace(p)' /\ Prepared(p)'
    BY <1>0, <2>1, <2>6, <2>7 DEF At, InPlace, Prepared, history
  <2>9. Truncated(p)' /\ Done(p)' /\ Kept(p)'
    BY <1>0, <1>1, <2>1, <2>6, <2>7 DEF At, Truncated, Done, Kept, Alone, AtSudo, history
  <2> QED
    BY <1>1, <2>1, <2>2, <2>3, <2>4, <2>5, <2>8, <2>9, Goes DEF Places
<1>2. ASSUME Fails(p, "openLocal"),
             End(p, "failed"),
             Drops(p),
             UNCHANGED <<files, spoilt>>
      PROVE  IInv'
  <2>1. Busy(p) /\ pc[p] = "openLocal" /\ UNCHANGED history
    BY <1>2 DEF Fails, Caught, Busy
  <2>2. Holding(p, <<>>)
    BY <1>2, TextAt
  <2>3. FilesOK' /\ BoundsOK'
    BY <1>0, <1>2, Bounds DEF FilesOK, TypeOK, files
  <2>4. OnlyInLocal'
    BY <1>0, <1>2 DEF OnlyInLocal, files
  <2>5. overlapped \/ Sound("idle")'
    BY <1>2, <2>1, SoundAt DEF Sound, Readable, Loadable, Accepting, BackedUp, Restorable,
       Changes, files
  <2> QED
    BY <1>2, <2>1, <2>2, <2>3, <2>4, <2>5, Ends
<1> QED
  BY <1>1, <1>2 DEF OpenLocal

(*   and written.                                                          *)
LEMMA WriteLocalKeeps ==
    ASSUME IInv, NEW p \in Runners, WriteLocal(p)
    PROVE  IInv'
<1>0. TypeOK /\ OnlyInLocal /\ At(p)
  BY DEF IInv
<1>1. ASSUME Does(p, "writeLocal"),
             local' = Written(Rules(p), local),
             Go(p, "readSudo"),
             Drops(p),
             UNCHANGED <<module, sudo, backup>>,
             Installs(script[p])
      PROVE  IInv'
  <2>1. Busy(p) /\ pc[p] = "writeLocal" /\ UNCHANGED history
    BY <1>1 DEF Does, Busy
  <2>2. text[p] \in File /\ local \in File \cup {Absent} /\ Rules(p) = <<"face">> \o text[p]
    BY <1>0, <1>1 DEF TypeOK, Rules
  <2>3. Rules(p) \in File /\ Has(Rules(p), "face")
    BY <2>2, OursAdded
  <2>4. local' \in File /\ Has(local', "face")
    BY <1>1, <2>2, <2>3, WhatIsWritten DEF Rule
  <2>5. Alone(p) => local' = Rules(p)
    BY <1>0, <1>1, <2>1, <2>3, WhatIsWritten DEF At, Truncated
  <2>6. Alone(p) /\ p \notin unread => Others(local') = Others(before[p].local)
    BY <1>0, <2>1, <2>2, <2>5, OthersOf DEF At, Kept, TypeOK
  <2>7. overlapped \/ ~Has(local', "junk")
    BY <1>0, <2>1, <2>2, <2>4, <2>5, SoundAt, OursAdded DEF At, Prepared
  <2>8. <<>> \in File /\ Holding(p, <<>>)
    BY <1>1, TextAt, Empty
  <2>9. FilesOK' /\ BoundsOK'
    BY <1>0, <1>1, Bounds, <2>4 DEF FilesOK, TypeOK, Does
  <2>10. OnlyInLocal'
    BY <1>0, <1>1 DEF OnlyInLocal
  <2>11. overlapped \/ Sound("readSudo")'
    BY <1>0, <1>1, <2>1, SoundAt, <2>7 DEF Sound, Readable, Loadable, Accepting, BackedUp,
       Restorable, Changes, Does, At, Done
  <2>12. pc'[p] = "readSudo" /\ script' = script /\ before' = before
    BY <1>0, <1>1 DEF Go, TypeOK
  <2>13. text'[p] = <<>>
    BY <1>0, <2>8, HoldingText
  <2>14. InPlace(p)' /\ Prepared(p)'
    BY <1>0, <2>1, <2>12, <2>13, Empty DEF At, InPlace, Prepared
  <2>15. Truncated(p)' /\ Done(p)' /\ Kept(p)'
    BY <1>0, <1>1, <2>1, <2>12, <2>4, <2>6 DEF At, Truncated, Done, Kept, Alone, history
  <2> QED
    BY <1>1, <2>1, <2>8, <2>9, <2>10, <2>11, <2>14, <2>15, Goes DEF Places
<1>2. ASSUME Does(p, "writeLocal"),
             local' = Written(Rules(p), local),
             Go(p, "remove"),
             Drops(p),
             UNCHANGED <<module, sudo, backup>>,
             ~Installs(script[p])
      PROVE  IInv'
  <2>1. Busy(p) /\ pc[p] = "writeLocal" /\ UNCHANGED history
    BY <1>2 DEF Does, Busy
  <2>2. text[p] \in File /\ local \in File \cup {Absent} /\ Rules(p) = text[p]
    BY <1>0, <1>2 DEF TypeOK, Rules
  <2>3. local' \in File /\ ~Has(local', "face")
    BY <1>0, <1>2, <2>2, WhatIsWritten DEF Rule, At, Prepared
  <2>4. Alone(p) => local' = Rules(p)
    BY <1>0, <1>2, <2>1, <2>2, WhatIsWritten DEF At, Truncated
  <2>5. Alone(p) /\ p \notin unread => Others(local') = Others(before[p].local)
    BY <1>0, <2>1, <2>2, <2>4, OthersOf DEF At, Kept, TypeOK
  <2>6. overlapped \/ ~Has(local', "junk")
    BY <1>0, <2>1, <2>2, <2>4, SoundAt DEF At, Prepared
  <2>7. <<>> \in File /\ Holding(p, <<>>)
    BY <1>2, TextAt, Empty
  <2>8. FilesOK' /\ BoundsOK'
    BY <1>0, <1>2, Bounds, <2>3 DEF FilesOK, TypeOK, Does
  <2>9. OnlyInLocal'
    BY <1>0, <1>2 DEF OnlyInLocal
  <2>10. overlapped \/ Sound("remove")'
    BY <1>2, <2>1, SoundAt, <2>3, <2>6 DEF Sound, Readable, Loadable, Accepting, BackedUp,
       Restorable, Changes, Does
  <2>11. pc'[p] = "remove" /\ script' = script /\ before' = before
    BY <1>0, <1>2 DEF Go, TypeOK
  <2>12. text'[p] = <<>>
    BY <1>0, <2>7, HoldingText
  <2>13. InPlace(p)' /\ Prepared(p)'
    BY <1>0, <1>2, <2>1, <2>11, <2>12, Empty DEF At, InPlace, Prepared
  <2>14. Truncated(p)' /\ Done(p)' /\ Kept(p)'
    BY <1>2, <2>1, <2>11, <2>3, <2>5 DEF Truncated, Done, Kept, Alone, Installs, history
  <2> QED
    BY <1>2, <2>1, <2>7, <2>8, <2>9, <2>10, <2>13, <2>14, Goes DEF Places
<1>3. ASSUME Fails(p, "writeLocal"),
             End(p, "failed"),
             Drops(p),
             Spoils(p),
             UNCHANGED files
      PROVE  IInv'
  <2>1. Busy(p) /\ pc[p] = "writeLocal" /\ UNCHANGED history
    BY <1>3 DEF Fails, Caught, Busy
  <2>2. Holding(p, <<>>)
    BY <1>3, TextAt
  <2>3. FilesOK' /\ BoundsOK'
    BY <1>0, <1>3, Bounds DEF FilesOK, TypeOK, files, Spoils, Target
  <2>4. OnlyInLocal'
    BY <1>0, <1>3 DEF OnlyInLocal, files
  <2>5. overlapped \/ Sound("idle")'
    BY <1>3, <2>1, SoundAt DEF Sound, Readable, Loadable, Accepting, BackedUp, Restorable,
       Changes, files, Spoils, Target
  <2> QED
    BY <1>3, <2>1, <2>2, <2>3, <2>4, <2>5, Ends
<1> QED
  BY <1>1, <1>2, <1>3 DEF WriteLocal, AfterLocal

(* The module is removed, or stays.                                       *)
LEMMA RemoveModuleKeeps ==
    ASSUME IInv, NEW p \in Runners, RemoveModule(p)
    PROVE  IInv'
<1>0. TypeOK /\ OnlyInLocal /\ At(p)
  BY DEF IInv
<1>1. ASSUME Does(p, "remove"),
             module' = "none",
             Go(p, "readSudo"),
             Keeps,
             UNCHANGED <<local, sudo, backup>>
      PROVE  IInv'
  <2>1. Busy(p) /\ pc[p] = "remove" /\ UNCHANGED history
    BY <1>1 DEF Does, Busy
  <2>2. text[p] \in File /\ Holding(p, text[p])
    BY <1>1, TextAt
  <2>3. FilesOK' /\ BoundsOK'
    BY <1>0, <1>1, Bounds DEF FilesOK, TypeOK, Does
  <2>4. OnlyInLocal'
    BY <1>0, <1>1 DEF OnlyInLocal
  <2>5. overlapped \/ Sound("readSudo")'
    BY <1>0, <1>1, <2>1, SoundAt DEF Sound, Readable, Loadable, Accepting, BackedUp,
       Restorable, Changes, Does, At, Done, InPlace
  <2>6. pc'[p] = "readSudo" /\ script' = script /\ before' = before
    BY <1>0, <1>1 DEF Go, TypeOK
  <2>7. text'[p] = text[p]
    BY <1>0, <2>2, HoldingText
  <2>8. InPlace(p)' /\ Prepared(p)'
    BY <1>0, <2>1, <2>6, <2>7 DEF At, InPlace, Prepared, history
  <2>9. Truncated(p)' /\ Done(p)' /\ Kept(p)'
    BY <1>0, <1>1, <2>1, <2>6 DEF At, InPlace, Truncated, Done, Kept, Alone, Installs,
       history
  <2> QED
    BY <1>1, <2>1, <2>2, <2>3, <2>4, <2>5, <2>8, <2>9, Goes DEF Places
<1>2. ASSUME Fails(p, "remove"),
             Go(p, "readSudo"),
             Keeps,
             UNCHANGED <<files, spoilt>>
      PROVE  IInv'
  <2>1. Busy(p) /\ pc[p] = "remove" /\ UNCHANGED history
    BY <1>2 DEF Fails, Caught, Busy
  <2>2. text[p] \in File /\ Holding(p, text[p])
    BY <1>2, TextAt
  <2>3. FilesOK' /\ BoundsOK'
    BY <1>0, <1>2, Bounds DEF FilesOK, TypeOK, files
  <2>4. OnlyInLocal'
    BY <1>0, <1>2 DEF OnlyInLocal, files
  <2>5. overlapped \/ Sound("readSudo")'
    BY <1>2, <2>1, SoundAt DEF Sound, Readable, Loadable, Accepting, BackedUp, Restorable,
       Changes, files
  <2>6. pc'[p] = "readSudo" /\ script' = script /\ before' = before
    BY <1>0, <1>2 DEF Go, TypeOK
  <2>7. text'[p] = text[p]
    BY <1>0, <2>2, HoldingText
  <2>8. InPlace(p)' /\ Prepared(p)'
    BY <1>0, <2>1, <2>6, <2>7 DEF At, InPlace, Prepared, history
  <2>9. Truncated(p)' /\ Done(p)' /\ Kept(p)'
    BY <1>0, <1>2, <2>1, <2>6 DEF At, InPlace, Truncated, Done, Kept, Alone, Installs,
       files, history
  <2> QED
    BY <1>2, <2>1, <2>2, <2>3, <2>4, <2>5, <2>8, <2>9, Goes DEF Places
<1> QED
  BY <1>1, <1>2 DEF RemoveModule

(* sudo's file is looked at: a script that finds Touch ID commented out    *)
(* finds a backup as well.                                                 *)
LEMMA ReadSudoKeeps ==
    ASSUME IInv, NEW p \in Runners, ReadSudo(p)
    PROVE  IInv'
<1>0. TypeOK /\ OnlyInLocal /\ At(p)
  BY DEF IInv
<1>1. ASSUME Does(p, "readSudo"),
             Keeps,
             UNCHANGED files,
             End(p, "ok")
      PROVE  IInv'
  <2>1. Busy(p) /\ pc[p] = "readSudo" /\ UNCHANGED history
    BY <1>1 DEF Does, Busy
  <2>2. Holding(p, <<>>)
    BY <1>1, <2>1, TextAt
  <2>3. FilesOK' /\ BoundsOK'
    BY <1>0, <1>1, Bounds DEF FilesOK, TypeOK, files, Does
  <2>4. OnlyInLocal'
    BY <1>0, <1>1 DEF OnlyInLocal, files
  <2>5. overlapped \/ Sound("idle")'
    BY <1>1, <2>1, SoundAt DEF Sound, Readable, Loadable, Accepting, BackedUp, Restorable,
       Changes, Does, files
  <2> QED
    BY <1>1, <2>1, <2>2, <2>3, <2>4, <2>5, Ends
<1>2. ASSUME Does(p, "readSudo"),
             Keeps,
             UNCHANGED files,
             Go(p, "backup"),
             Installs(script[p])
      PROVE  IInv'
  <2>1. Busy(p) /\ pc[p] = "readSudo" /\ UNCHANGED history
    BY <1>2 DEF Does, Busy
  <2>2. text[p] \in File /\ Holding(p, text[p])
    BY <1>2, TextAt
  <2>3. FilesOK' /\ BoundsOK'
    BY <1>0, <1>2, Bounds DEF FilesOK, TypeOK, files, Does
  <2>4. OnlyInLocal'
    BY <1>0, <1>2 DEF OnlyInLocal, files
  <2>5. overlapped \/ Sound("backup")'
    BY <1>2, <2>1, SoundAt DEF Sound, Readable, Loadable, Accepting, BackedUp, Restorable,
       Changes, Does, files
  <2>6. pc'[p] = "backup" /\ script' = script /\ before' = before
    BY <1>0, <1>2 DEF Go, TypeOK
  <2>7. text'[p] = text[p]
    BY <1>0, <2>2, HoldingText
  <2>8. InPlace(p)' /\ Prepared(p)'
    BY <1>0, <1>2, <2>1, <2>6, <2>7 DEF At, InPlace, Prepared, history
  <2>9. Truncated(p)' /\ Done(p)' /\ Kept(p)'
    BY <1>0, <1>2, <2>1, <2>6 DEF At, Truncated, Done, Kept, Alone, AtSudo, files, history
  <2> QED
    BY <1>2, <2>1, <2>2, <2>3, <2>4, <2>5, <2>8, <2>9, Goes DEF Places
<1>3. ASSUME Does(p, "readSudo"),
             Keeps,
             UNCHANGED files,
             Go(p, "rewrite"),
             ~Installs(script[p]),
             Edits(script[p], sudo)
      PROVE  IInv'
  <2>1. Busy(p) /\ pc[p] = "readSudo" /\ UNCHANGED history
    BY <1>3 DEF Does, Busy
  <2>2. Has(sudo, "tidOff")
    BY <1>0, <1>3, <2>1, EditsOf DEF At, InPlace, TypeOK, Installs, Scripts
  <2>3. text[p] \in File /\ Holding(p, text[p])
    BY <1>3, TextAt
  <2>4. FilesOK' /\ BoundsOK'
    BY <1>0, <1>3, Bounds DEF FilesOK, TypeOK, files, Does
  <2>5. OnlyInLocal'
    BY <1>0, <1>3 DEF OnlyInLocal, files
  <2>6. overlapped \/ Sound("rewrite")'
    BY <1>3, <2>1, SoundAt, <2>2 DEF Sound, Readable, Loadable, Accepting, BackedUp,
       Restorable, Does, files
  <2>7. pc'[p] = "rewrite" /\ script' = script /\ before' = before
    BY <1>0, <1>3 DEF Go, TypeOK
  <2>8. text'[p] = text[p]
    BY <1>0, <2>3, HoldingText
  <2>9. InPlace(p)' /\ Prepared(p)'
    BY <1>0, <2>1, <2>7, <2>8 DEF At, InPlace, Prepared, history
  <2>10. Truncated(p)' /\ Done(p)' /\ Kept(p)'
    BY <1>0, <1>3, <2>1, <2>7 DEF At, Truncated, Done, Kept, Alone, AtSudo, files, history
  <2> QED
    BY <1>3, <2>1, <2>3, <2>4, <2>5, <2>6, <2>9, <2>10, Goes DEF Places
<1> QED
  BY <1>1, <1>2, <1>3 DEF ReadSudo

(* A grep fails in sudo's file or in what was written to it.               *)
LEMMA GrepSudoFailsKeeps ==
    ASSUME IInv, NEW p \in Runners, GrepSudoFails(p)
    PROVE  IInv'
<1>0. TypeOK /\ OnlyInLocal /\ At(p)
  BY DEF IInv
<1>1. ASSUME Fails(p, "readSudo"),
             Keeps,
             UNCHANGED <<files, spoilt>>,
             End(p, "ok")
      PROVE  IInv'
  <2>1. Busy(p) /\ pc[p] = "readSudo" /\ UNCHANGED history
    BY <1>1 DEF Fails, Caught, Busy
  <2>2. Holding(p, <<>>)
    BY <1>1, <2>1, TextAt
  <2>3. FilesOK' /\ BoundsOK'
    BY <1>0, <1>1, Bounds DEF FilesOK, TypeOK, files
  <2>4. OnlyInLocal'
    BY <1>0, <1>1 DEF OnlyInLocal, files
  <2>5. overlapped \/ Sound("idle")'
    BY <1>1, <2>1, SoundAt DEF Sound, Readable, Loadable, Accepting, BackedUp, Restorable,
       Changes, files
  <2> QED
    BY <1>1, <2>1, <2>2, <2>3, <2>4, <2>5, Ends
<1>2. ASSUME Fails(p, "readSudo"),
             Keeps,
             UNCHANGED <<files, spoilt>>,
             Go(p, "backup"),
             Installs(script[p])
      PROVE  IInv'
  <2>1. Busy(p) /\ pc[p] = "readSudo" /\ UNCHANGED history
    BY <1>2 DEF Fails, Caught, Busy
  <2>2. text[p] \in File /\ Holding(p, text[p])
    BY <1>2, TextAt
  <2>3. FilesOK' /\ BoundsOK'
    BY <1>0, <1>2, Bounds DEF FilesOK, TypeOK, files
  <2>4. OnlyInLocal'
    BY <1>0, <1>2 DEF OnlyInLocal, files
  <2>5. overlapped \/ Sound("backup")'
    BY <1>2, <2>1, SoundAt DEF Sound, Readable, Loadable, Accepting, BackedUp, Restorable,
       Changes, files
  <2>6. pc'[p] = "backup" /\ script' = script /\ before' = before
    BY <1>0, <1>2 DEF Go, TypeOK
  <2>7. text'[p] = text[p]
    BY <1>0, <2>2, HoldingText
  <2>8. InPlace(p)' /\ Prepared(p)'
    BY <1>0, <1>2, <2>1, <2>6, <2>7 DEF At, InPlace, Prepared, history
  <2>9. Truncated(p)' /\ Done(p)' /\ Kept(p)'
    BY <1>0, <1>2, <2>1, <2>6 DEF At, Truncated, Done, Kept, Alone, AtSudo, files, history
  <2> QED
    BY <1>2, <2>1, <2>2, <2>3, <2>4, <2>5, <2>8, <2>9, Goes DEF Places
<1>3. ASSUME Fails(p, "verify"),
             Keeps,
             UNCHANGED <<files, spoilt>>,
             Go(p, "openAgain")
      PROVE  IInv'
  <2>1. Busy(p) /\ pc[p] = "verify" /\ UNCHANGED history
    BY <1>3 DEF Fails, Caught, Busy
  <2>2. text[p] \in File /\ Holding(p, text[p])
    BY <1>3, TextAt
  <2>3. FilesOK' /\ BoundsOK'
    BY <1>0, <1>3, Bounds DEF FilesOK, TypeOK, files
  <2>4. OnlyInLocal'
    BY <1>0, <1>3 DEF OnlyInLocal, files
  <2>5. overlapped \/ Sound("openAgain")'
    BY <1>3, <2>1, SoundAt DEF Sound, Readable, Loadable, Accepting, BackedUp, Restorable,
       Changes, files
  <2>6. pc'[p] = "openAgain" /\ script' = script /\ before' = before
    BY <1>0, <1>3 DEF Go, TypeOK
  <2>7. text'[p] = text[p]
    BY <1>0, <2>2, HoldingText
  <2>8. InPlace(p)' /\ Prepared(p)'
    BY <1>0, <2>1, <2>6, <2>7 DEF At, InPlace, Prepared, history
  <2>9. Truncated(p)' /\ Done(p)' /\ Kept(p)'
    BY <1>0, <1>3, <2>1, <2>6 DEF At, Truncated, Done, Kept, Alone, AtSudo, files, history
  <2> QED
    BY <1>3, <2>1, <2>2, <2>3, <2>4, <2>5, <2>8, <2>9, Goes DEF Places
<1> QED
  BY <1>1, <1>2, <1>3 DEF GrepSudoFails, Installs

(* The backup is there, or is made of a file that has the password's rule. *)
LEMMA BackupKeeps ==
    ASSUME IInv, NEW p \in Runners, Backup(p)
    PROVE  IInv'
<1>0. TypeOK /\ OnlyInLocal /\ At(p)
  BY DEF IInv
<1>1. ASSUME Does(p, "backup"),
             Exists(backup),
             Go(p, "rewrite"),
             Keeps,
             UNCHANGED files
      PROVE  IInv'
  <2>1. Busy(p) /\ pc[p] = "backup" /\ UNCHANGED history
    BY <1>1 DEF Does, Busy
  <2>2. text[p] \in File /\ Holding(p, text[p])
    BY <1>1, TextAt
  <2>3. FilesOK' /\ BoundsOK'
    BY <1>0, <1>1, Bounds DEF FilesOK, TypeOK, files, Does
  <2>4. OnlyInLocal'
    BY <1>0, <1>1 DEF OnlyInLocal, files
  <2>5. overlapped \/ Sound("rewrite")'
    BY <1>1, <2>1, SoundAt DEF Sound, Readable, Loadable, Accepting, BackedUp, Restorable,
       Does, files
  <2>6. pc'[p] = "rewrite" /\ script' = script /\ before' = before
    BY <1>0, <1>1 DEF Go, TypeOK
  <2>7. text'[p] = text[p]
    BY <1>0, <2>2, HoldingText
  <2>8. InPlace(p)' /\ Prepared(p)'
    BY <1>0, <2>1, <2>6, <2>7 DEF At, InPlace, Prepared, history
  <2>9. Truncated(p)' /\ Done(p)' /\ Kept(p)'
    BY <1>0, <1>1, <2>1, <2>6 DEF At, Truncated, Done, Kept, Alone, AtSudo, files, history
  <2> QED
    BY <1>1, <2>1, <2>2, <2>3, <2>4, <2>5, <2>8, <2>9, Goes DEF Places
<1>2. ASSUME Does(p, "backup"),
             ~Exists(backup),
             backup' = <<>>,
             Go(p, "backingUp"),
             Keeps,
             UNCHANGED <<module, local, sudo>>
      PROVE  IInv'
  <2>1. Busy(p) /\ pc[p] = "backup" /\ UNCHANGED history
    BY <1>2 DEF Does, Busy
  <2>2. text[p] \in File /\ Holding(p, text[p])
    BY <1>2, TextAt
  <2>3. FilesOK' /\ BoundsOK'
    BY <1>0, <1>2, Bounds, Empty DEF FilesOK, TypeOK, Does
  <2>4. OnlyInLocal'
    BY <1>0, <1>2, Empty DEF OnlyInLocal
  <2>5. overlapped \/ Sound("backingUp")'
    BY <1>2, <2>1, SoundAt, Empty DEF Sound, Readable, Loadable, Accepting, BackedUp,
       Restorable, Does
  <2>6. pc'[p] = "backingUp" /\ script' = script /\ before' = before
    BY <1>0, <1>2 DEF Go, TypeOK
  <2>7. text'[p] = text[p]
    BY <1>0, <2>2, HoldingText
  <2>8. InPlace(p)' /\ Prepared(p)'
    BY <1>0, <2>1, <2>6, <2>7 DEF At, InPlace, Prepared, history
  <2>9. Truncated(p)' /\ Done(p)' /\ Kept(p)'
    BY <1>0, <1>2, <2>1, <2>6 DEF At, Truncated, Done, Kept, Alone, AtSudo, history
  <2> QED
    BY <1>2, <2>1, <2>2, <2>3, <2>4, <2>5, <2>8, <2>9, Goes DEF Places
<1>3. ASSUME Does(p, "backingUp"),
             backup' = Written(sudo, backup),
             Go(p, "rewrite"),
             Keeps,
             UNCHANGED <<module, local, sudo>>
      PROVE  IInv'
  <2>1. Busy(p) /\ pc[p] = "backingUp" /\ UNCHANGED history
    BY <1>3 DEF Does, Busy
  <2>2. backup' \in File /\ ~Has(backup', "face")
    BY <1>0, <1>3, WhatIsWritten DEF TypeOK, OnlyInLocal, Rule
  <2>3. Alone(p) => backup = <<>> /\ backup' = sudo
    BY <1>0, <1>3, <2>1, WhatIsWritten DEF At, Truncated, TypeOK
  <2>4. text[p] \in File /\ Holding(p, text[p])
    BY <1>3, TextAt
  <2>5. FilesOK' /\ BoundsOK'
    BY <1>0, <1>3, Bounds, <2>2 DEF FilesOK, TypeOK, Does
  <2>6. OnlyInLocal'
    BY <1>0, <1>3, <2>2 DEF OnlyInLocal
  <2>7. overlapped \/ Sound("rewrite")'
    BY <1>3, <2>1, SoundAt, <2>2, <2>3, Empty DEF Sound, Readable, Loadable, Accepting,
       BackedUp, Restorable, Does
  <2>8. pc'[p] = "rewrite" /\ script' = script /\ before' = before
    BY <1>0, <1>3 DEF Go, TypeOK
  <2>9. text'[p] = text[p]
    BY <1>0, <2>4, HoldingText
  <2>10. InPlace(p)' /\ Prepared(p)'
    BY <1>0, <2>1, <2>8, <2>9 DEF At, InPlace, Prepared, history
  <2>11. Truncated(p)' /\ Done(p)' /\ Kept(p)'
    BY <1>0, <1>3, <2>1, <2>8 DEF At, Truncated, Done, Kept, Alone, AtSudo, history
  <2> QED
    BY <1>3, <2>1, <2>4, <2>5, <2>6, <2>7, <2>10, <2>11, Goes DEF Places
<1>4. ASSUME Fails(p, "backup") \/ Fails(p, "backingUp"),
             spoilt' = spoilt \cup {"backup"},
             Go(p, "rewrite"),
             Keeps,
             UNCHANGED files
      PROVE  IInv'
  <2>1. Busy(p) /\ pc[p] \in {"backup", "backingUp"} /\ UNCHANGED history
    BY <1>4 DEF Fails, Caught, Busy
  <2>2. text[p] \in File /\ Holding(p, text[p])
    BY <1>4, TextAt
  <2>3. FilesOK' /\ BoundsOK'
    BY <1>0, <1>4, Bounds DEF FilesOK, TypeOK, files
  <2>4. OnlyInLocal'
    BY <1>0, <1>4 DEF OnlyInLocal, files
  <2>5. overlapped \/ Sound("rewrite")'
    BY <1>4, <2>1, SoundAt DEF Sound, Readable, Loadable, files
  <2>6. pc'[p] = "rewrite" /\ script' = script /\ before' = before
    BY <1>0, <1>4 DEF Go, TypeOK
  <2>7. text'[p] = text[p]
    BY <1>0, <2>2, HoldingText
  <2>8. InPlace(p)' /\ Prepared(p)'
    BY <1>0, <2>1, <2>6, <2>7 DEF At, InPlace, Prepared, history
  <2>9. Truncated(p)' /\ Done(p)' /\ Kept(p)'
    BY <1>0, <1>4, <2>1, <2>6 DEF At, Truncated, Done, Kept, Alone, AtSudo, files, history
  <2> QED
    BY <1>4, <2>1, <2>2, <2>3, <2>4, <2>5, <2>8, <2>9, Goes DEF Places
<1> QED
  BY <1>1, <1>2, <1>3, <1>4 DEF Backup

(* The new text is made, of which the development scripts make the file.   *)
LEMMA RewriteKeeps ==
    ASSUME IInv, NEW p \in Runners, Rewrite(p)
    PROVE  IInv'
<1>0. TypeOK /\ OnlyInLocal /\ At(p)
  BY DEF IInv
<1>1. ASSUME Does(p, "rewrite"),
             UNCHANGED <<module, local, backup>>,
             script[p] \in {"devInstall", "devUninstall"},
             sudo' = Rewritten(script[p], sudo),
             End(p, "ok"),
             Keeps
      PROVE  IInv'
  <2>1. Busy(p) /\ pc[p] = "rewrite" /\ UNCHANGED history
    BY <1>1 DEF Does, Busy
  <2>2. \/ sudo' = Swapped(sudo, "tid", "tidOff")
        \/ sudo' = Swapped(sudo, "tidOff", "tid")
    BY <1>1, RewrittenOf
  <2>3. /\ sudo' \in File
        /\ \A r \in {"od", "face", "junk"} : Has(sudo', r) <=> Has(sudo, r)
    BY <1>0, <2>2, SwapKeeps DEF TypeOK
  <2>4. Holding(p, <<>>)
    BY <1>1, <2>1, TextAt
  <2>5. FilesOK' /\ BoundsOK'
    BY <1>0, <1>1, Bounds, <2>3 DEF FilesOK, TypeOK, Does
  <2>6. OnlyInLocal'
    BY <1>0, <1>1, <2>3 DEF OnlyInLocal
  <2>7. overlapped \/ Sound("idle")'
    BY <1>1, <2>1, SoundAt, <2>3 DEF Sound, Readable, Loadable, Accepting, BackedUp,
       Restorable, Changes, Does
  <2> QED
    BY <1>1, <2>1, <2>4, <2>5, <2>6, <2>7, Ends
<1>2. ASSUME Does(p, "rewrite"),
             UNCHANGED <<module, local, backup, sudo>>,
             script[p] \in {"install", "uninstall"},
             Has(Rewritten(script[p], sudo), "od"),
             Holds(p, Rewritten(script[p], sudo)),
             Go(p, "openSudo")
      PROVE  IInv'
  <2>1. Busy(p) /\ pc[p] = "rewrite" /\ UNCHANGED history
    BY <1>2 DEF Does, Busy
  <2>2. script[p] = "install" =>
          /\ Rewritten(script[p], sudo) = WithInclude(sudo)
          /\ \E i \in DOMAIN sudo : IsRule(sudo[i])
    BY <1>2, RewrittenOf, Empty
  <2>3. script[p] = "uninstall" =>
          Rewritten(script[p], sudo) = Swapped(sudo, "tidOff", "tid")
    BY RewrittenOf
  <2>4. /\ Rewritten(script[p], sudo) \in File
        /\ \A r \in {"face", "junk"} : Has(Rewritten(script[p], sudo), r) => Has(sudo, r)
    BY <1>0, <1>2, <2>2, <2>3, IncludeAdded, SwapKeeps DEF TypeOK
  <2>5. /\ script[p] = "install" => Has(Rewritten(script[p], sudo), "include")
        /\ script[p] = "uninstall" => ~Has(Rewritten(script[p], sudo), "tidOff")
    BY <1>0, <2>2, <2>3, IncludeAdded, SwapKeeps DEF TypeOK
  <2>6. overlapped \/ ~Has(sudo, "junk")
    BY <2>1, SoundAt DEF Sound, Readable
  <2>7. Rewritten(script[p], sudo) \in File /\ Holding(p, Rewritten(script[p], sudo))
    BY <1>2, TextAt, <2>4
  <2>8. FilesOK' /\ BoundsOK'
    BY <1>0, <1>2, Bounds DEF FilesOK, TypeOK, Does
  <2>9. OnlyInLocal'
    BY <1>0, <1>2 DEF OnlyInLocal
  <2>10. overlapped \/ Sound("openSudo")'
    BY <1>2, <2>1, SoundAt DEF Sound, Readable, Loadable, Accepting, BackedUp, Restorable,
       Changes, Does
  <2>11. pc'[p] = "openSudo" /\ script' = script /\ before' = before
    BY <1>0, <1>2 DEF Go, TypeOK
  <2>12. text'[p] = Rewritten(script[p], sudo)
    BY <1>0, <2>7, HoldingText
  <2>13. ~Has(text'[p], "face") /\ Has(text'[p], "od")
    BY <1>0, <1>2, <2>12, <2>4 DEF OnlyInLocal
  <2>14. overlapped' \/ ~Has(text'[p], "junk")
    BY <2>1, <2>12, <2>4, <2>6 DEF history
  <2>15. /\ script'[p] = "install" => Has(text'[p], "include")
         /\ script'[p] = "uninstall" => ~Has(text'[p], "tidOff")
    BY <2>11, <2>12, <2>5
  <2>16. InPlace(p)' /\ Prepared(p)'
    <3>1. InPlace(p)'
      BY <1>2, <2>11 DEF InPlace
    <3>2. Prepared(p)'
      BY <2>11, <2>13, <2>14, <2>15 DEF Prepared
    <3> QED
      BY <3>1, <3>2
  <2>17. Truncated(p)' /\ Done(p)' /\ Kept(p)'
    BY <1>0, <1>2, <2>1, <2>11 DEF At, Truncated, Done, Kept, Alone, AtSudo, history
  <2> QED
    BY <1>2, <2>1, <2>7, <2>8, <2>9, <2>10, <2>16, <2>17, Goes DEF Places
<1>3. ASSUME Does(p, "rewrite"),
             UNCHANGED <<module, local, backup, sudo>>,
             NEW how \in {"ok", "untouched"},
             End(p, how),
             Keeps
      PROVE  IInv'
  <2>1. Busy(p) /\ pc[p] = "rewrite" /\ UNCHANGED history
    BY <1>3 DEF Does, Busy
  <2>2. Holding(p, <<>>)
    BY <1>3, <2>1, TextAt
  <2>3. FilesOK' /\ BoundsOK'
    BY <1>0, <1>3, Bounds DEF FilesOK, TypeOK, Does
  <2>4. OnlyInLocal'
    BY <1>0, <1>3 DEF OnlyInLocal
  <2>5. overlapped \/ Sound("idle")'
    BY <1>3, <2>1, SoundAt DEF Sound, Readable, Loadable, Accepting, BackedUp, Restorable,
       Changes, Does
  <2> QED
    BY <1>3, <2>1, <2>2, <2>3, <2>4, <2>5, Ends
<1>4. script[p] \in Scripts
  BY <1>0 DEF Rewrite, Does, At, InPlace, TypeOK
<1>6. CASE script[p] \in {"devInstall", "devUninstall"}
  BY <1>1, <1>6 DEF Rewrite
<1>7. CASE script[p] \in {"install", "uninstall"}
  <2>1. CASE Has(Rewritten(script[p], sudo), "od")
    BY <1>2, <1>7, <2>1 DEF Rewrite
  <2>2. CASE ~Has(Rewritten(script[p], sudo), "od")
    BY <1>3, <1>7, <2>2 DEF Rewrite
  <2> QED
    BY <2>1, <2>2
<1> QED
  BY <1>4, <1>6, <1>7 DEF Scripts

(* A command fails before anything was changed.                            *)
LEMMA RewriteFailsKeeps ==
    ASSUME IInv, NEW p \in Runners, RewriteFails(p)
    PROVE  IInv'
<1>0. TypeOK /\ OnlyInLocal /\ At(p)
  BY DEF IInv
<1>1. ASSUME Fails(p, "rewrite"),
             NEW how \in {"failed", "untouched", "ok"},
             End(p, how),
             Keeps,
             UNCHANGED <<files, spoilt>>
      PROVE  IInv'
  <2>1. Busy(p) /\ pc[p] = "rewrite" /\ UNCHANGED history
    BY <1>1 DEF Fails, Caught, Busy
  <2>2. Holding(p, <<>>)
    BY <1>1, <2>1, TextAt
  <2>3. FilesOK' /\ BoundsOK'
    BY <1>0, <1>1, Bounds DEF FilesOK, TypeOK, files
  <2>4. OnlyInLocal'
    BY <1>0, <1>1 DEF OnlyInLocal, files
  <2>5. overlapped \/ Sound("idle")'
    BY <1>1, <2>1, SoundAt DEF Sound, Readable, Loadable, Accepting, BackedUp, Restorable,
       Changes, files
  <2> QED
    BY <1>1, <2>1, <2>2, <2>3, <2>4, <2>5, Ends
<1> QED
  BY <1>1 DEF RewriteFails

(* sudo's file is truncated,                                               *)
LEMMA OpenSudoKeeps ==
    ASSUME IInv, NEW p \in Runners, OpenSudo(p)
    PROVE  IInv'
<1>0. TypeOK /\ OnlyInLocal /\ At(p)
  BY DEF IInv
<1>1. ASSUME Does(p, "openSudo"),
             sudo' = <<>>,
             Go(p, "writeSudo"),
             Keeps,
             UNCHANGED <<module, local, backup>>
      PROVE  IInv'
  <2>1. Busy(p) /\ pc[p] = "openSudo" /\ UNCHANGED history
    BY <1>1 DEF Does, Busy
  <2>2. text[p] \in File /\ Holding(p, text[p])
    BY <1>1, TextAt
  <2>3. FilesOK' /\ BoundsOK'
    BY <1>0, <1>1, Bounds, Empty DEF FilesOK, TypeOK, Does
  <2>4. OnlyInLocal'
    BY <1>0, <1>1, Empty DEF OnlyInLocal
  <2>5. overlapped \/ Sound("writeSudo")'
    BY <1>1, <2>1, SoundAt, Empty DEF Sound, Readable, Loadable, Accepting, BackedUp,
       Restorable, Changes, Does
  <2>6. pc'[p] = "writeSudo" /\ script' = script /\ before' = before
    BY <1>0, <1>1 DEF Go, TypeOK
  <2>7. text'[p] = text[p]
    BY <1>0, <2>2, HoldingText
  <2>8. InPlace(p)' /\ Prepared(p)'
    BY <1>0, <2>1, <2>6, <2>7 DEF At, InPlace, Prepared, history
  <2>9. Truncated(p)' /\ Done(p)' /\ Kept(p)'
    BY <1>0, <1>1, <2>1, <2>6 DEF At, Truncated, Done, Kept, Alone, AtSudo, history
  <2> QED
    BY <1>1, <2>1, <2>2, <2>3, <2>4, <2>5, <2>8, <2>9, Goes DEF Places
<1>2. ASSUME Fails(p, "openSudo"),
             script[p] = "install",
             Go(p, "openAgain"),
             Drops(p),
             UNCHANGED <<files, spoilt>>
      PROVE  IInv'
  <2>1. Busy(p) /\ pc[p] = "openSudo" /\ UNCHANGED history
    BY <1>2 DEF Fails, Caught, Busy
  <2>2. <<>> \in File /\ Holding(p, <<>>)
    BY <1>2, TextAt, Empty
  <2>3. FilesOK' /\ BoundsOK'
    BY <1>0, <1>2, Bounds DEF FilesOK, TypeOK, files
  <2>4. OnlyInLocal'
    BY <1>0, <1>2 DEF OnlyInLocal, files
  <2>5. overlapped \/ Sound("openAgain")'
    BY <1>2, <2>1, SoundAt DEF Sound, Readable, Loadable, Accepting, BackedUp, Restorable,
       Changes, files
  <2>6. pc'[p] = "openAgain" /\ script' = script /\ before' = before
    BY <1>0, <1>2 DEF Go, TypeOK
  <2>7. text'[p] = <<>>
    BY <1>0, <2>2, HoldingText
  <2>8. InPlace(p)' /\ Prepared(p)'
    BY <1>2, <2>6, <2>7, Empty DEF InPlace, Prepared
  <2>9. Truncated(p)' /\ Done(p)' /\ Kept(p)'
    BY <1>0, <1>2, <2>1, <2>6 DEF At, Truncated, Done, Kept, Alone, AtSudo, files, history
  <2> QED
    BY <1>2, <2>1, <2>2, <2>3, <2>4, <2>5, <2>8, <2>9, Goes DEF Places
<1>3. ASSUME Fails(p, "openSudo"),
             End(p, "noTouchID"),
             Drops(p),
             UNCHANGED <<files, spoilt>>
      PROVE  IInv'
  <2>1. Busy(p) /\ pc[p] = "openSudo" /\ UNCHANGED history
    BY <1>3 DEF Fails, Caught, Busy
  <2>2. Holding(p, <<>>)
    BY <1>3, TextAt
  <2>3. FilesOK' /\ BoundsOK'
    BY <1>0, <1>3, Bounds DEF FilesOK, TypeOK, files
  <2>4. OnlyInLocal'
    BY <1>0, <1>3 DEF OnlyInLocal, files
  <2>5. overlapped \/ Sound("idle")'
    BY <1>3, <2>1, SoundAt DEF Sound, Readable, Loadable, Accepting, BackedUp, Restorable,
       Changes, files
  <2> QED
    BY <1>3, <2>1, <2>2, <2>3, <2>4, <2>5, Ends
<1> QED
  BY <1>1, <1>2, <1>3 DEF OpenSudo, GiveUpWriting

(*   and written;                                                          *)
LEMMA WriteSudoKeeps ==
    ASSUME IInv, NEW p \in Runners, WriteSudo(p)
    PROVE  IInv'
<1>0. TypeOK /\ OnlyInLocal /\ At(p)
  BY DEF IInv
<1>1. ASSUME pc[p] = "writeSudo",
             sudo' = Written(text[p], sudo),
             spoilt' = spoilt \ {"sudo"},
             UNCHANGED <<module, local, backup, bounds, history>>,
             script[p] = "install",
             Go(p, "verify"),
             Drops(p)
      PROVE  IInv'
  <2>1. Busy(p) /\ pc[p] = "writeSudo" /\ UNCHANGED history
    BY <1>1 DEF Busy
  <2>2. sudo' \in File /\ Has(sudo', "od") /\ ~Has(sudo', "face")
    BY <1>0, <1>1, WhatIsWritten DEF TypeOK, At, Prepared, Rule
  <2>3. Alone(p) => sudo' = text[p]
    BY <1>0, <1>1, WhatIsWritten DEF TypeOK, At, Truncated
  <2>4. Has(sudo', "include")
    BY <1>0, <1>1, WhatIsWritten DEF TypeOK, At, Prepared, Rule
  <2>5. <<>> \in File /\ Holding(p, <<>>)
    BY <1>1, TextAt, Empty
  <2>6. FilesOK' /\ BoundsOK'
    BY <1>0, <1>1, Bounds, <2>2 DEF FilesOK, TypeOK
  <2>7. OnlyInLocal'
    BY <1>0, <1>1, <2>2 DEF OnlyInLocal
  <2>8. overlapped \/ Sound("verify")'
    BY <1>0, <1>1, <2>1, SoundAt, <2>3 DEF Sound, Readable, Loadable, Accepting, BackedUp,
       Restorable, Changes, At, Prepared
  <2>9. pc'[p] = "verify" /\ script' = script /\ before' = before
    BY <1>0, <1>1 DEF Go, TypeOK
  <2>10. text'[p] = <<>>
    BY <1>0, <2>5, HoldingText
  <2>11. InPlace(p)' /\ Prepared(p)'
    BY <1>1, <2>9, <2>10, Empty DEF InPlace, Prepared
  <2>12. Truncated(p)' /\ Done(p)' /\ Kept(p)'
    BY <1>0, <1>1, <2>1, <2>9, <2>4 DEF At, Truncated, Done, Kept, Alone, AtSudo, history
  <2> QED
    BY <1>1, <2>1, <2>5, <2>6, <2>7, <2>8, <2>11, <2>12, Goes DEF Places
<1>2. ASSUME pc[p] = "writeSudo",
             sudo' = Written(text[p], sudo),
             spoilt' = spoilt \ {"sudo"},
             UNCHANGED <<module, local, backup, bounds, history>>,
             End(p, "ok"),
             Drops(p)
      PROVE  IInv'
  <2>1. Busy(p) /\ pc[p] = "writeSudo" /\ UNCHANGED history
    BY <1>2 DEF Busy
  <2>2. sudo' \in File /\ Has(sudo', "od") /\ ~Has(sudo', "face")
    BY <1>0, <1>2, WhatIsWritten DEF TypeOK, At, Prepared, Rule
  <2>3. Alone(p) => sudo' = text[p]
    BY <1>0, <1>2, WhatIsWritten DEF TypeOK, At, Truncated
  <2>4. Holding(p, <<>>)
    BY <1>2, TextAt
  <2>5. FilesOK' /\ BoundsOK'
    BY <1>0, <1>2, Bounds, <2>2 DEF FilesOK, TypeOK
  <2>6. OnlyInLocal'
    BY <1>0, <1>2, <2>2 DEF OnlyInLocal
  <2>7. overlapped \/ Sound("idle")'
    BY <1>0, <1>2, <2>1, SoundAt, <2>3 DEF Sound, Readable, Loadable, Accepting, BackedUp,
       Restorable, Changes, At, Prepared
  <2> QED
    BY <1>2, <2>1, <2>4, <2>5, <2>6, <2>7, Ends
<1>3. ASSUME Fails(p, "writeSudo"),
             script[p] = "install",
             Go(p, "openAgain"),
             Drops(p),
             Spoils(p),
             UNCHANGED files
      PROVE  IInv'
  <2>1. Busy(p) /\ pc[p] = "writeSudo" /\ UNCHANGED history
    BY <1>3 DEF Fails, Caught, Busy
  <2>2. <<>> \in File /\ Holding(p, <<>>)
    BY <1>3, TextAt, Empty
  <2>3. FilesOK' /\ BoundsOK'
    BY <1>0, <1>3, Bounds DEF FilesOK, TypeOK, files, Spoils, Target
  <2>4. OnlyInLocal'
    BY <1>0, <1>3 DEF OnlyInLocal, files
  <2>5. overlapped \/ Sound("openAgain")'
    BY <1>3, <2>1, SoundAt DEF Sound, Readable, Loadable, Accepting, BackedUp, Restorable,
       Changes, files, Spoils, Target
  <2>6. pc'[p] = "openAgain" /\ script' = script /\ before' = before
    BY <1>0, <1>3 DEF Go, TypeOK
  <2>7. text'[p] = <<>>
    BY <1>0, <2>2, HoldingText
  <2>8. InPlace(p)' /\ Prepared(p)'
    BY <1>3, <2>6, <2>7, Empty DEF InPlace, Prepared
  <2>9. Truncated(p)' /\ Done(p)' /\ Kept(p)'
    BY <1>0, <1>3, <2>1, <2>6 DEF At, Truncated, Done, Kept, Alone, AtSudo, files, history
  <2> QED
    BY <1>3, <2>1, <2>2, <2>3, <2>4, <2>5, <2>8, <2>9, Goes DEF Places
<1>4. ASSUME Fails(p, "writeSudo"),
             End(p, "noTouchID"),
             Drops(p),
             Spoils(p),
             UNCHANGED files
      PROVE  IInv'
  <2>1. Busy(p) /\ pc[p] = "writeSudo" /\ UNCHANGED history
    BY <1>4 DEF Fails, Caught, Busy
  <2>2. Holding(p, <<>>)
    BY <1>4, TextAt
  <2>3. FilesOK' /\ BoundsOK'
    BY <1>0, <1>4, Bounds DEF FilesOK, TypeOK, files, Spoils, Target
  <2>4. OnlyInLocal'
    BY <1>0, <1>4 DEF OnlyInLocal, files
  <2>5. overlapped \/ Sound("idle")'
    BY <1>4, <2>1, SoundAt DEF Sound, Readable, Loadable, Accepting, BackedUp, Restorable,
       Changes, files, Spoils, Target
  <2> QED
    BY <1>4, <2>1, <2>2, <2>3, <2>4, <2>5, Ends
<1> QED
  BY <1>1, <1>2, <1>3, <1>4 DEF WriteSudo, GiveUpWriting

(*   the result is looked at,                                              *)
LEMMA VerifyKeeps ==
    ASSUME IInv, NEW p \in Runners, Verify(p)
    PROVE  IInv'
<1>0. TypeOK /\ OnlyInLocal /\ At(p)
  BY DEF IInv
<1>1. ASSUME Does(p, "verify"),
             Keeps,
             UNCHANGED files,
             End(p, "ok")
      PROVE  IInv'
  <2>1. Busy(p) /\ pc[p] = "verify" /\ UNCHANGED history
    BY <1>1 DEF Does, Busy
  <2>2. Holding(p, <<>>)
    BY <1>1, <2>1, TextAt
  <2>3. FilesOK' /\ BoundsOK'
    BY <1>0, <1>1, Bounds DEF FilesOK, TypeOK, files, Does
  <2>4. OnlyInLocal'
    BY <1>0, <1>1 DEF OnlyInLocal, files
  <2>5. overlapped \/ Sound("idle")'
    BY <1>1, <2>1, SoundAt DEF Sound, Readable, Loadable, Accepting, BackedUp, Restorable,
       Changes, Does, files
  <2> QED
    BY <1>1, <2>1, <2>2, <2>3, <2>4, <2>5, Ends
<1>2. ASSUME Does(p, "verify"),
             Keeps,
             UNCHANGED files,
             Go(p, "openAgain")
      PROVE  IInv'
  <2>1. Busy(p) /\ pc[p] = "verify" /\ UNCHANGED history
    BY <1>2 DEF Does, Busy
  <2>2. text[p] \in File /\ Holding(p, text[p])
    BY <1>2, TextAt
  <2>3. FilesOK' /\ BoundsOK'
    BY <1>0, <1>2, Bounds DEF FilesOK, TypeOK, files, Does
  <2>4. OnlyInLocal'
    BY <1>0, <1>2 DEF OnlyInLocal, files
  <2>5. overlapped \/ Sound("openAgain")'
    BY <1>2, <2>1, SoundAt DEF Sound, Readable, Loadable, Accepting, BackedUp, Restorable,
       Changes, Does, files
  <2>6. pc'[p] = "openAgain" /\ script' = script /\ before' = before
    BY <1>0, <1>2 DEF Go, TypeOK
  <2>7. text'[p] = text[p]
    BY <1>0, <2>2, HoldingText
  <2>8. InPlace(p)' /\ Prepared(p)'
    BY <1>0, <2>1, <2>6, <2>7 DEF At, InPlace, Prepared, history
  <2>9. Truncated(p)' /\ Done(p)' /\ Kept(p)'
    BY <1>0, <1>2, <2>1, <2>6 DEF At, Truncated, Done, Kept, Alone, AtSudo, files, history
  <2> QED
    BY <1>2, <2>1, <2>2, <2>3, <2>4, <2>5, <2>8, <2>9, Goes DEF Places
<1> QED
  BY <1>1, <1>2 DEF Verify

(*   and the backup put in its place, if there is one.                     *)
LEMMA RestoreKeeps ==
    ASSUME IInv, NEW p \in Runners, Restore(p)
    PROVE  IInv'
<1>0. TypeOK /\ OnlyInLocal /\ At(p)
  BY DEF IInv
<1>1. ASSUME Does(p, "openAgain"),
             sudo' = <<>>,
             Go(p, "restoring"),
             Keeps,
             UNCHANGED <<module, local, backup>>
      PROVE  IInv'
  <2>1. Busy(p) /\ pc[p] = "openAgain" /\ UNCHANGED history
    BY <1>1 DEF Does, Busy
  <2>2. text[p] \in File /\ Holding(p, text[p])
    BY <1>1, TextAt
  <2>3. FilesOK' /\ BoundsOK'
    BY <1>0, <1>1, Bounds, Empty DEF FilesOK, TypeOK, Does
  <2>4. OnlyInLocal'
    BY <1>0, <1>1, Empty DEF OnlyInLocal
  <2>5. overlapped \/ Sound("restoring")'
    BY <1>1, <2>1, SoundAt, Empty DEF Sound, Readable, Loadable, Accepting, BackedUp,
       Restorable, Changes, Does
  <2>6. pc'[p] = "restoring" /\ script' = script /\ before' = before
    BY <1>0, <1>1 DEF Go, TypeOK
  <2>7. text'[p] = text[p]
    BY <1>0, <2>2, HoldingText
  <2>8. InPlace(p)' /\ Prepared(p)'
    BY <1>0, <2>1, <2>6, <2>7 DEF At, InPlace, Prepared, history
  <2>9. Truncated(p)' /\ Done(p)' /\ Kept(p)'
    BY <1>0, <1>1, <2>1, <2>6 DEF At, Truncated, Done, Kept, Alone, AtSudo, history
  <2> QED
    BY <1>1, <2>1, <2>2, <2>3, <2>4, <2>5, <2>8, <2>9, Goes DEF Places
<1>2. ASSUME Fails(p, "openAgain"),
             End(p, "restored"),
             Keeps,
             UNCHANGED <<files, spoilt>>
      PROVE  IInv'
  <2>1. Busy(p) /\ pc[p] = "openAgain" /\ UNCHANGED history
    BY <1>2 DEF Fails, Caught, Busy
  <2>2. Holding(p, <<>>)
    BY <1>2, <2>1, TextAt
  <2>3. FilesOK' /\ BoundsOK'
    BY <1>0, <1>2, Bounds DEF FilesOK, TypeOK, files
  <2>4. OnlyInLocal'
    BY <1>0, <1>2 DEF OnlyInLocal, files
  <2>5. overlapped \/ Sound("idle")'
    BY <1>2, <2>1, SoundAt DEF Sound, Readable, Loadable, Accepting, BackedUp, Restorable,
       Changes, files
  <2> QED
    BY <1>2, <2>1, <2>2, <2>3, <2>4, <2>5, Ends
<1>3. ASSUME pc[p] = "restoring",
             End(p, "restored"),
             Keeps,
             Exists(backup),
             sudo' = Written(backup, sudo),
             spoilt' = spoilt \ {"sudo"},
             UNCHANGED <<module, local, backup, bounds, history>>
      PROVE  IInv'
  <2>1. Busy(p) /\ pc[p] = "restoring" /\ UNCHANGED history
    BY <1>3 DEF Busy
  <2>2. backup \in File /\ sudo \in File
    BY <1>0, <1>3 DEF TypeOK, Exists
  <2>3. sudo' \in File /\ ~Has(sudo', "face") /\ (Has(backup, "od") => Has(sudo', "od"))
    BY <1>0, <1>3, <2>2, WhatIsWritten DEF OnlyInLocal, Rule
  <2>4. Alone(p) => sudo' = backup
    BY <1>0, <1>3, <2>2, WhatIsWritten DEF At, Truncated
  <2>5. Holding(p, <<>>)
    BY <1>3, TextAt
  <2>6. FilesOK' /\ BoundsOK'
    BY <1>0, <1>3, Bounds, <2>3 DEF FilesOK, TypeOK
  <2>7. OnlyInLocal'
    BY <1>0, <1>3, <2>3 DEF OnlyInLocal
  <2>8. overlapped \/ Sound("idle")'
    BY <1>3, <2>1, SoundAt, <2>4 DEF Sound, Readable, Loadable, Accepting, BackedUp,
       Restorable
  <2> QED
    BY <1>3, <2>1, <2>5, <2>6, <2>7, <2>8, Ends
<1>4. ASSUME pc[p] = "restoring",
             End(p, "restored"),
             Keeps,
             ~Exists(backup),
             sudo' = sudo,
             spoilt' = spoilt \cup {"sudo"},
             UNCHANGED <<module, local, backup, bounds, history>>
      PROVE  IInv'
  <2>1. Busy(p) /\ pc[p] = "restoring" /\ UNCHANGED history
    BY <1>4 DEF Busy
  <2>2. Holding(p, <<>>)
    BY <1>4, TextAt
  <2>3. FilesOK' /\ BoundsOK'
    BY <1>0, <1>4, Bounds DEF FilesOK, TypeOK
  <2>4. OnlyInLocal'
    BY <1>0, <1>4 DEF OnlyInLocal
  <2>5. overlapped \/ Sound("idle")'
    BY <1>4, <2>1, SoundAt DEF Sound, Readable, Loadable, BackedUp, Changes
  <2> QED
    BY <1>4, <2>1, <2>2, <2>3, <2>4, <2>5, Ends
<1>5. ASSUME Fails(p, "restoring"),
             End(p, "restored"),
             Keeps,
             Spoils(p),
             UNCHANGED files
      PROVE  IInv'
  <2>1. Busy(p) /\ pc[p] = "restoring" /\ UNCHANGED history
    BY <1>5 DEF Fails, Caught, Busy
  <2>2. Holding(p, <<>>)
    BY <1>5, <2>1, TextAt
  <2>3. FilesOK' /\ BoundsOK'
    BY <1>0, <1>5, Bounds DEF FilesOK, TypeOK, files, Spoils, Target
  <2>4. OnlyInLocal'
    BY <1>0, <1>5 DEF OnlyInLocal, files
  <2>5. overlapped \/ Sound("idle")'
    BY <1>5, <2>1, SoundAt DEF Sound, Readable, Loadable, Accepting, BackedUp, Restorable,
       Changes, files, Spoils, Target
  <2> QED
    BY <1>5, <2>1, <2>2, <2>3, <2>4, <2>5, Ends
<1> QED
  BY <1>1, <1>2, <1>3, <1>4, <1>5 DEF Restore

-----------------------------------------------------------------------------
(* Starts, stops and updates.                                              *)

(* Somebody starts a script: if another is under way, both are disturbed.  *)
LEMMA BeginKeeps ==
    ASSUME IInv, NEW p \in Runners, NEW k \in Scripts, Begin(p, k)
    PROVE  IInv'
<1> DEFINE busy == {q \in Runners \ {p} : pc[q] # "idle"}
           first == IF Installs(k) THEN "copy" ELSE "readLocal"
<1>0. TypeOK /\ OnlyInLocal /\ At(p) /\ MaxStarts \in Nat
  BY BoundsAreNatural DEF IInv
<1>1. first \in {"copy", "readLocal"} /\ first \in Places /\ "none" \notin Scripts
  BY DEF Places, Scripts
<1>2. /\ pc[p] = "idle" /\ pc' = [pc EXCEPT ![p] = first]
      /\ script' = [script EXCEPT ![p] = k] /\ note' = [note EXCEPT ![p] = "none"]
      /\ before' = [before EXCEPT ![p] = [local |-> local, sudo |-> sudo]]
      /\ UNCHANGED <<module, local, sudo, backup, text, spoilt>>
  BY DEF Begin, files
<1>3. /\ disturbed' = IF busy = {} THEN disturbed \ {p} ELSE disturbed \cup busy \cup {p}
      /\ overlapped' = (overlapped \/ busy # {}) /\ unread' = unread \ {p}
  BY DEF Begin
<1>4. starts < MaxStarts /\ starts' = starts + 1 /\ UNCHANGED <<failures, stops, updates>>
  BY DEF Begin
<1> HIDE DEF first
<1>5. TypeOK'
  <2>2. BoundsOK'
    BY <1>0, <1>4 DEF TypeOK, BoundsOK
  <2>3. /\ pc' \in [Runners -> Places] /\ script' \in [Runners -> Scripts \cup {"none"}]
        /\ note' \in [Runners -> {"none", "ok", "failed", "untouched", "restored", "noTouchID"}]
        /\ before' \in [Runners -> [local : File \cup {Absent}, sudo : File \cup {Absent}]]
        /\ \A q \in Runners : pc'[q] = "idle" => text'[q] = <<>>
    BY <1>0, <1>1, <1>2 DEF TypeOK
  <2>4. disturbed' \subseteq Runners /\ overlapped' \in BOOLEAN /\ unread' \subseteq Runners
    BY <1>0, <1>3 DEF TypeOK
  <2> QED
    BY <1>0, <1>2, <2>2, <2>3, <2>4 DEF TypeOK, BoundsOK
<1>6. \A q \in Runners \ {p} : pc'[q] = pc[q] /\ script'[q] = script[q] /\ text'[q] = text[q]
  BY <1>2
<1>7. pc'[p] = first /\ script'[p] = k /\ text'[p] = <<>> /\ before'[p].local = local
  BY <1>0, <1>2 DEF TypeOK
<1>8. \A q \in Runners : Busy(q)' /\ q # p => q \in busy
  BY <1>6 DEF Busy
<1>9. Overlaps'
  <2>1. ASSUME NEW q \in Runners, NEW r \in Runners, q # r, Busy(q)', Busy(r)'
        PROVE  q \in disturbed'
    <3>1. busy # {} /\ (q = p \/ q \in busy)
      BY <2>1, <1>8
    <3> QED
      BY <3>1, <1>3
  <2>2. disturbed' # {} => overlapped'
    BY <1>3 DEF IInv, Overlaps
  <2> QED
    BY <2>1, <2>2 DEF Overlaps
<1>10. ASSUME NEW q \in Runners PROVE At(q)'
  <2>1. CASE q = p
    <3>1. InPlace(p)' /\ Prepared(p)'
      BY <1>1, <1>7, Empty DEF InPlace, Prepared, first
    <3>2. Truncated(p)' /\ Done(p)' /\ Kept(p)'
      BY <1>2, <1>7 DEF Truncated, Done, Kept, AtSudo, first
    <3> QED
      BY <2>1, <3>1, <3>2 DEF At
  <2>2. CASE q # p
    <3>1. InPlace(q)' /\ Prepared(q)'
      <4>1. InPlace(q) /\ Prepared(q)
        BY DEF IInv, At
      <4> QED
        BY <4>1, <2>2, <1>3, <1>6 DEF InPlace, Prepared
    <3>2. ~Alone(q)'
      BY <2>2, <1>3, <1>8 DEF Alone
    <3>3. Truncated(q)' /\ Done(q)' /\ Kept(q)'
      BY <3>2 DEF Truncated, Done, Kept
    <3> QED
      BY <3>1, <3>3 DEF At
  <2> QED
    BY <2>1, <2>2
<1>11. ASSUME ~overlapped', NEW step \in Places, Current(step)' PROVE Sound(step)'
  <2>1. ~overlapped /\ busy = {}
    BY <1>3, <1>11
  <2>2. Current("idle") /\ "idle" \in Places
    BY <2>1, <1>2 DEF Current, Busy, Places
  <2>3. Sound("idle")
    BY <2>1, <2>2 DEF IInv
  <2>4. step = first
    BY <2>1, <1>7, <1>8, <1>11 DEF Current, Busy
  <2> QED
    BY <1>1, <1>2, <2>3, <2>4 DEF Sound, Readable, Loadable, Accepting, BackedUp,
       Restorable, Changes
<1>12. OnlyInLocal'
  BY <1>0, <1>2 DEF OnlyInLocal
<1> QED
  BY <1>5, <1>9, <1>10, <1>11, <1>12 DEF IInv

(* A script is stopped, and leaves the file it was writing spoilt.         *)
LEMMA StopKeeps ==
    ASSUME IInv, NEW p \in Runners, Stop(p)
    PROVE  IInv'
<1>0. TypeOK /\ OnlyInLocal /\ MaxStops \in Nat
  BY BoundsAreNatural DEF IInv
<1>1. /\ Busy(p) /\ End(p, "none") /\ Drops(p) /\ spoilt' = spoilt \cup Target(pc[p])
      /\ UNCHANGED <<files, history>>
  BY DEF Stop, Busy, Spoils
<1>2. /\ Target("copying") = {"module"} /\ Target("backingUp") = {"backup"}
      /\ Target("writeSudo") = {"sudo"} /\ Target("restoring") = {"sudo"}
      /\ \A step : Target(step) \subseteq {"module", "local", "backup", "sudo"}
  BY DEF Target
<1>3. FilesOK' /\ BoundsOK'
  <2>1. FilesOK'
    BY <1>0, <1>1, <1>2 DEF TypeOK, FilesOK, files
  <2>2. BoundsOK'
    BY <1>0 DEF TypeOK, BoundsOK, Stop
  <2> QED
    BY <2>1, <2>2
<1>4. OnlyInLocal'
  BY <1>0, <1>1 DEF OnlyInLocal, files
<1>5. overlapped \/ Sound("idle")'
  <2> SUFFICES ASSUME Sound(pc[p]) PROVE Sound("idle")'
    BY <1>1, SoundAt
  <2>1. Readable' /\ Loadable("idle")'
    BY <1>1, <1>2 DEF Sound, Readable, Loadable, files
  <2>2. ASSUME "backup" \notin spoilt' PROVE "backup" \notin spoilt /\ pc[p] # "backingUp"
    BY <2>2, <1>1, <1>2
  <2>3. ASSUME "backup" \notin spoilt'
        PROVE  Accepting("idle")' /\ BackedUp("idle")' /\ Restorable("idle")'
    <3>1. Accepting(pc[p]) /\ BackedUp(pc[p]) /\ Restorable(pc[p]) /\ pc[p] # "backingUp"
      BY <2>2, <2>3 DEF Sound
    <3>2. Accepting("idle")'
      BY <3>1, <1>1, <1>2 DEF Accepting, files
    <3>3. BackedUp("idle")'
      <4>1. CASE pc[p] \in Changes
        BY <4>1, <3>1, <1>1 DEF BackedUp, files
      <4>2. CASE pc[p] \notin Changes
        <5>1. "sudo" \notin Target(pc[p])
          BY <4>2 DEF Changes, Target
        <5> QED
          BY <5>1, <3>1, <1>1 DEF BackedUp, Changes, files
      <4> QED
        BY <4>1, <4>2
    <3>4. Restorable("idle")'
      BY <3>1, <1>1 DEF Restorable, files
    <3> QED
      BY <3>2, <3>3, <3>4
  <2> QED
    BY <2>1, <2>3 DEF Sound
<1> QED
  BY <1>1, <1>3, <1>4, <1>5, TextAt, Ends

(* What macOS ships has the password's rule and none of FaceKey's.         *)
LEMMA ShippedIsGood ==
    ASSUME NEW f \in Shipped
    PROVE  f \in File /\ Has(f, "od") /\ \A r \in {"face", "junk", "tidOff"} : ~Has(f, r)
<1>1. CASE f = <<"include", "tid", "od">>
  BY <1>1 DEF File, Rule, Has
<1>2. CASE f = <<"tid", "od">>
  BY <1>2 DEF File, Rule, Has
<1> QED
  BY <1>1, <1>2 DEF Shipped

(* An update of macOS comes when no script is under way.                   *)
LEMMA UpdateKeeps ==
    ASSUME IInv, Update
    PROVE  IInv'
<1>0. TypeOK /\ OnlyInLocal /\ MaxUpdates \in Nat
  BY BoundsAreNatural DEF IInv
<1>1. /\ \A p \in Runners : pc[p] = "idle"
      /\ sudo' \in Shipped /\ spoilt' = spoilt \ {"sudo"}
      /\ UNCHANGED <<module, local, backup, script, pc, text, note, before, disturbed, overlapped,
                     unread>>
  BY DEF Update, runs, history
<1>2. sudo' \in File /\ Has(sudo', "od") /\ \A r \in {"face", "junk", "tidOff"} : ~Has(sudo', r)
  BY <1>1, ShippedIsGood
<1>3. TypeOK'
  <2>1. BoundsOK'
    BY <1>0 DEF TypeOK, BoundsOK, Update
  <2> QED
    BY <1>0, <1>1, <1>2, <2>1 DEF TypeOK, BoundsOK
<1>4. OnlyInLocal' /\ Overlaps'
  BY <1>1, <1>2 DEF IInv, OnlyInLocal, Overlaps, Busy
<1>5. ASSUME NEW p \in Runners PROVE At(p)'
  <2>1. At(p) /\ pc'[p] = "idle"
    BY <1>1 DEF IInv
  <2>2. InPlace(p)' /\ Prepared(p)'
    BY <2>1, <1>1 DEF At, InPlace, Prepared
  <2>3. Truncated(p)' /\ Done(p)' /\ Kept(p)'
    BY <2>1 DEF Truncated, Done, Kept, Alone, Busy
  <2> QED
    BY <2>2, <2>3 DEF At
<1>6. ASSUME ~overlapped', NEW step \in Places, Current(step)' PROVE Sound(step)'
  <2>1. step = "idle"
    BY <1>1, <1>6 DEF Current
  <2>2. Current("idle") /\ "idle" \in Places
    BY <1>1 DEF Current, Busy, Places
  <2>3. Sound("idle")
    BY <2>2, <1>1, <1>6 DEF IInv
  <2> QED
    BY <1>1, <1>2, <2>1, <2>3 DEF Sound, Readable, Loadable, Accepting, BackedUp, Restorable
<1> QED
  BY <1>3, <1>4, <1>5, <1>6 DEF IInv

(* Before any script ran.                                                  *)
LEMMA InitHolds ==
    ASSUME Init
    PROVE  IInv
<1>1. sudo \in File /\ Has(sudo, "od") /\ \A r \in {"face", "junk", "tidOff"} : ~Has(sudo, r)
  BY ShippedIsGood DEF Init
<1>2. local \in File \cup {Absent} /\ ~Has(local, "face") /\ ~Has(local, "junk")
  <2>1. CASE local = Absent
    BY <2>1, Empty DEF Rule
  <2>2. CASE local = <<"other">>
    BY <2>2 DEF File, Rule, Has
  <2> QED
    BY <2>1, <2>2 DEF Init
<1>3. backup = Absent /\ ~Has(backup, "face") /\ ~Has(backup, "junk")
  BY Empty DEF Init, Rule
<1>4. TypeOK
  <2>1. Unknown \in [local : File \cup {Absent}, sudo : File \cup {Absent}]
    BY DEF Unknown
  <2>2. "idle" \in Places /\ <<>> \in File
    BY Empty DEF Places
  <2>3. {MaxStarts, MaxFailures, MaxStops, MaxUpdates} \subseteq Nat
    BY BoundsAreNatural
  <2>4. starts \in 0..MaxStarts /\ failures \in 0..MaxFailures
        /\ stops \in 0..MaxStops /\ updates \in 0..MaxUpdates
    BY <2>3 DEF Init
  <2> QED
    BY <1>1, <1>2, <2>1, <2>2, <2>4 DEF TypeOK, Init
<1>5. ASSUME NEW p \in Runners PROVE At(p)
  <2>1. pc[p] = "idle" /\ script[p] = "none" /\ text[p] = <<>>
    BY DEF Init
  <2>2. InPlace(p) /\ Prepared(p)
    BY <2>1, Empty DEF InPlace, Prepared
  <2>3. Truncated(p) /\ Done(p) /\ Kept(p)
    BY <2>1 DEF Truncated, Done, Kept, Alone, Busy
  <2> QED
    BY <2>2, <2>3 DEF At
<1>6. ASSUME NEW step \in Places, Current(step) PROVE Sound(step)
  <2>1. step = "idle"
    BY <1>6 DEF Current, Init
  <2>2. module = "none" /\ spoilt = {} /\ ~Exists(backup)
    BY Empty DEF Init
  <2> QED
    BY <1>1, <1>2, <1>3, <2>1, <2>2 DEF Sound, Readable, Loadable, Accepting, BackedUp,
       Restorable, Changes
<1>7. Overlaps /\ OnlyInLocal
  BY <1>1, <1>3 DEF Init, Overlaps, OnlyInLocal, Busy
<1> QED
  BY <1>4, <1>5, <1>6, <1>7 DEF IInv

(* A step that changes nothing.                                            *)
LEMMA StutterKeeps ==
    ASSUME IInv, UNCHANGED vars
    PROVE  IInv'
  BY DEF vars, files, runs, bounds, history, IInv, TypeOK, Overlaps, OnlyInLocal, At,
     InPlace, Prepared, Truncated, Done, Kept, Alone, Busy, Current, Sound, Readable,
     Loadable, Accepting, BackedUp, Restorable

(* Every step of the scripts, of those who stop them and of macOS keeps it.*)
LEMMA NextKeeps ==
    ASSUME IInv, [Next]_vars
    PROVE  IInv'
<1>1. ASSUME NEW p \in Runners, NEW k \in Scripts, Begin(p, k) PROVE IInv'
  BY <1>1, BeginKeeps
<1>2. ASSUME NEW p \in Runners, Step(p) PROVE IInv'
  BY <1>2, CopyModuleKeeps, ReadLocalKeeps, EditLocalFailsKeeps, GrepLocalFailsKeeps,
     OpenLocalKeeps, WriteLocalKeeps, RemoveModuleKeeps, ReadSudoKeeps, GrepSudoFailsKeeps, BackupKeeps, RewriteKeeps,
     RewriteFailsKeeps, OpenSudoKeeps, WriteSudoKeeps, VerifyKeeps, RestoreKeeps DEF Step
<1>3. ASSUME NEW p \in Runners, Stop(p) PROVE IInv'
  BY <1>3, StopKeeps
<1>4. CASE Update
  BY <1>4, UpdateKeeps
<1>5. CASE UNCHANGED vars
  BY <1>5, StutterKeeps
<1> QED
  BY <1>1, <1>2, <1>3, <1>4, <1>5 DEF Next

-----------------------------------------------------------------------------
(* The theorems.                                                           *)

(* What holds in every state, for any number of runners and any bounds.    *)
THEOREM InductiveInvariant == Spec => []IInv
<1>1. Init => IInv
  BY InitHolds
<1>2. IInv /\ [Next]_vars => IInv'
  BY NextKeeps
<1> QED
  BY <1>1, <1>2, PTL DEF Spec

(* Every variable has its type: in particular, whatever is read, kept,     *)
(* rewritten or cut in two is a sequence of rules.                         *)
THEOREM TypeCorrect == Spec => []TypeOK
<1>1. IInv => TypeOK
  BY DEF IInv
<1> QED
  BY <1>1, InductiveInvariant, PTL

(* Nobody is locked out of sudo, whatever was installed, removed, updated, *)
(* stopped or failed, one script after the other, as long as no file that  *)
(* the password depends on was left half-written.                          *)
THEOREM NobodyIsLockedOut == Spec => []NoLockout
<1>1. IInv => NoLockout
  <2> SUFFICES ASSUME IInv, ~overlapped, spoilt \cap {"module", "sudo", "backup"} = {},
                      \A p \in Runners : ~Writing(pc[p])
               PROVE  PasswordWorks
    BY DEF NoLockout
  <2>1. PICK step \in Places : Current(step) /\ ~Writing(step)
    <3>1. CASE \A p \in Runners : ~Busy(p)
      BY <3>1 DEF Current, Places, Writing
    <3>2. CASE \E p \in Runners : Busy(p)
      <4>1. PICK p \in Runners : Busy(p)
        BY <3>2
      <4>2. Current(pc[p]) /\ pc[p] \in Places
        BY <4>1 DEF Current, Busy, IInv, TypeOK
      <4> QED
        BY <4>2
    <3> QED
      BY <3>1, <3>2
  <2>2. Sound(step)
    BY <2>1 DEF IInv
  <2>3. Has(sudo, "od") /\ "od" \in Chain
    BY <2>1, <2>2 DEF Sound, Accepting, Writing, Chain, Has
  <2>4. "junk" \notin Chain
    BY <2>2 DEF Sound, Readable, Chain, Has
  <2>5. "face" \in Chain => Has(local, "face")
    BY DEF IInv, OnlyInLocal, Chain, Has
  <2>6. Has(local, "face") => module = "whole"
    BY <2>1, <2>2 DEF Sound, Loadable, Writing
  <2> QED
    BY <2>3, <2>4, <2>5, <2>6 DEF PasswordWorks, Loads
<1> QED
  BY <1>1, InductiveInvariant, PTL

-----------------------------------------------------------------------------
(* How scripts end.                                                        *)

(* A script goes on or ends by a step of its own, or it is stopped.        *)
LEMMA StepsAreOwn ==
    ASSUME NEW p \in Runners, Step(p)
    PROVE  (\E step : Go(p, step)) \/ (\E how : End(p, how))
<1>1. CASE CopyModule(p) \/ ReadLocal(p) \/ EditLocalFails(p) \/ GrepLocalFails(p) \/ OpenLocal(p) \/ WriteLocal(p)
  BY <1>1 DEF CopyModule, ReadLocal, EditLocalFails, GrepLocalFails, OpenLocal, WriteLocal
<1>2. CASE RemoveModule(p) \/ ReadSudo(p) \/ GrepSudoFails(p) \/ Backup(p) \/ Verify(p) \/ Restore(p)
  BY <1>2 DEF RemoveModule, ReadSudo, GrepSudoFails, Backup, Verify, Restore
<1>3. CASE Rewrite(p) \/ RewriteFails(p)
  BY <1>3 DEF Rewrite, RewriteFails
<1>4. CASE OpenSudo(p) \/ WriteSudo(p)
  BY <1>4 DEF OpenSudo, WriteSudo, GiveUpWriting
<1> QED
  BY <1>1, <1>2, <1>3, <1>4 DEF Step

LEMMA FinishesItself ==
    ASSUME TypeOK, Next, NEW p \in Runners, Finishes(p)
    PROVE  Step(p) \/ Stop(p)
<1> SUFFICES ASSUME ~Step(p), ~Stop(p) PROVE pc'[p] # "idle"
  BY DEF Finishes
<1>1. pc[p] # "idle"
  BY DEF Finishes
<1>2. ASSUME NEW q \in Runners, NEW k \in Scripts, Begin(q, k) PROVE pc'[p] # "idle"
  BY <1>1, <1>2 DEF TypeOK, Begin
<1>3. ASSUME NEW q \in Runners, Step(q) PROVE pc'[p] = pc[p]
  <2>1. q # p
    BY <1>3
  <2> QED
    BY <2>1, <1>3, StepsAreOwn DEF TypeOK, Go, End
<1>4. ASSUME NEW q \in Runners, Stop(q) PROVE pc'[p] = pc[p]
  <2>1. q # p
    BY <1>4
  <2> QED
    BY <2>1, <1>4 DEF TypeOK, Stop, End
<1>5. CASE Update
  BY <1>1, <1>5 DEF Update, runs
<1> QED
  BY <1>1, <1>2, <1>3, <1>4, <1>5 DEF Next

(* Where a script that has nothing to complain of ends.                    *)
LEMMA EndsWellWhere ==
    ASSUME TypeOK, NEW p \in Runners, Step(p), EndsWell(p)
    PROVE  \/ pc[p] = "readSudo" /\ ~Edits(script[p], sudo) /\ UNCHANGED files
           \/ pc[p] = "readSudo" /\ script[p] # "install" /\ UNCHANGED files /\ failures' > 0
           \/ pc[p] = "verify" /\ Has(sudo, "od") /\ UNCHANGED files
           \/ pc[p] = "rewrite" /\ script[p] \in {"devInstall", "devUninstall"}
           \/ /\ pc[p] = "rewrite" /\ script[p] # "install" /\ UNCHANGED files
              /\ ~Has(Rewritten(script[p], sudo), "od") \/ failures' > 0
           \/ /\ pc[p] = "writeSudo" /\ script[p] # "install"
              /\ sudo' = Written(text[p], sudo) /\ UNCHANGED <<module, local>>
<1>1. \A step : step # "idle" => ~Go(p, step)
  BY DEF TypeOK, EndsWell, Go
<1>2. \A how : End(p, how) => how = "ok"
  BY DEF TypeOK, EndsWell, End
<1>3. pc[p] # "idle" /\ failures \in Nat
  BY BoundsAreNatural DEF TypeOK, EndsWell
<1>4. /\ ~CopyModule(p) /\ ~ReadLocal(p) /\ ~EditLocalFails(p) /\ ~GrepLocalFails(p)
      /\ ~OpenLocal(p) /\ ~WriteLocal(p)
  BY <1>1, <1>2 DEF CopyModule, ReadLocal, EditLocalFails, GrepLocalFails, OpenLocal, WriteLocal, AfterLocal
<1>5. ~RemoveModule(p) /\ ~Backup(p) /\ ~OpenSudo(p) /\ ~Restore(p)
  BY <1>1, <1>2 DEF RemoveModule, Backup, OpenSudo, Restore, GiveUpWriting
<1>6. CASE ReadSudo(p)
  <2>1. pc[p] = "readSudo" /\ UNCHANGED files
    BY <1>6 DEF ReadSudo, Does
  <2>2. ~Edits(script[p], sudo)
    BY <1>1, <1>6 DEF ReadSudo
  <2> QED
    BY <2>1, <2>2
<1>7. CASE Verify(p)
  BY <1>1, <1>7 DEF Verify, Does
<1>11. CASE GrepSudoFails(p)
  <2>1. pc[p] = "readSudo" /\ script[p] # "install" /\ failures' = failures + 1
    BY <1>1, <1>11 DEF GrepSudoFails, Fails, Caught
  <2> QED
    BY <1>3, <1>11, <2>1 DEF GrepSudoFails, files
<1>8. CASE Rewrite(p)
  <2>1. pc[p] = "rewrite" /\ UNCHANGED <<module, local, backup>>
    BY <1>8 DEF Rewrite, Does
  <2>2. CASE script[p] \in {"devInstall", "devUninstall"}
    BY <2>1, <2>2
  <2>3. CASE script[p] \notin {"devInstall", "devUninstall"}
    <3>1. /\ ~Has(Rewritten(script[p], sudo), "od") /\ UNCHANGED sudo
          /\ End(p, IF script[p] = "install" THEN "untouched" ELSE "ok")
      BY <1>1, <1>8, <2>3 DEF Rewrite
    <3>2. script[p] # "install"
      BY <3>1, <1>2
    <3> QED
      BY <2>1, <3>1, <3>2 DEF files
  <2> QED
    BY <2>2, <2>3
<1>9. CASE RewriteFails(p)
  <2>1. pc[p] = "rewrite" /\ UNCHANGED files /\ failures' = failures + 1
    BY <1>9 DEF RewriteFails, Fails, Caught
  <2>2. script[p] # "install"
    BY <1>2, <1>9 DEF RewriteFails
  <2> QED
    BY <1>3, <2>1, <2>2
<1>10. CASE WriteSudo(p)
  <2>1. pc[p] = "writeSudo"
    BY <1>10 DEF WriteSudo, Fails, Caught
  <2>2. ~GiveUpWriting(p)
    BY <1>1, <1>2 DEF GiveUpWriting
  <2>3. sudo' = Written(text[p], sudo) /\ UNCHANGED <<module, local, backup>>
    BY <1>10, <2>2 DEF WriteSudo
  <2>4. script[p] # "install"
    BY <1>1, <1>10, <2>2 DEF WriteSudo
  <2> QED
    BY <2>1, <2>3, <2>4
<1> QED
  BY <1>4, <1>5, <1>6, <1>7, <1>8, <1>9, <1>10, <1>11 DEF Step

(* A stopped script says nothing.                                          *)
LEMMA StoppedIsNotWell ==
    ASSUME TypeOK, NEW p \in Runners, Stop(p)
    PROVE  ~EndsWell(p)
  BY DEF TypeOK, Stop, End, EndsWell

(* An installation that ran alone and ended well has connected the face,   *)
(* whatever other scripts, stopped, failed or overlapping, left before it. *)
THEOREM InstallationRepairs == Spec => InstallRepairs
<1>1. ASSUME IInv, Next, NEW p \in Runners, EndsWell(p), script[p] = "install", p \notin disturbed
      PROVE  module' = "whole" /\ "face" \in Chain'
  <2>1. TypeOK /\ At(p)
    BY <1>1 DEF IInv
  <2>2. Step(p)
    BY <1>1, <2>1, FinishesItself, StoppedIsNotWell DEF Finishes, EndsWell
  <2>3. Alone(p)
    BY <1>1 DEF Alone, Busy, EndsWell
  <2>4. CASE pc[p] = "readSudo" /\ ~Edits(script[p], sudo) /\ UNCHANGED files
    <3>1. Has(sudo, "include")
      BY <2>4, <1>1, EditsOf
    <3>2. module = "whole" /\ Has(local, "face")
      BY <2>1, <2>3, <2>4, <1>1 DEF At, Done, AtSudo, Installs
    <3> QED
      BY <2>1, <2>4, <3>1, <3>2 DEF files, Chain, Has, Exists, Absent
  <2>5. CASE pc[p] = "verify" /\ Has(sudo, "od") /\ UNCHANGED files
    <3>1. Has(sudo, "include") /\ module = "whole" /\ Has(local, "face")
      BY <2>1, <2>3, <2>5, <1>1 DEF At, Done, AtSudo, Installs
    <3> QED
      BY <2>1, <2>5, <3>1 DEF files, Chain, Has, Exists, Absent
  <2> QED
    BY <1>1, <2>1, <2>2, <2>4, <2>5, EndsWellWhere
<1>2. IInv /\ [Next]_vars => [\A p \in Runners : EndsWell(p) /\ script[p] = "install"
            /\ p \notin disturbed => module' = "whole" /\ "face" \in Chain']_vars
  BY <1>1
<1> QED
  BY <1>2, InductiveInvariant, PTL DEF Spec, InstallRepairs

(* A removal that ran alone and ended well leaves no rule of FaceKey, and  *)
(* Touch ID as it was, unless a command failed or sudo's file has no rule  *)
(* for the password.                                                       *)
THEOREM RemovalUndoes == Spec => RemovalRestores
<1>1. ASSUME IInv, Next, NEW p \in Runners, EndsWell(p), script[p] = "uninstall", p \notin disturbed
      PROVE  /\ "face" \notin Chain'
             /\ Has(sudo', "tidOff") => failures' > 0 \/ ~Has(sudo', "od")
  <2>1. TypeOK /\ At(p) /\ IInv'
    BY <1>1, NextKeeps DEF IInv
  <2>2. Step(p)
    BY <1>1, <2>1, FinishesItself, StoppedIsNotWell DEF Finishes, EndsWell
  <2>3. Alone(p)
    BY <1>1 DEF Alone, Busy, EndsWell
  <2>4. ~Has(sudo', "face")
    BY <2>1 DEF IInv, OnlyInLocal
  <2>5. pc[p] \in {"readSudo", "rewrite", "writeSudo"} /\ UNCHANGED local
    BY <1>1, <2>1, <2>2, EndsWellWhere DEF At, InPlace, files
  <2>6. ~Has(local', "face")
    BY <1>1, <2>1, <2>3, <2>5 DEF At, Done, AtSudo, Installs
  <2>7. "face" \notin Chain'
    BY <2>4, <2>6 DEF Chain, Has
  <2>8. ASSUME Has(sudo', "tidOff") PROVE failures' > 0 \/ ~Has(sudo', "od")
    <3>1. CASE pc[p] = "readSudo" /\ UNCHANGED files /\ (~Edits(script[p], sudo) \/ failures' > 0)
      BY <1>1, <2>8, <3>1, EditsOf DEF files
    <3>2. CASE pc[p] = "rewrite" /\ UNCHANGED files
               /\ (~Has(Rewritten(script[p], sudo), "od") \/ failures' > 0)
      <4>1. Rewritten(script[p], sudo) = Swapped(sudo, "tidOff", "tid") /\ sudo \in File
        BY <1>1, <2>1, RewrittenOf DEF TypeOK
      <4>2. Has(Rewritten(script[p], sudo), "od") <=> Has(sudo, "od")
        BY <4>1, SwapKeeps
      <4> QED
        BY <3>2, <4>2 DEF files
    <3>3. CASE pc[p] = "writeSudo" /\ sudo' = Written(text[p], sudo)
      <4>1. sudo' = text[p]
        BY <2>1, <2>3, <3>3, WhatIsWritten DEF TypeOK, At, Truncated
      <4> QED
        BY <1>1, <2>1, <2>8, <3>3, <4>1 DEF At, Prepared
    <3> QED
      BY <1>1, <2>1, <2>2, <2>5, <3>1, <3>2, <3>3, EndsWellWhere
  <2> QED
    BY <2>7, <2>8
<1>2. IInv /\ [Next]_vars => [\A p \in Runners : EndsWell(p) /\ script[p] = "uninstall"
            /\ p \notin disturbed
          => /\ "face" \notin Chain'
             /\ Has(sudo', "tidOff") => failures' > 0 \/ ~Has(sudo', "od")]_vars
  BY <1>1
<1> QED
  BY <1>2, InductiveInvariant, PTL DEF Spec, RemovalRestores

(* A script that ends does not touch sudo_local in its last step.          *)
LEMMA LastStepLeavesLocal ==
    ASSUME TypeOK, NEW p \in Runners, Finishes(p), Step(p) \/ Stop(p)
    PROVE  local' = local /\ (pc[p] = "writeLocal" => "local" \in spoilt')
<1>1. \A step : step # "idle" => ~Go(p, step)
  BY DEF TypeOK, Finishes, Go
<1>2. \A step : pc[p] = step => Target(pc[p]) = Target(step)
  OBVIOUS
<1>3. "local" \in Target("writeLocal")
  BY DEF Target
<1>4. CASE Stop(p)
  BY <1>3, <1>4 DEF Stop, Spoils, files
<1>5. CASE \/ CopyModule(p) \/ ReadLocal(p) \/ EditLocalFails(p) \/ GrepLocalFails(p)
           \/ RemoveModule(p) \/ ReadSudo(p) \/ GrepSudoFails(p)
  BY <1>1, <1>5 DEF CopyModule, ReadLocal, EditLocalFails, GrepLocalFails, RemoveModule, ReadSudo,
                    GrepSudoFails, Does, Fails, Caught, files
<1>6. CASE OpenLocal(p) \/ WriteLocal(p)
  BY <1>1, <1>3, <1>6 DEF OpenLocal, WriteLocal, AfterLocal, Does, Fails, Caught, Spoils, files
<1>7. CASE Backup(p) \/ Rewrite(p) \/ RewriteFails(p)
  BY <1>1, <1>7 DEF Backup, Rewrite, RewriteFails, Does, Fails, Caught, files
<1>8. CASE OpenSudo(p) \/ WriteSudo(p) \/ Verify(p) \/ Restore(p)
  BY <1>1, <1>8 DEF OpenSudo, WriteSudo, Verify, Restore, Does, Fails, Caught, files
<1> QED
  BY <1>4, <1>5, <1>6, <1>7, <1>8 DEF Step

(* The rules of other software outlive every script that runs alone, unless*)
(* one was cut short while it wrote sudo_local or its grep failed.         *)
THEOREM RulesOfOthersSurvive == Spec => OthersSurvive
<1>1. ASSUME IInv, Next, NEW p \in Runners, Finishes(p), p \notin disturbed \cup unread, "local" \notin spoilt'
      PROVE  Others(local') = Others(before[p].local)
  <2>1. TypeOK /\ Kept(p)
    BY <1>1 DEF IInv, At
  <2>2. local' = local /\ pc[p] # "writeLocal"
    BY <1>1, <2>1, FinishesItself, LastStepLeavesLocal
  <2>3. Alone(p)
    BY <1>1 DEF Alone, Busy, Finishes
  <2> QED
    BY <1>1, <2>1, <2>2, <2>3 DEF Kept
<1>2. IInv /\ [Next]_vars => [\A p \in Runners : Finishes(p) /\ p \notin disturbed \cup unread
            /\ "local" \notin spoilt' => Others(local') = Others(before[p].local)]_vars
  BY <1>1
<1> QED
  BY <1>2, InductiveInvariant, PTL DEF Spec, OthersSurvive
=============================================================================
