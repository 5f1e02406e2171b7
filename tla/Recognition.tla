---------------------------- MODULE Recognition ----------------------------
(***************************************************************************)
(* What the engine computes: faceid/recognizer.py, the filter of           *)
(* faceid/enroll.py and the diagnosis of faceid/diag.py.                   *)
(*                                                                         *)
(* An embedding is a vector of the plane with integer coordinates, in the  *)
(* place of SFace's 128 floating-point ones.  A similarity is the signed   *)
(* square of the cosine in ten-thousandths, which orders vectors as the    *)
(* cosine does and needs no root; the thresholds are given likewise        *)
(* (0.36 is 1296).  A frame is the sequence of the faces that were         *)
(* detected in it; a read that failed is None.                             *)
(***************************************************************************)
EXTENDS Integers, Sequences, SequencesExt

CONSTANTS
    None,               \* Python's None
    CosineThreshold,    \* COSINE_THRESHOLD of the daemon
    MinCos, MinKeep,    \* the defaults of _filter_outliers
    MinFaceSize,        \* MIN_FACE_SIZE
    GoodScore, FairScore    \* the limits of the diagnosis

Vectors == Int \X Int
Faces == [w : Nat, h : Nat, of : Vectors]
Frames == Seq(Faces)
Files == [row : Vectors] \cup [rows : Seq(Vectors)]

ASSUME RecognitionAssumption ==
    /\ None \notin Vectors \cup Seq(Vectors) \cup Frames \cup Files
    /\ CosineThreshold \in Int
    /\ {GoodScore, FairScore} \subseteq Nat /\ FairScore <= GoodScore
    /\ MinCos \in Int /\ MinKeep \in Nat /\ MinFaceSize \in Nat

----------------------------------------------------------------------------
(* recognizer.py *)

Dot(a, b) == a[1] * b[1] + a[2] * b[2]
Add(a, b) == <<a[1] + b[1], a[2] + b[2]>>

\* FaceEngine.cosine.  The 1e-9 of the denominator makes it 0 for a null vector.
Cosine(a, b) ==
    LET norms == Dot(a, a) * Dot(b, b)
        square == (Dot(a, b) * Dot(a, b) * 10000) \div norms
    IN  IF norms = 0 THEN 0 ELSE IF Dot(a, b) < 0 THEN -square ELSE square

Area(face) == face.w * face.h

\* FaceEngine.largest_face: argmax takes the first of equal ones.
LargestFace(faces) ==
    IF faces = <<>> THEN None
    ELSE faces[CHOOSE i \in DOMAIN faces :
                 /\ \A j \in DOMAIN faces : Area(faces[j]) <= Area(faces[i])
                 /\ \A j \in 1 .. i - 1 : Area(faces[j]) < Area(faces[i])]

\* FaceEngine.frame_feature: the embedding, and the face it is about.
FrameFeature(faces) ==
    LET face == LargestFace(faces)
    IN  [face |-> face,
         feat |-> IF face = None THEN None
                  ELSE IF face.w < MinFaceSize \/ face.h < MinFaceSize THEN None
                  ELSE face.of]

\* The cosines -1, with which best_match begins, and 1.
Lowest == -10000
Highest == 10000

\* best_match, vector by vector.
BestMatch(feat, enrolled) ==
    LET best[k \in 0 .. Len(enrolled)] ==
            IF k = 0 THEN Lowest
            ELSE IF Cosine(feat, enrolled[k]) > best[k - 1] THEN Cosine(feat, enrolled[k])
            ELSE best[k - 1]
    IN  best[Len(enrolled)]

Accepts(enrolled, feat) == BestMatch(feat, enrolled) >= CosineThreshold

\* load_embeddings: a file may hold one vector in place of rows of them.
LoadEmbeddings(stored) ==
    IF stored = None THEN None
    ELSE IF "row" \in DOMAIN stored THEN <<stored.row>> ELSE stored.rows

\* FaceEngine.__init__ raises FileNotFoundError unless both files are there.
FaceEngine(models) == {"yunet", "sface"} \subseteq models

\* selftest.main: the models load, and a feature has its dimension and is like itself.
SelfTest(models, feature) ==
    FaceEngine(models) /\ Len(feature) = 2 /\ Cosine(feature, feature) = Highest

----------------------------------------------------------------------------
(* enroll.py *)

\* The similarity of a sample with the mean of the others (the sum has its direction).
Score(samples, i) ==
    LET sum[k \in 0 .. Len(samples)] ==
            IF k = 0 THEN <<0, 0>>
            ELSE IF k = i THEN sum[k - 1] ELSE Add(sum[k - 1], samples[k])
    IN  Cosine(samples[i], sum[Len(samples)])

Orders_Ascending(scores) ==
    {order \in SetToSeqs(DOMAIN scores) :
        \A i, j \in DOMAIN order : i < j => scores[order[i]] <= scores[order[j]]}

\* np.argsort(-scores): the order of equal scores is not determined.
Orders(scores) ==
    {order \in SetToSeqs(DOMAIN scores) :
        \A i, j \in DOMAIN order : i < j => scores[order[i]] >= scores[order[j]]}

\* _filter_outliers: the indices that may be kept, sorted.
FilterOutliers(samples) ==
    LET scores == [i \in DOMAIN samples |-> Score(samples, i)]
        close == {i \in DOMAIN samples : scores[i] >= MinCos}
        Kept(order) == IF Cardinality(close) >= MinKeep THEN close
                       ELSE {order[k] : k \in DOMAIN order \cap 1 .. MinKeep}
    IN  {kept \in UNION {SetToSeqs(Kept(order)) : order \in Orders(scores)} :
            \A j, k \in DOMAIN kept : j < k => kept[j] < kept[k]}

Rows(samples, kept) == [k \in DOMAIN kept |-> samples[kept[k]]]

Stacked_Last(existing, rows, append) == rows

\* main, once the samples are there: what is saved, given the kept rows.
Stacked(existing, rows, append) ==
    IF append /\ existing # None /\ existing # <<>> THEN existing \o rows ELSE rows

----------------------------------------------------------------------------
(* diag.py *)

\* enrollment_health: the two enrolled vectors that are least alike.
WorstPair(enrolled) ==
    LET rows == DOMAIN enrolled
        alike == {Cosine(enrolled[p[1]], enrolled[p[2]]) : p \in {q \in rows \X rows : q[1] < q[2]}}
    IN  CHOOSE worst \in alike \cup {Highest} : \A s \in alike : worst <= s

\* The loop of main: the score of each frame that has a usable face.
Scores(reads, enrolled) ==
    LET Usable(r) == r # None /\ FrameFeature(r).feat # None
    IN  [k \in {n \in DOMAIN reads : Usable(reads[n])} |->
            BestMatch(FrameFeature(reads[k]).feat, enrolled)]

Advice_FairFirst(scores) ==
    LET Reaches(limit) == \E k \in DOMAIN scores : scores[k] >= limit
    IN  CASE DOMAIN scores = {} -> "no face"
          [] Reaches(FairScore) -> "good"
          [] OTHER -> "low"

Advice(scores) ==
    LET Reaches(limit) == \E k \in DOMAIN scores : scores[k] >= limit
    IN  CASE DOMAIN scores = {} -> "no face"
          [] Reaches(GoodScore) -> "good"
          [] ~Reaches(GoodScore) /\ Reaches(FairScore) -> "fair"
          [] OTHER -> "low"

\* main: its exit code, what it counts and what it advises; "threshold" is the
\* COSINE_THRESHOLD of its own process.
Diagnosis(threshold, models, stored, camera, reads) ==
    LET enrolled == LoadEmbeddings(stored)
        scores == Scores(reads, enrolled)
        Told(code, told) == [code |-> code, told |-> told]
    IN  IF ~FaceEngine(models) \/ enrolled = None THEN Told(1, None)
        ELSE IF ~camera THEN Told(2, None)
        ELSE Told(0, [frames |-> Cardinality({k \in DOMAIN reads : reads[k] # None}),
                      faces |-> Cardinality(DOMAIN scores),
                      passed |-> Cardinality({k \in DOMAIN scores : scores[k] >= threshold}),
                      worst |-> WorstPair(enrolled),
                      advice |-> Advice(scores)])
=============================================================================
