-------------------------- MODULE FaceScan_proofs --------------------------
(***************************************************************************)
(* Proofs about the face scans, for any number of scans, any budgets, any  *)
(* number of frames and of the pieces they come in: what an OK rests on,   *)
(* whose click cancels, how late it may come, and how long a scan may take. *)
(***************************************************************************)
EXTENDS FaceScan, TLAPS

-----------------------------------------------------------------------------
(* The invariant.                                                          *)

(* Where the thread is tells what its locals hold.                         *)
LocalsAreFresh ==
  /\ pc # "idle" => scan \in Scans
  /\ pc \in {"idle", "begin"} => /\ warm = 0 /\ frames = 0
                                 /\ elapsed = 0 /\ waited = 0 /\ pieces = 0 /\ warmPieces = 0
  /\ pc \in {"idle", "begin", "warm"} => matches = 0 /\ late = 0
  /\ pc = "warm" => warm < WarmupFrames /\ frames = 0
  /\ pc \in {"top", "leave"} => waited = 0
  /\ pc = "read" => frames < MaxFrames

(* The matches the loop counts are those of this scan, and reaching the    *)
(* number required is what OK means.                                       *)
MatchesAreCounted ==
  /\ hits = matches
  /\ pc # "leave" => matches < RequiredMatches
  /\ pc = "leave" /\ verdict[scan] = "OK" => matches >= RequiredMatches

(* The loop looks at the event before each read.                           *)
EventIsLookedAt ==
  /\ late <= 1
  /\ pc = "read" => late = 0
  /\ pc # "idle" /\ late = 1 => event[scan]

(* The warm-up, and then the loop, have taken no longer than their waits.  *)
TimeIsAccounted ==
  /\ pc = "warm" => elapsed <= (warm + warmPieces + pieces) * SelectTime + waited
  /\ pc = "read" => elapsed < Budget + pieces * SelectTime + waited
  /\ pc \in {"idle", "begin", "top", "leave"} => elapsed < Budget + (pieces + 1) * SelectTime

(* A click, its line, its event and the cancellation are of one scan.      *)
ClicksAreOwn ==
  \A k \in Scans : (line[k] \/ event[k] \/ verdict[k] = "cancelled") => clicked[k]

(* A camera is on only while frames are read from it, and it is lost only  *)
(* to an exception.                                                        *)
CameraIsUsed ==
  \A k \in Scans : /\ camera[k] = "on" => k = scan /\ pc \in {"warm", "top", "read"}
                   /\ camera[k] = "lost" => verdict[k] = "exception"
                   /\ k > scan => camera[k] = "off"

IInv ==
  /\ TypeOK
  /\ LocalsAreFresh
  /\ MatchesAreCounted
  /\ EventIsLookedAt
  /\ TimeIsAccounted
  /\ ClicksAreOwn
  /\ CameraIsUsed

-----------------------------------------------------------------------------
(* Arithmetic.                                                             *)

(* One wait more lasts its time, and more waits last longer.               *)
LEMMA WaitsTakeTime ==
  ASSUME NEW n \in Nat, NEW t \in Nat
  PROVE  /\ n * t \in Nat
         /\ (n + 1) * t = n * t + t
         /\ \A m \in Nat : n <= m => n * t <= m * t
<1>1. n * t \in Nat /\ (n + 1) * t = n * t + t
  OBVIOUS
<1>2. ASSUME NEW m \in Nat, n <= m PROVE n * t <= m * t
  <2>1. PICK d \in Nat : m = n + d
    BY <1>2, m - n \in Nat
  <2>2. d * t \in Nat /\ m * t = n * t + d * t
    BY <2>1
  <2> QED
    BY <1>1, <2>2
<1> QED
  BY <1>1, <1>2

(* The constants are numbers, and so are the bounds made of them.          *)
LEMMA Numbers ==
  /\ MaxScans \in Nat \ {0} /\ WarmupFrames \in Nat \ {0} /\ MaxFrames \in Nat \ {0}
  /\ RequiredMatches \in Nat \ {0} /\ FaceBudget \in Nat \ {0} /\ LockBudget \in Nat \ {0}
  /\ SelectTime \in Nat \ {0} /\ HudLife \in Nat \ {0} /\ MaxPieces \in Nat /\ MaxPieces >= 2
  /\ MaxPieces * SelectTime \in Nat
  /\ MaxPieces * SelectTime <= (WarmupFrames + 1) * (MaxPieces * SelectTime)
  /\ (WarmupFrames + 1) * (MaxPieces * SelectTime) \in Nat
  /\ Budget \in Nat \ {0} /\ Budget <= FaceBudget + LockBudget
<1>1. /\ MaxScans \in Nat \ {0} /\ WarmupFrames \in Nat \ {0} /\ MaxFrames \in Nat \ {0}
      /\ RequiredMatches \in Nat \ {0} /\ FaceBudget \in Nat \ {0} /\ LockBudget \in Nat \ {0}
      /\ SelectTime \in Nat \ {0} /\ HudLife \in Nat \ {0} /\ MaxPieces \in Nat /\ MaxPieces >= 2
  BY FaceScanAssumption
<1>2. /\ MaxPieces * SelectTime \in Nat
      /\ MaxPieces * SelectTime <= (WarmupFrames + 1) * (MaxPieces * SelectTime)
      /\ (WarmupFrames + 1) * (MaxPieces * SelectTime) \in Nat
  <2>1. MaxPieces * SelectTime \in Nat
    BY <1>1
  <2> DEFINE frame == MaxPieces * SelectTime
  <2> HIDE DEF frame
  <2>2. (WarmupFrames + 1) * frame = WarmupFrames * frame + frame /\ WarmupFrames * frame \in Nat
    BY <1>1, <2>1, WaitsTakeTime DEF frame
  <2> QED
    BY <2>1, <2>2 DEF frame
<1>3. Budget \in Nat \ {0} /\ Budget <= FaceBudget + LockBudget
  BY <1>1 DEF Budget
<1>4. QED
  BY <1>1, <1>2, <1>3

(* The clock advances by one, and stops beyond the longest loop only.      *)
LEMMA Clock ==
  ASSUME NEW t \in Nat
  PROVE  /\ Later(t) \in Nat /\ t <= Later(t) /\ Later(t) <= t + 1
         /\ t < Budget + MaxPieces * SelectTime => Later(t) = t + 1
<1> DEFINE frame == MaxPieces * SelectTime
           all == (WarmupFrames + 1) * frame
<1>1. frame \in Nat /\ all \in Nat /\ frame <= all
  BY Numbers
<1>2. Horizon = all + FaceBudget + LockBudget
  BY DEF Horizon
<1> HIDE DEF frame, all
<1>3. t < Budget + frame => Later(t) = t + 1
  BY <1>1, <1>2, Numbers DEF Later
<1>4. Later(t) \in Nat /\ t <= Later(t) /\ Later(t) <= t + 1
  BY <1>1, <1>2, Numbers DEF Later
<1> QED
  BY <1>3, <1>4 DEF frame

(* The way out of a scan gives it its verdict, and only it.                *)
LEMMA EndFacts ==
  ASSUME TypeOK, scan \in Scans, NEW v \in Verdicts, End(v)
  PROVE  /\ pc' = "leave" /\ camera' = [camera EXCEPT ![scan] = "off"]
         /\ verdict' \in [Scans -> Verdicts]
         /\ verdict'[scan] = v
         /\ \A k \in Scans : k # scan => verdict'[k] = verdict[k]
  BY DEF TypeOK, End, Camera

-----------------------------------------------------------------------------
LEMMA InitInvariant == Init => IInv
<1> SUFFICES ASSUME Init PROVE IInv
  OBVIOUS
<1>1. TypeOK
  <2>1. /\ verdict \in [Scans -> Verdicts]
        /\ hud \in [Scans -> {"none", "scanning", "ending", "gone"}]
        /\ told \in [Scans -> {"none", "SUCCESS", "FAIL", "read"}]
        /\ line \in [Scans -> BOOLEAN] /\ event \in [Scans -> BOOLEAN]
        /\ clicked \in [Scans -> BOOLEAN]
        /\ camera \in [Scans -> {"off", "on", "lost"}]
    BY DEF Init, Verdicts
  <2>2. /\ scan \in 0..MaxScans /\ warm \in 0..WarmupFrames /\ frames \in 0..MaxFrames
        /\ matches \in 0..RequiredMatches /\ waited \in 0..SelectTime
        /\ pieces \in 0..MaxPieces /\ warmPieces \in Nat
        /\ spent \in 0..HudLife /\ elapsed \in Nat /\ hits \in Nat /\ late \in Nat
    BY Numbers DEF Init
  <2> QED
    BY <2>1, <2>2 DEF Init, TypeOK
<1>2. LocalsAreFresh /\ MatchesAreCounted /\ EventIsLookedAt /\ TimeIsAccounted /\ CameraIsUsed
  BY Numbers DEF Init, LocalsAreFresh, MatchesAreCounted, EventIsLookedAt, TimeIsAccounted, CameraIsUsed
<1>3. ClicksAreOwn
  BY DEF Init, ClicksAreOwn
<1> QED
  BY <1>1, <1>2, <1>3 DEF IInv

(* What a scan has used up by the limit of its waits.                      *)
LEMMA Waits ==
  ASSUME TypeOK
  PROVE  /\ (warm + warmPieces + pieces) * SelectTime \in Nat
         /\ (warm + warmPieces + pieces + 1) * SelectTime
              = (warm + warmPieces + pieces) * SelectTime + SelectTime
         /\ pieces * SelectTime \in Nat
         /\ (pieces + 1) * SelectTime = pieces * SelectTime + SelectTime
         /\ pieces * SelectTime <= MaxPieces * SelectTime
         /\ pieces < MaxPieces => pieces * SelectTime + SelectTime <= MaxPieces * SelectTime
         /\ 0 * SelectTime = 0 /\ (0 + 1) * SelectTime = SelectTime
<1>1. /\ pieces \in Nat /\ pieces <= MaxPieces /\ warm + warmPieces + pieces \in Nat
      /\ SelectTime \in Nat /\ MaxPieces \in Nat
  BY Numbers DEF TypeOK
<1>2. /\ pieces * SelectTime \in Nat
      /\ (pieces + 1) * SelectTime = pieces * SelectTime + SelectTime
      /\ pieces * SelectTime <= MaxPieces * SelectTime
  BY <1>1, WaitsTakeTime
<1>3. pieces < MaxPieces => pieces * SelectTime + SelectTime <= MaxPieces * SelectTime
  <2> SUFFICES ASSUME pieces < MaxPieces
               PROVE  pieces * SelectTime + SelectTime <= MaxPieces * SelectTime
    OBVIOUS
  <2>1. pieces + 1 \in Nat /\ pieces + 1 <= MaxPieces
    BY <1>1
  <2>2. (pieces + 1) * SelectTime <= MaxPieces * SelectTime
    BY <1>1, <2>1, WaitsTakeTime
  <2> QED
    BY <1>2, <2>2
<1>4. 0 * SelectTime = 0 /\ (0 + 1) * SelectTime = SelectTime
  BY <1>1
<1> DEFINE waits == warm + warmPieces + pieces
<1>5. waits * SelectTime \in Nat /\ (waits + 1) * SelectTime = waits * SelectTime + SelectTime
  <2> HIDE DEF waits
  <2> QED
    BY <1>1, WaitsTakeTime DEF waits
<1> QED
  BY <1>2, <1>3, <1>4, <1>5

(* The step of each action.                                                *)
LEMMA StepInvariant == IInv /\ [Next]_vars => IInv'
<1> SUFFICES ASSUME IInv, [Next]_vars
             PROVE  IInv'
  OBVIOUS
<1> USE DEF IInv
<1>1. CASE StartScan
  <2>1. scan' \in Scans /\ UNCHANGED <<loopVars, timeVars, camera, verdict, told, line, event, clicked>>
    BY <1>1, Numbers DEF StartScan, TypeOK, Scans
  <2>2. TimeIsAccounted'
    BY <1>1, <2>1, Waits, Numbers DEF StartScan, loopVars, timeVars, TypeOK, LocalsAreFresh, TimeIsAccounted, Budget
  <2> QED
    BY <1>1, <2>1, <2>2, Numbers DEF StartScan, loopVars, timeVars, TypeOK, LocalsAreFresh,
       MatchesAreCounted, EventIsLookedAt, ClicksAreOwn, CameraIsUsed
<1>2. CASE OpenCamera
  <2>1. scan \in Scans /\ {"FAIL", "exception"} \subseteq Verdicts /\ Budget' = Budget
    BY <1>2 DEF OpenCamera, LocalsAreFresh, Verdicts, Budget
  <2>2. \/ pc' = "warm" /\ camera' = [camera EXCEPT ![scan] = "on"] /\ UNCHANGED verdict
        \/ /\ pc' = "leave" /\ camera' = [camera EXCEPT ![scan] = "off"]
           /\ verdict' \in [Scans -> Verdicts] /\ verdict'[scan] \in {"FAIL", "exception"}
           /\ \A k \in Scans : k # scan => verdict'[k] = verdict[k]
    BY <1>2, <2>1, EndFacts DEF OpenCamera, Camera
  <2>3. TypeOK' /\ CameraIsUsed'
    BY <1>2, <2>1, <2>2, Numbers DEF OpenCamera, loopVars, timeVars, hudVars, TypeOK, LocalsAreFresh, MatchesAreCounted, CameraIsUsed
  <2>4. ClicksAreOwn'
    BY <1>2, <2>1, <2>2 DEF OpenCamera, loopVars, timeVars, hudVars, ClicksAreOwn
  <2>5. LocalsAreFresh' /\ MatchesAreCounted' /\ EventIsLookedAt'
    BY <1>2, <2>1, <2>2, Numbers DEF OpenCamera, loopVars, timeVars, hudVars, TypeOK, LocalsAreFresh, MatchesAreCounted, EventIsLookedAt
  <2>6. TimeIsAccounted'
    BY <1>2, <2>1, <2>2, Waits, Numbers DEF OpenCamera, loopVars, timeVars, TypeOK, LocalsAreFresh, TimeIsAccounted
  <2> QED
    BY <2>3, <2>4, <2>5, <2>6
<1>3. CASE Piece
  <2>1. Budget' = Budget /\ pieces + 1 \in 0..MaxPieces
    BY <1>3, Numbers DEF Piece, Budget, TypeOK
  <2>2. TimeIsAccounted'
    <3> DEFINE waits == warm + warmPieces + pieces
    <3>1. (warm + warmPieces + pieces)' = waits + 1 /\ waits + 1 = warm + warmPieces + (pieces + 1)
      BY <1>3, Numbers DEF Piece, TypeOK, loopVars
    <3>2. (waits + 1) * SelectTime = waits * SelectTime + SelectTime /\ waits * SelectTime \in Nat
      BY Waits
    <3> HIDE DEF waits
    <3>3. pc = "warm" => elapsed' <= (warm + warmPieces + pieces)' * SelectTime + waited'
      BY <1>3, <3>1, <3>2, Numbers DEF Piece, TypeOK, TimeIsAccounted, waits
    <3>4. pc = "read" => elapsed' < Budget' + pieces' * SelectTime + waited'
      BY <1>3, <2>1, Waits, Numbers DEF Piece, TypeOK, TimeIsAccounted
    <3> QED
      BY <1>3, <3>3, <3>4 DEF Piece, TimeIsAccounted
  <2> QED
    BY <1>3, <2>1, <2>2, Numbers DEF Piece, loopVars, hudVars, TypeOK, LocalsAreFresh,
       MatchesAreCounted, EventIsLookedAt, ClicksAreOwn, CameraIsUsed
<1>4. CASE WarmUp
  <2>1. /\ warm < WarmupFrames /\ warm \in Nat /\ waited \in 0..SelectTime
        /\ pieces \in Nat /\ warmPieces \in Nat /\ Budget' = Budget
    BY <1>4, Numbers DEF WarmUp, TypeOK, LocalsAreFresh, Budget
  <2>2. \/ /\ pc' = "top" /\ elapsed' = 0 /\ warmPieces' = 0
        \/ /\ pc' = "warm" /\ elapsed' = elapsed /\ warmPieces' = warmPieces + pieces
           /\ warm' < WarmupFrames
    BY <1>4 DEF WarmUp, Start, GoesOnWarming, GoTo
  <2>3. /\ warm' = warm + 1 /\ pieces' = 0 /\ waited' = 0 /\ UNCHANGED <<verdict, camera>>
        /\ UNCHANGED <<scan, kind, frames, matches, hits, late, spent, hudVars>>
    BY <1>4 DEF WarmUp, Start, GoesOnWarming, GoTo, NewRead
  <2>4. CASE pc' = "top" /\ elapsed' = 0 /\ warmPieces' = 0
    <3>1. TimeIsAccounted'
      BY <2>1, <2>3, <2>4, Waits, Numbers DEF TimeIsAccounted
    <3> QED
      BY <1>4, <2>1, <2>3, <2>4, <3>1, Numbers DEF WarmUp, hudVars, TypeOK, LocalsAreFresh,
         MatchesAreCounted, EventIsLookedAt, ClicksAreOwn, CameraIsUsed
  <2>5. CASE pc' = "warm" /\ elapsed' = elapsed /\ warmPieces' = warmPieces + pieces
              /\ warm' < WarmupFrames
    <3> DEFINE waits == warm + warmPieces + pieces
    <3>1. warm' + warmPieces' + pieces' = waits + 1
      BY <2>1, <2>3, <2>5
    <3>2. (waits + 1) * SelectTime = waits * SelectTime + SelectTime /\ waits * SelectTime \in Nat
          /\ elapsed <= waits * SelectTime + waited
      BY <1>4, Waits DEF TimeIsAccounted, WarmUp
    <3> HIDE DEF waits
    <3>3. TimeIsAccounted'
      BY <2>1, <2>3, <2>5, <3>1, <3>2, Numbers DEF TimeIsAccounted, TypeOK
    <3> QED
      BY <1>4, <2>1, <2>3, <2>5, <3>3, Numbers DEF WarmUp, hudVars, TypeOK, LocalsAreFresh,
         MatchesAreCounted, EventIsLookedAt, ClicksAreOwn, CameraIsUsed
  <2> QED
    BY <2>2, <2>4, <2>5
<1>5. CASE WarmUpRaises
  <2>1. /\ scan \in Scans /\ "exception" \in Verdicts /\ Budget' = Budget
        /\ verdict'[scan] = "exception" /\ verdict' \in [Scans -> Verdicts]
        /\ \A k \in Scans : k # scan => verdict'[k] = verdict[k]
        /\ camera' \in [Scans -> {"off", "on", "lost"}] /\ camera'[scan] = "lost"
        /\ \A k \in Scans : k # scan => camera'[k] = camera[k]
    BY <1>5 DEF WarmUpRaises, Camera, LocalsAreFresh, Verdicts, Budget, TypeOK
  <2>2. TimeIsAccounted'
    BY <1>5, <2>1, Waits, Numbers DEF WarmUpRaises, NewRead, TimeIsAccounted
  <2>3. ClicksAreOwn'
    BY <1>5, <2>1 DEF WarmUpRaises, hudVars, ClicksAreOwn
  <2>4. TypeOK' /\ LocalsAreFresh' /\ MatchesAreCounted' /\ EventIsLookedAt'
    BY <1>5, <2>1, Numbers DEF WarmUpRaises, NewRead, loopVars, hudVars, TypeOK, LocalsAreFresh,
       MatchesAreCounted, EventIsLookedAt
  <2>5. CameraIsUsed'
    <3> SUFFICES ASSUME NEW k \in Scans
                 PROVE  /\ camera'[k] = "on" => k = scan' /\ pc' \in {"warm", "top", "read"}
                        /\ camera'[k] = "lost" => verdict'[k] = "exception"
                        /\ k > scan' => camera'[k] = "off"
      BY DEF CameraIsUsed
    <3>1. /\ scan' = scan /\ scan \in Nat /\ k \in Nat
          /\ camera[k] = "on" => k = scan
          /\ camera[k] = "lost" => verdict[k] = "exception"
          /\ k > scan => camera[k] = "off"
      BY <1>5, <2>1 DEF WarmUpRaises, CameraIsUsed, Scans
    <3>2. CASE k = scan
      BY <2>1, <3>1, <3>2
    <3>3. CASE k # scan
      BY <2>1, <3>1, <3>3
    <3> QED
      BY <3>2, <3>3
  <2> QED
    BY <2>2, <2>3, <2>4, <2>5
<1>6. CASE Head
  <2>1. /\ scan \in Scans /\ {"FAIL", "cancelled"} \subseteq Verdicts
        /\ Budget' = Budget
    BY <1>6 DEF Head, LocalsAreFresh, Verdicts, Budget
  <2>2. CASE TimeIsLeft /\ ~event[scan]
    <3>1. /\ pc' = "read" /\ waited' = 0 /\ pieces' = 0 /\ elapsed < Budget /\ frames < MaxFrames
          /\ UNCHANGED <<scan, kind, loopVars, spent, elapsed, warmPieces, hudVars, verdict, camera>>
      BY <1>6, <2>2 DEF Head, GoTo, NewRead, TimeIsLeft
    <3>2. TimeIsAccounted'
      BY <2>1, <3>1, Waits, Numbers DEF TimeIsAccounted, TypeOK
    <3> QED
      BY <1>6, <2>1, <2>2, <3>1, <3>2, Numbers DEF Head, loopVars, hudVars, TypeOK,
         LocalsAreFresh, MatchesAreCounted, EventIsLookedAt, ClicksAreOwn, CameraIsUsed
  <2>3. CASE ~TimeIsLeft \/ event[scan]
    <3>1. /\ pc' = "leave" /\ camera' = [camera EXCEPT ![scan] = "off"]
          /\ verdict' \in [Scans -> Verdicts]
          /\ \/ verdict'[scan] = "FAIL"
             \/ verdict'[scan] = "cancelled" /\ event[scan]
          /\ \A k \in Scans : k # scan => verdict'[k] = verdict[k]
          /\ UNCHANGED <<waited, pieces>>
      BY <1>6, <2>1, <2>3, EndFacts DEF Head
    <3> QED
      BY <1>6, <2>1, <3>1, Numbers DEF Head, loopVars, hudVars, TypeOK,
         LocalsAreFresh, MatchesAreCounted, EventIsLookedAt, TimeIsAccounted, ClicksAreOwn,
         CameraIsUsed
  <2> QED
    BY <2>2, <2>3
<1>7. CASE ReadNothing
  <2>1. Budget' = Budget
    BY <1>7 DEF ReadNothing, Budget
  <2>2. TimeIsAccounted'
    BY <1>7, <2>1, Waits, Numbers DEF ReadNothing, GoTo, TypeOK, TimeIsAccounted
  <2> QED
    BY <1>7, <2>1, <2>2, Numbers DEF ReadNothing, GoTo, loopVars, hudVars, TypeOK, LocalsAreFresh,
       MatchesAreCounted, EventIsLookedAt, TimeIsAccounted, ClicksAreOwn, CameraIsUsed
<1>8. CASE FrameDiffers
  <2>1. Budget' = Budget
    BY <1>8 DEF FrameDiffers, Budget
  <2>2. TimeIsAccounted'
    BY <1>8, <2>1, Waits, Numbers DEF FrameDiffers, GoTo, TypeOK, TimeIsAccounted
  <2> QED
    BY <1>8, <2>1, <2>2, Numbers DEF FrameDiffers, GoTo, hudVars, TypeOK, LocalsAreFresh,
       MatchesAreCounted, EventIsLookedAt, TimeIsAccounted, ClicksAreOwn, CameraIsUsed
<1>9. CASE FrameMatches
  <2>1. /\ scan \in Scans /\ "OK" \in Verdicts
        /\ Budget' = Budget
    BY <1>9 DEF FrameMatches, LocalsAreFresh, Verdicts, Budget
  <2>2. CASE matches' >= RequiredMatches
    <3>1. /\ pc' = "leave" /\ camera' = [camera EXCEPT ![scan] = "off"] /\ verdict' \in [Scans -> Verdicts]
          /\ verdict'[scan] = "OK"
          /\ \A k \in Scans : k # scan => verdict'[k] = verdict[k]
      BY <1>9, <2>1, <2>2, EndFacts DEF FrameMatches
    <3>2. TypeOK' /\ CameraIsUsed'
      <4>1. /\ frames' \in 0..MaxFrames /\ matches' \in 0..RequiredMatches /\ waited' \in 0..SelectTime
            /\ hits' \in Nat /\ late' \in Nat
        BY <1>9, <2>1, Numbers DEF FrameMatches, TypeOK, LocalsAreFresh, MatchesAreCounted
      <4> QED
        BY <1>9, <3>1, <4>1 DEF FrameMatches, hudVars, TypeOK, CameraIsUsed
    <3>3. ClicksAreOwn'
      BY <1>9, <2>1, <2>2, <3>1 DEF FrameMatches, hudVars, ClicksAreOwn
    <3>4. LocalsAreFresh' /\ MatchesAreCounted' /\ EventIsLookedAt'
      BY <1>9, <2>1, <2>2, <3>1, Numbers DEF FrameMatches, hudVars, TypeOK, LocalsAreFresh, MatchesAreCounted, EventIsLookedAt
    <3>5. TimeIsAccounted'
      BY <1>9, <2>1, <3>1, Waits, Numbers DEF FrameMatches, TypeOK, TimeIsAccounted
    <3> QED
      BY <3>2, <3>3, <3>4, <3>5
  <2>3. CASE ~(matches' >= RequiredMatches)
    <3>1. TimeIsAccounted'
      BY <1>9, <2>1, <2>3, Waits, Numbers DEF FrameMatches, GoTo, TypeOK, TimeIsAccounted
    <3> QED
      BY <1>9, <2>1, <2>3, <3>1, Numbers DEF FrameMatches, GoTo, hudVars, TypeOK, LocalsAreFresh,
         MatchesAreCounted, EventIsLookedAt, ClicksAreOwn, CameraIsUsed
  <2> QED
    BY <2>2, <2>3
<1>10. CASE FrameRaises
  <2>1. /\ scan \in Scans /\ "exception" \in Verdicts
        /\ Budget' = Budget
    BY <1>10 DEF FrameRaises, LocalsAreFresh, Verdicts, Budget
  <2>2. /\ pc' = "leave" /\ camera' = [camera EXCEPT ![scan] = "off"] /\ verdict' \in [Scans -> Verdicts]
        /\ verdict'[scan] = "exception"
        /\ \A k \in Scans : k # scan => verdict'[k] = verdict[k]
    BY <1>10, <2>1, EndFacts DEF FrameRaises
  <2>3. TypeOK' /\ CameraIsUsed'
    <3>1. frames' \in 0..MaxFrames /\ waited' \in 0..SelectTime
      BY <1>10, Numbers DEF FrameRaises, TypeOK, LocalsAreFresh
    <3> QED
      BY <1>10, <2>2, <3>1 DEF FrameRaises, hudVars, TypeOK, CameraIsUsed
  <2>4. ClicksAreOwn'
    BY <1>10, <2>1, <2>2 DEF FrameRaises, hudVars, ClicksAreOwn
  <2>5. LocalsAreFresh' /\ MatchesAreCounted' /\ EventIsLookedAt'
    BY <1>10, <2>1, <2>2, Numbers DEF FrameRaises, hudVars, TypeOK, LocalsAreFresh, MatchesAreCounted, EventIsLookedAt
  <2>6. TimeIsAccounted'
    BY <1>10, <2>1, <2>2, Waits, Numbers DEF FrameRaises, TypeOK, TimeIsAccounted
  <2> QED
    BY <2>3, <2>4, <2>5, <2>6
<1>11. CASE Leave
  <2>1. Budget' = Budget
    BY <1>11 DEF Leave, Budget
  <2>2. TimeIsAccounted'
    BY <1>11, <2>1, Waits, Numbers DEF Leave, NewRead, TimeIsAccounted
  <2>3. CameraIsUsed' /\ ClicksAreOwn'
    BY <1>11 DEF Leave, ClicksAreOwn, CameraIsUsed
  <2>4. LocalsAreFresh' /\ MatchesAreCounted' /\ EventIsLookedAt'
    BY <1>11, Numbers DEF Leave, NewRead, Locals, LocalsAreFresh, MatchesAreCounted, EventIsLookedAt
  <2>5. TypeOK'
    <3>1. told' \in [Scans -> {"none", "SUCCESS", "FAIL", "read"}]
      BY <1>11 DEF Leave, TypeOK
    <3> QED
      BY <1>11, <3>1, Numbers DEF Leave, NewRead, Locals, TypeOK
  <2> QED
    BY <2>2, <2>3, <2>4, <2>5
<1>12. CASE Tick
  <2>1. /\ waited + 1 \in 0..SelectTime /\ elapsed \in Nat /\ pieces < MaxPieces
        /\ Budget' = Budget
    BY <1>12, Numbers DEF Tick, TypeOK, Budget
  <2>2. spent' \in 0..HudLife /\ elapsed' \in Nat /\ elapsed' <= elapsed + 1
    BY <1>12, <2>1, Clock, Numbers DEF Tick, TypeOK
  <2>3. TimeIsAccounted'
    <3> DEFINE waits == (warm + warmPieces + pieces) * SelectTime
               wait  == pieces * SelectTime
    <3>1. waits' = waits /\ wait' = wait /\ waits \in Nat /\ wait \in Nat
      BY <1>12, Waits DEF Tick, loopVars
    <3>2. /\ pc = "warm" => elapsed <= waits + waited
          /\ pc = "read" => elapsed < Budget + wait + waited
      BY DEF TimeIsAccounted
    <3>3. waited' = waited + 1 /\ waited \in Nat /\ pc' = pc
      BY <1>12, Numbers DEF Tick, TypeOK
    <3>4. pc \in {"warm", "read"}
      BY <1>12 DEF Tick
    <3> HIDE DEF waits, wait
    <3>5. /\ pc' = "warm" => elapsed' <= waits' + waited'
          /\ pc' = "read" => elapsed' < Budget' + wait' + waited'
      BY <2>1, <2>2, <3>1, <3>2, <3>3, Numbers
    <3> QED
      BY <3>3, <3>4, <3>5 DEF TimeIsAccounted, waits, wait
  <2>4. TypeOK'
    BY <1>12, <2>1, <2>2 DEF Tick, loopVars, hudVars, TypeOK
  <2> QED
    BY <1>12, <2>3, <2>4 DEF Tick, loopVars, hudVars, LocalsAreFresh,
       MatchesAreCounted, EventIsLookedAt, ClicksAreOwn, CameraIsUsed
<1>13. ASSUME NEW k \in Scans, Capsule(k)
       PROVE  IInv'
  <2>1. /\ UNCHANGED <<scan, pc, kind, loopVars, timeVars, camera, verdict>>
        /\ hud' \in [Scans -> {"none", "scanning", "ending", "gone"}]
        /\ told' \in [Scans -> {"none", "SUCCESS", "FAIL", "read"}]
        /\ line' \in [Scans -> BOOLEAN] /\ event' \in [Scans -> BOOLEAN]
        /\ clicked' \in [Scans -> BOOLEAN]
    BY <1>13 DEF Capsule, Click, Watch, HudHears, HudEnds, HudTimesOut, TypeOK
  <2>2. ClicksAreOwn' /\ \A j \in Scans : event[j] => event'[j]
    BY <1>13 DEF Capsule, Click, Watch, HudHears, HudEnds, HudTimesOut, TypeOK, ClicksAreOwn
  <2> QED
    BY <2>1, <2>2 DEF loopVars, timeVars, TypeOK, LocalsAreFresh, MatchesAreCounted,
       EventIsLookedAt, TimeIsAccounted, CameraIsUsed, Budget
<1>14. CASE UNCHANGED vars
  BY <1>14 DEF vars, loopVars, timeVars, hudVars, TypeOK, LocalsAreFresh, MatchesAreCounted,
     EventIsLookedAt, TimeIsAccounted, ClicksAreOwn, CameraIsUsed, Budget
<1> QED
  BY <1>1, <1>2, <1>3, <1>4, <1>5, <1>6, <1>7, <1>8, <1>9, <1>10, <1>11, <1>12, <1>13, <1>14
     DEF Next, Thread, Reading

(* IInv is an invariant of every behaviour of the scans.                   *)
THEOREM InductiveInvariant == Spec => []IInv
  BY InitInvariant, StepInvariant, PTL DEF Spec

-----------------------------------------------------------------------------
(* Every variable keeps its type; in particular the loop never counts a    *)
(* match or a frame past its limit (faceid/daemon.py:243).                 *)
THEOREM TypeCorrect == Spec => []TypeOK
<1>1. IInv => TypeOK
  BY DEF IInv
<1> QED
  BY <1>1, InductiveInvariant, PTL

(* OK is said only of a scan that itself saw the matching frames.          *)
THEOREM EarnedVerdicts == Spec => []VerdictIsEarned
<1>1. IInv => VerdictIsEarned
  BY DEF IInv, MatchesAreCounted, VerdictIsEarned
<1> QED
  BY <1>1, InductiveInvariant, PTL

(* A scan is cancelled by a click on its own capsule and by no other.      *)
THEOREM OwnCancellation == Spec => []CancelIsOwn
<1>1. IInv => CancelIsOwn
  BY DEF IInv, ClicksAreOwn, CancelIsOwn
<1> QED
  BY <1>1, InductiveInvariant, PTL

(* At most one frame is examined after the event was set.                  *)
THEOREM PromptCancellation == Spec => []CancelIsPrompt
<1>1. IInv => CancelIsPrompt
  BY DEF IInv, EventIsLookedAt, CancelIsPrompt
<1> QED
  BY <1>1, InductiveInvariant, PTL

(* The loop overruns its budget by the waits of one read at most, and the  *)
(* warm-up lasts the waits of its reads, whatever the helper sends and     *)
(* however slowly (faceid/daemon.py:244, faceid/camera.py:29).             *)
THEOREM BoundedScans == Spec => []ScanIsBounded
<1>1. ASSUME IInv PROVE ScanIsBounded
  <2> DEFINE n == warm + warmPieces + pieces
  <2>1. /\ warm + 1 + warmPieces + pieces = n + 1 /\ elapsed \in Nat /\ waited \in Nat
        /\ waited <= SelectTime
        /\ pc \in {"idle", "begin", "warm", "top", "read", "leave"}
    BY <1>1, Numbers DEF IInv, TypeOK
  <2>2. /\ n * SelectTime \in Nat /\ (n + 1) * SelectTime = n * SelectTime + SelectTime
        /\ pieces * SelectTime \in Nat
        /\ (pieces + 1) * SelectTime = pieces * SelectTime + SelectTime
    BY <1>1, Waits DEF IInv
  <2>3. /\ pc = "warm" => elapsed <= n * SelectTime + waited
        /\ pc = "read" => elapsed < Budget + pieces * SelectTime + waited
        /\ pc \in {"idle", "begin", "top", "leave"} => elapsed < Budget + (pieces + 1) * SelectTime
    BY <1>1 DEF IInv, TimeIsAccounted
  <2> HIDE DEF n
  <2>4. pc = "warm" => elapsed <= (n + 1) * SelectTime
    BY <2>1, <2>2, <2>3, Numbers
  <2>5. pc # "warm" => elapsed < Budget + (pieces + 1) * SelectTime
    BY <2>1, <2>2, <2>3, Numbers
  <2> QED
    BY <2>1, <2>4, <2>5 DEF ScanIsBounded
<1> QED
  BY <1>1, InductiveInvariant, PTL

(* A camera is on only during its own scan and while frames are read; one  *)
(* that nobody ended was lost to an exception, and to no other way out     *)
(* (faceid/daemon.py:233, 269).                                            *)
THEOREM CameraReleased == Spec => []CameraIsUsed
<1>1. IInv => CameraIsUsed
  BY DEF IInv
<1> QED
  BY <1>1, InductiveInvariant, PTL

=============================================================================
