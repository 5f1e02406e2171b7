------------------------------ MODULE FaceScan ------------------------------
(***************************************************************************)
(* One face scan after another, as the daemon's thread runs them           *)
(* (verify_face, verify_lock and _verify_face_camera in faceid/daemon.py), *)
(* with the camera helper it reads frames from (faceid/camera.py), the     *)
(* capsule it shows (helpers/faceid-hud.swift) and the thread that watches *)
(* the capsule for a click.                                                *)
(*                                                                         *)
(* Each scan has its own capsule, its own watcher and its own event, all   *)
(* of which may outlive it.  Time is counted in seconds, scan by scan: the *)
(* wait for a piece of a frame takes any time up to SelectTime, everything *)
(* else none.  A frame comes in any number of pieces, each of which gives  *)
(* the helper the whole of that time again: a read has no limit of its     *)
(* own.  It gives no frame when the helper is slow, dead or out of step    *)
(* with its framing; which of these it is makes no difference to the loop. *)
(***************************************************************************)
EXTENDS Naturals

CONSTANTS
    MaxScans,           \* bound on the number of scans
    WarmupFrames,       \* reads thrown away at most (8)
    MaxFrames,          \* frames examined at most (300)
    RequiredMatches,    \* frames that must match (2)
    FaceBudget,         \* budget of a scan for sudo or an application (8 s)
    LockBudget,         \* budget of a scan at the lock screen (5 s)
    SelectTime,         \* longest wait for a piece of a frame (1.5 s)
    MaxPieces,          \* pieces of a frame: header and payload, byte by byte (8 000 004)
    HudLife             \* a capsule closes itself after this time (20 s)

ASSUME FaceScanAssumption ==
    /\ {MaxScans, WarmupFrames, MaxFrames, RequiredMatches} \subseteq Nat \ {0}
    /\ {FaceBudget, LockBudget, SelectTime, HudLife} \subseteq Nat \ {0}
    /\ MaxPieces \in Nat /\ MaxPieces >= 2

VARIABLES
    scan,           \* number of the scan in hand, or of the last one
    pc,             \* where the daemon's thread is in it
    kind,           \* "face" or "lock"
    warm,           \* frames read by _adaptive_warmup
    frames, matches,
    spent,          \* seconds since the scan began, up to HudLife
    elapsed,        \* seconds since the warm-up began, or since t0, its end
    waited,         \* seconds since the last piece of the current read
    pieces,         \* pieces it, or the last one, has got
    camera,         \* the helper of each scan, "lost" if nobody will end it
    verdict,        \* how each scan ended
    hud,            \* the capsule of each scan
    told,           \* what was written to it
    line,           \* its "CANCEL" is in the pipe
    event,          \* its cancellation event is set
    \* History, read by the properties only.
    clicked,        \* the user clicked it
    warmPieces,     \* pieces the earlier reads of the warm-up got
    hits,           \* frames of the scan in hand that matched
    late            \* and those examined after its event was set

Scans == 1..MaxScans

timeVars == <<spent, elapsed, waited, pieces, warmPieces>>
loopVars == <<warm, frames, matches, hits, late>>
hudVars == <<hud, told, line, event, clicked>>
vars == <<scan, pc, kind, loopVars, timeVars, camera, verdict, hudVars>>

Verdicts == {"none", "OK", "FAIL", "cancelled", "exception"}

TypeOK ==
    /\ scan \in 0..MaxScans
    /\ pc \in {"idle", "begin", "warm", "top", "read", "leave"}
    /\ kind \in {"face", "lock"}
    /\ warm \in 0..WarmupFrames /\ frames \in 0..MaxFrames
    /\ matches \in 0..RequiredMatches
    /\ spent \in 0..HudLife /\ elapsed \in Nat /\ waited \in 0..SelectTime
    /\ pieces \in 0..MaxPieces /\ warmPieces \in Nat
    /\ camera \in [Scans -> {"off", "on", "lost"}]
    /\ verdict \in [Scans -> Verdicts]
    /\ hud \in [Scans -> {"none", "scanning", "ending", "gone"}]
    /\ told \in [Scans -> {"none", "SUCCESS", "FAIL", "read"}]
    /\ line \in [Scans -> BOOLEAN] /\ event \in [Scans -> BOOLEAN]
    /\ clicked \in [Scans -> BOOLEAN]
    /\ hits \in Nat /\ late \in Nat

Init ==
    /\ scan = 0 /\ pc = "idle" /\ kind = "face"
    /\ warm = 0 /\ frames = 0 /\ matches = 0
    /\ spent = 0 /\ elapsed = 0 /\ waited = 0 /\ pieces = 0 /\ warmPieces = 0
    /\ camera = [k \in Scans |-> "off"]
    /\ verdict = [k \in Scans |-> "none"]
    /\ hud = [k \in Scans |-> "none"]
    /\ told = [k \in Scans |-> "none"]
    /\ line = [k \in Scans |-> FALSE]
    /\ event = [k \in Scans |-> FALSE]
    /\ clicked = [k \in Scans |-> FALSE]
    /\ hits = 0 /\ late = 0

Budget == IF kind = "lock" THEN LockBudget ELSE FaceBudget

-----------------------------------------------------------------------------
(* The daemon's thread.                                                    *)

(* The locals of _verify_face_camera, which a scan begins afresh.          *)
Locals_KeepMatches == warm' = 0 /\ frames' = 0 /\ matches' = matches

Locals == warm' = 0 /\ frames' = 0 /\ matches' = 0

(* verify_face / verify_lock: the capsule is started unless it is turned   *)
(* off, missing or fails to start.                                         *)
StartScan ==
    /\ pc = "idle" /\ scan < MaxScans
    /\ scan' = scan + 1
    /\ kind' \in {"face", "lock"}
    /\ pc' = "begin"
    /\ \E shown \in {"scanning", "none"} : hud' = [hud EXCEPT ![scan'] = shown]
    /\ UNCHANGED <<loopVars, timeVars, camera, verdict, told, line, event, clicked>>

Camera(state) == camera' = [camera EXCEPT ![scan] = state]

(* The scan has ended one way or another; the camera is released on the    *)
(* way out of the loop, whatever the way ("finally").                      *)
End(v) ==
    /\ pc' = "leave"
    /\ verdict' = [verdict EXCEPT ![scan] = v]
    /\ Camera("off")

GoTo(p) == pc' = p /\ UNCHANGED <<verdict, camera>>

(* A read begins: nothing of its frame is there.                           *)
NewRead == waited' = 0 /\ pieces' = 0

(* Before the camera: reload the enrolment, which may raise, and give up   *)
(* when nobody is enrolled or the helper does not start.                   *)
OpenCamera ==
    /\ pc = "begin"
    /\ \/ pc' = "warm" /\ Camera("on") /\ UNCHANGED verdict
       \/ End("FAIL")
       \/ End("exception")
    /\ UNCHANGED <<scan, kind, loopVars, timeVars, hudVars>>

(* A piece of a frame arrives (_read_exact): the wait begins anew.         *)
Piece ==
    /\ pc \in {"warm", "read"} /\ pieces < MaxPieces
    /\ pieces' = pieces + 1 /\ waited' = 0
    /\ UNCHANGED <<scan, pc, kind, loopVars, spent, elapsed, warmPieces, camera, verdict, hudVars>>

(* t0 is taken.                                                            *)
Start(p) == GoTo(p) /\ elapsed' = 0 /\ warmPieces' = 0

(* The end of a read of _adaptive_warmup, which returns once the           *)
(* brightness is stable, for which it takes two frames, or at its limit.   *)
GoesOnWarming == GoTo("warm") /\ elapsed' = elapsed /\ warmPieces' = warmPieces + pieces

WarmUp_NoLimit ==
    /\ pc = "warm"
    /\ warm' = IF warm < WarmupFrames THEN warm + 1 ELSE warm
    /\ NewRead
    /\ \/ warm' >= 2 /\ Start("top")
       \/ GoTo("warm") /\ UNCHANGED <<elapsed, warmPieces>>
    /\ UNCHANGED <<scan, kind, frames, matches, hits, late, spent, hudVars>>

WarmUp ==
    /\ pc = "warm"
    /\ warm' = warm + 1
    /\ NewRead
    /\ \/ warm' >= 2 /\ Start("top")
       \/ warm' = WarmupFrames /\ Start("top")
       \/ warm' < WarmupFrames /\ GoesOnWarming
    /\ UNCHANGED <<scan, kind, frames, matches, hits, late, spent, hudVars>>

(* Decoding a frame of the warm-up raises, outside of the "try" of the     *)
(* loop: nobody releases the camera.  The object that stood for its        *)
(* process is kept in subprocess._active, with the pipe it writes to.      *)
WarmUpRaises ==
    /\ pc = "warm" /\ pieces >= 2
    /\ pc' = "leave"
    /\ verdict' = [verdict EXCEPT ![scan] = "exception"]
    /\ Camera("lost")
    /\ NewRead /\ elapsed' = 0 /\ warmPieces' = 0
    /\ UNCHANGED <<scan, kind, loopVars, spent, hudVars>>

(* The head of the loop: the limits, then the cancellation event.          *)
TimeIsLeft_FramesOnly == frames < MaxFrames

TimeIsLeft == frames < MaxFrames /\ elapsed < Budget

Head_IgnoresEvent ==
    /\ pc = "top"
    /\ \/ ~TimeIsLeft /\ End("FAIL") /\ UNCHANGED <<waited, pieces>>
       \/ TimeIsLeft /\ GoTo("read") /\ NewRead
    /\ UNCHANGED <<scan, kind, loopVars, spent, elapsed, warmPieces, hudVars>>

Head ==
    /\ pc = "top"
    /\ \/ ~TimeIsLeft /\ End("FAIL") /\ UNCHANGED <<waited, pieces>>
       \/ TimeIsLeft /\ event[scan] /\ End("cancelled") /\ UNCHANGED <<waited, pieces>>
       \/ TimeIsLeft /\ ~event[scan] /\ GoTo("read") /\ NewRead
    /\ UNCHANGED <<scan, kind, loopVars, spent, elapsed, warmPieces, hudVars>>

ReadNothing ==
    /\ pc = "read"
    /\ waited' = 0
    /\ GoTo("top")
    /\ UNCHANGED <<scan, kind, loopVars, spent, elapsed, pieces, warmPieces, hudVars>>

(* A frame, whose header and payload have come: one without a face, or     *)
(* with one that is not the owner's.                                       *)
FrameDiffers ==
    /\ pc = "read" /\ pieces >= 2
    /\ waited' = 0
    /\ frames' = frames + 1
    /\ late' = IF event[scan] THEN late + 1 ELSE late
    /\ GoTo("top")
    /\ UNCHANGED <<scan, kind, warm, matches, hits, spent, elapsed, pieces, warmPieces, hudVars>>

FrameMatches ==
    /\ pc = "read" /\ pieces >= 2
    /\ waited' = 0
    /\ frames' = frames + 1
    /\ matches' = matches + 1
    /\ hits' = hits + 1
    /\ late' = IF event[scan] THEN late + 1 ELSE late
    /\ IF matches' >= RequiredMatches THEN End("OK") ELSE GoTo("top")
    /\ UNCHANGED <<scan, kind, warm, spent, elapsed, pieces, warmPieces, hudVars>>

(* Decoding or recognising the frame raises.                               *)
FrameRaises ==
    /\ pc = "read" /\ pieces >= 2
    /\ waited' = 0
    /\ frames' = frames + 1
    /\ End("exception")
    /\ UNCHANGED <<scan, kind, warm, matches, hits, late, spent, elapsed, pieces, warmPieces, hudVars>>

(* _hud_finish, which an exception goes past; then the verdict is sent.    *)
Leave ==
    /\ pc = "leave"
    /\ pc' = "idle"
    /\ told' = IF hud[scan] # "none" /\ verdict[scan] # "exception"
               THEN [told EXCEPT ![scan] = IF verdict[scan] = "OK" THEN "SUCCESS" ELSE "FAIL"]
               ELSE told
    /\ Locals /\ hits' = 0 /\ late' = 0
    /\ spent' = 0 /\ elapsed' = 0 /\ NewRead /\ warmPieces' = 0
    /\ UNCHANGED <<scan, kind, camera, verdict, hud, line, event, clicked>>

-----------------------------------------------------------------------------
(* The capsule of scan k, its user and its watcher.                        *)

Click(k) ==
    /\ hud[k] = "scanning"
    /\ hud' = [hud EXCEPT ![k] = "ending"]
    /\ line' = [line EXCEPT ![k] = TRUE]
    /\ clicked' = [clicked EXCEPT ![k] = TRUE]
    /\ UNCHANGED <<scan, pc, kind, loopVars, timeVars, camera, verdict, told, event>>

(* The watcher's thread reads the line and sets the event of its own scan. *)
Watch_LatestScan(k) ==
    /\ line[k]
    /\ line' = [line EXCEPT ![k] = FALSE]
    /\ event' = [event EXCEPT ![scan] = TRUE]
    /\ UNCHANGED <<scan, pc, kind, loopVars, timeVars, camera, verdict, hud, told, clicked>>

Watch(k) ==
    /\ line[k]
    /\ line' = [line EXCEPT ![k] = FALSE]
    /\ event' = [event EXCEPT ![k] = TRUE]
    /\ UNCHANGED <<scan, pc, kind, loopVars, timeVars, camera, verdict, hud, told, clicked>>

(* SUCCESS or FAIL arrives; it is shown unless the capsule was clicked.    *)
HudHears(k) ==
    /\ told[k] \in {"SUCCESS", "FAIL"} /\ hud[k] # "gone"
    /\ told' = [told EXCEPT ![k] = "read"]
    /\ hud' = [hud EXCEPT ![k] = "ending"]
    /\ UNCHANGED <<scan, pc, kind, loopVars, timeVars, camera, verdict, line, event, clicked>>

(* The last animation is over.                                             *)
HudEnds(k) ==
    /\ hud[k] = "ending"
    /\ hud' = [hud EXCEPT ![k] = "gone"]
    /\ UNCHANGED <<scan, pc, kind, loopVars, timeVars, camera, verdict, told, line, event, clicked>>

(* Nobody drives the capsule: it closes itself.                            *)
HudTimesOut_OnlyDuringScan(k) ==
    /\ hud[k] = "scanning"
    /\ k = scan /\ pc # "idle" /\ spent >= HudLife
    /\ hud' = [hud EXCEPT ![k] = "gone"]
    /\ UNCHANGED <<scan, pc, kind, loopVars, timeVars, camera, verdict, told, line, event, clicked>>

HudTimesOut(k) ==
    /\ hud[k] = "scanning"
    /\ k = scan /\ pc # "idle" => spent >= HudLife
    /\ hud' = [hud EXCEPT ![k] = "gone"]
    /\ UNCHANGED <<scan, pc, kind, loopVars, timeVars, camera, verdict, told, line, event, clicked>>

(* A second passes while the thread waits for a piece.  The clock stops at *)
(* Horizon, which is longer than any warm-up and any loop.                 *)
Horizon == (WarmupFrames + 1) * (MaxPieces * SelectTime) + FaceBudget + LockBudget
Later(t) == IF t < Horizon THEN t + 1 ELSE t

Tick ==
    /\ pc \in {"warm", "read"} /\ waited < SelectTime /\ pieces < MaxPieces
    /\ waited' = waited + 1
    /\ spent' = IF spent < HudLife THEN spent + 1 ELSE spent
    /\ elapsed' = Later(elapsed)
    /\ UNCHANGED <<scan, pc, kind, loopVars, pieces, warmPieces, camera, verdict, hudVars>>

-----------------------------------------------------------------------------
Reading == Piece \/ WarmUp \/ WarmUpRaises \/ ReadNothing \/ FrameDiffers \/ FrameMatches \/ FrameRaises
Thread == StartScan \/ OpenCamera \/ Head \/ Reading \/ Leave
Capsule(k) == Click(k) \/ Watch(k) \/ HudHears(k) \/ HudEnds(k) \/ HudTimesOut(k)

Next == Thread \/ Tick \/ \E k \in Scans : Capsule(k)

Spec == Init /\ [][Next]_vars

(* The thread goes on, a read whose pieces have come or whose wait is over *)
(* returns (a frame has an end, and a wait a limit), time passes (an empty *)
(* read of a dead helper takes none, but not for ever),                    *)
(* the capsule's run loop serves its input and its timers, and the watcher *)
(* its pipe.  Nothing is assumed of the user.                              *)
FairSpec ==
    /\ Spec
    /\ WF_vars(OpenCamera) /\ WF_vars(WarmUp) /\ WF_vars(Head) /\ WF_vars(Leave)
    /\ WF_vars(ReadNothing \/ FrameDiffers \/ FrameMatches \/ FrameRaises)
    /\ SF_vars(Tick)
    /\ \A k \in Scans : /\ WF_vars(Watch(k)) /\ WF_vars(HudHears(k))
                        /\ WF_vars(HudEnds(k)) /\ WF_vars(HudTimesOut(k))

-----------------------------------------------------------------------------
(* Properties.                                                             *)

(* A scan says OK only after that very scan saw enough matching frames,    *)
(* and never because of those of the scan before.                          *)
VerdictIsEarned ==
    pc = "leave" /\ verdict[scan] = "OK" => hits >= RequiredMatches

(* A scan is cancelled only by a click on its own capsule: the capsules    *)
(* and watchers of earlier scans, which outlive them, cannot reach it.     *)
CancelIsOwn ==
    \A k \in Scans : (verdict[k] = "cancelled" \/ event[k]) => clicked[k]

(* After the event is set at most one more frame is examined.              *)
CancelIsPrompt == late <= 1

(* A scan overruns its budget by its last read, and by nothing else: the   *)
(* budget is looked at between reads only (daemon.py:244), and reads that  *)
(* fail never prolong the scan.  A read lasts one wait for each piece it   *)
(* gets and one more, for each wait is as long as the first (camera.py:29). *)
(* The warm-up, which no budget covers, lasts that long with every read.   *)
ScanIsBounded ==
    /\ pc = "warm" => elapsed <= (warm + 1 + warmPieces + pieces) * SelectTime
    /\ pc # "warm" => elapsed < Budget + (pieces + 1) * SelectTime

(* A scan comes to its end, whatever the camera does, and its camera is    *)
(* off then ("ne pas garder la caméra ouverte", UX-PLAN.md:241), except    *)
(* after an exception of the warm-up, which releases nothing.              *)
ScanEnds == (pc # "idle") ~> (pc = "idle" /\ \A k \in Scans : camera[k] # "on")

(* A capsule never stays on the screen, even when an exception left it     *)
(* without a verdict.                                                      *)
HudGoes == \A k \in Scans : (hud[k] \in {"scanning", "ending"}) ~> (hud[k] = "gone")
=============================================================================
