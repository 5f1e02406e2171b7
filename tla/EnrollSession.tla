---------------------------- MODULE EnrollSession ----------------------------
(***************************************************************************)
(* The enrolment window and the processes it starts: EnrollController of   *)
(* menubar/Onboarding.swift with the main of faceid/enroll.py.             *)
(*                                                                         *)
(* A process tells its progress by lines of JSON.  The app takes them from *)
(* the pipe on one queue, is told of the end of the process on another,    *)
(* and both post what they got to the main queue, where the window's state *)
(* is changed.  Nothing stops a process when the window is closed, opened  *)
(* again, or when the app quits.                                           *)
(*                                                                         *)
(* Enrolment has the detail of the file; here one save is one step, and    *)
(* what is saved is a set of faces, each named by the process that         *)
(* captured it; 0 was there before.                                        *)
(***************************************************************************)
EXTENDS Integers, Sequences

CONSTANTS
    MaxProcs,       \* bound: processes started
    Samples,        \* ENROLL_SAMPLES
    MaxPrompts,     \* bound: camera permission requests that are pending
    MaxQuits        \* bound: times the app quits

ASSUME EnrollSessionAssumption ==
    MaxProcs \in Nat /\ Samples \in Nat \ {0} /\ MaxPrompts \in Nat /\ MaxQuits \in Nat

VARIABLES
    app,            \* the app runs, and the times it has quit
    asked,          \* what the window was opened for last, if it was
    phase,          \* EnrollController.phase
    appending,      \* EnrollController.appending
    authorization,  \* of the app to use the camera
    prompts,        \* pending calls of requestAccess
    main,           \* what is posted to the main queue
    procs,          \* the processes, in the order of their start
    camera,         \* the helper of the camera sends frames
    faces           \* the embeddings that are saved

vars == <<app, asked, phase, appending, authorization, prompts, main, procs, camera, faces>>
window == <<asked, phase, appending, authorization, prompts>>

Procs == DOMAIN procs
Running(p) == procs[p].pc # "dead"

Init ==
    /\ app = [runs |-> TRUE, quits |-> 0]
    /\ asked = "nothing" /\ phase = "intro" /\ appending = FALSE /\ prompts = 0
    /\ authorization \in {"notDetermined", "authorized", "denied"}
    /\ main = <<>> /\ procs = <<>>
    /\ camera \in BOOLEAN
    /\ faces \in {{}, {0}}

----------------------------------------------------------------------------
(* The window, on the main queue. *)

(* EnrollController.startScan, once phase and mode are read. *)
StartScan ==
    \/ /\ Len(procs) < MaxProcs
       /\ phase' = "scanning"
       /\ procs' = Append(procs, [pc |-> "boot", append |-> appending, asked |-> asked, n |-> 0,
                                  pipe |-> <<>>, taken |-> <<>>, reading |-> TRUE])
    \/ phase' = "failed" /\ UNCHANGED procs     \* p.run() throws

(* FaceIDApp.openEnrollment, from the menu or the settings, at any time. *)
OpenEnrollment(append) ==
    /\ app.runs
    /\ asked' = IF append THEN "append" ELSE "replace"
    /\ phase' = "intro" /\ appending' = append
    /\ UNCHANGED <<app, authorization, prompts, main, procs, camera, faces>>

(* The button of a failure: reset(), which keeps the mode. *)
Retry_Replaces ==
    /\ app.runs /\ phase = "failed"
    /\ phase' = "intro" /\ appending' = FALSE
    /\ UNCHANGED <<app, asked, authorization, prompts, main, procs, camera, faces>>

Retry ==
    /\ app.runs /\ phase = "failed"
    /\ phase' = "intro"
    /\ UNCHANGED <<app, asked, appending, authorization, prompts, main, procs, camera, faces>>

(* The button that begins: EnrollController.begin. *)
Begin ==
    /\ app.runs /\ phase = "intro" /\ asked # "nothing"
    /\ CASE authorization = "authorized" -> StartScan /\ UNCHANGED prompts
         [] authorization = "denied" -> phase' = "failed" /\ UNCHANGED <<prompts, procs>>
         [] OTHER -> /\ prompts < MaxPrompts
                     /\ prompts' = prompts + 1
                     /\ UNCHANGED <<phase, procs>>
    /\ UNCHANGED <<app, asked, appending, authorization, main, camera, faces>>

(* The user answers the system's prompt: every pending call completes. *)
Answer(answer) ==
    /\ app.runs /\ prompts > 0
    /\ authorization' = answer
    /\ main' = main \o [i \in 1 .. prompts |-> answer]
    /\ prompts' = 0
    /\ UNCHANGED <<app, asked, phase, appending, procs, camera, faces>>

(* EnrollController.handle, for the lines that change the phase. *)
Handle(event) ==
    phase' = CASE event = "done" -> "done"
               [] event = "error" -> "failed"
               [] OTHER -> phase

(* What the termination handler posts. *)
Interrupted_Ignored == UNCHANGED phase

Interrupted == phase' = IF phase = "scanning" THEN "failed" ELSE phase

(* The main queue runs what was posted first. *)
MainQueue ==
    /\ app.runs /\ main # <<>>
    /\ main' = Tail(main)
    /\ CASE Head(main) = "authorized" -> StartScan
         [] Head(main) = "denied" -> phase' = "failed" /\ UNCHANGED procs
         [] Head(main) = "terminated" -> Interrupted /\ UNCHANGED procs
         [] OTHER -> Handle(Head(main)) /\ UNCHANGED procs
    /\ UNCHANGED <<app, asked, appending, authorization, prompts, camera, faces>>

----------------------------------------------------------------------------
(* The pipe's readability handler and the termination handler. *)

Becomes(p, process) == procs' = [procs EXCEPT ![p] = process]

(* availableData: all the lines there are. *)
TakeLines(p) ==
    /\ procs[p].reading /\ procs[p].taken = <<>> /\ procs[p].pipe # <<>>
    /\ Becomes(p, [procs[p] EXCEPT !.taken = procs[p].pipe, !.pipe = <<>>])
    /\ UNCHANGED <<app, window, main, camera, faces>>

(* One line is posted; a handler at work is not stopped by readabilityHandler = nil. *)
PostLine(p) ==
    /\ procs[p].taken # <<>>
    /\ main' = Append(main, Head(procs[p].taken))
    /\ Becomes(p, [procs[p] EXCEPT !.taken = Tail(@)])
    /\ UNCHANGED <<app, window, camera, faces>>

(* The termination handler: what is still in the pipe is never read. *)
Terminated(p) ==
    /\ procs[p].pc = "dead" /\ procs[p].reading
    /\ Becomes(p, [procs[p] EXCEPT !.reading = FALSE, !.pipe = <<>>])
    /\ main' = Append(main, "terminated")
    /\ UNCHANGED <<app, window, camera, faces>>

----------------------------------------------------------------------------
(* The process: main of enroll.py. *)

(* emit, then on to the next step; the write raises if the app has gone,   *)
(* and the exception ends the process.  Only the lines that change the     *)
(* window's phase are kept: "start" and "progress" change what it counts.  *)
EmitThen(p, event, process) ==
    Becomes(p, IF ~procs[p].reading THEN [process EXCEPT !.pc = "dead"]
               ELSE IF event \in {"done", "error"} THEN [process EXCEPT !.pipe = Append(@, event)]
               ELSE process)

(* No model, or no helper: an error. *)
CannotStart(p) ==
    /\ procs[p].pc = "boot"
    /\ EmitThen(p, "error", [procs[p] EXCEPT !.pc = "dead"])
    /\ UNCHANGED <<app, window, main, camera, faces>>

(* The engine, the helper, the warm-up (a bounded number of reads, whatever *)
(* they give) and the start.                                                *)
Starts(p) ==
    /\ procs[p].pc = "boot"
    /\ EmitThen(p, "start", [procs[p] EXCEPT !.pc = "loop"])
    /\ UNCHANGED <<app, window, main, camera, faces>>

(* A frame with a face, the pause being over.  Another frame, and a read  *)
(* that fails, changes nothing: the loop goes on.                         *)
Capture(p) ==
    /\ procs[p].pc = "loop" /\ camera
    /\ EmitThen(p, "progress", [procs[p] EXCEPT !.n = @ + 1,
                                   !.pc = IF procs[p].n + 1 = Samples THEN "save" ELSE "loop"])
    /\ UNCHANGED <<app, window, main, camera, faces>>

(* The filter, and the save on what was there or in its place. *)
Save(p) ==
    /\ procs[p].pc = "save"
    /\ faces' = IF procs[p].append THEN faces \cup {p} ELSE {p}
    /\ Becomes(p, [procs[p] EXCEPT !.pc = "saved"])
    /\ UNCHANGED <<app, window, main, camera>>

(* load_embeddings or save_embeddings raises: nothing is said. *)
CannotSave(p) ==
    /\ procs[p].pc = "save"
    /\ Becomes(p, [procs[p] EXCEPT !.pc = "dead"])
    /\ UNCHANGED <<app, window, main, camera, faces>>

TellDone_Early(p) ==
    /\ procs[p].pc = "save"
    /\ EmitThen(p, "done", [procs[p] EXCEPT !.pc = "save"])
    /\ \A k \in DOMAIN procs[p].pipe : procs[p].pipe[k] # "done"
    /\ UNCHANGED <<app, window, main, camera, faces>>

TellDone(p) ==
    /\ procs[p].pc = "saved"
    /\ EmitThen(p, "done", [procs[p] EXCEPT !.pc = "dead"])
    /\ UNCHANGED <<app, window, main, camera, faces>>

----------------------------------------------------------------------------
(* The rest of the world. *)

(* The process is killed. *)
Killed(p) ==
    /\ Running(p)
    /\ Becomes(p, [procs[p] EXCEPT !.pc = "dead"])
    /\ UNCHANGED <<app, window, main, camera, faces>>

(* The camera helper ends, or sends nothing any more (builtin-camera exits *)
(* at once on a Mac without a camera: then camera is FALSE from the start). *)
CameraDies ==
    /\ camera /\ camera' = FALSE
    /\ UNCHANGED <<app, window, main, procs, faces>>

(* The app quits, or crashes: its processes go on without it. *)
AppQuits ==
    /\ app.runs /\ app.quits < MaxQuits
    /\ app' = [runs |-> FALSE, quits |-> app.quits + 1]
    /\ main' = <<>> /\ prompts' = 0
    /\ asked' = "nothing" /\ phase' = "intro" /\ appending' = FALSE
    /\ procs' = [p \in Procs |-> [procs[p] EXCEPT !.reading = FALSE, !.pipe = <<>>, !.taken = <<>>]]
    /\ UNCHANGED <<authorization, camera, faces>>

AppStarts ==
    /\ ~app.runs /\ app' = [app EXCEPT !.runs = TRUE]
    /\ UNCHANGED <<window, main, procs, camera, faces>>

----------------------------------------------------------------------------
Queues(p) == TakeLines(p) \/ PostLine(p) \/ Terminated(p)
Process(p) == Starts(p) \/ Capture(p) \/ Save(p) \/ TellDone(p)

Next ==
    \/ \E append \in BOOLEAN : OpenEnrollment(append)
    \/ Retry \/ Begin \/ \E answer \in {"authorized", "denied"} : Answer(answer)
    \/ MainQueue
    \/ \E p \in Procs : Queues(p) \/ Process(p) \/ CannotStart(p) \/ CannotSave(p) \/ Killed(p)
    \/ CameraDies \/ AppQuits \/ AppStarts

Spec ==
    /\ Init /\ [][Next]_vars
    /\ WF_vars(MainQueue)
    /\ \A p \in 1 .. MaxProcs :
         WF_vars(p \in Procs /\ Queues(p)) /\ WF_vars(p \in Procs /\ Process(p))
----------------------------------------------------------------------------
(* Properties. *)

(* A face is never lost but to a scan whose window was opened to replace   *)
(* it: neither a retry, nor a late permission, nor the app's restart turns *)
(* an added appearance into a replacement (Onboarding.swift:18).           *)
FaceIsKept ==
    [][~(faces \subseteq faces') =>
        \E p \in Procs : procs[p].pc = "save" /\ p \in faces' /\ procs[p].asked = "replace"]_vars

(* The window says that the face is enrolled only if some process of the   *)
(* window saved one, however the save and the pipe go (enroll.py:109); not *)
(* which process: the face saved may be that of an earlier one.            *)
DoneIsTrue ==
    phase = "done" => \E p \in faces : p > 0

(* The scanning screen, which has no button, always gives way, if the      *)
(* camera lives and somebody looks at it: whatever becomes of the process, *)
(* of its last lines, and of the order in which they are heard of.         *)
WindowSettles ==
    phase = "scanning" ~> (phase # "scanning" \/ ~camera)

(* A scan without a camera is told of: enroll.py:66 and 93 have errors for *)
(* it.  They are not reached: the helper was started, and the loop goes on.*)
DeadCameraIsTold ==
    (phase = "scanning" /\ ~camera) ~> phase # "scanning"
=============================================================================
