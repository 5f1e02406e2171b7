------------------------ MODULE EnrollSession_proofs ------------------------
(***************************************************************************)
(* Proofs about the enrolment window and its processes, for any number of  *)
(* processes, samples, permission prompts and restarts of the app: a face  *)
(* is lost only to a scan that was asked to replace it, and "done" is said *)
(* only after a save.                                                      *)
(***************************************************************************)
EXTENDS EnrollSession, TLAPS

-----------------------------------------------------------------------------
(* Types.                                                                  *)

Lines == {"done", "error"}
Posts == Lines \cup {"authorized", "denied", "terminated"}

EnrollProcess ==
  [pc : {"boot", "loop", "save", "saved", "dead"}, append : BOOLEAN,
   asked : {"append", "replace"}, n : Nat,
   pipe : Seq(Lines), taken : Seq(Lines), reading : BOOLEAN]

Typed ==
  /\ asked \in {"nothing", "append", "replace"}
  /\ appending \in BOOLEAN
  /\ prompts \in Nat
  /\ main \in Seq(Posts)
  /\ procs \in Seq(EnrollProcess)
  /\ faces \subseteq Nat

-----------------------------------------------------------------------------
(* The invariant.                                                          *)

(* The mode is the one the window was opened for, and so is the mode of    *)
(* every process; a permission is only asked for, and only granted, while  *)
(* the window has a purpose.                                               *)
ModeIsAsked ==
  /\ appending <=> asked = "append"
  /\ prompts > 0 => asked # "nothing"
  /\ \A i \in DOMAIN main : main[i] = "authorized" => asked # "nothing"
  /\ \A p \in Procs : procs[p].append <=> procs[p].asked = "append"

Saved == \E p \in faces : p > 0

(* Whatever says "done", from the process to the window, says it after a   *)
(* save; and no later save leaves nothing of one.                          *)
DoneFollowsSave ==
  /\ \A p \in Procs : procs[p].pc = "saved" => Saved
  /\ \A p \in Procs, i \in Nat :
       \/ i \in DOMAIN procs[p].pipe /\ procs[p].pipe[i] = "done"
       \/ i \in DOMAIN procs[p].taken /\ procs[p].taken[i] = "done"
       => Saved
  /\ \A i \in DOMAIN main : main[i] = "done" => Saved
  /\ phase = "done" => Saved

IInv == Typed /\ ModeIsAsked /\ DoneFollowsSave

-----------------------------------------------------------------------------
(* Lemmas.                                                                 *)

LEMMA Empty ==
  /\ <<>> \in Seq(Lines) /\ <<>> \in Seq(Posts) /\ <<>> \in Seq(EnrollProcess)
  /\ DOMAIN <<>> = {}
  OBVIOUS

(* What the parts of the invariant ask of one process.                     *)
Sound(process, saved) ==
  /\ process \in EnrollProcess
  /\ process.append <=> process.asked = "append"
  /\ process.pc = "saved" => saved
  /\ \A i \in DOMAIN process.pipe : process.pipe[i] = "done" => saved
  /\ \A i \in DOMAIN process.taken : process.taken[i] = "done" => saved

LEMMA SoundProcesses ==
  ASSUME IInv, NEW p \in Procs
  PROVE  Sound(procs[p], Saved)
<1>1. procs[p] \in EnrollProcess
  BY DEF IInv, Typed, Procs
<1>2. DOMAIN procs[p].pipe \subseteq Nat /\ DOMAIN procs[p].taken \subseteq Nat
  BY <1>1 DEF EnrollProcess
<1> QED
  BY <1>1, <1>2 DEF IInv, ModeIsAsked, DoneFollowsSave, Sound

(* One process becomes another sound one.                                  *)
LEMMA BecomesFacts ==
  ASSUME IInv, NEW p \in Procs, NEW process, Becomes(p, process),
         Saved => Saved', Sound(process, Saved')
  PROVE  /\ procs' \in Seq(EnrollProcess) /\ DOMAIN procs' = DOMAIN procs
         /\ \A r \in DOMAIN procs' : Sound(procs'[r], Saved')
<1>1. /\ procs' \in Seq(EnrollProcess) /\ DOMAIN procs' = DOMAIN procs
      /\ procs'[p] = process
      /\ \A q \in Procs : q # p => procs'[q] = procs[q]
  BY DEF Becomes, IInv, Typed, Procs, Sound
<1>2. ASSUME NEW q \in Procs PROVE Sound(procs'[q], Saved')
  <2>1. CASE q = p
    BY <1>1, <2>1
  <2>2. CASE q # p
    BY <1>1, <2>2, SoundProcesses DEF Sound
  <2> QED
    BY <2>1, <2>2
<1> QED
  BY <1>1, <1>2 DEF Procs

(* The parts of the invariant about the processes, put together again.     *)
LEMMA FromSound ==
  ASSUME \A p \in DOMAIN procs' : Sound(procs'[p], Saved')
  PROVE  /\ \A p \in Procs' : procs'[p].append <=> procs'[p].asked = "append"
         /\ \A p \in Procs' : procs'[p].pc = "saved" => Saved'
         /\ \A p \in Procs', i \in Nat :
              \/ i \in DOMAIN procs'[p].pipe /\ procs'[p].pipe[i] = "done"
              \/ i \in DOMAIN procs'[p].taken /\ procs'[p].taken[i] = "done"
              => Saved'
  BY DEF Procs, Sound

LEMMA BecomesSound ==
  ASSUME IInv, NEW p \in Procs, NEW process, Becomes(p, process),
         faces' \subseteq Nat, Saved => Saved', Sound(process, Saved'),
         UNCHANGED <<app, window, main>>
  PROVE  IInv'
<1>1. /\ procs' \in Seq(EnrollProcess)
      /\ \A r \in DOMAIN procs' : Sound(procs'[r], Saved')
  BY BecomesFacts
<1> QED
  BY <1>1, FromSound DEF IInv, Typed, ModeIsAsked, DoneFollowsSave, window

(* What a process says and becomes, unless nobody listens any more.        *)
LEMMA EmitSound ==
  ASSUME IInv, NEW p \in Procs, NEW line, NEW process, EmitThen(p, line, process),
         Sound(process, Saved), line = "done" => Saved,
         UNCHANGED <<app, window, main, faces>>
  PROVE  IInv'
<1>1. Saved' = Saved /\ faces' \subseteq Nat
  BY DEF Saved, IInv, Typed
<1>2. CASE ~procs[p].reading
  <2>1. Sound([process EXCEPT !.pc = "dead"], Saved)
    BY DEF Sound, EnrollProcess
  <2> QED
    BY <1>1, <1>2, <2>1, BecomesSound DEF EmitThen
<1>3. CASE procs[p].reading /\ line \in Lines
  <2> DEFINE said == [process EXCEPT !.pipe = Append(process.pipe, line)]
  <2>1. process.pipe \in Seq(Lines) /\ process \in EnrollProcess
    BY DEF Sound, EnrollProcess
  <2>2. /\ Append(process.pipe, line) \in Seq(Lines)
        /\ \A i \in DOMAIN Append(process.pipe, line) :
             Append(process.pipe, line)[i] = "done" => Saved
    BY <1>3, <2>1 DEF Sound
  <2>3. Sound(said, Saved)
    BY <2>1, <2>2 DEF Sound, EnrollProcess
  <2>4. Becomes(p, said)
    BY <1>3 DEF EmitThen, Lines
  <2> HIDE DEF said
  <2> QED
    BY <1>1, <2>3, <2>4, BecomesSound
<1>4. CASE procs[p].reading /\ line \notin Lines
  BY <1>1, <1>4, BecomesSound DEF EmitThen, Lines
<1> QED
  BY <1>2, <1>3, <1>4

(* A scan that begins takes the mode of the window.                        *)
LEMMA StartScanFacts ==
  ASSUME IInv, StartScan, asked # "nothing", Saved' = Saved
  PROVE  /\ procs' \in Seq(EnrollProcess)
         /\ \A p \in DOMAIN procs' : Sound(procs'[p], Saved')
         /\ phase' # "done"
<1> DEFINE new == [pc |-> "boot", append |-> appending, asked |-> asked, n |-> 0,
                   pipe |-> <<>>, taken |-> <<>>, reading |-> TRUE]
<1>1. Sound(new, Saved)
  BY DEF Sound, EnrollProcess, IInv, Typed, ModeIsAsked
<1>2. new \in EnrollProcess
  BY <1>1 DEF Sound
<1>3. CASE phase' = "scanning" /\ procs' = Append(procs, new)
  <2> HIDE DEF new
  <2>1. procs \in Seq(EnrollProcess)
    BY DEF IInv, Typed
  <2>2. /\ procs' \in Seq(EnrollProcess)
        /\ \A p \in DOMAIN procs' : (p \in Procs /\ procs'[p] = procs[p]) \/ procs'[p] = new
    BY <1>2, <1>3, <2>1 DEF Procs
  <2> QED
    BY <1>1, <1>3, <2>2, SoundProcesses
<1>4. CASE phase' = "failed" /\ UNCHANGED procs
  BY <1>4, SoundProcesses DEF IInv, Typed, Procs
<1> QED
  BY <1>3, <1>4 DEF StartScan

-----------------------------------------------------------------------------
LEMMA InitInvariant == Init => IInv
<1> SUFFICES ASSUME Init PROVE IInv
  OBVIOUS
<1>1. Typed
  <2>1. faces \subseteq Nat
    <3>1. faces = {} \/ faces = {0}
      BY DEF Init
    <3> QED
      BY <3>1
  <2>2. appending \in BOOLEAN
    BY DEF Init
  <2> QED
    BY <2>1, <2>2, Empty DEF Init, Typed
<1> QED
  BY <1>1, Empty DEF Init, IInv, ModeIsAsked, DoneFollowsSave, Procs

(* The steps of the window.                                                *)
LEMMA WindowSteps ==
  ASSUME IInv,
         \/ \E append \in BOOLEAN : OpenEnrollment(append)
         \/ Retry
         \/ Begin
         \/ \E answer \in {"authorized", "denied"} : Answer(answer)
         \/ MainQueue
  PROVE  IInv'
<1>0. Saved' = Saved
  BY DEF OpenEnrollment, Retry, Begin, Answer, MainQueue, Saved
<1>1. ASSUME NEW append \in BOOLEAN, OpenEnrollment(append)
      PROVE  IInv'
  BY <1>0, <1>1 DEF OpenEnrollment, IInv, Typed, ModeIsAsked, DoneFollowsSave, Procs
<1>2. CASE Retry
  BY <1>0, <1>2 DEF Retry, IInv, Typed, ModeIsAsked, DoneFollowsSave, Procs
<1>3. CASE Begin
  <2>1. CASE StartScan /\ UNCHANGED prompts
    BY <1>0, <1>3, <2>1, StartScanFacts, FromSound DEF Begin, IInv, Typed, ModeIsAsked, DoneFollowsSave
  <2>2. CASE /\ UNCHANGED procs
             /\ phase' \in {phase, "failed"}
             /\ prompts' \in {prompts, prompts + 1}
    BY <1>0, <1>3, <2>2 DEF Begin, IInv, Typed, ModeIsAsked, DoneFollowsSave, Procs
  <2> QED
    BY <1>3, <2>1, <2>2 DEF Begin
<1>4. ASSUME NEW answer \in {"authorized", "denied"}, Answer(answer)
      PROVE  IInv'
  <2> DEFINE answers == [i \in 1 .. prompts |-> answer]
  <2>1. answers \in Seq(Posts) /\ main \in Seq(Posts) /\ asked # "nothing"
        /\ main' = main \o answers /\ prompts' = 0
        /\ \A i \in DOMAIN answers : answers[i] = answer
    BY <1>4 DEF Answer, IInv, Typed, ModeIsAsked, Posts
  <2> HIDE DEF answers
  <2>2. /\ main' \in Seq(Posts)
        /\ \A i \in DOMAIN main' : (i \in DOMAIN main /\ main'[i] = main[i]) \/ main'[i] = answer
    BY <2>1
  <2> QED
    BY <1>0, <1>4, <2>1, <2>2 DEF Answer, IInv, Typed, ModeIsAsked, DoneFollowsSave, Procs
<1>5. CASE MainQueue
  <2>1. /\ main \in Seq(Posts) /\ main # <<>> /\ 1 \in DOMAIN main /\ Head(main) = main[1]
        /\ main' = Tail(main) /\ main' \in Seq(Posts)
        /\ \A i \in DOMAIN main' : i + 1 \in DOMAIN main /\ main'[i] = main[i + 1]
        /\ UNCHANGED <<app, asked, appending, prompts, faces>>
    BY <1>5 DEF MainQueue, IInv, Typed
  <2>2. CASE Head(main) = "authorized"
    <3>1. StartScan /\ asked # "nothing"
      BY <1>5, <2>1, <2>2 DEF MainQueue, IInv, ModeIsAsked
    <3> QED
      BY <1>0, <2>1, <3>1, StartScanFacts, FromSound DEF IInv, Typed, ModeIsAsked, DoneFollowsSave
  <2>3. CASE Head(main) # "authorized"
    <3>1. /\ UNCHANGED procs
          /\ phase' = "done" => Saved
      BY <1>5, <2>1, <2>3 DEF MainQueue, Interrupted, Handle, IInv, DoneFollowsSave
    <3> QED
      BY <1>0, <2>1, <3>1 DEF IInv, Typed, ModeIsAsked, DoneFollowsSave, Procs
  <2> QED
    BY <2>2, <2>3
<1> QED
  BY <1>1, <1>2, <1>3, <1>4, <1>5

(* The steps of the pipe, of the end of a process, and of a process.       *)
LEMMA ProcessSteps ==
  ASSUME IInv, NEW p \in Procs,
         Queues(p) \/ Process(p) \/ CannotStart(p) \/ CannotSave(p) \/ Killed(p)
  PROVE  IInv'
<1> DEFINE q == procs[p]
<1>1. Sound(q, Saved) /\ q \in EnrollProcess /\ p \in Nat /\ p > 0
  BY SoundProcesses DEF Sound, Procs, IInv, Typed
<1>2. CASE TakeLines(p)
  <2>1. Sound([q EXCEPT !.taken = q.pipe, !.pipe = <<>>], Saved)
    BY <1>1, Empty DEF Sound, EnrollProcess
  <2>2. Saved' = Saved /\ faces' \subseteq Nat
    BY <1>2 DEF TakeLines, Saved, IInv, Typed
  <2> QED
    BY <1>2, <2>1, <2>2, BecomesSound DEF TakeLines
<1>3. CASE PostLine(p)
  <2>1. /\ q.taken \in Seq(Lines) /\ q.taken # <<>>
        /\ Head(q.taken) \in Lines
        /\ Head(q.taken) = "done" => Saved
        /\ Tail(q.taken) \in Seq(Lines)
        /\ \A i \in DOMAIN Tail(q.taken) : Tail(q.taken)[i] = "done" => Saved
    BY <1>1, <1>3 DEF PostLine, Sound, EnrollProcess
  <2>2. Sound([q EXCEPT !.taken = Tail(@)], Saved)
    BY <1>1, <2>1 DEF Sound, EnrollProcess
  <2>3. /\ procs' = [procs EXCEPT ![p] = [q EXCEPT !.taken = Tail(@)]]
        /\ UNCHANGED <<app, window, faces>> /\ Saved' = Saved
    BY <1>3 DEF PostLine, Becomes, Saved
  <2>4. procs' \in Seq(EnrollProcess) /\ \A r \in DOMAIN procs' : Sound(procs'[r], Saved')
    BY <2>2, <2>3, BecomesFacts DEF Becomes
  <2>5. /\ main \in Seq(Posts) /\ main' = Append(main, Head(q.taken)) /\ Head(q.taken) \in Posts
    BY <1>3, <2>1 DEF PostLine, IInv, Typed, Posts
  <2>6. /\ main' \in Seq(Posts)
        /\ \A i \in DOMAIN main' : (i \in DOMAIN main /\ main'[i] = main[i]) \/ main'[i] = Head(q.taken)
    BY <2>5
  <2>7. Typed'
    BY <2>3, <2>4, <2>6 DEF IInv, Typed, window
  <2>8. UNCHANGED <<appending, asked, prompts, phase>> /\ Head(q.taken) # "authorized"
    BY <2>1, <2>3 DEF window, Lines
  <2>9. ModeIsAsked'
    BY <2>4, <2>6, <2>8, FromSound DEF IInv, ModeIsAsked
  <2>10. DoneFollowsSave'
    <3>1. \A i \in DOMAIN main' : main'[i] = "done" => Saved'
      BY <2>1, <2>3, <2>6 DEF IInv, DoneFollowsSave
    <3>2. phase' = "done" => Saved'
      BY <2>3, <2>8 DEF IInv, DoneFollowsSave
    <3> QED
      BY <2>4, <3>1, <3>2, FromSound DEF DoneFollowsSave
  <2> QED
    BY <2>7, <2>9, <2>10 DEF IInv
<1>4. CASE Terminated(p)
  <2>1. Sound([q EXCEPT !.reading = FALSE, !.pipe = <<>>], Saved)
    BY <1>1, Empty DEF Sound, EnrollProcess
  <2>2. /\ procs' = [procs EXCEPT ![p] = [q EXCEPT !.reading = FALSE, !.pipe = <<>>]]
        /\ UNCHANGED <<app, window, faces>> /\ Saved' = Saved
    BY <1>4 DEF Terminated, Becomes, Saved
  <2>3. procs' \in Seq(EnrollProcess) /\ \A r \in DOMAIN procs' : Sound(procs'[r], Saved')
    BY <2>1, <2>2, BecomesFacts DEF Becomes
  <2>4. main \in Seq(Posts) /\ main' = Append(main, "terminated") /\ "terminated" \in Posts
    BY <1>4 DEF Terminated, IInv, Typed, Posts
  <2>5. /\ main' \in Seq(Posts)
        /\ \A i \in DOMAIN main' : (i \in DOMAIN main /\ main'[i] = main[i]) \/ main'[i] = "terminated"
    BY <2>4
  <2>6. Typed'
    BY <2>2, <2>3, <2>5 DEF IInv, Typed, window
  <2> QED
    BY <2>2, <2>3, <2>5, <2>6, FromSound DEF IInv, ModeIsAsked, DoneFollowsSave, window
<1>5. CASE Starts(p)
  <2>1. Sound([q EXCEPT !.pc = "loop"], Saved)
    BY <1>1 DEF Sound, EnrollProcess
  <2> QED
    BY <1>5, <2>1, EmitSound DEF Starts
<1>6. CASE Capture(p)
  <2>1. ASSUME NEW pc \in {"save", "loop"}
        PROVE  Sound([q EXCEPT !.n = @ + 1, !.pc = pc], Saved)
    <3> DEFINE more == [q EXCEPT !.n = @ + 1, !.pc = pc]
    <3>1. q.n + 1 \in Nat
      BY <1>1 DEF EnrollProcess
    <3>2. more \in EnrollProcess
      BY <1>1, <3>1 DEF EnrollProcess
    <3> QED
      BY <1>1, <3>1, <3>2 DEF Sound, EnrollProcess
  <2>2. PICK pc \in {"save", "loop"} :
          EmitThen(p, "progress", [q EXCEPT !.n = @ + 1, !.pc = pc])
    BY <1>6 DEF Capture
  <2>3. UNCHANGED <<app, window, main, faces>>
    BY <1>6 DEF Capture
  <2>4. Sound([q EXCEPT !.n = @ + 1, !.pc = pc], Saved)
    BY <2>1
  <2> QED
    BY <2>2, <2>3, <2>4, EmitSound
<1>7. CASE Save(p)
  <2>1. faces' \subseteq Nat /\ p \in faces' /\ Saved'
    BY <1>1, <1>7 DEF Save, Saved, IInv, Typed
  <2>2. Sound([q EXCEPT !.pc = "saved"], Saved')
    BY <1>1, <2>1 DEF Sound, EnrollProcess
  <2> QED
    BY <1>7, <2>1, <2>2, BecomesSound DEF Save
<1>8. CASE TellDone(p)
  <2>1. Sound([q EXCEPT !.pc = "dead"], Saved) /\ Saved
    BY <1>1, <1>8 DEF TellDone, Sound, EnrollProcess
  <2> QED
    BY <1>8, <2>1, EmitSound DEF TellDone
<1>9. CASE CannotStart(p)
  <2>1. Sound([q EXCEPT !.pc = "dead"], Saved)
    BY <1>1 DEF Sound, EnrollProcess
  <2> QED
    BY <1>9, <2>1, EmitSound DEF CannotStart
<1>10. CASE CannotSave(p) \/ Killed(p)
  <2>1. Sound([q EXCEPT !.pc = "dead"], Saved)
    BY <1>1 DEF Sound, EnrollProcess
  <2>2. Saved' = Saved /\ faces' \subseteq Nat
    BY <1>10 DEF CannotSave, Killed, Saved, IInv, Typed
  <2> QED
    BY <1>10, <2>1, <2>2, BecomesSound DEF CannotSave, Killed
<1> QED
  BY <1>2, <1>3, <1>4, <1>5, <1>6, <1>7, <1>8, <1>9, <1>10 DEF Queues, Process

LEMMA StepInvariant == IInv /\ [Next]_vars => IInv'
<1> SUFFICES ASSUME IInv, [Next]_vars
             PROVE  IInv'
  OBVIOUS
<1>1. CASE AppQuits
  <2>1. Saved' = Saved
    BY <1>1 DEF AppQuits, Saved
  <2>2. procs' \in Seq(EnrollProcess) /\ \A p \in DOMAIN procs' : Sound(procs'[p], Saved')
    <3>1. procs' = [p \in Procs |-> [procs[p] EXCEPT !.reading = FALSE, !.pipe = <<>>, !.taken = <<>>]]
      BY <1>1 DEF AppQuits
    <3>2. \A p \in Procs :
            Sound([procs[p] EXCEPT !.reading = FALSE, !.pipe = <<>>, !.taken = <<>>], Saved)
      BY SoundProcesses, Empty DEF Sound, EnrollProcess
    <3>3. procs \in Seq(EnrollProcess)
      BY DEF IInv, Typed
    <3>4. \A p \in Procs :
            [procs[p] EXCEPT !.reading = FALSE, !.pipe = <<>>, !.taken = <<>>] \in EnrollProcess
      BY <3>2 DEF Sound
    <3>5. procs' \in Seq(EnrollProcess)
      <4>1. Procs = 1 .. Len(procs) /\ Len(procs) \in Nat
        BY <3>3 DEF Procs
      <4>2. procs' \in [1 .. Len(procs) -> EnrollProcess]
        BY <3>1, <3>4, <4>1
      <4> QED
        BY <4>1, <4>2
    <3> QED
      BY <2>1, <3>1, <3>2, <3>5 DEF Procs
  <2>3. /\ main' = <<>> /\ prompts' = 0 /\ asked' = "nothing" /\ phase' = "intro" /\ appending' = FALSE
        /\ UNCHANGED faces
        /\ DOMAIN main' = {} /\ main' \in Seq(Posts)
    BY <1>1, Empty DEF AppQuits, IInv, Typed
  <2>4. Typed'
    BY <2>2, <2>3 DEF IInv, Typed
  <2>5. ModeIsAsked'
    BY <2>2, <2>3, FromSound DEF ModeIsAsked
  <2>6. DoneFollowsSave'
    BY <2>2, <2>3, FromSound DEF DoneFollowsSave
  <2> QED
    BY <2>4, <2>5, <2>6 DEF IInv
<1>2. CASE CameraDies \/ AppStarts \/ UNCHANGED vars
  <2>1. Saved' = Saved
    BY <1>2 DEF CameraDies, AppStarts, vars, Saved
  <2> QED
    BY <1>2, <2>1 DEF CameraDies, AppStarts, vars, window, IInv, Typed, ModeIsAsked,
       DoneFollowsSave, Procs
<1> QED
  BY <1>1, <1>2, WindowSteps, ProcessSteps DEF Next

(* IInv is an invariant of every behaviour of the window.                  *)
THEOREM InductiveInvariant == Spec => []IInv
  BY InitInvariant, StepInvariant, PTL DEF Spec

-----------------------------------------------------------------------------
(* The window says that a face is enrolled only when one was saved, in     *)
(* whatever order lines and ends of processes arrive (Onboarding.swift:71).*)
THEOREM TrueDone == Spec => []DoneIsTrue
<1>1. IInv => DoneIsTrue
  BY DEF IInv, DoneFollowsSave, Saved, DoneIsTrue
<1> QED
  BY <1>1, InductiveInvariant, PTL

(* A face is lost only to a scan that was asked to replace it: no retry,   *)
(* late permission or restart changes the mode (Onboarding.swift:18).      *)
THEOREM KeptFaces == Spec => FaceIsKept
<1> DEFINE Kept == ~(faces \subseteq faces') =>
                      \E p \in Procs : procs[p].pc = "save" /\ p \in faces' /\ procs[p].asked = "replace"
<1>1. ASSUME IInv, [Next]_vars
      PROVE  [Kept]_vars
  <2>1. ASSUME NEW p \in Procs, Save(p)
        PROVE  Kept
    <3>1. procs[p].asked \in {"append", "replace"} /\ (procs[p].append <=> procs[p].asked = "append")
      BY <1>1, SoundProcesses DEF Sound, EnrollProcess
    <3> QED
      BY <2>1, <3>1 DEF Save
  <2>2. CASE UNCHANGED faces
    BY <2>2
  <2>3. (\E p \in Procs : Save(p)) \/ UNCHANGED faces
    BY <1>1 DEF Next, vars, OpenEnrollment, Retry, Begin, Answer, MainQueue, Queues, TakeLines,
       PostLine, Terminated, Process, Starts, Capture, TellDone, CannotStart, CannotSave, Killed,
       CameraDies, AppQuits, AppStarts
  <2> QED
    BY <2>1, <2>2, <2>3
<1>2. IInv /\ [Next]_vars => [Kept]_vars
  BY <1>1
<1> HIDE DEF Kept
<1>3. Spec => [][Kept]_vars
  BY <1>2, InductiveInvariant, PTL DEF Spec
<1> QED
  BY <1>3 DEF FaceIsKept, Kept

=============================================================================
