----------------------------- MODULE Supervision -----------------------------
(***************************************************************************)
(* The app as the supervisor of its daemon (DaemonController and the       *)
(* daemon actions of menubar/FaceIDApp.swift), with the start of the       *)
(* daemon (main and serve of faceid/daemon.py) and the socket file that    *)
(* all daemons of the user share.                                          *)
(*                                                                         *)
(* Instances of the app overlap when it moves itself to /Applications and  *)
(* opens the copy; a crash of the app leaves its daemon behind.  A daemon  *)
(* has no handler for SIGTERM: one that is stopped takes no more steps.    *)
(***************************************************************************)
EXTENDS Integers, Sequences, FiniteSets

CONSTANTS
    MaxInstances,   \* bound: launches of the app
    MaxDaemons,     \* bound: processes started
    Users,          \* bound: the instances whose settings window is used
    MaxChanges      \* bound: changes of the settings

ASSUME SupervisionAssumption ==
    MaxInstances \in Nat \ {0} /\ MaxDaemons \in Nat /\ MaxChanges \in Nat

VARIABLES
    apps,           \* the instances of the app, in the order of their launch
    daemons,        \* the processes, in the order of their start
    socket,         \* the daemon whose socket the file is, 0 if there is no file
    saved,          \* UserDefaults: the settings, by the number of their change
    contended       \* history: two daemons were at their start together

vars == <<apps, daemons, socket, saved, contended>>

Apps == DOMAIN apps
Daemons == DOMAIN daemons
Up(i) == i \in Apps /\ apps[i].up
Alive(process) == process.pc \notin {"dead", "socket"}
Live(d) == d # 0 /\ Alive(daemons[d])
Starting(procs) == {d \in DOMAIN procs : Alive(procs[d]) /\ procs[d].pc # "serving"}
Reached(d) == Live(d) /\ daemons[d].pc = "serving" /\ socket = d

Init == apps = <<>> /\ daemons = <<>> /\ socket = 0 /\ saved = 0 /\ contended = FALSE

----------------------------------------------------------------------------
(* DaemonController.  Each operation tells the app and the processes there *)
(* are after it.                                                           *)

IsRunning(app, procs) == app.proc # 0 /\ Alive(procs[app.proc])

New(i, app) == [pc |-> "boot", by |-> i, settings |-> app.settings]

\* What is left of a process: pc tells what it ended of.
Dead(process, why) == [process EXCEPT !.pc = why, !.settings = 0]

(* start: p.run() may throw, and then proc is what it was. *)
Start_Unguarded(i, app, procs) ==
    {<<app, procs>>} \cup
    IF Len(procs) < MaxDaemons
    THEN {<<[app EXCEPT !.proc = Len(procs) + 1], Append(procs, New(i, app))>>} ELSE {}

Start(i, app, procs) ==
    IF IsRunning(app, procs) \/ Len(procs) = MaxDaemons THEN {<<app, procs>>}
    ELSE {<<app, procs>>, <<[app EXCEPT !.proc = Len(procs) + 1], Append(procs, New(i, app))>>}

(* stop: the termination handler of the process will post onExit. *)
Stop(app, procs) ==
    IF IsRunning(app, procs)
    THEN <<[app EXCEPT !.proc = 0, !.refresh = TRUE],
           [procs EXCEPT ![app.proc] = Dead(@, "dead")]>>
    ELSE <<[app EXCEPT !.proc = 0], procs>>

(* refresh: the menu shows whether the process runs. *)
Refreshed(app, procs) == [app EXCEPT !.shown = IsRunning(app, procs)]

Becomes(i, app, procs) ==
    /\ apps' = [apps EXCEPT ![i] = app]
    /\ daemons' = procs
    /\ contended' = (contended \/ Cardinality(Starting(procs)) > 1)

----------------------------------------------------------------------------
(* AppController, on the main queue of instance i. *)

Gone == [up |-> FALSE, proc |-> 0, settings |-> 0, editing |-> FALSE,
         pending |-> FALSE, refresh |-> FALSE, shown |-> FALSE]

(* applicationDidFinishLaunching *)
Launch ==
    /\ Len(apps) < MaxInstances
    /\ LET i == Len(apps) + 1
           app == [Gone EXCEPT !.up = TRUE, !.settings = saved]
       IN  \E s \in Start(i, app, daemons) :
             /\ apps' = Append(apps, Refreshed(s[1], s[2]))
             /\ daemons' = s[2]
             /\ contended' = (contended \/ Cardinality(Starting(s[2])) > 1)
    /\ UNCHANGED <<socket, saved>>

(* restartDaemon: the item that was pending is cancelled, another waits 0.3 s. *)
RestartDaemon(i, app) ==
    LET stopped == Stop(app, daemons)
    IN  Becomes(i, [stopped[1] EXCEPT !.pending = TRUE], stopped[2])

(* A toggle or the picker changes a setting and applies it. *)
Change(i) ==
    /\ apps[i].up /\ saved < MaxChanges /\ saved' = saved + 1
    /\ RestartDaemon(i, [apps[i] EXCEPT !.settings = saved'])
    /\ UNCHANGED socket

(* The slider changes it while it is dragged; it is applied on release. *)
Drag(i) ==
    /\ apps[i].up /\ saved < MaxChanges /\ saved' = saved + 1
    /\ apps' = [apps EXCEPT ![i].settings = saved', ![i].editing = TRUE]
    /\ UNCHANGED <<daemons, socket, contended>>

Release_NotApplied(i) ==
    /\ apps[i].up /\ apps[i].editing
    /\ apps' = [apps EXCEPT ![i].editing = FALSE]
    /\ UNCHANGED <<daemons, socket, saved, contended>>

Release(i) ==
    /\ apps[i].up /\ apps[i].editing
    /\ RestartDaemon(i, [apps[i] EXCEPT !.editing = FALSE])
    /\ UNCHANGED <<socket, saved>>

(* The pending item of restartDaemon. *)
PendingRestart(i) ==
    /\ apps[i].up /\ apps[i].pending
    /\ \E s \in Start(i, [apps[i] EXCEPT !.pending = FALSE], daemons) :
         Becomes(i, Refreshed(s[1], s[2]), s[2])
    /\ UNCHANGED <<socket, saved>>

(* startDaemon, which the menu offers when it shows no running daemon. *)
StartDaemon(i) ==
    /\ apps[i].up /\ ~apps[i].shown
    /\ \E s \in Start(i, apps[i], daemons) :
         Becomes(i, [s[1] EXCEPT !.refresh = TRUE], s[2])
    /\ UNCHANGED <<socket, saved>>

(* A refresh that was posted: by startDaemon, 0.4 s before, or by onExit.  *)
(* It reads the state there is then, so one stands for several.            *)
PostedRefresh(i) ==
    /\ apps[i].up /\ apps[i].refresh
    /\ Becomes(i, Refreshed([apps[i] EXCEPT !.refresh = FALSE], daemons), daemons)
    /\ UNCHANGED <<socket, saved>>

(* applicationWillTerminate *)
Quit(i) ==
    /\ apps[i].up
    /\ Becomes(i, Gone, Stop(apps[i], daemons)[2])
    /\ UNCHANGED <<socket, saved>>

(* The app crashes, or is killed: nothing stops the daemon. *)
Crash(i) ==
    /\ apps[i].up
    /\ Becomes(i, Gone, daemons)
    /\ UNCHANGED <<socket, saved>>

----------------------------------------------------------------------------
(* The daemon: main, and serve up to its loop. *)

GoesOn(d, from, to) ==
    /\ daemons[d].pc = from
    /\ daemons' = [daemons EXCEPT ![d].pc = to]
    /\ UNCHANGED <<apps, saved, contended>>

Ends_Unheard(d, why) ==
    /\ daemons' = [daemons EXCEPT ![d] = Dead(@, why)]
    /\ UNCHANGED <<apps, saved, contended>>

(* The process ends: its termination handler posts onExit to the instance  *)
(* that started it, be it the process it has now or one before.            *)
Ends(d, why) ==
    /\ daemons' = [daemons EXCEPT ![d] = Dead(@, why)]
    /\ apps' = [apps EXCEPT ![daemons[d].by] = IF @.up THEN [@ EXCEPT !.refresh = TRUE] ELSE @]
    /\ UNCHANGED <<saved, contended>>

Exists_KeepsOldFile(d) == GoesOn(d, "boot", "bind") /\ UNCHANGED socket

(* Daemon() has loaded the models and the enrolment, and SOCKET_PATH.exists. *)
Exists(d) == GoesOn(d, "boot", IF socket = 0 THEN "bind" ELSE "unlink") /\ UNCHANGED socket

(* SOCKET_PATH.unlink raises if somebody else has removed the file. *)
Unlink(d) ==
    \/ socket # 0 /\ GoesOn(d, "unlink", "bind") /\ socket' = 0
    \/ socket = 0 /\ daemons[d].pc = "unlink" /\ Ends(d, "socket") /\ UNCHANGED socket

(* bind raises if the file is there (again). *)
Bind(d) ==
    \/ socket = 0 /\ GoesOn(d, "bind", "chmod") /\ socket' = d
    \/ socket # 0 /\ daemons[d].pc = "bind" /\ Ends(d, "socket") /\ UNCHANGED socket

(* chmod of the file, whoever it belongs to, and listen on one's own socket. *)
Listen(d) ==
    /\ \/ socket # 0 /\ GoesOn(d, "chmod", "serving")
       \/ socket = 0 /\ daemons[d].pc = "chmod" /\ Ends(d, "socket")
    /\ UNCHANGED socket

(* A model is missing, or any failure or kill later on. *)
Dies(d) == Live(d) /\ Ends(d, "dead") /\ UNCHANGED socket

----------------------------------------------------------------------------
Main(i) == PendingRestart(i) \/ PostedRefresh(i)
Serve(d) == Exists(d) \/ Unlink(d) \/ Bind(d) \/ Listen(d)

Next ==
    \/ Launch
    \/ \E i \in Apps :
          \/ i \in Users /\ (Change(i) \/ Drag(i))
          \/ Release(i) \/ StartDaemon(i) \/ Main(i) \/ Quit(i) \/ Crash(i)
    \/ \E d \in Daemons : Serve(d) \/ Dies(d)

Spec ==
    /\ Init /\ [][Next]_vars
    /\ \A i \in 1 .. MaxInstances :
         WF_vars(i \in Apps /\ PendingRestart(i)) /\ WF_vars(i \in Apps /\ PostedRefresh(i))
    /\ \A d \in 1 .. MaxDaemons : WF_vars(d \in Daemons /\ Serve(d))

----------------------------------------------------------------------------
(* Properties. *)

(* However fast settings are changed, and whatever the menu is used for    *)
(* meanwhile, an app never has two daemons ("plusieurs moteurs se          *)
(* disputaient la même socket", FaceIDApp.swift:361).                      *)
OneDaemonEach ==
    \A i \in Apps : Cardinality({d \in Daemons : Live(d) /\ daemons[d].by = i}) <= 1

(* A daemon that is left running has the settings that are shown, unless   *)
(* the slider is held, whatever is started while a restart is due.         *)
SettingsApply ==
    \A i \in Apps :
        LET app == apps[i]
        IN  app.up /\ ~app.editing /\ Live(app.proc) =>
                daemons[app.proc].settings = app.settings

(* As long as no two daemons started together, the one that started last   *)
(* is the one that connections reach, and none fails over the file that a  *)
(* crash, a stop or an orphan left there (daemon.py:405).                  *)
NewestIsReached ==
    ~contended =>
        \A d \in Daemons :
            /\ daemons[d].pc # "socket"
            /\ d = Len(daemons) /\ daemons[d].pc = "serving" => Reached(d)

(* The menu comes to show whether the daemon runs, however it was stopped, *)
(* restarted or lost.                                                      *)
StatusInTheEnd ==
    \A i \in 1 .. MaxInstances :
        (Up(i) /\ apps[i].shown # Live(apps[i].proc))
            ~> (~Up(i) \/ apps[i].shown = Live(apps[i].proc))
=============================================================================
