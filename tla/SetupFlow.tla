------------------------------ MODULE SetupFlow ------------------------------
(***************************************************************************)
(* The assistant that puts Face ID behind sudo (menubar/SetupFlow.swift),  *)
(* its calls to the privileged helper (menubar/HelperManager.swift), the   *)
(* buttons of the settings that start it or take the rule away             *)
(* (menubar/SettingsView.swift), and the system side of the uninstaller    *)
(* (menubar/Uninstaller.swift).                                            *)
(*                                                                         *)
(* Everything of the app happens on the main queue.  A call of the helper  *)
(* goes over a connection of its own: calls run side by side there, and    *)
(* their answers come in any order, or an error in the place of one.  What *)
(* the helper's script does to the files is the matter of PamConfig.       *)
(***************************************************************************)
EXTENDS Integers, Sequences, SequencesExt

CONSTANTS
    MaxCalls,       \* bound: calls of the helper that are in flight
    MaxSetups       \* bound: times the assistant is opened or started again

ASSUME SetupFlowAssumption == MaxCalls \in Nat \ {0} /\ MaxSetups \in Nat

VARIABLES
    window,         \* what the settings show of the rule (sudoActive), and busy
    sheet,          \* the assistant's window is open, and the times it was started
    flow,           \* the SetupFlow object
    calls,          \* calls in flight: the operation, and the answer once there is one
    service,        \* the helper's registration
    access,         \* the helper has full disk access
    rule,           \* the PAM rule is there (Status.sudoActive)
    uninstall       \* the uninstaller has ended

vars == <<window, sheet, flow, calls, service, access, rule, uninstall>>

Steps == {"helper", "fullDisk", "rule"}
Pending == [s \in Steps |-> "pending"]
Scripts == {"enable", "disable", "turnOff"}
InFlight(op) == {k \in DOMAIN calls : calls[k].op = op}
Call(op) == [op |-> op, answer |-> "none"]

Init ==
    /\ sheet = [open |-> FALSE, starts |-> 0, quiet |-> TRUE]
    /\ flow = [running |-> FALSE, finished |-> FALSE, states |-> Pending,
               poll |-> "none", late |-> FALSE, settled |-> FALSE]
    /\ calls = <<>>
    /\ service \in {"none", "requiresApproval", "enabled"}
    /\ access \in BOOLEAN
    /\ rule \in BOOLEAN             \* the package's installer may have written it
    /\ window = [shown |-> rule, busy |-> FALSE]
    /\ uninstall = [done |-> FALSE, quiet |-> TRUE]

----------------------------------------------------------------------------
(* SetupFlow.  Each operator tells what there is after it: the flow, the   *)
(* calls that are sent, and the registration.                              *)

Outcome(f, sent, s) == [flow |-> f, sent |-> sent, service |-> s]
Is(f, step, state) == [f EXCEPT !.states[step] = state]
Stop(f) == [f EXCEPT !.poll = "none", !.running = FALSE]

\* startPolling: a timer in the place of the one there was.
StartPolling(f, step) == [f EXCEPT !.poll = step, !.late = FALSE, !.settled = FALSE]

\* advance, once the first step is done: the current one is the first that is not.
AdvanceTo(f, s) ==
    CASE f.states["fullDisk"] # "done" ->
            Outcome(Is(f, "fullDisk", "active"), <<Call("check")>>, s)
      [] f.states["fullDisk"] = "done" /\ f.states["rule"] # "done" ->
            Outcome(Is(f, "rule", "active"), <<Call("enable")>>, s)
      [] OTHER -> Outcome(Stop([f EXCEPT !.finished = TRUE]), <<>>, s)

\* HelperManager.ensureRegistered: the status it may find or leave.
Registrations == IF service = "enabled" THEN {"enabled"} ELSE {"none", "requiresApproval", "enabled"}

\* registerHelper
RegisterHelper(f) ==
    {CASE s = "enabled" -> AdvanceTo(Is(f, "helper", "done"), s)
       [] s = "requiresApproval" -> Outcome(StartPolling(Is(f, "helper", "active"), "helper"), <<>>, s)
       [] OTHER -> Outcome([Is(f, "helper", "failed") EXCEPT !.running = FALSE], <<>>, s) :
     s \in Registrations}

\* advance
Advance(f) ==
    IF ~f.running THEN {Outcome(f, <<>>, service)}
    ELSE IF f.states["helper"] # "done" THEN RegisterHelper(f)
    ELSE {AdvanceTo(f, service)}

Becomes(outcomes) ==
    \E o \in outcomes :
        /\ Len(calls) + Len(o.sent) <= MaxCalls
        /\ flow' = o.flow /\ calls' = calls \o o.sent /\ service' = o.service

----------------------------------------------------------------------------
(* The user. *)

Reset_KeepsFinished(f) == [f EXCEPT !.states = Pending]

\* reset
Reset(f) == [f EXCEPT !.states = Pending, !.finished = FALSE]

\* refreshStatus, with busy = false where a call has ended.
Refresh(busy) == window' = [shown |-> rule, busy |-> busy]

(* beginSetup, on the banner of the settings as long as these show no      *)
(* rule, whatever is going on, and Retry of SetupSheet, once writing the   *)
(* rule has failed: reset and start.  It is quiet if no script runs, and   *)
(* an uninstallation no longer is.                                         *)
Begin ==
    /\ \/ ~sheet.open /\ ~window.shown /\ ~uninstall.done
       \/ sheet.open /\ flow.states["rule"] = "failed"
    /\ sheet.starts < MaxSetups
    /\ sheet' = [open |-> TRUE, starts |-> sheet.starts + 1,
                 quiet |-> \A op \in Scripts : InFlight(op) = {}]
    /\ uninstall' = [uninstall EXCEPT !.quiet = @ /\ InFlight("disable") = {}]
    /\ Becomes(IF flow.running THEN {Outcome(Reset(flow), <<>>, service)}
               ELSE Advance([Reset(flow) EXCEPT !.running = TRUE]))
    /\ UNCHANGED <<window, access, rule>>

(* onClose, and the sheet disappears: stop. *)
Close ==
    /\ sheet.open
    /\ sheet' = [sheet EXCEPT !.open = FALSE] /\ flow' = Stop(flow)
    /\ Refresh(window.busy)
    /\ UNCHANGED <<calls, service, access, rule, uninstall>>

(* The settings appear again. *)
Appear ==
    /\ ~sheet.open /\ Refresh(window.busy)
    /\ UNCHANGED <<sheet, flow, calls, service, access, rule, uninstall>>

(* The switches of the system settings. *)
Approve ==
    /\ service = "requiresApproval" /\ service' = "enabled"
    /\ UNCHANGED <<window, sheet, flow, calls, access, rule, uninstall>>

GrantAccess ==
    /\ ~access /\ access' = TRUE
    /\ UNCHANGED <<window, sheet, flow, calls, service, rule, uninstall>>

----------------------------------------------------------------------------
(* The polling. *)

\* conclude: once, with what the poll leads to from there.
Settled(f) == [f EXCEPT !.settled = TRUE, !.poll = "none"]
Conclude(outcomes) == IF flow.settled THEN {Outcome(flow, <<>>, service)} ELSE outcomes

TimedOut(f) == {Outcome([Is(f, flow.poll, "failed") EXCEPT !.running = FALSE], <<>>, service)}
Granted(f) == Advance(Is(f, "fullDisk", "done"))
Approved(f) == Advance(Is(f, "helper", "done"))

Tick_NoDeadline ==
    /\ flow.poll # "none" /\ flow.running /\ ~flow.settled
    /\ CASE flow.poll = "fullDisk" -> Becomes({Outcome(flow, <<Call("probe")>>, service)})
         [] OTHER -> service = "enabled" /\ Becomes(Conclude(Approved(Settled(flow))))
    /\ UNCHANGED <<window, sheet, access, rule, uninstall>>

(* One beat of the timer.  The helper's registration is looked at, its     *)
(* access is asked for: the answer is handled when it comes.               *)
Tick ==
    /\ flow.poll # "none" /\ flow.running /\ ~flow.settled
    /\ CASE flow.late -> Becomes(Conclude(TimedOut(Settled(flow))))
         [] ~flow.late /\ flow.poll = "fullDisk" -> Becomes({Outcome(flow, <<Call("probe")>>, service)})
         [] OTHER -> service = "enabled" /\ Becomes(Conclude(Approved(Settled(flow))))
    /\ UNCHANGED <<window, sheet, access, rule, uninstall>>

(* waitBudget is over.  The timer goes on while the flow does not run. *)
Deadline ==
    /\ flow.poll # "none" /\ ~flow.late
    /\ flow' = [flow EXCEPT !.late = TRUE]
    /\ UNCHANGED <<window, sheet, calls, service, access, rule, uninstall>>

----------------------------------------------------------------------------
(* The helper. *)

(* It answers.  A script that fails, or whose connection fails, may have   *)
(* done its work or not.                                                   *)
Answer(k) ==
    LET op == calls[k].op
        able == service = "enabled" /\ access
    IN  /\ calls[k].answer = "none"
        /\ \E ok \in BOOLEAN, did \in BOOLEAN :
              /\ ok \/ did => able
              /\ ok /\ op \in Scripts => did
              /\ calls' = [calls EXCEPT ![k].answer = IF ok THEN "ok" ELSE "error"]
              /\ rule' = IF did /\ op \in Scripts THEN op = "enable" ELSE rule
        /\ UNCHANGED <<window, sheet, flow, service, access, uninstall>>

\* finishSystemSide of Uninstaller.run, and what the settings do then.
FinishSystemSide_Anyway(ok) ==
    uninstall' = [uninstall EXCEPT !.done = TRUE] /\ service' = "none" /\ UNCHANGED window

FinishSystemSide(ok) ==
    IF ~ok /\ rule THEN Refresh(FALSE) /\ UNCHANGED <<uninstall, service>>
    ELSE uninstall' = [uninstall EXCEPT !.done = TRUE] /\ service' = "none" /\ UNCHANGED window

(* The answer on the main queue: of checkFullDisk, of a probe, of          *)
(* writeRule, of the settings or of the uninstaller; none of them asks     *)
(* whether the sheet is still there.                                       *)
Handle(k) ==
    LET op == calls[k].op
        ok == calls[k].answer = "ok"
        rest == RemoveAt(calls, k)
        Handled(outcomes) ==
            /\ \E o \in outcomes : /\ Len(rest) + Len(o.sent) <= MaxCalls
                                   /\ flow' = o.flow /\ calls' = rest \o o.sent /\ service' = o.service
            /\ UNCHANGED <<window, uninstall>>
        written == [Is(flow, "rule", IF ok THEN "done" ELSE "failed")
                       EXCEPT !.finished = @ \/ ok]
    IN  /\ calls[k].answer # "none"
        /\ CASE op = "check" /\ ok -> Handled(Granted(flow))
             [] op = "check" /\ ~ok -> Handled({Outcome(StartPolling(flow, "fullDisk"), <<>>, service)})
             [] op = "probe" -> Handled(IF ok THEN Conclude(Granted(Settled(flow)))
                                        ELSE {Outcome(flow, <<>>, service)})
             [] op = "enable" -> Handled({Outcome(Stop(written), <<>>, service)})
             [] op = "turnOff" -> Refresh(FALSE) /\ calls' = rest /\ UNCHANGED <<flow, service, uninstall>>
             [] OTHER -> FinishSystemSide(ok) /\ calls' = rest /\ UNCHANGED flow
        /\ UNCHANGED <<sheet, access, rule>>

----------------------------------------------------------------------------
(* HelperManager.withHelper: the operation, while the settings are busy,   *)
(* or a refusal.                                                           *)
WithHelper(op) ==
    \E s \in Registrations :
        /\ service' = s
        /\ IF s = "enabled" THEN /\ Len(calls) < MaxCalls /\ calls' = Append(calls, Call(op))
                                /\ window' = [window EXCEPT !.busy = TRUE]
           ELSE Refresh(FALSE) /\ UNCHANGED calls

(* disableSudo of SettingsView, on a button that is there as long as these *)
(* show the rule, and are not busy.                                        *)
TurnOff ==
    /\ ~sheet.open /\ window.shown /\ ~window.busy /\ ~uninstall.done
    /\ WithHelper("turnOff")
    /\ UNCHANGED <<sheet, flow, access, rule, uninstall>>

(* Uninstaller.run, from the settings, busy or not: another one may run.   *)
(* It is quiet if the rule is not being written and the other one is.      *)
Uninstall ==
    /\ ~sheet.open /\ ~uninstall.done
    /\ LET quiet == InFlight("enable") = {} /\ (InFlight("disable") = {} \/ uninstall.quiet)
       IN  uninstall' = [done |-> ~rule, quiet |-> quiet]
    /\ IF rule THEN WithHelper("disable")
       ELSE service' = "none" /\ UNCHANGED <<window, calls>>
    /\ UNCHANGED <<sheet, flow, access, rule>>

----------------------------------------------------------------------------
Next ==
    \/ Begin \/ Close \/ Appear \/ Approve \/ GrantAccess \/ TurnOff \/ Uninstall
    \/ Tick \/ Deadline
    \/ \E k \in DOMAIN calls : Answer(k) \/ Handle(k)

(* Time passes, the timer beats, and every call is answered in the end. *)
Spec ==
    /\ Init /\ [][Next]_vars
    /\ WF_vars(Tick) /\ WF_vars(Deadline)
    /\ \A k \in 1 .. MaxCalls : WF_vars(k \in DOMAIN calls /\ (Answer(k) \/ Handle(k)))

----------------------------------------------------------------------------
(* Properties. *)

(* The sequence always hands back: "sans borne, une étape qui ne viendra   *)
(* jamais tourne indéfiniment" (SetupFlow.swift:181), whatever late        *)
(* answers of an earlier one do to it.                                     *)
SequenceEnds == flow.running ~> ~flow.running

(* The assistant announces the end only with the rule in place, whichever  *)
(* late answers of an earlier sequence it gets (SetupFlow.swift:128),      *)
(* unless a script was already running when this one began.                *)
FinishedIsTrue == sheet.open /\ sheet.quiet /\ flow.finished => rule

(* An uninstallation that goes on leaves no rule behind, even if the       *)
(* script's answer was lost or the helper refused ("on s'arrête plutôt que *)
(* de jeter l'app", Uninstaller.swift:32), unless the rule was being       *)
(* written when it began or the assistant was started meanwhile.           *)
UninstallLeavesNoRule == uninstall.done /\ uninstall.quiet => ~rule
=============================================================================
