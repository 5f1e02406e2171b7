----------------------------- MODULE LockUnlock -----------------------------
(***************************************************************************)
(* The lock-screen unlock feature of the menu-bar app: the policy of one   *)
(* lock cycle (LockUnlockPolicy.swift), the coordinator that reacts to the *)
(* session's notifications, scans on a background thread and submits the   *)
(* saved password (LockUnlockCoordinator.swift), the typer that posts the  *)
(* key events, and the password item (LockPasswordStore.swift).            *)
(*                                                                         *)
(* All handlers of the coordinator run on the main thread, one at a time;  *)
(* each is one action.  Three things happen beside it: macOS locks and     *)
(* unlocks the session and delivers the two notifications some time later, *)
(* in order; the background worker of a scan takes any time; and timers    *)
(* fire some time after they are armed.  The typer sleeps on the main      *)
(* thread, so its three moments (first checks, second check, key events)   *)
(* are separate actions between which no other handler runs but macOS may  *)
(* lock or unlock the session.                                             *)
(***************************************************************************)
EXTENDS Naturals, Sequences

CONSTANTS
    FailureLimit,   \* failed recognitions that suspend a cycle (the code: 3)
    MaxSteps        \* bound on the number of environment steps

ASSUME LockUnlockAssumption ==
    /\ FailureLimit \in Nat \ {0}
    /\ MaxSteps \in Nat

VARIABLES
    \* The world outside the coordinator.
    osLocked,       \* CGSSessionScreenIsLocked
    inbox,          \* screenIsLocked / screenIsUnlocked not delivered yet
    axTrusted,      \* AXIsProcessTrusted()
    stored,         \* the keychain holds the login password
    enrolled,       \* an embeddings file exists
    enabled,        \* Settings.shared.lockUnlockEnabled
    steps,          \* environment steps taken so far
    \* The coordinator.
    boot,           \* progress of start(): "off", "read" or "on"
    state,          \* the published LockUnlockState
    locked, displayAwake, failures, submitted, generation,
    workers,        \* scans started and not yet answered on the main thread
    typing,         \* what the typer is doing on the main thread
    retryTimers,    \* attempts whose 6 s retry is armed
    suspendTimers,  \* attempts whose 3 s suspension is armed
    waitingTimers,  \* number of armed 1.5 s "waiting" timers
    \* History, read by the properties only.
    typedInCycle,   \* times the password was typed since beginLockCycle
    relocked,       \* didLock ran again before any unlock was seen
    unheard         \* a right or the face made it ready in this locked period

osVars == <<osLocked, inbox>>
setupVars == <<axTrusted, stored, enrolled>>
policyVars == <<failures, submitted>>
timerVars == <<retryTimers, suspendTimers, waitingTimers>>
historyVars == <<typedInCycle, relocked, unheard>>
vars == <<osVars, setupVars, enabled, steps, boot, state, locked, displayAwake,
          policyVars, generation, workers, typing, timerVars, historyVars>>

States == {"disabled", "waiting", "scanning", "matched", "submitting",
           "unlocked", "failed", "suspended", "unavailable"}

Notification == {"screenIsLocked", "screenIsUnlocked"}

(* A worker carries the attempt number its closure captured; thisCycle is  *)
(* history: no lock cycle has begun since the scan was started.            *)
Worker == [attempt : Nat, thisCycle : BOOLEAN]
NewScan(a) == [attempt |-> a, thisCycle |-> TRUE]
NotTyping == [at |-> "idle", attempt |-> 0]

TypeOK ==
    /\ osLocked \in BOOLEAN
    /\ inbox \in Seq(Notification)
    /\ axTrusted \in BOOLEAN /\ stored \in BOOLEAN /\ enrolled \in BOOLEAN
    /\ enabled \in BOOLEAN
    /\ steps \in Nat
    /\ boot \in {"off", "read", "on"}
    /\ state \in States
    /\ locked \in BOOLEAN /\ displayAwake \in BOOLEAN
    /\ failures \in Nat
    /\ submitted \in BOOLEAN
    /\ generation \in Nat
    /\ workers \subseteq Worker
    /\ typing \in [at : {"idle", "waking", "posting"}, attempt : Nat]
    /\ retryTimers \subseteq Nat
    /\ suspendTimers \subseteq Nat
    /\ waitingTimers \in Nat
    /\ typedInCycle \in Nat
    /\ relocked \in BOOLEAN /\ unheard \in BOOLEAN

Init ==
    /\ osLocked \in BOOLEAN
    /\ inbox = <<>>
    /\ axTrusted \in BOOLEAN
    /\ stored \in BOOLEAN
    /\ enrolled \in BOOLEAN
    /\ enabled \in BOOLEAN
    /\ steps = 0
    /\ boot = "off"
    /\ state = "disabled"
    /\ locked = FALSE
    /\ displayAwake = TRUE
    /\ failures = 0
    /\ submitted = FALSE
    /\ generation = 0
    /\ workers = {}
    /\ typing = NotTyping
    /\ retryTimers = {}
    /\ suspendTimers = {}
    /\ waitingTimers = 0
    /\ typedInCycle = 0
    /\ relocked = FALSE
    /\ unheard = FALSE

-----------------------------------------------------------------------------
(* The policy.                                                             *)

CanAttemptRecognition_OneTooMany == failures' <= FailureLimit /\ ~submitted'

CanAttemptRecognition == failures' < FailureLimit /\ ~submitted'

Aged(ws) == {[w EXCEPT !.thisCycle = FALSE] : w \in ws}

BeginLockCycle ==
    /\ failures' = 0
    /\ submitted' = FALSE
    /\ typedInCycle' = 0
    /\ unheard' = FALSE

-----------------------------------------------------------------------------
(* Pieces of the handlers.  They read the new (primed) value of whatever   *)
(* their caller has assigned before it calls them.                         *)

(* No handler runs while start() is halfway or the typer sleeps.           *)
MainIdle == boot = "on" /\ typing = NotTyping

PrerequisitesReady == axTrusted' /\ stored' /\ enrolled'

(* refresh(): what it leaves in "state" when it finds st there.            *)
Refreshed(st) ==
    CASE ~enabled' -> "disabled"
      [] enabled' /\ ~PrerequisitesReady -> "unavailable"
      [] enabled' /\ PrerequisitesReady /\ ~locked' -> "waiting"
      [] OTHER -> st

(* The guard of beginIfPossible(), after its refresh() of state st.         *)
ScanMayStart(st) ==
    /\ enabled' /\ PrerequisitesReady /\ locked' /\ displayAwake'
    /\ CanAttemptRecognition
    /\ Refreshed(st) # "scanning"

(* beginIfPossible(), entered with state st, generation gen and outstanding *)
(* workers ws.  It refreshes first, so a caller's own refresh() just before *)
(* it (the setter of "enabled", didBecomeActive, start) changes nothing.    *)
BeginIfPossible(st, gen, ws) ==
    \/ /\ ScanMayStart(st)
       /\ state' = "scanning"
       /\ generation' = gen + 1
       /\ workers' = ws \cup {NewScan(gen + 1)}
    \/ /\ ~ScanMayStart(st)
       /\ state' = Refreshed(st)
       /\ generation' = gen
       /\ workers' = ws

DidLock_KeepsGeneration ==
    /\ UNCHANGED <<setupVars, enabled, displayAwake, boot, typing, timerVars>>
    /\ locked' = TRUE
    /\ BeginLockCycle
    /\ relocked' = (relocked \/ locked)
    /\ BeginIfPossible(state, generation, Aged(workers))

DidLock ==
    /\ UNCHANGED <<setupVars, enabled, displayAwake, boot, typing, timerVars>>
    /\ locked' = TRUE
    /\ BeginLockCycle
    /\ relocked' = (relocked \/ locked)
    /\ BeginIfPossible(state, generation + 1, Aged(workers))

DidUnlock ==
    /\ UNCHANGED <<setupVars, enabled, displayAwake, boot, typing,
                   retryTimers, suspendTimers>>
    /\ locked' = FALSE
    /\ BeginLockCycle
    /\ relocked' = FALSE
    /\ generation' = generation + 1
    /\ workers' = Aged(workers)
    /\ state' = IF enabled THEN "unlocked" ELSE "disabled"
    /\ waitingTimers' = waitingTimers + 1

-----------------------------------------------------------------------------
(* start(), in its two halves: a notification posted between the read of   *)
(* the session's lock state and the registration of the observers is lost. *)

StartReadsLock ==
    /\ boot = "off"
    /\ boot' = "read"
    /\ locked' = osLocked
    /\ UNCHANGED <<osVars, setupVars, enabled, steps, state, displayAwake,
                   policyVars, generation, workers, typing, timerVars, historyVars>>

StartRegisters ==
    /\ boot = "read"
    /\ boot' = "on"
    /\ UNCHANGED <<osVars, setupVars, enabled, steps, locked, displayAwake,
                   policyVars, typing, timerVars, historyVars>>
    /\ BeginIfPossible(state, generation, workers)

(* The two distributed notifications, in the order macOS posted them.      *)
DeliverLocked ==
    /\ MainIdle
    /\ inbox # <<>> /\ Head(inbox) = "screenIsLocked"
    /\ inbox' = Tail(inbox)
    /\ UNCHANGED <<osLocked, steps>>
    /\ DidLock

DeliverUnlocked ==
    /\ MainIdle
    /\ inbox # <<>> /\ Head(inbox) = "screenIsUnlocked"
    /\ inbox' = Tail(inbox)
    /\ UNCHANGED <<osLocked, steps>>
    /\ DidUnlock

LoseNotification ==
    /\ boot # "on"
    /\ inbox # <<>>
    /\ inbox' = Tail(inbox)
    /\ UNCHANGED <<osLocked, setupVars, enabled, steps, boot, state, locked,
                   displayAwake, policyVars, generation, workers, typing,
                   timerVars, historyVars>>

(* The workspace's notifications that the code handles in place.           *)
ScreensDidSleep ==
    /\ MainIdle
    /\ displayAwake' = FALSE
    /\ UNCHANGED <<osVars, setupVars, enabled, boot, state, locked, policyVars,
                   generation, workers, typing, timerVars, historyVars>>

ScreensDidWake ==
    /\ MainIdle
    /\ displayAwake' = TRUE
    /\ UNCHANGED <<osVars, setupVars, enabled, boot, locked, policyVars, typing,
                   timerVars, historyVars>>
    /\ BeginIfPossible(state, generation, workers)

SessionDidResignActive ==
    /\ MainIdle
    /\ osLocked
    /\ UNCHANGED osVars
    /\ DidLock

SessionDidBecomeActive ==
    /\ MainIdle
    /\ ~osLocked
    /\ UNCHANGED osVars
    /\ DidUnlock

AppDidBecomeActive ==
    /\ MainIdle
    /\ UNCHANGED <<osVars, setupVars, enabled, boot, locked, displayAwake,
                   policyVars, typing, timerVars, historyVars>>
    /\ BeginIfPossible(state, generation, workers)

-----------------------------------------------------------------------------
(* The answer of a scan, on the main thread.                               *)

(* The handler's first guard: nobody starts or ends a cycle, or another    *)
(* scan, between a scan and the use of its answer.                         *)
AnswerIsCurrent(w) == w.attempt = generation /\ locked

DropAnswer(w) ==
    /\ MainIdle
    /\ ~AnswerIsCurrent(w)
    /\ workers' = workers \ {w}
    /\ UNCHANGED <<osVars, setupVars, enabled, steps, boot, state, locked,
                   displayAwake, policyVars, generation, typing, timerVars,
                   historyVars>>

ScanFailed_NoRetry(w) ==
    /\ MainIdle
    /\ AnswerIsCurrent(w)
    /\ workers' = workers \ {w}
    /\ failures' = failures + 1
    /\ state' = IF failures' >= FailureLimit THEN "suspended" ELSE "failed"
    /\ UNCHANGED <<osVars, setupVars, enabled, steps, boot, locked, displayAwake,
                   submitted, generation, typing, timerVars, historyVars>>

ScanFailed_KeepsState(w) ==
    /\ MainIdle
    /\ AnswerIsCurrent(w)
    /\ workers' = workers \ {w}
    /\ failures' = failures + 1
    /\ retryTimers' = IF failures' >= FailureLimit THEN retryTimers
                      ELSE retryTimers \cup {w.attempt}
    /\ UNCHANGED <<osVars, setupVars, enabled, steps, boot, state, locked,
                   displayAwake, submitted, generation, typing, suspendTimers,
                   waitingTimers, historyVars>>

ScanFailed(w) ==
    /\ MainIdle
    /\ AnswerIsCurrent(w)
    /\ workers' = workers \ {w}
    /\ failures' = failures + 1
    /\ state' = IF failures' >= FailureLimit THEN "suspended" ELSE "failed"
    /\ retryTimers' = IF failures' >= FailureLimit THEN retryTimers
                      ELSE retryTimers \cup {w.attempt}
    /\ UNCHANGED <<osVars, setupVars, enabled, steps, boot, locked, displayAwake,
                   submitted, generation, typing, suspendTimers, waitingTimers,
                   historyVars>>

(* A match: submitPassword claims the cycle's submission, loads the        *)
(* password and enters the typer.  Loading may fail for any keychain error,*)
(* and fails when nothing is stored; the typer refuses without the         *)
(* Accessibility right or when the session is not locked.                  *)
CanType == stored /\ axTrusted /\ osLocked

ClaimPasswordSubmission_Forgets == submitted' = submitted

ClaimPasswordSubmission == submitted' = TRUE

ScanMatched(w) ==
    /\ MainIdle
    /\ AnswerIsCurrent(w)
    /\ workers' = workers \ {w}
    /\ IF submitted
       THEN state' = "matched" /\ UNCHANGED <<submitted, typing>>
       ELSE /\ ClaimPasswordSubmission
            /\ \/ /\ CanType
                  /\ state' = "submitting"
                  /\ typing' = [at |-> "waking", attempt |-> w.attempt]
               \/ /\ state' = "suspended"
                  /\ typing' = typing
    /\ UNCHANGED <<osVars, setupVars, enabled, steps, boot, locked, displayAwake,
                   failures, generation, timerVars, historyVars>>

-----------------------------------------------------------------------------
(* AccessibilityPasswordTyper.submit after its first checks, and the rest  *)
(* of submitPassword.                                                      *)

ReturnFromTyper ==
    /\ typing' = NotTyping
    /\ suspendTimers' = suspendTimers \cup {typing.attempt}

TyperRechecks ==
    /\ typing.at = "waking"
    /\ \/ /\ osLocked
          /\ typing' = [typing EXCEPT !.at = "posting"]
          /\ UNCHANGED suspendTimers
       \/ /\ ~osLocked
          /\ ReturnFromTyper
    /\ UNCHANGED <<osVars, setupVars, enabled, steps, boot, state, locked,
                   displayAwake, policyVars, generation, workers, retryTimers,
                   waitingTimers, historyVars>>

TyperPosts ==
    /\ typing.at = "posting"
    /\ typedInCycle' = typedInCycle + 1
    /\ ReturnFromTyper
    /\ UNCHANGED <<osVars, setupVars, enabled, steps, boot, state, locked,
                   displayAwake, policyVars, generation, workers, retryTimers,
                   waitingTimers, relocked, unheard>>

(* CGEvent returned nil: the typer throws and submitPassword suspends.     *)
TyperCannotCreateEvents ==
    /\ typing.at = "posting"
    /\ typing' = NotTyping
    /\ state' = "suspended"
    /\ UNCHANGED <<osVars, setupVars, enabled, steps, boot, locked, displayAwake,
                   policyVars, generation, workers, timerVars, historyVars>>

-----------------------------------------------------------------------------
(* Timers.                                                                 *)

RetryTimerFires(a) ==
    /\ MainIdle
    /\ a \in retryTimers
    /\ retryTimers' = retryTimers \ {a}
    /\ UNCHANGED <<osVars, setupVars, enabled, steps, boot, locked, displayAwake,
                   policyVars, typing, suspendTimers, waitingTimers, historyVars>>
    /\ \/ /\ a = generation
          /\ BeginIfPossible(state, generation, workers)
       \/ /\ a # generation
          /\ UNCHANGED <<state, generation, workers>>

SuspendTimerFires(a) ==
    /\ MainIdle
    /\ a \in suspendTimers
    /\ suspendTimers' = suspendTimers \ {a}
    /\ state' = IF locked /\ a = generation THEN "suspended" ELSE state
    /\ UNCHANGED <<osVars, setupVars, enabled, steps, boot, locked, displayAwake,
                   policyVars, generation, workers, typing, retryTimers,
                   waitingTimers, historyVars>>

WaitingTimerFires ==
    /\ MainIdle
    /\ waitingTimers > 0
    /\ waitingTimers' = waitingTimers - 1
    /\ state' = IF locked THEN state ELSE IF enabled THEN "waiting" ELSE "disabled"
    /\ UNCHANGED <<osVars, setupVars, enabled, steps, boot, locked, displayAwake,
                   policyVars, generation, workers, typing, retryTimers,
                   suspendTimers, historyVars>>

-----------------------------------------------------------------------------
(* The user, in front of an unlocked session.                              *)

AtTheScreen == MainIdle /\ ~osLocked

SetEnabled ==
    /\ AtTheScreen
    /\ enabled' = ~enabled
    /\ UNCHANGED <<osVars, setupVars, boot, locked, displayAwake, policyVars,
                   typing, timerVars, historyVars>>
    /\ \/ enabled' /\ BeginIfPossible(state, generation, workers)
       \/ ~enabled' /\ state' = Refreshed(state) /\ UNCHANGED <<generation, workers>>

(* refresh() alone: the settings window appears, or one second has passed  *)
(* since the Accessibility prompt.                                         *)
RefreshShown ==
    /\ MainIdle
    /\ UNCHANGED <<osVars, setupVars, enabled, boot, locked, displayAwake,
                   policyVars, generation, workers, typing, timerVars, historyVars>>
    /\ state' = Refreshed(state)

SavePassword ==
    /\ AtTheScreen
    /\ stored' = TRUE
    /\ UNCHANGED <<osVars, axTrusted, enrolled, enabled, boot, locked,
                   displayAwake, policyVars, generation, workers, typing,
                   timerVars, historyVars>>
    /\ state' = Refreshed(state)

DeletePassword_NoRefresh ==
    /\ AtTheScreen
    /\ stored' = FALSE
    /\ enabled' = FALSE
    /\ generation' = generation + 1
    /\ UNCHANGED <<osVars, axTrusted, enrolled, boot, state, locked, displayAwake,
                   policyVars, workers, typing, timerVars, historyVars>>

DeletePassword ==
    /\ AtTheScreen
    /\ stored' = FALSE
    /\ enabled' = FALSE
    /\ generation' = generation + 1
    /\ UNCHANGED <<osVars, axTrusted, enrolled, boot, locked, displayAwake,
                   policyVars, workers, typing, timerVars, historyVars>>
    /\ state' = Refreshed(state)

(* The right is granted or revoked in System Settings; a face is enrolled  *)
(* or erased, which another session or a command may also do while this    *)
(* one is locked, and no handler hears of it; the uninstaller removes the  *)
(* password and turns the feature off from its own thread, without telling *)
(* the coordinator.                                                        *)
SetupChanges ==
    /\ \/ axTrusted' = ~axTrusted /\ UNCHANGED <<stored, enrolled, enabled>>
       \/ enrolled' = ~enrolled /\ UNCHANGED <<axTrusted, stored, enabled>>
    /\ unheard' = (unheard \/ (osLocked /\ PrerequisitesReady))
    /\ UNCHANGED <<osVars, boot, state, locked, displayAwake, policyVars,
                   generation, workers, typing, timerVars, typedInCycle, relocked>>

UninstallerWipesPassword ==
    /\ stored' = FALSE
    /\ enabled' = FALSE
    /\ UNCHANGED <<osVars, axTrusted, enrolled, boot, state, locked, displayAwake,
                   policyVars, generation, workers, typing, timerVars, historyVars>>

(* macOS locks or unlocks the session: by the user, by a timeout, or       *)
(* because the typed password was accepted.                                *)
OsLocks ==
    /\ ~osLocked
    /\ osLocked' = TRUE
    /\ inbox' = Append(inbox, "screenIsLocked")
    /\ UNCHANGED <<setupVars, enabled, boot, state, locked, displayAwake,
                   policyVars, generation, workers, typing, timerVars, historyVars>>

OsUnlocks ==
    /\ osLocked
    /\ osLocked' = FALSE
    /\ inbox' = Append(inbox, "screenIsUnlocked")
    /\ UNCHANGED <<setupVars, enabled, boot, state, locked, displayAwake,
                   policyVars, generation, workers, typing, timerVars, historyVars>>

(* The app dies at any moment and is started again: the coordinator's      *)
(* memory, its timers and the answers of its workers are gone.             *)
AppRestarts ==
    /\ boot' = "off"
    /\ state' = "disabled"
    /\ locked' = FALSE
    /\ displayAwake' = TRUE
    /\ BeginLockCycle
    /\ generation' = 0
    /\ workers' = {}
    /\ typing' = NotTyping
    /\ retryTimers' = {}
    /\ suspendTimers' = {}
    /\ waitingTimers' = 0
    /\ relocked' = FALSE
    /\ UNCHANGED <<osVars, setupVars, enabled>>

-----------------------------------------------------------------------------
EnvironmentStep ==
    \/ ScreensDidSleep \/ ScreensDidWake
    \/ SessionDidResignActive \/ SessionDidBecomeActive \/ AppDidBecomeActive
    \/ SetEnabled \/ RefreshShown \/ SavePassword \/ DeletePassword
    \/ SetupChanges \/ UninstallerWipesPassword
    \/ OsLocks \/ OsUnlocks \/ AppRestarts

Environment ==
    /\ steps < MaxSteps
    /\ steps' = steps + 1
    /\ EnvironmentStep

Starting == StartReadsLock \/ StartRegisters
Delivering == DeliverLocked \/ DeliverUnlocked \/ LoseNotification
Answering == \E w \in workers : DropAnswer(w) \/ ScanFailed(w) \/ ScanMatched(w)
Typing == TyperRechecks \/ TyperPosts \/ TyperCannotCreateEvents
TimerFires == \/ \E a \in retryTimers : RetryTimerFires(a)
              \/ \E a \in suspendTimers : SuspendTimerFires(a)
              \/ WaitingTimerFires

Next == Starting \/ Delivering \/ Answering \/ Typing \/ TimerFires \/ Environment

Spec == Init /\ [][Next]_vars

(* The main run loop keeps serving its queue, a worker always comes back   *)
(* (verify_client gives up after 120 s), an armed timer fires.  Nothing is *)
(* assumed of the user or of macOS beyond delivering what it has posted.   *)
Fairness ==
    /\ WF_vars(Starting)
    /\ WF_vars(Delivering)
    /\ WF_vars(Answering)
    /\ WF_vars(Typing)
    /\ WF_vars(\E a \in retryTimers : RetryTimerFires(a))
    /\ WF_vars(\E a \in suspendTimers : SuspendTimerFires(a))
    /\ WF_vars(WaitingTimerFires)

FairSpec == Spec /\ Fairness

-----------------------------------------------------------------------------
(* Properties.                                                             *)

(* An answer the main thread would still accept belongs to the lock cycle  *)
(* in force: every event that opens or closes a cycle makes the scans of   *)
(* the earlier ones stale, and no two scans carry the same attempt number. *)
OnlyFreshAnswersCount ==
    \A w \in workers :
        /\ AnswerIsCurrent(w) => w.thisCycle
        /\ \A v \in workers : v.attempt = w.attempt => v = w

(* The saved password is typed at most once per lock cycle, and the typer  *)
(* is never entered again once it was.                                     *)
TypedOncePerCycle ==
    /\ typedInCycle <= 1
    /\ typing # NotTyping => submitted /\ typedInCycle = 0

(* The published state "scanning" is backed by a scan whose answer will be *)
(* used, unless a second lock notification reached the same locked period. *)
ScanningIsBacked ==
    state = "scanning" /\ ~relocked => \E w \in workers : AnswerIsCurrent(w)

(* The label of the state "scanning" without that reservation.             *)
ScanningMeansScanning ==
    state = "scanning" => \E w \in workers : AnswerIsCurrent(w)

(* The inductive strengthening of the three invariants above.  The reason  *)
(* why they hold is AttemptsAreGuarded: the number a scan carries is never *)
(* above the generation, and the one scan that carries the generation was  *)
(* begun in this cycle with the budget open, and nothing has spent it.     *)
AttemptsAreGuarded ==
    /\ \A w \in workers : w.attempt <= generation
    /\ \A v, w \in workers : v.attempt = w.attempt => v = w
    /\ \A w \in workers : w.attempt = generation =>
          w.thisCycle /\ failures < FailureLimit /\ ~submitted

BootIsClean ==
    boot # "on" => /\ workers = {} /\ typing = NotTyping
                   /\ state = "disabled" /\ ~relocked

ScanningIsCurrent ==
    /\ relocked => locked
    /\ state = "scanning" /\ ~relocked =>
          locked /\ \E w \in workers : w.attempt = generation

TypingIsClaimed ==
    /\ typedInCycle \in {0, 1}
    /\ typedInCycle = 1 => submitted
    /\ typing # NotTyping => submitted /\ typedInCycle = 0

IInv == /\ TypeOK
        /\ AttemptsAreGuarded
        /\ BootIsClean
        /\ ScanningIsCurrent
        /\ TypingIsClaimed

(* While the session is locked, the feature is ready and the budget is     *)
(* open, the coordinator does not stall: it scans, or one of those stops   *)
(* being true.  A feature that becomes ready while the session is locked   *)
(* waits for the next event, for nothing tells the coordinator.            *)
ReadyToScan ==
    /\ boot = "on" /\ osLocked /\ locked /\ displayAwake
    /\ enabled /\ axTrusted /\ stored /\ enrolled
    /\ failures < FailureLimit /\ ~submitted /\ ~relocked /\ ~unheard

NoStall == []<>(ReadyToScan => state = "scanning")

(* A scan and a submission come to an end: neither label stays for ever,   *)
(* whichever answers and timers are dropped as stale.                      *)
LabelsSettle ==
    \A label \in {"scanning", "submitting"} :
        (state = label /\ ~relocked) ~> (state # label \/ relocked)

Budget == INSTANCE UnlockBudget WITH typed <- typedInCycle

(* The coordinator implements the abstract budget.                         *)
ImplementsBudget == Budget!BudgetSpec
=============================================================================
