------------------------- MODULE LockUnlock_proofs -------------------------
(***************************************************************************)
(* Proofs about the lock-screen coordinator, for every FailureLimit and    *)
(* every MaxSteps: type correctness, the inductive invariant IInv, the     *)
(* three safety invariants it implies, and that the coordinator implements *)
(* the abstract budget of one lock cycle (UnlockBudget).                   *)
(***************************************************************************)
EXTENDS LockUnlock, TLAPS

-----------------------------------------------------------------------------
(* Lemmas about the helpers.                                               *)

(* What a new scan carries.                                                *)
LEMMA NewScanFacts ==
  ASSUME NEW a \in Nat
  PROVE  /\ NewScan(a) \in Worker
         /\ NewScan(a).attempt = a
         /\ NewScan(a).thisCycle = TRUE
  BY DEF NewScan, Worker

(* Ageing the outstanding scans keeps their attempt numbers.               *)
LEMMA AgedFacts ==
  ASSUME NEW ws \in SUBSET Worker, NEW gen \in Nat,
         \A w \in ws : w.attempt <= gen,
         \A v, w \in ws : v.attempt = w.attempt => v = w
  PROVE  /\ \A w \in Aged(ws) : w.attempt <= gen
         /\ \A v, w \in Aged(ws) : v.attempt = w.attempt => v = w
  BY DEF Aged, Worker

(* Ageing keeps the workers workers.                                       *)
LEMMA AgedType ==
  ASSUME NEW ws \in SUBSET Worker
  PROVE  Aged(ws) \in SUBSET Worker
  BY DEF Aged, Worker

(* refresh() leaves one of the nine states.                                *)
LEMMA RefreshedType ==
  ASSUME NEW st \in States
  PROVE  Refreshed(st) \in States
  BY DEF Refreshed, States

(* beginIfPossible() keeps the types of what it assigns.                   *)
LEMMA BeginTypes ==
  ASSUME NEW st \in States, NEW gen \in Nat, NEW ws \in SUBSET Worker,
         BeginIfPossible(st, gen, ws)
  PROVE  /\ state' \in States
         /\ generation' \in Nat
         /\ workers' \subseteq Worker
<1>1. gen + 1 \in Nat
  OBVIOUS
<1>2. NewScan(gen + 1) \in Worker
  BY <1>1, NewScanFacts
<1>3. Refreshed(st) \in States /\ "scanning" \in States
  BY RefreshedType DEF States
<1>4. QED
  BY <1>1, <1>2, <1>3 DEF BeginIfPossible

(* beginIfPossible() leaves the attempts guarded, provided the ones it     *)
(* found were: it starts a scan only on an open budget, under a number     *)
(* that no other scan has.                                                 *)
LEMMA BeginKeepsGuard ==
  ASSUME NEW st \in States, NEW gen \in Nat, NEW ws \in SUBSET Worker,
         BeginIfPossible(st, gen, ws),
         failures' \in Nat, submitted' \in BOOLEAN,
         \A w \in ws : w.attempt <= gen,
         \A v, w \in ws : v.attempt = w.attempt => v = w,
         \A w \in ws : w.attempt = gen =>
            w.thisCycle /\ failures' < FailureLimit /\ ~submitted'
  PROVE  AttemptsAreGuarded'
<1>1. CASE ScanMayStart(st)
  <2>1. generation' = gen + 1 /\ workers' = ws \cup {NewScan(gen + 1)}
    BY <1>1 DEF BeginIfPossible
  <2>a. gen + 1 \in Nat
    OBVIOUS
  <2>2. /\ NewScan(gen + 1).attempt = gen + 1
        /\ NewScan(gen + 1).thisCycle = TRUE
    BY <2>a, NewScanFacts
  <2>3. \A w \in ws : w.attempt \in Nat /\ w.attempt <= gen
    BY DEF Worker
  <2>4. \A w \in ws : w.attempt # gen + 1
    BY <2>3
  <2>5. failures' < FailureLimit /\ ~submitted'
    BY <1>1 DEF ScanMayStart, CanAttemptRecognition
  <2>6. \A w \in workers' : w.attempt <= generation'
    BY <2>1, <2>2, <2>3
  <2>7. \A v, w \in workers' : v.attempt = w.attempt => v = w
    BY <2>1, <2>2, <2>4
  <2>8. \A w \in workers' : w.attempt = generation' =>
          w.thisCycle /\ failures' < FailureLimit /\ ~submitted'
    BY <2>1, <2>2, <2>4, <2>5
  <2>9. QED
    BY <2>6, <2>7, <2>8 DEF AttemptsAreGuarded
<1>2. CASE ~ScanMayStart(st)
  <2>1. generation' = gen /\ workers' = ws
    BY <1>2 DEF BeginIfPossible
  <2>2. QED
    BY <2>1 DEF AttemptsAreGuarded
<1>3. QED
  BY <1>1, <1>2

(* beginIfPossible() publishes "scanning" only with a scan behind it.      *)
LEMMA BeginBacksScanning ==
  ASSUME NEW st \in States, NEW gen \in Nat, NEW ws \in SUBSET Worker,
         BeginIfPossible(st, gen, ws),
         relocked' => locked',
         st = "scanning" /\ ~relocked' => \E w \in ws : w.attempt = gen
  PROVE  ScanningIsCurrent'
<1>1. CASE ScanMayStart(st)
  <2>1. generation' = gen + 1 /\ workers' = ws \cup {NewScan(gen + 1)}
    BY <1>1 DEF BeginIfPossible
  <2>a. gen + 1 \in Nat
    OBVIOUS
  <2>2. NewScan(gen + 1).attempt = gen + 1
    BY <2>a, NewScanFacts
  <2>3. locked'
    BY <1>1 DEF ScanMayStart
  <2>4. QED
    BY <2>1, <2>2, <2>3 DEF ScanningIsCurrent
<1>2. CASE ~ScanMayStart(st)
  <2>1. generation' = gen /\ workers' = ws /\ state' = Refreshed(st)
    BY <1>2 DEF BeginIfPossible
  <2>2. state' = "scanning" => st = "scanning" /\ locked'
    BY <2>1 DEF Refreshed
  <2>3. QED
    BY <2>1, <2>2 DEF ScanningIsCurrent
<1>3. QED
  BY <1>1, <1>2

-----------------------------------------------------------------------------
(* Every step keeps the types.                                             *)

(* The initial states have the right types.                                *)
LEMMA InitTypeOK == Init => TypeOK
<1> SUFFICES ASSUME Init PROVE TypeOK
  OBVIOUS
<1>1. typing \in [at : {"idle", "waking", "posting"}, attempt : Nat]
  BY DEF Init, NotTyping
<1>2. state \in States /\ boot \in {"off", "read", "on"}
  BY DEF Init, States
<1>3. inbox \in Seq(Notification)
  BY DEF Init
<1>4. /\ workers \subseteq Worker
      /\ retryTimers \subseteq Nat /\ suspendTimers \subseteq Nat
  BY DEF Init
<1>5. /\ steps \in Nat /\ generation \in Nat /\ waitingTimers \in Nat
      /\ typedInCycle \in Nat /\ failures \in Nat
  BY DEF Init
<1>6. QED
  BY <1>1, <1>2, <1>3, <1>4, <1>5, Zenon DEF Init, TypeOK

(* The handlers that end in beginIfPossible() without a new cycle.         *)
LEMMA BeginHandlerTypes ==
  ASSUME TypeOK,
         BeginIfPossible(state, generation, workers),
         UNCHANGED <<osLocked, inbox, setupVars, policyVars, typing,
                     suspendTimers, waitingTimers, historyVars>>,
         enabled' \in BOOLEAN, steps' \in Nat, displayAwake' \in BOOLEAN,
         UNCHANGED locked, boot' \in {"off", "read", "on"},
         retryTimers' \subseteq Nat
  PROVE  TypeOK'
<1>1. state \in States /\ generation \in Nat /\ workers \in SUBSET Worker
  BY DEF TypeOK
<1>2. state' \in States /\ generation' \in Nat /\ workers' \subseteq Worker
  BY <1>1, BeginTypes
<1>3. QED
  BY <1>2 DEF TypeOK, setupVars, policyVars, historyVars

(* didLock() keeps the types.                                              *)
LEMMA DidLockTypes ==
  ASSUME TypeOK, DidLock, UNCHANGED osLocked, steps' \in Nat,
         inbox' \in Seq(Notification)
  PROVE  TypeOK'
<1>1. state \in States /\ generation + 1 \in Nat /\ Aged(workers) \in SUBSET Worker
  BY AgedType DEF TypeOK
<1>2. BeginIfPossible(state, generation + 1, Aged(workers))
  BY DEF DidLock
<1>3. state' \in States /\ generation' \in Nat /\ workers' \subseteq Worker
  BY <1>1, <1>2, BeginTypes
<1>4. QED
  BY <1>3 DEF TypeOK, DidLock, BeginLockCycle, setupVars, timerVars

(* didUnlock() keeps the types.                                            *)
LEMMA DidUnlockTypes ==
  ASSUME TypeOK, DidUnlock, UNCHANGED osLocked, steps' \in Nat,
         inbox' \in Seq(Notification)
  PROVE  TypeOK'
<1>1. Aged(workers) \in SUBSET Worker /\ generation + 1 \in Nat
      /\ waitingTimers + 1 \in Nat
  BY AgedType DEF TypeOK
<1>2. state' \in States
  BY DEF DidUnlock, States
<1>3. QED
  BY <1>1, <1>2 DEF TypeOK, DidUnlock, BeginLockCycle, setupVars

(* Every step keeps the types.                                             *)
LEMMA StepTypeOK == TypeOK /\ [Next]_vars => TypeOK'
<1> SUFFICES ASSUME TypeOK, [Next]_vars PROVE TypeOK'
  OBVIOUS
<1> USE DEF osVars, setupVars, policyVars, timerVars, historyVars
<1>1. inbox # <<>> => Tail(inbox) \in Seq(Notification)
  BY DEF TypeOK
<1>2. CASE Starting
  <2>1. CASE StartReadsLock
    BY <2>1 DEF StartReadsLock, TypeOK
  <2>2. CASE StartRegisters
    BY <2>2, BeginHandlerTypes DEF StartRegisters, TypeOK
  <2>3. QED
    BY <1>2, <2>1, <2>2 DEF Starting
<1>3. CASE Delivering
  <2>1. CASE DeliverLocked
    BY <1>1, <2>1, DidLockTypes DEF DeliverLocked, TypeOK
  <2>2. CASE DeliverUnlocked
    BY <1>1, <2>2, DidUnlockTypes DEF DeliverUnlocked, TypeOK
  <2>3. CASE LoseNotification
    BY <2>3 DEF LoseNotification, TypeOK
  <2>4. QED
    BY <1>3, <2>1, <2>2, <2>3 DEF Delivering
<1>4. CASE Answering
  <2> PICK w \in workers : DropAnswer(w) \/ ScanFailed(w) \/ ScanMatched(w)
    BY <1>4 DEF Answering
  <2>1. w.attempt \in Nat
    BY DEF TypeOK, Worker
  <2>2. CASE DropAnswer(w)
    BY <2>2 DEF DropAnswer, TypeOK
  <2>3. CASE ScanFailed(w)
    <3>1. failures' \in Nat /\ state' \in States
      BY <2>3 DEF ScanFailed, TypeOK, States
    <3>2. workers' \subseteq Worker /\ retryTimers' \subseteq Nat
      BY <2>1, <2>3 DEF ScanFailed, TypeOK
    <3>3. QED
      BY <2>3, <3>1, <3>2 DEF ScanFailed, TypeOK
  <2>4. CASE ScanMatched(w)
    <3>1. state' \in States
      BY <2>4 DEF ScanMatched, States
    <3>2. typing' \in [at : {"idle", "waking", "posting"}, attempt : Nat]
      BY <2>1, <2>4 DEF ScanMatched, TypeOK
    <3>3. submitted' \in BOOLEAN
      BY <2>4 DEF ScanMatched, ClaimPasswordSubmission, TypeOK
    <3>4. QED
      BY <2>4, <3>1, <3>2, <3>3 DEF ScanMatched, TypeOK
  <2>5. QED
    BY <2>2, <2>3, <2>4
<1>5. CASE Typing
  <2>1. CASE TyperRechecks
    BY <2>1 DEF TyperRechecks, ReturnFromTyper, NotTyping, TypeOK
  <2>2. CASE TyperPosts
    <3>1. typing' \in [at : {"idle", "waking", "posting"}, attempt : Nat]
      BY <2>2 DEF TyperPosts, ReturnFromTyper, NotTyping
    <3>2. suspendTimers' \subseteq Nat
      BY <2>2 DEF TyperPosts, ReturnFromTyper, TypeOK
    <3>a. typedInCycle' \in Nat
      BY <2>2 DEF TyperPosts, TypeOK
    <3>3. QED
      BY <2>2, <3>1, <3>2, <3>a DEF TyperPosts, TypeOK
  <2>3. CASE TyperCannotCreateEvents
    BY <2>3 DEF TyperCannotCreateEvents, NotTyping, States, TypeOK
  <2>4. QED
    BY <1>5, <2>1, <2>2, <2>3 DEF Typing
<1>6. CASE TimerFires
  <2>1. ASSUME NEW a \in retryTimers, RetryTimerFires(a) PROVE TypeOK'
    <3>1. CASE a = generation
      BY <2>1, <3>1, BeginHandlerTypes DEF RetryTimerFires, TypeOK
    <3>2. CASE a # generation
      BY <2>1, <3>2 DEF RetryTimerFires, TypeOK
    <3>3. QED
      BY <3>1, <3>2
  <2>2. ASSUME NEW a \in suspendTimers, SuspendTimerFires(a) PROVE TypeOK'
    BY <2>2 DEF SuspendTimerFires, States, TypeOK
  <2>3. CASE WaitingTimerFires
    BY <2>3 DEF WaitingTimerFires, States, TypeOK
  <2>4. QED
    BY <1>6, <2>1, <2>2, <2>3 DEF TimerFires
<1>7. CASE Environment
  <2>0. steps' \in Nat
    BY <1>7 DEF Environment, TypeOK
  <2>1. CASE ScreensDidSleep
    <3>1. displayAwake' \in BOOLEAN
      BY <2>1 DEF ScreensDidSleep
    <3>2. QED
      BY <2>0, <2>1, <3>1 DEF ScreensDidSleep, TypeOK
  <2>2. CASE ScreensDidWake
    BY <2>0, <2>2, BeginHandlerTypes DEF ScreensDidWake, TypeOK
  <2>3. CASE SessionDidResignActive
    BY <2>0, <2>3, DidLockTypes DEF SessionDidResignActive, TypeOK
  <2>4. CASE SessionDidBecomeActive
    BY <2>0, <2>4, DidUnlockTypes DEF SessionDidBecomeActive, TypeOK
  <2>5. CASE AppDidBecomeActive
    BY <2>0, <2>5, BeginHandlerTypes DEF AppDidBecomeActive, TypeOK
  <2>6. CASE SetEnabled
    <3>1. CASE enabled' /\ BeginIfPossible(state, generation, workers)
      BY <2>0, <2>6, <3>1, BeginHandlerTypes DEF SetEnabled, TypeOK
    <3>2. CASE state' = Refreshed(state) /\ UNCHANGED <<generation, workers>>
      BY <2>0, <2>6, <3>2, RefreshedType DEF SetEnabled, TypeOK
    <3>3. QED
      BY <2>6, <3>1, <3>2 DEF SetEnabled
  <2>7. CASE RefreshShown
    BY <2>0, <2>7, RefreshedType DEF RefreshShown, TypeOK
  <2>8. CASE SavePassword
    BY <2>0, <2>8, RefreshedType DEF SavePassword, TypeOK
  <2>9. CASE DeletePassword
    <3>1. generation' \in Nat
      BY <2>9 DEF DeletePassword, TypeOK
    <3>2. state' \in States
      BY <2>9, RefreshedType DEF DeletePassword, TypeOK
    <3>3. stored' \in BOOLEAN /\ enabled' \in BOOLEAN
      BY <2>9 DEF DeletePassword
    <3>4. UNCHANGED <<osVars, axTrusted, enrolled, boot, locked, displayAwake,
                      policyVars, workers, typing, timerVars, historyVars>>
      BY <2>9 DEF DeletePassword
    <3>5. QED
      BY <2>0, <3>1, <3>2, <3>3, <3>4 DEF TypeOK
  <2>10. CASE SetupChanges
    <3>1. axTrusted' \in BOOLEAN
      BY <2>10, Zenon DEF SetupChanges, TypeOK
    <3>2. enrolled' \in BOOLEAN
      BY <2>10, Zenon DEF SetupChanges, TypeOK
    <3>3. stored' \in BOOLEAN /\ enabled' \in BOOLEAN
      BY <2>10, Zenon DEF SetupChanges, TypeOK
    <3>4. unheard' \in BOOLEAN
      BY <2>10, Zenon DEF SetupChanges, TypeOK
    <3>5. UNCHANGED <<osVars, boot, state, locked, displayAwake, policyVars, generation,
                      workers, typing, timerVars, typedInCycle, relocked>>
      BY <2>10 DEF SetupChanges
    <3>6. QED
      BY <2>0, <3>1, <3>2, <3>3, <3>4, <3>5 DEF TypeOK
  <2>11. CASE UninstallerWipesPassword
    <3>1. stored' \in BOOLEAN /\ enabled' \in BOOLEAN
      BY <2>11 DEF UninstallerWipesPassword
    <3>2. QED
      BY <2>0, <2>11, <3>1 DEF UninstallerWipesPassword, TypeOK
  <2>12. CASE OsLocks \/ OsUnlocks
    <3>1. /\ Append(inbox, "screenIsLocked") \in Seq(Notification)
          /\ Append(inbox, "screenIsUnlocked") \in Seq(Notification)
      BY DEF Notification, TypeOK
    <3>3. CASE OsLocks
      <4>1. osLocked' \in BOOLEAN /\ inbox' \in Seq(Notification)
        BY <3>1, <3>3 DEF OsLocks
      <4>2. QED
        BY <2>0, <3>3, <4>1 DEF OsLocks, TypeOK
    <3>4. CASE OsUnlocks
      <4>1. osLocked' \in BOOLEAN /\ inbox' \in Seq(Notification)
        BY <3>1, <3>4 DEF OsUnlocks
      <4>2. QED
        BY <2>0, <3>4, <4>1 DEF OsUnlocks, TypeOK
    <3>5. QED
      BY <2>12, <3>3, <3>4
  <2>13. CASE AppRestarts
    <3>1. /\ state' \in States /\ boot' \in {"off", "read", "on"}
          /\ typing' \in [at : {"idle", "waking", "posting"}, attempt : Nat]
      BY <2>13 DEF AppRestarts, States, NotTyping
    <3>2. QED
      BY <2>0, <2>13, <3>1 DEF AppRestarts, BeginLockCycle, TypeOK
  <2>14. QED
    BY <1>7, <2>1, <2>2, <2>3, <2>4, <2>5, <2>6, <2>7, <2>8, <2>9, <2>10,
       <2>11, <2>12, <2>13 DEF Environment, EnvironmentStep
<1>8. CASE UNCHANGED vars
  BY <1>8 DEF vars, TypeOK
<1>9. QED
  BY <1>2, <1>3, <1>4, <1>5, <1>6, <1>7, <1>8 DEF Next

(* Every variable of the coordinator keeps its type.                       *)
THEOREM TypeCorrect == Spec => []TypeOK
  BY InitTypeOK, StepTypeOK, PTL DEF Spec

-----------------------------------------------------------------------------
(* The inductive invariant, one lemma per conjunct.                        *)

(* The initial states satisfy the inductive invariant.                     *)
LEMMA InitIInv == Init => IInv
<1> SUFFICES ASSUME Init PROVE IInv
  OBVIOUS
<1>1. TypeOK
  BY InitTypeOK
<1>2. AttemptsAreGuarded /\ BootIsClean
  BY DEF Init, AttemptsAreGuarded, BootIsClean
<1>3. ScanningIsCurrent /\ TypingIsClaimed
  BY DEF Init, ScanningIsCurrent, TypingIsClaimed
<1>4. QED
  BY <1>1, <1>2, <1>3 DEF IInv

(* Before start() has finished there is nothing to answer, type or show.   *)
LEMMA StepBootIsClean ==
  ASSUME TypeOK, BootIsClean, Next
  PROVE  BootIsClean'
<1> USE DEF osVars, setupVars, policyVars, timerVars, historyVars
<1>1. CASE Starting
  BY <1>1 DEF Starting, StartReadsLock, StartRegisters, BootIsClean
<1>2. CASE LoseNotification
  BY <1>2 DEF LoseNotification, BootIsClean
<1>3. CASE Typing
  <2>1. boot = "on"
    BY <1>3 DEF Typing, TyperRechecks, TyperPosts, TyperCannotCreateEvents,
                BootIsClean, NotTyping
  <2>2. UNCHANGED boot
    BY <1>3 DEF Typing, TyperRechecks, TyperPosts, TyperCannotCreateEvents
  <2>3. QED
    BY <2>1, <2>2 DEF BootIsClean
<1>4. CASE SetupChanges \/ UninstallerWipesPassword \/ OsLocks \/ OsUnlocks
  <2>1. UNCHANGED <<boot, workers, state, typing, relocked>>
    BY <1>4 DEF SetupChanges, UninstallerWipesPassword, OsLocks, OsUnlocks
  <2>2. QED
    BY <2>1 DEF BootIsClean
<1>5. CASE AppRestarts
  BY <1>5 DEF AppRestarts, BootIsClean
<1>6. CASE MainIdle /\ UNCHANGED boot
  BY <1>6 DEF MainIdle, BootIsClean
<1>7. DeliverLocked \/ DeliverUnlocked \/ Answering \/ TimerFires
        => MainIdle /\ UNCHANGED boot
  BY DEF DeliverLocked, DeliverUnlocked, DidLock, DidUnlock, Answering,
         DropAnswer, ScanFailed, ScanMatched, TimerFires, RetryTimerFires,
         SuspendTimerFires, WaitingTimerFires
<1>8. ScreensDidSleep \/ ScreensDidWake \/ SessionDidResignActive
        \/ SessionDidBecomeActive \/ AppDidBecomeActive => MainIdle /\ UNCHANGED boot
  BY DEF ScreensDidSleep, ScreensDidWake, SessionDidResignActive, DidLock,
         SessionDidBecomeActive, DidUnlock, AppDidBecomeActive
<1>9. SetEnabled \/ RefreshShown \/ SavePassword \/ DeletePassword
        => MainIdle /\ UNCHANGED boot
  BY DEF SetEnabled, RefreshShown, SavePassword, DeletePassword, AtTheScreen
<1>10. QED
  BY <1>1, <1>2, <1>3, <1>4, <1>5, <1>6, <1>7, <1>8, <1>9
  DEF Next, Delivering, Environment, EnvironmentStep

(* The attempts stay guarded.                                              *)
LEMMA StepAttemptsAreGuarded ==
  ASSUME TypeOK, TypeOK', BootIsClean, AttemptsAreGuarded, Next
  PROVE  AttemptsAreGuarded'
<1> USE DEF osVars, setupVars, policyVars, timerVars, historyVars
<1>0. /\ state \in States /\ generation \in Nat /\ workers \in SUBSET Worker
      /\ failures' \in Nat /\ submitted' \in BOOLEAN
      /\ generation + 1 \in Nat /\ generation + 1 > generation
      /\ \A w \in workers : w.attempt \in Nat
  BY DEF TypeOK, Worker
<1>1. CASE UNCHANGED <<workers, generation, failures, submitted>>
  BY <1>1 DEF AttemptsAreGuarded
<1>2. CASE /\ BeginIfPossible(state, generation, workers)
           /\ UNCHANGED <<failures, submitted>>
  BY <1>0, <1>2, BeginKeepsGuard DEF AttemptsAreGuarded
<1>3. ASSUME NEW ws \in SUBSET Worker,
             \A w \in ws : w.attempt <= generation,
             \A v, w \in ws : v.attempt = w.attempt => v = w
      PROVE  \A w \in ws : w.attempt # generation + 1 /\ w.attempt <= generation + 1
  BY <1>0, <1>3 DEF Worker
<1>4. /\ Aged(workers) \in SUBSET Worker
      /\ \A w \in Aged(workers) : w.attempt <= generation
      /\ \A v, w \in Aged(workers) : v.attempt = w.attempt => v = w
  BY <1>0, AgedType, AgedFacts DEF AttemptsAreGuarded
<1>5. CASE DidLock
  <2>1. BeginIfPossible(state, generation + 1, Aged(workers))
    BY <1>5 DEF DidLock
  <2>2. \A w \in Aged(workers) : w.attempt # generation + 1 /\ w.attempt <= generation + 1
    BY <1>3, <1>4
  <2>3. QED
    BY <1>0, <1>4, <2>1, <2>2, BeginKeepsGuard
<1>6. CASE DidUnlock
  <2>1. workers' = Aged(workers) /\ generation' = generation + 1
    BY <1>6 DEF DidUnlock
  <2>2. QED
    BY <1>3, <1>4, <2>1 DEF AttemptsAreGuarded
<1>7. CASE DeletePassword
  <2>1. UNCHANGED <<workers, failures, submitted>> /\ generation' = generation + 1
    BY <1>7 DEF DeletePassword
  <2>2. \A w \in workers : w.attempt # generation + 1 /\ w.attempt <= generation + 1
    BY <1>0, <1>3 DEF AttemptsAreGuarded
  <2>3. QED
    BY <2>1, <2>2 DEF AttemptsAreGuarded
<1>8. CASE AppRestarts
  BY <1>8 DEF AppRestarts, AttemptsAreGuarded
<1>9. CASE Answering
  <2> PICK w \in workers : DropAnswer(w) \/ ScanFailed(w) \/ ScanMatched(w)
    BY <1>9 DEF Answering
  <2>1. workers' = workers \ {w} /\ UNCHANGED generation
    BY DEF DropAnswer, ScanFailed, ScanMatched
  <2>2. CASE UNCHANGED <<failures, submitted>>
    BY <2>1, <2>2 DEF AttemptsAreGuarded
  <2>3. CASE w.attempt = generation
    <3>1. \A v \in workers' : v.attempt # generation'
      BY <2>1, <2>3 DEF AttemptsAreGuarded
    <3>2. QED
      BY <2>1, <3>1 DEF AttemptsAreGuarded
  <2>4. QED
    BY <2>2, <2>3 DEF DropAnswer, ScanFailed, ScanMatched, AnswerIsCurrent
<1>10. CASE Starting
  BY <1>1, <1>2, <1>10 DEF Starting, StartReadsLock, StartRegisters
<1>11. CASE Delivering
  BY <1>1, <1>5, <1>6, <1>11
  DEF Delivering, DeliverLocked, DeliverUnlocked, LoseNotification
<1>12. CASE Typing
  BY <1>1, <1>12 DEF Typing, TyperRechecks, TyperPosts, TyperCannotCreateEvents
<1>13. CASE TimerFires
  BY <1>1, <1>2, <1>13
  DEF TimerFires, RetryTimerFires, SuspendTimerFires, WaitingTimerFires
<1>14. CASE ScreensDidSleep \/ RefreshShown \/ SavePassword \/ SetupChanges
            \/ UninstallerWipesPassword \/ OsLocks \/ OsUnlocks
  <2>1. UNCHANGED <<workers, generation, failures, submitted>>
    BY <1>14 DEF ScreensDidSleep, RefreshShown, SavePassword, SetupChanges,
                 UninstallerWipesPassword, OsLocks, OsUnlocks
  <2>2. QED
    BY <1>1, <2>1
<1>15. CASE ScreensDidWake \/ AppDidBecomeActive
  BY <1>2, <1>15 DEF ScreensDidWake, AppDidBecomeActive
<1>16. CASE SetEnabled
  BY <1>1, <1>2, <1>16 DEF SetEnabled
<1>17. CASE SessionDidResignActive \/ SessionDidBecomeActive
  BY <1>5, <1>6, <1>17 DEF SessionDidResignActive, SessionDidBecomeActive
<1>18. QED
  BY <1>7, <1>8, <1>9, <1>10, <1>11, <1>12, <1>13, <1>14, <1>15, <1>16, <1>17
  DEF Next, Environment, EnvironmentStep

(* "scanning" stays backed by the current scan.                            *)
LEMMA StepScanningIsCurrent ==
  ASSUME TypeOK, TypeOK', BootIsClean, AttemptsAreGuarded, ScanningIsCurrent, Next
  PROVE  ScanningIsCurrent'
<1> USE DEF osVars, setupVars, policyVars, timerVars, historyVars
<1>0. /\ state \in States /\ generation \in Nat /\ workers \in SUBSET Worker
      /\ generation + 1 \in Nat /\ Aged(workers) \in SUBSET Worker
  BY AgedType DEF TypeOK
<1>1. CASE /\ UNCHANGED <<workers, generation, locked, relocked>>
           /\ state' = "scanning" => state = "scanning"
  BY <1>1 DEF ScanningIsCurrent
<1>2. CASE /\ BeginIfPossible(state, generation, workers)
           /\ UNCHANGED <<locked, relocked>>
  <2>1. relocked' => locked'
    BY <1>2 DEF ScanningIsCurrent
  <2>2. state = "scanning" /\ ~relocked' => \E w \in workers : w.attempt = generation
    BY <1>2 DEF ScanningIsCurrent
  <2>3. QED
    BY <1>0, <1>2, <2>1, <2>2, BeginBacksScanning
<1>3. CASE DidLock
  <2>1. BeginIfPossible(state, generation + 1, Aged(workers))
    BY <1>3 DEF DidLock
  <2>2. relocked' => locked'
    BY <1>3 DEF DidLock
  <2>3. ~(state = "scanning" /\ ~relocked')
    BY <1>3 DEF DidLock, ScanningIsCurrent
  <2>4. QED
    BY <1>0, <2>1, <2>2, <2>3, BeginBacksScanning
<1>4. CASE DidUnlock
  BY <1>4 DEF DidUnlock, ScanningIsCurrent
<1>5. CASE Answering
  <2> PICK w \in workers : DropAnswer(w) \/ ScanFailed(w) \/ ScanMatched(w)
    BY <1>5 DEF Answering
  <2>1. workers' = workers \ {w} /\ UNCHANGED <<generation, locked, relocked>>
    BY DEF DropAnswer, ScanFailed, ScanMatched
  <2>2. CASE DropAnswer(w)
    <3>1. state' = state /\ (w.attempt # generation \/ ~locked)
      BY <2>2 DEF DropAnswer, AnswerIsCurrent
    <3>2. QED
      BY <2>1, <3>1 DEF ScanningIsCurrent
  <2>3. CASE ScanFailed(w) \/ ScanMatched(w)
    <3>1. state' # "scanning"
      BY <2>3 DEF ScanFailed, ScanMatched
    <3>2. QED
      BY <2>1, <3>1 DEF ScanningIsCurrent
  <2>4. QED
    BY <2>2, <2>3
<1>6. CASE Starting
  <2>1. CASE StartReadsLock
    BY <2>1 DEF StartReadsLock, BootIsClean, ScanningIsCurrent, TypeOK
  <2>2. CASE StartRegisters
    BY <1>2, <2>2 DEF StartRegisters
  <2>3. QED
    BY <1>6, <2>1, <2>2 DEF Starting
<1>7. CASE Delivering
  BY <1>1, <1>3, <1>4, <1>7
  DEF Delivering, DeliverLocked, DeliverUnlocked, LoseNotification
<1>8. CASE Typing
  BY <1>1, <1>8 DEF Typing, TyperRechecks, TyperPosts, TyperCannotCreateEvents
<1>9. CASE TimerFires
  BY <1>1, <1>2, <1>9
  DEF TimerFires, RetryTimerFires, SuspendTimerFires, WaitingTimerFires
<1>10. CASE ScreensDidSleep \/ SetupChanges \/ UninstallerWipesPassword
            \/ OsLocks \/ OsUnlocks
  BY <1>1, <1>10 DEF ScreensDidSleep, SetupChanges, UninstallerWipesPassword,
                     OsLocks, OsUnlocks
<1>11. CASE RefreshShown \/ SavePassword
  BY <1>1, <1>11 DEF RefreshShown, SavePassword, Refreshed
<1>12. CASE DeletePassword
  <2>1. UNCHANGED <<locked, relocked>> /\ state' = "disabled"
    BY <1>12 DEF DeletePassword, Refreshed
  <2>2. QED
    BY <2>1 DEF ScanningIsCurrent
<1>13. CASE SetEnabled
  BY <1>1, <1>2, <1>13 DEF SetEnabled, Refreshed
<1>14. CASE ScreensDidWake \/ AppDidBecomeActive
  BY <1>2, <1>14 DEF ScreensDidWake, AppDidBecomeActive
<1>15. CASE SessionDidResignActive \/ SessionDidBecomeActive
  BY <1>3, <1>4, <1>15 DEF SessionDidResignActive, SessionDidBecomeActive
<1>16. CASE AppRestarts
  BY <1>16 DEF AppRestarts, ScanningIsCurrent
<1>17. QED
  BY <1>5, <1>6, <1>7, <1>8, <1>9, <1>10, <1>11, <1>12, <1>13, <1>14, <1>15, <1>16
  DEF Next, Environment, EnvironmentStep

(* The typer runs only on a claimed submission, once.                      *)
LEMMA StepTypingIsClaimed ==
  ASSUME TypeOK, AttemptsAreGuarded, TypingIsClaimed, Next
  PROVE  TypingIsClaimed'
<1> USE DEF osVars, setupVars, policyVars, timerVars, historyVars
<1>1. CASE UNCHANGED <<typing, submitted, typedInCycle>>
  BY <1>1 DEF TypingIsClaimed
<1>2. CASE MainIdle /\ BeginLockCycle /\ UNCHANGED typing
  BY <1>2 DEF BeginLockCycle, MainIdle, TypingIsClaimed
<1>3. CASE AppRestarts
  BY <1>3 DEF AppRestarts, BeginLockCycle, TypingIsClaimed
<1>4. CASE Typing
  <2>1. typing # NotTyping
    BY <1>4 DEF Typing, TyperRechecks, TyperPosts, TyperCannotCreateEvents, NotTyping
  <2>2. submitted /\ typedInCycle = 0 /\ UNCHANGED submitted
    BY <1>4, <2>1 DEF Typing, TyperRechecks, TyperPosts, TyperCannotCreateEvents,
                      TypingIsClaimed
  <2>3. CASE TyperPosts
    <3>1. typedInCycle' = 1 /\ typing' = NotTyping
      BY <2>2, <2>3 DEF TyperPosts, ReturnFromTyper
    <3>2. QED
      BY <2>2, <3>1 DEF TypingIsClaimed
  <2>4. CASE UNCHANGED typedInCycle
    BY <2>2, <2>4 DEF TypingIsClaimed
  <2>5. QED
    BY <1>4, <2>3, <2>4 DEF Typing, TyperRechecks, TyperCannotCreateEvents
<1>5. CASE Answering
  <2> PICK w \in workers : DropAnswer(w) \/ ScanFailed(w) \/ ScanMatched(w)
    BY <1>5 DEF Answering
  <2>1. CASE DropAnswer(w) \/ ScanFailed(w)
    BY <1>1, <2>1 DEF DropAnswer, ScanFailed
  <2>2. CASE ScanMatched(w)
    <3>1. ~submitted
      BY <2>2 DEF ScanMatched, AnswerIsCurrent, AttemptsAreGuarded
    <3>2. submitted' /\ UNCHANGED typedInCycle
      BY <2>2, <3>1 DEF ScanMatched, ClaimPasswordSubmission
    <3>3. QED
      BY <3>1, <3>2 DEF TypingIsClaimed
  <2>3. QED
    BY <2>1, <2>2
<1>6. CASE Starting
  BY <1>1, <1>6 DEF Starting, StartReadsLock, StartRegisters
<1>7. CASE Delivering
  BY <1>1, <1>2, <1>7 DEF Delivering, DeliverLocked, DeliverUnlocked, DidLock,
                          DidUnlock, LoseNotification
<1>8. CASE TimerFires
  BY <1>1, <1>8 DEF TimerFires, RetryTimerFires, SuspendTimerFires, WaitingTimerFires
<1>9. CASE SessionDidResignActive \/ SessionDidBecomeActive
  BY <1>2, <1>9 DEF SessionDidResignActive, DidLock, SessionDidBecomeActive, DidUnlock
<1>10. CASE ScreensDidSleep \/ ScreensDidWake \/ AppDidBecomeActive \/ SetEnabled
             \/ RefreshShown \/ SavePassword \/ DeletePassword
  BY <1>1, <1>10 DEF ScreensDidSleep, ScreensDidWake, AppDidBecomeActive, SetEnabled,
                     RefreshShown, SavePassword, DeletePassword
<1>11. CASE SetupChanges \/ UninstallerWipesPassword \/ OsLocks \/ OsUnlocks
  BY <1>1, <1>11 DEF SetupChanges, UninstallerWipesPassword, OsLocks, OsUnlocks
<1>12. QED
  BY <1>3, <1>4, <1>5, <1>6, <1>7, <1>8, <1>9, <1>10, <1>11
  DEF Next, Environment, EnvironmentStep

(* Every step keeps the inductive invariant.                               *)
LEMMA StepIInv == IInv /\ [Next]_vars => IInv'
<1>1. CASE IInv /\ Next
  BY <1>1, StepTypeOK, StepBootIsClean, StepAttemptsAreGuarded,
     StepScanningIsCurrent, StepTypingIsClaimed DEF IInv
<1>2. CASE IInv /\ UNCHANGED vars
  <2>1. TypeOK'
    BY <1>2, StepTypeOK DEF IInv
  <2>2. QED
    BY <1>2, <2>1 DEF IInv, vars, osVars, setupVars, policyVars, timerVars,
       historyVars, AttemptsAreGuarded, BootIsClean, ScanningIsCurrent,
       TypingIsClaimed
<1>3. QED
  BY <1>1, <1>2

(* The inductive invariant holds of every behaviour.                       *)
THEOREM InductiveInvariant == Spec => []IInv
  BY InitIInv, StepIInv, PTL DEF Spec

-----------------------------------------------------------------------------
(* The safety invariants.                                                  *)

(* A scan's answer that would still be used belongs to the lock cycle in   *)
(* force (the generation guard of the answer's handler is sufficient).     *)
THEOREM FreshAnswers == Spec => []OnlyFreshAnswersCount
<1>1. IInv => OnlyFreshAnswersCount
  BY DEF IInv, AttemptsAreGuarded, OnlyFreshAnswersCount, AnswerIsCurrent
<1>2. QED
  BY <1>1, InductiveInvariant, PTL

(* The password is typed at most once per lock cycle.                      *)
THEOREM AtMostOneTyping == Spec => []TypedOncePerCycle
<1>1. IInv => TypedOncePerCycle
  BY DEF IInv, TypingIsClaimed, TypedOncePerCycle
<1>2. QED
  BY <1>1, InductiveInvariant, PTL

(* "scanning" is backed by a scan unless a second lock notification came.  *)
THEOREM BackedScanning == Spec => []ScanningIsBacked
<1>1. IInv => ScanningIsBacked
  BY DEF IInv, ScanningIsCurrent, ScanningIsBacked, AnswerIsCurrent
<1>2. QED
  BY <1>1, InductiveInvariant, PTL

-----------------------------------------------------------------------------
(* Refinement of the abstract budget.                                      *)

(* Every step of the coordinator is a step of the budget or leaves it.     *)
LEMMA StepBudget == IInv /\ [Next]_vars => [Budget!BudgetNext]_(Budget!budgetVars)
<1> SUFFICES ASSUME IInv, [Next]_vars
             PROVE  [Budget!BudgetNext]_(Budget!budgetVars)
  OBVIOUS
<1> USE DEF osVars, setupVars, policyVars, timerVars, historyVars
<1>1. CASE UNCHANGED <<failures, submitted, typedInCycle>>
  BY <1>1 DEF Budget!budgetVars
<1>2. CASE BeginLockCycle
  BY <1>2 DEF BeginLockCycle, Budget!BudgetNext, Budget!NewCycle
<1>3. CASE Answering
  <2> PICK w \in workers : DropAnswer(w) \/ ScanFailed(w) \/ ScanMatched(w)
    BY <1>3 DEF Answering
  <2>1. CASE DropAnswer(w)
    BY <1>1, <2>1 DEF DropAnswer
  <2>2. CASE ScanFailed(w) \/ ScanMatched(w)
    <3>1. Budget!Open
      BY <2>2 DEF ScanFailed, ScanMatched, AnswerIsCurrent, IInv,
                  AttemptsAreGuarded, Budget!Open
    <3>2. ScanFailed(w) => Budget!CountFailure
      BY <3>1 DEF ScanFailed, Budget!CountFailure
    <3>3. ScanMatched(w) => Budget!Claim
      BY <3>1 DEF ScanMatched, ClaimPasswordSubmission, Budget!Claim, Budget!Open
    <3>4. QED
      BY <2>2, <3>2, <3>3 DEF Budget!BudgetNext
  <2>3. QED
    BY <2>1, <2>2
<1>4. CASE Typing
  <2>1. CASE TyperPosts
    <3>1. submitted /\ typedInCycle = 0
      BY <2>1 DEF TyperPosts, NotTyping, IInv, TypingIsClaimed
    <3>2. Budget!TypePassword
      BY <2>1, <3>1 DEF TyperPosts, Budget!TypePassword
    <3>3. QED
      BY <3>2 DEF Budget!BudgetNext
  <2>2. CASE TyperRechecks \/ TyperCannotCreateEvents
    BY <1>1, <2>2 DEF TyperRechecks, TyperCannotCreateEvents
  <2>3. QED
    BY <1>4, <2>1, <2>2 DEF Typing
<1>5. CASE Starting
  BY <1>1, <1>5 DEF Starting, StartReadsLock, StartRegisters
<1>6. CASE Delivering
  BY <1>1, <1>2, <1>6 DEF Delivering, DeliverLocked, DeliverUnlocked, DidLock,
                          DidUnlock, LoseNotification
<1>7. CASE TimerFires
  BY <1>1, <1>7 DEF TimerFires, RetryTimerFires, SuspendTimerFires, WaitingTimerFires
<1>8. CASE SessionDidResignActive \/ SessionDidBecomeActive \/ AppRestarts
  BY <1>2, <1>8 DEF SessionDidResignActive, DidLock, SessionDidBecomeActive,
                    DidUnlock, AppRestarts
<1>9. CASE ScreensDidSleep \/ ScreensDidWake \/ AppDidBecomeActive \/ SetEnabled
            \/ RefreshShown \/ SavePassword \/ DeletePassword
  BY <1>1, <1>9 DEF ScreensDidSleep, ScreensDidWake, AppDidBecomeActive, SetEnabled,
                    RefreshShown, SavePassword, DeletePassword
<1>10. CASE SetupChanges \/ UninstallerWipesPassword \/ OsLocks \/ OsUnlocks
  BY <1>1, <1>10 DEF SetupChanges, UninstallerWipesPassword, OsLocks, OsUnlocks
<1>11. CASE UNCHANGED vars
  BY <1>1, <1>11 DEF vars
<1>12. QED
  BY <1>3, <1>4, <1>5, <1>6, <1>7, <1>8, <1>9, <1>10, <1>11
  DEF Next, Environment, EnvironmentStep

(* The coordinator implements the abstract budget of a lock cycle: no      *)
(* failure is counted and nothing is claimed on a spent budget, and the    *)
(* password is typed at most once, after the claim.                        *)
THEOREM UnlockImplementsBudget == Spec => ImplementsBudget
<1>1. Init => Budget!BudgetInit
  BY DEF Init, Budget!BudgetInit
<1>2. QED
  BY <1>1, StepBudget, InductiveInvariant, PTL
  DEF Spec, ImplementsBudget, Budget!BudgetSpec
=============================================================================
