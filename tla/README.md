# Mac-FaceID in TLA+

Specifications of the behaviour of Mac-FaceID (FaceKey): the recognition daemon
and the enrolment program in Python, their clients in C and Swift, and the menu-bar
app that starts them, sets them up and unlocks the lock screen.  Every definition is
translated from the source; `PROJECT.json` gives, for each one, the lines it stands
for.  TLC checks the specifications on small instances and TLAPS proves the most
important results for every value of the constants.

    tlc -workers 2 -config LockUnlock_cycle.cfg MC_LockUnlock
    tlapm LockUnlock_proofs.tla

## 1. The system

| Part | State it keeps | Operations | Talks to |
|---|---|---|---|
| Daemon, requests (`faceid/daemon.py`) | accept queue, used nonces, the lock `_active_request` | ping, verify, lock-verify, authorize (panel, then scan) | one Unix socket; one connection at a time |
| Daemon, scans (`faceid/daemon.py`, `camera.py`) | frames, matches, the cancellation event | warm-up, loop over frames, capsule start and finish | camera helper and capsule over pipes; a watcher thread per capsule |
| Enrolment (`faceid/enroll.py`, `storage.py`) | encrypted file, its key in the keychain; the daemon's cached copy | capture, replace or append, load, save, reload when the file changed | file system, `security` |
| Recogniser, diagnosis (`faceid/recognizer.py`, `diag.py`, `selftest.py`) | two neural networks | detect, embed, cosine; count and advise | camera helper |
| Configuration, translations (`faceid/config.py`, `scripts/make_i18n.py`, `packaging/faceid_entry.py`, `menubar/Branding.swift`) | none | environment, language and arguments of a process | app, engine |
| PAM module (`pam/pam_faceid.c`) | none | ask once, wait with a timeout, anything but OK is a refusal | daemon |
| `verify_client.py` | none | one request for the lock screen | daemon |
| FaceKeyKit (`sdk/`) | none | one request with nonce and expiry; maps the answer | daemon |
| Lock-screen coordinator (`menubar/LockUnlock*.swift`, `LockPasswordStore.swift`) | published state, policy (failures, submission), generation, timers | lock and unlock notifications, sleep, session switch, settings, scan answers, typing the password | macOS notifications, keychain, a worker per scan |
| App and daemon supervision (`menubar/FaceIDApp.swift`) | the daemon process, a pending restart | start, stop, restart, exit handler, relaunch from Applications | daemon process |
| Enrolment window (`menubar/Onboarding.swift`) | phase, count, process | begin, cancel, events, termination | enrolment process over a pipe |
| Setup assistant (`SetupFlow.swift`, `SetupSheet.swift`) | step, pending requests | next, retry, poll | privileged helper, enrolment window |
| Privileged helper (`helpertool/`, `HelperManager.swift`) | registration, XPC connection | enable and disable sudo, version, refresh | launchd, PAM scripts |
| PAM configuration (`scripts/pam-*.sh`, `packaging/pkg`) | module file, `sudo_local`, backups | install, repair, uninstall | root file system |
| Uninstaller (`menubar/Uninstaller.swift`) | none | rule, helper, login item, password, data, key, quit | most of the above |
| Capsule and panels (`helpers/*.swift`) | scanning, ending | success, failure, click, own timeout | daemon over pipes |

What is hard here, and hence what the properties are about:

* *Late answers.* Scans, timers, capsules, watchers and clients all outlive the
  request or the lock cycle they were started for.
* *Shared locks and tables.* The lock of an authorisation and the bounded nonce
  table must survive every way out of a handler.
* *One thread for everybody.* Silent, dead and impatient clients share the
  daemon's only thread with those who wait.
* *Check, then act.* The expiry, the lock state, the cancellation event, the
  modification time and the existing enrolment are looked at before they are used.
* *Several processes on one file.* Enrolments, daemon and uninstaller share a
  file, its temporary path and a keychain item, without a lock.
* *Restarts.* The daemon forgets its nonces, the app its budget and its window.
* *Processes that end.* The lines of a process, its end and what it did reach the
  app on different queues; daemons of two instances share one socket file.
* *Two programs, one language.* What the app writes into the environment, the
  engine reads; what a panel prints, the daemon compares with its own words.

`PROJECT.json` lists these hazards at their lines, with the properties that
cover them.

## 2. The modules

| Module | Models | Abstract specification | Proofs |
|---|---|---|---|
| `LockUnlock` | the coordinator, policy, typer and password item | `UnlockBudget` | `LockUnlock_proofs` |
| `Daemon` | accept loop, dispatch, method choice, action requests, clients, restarts | `AuthService` | `Daemon_proofs` |
| `FaceScan` | consecutive scans with camera, capsule and watcher | - | `FaceScan_proofs` |
| `Enrollment` | saving, loading, key, cache, erasure | `FaceStore` | `Enrollment_proofs` |
| `EnrollSession` | the enrolment window and its processes | - | `EnrollSession_proofs` |
| `Supervision` | the app as the supervisor of its daemon, several instances, the socket file | - | `Engine_proofs`, second half |
| `SetupFlow` | the setup assistant, the helper's calls, the uninstaller's system side | - | `SetupFlow_proofs` |
| `PamConfig` | the scripts that install and remove the PAM rule, and the chain that results | - | `PamConfig_proofs` |
| `Recognition` | what the engine computes: similarity, choice of the face, filter, diagnosis | - | `Engine_proofs` |
| `Launch` | environment, settings, arguments and language of a process | - | `Engine_proofs` |
| `Engine` | `Recognition` and `Launch` composed: programs of the engine, one after the other | - | `Engine_proofs` |

`MC_*` modules give the constants of the runs their values.

How they fit together: a part that one module does in one step is the matter of
another.

| One step in | is detailed in |
|---|---|
| `LockUnlock`: a worker answers | `Daemon` with `verify_client`, whose liveness is the fairness assumed of the worker |
| `Daemon`: a scan chooses a verdict | `FaceScan`: the step ends, when it says OK, how it is cancelled |
| `FaceScan`: a frame matches or does not; the enrolment is reloaded or raises | `Recognition`; `Enrollment` |
| `EnrollSession`: a process saves its face | `Enrollment`: key, temporary file, rename, cache |
| `Supervision`: a daemon starts, serves and ends | `Daemon`: what it does while it serves |
| `SetupFlow`: the helper writes or removes the rule, or fails having done so or not | `PamConfig`: the scripts, file by file |
| `Supervision`, `EnrollSession`: a process is started | `Launch`, `Engine`: with which arguments, environment and language |

Operators named `X_Something` next to a definition `X` are faulty variants of it.
No specification uses them: they show that the properties would notice.

### LockUnlock

All handlers of the coordinator run on the main queue, one at a time; each is one
action: `DidLock` and `DidUnlock` behind `DeliverLocked` and `DeliverUnlocked`,
`ScreensDidSleep`, `ScreensDidWake`, the two session notifications,
`AppDidBecomeActive`, the settings (`SetEnabled`, `SavePassword`,
`DeletePassword`, `RefreshShown`), the answers of the workers (`DropAnswer`,
`ScanFailed`, `ScanMatched`) and three kinds of timers.  What runs beside them is
nondeterministic: macOS locks and unlocks (`OsLocks`, `OsUnlocks`) and its two
notifications arrive later, in order; workers take any time; timers fire any time
after they are armed.  The typer sleeps *on* the main thread: `ScanMatched` makes
its first checks, `TyperRechecks` the second, `TyperPosts` posts the keys; between
them no handler runs but macOS may lock or unlock.  `start()` is two actions,
because the session may be locked between its read and its registration.

`workers` holds one record per scan in flight with the attempt number its
closure captured; `thisCycle`, `typedInCycle`, `relocked` and `unheard` are history.
The last one remembers that a right or an enrolment made the feature ready while the
session was locked (`SetupChanges`, by another program): nothing tells the coordinator, which
waits for its next event, and `NoStall` leaves that case out.

### Daemon

`pc` is the place of the daemon's only thread: `accept`, `recv`, `choose` (the
panel of a sudo request), `scan`, `touch`, `action` (the panel of an application),
`actionScan`, `send`, or `down`.  A client makes one request when it connects
(`Connect`), waits, may give up (`GiveUp`), and concludes from the answer
(`Conclude`), in the way of its kind: PAM, `verify_client`, FaceKeyKit, a program
that pings, one that sends junk, one that says nothing.  `AdmitAction` and
`RejectAction` are `_authorize_action`: expiry, nonce table, lock, in the order of
the code.  `Die` and `Start` are the end and the restart of the process.

### FaceScan

Each scan has a number; capsule, watcher and event are functions of it, because
they may outlive their scan.  Time is counted in seconds: a read waits up to
`SelectTime` (1.5 s) for each piece of its frame (`Piece`, a chunk in `_read_exact`),
everything else takes none.  The wait begins anew with every piece, so no number of
seconds bounds a read, only the number of pieces a frame has (`MaxPieces`: in the code
its bytes); `ScanIsBounded` says that a scan takes its budget and the time of its last
read, and the warm-up that of each of its reads.  `spent` runs from the start,
`elapsed` from the warm-up and again from `t0`, which the code takes after it.  A read
gives a matching frame, another frame, an exception or nothing; a helper that is
slow, dead or out of step with its framing gives nothing, for ever if it likes.  An
exception of the warm-up (`WarmUpRaises`) is outside the `try` that releases the
camera: the helper is then `"lost"`, that is, on and known to nobody.

### Enrollment

A face is known by the process that captured it.  Files are inodes, since all
savers write the same `.tmp` path: one may truncate or rename what another is
writing.  A saver creates one file at most, so the inode has the name of its creator,
and `NoFile` is the inode of a path that names nothing.  `storage._key()` is a lookup (`KeyFound`, `KeyNotFound`) and an
insertion (`AddKey`), between which other processes act; any failure of the lookup
leads to the insertion, as in the code.  `disturbed` is history: it remembers the
enrolments that overlapped another or an erasure, which the properties about
enrolments one after the other leave out.  `Promise` maps files and processes to the
abstract store: the set of faces in the file, where each enrolment is, whether the
data are being deleted.  Keys, inodes, temporary files and the daemon are not seen
there.  The daemon loads in `Boot` (file first,
modification time second) and in `MaybeReload` (time first, file second).  The
uninstaller removes the directory, then the key, then quits the app, which stops
the daemon.  Modification times are unique: two saves within the resolution of
the file system's clock are not modelled.  The removal of the directory succeeds.

### EnrollSession

A process writes lines into its pipe; the readability handler takes all there are
(`TakeLines`) and posts them one by one (`PostLine`), the termination handler
(`Terminated`) closes the pipe and posts its own item, both to the main queue,
which alone changes the window (`MainQueue`).  Opening the window again
(`OpenEnrollment`), `Retry`, `Begin` and quitting stop no process.  A permission
that was asked for starts a scan whenever it is given, in the mode the window has
then.  Lines that change only a count are left out; a write into the pipe of an app
that is gone ends the process.  `asked` is history: the mode the user last opened
the window for.

### Supervision

Each operation of `DaemonController` (`Start`, `Stop`, `IsRunning`) tells the app
and the processes after it; the handlers of the menu and of the settings window
are the actions.  Termination handlers and delayed items are the flags `refresh`
and `pending`, since what they do depends only on the state they find.  A starting
daemon looks for the socket file, removes it, binds, and listens in four steps,
between which another daemon may do the same.  `apps` and `daemons` only grow; a
dead process forgets its settings, so that no state differs by the dead.
`contended` is history: two daemons were at their start together.

### SetupFlow

`Advance` and what follows it tell the flow, the calls that are sent and the
registration; the actions are the user's (`Begin` for both ways of starting,
`Close`, the approvals), the timer's (`Tick`, `Deadline`) and the helper's:
`Answer(k)` does what the helper was asked, or fails having done it or not, and
`Handle(k)` is the completion on the main queue.  Calls are handled in any order.
The hop of a `Task` between a probe's answer and `conclude` is part of `Handle`.
`TurnOff` and `Uninstall` are the other buttons that reach the helper.  `window` is
what the settings show: the rule as of their last `Refresh`, and whether they are
busy.  `Begin` is the button of the banner, which looks at the former only: a sequence
may begin while a script is in flight or while the rule is there, and an
uninstallation while another one, or the script of a closed assistant, is.  `quiet` is
history: no script ran when the sequence began; the rule was not being written when
the uninstallation began, and the assistant was not started while its script was in
flight.

### PamConfig

A runner (a connection of the helper, the installer package, the user) goes
through one of four scripts, a step per change of a file; several runners may be
under way at once, since every connection of the helper has its own queue.  Files
are sequences of rules; one written in place is empty between its truncation and
its write, and two writers may cut each other's lines (`Written`).  `Others` is what
`grep -v` leaves of a file, line by line, and `Rewritten` what `awk` or `sed` makes of
sudo's.  `set -e` is
`Fails`: an uncaught failure ends the script, a caught one goes on as the script
does (`Caught`).  A `grep` that fails is one of those: `GrepLocalFails` takes what it
read so far, or nothing, for the whole of `sudo_local` (`|| true`), `GrepSudoFails` a
failure for "not there".  `spoilt` remembers the files a stopped or failing script left half-written,
`disturbed` the scripts that overlapped others, `unread` those whose grep of
`sudo_local` failed.  `Chain`, `Loads` and
`PasswordWorks` say what PAM makes of the files.

### Recognition, Launch, Engine

These are the computations.  An embedding is an integer vector of the plane; a
similarity is the signed square of the cosine in ten-thousandths, which orders
vectors as the cosine does, so the filter, the comparison with the enrolment and the
diagnosis take the decisions of the code without floating-point numbers.  A sort
that leaves the order of equal scores open gives a set of orders.  A locale is the
sequence of its subtags, a text is its key and its language: a translation that is
missing, a fallback and a wrong language are different values.  An environment is a
function on the names that are set, and `Merge` the `merging` of the app.  What the
user's own environment holds (`OwnEnvs`) is arbitrary, but that it does not name the
directories of the bundle, or another file of texts than the engine's; any of the twelve
numbers of `config.py` may be there, also with a text that is no number, for which
reading it raises (`valid`).  A diagnosis is run in a terminal and has a threshold of
its own (`Thresholds`); the daemon's may be on either side of the limits the diagnosis
calls good and fair.  `Engine` runs a
whole program in one step and keeps its inputs and outcome in `event`, about which
the properties speak with definitions of their own (the largest set of close samples,
the longest prefix of a locale, the faces that are accepted before and after).

## 3. What is checked

| Run | Question | Bounds |
|---|---|---|
| `LockUnlock_cycle` | Does only a fresh answer count, is the password typed at most once per cycle, is "scanning" backed by a scan, does the coordinator implement the budget?  Does it keep scanning while it is ready; does every label that announces something give way? | 4 environment steps, limit 3 |
| `LockUnlock_relock` | finding 1 | 3 environment steps |
| `Daemon_serves` | Are grants earned, is the lock released on every way out, is a nonce used once in one life; is the service implemented; is everybody answered? | 2 clients of every kind, 2 nonces, table of 1, queue of 1, 2 starts, clock to 2 |
| `FaceScan_scans` | Is OK earned by that very scan, is a cancellation its own and prompt, is the scan bounded in time?  Does every scan end, with the camera off unless the warm-up raised, and does every capsule go? | 2 scans, 3 frames of 2 pieces, 2 matches, budgets 2 and 1, waits of 1 |
| `Enrollment_saves` | Does the file stay readable, is the abstract store implemented (no face is lost, nothing changes when an enrolment fails), is no stale cache kept? | 2 enrolments, 1 failed lookup, 1 erasure, 2 boots |
| `Enrollment_key` | finding 2 | 2 enrolments, 1 failed lookup |
| `EnrollSession_runs` | Is "done" true, is a face lost only where a replacement was asked for, does the scanning screen give way? | 2 processes of 2 samples, 2 prompts, 1 quit |
| `EnrollSession_camera` | finding 3 | 1 process |
| `Supervision_runs` | Has an app one daemon at most, with the settings that are shown; is the newest one reached; does the menu come to tell the truth? | 2 launches, 3 daemons, 2 changes of the settings |
| `SetupFlow_runs` | Is the end of a sequence that began quietly announced only with the rule in place, does a quiet uninstallation leave none, does every sequence end? | 3 calls in flight, 2 starts |
| `PamConfig_scripts` | Is the password always accepted, does an installation repair what others left, does a removal restore Touch ID, do rules of others survive, unless grep failed? | 3 scripts of 2 runners, 1 failure of a write or a grep, 1 stop, 1 update of macOS, four of these events in all |
| `Engine_runs` | Does the filter keep the best, are appearances only added, does the diagnosis agree with the daemon, is the engine started as asked, in the app's language, and does it understand the panels? | vectors and frames of `MC_Engine`, 6 rows, 4 languages |

Every property of a passing run comes with a faulty variant of the code that
breaks it (`mutants` in `PROJECT.json`).

**Why the bounds are enough.**  A violation of the lock cycle needs a lock, an
event, an unlock and the next lock: four environment steps; the number of answers and
timers follows from them, not from a bound of the model.  The failure limit is
the code's own.  Two clients make every pair of kinds meet, one in service and one
in the queue.  A table of one nonce is at its limit after the first request and
cleared by the second.  Two scans are enough for anything a scan leaves to the
next, and three frames for one more than the matches required; a frame in two pieces has its
header and its payload, and gives the helper a second wait; the ratios of budget
and wait, not their seconds, decide the order of events.  Two enrolments put one save
before, within and after the other, and two boots a daemon on either side of them.
Two enrolment processes are the one a window shows and one it has forgotten, and a
quit puts the second into another life of the app.  Two launches are an app and the
copy it moves to; three daemons leave one stopped, one starting and one serving;
the settings of one instance are used (`Users`), the other one only reads them.
Three calls are a probe, a late answer and a script; two starts are a sequence whose
answers come late and the one they come to.  Three scripts put one before
and one after any other; `FourEvents` bounds starts and accidents together, so that three scripts
meet one accident of any kind, and two scripts two of different kinds.  The samples of `MC_Engine`
have a pair on either side of every threshold, equal scores, and fewer close samples
than `MinKeep`; its locales have one, two and three subtags.  `MaxSteps`,
`MaxNow`, `MaxStarts`, `MaxScans`, `MaxPieces`, `MaxBoots`, `MaxErasures`, `MaxLookupFailures`,
`MaxFailures`, `MaxStops`, `MaxUpdates`, `MaxProcs`, `MaxPrompts`, `MaxQuits`,
`FourEvents`, `MaxInstances`, `MaxDaemons`, `MaxChanges`, `MaxCalls`, `MaxSetups` and `MaxRows`
bound what the environment does; `Horizon` stops the clocks of `FaceScan` beyond any
scan.  The theorems of section 5 hold for any of them.  Deadlock is checked for
`EnrollSession`, whose window can always be opened again; the other systems may rest,
the environment having nothing more to do.

**Fairness.**  `LockUnlock!Fairness`: the run loop serves its queue, an armed timer
fires, a worker comes back (`verify_client` has a timeout of 120 s); nothing is
assumed of the user or of macOS beyond delivering what was posted.
`Daemon!FairSpec`: the thread goes on, since every wait of it has a timeout (120 s
for `recv`, 90 s for the panels, 60 s for Touch ID, the budget for a scan); nobody is
assumed to restart it.  `FaceScan!FairSpec`: the thread goes on, a read returns
(once its pieces have come or its wait is over; a frame has an end, so it does),
time passes (strongly fair: the empty reads of a dead helper take no time and would
otherwise stop the clock), the capsule serves its input and its timer and the
watcher its pipe; nothing is assumed of the user.  `EnrollSession!Spec`: the main
queue, the handlers of a pipe and a process go on; `Capture` is among the steps of a
process, that is, somebody looks into the camera, and `WindowSettles` excepts a
camera that died.  `Supervision!Spec`: delayed and posted items of the main queue
run, a daemon goes on with its start.  `SetupFlow!Spec`: the timer beats, the time
of a step passes, and a call is answered, with a result or by the connection's error
handler, and handled; nobody is assumed to approve anything.

## 4. What the runs found

1. `LockUnlock_relock` (`LockUnlockCoordinator.swift:114`): a second lock
   notification in one locked period (`sessionDidResignActive` calls `didLock`)
   drops the running scan and cannot start another: the state says "scanning" and
   nothing scans until the next unlock.  `ScanningIsBacked` holds without it.
2. `Enrollment_key` (`storage.py:38`): a failed lookup replaces the key of the
   enrolment on disk.
3. `EnrollSession_camera` (`enroll.py:77`): without a camera the enrolment loop reads
   for ever; the errors written for this case are not reached, and the scanning screen
   has no button.

Limits of the code that the models show as well, without a run of their own:

* the warm-up runs before the `try` whose `finally` releases the camera
  (`daemon.py:233`); an exception of it leaves the helper on between two scans, against
  `UX-PLAN.md:241`.  `ScanEnds` exempts that helper, and `CameraReleased` says that only an
  exception loses one;
* the banner's button is not disabled while another script is in flight
  (`SettingsView.swift:116`), so the assistant can announce an end that the script undoes,
  although "finished" stands for the rule being in place (`SetupFlow.swift:49`);
  `FinishedIsTrue` is about sequences that began while no script ran (`quiet`);
* an answer "ok" makes the uninstallation go on without a look at the rule
  (`Uninstaller.swift:31`), which the assistant, still writing or started meanwhile, may
  have written again: `UninstallLeavesNoRule` exempts both (`quiet`);
* a `grep` of `sudo_local` that fails is taken for one that found nothing
  (`pam-install-root.sh:23`, `pam-uninstall-root.sh:7`): the rules of other software are
  overwritten and the script says "OK".  `OthersSurvive` exempts such a script (`unread`);
* the diagnosis calls scores from 0.45 on good, "le pipeline marche" (`diag.py:90`), while
  the slider goes up to 0.50 (`SettingsView.swift:302`): no frame may pass then.
  `DiagnosisAgrees` says it of thresholds up to 0.45;
* the second lock notification of finding 1 also forgets the failures that "suspend
  attempts until manual unlock" (`LockUnlockCoordinator.swift:113`, `README.md:27`);
* the session can be unlocked between the typer's second check and its key events
  (`LockUnlockCoordinator.swift:192`; `OsUnlocks` between `TyperRechecks` and
  `TyperPosts`);
* used nonces are kept in memory: a request that has not expired is admitted again
  after a restart (`daemon.py:112`), which is why `SingleUseInOneLife` is about one
  life;
* the serial loop makes the lock of an authorisation always free: a concurrent
  request is queued and served, never refused with "ERR busy" (`daemon.py:330`; that
  answer of `RejectAction` is never given);
* the expiry of a request is not looked at after its panel (`daemon.py:321`);
* the lock-screen budget starts after the warm-up, and their sum can exceed the six
  seconds of the PAM module (`daemon.py:233`, `config.py:133`);
* a click while the last matching frame is read or recognised comes too late
  (`daemon.py:245`); `CancelIsPrompt` says that it is at most one frame too late;
* two appearances added at the same time: one is lost (`enroll.py:105`), which is
  why `FaceStore` promises something only of enrolments that nothing disturbed (`Store`,
  `Interfere`);
* a save between the two reads of `Daemon.__init__` is not noticed
  (`daemon.py:106`), which `CacheIsCurrent` exempts by `bootRaced`;
* two permission prompts that are answered at once start two scans
  (`Onboarding.swift:34`), and a "done" that is still in the pipe when the
  process is reaped is lost: the window says "interrupted" although the face is saved;
* two daemons that start together remove each other's socket file (`daemon.py:405`):
  one is shown as running and reached by nobody, which `NewestIsReached` exempts by
  `contended`;
* a late answer of a probe can write the rule twice (`SetupFlow.swift:128`); the
  assistant may then show the end although its second write failed, with the rule of
  the first in place, which is what `FinishedIsTrue` promises;
* an unanswered AppKit panel means the password, an unanswered AppleScript dialog a
  scan (`daemon.py:129`, `ChoiceIsUnderstood`);
* a number in the environment of the app that is none, of those the app does not set,
  keeps every daemon from starting (`config.py:106-146`, `Config(...).valid`);
* a helper that sends its frames piece by piece prolongs a read as long as it goes on
  (`camera.py:29`), and with it a scan past every budget, its cancellation too;
* `BuiltinCamera.release` raises if a killed helper does not end within a second
  (`camera.py:60`), which the model leaves out: the helper is as good as dead then;
* the number of faces "above the threshold" is that of the diagnosis's own environment,
  not of the daemon's (`diag.py:88`; `DiagnosisAgrees` compares when they are equal);
* a feature that becomes ready while the session is locked is not noticed before the next
  event (`LockUnlockCoordinator.swift:74`), which `NoStall` exempts by `unheard`;
* "done" in the enrolment window is about any process of that window (`DoneIsTrue`): the
  face that is saved may be that of an earlier one;
* two scripts that overlap can leave a rule without its module, or a cut line in
  sudo's file; an installation that runs alone afterwards repairs the former;
* "OK" is also what the scripts say after "left untouched", "restored the original"
  what the installation says without looking at the backup
  (`pam-install-root.sh:54`), and the removal says "OK" when `sed` failed and Touch
  ID stays commented out (`pam-uninstall-root.sh:17`).

## 5. What is proved

Every proof module follows one pattern: `IInv` holds initially and is preserved
by every action (one step or lemma per action), the property follows from `IInv`, and
PTL concludes.  Each `IInv` was checked by TLC on the constants of the run before it
was proved.

`LockUnlock_proofs`, from `FailureLimit \in Nat \ {0}` and `MaxSteps \in Nat`:

* `TypeCorrect`, `FreshAnswers`, `AtMostOneTyping`, `BackedScanning`: the safety
  invariants.  None is inductive alone.  The reason they hold is
  `AttemptsAreGuarded`: no scan carries a number above the generation, and the one
  that carries the generation was begun in this cycle with the budget open, which
  nothing has spent since.  `BootIsClean`, `ScanningIsCurrent` and
  `TypingIsClaimed` complete it.
* `UnlockImplementsBudget`: every step of the coordinator is a step of
  `UnlockBudget` or leaves its variables alone.

`Daemon_proofs`, from `NoClient \notin Clients`, a finite set of nonces and
positive limits:

* `TypeCorrect`, `EarnedGrants`, `LockReleased`, `BoundedNonces`.  The
  strengthening is `QueueIsOrderly` (the thread holds a connection exactly while
  it serves one; an open socket has no result) and `ServedAsAsked` (an approving
  reply is on its way only to a client the owner was recognised for).
* `OneLifeSingleUse`: in the first life of the daemon, and while no more nonces were
  admitted than the table keeps, no nonce is admitted twice.  It rests on a second
  invariant, that the table then still holds every nonce ever admitted.
* `DaemonImplementsService`: the refinement of `AuthService`.

`FaceScan_proofs`, from positive numbers of frames, matches and seconds, and frames of
two pieces or more:

* `EarnedVerdicts`, `OwnCancellation`, `PromptCancellation`, `BoundedScans`,
  `CameraReleased` and `TypeCorrect`.  `MatchesAreCounted` ties the counter of the loop to the matching
  frames of that scan, `LocalsAreFresh` says that a scan begins with none,
  `ClicksAreOwn` that an event is set only by a watcher of its own capsule,
  `EventIsLookedAt` where the loop can be when an event is set that it has not yet
  seen, and `TimeIsAccounted` counts a wait for every piece that came and for the one
  that is waited for, so that the bound of the whole is their sum.

`EnrollSession_proofs`, for any number of processes, samples, prompts and quits:

* `TrueDone`: `DoneFollowsSave` follows the word "done" from the process that saved,
  through its pipe, the lines that were taken and the main queue to the phase; a
  saved face is replaced only by another.
* `KeptFaces` (an action property): `ModeIsAsked` says that the mode of the window is
  the one the user last opened it for, that of a process the one it was started in,
  and that no permission is pending for a window that was never opened.

`Engine_proofs`, its second half about `Supervision`, for any number of instances, daemons and changes:

* `OneDaemon`, `AppliedSettings`, `ReachedNewest`.  `OneIsKnown`: of the living
  daemons of an app there is one at most, and a living app knows it, which is what
  makes stopping it before a restart enough.  `FileIsLasts`: as long as no two
  daemons were at their start together, only the last one can be there, and at each
  of its steps it finds the file as it left it.

`SetupFlow_proofs`, for any number of calls in flight and of sequences:

* `TrueEnd`, `CleanUninstall`.  `Quiet`: a sequence that began while no script ran has
  none beside it that takes the rule away, because its sheet covers the buttons that
  would start one, and an uninstallation that is still quiet has no sequence beside it.
  `TruthOfSetup` and `TruthOfUninstall`: a success that is in flight, the state of the
  step, and the announced end all tell what the rule is; late answers of an earlier
  sequence cannot make them lie, because only scripts that succeed say so and no script
  of the other kind is in flight.
  `Follows` is what all outcomes of the sequence have in common, so that one lemma
  (`FlowStep`) serves all its handlers.

`Enrollment_proofs`, for any number of enrolments, erasures, starts of the daemon
and failed lookups, from `Daemon` and `NoFile` being no enrolments:

* `WhatIsStoredCanBeRead` (`ReadableWhenSerial`).  `Undisturbed` says that an
  enrolment which met nobody is the only one under way; `Saves` that what it renames
  is then what it wrote; `Serial` that, while nobody met anybody and no lookup failed,
  there is one key, and everything on its way to the file is encrypted with it.  The
  difficult places are the daemon, which also stores a key when it finds none
  (`KeyOfDaemon`: only between the erasure of the key and the daemon's end), and the
  keychain that is empty when an enrolment adds a key (there is no file then).
* `TheCacheIsCurrent` (`CacheIsCurrent`), with any overlaps.  `Inodes`: a file that
  has a name has one name, its time is its own, and times are given out once.
  `Gone(s)` says that a time will not come back.  What the daemon loaded under a time
  is what the file has as long as it has that time, or the time is gone (`Fits`); the
  time it looked up is that of what it loaded, or one of them is gone (`Agrees`).
  `Elsewhere` is what the steps of all other processes have in common for the
  daemon, so that one lemma (`CachedElsewhere`) serves them.  An erasure is the
  exception that the invariant must know of: no file has the time 0 after every one,
  and two are not confused only because the app stops the daemon between them
  (`Vanished`).
* `EnrollmentImplementsStore` (`ImplementsStore`): every step is a step of `FaceStore`
  or not seen there.  The rename is the step that stores (`ReplaceStores`), which takes
  `WillStore`: an enrolment that met nobody is about to write its face with what the file
  has, if it appends, and its face alone if not.  What it truncates and writes before is
  never the file (`OpenTempLeavesFaces`, `WriteLeavesFaces`), so wherever it is cut short
  it has changed nothing.  Only a disturbed enrolment can write into the file itself,
  after another one renamed the path both were using: that is `Interfere`, of which the
  store promises nothing.  A failed lookup of the key costs no face here; that the
  file can still be decrypted is the matter of `WhatIsStoredCanBeRead`.

`PamConfig_proofs`, for any number of runners, starts, failures, stops and updates:

* `NobodyIsLockedOut` (`NoLockout`).  It is about scripts that follow one another, so
  the invariant speaks of the step of the only script under way (`Current`), or of
  none, and says for each step what is true of the files (`Sound`): no line was cut
  in two, a rule names a module that is there, sudo's file has the rule of the
  password except between truncation and write, whoever changes it has made a
  backup, and the backup is good.  `OnlyInLocal` and `Prepared` say what the
  scripts may write at all.
* `InstallationRepairs`, `RemovalUndoes`, `RulesOfOthersSurvive` (action properties
  about a script that ran alone, whatever ran before it): `Truncated`, `Done` and
  `Kept` (the text of a script whose grep did not fail is what others wrote) follow such a
  script from step to step, `EndsWellWhere` says at which steps it
  can end well.
* Lemmas about the operators: `IncludeAdded` (`awk` finds the first rule and keeps all
  others), `TouchIDSwapped` (`sed`), `WhatIsWritten`, and `OthersOf` (what `grep -v`
  leaves, of a file and of one with FaceKey's rule before it), which is an induction
  over the lines of a file.

`Engine_proofs`, its first half about `Engine` with `Recognition` and `Launch`, for any
samples and reads, settings, environments, languages and preferences, from the
assumptions of the three modules: 0.30 is below 0.45 (of the thresholds, which the user
sets, nothing is assumed), a missing value
is none of those that can be there, a locale a user prefers has at most three subtags,
and what `OwnEnvs` leaves out (section 2).

* `Filtered` (`FilterKeepsTheBest`), `Agreed` (`DiagnosisAgrees`), `Asked`
  (`StartedAsAsked`), `Spoken` (`SpeaksTheAppsLanguage`), `Understood`
  (`ChoiceIsUnderstood`), and the action property `Accumulated`
  (`AppearancesAccumulate`).  Each step is a whole program, so most of the work is in
  lemmas about what the programs compute: `BestMatchIsBest` (`best_match` reaches a limit
  exactly if an enrolled vector does), `AcceptsAny`, `ScoreType`, what `argmax` returns,
  what the filter keeps in both of its cases, `LoadType` and what is in the file after an
  enrolment, the arguments of the two ways of starting the engine, which of the layers of
  an environment wins, which candidate of a locale is found first.
* `EngineInv` has two parts that are no property of a run: `StoredType` (the file is one of
  the two shapes `load_embeddings` knows, which the diagnosis and the next enrolment
  need) and `TextsOfKeys` (the texts a daemon has are those of its keys, in some
  language, so that the texts of two buttons differ in every language): a request is
  answered with what an earlier step, the start, left behind.

What a recursive function computes is proved by induction in two places, for `Others` of
`PamConfig` and for the loops of `Recognition`: the induction theorems of the library take
an operator, which the provers cannot instantiate, but the existence of a minimum under
a well-founded relation (`WFMin`) takes a set, and gives an induction over sets of
numbers (`Least`, `Induct`).  The function is never unfolded: the lemmas construct one
with its equation (`KeptExists`, `LoopExists`) and reason about any that has it
(`OthersKeeps`, `Along`).

Only model-checked: liveness (`NoStall`, `LabelsSettle`, `EverybodyIsAnswered`,
`ScanEnds`, `HudGoes`, `WindowSettles`, `StatusInTheEnd`, `SequenceEnds`), which is out
of the prover's reach.  Every invariant and every action property of a passing run, and
the three refinements, are theorems.

## 6. What is not modelled, and the plan

Left out for good: what the two networks compute (a match is a choice in
`FaceScan`, a vector in `Recognition`), drawing and the wording of texts, the scripts
that build, package and make pictures, the code-signature checks of the helper and
the peer checks of the socket (calls of the system's API), the maintenance flags of
the app's binary (`--refresh-helper`), AVFoundation capture, the text validation of a
FaceKeyKit request, and the sessions and users for which the PAM module declines
before it asks.

What is left of the plan: the safety properties that the code violates have theorems
for the case in which they hold (`BackedScanning` without the second notification of
finding 1, `WhatIsStoredCanBeRead` without the failed lookup of finding 2,
and `CameraReleased`, `TrueEnd`, `CleanUninstall`, `RulesOfOthersSurvive` and `Agreed` for
the first five limits); `DeadCameraIsTold` is a liveness property, which the run can only
refute.  Not covered by a property are the two hazards that have none in `PROJECT.json`: the session that is
unlocked between the typer's last check and its key events, which no order of the app's
own steps can exclude, and the expiry of a request that is not looked at after its panel.
