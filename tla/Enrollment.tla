----------------------------- MODULE Enrollment -----------------------------
(***************************************************************************)
(* The enrolled faces on disk and in memory: the processes that enrol      *)
(* (faceid/enroll.py), the encrypted file and its key in the keychain      *)
(* (faceid/storage.py), the daemon's cached copy and how it is refreshed   *)
(* (Daemon.__init__ and _maybe_reload in faceid/daemon.py), and the        *)
(* uninstaller that erases both (menubar/Uninstaller.swift).               *)
(*                                                                         *)
(* A face is known by the process that captured it.  Files have inodes,    *)
(* because all savers write the same temporary path and one may rename it  *)
(* while another still writes to it.  A saver creates at most one, which   *)
(* has its name.                                                           *)
(***************************************************************************)
EXTENDS Naturals

CONSTANTS
    Enrollers,          \* the enrolment processes, each runs once
    Daemon,             \* the recognition daemon
    NoFile,             \* a name that no file has
    MaxLookupFailures,  \* lookups of the key that fail though it is there
    MaxErasures,        \* how often the user erases the enrolment
    MaxBoots            \* how often the daemon is started

ASSUME EnrollmentAssumption ==
    /\ Daemon \notin Enrollers /\ NoFile \notin Enrollers
    /\ {MaxLookupFailures, MaxErasures, MaxBoots} \subseteq Nat

Procs == Enrollers \cup {Daemon}
Files == Enrollers \cup {NoFile}

VARIABLES
    \* The keychain and the directory.
    keychain,           \* the key stored, 0 when there is none
    keys,               \* keys generated so far
    file, temp,         \* inode of embeddings.facekey and of its .tmp
    disk,               \* contents of the inodes
    stamps,             \* modification times given out
    erasing,            \* where the uninstaller is, "no" when it does not run
    erasures,
    lookupFailures,
    \* The processes.
    pc, mode,
    payload,            \* what a process has read of the file
    key,                \* the key a saver will encrypt with
    fd,                 \* the inode a saver writes to
    faces,              \* the faces a saver will store
    disturbed,          \* history: another enrolment or an erasure was under
                        \* way while this one was
    \* The daemon's own.
    cache, cacheStamp,  \* the faces it matches against, and of which file
    seen,               \* enrolled_mtime
    stat,               \* the modification time _maybe_reload has just read
    booting, boots,
    bootRaced           \* history: a save fell between __init__'s two reads

dirVars == <<file, temp, disk, stamps>>
keyVars == <<keychain, keys, lookupFailures>>
eraseVars == <<erasing, erasures>>
procVars == <<mode, payload, key, fd, faces, disturbed>>
daemonVars == <<cache, cacheStamp, seen, stat, booting, boots, bootRaced>>
vars == <<dirVars, keyVars, eraseVars, pc, procVars, daemonVars>>

Content == [faces : SUBSET Enrollers, key : Nat, stamp : Nat,
            is : {"empty", "whole", "garbled"}]
Nothing == [faces |-> {}, key |-> 0, stamp |-> 0, is |-> "empty"]

Places == {"idle", "capturing", "reading", "finding", "adding", "saving", "addingToSave",
           "opening", "writing", "replacing", "done", "failed", "down", "stating", "up"}

TypeOK ==
    /\ keychain \in 0..keys /\ keys \in Nat
    /\ disk \in [Enrollers -> Content] /\ file \in Files /\ temp \in Files
    /\ stamps \in Nat
    /\ erasing \in {"no", "key", "quitting"} /\ erasures \in Nat /\ lookupFailures \in Nat
    /\ pc \in [Procs -> Places]
    /\ mode \in [Enrollers -> {"replace", "append"}]
    /\ payload \in [Procs -> Content]
    /\ key \in [Enrollers -> Nat]
    /\ fd \in [Enrollers -> Files]
    /\ faces \in [Enrollers -> SUBSET Enrollers]
    /\ disturbed \subseteq Enrollers
    /\ cache \subseteq Enrollers /\ cacheStamp \in Nat
    /\ seen \in Nat /\ stat \in Nat
    /\ booting \in BOOLEAN /\ boots \in Nat /\ bootRaced \in BOOLEAN

Init ==
    /\ keychain = 0 /\ keys = 0 /\ lookupFailures = 0
    /\ file = NoFile /\ temp = NoFile /\ stamps = 0
    /\ disk = [i \in Enrollers |-> Nothing]
    /\ erasing = "no" /\ erasures = 0
    /\ pc = [p \in Procs |-> IF p = Daemon THEN "down" ELSE "idle"]
    /\ mode = [e \in Enrollers |-> "replace"]
    /\ payload = [p \in Procs |-> Nothing]
    /\ key = [e \in Enrollers |-> 0]
    /\ fd = [e \in Enrollers |-> NoFile]
    /\ faces = [e \in Enrollers |-> {}]
    /\ disturbed = {}
    /\ cache = {} /\ cacheStamp = 0 /\ seen = 0 /\ stat = 0
    /\ booting = FALSE /\ boots = 0 /\ bootRaced = FALSE

StampOf(i) == IF i = NoFile THEN 0 ELSE disk[i].stamp
FacesOf(i) == IF i = NoFile THEN {} ELSE disk[i].faces

Goes(p, place) == pc' = [pc EXCEPT ![p] = place]

Working(e) == pc[e] \notin {"idle", "done", "failed"}

-----------------------------------------------------------------------------
(* storage._key(): find the key, or generate one and store it with -U,     *)
(* which replaces any key that is there.  Every failure of the lookup is   *)
(* taken for a missing key.                                                *)

KeyFound == keychain # 0 /\ UNCHANGED lookupFailures

KeyNotFound ==
    \/ keychain = 0 /\ UNCHANGED lookupFailures
    \/ keychain # 0 /\ lookupFailures < MaxLookupFailures
                    /\ lookupFailures' = lookupFailures + 1

AddKey ==
    /\ keys' = keys + 1
    /\ keychain' = keys'

CannotAddKey == UNCHANGED <<keys, keychain>>

-----------------------------------------------------------------------------
(* storage.load().                                                         *)

(* The daemon remembers the time of a file newer than the one it loaded.   *)
Loads_StatsAgain(p, content) ==
    \/ /\ p # Daemon
       /\ faces' = [faces EXCEPT ![p] = content.faces \cup {p}]
       /\ Goes(p, "saving")
       /\ UNCHANGED daemonVars
    \/ /\ p = Daemon
       /\ cache' = content.faces /\ cacheStamp' = content.stamp
       /\ seen' = IF booting THEN seen ELSE StampOf(file)
       /\ Goes(p, IF booting THEN "stating" ELSE "up")
       /\ bootRaced' = (booting /\ bootRaced)
       /\ UNCHANGED <<faces, stat, booting, boots>>

(* The file is decrypted, or there is none: an enroller goes on to save    *)
(* what it will add its face to, the daemon fills its cache.               *)
Loads(p, content) ==
    \/ /\ p # Daemon
       /\ faces' = [faces EXCEPT ![p] = content.faces \cup {p}]
       /\ Goes(p, "saving")
       /\ UNCHANGED daemonVars
    \/ /\ p = Daemon
       /\ cache' = content.faces /\ cacheStamp' = content.stamp
       /\ seen' = IF booting THEN seen ELSE stat
       /\ Goes(p, IF booting THEN "stating" ELSE "up")
       /\ bootRaced' = (booting /\ bootRaced)
       /\ UNCHANGED <<faces, stat, booting, boots>>

(* An exception ends an enroller and a daemon that is starting; a scan     *)
(* fails, and the daemon keeps its cache and its enrolled_mtime.           *)
Raises(p) ==
    /\ Goes(p, CASE p # Daemon -> "failed"
                 [] p = Daemon /\ booting -> "down"
                 [] OTHER -> "up")
    /\ UNCHANGED <<faces, daemonVars>>

ReadFile(p) ==
    /\ pc[p] = "reading"
    /\ \/ file = NoFile /\ Loads(p, Nothing) /\ UNCHANGED payload
       \/ /\ file # NoFile /\ disk[file].is = "empty"
          /\ Raises(p) /\ UNCHANGED payload
       \/ /\ file # NoFile /\ disk[file].is # "empty"
          /\ payload' = [payload EXCEPT ![p] = disk[file]]
          /\ Goes(p, "finding")
          /\ UNCHANGED <<faces, daemonVars>>
    /\ UNCHANGED <<dirVars, keyVars, eraseVars, mode, key, fd, disturbed>>

Decrypt(p) ==
    /\ pc[p] = "finding" /\ KeyFound
    /\ IF payload[p].is = "whole" /\ payload[p].key = keychain
       THEN Loads(p, payload[p])
       ELSE Raises(p)
    /\ UNCHANGED <<dirVars, keychain, keys, eraseVars, mode, payload, key, fd, disturbed>>

LookupFails(p) ==
    /\ pc[p] = "finding" /\ KeyNotFound
    /\ Goes(p, "adding")
    /\ UNCHANGED <<dirVars, keychain, keys, eraseVars, procVars, daemonVars>>

(* A new key cannot decrypt what another one encrypted.                    *)
AddsThenRaises(p) ==
    /\ pc[p] = "adding"
    /\ AddKey \/ CannotAddKey
    /\ Raises(p)
    /\ UNCHANGED <<dirVars, lookupFailures, eraseVars, mode, payload, key, fd, disturbed>>

-----------------------------------------------------------------------------
(* enroll.main() and storage.save().                                       *)

Begin(e) ==
    /\ pc[e] = "idle"
    /\ disturbed' = LET others == {other \in Enrollers : Working(other)}
                    IN  IF others # {} \/ erasing # "no"
                        THEN disturbed \cup others \cup {e} ELSE disturbed
    /\ \E m \in {"replace", "append"} : mode' = [mode EXCEPT ![e] = m]
    /\ Goes(e, "capturing")
    /\ UNCHANGED <<dirVars, keyVars, eraseVars, payload, key, fd, faces, daemonVars>>

Captured_ReplacesAlways(e) ==
    /\ pc[e] = "capturing"
    /\ Goes(e, "saving")
    /\ faces' = [faces EXCEPT ![e] = {e}]
    /\ UNCHANGED <<dirVars, keyVars, eraseVars, mode, payload, key, fd, disturbed, daemonVars>>

Captured(e) ==
    /\ pc[e] = "capturing"
    /\ Goes(e, IF mode[e] = "append" THEN "reading" ELSE "saving")
    /\ faces' = [faces EXCEPT ![e] = {e}]
    /\ UNCHANGED <<dirVars, keyVars, eraseVars, mode, payload, key, fd, disturbed, daemonVars>>

FindsKey_Never(e) ==
    /\ pc[e] = "saving"
    /\ Goes(e, "addingToSave") /\ UNCHANGED <<key, lookupFailures>>
    /\ UNCHANGED <<dirVars, keychain, keys, eraseVars, mode, payload, fd, faces, disturbed, daemonVars>>

FindsKey(e) ==
    /\ pc[e] = "saving"
    /\ \/ /\ KeyFound
          /\ key' = [key EXCEPT ![e] = keychain]
          /\ Goes(e, "opening")
       \/ /\ KeyNotFound
          /\ Goes(e, "addingToSave")
          /\ UNCHANGED key
    /\ UNCHANGED <<dirVars, keychain, keys, eraseVars, mode, payload, fd, faces, disturbed, daemonVars>>

AddsKey(e) ==
    /\ pc[e] = "addingToSave"
    /\ \/ AddKey /\ key' = [key EXCEPT ![e] = keys'] /\ Goes(e, "opening")
       \/ CannotAddKey /\ Goes(e, "failed") /\ UNCHANGED key
    /\ UNCHANGED <<dirVars, lookupFailures, eraseVars, mode, payload, fd, faces, disturbed, daemonVars>>

(* open(tmp, "wb") creates the file or truncates the one that is there.    *)
OpenTemp(e) ==
    /\ pc[e] = "opening"
    /\ LET i == IF temp = NoFile THEN e ELSE temp
       IN  /\ temp' = i /\ fd' = [fd EXCEPT ![e] = i]
           /\ disk' = [disk EXCEPT ![i] = [Nothing EXCEPT !.stamp = stamps + 1]]
    /\ stamps' = stamps + 1
    /\ Goes(e, "writing")
    /\ UNCHANGED <<file, keyVars, eraseVars, mode, payload, key, faces, disturbed, daemonVars>>

(* Whatever another saver wrote to the same inode since it was opened is   *)
(* written over, entirely or in part.                                      *)
Write(e) ==
    /\ pc[e] = "writing"
    /\ \E is \in IF disk[fd[e]].is = "empty" THEN {"whole"} ELSE {"whole", "garbled"} :
          disk' = [disk EXCEPT ![fd[e]] = [faces |-> faces[e], key |-> key[e],
                                           stamp |-> stamps + 1, is |-> is]]
    /\ stamps' = stamps + 1
    /\ Goes(e, "replacing")
    /\ UNCHANGED <<file, temp, keyVars, eraseVars, procVars, daemonVars>>

(* chmod and rename; both raise when the temporary file has gone.          *)
Replace(e) ==
    /\ pc[e] = "replacing"
    /\ IF temp = NoFile
       THEN Goes(e, "failed") /\ UNCHANGED <<file, temp>>
       ELSE Goes(e, "done") /\ file' = temp /\ temp' = NoFile
    /\ UNCHANGED <<disk, stamps, keyVars, eraseVars, procVars, daemonVars>>

(* The user cancels: the process is terminated wherever it is.             *)
Cancel(e) ==
    /\ Working(e)
    /\ Goes(e, "failed")
    /\ UNCHANGED <<dirVars, keyVars, eraseVars, procVars, daemonVars>>

-----------------------------------------------------------------------------
(* The daemon.                                                             *)

Boot ==
    /\ pc[Daemon] = "down" /\ boots < MaxBoots
    /\ boots' = boots + 1 /\ booting' = TRUE
    /\ cache' = {} /\ cacheStamp' = 0 /\ seen' = 0 /\ stat' = 0
    /\ bootRaced' = FALSE
    /\ Goes(Daemon, "reading")
    /\ UNCHANGED <<dirVars, keyVars, eraseVars, procVars>>

(* The second half of __init__: the file may no longer be the one loaded.  *)
BootStats ==
    /\ pc[Daemon] = "stating"
    /\ seen' = StampOf(file)
    /\ bootRaced' = (StampOf(file) # cacheStamp)
    /\ booting' = FALSE
    /\ Goes(Daemon, "up")
    /\ UNCHANGED <<dirVars, keyVars, eraseVars, procVars, cache, cacheStamp, stat, boots>>

(* A scan begins with _maybe_reload().                                     *)
MaybeReload ==
    /\ pc[Daemon] = "up"
    /\ StampOf(file) # seen
    /\ stat' = StampOf(file)
    /\ Goes(Daemon, "reading")
    /\ UNCHANGED <<dirVars, keyVars, eraseVars, procVars, cache, cacheStamp, seen,
                   booting, boots, bootRaced>>

Stop ==
    /\ pc[Daemon] # "down"
    /\ Goes(Daemon, "down")
    /\ UNCHANGED <<dirVars, keyVars, eraseVars, procVars, daemonVars>>

-----------------------------------------------------------------------------
(* The uninstaller, when asked to delete the data: the directory first,    *)
(* then the key, whose deletion may fail unnoticed.                        *)

EraseDirectory ==
    /\ erasing = "no" /\ erasures < MaxErasures
    /\ disturbed' = disturbed \cup {e \in Enrollers : Working(e)}
    /\ erasing' = "key" /\ erasures' = erasures + 1
    /\ file' = NoFile /\ temp' = NoFile
    /\ UNCHANGED <<disk, stamps, keyVars, pc, mode, payload, key, fd, faces, daemonVars>>

EraseKey ==
    /\ erasing = "key"
    /\ erasing' = "quitting"
    /\ keychain' \in {0, keychain}
    /\ UNCHANGED <<dirVars, keys, lookupFailures, erasures, pc, procVars, daemonVars>>

(* Whatever the user answers then, the app quits and stops the daemon.     *)
QuitAfterErasing ==
    /\ erasing = "quitting"
    /\ erasing' = "no"
    /\ Goes(Daemon, "down")
    /\ UNCHANGED <<dirVars, keyVars, erasures, procVars, daemonVars>>

-----------------------------------------------------------------------------
Load(p) == ReadFile(p) \/ Decrypt(p) \/ LookupFails(p) \/ AddsThenRaises(p)

Save(e) == FindsKey(e) \/ AddsKey(e) \/ OpenTemp(e) \/ Write(e) \/ Replace(e)

Next ==
    \/ \E p \in Procs : Load(p)
    \/ \E e \in Enrollers : Begin(e) \/ Captured(e) \/ Save(e) \/ Cancel(e)
    \/ Boot \/ BootStats \/ MaybeReload \/ Stop
    \/ EraseDirectory \/ EraseKey \/ QuitAfterErasing

Spec == Init /\ [][Next]_vars

-----------------------------------------------------------------------------
(* Properties.                                                             *)

(* The enrolment on disk can be read back: it is whole, and the key that   *)
(* decrypts it is the one in the keychain.                                 *)
Readable == file # NoFile => disk[file].is = "whole" /\ disk[file].key = keychain

(* It is, as long as enrolments and erasures come one after the other,     *)
(* wherever they are cancelled and whatever the daemon loads meanwhile.    *)
ReadableWhenSerial == disturbed = {} /\ lookupFailures = 0 => Readable

(* One failed lookup of the key is enough to lose it.                      *)
ReadableThoughLookupFails == disturbed = {} => Readable

(* When a scan decides not to reload, the cache is the enrolment on disk.  *)
SkipsOnlyWhenCurrent ==
    pc[Daemon] = "up" /\ seen = StampOf(file) =>
        cacheStamp = StampOf(file) /\ cache = FacesOf(file)

(* The same, unless a save or an erasure fell between the load and the     *)
(* look at the modification time while the daemon was starting.            *)
CacheIsCurrent == ~bootRaced => SkipsOnlyWhenCurrent

(* What the abstract store sees of the enrolments.                         *)
Stages == [e \in Enrollers |-> IF Working(e) THEN mode[e] ELSE pc[e]]

Promise == INSTANCE FaceStore WITH
    enrolled <- FacesOf(file),
    stage <- Stages,
    erasing <- erasing # "no"

(* The files, the keys and the processes implement the abstract store: an  *)
(* enrolment that no other one and no erasure met adds its face to all     *)
(* those that were there, or replaces them all, in the one step that ends  *)
(* it, and one that fails or is cancelled, wherever it is, changes none;   *)
(* so it is though the lookup of the key may fail.                         *)
ImplementsStore == Promise!StoreSpec
=============================================================================
