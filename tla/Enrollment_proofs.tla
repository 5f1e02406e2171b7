-------------------------- MODULE Enrollment_proofs --------------------------
(* Proofs about the enrolment, for any number of enrolment processes and   *)
(* any bounds: that what is on disk can be decrypted, that the daemon's    *)
(* cache is what is on disk when it decides not to reload, and that files, *)
(* keys and processes implement the abstract store (FaceStore).            *)
EXTENDS Enrollment, TLAPS

-----------------------------------------------------------------------------
(* The inductive invariant.                                                *)

(* Which process is where.                                                 *)
EnrollerPlaces == {"idle", "capturing", "reading", "finding", "adding", "saving",
                   "addingToSave", "opening", "writing", "replacing", "done", "failed"}
DaemonPlaces == {"down", "reading", "finding", "adding", "stating", "up"}
InPlace ==
    /\ \A e \in Enrollers : pc[e] \in EnrollerPlaces
    /\ pc[Daemon] \in DaemonPlaces
    /\ pc[Daemon] = "up" => ~booting
    /\ pc[Daemon] = "stating" => booting

(* Inodes: one that has a name was created, by the process it is known by; *)
(* it has one name; no two have the same modification time.                *)
Created(e) == pc[e] \in {"writing", "replacing", "done", "failed"}
Inodes ==
    /\ \A i \in Enrollers : i = file \/ i = temp => Created(i) /\ disk[i].stamp # 0
    /\ file # NoFile => file # temp
    /\ \A i \in Enrollers : disk[i].stamp <= stamps
    /\ \A i, j \in Enrollers : disk[i].stamp = disk[j].stamp => i = j \/ disk[i].stamp = 0

(* An enrolment nobody met has met nobody.                                 *)
Alone(e) == Working(e) /\ e \notin disturbed
Undisturbed ==
    \A e \in Enrollers : Alone(e) =>
       erasing = "no" /\ \A other \in Enrollers : Working(other) => other = e

(* What it has written under the temporary name is its own.                *)
Saves(e) ==
    Alone(e) =>
       /\ pc[e] \in {"writing", "replacing"} => fd[e] = temp /\ temp # NoFile
       /\ pc[e] = "writing" => disk[temp].is = "empty"
       /\ pc[e] = "replacing" =>
             disk[temp].is = "whole" /\ disk[temp].faces = faces[e] /\ disk[temp].key = key[e]

(* What it has read, and means to store: the face it captured, with all    *)
(* that are in the file when it appends.                                   *)
Kept(e) == IF mode[e] = "append" THEN FacesOf(file) ELSE {}
WillStore(e) ==
    Alone(e) =>
       /\ pc[e] \in {"reading", "finding", "adding"} => mode[e] = "append"
       /\ pc[e] = "finding" => payload[e].faces = FacesOf(file)
       /\ pc[e] \in {"saving", "addingToSave", "opening", "writing", "replacing"} =>
             faces[e] = Kept(e) \cup {e}

(* While nobody met anybody and no lookup failed there is one key, and it  *)
(* is the one that whatever is or will be in the file is encrypted with.   *)
KeyOfFile ==
    /\ file # NoFile => disk[file].is = "whole" /\ disk[file].key = keychain /\ keychain # 0
    /\ erasing # "no" => file = NoFile
KeyOf(e) ==
    /\ pc[e] \in {"opening", "writing", "replacing"} => key[e] = keychain /\ keychain # 0
    /\ pc[e] = "addingToSave" => keychain = 0
    /\ pc[e] = "finding" => keychain # 0
    /\ pc[e] # "adding"
KeyOfDaemon ==
    /\ pc[Daemon] = "finding" => keychain # 0 \/ erasing = "quitting"
    /\ pc[Daemon] = "adding" => erasing = "quitting"
Serial ==
    disturbed = {} /\ lookupFailures = 0 =>
       KeyOfFile /\ KeyOfDaemon /\ \A e \in Enrollers : KeyOf(e)

(* The file will never again have the modification time s.                 *)
Gone(s) == s \in 1..stamps /\ \A i \in Enrollers : disk[i].stamp = s => i \notin {file, temp}

(* Faces f that were loaded with the time s are those of the file, if the  *)
(* file has it.                                                            *)
Fits(s, f) ==
    \/ s = 0 /\ f = {}
    \/ s # 0 /\ s = StampOf(file) /\ f = FacesOf(file)
    \/ Gone(s)

(* A time s that was looked up, and the time t of what was loaded then.    *)
Vanished == erasing # "no" /\ file # NoFile
Agrees(s, t) == s = t \/ Gone(s) \/ (s = 0 /\ Vanished)

Loading == pc[Daemon] \in {"reading", "finding", "adding"} /\ ~booting
Serving == pc[Daemon] = "up" \/ Loading

Cached ==
    /\ Fits(cacheStamp, cache)
    /\ Fits(payload[Daemon].stamp, payload[Daemon].faces)
    /\ Loading /\ (stat = 0 \/ file = NoFile) => erasing # "no"
    /\ Serving /\ seen # 0 /\ file = NoFile => erasing # "no"
    /\ Loading /\ pc[Daemon] = "reading" => Agrees(stat, StampOf(file))
    /\ Loading /\ pc[Daemon] = "finding" => Agrees(stat, payload[Daemon].stamp)
    /\ Serving /\ ~bootRaced => Agrees(seen, cacheStamp)

IInv ==
    /\ TypeOK /\ InPlace /\ Inodes /\ Undisturbed
    /\ \A e \in Enrollers : Saves(e) /\ WillStore(e)
    /\ Serial /\ Cached

-----------------------------------------------------------------------------
(* What the steps have in common.                                          *)

(* The directory and the daemon's view of it.                              *)
LEMMA FileFacts ==
    ASSUME TypeOK, Inodes
    PROVE  /\ NoFile \notin Enrollers /\ Daemon \notin Enrollers
           /\ file = NoFile => StampOf(file) = 0 /\ FacesOf(file) = {}
           /\ file # NoFile => /\ file \in Enrollers /\ StampOf(file) # 0
                               /\ StampOf(file) = disk[file].stamp
                               /\ FacesOf(file) = disk[file].faces
           /\ StampOf(file) \in Nat /\ StampOf(file) <= stamps
<1>1. NoFile \notin Enrollers /\ Daemon \notin Enrollers
  BY EnrollmentAssumption
<1>2. CASE file = NoFile
  BY <1>1, <1>2 DEF StampOf, FacesOf, TypeOK
<1>3. CASE file # NoFile
  <2>1. file \in Enrollers /\ disk[file] \in Content /\ disk[file].stamp \in Nat
    BY <1>3 DEF TypeOK, Files, Content
  <2> QED
    BY <1>1, <1>3, <2>1 DEF StampOf, FacesOf, Inodes
<1> QED
  BY <1>1, <1>2, <1>3

(* A time that is gone is not the file's; what fits a time the file has is *)
(* what is in the file.                                                    *)
LEMMA GoneIsGone ==
    ASSUME TypeOK, Inodes, NEW s, Gone(s)
    PROVE  s # StampOf(file)
  BY FileFacts DEF Gone

LEMMA FittingIsCurrent ==
    ASSUME TypeOK, Inodes, NEW f, Fits(StampOf(file), f)
    PROVE  f = FacesOf(file)
  BY FileFacts, GoneIsGone DEF Fits

(* A step of another process than the daemon: times that are gone stay so, *)
(* the file keeps its time and its faces or its time is gone, and only an  *)
(* erasure, which nothing but the daemon's end follows, takes it away.     *)
Elsewhere ==
    /\ UNCHANGED daemonVars /\ pc'[Daemon] = pc[Daemon] /\ payload'[Daemon] = payload[Daemon]
    /\ \A s : Gone(s) => Gone(s)'
    /\ \A s : s # 0 /\ s = StampOf(file) =>
                 (s = StampOf(file)' /\ FacesOf(file)' = FacesOf(file)) \/ Gone(s)'
    /\ file' = NoFile => file = NoFile \/ erasing' # "no"
    /\ erasing # "no" => erasing' # "no" /\ (file # NoFile => file' # NoFile)

LEMMA CachedElsewhere ==
    ASSUME TypeOK, InPlace, Inodes, Cached, Elsewhere, TypeOK', Inodes'
    PROVE  Cached'
<1>1. /\ cache' = cache /\ cacheStamp' = cacheStamp /\ seen' = seen /\ stat' = stat
      /\ booting' = booting /\ bootRaced' = bootRaced
      /\ pc'[Daemon] = pc[Daemon] /\ payload'[Daemon] = payload[Daemon]
  BY DEF Elsewhere, daemonVars
<1>2. ASSUME NEW s, NEW f, Fits(s, f) PROVE Fits(s, f)'
  <2>1. CASE s = 0 /\ f = {}
    BY <2>1 DEF Fits
  <2>2. CASE s # 0 /\ s = StampOf(file) /\ f = FacesOf(file)
    BY <2>2 DEF Fits, Elsewhere
  <2>3. CASE Gone(s)
    BY <2>3 DEF Fits, Elsewhere
  <2> QED
    BY <1>2, <2>1, <2>2, <2>3 DEF Fits
<1>3. ASSUME NEW s, NEW t, Agrees(s, t) PROVE Agrees(s, t)'
  BY <1>3 DEF Agrees, Vanished, Elsewhere
<1>4. Loading' = Loading /\ Serving' = Serving
  BY <1>1 DEF Loading, Serving
<1>5. ASSUME Loading, pc[Daemon] = "reading" PROVE Agrees(stat, StampOf(file))'
  <2>1. Agrees(stat, StampOf(file)) /\ (stat = 0 => erasing # "no")
    BY <1>5 DEF Cached
  <2>2. CASE stat = StampOf(file) /\ stat # 0
    BY <1>1, <2>2 DEF Elsewhere, Agrees
  <2>3. CASE stat = 0
    <3>1. erasing' # "no"
      BY <2>1, <2>3 DEF Elsewhere
    <3>2. CASE file' = NoFile
      BY <1>1, <2>3, <3>2 DEF StampOf, Agrees
    <3>3. CASE file' # NoFile
      BY <1>1, <2>3, <3>1, <3>3 DEF Agrees, Vanished
    <3> QED
      BY <3>2, <3>3
  <2>4. CASE Gone(stat)
    BY <1>1, <2>4 DEF Elsewhere, Agrees
  <2> QED
    BY <2>1, <2>2, <2>3, <2>4 DEF Agrees
<1>6. Fits(cacheStamp, cache)' /\ Fits(payload[Daemon].stamp, payload[Daemon].faces)'
  BY <1>1, <1>2 DEF Cached
<1>7. /\ Loading /\ (stat = 0 \/ file' = NoFile) => erasing' # "no"
      /\ Serving /\ seen # 0 /\ file' = NoFile => erasing' # "no"
  BY DEF Cached, Elsewhere
<1>8. /\ Loading /\ pc[Daemon] = "finding" => Agrees(stat, payload[Daemon].stamp)'
      /\ Serving /\ ~bootRaced => Agrees(seen, cacheStamp)'
  BY <1>1, <1>3 DEF Cached
<1> QED
  BY <1>1, <1>4, <1>5, <1>6, <1>7, <1>8 DEF Cached

(* So does a step that leaves the directory as it is.                      *)
LEMMA DirectoryUnchanged ==
    ASSUME UNCHANGED dirVars
    PROVE  /\ \A s : Gone(s)' <=> Gone(s)
           /\ StampOf(file)' = StampOf(file) /\ FacesOf(file)' = FacesOf(file)
           /\ file' = file
  BY DEF dirVars, Gone, StampOf, FacesOf

LEMMA ElsewhereUnchanged ==
    ASSUME UNCHANGED <<dirVars, daemonVars>>, pc'[Daemon] = pc[Daemon],
           payload'[Daemon] = payload[Daemon], erasing # "no" => erasing' # "no"
    PROVE  Elsewhere
<1>1. UNCHANGED dirVars
  OBVIOUS
<1> QED
  BY <1>1, DirectoryUnchanged DEF Elsewhere

(* A step of an enrolment under way: others that are under way are         *)
(* disturbed, or this one is.                                              *)
LEMMA EnrollerStep ==
    ASSUME IInv, NEW e \in Enrollers, Working(e), NEW place \in EnrollerPlaces, Goes(e, place),
           UNCHANGED <<disturbed, erasing, daemonVars>>, Created(e) => Created(e)',
           TypeOK', Inodes', Elsewhere, Saves(e)', WillStore(e)',
           disturbed = {} /\ lookupFailures' = 0 =>
              KeyOfFile' /\ KeyOf(e)' /\ KeyOfDaemon'
    PROVE  IInv'
<1>0. TypeOK /\ InPlace /\ Inodes /\ Undisturbed /\ Cached /\ Daemon \notin Enrollers
  BY EnrollmentAssumption DEF IInv
<1>1. pc'[e] = place /\ \A p \in Procs \ {e} : pc'[p] = pc[p]
  BY <1>0 DEF Goes, TypeOK, Procs
<1>2. InPlace'
  <2>1. pc'[Daemon] = pc[Daemon]
    BY <1>0, <1>1 DEF Procs
  <2>2. \A x \in Enrollers : pc'[x] \in EnrollerPlaces
    BY <1>0, <1>1 DEF InPlace, Procs
  <2> QED
    BY <1>0, <2>1, <2>2 DEF InPlace, daemonVars
<1>3. \A x \in Enrollers : Working(x)' => Working(x)
  BY <1>1 DEF Working, Procs
<1>4. \A x \in Enrollers : Alone(x)' => Alone(x) /\ x = e
  BY <1>0, <1>3 DEF Alone, Undisturbed
<1>5. Undisturbed'
  BY <1>0, <1>3, <1>4 DEF Undisturbed
<1>6. \A x \in Enrollers : Saves(x)' /\ WillStore(x)'
  BY <1>4 DEF Saves, WillStore, Kept
<1>7. Cached'
  BY <1>0, CachedElsewhere
<1>8. Serial'
  <2> SUFFICES ASSUME disturbed = {}, lookupFailures' = 0
               PROVE  KeyOfFile' /\ KeyOfDaemon' /\ \A x \in Enrollers : KeyOf(x)'
    BY DEF Serial
  <2>1. ASSUME NEW x \in Enrollers, x # e PROVE KeyOf(x)'
    <3>1. ~Working(x) /\ pc'[x] = pc[x]
      BY <1>0, <1>1, <2>1 DEF Undisturbed, Alone, Procs
    <3> QED
      BY <3>1 DEF Working, KeyOf
  <2> QED
    BY <2>1
<1> QED
  BY <1>0, <1>2, <1>5, <1>6, <1>7, <1>8 DEF IInv

(* A step of the daemon: nothing changes for the enrolments.               *)
LEMMA DaemonStep ==
    ASSUME IInv, NEW place \in DaemonPlaces, Goes(Daemon, place),
           UNCHANGED <<dirVars, disturbed, erasing, mode, key, fd, faces>>,
           \A e \in Enrollers : payload'[e] = payload[e],
           place = "up" => ~booting', place = "stating" => booting', TypeOK', Serial', Cached'
    PROVE  IInv'
<1>0. TypeOK /\ InPlace /\ Inodes /\ Undisturbed /\ Daemon \notin Enrollers
  BY EnrollmentAssumption DEF IInv
<1>1. pc'[Daemon] = place /\ \A e \in Enrollers : pc'[e] = pc[e]
  BY <1>0 DEF Goes, TypeOK, Procs
<1>2. InPlace'
  BY <1>0, <1>1 DEF InPlace
<1>3. Inodes'
  BY <1>0, <1>1 DEF Inodes, Created, dirVars
<1>4. Undisturbed'
  BY <1>0, <1>1 DEF Undisturbed, Alone, Working
<1>5. ASSUME NEW e \in Enrollers PROVE Saves(e)' /\ WillStore(e)'
  <2>1. Saves(e) /\ WillStore(e)
    BY DEF IInv
  <2>2. FacesOf(file)' = FacesOf(file)
    BY DEF FacesOf, dirVars
  <2> QED
    BY <2>1, <2>2, <1>1 DEF Saves, WillStore, Kept, Alone, Working, dirVars
<1> QED
  BY <1>2, <1>3, <1>4, <1>5 DEF IInv

-----------------------------------------------------------------------------
(* The steps that change the directory.                                    *)

(* A time the directory has not given out yet is on no inode, and none     *)
(* that is gone comes back when an inode gets a new one.                   *)
LEMMA NewStamp ==
    ASSUME TypeOK, Inodes, NEW i \in Enrollers, NEW content, file' = file, temp' \in {temp, i},
           content.stamp = stamps + 1, disk' = [disk EXCEPT ![i] = content],
           stamps' = stamps + 1
    PROVE  /\ \A j \in Enrollers : j # i => disk'[j] = disk[j]
           /\ disk'[i] = content
           /\ \A j \in Enrollers : disk'[j].stamp <= stamps'
           /\ \A j, k \in Enrollers : disk'[j].stamp = disk'[k].stamp => j = k \/ disk'[j].stamp = 0
           /\ \A s : Gone(s) => Gone(s)'
           /\ \A s : s # 0 /\ s = StampOf(file) =>
                 (s = StampOf(file)' /\ FacesOf(file)' = FacesOf(file)) \/ Gone(s)'
<1>1. /\ \A j \in Enrollers : j # i => disk'[j] = disk[j]
      /\ disk'[i] = content
  BY DEF TypeOK
<1>2. stamps \in Nat /\ \A j \in Enrollers : disk[j].stamp \in Nat /\ disk[j].stamp <= stamps
  BY DEF TypeOK, Inodes, Content
<1>3. \A j \in Enrollers : disk'[j].stamp = IF j = i THEN stamps + 1 ELSE disk[j].stamp
  BY <1>1
<1>4. \A j \in Enrollers : disk'[j].stamp <= stamps'
  BY <1>2, <1>3
<1>5. ASSUME NEW j \in Enrollers, NEW k \in Enrollers, disk'[j].stamp = disk'[k].stamp
      PROVE  j = k \/ disk'[j].stamp = 0
  <2>1. CASE j # i /\ k # i
    BY <1>3, <1>5, <2>1 DEF Inodes
  <2>2. CASE j = i /\ k # i
    BY <1>2, <1>3, <1>5, <2>2
  <2>3. CASE j # i /\ k = i
    BY <1>2, <1>3, <1>5, <2>3
  <2> QED
    BY <2>1, <2>2, <2>3
<1>6. ASSUME NEW s, Gone(s) PROVE Gone(s)'
  <2>1. s \in 1..stamps' /\ s # stamps + 1
    BY <1>2, <1>6 DEF Gone
  <2> QED
    BY <1>3, <1>6, <2>1 DEF Gone
<1>7. ASSUME NEW s, s # 0, s = StampOf(file)
      PROVE  (s = StampOf(file)' /\ FacesOf(file)' = FacesOf(file)) \/ Gone(s)'
  <2>1. file \in Enrollers /\ file # NoFile /\ s = disk[file].stamp
    BY <1>7, FileFacts
  <2>2. CASE file # i
    <3>1. disk'[file] = disk[file]
      BY <1>1, <2>1, <2>2
    <3> QED
      BY <1>7, <2>1, <3>1 DEF StampOf, FacesOf
  <2>3. CASE file = i
    <3>1. \A j \in Enrollers : disk'[j].stamp # s
      <4> TAKE j \in Enrollers
      <4>1. CASE j = i
        BY <1>2, <1>3, <2>1, <4>1
      <4>2. CASE j # i
        BY <1>3, <1>7, <2>1, <2>3, <4>2 DEF Inodes
      <4> QED
        BY <4>1, <4>2
    <3>2. s \in Nat /\ s <= stamps'
      BY <1>2, <2>1
    <3> QED
      BY <1>7, <3>1, <3>2 DEF Gone
  <2> QED
    BY <2>2, <2>3
<1> QED
  BY <1>1, <1>4, <1>5, <1>6, <1>7

(* The temporary file is created, or truncated; it is never the file.      *)
LEMMA OpenTempKeeps ==
    ASSUME IInv, NEW e \in Enrollers, OpenTemp(e)
    PROVE  IInv'
<1> DEFINE i == IF temp = NoFile THEN e ELSE temp
           content == [Nothing EXCEPT !.stamp = stamps + 1]
<1>0. TypeOK /\ InPlace /\ Inodes /\ Cached /\ NoFile \notin Enrollers /\ Daemon \notin Enrollers
  BY EnrollmentAssumption DEF IInv
<1>1. /\ pc[e] = "opening" /\ Goes(e, "writing")
      /\ temp' = i /\ fd' = [fd EXCEPT ![e] = i] /\ disk' = [disk EXCEPT ![i] = content]
      /\ stamps' = stamps + 1 /\ file' = file
      /\ UNCHANGED <<keychain, keys, lookupFailures, erasing, erasures, mode, payload, key,
                     faces, disturbed, daemonVars>>
  BY DEF OpenTemp, keyVars, eraseVars
<1>2. i \in Enrollers /\ i # file
  <2>1. CASE temp = NoFile
    BY <1>0, <1>1, <2>1 DEF Inodes, Created
  <2>2. CASE temp # NoFile
    BY <1>0, <2>2 DEF Inodes, TypeOK, Files
  <2> QED
    BY <2>1, <2>2
<1>3. /\ content \in Content /\ content.stamp = stamps + 1 /\ content.is = "empty"
      /\ stamps + 1 \in Nat /\ stamps + 1 # 0
  BY <1>0 DEF Nothing, Content, TypeOK
<1>4. i \in {temp, e} /\ temp' \in {temp, i}
  BY <1>1
<1> HIDE DEF i, content
<1>5. /\ \A j \in Enrollers : j # i => disk'[j] = disk[j]
      /\ disk'[i] = content
      /\ \A j \in Enrollers : disk'[j].stamp <= stamps'
      /\ \A j, k \in Enrollers : disk'[j].stamp = disk'[k].stamp => j = k \/ disk'[j].stamp = 0
      /\ \A s : Gone(s) => Gone(s)'
      /\ \A s : s # 0 /\ s = StampOf(file) =>
            (s = StampOf(file)' /\ FacesOf(file)' = FacesOf(file)) \/ Gone(s)'
  BY <1>0, <1>1, <1>2, <1>3, <1>4, NewStamp
<1>6. pc'[e] = "writing" /\ \A p \in Procs \ {e} : pc'[p] = pc[p]
  BY <1>0, <1>1 DEF Goes, TypeOK, Procs
<1>7. TypeOK'
  <2>1. pc' \in [Procs -> Places] /\ fd' \in [Enrollers -> Files] /\ temp' \in Files
    BY <1>0, <1>1, <1>2 DEF TypeOK, Goes, Places, Files
  <2>2. disk' \in [Enrollers -> Content] /\ stamps' \in Nat
    BY <1>0, <1>1, <1>2, <1>3 DEF TypeOK
  <2> QED
    BY <1>0, <1>1, <2>1, <2>2 DEF TypeOK, daemonVars
<1>8. Inodes'
  <2>1. ASSUME NEW j \in Enrollers, j = file' \/ j = temp'
        PROVE  Created(j)' /\ disk'[j].stamp # 0
    <3>1. CASE j = i
      <4>1. j = e \/ Created(j)
        BY <1>0, <1>4, <3>1 DEF Inodes
      <4> QED
        BY <1>3, <1>5, <1>6, <3>1, <4>1 DEF Created, Procs
    <3>2. CASE j # i
      BY <1>0, <1>1, <1>5, <1>6, <2>1, <3>2 DEF Inodes, Created, Procs
    <3> QED
      BY <3>1, <3>2
  <2> QED
    BY <1>1, <1>2, <1>5, <2>1 DEF Inodes
<1>9. Elsewhere
  BY <1>0, <1>1, <1>5, <1>6 DEF Elsewhere, Procs
<1>10. FacesOf(file)' = FacesOf(file)
  BY <1>0, <1>1, <1>2, <1>5 DEF FacesOf, TypeOK, Files
<1>11. Saves(e)' /\ WillStore(e)'
  <2>1. fd'[e] = i /\ temp' = i /\ disk'[i].is = "empty" /\ i # NoFile
    BY <1>0, <1>1, <1>2, <1>3, <1>5 DEF TypeOK
  <2>2. Saves(e)'
    BY <1>6, <2>1 DEF Saves
  <2>3. Working(e)
    BY <1>1 DEF Working
  <2>4. WillStore(e)'
    BY <1>1, <1>6, <1>10, <2>3 DEF IInv, WillStore, Kept, Alone
  <2> QED
    BY <2>2, <2>4
<1>12. ASSUME disturbed = {}, lookupFailures' = 0
       PROVE  KeyOfFile' /\ KeyOf(e)' /\ KeyOfDaemon'
  <2>1. KeyOfFile /\ KeyOf(e) /\ KeyOfDaemon
    BY <1>1, <1>12 DEF IInv, Serial
  <2>2. file # NoFile => disk'[file] = disk[file]
    BY <1>0, <1>2, <1>5 DEF TypeOK, Files
  <2>3. KeyOfFile'
    BY <1>1, <2>1, <2>2 DEF KeyOfFile
  <2>4. KeyOf(e)'
    BY <1>1, <1>6, <2>1 DEF KeyOf
  <2>5. KeyOfDaemon'
    BY <1>0, <1>1, <1>6, <2>1 DEF KeyOfDaemon, Procs
  <2> QED
    BY <2>3, <2>4, <2>5
<1>13. Working(e) /\ ~Created(e) /\ "writing" \in EnrollerPlaces
  BY <1>1 DEF Working, Created, EnrollerPlaces
<1> QED
  BY <1>1, <1>7, <1>8, <1>9, <1>11, <1>12, <1>13, EnrollerStep

(* What is written goes to the inode that was opened, whatever its name.   *)
LEMMA WriteKeeps ==
    ASSUME IInv, NEW e \in Enrollers, Write(e)
    PROVE  IInv'
<1> DEFINE i == fd[e]
<1>0. TypeOK /\ InPlace /\ Inodes /\ Cached /\ NoFile \notin Enrollers /\ Daemon \notin Enrollers
  BY EnrollmentAssumption DEF IInv
<1>1. PICK is \in IF disk[i].is = "empty" THEN {"whole"} ELSE {"whole", "garbled"} :
         disk' = [disk EXCEPT ![i] = [faces |-> faces[e], key |-> key[e],
                                      stamp |-> stamps + 1, is |-> is]]
  BY DEF Write
<1> DEFINE content == [faces |-> faces[e], key |-> key[e], stamp |-> stamps + 1, is |-> is]
<1>2. /\ pc[e] = "writing" /\ Goes(e, "replacing") /\ stamps' = stamps + 1
      /\ file' = file /\ temp' = temp
      /\ UNCHANGED <<keychain, keys, lookupFailures, erasing, erasures, mode, payload, key, fd,
                     faces, disturbed, daemonVars>>
  BY DEF Write, keyVars, eraseVars, procVars
<1>3. /\ content \in Content /\ content.stamp = stamps + 1 /\ content.faces = faces[e]
      /\ content.key = key[e] /\ content.is = is /\ stamps + 1 \in Nat /\ stamps + 1 # 0
  <2>1. is \in {"empty", "whole", "garbled"}
    BY <1>1
  <2> QED
    BY <1>0, <2>1 DEF Content, TypeOK
<1>4. disk' = [disk EXCEPT ![i] = content] /\ (disk[i].is = "empty" => is = "whole")
  BY <1>1
<1> HIDE DEF content
<1>5. /\ i \in Enrollers => /\ \A j \in Enrollers : j # i => disk'[j] = disk[j]
                            /\ disk'[i] = content
      /\ i \notin Enrollers => disk' = disk
      /\ \A j \in Enrollers : disk'[j].stamp <= stamps'
      /\ \A j, k \in Enrollers : disk'[j].stamp = disk'[k].stamp => j = k \/ disk'[j].stamp = 0
      /\ \A j \in Enrollers : disk[j].stamp # 0 => disk'[j].stamp # 0
      /\ \A s : Gone(s) => Gone(s)'
      /\ \A s : s # 0 /\ s = StampOf(file) =>
            (s = StampOf(file)' /\ FacesOf(file)' = FacesOf(file)) \/ Gone(s)'
  <2>1. CASE i \in Enrollers
    <3>1. TypeOK /\ Inodes /\ file' = file /\ temp' \in {temp, i}
          /\ content.stamp = stamps + 1 /\ disk' = [disk EXCEPT ![i] = content]
          /\ stamps' = stamps + 1
      BY <1>0, <1>2, <1>3, <1>4
    <3> HIDE DEF i
    <3>2. /\ \A j \in Enrollers : j # i => disk'[j] = disk[j]
          /\ disk'[i] = content
          /\ \A j \in Enrollers : disk'[j].stamp <= stamps'
          /\ \A j, k \in Enrollers : disk'[j].stamp = disk'[k].stamp => j = k \/ disk'[j].stamp = 0
          /\ \A s : Gone(s) => Gone(s)'
          /\ \A s : s # 0 /\ s = StampOf(file) =>
                (s = StampOf(file)' /\ FacesOf(file)' = FacesOf(file)) \/ Gone(s)'
      BY <2>1, <3>1, NewStamp
    <3>3. \A j \in Enrollers : disk[j].stamp # 0 => disk'[j].stamp # 0
      BY <1>3, <3>2
    <3> QED
      BY <2>1, <3>2, <3>3
  <2>2. CASE i \notin Enrollers
    <3>1. disk' = disk
      BY <1>0, <1>4, <2>2 DEF TypeOK
    <3>2. stamps \in Nat /\ \A j \in Enrollers : disk[j].stamp \in Nat
      BY <1>0 DEF TypeOK, Content
    <3>3. \A s \in 1..stamps : s \in 1..stamps'
      BY <1>2, <3>2
    <3> QED
      BY <1>0, <1>2, <2>2, <3>1, <3>2, <3>3 DEF Inodes, StampOf, FacesOf, Gone
  <2> QED
    BY <2>1, <2>2
<1>6. pc'[e] = "replacing" /\ \A p \in Procs \ {e} : pc'[p] = pc[p]
  BY <1>0, <1>2 DEF Goes, TypeOK, Procs
<1>7. TypeOK'
  <2>1. pc' \in [Procs -> Places] /\ disk' \in [Enrollers -> Content] /\ stamps' \in Nat
    BY <1>0, <1>2, <1>3, <1>4 DEF TypeOK, Goes, Places
  <2> QED
    BY <1>0, <1>2, <2>1 DEF TypeOK, daemonVars
<1>8. Inodes'
  <2>1. \A j \in Enrollers : Created(j) => Created(j)'
    BY <1>6 DEF Created, Procs
  <2> QED
    BY <1>0, <1>2, <1>5, <2>1 DEF Inodes
<1>9. Elsewhere
  BY <1>0, <1>2, <1>5, <1>6 DEF Elsewhere, Procs
<1>10. Working(e)
  BY <1>2 DEF Working
<1>11. ASSUME Alone(e) PROVE i = temp /\ temp \in Enrollers /\ temp # file /\ is = "whole"
  BY <1>0, <1>2, <1>4, <1>11 DEF IInv, Saves, Inodes, TypeOK, Files
<1>12. ASSUME Alone(e) PROVE file # NoFile => disk'[file] = disk[file]
  BY <1>0, <1>5, <1>11, <1>12 DEF TypeOK, Files
<1>13. Saves(e)' /\ WillStore(e)'
  <2> SUFFICES ASSUME Alone(e) PROVE Saves(e)' /\ WillStore(e)'
    BY <1>2, <1>10 DEF Saves, WillStore, Kept, Alone
  <2>1. Saves(e)'
    BY <1>0, <1>2, <1>3, <1>5, <1>6, <1>11 DEF IInv, Saves
  <2>2. FacesOf(file)' = FacesOf(file)
    BY <1>2, <1>12 DEF FacesOf
  <2>3. WillStore(e)'
    BY <1>2, <1>6, <2>2 DEF IInv, WillStore, Kept
  <2> QED
    BY <2>1, <2>3
<1>14. ASSUME disturbed = {}, lookupFailures' = 0
       PROVE  KeyOfFile' /\ KeyOf(e)' /\ KeyOfDaemon'
  <2>1. KeyOfFile /\ KeyOf(e) /\ KeyOfDaemon
    BY <1>2, <1>14 DEF IInv, Serial
  <2>2. Alone(e)
    BY <1>10, <1>14 DEF Alone
  <2>3. KeyOfFile'
    BY <1>2, <1>12, <2>1, <2>2 DEF KeyOfFile
  <2>4. KeyOf(e)'
    BY <1>2, <1>6, <2>1 DEF KeyOf
  <2>5. KeyOfDaemon'
    BY <1>0, <1>2, <1>6, <2>1 DEF KeyOfDaemon, Procs
  <2> QED
    BY <2>3, <2>4, <2>5
<1>15. "replacing" \in EnrollerPlaces /\ Created(e)'
  BY <1>6 DEF EnrollerPlaces, Created
<1> QED
  BY <1>2, <1>7, <1>8, <1>9, <1>10, <1>13, <1>14, <1>15, EnrollerStep

(* The temporary file becomes the file: the inode that was the file has no *)
(* name any more.                                                          *)
LEMMA ReplaceKeeps ==
    ASSUME IInv, NEW e \in Enrollers, Replace(e)
    PROVE  IInv'
<1>0. TypeOK /\ InPlace /\ Inodes /\ Cached /\ NoFile \notin Enrollers /\ Daemon \notin Enrollers
  BY EnrollmentAssumption DEF IInv
<1>1. /\ pc[e] = "replacing" /\ Working(e)
      /\ UNCHANGED <<disk, stamps, keychain, keys, lookupFailures, erasing, erasures, mode,
                     payload, key, fd, faces, disturbed, daemonVars>>
  BY DEF Replace, keyVars, eraseVars, procVars, Working
<1>2. CASE temp = NoFile /\ Goes(e, "failed") /\ UNCHANGED <<file, temp>>
  <2>1. pc'[e] = "failed" /\ \A p \in Procs \ {e} : pc'[p] = pc[p]
    BY <1>0, <1>2 DEF Goes, TypeOK, Procs
  <2>2. TypeOK'
    <3>1. pc' \in [Procs -> Places]
      BY <1>0, <1>2 DEF TypeOK, Goes, Places
    <3> QED
      BY <1>0, <1>1, <1>2, <3>1 DEF TypeOK, daemonVars
  <2>3. Inodes'
    BY <1>0, <1>1, <1>2, <2>1 DEF Inodes, Created, Procs
  <2>4. UNCHANGED dirVars /\ pc'[Daemon] = pc[Daemon] /\ payload' = payload /\ erasing' = erasing
    BY <1>0, <1>1, <1>2, <2>1 DEF dirVars, Procs
  <2>5. Elsewhere
    BY <1>1, <2>4, ElsewhereUnchanged
  <2>6. Saves(e)' /\ WillStore(e)'
    BY <2>1 DEF Saves, WillStore, Kept, Alone, Working
  <2>7. ASSUME disturbed = {}, lookupFailures' = 0
        PROVE  KeyOfFile' /\ KeyOf(e)' /\ KeyOfDaemon'
    BY <1>1, <1>2, <2>1, <2>4, <2>7 DEF IInv, Serial, KeyOfFile, KeyOf, KeyOfDaemon
  <2>8. "failed" \in EnrollerPlaces /\ Created(e)'
    BY <2>1 DEF EnrollerPlaces, Created
  <2> QED
    BY <1>1, <1>2, <2>2, <2>3, <2>5, <2>6, <2>7, <2>8, EnrollerStep
<1>3. CASE temp # NoFile /\ Goes(e, "done") /\ file' = temp /\ temp' = NoFile
  <2>1. pc'[e] = "done" /\ \A p \in Procs \ {e} : pc'[p] = pc[p]
    BY <1>0, <1>3 DEF Goes, TypeOK, Procs
  <2>2. TypeOK'
    <3>1. pc' \in [Procs -> Places] /\ file' \in Files /\ temp' \in Files
      BY <1>0, <1>3 DEF TypeOK, Goes, Places, Files
    <3> QED
      BY <1>0, <1>1, <3>1 DEF TypeOK, daemonVars
  <2>3. temp \in Enrollers /\ temp # file
    BY <1>0, <1>3 DEF Inodes, TypeOK, Files
  <2>4. Inodes'
    <3>1. \A j \in Enrollers : Created(j) => Created(j)'
      BY <2>1 DEF Created, Procs
    <3> QED
      BY <1>0, <1>1, <1>3, <2>3, <3>1 DEF Inodes
  <2>5. Elsewhere
    <3>1. ASSUME NEW s, Gone(s) PROVE Gone(s)'
      BY <1>0, <1>1, <1>3, <3>1 DEF Gone
    <3>2. ASSUME NEW s, s # 0, s = StampOf(file) PROVE Gone(s)'
      <4>1. file \in Enrollers /\ s = disk[file].stamp /\ s \in 1..stamps
        <5>1. stamps \in Nat
          BY <1>0 DEF TypeOK
        <5> QED
          BY <1>0, <3>2, <5>1, FileFacts
      <4>2. \A j \in Enrollers : disk[j].stamp = s => j = file
        BY <1>0, <3>2, <4>1 DEF Inodes
      <4> QED
        BY <1>0, <1>1, <1>3, <2>3, <3>2, <4>1, <4>2 DEF Gone
    <3> QED
      BY <1>0, <1>1, <1>3, <2>1, <3>1, <3>2 DEF Elsewhere, Procs
  <2>6. Saves(e)' /\ WillStore(e)'
    BY <2>1 DEF Saves, WillStore, Kept, Alone, Working
  <2>7. ASSUME disturbed = {}, lookupFailures' = 0
        PROVE  KeyOfFile' /\ KeyOf(e)' /\ KeyOfDaemon'
    <3>1. KeyOf(e) /\ KeyOfDaemon
      BY <1>1, <2>7 DEF IInv, Serial
    <3>2. Alone(e)
      BY <1>1, <2>7 DEF Alone
    <3>3. disk[temp].is = "whole" /\ disk[temp].key = keychain /\ keychain # 0 /\ erasing = "no"
      BY <1>1, <3>1, <3>2 DEF IInv, Saves, Undisturbed, KeyOf
    <3>4. KeyOfFile'
      BY <1>1, <1>3, <3>3 DEF KeyOfFile
    <3>5. KeyOf(e)' /\ KeyOfDaemon'
      BY <1>0, <1>1, <2>1, <3>1 DEF KeyOf, KeyOfDaemon, Procs
    <3> QED
      BY <3>4, <3>5
  <2>8. "done" \in EnrollerPlaces /\ Created(e)'
    BY <2>1 DEF EnrollerPlaces, Created
  <2> QED
    BY <1>1, <1>3, <2>2, <2>4, <2>5, <2>6, <2>7, <2>8, EnrollerStep
<1> QED
  BY <1>2, <1>3 DEF Replace

-----------------------------------------------------------------------------
(* The steps that leave the directory as it is.                            *)

(* Such a step of an enrolment, that has still to open the file it writes, *)
(* or ends.                                                                *)
LEMMA EnrollerElsewhere ==
    ASSUME IInv, NEW e \in Enrollers, Working(e), NEW place \in EnrollerPlaces, Goes(e, place),
           Created(e) => place = "failed",
           UNCHANGED <<dirVars, eraseVars, disturbed, mode, fd, daemonVars>>,
           keychain' \in 0..keys', keys' \in Nat, lookupFailures' \in Nat,
           payload' \in [Procs -> Content], key' \in [Enrollers -> Nat],
           faces' \in [Enrollers -> SUBSET Enrollers], payload'[Daemon] = payload[Daemon],
           place \notin {"writing", "replacing"}, WillStore(e)',
           lookupFailures' = 0 => lookupFailures = 0,
           disturbed = {} /\ lookupFailures' = 0 =>
              KeyOf(e)' /\ (keychain' = keychain \/ keychain = 0)
    PROVE  IInv'
<1>0. TypeOK /\ Inodes /\ Daemon \notin Enrollers
  BY EnrollmentAssumption DEF IInv
<1>1. pc'[e] = place /\ \A p \in Procs \ {e} : pc'[p] = pc[p]
  BY <1>0 DEF Goes, TypeOK, Procs
<1>2. TypeOK'
  <2>1. pc' \in [Procs -> Places]
    BY <1>0 DEF TypeOK, Goes, Places, EnrollerPlaces
  <2> QED
    BY <1>0, <2>1 DEF TypeOK, dirVars, eraseVars, daemonVars
<1>3. Created(e) => Created(e)'
  BY <1>1 DEF Created
<1>4. Inodes'
  BY <1>0, <1>1, <1>3 DEF Inodes, Created, dirVars, Procs
<1>5. pc'[Daemon] = pc[Daemon] /\ UNCHANGED <<erasing, file, disk>>
  BY <1>0, <1>1 DEF Procs, eraseVars, dirVars
<1>6. Elsewhere
  BY <1>5, ElsewhereUnchanged
<1>7. Saves(e)'
  BY <1>1 DEF Saves
<1>8. ASSUME disturbed = {}, lookupFailures' = 0
      PROVE  KeyOfFile' /\ KeyOf(e)' /\ KeyOfDaemon'
  <2>1. KeyOfFile /\ KeyOfDaemon
    BY <1>8 DEF IInv, Serial
  <2> QED
    BY <1>5, <1>8, <2>1 DEF KeyOfFile, KeyOfDaemon
<1> QED
  BY <1>2, <1>3, <1>4, <1>6, <1>7, <1>8, EnrollerStep DEF eraseVars

LEMMA BeginKeeps ==
    ASSUME IInv, NEW e \in Enrollers, Begin(e)
    PROVE  IInv'
<1> DEFINE others == {other \in Enrollers : Working(other)}
<1>0. /\ TypeOK /\ InPlace /\ Inodes /\ Undisturbed /\ Cached
      /\ Daemon \notin Enrollers
  BY EnrollmentAssumption DEF IInv
<1>1. /\ pc[e] = "idle" /\ Goes(e, "capturing")
      /\ disturbed' = IF others # {} \/ erasing # "no" THEN disturbed \cup others \cup {e}
                                                     ELSE disturbed
      /\ \E m \in {"replace", "append"} : mode' = [mode EXCEPT ![e] = m]
      /\ UNCHANGED <<dirVars, keyVars, eraseVars, payload, key, fd, faces, daemonVars>>
  BY DEF Begin
<1>2. pc'[e] = "capturing" /\ \A p \in Procs \ {e} : pc'[p] = pc[p]
  BY <1>0, <1>1 DEF Goes, TypeOK, Procs
<1>3. TypeOK'
  <2>1. pc' \in [Procs -> Places] /\ mode' \in [Enrollers -> {"replace", "append"}]
    BY <1>0, <1>1 DEF TypeOK, Goes, Places
  <2>2. disturbed' \subseteq Enrollers
    BY <1>0, <1>1 DEF TypeOK
  <2> QED
    BY <1>0, <1>1, <2>1, <2>2 DEF TypeOK, dirVars, keyVars, eraseVars, daemonVars
<1>4. InPlace'
  <2>1. pc'[Daemon] = pc[Daemon]
    BY <1>0, <1>2 DEF Procs
  <2>2. \A x \in Enrollers : pc'[x] \in EnrollerPlaces
    BY <1>0, <1>2 DEF InPlace, Procs, EnrollerPlaces
  <2> QED
    BY <1>0, <1>1, <2>1, <2>2 DEF InPlace, daemonVars
<1>5. Inodes'
  <2>1. \A j \in Enrollers : Created(j) => Created(j)'
    BY <1>1, <1>2 DEF Created, Procs
  <2> QED
    BY <1>0, <1>1, <2>1 DEF Inodes, dirVars
<1>6. \A x \in Enrollers : Working(x)' <=> Working(x) \/ x = e
  BY <1>2 DEF Working, Procs
<1>7. \A x \in Enrollers : Alone(x)' => others = {} /\ erasing = "no" /\ x = e
  BY <1>1, <1>6 DEF Alone
<1>8. Undisturbed'
  BY <1>1, <1>6, <1>7 DEF Undisturbed, eraseVars
<1>9. \A x \in Enrollers : Saves(x)' /\ WillStore(x)'
  BY <1>2, <1>7 DEF Saves, WillStore, Kept
<1>10. Cached'
  <2>1. Elsewhere
    BY <1>0, <1>1, <1>2, ElsewhereUnchanged DEF Procs, eraseVars
  <2> QED
    BY <1>0, <1>3, <1>5, <2>1, CachedElsewhere
<1>11. Serial'
  <2> SUFFICES ASSUME disturbed' = {}, lookupFailures' = 0
               PROVE  KeyOfFile' /\ KeyOfDaemon' /\ \A x \in Enrollers : KeyOf(x)'
    BY DEF Serial
  <2>1. disturbed = {} /\ others = {} /\ lookupFailures = 0
    BY <1>1 DEF keyVars
  <2>2. KeyOfFile /\ KeyOfDaemon
    BY <2>1 DEF IInv, Serial
  <2>3. KeyOfFile' /\ KeyOfDaemon'
    BY <1>0, <1>1, <1>2, <2>2 DEF KeyOfFile, KeyOfDaemon, Procs, dirVars, keyVars, eraseVars
  <2>4. \A x \in Enrollers : ~Working(x)' \/ x = e
    BY <1>6, <2>1
  <2>5. \A x \in Enrollers : KeyOf(x)'
    BY <1>2, <2>4 DEF KeyOf, Working
  <2> QED
    BY <2>3, <2>5
<1> QED
  BY <1>3, <1>4, <1>5, <1>8, <1>9, <1>10, <1>11 DEF IInv

LEMMA CapturedKeeps ==
    ASSUME IInv, NEW e \in Enrollers, Captured(e)
    PROVE  IInv'
<1> DEFINE place == IF mode[e] = "append" THEN "reading" ELSE "saving"
<1>1. /\ pc[e] = "capturing" /\ Goes(e, place) /\ place \in EnrollerPlaces
      /\ faces' = [faces EXCEPT ![e] = {e}]
      /\ UNCHANGED <<dirVars, keychain, keys, lookupFailures, eraseVars, mode, payload, key, fd,
                     disturbed, daemonVars>>
  BY DEF Captured, EnrollerPlaces, keyVars
<1>2. TypeOK
  BY DEF IInv
<1>3. pc'[e] = place /\ Working(e) /\ ~Created(e)
  BY <1>1, <1>2 DEF Goes, TypeOK, Procs, Working, Created
<1>4. faces' \in [Enrollers -> SUBSET Enrollers]
  BY <1>1, <1>2 DEF TypeOK
<1>5. WillStore(e)' /\ KeyOf(e)'
  BY <1>1, <1>2, <1>3 DEF WillStore, Kept, KeyOf, TypeOK
<1>6. place \notin {"writing", "replacing"}
  OBVIOUS
<1> QED
  BY <1>1, <1>2, <1>3, <1>4, <1>5, <1>6, EnrollerElsewhere DEF TypeOK

LEMMA FindsKeyKeeps ==
    ASSUME IInv, NEW e \in Enrollers, FindsKey(e)
    PROVE  IInv'
<1>1. /\ pc[e] = "saving"
      /\ UNCHANGED <<dirVars, keychain, keys, eraseVars, mode, payload, fd, faces, disturbed,
                     daemonVars>>
  BY DEF FindsKey
<1>2. TypeOK /\ WillStore(e)
  BY DEF IInv
<1>3. PICK place \in {"opening", "addingToSave"} :
         /\ Goes(e, place)
         /\ \/ /\ place = "opening" /\ KeyFound /\ key' = [key EXCEPT ![e] = keychain]
            \/ place = "addingToSave" /\ KeyNotFound /\ UNCHANGED key
  BY DEF FindsKey
<1>4. /\ lookupFailures' \in Nat /\ (lookupFailures' = 0 => lookupFailures = 0)
      /\ key' \in [Enrollers -> Nat]
  BY <1>1, <1>2, <1>3 DEF TypeOK, KeyFound, KeyNotFound
<1>5. pc'[e] = place /\ Working(e) /\ ~Created(e) /\ place \in EnrollerPlaces
  BY <1>1, <1>2, <1>3 DEF Goes, TypeOK, Procs, Working, Created, EnrollerPlaces
<1>6. WillStore(e)'
  BY <1>1, <1>2, <1>3, <1>5 DEF WillStore, Kept, Alone, FacesOf, dirVars
<1>7. lookupFailures' = 0 => KeyOf(e)'
  BY <1>1, <1>2, <1>3, <1>5 DEF KeyOf, KeyFound, KeyNotFound, TypeOK
<1>8. place \notin {"writing", "replacing"}
  BY <1>3
<1> QED
  BY <1>1, <1>2, <1>3, <1>4, <1>5, <1>6, <1>7, <1>8, EnrollerElsewhere DEF TypeOK

LEMMA AddsKeyKeeps ==
    ASSUME IInv, NEW e \in Enrollers, AddsKey(e)
    PROVE  IInv'
<1>1. /\ pc[e] = "addingToSave"
      /\ UNCHANGED <<dirVars, lookupFailures, eraseVars, mode, payload, fd, faces, disturbed,
                     daemonVars>>
  BY DEF AddsKey
<1>2. TypeOK /\ WillStore(e)
  BY DEF IInv
<1>3. PICK place \in {"opening", "failed"} :
         /\ Goes(e, place)
         /\ \/ place = "opening" /\ AddKey /\ key' = [key EXCEPT ![e] = keys']
            \/ place = "failed" /\ CannotAddKey /\ UNCHANGED key
  BY DEF AddsKey
<1>4. keychain' \in 0..keys' /\ keys' \in Nat /\ key' \in [Enrollers -> Nat]
  BY <1>2, <1>3 DEF TypeOK, AddKey, CannotAddKey
<1>5. pc'[e] = place /\ Working(e) /\ ~Created(e) /\ place \in EnrollerPlaces
  BY <1>1, <1>2, <1>3 DEF Goes, TypeOK, Procs, Working, Created, EnrollerPlaces
<1>6. WillStore(e)'
  BY <1>1, <1>2, <1>3, <1>5 DEF WillStore, Kept, Alone, FacesOf, dirVars
<1>7. KeyOf(e)'
  BY <1>2, <1>3, <1>5 DEF KeyOf, AddKey, TypeOK
<1>8. disturbed = {} /\ lookupFailures' = 0 => keychain = 0
  BY <1>1 DEF IInv, Serial, KeyOf
<1>9. place \notin {"writing", "replacing"}
  BY <1>3
<1> QED
  BY <1>1, <1>2, <1>3, <1>4, <1>5, <1>6, <1>7, <1>8, <1>9, EnrollerElsewhere DEF TypeOK

LEMMA CancelKeeps ==
    ASSUME IInv, NEW e \in Enrollers, Cancel(e)
    PROVE  IInv'
<1>1. /\ Working(e) /\ Goes(e, "failed") /\ "failed" \in EnrollerPlaces
      /\ UNCHANGED <<dirVars, keychain, keys, lookupFailures, eraseVars, mode, payload, key, fd,
                     faces, disturbed, daemonVars>>
  BY DEF Cancel, keyVars, procVars, EnrollerPlaces
<1>2. TypeOK
  BY DEF IInv
<1>3. pc'[e] = "failed"
  BY <1>1, <1>2 DEF Goes, TypeOK, Procs
<1>4. WillStore(e)' /\ KeyOf(e)'
  BY <1>3 DEF WillStore, Kept, Alone, Working, KeyOf
<1> QED
  BY <1>1, <1>2, <1>4, EnrollerElsewhere DEF TypeOK

(* What an enrolment that appends reads: it fails, or has all there is.    *)
LEMMA EnrollerLoads ==
    ASSUME IInv, NEW e \in Enrollers, Load(e)
    PROVE  IInv'
<1>0. TypeOK /\ Inodes /\ WillStore(e) /\ e # Daemon /\ e \in Procs
  BY EnrollmentAssumption DEF IInv, Procs
<1>1. PICK place \in {"saving", "failed", "finding", "adding"} : Goes(e, place)
  BY <1>0 DEF Load, ReadFile, Decrypt, LookupFails, AddsThenRaises, Loads, Raises
<1>2. pc'[e] = place
  BY <1>0, <1>1 DEF Goes, TypeOK
<1>3. /\ pc[e] \in {"reading", "finding", "adding"}
      /\ UNCHANGED <<dirVars, eraseVars, disturbed, mode, key, fd, daemonVars>>
  BY <1>0 DEF Load, ReadFile, Decrypt, LookupFails, AddsThenRaises, Loads, Raises, procVars
<1>4. Working(e) /\ ~Created(e) /\ place \in EnrollerPlaces
  BY <1>3 DEF Working, Created, EnrollerPlaces
<1>5. file # NoFile => disk[file] \in Content
  BY <1>0 DEF TypeOK, Files
<1>6. Alone(e)' => Alone(e)
  BY <1>3, <1>4 DEF Alone
<1>7. CASE ReadFile(e)
  <2>1. /\ pc[e] = "reading" /\ UNCHANGED <<keychain, keys, lookupFailures>>
        /\ \/ file = NoFile /\ Loads(e, Nothing) /\ UNCHANGED payload
           \/ file # NoFile /\ Raises(e) /\ UNCHANGED payload
           \/ /\ file # NoFile /\ payload' = [payload EXCEPT ![e] = disk[file]]
              /\ Goes(e, "finding") /\ UNCHANGED faces
    BY <1>7 DEF ReadFile, keyVars
  <2>2. /\ payload' \in [Procs -> Content] /\ payload'[Daemon] = payload[Daemon]
        /\ faces' \in [Enrollers -> SUBSET Enrollers]
    <3>1. payload' \in [Procs -> Content] /\ payload'[Daemon] = payload[Daemon]
      BY <1>0, <1>5, <2>1 DEF TypeOK, Procs
    <3>2. faces' \in [Enrollers -> SUBSET Enrollers]
      BY <1>0, <2>1 DEF TypeOK, Loads, Raises, Nothing
    <3> QED
      BY <3>1, <3>2
  <2>3. WillStore(e)'
    <3>1. CASE file = NoFile /\ Loads(e, Nothing)
      <4>1. pc'[e] = "saving" /\ faces'[e] = {e}
        BY <1>0, <3>1 DEF Loads, Nothing, Goes, TypeOK
      <4> QED
        BY <1>3, <3>1, <4>1 DEF WillStore, Kept, FacesOf, dirVars
    <3>2. CASE Raises(e)
      <4>1. pc'[e] = "failed"
        BY <1>0, <3>2 DEF Raises, Goes, TypeOK
      <4> QED
        BY <4>1 DEF WillStore, Kept
    <3>3. CASE file # NoFile /\ payload' = [payload EXCEPT ![e] = disk[file]] /\ Goes(e, "finding")
      <4>1. pc'[e] = "finding" /\ payload'[e] = disk[file]
        BY <1>0, <3>3 DEF Goes, TypeOK
      <4> QED
        BY <1>0, <1>3, <3>3, <4>1, <1>6 DEF WillStore, FacesOf, dirVars
    <3> QED
      BY <2>1, <3>1, <3>2, <3>3
  <2>4. disturbed = {} /\ lookupFailures' = 0 => KeyOf(e)'
    <3>1. disturbed = {} /\ lookupFailures' = 0 => (file # NoFile => keychain # 0)
      BY <2>1 DEF IInv, Serial, KeyOfFile
    <3>2. pc'[e] \in {"saving", "failed"} \/ (pc'[e] = "finding" /\ file # NoFile)
      BY <1>0, <2>1 DEF Loads, Raises, Goes, TypeOK
    <3> QED
      BY <2>1, <3>1, <3>2 DEF KeyOf
  <2>5. /\ keychain' \in 0..keys' /\ keys' \in Nat /\ lookupFailures' \in Nat
        /\ key' \in [Enrollers -> Nat]
    BY <1>0, <1>3, <2>1 DEF TypeOK
  <2> QED
    BY <1>1, <1>3, <1>4, <2>1, <2>2, <2>3, <2>4, <2>5, EnrollerElsewhere
<1>8. CASE Decrypt(e)
  <2>1. /\ pc[e] = "finding" /\ UNCHANGED <<keychain, keys, lookupFailures, payload>>
        /\ Loads(e, payload[e]) \/ Raises(e)
    BY <1>8 DEF Decrypt, KeyFound
  <2>2. payload[e] \in Content
    BY <1>0 DEF TypeOK
  <2>3. faces' \in [Enrollers -> SUBSET Enrollers]
    BY <1>0, <2>1, <2>2 DEF TypeOK, Loads, Raises, Content
  <2>4. WillStore(e)'
    <3>1. CASE Loads(e, payload[e])
      <4>1. pc'[e] = "saving" /\ faces'[e] = payload[e].faces \cup {e}
        BY <1>0, <3>1 DEF Loads, Goes, TypeOK
      <4> QED
        BY <1>0, <1>3, <1>6, <2>1, <4>1 DEF WillStore, Kept, FacesOf, dirVars
    <3>2. CASE Raises(e)
      <4>1. pc'[e] = "failed"
        BY <1>0, <3>2 DEF Raises, Goes, TypeOK
      <4> QED
        BY <4>1 DEF WillStore, Kept
    <3> QED
      BY <2>1, <3>1, <3>2
  <2>5. KeyOf(e)'
    <3>1. pc'[e] \in {"saving", "failed"}
      BY <1>0, <2>1 DEF Loads, Raises, Goes, TypeOK
    <3> QED
      BY <3>1 DEF KeyOf
  <2>6. /\ keychain' \in 0..keys' /\ keys' \in Nat /\ lookupFailures' \in Nat
        /\ key' \in [Enrollers -> Nat] /\ payload' \in [Procs -> Content]
    BY <1>0, <1>3, <2>1 DEF TypeOK
  <2>7. place \notin {"writing", "replacing"}
    BY <1>1
  <2> QED
    BY <1>1, <1>3, <1>4, <2>1, <2>3, <2>4, <2>5, <2>6, <2>7, EnrollerElsewhere
<1>9. CASE LookupFails(e)
  <2>1. /\ pc[e] = "finding" /\ UNCHANGED <<keychain, keys, payload, faces>> /\ KeyNotFound
        /\ pc'[e] = "adding"
    BY <1>0, <1>9 DEF LookupFails, procVars, Goes, TypeOK
  <2>2. /\ keychain' \in 0..keys' /\ keys' \in Nat /\ lookupFailures' \in Nat
        /\ lookupFailures' = 0 => lookupFailures = 0 /\ keychain = 0
        /\ key' \in [Enrollers -> Nat] /\ payload' \in [Procs -> Content]
        /\ faces' \in [Enrollers -> SUBSET Enrollers]
    BY <1>0, <1>3, <2>1 DEF TypeOK, KeyNotFound
  <2>3. ~(disturbed = {} /\ lookupFailures' = 0)
    BY <2>1, <2>2 DEF IInv, Serial, KeyOf
  <2>4. WillStore(e)'
    BY <1>0, <1>3, <1>6, <2>1 DEF WillStore
  <2>5. place \notin {"writing", "replacing"}
    BY <1>1
  <2> QED
    BY <1>1, <1>3, <1>4, <2>1, <2>2, <2>3, <2>4, <2>5, EnrollerElsewhere
<1>10. CASE AddsThenRaises(e)
  <2>1. /\ pc[e] = "adding" /\ UNCHANGED <<lookupFailures, payload, faces>>
        /\ AddKey \/ CannotAddKey
        /\ pc'[e] = "failed"
    BY <1>0, <1>10 DEF AddsThenRaises, Raises, Goes, TypeOK
  <2>2. /\ keychain' \in 0..keys' /\ keys' \in Nat /\ lookupFailures' \in Nat
        /\ key' \in [Enrollers -> Nat] /\ payload' \in [Procs -> Content]
        /\ faces' \in [Enrollers -> SUBSET Enrollers]
    BY <1>0, <1>3, <2>1 DEF TypeOK, AddKey, CannotAddKey
  <2>3. ~(disturbed = {} /\ lookupFailures' = 0)
    BY <2>1 DEF IInv, Serial, KeyOf
  <2>4. WillStore(e)'
    BY <2>1 DEF WillStore, Kept
  <2>5. place \notin {"writing", "replacing"}
    BY <1>1
  <2> QED
    BY <1>1, <1>3, <1>4, <2>1, <2>2, <2>3, <2>4, <2>5, EnrollerElsewhere
<1> QED
  BY <1>7, <1>8, <1>9, <1>10 DEF Load

-----------------------------------------------------------------------------
(* The daemon.                                                             *)

(* A step of the daemon that loads or looks: only what it keeps in memory  *)
(* changes, and, where the key was lost to an erasure, the key.            *)
LEMMA DaemonElsewhere ==
    ASSUME IInv, NEW place \in DaemonPlaces, Goes(Daemon, place),
           UNCHANGED <<dirVars, eraseVars, disturbed, mode, key, fd, faces>>,
           \A e \in Enrollers : payload'[e] = payload[e], payload' \in [Procs -> Content],
           keychain' \in 0..keys', keys' \in Nat, lookupFailures' \in Nat,
           cache' \subseteq Enrollers, cacheStamp' \in Nat, seen' \in Nat, stat' \in Nat,
           booting' \in BOOLEAN, boots' \in Nat, bootRaced' \in BOOLEAN,
           place = "up" => ~booting', place = "stating" => booting', Cached',
           lookupFailures' = 0 => lookupFailures = 0,
           disturbed = {} /\ lookupFailures' = 0 =>
              KeyOfDaemon' /\ (keychain' = keychain \/ erasing = "quitting")
    PROVE  IInv'
<1>0. TypeOK /\ Undisturbed /\ Daemon \notin Enrollers
  BY EnrollmentAssumption DEF IInv
<1>1. pc' \in [Procs -> Places] /\ \A e \in Enrollers : pc'[e] = pc[e]
  BY <1>0 DEF TypeOK, Goes, Places, DaemonPlaces, Procs
<1>2. TypeOK'
  BY <1>0, <1>1 DEF TypeOK, dirVars, eraseVars
<1>3. Serial'
  <2> SUFFICES ASSUME disturbed = {}, lookupFailures' = 0
               PROVE  KeyOfFile' /\ \A e \in Enrollers : KeyOf(e)'
    BY DEF Serial
  <2>1. KeyOfFile /\ \A e \in Enrollers : KeyOf(e)
    BY DEF IInv, Serial
  <2>2. CASE keychain' = keychain
    BY <1>1, <2>1, <2>2 DEF KeyOfFile, KeyOf, dirVars, eraseVars
  <2>3. CASE erasing = "quitting"
    <3>1. KeyOfFile'
      BY <2>1, <2>3 DEF KeyOfFile, dirVars, eraseVars
    <3>2. \A e \in Enrollers : ~Working(e)
      BY <1>0, <2>3 DEF Undisturbed, Alone
    <3> QED
      BY <1>1, <3>1, <3>2 DEF KeyOf, Working
  <2> QED
    BY <2>2, <2>3
<1> QED
  BY <1>2, <1>3, DaemonStep DEF eraseVars

(* A load that fails leaves the daemon with what it had, or ends it.       *)
LEMMA DaemonRaises ==
    ASSUME IInv, Raises(Daemon), pc[Daemon] \in {"reading", "finding", "adding"},
           UNCHANGED <<dirVars, eraseVars, disturbed, mode, key, fd, payload>>,
           keychain' \in 0..keys', keys' \in Nat, UNCHANGED lookupFailures,
           disturbed = {} /\ lookupFailures' = 0 => keychain' = keychain \/ erasing = "quitting"
    PROVE  IInv'
<1> DEFINE place == IF booting THEN "down" ELSE "up"
<1>0. TypeOK /\ Cached
  BY DEF IInv
<1>1. /\ Goes(Daemon, place)
      /\ UNCHANGED <<faces, cache, cacheStamp, seen, stat, booting, boots, bootRaced>>
  BY DEF Raises, daemonVars
<1>2. pc'[Daemon] = place
  BY <1>0, <1>1 DEF Goes, TypeOK, Procs
<1>3. Cached'
  <2>1. \A s : Gone(s)' <=> Gone(s)
    BY DirectoryUnchanged
  <2>2. StampOf(file)' = StampOf(file) /\ FacesOf(file)' = FacesOf(file) /\ file' = file
    BY DirectoryUnchanged
  <2>3. (\A s, t : Agrees(s, t) <=> Agrees(s, t)') /\ (\A s, f : Fits(s, f) <=> Fits(s, f)')
    BY <2>1, <2>2 DEF Agrees, Vanished, Fits, eraseVars
  <2>4. ~Loading' /\ (Serving' => Serving)
    BY <1>1, <1>2 DEF Loading, Serving
  <2> QED
    BY <1>0, <1>1, <2>2, <2>3, <2>4 DEF Cached, eraseVars
<1>4. KeyOfDaemon' /\ place \in DaemonPlaces
  BY <1>2 DEF KeyOfDaemon, DaemonPlaces
<1> QED
  BY <1>0, <1>1, <1>3, <1>4, DaemonElsewhere DEF TypeOK

LEMMA DaemonReads ==
    ASSUME IInv, ReadFile(Daemon)
    PROVE  IInv'
<1>0. /\ TypeOK /\ InPlace /\ Inodes /\ Cached /\ Daemon \notin Enrollers
      /\ Daemon \in Procs
  BY EnrollmentAssumption DEF IInv, Procs
<1>1. /\ pc[Daemon] = "reading"
      /\ UNCHANGED <<dirVars, keychain, keys, lookupFailures, erasing, erasures, mode, key, fd,
                     faces, disturbed>>
  BY <1>0 DEF ReadFile, keyVars, eraseVars, Loads, Raises
<1>2. /\ \A s : Gone(s)' <=> Gone(s)
      /\ StampOf(file)' = StampOf(file) /\ FacesOf(file)' = FacesOf(file) /\ file' = file
  BY <1>1, DirectoryUnchanged
<1>3. \A s, t : Agrees(s, t) <=> Agrees(s, t)'
  BY <1>1, <1>2 DEF Agrees, Vanished
<1>4. \A s, f : Fits(s, f) <=> Fits(s, f)'
  BY <1>2 DEF Fits
<1>5. ~booting => Loading /\ Serving
  BY <1>1 DEF Loading, Serving
<1>6. disturbed = {} /\ lookupFailures' = 0 => (file # NoFile => keychain # 0)
  BY <1>1 DEF IInv, Serial, KeyOfFile
<1>7. /\ keychain \in 0..keys /\ keys \in Nat /\ lookupFailures \in Nat
      /\ payload \in [Procs -> Content]
  BY <1>0 DEF TypeOK
<1>8. CASE file = NoFile /\ Loads(Daemon, Nothing) /\ UNCHANGED payload
  <2> DEFINE place == IF booting THEN "stating" ELSE "up"
  <2>1. /\ cache' = {} /\ cacheStamp' = 0 /\ seen' = (IF booting THEN seen ELSE stat)
        /\ Goes(Daemon, place) /\ bootRaced' = (booting /\ bootRaced)
        /\ UNCHANGED <<stat, booting, boots>>
    BY <1>0, <1>8 DEF Loads, Nothing
  <2>2. pc'[Daemon] = place
    BY <1>0, <2>1 DEF Goes, TypeOK
  <2>3. Cached'
    <3>1. Fits(cacheStamp, cache)' /\ Fits(payload[Daemon].stamp, payload[Daemon].faces)'
      BY <1>0, <1>4, <1>8, <2>1 DEF Fits, Cached
    <3>2. ~booting => Agrees(stat, 0) /\ erasing # "no"
      BY <1>0, <1>1, <1>5, <1>8, FileFacts DEF Cached
    <3>3. ~Loading' /\ (Serving' => ~booting)
      BY <2>2 DEF Loading, Serving
    <3>4. ~booting => Agrees(seen, cacheStamp)' /\ erasing' # "no"
      BY <1>1, <1>3, <2>1, <3>2
    <3> QED
      BY <3>1, <3>3, <3>4 DEF Cached
  <2>4. cache' \subseteq Enrollers /\ cacheStamp' \in Nat /\ seen' \in Nat /\ bootRaced' \in BOOLEAN
    BY <1>0, <2>1 DEF TypeOK
  <2>5. KeyOfDaemon'
    BY <2>2 DEF KeyOfDaemon
  <2>6. place \in DaemonPlaces /\ (place = "up" => ~booting) /\ (place = "stating" => booting)
    BY DEF DaemonPlaces
  <2>7. stat \in Nat /\ booting \in BOOLEAN /\ boots \in Nat
    BY <1>0 DEF TypeOK
  <2> QED
    BY <1>1, <1>7, <1>8, <2>1, <2>3, <2>4, <2>5, <2>6, <2>7, DaemonElsewhere DEF eraseVars
<1>9. CASE Raises(Daemon) /\ UNCHANGED payload
  BY <1>1, <1>7, <1>9, DaemonRaises DEF eraseVars
<1>10. CASE /\ file # NoFile /\ payload' = [payload EXCEPT ![Daemon] = disk[file]]
            /\ Goes(Daemon, "finding") /\ UNCHANGED daemonVars
  <2>1. pc'[Daemon] = "finding" /\ disk[file] \in Content
    BY <1>0, <1>10 DEF Goes, TypeOK, Files
  <2>2. /\ payload'[Daemon] = disk[file] /\ payload' \in [Procs -> Content]
        /\ \A e \in Enrollers : payload'[e] = payload[e]
    BY <1>0, <1>7, <1>10, <2>1 DEF Procs
  <2>3. /\ UNCHANGED <<cache, cacheStamp, seen, stat, booting, boots, bootRaced>>
        /\ (Loading' <=> ~booting) /\ (Serving' <=> ~booting)
    BY <1>10, <2>1 DEF daemonVars, Loading, Serving
  <2>4. Cached'
    <3>1. Fits(cacheStamp, cache)'
      BY <1>0, <1>4, <2>3 DEF Cached
    <3>2. /\ Fits(StampOf(file), FacesOf(file))
          /\ disk[file].stamp = StampOf(file) /\ disk[file].faces = FacesOf(file)
      BY <1>0, <1>10, FileFacts DEF Fits
    <3>3. Fits(payload[Daemon].stamp, payload[Daemon].faces)'
      BY <1>4, <2>2, <3>2
    <3>4. ~booting => Agrees(stat, payload[Daemon].stamp)'
      BY <1>0, <1>1, <1>3, <1>5, <2>2, <2>3, <3>2 DEF Cached
    <3>5. ~booting /\ ~bootRaced => Agrees(seen, cacheStamp)'
      BY <1>0, <1>3, <1>5, <2>3 DEF Cached
    <3>6. ~booting => (stat = 0 \/ file = NoFile => erasing # "no")
                      /\ (seen # 0 /\ file = NoFile => erasing # "no")
      BY <1>0, <1>5 DEF Cached
    <3> QED
      BY <1>1, <1>2, <2>1, <2>3, <3>1, <3>3, <3>4, <3>5, <3>6 DEF Cached
  <2>5. disturbed = {} /\ lookupFailures' = 0 => KeyOfDaemon'
    BY <1>1, <1>6, <1>10, <2>1 DEF KeyOfDaemon
  <2>6. "finding" \in DaemonPlaces
    BY DEF DaemonPlaces
  <2> QED
    BY <1>0, <1>1, <1>7, <1>10, <2>2, <2>3, <2>4, <2>5, <2>6, DaemonElsewhere DEF TypeOK, eraseVars
<1> QED
  BY <1>8, <1>9, <1>10 DEF ReadFile

LEMMA DaemonDecrypts ==
    ASSUME IInv, Decrypt(Daemon)
    PROVE  IInv'
<1>0. TypeOK /\ InPlace /\ Cached /\ Daemon \notin Enrollers /\ Daemon \in Procs
  BY EnrollmentAssumption DEF IInv, Procs
<1>1. /\ pc[Daemon] = "finding"
      /\ Loads(Daemon, payload[Daemon]) \/ Raises(Daemon)
      /\ UNCHANGED <<dirVars, keychain, keys, lookupFailures, eraseVars, mode, payload, key, fd,
                     disturbed>>
  BY DEF Decrypt, KeyFound
<1>2. /\ keychain \in 0..keys /\ keys \in Nat /\ lookupFailures \in Nat /\ boots \in Nat
      /\ payload \in [Procs -> Content] /\ stat \in Nat /\ seen \in Nat /\ booting \in BOOLEAN
  BY <1>0 DEF TypeOK
<1>3. CASE Raises(Daemon)
  BY <1>1, <1>2, <1>3, DaemonRaises
<1>4. CASE Loads(Daemon, payload[Daemon])
  <2> DEFINE place == IF booting THEN "stating" ELSE "up"
  <2>1. /\ cache' = payload[Daemon].faces /\ cacheStamp' = payload[Daemon].stamp
        /\ seen' = (IF booting THEN seen ELSE stat)
        /\ Goes(Daemon, place) /\ bootRaced' = (booting /\ bootRaced)
        /\ UNCHANGED <<faces, stat, booting, boots>>
    BY <1>0, <1>4 DEF Loads
  <2>2. pc'[Daemon] = place
    BY <1>0, <2>1 DEF Goes, TypeOK
  <2>3. Cached'
    <3>1. \A s : Gone(s)' <=> Gone(s)
      BY <1>1, DirectoryUnchanged
    <3>2. StampOf(file)' = StampOf(file) /\ FacesOf(file)' = FacesOf(file) /\ file' = file
      BY <1>1, DirectoryUnchanged
    <3>3. (\A s, t : Agrees(s, t) <=> Agrees(s, t)') /\ (\A s, f : Fits(s, f) <=> Fits(s, f)')
      BY <1>1, <3>1, <3>2 DEF Agrees, Vanished, Fits, eraseVars
    <3>4. ~booting => Loading
      BY <1>1 DEF Loading
    <3>5. Fits(cacheStamp, cache)' /\ Fits(payload[Daemon].stamp, payload[Daemon].faces)'
      BY <1>0, <1>1, <2>1, <3>3 DEF Cached
    <3>6. ~Loading' /\ (Serving' => ~booting)
      BY <2>2 DEF Loading, Serving
    <3>7. ~booting => Agrees(seen, cacheStamp)' /\ (file' = NoFile => erasing' # "no")
      BY <1>0, <1>1, <2>1, <3>2, <3>3, <3>4 DEF Cached, eraseVars
    <3> QED
      BY <3>5, <3>6, <3>7 DEF Cached
  <2>4. /\ cache' \subseteq Enrollers /\ cacheStamp' \in Nat /\ seen' \in Nat
        /\ bootRaced' \in BOOLEAN
    BY <1>0, <2>1 DEF TypeOK, Content
  <2>5. KeyOfDaemon'
    BY <2>2 DEF KeyOfDaemon
  <2>6. place \in DaemonPlaces /\ (place = "up" => ~booting) /\ (place = "stating" => booting)
    BY DEF DaemonPlaces
  <2> QED
    BY <1>1, <1>2, <2>1, <2>3, <2>4, <2>5, <2>6, DaemonElsewhere
<1> QED
  BY <1>1, <1>3, <1>4

(* It looks for the key in vain only where an erasure took it, as long as  *)
(* no lookup failed.                                                       *)
LEMMA DaemonLookupFails ==
    ASSUME IInv, LookupFails(Daemon)
    PROVE  IInv'
<1>0. TypeOK /\ Cached /\ Daemon \in Procs
  BY DEF IInv, Procs
<1>1. /\ pc[Daemon] = "finding" /\ KeyNotFound /\ Goes(Daemon, "adding")
      /\ UNCHANGED <<dirVars, keychain, keys, eraseVars, mode, payload, key, fd, faces, disturbed>>
      /\ UNCHANGED <<cache, cacheStamp, seen, stat, booting, boots, bootRaced>>
  BY DEF LookupFails, procVars, daemonVars
<1>2. pc'[Daemon] = "adding" /\ "adding" \in DaemonPlaces
  BY <1>0, <1>1 DEF Goes, TypeOK, DaemonPlaces
<1>3. Cached'
  <2>1. \A s : Gone(s)' <=> Gone(s)
    BY <1>1, DirectoryUnchanged
  <2>2. StampOf(file)' = StampOf(file) /\ FacesOf(file)' = FacesOf(file) /\ file' = file
    BY <1>1, DirectoryUnchanged
  <2>3. (\A s, t : Agrees(s, t) <=> Agrees(s, t)') /\ (\A s, f : Fits(s, f) <=> Fits(s, f)')
    BY <1>1, <2>1, <2>2 DEF Agrees, Vanished, Fits, eraseVars
  <2>4. (Loading' <=> Loading) /\ (Serving' <=> Serving)
    BY <1>1, <1>2 DEF Loading, Serving
  <2> QED
    BY <1>0, <1>1, <1>2, <2>2, <2>3, <2>4 DEF Cached, eraseVars
<1>4. /\ lookupFailures' \in Nat /\ keychain' \in 0..keys' /\ keys' \in Nat
      /\ lookupFailures' = 0 => lookupFailures = 0 /\ keychain = 0
  BY <1>0, <1>1 DEF TypeOK, KeyNotFound
<1>5. disturbed = {} /\ lookupFailures' = 0 => KeyOfDaemon'
  BY <1>1, <1>2, <1>4 DEF IInv, Serial, KeyOfDaemon, eraseVars
<1> QED
  BY <1>0, <1>1, <1>2, <1>3, <1>4, <1>5, DaemonElsewhere DEF TypeOK

LEMMA DaemonAddsThenRaises ==
    ASSUME IInv, AddsThenRaises(Daemon)
    PROVE  IInv'
<1>1. /\ pc[Daemon] = "adding" /\ Raises(Daemon)
      /\ AddKey \/ CannotAddKey
      /\ UNCHANGED <<dirVars, lookupFailures, eraseVars, mode, payload, key, fd, disturbed>>
  BY DEF AddsThenRaises
<1>2. keychain' \in 0..keys' /\ keys' \in Nat
  BY <1>1 DEF IInv, TypeOK, AddKey, CannotAddKey
<1>3. disturbed = {} /\ lookupFailures' = 0 => erasing = "quitting"
  BY <1>1 DEF IInv, Serial, KeyOfDaemon
<1> QED
  BY <1>1, <1>2, <1>3, DaemonRaises

LEMMA BootKeeps ==
    ASSUME IInv, Boot
    PROVE  IInv'
<1>0. TypeOK /\ Cached /\ Daemon \in Procs
  BY DEF IInv, Procs
<1>1. /\ boots' = boots + 1 /\ booting' = TRUE /\ bootRaced' = FALSE
      /\ cache' = {} /\ cacheStamp' = 0 /\ seen' = 0 /\ stat' = 0
      /\ Goes(Daemon, "reading")
      /\ UNCHANGED <<dirVars, keychain, keys, lookupFailures, eraseVars, mode, payload, key, fd,
                     faces, disturbed>>
  BY DEF Boot, keyVars, procVars
<1>2. pc'[Daemon] = "reading" /\ "reading" \in DaemonPlaces
  BY <1>0, <1>1 DEF Goes, TypeOK, DaemonPlaces
<1>3. Cached'
  <2>1. Fits(cacheStamp, cache)'
    BY <1>1 DEF Fits
  <2>2. Fits(payload[Daemon].stamp, payload[Daemon].faces)'
    <3>1. \A s : Gone(s)' <=> Gone(s)
      BY <1>1, DirectoryUnchanged
    <3>2. StampOf(file)' = StampOf(file) /\ FacesOf(file)' = FacesOf(file)
      BY <1>1, DirectoryUnchanged
    <3>3. \A s, f : Fits(s, f) <=> Fits(s, f)'
      BY <3>1, <3>2 DEF Fits
    <3> QED
      BY <1>0, <1>1, <3>3 DEF Cached
  <2>3. ~Loading' /\ ~Serving'
    BY <1>1, <1>2 DEF Loading, Serving
  <2> QED
    BY <2>1, <2>2, <2>3 DEF Cached
<1>4. /\ keychain \in 0..keys /\ keys \in Nat /\ lookupFailures \in Nat /\ boots + 1 \in Nat
      /\ payload \in [Procs -> Content]
  BY <1>0 DEF TypeOK
<1>5. KeyOfDaemon'
  BY <1>2 DEF KeyOfDaemon
<1> QED
  BY <1>1, <1>2, <1>3, <1>4, <1>5, DaemonElsewhere

(* The time it takes for that of the file it loaded is that, or bootRaced. *)
LEMMA BootStatsKeeps ==
    ASSUME IInv, BootStats
    PROVE  IInv'
<1>0. TypeOK /\ Inodes /\ Cached /\ Daemon \in Procs
  BY DEF IInv, Procs
<1>1. /\ seen' = StampOf(file) /\ bootRaced' = (StampOf(file) # cacheStamp) /\ booting' = FALSE
      /\ Goes(Daemon, "up")
      /\ UNCHANGED <<dirVars, keychain, keys, lookupFailures, eraseVars, mode, payload, key, fd,
                     faces, disturbed, cache, cacheStamp, stat, boots>>
  BY DEF BootStats, keyVars, procVars
<1>2. pc'[Daemon] = "up" /\ "up" \in DaemonPlaces
  BY <1>0, <1>1 DEF Goes, TypeOK, DaemonPlaces
<1>3. StampOf(file) \in Nat /\ (file = NoFile => StampOf(file) = 0)
  BY <1>0, FileFacts
<1>4. Cached'
  <2>1. \A s : Gone(s)' <=> Gone(s)
    BY <1>1, DirectoryUnchanged
  <2>2. StampOf(file)' = StampOf(file) /\ FacesOf(file)' = FacesOf(file) /\ file' = file
    BY <1>1, DirectoryUnchanged
  <2>3. \A s, f : Fits(s, f) <=> Fits(s, f)'
    BY <2>1, <2>2 DEF Fits
  <2>4. ~Loading'
    BY <1>2 DEF Loading
  <2>5. ~bootRaced' => Agrees(seen, cacheStamp)'
    BY <1>1 DEF Agrees
  <2> QED
    BY <1>0, <1>1, <1>3, <2>2, <2>3, <2>4, <2>5 DEF Cached
<1>5. KeyOfDaemon'
  BY <1>2 DEF KeyOfDaemon
<1> QED
  BY <1>0, <1>1, <1>2, <1>3, <1>4, <1>5, DaemonElsewhere DEF TypeOK

LEMMA MaybeReloadKeeps ==
    ASSUME IInv, MaybeReload
    PROVE  IInv'
<1>0. TypeOK /\ InPlace /\ Inodes /\ Cached /\ Daemon \in Procs
  BY DEF IInv, Procs
<1>1. /\ pc[Daemon] = "up" /\ StampOf(file) # seen /\ stat' = StampOf(file)
      /\ Goes(Daemon, "reading")
      /\ UNCHANGED <<dirVars, keychain, keys, lookupFailures, eraseVars, mode, payload, key, fd,
                     faces, disturbed, cache, cacheStamp, seen, booting, boots, bootRaced>>
  BY DEF MaybeReload, keyVars, procVars
<1>2. pc'[Daemon] = "reading" /\ "reading" \in DaemonPlaces
  BY <1>0, <1>1 DEF Goes, TypeOK, DaemonPlaces
<1>3. /\ StampOf(file) \in Nat /\ (StampOf(file) = 0 <=> file = NoFile)
  BY <1>0, FileFacts
<1>4. Cached'
  <2>1. \A s : Gone(s)' <=> Gone(s)
    BY <1>1, DirectoryUnchanged
  <2>2. StampOf(file)' = StampOf(file) /\ FacesOf(file)' = FacesOf(file) /\ file' = file
    BY <1>1, DirectoryUnchanged
  <2>3. (\A s, t : Agrees(s, t) <=> Agrees(s, t)') /\ (\A s, f : Fits(s, f) <=> Fits(s, f)')
    BY <1>1, <2>1, <2>2 DEF Agrees, Vanished, Fits, eraseVars
  <2>4. Serving /\ ~booting
    BY <1>0, <1>1 DEF Serving, InPlace
  <2>5. Agrees(stat, StampOf(file))'
    BY <1>1, <2>2 DEF Agrees
  <2>6. file = NoFile => erasing # "no"
    BY <1>0, <1>1, <1>3, <2>4 DEF Cached
  <2> QED
    BY <1>0, <1>1, <1>2, <1>3, <2>2, <2>3, <2>4, <2>5, <2>6 DEF Cached, eraseVars
<1>5. KeyOfDaemon'
  BY <1>2 DEF KeyOfDaemon
<1> QED
  BY <1>0, <1>1, <1>2, <1>3, <1>4, <1>5, DaemonElsewhere DEF TypeOK

LEMMA StopKeeps ==
    ASSUME IInv, Stop
    PROVE  IInv'
<1>0. TypeOK /\ Cached /\ Daemon \in Procs
  BY DEF IInv, Procs
<1>1. /\ Goes(Daemon, "down")
      /\ UNCHANGED <<dirVars, keychain, keys, lookupFailures, eraseVars, mode, payload, key, fd,
                     faces, disturbed>>
      /\ UNCHANGED <<cache, cacheStamp, seen, stat, booting, boots, bootRaced>>
  BY DEF Stop, keyVars, procVars, daemonVars
<1>2. pc'[Daemon] = "down" /\ "down" \in DaemonPlaces
  BY <1>0, <1>1 DEF Goes, TypeOK, DaemonPlaces
<1>3. Cached'
  <2>1. \A s : Gone(s)' <=> Gone(s)
    BY <1>1, DirectoryUnchanged
  <2>2. StampOf(file)' = StampOf(file) /\ FacesOf(file)' = FacesOf(file)
    BY <1>1, DirectoryUnchanged
  <2>3. \A s, f : Fits(s, f) <=> Fits(s, f)'
    BY <2>1, <2>2 DEF Fits
  <2>4. ~Loading' /\ ~Serving'
    BY <1>2 DEF Loading, Serving
  <2> QED
    BY <1>0, <1>1, <2>3, <2>4 DEF Cached
<1>4. KeyOfDaemon'
  BY <1>2 DEF KeyOfDaemon
<1> QED
  BY <1>0, <1>1, <1>2, <1>3, <1>4, DaemonElsewhere DEF TypeOK

-----------------------------------------------------------------------------
(* The uninstaller.                                                        *)

(* Whoever is enrolling is disturbed, and what the daemon has loaded is    *)
(* gone for good.                                                          *)
LEMMA EraseDirectoryKeeps ==
    ASSUME IInv, EraseDirectory
    PROVE  IInv'
<1>0. /\ TypeOK /\ InPlace /\ Inodes /\ Cached /\ NoFile \notin Enrollers
  BY EnrollmentAssumption DEF IInv
<1>1. /\ erasing = "no" /\ erasing' = "key" /\ erasures' = erasures + 1
      /\ disturbed' = disturbed \cup {e \in Enrollers : Working(e)}
      /\ file' = NoFile /\ temp' = NoFile
      /\ UNCHANGED <<disk, stamps, keychain, keys, lookupFailures, pc, mode, payload, key, fd,
                     faces, daemonVars>>
  BY DEF EraseDirectory, keyVars
<1>2. TypeOK'
  BY <1>0, <1>1 DEF TypeOK, Files, daemonVars
<1>3. InPlace'
  BY <1>0, <1>1 DEF InPlace, daemonVars
<1>4. Inodes'
  BY <1>0, <1>1 DEF Inodes
<1>5. \A e \in Enrollers : ~Alone(e)'
  BY <1>1 DEF Alone, Working
<1>6. Undisturbed' /\ \A e \in Enrollers : Saves(e)' /\ WillStore(e)'
  BY <1>5 DEF Undisturbed, Saves, WillStore, Kept
<1>7. Elsewhere
  <2>1. ASSUME NEW s, Gone(s) PROVE Gone(s)'
    BY <1>0, <1>1, <2>1 DEF Gone
  <2>2. ASSUME NEW s, s # 0, s = StampOf(file) PROVE Gone(s)'
    <3>1. s \in 1..stamps
      BY <1>0, <2>2, FileFacts DEF TypeOK
    <3> QED
      BY <1>0, <1>1, <3>1 DEF Gone
  <2> QED
    BY <1>1, <2>1, <2>2 DEF Elsewhere
<1>8. Cached'
  BY <1>0, <1>2, <1>4, <1>7, CachedElsewhere
<1>9. Serial'
  <2> SUFFICES ASSUME disturbed' = {}, lookupFailures' = 0
               PROVE  KeyOfFile' /\ KeyOfDaemon' /\ \A e \in Enrollers : KeyOf(e)'
    BY DEF Serial
  <2>1. disturbed = {} /\ lookupFailures = 0 /\ \A e \in Enrollers : ~Working(e)
    BY <1>1
  <2>2. KeyOfDaemon
    BY <2>1 DEF IInv, Serial
  <2>3. KeyOfFile' /\ KeyOfDaemon'
    BY <1>1, <2>2 DEF KeyOfFile, KeyOfDaemon
  <2>4. \A e \in Enrollers : KeyOf(e)'
    BY <1>1, <2>1 DEF KeyOf, Working
  <2> QED
    BY <2>3, <2>4
<1> QED
  BY <1>2, <1>3, <1>4, <1>6, <1>8, <1>9 DEF IInv

LEMMA EraseKeyKeeps ==
    ASSUME IInv, EraseKey
    PROVE  IInv'
<1>0. TypeOK /\ InPlace /\ Inodes /\ Undisturbed /\ Cached
  BY DEF IInv
<1>1. /\ erasing = "key" /\ erasing' = "quitting" /\ keychain' \in {0, keychain}
      /\ UNCHANGED <<dirVars, keys, lookupFailures, erasures, pc, mode, payload, key, fd, faces,
                     disturbed, daemonVars>>
  BY DEF EraseKey, procVars
<1>2. TypeOK'
  BY <1>0, <1>1 DEF TypeOK, dirVars, daemonVars
<1>3. InPlace' /\ Inodes'
  BY <1>0, <1>1 DEF InPlace, Inodes, Created, dirVars, daemonVars
<1>4. \A e \in Enrollers : ~Alone(e) /\ ~Alone(e)'
  BY <1>0, <1>1 DEF Undisturbed, Alone, Working
<1>5. Undisturbed' /\ \A e \in Enrollers : Saves(e)' /\ WillStore(e)'
  BY <1>4 DEF Undisturbed, Saves, WillStore, Kept
<1>6. Cached'
  <2>1. Elsewhere
    BY <1>1, ElsewhereUnchanged
  <2> QED
    BY <1>0, <1>2, <1>3, <2>1, CachedElsewhere
<1>7. Serial'
  <2> SUFFICES ASSUME disturbed = {}, lookupFailures = 0
               PROVE  KeyOfFile' /\ KeyOfDaemon' /\ \A e \in Enrollers : KeyOf(e)'
    BY <1>1 DEF Serial
  <2>1. file = NoFile /\ \A e \in Enrollers : ~Working(e)
    BY <1>1, <1>4 DEF IInv, Serial, KeyOfFile, Alone
  <2>2. KeyOfFile' /\ KeyOfDaemon'
    BY <1>1, <2>1 DEF KeyOfFile, KeyOfDaemon, dirVars
  <2>3. \A e \in Enrollers : KeyOf(e)'
    BY <1>1, <2>1 DEF KeyOf, Working
  <2> QED
    BY <2>2, <2>3
<1> QED
  BY <1>2, <1>3, <1>5, <1>6, <1>7 DEF IInv

LEMMA QuitAfterErasingKeeps ==
    ASSUME IInv, QuitAfterErasing
    PROVE  IInv'
<1>0. /\ TypeOK /\ InPlace /\ Inodes /\ Undisturbed /\ Cached /\ Daemon \in Procs
      /\ Daemon \notin Enrollers
  BY EnrollmentAssumption DEF IInv, Procs
<1>1. /\ erasing = "quitting" /\ erasing' = "no" /\ Goes(Daemon, "down")
      /\ UNCHANGED <<dirVars, keychain, keys, lookupFailures, erasures, mode, payload, key, fd,
                     faces, disturbed, daemonVars>>
  BY DEF QuitAfterErasing, keyVars, procVars
<1>2. pc'[Daemon] = "down" /\ \A e \in Enrollers : pc'[e] = pc[e]
  BY <1>0, <1>1 DEF Goes, TypeOK, Procs
<1>3. TypeOK'
  <2>1. pc' \in [Procs -> Places]
    BY <1>0, <1>1 DEF TypeOK, Goes, Places
  <2> QED
    BY <1>0, <1>1, <2>1 DEF TypeOK, dirVars, daemonVars
<1>4. InPlace' /\ Inodes'
  BY <1>0, <1>1, <1>2 DEF InPlace, Inodes, Created, DaemonPlaces, dirVars
<1>5. \A e \in Enrollers : ~Alone(e) /\ ~Alone(e)'
  BY <1>0, <1>1, <1>2 DEF Undisturbed, Alone, Working
<1>6. Undisturbed' /\ \A e \in Enrollers : Saves(e)' /\ WillStore(e)'
  BY <1>5 DEF Undisturbed, Saves, WillStore, Kept
<1>7. Cached'
  <2>1. \A s : Gone(s)' <=> Gone(s)
    BY <1>1, DirectoryUnchanged
  <2>2. StampOf(file)' = StampOf(file) /\ FacesOf(file)' = FacesOf(file)
    BY <1>1, DirectoryUnchanged
  <2>3. \A s, f : Fits(s, f) <=> Fits(s, f)'
    BY <2>1, <2>2 DEF Fits
  <2>4. ~Loading' /\ ~Serving'
    BY <1>2 DEF Loading, Serving
  <2> QED
    BY <1>0, <1>1, <2>3, <2>4 DEF Cached, daemonVars
<1>8. Serial'
  <2> SUFFICES ASSUME disturbed = {}, lookupFailures = 0
               PROVE  KeyOfFile' /\ KeyOfDaemon' /\ \A e \in Enrollers : KeyOf(e)'
    BY <1>1 DEF Serial
  <2>1. file = NoFile /\ \A e \in Enrollers : ~Working(e)
    BY <1>1, <1>5 DEF IInv, Serial, KeyOfFile, Alone
  <2>2. KeyOfFile' /\ KeyOfDaemon'
    BY <1>1, <1>2, <2>1 DEF KeyOfFile, KeyOfDaemon, dirVars
  <2>3. \A e \in Enrollers : KeyOf(e)'
    BY <1>2, <2>1 DEF KeyOf, Working
  <2> QED
    BY <2>2, <2>3
<1> QED
  BY <1>3, <1>4, <1>6, <1>7, <1>8 DEF IInv

-----------------------------------------------------------------------------
(* The specification.                                                      *)

LEMMA InitHolds == Init => IInv
<1> SUFFICES ASSUME Init PROVE IInv
  OBVIOUS
<1>0. NoFile \notin Enrollers /\ Daemon \notin Enrollers /\ Daemon \in Procs
  BY EnrollmentAssumption DEF Procs
<1>1. TypeOK
  <2>1. Nothing \in Content
    BY DEF Nothing, Content
  <2>2. pc \in [Procs -> Places]
    BY DEF Init, Places
  <2>3. disk \in [Enrollers -> Content] /\ payload \in [Procs -> Content]
    BY <2>1 DEF Init
  <2>4. keychain \in 0..keys /\ fd \in [Enrollers -> Files] /\ {file, temp} \subseteq Files
    BY DEF Init, Files
  <2> QED
    BY <2>2, <2>3, <2>4 DEF Init, TypeOK
<1>2. pc[Daemon] = "down" /\ \A e \in Enrollers : pc[e] = "idle"
  BY <1>0 DEF Init, Procs
<1>3. InPlace /\ Undisturbed /\ \A e \in Enrollers : Saves(e) /\ WillStore(e)
  BY <1>2 DEF InPlace, EnrollerPlaces, DaemonPlaces, Undisturbed, Saves, WillStore, Kept, Alone, Working
<1>4. Inodes
  BY <1>0 DEF Init, Inodes, Nothing
<1>5. Serial
  BY <1>2 DEF Init, Serial, KeyOfFile, KeyOf, KeyOfDaemon
<1>6. Cached
  <2>1. payload[Daemon] = Nothing
    BY <1>0 DEF Init
  <2>2. ~Loading /\ ~Serving
    BY <1>2 DEF Loading, Serving
  <2>3. Fits(0, {})
    BY DEF Fits
  <2>4. cacheStamp = 0 /\ cache = {}
    BY DEF Init
  <2>5. payload[Daemon].stamp = 0 /\ payload[Daemon].faces = {}
    BY <2>1 DEF Nothing
  <2> QED
    BY <2>2, <2>3, <2>4, <2>5 DEF Cached
<1> QED
  BY <1>1, <1>3, <1>4, <1>5, <1>6 DEF IInv

LEMMA StutterKeeps == IInv /\ UNCHANGED vars => IInv'
<1> SUFFICES ASSUME IInv, UNCHANGED vars PROVE IInv'
  OBVIOUS
<1>1. /\ UNCHANGED <<file, temp, disk, stamps, keychain, keys, lookupFailures, erasing, erasures>>
      /\ UNCHANGED <<pc, mode, payload, key, fd, faces, disturbed>>
      /\ UNCHANGED <<cache, cacheStamp, seen, stat, booting, boots, bootRaced>>
  BY DEF vars, dirVars, keyVars, eraseVars, procVars, daemonVars
<1>2. TypeOK' /\ InPlace' /\ Inodes' /\ Undisturbed'
  BY <1>1 DEF IInv, TypeOK, InPlace, Inodes, Created, Undisturbed, Alone, Working
<1>3. \A e \in Enrollers : Saves(e)' /\ WillStore(e)'
  BY <1>1 DEF IInv, Saves, WillStore, Kept, Alone, Working, FacesOf
<1>4. Serial'
  BY <1>1 DEF IInv, Serial, KeyOfFile, KeyOf, KeyOfDaemon
<1>5. Cached'
  BY <1>1 DEF IInv, Cached, Fits, Gone, Agrees, Vanished, Loading, Serving, StampOf, FacesOf
<1> QED
  BY <1>2, <1>3, <1>4, <1>5 DEF IInv

LEMMA NextKeeps == IInv /\ [Next]_vars => IInv'
<1> SUFFICES ASSUME IInv, [Next]_vars PROVE IInv'
  OBVIOUS
<1>1. CASE \E p \in Procs : Load(p)
  <2>1. PICK p \in Procs : Load(p)
    BY <1>1
  <2>2. CASE p \in Enrollers
    BY <2>1, <2>2, EnrollerLoads
  <2>3. CASE p = Daemon
    BY <2>1, <2>3, DaemonReads, DaemonDecrypts, DaemonLookupFails, DaemonAddsThenRaises DEF Load
  <2> QED
    BY <2>2, <2>3 DEF Procs
<1>2. ASSUME NEW e \in Enrollers, Begin(e) \/ Captured(e) \/ Save(e) \/ Cancel(e)
      PROVE  IInv'
  BY <1>2, BeginKeeps, CapturedKeeps, FindsKeyKeeps, AddsKeyKeeps, OpenTempKeeps, WriteKeeps,
     ReplaceKeeps, CancelKeeps DEF Save
<1>3. CASE Boot \/ BootStats \/ MaybeReload \/ Stop
  BY <1>3, BootKeeps, BootStatsKeeps, MaybeReloadKeeps, StopKeeps
<1>4. CASE EraseDirectory \/ EraseKey \/ QuitAfterErasing
  BY <1>4, EraseDirectoryKeeps, EraseKeyKeeps, QuitAfterErasingKeeps
<1>5. CASE UNCHANGED vars
  BY <1>5, StutterKeeps
<1> QED
  BY <1>1, <1>2, <1>3, <1>4, <1>5 DEF Next

(* The inductive invariant holds in every reachable state.                 *)
THEOREM InductiveInvariant == Spec => []IInv
<1>1. Init => IInv
  BY InitHolds
<1>2. IInv /\ [Next]_vars => IInv'
  BY NextKeeps
<1> QED
  BY <1>1, <1>2, PTL DEF Spec

(* Every variable has its type: in particular no more than one inode is    *)
(* created by each enrolment, and the keychain holds a key that was        *)
(* generated, or none.                                                     *)
THEOREM TypeCorrect == Spec => []TypeOK
<1>1. IInv => TypeOK
  BY DEF IInv
<1> QED
  BY <1>1, InductiveInvariant, PTL

(* As long as no two enrolments, and no enrolment and erasure, are under   *)
(* way together and no lookup of the key fails, save() of storage.py       *)
(* leaves a file that load() can decrypt with the key that is stored,      *)
(* wherever a save or a load was cut short.                                *)
THEOREM WhatIsStoredCanBeRead == Spec => []ReadableWhenSerial
<1>1. IInv => ReadableWhenSerial
  BY DEF IInv, Serial, KeyOfFile, ReadableWhenSerial, Readable
<1> QED
  BY <1>1, InductiveInvariant, PTL

(* When _maybe_reload() of daemon.py finds the modification time it        *)
(* remembers, what the daemon matches against is what is on disk, whatever *)
(* was saved or erased since, unless a save fell into its start.           *)
THEOREM TheCacheIsCurrent == Spec => []CacheIsCurrent
<1>1. IInv => CacheIsCurrent
  <2> SUFFICES ASSUME IInv, ~bootRaced, pc[Daemon] = "up", seen = StampOf(file)
               PROVE  cacheStamp = StampOf(file) /\ cache = FacesOf(file)
    BY DEF CacheIsCurrent, SkipsOnlyWhenCurrent
  <2>1. TypeOK /\ Inodes /\ Cached
    BY DEF IInv
  <2>2. Agrees(seen, cacheStamp)
    BY <2>1 DEF Cached, Serving
  <2>3. ~Gone(seen) /\ ~(seen = 0 /\ Vanished)
    BY <2>1, FileFacts, GoneIsGone DEF Vanished
  <2>4. cacheStamp = StampOf(file)
    BY <2>2, <2>3 DEF Agrees
  <2>5. Fits(StampOf(file), cache)
    BY <2>1, <2>4 DEF Cached
  <2> QED
    BY <2>1, <2>4, <2>5, FittingIsCurrent
<1> QED
  BY <1>1, InductiveInvariant, PTL

-----------------------------------------------------------------------------
(* The abstract store.                                                     *)

Seen == Promise!storeVars

(* A step that shows neither in the file nor in where enrolments are.      *)
LEMMA Unseen ==
    ASSUME FacesOf(file)' = FacesOf(file), Stages' = Stages,
           (erasing # "no")' = (erasing # "no"), disturbed' = disturbed
    PROVE  UNCHANGED Seen
  BY DEF Seen, Promise!storeVars

(* A step of one enrolment shows in where that one is, if it ends it.      *)
LEMMA StagesOfOne ==
    ASSUME TypeOK, NEW e \in Enrollers, Working(e), NEW place, Goes(e, place), mode' = mode
    PROVE  /\ e \in Promise!UnderWay
           /\ Stages' = [Stages EXCEPT ![e] = IF place \in {"idle", "done", "failed"}
                                              THEN place ELSE mode[e]]
           /\ place \notin {"idle", "done", "failed"} => Stages' = Stages
<1>1. pc'[e] = place /\ \A x \in Enrollers \ {e} : pc'[x] = pc[x]
  BY DEF Goes, TypeOK, Procs
<1>2. Stages[e] = mode[e] /\ mode[e] \in {"replace", "append"}
  BY DEF Stages, TypeOK
<1>3. \A x \in Enrollers \ {e} : Working(x)' <=> Working(x)
  BY <1>1 DEF Working
<1>4. Working(e)' <=> place \notin {"idle", "done", "failed"}
  BY <1>1 DEF Working
<1>5. /\ Stages'[e] = IF place \in {"idle", "done", "failed"} THEN place ELSE mode[e]
      /\ \A x \in Enrollers \ {e} : Stages'[x] = Stages[x]
  BY <1>1, <1>3, <1>4 DEF Stages
<1>6. Stages = [x \in Enrollers |-> Stages[x]] /\ Stages' = [x \in Enrollers |-> Stages'[x]]
  BY DEF Stages
<1>7. Stages' = [Stages EXCEPT ![e] = IF place \in {"idle", "done", "failed"}
                                      THEN place ELSE mode[e]]
  BY <1>5, <1>6
<1>8. place \notin {"idle", "done", "failed"} => Stages' = Stages
  BY <1>2, <1>6, <1>7
<1>9. e \in Promise!UnderWay
  BY <1>2 DEF Promise!UnderWay, Promise!Modes
<1> QED
  BY <1>7, <1>8, <1>9

(* A step of one enrolment that leaves the faces in the file as they were  *)
(* is one the store does not see, or the enrolment fails.                  *)
LEMMA StoreIsLeft ==
    ASSUME TypeOK, NEW e \in Enrollers, Working(e), NEW place, Goes(e, place),
           place \notin {"idle", "done"}, FacesOf(file)' = FacesOf(file),
           UNCHANGED <<mode, erasing, disturbed>>
    PROVE  Promise!Fail(e) \/ UNCHANGED Seen
<1>1. CASE place = "failed"
  BY <1>1, StagesOfOne DEF Promise!Fail
<1>2. CASE place # "failed"
  BY <1>2, StagesOfOne, Unseen
<1> QED
  BY <1>1, <1>2

(* A step of the daemon is not seen.                                       *)
LEMMA DaemonIsNotSeen ==
    ASSUME TypeOK, NEW place, Goes(Daemon, place), UNCHANGED <<dirVars, mode, disturbed>>,
           (erasing # "no")' = (erasing # "no")
    PROVE  UNCHANGED Seen
<1>1. \A e \in Enrollers : pc'[e] = pc[e]
  BY EnrollmentAssumption DEF Goes, TypeOK, Procs
<1>2. Stages' = Stages
  BY <1>1 DEF Stages, Working
<1> QED
  BY <1>2, DirectoryUnchanged, Unseen

LEMMA FacesTyped ==
    ASSUME TypeOK'
    PROVE  FacesOf(file)' \in SUBSET Enrollers
<1>1. file' # NoFile => disk'[file'] \in Content
  BY DEF TypeOK, Files
<1> QED
  BY <1>1 DEF FacesOf, Content

(* What a saver opens and writes is not the file, unless it was disturbed. *)
LEMMA OpenTempLeavesFaces ==
    ASSUME IInv, NEW e \in Enrollers, OpenTemp(e)
    PROVE  FacesOf(file)' = FacesOf(file)
<1>0. TypeOK /\ Inodes /\ NoFile \notin Enrollers /\ pc[e] = "opening" /\ file' = file
  BY EnrollmentAssumption DEF IInv, OpenTemp
<1>1. PICK i : i # file /\ \E c : disk' = [disk EXCEPT ![i] = c]
  <2>1. CASE temp = NoFile
    BY <1>0, <2>1 DEF OpenTemp, Inodes, Created
  <2>2. CASE temp # NoFile
    BY <1>0, <2>2 DEF OpenTemp, Inodes, TypeOK, Files
  <2> QED
    BY <2>1, <2>2
<1>2. file # NoFile => disk'[file] = disk[file]
  BY <1>0, <1>1 DEF TypeOK, Files
<1> QED
  BY <1>0, <1>2 DEF FacesOf

LEMMA WriteLeavesFaces ==
    ASSUME IInv, NEW e \in Enrollers, Write(e), e \notin disturbed
    PROVE  FacesOf(file)' = FacesOf(file)
<1>0. TypeOK /\ Inodes /\ pc[e] = "writing" /\ file' = file
  BY DEF IInv, Write
<1>1. fd[e] = temp /\ temp # NoFile
  BY <1>0 DEF IInv, Saves, Alone, Working
<1>2. fd[e] # file /\ \E c : disk' = [disk EXCEPT ![fd[e]] = c]
  BY <1>0, <1>1 DEF Inodes, Write
<1>3. file # NoFile => disk'[file] = disk[file]
  BY <1>0, <1>2 DEF TypeOK, Files
<1> QED
  BY <1>0, <1>3 DEF FacesOf

(* A saver that ends well: its face has been added, or is the only one.    *)
LEMMA ReplaceStores ==
    ASSUME IInv, NEW e \in Enrollers, Replace(e), TypeOK'
    PROVE  Promise!Fail(e) \/ Promise!Store(e) \/ Promise!Interfere(e)
<1>0. TypeOK /\ pc[e] = "replacing" /\ Working(e) /\ UNCHANGED <<disk, mode, erasing, disturbed>>
  BY DEF IInv, Replace, Working, eraseVars, procVars
<1>1. CASE temp = NoFile
  <2>1. Goes(e, "failed") /\ file' = file
    BY <1>1 DEF Replace
  <2>2. FacesOf(file)' = FacesOf(file)
    BY <1>0, <2>1 DEF FacesOf
  <2> QED
    BY <1>0, <2>1, <2>2, StagesOfOne DEF Promise!Fail
<1>2. CASE temp # NoFile
  <2>1. Goes(e, "done") /\ file' = temp
    BY <1>2 DEF Replace
  <2>2. e \in Promise!UnderWay /\ Stages' = [Stages EXCEPT ![e] = "done"]
    BY <1>0, <2>1, StagesOfOne
  <2>3. CASE e \in disturbed
    <3>1. FacesOf(file)' \in SUBSET Enrollers
      BY FacesTyped
    <3> QED
      BY <1>0, <2>2, <2>3, <3>1 DEF Promise!Interfere
  <2>4. CASE e \notin disturbed
    <3>1. Alone(e) /\ Stages[e] = mode[e]
      BY <1>0, <2>4 DEF Alone, Stages
    <3>2. disk[temp].faces = faces[e] /\ faces[e] = Kept(e) \cup {e}
      BY <1>0, <3>1 DEF IInv, Saves, WillStore
    <3>3. FacesOf(file)' = Kept(e) \cup {e}
      BY <1>0, <1>2, <2>1, <3>2 DEF FacesOf
    <3>4. FacesOf(file)' = IF Stages[e] = "append" THEN FacesOf(file) \cup {e} ELSE {e}
      BY <3>1, <3>3 DEF Kept
    <3> QED
      BY <1>0, <2>2, <2>4, <3>4 DEF Promise!Store
  <2> QED
    BY <2>3, <2>4
<1> QED
  BY <1>1, <1>2

LEMMA WriteStores ==
    ASSUME IInv, NEW e \in Enrollers, Write(e), TypeOK'
    PROVE  Promise!Fail(e) \/ Promise!Interfere(e) \/ UNCHANGED Seen
<1>0. TypeOK /\ Working(e) /\ Goes(e, "replacing") /\ UNCHANGED <<mode, erasing, disturbed>>
  BY DEF IInv, Write, Working, eraseVars, procVars
<1>1. CASE e \in disturbed
  <2>1. FacesOf(file)' \in SUBSET Enrollers
    BY FacesTyped
  <2>2. e \in Promise!UnderWay /\ Stages' = Stages
    BY <1>0, StagesOfOne
  <2> QED
    BY <1>0, <1>1, <2>1, <2>2 DEF Promise!Interfere
<1>2. CASE e \notin disturbed
  BY <1>0, <1>2, WriteLeavesFaces, StoreIsLeft
<1> QED
  BY <1>1, <1>2

(* The store sees which enrolments are under way.                          *)
LEMMA UnderWayIsWorking ==
    ASSUME TypeOK
    PROVE  Promise!UnderWay = {e \in Enrollers : Working(e)}
<1>1. ASSUME NEW x \in Enrollers PROVE Working(x) <=> Stages[x] \in {"replace", "append"}
  <2>1. mode[x] \in {"replace", "append"}
    BY DEF TypeOK
  <2>2. CASE Working(x)
    BY <2>1, <2>2 DEF Stages
  <2>3. CASE ~Working(x)
    BY <2>3 DEF Stages, Working
  <2> QED
    BY <2>2, <2>3
<1> QED
  BY <1>1 DEF Promise!UnderWay, Promise!Modes

LEMMA BeginStarts ==
    ASSUME TypeOK, NEW e \in Enrollers, Begin(e)
    PROVE  \E m \in Promise!Modes : Promise!Start(e, m)
<1>1. PICK m \in {"replace", "append"} : mode' = [mode EXCEPT ![e] = m]
  BY DEF Begin
<1>2. /\ pc[e] = "idle" /\ UNCHANGED <<dirVars, eraseVars>>
      /\ pc' = [pc EXCEPT ![e] = "capturing"]
  BY DEF Begin, Goes
<1>3. Stages[e] = "idle" /\ Stages' = [Stages EXCEPT ![e] = m]
  <2>1. pc'[e] = "capturing" /\ mode'[e] = m
    BY <1>1, <1>2 DEF TypeOK, Procs
  <2>2. \A x \in Enrollers \ {e} : pc'[x] = pc[x] /\ mode'[x] = mode[x]
    BY <1>1, <1>2 DEF TypeOK, Procs
  <2> QED
    BY <1>2, <2>1, <2>2 DEF Stages, Working
<1>4. {other \in Enrollers : Working(other)} = Promise!UnderWay
  BY UnderWayIsWorking
<1>5. disturbed' = IF Promise!UnderWay # {} \/ erasing # "no"
                   THEN disturbed \cup Promise!UnderWay \cup {e} ELSE disturbed
  BY <1>4 DEF Begin
<1>6. FacesOf(file)' = FacesOf(file) /\ erasing' = erasing
  BY <1>2, DirectoryUnchanged DEF eraseVars
<1>7. Promise!Start(e, m)
  BY <1>3, <1>5, <1>6 DEF Promise!Start
<1> QED
  BY <1>7 DEF Promise!Modes

LEMMA ErasureErases ==
    ASSUME TypeOK, EraseDirectory
    PROVE  Promise!Erase
<1>1. FacesOf(file)' = {} /\ Stages' = Stages
  BY DEF EraseDirectory, FacesOf, Stages, Working
<1> QED
  BY <1>1, UnderWayIsWorking DEF EraseDirectory, Promise!Erase

LEMMA QuittingEndsIt ==
    ASSUME TypeOK, QuitAfterErasing
    PROVE  Promise!EraseEnds
<1>1. Stages' = Stages
  <2>1. \A e \in Enrollers : pc'[e] = pc[e] /\ mode' = mode
    BY EnrollmentAssumption DEF QuitAfterErasing, Goes, TypeOK, Procs, procVars
  <2> QED
    BY <2>1 DEF Stages, Working
<1>2. FacesOf(file)' = FacesOf(file) /\ disturbed' = disturbed
  BY DirectoryUnchanged DEF QuitAfterErasing, procVars
<1> QED
  BY <1>1, <1>2 DEF QuitAfterErasing, Promise!EraseEnds

(* The steps that only one enrolment takes.                                *)
LEMMA EnrollerStores ==
    ASSUME IInv, TypeOK', NEW e \in Enrollers,
           Load(e) \/ Begin(e) \/ Captured(e) \/ Save(e) \/ Cancel(e)
    PROVE  (\E m \in Promise!Modes : Promise!Start(e, m)) \/ Promise!Store(e) \/ Promise!Fail(e)
           \/ Promise!Interfere(e) \/ UNCHANGED Seen
<1>0. TypeOK /\ e # Daemon
  BY EnrollmentAssumption DEF IInv
<1>1. CASE Load(e) \/ Captured(e) \/ FindsKey(e) \/ AddsKey(e) \/ Cancel(e)
  <2>1. PICK place : Goes(e, place) /\ place \notin {"idle", "done"}
    BY <1>0, <1>1 DEF Load, ReadFile, Decrypt, LookupFails, AddsThenRaises, Loads, Raises,
       Captured, FindsKey, AddsKey, Cancel
  <2>2. Working(e)
    BY <1>1 DEF Load, ReadFile, Decrypt, LookupFails, AddsThenRaises, Captured, FindsKey, AddsKey,
       Cancel, Working
  <2>3. UNCHANGED <<dirVars, mode, erasing, disturbed>>
    BY <1>1 DEF Load, ReadFile, Decrypt, LookupFails, AddsThenRaises, Captured, FindsKey, AddsKey,
       Cancel, eraseVars, procVars
  <2> QED
    BY <1>0, <2>1, <2>2, <2>3, DirectoryUnchanged, StoreIsLeft
<1>2. CASE OpenTemp(e)
  <2>1. Working(e) /\ Goes(e, "writing") /\ UNCHANGED <<mode, erasing, disturbed>>
    BY <1>2 DEF OpenTemp, Working, eraseVars
  <2> QED
    BY <1>0, <1>2, <2>1, OpenTempLeavesFaces, StoreIsLeft
<1>3. CASE Begin(e)
  BY <1>0, <1>3, BeginStarts
<1>4. CASE Write(e)
  BY <1>4, WriteStores
<1>5. CASE Replace(e)
  BY <1>5, ReplaceStores
<1> QED
  BY <1>1, <1>2, <1>3, <1>4, <1>5 DEF Save

LEMMA StepStores == IInv /\ TypeOK' /\ [Next]_vars => [Promise!StoreNext]_(Promise!storeVars)
<1> SUFFICES ASSUME IInv, TypeOK', [Next]_vars PROVE Promise!StoreNext \/ UNCHANGED Seen
  BY DEF Seen
<1>0. TypeOK
  BY DEF IInv
<1>1. ASSUME NEW e \in Enrollers,
             Load(e) \/ Begin(e) \/ Captured(e) \/ Save(e) \/ Cancel(e)
      PROVE  Promise!StoreNext \/ UNCHANGED Seen
  BY <1>1, EnrollerStores DEF Promise!StoreNext
<1>2. CASE Load(Daemon) \/ Boot \/ BootStats \/ MaybeReload \/ Stop
  <2>1. \E place : Goes(Daemon, place)
    BY <1>2 DEF Load, ReadFile, Decrypt, LookupFails, AddsThenRaises, Loads, Raises, Boot,
       BootStats, MaybeReload, Stop
  <2>2. UNCHANGED <<dirVars, mode, disturbed, erasing>>
    BY <1>2 DEF Load, ReadFile, Decrypt, LookupFails, AddsThenRaises, Boot, BootStats,
       MaybeReload, Stop, eraseVars, procVars
  <2> QED
    BY <1>0, <2>1, <2>2, DaemonIsNotSeen
<1>3. CASE EraseKey
  <2>1. UNCHANGED <<dirVars, pc, mode, disturbed>> /\ (erasing # "no")' = (erasing # "no")
    BY <1>3 DEF EraseKey, procVars
  <2>2. Stages' = Stages
    BY <2>1 DEF Stages, Working
  <2> QED
    BY <2>1, <2>2, DirectoryUnchanged, Unseen
<1>4. CASE EraseDirectory \/ QuitAfterErasing
  BY <1>0, <1>4, ErasureErases, QuittingEndsIt DEF Promise!StoreNext
<1>5. CASE UNCHANGED vars
  <2>1. UNCHANGED <<dirVars, pc, mode, disturbed, erasing>>
    BY <1>5 DEF vars, procVars, eraseVars
  <2>2. Stages' = Stages
    BY <2>1 DEF Stages, Working
  <2> QED
    BY <2>1, <2>2, DirectoryUnchanged, Unseen
<1> QED
  BY <1>1, <1>2, <1>3, <1>4, <1>5 DEF Next, Procs

(* enroll.py and storage.py implement the abstract store: an enrolment     *)
(* that no other one and no erasure met puts its face with those that were *)
(* there, or in their place, in the one step that ends it; wherever it     *)
(* fails or is cancelled, the enrolled faces stay what they were.          *)
THEOREM EnrollmentImplementsStore == Spec => ImplementsStore
<1>1. Init => Promise!StoreInit
  BY EnrollmentAssumption DEF Init, Promise!StoreInit, FacesOf, Stages, Working, Procs
<1>2. IInv => TypeOK
  BY DEF IInv
<1> QED
  BY <1>1, <1>2, StepStores, InductiveInvariant, PTL DEF Spec, ImplementsStore, Promise!StoreSpec
=============================================================================
