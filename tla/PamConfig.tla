----------------------------- MODULE PamConfig -----------------------------
(* The scripts that put FaceKey into sudo's PAM configuration and take it  *)
(* out again: pam-install-root.sh and pam-uninstall-root.sh, run as root   *)
(* by the privileged helper, the installer package or the user, and their  *)
(* counterparts for a development build, install-pam.sh and uninstall.sh.  *)
(*                                                                         *)
(* A configuration file is the sequence of its rules.  A file written in   *)
(* place is truncated first and written later: a script may be stopped, or *)
(* its write may fail, in between.  "sed -i" replaces a file in one step.  *)
EXTENDS Naturals, Sequences, FiniteSets

CONSTANTS
    Runners,        \* who runs a script: the helper's connections, the installer
    MaxStarts,      \* bounds: scripts started,
    MaxFailures,    \* commands that fail, those that write above all,
    MaxStops,       \* scripts killed on the way,
    MaxUpdates      \* updates of macOS that bring /etc/pam.d/sudo anew

ASSUME BoundsAreNatural ==
    {MaxStarts, MaxFailures, MaxStops, MaxUpdates} \subseteq Nat

VARIABLES
    module,     \* /usr/local/lib/pam/pam_faceid.so: "none", "part" or "whole"
    local,      \* /etc/pam.d/sudo_local
    sudo,       \* /etc/pam.d/sudo
    backup,     \* /etc/pam.d/sudo.bak-faceid
    script,     \* the script a runner runs
    pc,         \* its next step
    text,       \* what it read and means to write ($existing, $tmp)
    note,       \* how its last script ended, and what it said of it
    starts, failures, stops, updates,
    spoilt,     \* history: files a stopped or failing script left half-written,
    before,     \*   sudo_local and sudo's file as each script found them,
    disturbed,  \*   runners whose script was under way with another,
    overlapped, \*   whether there ever were such,
    unread      \*   runners whose script did not see all of sudo_local

files == <<module, local, sudo, backup>>
bounds == <<starts, failures, stops, updates>>
runs == <<script, pc, text, note, before>>
history == <<disturbed, overlapped, unread>>
vars == <<files, runs, bounds, spoilt, history>>

Scripts == {"install", "uninstall", "devInstall", "devUninstall"}
Installs(k) == k \in {"install", "devInstall"}

-----------------------------------------------------------------------------
(* Files.                                                                  *)

Has(f, rule) == \E i \in DOMAIN f : f[i] = rule
Absent == <<"absent">>
Exists(f) == f # Absent

(* grep -v pam_faceid: the rules of a file's first n lines that it keeps.   *)
IsOther(rule) == rule # "face"
Others(f) ==
    LET kept[n \in 0 .. Len(f)] ==
            IF n = 0 THEN <<>>
            ELSE IF IsOther(f[n]) THEN Append(kept[n - 1], f[n]) ELSE kept[n - 1]
    IN  IF Exists(f) THEN kept[Len(f)] ELSE <<>>

(* Writing at the head of a file that somebody else has filled since it    *)
(* was truncated leaves the tail of the longer text: a line cut in two.    *)
Written(new, old) == IF Len(old) > Len(new) THEN Append(new, "junk") ELSE new

(* awk: the include before the first rule, if there is one.                *)
IsRule(rule) == rule \in {"tid", "od", "include"}
WithInclude(f) ==
    LET first == CHOOSE i \in DOMAIN f :
                    IsRule(f[i]) /\ \A j \in 1..(i - 1) : ~IsRule(f[j])
    IN  SubSeq(f, 1, first - 1) \o <<"include">> \o SubSeq(f, first, Len(f))

(* The rule of Touch ID, commented out and back.                           *)
Swapped(f, from, to) == [i \in DOMAIN f |-> IF f[i] = from THEN to ELSE f[i]]

(* What macOS ships: with the include since 14, without on some systems.   *)
Shipped == {<<"include", "tid", "od">>, <<"tid", "od">>}

Unknown == [local |-> Absent, sudo |-> Absent]

-----------------------------------------------------------------------------

Places == {"idle", "copy", "copying", "readLocal", "openLocal", "writeLocal", "remove",
           "readSudo", "backup", "backingUp", "rewrite", "openSudo", "writeSudo", "verify",
           "openAgain", "restoring"}
Rule == {"face", "other", "include", "tid", "tidOff", "od", "junk"}
File == Seq(Rule)

TypeOK ==
    /\ module \in {"none", "part", "whole"}
    /\ local \in File \cup {Absent} /\ backup \in File \cup {Absent}
    /\ sudo \in File /\ text \in [Runners -> File]
    /\ script \in [Runners -> Scripts \cup {"none"}]
    /\ pc \in [Runners -> Places]
    /\ note \in [Runners -> {"none", "ok", "failed", "untouched", "restored", "noTouchID"}]
    /\ starts \in 0..MaxStarts /\ failures \in 0..MaxFailures
    /\ stops \in 0..MaxStops /\ updates \in 0..MaxUpdates
    /\ spoilt \subseteq {"module", "local", "sudo", "backup"}
    /\ disturbed \subseteq Runners /\ overlapped \in BOOLEAN /\ unread \subseteq Runners
    /\ before \in [Runners -> [local : File \cup {Absent}, sudo : File \cup {Absent}]]
    /\ \A p \in Runners : pc[p] = "idle" => text[p] = <<>>

Init ==
    /\ module = "none" /\ backup = Absent
    /\ local \in {Absent, <<"other">>}
    /\ sudo \in Shipped
    /\ script = [p \in Runners |-> "none"]
    /\ pc = [p \in Runners |-> "idle"]
    /\ text = [p \in Runners |-> <<>>]
    /\ note = [p \in Runners |-> "none"]
    /\ starts = 0 /\ failures = 0 /\ stops = 0 /\ updates = 0
    /\ spoilt = {} /\ disturbed = {} /\ overlapped = FALSE /\ unread = {}
    /\ before = [p \in Runners |-> Unknown]

-----------------------------------------------------------------------------
(* Control.  "set -e": a command that fails ends the script, unless its    *)
(* failure is caught.                                                      *)

Go(p, step) == pc' = [pc EXCEPT ![p] = step] /\ UNCHANGED <<note, script, before>>

End(p, how) ==
    /\ pc' = [pc EXCEPT ![p] = "idle"]
    /\ note' = [note EXCEPT ![p] = how]
    /\ script' = [script EXCEPT ![p] = "none"]
    /\ before' = [before EXCEPT ![p] = Unknown]

Holds(p, f) == text' = [text EXCEPT ![p] = f]
Keeps == UNCHANGED text
Drops(p) == Holds(p, <<>>)

(* A step that does what it should, and one that fails.                    *)
Does(p, step) == pc[p] = step /\ UNCHANGED <<bounds, spoilt, history>>
Caught(p, step) ==
    /\ pc[p] = step /\ failures < MaxFailures
    /\ failures' = failures + 1
    /\ UNCHANGED <<starts, stops, updates>>
Fails(p, step) == Caught(p, step) /\ UNCHANGED history

(* The file that is truncated and not yet written at a step.               *)
Target(step) ==
    CASE step = "copying" -> {"module"}
      [] step = "writeLocal" -> {"local"}
      [] step = "backingUp" -> {"backup"}
      [] step \in {"writeSudo", "restoring"} -> {"sudo"}
      [] OTHER -> {}
Spoils(p) == spoilt' = spoilt \cup Target(pc[p])
-----------------------------------------------------------------------------
(* Steps several scripts share.                                            *)

Begin(p, k) ==
    /\ pc[p] = "idle" /\ starts < MaxStarts
    /\ starts' = starts + 1
    /\ script' = [script EXCEPT ![p] = k]
    /\ pc' = [pc EXCEPT ![p] = IF Installs(k) THEN "copy" ELSE "readLocal"]
    /\ note' = [note EXCEPT ![p] = "none"]
    /\ before' = [before EXCEPT ![p] = [local |-> local, sudo |-> sudo]]
    /\ LET busy == {q \in Runners \ {p} : pc[q] # "idle"}
       IN  /\ disturbed' = IF busy = {} THEN disturbed \ {p} ELSE disturbed \cup busy \cup {p}
           /\ overlapped' = (overlapped \/ busy # {})
    /\ unread' = unread \ {p}
    /\ UNCHANGED <<files, text, failures, stops, updates, spoilt>>

(* The module is copied before any rule names it.                          *)
CopyModule_IgnoresFailure(p) ==
    \/ /\ Does(p, "copy")
       /\ module' = "part" /\ Go(p, "copying") /\ Keeps
       /\ UNCHANGED <<local, sudo, backup>>
    \/ /\ Fails(p, "copy")
       /\ Go(p, "readLocal") /\ Keeps /\ UNCHANGED <<files, spoilt>>
    \/ /\ Does(p, "copying")
       /\ module' = "whole" /\ Go(p, "readLocal") /\ Keeps
       /\ UNCHANGED <<local, sudo, backup>>

CopyModule(p) ==
    \/ /\ Does(p, "copy")
       /\ module' = "part" /\ Go(p, "copying") /\ Keeps
       /\ UNCHANGED <<local, sudo, backup>>
    \/ /\ Fails(p, "copy")
       /\ End(p, "failed") /\ Keeps /\ UNCHANGED <<files, spoilt>>
    \/ /\ pc[p] = "copying"
       /\ module' = "whole" /\ Go(p, "readLocal") /\ Keeps
       /\ spoilt' = spoilt \ {"module"}
       /\ UNCHANGED <<local, sudo, backup, bounds, history>>
    \/ /\ Fails(p, "copying")
       /\ End(p, "failed") /\ Keeps /\ Spoils(p) /\ UNCHANGED files

AfterLocal(p) == IF Installs(script[p]) THEN "readSudo" ELSE "remove"

(* The root scripts rewrite sudo_local in place, whatever it holds.  The   *)
(* development scripts write it so only when it is missing, and edit it    *)
(* otherwise; "sed 1i" inserts nothing into an empty file.                 *)
ReadLocal(p) ==
    /\ Does(p, "readLocal") /\ UNCHANGED <<module, sudo, backup>>
    /\ LET k == script[p]
       IN  \/ /\ k = "install" \/ (k = "uninstall" /\ Exists(local))
                               \/ (k = "devInstall" /\ ~Exists(local))
              /\ Holds(p, Others(local)) /\ Go(p, "openLocal") /\ UNCHANGED local
           \/ /\ k \in {"uninstall", "devUninstall"} /\ ~Exists(local)
              /\ Go(p, "remove") /\ Keeps /\ UNCHANGED local
           \/ /\ k = "devInstall" /\ Exists(local)
              /\ local' = IF Has(local, "face") \/ local = <<>> THEN local
                          ELSE <<"face">> \o local
              /\ Go(p, "readSudo") /\ Keeps
           \/ /\ k = "devUninstall" /\ Exists(local)
              /\ local' = Others(local)
              /\ Go(p, "remove") /\ Keeps

(* SIP refuses the renaming of "sed -i".                                   *)
EditLocalFails(p) ==
    /\ Fails(p, "readLocal") /\ Exists(local)
    /\ script[p] \in {"devInstall", "devUninstall"}
    /\ End(p, "failed") /\ Keeps /\ UNCHANGED <<files, spoilt>>

(* A grep that fails is taken for one that found nothing more ("|| true"), *)
(* or nothing at all ("elif ! ... grep -q").                               *)
GrepLocalFails(p) ==
    /\ Caught(p, "readLocal") /\ Exists(local)
    /\ UNCHANGED <<module, sudo, backup, spoilt, disturbed, overlapped>>
    /\ \/ /\ script[p] \in {"install", "uninstall"}
          /\ \E n \in 0..Len(local) : Holds(p, Others(SubSeq(local, 1, n)))
          /\ Go(p, "openLocal") /\ unread' = unread \cup {p} /\ UNCHANGED local
       \/ /\ script[p] = "devInstall"
          /\ local' = IF local = <<>> THEN local ELSE <<"face">> \o local
          /\ Go(p, "readSudo") /\ Keeps /\ UNCHANGED unread

OpenLocal(p) ==
    \/ /\ Does(p, "openLocal")
       /\ local' = <<>> /\ Go(p, "writeLocal") /\ Keeps
       /\ UNCHANGED <<module, sudo, backup>>
    \/ /\ Fails(p, "openLocal")
       /\ End(p, "failed") /\ Drops(p) /\ UNCHANGED <<files, spoilt>>

Rules_OursOnly(p) == IF Installs(script[p]) THEN <<"face">> ELSE text[p]

Rules(p) == IF Installs(script[p]) THEN <<"face">> \o text[p] ELSE text[p]

WriteLocal(p) ==
    \/ /\ Does(p, "writeLocal")
       /\ local' = Written(Rules(p), local)
       /\ Go(p, AfterLocal(p)) /\ Drops(p)
       /\ UNCHANGED <<module, sudo, backup>>
    \/ /\ Fails(p, "writeLocal")
       /\ End(p, "failed") /\ Drops(p) /\ Spoils(p) /\ UNCHANGED files

(* rm -f ... || true                                                       *)
RemoveModule(p) ==
    \/ /\ Does(p, "remove")
       /\ module' = "none" /\ Go(p, "readSudo") /\ Keeps
       /\ UNCHANGED <<local, sudo, backup>>
    \/ /\ Fails(p, "remove")
       /\ Go(p, "readSudo") /\ Keeps /\ UNCHANGED <<files, spoilt>>

(* Is there anything to change in /etc/pam.d/sudo?                         *)
Edits_TrustsInclude(k, f) ==
    CASE k = "install" -> FALSE
      [] k = "devInstall" -> Has(f, "tid")
      [] OTHER -> Has(f, "tidOff")

Edits_ForgetsTouchID(k, f) ==
    CASE k = "install" -> ~Has(f, "include")
      [] k = "devInstall" -> Has(f, "tid")
      [] OTHER -> FALSE

Edits(k, f) ==
    CASE k = "install" -> ~Has(f, "include")
      [] k = "devInstall" -> Has(f, "tid")
      [] OTHER -> Has(f, "tidOff")

ReadSudo(p) ==
    /\ Does(p, "readSudo") /\ Keeps /\ UNCHANGED files
    /\ IF ~Edits(script[p], sudo) THEN End(p, "ok")
       ELSE Go(p, IF Installs(script[p]) THEN "backup" ELSE "rewrite")

(* A grep in sudo's file, or in what was written to it, fails.             *)
GrepSudoFails(p) ==
    /\ Keeps /\ UNCHANGED <<files, spoilt>>
    /\ \/ Fails(p, "readSudo") /\ script[p] = "install" /\ Go(p, "backup")
       \/ Fails(p, "readSudo") /\ script[p] # "install" /\ End(p, "ok")
       \/ Fails(p, "verify") /\ Go(p, "openAgain")

(* cp -n ... || true: an older backup is kept, whatever it is worth.       *)
Backup(p) ==
    \/ /\ Does(p, "backup") /\ Exists(backup)
       /\ Go(p, "rewrite") /\ Keeps /\ UNCHANGED files
    \/ /\ Does(p, "backup") /\ ~Exists(backup)
       /\ backup' = <<>> /\ Go(p, "backingUp") /\ Keeps
       /\ UNCHANGED <<module, local, sudo>>
    \/ /\ Does(p, "backingUp")
       /\ backup' = Written(sudo, backup) /\ Go(p, "rewrite") /\ Keeps
       /\ UNCHANGED <<module, local, sudo>>
    \/ /\ Fails(p, "backup") \/ Fails(p, "backingUp")
       /\ spoilt' = spoilt \cup {"backup"}
       /\ Go(p, "rewrite") /\ Keeps /\ UNCHANGED files

(* What the scripts make of sudo's file; awk finds no place for the        *)
(* include in a file without a rule.                                       *)
Rewritten(k, f) ==
    CASE k = "devInstall" -> Swapped(f, "tid", "tidOff")
      [] k = "install" /\ (\E i \in DOMAIN f : IsRule(f[i])) -> WithInclude(f)
      [] k = "install" /\ ~(\E i \in DOMAIN f : IsRule(f[i])) -> <<>>
      [] OTHER -> Swapped(f, "tidOff", "tid")

(* The new text is made beside the file and looked at before the file is   *)
(* touched; the development scripts edit the file itself.                  *)
Rewrite(p) ==
    /\ Does(p, "rewrite") /\ UNCHANGED <<module, local, backup>>
    /\ LET k == script[p]
           dev == k \in {"devInstall", "devUninstall"}
           new == Rewritten(k, sudo)
       IN  \/ dev /\ sudo' = new /\ End(p, "ok") /\ Keeps
           \/ /\ ~dev /\ Has(new, "od")
              /\ Holds(p, new) /\ Go(p, "openSudo") /\ UNCHANGED sudo
           \/ /\ ~dev /\ ~Has(new, "od")
              /\ End(p, IF k = "install" THEN "untouched" ELSE "ok")
              /\ Keeps /\ UNCHANGED sudo

(* mktemp, awk or sed fails; SIP refuses the renaming of "sed -i".         *)
RewriteFails(p) ==
    /\ Fails(p, "rewrite") /\ Keeps /\ UNCHANGED <<files, spoilt>>
    /\ \/ End(p, "failed")
       \/ script[p] = "install" /\ End(p, "untouched")
       \/ script[p] = "uninstall" /\ End(p, "ok")

(* What follows a write that failed: the installer puts the backup back,   *)
(* the uninstaller says that Touch ID could not be restored.               *)
GiveUpWriting(p) ==
    IF script[p] = "install" THEN Go(p, "openAgain") /\ Drops(p)
    ELSE End(p, "noTouchID") /\ Drops(p)

OpenSudo(p) ==
    \/ /\ Does(p, "openSudo")
       /\ sudo' = <<>> /\ Go(p, "writeSudo") /\ Keeps
       /\ UNCHANGED <<module, local, backup>>
    \/ /\ Fails(p, "openSudo")
       /\ GiveUpWriting(p) /\ UNCHANGED <<files, spoilt>>

WriteSudo(p) ==
    \/ /\ pc[p] = "writeSudo"
       /\ sudo' = Written(text[p], sudo)
       /\ spoilt' = spoilt \ {"sudo"}
       /\ UNCHANGED <<module, local, backup, bounds, history>>
       /\ IF script[p] = "install" THEN Go(p, "verify") /\ Drops(p)
          ELSE End(p, "ok") /\ Drops(p)
    \/ /\ Fails(p, "writeSudo")
       /\ GiveUpWriting(p) /\ Spoils(p) /\ UNCHANGED files

Verify(p) ==
    /\ Does(p, "verify") /\ Keeps /\ UNCHANGED files
    /\ IF Has(sudo, "od") THEN End(p, "ok") ELSE Go(p, "openAgain")

(* cat backup > sudo || true: the shell truncates the file before cat      *)
(* finds out whether there is a backup, and the result is not looked at.   *)
Restore(p) ==
    \/ /\ Does(p, "openAgain")
       /\ sudo' = <<>> /\ Go(p, "restoring") /\ Keeps
       /\ UNCHANGED <<module, local, backup>>
    \/ /\ Fails(p, "openAgain")
       /\ End(p, "restored") /\ Keeps /\ UNCHANGED <<files, spoilt>>
    \/ /\ pc[p] = "restoring"
       /\ End(p, "restored") /\ Keeps
       /\ sudo' = IF Exists(backup) THEN Written(backup, sudo) ELSE sudo
       /\ spoilt' = IF Exists(backup) THEN spoilt \ {"sudo"} ELSE spoilt \cup {"sudo"}
       /\ UNCHANGED <<module, local, backup, bounds, history>>
    \/ /\ Fails(p, "restoring")
       /\ End(p, "restored") /\ Keeps /\ Spoils(p) /\ UNCHANGED files

(* The helper leaves after 20 seconds whatever it runs, the user stops a   *)
(* script, the machine loses its power.                                    *)
Stop(p) ==
    /\ pc[p] # "idle" /\ stops < MaxStops
    /\ stops' = stops + 1
    /\ End(p, "none") /\ Drops(p) /\ Spoils(p)
    /\ UNCHANGED <<files, starts, failures, updates, history>>

(* An update of macOS, after which the machine starts anew.                *)
Update ==
    /\ updates < MaxUpdates /\ \A p \in Runners : pc[p] = "idle"
    /\ updates' = updates + 1
    /\ sudo' \in Shipped /\ spoilt' = spoilt \ {"sudo"}
    /\ UNCHANGED <<module, local, backup, runs, starts, failures, stops, history>>

Step(p) ==
    \/ CopyModule(p) \/ ReadLocal(p) \/ EditLocalFails(p) \/ GrepLocalFails(p)
    \/ OpenLocal(p) \/ WriteLocal(p)
    \/ RemoveModule(p) \/ ReadSudo(p) \/ GrepSudoFails(p) \/ Backup(p) \/ Rewrite(p) \/ RewriteFails(p)
    \/ OpenSudo(p) \/ WriteSudo(p) \/ Verify(p) \/ Restore(p)

Next ==
    \/ \E p \in Runners : (\E k \in Scripts : Begin(p, k)) \/ Step(p) \/ Stop(p)
    \/ Update

Spec == Init /\ [][Next]_vars

-----------------------------------------------------------------------------
(* PAM.  The rules sudo goes through: those of its file, with those of     *)
(* sudo_local in the place of the include.                                 *)
Chain ==
    {sudo[i] : i \in DOMAIN sudo} \cup
    (IF Has(sudo, "include") /\ Exists(local) THEN {local[i] : i \in DOMAIN local} ELSE {})

(* A chain with a line PAM cannot read or a module it cannot load is       *)
(* refused as a whole; otherwise the owner's password is accepted at its   *)
(* end, whatever the rules before it answer, since they are "sufficient".  *)
Loads == "junk" \notin Chain /\ ("face" \in Chain => module = "whole")
PasswordWorks == Loads /\ "od" \in Chain

-----------------------------------------------------------------------------
(* Properties.                                                             *)

Writing(step) == step \in {"copying", "writeSudo", "restoring"}

(* Nobody is locked out of sudo: whatever was installed, updated and       *)
(* removed, wherever scripts were stopped or their writes failed, the      *)
(* password is accepted, except while a script is at the very file and     *)
(* after it left the module, sudo's file or the backup half-written.       *)
NoLockout ==
    \/ overlapped
    \/ spoilt \cap {"module", "sudo", "backup"} # {}
    \/ \E p \in Runners : Writing(pc[p])
    \/ PasswordWorks

EndsWell(p) == pc[p] # "idle" /\ pc'[p] = "idle" /\ note'[p] = "ok"

(* An installation that ends well and had nothing to say has connected     *)
(* the face to sudo, and repaired what earlier ones left, those that were  *)
(* stopped, failed or overlapped others included: this is what             *)
(* check-pam-repair.sh tries once.                                         *)
InstallRepairs ==
    [][\A p \in Runners : EndsWell(p) /\ script[p] = "install" /\ p \notin disturbed
          => module' = "whole" /\ "face" \in Chain']_vars

(* A removal that ends well leaves no rule of FaceKey, and Touch ID as     *)
(* macOS shipped it, unless a command failed or sudo's file has no rule    *)
(* for the password, with which the script leaves it alone.                *)
RemovalRestores ==
    [][\A p \in Runners : EndsWell(p) /\ script[p] = "uninstall" /\ p \notin disturbed
          => /\ "face" \notin Chain'
             /\ Has(sudo', "tidOff") => failures' > 0 \/ ~Has(sudo', "od")]_vars

Finishes(p) == pc[p] # "idle" /\ pc'[p] = "idle"

(* The rules other software put into sudo_local survive every script,      *)
(* however it ends, unless it was cut short while it wrote that file or    *)
(* its grep failed, which the root scripts do not notice.                  *)
OthersSurvive ==
    [][\A p \in Runners : Finishes(p) /\ p \notin disturbed \cup unread /\ "local" \notin spoilt'
          => Others(local') = Others(before[p].local)]_vars
=============================================================================
