------------------------------- MODULE Engine -------------------------------
(***************************************************************************)
(* Processes of the engine, one after the other, on one enrolment: how     *)
(* each is started (Launch) and what it makes of the camera's frames       *)
(* (Recognition).  Each runs to its end in one step; how they overlap,     *)
(* fail and are stopped is the matter of FaceScan, Enrollment,             *)
(* EnrollSession and Supervision.                                          *)
(***************************************************************************)
EXTENDS Recognition, Launch

CONSTANTS
    Samples,            \* sequences of embeddings an enrolment captures
    Reads,              \* sequences of frames a diagnosis reads
    Thresholds,         \* values of COSINE_THRESHOLD in a diagnosis
    MaxRows,            \* bound: the rows of the enrolment
    Settings,           \* settings of the app
    OwnEnvs,            \* environments the app itself may have
    Preferences         \* languages of the user, for a process started in a terminal

VARIABLES
    stored,             \* the file of the embeddings
    event               \* what the last process was given and what it did

engineVars == <<stored, event>>

Buttons == [face |-> "engine.btn.face", touch |-> "engine.btn.touch",
            password |-> "engine.btn.password"]
Models == {{"yunet"}, {"yunet", "sface"}}
Subcommands == {<<"daemon">>, <<"verify">>, <<"verify-lock">>, <<"selftest">>,
                <<"enroll", "--json">>, <<"enroll", "--json", "--append">>}

\* A camera that reads gives frames, a locale has a language, a script and a region at
\* most, String(format:) is never empty, and no environment names files of another engine.
ASSUME EngineAssumption ==
    /\ {Buttons[b] : b \in DOMAIN Buttons} \subseteq EngineKeys
    /\ None \notin DOMAIN Buttons \cup {"cancel", <<>>} \cup EngineKeys \X Seq(STRING)
    /\ Samples \subseteq Seq(Vectors) \ {<<>>}
    /\ Reads \subseteq Seq(Frames \cup {None}) /\ Thresholds \subseteq Int
    /\ \A settings \in Settings :
          settings.modal \in BOOLEAN /\ settings.hud \in BOOLEAN /\ settings.threshold # ""
    /\ \A own \in OwnEnvs :
          /\ \A name \in DOMAIN own \cap {"FACEID_HELPERS_DIR", "FACEID_MODELS_DIR"} :
                own[name] # "bundle"
          /\ "FACEID_I18N" \in DOMAIN own => own["FACEID_I18N"] = EngineJson
    /\ \A preferences \in Preferences :
          preferences \in Seq(Locales) /\ \A k \in DOMAIN preferences : Len(preferences[k]) <= 3

EngineInit ==
    /\ stored \in {None} \cup {[row |-> s[1]] : s \in Samples}
    /\ event = [op |-> "none"]

----------------------------------------------------------------------------
(* python -m faceid.enroll, from the samples to the file. *)
Enroll(samples, append) ==
    \E kept \in FilterOutliers(samples) :
        LET rows == Rows(samples, kept)
            all == Stacked(LoadEmbeddings(stored), rows, append)
        IN  /\ Len(all) <= MaxRows
            /\ stored' = [rows |-> all]
            /\ event' = [op |-> "enroll", samples |-> samples, kept |-> kept, append |-> append]

(* python -m faceid.diag, in a terminal: its environment is not the daemon's. *)
Diagnose(threshold, models, camera, reads) ==
    /\ event' = [op |-> "diag", threshold |-> threshold, reads |-> reads,
                 did |-> Diagnosis(threshold, models, stored, camera, reads)]
    /\ UNCHANGED stored

(* python -m faceid.selftest *)
TestSelf(models, feature) ==
    /\ event' = [op |-> "selftest", feature |-> feature, did |-> SelfTest(models, feature)]
    /\ UNCHANGED stored

(* A command of the engine is run. *)
RunCommand(bundled, sub) ==
    /\ event' = [op |-> "command", bundled |-> bundled, sub |-> sub, did |-> FaceidCmd(bundled, sub)]
    /\ UNCHANGED stored

(* The app starts the daemon. *)
StartFromApp(own, bundled, localization, settings) ==
    /\ event' = [op |-> "start", own |-> own, bundled |-> bundled, localization |-> localization,
                 settings |-> settings,
                 config |-> Config(DaemonEnv(own, bundled, localization, settings), <<>>)]
    /\ UNCHANGED stored

(* The user starts the daemon in a terminal. *)
StartInTerminal(own, preferences) ==
    /\ event' = [op |-> "terminal", own |-> own, preferences |-> preferences,
                 config |-> Config(own, preferences)]
    /\ UNCHANGED stored

ChooseMethod_English(config, authModal, dialog) ==
    CASE ~config.modal -> "face"
      [] config.modal /\ authModal \in DOMAIN Buttons -> authModal
      [] OTHER ->
           CASE dialog \in {None, Fallback(Buttons.face)} -> "face"
             [] dialog = Fallback(Buttons.touch) -> "touch"
             [] OTHER -> "password"

(* Daemon.choose_method.  authModal is what the AppKit panel prints and    *)
(* dialog what AppleScript returns: None if there is no answer from it,    *)
(* and <<>> for a dialog that was cancelled.                               *)
ChooseMethod(config, authModal, dialog) ==
    CASE ~config.modal -> "face"
      [] config.modal /\ authModal \in DOMAIN Buttons -> authModal
      [] OTHER ->
           CASE dialog = None -> "face"
             [] dialog = config.texts[Buttons.face] -> "face"
             [] dialog = config.texts[Buttons.touch] -> "touch"
             [] OTHER -> "password"

(* A sudo request on the daemon that was just started.  The AppKit panel   *)
(* gives up by itself and prints "password"; AppleScript's does not, and   *)
(* is killed after 90 s.                                                   *)
Choose(panel, clicked) ==
    /\ event.op \in {"start", "terminal"} /\ event.config.valid
    /\ LET c == event.config
           authModal == IF panel # "native" THEN None
                        ELSE IF clicked = None THEN "password" ELSE clicked
           dialog == CASE panel # "dialog" \/ clicked = None -> None
                       [] panel = "dialog" /\ clicked = "cancel" -> <<>>
                       [] OTHER -> c.texts[Buttons[clicked]]
       IN  event' = [op |-> "choose", modal |-> c.modal, panel |-> panel, clicked |-> clicked,
                     did |-> ChooseMethod(c, authModal, dialog)]
    /\ UNCHANGED stored

(* The process ends. *)
End ==
    /\ event.op # "none" /\ event' = [op |-> "none"]
    /\ UNCHANGED stored

EngineNext ==
    \/ /\ event.op = "none"
       /\ \/ \E samples \in Samples, append \in BOOLEAN : Enroll(samples, append)
          \/ \E threshold \in Thresholds, models \in Models, camera \in BOOLEAN, reads \in Reads :
                Diagnose(threshold, models, camera, reads)
          \/ \E models \in Models, samples \in Samples : TestSelf(models, samples[1])
          \/ \E bundled \in BOOLEAN, sub \in Subcommands : RunCommand(bundled, sub)
          \/ \E own \in OwnEnvs, bundled \in BOOLEAN, localization \in Langs, settings \in Settings :
                StartFromApp(own, bundled, localization, settings)
          \/ \E own \in OwnEnvs, preferences \in Preferences : StartInTerminal(own, preferences)
    \/ \E panel \in {"native", "dialog", "nothing"}, clicked \in DOMAIN Buttons \cup {"cancel", None} :
          /\ clicked = "cancel" => panel = "dialog"
          /\ panel = "nothing" => clicked = None
          /\ Choose(panel, clicked)
    \/ End

EngineSpec == EngineInit /\ [][EngineNext]_engineVars

----------------------------------------------------------------------------
(* Properties. *)

(* The filter keeps samples in the order of capture, min_keep of them at   *)
(* least if there are as many, and more only if they are like the others.  *)
(* One that is like the others is never dropped, and none that is dropped  *)
(* is more like them than one that is kept (enroll.py:42).                 *)
FilterKeepsTheBest ==
    event.op = "enroll" =>
        LET all == DOMAIN event.samples
            kept == ToSet(event.kept)
            OfScore(i) == Score(event.samples, i)
        IN  /\ \A j, k \in DOMAIN event.kept : j < k => event.kept[j] < event.kept[k]
            /\ kept \subseteq all /\ Cardinality(kept) = Len(event.kept)
            /\ kept = all \/ Cardinality(kept) >= MinKeep
            /\ Cardinality(kept) > MinKeep => \A i \in kept : OfScore(i) >= MinCos
            /\ \A i \in kept, j \in all \ kept :
                  OfScore(j) <= OfScore(i) /\ OfScore(j) < MinCos

(* An appearance is added, never traded: whoever was recognised before     *)
(* still is, and nobody is whom neither the old rows nor the new ones are  *)
(* like ("ajouter revient à concaténer", enroll.py:9).                     *)
AppearancesAccumulate ==
    [][event'.op = "enroll" =>
        \A face \in {s[1] : s \in Samples} :
            Accepts(LoadEmbeddings(stored'), face) <=>
                \/ Accepts(Rows(event'.samples, event'.kept), face)
                \/ /\ event'.append /\ stored # None
                   /\ \E k \in DOMAIN LoadEmbeddings(stored) :
                        Cosine(LoadEmbeddings(stored)[k], face) >= CosineThreshold]_engineVars

\* The frames of the last diagnosis that the daemon would let pass.
Passing ==
    LET Passes(r) == /\ r # None /\ FrameFeature(r).feat # None
                     /\ Accepts(LoadEmbeddings(stored), FrameFeature(r).feat)
    IN  {k \in DOMAIN event.reads : Passes(event.reads[k])}

(* What the diagnosis says of the daemon is right where it can be: if both *)
(* have the same threshold, the frames it counts are those that pass; good *)
(* scores mean that one passes if the threshold is not above 0.45, and low *)
(* ones that none does if it is not below 0.30; on frames without a usable *)
(* face it gives no advice on scores.  A self-test that passes means that  *)
(* a feature matches itself, whatever cosine the threshold is.             *)
DiagnosisAgrees ==
    /\ event.op = "diag" /\ event.did.code = 0 =>
         LET told == event.did.told
         IN  /\ event.threshold = CosineThreshold => told.passed = Cardinality(Passing)
             /\ told.advice = "good" /\ CosineThreshold <= GoodScore => Passing # {}
             /\ told.advice = "low" /\ FairScore <= CosineThreshold => Passing = {}
             /\ told.advice = "no face" => Passing = {}
             /\ told.advice = "no face" <=> told.faces = 0
    /\ event.op = "selftest" /\ event.did /\ CosineThreshold <= Highest =>
         Accepts(<<event.feature>>, event.feature)

(* Both ways of starting the engine run the same program in the same mode, *)
(* and the daemon has the app's settings and the app's files, whatever the *)
(* environment of the app itself holds (Branding.swift:120, config.py:26). *)
(* That environment can keep it from starting, but only with a number the  *)
(* app does not set: not with a threshold of its own (config.py:106-146).  *)
StartedAsAsked ==
    /\ event.op = "command" =>
         LET other == FaceidCmd(~event.bundled, event.sub)
         IN  /\ event.did.main = other.main
             /\ event.did.lock = other.lock
             /\ EnrollFlags(event.did) = EnrollFlags(other)
             /\ EnrollFlags(event.did).append <=> "--append" \in ToSet(event.sub)
    /\ event.op = "start" =>
         /\ event.config.valid <=>
              \A name \in (NumberNames \ {"FACEID_THRESHOLD"}) \cap DOMAIN event.own :
                 event.own[name] # ""
         /\ event.config.hud = event.settings.hud
         /\ event.config.modal = event.settings.modal
         /\ event.config.threshold = event.settings.threshold
         /\ event.bundled <=> event.config.models = "bundle"
         /\ event.bundled <=> event.config.helpers = "bundle"

(* The engine speaks the language the app is shown in; in a terminal, the  *)
(* user's first language, in the closest form there is, or else English    *)
(* (config.py:57, "fr-CA" doit retomber sur "fr").                         *)
SpeaksTheAppsLanguage ==
    /\ event.op = "start" =>
         \A key \in EngineKeys :
            event.config.texts[key] = LocalizableStrings[event.localization][key]
    /\ event.op = "terminal" /\ event.preferences # <<>> /\ "FACEID_LANG" \notin DOMAIN event.own =>
         LET wanted == Head(event.preferences)
             forms == {n \in 1 .. Len(wanted) : SubSeq(wanted, 1, n) \in Langs}
             closest == IF forms = {} THEN English
                        ELSE SubSeq(wanted, 1, CHOOSE n \in forms : \A m \in forms : m <= n)
         IN  \A key \in EngineKeys : event.config.texts[key] = LocalizableStrings[closest][key]

(* The method that is used is the one that was clicked, in any language    *)
(* and on either panel, and a panel that was dismissed never starts a      *)
(* scan; the face needs a click only if a panel comes up (daemon.py:129).  *)
ChoiceIsUnderstood ==
    event.op = "choose" /\ event.modal =>
        /\ event.clicked \in DOMAIN Buttons => event.did = event.clicked
        /\ event.clicked = "cancel" => event.did = "password"
        /\ event.did = "touch" => event.clicked = "touch"
        /\ event.clicked = None => event.did = IF event.panel = "native" THEN "password" ELSE "face"
=============================================================================
