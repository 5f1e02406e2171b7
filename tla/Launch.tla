------------------------------- MODULE Launch -------------------------------
(***************************************************************************)
(* How a process of the engine gets its command, its settings, its paths   *)
(* and its language: the environment and the arguments the app gives it    *)
(* (menubar/Branding.swift), faceid/config.py and                          *)
(* packaging/faceid_entry.py that read them, and the translations          *)
(* scripts/make_i18n.py writes for both sides.                             *)
(*                                                                         *)
(* An environment is a function on the names that are set.  A locale is    *)
(* the sequence of its subtags: "zh-Hans-CN" is <<"zh", "Hans", "CN">>.    *)
(* A text is the pair of a key and the language it is written in.          *)
(***************************************************************************)
EXTENDS Sequences, SequencesExt

CONSTANTS
    Langs,              \* LANGS of make_i18n.py, locales
    Keys, EngineKeys,   \* the keys of TR, and ENGINE_KEYS
    Untranslated        \* the <<key, language>> TR has no text for

English == <<"en">>
Fallback(key) == <<key, <<"fallback">>>>    \* the text in the code of daemon.py

Locales == Seq(STRING) \ {<<>>}

ASSUME LaunchAssumption ==
    /\ English \in Langs /\ Langs \subseteq Locales
    /\ EngineKeys \subseteq Keys
    /\ Untranslated \subseteq Keys \X (Langs \ {English})

----------------------------------------------------------------------------
(* scripts/make_i18n.py *)

TR == [key \in Keys |-> [lang \in {l \in Langs : <<key, l>> \notin Untranslated} |-> <<key, lang>>]]

\* tr.get(lang, tr["en"])
Translation(key, lang) ==
    IF lang \in DOMAIN TR[key] THEN TR[key][lang] ELSE TR[key][English]

\* The .lproj directories of the app, and the engine's JSON.
LocalizableStrings == [lang \in Langs |-> [key \in Keys |-> Translation(key, lang)]]
EngineJson == [lang \in Langs |-> [key \in EngineKeys |-> Translation(key, lang)]]

----------------------------------------------------------------------------
(* faceid/config.py *)

\* os.environ.get(name) or default
OrDefault(env, name, default) ==
    IF name \in DOMAIN env /\ env[name] # "" THEN env[name] ELSE default

\* _flag
Flag(env, name, default) == OrDefault(env, name, default) # "0"

\* _preferred_lang: "preferences" is what `defaults read` prints, empty if it fails.
PreferredLang(env, preferences) ==
    IF "FACEID_LANG" \in DOMAIN env /\ env["FACEID_LANG"] # <<>> THEN env["FACEID_LANG"]
    ELSE IF preferences # <<>> THEN Head(preferences) ELSE English

Candidates_NoScript(lang) == <<lang, <<Head(lang)>>, English>>

\* The candidates of _load_translations, in their order: lang.rsplit("-", 1)[0] and
\* lang.split("-")[0] are the locale itself if it has no hyphen.
Candidates(lang) ==
    <<lang, IF Len(lang) > 1 THEN Front(lang) ELSE lang, <<Head(lang)>>, English>>

\* _load_translations
LoadTranslations(env, preferences) ==
    LET table == IF "FACEID_I18N" \in DOMAIN env THEN env["FACEID_I18N"] ELSE EngineJson
        candidates == Candidates(PreferredLang(env, preferences))
        known == {k \in DOMAIN candidates : candidates[k] \in DOMAIN table}
    IN  IF known = {} THEN <<>>
        ELSE table[candidates[CHOOSE k \in known : \A j \in known : k <= j]]

\* t, with the fallback daemon.py gives
T(translations, key) ==
    IF key \in DOMAIN translations THEN translations[key] ELSE Fallback(key)

\* What int() and float() are given, os.environ.get(name, default): the empty string
\* stands for every text that is no number, for which they raise a ValueError.
Number(env, name, default) == IF name \in DOMAIN env THEN env[name] ELSE default

\* The names that are read that way.
NumberNames ==
    {"FACEID_THRESHOLD", "FACEID_WARMUP", "FACEID_WARMUP_DELTA", "FACEID_CAPTURE_WIDTH",
     "FACEID_CAPTURE_HEIGHT", "FACEID_DETECT_CONF", "FACEID_ENROLL_SAMPLES",
     "FACEID_REQUIRED_MATCHES", "FACEID_MAX_FRAMES", "FACEID_TIMEOUT", "FACEID_LOCK_TIMEOUT",
     "FACEID_MIN_FACE"}

\* The names config.py defines from the environment when a process starts; of the
\* numbers, only the threshold is looked at.
Config(env, preferences) ==
    LET threshold == Number(env, "FACEID_THRESHOLD", "0.36")
        translations == LoadTranslations(env, preferences)
    IN  [valid |-> "" \notin {Number(env, name, "0") : name \in NumberNames},
         hud |-> Flag(env, "FACEID_HUD", "1"),
         modal |-> Flag(env, "FACEID_MODAL", "0"),
         threshold |-> threshold,
         helpers |-> OrDefault(env, "FACEID_HELPERS_DIR", "project"),
         assets |-> OrDefault(env, "FACEID_ASSETS_DIR", "project"),
         models |-> OrDefault(env, "FACEID_MODELS_DIR", "support"),
         texts |-> [key \in EngineKeys |-> T(translations, key)]]

----------------------------------------------------------------------------
(* menubar/Branding.swift *)

\* merge(_) { _, n in n }: what is merged overrides what is there.
Merge(env, new) ==
    [name \in DOMAIN env \cup DOMAIN new |-> IF name \in DOMAIN new THEN new[name] ELSE env[name]]

\* Paths.childEnv; preferredLocalizations.first is one of the bundle's own.
ChildEnv(bundled, localization) ==
    Merge([FACEID_LANG |-> localization, FACEID_I18N |-> EngineJson],
          IF bundled THEN [FACEID_HELPERS_DIR |-> "bundle", FACEID_ASSETS_DIR |-> "bundle",
                           FACEID_MODELS_DIR |-> "bundle"]
          ELSE <<>>)

\* Settings.env
SettingsEnv(settings) ==
    [FACEID_THRESHOLD |-> settings.threshold,
     FACEID_MODAL |-> IF settings.modal THEN "1" ELSE "0",
     FACEID_HUD |-> IF settings.hud THEN "1" ELSE "0"]

DaemonEnv_OwnLast(own, bundled, localization, settings) ==
    Merge(Merge(SettingsEnv(settings), ChildEnv(bundled, localization)), own)

\* The environment DaemonController.start gives.
DaemonEnv(own, bundled, localization, settings) ==
    Merge(Merge(own, ChildEnv(bundled, localization)), SettingsEnv(settings))

\* Run.faceidCmd and the command it starts: python -m with a module, or the binary.
DevCommand(sub) ==
    LET module == CASE Head(sub) \in {"verify", "verify-lock"} -> "verify_client"
                    [] Head(sub) \in {"enroll", "selftest"} -> Head(sub)
                    [] OTHER -> "daemon"
    IN  [main |-> module,
         argv |-> <<module>> \o (IF Head(sub) = "verify-lock" THEN <<"--lock">> ELSE Tail(sub)),
         lock |-> Head(sub) = "verify-lock"]     \* "--lock" in sys.argv

\* packaging/faceid_entry.py: argv[0] is the binary; enroll sees its own arguments.
BundledCommand(sub) ==
    LET Runs(main, argv, lock) == [main |-> main, argv |-> argv, lock |-> lock]
        all == <<"faceid">> \o sub
    IN  IF sub = <<>> THEN Runs("daemon", all, FALSE)
        ELSE CASE Head(sub) = "daemon" -> Runs("daemon", all, FALSE)
               [] Head(sub) = "enroll" -> Runs("enroll", <<"enroll">> \o Tail(sub), FALSE)
               [] Head(sub) = "verify" -> Runs("verify_client", all, FALSE)
               [] Head(sub) = "verify-lock" -> Runs("verify_client", all, TRUE)
               [] Head(sub) = "selftest" -> Runs("selftest", all, FALSE)
               [] OTHER -> Runs("usage", all, FALSE)

FaceidCmd(bundled, sub) == IF bundled THEN BundledCommand(sub) ELSE DevCommand(sub)

\* enroll.py reads its flags when it is imported, after the entry point changed sys.argv.
EnrollFlags(command) ==
    [json |-> "--json" \in ToSet(command.argv), append |-> "--append" \in ToSet(command.argv)]
=============================================================================
