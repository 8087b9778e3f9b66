----------------------------- MODULE PhoneSettings -----------------------------
(***************************************************************************)
(* SettingsScreen.tsx: the phone's name and its language.  Both are shown  *)
(* from what the screen loads when it is mounted, and changed by saving    *)
(* first and showing then; several saves may be under way, because the     *)
(* keyboard's "done" saves the name too and the language rows never wait.  *)
(*                                                                         *)
(* The native engine (display name), AsyncStorage (language preference)    *)
(* and i18n are external.  Binding card, version and help are only shown.  *)
(***************************************************************************)
EXTENDS PhoneValues, Naturals, FiniteSets

CONSTANTS
  Names, Languages,   \* names to type, languages to pick
  MaxOps              \* loads, saves and exports ever started

System == "system"
Preferences == Languages \cup {System}
PhoneSettingsAssumption ==
  /\ None \notin Names \cup Preferences /\ System \notin Languages /\ Names # {}
  /\ Languages # {} /\ MaxOps \in Nat

VARIABLES
  nativeName, storedPreference, applied,    \* native name, stored preference, language of i18n
  phone,                          \* the system's language (RNLocalize.getLocales)
  deviceName, editing, showEdit, nameError, saving,   \* deviceName, editingName, showEditDevice, ...
  activeView, mode, language, preference, languageError, \* activeView, languageMode, language, ...
  exporting,                      \* isExportingDiagnostics
  ops, started,                   \* asynchronous calls under way; so far
  overlapped       \* history: two calls about the same thing met, or a load or i18n failed

nameVars == <<deviceName, editing, showEdit, nameError, saving>>
languageVars == <<activeView, mode, language, preference, languageError>>
phoneSettingsVars == <<nativeName, storedPreference, applied, phone, nameVars, languageVars,
                       exporting, ops, started, overlapped>>

\* resolveLanguage.  Mutant: "system" is taken for a language.
ResolvedRaw(p) == p
Resolved(p) == IF p = System THEN phone ELSE p

\* A call begins; another one about the same thing may be under way.
About(kind) == IF kind \in {"loadName", "saveName"} THEN "name"
               ELSE IF kind \in {"loadLanguage", "saveLanguage"} THEN "language" ELSE "export"
Begin(kind, value) ==
  /\ started < MaxOps /\ started' = started + 1
  /\ ops' = ops \cup {[number |-> started', kind |-> kind, value |-> value, step |-> 1]}
  /\ overlapped' = (overlapped \/ \E op \in ops : About(op.kind) = About(kind))
Over(op) == ops' = ops \ {op}

\* The two views, and what can be touched in them: the settings, where the dialog of the
\* name lies over the rows, and the languages, which only the manual mode lists.
InSettings == activeView = "settings" /\ ~showEdit
InLanguage == activeView = "language"
Offered == IF mode = "manual" THEN Preferences ELSE {System}

-----------------------------------------------------------------------------
(* The name. *)

OpenEdit ==
  /\ InSettings
  /\ showEdit' = TRUE /\ editing' = deviceName /\ nameError' = FALSE
  /\ UNCHANGED <<nativeName, storedPreference, applied, phone, deviceName, saving, languageVars,
                 exporting, ops, started, overlapped>>
CloseEdit ==
  /\ showEdit /\ showEdit' = FALSE
  /\ UNCHANGED <<nativeName, storedPreference, applied, phone, deviceName, editing, nameError,
                 saving, languageVars, exporting, ops, started, overlapped>>
Type(name) ==
  /\ showEdit /\ editing' = name
  /\ UNCHANGED <<nativeName, storedPreference, applied, phone, deviceName, showEdit, nameError,
                 saving, languageVars, exporting, ops, started, overlapped>>

\* handleSaveDeviceName: the button waits for a save that is under way, the keyboard
\* does not.  An empty name is refused.
SaveName(byButton) ==
  /\ showEdit /\ (byButton => ~saving)
  /\ IF editing = None
     THEN nameError' = TRUE /\ UNCHANGED <<saving, ops, started, overlapped>>
     ELSE saving' = TRUE /\ nameError' = FALSE /\ Begin("saveName", editing)
  /\ UNCHANGED <<nativeName, storedPreference, applied, phone, deviceName, editing, showEdit,
                 languageVars, exporting>>

\* The native call ends well; the answer ends the dialog that is open then.
NameSaved(op) ==
  /\ op.kind = "saveName" /\ Over(op)
  /\ nativeName' = op.value /\ deviceName' = op.value
  /\ showEdit' = FALSE /\ saving' = FALSE
  /\ UNCHANGED <<storedPreference, applied, phone, editing, nameError, languageVars, exporting,
                 started, overlapped>>
NameFails(op) ==
  /\ op.kind = "saveName" /\ Over(op) /\ nameError' = TRUE /\ saving' = FALSE
  /\ UNCHANGED <<nativeName, storedPreference, applied, phone, deviceName, editing, showEdit,
                 languageVars, exporting, started, overlapped>>
\* getClientDisplayName, of the mount.
NameLoaded(op) ==
  /\ op.kind = "loadName" /\ Over(op) /\ deviceName' = nativeName
  /\ UNCHANGED <<nativeName, storedPreference, applied, phone, editing, showEdit, nameError,
                 saving, languageVars, exporting, started, overlapped>>

-----------------------------------------------------------------------------
(* The language. *)

SwitchView ==
  /\ \/ InSettings /\ activeView' = "language"
     \/ InLanguage /\ activeView' = "settings"
  /\ UNCHANGED <<nativeName, storedPreference, applied, phone, nameVars, mode, language,
                 preference, languageError, exporting, ops, started, overlapped>>

\* "Manual" alone only shows the languages.
PickManual ==
  /\ InLanguage /\ mode' = "manual"
  /\ UNCHANGED <<nativeName, storedPreference, applied, phone, nameVars, activeView, language,
                 preference, languageError, exporting, ops, started, overlapped>>

\* What the screen shows of a preference.
Shown(p) ==
  /\ preference' = p /\ language' = Resolved(p)
  /\ mode' = IF p = System THEN "system" ELSE "manual"

\* Mutant: the choice is shown before it is saved.
ChooseAtOnce(p) ==
  /\ InLanguage /\ p \in Offered
  /\ languageError' = FALSE /\ Begin("saveLanguage", p) /\ Shown(p)
  /\ UNCHANGED <<nativeName, storedPreference, applied, phone, nameVars, activeView, exporting>>
\* handleLanguagePreferenceChange: the choice is saved...
Choose(p) ==
  /\ InLanguage /\ p \in Offered
  /\ languageError' = FALSE /\ Begin("saveLanguage", p)
  /\ UNCHANGED <<nativeName, storedPreference, applied, phone, nameVars, activeView, mode,
                 language, preference, exporting>>
\* ... and i18n is told,
Stored(op) ==
  /\ op.kind = "saveLanguage" /\ op.step = 1 /\ storedPreference' = op.value
  /\ ops' = (ops \ {op}) \cup {[op EXCEPT !.step = 2]}
  /\ UNCHANGED <<nativeName, applied, phone, nameVars, languageVars, exporting, started,
                 overlapped>>
\* ... and only then it is shown.
Applied(op) ==
  /\ op.kind = "saveLanguage" /\ op.step = 2 /\ Over(op)
  /\ applied' = Resolved(op.value) /\ Shown(op.value)
  /\ UNCHANGED <<nativeName, storedPreference, phone, nameVars, activeView, languageError,
                 exporting, started, overlapped>>
\* Either of the two fails: when i18n does, what is stored is not what is shown.
LanguageFails(op) ==
  /\ op.kind = "saveLanguage" /\ Over(op) /\ languageError' = TRUE
  /\ overlapped' = (overlapped \/ op.step = 2)
  /\ UNCHANGED <<nativeName, storedPreference, applied, phone, nameVars, activeView, mode,
                 language, preference, exporting, started>>
\* loadStoredLanguagePreference, of the mount; the preference is read, then shown.
LanguageLoaded(op) ==
  /\ op.kind = "loadLanguage" /\ Over(op) /\ Shown(storedPreference)
  /\ UNCHANGED <<nativeName, storedPreference, applied, phone, nameVars, activeView,
                 languageError, exporting, started, overlapped>>

\* A load fails: no name; the preference of the system.
LoadFails(op) ==
  /\ op.kind \in {"loadName", "loadLanguage"} /\ Over(op) /\ overlapped' = TRUE
  /\ IF op.kind = "loadLanguage" THEN Shown(System) ELSE UNCHANGED <<preference, language, mode>>
  /\ UNCHANGED <<nativeName, storedPreference, applied, phone, nameVars, activeView,
                 languageError, exporting, started>>

-----------------------------------------------------------------------------
(* Diagnostics. *)

\* handleExportDiagnostics, one at a time.
Export ==
  /\ InSettings /\ ~exporting /\ exporting' = TRUE /\ Begin("export", None)
  /\ UNCHANGED <<nativeName, storedPreference, applied, phone, nameVars, languageVars>>
ExportEnds(op) ==
  /\ op.kind = "export" /\ Over(op) /\ exporting' = FALSE
  /\ UNCHANGED <<nativeName, storedPreference, applied, phone, nameVars, languageVars, started,
                 overlapped>>

-----------------------------------------------------------------------------
\* The screen is mounted: i18n speaks the stored language.
SettingsInit ==
  /\ nativeName \in Names /\ storedPreference \in Preferences /\ phone \in Languages
  /\ applied = Resolved(storedPreference)
  /\ deviceName = None /\ editing = None /\ showEdit = FALSE /\ nameError = FALSE /\ saving = FALSE
  /\ activeView = "settings" /\ mode = "system" /\ language = applied /\ preference = System
  /\ languageError = FALSE /\ exporting = FALSE
  /\ ops = {[number |-> 1, kind |-> "loadName", value |-> None, step |-> 1],
            [number |-> 2, kind |-> "loadLanguage", value |-> None, step |-> 1]}
  /\ started = 2 /\ overlapped = FALSE

SettingsNext ==
  \/ OpenEdit \/ CloseEdit \/ SwitchView \/ PickManual \/ Export
  \/ \E name \in Names \cup {None} : Type(name)
  \/ \E byButton \in BOOLEAN : SaveName(byButton)
  \/ \E p \in Preferences : Choose(p)
  \/ \E op \in ops : NameSaved(op) \/ NameFails(op) \/ NameLoaded(op) \/ Stored(op) \/ Applied(op)
                     \/ LanguageFails(op) \/ LanguageLoaded(op) \/ LoadFails(op)
                     \/ ExportEnds(op)

SettingsSpec == SettingsInit /\ [][SettingsNext]_phoneSettingsVars

-----------------------------------------------------------------------------
SettingsTypeOK ==
  /\ nativeName \in Names /\ deviceName \in Names \cup {None} /\ storedPreference \in Preferences
  /\ preference \in Preferences /\ language \in Languages

\* When no call is under way, the name, the preference and the language on the screen
\* are the ones in force, whichever saves failed, unless ("overlapped") two calls about
\* one of them overlapped, the load of the name or of the language failed (the screen
\* keeps what it begins with), or i18n failed behind a save.
ShownIsInForce ==
  ops = {} /\ ~overlapped =>
    /\ deviceName = nativeName
    /\ preference = storedPreference /\ language = applied /\ applied = Resolved(storedPreference)

=============================================================================
