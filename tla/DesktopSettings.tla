--------------------------- MODULE DesktopSettings ---------------------------
(***************************************************************************)
(* The settings page of the desktop window (SettingsPage.tsx) with what it *)
(* asks of the main process: the power saver's preference                  *)
(* (power-save-settings-controller.ts) and the export of diagnostics, and  *)
(* its lists and forms: the language, the feedback, the diagnostics.       *)
(*                                                                         *)
(* The main process serves one call of the page after the other, and the   *)
(* answers come in that order; a page that was left hears none of them.    *)
(* What an export does is in MainServices, the switch for received files   *)
(* in DesktopWindow.  Electron, the file system and i18next are external;  *)
(* labels and notices are left out.                                        *)
(***************************************************************************)
EXTENDS Naturals, Sequences, FiniteSets

CONSTANTS
  Locales,      \* SUPPORTED_LOCALES
  Searches,     \* the sets of languages that something typed finds
  Texts,        \* what may be typed as a description
  None,         \* nothing, or nothing typed
  MaxCalls,     \* power calls and answers under way at once
  MaxExports    \* exports under way at once

DesktopSettingsAssumption ==
  /\ Locales # {} /\ Searches \subseteq SUBSET Locales /\ Locales \in Searches
  /\ None \notin Texts \cup BOOLEAN /\ MaxCalls \in Nat \ {0} /\ MaxExports \in Nat

VARIABLES
  preference,   \* the main process: file and PowerSaveManager.enabled
  calls,        \* power calls on their way: [kind, arg, live]
  answers,      \* ... and their answers, [kind, arg, live, got]: None for an error
  shown,        \* the page is on the screen
  powerState, powerLoading,
  persisted, locale,              \* localStorage, i18n.resolvedLanguage
  languageOpen, languageSearch,   \* the languages that are found
  feedbackOpen, feedbackText,
  exports,      \* exportDiagnostics under way: [text, live]
  dialogOpen, description, exporting

powerVars == <<preference, calls, answers, powerState, powerLoading>>
languageVars == <<persisted, locale, languageOpen, languageSearch>>
feedbackVars == <<feedbackOpen, feedbackText>>
exportVars == <<exports, dialogOpen, description, exporting>>
vars == <<powerVars, languageVars, feedbackVars, exportVars, shown>>

-----------------------------------------------------------------------------
(* The page is mounted and left. *)

Call(kind, arg) == [kind |-> kind, arg |-> arg, live |-> TRUE]
Send(kind, arg) == /\ Len(calls) + Len(answers) < MaxCalls
                   /\ calls' = Append(calls, Call(kind, arg))

\* refreshPowerState is asked for at once.
Mount ==
  /\ ~shown /\ shown' = TRUE
  /\ Send("first", None)
  /\ UNCHANGED <<preference, answers, powerState, powerLoading, languageVars, feedbackVars,
                 exportVars>>

\* The state of a page that is left is gone.
Orphaned(seq) == [i \in DOMAIN seq |-> [seq[i] EXCEPT !.live = FALSE]]
Unmount ==
  /\ shown /\ ~dialogOpen /\ shown' = FALSE
  /\ powerState' = None /\ powerLoading' = TRUE
  /\ languageOpen' = FALSE /\ languageSearch' = Locales
  /\ feedbackOpen' = FALSE /\ feedbackText' = None
  /\ description' = None /\ exporting' = FALSE
  /\ calls' = Orphaned(calls) /\ answers' = Orphaned(answers)
  /\ exports' = {[e EXCEPT !.live = FALSE] : e \in exports}
  /\ UNCHANGED <<preference, persisted, locale, dialogOpen>>

\* The modal dialog covers the page.
Free == shown /\ ~dialogOpen

-----------------------------------------------------------------------------
(* The power saver. *)

\* transfer.active.changed
TransferEvent ==
  /\ shown /\ Send("refresh", None)
  /\ UNCHANGED <<preference, answers, powerState, powerLoading, languageVars, feedbackVars,
                 exportVars, shown>>

\* togglePreventSleep: what is off before it is known is switched on.
Standby == powerState = TRUE
TogglePreventSleep ==
  /\ Free /\ ~powerLoading /\ Send("set", ~Standby)
  /\ UNCHANGED <<preference, answers, powerState, powerLoading, languageVars, feedbackVars,
                 exportVars, shown>>

Answer(got) == /\ calls' = Tail(calls)
               /\ answers' = Append(answers, [kind |-> Head(calls).kind, arg |-> Head(calls).arg,
                                              live |-> Head(calls).live, got |-> got])
GetState ==
  /\ calls # <<>> /\ Head(calls).kind # "set" /\ Answer(preference)
  /\ UNCHANGED <<preference, powerState, powerLoading, languageVars, feedbackVars, exportVars,
                 shown>>

\* setPreventSleepDuringTransfer: the file first; a failing write leaves all as it is.
SetPreventSleep ==
  /\ calls # <<>> /\ Head(calls).kind = "set"
  /\ \/ preference' = Head(calls).arg /\ Answer(preference')
     \/ UNCHANGED preference /\ Answer(None)
  /\ UNCHANGED <<powerState, powerLoading, languageVars, feedbackVars, exportVars, shown>>

StateAfter(a) == IF a.got = None THEN powerState ELSE a.got
PowerAnswer ==
  /\ answers # <<>> /\ answers' = Tail(answers)
  /\ IF Head(answers).live
     THEN /\ powerState' = StateAfter(Head(answers))
          /\ powerLoading' = (powerLoading /\ Head(answers).kind # "first")
     ELSE UNCHANGED <<powerState, powerLoading>>
  /\ UNCHANGED <<preference, calls, languageVars, feedbackVars, exportVars, shown>>

-----------------------------------------------------------------------------
(* The language. *)

ToggleLanguages ==
  /\ Free /\ languageOpen' = ~languageOpen
  /\ UNCHANGED <<powerVars, persisted, locale, languageSearch, feedbackVars, exportVars, shown>>
SearchLanguage ==
  /\ Free /\ languageOpen /\ languageSearch' \in Searches
  /\ UNCHANGED <<powerVars, persisted, locale, languageOpen, feedbackVars, exportVars, shown>>
HandleLanguageChange(l) ==
  /\ Free /\ languageOpen /\ l \in languageSearch
  /\ persisted' = l /\ locale' = l
  /\ languageOpen' = FALSE /\ languageSearch' = Locales
  /\ UNCHANGED <<powerVars, feedbackVars, exportVars, shown>>

-----------------------------------------------------------------------------
(* Feedback: sent by another program, which opens with what was typed. *)

ToggleFeedback ==
  /\ Free /\ feedbackOpen' = ~feedbackOpen
  /\ UNCHANGED <<powerVars, languageVars, feedbackText, exportVars, shown>>
TypeFeedback ==
  /\ Free /\ feedbackOpen
  /\ feedbackText' \in Texts \cup {None}
  /\ UNCHANGED <<powerVars, languageVars, feedbackOpen, exportVars, shown>>
HandleSendFeedback ==
  /\ Free /\ feedbackOpen /\ feedbackText # None
  /\ feedbackText' = None /\ feedbackOpen' = FALSE
  /\ UNCHANGED <<powerVars, languageVars, exportVars, shown>>

-----------------------------------------------------------------------------
(* The diagnostics' dialog. *)

OpenDialog ==
  /\ Free /\ ~exporting /\ dialogOpen' = TRUE
  /\ UNCHANGED <<powerVars, languageVars, feedbackVars, exports, description, exporting, shown>>
TypeDescription ==
  /\ dialogOpen /\ ~exporting /\ description' \in Texts \cup {None}
  /\ UNCHANGED <<powerVars, languageVars, feedbackVars, exports, dialogOpen, exporting, shown>>

\* The button, and the dialog's own ways to be closed, which no export disables.
CancelDialog ==
  /\ dialogOpen /\ ~exporting /\ dialogOpen' = FALSE /\ description' = None
  /\ UNCHANGED <<powerVars, languageVars, feedbackVars, exports, exporting, shown>>
DismissDialog ==
  /\ dialogOpen /\ dialogOpen' = FALSE
  /\ UNCHANGED <<powerVars, languageVars, feedbackVars, exports, description, exporting, shown>>

HandleExportDiagnostics ==
  /\ dialogOpen /\ ~exporting /\ Cardinality(exports) < MaxExports
  /\ exporting' = TRUE /\ exports' = exports \cup {[text |-> description, live |-> TRUE]}
  /\ UNCHANGED <<powerVars, languageVars, feedbackVars, dialogOpen, description, shown>>

\* A place was chosen and the archive is there; or the system's dialog was cancelled, or it
\* failed.
Exported(e) ==
  /\ e \in exports /\ exports' = exports \ {e}
  /\ IF e.live THEN dialogOpen' = FALSE /\ description' = None /\ exporting' = FALSE
               ELSE UNCHANGED <<dialogOpen, description, exporting>>
  /\ UNCHANGED <<powerVars, languageVars, feedbackVars, shown>>
NotExported(e) ==
  /\ e \in exports /\ exports' = exports \ {e}
  /\ exporting' = (exporting /\ ~e.live)
  /\ UNCHANGED <<powerVars, languageVars, feedbackVars, dialogOpen, description, shown>>

-----------------------------------------------------------------------------
Init ==
  /\ preference \in BOOLEAN /\ calls = <<>> /\ answers = <<>> /\ exports = {}
  /\ persisted \in Locales \cup {None} /\ locale \in Locales
  /\ persisted # None => locale = persisted
  /\ shown = FALSE /\ powerState = None /\ powerLoading = TRUE
  /\ languageOpen = FALSE /\ languageSearch = Locales
  /\ feedbackOpen = FALSE /\ feedbackText = None
  /\ dialogOpen = FALSE /\ description = None /\ exporting = FALSE

Next ==
  \/ Mount \/ Unmount \/ TransferEvent \/ TogglePreventSleep \/ GetState \/ SetPreventSleep
  \/ PowerAnswer \/ ToggleLanguages \/ SearchLanguage \/ ToggleFeedback \/ TypeFeedback
  \/ HandleSendFeedback \/ OpenDialog \/ TypeDescription \/ CancelDialog \/ DismissDialog
  \/ HandleExportDiagnostics
  \/ \E l \in Locales : HandleLanguageChange(l)
  \/ \E e \in exports : Exported(e) \/ NotExported(e)

Spec == Init /\ [][Next]_vars

-----------------------------------------------------------------------------
TypeOK ==
  /\ preference \in BOOLEAN /\ powerState \in BOOLEAN \cup {None}
  /\ Len(calls) + Len(answers) <= MaxCalls
  /\ persisted \in Locales \cup {None} /\ locale \in Locales /\ languageSearch \in Searches
  /\ feedbackText \in Texts \cup {None} /\ description \in Texts \cup {None}
  /\ exports \subseteq [text : Texts \cup {None}, live : BOOLEAN]

=============================================================================
