------------------------------ MODULE Settings ------------------------------
(***************************************************************************)
(* The preferences: internal/settings (Manager, FileStore), the service    *)
(* that offers them to the Settings surface (app/settings_service.go) and  *)
(* the publisher that shows them to the UI (desktopapp/serialized_         *)
(* publisher.go).                                                          *)
(*                                                                         *)
(* A setter copies the values under the lock, writes the whole copy to the *)
(* file by rename, makes it current, drops the lock, publishes and runs    *)
(* the service's hook.  Values are small numbers; 0 stands for what no     *)
(* setter accepts: the appearance of a file from before the application    *)
(* had one, or no selected pet.  The daemon may crash between any two      *)
(* steps and is started again from the file.                               *)
(***************************************************************************)
EXTENDS Naturals

CONSTANTS Callers, MaxSets, MaxCrashes

VARIABLES
    prefs,          \* Manager.values
    savedPrefs,     \* the settings file
    muBy,           \* the holder of Manager.mu
    importPending,  \* Manager.appearanceImportPending
    pubBy,          \* the holder of the publisher's mutex
    shown,          \* the "preferences" topic
    applied,        \* what the hooks last applied
    selected,       \* the channel the running updater follows
    calls, sets, crashes,
    lastWrite       \* the last value saved for each field

settingsVars == <<prefs, savedPrefs, muBy, importPending, pubBy, shown, applied, selected,
                  calls, sets, crashes, lastWrite>>

NoCaller == "nobody"
Hooked == {"locale", "channel", "appearance"}
Fields == Hooked \cup {"pet"}
Vals == 0..2
Values == [Fields -> Vals]
Resting == [at |-> "idle", field |-> "locale", value |-> 0, old |-> 0, copy |-> [f \in Fields |-> 1]]

SettingsTypeOK ==
    /\ prefs \in Values /\ savedPrefs \in Values /\ shown \in Values
    /\ muBy \in Callers \cup {NoCaller} /\ pubBy \in Callers \cup {NoCaller}
    /\ importPending \in BOOLEAN
    /\ applied \in [Hooked -> Vals]
    /\ selected \in Vals
    /\ \A c \in Callers : calls[c].at \in {"idle", "switching", "ready", "saved", "notify",
                                           "reading", "publishing", "hook"}
    /\ sets \in 0..MaxSets /\ crashes \in 0..MaxCrashes
    /\ lastWrite \in [Fields -> Vals]

\* FileStore.Load and New: a field the file lacks gets its default.
Load(file) == [file EXCEPT !["appearance"] = IF @ = 0 THEN 1 ELSE @]

Init ==
    /\ \E old \in {0, 1} : savedPrefs = [f \in Fields |-> IF f = "appearance" THEN old ELSE 1]
    /\ prefs = Load(savedPrefs) /\ shown = prefs
    /\ importPending = (savedPrefs["appearance"] = 0)
    /\ muBy = NoCaller /\ pubBy = NoCaller
    /\ applied = [f \in Hooked |-> prefs[f]]
    /\ selected = prefs["channel"]
    /\ calls = [c \in Callers |-> Resting]
    /\ sets = 0 /\ crashes = 0
    /\ lastWrite = savedPrefs

----------------------------------------------------------------------------
(* Setters                                                                 *)

\* normalizePetPreference: asking to show a pet (3) with none selected hides it.
Normalize(f, v) == IF f = "pet" /\ v = 3 THEN 0 ELSE v

\* A call is made; values no setter accepts are refused before anything.
Ask(c, f, v) ==
    /\ calls[c].at = "idle" /\ sets < MaxSets
    /\ sets' = sets + 1
    /\ calls' = [calls EXCEPT ![c] = [Resting EXCEPT !.at = "ready", !.field = f,
                                         !.value = v, !.copy = prefs]]
    /\ UNCHANGED <<prefs, savedPrefs, muBy, importPending, pubBy, shown, applied, selected, crashes, lastWrite>>

SetLocale(c) == \E v \in {1, 2} : Ask(c, "locale", v)
SetAppearance(c) == \E v \in {1, 2} : Ask(c, "appearance", v)
SetPetPreference(c) == \E v \in 0..3 : Ask(c, "pet", v)

\* SetUpdateChannel: the saved channel is read, the updater switches first and
\* may refuse.
AskChannel(c) ==
    /\ calls[c].at = "idle" /\ sets < MaxSets /\ muBy = NoCaller
    /\ \E v \in {1, 2} \ {prefs["channel"]} :
          calls' = [calls EXCEPT ![c] = [Resting EXCEPT !.at = "switching", !.field = "channel",
                                            !.value = v, !.old = prefs["channel"], !.copy = prefs]]
    /\ sets' = sets + 1
    /\ UNCHANGED <<prefs, savedPrefs, muBy, importPending, pubBy, shown, applied, selected, crashes, lastWrite>>

SwitchUpdater(c) ==
    /\ calls[c].at = "switching"
    /\ \/ selected' = calls[c].value /\ calls' = [calls EXCEPT ![c].at = "ready"]
       \/ calls' = [calls EXCEPT ![c] = Resting] /\ UNCHANGED selected
    /\ UNCHANGED <<prefs, savedPrefs, muBy, importPending, pubBy, shown, applied, sets, crashes, lastWrite>>

\* Under the lock the values are copied, changed and written.
SaveOf(c, base) ==
    /\ calls[c].at = "ready" /\ muBy = NoCaller
    /\ LET f == calls[c].field
           v == Normalize(f, calls[c].value)
       IN /\ muBy' = c
          /\ savedPrefs' = [base EXCEPT ![f] = v]
          /\ lastWrite' = [lastWrite EXCEPT ![f] = v]
          /\ calls' = [calls EXCEPT ![c].at = "saved"]
    /\ UNCHANGED <<prefs, importPending, pubBy, shown, applied, selected, sets, crashes>>

\* A plausible slip: the copy is taken before the lock.
SaveStale(c) == SaveOf(c, calls[c].copy)

Save(c) == SaveOf(c, prefs)

\* The write fails: nothing changes, and the updater is put back.
SaveFails(c) ==
    /\ calls[c].at = "ready" /\ muBy = NoCaller
    /\ selected' = IF calls[c].field = "channel" THEN calls[c].old ELSE selected
    /\ calls' = [calls EXCEPT ![c] = Resting]
    /\ UNCHANGED <<prefs, savedPrefs, muBy, importPending, pubBy, shown, applied, sets, crashes, lastWrite>>

\* commit: the copy is current, the lock is dropped.
Commit(c) ==
    /\ calls[c].at = "saved"
    /\ prefs' = savedPrefs
    /\ muBy' = NoCaller
    /\ importPending' = (importPending /\ calls[c].field # "appearance")
    /\ calls' = [calls EXCEPT ![c].at = "notify"]
    /\ UNCHANGED <<savedPrefs, pubBy, shown, applied, selected, sets, crashes, lastWrite>>

\* ImportAppearanceMode, once, for a file from before the application had an
\* appearance.
ImportAppearanceMode(c) ==
    /\ calls[c].at = "idle" /\ muBy = NoCaller /\ importPending /\ sets < MaxSets
    /\ sets' = sets + 1
    /\ muBy' = c
    /\ savedPrefs' = [prefs EXCEPT !["appearance"] = 2]
    /\ lastWrite' = [lastWrite EXCEPT !["appearance"] = 2]
    /\ calls' = [calls EXCEPT ![c] = [Resting EXCEPT !.at = "saved", !.field = "appearance",
                                         !.value = 2]]
    /\ UNCHANGED <<prefs, importPending, pubBy, shown, applied, selected, crashes>>

----------------------------------------------------------------------------
(* Publication, and the service's hooks                                    *)

\* A plausible slip: the source is read outside the publisher's lock.
PublishUnlocked(c) ==
    /\ calls[c].at = "notify"
    /\ calls' = [calls EXCEPT ![c].at = "reading"]
    /\ UNCHANGED <<prefs, savedPrefs, muBy, importPending, pubBy, shown, applied, selected, sets, crashes, lastWrite>>

PublishLock(c) ==
    /\ calls[c].at = "notify" /\ pubBy = NoCaller
    /\ pubBy' = c
    /\ calls' = [calls EXCEPT ![c].at = "reading"]
    /\ UNCHANGED <<prefs, savedPrefs, muBy, importPending, shown, applied, selected, sets, crashes, lastWrite>>

PublishRead(c) ==
    /\ calls[c].at = "reading" /\ muBy = NoCaller
    /\ calls' = [calls EXCEPT ![c].at = "publishing", ![c].copy = prefs]
    /\ UNCHANGED <<prefs, savedPrefs, muBy, importPending, pubBy, shown, applied, selected, sets, crashes, lastWrite>>

Publish(c) ==
    /\ calls[c].at = "publishing"
    /\ shown' = calls[c].copy
    /\ pubBy' = IF pubBy = c THEN NoCaller ELSE pubBy
    /\ calls' = [calls EXCEPT ![c].at = "hook"]
    /\ UNCHANGED <<prefs, savedPrefs, muBy, importPending, applied, selected, sets, crashes, lastWrite>>

\* The hook gets the value this call saved.
Hook(c) ==
    /\ calls[c].at = "hook"
    /\ applied' = IF calls[c].field \in Hooked
                    THEN [applied EXCEPT ![calls[c].field] = calls[c].value] ELSE applied
    /\ calls' = [calls EXCEPT ![c] = Resting]
    /\ UNCHANGED <<prefs, savedPrefs, muBy, importPending, pubBy, shown, selected, sets, crashes, lastWrite>>

\* The daemon dies and is started again.
Crash ==
    /\ crashes < MaxCrashes
    /\ crashes' = crashes + 1
    /\ prefs' = Load(savedPrefs) /\ shown' = prefs'
    /\ importPending' = (savedPrefs["appearance"] = 0)
    /\ muBy' = NoCaller /\ pubBy' = NoCaller
    /\ applied' = [f \in Hooked |-> prefs'[f]]
    /\ selected' = prefs'["channel"]
    /\ calls' = [c \in Callers |-> Resting]
    /\ UNCHANGED <<savedPrefs, sets, lastWrite>>

CallerStep(c) ==
    \/ SetLocale(c) \/ SetAppearance(c) \/ SetPetPreference(c) \/ AskChannel(c) \/ SwitchUpdater(c)
    \/ Save(c) \/ SaveFails(c) \/ Commit(c) \/ ImportAppearanceMode(c)
    \/ PublishLock(c) \/ PublishRead(c) \/ Publish(c) \/ Hook(c)

Next == (\E c \in Callers : CallerStep(c)) \/ Crash

SettingsSpec == Init /\ [][Next]_settingsVars

----------------------------------------------------------------------------
(* Properties                                                              *)

\* No setter undoes another one's field, however their calls overlap and
\* wherever the daemon dies: the file holds the last value saved for each
\* preference (settings.go:363-443, 574-622).
NoLostUpdate == \A f \in Fields :
    savedPrefs[f] = lastWrite[f] \/ (f = "appearance" /\ lastWrite[f] = 0 /\ savedPrefs[f] = 1)

\* Once every change has been announced, the UI shows the current preferences:
\* a slower notification cannot publish an older value after a newer one
\* (serialized_publisher.go:23-33).
ShownIsCurrent ==
    (\A c \in Callers : calls[c].at \notin {"notify", "reading", "publishing"}) => shown = prefs

============================================================================
