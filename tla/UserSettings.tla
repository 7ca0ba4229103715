----------------------------- MODULE UserSettings -----------------------------
(* The user's settings in one browser tab: UserSettingChannel loads a setting  *)
(* once and sends its writes one after the other (core/services); the date     *)
(* presets page edits a list, a density picker one entry of a map. Behind it   *)
(* are the routes and the table hf_user_setting (routes/settings.ts,           *)
(* repositories/user-setting.ts). A behaviour is about one of the two          *)
(* settings; they share nothing.                                               *)
EXTENDS Integers, Sequences, SequencesExt

CONSTANTS Views,        \* the views that have a density
          Densities,    \* the densities but the default one
          PresetIds,    \* the ids a date preset may get
          Definitions,  \* what a preset says
          Defaults,     \* DEFAULT_DATE_PRESETS: [id, is] records
          MaxPresets,   \* DATE_PRESET_LIMITS.maxPresets
          None,
          MaxWrites,    \* bound: so many writes
          MaxFaults     \* bound: so many requests fail

Preset == [id : PresetIds, is : Definitions]
DensityMaps == UNION {[vs -> Densities] : vs \in SUBSET Views}
Editor == [id : PresetIds, isNew : BOOLEAN]

\* What the values of the constants must be.
ConstantsFit ==
    /\ Defaults \in Seq(Preset)
    /\ Len(Defaults) <= MaxPresets
    /\ {MaxPresets, MaxWrites, MaxFaults} \subseteq Nat
    /\ None \notin Seq(Preset) /\ None \notin DensityMaps
    /\ None \notin Preset /\ None \notin Editor

VARIABLES setting,      \* "presets" or "densities"
          stored,       \* the row, or None: the defaults
          past,         \* ghost: the values the server had so far
          value, loaded, loading,   \* the channel: what it shows; the load
          writes,       \* the writes that are not finished; the first one is on its way
          saveError,
          editor,       \* the preset that is edited and whether it is new, or None
          submitted,    \* the draft the page waits for, or None
          used,         \* the number of writes
          faults

channel == <<value, loaded, loading, writes, saveError>>
vars == <<setting, stored, past, channel, editor, submitted, used, faults>>

Values == IF setting = "presets" THEN Seq(Preset) ELSE DensityMaps

TypeOK ==
    /\ setting \in {"presets", "densities"}
    /\ stored = None \/ stored \in Values
    /\ value \in Values
    /\ loaded \in BOOLEAN /\ saveError \in BOOLEAN
    /\ loading.phase \in {"sent", "answered", "over"}
    /\ \A i \in DOMAIN writes : writes[i].phase \in {"queued", "sent", "reading", "done", "failed"}
    /\ editor \in Editor \cup {None}
    /\ submitted \in Preset \cup {None}
    /\ used \in 0..MaxWrites /\ faults \in 0..MaxFaults

\* getUserSetting, with the defaults of the routes.
AsRead(row) == IF row # None THEN row
               ELSE IF setting = "presets" THEN Defaults ELSE << >>
Current == AsRead(stored)
Loading(phase, answer) == [phase |-> phase, answer |-> answer]

Init ==
    /\ setting \in {"presets", "densities"}
    /\ stored \in IF setting = "presets" THEN {None}
                  ELSE {None} \cup [Views -> Densities]
    /\ past = {Current}
    /\ value = << >> /\ loaded = FALSE /\ loading = Loading("sent", << >>)
    /\ writes = << >> /\ saveError = FALSE
    /\ editor = None /\ submitted = None /\ used = 0 /\ faults = 0

saving == writes # << >>

-----------------------------------------------------------------------------
(* The channel. *)

\* The server reads the setting for the load, or the load fails.
AnswerLoad ==
    /\ loading.phase = "sent"
    /\ loading' = Loading("answered", Current)
    /\ UNCHANGED <<setting, stored, past, value, loaded, writes, saveError, editor, submitted,
                   used, faults>>
FailLoad ==
    /\ loading.phase \in {"sent", "answered"}
    /\ faults < MaxFaults /\ faults' = faults + 1
    /\ loading' = Loading("over", << >>)
    /\ UNCHANGED <<setting, stored, past, value, loaded, writes, saveError, editor, submitted, used>>

\* An answer that a write has overtaken is dropped.
ReceiveLoad ==
    /\ loading.phase = "answered"
    /\ value' = IF loaded THEN value ELSE loading.answer
    /\ loaded' = TRUE
    /\ loading' = Loading("over", << >>)
    /\ UNCHANGED <<setting, stored, past, writes, saveError, editor, submitted, used, faults>>

enqueue(write) ==
    /\ used < MaxWrites /\ used' = used + 1
    /\ writes' = Append(writes, [write EXCEPT !.phase = "queued"])

Put(list) == [kind |-> "put", value |-> list, phase |-> "queued"]
Reset == [kind |-> "reset", value |-> << >>, phase |-> "queued"]
\* A map with the density of one view set.
WithDensity(map, v, d) == [w \in DOMAIN map \cup {v} |-> IF w = v THEN d ELSE map[w]]

\* Mutant: the map is put together when the density is chosen.
MergeAtOnce(v, d) == [kind |-> "put", value |-> WithDensity(value, v, d), phase |-> "queued"]

Merge(v, d) == [kind |-> "merge", value |-> <<v, d>>, phase |-> "queued"]

\* concatMap: the first write's turn comes. A density is put into the map as it is then, and
\* refused before there is one.
First == writes[1]
At(phase) == writes # << >> /\ First.phase = phase
StartWrite ==
    /\ At("queued")
    /\ writes' = [writes EXCEPT ![1] =
          IF First.kind # "merge" THEN [@ EXCEPT !.phase = "sent"]
          ELSE IF ~loaded THEN [@ EXCEPT !.phase = "failed"]
          ELSE [kind |-> "put", value |-> WithDensity(value, @.value[1], @.value[2]), phase |-> "sent"]]
    /\ UNCHANGED <<setting, stored, past, value, loaded, loading, saveError, editor, submitted,
                   used, faults>>

\* putUserSetting, or deleteUserSetting and then the read of what applies now.
Perform ==
    /\ At("sent")
    /\ stored' = IF First.kind = "put" THEN First.value ELSE None
    /\ past' = past \cup {AsRead(stored')}
    /\ writes' = [writes EXCEPT ![1].phase = IF First.kind = "put" THEN "done" ELSE "reading"]
    /\ UNCHANGED <<setting, value, loaded, loading, saveError, editor, submitted, used, faults>>
ReadDefaults ==
    /\ At("reading")
    /\ writes' = [writes EXCEPT ![1].phase = "done", ![1].value = Current]
    /\ UNCHANGED <<setting, stored, past, value, loaded, loading, saveError, editor, submitted,
                   used, faults>>

\* A request fails, or its answer is lost.
FailWrite ==
    /\ writes # << >> /\ First.phase \in {"sent", "reading", "done"}
    /\ faults < MaxFaults /\ faults' = faults + 1
    /\ writes' = [writes EXCEPT ![1].phase = "failed"]
    /\ UNCHANGED <<setting, stored, past, value, loaded, loading, saveError, editor, submitted, used>>

\* The page closes its editor once nothing is being saved and its save was confirmed.
closeAfterSave(failed) ==
    /\ submitted' = IF Len(writes) = 1 THEN None ELSE submitted
    /\ editor' = IF Len(writes) = 1 /\ submitted # None /\ ~failed THEN None ELSE editor

Confirmed ==
    /\ At("done")
    /\ value' = First.value /\ loaded' = TRUE /\ saveError' = FALSE
    /\ writes' = Tail(writes)
    /\ closeAfterSave(FALSE)
    /\ UNCHANGED <<setting, stored, past, loading, used, faults>>
NotConfirmed ==
    /\ At("failed")
    /\ saveError' = TRUE
    /\ writes' = Tail(writes)
    /\ closeAfterSave(TRUE)
    /\ UNCHANGED <<setting, stored, past, value, loaded, loading, used, faults>>

-----------------------------------------------------------------------------
(* The date presets page. Its buttons are there once the list is loaded, and disabled
   during a save; the fields of the editor are not. *)

Buttons == setting = "presets" /\ loaded /\ ~saving
Page(write) == enqueue(write)
               /\ UNCHANGED <<setting, stored, past, value, loaded, loading, saveError, faults>>
Has(list, id) == \E i \in DOMAIN list : list[i].id = id
atLimit == Len(value) >= MaxPresets

startAdd(id) ==
    /\ Buttons /\ ~atLimit /\ ~Has(value, id) /\ ~Has(Current, id)
    /\ editor # None => ~editor.isNew
    /\ editor' = [id |-> id, isNew |-> TRUE]
    /\ UNCHANGED <<setting, stored, past, channel, submitted, used, faults>>
startEdit(i) ==
    /\ Buttons /\ i \in DOMAIN value
    /\ editor' = [id |-> value[i].id, isNew |-> FALSE]
    /\ UNCHANGED <<setting, stored, past, channel, submitted, used, faults>>
closeEditor ==
    /\ editor # None /\ editor' = None
    /\ UNCHANGED <<setting, stored, past, channel, submitted, used, faults>>

save(definition) ==
    LET draft == [id |-> editor.id, is |-> definition] IN
    /\ Buttons /\ editor # None
    /\ Page(Put(IF editor.isNew THEN Append(value, draft)
                ELSE [i \in DOMAIN value |-> IF value[i].id = draft.id THEN draft ELSE value[i]]))
    /\ submitted' = draft
    /\ UNCHANGED editor

move(i, j) ==
    /\ Buttons /\ {i, j} \subseteq DOMAIN value /\ j \in {i - 1, i + 1}
    /\ Page(Put([value EXCEPT ![i] = value[j], ![j] = value[i]]))
    /\ UNCHANGED <<editor, submitted>>

remove(i) ==
    /\ Buttons /\ i \in DOMAIN value
    /\ Page(Put(RemoveAt(value, i)))
    /\ editor' = IF editor # None /\ editor.id = value[i].id THEN None ELSE editor
    /\ UNCHANGED submitted

restoreDefaults ==
    /\ Buttons
    /\ Page(Reset)
    /\ editor' = None /\ UNCHANGED submitted

-----------------------------------------------------------------------------
(* The density picker, which is there before the map is loaded and during a save. *)

saveDensity(v, d) ==
    /\ setting = "densities"
    /\ Page(Merge(v, d))
    /\ UNCHANGED <<editor, submitted>>

Next ==
    \/ AnswerLoad \/ FailLoad \/ ReceiveLoad
    \/ StartWrite \/ Perform \/ ReadDefaults \/ FailWrite \/ Confirmed \/ NotConfirmed
    \/ \E id \in PresetIds : startAdd(id)
    \/ \E i \in 1..MaxPresets : startEdit(i) \/ remove(i) \/ \E j \in 1..MaxPresets : move(i, j)
    \/ \E d \in Definitions : save(d)
    \/ closeEditor \/ restoreDefaults
    \/ \E v \in Views, d \in Densities : saveDensity(v, d)

Spec == Init /\ [][Next]_vars

-----------------------------------------------------------------------------
(* Properties. *)

\* What the tab shows was stored at some time, never a list or a map that is only on its
\* way; and while every request succeeds, it is what is stored whenever nothing is on its
\* way (UserSettingChannel).
OnlyStoredShown ==
    loaded => /\ value \in past
              /\ faults = 0 /\ ~saving => value = Current

\* While no request has failed, saving one view's density leaves those of the others alone,
\* even if several are chosen before the first one is saved or before the map is loaded
\* (TableDensityService.save).
SetsOneDensity ==
    stored' # stored => \E v \in Views, d \in Densities : stored' = WithDensity(Current, v, d)
OtherDensitiesKept == [][setting = "densities" /\ faults = 0 => SetsOneDensity]_stored

\* The same whatever fails, as the class comment says. It is not so: after a write that took
\* place and whose answer was lost the tab still has the map before it, the next write is
\* merged into that one, and the density of the first is gone (a run shows it).
DensitiesNeverDropped == [][setting = "densities" => SetsOneDensity]_stored

\* The page's editor always fits the list, so that its save never throws: the preset that
\* is edited is there, a new one is not and has room. And the page itself closes an editor
\* only when its draft is stored; a failed save leaves it open with what was typed.
EditorFits ==
    editor # None =>
        IF editor.isNew THEN ~Has(value, editor.id) /\ ~atLimit
        ELSE Has(value, editor.id)
DraftKept ==
    [][submitted # None /\ submitted' = None /\ editor # None /\ editor' = None =>
        \E i \in DOMAIN Current : Current[i] = submitted]_<<submitted, editor>>
=============================================================================
