-------------------------------- MODULE Screens --------------------------------
(* What one browser tab keeps and shows: the state of the syncs, the user's    *)
(* settings, the tables with their selection and their trees, the report by    *)
(* category and its export. They share nothing, so a behaviour is about one of *)
(* them; checking them in one run keeps their instances together.              *)
EXTENDS Integers, FiniteSets

CONSTANTS MaxRuns, MaxChanges, MaxInFlight, MaxPollers,        \* SyncStatus
          DensityViews, Densities, PresetIds, Definitions,     \* UserSettings
          Defaults, MaxPresets, MaxWrites, MaxFaults,
          RowIds, Selectable, Key, Parent, Filters,            \* DataTable
          TreeAmount, DefaultsExpanded,                        \* TreeTable
          Ids, Stored, Txns, TxnAmount, Account, Drafts,       \* CategoryReport
          MaxSaves,
          Formats, MaxLevels, MaxUses,                         \* ExportDialog
          Codes, None

VARIABLES part,
          server, requests, status, polling, timer, awaited, tanDialog, seen,
          setting, stored, past, value, loaded, loading, writes, saveError, editor,
          submitted, used, faults,
          tree, bound, rendered, typed, filtered, order, selected, anchor, dirty, menu, kept,
          rows, options, nodes, chosen,
          cats, assigned, listed, saves,
          view, levels, sections, report, dialog, stream, preview, urls, job, remembered, uses

S == INSTANCE SyncStatus WITH shown <- status, dialog <- tanDialog
U == INSTANCE UserSettings WITH Views <- DensityViews
D == INSTANCE DataTable
T == INSTANCE TreeTable WITH Amount <- TreeAmount
R == INSTANCE CategoryReport WITH Amount <- TxnAmount, First <- Stored,
        stored <- assigned, shown <- listed
X == INSTANCE ExportDialog

ASSUME PartsFit == S!ConstantsFit /\ U!ConstantsFit /\ D!ConstantsFit
                   /\ T!ConstantsFit /\ R!ConstantsFit /\ X!ConstantsFit

syncVars == <<server, requests, status, polling, timer, awaited, tanDialog, seen>>
settingVars == <<setting, stored, past, value, loaded, loading, writes, saveError, editor,
                 submitted, used, faults>>
tableVars == <<tree, bound, rendered, typed, filtered, order, selected, anchor, dirty, menu, kept>>
treeVars == <<rows, options, nodes, chosen>>
reportVars == <<cats, assigned, listed, saves>>
exportVars == <<view, levels, sections, report, dialog, stream, preview, urls, job,
                remembered, uses>>
vars == <<part, syncVars, settingVars, tableVars, treeVars, reportVars, exportVars>>

-----------------------------------------------------------------------------
(* A part that is not the behaviour's own stays at one value. *)

NoSync == /\ server = None /\ requests = None /\ status = None /\ polling = None
          /\ timer = None /\ awaited = None /\ tanDialog = None /\ seen = None
NoSetting == /\ setting = None /\ stored = None /\ past = None /\ value = None /\ loaded = None
             /\ loading = None /\ writes = None /\ saveError = None /\ editor = None
             /\ submitted = None /\ used = None /\ faults = None
NoTable == /\ tree = None /\ bound = None /\ rendered = None /\ typed = None /\ filtered = None
           /\ order = None /\ selected = None /\ anchor = None /\ dirty = None
           /\ menu = None /\ kept = None
NoTree == rows = None /\ options = None /\ nodes = None /\ chosen = None
NoReport == cats = << >> /\ assigned = None /\ listed = None /\ saves = MaxSaves
NoExport == /\ view = None /\ levels = None /\ sections = None /\ report = None
            /\ dialog = None /\ stream = None /\ preview = None /\ urls = None
            /\ job = X!NoJob /\ remembered = None /\ uses = None

Init ==
    \/ /\ part = "sync" /\ NoSetting /\ NoTable /\ NoTree /\ NoReport /\ NoExport
       /\ S!Init
    \/ /\ part = "settings" /\ NoSync /\ NoTable /\ NoTree /\ NoReport /\ NoExport
       /\ U!Init
    \/ /\ part = "table" /\ NoSync /\ NoSetting /\ NoTree /\ NoReport /\ NoExport
       /\ D!Init
    \/ /\ part = "tree" /\ NoSync /\ NoSetting /\ NoTable /\ NoReport /\ NoExport
       /\ T!Init
    \/ /\ part = "report" /\ NoSync /\ NoSetting /\ NoTable /\ NoTree /\ NoExport
       /\ R!Init
    \/ /\ part = "export" /\ NoSync /\ NoSetting /\ NoTable /\ NoTree /\ NoReport
       /\ X!Init

Next ==
    /\ UNCHANGED part
    /\ \/ /\ part = "sync" /\ S!Next
          /\ UNCHANGED <<settingVars, tableVars, treeVars, reportVars, exportVars>>
       \/ /\ part = "settings" /\ U!Next
          /\ UNCHANGED <<syncVars, tableVars, treeVars, reportVars, exportVars>>
       \/ /\ part = "table" /\ D!Next
          /\ UNCHANGED <<syncVars, settingVars, treeVars, reportVars, exportVars>>
       \/ /\ part = "tree" /\ T!Next
          /\ UNCHANGED <<syncVars, settingVars, tableVars, reportVars, exportVars>>
       \/ /\ part = "report" /\ R!Next
          /\ UNCHANGED <<syncVars, settingVars, tableVars, treeVars, exportVars>>
       \/ /\ part = "export" /\ X!Next
          /\ UNCHANGED <<syncVars, settingVars, tableVars, treeVars, reportVars>>

Spec == Init /\ [][Next]_vars

-----------------------------------------------------------------------------
(* Properties, each that of one part or of several. *)

\* Each part's variables have their types.
TypeOK ==
    CASE part = "sync" -> S!TypeOK
      [] part = "settings" -> U!TypeOK
      [] part = "table" -> D!TypeOK
      [] part = "tree" -> T!TypeOK
      [] part = "report" -> R!TypeOK
      [] part = "export" -> X!TypeOK

\* The sync state a tab shows is never older than the newest request that was answered,
\* and while a component polls the next poll is scheduled or on its way; the presets and
\* densities it shows were stored, and an editor fits the list it edits (SyncStatusStore,
\* UserSettingChannel, DatePresetsComponent).
ShownFits ==
    /\ part = "sync" => S!StatusFresh /\ S!PollingGoesOn
    /\ part = "settings" => U!OnlyStoredShown /\ U!EditorFits

\* No row stays selected out of sight, a menu acts on what is seen to be selected, rows
\* without a value come last; a table's tree keeps what the user expanded
\* (DataTableComponent, toTreeNodes).
TablesSound ==
    /\ part = "table" => D!NothingHiddenStaysSelected /\ D!BulkActsOnSelection /\ D!EmptiesLast
    /\ part = "tree" => T!ExpansionKept

\* A tree refuses cycles and nothing else, and sums every leaf once; the sums of the report
\* and the selection of a tax export are those of the transactions assigned to the
\* categories (build-tree.ts, data-table-tree.ts, category-matching.ts, category-report.ts,
\* tax-sections.ts).
ReportFits ==
    /\ part = "tree" => T!OnlyCyclesRefused /\ T!SumsFit
    /\ part = "report" => R!ReportSumsFit /\ R!TaxExportFits

\* The export dialog's preview is of its choices, its choices are on offer and no object
\* URL outlives its preview (ExportDialogComponent).
ExportSound ==
    part = "export" => X!PreviewOfChoices /\ X!UrlsRevoked /\ X!ChoicesOnOffer

\* What the user has begun survives what happens meanwhile: a TAN dialog that was opened
\* after the status had been read stays while its challenge is open, an editor until its
\* draft is stored, a density chosen for one view while another is saved, as long as no
\* request fails, and a file is handed over only by the dialog that asked for it (awaitRun
\* and tanViewOf, DatePresetsComponent, TableDensityService, ExportDialogComponent's
\* destroyed check).
NothingLost ==
    S!TanDialogStays /\ U!DraftKept /\ U!OtherDensitiesKept /\ X!FileOfOpenDialog

\* A category dialog's preview says what the report shows once the draft is saved.
PreviewFits == R!PreviewFits
=============================================================================
