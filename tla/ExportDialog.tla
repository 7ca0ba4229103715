----------------------------- MODULE ExportDialog -----------------------------
(* The export of the transactions page (features/transactions/export): the tab *)
(* that is shown offers a source, the dialog chooses options, previews them    *)
(* after a while and writes a file; the options are remembered per view. The   *)
(* report may change under the open dialog, the tab may be left at any time.   *)
EXTENDS Integers, FiniteSets

CONSTANTS Formats,     \* the file formats; "pdf" is previewed through an object URL
          Codes,       \* the codes of the tax sections
          MaxLevels,   \* bound: so many levels of categories
          MaxUses,     \* bound: so many changes of options and of the report
          None

Views == {"list", "categories"}
All == 0    \* the depth "all"
Depths == 0..MaxLevels
Limits == {None} \cup SUBSET Codes
Options == [format : Formats, depth : Depths, taxSections : Limits]
Dialog == [view : Views, format : Formats, depth : Depths, taxSections : Limits, busy : BOOLEAN]

\* What the values of the constants must be.
ConstantsFit ==
    /\ "pdf" \in Formats
    /\ MaxLevels \in Nat \ {0}
    /\ MaxUses \in Nat
    /\ None \notin Nat /\ None \notin Dialog /\ \A codes \in SUBSET Codes : codes # None

VARIABLES view,        \* the tab that registered its source, or None
          levels,      \* the levels of the report (maxDepth)
          sections,    \* the tax sections there are; None while they load
          report,      \* counts the changes of the data
          dialog,      \* the choices of the open dialog, or None
          stream,      \* the preview on its way
          preview,     \* what the preview was made of, or None
          urls,        \* the object URLs not revoked
          job,         \* the file being written
          remembered,  \* the options of each view
          uses

vars == <<view, levels, sections, report, dialog, stream, preview, urls, job, remembered, uses>>

NoJob == [phase |-> "none"]

\* maxDepth and taxSections are null for the list.
maxDepth(v) == IF v = "list" THEN None ELSE levels
choices(v) == IF v = "list" THEN None ELSE sections

clampDepth(depth, max) == IF depth = All \/ max = None THEN depth
                          ELSE IF depth <= max THEN depth ELSE IF max >= 1 THEN max ELSE All
defaultOptions(v) ==
    [format |-> "pdf", depth |-> IF maxDepth(v) = None THEN All ELSE clampDepth(maxDepth(v), maxDepth(v)),
     taxSections |-> None]

\* effectiveDepth and effectiveTaxSections keep within what the view offers by now.
options ==
    LET taken == dialog.taxSections  on_offer == choices(dialog.view) IN
    [format |-> dialog.format, depth |-> clampDepth(dialog.depth, maxDepth(dialog.view)),
     taxSections |-> IF taken = None \/ on_offer = None THEN taken ELSE taken \cap on_offer]
previewInput == [options |-> options, report |-> report]

exportBlocked == \/ dialog.view # "list" /\ choices(dialog.view) = None
                 \/ options.taxSections = {}
depthSteps == 1..levels \cup {All}

TypeOK ==
    /\ view \in Views \cup {None} /\ levels \in 1..MaxLevels
    /\ sections \in Limits
    /\ dialog # None => dialog \in Dialog /\ dialog.view = view /\ options \in Options
    /\ stream.phase \in {"idle", "waiting", "rendering", "dead"}
    /\ urls \in Nat
    /\ job.phase \in {"none", "writing"}
    /\ remembered \in [Views -> Options \cup {None}]

-----------------------------------------------------------------------------

\* input: what the last flush saw; of: what is being rendered.
Idle == [phase |-> "idle", input |-> None, of |-> None, pending |-> TRUE]

Init ==
    /\ view \in Views /\ levels = MaxLevels /\ sections = None /\ report = 0
    /\ dialog = None /\ stream = Idle /\ preview = None /\ urls = 0
    /\ job = NoJob /\ remembered = [v \in Views |-> None] /\ uses = 0

Use == uses < MaxUses /\ uses' = uses + 1

\* showPreview: the URL of the preview before is revoked.
IsPdf(shown) == shown # None /\ shown.options.format = "pdf"
Live(shown) == IF IsPdf(shown) THEN 1 ELSE 0
showPreview(next) ==
    /\ preview' = next
    /\ urls' = urls - Live(preview) + Live(next)

\* A dialog that closes, on its own or from outside: its preview is dropped, its file too.
Close ==
    /\ dialog' = None /\ stream' = Idle
    /\ showPreview(None)
    /\ job' = IF job.phase = "none" THEN job ELSE [job EXCEPT !.destroyed = TRUE]

\* TransactionsExport.open: starts with what is remembered, within what there is now.
open ==
    /\ view # None /\ dialog = None
    /\ LET initial == IF remembered[view] # None THEN remembered[view] ELSE defaultOptions(view)
       IN  dialog' = [view |-> view, format |-> initial.format, taxSections |-> initial.taxSections,
                      depth |-> clampDepth(initial.depth, maxDepth(view)), busy |-> FALSE]
    /\ UNCHANGED <<view, levels, sections, report, stream, preview, urls, job, remembered, uses>>

\* Mutant: the preview on its way is not dropped (mergeMap for switchMap).
FlushKeepingRendering ==
    /\ dialog # None /\ stream.input # previewInput
    /\ remembered' = [remembered EXCEPT ![view] = options]
    /\ stream' = IF stream.phase = "rendering" THEN [stream EXCEPT !.input = previewInput]
                 ELSE IF stream.phase = "dead" THEN [stream EXCEPT !.input = previewInput]
                 ELSE [phase |-> "waiting", input |-> previewInput, of |-> None, pending |-> TRUE]
    /\ UNCHANGED <<view, levels, sections, report, dialog, preview, urls, job, uses>>

\* The effects after a change: the options are remembered, the preview starts anew and
\* drops the one on its way.
Flush ==
    /\ dialog # None /\ stream.input # previewInput
    /\ remembered' = [remembered EXCEPT ![view] = options]
    /\ stream' = IF stream.phase = "dead" THEN [stream EXCEPT !.input = previewInput]
                 ELSE [phase |-> "waiting", input |-> previewInput, of |-> None, pending |-> TRUE]
    /\ UNCHANGED <<view, levels, sections, report, dialog, preview, urls, job, uses>>

\* 300 ms later the file is generated, which takes a while for a PDF.
renderPreview ==
    /\ stream.phase = "waiting"
    /\ stream' = [stream EXCEPT !.phase = "rendering", !.of = stream.input]
    /\ UNCHANGED <<view, levels, sections, report, dialog, preview, urls, job, remembered, uses>>

Rendered ==
    /\ stream.phase = "rendering"
    /\ stream' = [stream EXCEPT !.phase = "idle", !.of = None, !.pending = FALSE]
    /\ showPreview(stream.of)
    /\ UNCHANGED <<view, levels, sections, report, dialog, job, remembered, uses>>

\* An error ends the stream: there is no preview any more, the last one stays pending.
RenderFails ==
    /\ stream.phase = "rendering"
    /\ stream' = [stream EXCEPT !.phase = "dead", !.of = None]
    /\ UNCHANGED <<view, levels, sections, report, dialog, preview, urls, job, remembered, uses>>

-----------------------------------------------------------------------------
(* The choices. *)

Choose(next) ==
    /\ dialog # None /\ Use
    /\ dialog' = next /\ dialog' # dialog
    /\ UNCHANGED <<view, levels, sections, report, stream, preview, urls, job, remembered>>

\* Stands for the paper, its orientation and the fit as well.
SetFormat(format) == dialog # None /\ Choose([dialog EXCEPT !.format = format])

onDepthInput(step) ==
    /\ dialog # None /\ dialog.view # "list" /\ step \in depthSteps
    /\ Choose([dialog EXCEPT !.depth = step])

onTaxOnlyChange(checked) ==
    /\ dialog # None /\ choices(dialog.view) # None
    /\ Choose([dialog EXCEPT !.taxSections = IF checked THEN choices(dialog.view) ELSE None])

onTaxSectionChange(code) ==
    /\ dialog # None /\ choices(dialog.view) # None /\ options.taxSections # None
    /\ code \in choices(dialog.view)
    /\ Choose([dialog EXCEPT !.taxSections =
          IF code \in options.taxSections THEN options.taxSections \ {code}
          ELSE options.taxSections \cup {code}])

-----------------------------------------------------------------------------
(* The file. *)

cancel ==
    /\ dialog # None /\ ~dialog.busy
    /\ Close
    /\ UNCHANGED <<view, levels, sections, report, remembered, uses>>

\* An older dialog's file may still be written when a new dialog asks for one; that one
\* is dropped then and plays no part any more.
download ==
    /\ dialog # None /\ ~dialog.busy /\ ~exportBlocked
    /\ dialog' = [dialog EXCEPT !.busy = TRUE]
    /\ job' = [phase |-> "writing", input |-> previewInput, destroyed |-> FALSE]
    /\ UNCHANGED <<view, levels, sections, report, stream, preview, urls, remembered, uses>>

Written ==
    /\ job.phase = "writing"
    /\ job' = NoJob
    /\ IF job.destroyed THEN UNCHANGED <<dialog, stream, preview, urls>>
       ELSE dialog' = None /\ stream' = Idle /\ showPreview(None)
    /\ UNCHANGED <<view, levels, sections, report, remembered, uses>>

WriteFails ==
    /\ job.phase = "writing"
    /\ job' = NoJob
    /\ dialog' = IF job.destroyed THEN dialog ELSE [dialog EXCEPT !.busy = FALSE]
    /\ UNCHANGED <<view, levels, sections, report, stream, preview, urls, remembered, uses>>

-----------------------------------------------------------------------------
(* The page. *)

\* The tab is left: its source goes and closes the dialog; the other registers its own.
SwitchTab ==
    /\ Use
    /\ view' \in Views \ {view}
    /\ Close
    /\ UNCHANGED <<levels, sections, report, remembered>>

\* The data change: a saved edit, a category, the period.
ChangeReport(depth) ==
    /\ Use
    /\ report' = report + 1 /\ levels' = depth
    /\ UNCHANGED <<view, sections, dialog, stream, preview, urls, job, remembered>>

LoadSections(codes) ==
    /\ sections = None /\ sections' = codes
    /\ UNCHANGED <<view, levels, report, dialog, stream, preview, urls, job, remembered, uses>>

\* Another page edits the sections and comes back.
EditSections(codes) ==
    /\ sections # None /\ dialog = None /\ Use
    /\ sections # codes /\ sections' = codes
    /\ UNCHANGED <<view, levels, report, dialog, stream, preview, urls, job, remembered>>

Next ==
    \/ open \/ Flush \/ renderPreview \/ Rendered \/ RenderFails
    \/ \E format \in Formats : SetFormat(format)
    \/ \E step \in Depths : onDepthInput(step)
    \/ \E checked \in BOOLEAN : onTaxOnlyChange(checked)
    \/ \E code \in Codes : onTaxSectionChange(code)
    \/ cancel \/ download \/ Written \/ WriteFails
    \/ SwitchTab
    \/ \E depth \in 1..MaxLevels : ChangeReport(depth)
    \/ \E codes \in SUBSET Codes : LoadSections(codes) \/ EditSections(codes)

Spec == Init /\ [][Next]_vars

-----------------------------------------------------------------------------
(* Properties. *)

\* A preview that is not marked as pending is that of the options and of the data the
\* dialog has, once its effects ran: no preview of an earlier choice arrives later.
PreviewOfChoices ==
    dialog # None /\ ~stream.pending /\ stream.input = previewInput => preview = previewInput

\* At most the shown preview holds an object URL; none is left behind by a preview that
\* was dropped or a dialog that was closed.
UrlsRevoked == urls = Live(preview) /\ (dialog = None => urls = 0)

\* The slider has a step for the depth in use, whatever levels the report lost and
\* whatever was remembered; a limit is only there with the sections (the report cannot be
\* built without them) and never names one that is gone.
ChoicesOnOffer ==
    dialog # None /\ dialog.view # "list" =>
        /\ options.depth \in depthSteps
        /\ options.taxSections # None => sections # None /\ options.taxSections \subseteq sections

\* A file is handed over as the dialog was when it was asked for, and only while that
\* dialog is open, which then closes.
HandsOver == job.phase = "writing" /\ job' = NoJob /\ ~job.destroyed /\ dialog' = None
FileOfOpenDialog ==
    [][HandsOver => dialog # None /\ dialog.busy /\ job.input.options.taxSections # {}]_job
=============================================================================
