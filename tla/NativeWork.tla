------------------------------ MODULE NativeWork ------------------------------
(***************************************************************************)
(* What tasks do in Rhino next to their tools, in one run: document        *)
(* actions, geometry transfers and Rhino launches; and saved scripts: the  *)
(* writer lock of their workspace, their runs by processes that share it,  *)
(* their quota as batches and edits fill it, and their text.  In a         *)
(* behaviour one part acts, the others rest in an initial state.           *)
(***************************************************************************)
EXTENDS Naturals, FiniteSets, Sequences

CONSTANTS Tasks, Roots, Nobody, MaxFile, MaxSaves, MaxDocumentFaults,
          Exports, Imports, MaxContent, MaxTransferFaults, Requests,
          LockProcesses, MaxAttempts, MaxLockCrashes, MaxLockFaults,
          Sharing, Filling   \* the processes, batches and bounds of two workspaces

VARIABLES part,
          task, cancelled, handoff, grant, record, authorized, step, kind, baseline, op,
          reserved, native, effect, file, openAt, loaded, saves, faults,
          source, staging, stored, artifact, manifest, exported, transfer, importOp, pc,
          answer, lease, placed, times, transferCancelled, transferFaults,
          launch, call, known, rhino, spawns, launchCancelled, launchAuthorized,
          lock, recovery, at, attempt, seen, lockFaults,
          script, edits, batch, run, left, counted, runner, observer, alive, life, scriptNative,
          retained, sends, settled, scriptFaults,
          text, patches, other, cursor, read

D == INSTANCE DocumentActions WITH MaxFaults <- MaxDocumentFaults
T == INSTANCE GeometryTransfer WITH
       MaxFaults <- MaxTransferFaults, cancelled <- transferCancelled, faults <- transferFaults
L == INSTANCE RhinoLaunch WITH
       record <- launch, cancelled <- launchCancelled, authorized <- launchAuthorized

S == INSTANCE ScriptStore WITH
       Processes <- LockProcesses, MaxCrashes <- MaxLockCrashes, MaxFaults <- MaxLockFaults,
       faults <- lockFaults
R(s) == INSTANCE RhinoScripts WITH
       Processes <- s.processes, Batches <- s.batches, MaxItems <- s.items, EditIds <- s.edits,
       Texts <- s.texts, Quota <- s.quota, Reserve <- s.reserve, MaxRevisions <- s.revisions,
       MaxVersion <- s.versions, MaxLives <- s.lives, MaxCrashes <- s.crashes,
       MaxFaults <- s.faults, MaxLeft <- s.left, native <- scriptNative, faults <- scriptFaults
X == INSTANCE ScriptText WITH NL <- "n", PageLines <- 2, PageChars <- 2

ASSUME NativeAssumption ==
    /\ D!DocumentAssumption /\ T!TransferAssumption
    /\ S!StoreAssumption /\ R(Sharing)!ScriptsAssumption /\ R(Filling)!ScriptsAssumption /\ X!TextAssumption

docVars == <<task, cancelled, handoff, grant, record, authorized, step, kind, baseline, op,
             reserved, native, effect, file, openAt, loaded, saves, faults>>
transferVars == <<source, staging, stored, artifact, manifest, exported, transfer, importOp, pc,
                  answer, lease, placed, times, transferCancelled, transferFaults>>
launchVars == <<launch, call, known, rhino, spawns, launchCancelled, launchAuthorized>>
lockVars == <<lock, recovery, at, attempt, seen, lockFaults>>
runVars == <<script, edits, batch, run, left, counted, runner, observer, alive, life, scriptNative,
             retained, sends, settled, scriptFaults>>
textVars == <<text, patches, other, cursor, read>>
scriptVars == <<lockVars, runVars, textVars>>
vars == <<part, docVars, transferVars, launchVars, scriptVars>>

(* Texts of up to four characters, all pairs of patches with up to two new *)
(* lines, all pairs of texts for a diff, and reading a text page by page.  *)
AllTexts(n) == UNION {[1..k -> {"x", "n"}] : k \in 0..n}
NewLines == {<<>>, <<<<>>>>, <<<<"y">>>>, <<<<"y">>, <<>>>>}
AllPatches ==
    {X!Insertion(after, new) : after \in 0..3, new \in NewLines}
    \cup {X!Replacement(first, last, new) : first \in 1..3, last \in 1..3, new \in NewLines}
TextInit ==
    /\ \/ part = "patch" /\ text \in AllTexts(4) /\ other = <<>>
          /\ patches \in [1..2 -> AllPatches] \cup [1..1 -> AllPatches]
       \/ part = "read" /\ text \in AllTexts(5) /\ other \in AllTexts(3) /\ patches = <<>>
       \/ part \notin {"patch", "read"} /\ text = <<>> /\ other = <<>> /\ patches = <<>>
    /\ cursor = <<1, 0>> /\ read = <<>>
ReadPage ==
    /\ cursor # <<>> /\ text # <<>> /\ other = <<>>
    /\ LET page == X!Page(X!sourceLines(text), cursor[1], cursor[2]) IN
         read' = read \o page.shown /\ cursor' = page.next
    /\ UNCHANGED <<text, patches, other>>

Init ==
    /\ part \in {"documents", "transfer", "launch", "lock", "runs", "quota", "patch", "read"}
    /\ D!Init /\ T!Init /\ L!Init /\ S!Init /\ TextInit
    /\ \/ part = "quota" /\ R(Filling)!Init
       \/ part # "quota" /\ R(Sharing)!Init
    /\ part = "documents" \/ openAt = {}
    /\ part \in {"runs", "quota"} \/ script = <<>>
DocumentStep == part = "documents" /\ UNCHANGED <<part, transferVars, launchVars, scriptVars>>
Next ==
    \/ DocumentStep /\ D!Next
    \/ part = "transfer" /\ T!Next /\ UNCHANGED <<part, docVars, launchVars, scriptVars>>
    \/ part = "launch" /\ L!Next /\ UNCHANGED <<part, docVars, transferVars, scriptVars>>
    \/ part = "lock" /\ S!Next /\ UNCHANGED <<part, docVars, transferVars, launchVars, runVars, textVars>>
    \/ part = "runs" /\ R(Sharing)!Next /\ UNCHANGED <<part, docVars, transferVars, launchVars, lockVars, textVars>>
    \/ part = "quota" /\ R(Filling)!Next /\ UNCHANGED <<part, docVars, transferVars, launchVars, lockVars, textVars>>
    \/ part = "read" /\ ReadPage /\ UNCHANGED <<part, docVars, transferVars, launchVars, lockVars, runVars>>

\* The fairness of DocumentActions.
Fairness ==
    \A t \in Tasks :
        /\ WF_docVars(part = "documents" /\ D!HostStep(t))
        /\ WF_docVars(part = "documents" /\ D!NativeStep(t))
Spec == Init /\ [][Next]_vars /\ Fairness

\* The file is reserved for as long as an operation may still write it, and a save
\* overlooks no Rhino that had it open when its task listed the others, or saved it since.
OneWriterPerFile == D!OneWriterPerFile
\* The receipt of a create/open, and that of an import, tells what happened.
ReceiptTellsEffect == D!ReceiptTellsEffect /\ T!ImportReceipt
\* A handoff comes to an end: a continuation, a cancellation or a recovery.
HandoffEnds == D!HandoffEnds
\* The destination gets the version that Rhino exported, or nothing.
ImportsWhatWasExported == T!ImportsWhatWasExported
\* A request starts one Rhino at most, and no replacement for one that may come.
NoReplacement == L!NoReplacement
\* Transactions of a workspace exclude each other, whoever dies in one.
OneWriter == S!OneWriter
\* The journal of runs tells what ran, once and in order.
RunTellsEffect == IF part = "quota" THEN R(Filling)!RunTellsEffect ELSE R(Sharing)!RunTellsEffect
\* Outcomes that are still to be recorded fit the quota.
QuotaKept == IF part = "quota" THEN R(Filling)!QuotaKept ELSE R(Sharing)!QuotaKept
\* Patches and diffs mean what their line numbers say, and pages show a text once.
TextIsRight ==
    /\ X!PatchesMeanLines(text, patches) /\ X!DiffLeadsOn(text, other)
    /\ cursor = <<>> => read = SelectSeq(text, LAMBDA c : c # "n")
=============================================================================
