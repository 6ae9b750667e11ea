--------------------------- MODULE GeometryTransfer ---------------------------
(***************************************************************************)
(* One geometry artifact: its export from a document of a task, its        *)
(* publication, and one import request (transfer.ts and the transfer part  *)
(* of native-actions.ts).  The model may repeat both requests while an     *)
(* earlier call still runs; only the journal's records keep the calls      *)
(* apart, the leases of the processes order their native parts.            *)
(***************************************************************************)
EXTENDS Naturals, FiniteSets

CONSTANTS Exports,     \* calls with the export's request id
          Imports,     \* calls with the import's request id
          MaxContent,  \* bound: versions of the selected geometry
          MaxFaults    \* bound: lost answers, disk errors, changed artifact files

Calls == Exports \cup Imports
NoCall == "none"
TransferAssumption ==
    /\ Exports \cap Imports = {} /\ NoCall \notin Calls
    /\ MaxContent \in Nat \ {0} /\ MaxFaults \in Nat

VARIABLES source,     \* the version of the selected geometry
          staging,    \* geometry.3dm in the staging directory, 0: none
          stored,     \* geometry.3dm in the artifact's directory, 0: none
          artifact,   \* the artifact's record
          manifest,   \* the version whose checksum the manifest holds
          exported,   \* the version the native export has written
          transfer,   \* the import's record
          importOp,   \* its operation row
          pc,         \* where each call is
          answer,     \* the outcome of the native import
          lease,      \* the call that works in Rhino
          placed,     \* the version the import has added to the destination
          times,      \* how often it has added objects
          cancelled,  \* the task is cancelled
          faults
vars == <<source, staging, stored, artifact, manifest, exported, transfer, importOp, pc, answer,
          lease, placed, times, cancelled, faults>>
disk == <<source, staging, stored>>
artifacts == <<artifact, manifest, exported>>
imports == <<transfer, importOp, answer, placed, times>>

States == {"none", "accepted", "dispatched", "exported", "published", "completed", "failed",
           "cancelled", "uncertain"}
TypeOK ==
    /\ source \in 1..MaxContent /\ {staging, stored, manifest, exported} \subseteq 0..MaxContent
    /\ artifact \in States /\ transfer \in States /\ importOp \in States
    /\ pc \in [Calls -> {"idle", "waiting", "leased", "native", "validate", "publish", "rename",
                         "publishing", "importing", "closing"}]
    /\ answer \in {"none", "completed", "failed", "cancelled", "uncertain"}
    /\ lease \in Calls \cup {NoCall}
    /\ placed \in 0..MaxContent /\ times \in 0..2
    /\ cancelled \in BOOLEAN /\ faults \in 0..MaxFaults

Init ==
    /\ source = 1 /\ staging = 0 /\ stored = 0
    /\ artifact = "none" /\ manifest = 0 /\ exported = 0
    /\ transfer = "none" /\ importOp = "none" /\ answer = "none" /\ placed = 0 /\ times = 0
    /\ pc = [c \in Calls |-> "idle"] /\ lease = NoCall /\ cancelled = FALSE /\ faults = 0

Fault == faults < MaxFaults /\ faults' = faults + 1
Goto(c, at) == pc' = [pc EXCEPT ![c] = at]
\* A call ends with an answer or an error; withProcess gives its lease back.
End(c) == Goto(c, "idle") /\ lease' = IF lease = c THEN NoCall ELSE lease

\* withProcess: the lease of the process, refused to a cancelled task.
TakeLease(c) ==
    /\ pc[c] = "waiting" /\ lease = NoCall
    /\ IF cancelled THEN End(c) ELSE Goto(c, "leased") /\ lease' = c
    /\ UNCHANGED <<disk, artifacts, imports, cancelled, faults>>

-----------------------------------------------------------------------------
(* Export *)

\* export: the record, and the state of the record decides.
Export(c) ==
    /\ pc[c] = "idle"
    /\ \/ /\ artifact = "none" /\ ~cancelled
          /\ artifact' = "accepted" /\ Goto(c, "waiting")
       \/ artifact = "accepted" /\ Goto(c, "waiting") /\ UNCHANGED artifact
       \/ artifact = "exported" /\ Goto(c, "publish") /\ UNCHANGED artifact
    /\ UNCHANGED <<disk, manifest, exported, imports, lease, cancelled, faults>>

\* operationIntent expects the record as accepted.
ExportIntended == artifact = "accepted"
ExportIntent(c) ==
    /\ c \in Exports /\ pc[c] = "leased"
    /\ IF ExportIntended /\ ~cancelled
       THEN artifact' = "dispatched" /\ Goto(c, "native") /\ UNCHANGED lease
       ELSE End(c) /\ UNCHANGED artifact
    /\ UNCHANGED <<disk, manifest, exported, imports, cancelled, faults>>

\* Rhino writes the staging file and answers.
NativeExport(c) ==
    /\ c \in Exports /\ pc[c] = "native" /\ staging = 0
    /\ staging' = source /\ exported' = source /\ Goto(c, "validate")
    /\ UNCHANGED <<source, stored, artifact, manifest, imports, lease, cancelled, faults>>
\* It fails, or its answer is lost, whether it wrote the file or not.
NativeExportFails(c) ==
    /\ c \in Exports /\ pc[c] = "native" /\ End(c)
    /\ \/ artifact' = "failed" /\ UNCHANGED <<staging, faults>>
       \/ artifact' = "uncertain" /\ Fault /\ staging' \in {staging, source}
    /\ UNCHANGED <<source, stored, manifest, exported, imports, cancelled>>
\* Invalid metadata leave the record dispatched for good.
Validate(c) ==
    /\ c \in Exports /\ pc[c] = "validate"
    /\ \/ artifact' = "exported" /\ manifest' = staging /\ Goto(c, "publish") /\ UNCHANGED <<lease, faults>>
       \/ Fault /\ End(c) /\ UNCHANGED <<artifact, manifest>>
    /\ UNCHANGED <<disk, exported, imports, cancelled>>

\* verify
Verified == stored # 0 /\ stored = manifest
\* publish: the directory may already be in place; otherwise write the manifest.
PublishVerify(c) ==
    /\ pc[c] = "publish"
    /\ IF Verified THEN Goto(c, "publishing") /\ UNCHANGED lease
       ELSE IF staging # 0 THEN Goto(c, "rename") /\ UNCHANGED lease ELSE End(c)
    /\ UNCHANGED <<disk, artifacts, imports, cancelled, faults>>
PublishRename(c) ==
    /\ pc[c] = "rename"
    /\ IF staging # 0 /\ stored = 0
       THEN stored' = staging /\ staging' = 0 /\ Goto(c, "publishing") /\ UNCHANGED lease
       ELSE End(c) /\ UNCHANGED <<staging, stored>>
    /\ UNCHANGED <<source, artifacts, imports, cancelled, faults>>
Publishable == Verified /\ artifact = "exported"
Publish(c) ==
    /\ pc[c] = "publishing"
    /\ artifact' = IF Publishable THEN "published" ELSE artifact
    /\ End(c)
    /\ UNCHANGED <<disk, manifest, exported, imports, cancelled, faults>>
\* Writing the manifest or renaming the directory fails.
DiskFails(c) ==
    /\ Fault /\ pc[c] \in {"publish", "rename"} /\ End(c)
    /\ UNCHANGED <<disk, artifacts, imports, cancelled>>

-----------------------------------------------------------------------------
(* Import *)

\* import: a published artifact that is intact, and the record of the request.
Import(c) ==
    /\ pc[c] = "idle" /\ artifact = "published" /\ Verified
    /\ \/ transfer = "none" /\ ~cancelled /\ transfer' = "accepted"
       \/ transfer = "accepted" /\ UNCHANGED transfer
    /\ Goto(c, "waiting")
    /\ UNCHANGED <<disk, artifacts, importOp, answer, placed, times, lease, cancelled, faults>>

\* Whoever has the lease imports.
ImportIntended_Ignored == ~cancelled
\* operationIntent expects the record as accepted.
ImportIntended == transfer = "accepted" /\ ~cancelled
\* A second look at the artifact, the settings of the document, and the intent.
ImportIntent(c) ==
    /\ c \in Imports /\ pc[c] = "leased"
    /\ \/ /\ Verified /\ ImportIntended
          /\ transfer' = "dispatched" /\ importOp' = "dispatched" /\ Goto(c, "native")
          /\ UNCHANGED lease
       \/ End(c) /\ UNCHANGED <<transfer, importOp>>
    /\ UNCHANGED <<disk, artifacts, answer, placed, times, cancelled, faults>>

\* The catch clause records what the error says, "uncertain" when it says nothing.
Receipt(outcome) == IF outcome \in {"completed", "failed", "cancelled"} THEN outcome ELSE "uncertain"
ImportEnds(c, op, record) == importOp' = op /\ transfer' = Receipt(record) /\ End(c)

\* The settings have changed, or no transaction begins.
BeginFails(c) ==
    /\ c \in Imports /\ pc[c] = "native"
    /\ \E outcome \in {"failed", "cancelled", "uncertain"} : ImportEnds(c, outcome, outcome)
    /\ UNCHANGED <<disk, artifacts, answer, placed, times, cancelled, faults>>
Begin(c) ==
    /\ c \in Imports /\ pc[c] = "native" /\ Goto(c, "importing")
    /\ UNCHANGED <<disk, artifacts, imports, lease, cancelled, faults>>

\* The host has verified the file.
NativeVerified_ByHost == stored # 0
\* Rhino compares the checksum of the bytes it reads.
NativeVerified == Verified
\* It adds all objects, or some and fails; a cancelled import has not started.
NativeImport(c) ==
    /\ pc[c] = "importing" /\ Goto(c, "closing")
    /\ \/ /\ NativeVerified /\ placed' = stored /\ times' = times + 1
          /\ answer' \in {"completed", "failed", "uncertain"}
       \/ /\ answer' \in {"failed", "cancelled", "uncertain"} /\ UNCHANGED <<placed, times>>
    /\ UNCHANGED <<disk, artifacts, transfer, importOp, lease, cancelled, faults>>
\* Commit or cancel closes the undo record, the scopes are idle, and the outcome
\* of the import is recorded.
Close(c) ==
    /\ pc[c] = "closing" /\ ImportEnds(c, answer, answer)
    /\ UNCHANGED <<disk, artifacts, answer, placed, times, cancelled, faults>>
\* A cleanup that cannot be confirmed leaves the scope and the record uncertain.
CloseFails(c) ==
    /\ Fault /\ pc[c] = "closing"
    /\ ImportEnds(c, IF answer = "completed" THEN "completed" ELSE "uncertain", "uncertain")
    /\ UNCHANGED <<disk, artifacts, answer, placed, times, cancelled>>

-----------------------------------------------------------------------------
(* People, other programs *)

Cancel ==
    /\ ~cancelled /\ cancelled' = TRUE
    /\ UNCHANGED <<disk, artifacts, imports, pc, lease, faults>>
EditSource ==
    /\ source < MaxContent /\ source' = source + 1
    /\ UNCHANGED <<staging, stored, artifacts, imports, pc, lease, cancelled, faults>>
\* Another program replaces or removes the artifact's file.
Tamper ==
    /\ Fault /\ stored # 0 /\ stored' \in 0..MaxContent \ {stored}
    /\ UNCHANGED <<source, staging, artifacts, imports, pc, lease, cancelled>>

Next ==
    \/ Cancel \/ EditSource \/ Tamper
    \/ \E c \in Exports :
         \/ Export(c) \/ ExportIntent(c) \/ NativeExport(c) \/ NativeExportFails(c) \/ Validate(c)
         \/ PublishVerify(c) \/ PublishRename(c) \/ Publish(c) \/ DiskFails(c)
    \/ \E c \in Imports :
         \/ Import(c) \/ ImportIntent(c) \/ BeginFails(c) \/ Begin(c) \/ NativeImport(c)
         \/ Close(c) \/ CloseFails(c)
    \/ \E c \in Calls : TakeLease(c)

Spec == Init /\ [][Next]_vars

-----------------------------------------------------------------------------
(* Properties *)

\* Whatever another program does to the artifact's file between the checks, and
\* however often the export is repeated, the destination gets the version that
\* Rhino exported, or nothing.
ImportsWhatWasExported ==
    /\ placed \in {0, exported}
    /\ artifact = "published" => manifest = exported

\* A request imports once at most, and its receipt never promises more or less
\* than Rhino did: completed means once, cancelled means not at all, and a
\* completed operation row outlives the failure of its cleanup.
ImportReceipt ==
    /\ times <= 1
    /\ transfer = "completed" => times = 1 /\ importOp = "completed"
    /\ transfer = "cancelled" => times = 0
    /\ importOp = "completed" => times = 1
=============================================================================
