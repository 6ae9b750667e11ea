-------------------------- MODULE DocumentActions --------------------------
(***************************************************************************)
(* Document actions of tasks and the journal's receipts for them: a save   *)
(* inside a turn, and a create/open that a root task hands over to the     *)
(* host (native-runtime.ts, native-actions.ts, document-actions.ts and the *)
(* operation part of journal.ts).  Each task works in a Rhino of its own   *)
(* and all of them may write one contested file: neither a lease nor one   *)
(* event loop keeps them apart, only the journal's reservation does.  What *)
(* an action opens is not reserved: it may be the contested file, too.     *)
(* JavaScript runs to the next await in one step; Rhino executes on.       *)
(***************************************************************************)
EXTENDS Naturals, FiniteSets

CONSTANTS Tasks,      \* a root and its child, say, each bound to its own Rhino
          Roots,      \* the tasks that may create or open documents
          Nobody,     \* no reservation
          MaxFile,    \* bound: versions of the contested file
          MaxSaves,   \* bound: saves of a task
          MaxFaults   \* bound: lost answers, failing verifications, restarts

DocumentAssumption ==
    /\ Roots \subseteq Tasks /\ Nobody \notin Tasks
    /\ MaxFile \in Nat /\ MaxSaves \in Nat /\ MaxFaults \in Nat

VARIABLES task,       \* the scheduler's state of each task
          cancelled,  \* tasks with a cancellation request
          handoff,    \* the handoff of a create/open to the host
          grant,      \* its dispatch receipt
          record,     \* its document-action record
          authorized, \* roots whose new document is an authorized target
          step,       \* where the host is in the document operation
          kind,       \* a save, a create/open that saves the replaced document to the
                      \* contested file ("open"), or one that saves nothing there ("load")
          baseline,   \* the version of the file a call found, 0 once it has no use for it
          op,         \* the operation row
          reserved,   \* the owner of the file's reservation row
          native,     \* the operation in Rhino
          effect,     \* the operation has changed Rhino or the file
          file,       \* the version of the file on disk
          openAt,     \* Rhinos whose document is this file
          loaded,     \* those of them that got it by opening it, not by a save
          saves, faults
vars == <<task, cancelled, handoff, grant, record, authorized, step, kind, baseline, op,
          reserved, native, effect, file, openAt, loaded, saves, faults>>
receipts == <<handoff, grant, record, authorized>>
call == <<step, kind, baseline>>
documents == <<file, openAt, loaded>>
rhino == <<native, effect, documents>>

TypeOK ==
    /\ task \in [Tasks -> {"running", "suspending", "acting", "queued", "completed",
                           "cancelled", "uncertain", "recovered"}]
    /\ cancelled \subseteq Tasks /\ authorized \subseteq Roots
    /\ handoff \in [Tasks -> {"none", "suspending", "action_running", "completed"}]
    /\ grant \in [Tasks -> {"none", "accepted", "in_flight", "consumed"}]
    /\ record \in [Tasks -> {"none", "accepted", "dispatched", "completed", "failed",
                             "cancelled", "uncertain"}]
    /\ step \in [Tasks -> {"idle", "preflight", "inspected", "listed", "intended", "sent",
                           "verify", "ended"}]
    /\ kind \in [Tasks -> {"save", "open", "load"}] /\ baseline \in [Tasks -> 0..MaxFile]
    /\ op \in [Tasks -> {"none", "dispatched", "completed", "failed", "cancelled", "uncertain"}]
    /\ reserved \in Tasks \cup {Nobody}
    /\ native \in [Tasks -> {"none", "queued", "running", "completed", "failed",
                             "cancelled", "unknown"}]
    /\ effect \in [Tasks -> BOOLEAN] /\ file \in 0..MaxFile /\ openAt \subseteq Tasks
    /\ loaded \subseteq openAt
    /\ saves \in [Tasks -> 0..MaxSaves] /\ faults \in 0..MaxFaults

Init ==
    /\ task = [t \in Tasks |-> "running"] /\ cancelled = {}
    /\ handoff = [t \in Tasks |-> "none"] /\ grant = [t \in Tasks |-> "none"]
    /\ record = [t \in Tasks |-> "none"] /\ authorized = {}
    /\ step = [t \in Tasks |-> "idle"] /\ kind = [t \in Tasks |-> "save"]
    /\ baseline = [t \in Tasks |-> 0] /\ op = [t \in Tasks |-> "none"]
    /\ reserved = Nobody
    /\ native = [t \in Tasks |-> "none"] /\ effect = [t \in Tasks |-> FALSE]
    /\ file = 0 /\ openAt \in SUBSET Tasks
    /\ loaded = {}
    /\ saves = [t \in Tasks |-> 0] /\ faults = 0

Fault == faults < MaxFaults /\ faults' = faults + 1
Set(f, t, value) == [f EXCEPT ![t] = value]
Unresolved(t) == op[t] \in {"dispatched", "uncertain"} \/ record[t] = "uncertain"

-----------------------------------------------------------------------------
(* Turns, and the handoff of a create/open *)

\* prepareForTask and prepare: the grant and the action record.
Prepare(t) ==
    /\ t \in Roots \ cancelled /\ task[t] = "running" /\ step[t] = "idle" /\ grant[t] = "none"
    /\ grant' = Set(grant, t, "accepted") /\ record' = Set(record, t, "accepted")
    /\ UNCHANGED <<task, cancelled, handoff, authorized, call, op, reserved, rhino, saves, faults>>
BeginHandoff(t) ==
    /\ task[t] = "running" /\ step[t] = "idle" /\ handoff[t] = "none"
    /\ grant[t] = "accepted" /\ t \notin cancelled
    /\ task' = Set(task, t, "suspending") /\ handoff' = Set(handoff, t, "suspending")
    /\ UNCHANGED <<cancelled, grant, record, authorized, call, op, reserved, rhino, saves, faults>>

\* A cancelled task is not handed over, and a host that forgets to settle it
\* leaves it suspended.
TurnEnds_CancelForgotten(t) ==
    /\ task[t] \in {"running", "suspending"} /\ step[t] = "idle"
    /\ LET outcome == CASE op[t] \in {"dispatched", "uncertain"} -> "uncertain"
                        [] OTHER -> IF task[t] = "suspending"
                                    THEN IF t \in cancelled THEN "suspending" ELSE "acting"
                                    ELSE IF t \in cancelled THEN "cancelled" ELSE "completed"
       IN /\ task' = Set(task, t, outcome)
          /\ handoff' = IF outcome = "acting" THEN Set(handoff, t, "action_running") ELSE handoff
    /\ UNCHANGED <<cancelled, grant, record, authorized, call, op, reserved, rhino, saves, faults>>
\* The end of a turn: an unknown outcome before a cancellation before the
\* suspension, whose action turn takes over.
TurnEnds(t) ==
    /\ task[t] \in {"running", "suspending"} /\ step[t] = "idle"
    /\ LET outcome == CASE op[t] \in {"dispatched", "uncertain"} -> "uncertain"
                        [] OTHER -> IF t \in cancelled THEN "cancelled"
                                    ELSE IF task[t] = "suspending" THEN "acting" ELSE "completed"
       IN /\ task' = Set(task, t, outcome)
          /\ handoff' = IF outcome = "acting" THEN Set(handoff, t, "action_running") ELSE handoff
    /\ UNCHANGED <<cancelled, grant, record, authorized, call, op, reserved, rhino, saves, faults>>

\* The executor's answer: the continuation is queued with a result or a failure
\* unless the action is unresolved or the task was cancelled meanwhile.
ActionEnds(t) ==
    /\ task[t] = "acting" /\ step[t] = "ended"
    /\ LET outcome == IF Unresolved(t) THEN "uncertain"
                      ELSE IF t \in cancelled THEN "cancelled" ELSE "queued"
       IN /\ task' = Set(task, t, outcome)
          /\ handoff' = IF outcome = "queued" THEN Set(handoff, t, "completed") ELSE handoff
    /\ step' = Set(step, t, "idle")
    /\ UNCHANGED <<cancelled, grant, record, authorized, kind, baseline, op, reserved, rhino,
                   saves, faults>>
ContinuationStarts(t) ==
    /\ task[t] = "queued" /\ task' = Set(task, t, "running")
    /\ UNCHANGED <<cancelled, receipts, call, op, reserved, rhino, saves, faults>>

\* The flag and the abort signal in one step; a queued task settles with it.
Cancel(t) ==
    /\ task[t] \in {"running", "suspending", "acting", "queued"} /\ t \notin cancelled
    /\ cancelled' = cancelled \cup {t}
    /\ task' = IF task[t] = "queued" THEN Set(task, t, "cancelled") ELSE task
    /\ UNCHANGED <<receipts, call, op, reserved, rhino, saves, faults>>

-----------------------------------------------------------------------------
(* The document operation: preflight, intent, dispatch, answer, verification *)

\* A tool of the turn saves the bound document; the lease of its Rhino is free
\* unless an earlier outcome is unknown.
SaveStarts(t) ==
    /\ task[t] = "running" /\ step[t] = "idle" /\ t \notin cancelled /\ ~Unresolved(t)
    /\ saves[t] < MaxSaves /\ saves' = Set(saves, t, saves[t] + 1)
    /\ step' = Set(step, t, "preflight") /\ kind' = Set(kind, t, "save")
    /\ UNCHANGED <<task, cancelled, receipts, baseline, op, reserved, rhino, faults>>
\* execute(grantId) under withLifecycle; a cancelled task gets no lease.
ActionStarts(t) ==
    /\ task[t] = "acting" /\ step[t] = "idle"
    /\ \E granted \in {"open", "load"} : kind' = Set(kind, t, granted)
    /\ step' = Set(step, t, IF t \notin cancelled /\ grant[t] = "accepted" /\ record[t] = "accepted"
                            THEN "preflight" ELSE "ended")
    /\ UNCHANGED <<task, cancelled, receipts, baseline, op, reserved, rhino, saves, faults>>

\* A tool call that fails ends in its turn, a create/open with its handoff.
Ended(t) == IF kind[t] = "save" THEN "idle" ELSE "ended"
Fails(t) ==
    /\ step' = Set(step, t, Ended(t)) /\ baseline' = Set(baseline, t, 0)
    /\ UNCHANGED <<task, cancelled, receipts, kind, op, reserved, rhino, saves, faults>>
PreflightFails(t) == step[t] = "preflight" /\ Fails(t)

\* Without a destination there is nothing to inspect, to list or to reserve.
NothingToSave(t) ==
    /\ step[t] = "preflight" /\ kind[t] = "load" /\ step' = Set(step, t, "listed")
    /\ UNCHANGED <<task, cancelled, receipts, kind, baseline, op, reserved, rhino, saves, faults>>
\* inspectDestination, then the inventories of all other attached processes.
Inspect(t) ==
    /\ step[t] = "preflight" /\ kind[t] # "load"
    /\ baseline' = Set(baseline, t, file) /\ step' = Set(step, t, "inspected")
    /\ UNCHANGED <<task, cancelled, receipts, kind, op, reserved, rhino, saves, faults>>
\* The inspection follows.
ListOthers_Inspects(t) ==
    /\ step[t] = "inspected"
    /\ baseline' = Set(baseline, t, file) /\ step' = Set(step, t, "listed")
    /\ UNCHANGED <<task, cancelled, receipts, kind, op, reserved, rhino, saves, faults>>
ListOthers(t) ==
    /\ step[t] = "inspected" /\ openAt \subseteq {t}
    /\ step' = Set(step, t, "listed")
    /\ UNCHANGED <<task, cancelled, receipts, kind, baseline, op, reserved, rhino, saves, faults>>
OpenElsewhere(t) == step[t] = "inspected" /\ ~(openAt \subseteq {t}) /\ Fails(t)

\* One transaction: the operation, its reservation, the grant and the record, or
\* nothing of them.
Admitted(t) == t \notin cancelled /\ (kind[t] = "load" \/ reserved = Nobody)
OperationIntent(t) ==
    /\ step[t] = "listed" /\ Admitted(t)
    /\ op' = Set(op, t, "dispatched") /\ reserved' = IF kind[t] = "load" THEN reserved ELSE t
    /\ effect' = Set(effect, t, FALSE) /\ native' = Set(native, t, "none")
    /\ IF kind[t] # "save"
       THEN grant' = Set(grant, t, "in_flight") /\ record' = Set(record, t, "dispatched")
       ELSE UNCHANGED <<grant, record>>
    /\ step' = Set(step, t, "intended")
    /\ UNCHANGED <<task, cancelled, handoff, authorized, kind, baseline, documents, saves, faults>>
IntentRefused(t) == step[t] = "listed" /\ ~Admitted(t) /\ Fails(t)

\* The reservation goes with every recorded result.
Release_Always(t, outcome) == IF reserved = t THEN Nobody ELSE reserved
\* operationResult: a reservation outlives only an unknown outcome.
Release(t, outcome) == IF outcome # "uncertain" /\ reserved = t THEN Nobody ELSE reserved
OperationResult(t, outcome) ==
    op' = Set(op, t, outcome) /\ reserved' = Release(t, outcome)

\* The failure of the host is taken for a failure of the action.
Receipt_NeverUncertain(outcome) == IF outcome = "cancelled" THEN "cancelled" ELSE "failed"
\* The record of an action that ends with an error.
Receipt(outcome) == IF outcome \in {"failed", "cancelled"} THEN outcome ELSE "uncertain"
\* The catch clause of execute, or of the tool's call.
OperationFails(t, outcome) ==
    /\ OperationResult(t, outcome)
    /\ record' = IF kind[t] # "save" THEN Set(record, t, Receipt(outcome)) ELSE record
    /\ step' = Set(step, t, Ended(t))

\* A create/open reads its destination once more before it sends the operation.
Send(t) ==
    /\ step[t] = "intended"
    /\ IF kind[t] = "open" /\ baseline[t] # file
       THEN OperationFails(t, "failed") /\ UNCHANGED native
       ELSE /\ native' = Set(native, t, "queued") /\ step' = Set(step, t, "sent")
            /\ UNCHANGED <<op, reserved, record>>
    /\ UNCHANGED <<task, cancelled, handoff, grant, authorized, kind, baseline, effect, documents,
                   saves, faults>>

Outcome(t) == CASE native[t] = "unknown" -> "uncertain" [] OTHER -> native[t]
\* A save is done with its result; a create/open is verified first.
Answer(t) ==
    /\ step[t] = "sent" /\ native[t] \in {"completed", "failed", "cancelled", "unknown"}
    /\ IF native[t] = "completed"
       THEN /\ OperationResult(t, "completed") /\ UNCHANGED record
            /\ step' = Set(step, t, IF kind[t] = "save" THEN "idle" ELSE "verify")
       ELSE OperationFails(t, Outcome(t))
    /\ UNCHANGED <<task, cancelled, handoff, grant, authorized, kind, baseline, rhino, saves, faults>>
\* A timeout, a closed client, an error in the host: Rhino goes on.
AnswerLost(t) ==
    /\ Fault /\ step[t] = "sent"
    /\ OperationFails(t, "uncertain")
    /\ UNCHANGED <<task, cancelled, handoff, grant, authorized, kind, baseline, rhino, saves>>

\* completeGrantedAction: authority comes with the completed record, and never
\* to a cancelled task.
CompleteAction(t) ==
    /\ step[t] = "verify" /\ t \notin cancelled
    /\ record' = Set(record, t, "completed") /\ grant' = Set(grant, t, "consumed")
    /\ authorized' = authorized \cup {t} /\ step' = Set(step, t, "ended")
    /\ UNCHANGED <<task, cancelled, handoff, kind, baseline, op, reserved, rhino, saves, faults>>
\* The document cannot be verified, or the task may not gain authority any more.
VerifyFails(t) ==
    /\ step[t] = "verify"
    /\ IF t \in cancelled THEN UNCHANGED faults ELSE Fault
    /\ record' = Set(record, t, "uncertain") /\ step' = Set(step, t, "ended")
    /\ UNCHANGED <<task, cancelled, handoff, grant, authorized, kind, baseline, op, reserved, rhino,
                   saves>>

-----------------------------------------------------------------------------
(* Rhino, the disk, the host *)

NativeStarts(t) ==
    /\ native[t] = "queued" /\ native' = Set(native, t, "running")
    /\ UNCHANGED <<task, cancelled, receipts, call, op, reserved, effect, documents, saves, faults>>
NativeCancelled(t) ==
    /\ native[t] = "queued" /\ native' = Set(native, t, "cancelled")
    /\ baseline' = Set(baseline, t, 0)
    /\ UNCHANGED <<task, cancelled, receipts, step, kind, op, reserved, effect, documents, saves, faults>>
\* expectedDestinations: the file must still be the inspected one.  A save leaves
\* the document at the file, a create/open replaces it, unless it opens what it saved;
\* what fails after that (the document changed during the write, or cannot be
\* described) is a failure with effects.
Writes(t) ==
    /\ kind[t] # "load" /\ file = baseline[t] /\ file < MaxFile
    /\ file' = file + 1 /\ loaded' = loaded \ {t}
    /\ \/ openAt' = openAt \cup {t}
       \/ kind[t] = "open" /\ openAt' = openAt \ {t}
\* The new document is another one, or the contested file: nobody asks who has it.
Loads(t) ==
    /\ kind[t] = "load" /\ UNCHANGED file
    /\ \/ openAt' = openAt \ {t} /\ loaded' = loaded \ {t}
       \/ openAt' = openAt \cup {t} /\ loaded' = loaded \cup {t}
NativeEnds(t) ==
    /\ native[t] = "running"
    /\ \/ /\ Writes(t) \/ Loads(t)
          /\ effect' = Set(effect, t, TRUE)
          /\ \E answer \in {"completed", "failed", "unknown"} : native' = Set(native, t, answer)
       \/ /\ \E answer \in {"failed", "unknown"} : native' = Set(native, t, answer)
          /\ UNCHANGED <<effect, documents>>
    /\ baseline' = Set(baseline, t, 0)
    /\ UNCHANGED <<task, cancelled, receipts, step, kind, op, reserved, saves, faults>>
\* Another program writes the file.
ExternalWrite ==
    /\ file < MaxFile /\ file' = file + 1
    /\ UNCHANGED <<task, cancelled, receipts, call, op, reserved, native, effect, openAt, loaded, saves, faults>>

\* The host dies and restarts: journal.recover().
HostRestarts ==
    /\ Fault
    /\ task' = [t \in Tasks |-> IF task[t] \in {"running", "suspending", "acting"}
                                THEN "uncertain" ELSE task[t]]
    /\ step' = [t \in Tasks |-> "idle"]
    /\ UNCHANGED <<cancelled, receipts, kind, baseline, op, reserved, rhino, saves>>
\* SharedRecoveryService.recover: the fence keeps what is queued from running and
\* nothing runs (Attachments), so the reservations can go.
CannotRun(t) == native[t] # "running"
Recover(t) ==
    /\ task[t] = "uncertain" /\ CannotRun(t)
    /\ task' = Set(task, t, "recovered")
    /\ reserved' = IF reserved = t THEN Nobody ELSE reserved
    /\ native' = IF native[t] = "queued" THEN Set(native, t, "cancelled") ELSE native
    /\ UNCHANGED <<cancelled, receipts, call, op, effect, documents, saves, faults>>

HostStep(t) ==
    \/ TurnEnds(t) \/ ActionEnds(t) \/ ContinuationStarts(t) \/ ActionStarts(t)
    \/ NothingToSave(t) \/ Inspect(t) \/ ListOthers(t) \/ OpenElsewhere(t)
    \/ OperationIntent(t) \/ IntentRefused(t) \/ Send(t) \/ Answer(t)
    \/ CompleteAction(t) \/ VerifyFails(t)
NativeStep(t) == NativeStarts(t) \/ NativeEnds(t)

Next ==
    \/ ExternalWrite \/ HostRestarts
    \/ \E t \in Tasks :
         \/ Prepare(t) \/ BeginHandoff(t) \/ SaveStarts(t) \/ Cancel(t) \/ PreflightFails(t)
         \/ HostStep(t) \/ AnswerLost(t) \/ NativeStep(t) \/ NativeCancelled(t) \/ Recover(t)

Spec == Init /\ [][Next]_vars
\* The event loop and Rhino's UI thread go on; people and faults may stay away.
FairSpec ==
    Spec /\ \A t \in Tasks : WF_vars(HostStep(t)) /\ WF_vars(NativeStep(t))

-----------------------------------------------------------------------------
(* Properties *)

\* The file is reserved for as long as an operation may still write it, lost
\* answers, restarts and recoveries included.
WritersHoldReservation ==
    \A t \in Tasks : kind[t] # "load" /\ native[t] \in {"queued", "running"} => reserved = t

\* When Rhino writes the file, another Rhino has it open only if it opened it, after
\* the writer's task had listed the others: no save of another Rhino, and nothing
\* that was open before, is overlooked.
SavesAlone ==
    [][\A t \in Tasks : kind[t] # "load" /\ effect'[t] /\ ~effect[t] =>
           openAt \subseteq {t} \cup loaded]_vars

\* The file has one writer at a time, and no save overlooks who has it open.
OneWriterPerFile == []WritersHoldReservation /\ SavesAlone

\* The receipt of a create/open tells what happened: a completed one had its
\* effect and gave the authority for its document, a cancelled one left no trace,
\* and neither a failed one nor any of these can still change anything.
ReceiptTellsEffect ==
    \A t \in Roots :
        /\ record[t] = "completed" <=> t \in authorized
        /\ kind[t] # "save" /\ record[t] = "completed" => effect[t] /\ op[t] = "completed"
        /\ kind[t] # "save" /\ record[t] = "cancelled" => ~effect[t]
        /\ kind[t] # "save" /\ record[t] \in {"completed", "failed", "cancelled"} =>
              native[t] \notin {"queued", "running"}

\* A handoff comes to an end: a continuation, a cancellation or a recovery.
HandoffEnds ==
    \A t \in Roots : task[t] \in {"suspending", "acting"} ~> task[t] \notin {"suspending", "acting"}
=============================================================================
