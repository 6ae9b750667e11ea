---------------------------- MODULE BoundDocuments ----------------------------
(***************************************************************************)
(* The documents a tool works in.  A task's binding captured a Rhino       *)
(* document, a Grasshopper document or both; before each of its tools the  *)
(* host makes them the active ones (native-runtime.ts, activateBinding),   *)
(* and Rhino lets an edit pass only while they are (DocumentContracts.cs). *)
(* The tasks share one Rhino and take turns by its lease.  Meanwhile a     *)
(* person switches documents, edits them or associates a definition with   *)
(* another model; answers get lost and the host dies.                      *)
(***************************************************************************)
EXTENDS Naturals

CONSTANTS Tasks, Models, Definitions, None,
          Binding,    \* the document of each kind that a task captured, or None
          MaxTools, MaxActs, MaxFaults

Kinds == {"rhino", "grasshopper"}
Documents == Models \cup Definitions
BindingAssumption ==
    /\ Binding \in [Tasks -> [rhino : Models \cup {None}, grasshopper : Definitions \cup {None}]]
    /\ \A t \in Tasks : Binding[t].rhino # None \/ Binding[t].grasshopper # None
    /\ None \notin Documents \cup Tasks
    /\ MaxTools \in Nat /\ MaxActs \in Nat /\ MaxFaults \in Nat

VARIABLES lease,       \* the task that holds the Rhino process
          at,          \* where a task's tool is
          target,      \* the kind of document it brings forward
          seen,        \* what the inventory said before that
          op,          \* the journal's record of the activation
          request,     \* the activation in Rhino, and its answer
          switched,    \* it took effect
          active,      \* the active document of each kind
          association, \* the model of each definition
          version,     \* the state token of each document
          tools, acts, faults
vars == <<lease, at, target, seen, op, request, switched, active, association, version, tools, acts, faults>>
host == <<lease, at, target, seen, op, tools>>
documents == <<active, association, version>>

TypeOK ==
    /\ lease \in Tasks \cup {None}
    /\ at \in [Tasks -> {"idle", "list", "listed", "intended", "sent", "verify", "work", "over"}]
    /\ target \in [Tasks -> Kinds]
    /\ seen \in [Tasks -> [active : Documents, version : 0..MaxActs]]
    /\ op \in [Tasks -> {"none", "dispatched", "completed", "failed", "cancelled", "uncertain"}]
    /\ request \in [Tasks -> {"none", "queued", "completed", "failed", "cancelled", "uncertain"}]
    /\ switched \in [Tasks -> BOOLEAN] /\ active \in [Kinds -> Documents]
    /\ association \in [Definitions -> Models \cup {None}] /\ version \in [Documents -> 0..MaxActs]
    /\ tools \in [Tasks -> 0..MaxTools] /\ acts \in 0..MaxActs /\ faults \in 0..MaxFaults

Init ==
    /\ lease = None /\ at = [t \in Tasks |-> "idle"] /\ target = [t \in Tasks |-> "rhino"]
    /\ active \in [rhino : Models, grasshopper : Definitions]
    /\ seen = [t \in Tasks |-> [active |-> active["rhino"], version |-> 0]]
    /\ op = [t \in Tasks |-> "none"] /\ request = [t \in Tasks |-> "none"]
    /\ switched = [t \in Tasks |-> FALSE]
    /\ \E m \in Models : association = [d \in Definitions |-> m]
    /\ \A t \in Tasks : Binding[t].grasshopper # None => association[Binding[t].grasshopper] = Binding[t].rhino
    /\ version = [d \in Documents |-> 0]
    /\ tools = [t \in Tasks |-> 0] /\ acts = 0 /\ faults = 0

Set(f, t, value) == f' = [f EXCEPT ![t] = value]
Fault == faults < MaxFaults /\ faults' = faults + 1
Wanted(t) == Binding[t][target[t]]

-----------------------------------------------------------------------------
(* The host: activateBinding, under the lease of a tool. *)
ToolStarts(t) ==
    /\ lease = None /\ at[t] = "idle" /\ tools[t] < MaxTools
    /\ lease' = t /\ Set(at, t, "list") /\ Set(tools, t, tools[t] + 1)
    /\ Set(target, t, IF Binding[t].rhino # None THEN "rhino" ELSE "grasshopper")
    /\ UNCHANGED <<seen, op, request, switched, documents, acts, faults>>

\* This target is done; the definition follows its model.
NextTarget(t) ==
    IF target[t] = "rhino" /\ Binding[t].grasshopper # None
    THEN Set(target, t, "grasshopper") /\ Set(at, t, "list")
    ELSE Set(at, t, "work") /\ UNCHANGED target

List(t) ==
    /\ at[t] = "list"
    /\ IF active[target[t]] = Wanted(t) THEN NextTarget(t) /\ UNCHANGED seen
       ELSE /\ Set(at, t, "listed") /\ UNCHANGED target
            /\ Set(seen, t, [active |-> active[target[t]], version |-> version[Wanted(t)]])
    /\ UNCHANGED <<lease, op, request, switched, documents, tools, acts, faults>>

\* The lease is free although the outcome is unknown.
ToolEnds_Frees(t, outcome) ==
    /\ Set(at, t, "idle")
    /\ lease' = IF outcome = "dispatched" THEN lease ELSE None
\* withProcessLease: an operation whose outcome is unknown keeps the lease.
ToolEnds(t, outcome) ==
    /\ Set(at, t, "idle")
    /\ lease' = IF outcome \in {"dispatched", "uncertain"} THEN lease ELSE None

\* The target is gone, a scope is open, the task is cancelled: nothing was recorded.
GiveUp(t) ==
    /\ at[t] \in {"list", "listed"} /\ ToolEnds(t, "none")
    /\ UNCHANGED <<target, seen, op, request, switched, documents, tools, acts, faults>>

OperationIntent(t) ==
    /\ at[t] = "listed" /\ Set(at, t, "intended") /\ Set(op, t, "dispatched")
    /\ Set(request, t, "none") /\ Set(switched, t, FALSE)
    /\ UNCHANGED <<lease, target, seen, documents, tools, acts, faults>>
Send(t) ==
    /\ at[t] = "intended" /\ Set(at, t, "sent") /\ Set(request, t, "queued")
    /\ UNCHANGED <<lease, target, seen, op, switched, documents, tools, acts, faults>>

Fails(t, outcome) == Set(op, t, outcome) /\ ToolEnds(t, outcome)
\* ToolPolicyDenied: the tool was withdrawn before its activation was sent.
Denied(t) ==
    /\ at[t] = "intended" /\ Fails(t, "failed")
    /\ UNCHANGED <<target, seen, request, switched, documents, tools, acts, faults>>
\* An answer that is not a success is recorded as it is; a success is verified first.
Answer(t) ==
    /\ at[t] = "sent" /\ request[t] \notin {"none", "queued"}
    /\ IF request[t] = "completed" THEN Set(at, t, "verify") /\ UNCHANGED <<lease, op>>
       ELSE Fails(t, request[t])
    /\ UNCHANGED <<target, seen, request, switched, documents, tools, acts, faults>>

\* The catch clause: the call or the second inventory failed.
AnswerLost(t) ==
    /\ Fault /\ at[t] \in {"sent", "verify"} /\ Fails(t, "uncertain")
    /\ UNCHANGED <<target, seen, request, switched, documents, tools, acts>>

\* The second inventory: the target is active, and the definition has its model.
Retained(t) ==
    /\ active[target[t]] = Wanted(t)
    /\ target[t] = "grasshopper" => association[Wanted(t)] = Binding[t].rhino
Verify(t) ==
    /\ at[t] = "verify"
    /\ IF Retained(t) THEN Set(op, t, "completed") /\ NextTarget(t) /\ UNCHANGED lease
       ELSE Fails(t, "uncertain") /\ UNCHANGED target
    /\ UNCHANGED <<seen, request, switched, documents, tools, acts, faults>>

\* The tool's own edits, which may end at any time.
WorkEnds(t) ==
    /\ at[t] = "work" /\ ToolEnds(t, "none")
    /\ UNCHANGED <<target, seen, op, request, switched, documents, tools, acts, faults>>

-----------------------------------------------------------------------------
(* Rhino's UI thread: ValidateSharedBinding, then DocumentService.Manage. *)

\* An activation is checked for the association only, every other request of the
\* binding for the active documents.
ValidActivation(t) ==
    Binding[t].grasshopper # None => association[Binding[t].grasshopper] = Binding[t].rhino
InPlace(t) ==
    /\ Binding[t].grasshopper # None =>
         active["grasshopper"] = Binding[t].grasshopper /\ ValidActivation(t)
    /\ Binding[t].rhino # None => active["rhino"] = Binding[t].rhino

\* expectedActiveDocument and expectedStateToken.
AsSeen(t) == seen[t] = [active |-> active[target[t]], version |-> version[Wanted(t)]]

\* The activation ends with its answer, before its effect, in it or after it.
Activate(t, answer, takesEffect) ==
    /\ takesEffect => ValidActivation(t) /\ AsSeen(t)
    /\ Set(request, t, answer) /\ Set(switched, t, takesEffect)
    /\ active' = IF takesEffect THEN [active EXCEPT ![target[t]] = Wanted(t)] ELSE active
Manage(t) ==
    /\ request[t] = "queued"
    /\ \/ Activate(t, "completed", TRUE)
       \/ \E effect \in BOOLEAN, answer \in {"failed", "uncertain"} : Activate(t, answer, effect)
       \/ Activate(t, "cancelled", FALSE)
    /\ UNCHANGED <<host, association, version, acts, faults>>

-----------------------------------------------------------------------------
(* A person, and the death of the host. *)
PersonActs ==
    /\ acts < MaxActs /\ acts' = acts + 1
    /\ \/ \E m \in Models : active' = [active EXCEPT !["rhino"] = m] /\ UNCHANGED <<association, version>>
       \/ \E d \in Definitions : active' = [active EXCEPT !["grasshopper"] = d] /\ UNCHANGED <<association, version>>
       \/ \E d \in Definitions, m \in Models \cup {None} :
            association' = [association EXCEPT ![d] = m] /\ UNCHANGED <<active, version>>
       \/ \E d \in Documents : version' = [version EXCEPT ![d] = @ + 1] /\ UNCHANGED <<active, association>>
    /\ UNCHANGED <<host, request, switched, faults>>

\* The turn that held the process is uncertain and keeps it.
HostDies ==
    /\ Fault /\ at' = [t \in Tasks |-> IF lease = t THEN "over" ELSE at[t]]
    /\ UNCHANGED <<lease, target, seen, op, request, switched, documents, tools, acts>>
\* A person reviews a task that is over; by then a new attachment fences off what it
\* has queued in Rhino (Attachments).
Recover(t) ==
    /\ lease = t /\ at[t] \in {"idle", "over"}
    /\ lease' = None /\ Set(at, t, "over")
    /\ Set(request, t, IF request[t] = "queued" THEN "cancelled" ELSE request[t])
    /\ UNCHANGED <<target, seen, op, switched, documents, tools, acts, faults>>

Next ==
    \/ PersonActs \/ HostDies
    \/ \E t \in Tasks :
         \/ ToolStarts(t) \/ List(t) \/ GiveUp(t) \/ OperationIntent(t) \/ Send(t) \/ Denied(t)
         \/ Answer(t) \/ AnswerLost(t) \/ Verify(t) \/ WorkEnds(t) \/ Manage(t) \/ Recover(t)
Spec == Init /\ [][Next]_vars

-----------------------------------------------------------------------------
\* The record of an activation tells what became of it: a completed one took effect, a
\* cancelled one did not, and none of them, nor a failed one, can still take effect.
ActivationIsTold ==
    \A t \in Tasks :
        /\ op[t] = "completed" => switched[t]
        /\ op[t] = "cancelled" => ~switched[t]
        /\ op[t] \in {"completed", "failed", "cancelled"} => request[t] # "queued"
\* While a tool works in its documents, nobody but a person takes them away: not an
\* earlier activation of another task whose answer was lost either.
WorksUndisturbed ==
    [][\A t \in Tasks : at[t] = "work" /\ at'[t] = "work" /\ InPlace(t) =>
          InPlace(t)' \/ acts' > acts]_vars
\* The record of an activation is true, and only a person takes the documents of a
\* tool away while it works.
ToolsKeepDocuments == []ActivationIsTold /\ WorksUndisturbed
=============================================================================
