-------------------------------- MODULE Turns --------------------------------
(***************************************************************************)
(* What a task goes through in the shared host, in one run: the scheduler  *)
(* over its journal (this module's own, TaskScheduler), the delivery of    *)
(* steering inputs to a task that asks and is continued, the profiles of   *)
(* the Rhino instances the tasks run on, and the documents their tools     *)
(* work in.  In a behaviour one part acts, the others rest in an initial   *)
(* state.                                                                  *)
(***************************************************************************)
EXTENDS TaskScheduler

CONSTANTS MaxInputs, SteeringTurns, MaxCrashes, MaxFailures,
          Pids, Ids, Absent, Retention, MaxStarts, MaxTime,
          BoundTasks, Models, Definitions, Binding, MaxTools, MaxActs, MaxFaults

VARIABLES part,
          task, inputTurn, cancelled, driver, aborted, stopping, inputs, chain, step, promise,
          messages, consumed, failures, crashes,
          running, starts, dead, owner, owned, profile, marker, logs, scan, now,
          holder, tool, target, inventory, activation, answered, switched, front, association,
          version, tools, acts, faults

S == INSTANCE Steering WITH MaxTurns <- SteeringTurns, turn <- inputTurn, queue <- messages
I == INSTANCE InstanceProfiles
B == INSTANCE BoundDocuments WITH
       Tasks <- BoundTasks, None <- NoTask,
       lease <- holder, at <- tool, seen <- inventory, op <- activation, request <- answered,
       active <- front

ASSUME TurnsAssumption == S!SteeringAssumption /\ I!ProfileAssumption /\ B!BindingAssumption

steeringVars == <<task, inputTurn, cancelled, driver, aborted, stopping, inputs, chain, step, promise,
                  messages, consumed, crashes>>
profileVars == <<running, starts, dead, owner, owned, profile, marker, logs, scan, now>>
bindingVars == <<holder, tool, target, inventory, activation, answered, switched, front, association,
                 version, tools, acts, faults>>
all == <<part, vars, steeringVars, profileVars, bindingVars, failures>>

TurnsInit == part \in {"scheduler", "steering", "profiles", "documents"} /\ Init /\ S!Init /\ I!Init /\ B!Init
             /\ (part = "profiles" \/ logs = {})
             /\ (part = "documents" \/ front = CHOOSE f \in [rhino : Models, grasshopper : Definitions] : TRUE)
TurnsNext ==
    \/ part = "scheduler" /\ Next /\ UNCHANGED <<part, steeringVars, profileVars, bindingVars, failures>>
    \/ part = "steering" /\ S!Next /\ UNCHANGED <<part, vars, profileVars, bindingVars>>
    \/ part = "profiles" /\ I!Next /\ UNCHANGED <<part, vars, steeringVars, bindingVars>>
    \/ part = "documents" /\ B!Next /\ UNCHANGED <<part, vars, steeringVars, profileVars, failures>>
TurnsSpec == TurnsInit /\ [][TurnsNext]_all

\* The record of an activation is true, and only a person takes the documents of a
\* tool away while it works.
ToolsKeepDocuments == B!ToolsKeepDocuments
\* The journal is right about what the model saw of every steering input.
SteeringIsTruthful == S!SteeringIsTruthful
\* A scan takes no profile and no young logs from an instance that may be alive, and
\* without failures it leaves no key of an owner that was dead when it began.
ScansTakeTheDead == I!ScansTakeTheDead
=============================================================================
