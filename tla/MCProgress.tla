------------------------------ MODULE MCProgress ------------------------------
(***************************************************************************)
(* Progress of the queue in front of Rhino's UI thread and of the shared   *)
(* host's scheduler, in one run.  The dispatcher: two external items       *)
(* compete for a queue of one, with one lifecycle item beside them.  The   *)
(* scheduler: with one worker slot a root, a chain of children that wait   *)
(* for each other and a later root of another conversation; and a root and *)
(* its child that need the lease of one process, under cancellation.  In a *)
(* behaviour one part acts, the others rest in an initial state.           *)
(***************************************************************************)
EXTENDS OrderedDispatcher

CONSTANTS e1, e2, l1, root, child, second, third, next, p, NoTask, Unbound

VARIABLES part,
          rows, state, turn, stopRequested, ops, openScopes, recovered, active, call, queue, held,
          asleep, cancelling, pumpAt, snapshot, native, restarts

MCExternal == {e1, e2}
MCLifecycle == {l1}
SlotsTasks == {root, child, second, third, next}
LeasesTasks == {root, child}

Slots == INSTANCE TaskScheduler WITH
    Tasks <- SlotsTasks, Processes <- {p}, cancelRequested <- stopRequested,
    Parent <- [t \in SlotsTasks |-> IF t \in {root, next} THEN NoTask ELSE root],
    ProcessOf <- [t \in SlotsTasks |-> IF t = next THEN Unbound ELSE p],
    Conversation <- [t \in SlotsTasks |-> IF t = next THEN "other" ELSE "first"],
    Deps <- [t \in SlotsTasks |-> CASE t = second -> {child} [] t = third -> {second} [] OTHER -> {}],
    MaxWorkers <- 1, MaxCoordinators <- 1, MaxTurns <- 1, MaxOps <- 0, MaxCancelled <- 0,
    MaxRestarts <- 0
Leases == INSTANCE TaskScheduler WITH
    Tasks <- LeasesTasks, Processes <- {p}, cancelRequested <- stopRequested,
    Parent <- [t \in LeasesTasks |-> IF t = root THEN NoTask ELSE root],
    ProcessOf <- [t \in LeasesTasks |-> p],
    Conversation <- [t \in LeasesTasks |-> "first"], Deps <- [t \in LeasesTasks |-> {}],
    MaxWorkers <- 2, MaxCoordinators <- 1, MaxTurns <- 1, MaxOps <- 1, MaxCancelled <- 2,
    MaxRestarts <- 0

tasks == <<rows, state, turn, stopRequested, ops, openScopes, recovered, active, call, queue, held,
           asleep, cancelling, pumpAt, snapshot, native, restarts>>
QueuePart == part = "queue" /\ UNCHANGED <<part, tasks>>
SlotsPart == part = "slots" /\ UNCHANGED <<part, vars>>
LeasesPart == part = "leases" /\ UNCHANGED <<part, vars>>

ProgressInit ==
    /\ part \in {"queue", "slots", "leases"} /\ Init
    /\ IF part = "leases" THEN Leases!Init ELSE Slots!Init
ProgressNext == (QueuePart /\ Next) \/ (SlotsPart /\ Slots!Next) \/ (LeasesPart /\ Leases!Next)

\* The steps that the fairness of TaskScheduler is about.
PumpStep == (SlotsPart /\ Slots!PumpStep) \/ (LeasesPart /\ Leases!PumpStep)
RefreshTick == (SlotsPart /\ Slots!RefreshTick) \/ (LeasesPart /\ Leases!RefreshTick)
CancelRest == (SlotsPart /\ Slots!CancelRest) \/ (LeasesPart /\ Leases!CancelRest)
HostStep(t) ==
    (SlotsPart /\ Slots!HostStep(t)) \/ (t \in LeasesTasks /\ LeasesPart /\ Leases!HostStep(t))
RunEnds(t) == (SlotsPart /\ Slots!RunEnds(t)) \/ (t \in LeasesTasks /\ LeasesPart /\ Leases!RunEnds(t))
SchedulerFairness ==
    /\ WF_tasks(PumpStep) /\ WF_tasks(RefreshTick) /\ WF_tasks(CancelRest)
    /\ \A t \in SlotsTasks : WF_tasks(HostStep(t))
    /\ SF_tasks(\E t \in SlotsTasks : RunEnds(t))
QueueFairness ==
    /\ WF_vars(QueuePart /\ Pump) /\ WF_vars(QueuePart /\ Post)
    /\ \A i \in Items : WF_vars(QueuePart /\ CompleteRemoved(i))
ProgressSpec ==
    ProgressInit /\ [][ProgressNext]_<<part, vars, tasks>> /\ QueueFairness /\ SchedulerFairness

\* Again and again all tasks that were accepted have settled, or the host waits for a
\* person.  An accepted task stays accepted, so each of them comes to settle.
Accepted(t) == (part = "slots" \/ t \in LeasesTasks) /\ state[t] # "absent"
WaitsForPerson == IF part = "leases" THEN Leases!WaitsForPerson ELSE Slots!WaitsForPerson
AcceptedSettles ==
    []<>(WaitsForPerson \/ \A t \in SlotsTasks : Accepted(t) => state[t] \in Slots!Settled)
=============================================================================
