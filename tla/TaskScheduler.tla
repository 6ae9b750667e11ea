---------------------------- MODULE TaskScheduler ----------------------------
(***************************************************************************)
(* The shared host's scheduler (src/src/host/shared/task-service.ts) over  *)
(* its durable journal (journal.ts).                                       *)
(*                                                                         *)
(* A task is a root message or a child a running root delegated.  It runs  *)
(* in turns.  The pump starts queued turns while worker slots last; a      *)
(* running turn calls native tools, one at a time, each under the lease of *)
(* its Rhino process; when the turn ends, cleanup decides what the journal *)
(* records.  The host may die and restart at any point: the journal and    *)
(* what runs inside Rhino survive, everything else is lost.                *)
(*                                                                         *)
(* Abstractions.  A turn's row always agrees with its task's row, so only  *)
(* the task's state and the number of its latest turn are kept.  A tool    *)
(* call's operations stand for its state-changing requests.  Steering,     *)
(* document handoffs and usage budgets are left out.  JavaScript runs a    *)
(* handler to completion, so while the pump's loop runs nothing else of    *)
(* the host does: every other host action requires HostIdle.               *)
(***************************************************************************)
EXTENDS Naturals, Sequences, FiniteSets, SequencesExt

CONSTANTS
    Tasks, Processes,
    Parent,          \* the root that delegates a child; NoTask for a root
    ProcessOf,       \* the Rhino process of the task's document, or Unbound
    Conversation,    \* the conversation a root belongs to
    Deps,            \* the siblings a child waits for
    NoTask, Unbound,
    MaxWorkers, MaxCoordinators,
    MaxTurns, MaxOps, MaxCancelled, MaxRestarts   \* bounds on the model

ASSUME ConstantsAssumption ==
    /\ Parent \in [Tasks -> Tasks \cup {NoTask}]
    /\ ProcessOf \in [Tasks -> Processes \cup {Unbound}]
    /\ Deps \in [Tasks -> SUBSET Tasks]
    /\ NoTask \notin Tasks /\ Unbound \notin Processes
    /\ {MaxWorkers, MaxCoordinators, MaxTurns} \subseteq Nat \ {0}
    /\ {MaxOps, MaxCancelled, MaxRestarts} \subseteq Nat

VARIABLES
    \* the journal
    rows,            \* tasks in the order they were accepted
    state,           \* tasks.state
    turn,            \* the number of the task's latest turn
    cancelRequested, \* tasks.cancellation_requested
    ops,             \* the operations of each task, with their turn
    openScopes,      \* <<task, turn>> with an uncertain scope record
    recovered,       \* tasks with a recovery disposition
    \* the host's memory
    active,          \* the Active entry of each task
    call,            \* where the task's native tool call stands
    queue,           \* processQueues
    held,            \* the task that holds each process
    asleep,          \* tasks suspended in waitForChange
    cancelling,      \* <<the family members cancel() has yet to visit>>, or <<>>
    pumpAt,          \* the pump's position in its snapshot; 0 when not pumping
    snapshot,        \* the task states the pump read when it started
    \* Rhino, and a bound
    native,          \* tasks whose operation Rhino may still be executing
    restarts

journal == <<rows, state, turn, cancelRequested, ops, openScopes, recovered>>
vars == <<journal, active, call, queue, held, asleep, cancelling, pumpAt,
          snapshot, native, restarts>>

States == {"absent", "queued", "running", "suspending", "awaiting_user",
           "completed", "failed", "cancelled", "uncertain"}
Settled == {"completed", "failed", "cancelled", "uncertain"}
Phases == {"none", "starting", "running", "children", "cleanup"}

NoSnapshot == [t \in Tasks |-> "absent"]
NotActive == [phase |-> "none", aborted |-> FALSE, failed |-> FALSE,
              fenced |-> FALSE, confirmed |-> TRUE]

Init ==
    /\ rows = <<>> /\ recovered = {} /\ openScopes = {}
    /\ state = [t \in Tasks |-> "absent"]
    /\ turn = [t \in Tasks |-> 0]
    /\ cancelRequested = [t \in Tasks |-> FALSE]
    /\ ops = [t \in Tasks |-> <<>>]
    /\ active = [t \in Tasks |-> NotActive]
    /\ call = [t \in Tasks |-> "idle"]
    /\ queue = [p \in Processes |-> <<>>]
    /\ held = [p \in Processes |-> NoTask]
    /\ asleep = {} /\ cancelling = <<>>
    /\ pumpAt = 0 /\ snapshot = NoSnapshot
    /\ native = {} /\ restarts = 0

---------------------------------------------------------------------------
(* What the code computes from its state.                                  *)

Roots == {t \in Tasks : Parent[t] = NoTask}
Children(t) == {c \in Tasks : Parent[c] = t /\ state[c] # "absent"}
Bound(t) == ProcessOf[t] # Unbound
IsActive(t) == active[t].phase # "none"
HostIdle == pumpAt = 0

Row(t) == CHOOSE i \in DOMAIN rows : rows[i] = t

\* Awaiting recovery: uncertain, and nobody has acknowledged it.
Unrecovered(t) == state[t] = "uncertain" /\ t \notin recovered

\* Waiting parents do not count against the worker limit.
WorkerCount_WaitingToo == Cardinality({t \in Tasks : Bound(t) /\ IsActive(t)})
WorkerCount ==
    Cardinality({t \in Tasks :
        Bound(t) /\ active[t].phase \notin {"none", "children"}})
CoordinatorCount == Cardinality({t \in Tasks : ~Bound(t) /\ IsActive(t)})

Pending_DispatchedOnly(o) == o.state = "dispatched"
Pending(o) == o.state \in {"dispatched", "uncertain"}

\* journal.unresolvedTurn of the latest turn.
UnresolvedTurn(t) ==
    \/ \E i \in DOMAIN ops[t] : ops[t][i].turn = turn[t] /\ Pending(ops[t][i])
    \/ <<t, turn[t]>> \in openScopes

\* What keeps the lease when a tool ends: any turn of the task counts.
UnknownOutcome_OpsOnly(t, scopes) == \E i \in DOMAIN ops[t] : Pending(ops[t][i])
UnknownOutcome(t, scopes) ==
    \/ \E i \in DOMAIN ops[t] : Pending(ops[t][i])
    \/ \E s \in scopes : s[1] = t

UnresolvedProcess(p) ==
    \/ held[p] # NoTask /\ (~IsActive(held[p]) \/ active[held[p]].fenced)
    \/ \E t \in Tasks : ProcessOf[t] = p /\ Unrecovered(t)

\* journal.start's test that no other root is in the way.
RootBusy(t) == \E r \in Roots \ {t} :
    \/ state[r] \in {"running", "suspending", "awaiting_user"}
    \/ Conversation[r] = Conversation[t] /\ Unrecovered(r)
    \/ state[r] = "queued" /\ Row(r) < Row(t)

---------------------------------------------------------------------------
(* changed() wakes every waiter; pump() starts its loop, which reads the   *)
(* journal once, before its first iteration.                               *)

Changed == asleep' = {}
Pump == pumpAt' = 1 /\ UNCHANGED snapshot
NoPump == UNCHANGED <<pumpAt, snapshot>>

\* The pump skips tasks that are not queued, cancelled or still active; for
\* the others it reads its snapshot, and starts or fails the task on the
\* journal as it is now.
Considers(read, t) == read[t] = "queued" /\ ~cancelRequested[t] /\ ~IsActive(t)
FailedDependency(read, t) ==
    \E d \in Deps[t] : read[d] \in {"failed", "cancelled", "uncertain"}
HasRoom(t) ==
    IF Bound(t) THEN WorkerCount < MaxWorkers /\ ~UnresolvedProcess(ProcessOf[t])
    ELSE CoordinatorCount < MaxCoordinators
MayStart(t) ==
    /\ \A d \in Deps[t] : state[d] = "completed"
    /\ Parent[t] = NoTask => ~RootBusy(t)

PumpFails(read, t) == Considers(read, t) /\ FailedDependency(read, t)
PumpStarts(read, t) == /\ Considers(read, t) /\ ~FailedDependency(read, t)
                       /\ HasRoom(t) /\ MayStart(t)

\* One iteration that does something, for the next task in the snapshot.
PumpStep ==
    /\ pumpAt > 0
    /\ LET read == IF pumpAt = 1 THEN state ELSE snapshot
           acts == {i \in DOMAIN rows :
                       /\ i >= pumpAt
                       /\ PumpFails(read, rows[i]) \/ PumpStarts(read, rows[i])}
           i == CHOOSE j \in acts : \A k \in acts : j <= k
           t == rows[i]
       IN IF acts = {}
          THEN /\ pumpAt' = 0 /\ snapshot' = NoSnapshot
               /\ UNCHANGED <<state, active, asleep>>
          ELSE /\ pumpAt' = i + 1 /\ snapshot' = read
               /\ Changed
               /\ IF PumpFails(read, t)
                  THEN /\ state' = [state EXCEPT ![t] = "failed"]
                       /\ UNCHANGED active
                  ELSE /\ state' = [state EXCEPT ![t] = "running"]
                       /\ active' = [active EXCEPT ![t] =
                                         [NotActive EXCEPT !.phase = "starting"]]
    /\ UNCHANGED <<rows, turn, cancelRequested, ops, openScopes, recovered,
                   call, queue, held, cancelling, native, restarts>>

\* The host's three-second refresh pumps; with nothing to do, nothing changes.
RefreshTick ==
    /\ HostIdle
    /\ IF \E t \in ToSet(rows) : PumpFails(state, t) \/ PumpStarts(state, t)
       THEN Pump ELSE NoPump
    /\ UNCHANGED <<journal, active, call, queue, held, asleep, cancelling,
                   native, restarts>>

---------------------------------------------------------------------------
(* Admission.                                                              *)

Accept(t) ==
    /\ state[t] = "absent"
    /\ rows' = Append(rows, t)
    /\ state' = [state EXCEPT ![t] = "queued"]
    /\ turn' = [turn EXCEPT ![t] = 1]
    /\ Changed /\ Pump
    /\ UNCHANGED <<cancelRequested, ops, openScopes, recovered, active, call,
                   queue, held, cancelling, native, restarts>>

Submit(t) == HostIdle /\ Parent[t] = NoTask /\ Accept(t)

\* Called by the parent's model, so between its tool calls.
Delegate(t) ==
    /\ HostIdle /\ Parent[t] # NoTask
    /\ active[Parent[t]].phase = "running" /\ call[Parent[t]] = "idle"
    /\ state[Parent[t]] = "running" /\ ~cancelRequested[Parent[t]]
    /\ Deps[t] \subseteq Children(Parent[t])
    /\ Accept(t)

---------------------------------------------------------------------------
(* A turn.                                                                 *)

\* The turn's binding is validated and its driver created, or one of them
\* fails; a driver whose creation failed may be unable to confirm cleanup.
StartDriver(t) ==
    /\ HostIdle /\ active[t].phase = "starting"
    /\ \/ /\ ~active[t].aborted
          /\ active' = [active EXCEPT ![t].phase = "running"]
       \/ \E confirmed \in BOOLEAN :
              active' = [active EXCEPT ![t].phase = "cleanup", ![t].failed = TRUE,
                                       ![t].confirmed = confirmed]
    /\ Changed /\ NoPump
    /\ UNCHANGED <<journal, call, queue, held, cancelling, native, restarts>>

\* The tool takes a ticket of its process's queue.
CallTool(t) ==
    /\ HostIdle /\ Bound(t)
    /\ active[t].phase = "running" /\ ~active[t].aborted
    /\ state[t] = "running" /\ call[t] = "idle"
    /\ Len(ops[t]) < MaxOps
    /\ call' = [call EXCEPT ![t] = "waiting"]
    /\ queue' = [queue EXCEPT ![ProcessOf[t]] = Append(@, t)]
    /\ UNCHANGED <<journal, active, held, asleep, cancelling, pumpAt, snapshot,
                   native, restarts>>

LeaveQueue(t) == queue' = [queue EXCEPT ![ProcessOf[t]] = SelectSeq(@, LAMBDA u : u # t)]

\* One turn of withProcessLease's loop: give up, take the lease, or sleep.
\* (The first sleep also calls changed(); nobody's condition depends on it.)
RefuseLease(t) ==
    /\ HostIdle /\ call[t] = "waiting" /\ t \notin asleep
    /\ active[t].aborted \/ UnresolvedProcess(ProcessOf[t])
    /\ call' = [call EXCEPT ![t] = "idle"]
    /\ LeaveQueue(t)
    /\ Changed /\ Pump
    /\ UNCHANGED <<journal, active, held, cancelling, native, restarts>>

TakeLease(t) ==
    /\ HostIdle /\ call[t] = "waiting" /\ t \notin asleep
    /\ ~active[t].aborted /\ ~UnresolvedProcess(ProcessOf[t])
    /\ Head(queue[ProcessOf[t]]) = t /\ held[ProcessOf[t]] = NoTask
    /\ call' = [call EXCEPT ![t] = "leased"]
    /\ held' = [held EXCEPT ![ProcessOf[t]] = t]
    /\ Changed /\ NoPump
    /\ UNCHANGED <<journal, active, queue, cancelling, native, restarts>>

AwaitLease(t) ==
    /\ HostIdle /\ call[t] = "waiting" /\ t \notin asleep
    /\ ~active[t].aborted /\ ~UnresolvedProcess(ProcessOf[t])
    /\ Head(queue[ProcessOf[t]]) # t \/ held[ProcessOf[t]] # NoTask
    /\ asleep' = asleep \cup {t}
    /\ UNCHANGED <<journal, active, call, queue, held, cancelling, pumpAt,
                   snapshot, native, restarts>>

\* journal.operationIntent commits before the request leaves for Rhino.
Dispatch(t) ==
    /\ HostIdle /\ call[t] = "leased" /\ ~active[t].aborted
    /\ state[t] = "running" /\ ~cancelRequested[t]
    /\ Len(ops[t]) < MaxOps
    /\ ops' = [ops EXCEPT ![t] = Append(@, [turn |-> turn[t], state |-> "dispatched"])]
    /\ call' = [call EXCEPT ![t] = "native"]
    /\ native' = native \cup {t}
    /\ UNCHANGED <<rows, state, turn, cancelRequested, openScopes, recovered,
                   active, queue, held, asleep, cancelling, pumpAt, snapshot,
                   restarts>>

\* Rhino stops executing the operation, whoever still waits for it.
NativeEnds(t) ==
    /\ t \in native
    /\ native' = native \ {t}
    /\ UNCHANGED <<journal, active, call, queue, held, asleep, cancelling,
                   pumpAt, snapshot, restarts>>

\* The reply tells an outcome, or the exchange fails and leaves it unknown.
Answered(t) ==
    /\ HostIdle /\ call[t] = "native"
    /\ \E outcome \in {"known", "uncertain"} :
        /\ outcome = "known" => t \notin native
        /\ ops' = [ops EXCEPT ![t][Len(ops[t])].state = outcome]
    /\ call' = [call EXCEPT ![t] = "leased"]
    /\ UNCHANGED <<rows, state, turn, cancelRequested, openScopes, recovered,
                   active, queue, held, asleep, cancelling, pumpAt, snapshot,
                   native, restarts>>

\* The tool closes its transaction and checks both scopes idle; then the
\* lease is released unless an outcome of the task is unknown.
CloseTool(t) ==
    /\ HostIdle /\ call[t] = "leased"
    /\ \E idle \in BOOLEAN :
        LET scopes == IF idle THEN openScopes ELSE openScopes \cup {<<t, turn[t]>>}
            unknown == UnknownOutcome(t, scopes)
        IN /\ openScopes' = scopes
           /\ active' = [active EXCEPT ![t].fenced = unknown, ![t].confirmed = idle]
           /\ held' = [held EXCEPT ![ProcessOf[t]] =
                           IF unknown \/ @ # t THEN @ ELSE NoTask]
    /\ call' = [call EXCEPT ![t] = "idle"]
    /\ LeaveQueue(t)
    /\ Changed /\ Pump
    /\ UNCHANGED <<rows, state, turn, cancelRequested, ops, recovered,
                   cancelling, native, restarts>>

\* The question is journaled; the model makes no further call.
Ask(t) ==
    /\ HostIdle /\ active[t].phase = "running" /\ call[t] = "idle"
    /\ ~active[t].aborted /\ ~cancelRequested[t] /\ state[t] = "running"
    /\ state' = [state EXCEPT ![t] = "suspending"]
    /\ Changed /\ NoPump
    /\ UNCHANGED <<rows, turn, cancelRequested, ops, openScopes, recovered,
                   active, call, queue, held, cancelling, native, restarts>>

PendingChildren(t) == \E c \in Children(t) : state[c] \notin Settled

\* The model's run ends, well or with an error.
RunEnds(t) ==
    /\ HostIdle /\ active[t].phase = "running" /\ call[t] = "idle"
    /\ \E failed \in BOOLEAN :
        /\ ~failed => active[t].aborted \/ state[t] # "running" \/ ~PendingChildren(t)
        /\ active' = [active EXCEPT ![t].phase = "cleanup", ![t].failed = failed]
    /\ UNCHANGED <<journal, call, queue, held, asleep, cancelling, pumpAt,
                   snapshot, native, restarts>>

\* A root waits for its children, in a tool call or when its run has ended,
\* and lends its slot meanwhile.
WaitForChildren(t) ==
    /\ HostIdle /\ active[t].phase = "running" /\ call[t] = "idle"
    /\ ~active[t].aborted /\ state[t] = "running" /\ PendingChildren(t)
    /\ active' = [active EXCEPT ![t].phase = "children"]
    /\ IF Bound(t) THEN Changed /\ Pump ELSE UNCHANGED asleep /\ NoPump
    /\ UNCHANGED <<journal, call, queue, held, cancelling, native, restarts>>

\* It goes on when they are settled and a slot is free, or when aborted.
ChildrenDone(t) ==
    \/ active[t].aborted
    \/ ~PendingChildren(t) /\ (Bound(t) => WorkerCount < MaxWorkers)

ResumeParent(t) ==
    /\ HostIdle /\ active[t].phase = "children" /\ t \notin asleep
    /\ ChildrenDone(t)
    /\ active' = [active EXCEPT ![t].phase = "running"]
    /\ Changed /\ NoPump
    /\ UNCHANGED <<journal, call, queue, held, cancelling, native, restarts>>

AwaitChildren(t) ==
    /\ HostIdle /\ active[t].phase = "children" /\ t \notin asleep
    /\ ~ChildrenDone(t)
    /\ asleep' = asleep \cup {t}
    /\ UNCHANGED <<journal, active, call, queue, held, cancelling, pumpAt,
                   snapshot, native, restarts>>

\* After the driver's cleanup, the end of execute decides what to record.
Outcome_CancelledFirst(t, confirmed) ==
    IF active[t].aborted \/ cancelRequested[t] THEN "cancelled"
    ELSE IF ~confirmed \/ UnresolvedTurn(t) THEN "uncertain"
    ELSE IF state[t] = "suspending" THEN "awaiting_user" ELSE "completed"
Outcome(t, confirmed) ==
    IF ~confirmed \/ UnresolvedTurn(t) THEN "uncertain"
    ELSE IF active[t].aborted \/ cancelRequested[t] THEN "cancelled"
    ELSE IF state[t] = "suspending" THEN "awaiting_user"
    ELSE IF active[t].failed THEN "failed"
    ELSE "completed"

Settle(t) ==
    /\ HostIdle /\ active[t].phase = "cleanup"
    /\ \E confirmed \in {FALSE, active[t].confirmed} :
        state' = [state EXCEPT ![t] = Outcome(t, confirmed)]
    /\ active' = [active EXCEPT ![t] = NotActive]
    /\ Changed /\ Pump
    /\ UNCHANGED <<rows, turn, cancelRequested, ops, openScopes, recovered,
                   call, queue, held, cancelling, native, restarts>>

\* The first valid answer makes one new turn.
AnswerQuestion(t) ==
    /\ HostIdle /\ state[t] = "awaiting_user" /\ ~cancelRequested[t]
    /\ turn[t] < MaxTurns
    /\ turn' = [turn EXCEPT ![t] = @ + 1]
    /\ state' = [state EXCEPT ![t] = "queued"]
    /\ Changed /\ Pump
    /\ UNCHANGED <<rows, cancelRequested, ops, openScopes, recovered, active,
                   call, queue, held, cancelling, native, restarts>>

---------------------------------------------------------------------------
(* Cancellation, recovery, restart.                                        *)

\* cancel()'s loop over the family, up to the first task it has to await:
\* inactive tasks settle, the first active one is aborted.
Visit(family, flags) ==
    LET stop == {t \in family : IsActive(t)}
        first == CHOOSE t \in stop : \A u \in stop : Row(t) <= Row(u)
        visited == IF stop = {} THEN family
                   ELSE {t \in family : Row(t) < Row(first)}
    IN /\ cancelRequested' = flags
       /\ state' = [t \in Tasks |->
              IF t \in visited /\ state[t] \in {"queued", "awaiting_user"}
              THEN "cancelled" ELSE state[t]]
       /\ active' = IF stop = {} THEN active
                    ELSE [active EXCEPT ![first].aborted = TRUE]
       /\ asleep' = IF stop = {} THEN {} ELSE asleep \ {first}
       /\ cancelling' = IF stop = {} THEN <<>> ELSE <<(family \ visited) \ {first}>>
       /\ IF stop = {} THEN Pump ELSE NoPump
       /\ UNCHANGED <<rows, turn, ops, openScopes, recovered, call, queue, held,
                      native, restarts>>

\* The journal flags the whole family at once.  One cancel() at a time, one
\* that flags something new, and MaxCancelled flags in all: bounds.
Cancel(t) ==
    /\ HostIdle /\ cancelling = <<>> /\ state[t] # "absent"
    /\ LET family == {t} \cup Children(t)
           flags == [u \in Tasks |-> cancelRequested[u] \/ u \in family]
       IN /\ flags # cancelRequested
          /\ Cardinality({u \in Tasks : flags[u]}) <= MaxCancelled
          /\ Visit(family, flags)

\* The aborted driver acknowledged; the loop goes on with the rest.
CancelRest ==
    /\ HostIdle /\ cancelling # <<>>
    /\ Visit(Head(cancelling), cancelRequested)

\* A person inspected the model; the old work is known to have ended.
Recover(t) ==
    /\ HostIdle /\ Unrecovered(t) /\ t \notin native
    /\ recovered' = recovered \cup {t}
    /\ held' = [p \in Processes |-> IF held[p] = t THEN NoTask ELSE held[p]]
    /\ Changed /\ Pump
    /\ UNCHANGED <<rows, state, turn, cancelRequested, ops, openScopes, active,
                   call, queue, cancelling, native, restarts>>

\* journal.recover(): a turn that was running may have had effects.
AfterCrash(s) == IF s \in {"running", "suspending"} THEN "uncertain" ELSE s

\* The host dies and starts again: journal.recover(), the fences restored
\* from the journal, then a pump.
Restart ==
    /\ restarts < MaxRestarts
    /\ restarts' = restarts + 1
    /\ LET interrupted == [t \in Tasks |-> AfterCrash(state[t])]
           owners(p) == {t \in Tasks : /\ interrupted[t] = "uncertain"
                                       /\ t \notin recovered /\ ProcessOf[t] = p}
       IN /\ state' = interrupted
          /\ held' \in [Processes -> Tasks \cup {NoTask}]
          /\ \A p \in Processes : IF owners(p) = {} THEN held'[p] = NoTask
                                  ELSE held'[p] \in owners(p)
    /\ pumpAt' = 1 /\ snapshot' = NoSnapshot
    /\ active' = [t \in Tasks |-> NotActive]
    /\ call' = [t \in Tasks |-> "idle"]
    /\ queue' = [p \in Processes |-> <<>>]
    /\ asleep' = {} /\ cancelling' = <<>>
    /\ UNCHANGED <<rows, turn, cancelRequested, ops, openScopes, recovered, native>>

---------------------------------------------------------------------------

TaskStep(t) ==
    \/ StartDriver(t) \/ RefuseLease(t) \/ TakeLease(t) \/ AwaitLease(t)
    \/ Dispatch(t) \/ Answered(t) \/ CloseTool(t) \/ RunEnds(t)
    \/ WaitForChildren(t) \/ ResumeParent(t) \/ AwaitChildren(t) \/ Settle(t)

Next ==
    \/ PumpStep \/ RefreshTick \/ CancelRest \/ Restart
    \/ \E t \in Tasks :
        \/ Submit(t) \/ Delegate(t) \/ CallTool(t) \/ Ask(t)
        \/ NativeEnds(t) \/ TaskStep(t)
        \/ AnswerQuestion(t) \/ Cancel(t) \/ Recover(t)

Spec == Init /\ [][Next]_vars

\* The next step of the chain of calls that the host runs for a task.
HostStep(t) ==
    \/ StartDriver(t) \/ RefuseLease(t) \/ TakeLease(t) \/ AwaitLease(t)
    \/ Answered(t) \/ CloseTool(t) \/ WaitForChildren(t) \/ ResumeParent(t)
    \/ AwaitChildren(t) \/ Settle(t)

\* The host's own steps run, models and requests end: Rhino, the person and
\* the next submission promise nothing.
FairSpec ==
    /\ Spec
    /\ WF_vars(PumpStep) /\ WF_vars(RefreshTick) /\ WF_vars(CancelRest)
    /\ \A t \in Tasks : WF_vars(HostStep(t))
    /\ SF_vars(\E t \in Tasks : RunEnds(t))

---------------------------------------------------------------------------
(* Properties.                                                             *)

\* Type invariant: the journal's rows, the host's memory and Rhino's work
\* have the shapes the code gives them.
TypeOK ==
    /\ ToSet(rows) \subseteq Tasks /\ \A t \in Tasks : state[t] # "absent" <=> t \in ToSet(rows)
    /\ state \in [Tasks -> States]
    /\ turn \in [Tasks -> 0..MaxTurns]
    /\ cancelRequested \in [Tasks -> BOOLEAN]
    /\ ops \in [Tasks -> BoundedSeq([turn : 1..MaxTurns,
                                    state : {"dispatched", "known", "uncertain"}], MaxOps)]
    /\ openScopes \subseteq Tasks \X (1..MaxTurns)
    /\ recovered \subseteq Tasks
    /\ active \in [Tasks -> [phase : Phases, aborted : BOOLEAN, failed : BOOLEAN,
                             fenced : BOOLEAN, confirmed : BOOLEAN]]
    /\ call \in [Tasks -> {"idle", "waiting", "leased", "native"}]
    /\ \A p \in Processes : ToSet(queue[p]) \subseteq Tasks
    /\ held \in [Processes -> Tasks \cup {NoTask}]
    /\ asleep \subseteq Tasks /\ native \subseteq Tasks
    /\ cancelling = <<>> \/ cancelling \in [{1} -> SUBSET Tasks]
    /\ pumpAt \in 0..(Cardinality(Tasks) + 1)
    /\ snapshot \in [Tasks -> States]
    /\ restarts \in 0..MaxRestarts

\* At most one operation of the host is ever being executed inside a Rhino
\* process, across lost replies, cancellations and restarts of the host
\* (withProcessLease and the fences its constructor restores).
NativeExclusive ==
    \A t, u \in native : ProcessOf[t] = ProcessOf[u] => t = u

\* What a person would have to review: native work without a known outcome,
\* or a scope that was not closed.
Unsettled(t) ==
    \/ \E i \in DOMAIN ops[t] : ops[t][i].state # "known"
    \/ \E s \in openScopes : s[1] = t

\* A tool is given a process only when every unknown outcome on that process
\* has been through recovery, the task's own earlier ones included.
LeaseAfterRecovery ==
    [][\A t \in Tasks : call[t] = "waiting" /\ call'[t] = "leased" =>
          \A u \in Tasks : ProcessOf[u] = ProcessOf[t] =>
              \/ u \in recovered
              \/ state[u] # "uncertain" /\ ~Unsettled(u)]_vars

\* A task is recorded as completed, failed, cancelled or awaiting an answer
\* only when its native work has ended and its scopes were closed.
SettledIsResolved ==
    \A t \in Tasks :
        state[t] \in {"completed", "failed", "cancelled", "awaiting_user"} =>
            t \notin native /\ ~Unsettled(t)

\* A turn that may have started is never started again: a task returns to the
\* queue only with a new turn, and only because a question was answered.
NoReplay ==
    [][\A t \in Tasks : state'[t] = "queued" /\ state[t] \notin {"absent", "queued"} =>
          state[t] = "awaiting_user" /\ turn'[t] = turn[t] + 1]_vars

\* Nothing whose outcome is unknown is built on, or done again, before its review.
ReviewedFirst == LeaseAfterRecovery /\ NoReplay

\* Bound turns that still compute never exceed the worker limit: a parent
\* that lent its slot takes it back over the limit only when aborted.
WorkerLimit ==
    Cardinality({t \in Tasks : /\ Bound(t) /\ ~active[t].aborted
                               /\ active[t].phase \notin {"none", "children"}}) <= MaxWorkers

\* One root at a time holds the host's work slot.
OneRoot ==
    \A r, s \in Roots :
        {state[r], state[s]} \subseteq {"running", "suspending", "awaiting_user"} => r = s

\* The host waits for a person: for an answer to a question, or for the review of
\* native work whose outcome is unknown.
WaitsForPerson ==
    \E t \in Tasks : state[t] = "awaiting_user" \/ Unrecovered(t) \/ active[t].fenced
\* The reason shown for a blocked task tells the person to "stop or wait for
\* the affected task" before reviewing it: that waiting suffices means that a
\* task whose native outcome is unknown ends by itself (recoveryWaitReason).
WaitingSuffices ==
    \A t \in Tasks : active[t].fenced ~> ~IsActive(t)
=============================================================================
