# Formal model of Hopper

Hopper lets language-model agents work in Rhino and Grasshopper. A Rhino plug-in
(C#, `dotnet/`) executes requests on Rhino's UI thread; a shared Node host
(TypeScript, `src/host/shared`) schedules the agents' tasks for every Rhino
process on the machine, keeps a journal of what they did, and serves the browser
tab (`web/`) from which a person steers them. This directory holds TLA+ models of
the parts where concurrency, failure and ordering decide whether a document
survives, TLC configurations for small instances, and TLAPS proofs.

Paths below are relative to the repository's source root (`src/` in
`PROJECT.json`).

## 1. Inventory

| Component | State it keeps | Operations | Hard part | Must hold |
|---|---|---|---|---|
| **OrderedDispatcher** (`dotnet/Hopper.Core/Dispatching`) | two FIFO queues, `_running`, `_pumpPosted`, admission and shutdown flags | Submit, cancel, CancelQueuedExternal, Close/Reopen admission, Shutdown, PumpOne | threads race the UI thread; the native scheduler may throw; nested message loops | one operation at a time; no lost wake-up; an answer tells whether the operation ran |
| **SharedExecutionFence** (`dotnet/Hopper.Core/Transport`) | attached host, generation, open scopes and their owners, spent grants | Attach, Execute, Recover | native code runs outside the lock between two sections; a new host attaches meanwhile | no work inside a foreign transaction; no transaction forgotten |
| **MutationResultStore** | entries per operation ID, bytes in use | TryAdmit, Complete, Release, Lookup, expiry | serialisation outside the lock | exact accounting, stable results |
| **RpcTransportOwner**, **HopperRpcClient** (`src/infra/rpc-client.ts`) | requests and replies in flight, pending calls, attachment | call, recovery lookup, reply, reconnect, supersede | connection loss, duplicate IDs, time-outs, retention | no repeated effect; "not started" is never said of work that ran |
| **RuntimeRpc**, agent transactions (`src/infra/runtime-rpc.ts`, `RhinoAgentTransaction`, `AgentTransaction`, `DocumentSession`) | what the client believes of each owner's transaction; undo records, snapshots, segments | invoke, begin, edit, finish, reconcile | lost replies to begin and finish; a person opens or saves a document meanwhile | every edit is inside a transaction that is finished |
| **Grasshopper readiness** (`grasshopper-readiness.ts`, `RuntimeStatusStore`, `GrasshopperCapabilityRegistry`) | capability, status, wake-ups | ensureReady, start, report, sync | advisory wake-ups between read and wait | one start; ready is heard; no endless wait |
| **SharedTaskService**, **TaskJournal**, **TaskRecoveryService** (`src/host/shared`) | SQLite journal; `Active` entries, process queues, leases in memory | submit, delegate, pump, tool calls, wait for children, ask/answer, steer, cancel, settle, recover, restart | host crash while Rhino works on; parents that wait for children; cancellation in several transactions | native work exclusive per process; unknown outcomes fenced; no replay; everything settles |
| **SharedNativeRuntime**, **SharedRegistry** | clients and admissions per lifecycle, intents | register, refresh, recover, reconcile, activate documents, call, close scope | answers lost after the effect; two lifecycles of one process; a person switches documents | one fenced connection per Rhino; what the journal says follows from what Rhino did |
| **NativeActions**, **DocumentActions**, **TransferService**, **RhinoLaunch** | grants, receipts, reservations, artifacts, launch records | save, create/open by handoff, export, import, launch | repeated requests find an earlier call half done; another task or program writes the file | one writer per file; receipts are true; nothing is started or imported twice |
| **LifecycleController**, **HopperHostFacade**, **NodeHealthMonitor** (`dotnet/Hopper.Core/Lifecycle`, `dotnet/Hopper.Rhino`) | snapshot, command gate, start token, stop and restart tasks | start, stop, restart, health report, Rhino exit | stops interrupt starts under a different lock; adapters time out | the announced state and the resources agree; commands are answered |
| **SharedHostLifetime**, **SharedAttachment** (`control.ts`, `ensure-host.ts`, `lifetime.ts`, `main.ts`, `SharedNativeHost.cs`) | control and discovery files, lock port, registrations | ensure, stop, replace, attach, reconnect | several processes, crashes between two files | one live host; a live Rhino finds it |
| **InstanceProfiles** (`InstanceProfilePolicy.cs`) | a profile file per lifecycle, markers of dead ones, logs | publish, delete, scan | several Rhinos scan at once, process IDs are used again | no file of a live Rhino is taken; dead keys go |
| **BrowserServer**, **backend**, **WebClient** | revisions per socket, controlling tab, commands and drafts | publish, patch, authenticate, command, archive, delete | lost and delayed messages, half-open sockets, repeated commands | a patch fits its base; a command takes effect once and is answered |
| **ToolPolicy** (`tool-policy*.ts`, `tool-credentials.ts`) | settings file with marker and revision, protected key | enable, disable, save key, offer, activate, call | several processes, stale sessions, crash between key and file | a tool that runs was offered since it was last switched on |
| **RhinoScripts** (`rhino-script-*.ts`, `source-line-patches.ts`) | script records, runs, lock files, quota | edit, run, reconcile, patch, page | processes die with the lock; two processes record one run | one writer; the run record is true; quota kept |
| Wire contracts, browser history, code runner, graph and script services, tools, build | none, or Rhino's own | parsing, projection, sequential calls | none of order | see section 7 |

`PROJECT.json` lists every component with its sources and what is modelled of it,
and 40 hazards, each at its line with the properties that watch it.

How they interact. A person's message becomes a task (`submit`); the pump starts
its turn; the turn's model calls a tool; the tool takes the lease of its Rhino
process, brings the task's documents forward, journals an intent, and sends a
request through `RuntimeRpc` and `HopperRpcClient`. `RpcTransportOwner` reserves a
place in the result store, submits the operation to the dispatcher, and the
dispatcher runs it on the UI thread inside the fence. The answer travels back and
is journaled; when the turn ends, cleanup closes the scope and settles the task.
`LifecycleController` starts and stops the transport and opens and closes the
dispatcher's admission; `SharedAttachment` finds or launches the host and registers.

    Conversations, BrowserConnection        ToolPolicy
         | commands, snapshots                  | offers, preflight
         v                                      v
    TaskScheduler, Steering -- tool call --> AgentTurn --> RpcExchange --> OrderedDispatcher
         |            |                                      |  store          ^
         | journal    +--> BoundDocuments, DocumentActions,  +-- generation --> SharedExecutionFence
         v                 GeometryTransfer, RhinoLaunch                       |
      restart, recovery                                  LifecycleController --+ admission
         ^
         +-- Attachments <-- SharedHostLifetime (which host, which Rhinos)

## 2. Modules

| Module | Models | Run |
|---|---|---|
| `OrderedDispatcher` | the dispatcher, each lock section an action; UI thread, pumps and schedulers as agents; refines `DispatcherContract` | `progress` |
| `DispatcherContract` | abstract specification: an item is refused or runs alone, and its answer says which; used by `RpcExchange` | `progress`, `transport` |
| `SharedExecutionFence` | the fence and, beside it, what Rhino and Grasshopper really hold open (`native`) | `transport` |
| `MutationResultStore` | the result store; used by `RpcExchange` | `transport` |
| `RpcExchange` | client, connection, server; the dispatcher by its contract, the real store, the fence by its generation | `transport` |
| `AgentTurn` | the transactions around the edits of a turn: client, segments, native undo records, finish | `transport` |
| `ToolPolicy` | settings file, keys, offers, activations, calls | `transport` |
| `TaskScheduler` | the shared host: journal, memory, pump, leases, crash | `scheduler`, `progress`, `scheduler_wait` |
| `Steering` | messages to a running task, from the journal to the model | `scheduler` |
| `InstanceProfiles` | profile files of many Rhinos and their scans | `scheduler` |
| `BoundDocuments` | activation of a task's captured documents, and who may take them away | `scheduler` |
| `LifecycleController` | controller, facade commands, health reports | `lifecycle`, `lifecycle_stop` |
| `SharedHostLifetime` | control and discovery files, launchers, hosts, reconnecting Rhinos | `hosts` |
| `Attachments` | registrations, registry, refresh, recovery and reconciliation | `hosts`, `attachments_restart` |
| `GrasshopperReadiness` | capability, status store, wake-ups, the waiting client | `hosts` |
| `DocumentActions` | saves and create/open handoffs, reservations, receipts | `native` |
| `GeometryTransfer` | export, publication, import of an artifact | `native` |
| `RhinoLaunch` | launches with repeated requests | `native` |
| `ScriptStore`, `RhinoScripts`, `ScriptText` | writer lock; runs, reconciliation, quota; patches, diffs and pages | `native`, `script_death` |
| `BrowserConnection` | publications, snapshots and patches, the tab's probes and reconnects | `ui`, `browser_view` |
| `Conversations` | threads and durable commands about them | `ui` |
| `Transport`, `Turns`, `SharedHosting`, `NativeWork`, `Ui` | the parts of a run side by side | `transport`, `scheduler`, `hosts`, `native`, `ui` |
| `*Proofs` (eight modules) | theorems, section 5 |
| `MC*` | instances for TLC |

A run may hold several independent parts (`Transport`, `Turns`, `SharedHosting`,
`NativeWork`, `Ui`): its variable `part` chooses which one acts, the others rest in
an initial state, so that its states are the disjoint sum of the parts' states. It is
an economy of runs and of proof modules, not a composition; what composes is said in the
table (`RpcExchange` over the store and the contract) and in the notes below. A part that
occurs with several settings is a parametrised instance: `Policy(s)` in `Transport`,
`R(s)` in `NativeWork` and `Browser(s)` in `Ui` take a record of processes and bounds. Each `TypeOK`
states the types of its module and holds on the instances of section 3 (add it to a run's
INVARIANTS to repeat that); the runs themselves name the properties that say more.

Notes on how state and actions correspond to the code. Names are the code's where
TLA+ allows it.

*OrderedDispatcher.* `Submit` is split where it leaves the lock: the item is queued
and a pump promised in one step, the callback is handed to the host scheduler (which
may throw) in another. `PumpOne` takes, judges, executes and answers in steps of its
own, so cancellation and Shutdown come between any two. Durations and status events
are advisory and left out.

*SharedExecutionFence.* `scope` is the fence's book-keeping, `native` what is really
open: the invariants relate the two. A native begin may fail after opening its undo
record, a rollback may fail, and a person may close a document.

*MutationResultStore.* Bytes are exact; `Complete` is two sections with serialisation
between them; every public operation first drops expired results.

*RpcExchange.* A connection loss drops everything in flight at once, because the
router is configured with `RouterHandover` (`RpcTransportOwner.cs:320`). A retained
result does not expire while its call still waits: a completion answers within two
minutes, the store's time to live is ten.

*AgentTurn.* In the shared host one tool call is one turn; in a host of its own one
prompt is. The scope's restrictions apply only in the former. Assumed: no edit is
invoked once finishing began (`runTool` awaits its work before it commits).
Observations: after a finish that fails while an operation stays uncertain, the
own-child mode returns early from the next `beginAgentTurn`, so edits of the other
owner then run without an undo record; if finishing Grasshopper fails, Rhino's
record is left to recovery.

*TaskScheduler.* A turn's row always agrees with its task's row, so only the task's
state and the number of the latest turn are kept. JavaScript runs a handler to its
next await, so every action but the pump's iterations requires an idle host; the
pump's loop reads its snapshot once and starts, fails or skips one task per action.
`native` is what Rhino still executes, whoever waits for it: it survives `Restart`.
One tool call of a turn at a time, because `question-suspension.ts` selects
sequential execution. Observations: the fences the constructor restores are redundant
with `unresolvedProcess`; one pump fails only one link of a chain of dependent
children, and the 3-second refresh (`main.ts:408`) carries the failure on.

*Steering.* The journal's input states, the service's delivery chain, pi-driver's
queue and the model's consumption are separate, and the turn may end, ask, fail, be
cancelled or lose its host between any two. Observation: an input accepted while
cleanup is in progress is handed to a driver that has already rejected its pending
list; its delivery never settles and it ends "unknown" though it was never applied,
which is harmless.

*BoundDocuments.* The activation's inventory, intent, request, answer and second
inventory are steps; Rhino's check of the binding and of what the inventory saw is
one step with the effect, because both run in one callback of the UI thread.
Observations: an operation recorded "failed" may have had effects, listed in its
answer (a description that fails after the activation); a switch away and back
between inventory and activation is not noticed; an activation whose second
inventory fails is recorded uncertain though it took effect.

*LifecycleController.* Agents: the UI thread, the background start and restart,
observers of a stop, the health poll, and the holder of the command gate. A cleanup's
effects are one step with every failure the production adapters can show; the
transition after it is another step, because the code takes no gate that would keep a
stop from coming between. `ReportUnexpectedChildExitAsync` has no caller in the
product and is left out. Observation: a stop that captured the start's token before
the start's `finally` disposes it throws out of `Cancel()` (line 507), and its cleanup
job is never scheduled; `RestartAnswered` exempts exactly this case.

*SharedHostLifetime.* A port belongs to a process and dies with it, a file stays; a
section under the lock port is one step, everything between two sections is not.

*Attachments.* The fence gives one generation to each client that attaches, so a
client's number is its generation. Every awaited call is answered in a step of its own.
Observation: a recovery whose re-registration fails leaves the instance deleted while
the plug-in believes it is registered.

*GrasshopperReadiness.* `SyncStatus` is two reads and a write with nothing around them.
Observations: a background sync that overlaps a document report writes the old document
back until the next document event; after one failed start a client never asks again.

*DocumentActions, GeometryTransfer, RhinoLaunch.* Reservations, grants and receipts are
the journal's rows; a call that was repeated finds what an earlier one left. A create/open
saves the document it replaces to the contested file (`open`), or saves nothing there
(`load`); what it opens may be the contested file. Observations: the file that is
opened is neither reserved nor compared with the documents of other Rhinos
(`native-actions.ts` 194-211), so a Rhino may open it after another task's save has listed
the others and before it is written; `OneWriterPerFile` says that nothing else is overlooked
(`loaded`); failed imports may leave partial objects, by design; a launch whose
process identity was never recorded cannot be resolved by a retry (`waitForReady`)
and blocks further launches of its task.

*ScriptStore, RhinoScripts.* Every file operation of the lock is a step. A writer that dies
between creating and writing its lock leaves an unreadable lock that a person removes,
as documented. An observer reads a record outside of the lock (`Look`), judges it by the
state of its owner then (`Judge`), asks Rhino (`Ask`) and records what it found
(`Conclude`): anything may happen between these, and `Update` compares versions as the code
does. A run whose runner was found dead is "died" in the model, `notStarted` with that
reason in the code, because it says less: see finding 5.
The quota counts records at their bounded sizes (about 92 kB against the
reserve of 128,000): one unit for a revision, an edit, a run and a run's file, and
`Reserve` for a result. What runs that are not over may still need is set aside for them
(`Pending`). A write is a temporary file and a rename; a process that dies between them, or
whose write fails, leaves a file of any size up to the record's (`left`), which `usage`
counts. `counted` is what the last admission or edit saw of it. Hence `QuotaKept`: the
records and what was counted stay within the quota. With what deaths left since then the
directory can exceed it, and no code prevents that: outcomes are recorded without asking
for room, by design, and the next admission is refused.

*ScriptText.* Pure functions: a patched text is compared with a reference definition that
says for each line where it comes from, a diff must lead from one text to the other,
pages put together must give the text.

*InstanceProfiles.* Lifecycle IDs are GUIDs, so "Replaced" cannot be reached in the product.
Observations: temporary files left by a crash between write and rename are never removed;
the pointer `connection.json` is last-writer-wins and left out.

*BrowserConnection, Conversations.* The user acts on a snapshot of any age. A connection may
be lost so that the tab is told, or become half-open (`cut`): then only the deadline of the
tab's own probe, or of its connecting, ends it (`Expire`). Observation: a
repeated submit that was accepted is answered with an error while the host stops; its
effect stays single.

*ToolPolicy.* The parts `policy`, `faults` and `windows` take an agent and a window without
and with damage, and two windows that change the key. A file that is made anew, at the first
use or by a repair, starts an epoch of its own, so that no session keeps what an earlier
file offered it. Reset and repair orphan the protected key entry; damage of the settings file and its marker together is not modelled.

## 3. Runs

| Run | Instance | States | Shows |
|---|---|---|---|
| `progress` | *queue*: 2 external items (queue of 1), 1 lifecycle item. *slots*: a root, three dependent children, a later root, 1 worker. *leases*: root and child on one process, 1 operation each, 2 cancels | 624,102 | one pump, no lost wake-up, the contract, every item answered; every accepted task settles |
| `transport` | *fence*: 2 hosts, 2 clients, 2 tasks (Rhino; pair), 1 grant, 2 operations. *store*: 3 IDs, 3 sizes, room for 2 reservations. *rpc*: 2 calls with one ID, 2 generations, 1 expiry. *policy*, *faults*, *windows*: an agent and a window, the same with damage, two windows and two keys. *turn*: 2 edits, 2 turns, 1 lost reply, 1 failing call, 1 act of a person | 1,196,821 | scopes cover what is open; work runs in its own scope; an admitted host finds no scope of an earlier one; results are stable; outcomes tell execution, once per retention; only offered tools run, with a live key; a turn accounts for its edits |
| `scheduler` | *scheduler*: root and child on one process, 2 turns, 2 operations, 2 cancels, 1 crash. *steering*: 3 inputs, a question, 1 failure, 1 crash. *profiles*: 3 processes under 2 process IDs, 2 lifecycles, 1 failing file operation. *documents*: a root on a definition and its model, a child on another model, 1 tool each, 2 acts of a person, 1 fault | 3,316,052 | native work exclusive; settled is resolved; nothing unknown is built on or done again before its review; steering is truthful; scans take the dead; tools keep their documents |
| `scheduler_wait` | root and child on one process | | **violated**: finding 1 |
| `lifecycle` | 1 start, 1 stop, 1 restart in any order, exit, health threshold 2 | 410,956 | the announced state is true; restarts are answered |
| `lifecycle_stop` | 1 start, 1 stop | | **violated**: finding 2 |
| `hosts` | *host*: a Rhino, a launcher, 2 hosts, 2 intents. *attachments*: 2 lifecycles of a process, 3 clients each, 1 fault. *readiness*: a tool, a background task, one of each disturbance | 296,820 | one current host; one fenced lifecycle; released work is over; readiness is sound; a live Rhino reattaches; waiting tools are answered |
| `attachments_restart` | the *attachments* part | | **violated**: finding 3 |
| `native` | *documents*: a root and a task on one file, 1 save each, a handoff that may open the file itself, 1 fault. *transfer*: 2 exports, 2 imports. *launch*: 3 requests. *lock*: 3 processes, 2 crashes. *runs*: 2 processes, 1 batch of 2. *quota*: 2 batches, 1 edit, 1 death in a write. *patch*, *read*: all texts up to 4 and 5 characters | 1,771,608 | one writer per file; receipts tell effects; handoffs end; imports bring what was exported; no replacement; one script writer; run records true; quota kept; texts right |
| `script_death` | 2 processes, 1 run, 1 death | | **violated**: finding 5 |
| `ui` | *one tab* and *two tabs* with one host; *commands* of a tab: 2 threads, 2 requests, 1 loss, 1 stop | 846,400 | patches fit; a text is sent once; work follows threads and deleted ones are gone; a tab is served, whatever becomes of its connection |
| `browser_view` | one tab, 2 clicks, 1 loss | | **violated**: finding 4 |

Every action of every module fires in a passing run, and each property of a passing
run has a mutant: a plausible bug (a dropped guard, a swapped order, a forgotten
reset) that makes TLC find it violated. Mutated forms stand beside the definition
they replace, named `Definition_WhatIsWrong`.

### Bounds and why they are enough
The theorems of section 5 hold for every value of the constants. What follows says why the
instances of the runs meet the cases: it is what stands behind the properties that are only
model-checked, and what made the runs find invariants that were not inductive.

- *Dispatcher* (`queue`): three items let a cancelled head, a late item and a running one
  coexist; the capacity is reached with one queued item. The parts `slots` and `leases` hold
  the scheduler's two ways of waiting: for a slot, with a chain of dependent children, and
  for the lease of a process.
- *Fence*: two hosts suffice to supersede and to be superseded, the two bindings
  cover every kind of scope.
- *Store*: two reservations fill it, a third is refused, the oversized result takes
  the replacement path. *RPC*: one supersession, one re-use of an ID after its result
  was dropped; two calls under one ID are the duplicate case.
- *Turn*: two edits, so that a first and a later one differ; two turns, so that what
  one leaves is found by the next; one disturbance of each kind at any point.
- *Tool policy*: one tool that needs a key and is offered on demand meets every
  check; damage and two windows are parts of their own because they do not meet.
- *Scheduler*: `MaxTurns = 2` allows one question, `MaxOps` two operations per turn,
  `MaxCancelled` two cancels, `MaxRestarts = 1` one crash at any point. Two
  tasks on a process are what exclusion and recovery are about; the chain of five tasks
  is what slots and dependencies are about, and needs no operations.
- *Steering*: three inputs are one consumed, one in delivery and one behind it.
- *Profiles*: three processes under two IDs are the re-used ID; time has one step, the
  end of the retention. *Documents of tools*: a lost activation of one task, the other
  task in its documents, and a person who switches away and back.
- *Lifecycle*: `MaxStarts = MaxStops = MaxRestarts = 1`, in any order, before or
  during each other. A restart from Stopped is a second start; a stop's observer
  may stop again.
- *Hosts*: two hosts race, the second of them also replaces the first; three clients of a
  lifecycle are the current one, the one that a recovery makes and a late one.
- *Native*: a file version before, between and after two writers; each actor once more
  than the journal should allow. A script batch of two items has a first and a last.
- *Browser*: one change of the journal, of the status and of the selection, one loss, known
  to the tab or half-open, at any point; two tabs only compete for control. Two requests are
  a first and one that overtakes or repeats it; two threads are what exclusion between
  threads is about.

Deadlock checking is off where the system may stop: all items answered, nothing
submitted, every command given.

### Fairness
- *Dispatcher*: weak fairness of the UI thread's steps and of a thread that promised to
  post or to answer; none for submitters, cancellers or the clock.
- *Scheduler*: weak fairness of the host's own steps (the event loop runs what is ready)
  for each task (`HostStep`) and of the refresh timer; strong fairness of `RunEnds`, because
  a model's turn ends although it may call tools before; none for Rhino, for the person or for submissions.
  `AcceptedSettles` therefore exempts states that wait for a person or for the review of
  an unknown outcome.
- *Lifecycle*: weak fairness of pool threads and of a request once begun; adapter
  calls return (each has a deadline). Strong fairness of `AcquireStop` and of the restart's
  `AcquireStart`, because `SemaphoreSlim` serves its waiters although health reports
  take the gate again and again. Reports, observers and Rhino's exit are not fair.
- *Hosts*: weak fairness of each process's own next step and of timers (the refresh, the
  plug-in's registration while it is not registered); strong fairness of the two-second
  reconnect loop, which other processes' file changes interrupt; Rhino's UI thread and the
  client of the readiness wait go on. Crashes, stops and faults are not fair.
- *Native*: the host's steps and Rhino's UI thread go on in document actions.
- *Browser*: the backend's publication timer, the tab's reconnect, probe, its deadline and
  the receipt of what is on the wire; the host answers what it received, restarts, and ends its tasks.
  Clicks, losses and stops are not fair.

## 4. Findings

1. `scheduler_wait`, `WaitingSuffices` (`task-service.ts:277`). The wait reason at
   line 496 says "Stop or wait for the affected task". If a root's tool leaves its scope
   uncertain, the process is fenced while the root runs; a child it delegated there
   stays queued; the root waits for the child, the child for the recovery of the
   process, and recovery refuses a task that is not yet uncertain. Waiting does not
   suffice, only stopping does.
2. `lifecycle_stop`, `StopDetaches` (`LifecycleController.cs:427`). A stop announced
   after the start's last check and before its token is cancelled is overwritten by
   Running; its job then finds Running and is ignored. If admission was reopened first,
   the stop's closing comes after it: HopperCode is Running and refuses all work. A health
   report's transition (lines 138, 151) loses a stop the same way.
3. `attachments_restart`, `OneLifecyclePerProcess` (`registry.ts:56`). A restarted host
   loads every stored attachment as recovering, the detached ones included, so that two
   lifecycles of one process count as attached, which line 92 refuses.
4. `browser_view`, `HistoryFollowsSelection` (`backend.ts:112`). The key of the last
   publication outlives the socket it was sent to: a tab that selects another thread
   while it is disconnected can wait for that thread for ever while status frames keep its
   connection alive.
5. `script_death`, `DispatchedStaysUncertain` (`rhino-script-execution.ts:205`).
   `reconcileRun` reads a run outside of the writer lock. If the read says "prepared" and
   the owner, another process, then journals the dispatch, sends the run and dies, the
   observer finds it dead and its `update` replaces "dispatching" by the terminal
   "notStarted": the version differs, but the change is terminal and the claim the same
   (173-183). The journal then says "died before dispatch" of a run that Rhino may execute,
   although `docs/rhino-script-workspace.md:44` promises that a dispatched item remains
   uncertain. `RunTellsEffect` says what holds of such a run: it has no runner any more,
   so it is not sent again.

## 5. Proofs

47 theorems and 385 lemmas in eight modules, all checked to the last leaf. They hold for
every value of the constants: any number of items, hosts, tasks, processes, windows,
clients and documents, any capacity and any bound on faults. Nothing is assumed but the
named ASSUMEs on the constants, which TLC evaluates on every run: limits are numbers (and
positive where the code refuses zero), sentinels are not members of the sets they stand
outside of, and a few facts about the inputs that the code checks: a binding names at least one
document (`native-runtime.ts` 506-530), a script run has at least one item
(`rhino-script-execution.ts` 329, `rh-run-script.ts` 73), and the quota is at least one byte
(`rhino-script-store.ts` 31).

Each argument has the same shape. An inductive invariant is a conjunction of named parts,
which TLC checked before it was proved; there is a lemma for each action, or for each kind
of step (a runner that writes, an observer that writes, Rhino going on), that says the step
keeps it; the property follows from the invariant. Where a part is an instance in a
run of several, `PartsBehave` (`TurnBehaves`, `SchedulerBehaves`, `DocumentsBehave`)
shows that in a behaviour of the run the part behaves as it does alone, and the theorem is
about the run's specification. Profiles and steering share a failure counter, and the
tool policy, the script journal and the browser occur with several settings: their invariants are proved
for the run directly.

| Module | Theorems | Properties of runs they state |
|---|---|---|
| `OrderedDispatcherProofs` | `TypeCorrect`, `PumpsNeverNest`, `WakeupsNeverLost`, `ShutdownFinal`, `AnswersTellExecution`, `ContractKept` | the dispatcher's invariants, and that it refines `DispatcherContract` (`ImplementsContract`) |
| `RpcExchangeProofs` | `ExchangeInvariant`, `CallersToldTruth`, `IdleVerdictHolds`, `ReservationsKept`, `RetainedResultsStable` | `OutcomeTellsExecution` |
| `TransportProofs` | `NativeScopesKnown`, `NoWorkInForeignScope`, `ScopesHaveOneOwner`, `NoStaleScopeAfterRecovery`, `TerminalResultsStable`, `EditsAccountedFor`, `KeyInUseKept`, `OnlyOfferedAreSent` | `ScopeCoversNative`, `WorkRunsInOwnScope`, `AdmissionIsCurrent`, `TerminalIsStable`, `TurnAccountsForEdits`, `LiveKeyKept`, `OnlyOfferedToolsRun` |
| `TurnsProofs` | `NativeAlone`, `SettledResolved`, `ReviewComesFirst`, `RootsTakeTurns`, `WorkersLimited`, `DocumentsKept`, `OnlyTheDeadAreTaken`, `InputsToldTruly` | `NativeExclusive`, `SettledIsResolved`, `ReviewedFirst`, `ToolsKeepDocuments`, `ScansTakeTheDead`, `SteeringIsTruthful` |
| `LifecycleControllerProofs` | `LifecycleInvariant`, `AnnouncedStateTrue`, `ProfilesKnown`, `AdmissionFollows`, `StartsFindNothing` | `AnnouncedStateIsTrue` |
| `SharedHostingProofs` | `HostIsUnique`, `LifecycleIsFenced`, `ReleasedIsOver`, `ReadinessIsSound` | `OneCurrentHost`, `OneFencedLifecycle`, `ReleasedWorkIsOver`, `ReadinessSound` |
| `NativeWorkProofs` | `TypeCorrect`, `FileHasOneWriter`, `OnlyTheExportArrives`, `ReceiptsTellEffect`, `NoSecondRhino`, `WritersExcludeEachOther`, `JournalTellsEffect`, `WorkspaceStaysInQuota` | `OneWriterPerFile`, `ImportsWhatWasExported`, `ReceiptTellsEffect`, `NoReplacement`, `OneWriter`, `RunTellsEffect`, `QuotaKept` |
| `UiProofs` | `PatchesReachTheirBase`, `TextsAreSentOnce`, `WorkStaysWithItsThread` | `PatchesFit`, `SentOnce`, `WorkFollowsThreads` |

### What the invariants say, and why they are needed

*Dispatcher.* `PumpInv == TypeInv /\ OnePumpInFlight /\ NoLostWakeup`: an enqueue may skip
posting only because `_pumpPosted` stands for a pump that is really on its way, and a pump
that empties its turn may leave items behind only because the end of the turn posts the
next. `ItemInv` says that an item is in one place and that whoever holds it owes the answer.
`ContractKept` maps the initial state and every step to the contract or to a stutter.

*Exchange.* `ExchangeInv`: a job under way has its reservation and is the only one of its
operation (`ReservationInv`); what is being serialised, retained, on the wire or told is
true of the call it is for (`CompletingInv`, `RetainedInv`, `ToldInv`); each further job of
an operation is paid for by an expired result (`CountInv`). A result that is retained is
not dropped while its call may still ask, which is what makes recovery truthful.

*Fence.* `FenceInv` adds to `ScopeCoversNative` what holds of the request between the two
critical sections (`WorkInv`: it saw only scopes of its owner, and a begin has reserved its
scope) and of document transitions and recovery (`IdleInv`). A scope has one owner
(`OneScopeOwner`) and is of the generation that is admitted (`AdmissionIsCurrent`): an
attachment that finds a scope of an earlier one admits its host to nothing but recovery.

*Turn.* `TurnInv`: what the client knows of a transaction and what is really open may differ
only by a call that is in flight or lost, which is then noted as uncertain (`Knows`,
`LateFits`); finishing closes what it found (`FinishFits`, `StagesFit`); the host knows of
the fence's scope. It follows that every edit sent while edits were accepted ran inside a
native transaction, whatever is lost, late, or done by a person.

*Tool policy.* `PolicyInv`: an offer of the current epoch is not older than the switch that made
it (`OfferFits`), and the key entries a change has yet to write or remove are not the one
the settings name (`KeyFits`, `SaveFits`), although windows overlap and stop half-way.

*Scheduler.* An unknown outcome belongs to the latest turn of a task that has not settled
(`UnknownInv`); until that task is uncertain it keeps the lease of its process
(`LeaseInv`); so what Rhino still executes is unknown to the journal, not reviewed, and alone
(`NativeInv`). `PumpInv` says that the part of the snapshot the pump has not read is
current. *Documents of tools*: the lease covers every activation Rhino may still execute
(`HolderInv`). *Profiles*: a marker tells a death, with a time that is not before it; a process
ID has one running process; what a scan remembers was true when it read it. *Steering*: the
records of the journal, the chain, the driver and the model agree on each input's place.

*Lifecycle.* What a job has made, at each of its places, is what is there (`StartInv`,
`StopInv`, `ReportInv`); jobs overlap only through the announced state, which the
invariant ties to the job.

*Hosts.* The owner of the journal is the owner of the endpoint and published itself
(`OwnerInv`, `JournalInv`, `DiscoveryInv`). *Attachments*: the client of an instance is the one
the registry and the fence know, and an admission is behind a finished recovery
(`ConnectionInv`, `AdmissionInv`, `RecoveryInv`). *Readiness*: a status no background task spoiled tells the
canvas, and an answer that came too early leaves a signal behind (`StatusInv`, `HearingInv`).

*Documents, transfers, launches.* What Rhino may still do holds the reservation
(`NativeInv`), a receipt follows its operation (`HandoffInv`), a manifest is of the version
Rhino exported (`ExportInv`), and a request has at most one process whose fate is unknown
(`LaunchInv`).

*Script journal.* `JournalInv`: a runner that works owns its batch and its later items are
untouched, so nobody but it sends them (`RunnerFits`); what an observer saw is either the current
version or an older one (`ObserverFits`); a result that was found stays what became of the
run. An observer and a runner may both write: the version decides, and a later, weaker
record never replaces a terminal one. A terminal record may be judged from a read that is
too old, though: of a run recorded "died" the invariant knows only that its owner has no
runner any more, and neither has the owner of a run that an observer is about to record so
(`OwnersGone`). *Writer lock*: `LockInv`.

*Quota*. That the usage is within the quota is not inductive: a result arrives when it
arrives and is recorded without asking for room. `QuotaInv` charges a run with all it may
need from its admission on (`Charged`: its entry, its file, and `Reserve` while it is not
over or holds a result, `Owing`), and says that a result has a file and that a run that is
over has one (`RunFileFits`). What the store's check adds up, usage and `Pending`, covers
the charge (`ChargeCovers`), so an edit or a batch that passes it keeps the charge within
the quota; what happens to a run later never raises it (`RecordIsCharged`). Temporary files
only become more (`LeftGrows`), and who asks for room counts those there are: hence
`counted <= left`, and the charge with what was counted stays within the quota.

*Tabs.* `TabInv`: the snapshot being written, or the last one written, is what the tab will
hold when all that is on its wire has arrived (`BaseFits`, with `Holds`), and so is, at its
place, the base of each patch on the wire (`PatchFits`). A tab whose socket ends loses what was
on the wire and its base together, whether it was told at once or found out by its deadline,
which is why nothing more is needed about sockets.

*Commands.* `CommandInv`: live work is in one live thread, and a text became work at most
once for each request that carries it and has its receipt (`WorkInv`); while such a request
is pending its text stays in the composer, alone there (`DraftInv`); so a text has no more
requests than times it was offered (`OfferInv`), however often each of them is sent.
`GoneInv`: nothing asked of a deleted thread is on record, and its files that remain are
noted for removal.

### What stays with TLC
- Liveness under fairness and ENABLED: `EveryItemAnswered`, `RestartAnswered`,
  `AcceptedSettles`, `LiveRhinoReattaches`, `Settles`,
  `HandoffEnds`, `TabIsServed`.
- What a recursion over data computes, which would need induction: `TextIsRight` (patches,
  diffs, pages).

Every other invariant and action property of a passing run is stated by a theorem.

### What the proofs changed in the model
An invariant that did not go through was each time checked against the source first.
- `ToolPolicy`: the first file starts an epoch (`NewEpoch`), as a repair does. Without it
  a session could carry an offer over a file that was made anew. The part `faults` begins
  with the settings of its own bounds.
- `RpcExchange`: a failed operation's result may be large too.
- `OrderedDispatcher.Queued` binds its disjuncts as the code's condition does.
- `RhinoScripts`: a run's record holds a result or none, so the usage is a sum of
  cardinalities, which is what the store adds up at its bounded sizes; a quota of zero,
  which the store refuses, is excluded.
- `BrowserConnection`: what a tab will hold is stated by position (`Holds`, `Gives`); the
  key of no snapshot is none of the keys. `Conversations.Reply` removes the answered
  request by its position, and `OneLiveThread` says of two threads with work that they are one.
- The ASSUMEs on bindings, profiles, calls of a transfer, and script items were stated as
  strongly as the code checks them, and no stronger than the proofs need.

## 6. Plan

Done: the dispatcher with its contract; the fence, the store and the exchange; the scheduler
with crash, recovery and liveness; the lifecycle; host lifetime, attachments, readiness;
document actions, transfers, launches; the browser; tool policy; saved scripts; agent
transactions; steering; profiles; bound documents; and the theorems of section 5.

Next:
1. `AgentTurn` over `RpcExchange` in place of its own lost replies, and the step by step
   refinement between them.
2. `RpcExchange` over the fence's full state, beyond its generation.
3. The commands about providers, models and tool settings of the browser's backend.

## 7. Not modelled, and why

- *Wire contracts*: schemas, identifiers and their validation; messages are taken as
  well-formed, and a refused one as an answer "failed".
- *Rhino and Grasshopper operations, the code runner*: sequential calls into Rhino on its
  UI thread; what surrounds them (dispatcher, fence, segments, undo records) is modelled.
- *Graph and script services, tools and plug-ins*: pure data mapping without state; the
  line patches are in `ScriptText`.
- *Browser history, rendering, dialogs, provider settings*: projections and user interface.
- *Node resolver, build and release*: looks for files and packages them.
- *Usage budgets, plans and conversation metadata* of the journal, and schema migrations.
- `NodeHealthMonitor` is modelled by its reports; the production composition does not
  start it.
- Memory growth of `_retiredAttachments` and `_consumedGrants` has no functional bound to
  check.

## 8. Running

    tlc -workers 2 -config MCProgress.cfg MCProgress.tla
    tlapm OrderedDispatcherProofs.tla

Each run takes at most a few minutes with two workers. A run's module and configuration are
in `PROJECT.json` under `runs`; the mapping from each definition to the lines it translates
is under `map`.
