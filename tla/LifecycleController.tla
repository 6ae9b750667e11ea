------------------------- MODULE LifecycleController -------------------------
(***************************************************************************)
(* The attachment of one Rhino process to the shared host:                 *)
(* LifecycleController (dotnet/Hopper.Core/Lifecycle), the commands of     *)
(* HopperHostFacade that drive it and the reports of NodeHealthMonitor     *)
(* (dotnet/Hopper.Rhino).                                                  *)
(*                                                                         *)
(* Commands run on Rhino's UI thread, everything else on pool threads.     *)
(* Work that takes time runs under the command gate, one job at a time.    *)
(* Stop requests do not take that gate: they announce Stopping under the   *)
(* intent gate, close admission, cancel the start in progress and only     *)
(* then schedule the job that cleans up.  Several transitions of the jobs  *)
(* take neither gate after the state they were decided on was read.        *)
(*                                                                         *)
(* Abstractions.  A snapshot keeps its state, instance and health          *)
(* failures.  A cleanup's effects are one step; the transition that        *)
(* follows it is another.  The attachment to the host (IManagedChild-      *)
(* Process) can always be dropped, as SharedHostProcessAdapter does it.    *)
(* One background observer at a time is inside a stop request.             *)
(***************************************************************************)
EXTENDS Naturals, FiniteSets

CONSTANTS
    HealthFailureThreshold,
    MaxStarts, MaxStops, MaxRestarts   \* bounds on the person's commands

ASSUME ConstantsAssumption ==
    /\ HealthFailureThreshold \in Nat \ {0}
    /\ {MaxStarts, MaxStops, MaxRestarts} \subseteq Nat

Ids == 1 .. MaxStarts + MaxRestarts     \* each starts at most one instance
Stops == 1 .. 2 * MaxStops + MaxRestarts   \* RequestStop's observer asks again
Requesters == {"ui", "observer", "restarter", "exit"}

VARIABLES
    \* LifecycleController
    snap,            \* _snapshot: state, id (0: none), failures
    lastId,          \* instances created so far
    activeStart,     \* _activeStartCancellation, named by its instance; 0: null
    cancelled,       \* start tokens that were cancelled
    disposed,        \* start tokens that were disposed
    stopTask,        \* _stopTask; 0: null
    stops,           \* what became of each stop
    restart,         \* _restartTask: where it is and the stop it awaits
    closing,         \* _closing
    job,             \* the holder of _commandGate
    request,         \* EnsureStopRequested, per requester
    \* what it manages
    admission, transport, child, profiles,
    \* the facade and the health monitor
    starter,         \* the start in the background
    startCancelled,  \* _pendingStart was cancelled
    observers,       \* scheduled ObserveStopCompletionAsync tasks
    monitor,         \* the instance being polled; 0: none
    reports,         \* polled instances with a report under way
    commands         \* the commands given so far, by kind

startIds == <<lastId, activeStart, cancelled, disposed>>
stopVars == <<stopTask, stops, request>>
controller == <<snap, startIds, stopVars, restart, closing, job>>
resources == <<admission, transport, child, profiles>>
startVars == <<starter, startCancelled>>
polling == <<monitor, reports>>
facade == <<startVars, observers, polling, commands>>
vars == <<controller, resources, facade>>

\* A job's "of" is the stop it completes or the instance whose poll reports.
NoJob == [kind |-> "idle", pc |-> "none", id |-> 0, of |-> 0,
          by |-> "none", made |-> {}, ok |-> TRUE]
NoRequest == [pc |-> "idle", stop |-> 0, token |-> 0]

Init ==
    /\ snap = [state |-> "Stopped", id |-> 0, failures |-> 0]
    /\ lastId = 0 /\ activeStart = 0 /\ cancelled = {} /\ disposed = {}
    /\ stopTask = 0 /\ stops = [s \in Stops |-> "none"]
    /\ restart = [pc |-> "idle", stop |-> 0]
    /\ closing = FALSE /\ job = NoJob
    /\ request = [r \in Requesters |-> NoRequest]
    /\ admission = FALSE /\ transport = "off" /\ child = FALSE /\ profiles = {}
    /\ starter = "idle" /\ startCancelled = FALSE /\ observers = 0
    /\ monitor = 0 /\ reports = {}
    /\ commands = [start |-> 0, stop |-> 0, restart |-> 0]

Startable == snap.state \in {"Stopped", "Faulted"}
Enter(state) == snap' = [snap EXCEPT !.state = state]

(***************************************************************************)
(* A stop request.                                                         *)
(***************************************************************************)
JoinsStop == snap.state = "Stopping" /\ stopTask # 0
AnswersStop == snap.state = "Stopped" \/ JoinsStop
NextStop == Cardinality({s \in Stops : stops[s] # "none"}) + 1

\* The section under the intent gate, when it accepts the request.
AcceptStop(r) ==
    /\ ~AnswersStop
    /\ stopTask' = NextStop
    /\ stops' = [stops EXCEPT ![NextStop] = "asked"]
    /\ Enter("Stopping")
    /\ request' = [request EXCEPT ![r] = [pc |-> "close", stop |-> NextStop,
                                          token |-> activeStart]]

UiFree == request["ui"].pc = "idle" /\ request["exit"].pc = "idle" /\ ~closing
CancelPendingStart == startCancelled' = (startCancelled \/ starter # "idle")

Command(kind, max) ==
    /\ UiFree
    /\ commands[kind] < max
    /\ commands' = [commands EXCEPT ![kind] = @ + 1]

RequestStart ==
    /\ Command("start", MaxStarts)
    /\ Startable /\ starter = "idle"
    /\ starter' = "scheduled" /\ startCancelled' = FALSE /\ monitor' = 0
    /\ UNCHANGED <<controller, resources, observers, reports>>

\* The monitor is reset after the request; AfterRequest does it.
RequestStop ==
    /\ Command("stop", MaxStops)
    /\ CancelPendingStart
    /\ \/ AcceptStop("ui") /\ UNCHANGED monitor
       \/ AnswersStop /\ monitor' = 0
          /\ UNCHANGED <<snap, stopVars>>
    /\ UNCHANGED <<startIds, restart, closing, job, resources, starter,
                   observers, reports>>

RequestRestart ==
    /\ Command("restart", MaxRestarts)
    /\ CancelPendingStart
    /\ monitor' = 0
    /\ \/ /\ restart.pc = "idle" /\ Startable
          /\ restart' = [pc |-> "scheduled", stop |-> 0]
          /\ UNCHANGED <<snap, stopVars>>
       \/ /\ restart.pc = "idle" /\ JoinsStop
          /\ restart' = [pc |-> "scheduled", stop |-> stopTask]
          /\ UNCHANGED <<snap, stopVars>>
       \/ /\ restart.pc = "idle" /\ ~Startable /\ AcceptStop("ui")
          /\ restart' = [pc |-> "asked", stop |-> NextStop]
       \/ /\ restart.pc # "idle"
          /\ UNCHANGED <<snap, stopVars, restart>>
    /\ UNCHANGED <<startIds, closing, job, resources, starter, observers,
                   reports>>

\* ObserveStopCompletionAsync asks for the stop again to await its completion.
ObserveStop ==
    /\ observers > 0 /\ request["observer"].pc = "idle"
    /\ observers' = observers - 1
    /\ \/ AcceptStop("observer")
       \/ AnswersStop /\ UNCHANGED <<snap, stopVars>>
    /\ UNCHANGED <<startIds, restart, closing, job, resources, startVars,
                   polling, commands>>

\* The flag and the section under the intent gate are one step.
CloseForRhinoExit ==
    /\ UiFree
    /\ closing' = TRUE
    /\ CancelPendingStart
    /\ Enter("Stopping")
    /\ request' = [request EXCEPT !["exit"] =
                      [pc |-> "close", stop |-> 0, token |-> activeStart]]
    /\ UNCHANGED <<startIds, stopTask, stops, restart, job, resources,
                   starter, observers, polling, commands>>

CloseAdmission(r) ==
    /\ request[r].pc = "close"
    /\ admission' = FALSE
    /\ request' = [request EXCEPT ![r].pc = "cancel"]
    /\ UNCHANGED <<snap, startIds, stopTask, stops, restart, closing, job,
                   transport, child, profiles, facade>>

\* Cancelling a disposed source throws out of the request; the cleanup job is
\* then never scheduled.
Throws(token) == token \in disposed
ThrowRequest(r) ==
    /\ request[r].pc = "cancel"
    /\ Throws(request[r].token)
    /\ request' = [request EXCEPT ![r] = NoRequest]
    /\ stops' = IF r = "exit" THEN stops
                ELSE [stops EXCEPT ![request[r].stop] = "lost"]
    /\ restart' = IF r = "restarter" THEN [pc |-> "idle", stop |-> 0] ELSE restart
    /\ UNCHANGED <<snap, startIds, stopTask, closing, job, resources, facade>>

CancelActiveStart(r) ==
    /\ request[r].pc = "cancel"
    /\ ~Throws(request[r].token)
    /\ cancelled' = cancelled \cup ({request[r].token} \ {0})
    /\ request' = [request EXCEPT ![r] = NoRequest]

\* The rest of a stop request: CompleteStopAsync is scheduled, and whoever
\* asked goes on.
AfterRequest(r) ==
    /\ r # "exit"
    /\ CancelActiveStart(r)
    /\ stops' = [stops EXCEPT ![request[r].stop] = "queued"]
    /\ LET restarting == restart.pc = "asked" /\ restart.stop = request[r].stop
       IN  /\ restart' = IF restarting THEN [restart EXCEPT !.pc = "scheduled"]
                         ELSE restart
           /\ observers' = IF r = "ui" /\ ~restarting THEN observers + 1
                           ELSE observers
           /\ monitor' = IF r = "ui" /\ ~restarting THEN 0 ELSE monitor
    /\ UNCHANGED <<snap, lastId, activeStart, disposed, stopTask, closing, job,
                   resources, startVars, reports, commands>>

SignalExit ==
    /\ CancelActiveStart("exit")
    /\ transport' = IF transport = "on" THEN "stopping" ELSE transport
    /\ child' = FALSE
    /\ monitor' = 0
    /\ UNCHANGED <<snap, lastId, activeStart, disposed, stopTask, stops,
                   restart, closing, job, admission, profiles, startVars,
                   observers, reports, commands>>

(***************************************************************************)
(* The command gate.                                                       *)
(***************************************************************************)
Step(pc) == job' = [job EXCEPT !.pc = pc]
Release == job' = NoJob

\* CleanupResourcesAsync: the attachment is dropped; the transport may miss its
\* deadline, which keeps the profile; the profile may resist deletion.
CleanUp(id) ==
    /\ child' = FALSE
    /\ transport' \in IF transport = "off" THEN {"off"} ELSE {"off", "stopping"}
    /\ profiles' \in IF transport' = "off" THEN {profiles, profiles \ {id}}
                     ELSE {profiles}
Clean_IgnoresTransport(id) == id \notin profiles'
Clean(id) == transport' = "off" /\ id \notin profiles'

\* The transaction cleanup may fail although everything was torn down.
CleanUpThen(id, transactions, pc) ==
    /\ CleanUp(id)
    /\ \E ok \in IF ~Clean(id) THEN {FALSE}
                 ELSE IF transactions THEN BOOLEAN ELSE {TRUE} :
          job' = [job EXCEPT !.pc = pc, !.ok = ok]
    /\ UNCHANGED <<snap, startIds, stopVars, restart, closing, admission,
                   facade>>

\* A transport whose stop timed out still ends on its own.
TransportEnds ==
    /\ transport = "stopping"
    /\ transport' = "off"
    /\ UNCHANGED <<controller, admission, child, profiles, facade>>

(***************************************************************************)
(* Starting, from the facade or at the end of a restart.                   *)
(***************************************************************************)
\* Who ran the start goes on; a running instance is polled from now on.
Finish(by) ==
    /\ IF by = "starter"
       THEN starter' = "idle" /\ startCancelled' = FALSE /\ UNCHANGED restart
       ELSE /\ restart' = [pc |-> "idle", stop |-> 0]
            /\ UNCHANGED <<startVars>>
    /\ monitor' = IF snap.state = "Running" THEN snap.id ELSE monitor

StartInBackground ==
    /\ starter = "scheduled"
    /\ ~startCancelled
    /\ \/ Startable /\ starter' = "waiting"
          /\ UNCHANGED <<restart, startCancelled, monitor>>
       \/ ~Startable /\ Finish("starter")
    /\ UNCHANGED <<snap, startIds, stopVars, closing, job, resources,
                   observers, reports, commands>>

\* A cancelled start does not begin, or leaves the gate's queue.
AbandonStart ==
    /\ starter \in {"scheduled", "waiting"} /\ startCancelled
    /\ starter' = "idle" /\ startCancelled' = FALSE
    /\ UNCHANGED <<controller, resources, observers, polling, commands>>

\* CompleteRestartAsync up to its wait for the stop.
RestartInBackground ==
    /\ restart.pc = "scheduled"
    /\ request["restarter"].pc = "idle"
    /\ LET mustStop == restart.stop = 0 /\ snap.state # "Faulted" /\ ~AnswersStop
           stop == IF restart.stop = 0 /\ JoinsStop THEN stopTask ELSE restart.stop
       IN  \/ /\ closing
              /\ restart' = [pc |-> "idle", stop |-> 0]
              /\ UNCHANGED <<snap, stopVars>>
           \/ /\ ~closing /\ mustStop
              /\ AcceptStop("restarter")
              /\ restart' = [pc |-> "stopping", stop |-> NextStop]
           \/ /\ ~closing /\ ~mustStop
              /\ restart' = [pc |-> IF stop = 0 THEN "waiting" ELSE "stopping",
                             stop |-> stop]
              /\ UNCHANGED <<snap, stopVars>>
    /\ UNCHANGED <<startIds, closing, job, resources, facade>>

RestartAfterStop ==
    /\ restart.pc = "stopping" /\ request["restarter"].pc = "idle"
    /\ stops[restart.stop] = "done"
    /\ \/ snap.state = "Stopped" /\ restart' = [pc |-> "waiting", stop |-> 0]
          /\ UNCHANGED <<startVars, monitor>>
       \/ snap.state # "Stopped" /\ Finish("restarter")
    /\ UNCHANGED <<snap, startIds, stopVars, closing, job, resources,
                   observers, reports, commands>>

Waits(by) == IF by = "starter" THEN starter = "waiting" /\ ~startCancelled
             ELSE restart.pc = "waiting"

\* What a fault left is cleaned up before an instance is created.
FirstStep == IF snap.state = "Faulted" THEN "cleanOld" ELSE "begin"

AcquireStart(by) ==
    /\ job = NoJob /\ Waits(by)
    /\ \/ /\ ~closing /\ Startable
          /\ job' = [NoJob EXCEPT !.kind = "start", !.by = by, !.id = snap.id,
                                  !.pc = FirstStep]
          /\ IF by = "starter"
             THEN starter' = "running" /\ UNCHANGED restart
             ELSE restart' = [restart EXCEPT !.pc = "running"] /\ UNCHANGED starter
          /\ UNCHANGED <<startCancelled, monitor>>
       \/ (closing \/ ~Startable) /\ Finish(by) /\ UNCHANGED job
    /\ UNCHANGED <<snap, startIds, stopVars, closing, resources, observers,
                   reports, commands>>

Starting(pc) == job.kind = "start" /\ job.pc = pc

CleanOld == Starting("cleanOld") /\ CleanUpThen(job.id, FALSE, "cleanedOld")

\* A start that ends before it has a token.
EndStart ==
    /\ Release /\ Finish(job.by)
    /\ UNCHANGED <<startIds, stopVars, closing, resources, observers, reports,
                   commands>>

\* Reports Faulted whatever was announced meanwhile.
OldStays ==
    /\ Starting("cleanedOld") /\ ~job.ok
    /\ snap' = [snap EXCEPT !.state = "Faulted", !.id = job.id]
    /\ EndStart

ResumesBegin == Starting("begin") \/ (Starting("cleanedOld") /\ job.ok)

BeginStart ==
    /\ ResumesBegin /\ Startable
    /\ lastId' = lastId + 1
    /\ activeStart' = lastId + 1
    /\ snap' = [state |-> "Starting", id |-> lastId + 1, failures |-> 0]
    /\ job' = [job EXCEPT !.pc = "close", !.id = lastId + 1]
    /\ UNCHANGED <<cancelled, disposed, stopVars, restart, closing, resources,
                   facade>>

IgnoreStart == ResumesBegin /\ ~Startable /\ EndStart /\ UNCHANGED snap

CloseForStart ==
    /\ Starting("close")
    /\ admission' = FALSE
    /\ Step("resolve")
    /\ UNCHANGED <<snap, startIds, stopVars, restart, closing, transport,
                   child, profiles, facade>>

NextStage == [resolve |-> "transport", transport |-> "profile",
              profile |-> "child", child |-> "handshake", handshake |-> "open"]

\* One awaited stage of the start: the adapter answers, then cancellation, its
\* failure and Rhino's exit are looked at, in this order.  A cancelled start
\* leaves what it made to the stop.
Stage ==
    /\ job.kind = "start" /\ job.pc \in DOMAIN NextStage
    /\ \E ok \in BOOLEAN :
          /\ ok /\ job.pc = "transport" => transport = "off"
          /\ transport' = IF ok /\ job.pc = "transport" THEN "on" ELSE transport
          /\ profiles' = IF ok /\ job.pc = "profile" THEN profiles \cup {job.id}
                         ELSE profiles
          /\ child' = (child \/ (ok /\ job.pc = "child"))
          /\ job' = [job EXCEPT
                !.made = IF ok THEN @ \cup ({job.pc} \cap {"transport", "profile", "child"})
                         ELSE @,
                !.pc = IF job.id \in cancelled THEN "finally"
                       ELSE IF ~ok THEN "fail"
                       ELSE IF closing THEN "abort"
                       ELSE NextStage[@]]
    /\ UNCHANGED <<snap, startIds, stopVars, restart, closing, admission,
                   facade>>

\* The section under the intent gate that opens admission.  It asks whether the
\* start was cancelled, not whether a stop has been announced.
OpenStart ==
    /\ Starting("open")
    /\ Step("finally")
    /\ \/ /\ job.id \notin cancelled
          /\ admission' = TRUE
          /\ snap' = [state |-> "Running", id |-> job.id, failures |-> 0]
       \/ job.id \in cancelled /\ UNCHANGED <<snap, admission>>
    /\ UNCHANGED <<startIds, stopVars, restart, closing, transport, child,
                   profiles, facade>>

\* RollbackStartAsync: what this start made, in the order child, transport,
\* profile.
RollBack(pc) ==
    /\ child' = (child /\ "child" \notin job.made)
    /\ transport' \in IF "transport" \in job.made /\ transport # "off"
                      THEN {"off", "stopping"} ELSE {transport}
    /\ profiles' \in IF "profile" \in job.made /\ transport' = "off"
                     THEN {profiles, profiles \ {job.id}} ELSE {profiles}
    /\ Step(pc)
    /\ UNCHANGED <<snap, startIds, stopVars, restart, closing, admission,
                   facade>>

GivesWay == closing \/ snap.state = "Stopping"

FailStart ==
    /\ Starting("fail")
    /\ \/ snap.state # "Stopping" /\ RollBack("failed")
       \/ snap.state = "Stopping" /\ Step("finally")
          /\ UNCHANGED <<snap, startIds, stopVars, restart, closing,
                         resources, facade>>

AbortStart == Starting("abort") /\ RollBack("finally")

FailedStart ==
    /\ Starting("failed")
    /\ Step(IF GivesWay THEN "finally" ELSE "fault")
    /\ UNCHANGED <<snap, startIds, stopVars, restart, closing, resources,
                   facade>>

FaultStart ==
    /\ Starting("fault")
    /\ snap' = [state |-> "Faulted", id |-> job.id, failures |-> 0]
    /\ Step("finally")
    /\ UNCHANGED <<startIds, stopVars, restart, closing, resources, facade>>

FinishStart ==
    /\ Starting("finally")
    /\ activeStart' = 0
    /\ disposed' = disposed \cup {job.id}
    /\ Release
    /\ Finish(job.by)
    /\ UNCHANGED <<snap, lastId, cancelled, stopVars, closing, resources,
                   observers, reports, commands>>

(***************************************************************************)
(* CompleteStopAsync.                                                      *)
(***************************************************************************)
CompleteStop(s) ==
    /\ stops' = [stops EXCEPT ![s] = "done"]
    /\ stopTask' = IF stopTask = s THEN 0 ELSE stopTask

MustClean_Always == ~closing
MustClean == ~closing /\ snap.state = "Stopping"

IgnoreStop_Silent(s) ==
    stops' = [stops EXCEPT ![s] = "running"] /\ UNCHANGED stopTask
IgnoreStop(s) == CompleteStop(s)

AcquireStop(s) ==
    /\ job = NoJob /\ stops[s] = "queued"
    /\ \/ /\ MustClean
          /\ job' = [NoJob EXCEPT !.kind = "stop", !.pc = "clean", !.of = s,
                                  !.id = snap.id]
          /\ stops' = [stops EXCEPT ![s] = "running"]
          /\ UNCHANGED stopTask
       \/ ~MustClean /\ IgnoreStop(s) /\ UNCHANGED job
    /\ UNCHANGED <<snap, startIds, request, restart, closing, resources,
                   facade>>

CleanForStop ==
    /\ job.kind = "stop" /\ job.pc = "clean"
    /\ CleanUpThen(job.id, TRUE, "settle")

SettleStop ==
    /\ job.kind = "stop" /\ job.pc = "settle"
    /\ snap' = IF job.ok THEN [state |-> "Stopped", id |-> 0, failures |-> 0]
               ELSE [snap EXCEPT !.state = "Faulted", !.id = job.id]
    /\ CompleteStop(job.of)
    /\ Release
    /\ UNCHANGED <<startIds, request, restart, closing, resources, facade>>

(***************************************************************************)
(* Health reports.                                                         *)
(***************************************************************************)
\* The monitor probes the instance it was started for; the report does not say
\* which instance that is.  What the probe found matters once the report has
\* the command gate, and is chosen there.
Probe ==
    /\ monitor # 0 /\ monitor \notin reports
    /\ reports' = reports \cup {monitor}
    /\ UNCHANGED <<controller, resources, startVars, observers, monitor,
                   commands>>

\* The poll goes on while its instance is still the running one.
EndReport(id) ==
    /\ reports' = reports \ {id}
    /\ monitor' = IF monitor = id /\ snap'.state # "Running" THEN 0 ELSE monitor

AcquireReport(id) ==
    /\ job = NoJob /\ id \in reports
    /\ \/ /\ ~closing /\ snap.state = "Running"
          /\ job' = [NoJob EXCEPT !.kind = "report", !.pc = "note", !.id = snap.id,
                                  !.of = id]
          /\ UNCHANGED <<snap, polling>>
       \/ (closing \/ snap.state # "Running")
          /\ UNCHANGED <<snap, job>> /\ EndReport(id)
    /\ UNCHANGED <<startIds, stopVars, restart, closing, resources, startVars,
                   observers, commands>>

Reporting(pc) == job.kind = "report" /\ job.pc = pc

Quiet == <<startIds, stopVars, restart, closing, startVars, observers,
           commands>>

\* The snapshot was read when the gate was taken; failures only change here and
\* with a new instance, so they are read now.
Tolerated(failures) == failures < HealthFailureThreshold

NoteHealth ==
    /\ Reporting("note")
    /\ \E failures \in {0, snap.failures + 1} :
          \/ /\ failures = snap.failures
             /\ UNCHANGED snap /\ EndReport(job.of) /\ Release
          \/ /\ Tolerated(failures) /\ failures # snap.failures
             /\ snap' = [state |-> "Running", id |-> job.id, failures |-> failures]
             /\ EndReport(job.of) /\ Release
          \/ /\ ~Tolerated(failures)
             /\ snap' = [state |-> "Faulted", id |-> job.id, failures |-> failures]
             /\ Step("close") /\ UNCHANGED <<polling>>
    /\ UNCHANGED <<Quiet, resources>>

CloseForFault ==
    /\ Reporting("close")
    /\ admission' = FALSE
    /\ Step("clean")
    /\ UNCHANGED <<Quiet, snap, transport, child, profiles, reports, monitor>>

CleanForFault == Reporting("clean") /\ CleanUpThen(job.id, TRUE, "judge")

JudgeFault ==
    /\ Reporting("judge")
    /\ UNCHANGED snap
    /\ \/ (GivesWay \/ job.ok) /\ EndReport(job.of) /\ Release
       \/ ~GivesWay /\ ~job.ok /\ Step("fault") /\ UNCHANGED <<polling>>
    /\ UNCHANGED <<Quiet, resources>>

RefaultReport ==
    /\ Reporting("fault")
    /\ snap' = [snap EXCEPT !.state = "Faulted", !.id = job.id]
    /\ EndReport(job.of) /\ Release
    /\ UNCHANGED <<Quiet, resources>>

-----------------------------------------------------------------------------
StartStep ==
    \/ StartInBackground \/ AbandonStart
    \/ CleanOld \/ OldStays \/ BeginStart \/ IgnoreStart \/ CloseForStart
    \/ Stage \/ OpenStart \/ FailStart \/ AbortStart \/ FailedStart
    \/ FaultStart \/ FinishStart
StopStep == CleanForStop \/ SettleStop
RestartStep == RestartInBackground \/ RestartAfterStop
ReportStep == NoteHealth \/ CloseForFault \/ CleanForFault \/ JudgeFault
              \/ RefaultReport
RequestStep(r) == CloseAdmission(r) \/ ThrowRequest(r) \/ AfterRequest(r)

Next ==
    \/ RequestStart \/ RequestStop \/ RequestRestart \/ CloseForRhinoExit
    \/ ObserveStop \/ Probe \/ TransportEnds
    \/ \E r \in Requesters : RequestStep(r)
    \/ SignalExit
    \/ StartStep \/ StopStep \/ RestartStep \/ ReportStep
    \/ \E by \in {"starter", "restarter"} : AcquireStart(by)
    \/ \E s \in Stops : AcquireStop(s)
    \/ \E i \in Ids : AcquireReport(i)

\* Pool threads run what was scheduled, a request once begun runs to its end,
\* and every adapter call returns (each has a deadline).  SemaphoreSlim serves
\* its waiters, so nobody waits for the command gate forever while it is
\* released again and again.
Fairness ==
    /\ \A r \in Requesters : WF_vars(RequestStep(r))
    /\ WF_vars(StartStep \/ StopStep \/ ReportStep)
    /\ WF_vars(RestartStep)
    /\ SF_vars(AcquireStart("restarter"))
    /\ \A s \in Stops : SF_vars(AcquireStop(s))

Spec == Init /\ [][Next]_vars /\ Fairness

-----------------------------------------------------------------------------
(***************************************************************************)
(* Properties.                                                             *)
(***************************************************************************)
LifecycleStates == {"Stopped", "Starting", "Running", "Stopping", "Faulted"}

\* The types of the state; the failures of a Running instance stay below the
\* threshold at which ReportHealthCheckAsync declares it Faulted.
TypeOK ==
    /\ snap \in [state : LifecycleStates, id : Ids \cup {0},
                 failures : 0 .. HealthFailureThreshold]
    /\ snap.state = "Running" => snap.failures < HealthFailureThreshold
    /\ lastId \in Ids \cup {0} /\ activeStart \in Ids \cup {0}
    /\ cancelled \subseteq Ids /\ disposed \subseteq Ids
    /\ stopTask \in Stops \cup {0}
    /\ stops \in [Stops -> {"none", "asked", "queued", "running", "done", "lost"}]
    /\ restart.pc \in {"idle", "asked", "scheduled", "stopping", "waiting", "running"}
    /\ restart.stop \in Stops \cup {0}
    /\ closing \in BOOLEAN /\ admission \in BOOLEAN /\ child \in BOOLEAN
    /\ transport \in {"off", "on", "stopping"} /\ profiles \subseteq Ids
    /\ request \in [Requesters -> [pc : {"idle", "close", "cancel"},
                                   stop : Stops \cup {0}, token : Ids \cup {0}]]
    /\ starter \in {"idle", "scheduled", "waiting", "running"}
    /\ startCancelled \in BOOLEAN /\ observers \in 0 .. MaxStops
    /\ monitor \in Ids \cup {0} /\ reports \subseteq Ids
    /\ job.kind \in {"idle", "start", "stop", "report"}

\* The announced state is true.  Stopped: nothing of any instance is left, no
\* attachment, no transport, no profile with its credentials; starts that were
\* cancelled half-way, failed rollbacks and faulted instances all have to be
\* cleaned up before (CompleteStopUnderGateAsync, FailStartAsync).  Running: that
\* instance is attached, its transport runs and its profile exists, whatever
\* stops and reports raced with the start; Rhino's exit tears down without waiting.
AnnouncedStateIsTrue ==
    /\ snap.state = "Stopped" => ~child /\ transport = "off" /\ profiles = {}
    /\ snap.state = "Running" /\ ~closing =>
         child /\ transport = "on" /\ profiles = {snap.id}

\* The only profile on disk is that of the instance in the snapshot: cleanup
\* deletes no other, so a profile outside it would stay for good.
ProfileIsKnown == profiles \subseteq {snap.id}

\* External work is admitted only while Running, or while the closing of
\* admission that goes with the last transition is still on its way.
AdmissionFollowsState ==
    admission =>
        \/ snap.state = "Running"
        \/ \E r \in Requesters : request[r].pc = "close"
        \/ Reporting("close")

\* A start replaces nothing that still runs: when an instance is created,
\* everything of the previous one is gone.
StartFindsNothing ==
    [][lastId' # lastId => ~child /\ transport = "off" /\ profiles = {}]_vars

\* RestartAsync: whoever restarts gets an answer, also when its stop was somebody
\* else's, when Rhino closes, and when the stopped instance is restarted by
\* another command first; unless the request of the stop it awaits threw.
RestartAnswered ==
    restart.pc # "idle" ~> (restart.pc = "idle" \/ \E s \in Stops : stops[s] = "lost")

\* "HopperCodeStop | Detach this Rhino process" (docs/troubleshooting.md:7): a
\* stop that has completed left the process detached, unless Rhino is closing.
StopDetaches ==
    [][\A s \in Stops :
          stops[s] # "done" /\ stops'[s] = "done" => snap'.state # "Running" \/ closing]_vars

\* Every stop the controller accepted completes (LifecycleControllerTests.cs:65
\* awaits it).
StopCompletes ==
    \A s \in Stops : stops[s] # "none" ~> stops[s] = "done"
=============================================================================
