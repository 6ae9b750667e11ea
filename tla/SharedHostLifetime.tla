------------------------- MODULE SharedHostLifetime -------------------------
(***************************************************************************)
(* The singleton Node host: the control and discovery files, the launchers *)
(* that Rhino attachments start, the detached hosts they spawn, and the    *)
(* registrations that keep a host alive (src/host/shared/control.ts,       *)
(* ensure-host.ts, lifetime.ts, main.ts, SharedNativeHost.cs).             *)
(* Processes share only files and two loopback ports.  A port belongs to a *)
(* process and dies with it; a file stays.  A section under the lock port  *)
(* is one step, everything between two sections is not.                    *)
(***************************************************************************)
EXTENDS Naturals, FiniteSets

CONSTANTS Rhinos,       \* Rhino processes with one attachment each
          Launchers,    \* slots for short-lived --ensure-host processes
          Hosts,        \* slots for detached host processes
          None,         \* no file, no process, nobody
          Gone,         \* the epoch of a host that has exited
          MaxRevision,  \* bound: revisions of the intent
          MaxFailures   \* bound: crashes, signals, errors and missed deadlines

LifetimeAssumption ==
    /\ MaxRevision \in Nat \ {0} /\ MaxFailures \in Nat
    /\ None \notin Hosts \cup Rhinos /\ Gone \notin Hosts /\ Gone # None

VARIABLES control,    \* control.json: desired state and revision
          discovery,  \* discovery.json: epoch and revision
          owner,      \* the host bound to the endpoint port
          host,       \* each host process: what it has done and its pinned revision
          journal,    \* hosts that have the journal open
          launcher,   \* each launcher process
          rhino,      \* each Rhino process and its attachment
          seen,       \* hosts whose hasSeenRhino is set
          known,      \* Rhino processes in the journal's attachment records
          failures
vars == <<control, discovery, owner, host, journal, launcher, rhino, seen, known, failures>>
files == <<control, discovery>>

Starting == {"born", "pinned", "owning", "published", "recovering"}
Stages == {"none"} \cup Starting \cup {"ready", "closing", "released"}
StopSteps == {"no", "asked", "written"}
LaunchSteps == {"none", "check", "occupied", "spawn", "poll", "done", "failed"}
RhinoSteps == {"idle", "starting", "attached", "registering"}

Epochs == Hosts \cup {Gone, None}
NoHost == [stage |-> "none", revision |-> 0, stop |-> "no"]
NoLauncher == [step |-> "none", revision |-> 0, for |-> None]
DownRhino == [up |-> FALSE, attached |-> FALSE, epoch |-> None, force |-> FALSE, http |-> None]

TypeOK ==
    /\ control \in [desired : {"running", "stopped"}, revision : 1..MaxRevision] \cup {None}
    /\ discovery \in [epoch : Hosts \cup {Gone}, revision : 1..MaxRevision] \cup {None}
    /\ owner \in Hosts \cup {None}
    /\ host \in [Hosts -> [stage : Stages, revision : 0..MaxRevision, stop : StopSteps]]
    /\ journal \subseteq Hosts /\ seen \subseteq Hosts /\ known \subseteq Rhinos
    /\ launcher \in [Launchers -> [step : LaunchSteps, revision : 0..MaxRevision,
                                   for : Rhinos \cup {None}]]
    /\ rhino \in [Rhinos -> [up : BOOLEAN, attached : BOOLEAN, epoch : Epochs,
                             force : BOOLEAN, http : Epochs]]
    /\ failures \in 0..MaxFailures

Init ==
    /\ control = None /\ discovery = None /\ owner = None
    /\ host = [h \in Hosts |-> NoHost]
    /\ journal = {} /\ seen = {} /\ known = {}
    /\ launcher = [l \in Launchers |-> NoLauncher]
    /\ rhino = [r \in Rhinos |-> DownRhino]
    /\ failures = 0

Fails == failures < MaxFailures /\ failures' = failures + 1
Alive(h) == host[h].stage # "none"
AliveEpoch(e) == e \in Hosts /\ Alive(e)
Intends(revision) == control # None /\ control.desired = "running" /\ control.revision = revision

\* The health answer that a launcher of this revision accepts: the discovery
\* of its own revision, confirmed by the host that holds the endpoint.
Healthy(revision) ==
    /\ discovery # None /\ discovery.revision = revision
    /\ owner # None /\ owner = discovery.epoch /\ host[owner].stage = "ready"

-----------------------------------------------------------------------------
(* Launchers *)

Waits(r) == \E l \in Launchers : launcher[l].for = r
Idle(r) == rhino[r].up /\ ~Waits(r) /\ rhino[r].http = None

\* An explicit start takes a new revision of an intent that already runs.
Ensure_AlwaysBumps(r, explicit, force) ==
    /\ Idle(r)
    /\ \E l \in Launchers :
         /\ launcher[l].step = "none"
         /\ LET initialized ==
                  IF control = None THEN [desired |-> "running", revision |-> 1]
                  ELSE IF explicit /\ control.revision < MaxRevision
                  THEN [desired |-> "running", revision |-> control.revision + 1]
                  ELSE control
            IN /\ control' = initialized
               /\ launcher' = [launcher EXCEPT ![l] =
                    [step |-> IF initialized.desired = "running" THEN "check" ELSE "failed",
                     revision |-> initialized.revision, for |-> r]]
    /\ rhino' = [rhino EXCEPT ![r].force = force]
    /\ UNCHANGED <<discovery, owner, host, journal, seen, known, failures>>
\* A launcher process starts for attachment r, whose recovery gate is free.
Ensure(r, explicit, force) ==
    /\ Idle(r)
    /\ \E l \in Launchers :
         /\ launcher[l].step = "none"
         /\ LET initialized ==
                  IF control = None THEN [desired |-> "running", revision |-> 1]
                  ELSE IF explicit /\ control.desired = "stopped" /\ control.revision < MaxRevision
                  THEN [desired |-> "running", revision |-> control.revision + 1]
                  ELSE control
            IN /\ control' = initialized
               /\ launcher' = [launcher EXCEPT ![l] =
                    [step |-> IF initialized.desired = "running" THEN "check" ELSE "failed",
                     revision |-> initialized.revision, for |-> r]]
    /\ rhino' = [rhino EXCEPT ![r].force = force]
    /\ UNCHANGED <<discovery, owner, host, journal, seen, known, failures>>

\* HopperCode starts its attachment, or asks a running one for the browser.
StartAttachment(r) == ~rhino[r].attached /\ Ensure(r, TRUE, TRUE)
EnsureRunning(r) == rhino[r].attached /\ Ensure(r, TRUE, FALSE)

\* The loop compares epochs and does not look for the process.
SameLiveHost_ByFile(r) == discovery # None /\ discovery.epoch = rhino[r].epoch
\* The two-second loop: nothing to do while the registered host's process lives.
SameLiveHost(r) == discovery # None /\ discovery.epoch = rhino[r].epoch /\ AliveEpoch(discovery.epoch)
Reconnect(r) ==
    /\ rhino[r].attached /\ control # None /\ control.desired = "running"
    /\ ~SameLiveHost(r)
    /\ Ensure(r, FALSE, FALSE)

Step(l, from, to) ==
    /\ launcher[l].step \in from
    /\ launcher' = [launcher EXCEPT ![l].step = to]
    /\ UNCHANGED <<files, owner, host, journal, rhino, seen, known>>

\* A healthy host is found, by the first check or by either waiting loop, whose
\* snapshot of the intent must still be this launcher's.
LauncherFinds(l) ==
    /\ Healthy(launcher[l].revision)
    /\ launcher[l].step # "check" => Intends(launcher[l].revision)
    /\ Step(l, {"check", "occupied", "poll"}, "done")
    /\ UNCHANGED failures

\* Nothing healthy: the endpoint is watched until it is free or healthy.
LauncherChecks(l) ==
    /\ ~Healthy(launcher[l].revision)
    /\ Step(l, {"check"}, IF owner # None THEN "occupied" ELSE "spawn")
    /\ UNCHANGED failures
LauncherSeesFree(l) ==
    owner = None /\ Step(l, {"occupied"}, "spawn") /\ UNCHANGED failures

\* A newer intent ends the attempt, in either loop or before spawning.
LauncherSuperseded(l) ==
    /\ ~Intends(launcher[l].revision)
    /\ Step(l, {"occupied", "spawn", "poll"}, "failed")
    /\ UNCHANGED failures

\* The check of the intent and the spawn are not atomic: the host reads the
\* intent for itself.
LauncherSpawns(l) ==
    /\ launcher[l].step = "spawn" /\ Intends(launcher[l].revision)
    /\ \E h \in Hosts :
         /\ ~Alive(h)
         /\ host' = [host EXCEPT ![h] = [NoHost EXCEPT !.stage = "born"]]
    /\ launcher' = [launcher EXCEPT ![l].step = "poll"]
    /\ UNCHANGED <<files, owner, journal, rhino, seen, known, failures>>

\* The deadline of a waiting launcher, when there is nobody left to wait for.
Hopeless(l) ==
    \A h \in Hosts : Alive(h) => host[h].stage \in {"closing", "released"} /\ owner # h
LauncherDeadline(l) ==
    Hopeless(l) /\ Step(l, {"poll"}, "failed") /\ UNCHANGED failures

\* A deadline that strikes early, a busy lock, an error.
LauncherFails(l) == Fails /\ Step(l, {"check", "occupied", "spawn", "poll"}, "failed")

LauncherStep(l) ==
    \/ LauncherFinds(l) \/ LauncherChecks(l) \/ LauncherSeesFree(l)
    \/ LauncherSuperseded(l) \/ LauncherSpawns(l) \/ LauncherDeadline(l)

-----------------------------------------------------------------------------
(* The attachment in Rhino *)

RhinoStarts(r) ==
    /\ ~rhino[r].up /\ ~Waits(r)
    /\ rhino' = [rhino EXCEPT ![r].up = TRUE]
    /\ UNCHANGED <<files, owner, host, journal, launcher, seen, known, failures>>

IsCurrentRegistration(r) ==
    /\ rhino[r].attached /\ SameLiveHost(r)
    /\ Intends(discovery.revision)

\* EnsureAsync goes on when its launcher has exited: a failure ends the start
\* (or this turn of the loop); a current registration is left alone; otherwise
\* the files are read again and the registration is posted to the endpoint.
EndLauncher(l) == launcher' = [launcher EXCEPT ![l] = NoLauncher]
LauncherExits(l) ==
    /\ launcher[l].step \in {"done", "failed"}
    /\ EndLauncher(l)
    /\ LET r == launcher[l].for
           posts == /\ launcher[l].step = "done" /\ r # None
                    /\ rhino[r].force \/ ~IsCurrentRegistration(r)
                    /\ discovery # None /\ Intends(discovery.revision)
                    /\ AliveEpoch(discovery.epoch)
       IN rhino' = IF posts THEN [rhino EXCEPT ![r].http = discovery.epoch] ELSE rhino
    /\ UNCHANGED <<files, owner, host, journal, seen, known, failures>>

\* The registration reaches the host it names: the endpoint is that host's,
\* its runtime exists and it is not closing.  From here on the process counts
\* as alive for the lifetime monitor (native.register keeps its pid).
Registrable(h) == owner = h /\ host[h].stage = "ready"
RegisterDone(r) ==
    /\ rhino[r].http \in Hosts
    /\ LET h == rhino[r].http IN
         IF Registrable(h)
         THEN /\ rhino' = [rhino EXCEPT ![r].attached = TRUE, ![r].epoch = h, ![r].http = None]
              /\ known' = known \cup {r} /\ seen' = seen \cup {h}
         ELSE /\ rhino' = [rhino EXCEPT ![r].http = None]
              /\ UNCHANGED <<known, seen>>
    /\ UNCHANGED <<files, owner, host, journal, launcher, failures>>

\* The answer is lost (five-second client timeout): the host keeps the
\* registration, the attachment does not.
RegisterLost(r) ==
    /\ Fails
    /\ rhino[r].http \in Hosts
    /\ LET h == rhino[r].http IN
         IF Registrable(h) THEN known' = known \cup {r} /\ seen' = seen \cup {h}
                           ELSE UNCHANGED <<known, seen>>
    /\ rhino' = [rhino EXCEPT ![r].http = None]
    /\ UNCHANGED <<files, owner, host, journal, launcher>>

\* Detach, StopLocal and a failed start cancel what the attachment waits for;
\* the launcher itself is not killed.
Orphan(r) == [l \in Launchers |-> IF launcher[l].for = r THEN [launcher[l] EXCEPT !.for = None]
                                  ELSE launcher[l]]
Detach(r) ==
    /\ rhino[r].attached
    /\ rhino' = [rhino EXCEPT ![r] = [DownRhino EXCEPT !.up = TRUE]]
    /\ launcher' = Orphan(r)
    /\ UNCHANGED <<files, owner, host, journal, seen, known, failures>>

\* Rhino quits or crashes.  Its pid in the journal's records names no process.
RhinoExits(r) ==
    /\ rhino[r].up
    /\ rhino' = [rhino EXCEPT ![r] = DownRhino]
    /\ launcher' = Orphan(r)
    /\ known' = known \ {r}
    /\ UNCHANGED <<files, owner, host, journal, seen, failures>>

-----------------------------------------------------------------------------
(* Hosts *)

SetStage(h, stage) == host' = [host EXCEPT ![h].stage = stage]

\* The runtime is loaded before the endpoint is acquired.
HostInitialize_OpensJournal(h) ==
    /\ host[h].stage = "born"
    /\ IF control # None /\ control.desired = "running"
       THEN /\ host' = [host EXCEPT ![h].stage = "pinned", ![h].revision = control.revision]
            /\ journal' = journal \cup {h}
       ELSE host' = [host EXCEPT ![h] = NoHost] /\ UNCHANGED journal
    /\ UNCHANGED <<files, owner, launcher, rhino, seen, known, failures>>
\* startSharedHost without --explicit-start: a stopped intent ends it at once.
HostInitialize(h) ==
    /\ host[h].stage = "born"
    /\ IF control # None /\ control.desired = "running"
       THEN host' = [host EXCEPT ![h].stage = "pinned", ![h].revision = control.revision]
       ELSE host' = [host EXCEPT ![h] = NoHost]
    /\ UNCHANGED <<files, owner, journal, launcher, rhino, seen, known, failures>>

\* The endpoint is bound under the lock, and only for an unchanged intent.
AcquireOwnership(h) ==
    /\ host[h].stage = "pinned"
    /\ IF Intends(host[h].revision) /\ owner = None
       THEN owner' = h /\ SetStage(h, "owning")
       ELSE SetStage(h, "closing") /\ UNCHANGED owner
    /\ UNCHANGED <<files, journal, launcher, rhino, seen, known, failures>>

Publish(h) ==
    /\ host[h].stage = "owning"
    /\ IF Intends(host[h].revision)
       THEN /\ discovery' = [epoch |-> h, revision |-> host[h].revision]
            /\ SetStage(h, "published")
       ELSE /\ SetStage(h, "closing")
            /\ UNCHANGED discovery
    /\ UNCHANGED <<control, owner, journal, launcher, rhino, seen, known, failures>>

OpenJournal(h) ==
    /\ host[h].stage = "published"
    /\ SetStage(h, "recovering") /\ journal' = journal \cup {h}
    /\ UNCHANGED <<files, owner, launcher, rhino, seen, known, failures>>

\* The backend exists and the timers run.
BecomeReady(h) ==
    /\ host[h].stage = "recovering"
    /\ SetStage(h, "ready")
    /\ UNCHANGED <<files, owner, journal, launcher, rhino, seen, known, failures>>

\* Any step of the start-up may throw; the catch clause closes what exists.
StartupFails(h) ==
    /\ Fails
    /\ host[h].stage \in Starting \ {"born"}
    /\ SetStage(h, "closing")
    /\ UNCHANGED <<files, owner, journal, launcher, rhino, seen, known>>

\* The browser's stop command: admission closes, the intent is read and then
\* replaced under the lock, and close() follows on the next turn of the loop.
StopHost(h) ==
    /\ host[h].stage = "ready" /\ host[h].stop = "no" /\ control.revision < MaxRevision
    /\ host' = [host EXCEPT ![h].stop = "asked"]
    /\ UNCHANGED <<files, owner, journal, launcher, rhino, seen, known, failures>>
StopWrites(h) ==
    /\ host[h].stop = "asked" /\ host[h].stage = "ready" /\ control.revision < MaxRevision
    /\ control' = [desired |-> "stopped", revision |-> control.revision + 1]
    /\ host' = [host EXCEPT ![h].stop = "written"]
    /\ UNCHANGED <<discovery, owner, journal, launcher, rhino, seen, known, failures>>
StopCloses(h) ==
    /\ host[h].stop = "written" /\ host[h].stage = "ready"
    /\ SetStage(h, "closing")
    /\ UNCHANGED <<files, owner, journal, launcher, rhino, seen, known, failures>>

\* monitorHostLifetime: no recorded Rhino process lives and none is registering,
\* and one was seen before or the first minute is over (which an attachment that
\* is on its way outruns unless something fails).
ShouldStopAfterRhinoExit(h) ==
    /\ ~\E r \in Rhinos : rhino[r].up /\ (r \in known \/ rhino[r].http = h)
    /\ h \in seen \/ ~\E r \in Rhinos : Waits(r)
LifetimeCloses(h) ==
    /\ host[h].stage = "ready" /\ ShouldStopAfterRhinoExit(h)
    /\ SetStage(h, "closing")
    /\ UNCHANGED <<files, owner, journal, launcher, rhino, seen, known, failures>>

\* SIGINT, SIGTERM (stop-shared-host.mjs): the intent stays as it is.
Signal(h) ==
    /\ Fails
    /\ host[h].stage = "ready"
    /\ SetStage(h, "closing")
    /\ UNCHANGED <<files, owner, journal, launcher, rhino, seen, known>>

\* The cleanup: tasks, native connections and the agent first, then the
\* endpoint, last the journal.
CleanupReleases(h) ==
    /\ host[h].stage = "closing"
    /\ SetStage(h, "released")
    /\ owner' = IF owner = h THEN None ELSE owner
    /\ UNCHANGED <<files, journal, launcher, rhino, seen, known, failures>>

\* The process ends; its ports are free and its epoch names nobody.
Dies(h) ==
    /\ host' = [host EXCEPT ![h] = NoHost]
    /\ owner' = IF owner = h THEN None ELSE owner
    /\ journal' = journal \ {h} /\ seen' = seen \ {h}
    /\ discovery' = IF discovery # None /\ discovery.epoch = h
                    THEN [discovery EXCEPT !.epoch = Gone] ELSE discovery
    /\ rhino' = [r \in Rhinos |->
                   [rhino[r] EXCEPT !.epoch = IF @ = h THEN Gone ELSE @,
                                    !.http = IF @ = h THEN None ELSE @]]
    /\ UNCHANGED <<control, launcher, known>>
HostExits(h) == host[h].stage = "released" /\ Dies(h) /\ UNCHANGED failures
\* Cleanup that takes longer than five seconds is cut off.
CleanupDeadline(h) == host[h].stage = "closing" /\ Dies(h) /\ UNCHANGED failures
HostCrashes(h) == Alive(h) /\ Fails /\ Dies(h)

HostStep(h) ==
    \/ HostInitialize(h) \/ AcquireOwnership(h) \/ Publish(h) \/ OpenJournal(h)
    \/ BecomeReady(h) \/ StopWrites(h) \/ StopCloses(h)
    \/ HostExits(h) \/ CleanupDeadline(h)

-----------------------------------------------------------------------------
Next ==
    \/ \E r \in Rhinos : \/ RhinoStarts(r) \/ StartAttachment(r) \/ EnsureRunning(r)
                         \/ Reconnect(r) \/ RegisterDone(r) \/ RegisterLost(r)
                         \/ Detach(r) \/ RhinoExits(r)
    \/ \E l \in Launchers : LauncherStep(l) \/ LauncherExits(l) \/ LauncherFails(l)
    \/ \E h \in Hosts : \/ HostStep(h) \/ CleanupReleases(h) \/ StartupFails(h) \/ StopHost(h)
                        \/ LifetimeCloses(h) \/ Signal(h) \/ HostCrashes(h)

Spec == Init /\ [][Next]_vars

\* Processes that run do go on, launchers are given process slots, the loop of
\* an attachment fires; people, crashes and missed deadlines may stay away.
Fairness ==
    /\ \A h \in Hosts : WF_vars(HostStep(h))
    /\ \A l \in Launchers : WF_vars(LauncherStep(l)) /\ WF_vars(LauncherExits(l))
    /\ \A r \in Rhinos : SF_vars(Reconnect(r)) /\ WF_vars(RegisterDone(r))
FairSpec == Spec /\ Fairness

-----------------------------------------------------------------------------
(* Properties *)

\* At most one host works on the journal: every host that has it open, and has
\* not yet closed everything else, holds the endpoint.  Ownership comes before
\* the journal on the way up and outlives the tasks on the way down.
OneJournalUser ==
    \A h \in journal : host[h].stage # "released" => owner = h

\* What a launcher reads is what runs: a host that has published and still holds
\* the endpoint is the one the discovery file names, whatever losers of the race
\* for the endpoint, older hosts and other launchers did meanwhile.
DiscoveryNamesOwner ==
    \A h \in Hosts : host[h].stage \in {"published", "recovering", "ready"} =>
        owner = h /\ discovery = [epoch |-> h, revision |-> host[h].revision]

\* A host that serves does so by the current intent; only its own stop, already
\* on its way to close, may have replaced it.
ServesCurrentIntent ==
    \A h \in Hosts : host[h].stage = "ready" /\ host[h].stop # "written" =>
        Intends(host[h].revision)

SingleHost == OneJournalUser /\ DiscoveryNamesOwner

\* An attachment finds its way back: whatever crashed, it ends registered with a
\* live host, unless the person stops the host, detaches or quits.
Settled(r) == rhino[r].attached => AliveEpoch(rhino[r].epoch)
LiveRhinoReattaches ==
    \A r \in Rhinos : rhino[r].attached ~> (Settled(r) \/ control.desired = "stopped")
=============================================================================
