----------------------------- MODULE SharedHosting -----------------------------
(***************************************************************************)
(* The shared host and the Rhinos that attach to it, in one run: who may   *)
(* be the host (Rhinos, Launchers and Hosts race for it), what a host      *)
(* knows of the lifecycles of one Rhino process (at most MaxStarts starts  *)
(* of HopperCode, MaxClients clients), and how the callers of the facade   *)
(* (Tools, and its Background tasks) wait for the Grasshopper of their     *)
(* Rhino.  In a behaviour one part acts, the others rest in an initial     *)
(* state.                                                                  *)
(***************************************************************************)
EXTENDS Naturals, Sequences, FiniteSets

CONSTANTS Rhinos, Launchers, Hosts, NoOne, Gone, MaxRevision, MaxFailures,
          MaxStarts, MaxClients, MaxQueue, MaxFaults,
          Tools, Background, Docs, NoDoc, MaxMoves, MaxSyncs, MaxLosses, MaxCalls

VARIABLES part,
          control, discovery, owner, host, journal, launcher, rhino, seen, known, failures,
          alive, up, starts, native, work, op, registry, instance, clients, registered,
          queue, reg, refresh, recovery, faults,
          capability, loaded, hook, canvas, current, ui, sync, orphan, request, run, queued,
          wakeup, waiting, told, closed, moves, syncs, losses, calls, missed, stale

H == INSTANCE SharedHostLifetime WITH None <- NoOne
A == INSTANCE Attachments
G == INSTANCE GrasshopperReadiness WITH registry <- capability, Callers <- Tools

ASSUME HostingAssumption ==
    H!LifetimeAssumption /\ A!AttachmentAssumption /\ G!ReadinessAssumption

hostVars == <<control, discovery, owner, host, journal, launcher, rhino, seen, known, failures>>
attachVars == <<alive, up, starts, native, work, op, registry, instance, clients, registered,
                queue, reg, refresh, recovery, faults>>
readinessVars == <<capability, loaded, hook, canvas, current, ui, sync, orphan, request, run,
                   queued, wakeup, waiting, told, closed, moves, syncs, losses, calls, missed, stale>>
vars == <<part, hostVars, attachVars, readinessVars>>

Init ==
    /\ part \in {"host", "attachments", "readiness"} /\ H!Init /\ A!Init /\ G!Init
    /\ part # "readiness" => capability = "not_loaded"
HostPart == part = "host" /\ UNCHANGED <<part, attachVars, readinessVars>>
AttachPart == part = "attachments" /\ UNCHANGED <<part, hostVars, readinessVars>>
ReadinessPart == part = "readiness" /\ UNCHANGED <<part, hostVars, attachVars>>
Next == (HostPart /\ H!Next) \/ (AttachPart /\ A!Next) \/ (ReadinessPart /\ G!Next)

\* The fairness of SharedHostLifetime, of Attachments and of GrasshopperReadiness.
Fairness ==
    /\ \A h \in Hosts : WF_vars(HostPart /\ H!HostStep(h))
    /\ \A l \in Launchers :
         WF_vars(HostPart /\ H!LauncherStep(l)) /\ WF_vars(HostPart /\ H!LauncherExits(l))
    /\ \A r \in Rhinos :
         SF_vars(HostPart /\ H!Reconnect(r)) /\ WF_vars(HostPart /\ H!RegisterDone(r))
    /\ WF_vars(AttachPart /\ A!RefreshStarts)
    /\ \A l \in A!Lifecycles :
         /\ WF_vars(AttachPart /\ A!PluginRegisters(l) /\ l \notin registered /\ queue[l] = <<>>)
         /\ WF_vars(AttachPart /\ A!NativeRecovers(l)) /\ WF_vars(AttachPart /\ A!WorkRuns(l))
         /\ WF_vars(AttachPart /\ A!WorkEnds(l)) /\ WF_vars(AttachPart /\ A!RegistrationStep(l))
         /\ WF_vars(AttachPart /\ A!RefreshStep(l)) /\ WF_vars(AttachPart /\ A!RecoveryStep(l))
    /\ WF_vars(ReadinessPart /\ G!UiStep) /\ WF_vars(ReadinessPart /\ G!ClientStep)

Spec == Init /\ [][Next]_vars
FairSpec == Spec /\ Fairness

\* At most one host works on the journal, and one that serves is the published host
\* of the current intent.
OneCurrentHost == H!SingleHost /\ H!ServesCurrentIntent
\* A live Rhino finds its host again, and its running lifecycle is ready again unless
\* somebody has to decide.
LiveRhinoReattaches == H!LiveRhinoReattaches /\ A!ReadyAgain
\* One lifecycle of a process is connected at a time, and work is admitted only behind
\* the fence of that connection.
OneFencedLifecycle == A!OneLifecycleConnected /\ A!ReadyIsFenced
\* Work that a recovery released cannot run any more.
ReleasedWorkIsOver == A!ReleasedWorkIsOver
\* A tool starts Grasshopper once, hears that it is ready, and finds its document.
ReadinessSound == G!TypeOK /\ G!StartsOnce /\ G!ReadyIsHeard /\ G!DocumentIsKnown
\* Every tool that waits for Grasshopper is answered.
Settles == G!Settles
\* The rule of the registry: one lifecycle of a process is attached.
OneLifecyclePerProcess == A!OneLifecyclePerProcess
=============================================================================
