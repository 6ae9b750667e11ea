------------------------------ MODULE RhinoLaunch ------------------------------
(***************************************************************************)
(* Launches of additional Rhinos by one root task (rhino-launch.ts and     *)
(* windows-rhino-process.ts).  The record in the journal decides what a    *)
(* call may do: a new request starts a Rhino, a repeated one only looks    *)
(* after the Rhino it started.                                             *)
(***************************************************************************)
EXTENDS Naturals, FiniteSets

CONSTANTS Requests    \* stable request identities

VARIABLES record,     \* the launch record of each request
          call,       \* where the launch of a request is in the host
          known,      \* requests whose record holds the process identity
          rhino,      \* the Rhino a request has started
          spawns,     \* how many a request has started
          cancelled,  \* the task is cancelled (flag and signal)
          authorized  \* requests whose document the task may use
vars == <<record, call, known, rhino, spawns, cancelled, authorized>>

States == {"none", "accepted", "dispatched", "completed", "failed", "cancelled", "uncertain"}

TypeOK ==
    /\ record \in [Requests -> States]
    /\ call \in [Requests -> {"idle", "inspect", "allow", "spawn", "identify", "wait", "look"}]
    /\ known \subseteq Requests /\ authorized \subseteq Requests
    /\ rhino \in [Requests -> {"none", "starting", "ready", "exited"}]
    /\ spawns \in [Requests -> 0..2] /\ cancelled \in BOOLEAN

Init ==
    /\ record = [r \in Requests |-> "none"] /\ call = [r \in Requests |-> "idle"]
    /\ known = {} /\ authorized = {} /\ cancelled = FALSE
    /\ rhino = [r \in Requests |-> "none"] /\ spawns = [r \in Requests |-> 0]

\* update, and the call that ends or goes on.
Update(r, state, next) ==
    record' = [record EXCEPT ![r] = state] /\ call' = [call EXCEPT ![r] = next]

\* A timed-out launch is taken for a failed one.
Unresolved_NotTimedOut == \E r \in Requests : record[r] \in {"accepted", "dispatched"}
Unresolved == \E r \in Requests : record[r] \in {"accepted", "dispatched", "uncertain"}

\* A new request: the record before the first await.
Launch(r) ==
    /\ ~cancelled /\ record[r] = "none" /\ ~Unresolved
    /\ Update(r, "accepted", "inspect")
    /\ UNCHANGED <<known, rhino, spawns, cancelled, authorized>>
\* The same request again, while no call for it runs: it observes the Rhino of
\* the record, or fails when the process was never identified.
Retry(r) ==
    /\ ~cancelled /\ call[r] = "idle" /\ record[r] \in {"dispatched", "uncertain"}
    /\ IF r \in known THEN Update(r, record[r], "wait") ELSE Update(r, "uncertain", "idle")
    /\ UNCHANGED <<known, rhino, spawns, cancelled, authorized>>

Cancel ==
    /\ ~cancelled /\ cancelled' = TRUE
    /\ UNCHANGED <<record, call, known, rhino, spawns, authorized>>

\* The catch clause of the launch: before the dispatch nothing has started.
LaunchFails(r, notStarted) ==
    /\ Update(r, CASE cancelled -> "cancelled"
                   [] OTHER -> IF record[r] = "accepted" \/ notStarted THEN "failed"
                                                                      ELSE "uncertain", "idle")
    /\ UNCHANGED <<known, rhino, spawns, cancelled, authorized>>

\* The source Rhino is inspected; it may be gone, or the task.
InspectSource(r) ==
    /\ call[r] = "inspect"
    /\ IF cancelled THEN LaunchFails(r, FALSE)
       ELSE \/ LaunchFails(r, TRUE)
            \/ /\ call' = [call EXCEPT ![r] = "allow"]
               /\ UNCHANGED <<record, known, rhino, spawns, cancelled, authorized>>
\* A host that is stopping allows no launch.
AllowsLaunch(r) ==
    /\ call[r] = "allow"
    /\ IF cancelled THEN LaunchFails(r, FALSE)
       ELSE \/ LaunchFails(r, TRUE)
            \/ /\ Update(r, "dispatched", "spawn")
               /\ UNCHANGED <<known, rhino, spawns, cancelled, authorized>>
\* The child process: its error event, or its spawn event and the pid.
Spawn(r) ==
    /\ call[r] = "spawn"
    /\ \/ LaunchFails(r, TRUE)
       \/ /\ rhino' = [rhino EXCEPT ![r] = "starting"]
          /\ spawns' = [spawns EXCEPT ![r] = @ + 1]
          /\ Update(r, "dispatched", "identify")
          /\ UNCHANGED <<known, cancelled, authorized>>
\* inspectWindowsRhino: the query may fail or find the process gone.
Identify(r) ==
    /\ call[r] = "identify"
    /\ \/ LaunchFails(r, FALSE)
       \/ /\ rhino[r] # "exited" /\ known' = known \cup {r}
          /\ Update(r, "dispatched", "wait")
          /\ UNCHANGED <<rhino, spawns, cancelled, authorized>>

\* waitForReady: one round, which the query of the process splits in two.
Wait(r) ==
    /\ call[r] = "wait"
    /\ IF cancelled THEN Update(r, "cancelled", "idle") ELSE Update(r, record[r], "look")
    /\ UNCHANGED <<known, rhino, spawns, cancelled, authorized>>
\* Exited, ready and attached with one document (completeRhinoLaunch), timed out,
\* or another round.
Look(r) ==
    /\ call[r] = "look"
    /\ \/ /\ cancelled /\ Update(r, "cancelled", "idle") /\ UNCHANGED authorized
       \/ /\ ~cancelled /\ rhino[r] = "exited" /\ Update(r, "failed", "idle")
          /\ UNCHANGED authorized
       \/ /\ ~cancelled /\ rhino[r] = "ready" /\ Update(r, "completed", "idle")
          /\ authorized' = authorized \cup {r}
       \/ /\ ~cancelled /\ rhino[r] # "exited" /\ UNCHANGED authorized
          /\ \/ Update(r, record[r], "wait")
             \/ Update(r, "uncertain", "idle")
    /\ UNCHANGED <<known, rhino, spawns, cancelled>>

\* Rhino attaches by itself, or exits.
RhinoReady(r) ==
    /\ rhino[r] = "starting" /\ rhino' = [rhino EXCEPT ![r] = "ready"]
    /\ UNCHANGED <<record, call, known, spawns, cancelled, authorized>>
RhinoExits(r) ==
    /\ rhino[r] \in {"starting", "ready"} /\ rhino' = [rhino EXCEPT ![r] = "exited"]
    /\ UNCHANGED <<record, call, known, spawns, cancelled, authorized>>

Next ==
    \/ Cancel
    \/ \E r \in Requests :
         \/ Launch(r) \/ Retry(r) \/ InspectSource(r) \/ AllowsLaunch(r) \/ Spawn(r)
         \/ Identify(r) \/ Wait(r) \/ Look(r) \/ RhinoReady(r) \/ RhinoExits(r)

Spec == Init /\ [][Next]_vars

-----------------------------------------------------------------------------
\* However often the model repeats its requests, each starts one Rhino at most and
\* a running task never has two Rhinos it does not know to be ready or gone.
NoReplacement ==
    /\ \A r \in Requests : spawns[r] <= 1
    /\ ~cancelled =>
         Cardinality({r \in Requests : rhino[r] \in {"starting", "ready"} /\ r \notin authorized})
            <= 1
=============================================================================
