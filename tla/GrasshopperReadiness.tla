------------------------- MODULE GrasshopperReadiness -------------------------
(***************************************************************************)
(* How a tool waits until Grasshopper is usable.  Rhino's UI thread loads  *)
(* Grasshopper, registers its adapter and reports the active document into *)
(* the status that RuntimeStatusStore publishes; HopperHostFacade answers  *)
(* status and start requests on the same thread, and its background tasks  *)
(* copy the capability into the status meanwhile (SyncStatus: two reads    *)
(* and a write, each atomic, nothing around them).  The client             *)
(* (GrasshopperReadinessCoordinator) subscribes, reads, starts Grasshopper *)
(* once, and waits for an advisory wakeup or its deadline.  Wakeups may be *)
(* lost, requests may fail or be executed after their caller gave up.      *)
(***************************************************************************)
EXTENDS Naturals, FiniteSets

CONSTANTS Callers,   \* tools that call ensureReady
          Background,\* background tasks of the facade
          Docs,      \* Grasshopper documents
          NoDoc,
          MaxMoves, MaxSyncs, MaxLosses, MaxCalls

ReadinessAssumption ==
    /\ NoDoc \notin Docs /\ "ui" \notin Background
    /\ MaxMoves \in Nat /\ MaxSyncs \in Nat /\ MaxLosses \in Nat /\ MaxCalls \in Nat

VARIABLES registry,  \* the state in GrasshopperCapabilityRegistry
          loaded,    \* Grasshopper's assembly is loaded
          hook,      \* the adapter waits for Rhino's first idle callback
          canvas,    \* the document on Grasshopper's canvas
          current,   \* the Grasshopper part of RuntimeStatusStore
          ui,        \* what the UI thread is doing
          sync,      \* SyncStatus, by thread
          orphan,    \* a start request whose caller has given up is still queued
          request,   \* the request of the client, with the reply once there is one
          run,       \* the client's run; issued and starts count its start requests
          queued,    \* the wakeup gate holds a signal
          wakeup,    \* a wakeup is on its way
          waiting,   \* callers that wait, and whether they need a document
          told,      \* what a caller was told last
          closed,
          moves, syncs, losses, calls,
          missed,    \* a wakeup of this run was lost, or the answer it asked for
          stale      \* a background task has overwritten a report with older values
native == <<registry, loaded, hook, canvas, current, ui, sync, orphan, moves, syncs, stale>>
client == <<run, queued, waiting, told, closed, calls>>
vars == <<native, client, request, wakeup, losses, missed>>

Threads == Background \cup {"ui"}
MaybeDoc == Docs \cup {NoDoc}
Unready == {"not_installed", "not_loaded", "loading", "failed"}
NoSync == [at |-> "idle", doc |-> NoDoc, state |-> "loading"]
NoRun == [at |-> "none", issued |-> FALSE, starts |-> 0]
NoRequest == [kind |-> "none", taken |-> FALSE, reply |-> "none", doc |-> NoDoc]
Status(state, doc) == [state |-> state, doc |-> IF state = "ready" THEN doc ELSE NoDoc]

TypeOK ==
    /\ registry \in Unready \cup {"ready"} /\ loaded \in BOOLEAN /\ hook \in BOOLEAN
    /\ canvas \in MaybeDoc /\ current \in [state : Unready \cup {"ready"}, doc : MaybeDoc]
    /\ ui \in {"idle", "starting", "status", "read", "start"}
    /\ \A th \in Threads : sync[th].at \in {"idle", "document", "capability"}
    /\ run.at \in {"none", "subscribe", "first", "starting", "reading", "waiting", "last"}
    /\ run.starts \in 0..2 /\ queued \in BOOLEAN /\ wakeup \in BOOLEAN

Init ==
    /\ registry \in {"not_installed", "not_loaded"} /\ loaded = FALSE /\ hook = FALSE
    /\ canvas = NoDoc /\ current = Status(registry, NoDoc)
    /\ ui = "idle" /\ sync = [th \in Threads |-> NoSync] /\ orphan = FALSE
    /\ request = NoRequest /\ run = NoRun /\ queued = FALSE /\ wakeup = FALSE
    /\ waiting = [c \in Callers |-> "no"] /\ told = [c \in Callers |-> "none"] /\ closed = FALSE
    /\ moves = 0 /\ syncs = 0 /\ losses = 0 /\ calls = 0 /\ missed = FALSE /\ stale = FALSE

-----------------------------------------------------------------------------
(* The UI thread: Grasshopper's own events. *)
\* HostDocumentStatusCoordinator.Report: the status is replaced, then a wakeup sent.
Report_Silent(state, doc) ==
    /\ current' = Status(state, doc) /\ stale' = FALSE /\ UNCHANGED wakeup
Report(state, doc) ==
    /\ current' = Status(state, doc) /\ stale' = FALSE /\ wakeup' = TRUE

\* PriorityLoad.  Grasshopper may be loaded by a person, too.
Load ==
    /\ ui = "idle" /\ ~loaded
    /\ loaded' = TRUE /\ hook' = TRUE /\ registry' = "loading"
    /\ UNCHANGED <<canvas, current, ui, sync, orphan, moves, syncs, stale,
                   client, request, wakeup, losses, missed>>

\* OnRhinoIdle registers the adapter ...
Register ==
    /\ ui = "idle" /\ hook
    /\ hook' = FALSE /\ registry' = "ready" /\ ui' = "starting"
    /\ UNCHANGED <<loaded, canvas, current, sync, orphan, moves, syncs, stale,
                   client, request, wakeup, losses, missed>>
\* ... and starts its document tracker, which reports the document.
Started ==
    /\ ui = "starting" /\ ui' = "idle"
    /\ \/ Report("ready", canvas) /\ UNCHANGED registry
       \/ registry' = "failed" /\ Report("failed", NoDoc)
    /\ UNCHANGED <<loaded, hook, canvas, sync, orphan, moves, syncs, client, request, losses, missed>>

\* A document is opened, activated or closed; the tracker reports it once it runs.
Move(doc) ==
    /\ ui = "idle" /\ loaded /\ doc # canvas /\ moves < MaxMoves
    /\ moves' = moves + 1 /\ canvas' = doc
    /\ IF registry = "ready" THEN Report("ready", doc) ELSE UNCHANGED <<current, stale, wakeup>>
    /\ UNCHANGED <<registry, loaded, hook, ui, sync, orphan, syncs, client, request, losses, missed>>

-----------------------------------------------------------------------------
(* SyncStatus: the facade copies the capability into the status.           *)
SyncBegins(th) == sync[th].at = "idle" /\ sync' = [sync EXCEPT ![th] = [@ EXCEPT !.at = "document", !.doc = current.doc]]
SyncReads(th) ==
    /\ sync[th].at = "document"
    /\ sync' = [sync EXCEPT ![th] = [@ EXCEPT !.at = "capability", !.state = registry]]
    /\ UNCHANGED <<registry, loaded, hook, canvas, current, ui, orphan, moves, syncs, stale,
                   client, request, wakeup, losses, missed>>
Truth == Status(registry, canvas)
SyncWrites_Bare(th) == current' = Status(sync[th].state, NoDoc)
SyncWrites(th) == current' = Status(sync[th].state, sync[th].doc)

BackgroundSync(th) ==
    /\ syncs < MaxSyncs /\ syncs' = syncs + 1 /\ SyncBegins(th)
    /\ UNCHANGED <<registry, loaded, hook, canvas, current, ui, orphan, moves, stale,
                   client, request, wakeup, losses, missed>>
BackgroundWrites(th) ==
    /\ sync[th].at = "capability" /\ SyncWrites(th)
    /\ sync' = [sync EXCEPT ![th] = NoSync]
    /\ stale' = (stale \/ sync[th].doc # current.doc \/ sync[th].state # registry)
    /\ UNCHANGED <<registry, loaded, hook, canvas, ui, orphan, moves, syncs,
                   client, request, wakeup, losses, missed>>

-----------------------------------------------------------------------------
(* The UI thread: requests. *)
Open(kind) == request.kind = kind /\ ~request.taken /\ request.reply = "none"
Taken(kind) == request.kind = kind /\ request.taken /\ request.reply = "none"
Unstarted == Open("start")

\* GetStatus and StartGrasshopper end with SyncStatus on this thread.
GetStatus ==
    /\ ui = "idle" /\ Open("status") /\ request' = [request EXCEPT !.taken = TRUE]
    /\ ui' = "status" /\ SyncBegins("ui")
    /\ UNCHANGED <<registry, loaded, hook, canvas, current, orphan, moves, syncs, stale,
                   client, wakeup, losses, missed>>

\* RunScript may load Grasshopper, whatever it returns.
RunScript ==
    \E ok, loads \in BOOLEAN :
       /\ loads => ~loaded
       /\ loaded' = (loaded \/ loads) /\ hook' = (hook \/ loads)
       /\ registry' = IF ok THEN "loading" ELSE "failed"
StartGrasshopper ==
    /\ ui = "idle" /\ (orphan \/ Unstarted)
    /\ orphan' = (orphan /\ Unstarted)
    /\ IF registry \in {"ready", "loading", "not_installed"}
         THEN /\ request' = IF Unstarted THEN [request EXCEPT !.reply = "done"] ELSE request
              /\ UNCHANGED <<registry, loaded, hook, sync, ui>>
         ELSE /\ RunScript /\ ui' = "start" /\ SyncBegins("ui")
              /\ request' = IF Unstarted THEN [request EXCEPT !.taken = TRUE] ELSE request
    /\ UNCHANGED <<canvas, current, moves, syncs, stale, client, wakeup, losses, missed>>

UiWrites ==
    /\ ui \in {"status", "start"} /\ sync["ui"].at = "capability" /\ SyncWrites("ui")
    /\ sync' = [sync EXCEPT !["ui"] = NoSync]
    /\ ui' = IF ui = "status" THEN "read" ELSE "idle"
    /\ stale' = (stale \/ sync["ui"].doc # current.doc)
    /\ request' = IF ui = "start" /\ Taken("start") THEN [request EXCEPT !.reply = "done"] ELSE request
    /\ UNCHANGED <<registry, loaded, hook, canvas, orphan, moves, syncs, client, wakeup, losses, missed>>
UiAnswers ==
    /\ ui = "read" /\ ui' = "idle"
    /\ request' = IF Taken("status")
                    THEN [request EXCEPT !.reply = current.state, !.doc = current.doc] ELSE request
    /\ UNCHANGED <<registry, loaded, hook, canvas, current, sync, orphan, moves, syncs, stale,
                   client, wakeup, losses, missed>>

-----------------------------------------------------------------------------
(* The client. *)
\* ensureReady: the callers share one run.
EnsureReady(c, needs) ==
    /\ ~closed /\ waiting[c] = "no" /\ calls < MaxCalls
    /\ calls' = calls + 1 /\ waiting' = [waiting EXCEPT ![c] = needs]
    /\ told' = [told EXCEPT ![c] = "none"]
    /\ IF run.at = "none"
         THEN run' = [NoRun EXCEPT !.at = "subscribe"] /\ queued' = FALSE /\ missed' = FALSE
         ELSE UNCHANGED <<run, queued, missed>>
    /\ UNCHANGED <<closed, native, request, wakeup, losses>>

Send(kind) == request' = [NoRequest EXCEPT !.kind = kind]
Read(at) == run' = [run EXCEPT !.at = at] /\ Send("status")
\* "Set this before awaiting: a lost control reply must not cause a second start request."
Start_Forgets == run' = [run EXCEPT !.at = "starting", !.starts = @ + 1] /\ Send("start")
Start == run' = [run EXCEPT !.at = "starting", !.issued = TRUE, !.starts = @ + 1] /\ Send("start")

Subscribed ==
    /\ run.at = "subscribe" /\ ~closed /\ Read("first")
    /\ UNCHANGED <<queued, waiting, told, closed, calls, native, wakeup, losses, missed>>

\* The run is over: every caller is told.
Answer(c, outcome) ==
    IF outcome = "ready" /\ waiting[c] = "document" /\ request.doc = NoDoc THEN "no_document" ELSE outcome
Finish(outcome) ==
    /\ run' = NoRun /\ request' = NoRequest /\ queued' = FALSE
    /\ told' = [c \in Callers |-> IF waiting[c] = "no" THEN told[c] ELSE Answer(c, outcome)]
    /\ waiting' = [c \in Callers |-> "no"]
\* throwIfTerminalState, or the run goes on.
Decide(otherwise) ==
    IF request.reply \in {"ready", "failed", "not_installed"} THEN Finish(request.reply) ELSE otherwise

Replied == request.reply # "none" /\ ~closed
FirstRead ==
    /\ run.at = "first" /\ Replied
    /\ IF request.reply = "not_loaded" THEN Start ELSE Read("reading")
    /\ UNCHANGED <<queued, waiting, told, closed, calls, native, wakeup, losses, missed>>
StartReplied ==
    /\ run.at = "starting" /\ Replied /\ Read("reading")
    /\ UNCHANGED <<queued, waiting, told, closed, calls, native, wakeup, losses, missed>>
StatusRead ==
    /\ run.at = "reading" /\ Replied
    /\ Decide(/\ IF request.reply = "not_loaded" /\ ~run.issued THEN Start
                 ELSE \/ run' = [run EXCEPT !.at = "waiting"] /\ request' = NoRequest
                      \/ Read("last")
              /\ UNCHANGED <<queued, waiting, told>>)
    /\ UNCHANGED <<closed, calls, native, wakeup, losses, missed>>
LastRead_WaitsOn ==
    /\ run.at = "last" /\ Replied
    /\ Decide(/\ run' = [run EXCEPT !.at = "waiting"] /\ request' = NoRequest
              /\ UNCHANGED <<queued, waiting, told>>)
    /\ UNCHANGED <<closed, calls, native, wakeup, losses, missed>>
LastRead ==
    /\ run.at = "last" /\ Replied /\ Decide(Finish("timeout"))
    /\ UNCHANGED <<closed, calls, native, wakeup, losses, missed>>

\* WakeupGate.wait: a signal that came before it counts.
Woken ==
    /\ run.at = "waiting" /\ ~closed /\ queued /\ queued' = FALSE /\ Read("reading")
    /\ UNCHANGED <<waiting, told, closed, calls, native, wakeup, losses, missed>>
DeadlinePasses ==
    /\ run.at = "waiting" /\ ~closed /\ Read("last")
    /\ UNCHANGED <<queued, waiting, told, closed, calls, native, wakeup, losses, missed>>

\* close: the run ends without waiting for a request that may already be running.
Close ==
    /\ ~closed /\ closed' = TRUE
    /\ UNCHANGED <<run, queued, waiting, told, calls, native, request, wakeup, losses, missed>>
Closed ==
    /\ closed /\ run.at # "none" /\ Finish("closed")
    /\ orphan' = (orphan \/ Unstarted)
    /\ UNCHANGED <<registry, loaded, hook, canvas, current, ui, sync, moves, syncs, stale,
                   closed, calls, wakeup, losses, missed>>

-----------------------------------------------------------------------------
(* The connection. *)
Signal_WhenWaiting == queued' = (queued \/ run.at = "waiting")
Signal == queued' = (queued \/ run.at \notin {"none", "subscribe"})
Deliver ==
    /\ wakeup /\ wakeup' = FALSE /\ Signal
    /\ UNCHANGED <<run, waiting, told, closed, calls, native, request, losses, missed>>
\* The subscriber's socket fails: a wakeup is lost; once reconnected it signals itself.
Lose ==
    /\ losses < MaxLosses /\ losses' = losses + 1
    /\ wakeup /\ wakeup' = FALSE /\ missed' = TRUE
    /\ UNCHANGED <<native, client, request>>
Reconnected ==
    /\ losses < MaxLosses /\ losses' = losses + 1 /\ Signal
    /\ UNCHANGED <<run, waiting, told, closed, calls, native, request, wakeup, missed>>
\* A call ends without an answer; a start may still be executed.
CallFails ==
    /\ losses < MaxLosses /\ losses' = losses + 1
    /\ request.kind # "none" /\ request.reply = "none" /\ request' = [request EXCEPT !.reply = "lost"]
    /\ orphan' \in {orphan, orphan \/ Unstarted}
    /\ missed' = (missed \/ request.kind = "status")
    /\ UNCHANGED <<registry, loaded, hook, canvas, current, ui, sync, moves, syncs, stale,
                   client, wakeup>>

UiStep == Started \/ SyncReads("ui") \/ UiWrites \/ UiAnswers \/ GetStatus \/ StartGrasshopper
ClientStep ==
    \/ Subscribed \/ FirstRead \/ StartReplied \/ StatusRead \/ LastRead \/ Woken
    \/ DeadlinePasses \/ Closed
Next ==
    \/ Load \/ Register \/ \E doc \in MaybeDoc : Move(doc)
    \/ \E th \in Background : BackgroundSync(th) \/ SyncReads(th) \/ BackgroundWrites(th)
    \/ UiStep \/ ClientStep
    \/ \E c \in Callers, needs \in {"ready", "document"} : EnsureReady(c, needs)
    \/ Close \/ Deliver \/ Lose \/ Reconnected \/ CallFails

\* The UI thread serves its queue, the client its event loop and its deadline.
Spec == Init /\ [][Next]_vars
FairSpec == Spec /\ WF_vars(UiStep) /\ WF_vars(ClientStep)

-----------------------------------------------------------------------------
\* A run asks Rhino to start Grasshopper at most once, whatever replies it loses.
StartsOnce == run.starts <= 1
\* While a run waits, Grasshopper does not become ready unheard: the gate holds the
\* signal, or it is on its way, or it was lost and the deadline is what remains.
ReadyIsHeard ==
    run.at = "waiting" /\ registry = "ready" /\ ui = "idle" => queued \/ wakeup \/ missed \/ stale
\* When nobody is about to write it, the status tells the document on the canvas,
\* unless a background task overlapped the report of it (SyncStatus is no transaction).
DocumentIsKnown ==
    registry = "ready" /\ ~stale /\ ui = "idle" /\ (\A th \in Threads : sync[th].at = "idle")
    => current = Truth
\* Everybody who waits is answered.
Settles == (run.at # "none") ~> (run.at = "none")
=============================================================================
