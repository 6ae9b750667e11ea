---------------------------- MODULE Attachments ----------------------------
(***************************************************************************)
(* The host's side of a Rhino attachment: registrations, the registry they *)
(* fill, the refresh that admits work and the recovery that fences old     *)
(* work off (src/host/shared/native-runtime.ts, registry.ts, recovery.ts). *)
(* One Rhino process starts HopperCode several times: each start is a      *)
(* lifecycle with its own RPC endpoint.  JavaScript runs to the next await *)
(* in one step; the answer of every call arrives in a step of its own.     *)
(* The native fence gives one generation to each client that attaches, so  *)
(* a client number is also the generation it got.                          *)
(***************************************************************************)
EXTENDS Naturals, Sequences

CONSTANTS MaxStarts,    \* bound: HopperCode starts of one Rhino process
          MaxClients,   \* bound: RPC clients the host makes for a lifecycle
          MaxQueue,     \* bound: registrations of one lifecycle under way
          MaxFaults     \* bound: lost answers, timeouts and host restarts

AttachmentAssumption ==
    /\ MaxStarts \in Nat \ {0} /\ MaxClients \in Nat \ {0}
    /\ MaxQueue \in Nat \ {0} /\ MaxFaults \in Nat

Lifecycles == 1..MaxStarts
None == 0

VARIABLES alive,      \* the Rhino process runs
          up,         \* the lifecycle whose plugin is running, or None
          starts,     \* lifecycles started so far
          native,     \* the fence of each lifecycle: attached client, recovered
          work,       \* the native operation of a lifecycle: state, generation
          op,         \* what the journal knows of it
          registry,   \* SharedRegistry.attachments
          instance,   \* SharedNativeRuntime.instances: the client of each
          clients,    \* clients made so far
          registered, \* lifecycles whose plugin got this host's answer
          queue,      \* registrations: the chain of promises of each lifecycle
          reg,        \* the registration that runs
          refresh,    \* the refresh of each instance
          recovery,   \* the recovery (reconcileAttachment) of each lifecycle
          faults
vars == <<alive, up, starts, native, work, op, registry, instance, clients, registered,
          queue, reg, refresh, recovery, faults>>
rhinoVars == <<alive, up, starts>>
workVars == <<work, op>>
hostVars == <<registry, instance, clients, registered, queue, reg, refresh, recovery>>

Clients == 0..MaxClients
NoWork == [state |-> "none", gen |-> 0]
NoReg == [pc |-> "idle", client |-> 0, fresh |-> FALSE]
NoRefresh == [pc |-> "idle", current |-> FALSE, idle |-> FALSE]
NoRecovery == [pc |-> "idle", old |-> 0, idle |-> FALSE]
Unknown == [admission |-> "none", gen |-> 0]

TypeOK ==
    /\ alive \in BOOLEAN /\ up \in Lifecycles \cup {None} /\ starts \in 0..MaxStarts
    /\ native \in [Lifecycles -> [gen : Clients, recovered : BOOLEAN]]
    /\ work \in [Lifecycles -> [state : {"none", "queued", "running"}, gen : Clients]]
    /\ op \in [Lifecycles -> {"none", "dispatched", "uncertain", "recovered"}]
    /\ registry \in [Lifecycles -> [admission : {"none", "recovering", "ready", "detached"},
                                    gen : Clients]]
    /\ instance \in [Lifecycles -> Clients] /\ clients \in [Lifecycles -> Clients]
    /\ registered \subseteq Lifecycles
    /\ queue \in [Lifecycles -> Seq({"attach", "detach", "reconcile"})]
    /\ reg \in [Lifecycles -> [pc : {"idle", "handshake", "answered", "superseding"},
                               client : Clients, fresh : BOOLEAN]]
    /\ refresh \in [Lifecycles -> [pc : {"idle", "documents", "scopes", "mark"},
                                   current : BOOLEAN, idle : BOOLEAN]]
    /\ recovery \in [Lifecycles -> [pc : {"idle", "closing", "registering", "scopes", "operations"},
                                    old : Clients, idle : BOOLEAN]]
    /\ faults \in 0..MaxFaults

Init ==
    /\ alive = FALSE /\ up = None /\ starts = 0
    /\ native = [l \in Lifecycles |-> [gen |-> 0, recovered |-> FALSE]]
    /\ work = [l \in Lifecycles |-> NoWork] /\ op = [l \in Lifecycles |-> "none"]
    /\ registry = [l \in Lifecycles |-> Unknown]
    /\ instance = [l \in Lifecycles |-> 0] /\ clients = [l \in Lifecycles |-> 0]
    /\ registered = {}
    /\ queue = [l \in Lifecycles |-> <<>>] /\ reg = [l \in Lifecycles |-> NoReg]
    /\ refresh = [l \in Lifecycles |-> NoRefresh]
    /\ recovery = [l \in Lifecycles |-> NoRecovery]
    /\ faults = 0

Fault == faults < MaxFaults /\ faults' = faults + 1
Attached(l) == registry[l].admission \in {"recovering", "ready"}
\* A call of the host is answered: its client is open and not superseded.
Answers(l, client) == up = l /\ client # 0 /\ native[l].gen = client
ScopeIdle(l) == native[l].recovered /\ work[l].state # "running"
Unresolved(l) == op[l] \in {"dispatched", "uncertain"}

\* Every change of instances ends what a refresh under way may still do.
Replaced(l) == [refresh EXCEPT ![l].current = FALSE]
Close(l) == instance' = [instance EXCEPT ![l] = 0] /\ refresh' = Replaced(l)
SetAdmission(l, admission) == registry' = [registry EXCEPT ![l].admission = admission]

-----------------------------------------------------------------------------
(* Rhino and its plugin *)

LifecycleStarts(l) ==
    /\ up = None /\ l = starts + 1
    /\ alive' = TRUE /\ up' = l /\ starts' = l
    /\ UNCHANGED <<native, workVars, hostVars, faults>>
\* The process stays; the detach request is a step of its own, or is missed.
LifecycleStops ==
    /\ up # None /\ up' = None
    /\ work' = [work EXCEPT ![up] = NoWork]
    /\ UNCHANGED <<alive, starts, native, op, hostVars, faults>>
RhinoExits ==
    /\ alive /\ alive' = FALSE /\ up' = None /\ starts' = MaxStarts
    /\ work' = [l \in Lifecycles |-> NoWork]
    /\ UNCHANGED <<native, op, hostVars, faults>>

Enqueue(l, request) ==
    /\ Len(queue[l]) < MaxQueue
    /\ queue' = [queue EXCEPT ![l] = Append(@, request)]
    /\ UNCHANGED <<rhinoVars, native, workVars, registry, instance, clients, reg, refresh>>
\* The plugin registers until it has this host's answer, and detaches once.
PluginRegisters(l) ==
    up = l /\ l \notin registered /\ Enqueue(l, "attach") /\ UNCHANGED <<registered, recovery, faults>>
PluginDetaches(l) ==
    /\ l \in registered /\ up # l /\ alive
    /\ Enqueue(l, "detach") /\ registered' = registered \ {l} /\ UNCHANGED <<recovery, faults>>
AnswerLost(l) ==
    /\ Fault /\ l \in registered
    /\ registered' = registered \ {l}
    /\ UNCHANGED <<rhinoVars, native, workVars, registry, instance, clients, queue, reg, refresh, recovery>>

\* The plugin closes every scope that an older generation left, once nothing runs.
NativeRecovers(l) ==
    /\ up = l /\ native[l].gen # 0 /\ ~native[l].recovered /\ work[l].state # "running"
    /\ native' = [native EXCEPT ![l].recovered = TRUE]
    /\ UNCHANGED <<rhinoVars, workVars, hostVars, faults>>

-----------------------------------------------------------------------------
(* Work: one operation at a time, under the lease of its process *)

\* resolveBinding admits it; the owner takes the registry's generation.
Dispatch(l) ==
    /\ registry[l].admission = "ready" /\ ~Unresolved(l) /\ work[l].state = "none"
    /\ recovery[l].pc = "idle"
    /\ op' = [op EXCEPT ![l] = "dispatched"]
    /\ work' = [work EXCEPT ![l] = [state |-> "queued", gen |-> registry[l].gen]]
    /\ UNCHANGED <<rhinoVars, native, hostVars, faults>>
\* The fence looks at the generation when the operation is about to run.
WorkRuns(l) ==
    /\ up = l /\ work[l].state = "queued"
    /\ work' = [work EXCEPT ![l] = IF work[l].gen = native[l].gen /\ native[l].recovered
                                   THEN [@ EXCEPT !.state = "running"] ELSE NoWork]
    /\ UNCHANGED <<rhinoVars, native, op, hostVars, faults>>
WorkEnds(l) ==
    /\ work[l].state = "running"
    /\ work' = [work EXCEPT ![l] = NoWork]
    /\ UNCHANGED <<rhinoVars, native, op, hostVars, faults>>
\* The answer arrives, or is given up: a deadline, a closed client.
ResultArrives(l) ==
    /\ op[l] = "dispatched" /\ work[l].state = "none"
    /\ op' = [op EXCEPT ![l] = "none"]
    /\ UNCHANGED <<rhinoVars, native, work, hostVars, faults>>
ResultLost(l) ==
    /\ Fault /\ op[l] = "dispatched"
    /\ op' = [op EXCEPT ![l] = "uncertain"]
    /\ UNCHANGED <<rhinoVars, native, work, hostVars>>

-----------------------------------------------------------------------------
(* register and registerOne *)

SetReg(l, pc) == reg' = [reg EXCEPT ![l].pc = pc]
EndRegistration(l) ==
    /\ reg' = [reg EXCEPT ![l] = NoReg]
    /\ queue' = [queue EXCEPT ![l] = Tail(@)]

\* The recovery that waits for its registration goes on with it, or fails.
Continue(l, done) ==
    recovery' = IF Head(queue[l]) # "reconcile" THEN recovery
                ELSE IF done /\ reg[l].client # recovery[l].old
                THEN [recovery EXCEPT ![l].pc = "scopes"]
                ELSE [recovery EXCEPT ![l] = NoRecovery]

RegisterDetaches(l) ==
    /\ queue[l] # <<>> /\ reg[l].pc = "idle" /\ Head(queue[l]) = "detach"
    /\ queue' = [queue EXCEPT ![l] = Tail(@)]
    /\ IF instance[l] # 0 THEN SetAdmission(l, "detached") /\ Close(l)
                          ELSE UNCHANGED <<registry, instance, refresh>>
    /\ UNCHANGED <<rhinoVars, native, workVars, clients, registered, reg, recovery, faults>>

\* An instance keeps its client; otherwise the registration makes one.
RegisterConnects(l) ==
    /\ queue[l] # <<>> /\ reg[l].pc = "idle" /\ Head(queue[l]) # "detach"
    /\ IF instance[l] # 0
       THEN /\ reg' = [reg EXCEPT ![l] = [pc |-> "handshake", client |-> instance[l], fresh |-> FALSE]]
            /\ UNCHANGED clients
       ELSE /\ clients[l] < MaxClients
            /\ clients' = [clients EXCEPT ![l] = @ + 1]
            /\ reg' = [reg EXCEPT ![l] = [pc |-> "handshake", client |-> clients[l] + 1, fresh |-> TRUE]]
    /\ UNCHANGED <<rhinoVars, native, workVars, registry, instance, registered, queue, refresh, recovery, faults>>

\* SharedExecutionFence.Attach: a new client supersedes the old one and asks for
\* the cleanup of what that one left.  One event loop handles the answers in the
\* order in which Rhino sent them.
Handshake(l) ==
    /\ reg[l].pc = "handshake" /\ up = l /\ reg[l].client >= native[l].gen
    /\ \A m \in Lifecycles : reg[m].pc # "answered"
    /\ native' = [native EXCEPT ![l] =
         IF @.gen = reg[l].client THEN @ ELSE [gen |-> reg[l].client, recovered |-> FALSE]]
    /\ SetReg(l, "answered")
    /\ UNCHANGED <<rhinoVars, workVars, registry, instance, clients, registered, queue, refresh, recovery, faults>>

\* A client that was closed meanwhile gets no answer.
Open(l) == reg[l].fresh \/ instance[l] = reg[l].client
RegisterFails(l) ==
    /\ \/ reg[l].pc = "handshake" /\ (up # l \/ reg[l].client < native[l].gen)
       \/ reg[l].pc \in {"handshake", "answered"} /\ ~Open(l)
    /\ EndRegistration(l) /\ Continue(l, FALSE)
    /\ UNCHANGED <<rhinoVars, native, workVars, registry, instance, clients, registered, refresh, faults>>

\* The registration is complete: the registry takes it unless another
\* lifecycle of the process is attached.
Register(l, attachments) ==
    IF \E m \in Lifecycles \ {l} : attachments[m].admission \in {"recovering", "ready"}
    THEN /\ registry' = attachments
         /\ instance' = [instance EXCEPT ![l] = IF reg[l].fresh THEN 0 ELSE @]
         /\ Continue(l, FALSE) /\ UNCHANGED registered
    ELSE /\ registry' = [attachments EXCEPT ![l] = [admission |-> "recovering", gen |-> reg[l].client]]
         /\ instance' = [instance EXCEPT ![l] = reg[l].client]
         /\ Continue(l, TRUE)
         /\ registered' = IF Head(queue[l]) = "attach" THEN registered \cup {l} ELSE registered

\* The other lifecycles of the same process, which may have missed their detach.
Superseded(l) == {m \in Lifecycles \ {l} : Attached(m)}
\* A lifecycle joins the others of its process.
RegisterAnswered_Joins(l) ==
    /\ reg[l].pc = "answered" /\ Open(l)
    /\ registry' = [registry EXCEPT ![l] = [admission |-> "recovering", gen |-> reg[l].client]]
    /\ instance' = [instance EXCEPT ![l] = reg[l].client]
    /\ registered' = IF Head(queue[l]) = "attach" THEN registered \cup {l} ELSE registered
    /\ Continue(l, TRUE) /\ refresh' = Replaced(l)
    /\ EndRegistration(l)
    /\ UNCHANGED <<rhinoVars, native, workVars, clients, faults>>
RegisterAnswered(l) ==
    /\ reg[l].pc = "answered" /\ Open(l) /\ Superseded(l) = {}
    /\ Register(l, registry) /\ refresh' = Replaced(l)
    /\ EndRegistration(l)
    /\ UNCHANGED <<rhinoVars, native, workVars, clients, faults>>
RegisterSupersedes(l) ==
    /\ reg[l].pc = "answered" /\ Open(l)
    /\ \E m \in Superseded(l) :
         /\ SetAdmission(m, "detached") /\ Close(m)
    /\ SetReg(l, "superseding")
    /\ UNCHANGED <<rhinoVars, native, workVars, clients, registered, queue, recovery, faults>>
RegisterCompletes(l) ==
    /\ reg[l].pc = "superseding"
    /\ Register(l, registry) /\ refresh' = Replaced(l)
    /\ EndRegistration(l)
    /\ UNCHANGED <<rhinoVars, native, workVars, clients, faults>>

-----------------------------------------------------------------------------
(* refresh: every three seconds, one at a time, all instances side by side *)

\* pruneDeadAttachments, and the instances whose process has exited.
Dead(l) == ~alive /\ Attached(l)
RefreshStarts ==
    /\ \A l \in Lifecycles : refresh[l].pc = "idle"
    /\ registry' = [l \in Lifecycles |->
         IF Dead(l) THEN [registry[l] EXCEPT !.admission = "detached"] ELSE registry[l]]
    /\ instance' = [l \in Lifecycles |-> IF alive THEN instance[l] ELSE 0]
    /\ refresh' = [l \in Lifecycles |->
         IF instance[l] # 0 /\ alive THEN [NoRefresh EXCEPT !.pc = "documents", !.current = TRUE]
                                     ELSE NoRefresh]
    /\ UNCHANGED <<rhinoVars, native, workVars, clients, registered, queue, reg, recovery, faults>>

\* The documents arrive; an attachment that recovers is asked for its scopes.
Answered(l) == refresh[l].current /\ Answers(l, instance[l])
RefreshDocuments(l) ==
    /\ refresh[l].pc = "documents" /\ Answered(l)
    /\ refresh' = [refresh EXCEPT ![l].pc =
                     IF registry[l].admission = "recovering" THEN "scopes" ELSE "idle"]
    /\ UNCHANGED <<rhinoVars, native, workVars, registry, instance, clients, registered, queue, reg, recovery, faults>>
RefreshScopes(l) ==
    /\ refresh[l].pc = "scopes" /\ Answered(l)
    /\ refresh' = [refresh EXCEPT ![l].pc = "mark", ![l].idle = ScopeIdle(l)]
    /\ UNCHANGED <<rhinoVars, native, workVars, registry, instance, clients, registered, queue, reg, recovery, faults>>
\* An authenticated attachment is admitted: neither its scopes nor the journal's
\* operations are looked at.
CanMark_Authenticated(l) ==
    refresh[l].current /\ registry[l].gen = instance[l]
\* markReady, which compares the generations once more.
CanMark(l) ==
    /\ refresh[l].current /\ refresh[l].idle /\ ~Unresolved(l)
    /\ registry[l].gen = instance[l]
RefreshMarks(l) ==
    /\ refresh[l].pc = "mark"
    /\ IF CanMark(l) THEN SetAdmission(l, "ready") ELSE UNCHANGED registry
    /\ refresh' = [refresh EXCEPT ![l] = NoRefresh]
    /\ UNCHANGED <<rhinoVars, native, workVars, instance, clients, registered, queue, reg, recovery, faults>>

\* A refresh that fails does not end the round.
RefreshEnds_Sticks(l, closes) ==
    /\ registry' = IF closes /\ registry[l].admission = "ready"
                   THEN [registry EXCEPT ![l].admission = "recovering"] ELSE registry
    /\ UNCHANGED <<rhinoVars, native, workVars, instance, clients, registered, queue, reg,
                   refresh, recovery>>
\* A refresh whose instance was replaced just ends; one that fails or runs out
\* of its three seconds closes the admission.
RefreshEnds(l, closes) ==
    /\ registry' = IF closes /\ registry[l].admission = "ready"
                   THEN [registry EXCEPT ![l].admission = "recovering"] ELSE registry
    /\ refresh' = [refresh EXCEPT ![l] = NoRefresh]
    /\ UNCHANGED <<rhinoVars, native, workVars, instance, clients, registered, queue, reg, recovery>>
RefreshFails(l) ==
    /\ refresh[l].pc \in {"documents", "scopes"} /\ ~Answered(l)
    /\ RefreshEnds(l, refresh[l].current) /\ UNCHANGED faults
RefreshTimesOut(l) ==
    /\ refresh[l].pc \in {"documents", "scopes"} /\ Answered(l)
    /\ Fault /\ RefreshEnds(l, TRUE)

-----------------------------------------------------------------------------
(* recover: the person has inspected the models; the old work is fenced off *)

EndRecovery(l) == recovery' = [recovery EXCEPT ![l] = NoRecovery]

RecoveryStarts(l) ==
    /\ op[l] = "uncertain" /\ recovery[l].pc = "idle" /\ alive
    /\ instance[l] # 0 /\ registry[l].admission # "none"
    /\ SetAdmission(l, "recovering") /\ Close(l)
    /\ recovery' = [recovery EXCEPT ![l] = [pc |-> "closing", old |-> instance[l], idle |-> FALSE]]
    /\ UNCHANGED <<rhinoVars, native, workVars, clients, registered, queue, reg, faults>>
RecoveryRegisters(l) ==
    /\ recovery[l].pc = "closing"
    /\ Enqueue(l, "reconcile") /\ UNCHANGED <<registered, faults>>
    /\ recovery' = [recovery EXCEPT ![l].pc = "registering"]
\* The scopes, then the state of each old operation: only one that runs is a
\* reason to wait, one that is queued cannot start any more.
RecoveryScopes(l) ==
    /\ recovery[l].pc = "scopes" /\ Answers(l, instance[l])
    /\ recovery' = [recovery EXCEPT ![l].pc = "operations", ![l].idle = ScopeIdle(l)]
    /\ UNCHANGED <<rhinoVars, native, workVars, registry, instance, clients, registered, queue, reg, refresh, faults>>
\* The evidence is stored and not looked at.
RecoveryOperations_Releases(l) ==
    /\ recovery[l].pc = "operations" /\ Answers(l, instance[l])
    /\ op' = [op EXCEPT ![l] = "recovered"]
    /\ EndRecovery(l)
    /\ UNCHANGED <<rhinoVars, native, work, registry, instance, clients, registered, queue, reg,
                   refresh, faults>>
RecoveryOperations(l) ==
    /\ recovery[l].pc = "operations" /\ Answers(l, instance[l])
    /\ LET idle == recovery[l].idle /\ work[l].state # "running" IN
         /\ op' = IF idle THEN [op EXCEPT ![l] = "recovered"] ELSE op
         /\ registry' = IF idle THEN registry
                        ELSE [registry EXCEPT ![l] = [admission |-> "recovering", gen |-> instance[l]]]
    /\ EndRecovery(l)
    /\ UNCHANGED <<rhinoVars, native, work, instance, clients, registered, queue, reg, refresh, faults>>
RecoveryFails(l) ==
    /\ recovery[l].pc \in {"scopes", "operations"} /\ ~Answers(l, instance[l])
    /\ EndRecovery(l)
    /\ UNCHANGED <<rhinoVars, native, workVars, registry, instance, clients, registered, queue, reg, refresh, faults>>
\* The original process has exited: that is evidence enough.
RecoveryByExit(l) ==
    /\ op[l] = "uncertain" /\ recovery[l].pc = "idle" /\ ~alive
    /\ op' = [op EXCEPT ![l] = "recovered"]
    /\ UNCHANGED <<rhinoVars, native, work, hostVars, faults>>

-----------------------------------------------------------------------------
\* A new host: the journal keeps the attachments and the operations.
HostRestarts ==
    /\ Fault
    /\ op' = [l \in Lifecycles |-> IF op[l] = "dispatched" THEN "uncertain" ELSE op[l]]
    /\ registry' = [l \in Lifecycles |->
         IF registry[l].admission = "none" THEN registry[l]
         ELSE [registry[l] EXCEPT !.admission = "recovering"]]
    /\ instance' = [l \in Lifecycles |-> 0]
    /\ queue' = [l \in Lifecycles |-> <<>>] /\ reg' = [l \in Lifecycles |-> NoReg]
    /\ refresh' = [l \in Lifecycles |-> NoRefresh]
    /\ recovery' = [l \in Lifecycles |-> NoRecovery]
    /\ registered' = {}
    /\ UNCHANGED <<rhinoVars, native, work, clients>>

RegistrationStep(l) ==
    \/ RegisterDetaches(l) \/ RegisterConnects(l) \/ Handshake(l) \/ RegisterFails(l)
    \/ RegisterAnswered(l) \/ RegisterSupersedes(l) \/ RegisterCompletes(l)
RefreshStep(l) ==
    RefreshDocuments(l) \/ RefreshScopes(l) \/ RefreshMarks(l) \/ RefreshFails(l)
RecoveryStep(l) ==
    RecoveryRegisters(l) \/ RecoveryScopes(l) \/ RecoveryOperations(l) \/ RecoveryFails(l)

Next ==
    \/ LifecycleStops \/ RhinoExits \/ RefreshStarts \/ HostRestarts
    \/ \E l \in Lifecycles :
         \/ LifecycleStarts(l) \/ PluginRegisters(l) \/ PluginDetaches(l) \/ AnswerLost(l)
         \/ NativeRecovers(l)
         \/ Dispatch(l) \/ WorkRuns(l) \/ WorkEnds(l) \/ ResultArrives(l) \/ ResultLost(l)
         \/ RegistrationStep(l) \/ RefreshStep(l) \/ RefreshTimesOut(l)
         \/ RecoveryStarts(l) \/ RecoveryStep(l) \/ RecoveryByExit(l)

Spec == Init /\ [][Next]_vars

\* Promises and native work run on, the timer fires, and a plugin that the host
\* does not know registers.
Fairness ==
    /\ WF_vars(RefreshStarts)
    /\ \A l \in Lifecycles :
         /\ WF_vars(PluginRegisters(l) /\ l \notin registered /\ queue[l] = <<>>)
         /\ WF_vars(NativeRecovers(l)) /\ WF_vars(WorkRuns(l)) /\ WF_vars(WorkEnds(l))
         /\ WF_vars(RegistrationStep(l)) /\ WF_vars(RefreshStep(l)) /\ WF_vars(RecoveryStep(l))
FairSpec == Spec /\ Fairness

-----------------------------------------------------------------------------
(* Properties *)

\* Work is admitted only to an attachment whose connection is the registered
\* one, and while nothing of an older generation runs in Rhino.
ReadyIsFenced ==
    \A l \in Lifecycles : registry[l].admission = "ready" =>
        /\ instance[l] = registry[l].gen
        /\ work[l].state = "running" => work[l].gen = registry[l].gen

\* One Rhino process is one target: of its lifecycles at most one is connected
\* and registered, whatever order their registrations and detachments arrive in.
Connected(l) == Attached(l) /\ instance[l] # 0
OneLifecycleConnected ==
    \A l, m \in Lifecycles : Connected(l) /\ Connected(m) => l = m

\* The registry's own rule ("Process already has an attached lifecycle"), which
\* the registry that a restarted host loads does not keep.
OneLifecyclePerProcess ==
    \A l, m \in Lifecycles : Attached(l) /\ Attached(m) => l = m

\* Released work is over: once a recovery has released an operation, it does not
\* run and cannot start any more.
ReleasedWorkIsOver ==
    \A l \in Lifecycles : op[l] = "recovered" =>
        /\ work[l].state # "running"
        /\ work[l].state = "queued" => up # l \/ work[l].gen # native[l].gen

\* An attachment comes back into service: while its plugin runs, nothing of it is
\* unresolved and the bounds last, the admission opens again after every
\* restart, replacement and failed refresh.
ReadyAgain ==
    \A l \in Lifecycles :
        up = l ~> \/ registry[l].admission = "ready" \/ up # l \/ Unresolved(l)
                  \/ clients[l] = MaxClients
=============================================================================
