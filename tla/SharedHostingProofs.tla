-------------------------- MODULE SharedHostingProofs --------------------------
(***************************************************************************)
(* Proofs about the shared host and the Rhinos that attach to it, for any  *)
(* number of Rhinos, launchers, hosts and clients and any bounds.          *)
(***************************************************************************)
EXTENDS SharedHosting, TLAPS

(***************************************************************************)
(* Who is the host                                                         *)
(***************************************************************************)

HostTypes == host \in [Hosts -> [stage : H!Stages, revision : Nat, stop : H!StopSteps]]

\* A host that has the endpoint and is not closing: the endpoint is its own, and
\* unless it has replaced the intent itself, the intent is the one it has read.
OwnerInv ==
    \A h \in Hosts : host[h].stage \in {"owning", "published", "recovering", "ready"} =>
        /\ owner = h
        /\ host[h].stop # "written" => H!Intends(host[h].revision)

\* The journal is opened behind the endpoint and closed after it.
JournalInv ==
    /\ journal \subseteq Hosts
    /\ \A h \in journal :
         /\ host[h].stage \in {"recovering", "ready", "closing", "released"}
         /\ host[h].stage # "released" => owner = h

\* The discovery file is the owner's from the publication on.
DiscoveryInv ==
    \A h \in Hosts : host[h].stage \in {"published", "recovering", "ready"} =>
        discovery = [epoch |-> h, revision |-> host[h].revision]

HostInv == HostTypes /\ OwnerInv /\ JournalInv /\ DiscoveryInv

\* What a host does to itself alone leaves the others' records as they were.
LEMMA HostStepKeeps ==
    ASSUME H!LifetimeAssumption, HostInv, NEW h \in Hosts,
           \/ H!HostStep(h) \/ H!CleanupReleases(h) \/ H!StartupFails(h) \/ H!StopHost(h)
           \/ H!LifetimeCloses(h) \/ H!Signal(h) \/ H!HostCrashes(h)
    PROVE  HostInv'
<1> USE DEF H!LifetimeAssumption, HostInv, HostTypes, OwnerInv, JournalInv, DiscoveryInv,
            H!Intends, H!files, H!SetStage, H!Stages, H!Starting, H!StopSteps, H!NoHost
<1>1. CASE H!HostInitialize(h)
  BY <1>1 DEF H!HostInitialize
<1>2. CASE H!AcquireOwnership(h)
  BY <1>2 DEF H!AcquireOwnership
<1>3. CASE H!Publish(h)
  BY <1>3 DEF H!Publish
<1>4. CASE H!OpenJournal(h)
  BY <1>4 DEF H!OpenJournal
<1>5. CASE H!BecomeReady(h)
  BY <1>5 DEF H!BecomeReady
<1>6. CASE H!StopWrites(h)
  BY <1>6 DEF H!StopWrites
<1>7. CASE H!StopCloses(h) \/ H!LifetimeCloses(h) \/ H!Signal(h)
  BY <1>7 DEF H!StopCloses, H!LifetimeCloses, H!Signal
<1>8. ASSUME H!Dies(h) PROVE HostInv'
  <2>1. /\ host' = [host EXCEPT ![h] = [stage |-> "none", revision |-> 0, stop |-> "no"]]
        /\ owner' = (IF owner = h THEN NoOne ELSE owner)
        /\ journal' = journal \ {h} /\ UNCHANGED control
    BY <1>8 DEF H!Dies
  <2>2. discovery' = discovery \/ discovery.epoch = h
    BY <1>8 DEF H!Dies
  <2>3. HostTypes' /\ OwnerInv' /\ JournalInv'
    BY <2>1
  <2>4. DiscoveryInv'
    BY <2>1, <2>2
  <2> QED
    BY <2>3, <2>4
<1>9. CASE H!CleanupReleases(h)
  BY <1>9 DEF H!CleanupReleases
<1>10. CASE H!StartupFails(h)
  BY <1>10 DEF H!StartupFails
<1>11. CASE H!StopHost(h)
  BY <1>11 DEF H!StopHost
<1> QED
  BY <1>1, <1>2, <1>3, <1>4, <1>5, <1>6, <1>7, <1>8, <1>9, <1>10, <1>11
  DEF H!HostStep, H!HostExits, H!CleanupDeadline, H!HostCrashes

\* Launchers and attachments start hosts and stopped intents; they touch neither a
\* running host nor its intent.
LEMMA OthersKeep ==
    ASSUME H!LifetimeAssumption, HostInv,
           \/ \E l \in Launchers : H!LauncherStep(l) \/ H!LauncherExits(l) \/ H!LauncherFails(l)
           \/ \E r \in Rhinos : \/ H!RhinoStarts(r) \/ H!StartAttachment(r) \/ H!EnsureRunning(r)
                                \/ H!Reconnect(r) \/ H!RegisterDone(r) \/ H!RegisterLost(r)
                                \/ H!Detach(r) \/ H!RhinoExits(r)
           \/ UNCHANGED H!vars
    PROVE  HostInv'
<1> USE DEF H!LifetimeAssumption, HostInv, HostTypes, OwnerInv, JournalInv, DiscoveryInv,
            H!Intends, H!files, H!Stages, H!Starting, H!StopSteps, H!NoHost
<1>1. ASSUME UNCHANGED <<discovery, owner, host, journal>>,
             control' = control \/ control = NoOne \/ control.desired = "stopped"
      PROVE  HostInv'
  BY <1>1
<1>2. ASSUME NEW r \in Rhinos, NEW explicit, NEW force, H!Ensure(r, explicit, force) PROVE HostInv'
  BY <1>1, <1>2 DEF H!Ensure
<1>3. ASSUME NEW l \in Launchers, H!LauncherSpawns(l) PROVE HostInv'
  BY <1>3 DEF H!LauncherSpawns, H!Alive
<1>4. ASSUME NEW l \in Launchers, H!LauncherStep(l) \/ H!LauncherExits(l) \/ H!LauncherFails(l)
      PROVE HostInv'
  BY <1>1, <1>3, <1>4 DEF H!LauncherStep, H!LauncherExits, H!LauncherFails, H!LauncherFinds,
     H!LauncherChecks,
     H!LauncherSeesFree, H!LauncherSuperseded, H!LauncherDeadline, H!Step
<1>5. ASSUME NEW r \in Rhinos, \/ H!RhinoStarts(r) \/ H!RegisterDone(r) \/ H!RegisterLost(r)
                               \/ H!Detach(r) \/ H!RhinoExits(r)
      PROVE  HostInv'
  BY <1>1, <1>5 DEF H!RhinoStarts, H!RegisterDone, H!RegisterLost, H!Detach, H!RhinoExits
<1>6. CASE UNCHANGED H!vars
  BY <1>1, <1>6 DEF H!vars
<1> QED
  BY <1>2, <1>4, <1>5, <1>6 DEF H!StartAttachment, H!EnsureRunning, H!Reconnect

\* The invariant of the hosts holds in every behaviour.
LEMMA HostInvariant == ASSUME H!LifetimeAssumption PROVE H!Spec => []HostInv
<1>1. H!Init => HostInv
  BY DEF H!Init, HostInv, HostTypes, OwnerInv, JournalInv, DiscoveryInv, H!NoHost, H!Stages, H!Starting,
         H!StopSteps
<1>2. HostInv /\ [H!Next]_(H!vars) => HostInv'
  BY HostStepKeeps, OthersKeep DEF H!Next
<1> QED
  BY <1>1, <1>2, PTL DEF H!Spec

-----------------------------------------------------------------------------
(***************************************************************************)
(* Attachments                                                             *)
(***************************************************************************)

\* Shapes without the model's bounds.
Natives == [gen : Nat, recovered : BOOLEAN]
Works == [state : {"none", "queued", "running"}, gen : Nat]
Admissions == [admission : {"none", "recovering", "ready", "detached"}, gen : Nat]
Requests == {"attach", "detach", "reconcile"}
Regs == [pc : {"idle", "handshake", "answered", "superseding"}, client : Nat, fresh : BOOLEAN]
Refreshes == [pc : {"idle", "documents", "scopes", "mark"}, current : BOOLEAN, idle : BOOLEAN]
Recoveries == [pc : {"idle", "closing", "registering", "scopes", "operations"}, old : Nat, idle : BOOLEAN]
AttachTypes ==
    /\ alive \in BOOLEAN /\ up \in A!Lifecycles \cup {A!None} /\ starts \in Nat
    /\ native \in [A!Lifecycles -> Natives] /\ work \in [A!Lifecycles -> Works]
    /\ op \in [A!Lifecycles -> {"none", "dispatched", "uncertain", "recovered"}]
    /\ registry \in [A!Lifecycles -> Admissions]
    /\ instance \in [A!Lifecycles -> Nat] /\ clients \in [A!Lifecycles -> Nat]
    /\ queue \in [A!Lifecycles -> Seq(Requests)] /\ reg \in [A!Lifecycles -> Regs]
    /\ refresh \in [A!Lifecycles -> Refreshes] /\ recovery \in [A!Lifecycles -> Recoveries]

\* Only the last lifecycle that was started runs, and what runs in it ends with it.
ProcessInv ==
    /\ up # A!None => alive /\ up = starts
    /\ \A l \in A!Lifecycles :
         /\ native[l].gen # 0 => l <= starts
         /\ work[l].state = "running" => up = l

\* The client of an instance is the one that the registry and the fence know, and a
\* registration under way has that client or a new one.
ConnectionInv ==
    /\ \A l \in A!Lifecycles :
         /\ instance[l] # 0 =>
              A!Attached(l) /\ registry[l].gen = instance[l] /\ native[l].gen = instance[l]
         /\ reg[l].pc # "idle" =>
              /\ queue[l] # <<>> /\ reg[l].client # 0
              /\ IF reg[l].fresh THEN instance[l] = 0
                                 ELSE instance[l] \in {0, reg[l].client} /\ native[l].gen = reg[l].client
         /\ reg[l].pc \in {"answered", "superseding"} => native[l].gen = reg[l].client
    /\ \A l, m \in A!Lifecycles : instance[l] # 0 /\ instance[m] # 0 => l = m

\* Who admits work has seen the fence of this connection clean, and a clean fence
\* lets only its own generation run.
AdmissionInv ==
    \A l \in A!Lifecycles :
        /\ registry[l].admission = "ready" => instance[l] # 0 /\ native[l].recovered
        /\ refresh[l].current => instance[l] # 0
        /\ refresh[l].current /\ refresh[l].pc = "mark" /\ refresh[l].idle => native[l].recovered
        /\ work[l].state = "running" /\ native[l].recovered => work[l].gen = native[l].gen

\* A recovery waits for one registration, which takes the fence past the old work.
RecoveryFits(l) ==
    /\ work[l].state # "none" => work[l].gen # 0 /\ work[l].gen <= native[l].gen
    /\ recovery[l].pc # "idle" =>
         /\ recovery[l].old <= native[l].gen
         /\ work[l].state # "none" => work[l].gen <= recovery[l].old
    /\ recovery[l].pc \in {"scopes", "operations"} => recovery[l].old # native[l].gen
    /\ \A i, j \in DOMAIN queue[l] : queue[l][i] = "reconcile" =>
         /\ recovery[l].pc = "registering"
         /\ queue[l][j] = "reconcile" => i = j
RecoveryInv == \A l \in A!Lifecycles : RecoveryFits(l)

\* Released work does not run, and its lifecycle or its generation is over.
ReleasedInv ==
    \A l \in A!Lifecycles : op[l] = "recovered" =>
        /\ work[l].state # "running"
        /\ work[l].state = "queued" => (up # l /\ l <= starts) \/ work[l].gen # native[l].gen

AttachInv ==
    AttachTypes /\ ProcessInv /\ ConnectionInv /\ AdmissionInv /\ RecoveryInv /\ ReleasedInv

\* The records that the steps make and edit.
LEMMA Made ==
    /\ \A g \in Nat : [gen |-> g, recovered |-> FALSE] \in Natives
    /\ \A g \in Nat : [state |-> "queued", gen |-> g] \in Works
    /\ \A g \in Nat : [admission |-> "recovering", gen |-> g] \in Admissions
    /\ \A c \in Nat : /\ [pc |-> "handshake", client |-> c, fresh |-> TRUE] \in Regs
                      /\ [pc |-> "handshake", client |-> c, fresh |-> FALSE] \in Regs
    /\ \A o \in Nat : [pc |-> "closing", old |-> o, idle |-> FALSE] \in Recoveries
    /\ A!NoWork \in Works /\ A!NoReg \in Regs /\ A!NoRefresh \in Refreshes /\ A!NoRecovery \in Recoveries
    /\ [A!NoRefresh EXCEPT !.pc = "documents", !.current = TRUE] \in Refreshes
BY DEF Natives, Works, Admissions, Regs, Refreshes, Recoveries, A!NoWork, A!NoReg, A!NoRefresh,
   A!NoRecovery
LEMMA Edited ==
    /\ \A r \in Natives : [r EXCEPT !.recovered = TRUE] \in Natives
    /\ \A r \in Works : [r EXCEPT !.state = "running"] \in Works
    /\ \A r \in Admissions, admission \in {"recovering", "ready", "detached"} :
         [r EXCEPT !.admission = admission] \in Admissions
    /\ \A r \in Regs, pc \in {"answered", "superseding"} : [r EXCEPT !.pc = pc] \in Regs
    /\ \A r \in Refreshes : [r EXCEPT !.current = FALSE] \in Refreshes
    /\ \A r \in Refreshes, pc \in {"idle", "scopes"} : [r EXCEPT !.pc = pc] \in Refreshes
    /\ \A r \in Refreshes, idle \in BOOLEAN : [r EXCEPT !.pc = "mark", !.idle = idle] \in Refreshes
    /\ \A r \in Recoveries, pc \in {"registering", "scopes"} : [r EXCEPT !.pc = pc] \in Recoveries
    /\ \A r \in Recoveries, idle \in BOOLEAN : [r EXCEPT !.pc = "operations", !.idle = idle] \in Recoveries
<1>1. ASSUME NEW r \in Natives PROVE [r EXCEPT !.recovered = TRUE] \in Natives
  BY DEF Natives
<1>2. ASSUME NEW r \in Regs, NEW pc \in {"answered", "superseding"} PROVE [r EXCEPT !.pc = pc] \in Regs
  BY DEF Regs
<1>3. ASSUME NEW r \in Refreshes PROVE [r EXCEPT !.current = FALSE] \in Refreshes
  BY DEF Refreshes
<1>4. ASSUME NEW r \in Refreshes, NEW pc \in {"idle", "scopes"} PROVE [r EXCEPT !.pc = pc] \in Refreshes
  BY DEF Refreshes
<1>5. ASSUME NEW r \in Refreshes, NEW idle \in BOOLEAN
      PROVE  [r EXCEPT !.pc = "mark", !.idle = idle] \in Refreshes
  BY DEF Refreshes
<1>6. ASSUME NEW r \in Recoveries, NEW pc \in {"registering", "scopes"}
      PROVE  [r EXCEPT !.pc = pc] \in Recoveries
  BY DEF Recoveries
<1>7. ASSUME NEW r \in Recoveries, NEW idle \in BOOLEAN
      PROVE  [r EXCEPT !.pc = "operations", !.idle = idle] \in Recoveries
  BY DEF Recoveries
<1>8. ASSUME NEW r \in Admissions, NEW admission \in {"recovering", "ready", "detached"}
      PROVE  [r EXCEPT !.admission = admission] \in Admissions
  BY DEF Admissions
<1>9. ASSUME NEW r \in Works PROVE [r EXCEPT !.state = "running"] \in Works
  BY DEF Works
<1> QED
  BY <1>1, <1>2, <1>3, <1>4, <1>5, <1>6, <1>7, <1>8, <1>9

\* The registry takes a registration, or refuses it to the lifecycle.
Taken(l) ==
    /\ \A m \in A!Lifecycles \ {l} : ~A!Attached(m)
    /\ registry' = [registry EXCEPT ![l] = [admission |-> "recovering", gen |-> reg[l].client]]
    /\ instance' = [instance EXCEPT ![l] = reg[l].client]
    /\ A!Continue(l, TRUE)
Refused(l) == UNCHANGED <<registry, instance>> /\ A!Continue(l, FALSE)

\* What the end of a registration does.
LEMMA RegisterEffect ==
    ASSUME AttachInv, NEW l \in A!Lifecycles, A!RegisterAnswered(l) \/ A!RegisterCompletes(l)
    PROVE  /\ Taken(l) \/ Refused(l)
           /\ refresh' = [refresh EXCEPT ![l].current = FALSE] /\ A!EndRegistration(l)
           /\ reg[l].pc \in {"answered", "superseding"}
           /\ UNCHANGED <<alive, up, starts, native, work, op, clients, faults>>
<1>1. /\ A!Register(l, registry) /\ refresh' = A!Replaced(l) /\ A!EndRegistration(l)
      /\ reg[l].pc \in {"answered", "superseding"}
      /\ UNCHANGED <<alive, up, starts, native, work, op, clients, faults>>
  BY DEF A!RegisterAnswered, A!RegisterCompletes, A!rhinoVars, A!workVars
<1>2. CASE \E m \in A!Lifecycles \ {l} : registry[m].admission \in {"recovering", "ready"}
  <2>1. /\ registry' = registry /\ A!Continue(l, FALSE)
        /\ instance' = [instance EXCEPT ![l] = IF reg[l].fresh THEN 0 ELSE @]
    BY <1>1, <1>2 DEF A!Register
  <2>2. reg[l].fresh => instance[l] = 0
    BY <1>1 DEF AttachInv, ConnectionInv
  <2>3. instance' = instance
    BY <2>1, <2>2 DEF AttachInv, AttachTypes
  <2> QED
    BY <1>1, <2>1, <2>3 DEF Refused, A!Replaced
<1>3. CASE ~\E m \in A!Lifecycles \ {l} : registry[m].admission \in {"recovering", "ready"}
  BY <1>1, <1>3 DEF A!Register, Taken, A!Attached, A!Replaced
<1> QED
  BY <1>2, <1>3

\* A closed request leaves the queue, and the recovery that waited for it has ended or
\* goes on behind a newer generation.
LEMMA QueueMoves ==
    ASSUME AttachInv, NEW l \in A!Lifecycles, NEW done \in BOOLEAN, queue[l] # <<>>,
           done => native[l].gen = reg[l].client,
           queue' = [queue EXCEPT ![l] = Tail(@)],
           A!Continue(l, done), UNCHANGED <<native, work>>
    PROVE  \A m \in A!Lifecycles :
             /\ recovery'[m].pc # "idle" =>
                  /\ recovery'[m].old <= native[m].gen
                  /\ work[m].state # "none" => work[m].gen <= recovery'[m].old
             /\ recovery'[m].pc \in {"scopes", "operations"} => recovery'[m].old # native[m].gen
             /\ \A i, j \in DOMAIN queue'[m] : queue'[m][i] = "reconcile" =>
                  /\ recovery'[m].pc = "registering"
                  /\ queue'[m][j] = "reconcile" => i = j
<1> USE DEF AttachInv, AttachTypes, RecoveryInv, RecoveryFits, Natives, Works, Regs, Recoveries,
            Requests
<1> DEFINE q == queue[l]
<1>1. /\ Head(q) = q[1] /\ 1 \in DOMAIN q
      /\ \A i \in DOMAIN Tail(q) : i \in Nat \ {0} /\ i + 1 \in DOMAIN q /\ Tail(q)[i] = q[i + 1]
  <2>1. q \in Seq({"attach", "detach", "reconcile"}) /\ q # <<>>
    OBVIOUS
  <2>2. DOMAIN q = 1 .. Len(q) /\ DOMAIN Tail(q) = 1 .. Len(q) - 1 /\ Len(q) \in Nat \ {0}
    BY <2>1
  <2>3. Head(q) = q[1] /\ \A i \in 1 .. Len(q) - 1 : Tail(q)[i] = q[i + 1]
    BY <2>1
  <2> QED
    BY <2>2, <2>3
<1>2. \A i, j \in DOMAIN q : q[i] = "reconcile" =>
        /\ recovery[l].pc = "registering"
        /\ q[j] = "reconcile" => i = j
  OBVIOUS
<1>3. queue'[l] = Tail(q) /\ \A m \in A!Lifecycles \ {l} : queue'[m] = queue[m]
  OBVIOUS
<1> DEFINE Fits(m) ==
             /\ recovery'[m].pc # "idle" =>
                  /\ recovery'[m].old <= native[m].gen
                  /\ work[m].state # "none" => work[m].gen <= recovery'[m].old
             /\ recovery'[m].pc \in {"scopes", "operations"} => recovery'[m].old # native[m].gen
             /\ \A i, j \in DOMAIN queue'[m] : queue'[m][i] = "reconcile" =>
                  /\ recovery'[m].pc = "registering"
                  /\ queue'[m][j] = "reconcile" => i = j
<1>7. ASSUME NEW m \in A!Lifecycles \ {l}, recovery'[m] = recovery[m] PROVE Fits(m)
  <2>1. queue'[m] = queue[m]
    BY <1>3
  <2> QED
    BY <1>7, <2>1
<1>8. SUFFICES \A m \in A!Lifecycles : Fits(m)
  OBVIOUS
<1> HIDE DEF q
<1>4. CASE q[1] # "reconcile"
  <2>1. recovery' = recovery
    BY <1>1, <1>4 DEF A!Continue, q
  <2>2. ASSUME NEW i \in DOMAIN Tail(q), NEW j \in DOMAIN Tail(q), Tail(q)[i] = "reconcile"
        PROVE  /\ recovery[l].pc = "registering"
               /\ Tail(q)[j] = "reconcile" => i = j
    <3>1. i + 1 \in DOMAIN q /\ j + 1 \in DOMAIN q /\ q[i + 1] = "reconcile" /\ Tail(q)[j] = q[j + 1]
      BY <1>1, <2>2
    <3>2. /\ recovery[l].pc = "registering"
          /\ q[j + 1] = "reconcile" => i + 1 = j + 1
      BY <1>2, <3>1
    <3> QED
      BY <1>1, <3>1, <3>2
  <2>3. Fits(l)
    BY <1>3, <2>1, <2>2
  <2> HIDE DEF Fits
  <2> QED
    BY <1>7, <2>1, <2>3
<1>5. CASE q[1] = "reconcile"
  <2>1. \A i \in DOMAIN Tail(q) : Tail(q)[i] # "reconcile"
    <3> SUFFICES ASSUME NEW i \in DOMAIN Tail(q), Tail(q)[i] = "reconcile" PROVE FALSE
      OBVIOUS
    <3>1. i + 1 = 1
      BY <1>1, <1>2, <1>5
    <3> QED
      BY <1>1, <3>1
  <2>2. recovery[l].pc = "registering"
    BY <1>1, <1>2, <1>5
  <2>3. \A i \in DOMAIN queue'[l] : queue'[l][i] # "reconcile"
    BY <1>3, <2>1
  <2>4. CASE done /\ reg[l].client # recovery[l].old
    <3>1. recovery' = [recovery EXCEPT ![l].pc = "scopes"]
      BY <1>1, <1>5, <2>4 DEF A!Continue, q
    <3>2. /\ recovery'[l].pc = "scopes" /\ recovery'[l].old = recovery[l].old
          /\ \A m \in A!Lifecycles \ {l} : recovery'[m] = recovery[m]
      BY <3>1
    <3>3. recovery'[l].old # native[l].gen
      BY <2>4, <3>2
    <3>4. Fits(l)
      BY <2>2, <2>3, <3>2, <3>3
    <3> QED
      BY <1>7, <3>2, <3>4
  <2>5. CASE ~(done /\ reg[l].client # recovery[l].old)
    <3>1. recovery' = [recovery EXCEPT ![l] = A!NoRecovery]
      BY <1>1, <1>5, <2>5 DEF A!Continue, q
    <3>2. /\ recovery'[l].pc = "idle"
          /\ \A m \in A!Lifecycles \ {l} : recovery'[m] = recovery[m]
      BY <3>1 DEF A!NoRecovery
    <3>3. Fits(l)
      BY <2>3, <3>2
    <3> QED
      BY <1>7, <3>2, <3>3
  <2> QED
    BY <2>4, <2>5
<1> QED
  BY <1>4, <1>5

\* The values that a step of lifecycle l may give to a variable.
NativeForms(l) ==
    {native,
     [native EXCEPT ![l].recovered = TRUE],
     [native EXCEPT ![l] = [gen |-> reg[l].client, recovered |-> FALSE]]}
WorkForms(l) ==
    {work,
     [work EXCEPT ![l] = [state |-> "queued", gen |-> registry[l].gen]],
     [work EXCEPT ![l] = A!NoWork],
     [work EXCEPT ![l].state = "running"]}
RegistryForms(l) ==
    {registry,
     [registry EXCEPT ![l].admission = "detached"],
     [registry EXCEPT ![l] = [admission |-> "recovering", gen |-> reg[l].client]],
     [registry EXCEPT ![l].admission = "ready"],
     [registry EXCEPT ![l].admission = "recovering"],
     [registry EXCEPT ![l] = [admission |-> "recovering", gen |-> instance[l]]]}
InstanceForms(l) ==
    {instance,
     [instance EXCEPT ![l] = 0],
     [instance EXCEPT ![l] = reg[l].client]}
ClientForms(l) ==
    {clients,
     [clients EXCEPT ![l] = clients[l] + 1]}
QueueForms(l) ==
    {queue,
     [queue EXCEPT ![l] = Append(queue[l], "attach")],
     [queue EXCEPT ![l] = Append(queue[l], "detach")],
     [queue EXCEPT ![l] = Append(queue[l], "reconcile")]}
    \cup IF queue[l] = <<>> THEN {} ELSE {[queue EXCEPT ![l] = Tail(queue[l])]}
RegForms(l) ==
    {reg,
     [reg EXCEPT ![l] = [pc |-> "handshake", client |-> instance[l], fresh |-> FALSE]],
     [reg EXCEPT ![l] = [pc |-> "handshake", client |-> clients[l] + 1, fresh |-> TRUE]],
     [reg EXCEPT ![l].pc = "answered"],
     [reg EXCEPT ![l] = A!NoReg],
     [reg EXCEPT ![l].pc = "superseding"]}
RefreshForms(l) ==
    {refresh,
     [refresh EXCEPT ![l].current = FALSE],
     [refresh EXCEPT ![l].pc = "idle"],
     [refresh EXCEPT ![l].pc = "scopes"],
     [refresh EXCEPT ![l].pc = "mark", ![l].idle = A!ScopeIdle(l)],
     [refresh EXCEPT ![l] = A!NoRefresh]}
RecoveryForms(l) ==
    {recovery,
     [recovery EXCEPT ![l].pc = "scopes"],
     [recovery EXCEPT ![l] = A!NoRecovery],
     [recovery EXCEPT ![l] = [pc |-> "closing", old |-> instance[l], idle |-> FALSE]],
     [recovery EXCEPT ![l].pc = "registering"],
     [recovery EXCEPT ![l].pc = "operations", ![l].idle = A!ScopeIdle(l)]}
LEMMA FormsTyped == ASSUME AttachTypes, NEW l \in A!Lifecycles
  PROVE  /\ NativeForms(l) \subseteq [A!Lifecycles -> Natives]
         /\ WorkForms(l) \subseteq [A!Lifecycles -> Works]
         /\ RegistryForms(l) \subseteq [A!Lifecycles -> Admissions]
         /\ InstanceForms(l) \subseteq [A!Lifecycles -> Nat]
         /\ ClientForms(l) \subseteq [A!Lifecycles -> Nat]
         /\ QueueForms(l) \subseteq [A!Lifecycles -> Seq(Requests)]
         /\ RegForms(l) \subseteq [A!Lifecycles -> Regs]
         /\ RefreshForms(l) \subseteq [A!Lifecycles -> Refreshes]
         /\ RecoveryForms(l) \subseteq [A!Lifecycles -> Recoveries]
<1>1. /\ reg[l].client \in Nat /\ instance[l] \in Nat /\ clients[l] + 1 \in Nat
      /\ queue[l] \in Seq({"attach", "detach", "reconcile"})
  BY DEF AttachTypes, Regs, Requests
<1>2. NativeForms(l) \subseteq [A!Lifecycles -> Natives]
  <2>1. /\ [native EXCEPT ![l].recovered = TRUE] \in [A!Lifecycles -> Natives]
       /\ [native EXCEPT ![l] = [gen |-> reg[l].client, recovered |-> FALSE]] \in [A!Lifecycles -> Natives]
    BY <1>1, Made, Edited DEF AttachTypes
  <2> QED
    BY <2>1 DEF AttachTypes, NativeForms
<1>3. WorkForms(l) \subseteq [A!Lifecycles -> Works]
  <2>1. /\ [work EXCEPT ![l] = [state |-> "queued", gen |-> registry[l].gen]] \in [A!Lifecycles -> Works]
       /\ [work EXCEPT ![l] = A!NoWork] \in [A!Lifecycles -> Works]
       /\ [work EXCEPT ![l].state = "running"] \in [A!Lifecycles -> Works]
    BY <1>1, Made, Edited DEF AttachTypes, Admissions
  <2> QED
    BY <2>1 DEF AttachTypes, WorkForms
<1>4. RegistryForms(l) \subseteq [A!Lifecycles -> Admissions]
  <2>1. /\ [registry EXCEPT ![l].admission = "detached"] \in [A!Lifecycles -> Admissions]
       /\ [registry EXCEPT ![l] = [admission |-> "recovering", gen |-> reg[l].client]] \in [A!Lifecycles -> Admissions]
       /\ [registry EXCEPT ![l].admission = "ready"] \in [A!Lifecycles -> Admissions]
       /\ [registry EXCEPT ![l].admission = "recovering"] \in [A!Lifecycles -> Admissions]
       /\ [registry EXCEPT ![l] = [admission |-> "recovering", gen |-> instance[l]]] \in [A!Lifecycles -> Admissions]
    BY <1>1, Made, Edited DEF AttachTypes
  <2> QED
    BY <2>1 DEF AttachTypes, RegistryForms
<1>5. InstanceForms(l) \subseteq [A!Lifecycles -> Nat]
  <2>1. /\ [instance EXCEPT ![l] = 0] \in [A!Lifecycles -> Nat]
       /\ [instance EXCEPT ![l] = reg[l].client] \in [A!Lifecycles -> Nat]
    BY <1>1, Made, Edited DEF AttachTypes
  <2> QED
    BY <2>1 DEF AttachTypes, InstanceForms
<1>6. ClientForms(l) \subseteq [A!Lifecycles -> Nat]
  <2>1. [clients EXCEPT ![l] = clients[l] + 1] \in [A!Lifecycles -> Nat]
    BY <1>1 DEF AttachTypes
  <2> QED
    BY <2>1 DEF AttachTypes, ClientForms
<1>7. QueueForms(l) \subseteq [A!Lifecycles -> Seq(Requests)]
  <2>1. \A r \in Requests : Append(queue[l], r) \in Seq(Requests)
    BY <1>1 DEF Requests
  <2>2. queue[l] # <<>> => Tail(queue[l]) \in Seq(Requests)
    BY <1>1 DEF Requests
  <2>3. \A s \in Seq(Requests) : [queue EXCEPT ![l] = s] \in [A!Lifecycles -> Seq(Requests)]
    BY DEF AttachTypes
  <2>4. \A r \in Requests : [queue EXCEPT ![l] = Append(queue[l], r)] \in [A!Lifecycles -> Seq(Requests)]
    BY <2>1, <2>3
  <2>5. queue[l] # <<>> => [queue EXCEPT ![l] = Tail(queue[l])] \in [A!Lifecycles -> Seq(Requests)]
    BY <2>2, <2>3
  <2>6. queue \in [A!Lifecycles -> Seq(Requests)]
    BY DEF AttachTypes
  <2> QED
    BY <2>4, <2>5, <2>6 DEF QueueForms, Requests
<1>8. RegForms(l) \subseteq [A!Lifecycles -> Regs]
  <2>1. /\ [reg EXCEPT ![l] = [pc |-> "handshake", client |-> instance[l], fresh |-> FALSE]] \in [A!Lifecycles -> Regs]
       /\ [reg EXCEPT ![l] = [pc |-> "handshake", client |-> clients[l] + 1, fresh |-> TRUE]] \in [A!Lifecycles -> Regs]
    BY <1>1, Made DEF AttachTypes
  <2>2. [reg EXCEPT ![l].pc = "answered"] \in [A!Lifecycles -> Regs]
    BY Edited DEF AttachTypes
  <2>3. [reg EXCEPT ![l] = A!NoReg] \in [A!Lifecycles -> Regs]
    BY Made DEF AttachTypes
  <2>4. [reg EXCEPT ![l].pc = "superseding"] \in [A!Lifecycles -> Regs]
    BY Edited DEF AttachTypes
  <2> QED
    BY <2>1, <2>2, <2>3, <2>4 DEF AttachTypes, RegForms
<1>9. RefreshForms(l) \subseteq [A!Lifecycles -> Refreshes]
  <2>1. /\ [refresh EXCEPT ![l].current = FALSE] \in [A!Lifecycles -> Refreshes]
       /\ [refresh EXCEPT ![l].pc = "idle"] \in [A!Lifecycles -> Refreshes]
       /\ [refresh EXCEPT ![l].pc = "scopes"] \in [A!Lifecycles -> Refreshes]
       /\ [refresh EXCEPT ![l].pc = "mark", ![l].idle = A!ScopeIdle(l)] \in [A!Lifecycles -> Refreshes]
       /\ [refresh EXCEPT ![l] = A!NoRefresh] \in [A!Lifecycles -> Refreshes]
    BY <1>1, Made, Edited DEF AttachTypes, A!ScopeIdle, Natives
  <2> QED
    BY <2>1 DEF AttachTypes, RefreshForms
<1>10. RecoveryForms(l) \subseteq [A!Lifecycles -> Recoveries]
  <2>1. /\ [recovery EXCEPT ![l].pc = "scopes"] \in [A!Lifecycles -> Recoveries]
       /\ [recovery EXCEPT ![l] = A!NoRecovery] \in [A!Lifecycles -> Recoveries]
       /\ [recovery EXCEPT ![l] = [pc |-> "closing", old |-> instance[l], idle |-> FALSE]] \in [A!Lifecycles -> Recoveries]
       /\ [recovery EXCEPT ![l].pc = "registering"] \in [A!Lifecycles -> Recoveries]
       /\ [recovery EXCEPT ![l].pc = "operations", ![l].idle = A!ScopeIdle(l)] \in [A!Lifecycles -> Recoveries]
    BY <1>1, Made, Edited DEF AttachTypes, A!ScopeIdle, Natives
  <2> QED
    BY <2>1 DEF AttachTypes, RecoveryForms
<1> QED
  BY <1>2, <1>3, <1>4, <1>5, <1>6, <1>7, <1>8, <1>9, <1>10

\* Every variable keeps its type.
LEMMA AttachTypesKept == ASSUME HostingAssumption, AttachInv, [A!Next]_(A!vars) PROVE AttachTypes'
<1> USE DEF AttachInv
<1> DEFINE Formed(l) ==
      /\ native' \in NativeForms(l) /\ work' \in WorkForms(l) /\ registry' \in RegistryForms(l)
      /\ instance' \in InstanceForms(l) /\ clients' \in ClientForms(l) /\ queue' \in QueueForms(l)
      /\ reg' \in RegForms(l) /\ refresh' \in RefreshForms(l) /\ recovery' \in RecoveryForms(l)
<1>1. ASSUME NEW l \in A!Lifecycles, Formed(l), UNCHANGED <<alive, up, starts>>,
             op' \in [A!Lifecycles -> {"none", "dispatched", "uncertain", "recovered"}]
      PROVE  AttachTypes'
  <2>1. AttachTypes /\ UNCHANGED <<alive, up, starts>>
    BY <1>1
  <2> QED
    BY <1>1, <2>1, FormsTyped DEF AttachTypes
<1> HIDE DEF Formed
<1>2. ASSUME A!LifecycleStops PROVE AttachTypes'
  BY <1>2, Made, Edited DEF AttachTypes, A!LifecycleStops, A!rhinoVars, A!workVars, A!hostVars,
     A!rhinoVars, A!workVars, A!hostVars
<1>3. ASSUME A!RhinoExits PROVE AttachTypes'
  <2>1. /\ alive' = FALSE /\ up' = A!None /\ starts' = MaxStarts
        /\ work' = [l \in A!Lifecycles |-> A!NoWork]
        /\ UNCHANGED <<native, op, registry, instance, clients, queue, reg, refresh, recovery>>
    BY <1>3 DEF A!RhinoExits, A!hostVars
  <2>2. MaxStarts \in Nat
    BY DEF HostingAssumption, A!AttachmentAssumption
  <2>3. work' \in [A!Lifecycles -> Works]
    BY <2>1, Made
  <2>4. alive' \in BOOLEAN /\ up' \in A!Lifecycles \cup {A!None} /\ starts' \in Nat
    BY <2>1, <2>2
  <2> QED
    BY <2>1, <2>3, <2>4 DEF AttachTypes
<1>4. ASSUME NEW l \in A!Lifecycles, A!LifecycleStarts(l) PROVE AttachTypes'
  <2>1. /\ alive' = TRUE /\ up' = l /\ starts' = l
        /\ UNCHANGED <<native, work, op, registry, instance, clients, queue, reg, refresh, recovery>>
    BY <1>4 DEF A!LifecycleStarts, A!workVars, A!hostVars
  <2>2. l \in Nat
    BY DEF HostingAssumption, A!AttachmentAssumption, A!Lifecycles
  <2>3. alive' \in BOOLEAN /\ up' \in A!Lifecycles \cup {A!None} /\ starts' \in Nat
    BY <2>1, <2>2
  <2> QED
    BY <2>1, <2>3 DEF AttachTypes
<1>5. ASSUME NEW l \in A!Lifecycles, A!PluginRegisters(l) \/ A!PluginDetaches(l) \/ A!AnswerLost(l)
      PROVE AttachTypes'
  <2>1. UNCHANGED <<alive, up, starts, native, work, op, registry, instance, clients, reg, refresh, recovery>>
    BY <1>5 DEF A!PluginRegisters, A!PluginDetaches, A!AnswerLost, A!Enqueue, A!rhinoVars, A!workVars
  <2>2. queue' \in QueueForms(l)
    BY <1>5 DEF QueueForms, A!PluginRegisters, A!PluginDetaches, A!AnswerLost, A!Enqueue, A!rhinoVars,
       A!workVars, ConnectionInv
  <2>3. Formed(l)
    BY <2>1, <2>2 DEF Formed, NativeForms, WorkForms, RegistryForms, InstanceForms, ClientForms,
       RegForms, RefreshForms, RecoveryForms
  <2> QED
    BY <1>1, <2>3, <2>1, <2>2 DEF AttachTypes
<1>6. ASSUME NEW l \in A!Lifecycles, A!NativeRecovers(l) PROVE AttachTypes'
  <2>1. UNCHANGED <<alive, up, starts, work, op, registry, instance, clients, queue, reg, refresh, recovery>>
    BY <1>6 DEF A!NativeRecovers, A!rhinoVars, A!workVars, A!hostVars
  <2>2. native' \in NativeForms(l)
    BY <1>6 DEF NativeForms, A!NativeRecovers, A!rhinoVars, A!workVars, A!hostVars, AttachTypes
  <2>3. Formed(l)
    BY <2>1, <2>2 DEF Formed, WorkForms, RegistryForms, InstanceForms, ClientForms, QueueForms,
       RegForms, RefreshForms, RecoveryForms
  <2> QED
    BY <1>1, <2>3, <2>1, <2>2 DEF AttachTypes
<1>7. ASSUME NEW l \in A!Lifecycles, A!Dispatch(l) PROVE AttachTypes'
  <2>1. UNCHANGED <<alive, up, starts, native, registry, instance, clients, queue, reg, refresh, recovery>>
    BY <1>7 DEF A!Dispatch, A!rhinoVars, A!workVars, A!hostVars
  <2>2. op' \in [A!Lifecycles -> {"none", "dispatched", "uncertain", "recovered"}]
    BY <1>7 DEF AttachTypes, A!Dispatch, A!rhinoVars, A!workVars, A!hostVars
  <2>3. work' \in WorkForms(l)
    BY <1>7 DEF WorkForms, A!Dispatch, A!rhinoVars, A!workVars, A!hostVars
  <2>4. Formed(l)
    BY <2>1, <2>2, <2>3 DEF Formed, NativeForms, RegistryForms, InstanceForms, ClientForms, QueueForms,
       RegForms, RefreshForms, RecoveryForms
  <2> QED
    BY <1>1, <2>4, <2>1, <2>2, <2>3 DEF AttachTypes
<1>8. ASSUME NEW l \in A!Lifecycles, A!WorkRuns(l) \/ A!WorkEnds(l) PROVE AttachTypes'
  <2>1. UNCHANGED <<alive, up, starts, native, op, registry, instance, clients, queue, reg, refresh, recovery>>
    BY <1>8 DEF A!WorkRuns, A!WorkEnds, A!rhinoVars, A!workVars, A!hostVars
  <2>2. work' \in WorkForms(l)
    BY <1>8 DEF WorkForms, A!WorkRuns, A!WorkEnds, A!rhinoVars, A!workVars, A!hostVars
  <2>3. Formed(l)
    BY <2>1, <2>2 DEF Formed, NativeForms, RegistryForms, InstanceForms, ClientForms, QueueForms,
       RegForms, RefreshForms, RecoveryForms
  <2> QED
    BY <1>1, <2>3, <2>1, <2>2 DEF AttachTypes
<1>9. ASSUME NEW l \in A!Lifecycles, A!ResultArrives(l) \/ A!ResultLost(l) \/ A!RecoveryByExit(l)
      PROVE AttachTypes'
  <2>1. UNCHANGED <<alive, up, starts, native, work, registry, instance, clients, queue, reg, refresh, recovery>>
    BY <1>9 DEF A!ResultArrives, A!ResultLost, A!RecoveryByExit, A!rhinoVars, A!workVars, A!hostVars
  <2>2. op' \in [A!Lifecycles -> {"none", "dispatched", "uncertain", "recovered"}]
    BY <1>9 DEF AttachTypes, A!ResultArrives, A!ResultLost, A!RecoveryByExit, A!rhinoVars, A!workVars,
       A!hostVars
  <2>3. Formed(l)
    BY <2>1, <2>2 DEF Formed, NativeForms, WorkForms, RegistryForms, InstanceForms, ClientForms,
       QueueForms, RegForms, RefreshForms, RecoveryForms
  <2> QED
    BY <1>1, <2>3, <2>1, <2>2 DEF AttachTypes
<1>10. ASSUME NEW l \in A!Lifecycles, A!RegisterDetaches(l) PROVE AttachTypes'
  <2>1. UNCHANGED <<alive, up, starts, native, work, op, clients, reg, recovery>>
    BY <1>10 DEF A!RegisterDetaches, A!SetAdmission, A!Close, A!Replaced, A!rhinoVars, A!workVars
  <2>2. queue' \in QueueForms(l)
    BY <1>10 DEF QueueForms, A!RegisterDetaches, A!SetAdmission, A!Close, A!Replaced, A!rhinoVars,
       A!workVars, ConnectionInv
  <2>3. registry' \in RegistryForms(l)
    BY <1>10 DEF RegistryForms, A!RegisterDetaches, A!SetAdmission, A!Close, A!Replaced, A!rhinoVars,
       A!workVars
  <2>4. instance' \in InstanceForms(l)
    BY <1>10 DEF InstanceForms, A!RegisterDetaches, A!SetAdmission, A!Close, A!Replaced, A!rhinoVars,
       A!workVars
  <2>5. refresh' \in RefreshForms(l)
    BY <1>10 DEF RefreshForms, A!RegisterDetaches, A!SetAdmission, A!Close, A!Replaced, A!rhinoVars,
       A!workVars
  <2>6. Formed(l)
    BY <2>1, <2>2, <2>3, <2>4, <2>5 DEF Formed, NativeForms, WorkForms, ClientForms, RegForms,
       RecoveryForms
  <2> QED
    BY <1>1, <2>6, <2>1, <2>2, <2>3, <2>4, <2>5 DEF AttachTypes
<1>11. ASSUME NEW l \in A!Lifecycles, A!RegisterConnects(l) PROVE AttachTypes'
  <2>1. UNCHANGED <<alive, up, starts, native, work, op, registry, instance, queue, refresh, recovery>>
    BY <1>11 DEF A!RegisterConnects, A!rhinoVars, A!workVars
  <2>2. clients' \in ClientForms(l)
    BY <1>11 DEF ClientForms, A!RegisterConnects, A!rhinoVars, A!workVars
  <2>3. reg' \in RegForms(l)
    BY <1>11 DEF RegForms, A!RegisterConnects, A!rhinoVars, A!workVars, AttachTypes
  <2>4. Formed(l)
    BY <2>1, <2>2, <2>3 DEF Formed, NativeForms, WorkForms, RegistryForms, InstanceForms, QueueForms,
       RefreshForms, RecoveryForms
  <2> QED
    BY <1>1, <2>4, <2>1, <2>2, <2>3 DEF AttachTypes
<1>12. ASSUME NEW l \in A!Lifecycles, A!Handshake(l) PROVE AttachTypes'
  <2>1. UNCHANGED <<alive, up, starts, work, op, registry, instance, clients, queue, refresh, recovery>>
    BY <1>12 DEF A!Handshake, A!SetReg, A!rhinoVars, A!workVars
  <2>2. native' \in NativeForms(l)
    BY <1>12 DEF NativeForms, A!Handshake, A!SetReg, A!rhinoVars, A!workVars, AttachTypes
  <2>3. reg' \in RegForms(l)
    BY <1>12 DEF RegForms, A!Handshake, A!SetReg, A!rhinoVars, A!workVars, AttachTypes
  <2>4. Formed(l)
    BY <2>1, <2>2, <2>3 DEF Formed, WorkForms, RegistryForms, InstanceForms, ClientForms, QueueForms,
       RefreshForms, RecoveryForms
  <2> QED
    BY <1>1, <2>4, <2>1, <2>2, <2>3 DEF AttachTypes
<1>13. ASSUME NEW l \in A!Lifecycles, A!RegisterFails(l) PROVE AttachTypes'
  <2>1. UNCHANGED <<alive, up, starts, native, work, op, registry, instance, clients, refresh>>
    BY <1>13 DEF A!RegisterFails, A!Continue, A!EndRegistration, A!rhinoVars, A!workVars
  <2>2. queue' \in QueueForms(l)
    BY <1>13 DEF QueueForms, A!RegisterFails, A!Continue, A!EndRegistration, A!rhinoVars, A!workVars,
       ConnectionInv
  <2>3. reg' \in RegForms(l)
    BY <1>13 DEF RegForms, A!RegisterFails, A!Continue, A!EndRegistration, A!rhinoVars, A!workVars,
       AttachTypes
  <2>4. recovery' \in RecoveryForms(l)
    BY <1>13 DEF RecoveryForms, A!RegisterFails, A!Continue, A!EndRegistration, A!rhinoVars, A!workVars
  <2>5. Formed(l)
    BY <2>1, <2>2, <2>3, <2>4 DEF Formed, NativeForms, WorkForms, RegistryForms, InstanceForms,
       ClientForms, RefreshForms
  <2> QED
    BY <1>1, <2>5, <2>1, <2>2, <2>3, <2>4 DEF AttachTypes
<1>14. ASSUME NEW l \in A!Lifecycles, A!RegisterAnswered(l) \/ A!RegisterCompletes(l) PROVE AttachTypes'
  <2>1. UNCHANGED <<alive, up, starts, native, work, op, clients>>
    BY <1>14, RegisterEffect DEF A!Continue, A!EndRegistration, Taken, Refused
  <2>2. queue' \in QueueForms(l)
    BY <1>14, RegisterEffect DEF QueueForms, A!Continue, A!EndRegistration, Taken, Refused,
       ConnectionInv
  <2>3. reg' \in RegForms(l)
    BY <1>14, RegisterEffect DEF RegForms, A!Continue, A!EndRegistration, Taken, Refused, AttachTypes
  <2>4. refresh' \in RefreshForms(l)
    BY <1>14, RegisterEffect DEF RefreshForms, A!Continue, A!EndRegistration, Taken, Refused
  <2>5. registry' \in RegistryForms(l)
    BY <1>14, RegisterEffect DEF RegistryForms, A!Continue, A!EndRegistration, Taken, Refused
  <2>6. instance' \in InstanceForms(l)
    BY <1>14, RegisterEffect DEF InstanceForms, A!Continue, A!EndRegistration, Taken, Refused
  <2>7. recovery' \in RecoveryForms(l)
    BY <1>14, RegisterEffect DEF RecoveryForms, A!Continue, A!EndRegistration, Taken, Refused
  <2>8. Formed(l)
    BY <2>1, <2>2, <2>3, <2>4, <2>5, <2>6, <2>7 DEF Formed, NativeForms, WorkForms, ClientForms
  <2> QED
    BY <1>1, <2>8, <2>1, <2>2, <2>3, <2>4, <2>5, <2>6, <2>7 DEF AttachTypes
<1>15. ASSUME NEW l \in A!Lifecycles, A!RegisterSupersedes(l) PROVE AttachTypes'
  <2>1. UNCHANGED <<alive, up, starts, native, work, op, clients, queue, recovery>>
    BY <1>15 DEF A!RegisterSupersedes, A!rhinoVars, A!workVars
  <2>2. PICK m \in A!Lifecycles : A!SetAdmission(m, "detached") /\ A!Close(m)
    BY <1>15 DEF A!RegisterSupersedes, A!Superseded
  <2>3. registry' \in RegistryForms(m) /\ instance' \in InstanceForms(m) /\ refresh' \in RefreshForms(m)
    BY <2>2 DEF A!SetAdmission, A!Close, A!Replaced, RegistryForms, InstanceForms, RefreshForms
  <2>4. reg' \in RegForms(l)
    BY <1>15 DEF A!RegisterSupersedes, A!SetReg, RegForms
  <2>5. /\ registry' \in [A!Lifecycles -> Admissions] /\ instance' \in [A!Lifecycles -> Nat]
        /\ refresh' \in [A!Lifecycles -> Refreshes]
    BY <2>3, FormsTyped
  <2>6. reg' \in [A!Lifecycles -> Regs]
    BY <2>4, FormsTyped
  <2> QED
    BY <2>1, <2>5, <2>6 DEF AttachTypes
<1>16. ASSUME A!RefreshStarts PROVE AttachTypes'
  BY <1>16, Made, Edited DEF AttachTypes, A!RefreshStarts, A!rhinoVars, A!workVars, A!hostVars,
     A!rhinoVars, A!workVars, A!hostVars
<1>17. ASSUME A!HostRestarts PROVE AttachTypes'
  <2>1. UNCHANGED <<alive, up, starts, native, work, clients>>
    BY <1>17 DEF A!HostRestarts, A!rhinoVars
  <2>2. /\ instance' = [l \in A!Lifecycles |-> 0] /\ queue' = [l \in A!Lifecycles |-> <<>>]
        /\ reg' = [l \in A!Lifecycles |-> A!NoReg] /\ refresh' = [l \in A!Lifecycles |-> A!NoRefresh]
        /\ recovery' = [l \in A!Lifecycles |-> A!NoRecovery]
    BY <1>17 DEF A!HostRestarts
  <2>3. /\ instance' \in [A!Lifecycles -> Nat] /\ queue' \in [A!Lifecycles -> Seq(Requests)]
    BY <2>2 DEF Requests
  <2>4. /\ reg' \in [A!Lifecycles -> Regs] /\ refresh' \in [A!Lifecycles -> Refreshes]
        /\ recovery' \in [A!Lifecycles -> Recoveries]
    BY <2>2, Made
  <2>5. op' \in [A!Lifecycles -> {"none", "dispatched", "uncertain", "recovered"}]
    BY <1>17 DEF A!HostRestarts, AttachTypes
  <2>6. \A l \in A!Lifecycles : [registry[l] EXCEPT !.admission = "recovering"] \in Admissions
    BY Edited DEF AttachTypes
  <2>7. registry' \in [A!Lifecycles -> Admissions]
    BY <1>17, <2>6 DEF A!HostRestarts, AttachTypes
  <2> QED
    BY <2>1, <2>3, <2>4, <2>5, <2>7 DEF AttachTypes
<1>18. ASSUME NEW l \in A!Lifecycles, A!RefreshDocuments(l) \/ A!RefreshScopes(l) PROVE AttachTypes'
  <2>1. UNCHANGED <<alive, up, starts, native, work, op, registry, instance, clients, queue, reg, recovery>>
    BY <1>18 DEF A!RefreshDocuments, A!RefreshScopes, A!rhinoVars, A!workVars
  <2>2. refresh' \in RefreshForms(l)
    BY <1>18 DEF RefreshForms, A!RefreshDocuments, A!RefreshScopes, A!rhinoVars, A!workVars
  <2>3. Formed(l)
    BY <2>1, <2>2 DEF Formed, NativeForms, WorkForms, RegistryForms, InstanceForms, ClientForms,
       QueueForms, RegForms, RecoveryForms
  <2> QED
    BY <1>1, <2>3, <2>1, <2>2 DEF AttachTypes
<1>19. ASSUME NEW l \in A!Lifecycles, A!RefreshMarks(l) PROVE AttachTypes'
  <2>1. UNCHANGED <<alive, up, starts, native, work, op, instance, clients, queue, reg, recovery>>
    BY <1>19 DEF A!RefreshMarks, A!SetAdmission, A!rhinoVars, A!workVars
  <2>2. refresh' \in RefreshForms(l)
    BY <1>19 DEF RefreshForms, A!RefreshMarks, A!SetAdmission, A!rhinoVars, A!workVars
  <2>3. registry' \in RegistryForms(l)
    BY <1>19 DEF RegistryForms, A!RefreshMarks, A!SetAdmission, A!rhinoVars, A!workVars
  <2>4. Formed(l)
    BY <2>1, <2>2, <2>3 DEF Formed, NativeForms, WorkForms, InstanceForms, ClientForms, QueueForms,
       RegForms, RecoveryForms
  <2> QED
    BY <1>1, <2>4, <2>1, <2>2, <2>3 DEF AttachTypes
<1>20. ASSUME NEW l \in A!Lifecycles, A!RefreshFails(l) \/ A!RefreshTimesOut(l) PROVE AttachTypes'
  <2>1. UNCHANGED <<alive, up, starts, native, work, op, instance, clients, queue, reg, recovery>>
    BY <1>20 DEF A!RefreshFails, A!RefreshTimesOut, A!RefreshEnds, A!rhinoVars, A!workVars
  <2>2. refresh' \in RefreshForms(l)
    BY <1>20 DEF RefreshForms, A!RefreshFails, A!RefreshTimesOut, A!RefreshEnds, A!rhinoVars, A!workVars
  <2>3. registry' \in RegistryForms(l)
    BY <1>20 DEF RegistryForms, A!RefreshFails, A!RefreshTimesOut, A!RefreshEnds, A!rhinoVars,
       A!workVars
  <2>4. Formed(l)
    BY <2>1, <2>2, <2>3 DEF Formed, NativeForms, WorkForms, InstanceForms, ClientForms, QueueForms,
       RegForms, RecoveryForms
  <2> QED
    BY <1>1, <2>4, <2>1, <2>2, <2>3 DEF AttachTypes
<1>21. ASSUME NEW l \in A!Lifecycles, A!RecoveryStarts(l) PROVE AttachTypes'
  <2>1. UNCHANGED <<alive, up, starts, native, work, op, clients, queue, reg>>
    BY <1>21 DEF A!RecoveryStarts, A!SetAdmission, A!Close, A!Replaced, A!rhinoVars, A!workVars
  <2>2. registry' \in RegistryForms(l)
    BY <1>21 DEF RegistryForms, A!RecoveryStarts, A!SetAdmission, A!Close, A!Replaced, A!rhinoVars,
       A!workVars
  <2>3. instance' \in InstanceForms(l)
    BY <1>21 DEF InstanceForms, A!RecoveryStarts, A!SetAdmission, A!Close, A!Replaced, A!rhinoVars,
       A!workVars
  <2>4. refresh' \in RefreshForms(l)
    BY <1>21 DEF RefreshForms, A!RecoveryStarts, A!SetAdmission, A!Close, A!Replaced, A!rhinoVars,
       A!workVars
  <2>5. recovery' \in RecoveryForms(l)
    BY <1>21 DEF RecoveryForms, A!RecoveryStarts, A!SetAdmission, A!Close, A!Replaced, A!rhinoVars,
       A!workVars
  <2>6. Formed(l)
    BY <2>1, <2>2, <2>3, <2>4, <2>5 DEF Formed, NativeForms, WorkForms, ClientForms, QueueForms,
       RegForms
  <2> QED
    BY <1>1, <2>6, <2>1, <2>2, <2>3, <2>4, <2>5 DEF AttachTypes
<1>22. ASSUME NEW l \in A!Lifecycles, A!RecoveryRegisters(l) PROVE AttachTypes'
  <2>1. UNCHANGED <<alive, up, starts, native, work, op, registry, instance, clients, reg, refresh>>
    BY <1>22 DEF A!RecoveryRegisters, A!Enqueue, A!rhinoVars, A!workVars
  <2>2. queue' \in QueueForms(l)
    BY <1>22 DEF QueueForms, A!RecoveryRegisters, A!Enqueue, A!rhinoVars, A!workVars, ConnectionInv
  <2>3. recovery' \in RecoveryForms(l)
    BY <1>22 DEF RecoveryForms, A!RecoveryRegisters, A!Enqueue, A!rhinoVars, A!workVars
  <2>4. Formed(l)
    BY <2>1, <2>2, <2>3 DEF Formed, NativeForms, WorkForms, RegistryForms, InstanceForms, ClientForms,
       RegForms, RefreshForms
  <2> QED
    BY <1>1, <2>4, <2>1, <2>2, <2>3 DEF AttachTypes
<1>23. ASSUME NEW l \in A!Lifecycles, A!RecoveryScopes(l) PROVE AttachTypes'
  <2>1. UNCHANGED <<alive, up, starts, native, work, op, registry, instance, clients, queue, reg, refresh>>
    BY <1>23 DEF A!RecoveryScopes, A!rhinoVars, A!workVars
  <2>2. recovery' \in RecoveryForms(l)
    BY <1>23 DEF RecoveryForms, A!RecoveryScopes, A!rhinoVars, A!workVars
  <2>3. Formed(l)
    BY <2>1, <2>2 DEF Formed, NativeForms, WorkForms, RegistryForms, InstanceForms, ClientForms,
       QueueForms, RegForms, RefreshForms
  <2> QED
    BY <1>1, <2>3, <2>1, <2>2 DEF AttachTypes
<1>24. ASSUME NEW l \in A!Lifecycles, A!RecoveryFails(l) PROVE AttachTypes'
  <2>1. UNCHANGED <<alive, up, starts, native, work, op, registry, instance, clients, queue, reg, refresh>>
    BY <1>24 DEF A!RecoveryFails, A!EndRecovery, A!rhinoVars, A!workVars
  <2>2. recovery' \in RecoveryForms(l)
    BY <1>24 DEF RecoveryForms, A!RecoveryFails, A!EndRecovery, A!rhinoVars, A!workVars
  <2>3. Formed(l)
    BY <2>1, <2>2 DEF Formed, NativeForms, WorkForms, RegistryForms, InstanceForms, ClientForms,
       QueueForms, RegForms, RefreshForms
  <2> QED
    BY <1>1, <2>3, <2>1, <2>2 DEF AttachTypes
<1>25. ASSUME NEW l \in A!Lifecycles, A!RecoveryOperations(l) PROVE AttachTypes'
  <2>1. UNCHANGED <<alive, up, starts, native, work, instance, clients, queue, reg, refresh>>
    BY <1>25 DEF A!RecoveryOperations, A!EndRecovery, A!rhinoVars, A!workVars
  <2>2. recovery' \in RecoveryForms(l)
    BY <1>25 DEF RecoveryForms, A!RecoveryOperations, A!EndRecovery, A!rhinoVars, A!workVars
  <2>3. op' \in [A!Lifecycles -> {"none", "dispatched", "uncertain", "recovered"}]
    BY <1>25 DEF AttachTypes, A!RecoveryOperations, A!EndRecovery, A!rhinoVars, A!workVars
  <2>4. registry' \in RegistryForms(l)
    BY <1>25 DEF RegistryForms, A!RecoveryOperations, A!EndRecovery, A!rhinoVars, A!workVars
  <2>5. Formed(l)
    BY <2>1, <2>2, <2>3, <2>4 DEF Formed, NativeForms, WorkForms, InstanceForms, ClientForms,
       QueueForms, RegForms, RefreshForms
  <2> QED
    BY <1>1, <2>5, <2>1, <2>2, <2>3, <2>4 DEF AttachTypes
<1>26. CASE UNCHANGED A!vars
  BY <1>26 DEF A!vars, AttachTypes
<1> QED
  BY <1>2, <1>3, <1>4, <1>5, <1>6, <1>7, <1>8, <1>9, <1>10, <1>11, <1>12, <1>13, <1>14, <1>15, <1>16,
     <1>17, <1>18, <1>19, <1>20, <1>21, <1>22, <1>23, <1>24, <1>25, <1>26
  DEF A!Next, A!RegistrationStep, A!RefreshStep, A!RecoveryStep

\* What runs in Rhino runs in its last lifecycle.
LEMMA ProcessKept == ASSUME HostingAssumption, AttachInv, [A!Next]_(A!vars) PROVE ProcessInv'
<1> USE DEF AttachInv, AttachTypes, ProcessInv, Natives, Works, A!Lifecycles, A!NoWork,
            HostingAssumption, A!AttachmentAssumption, A!rhinoVars, A!workVars, A!hostVars,
            A!None, A!Close, A!SetAdmission, A!Replaced, A!Enqueue, A!SetReg, A!EndRegistration,
            A!EndRecovery, A!Fault
<1>1. CASE UNCHANGED A!vars
  BY <1>1 DEF A!vars
<1>2. CASE A!LifecycleStops
  BY <1>2 DEF A!LifecycleStops
<1>3. CASE A!RhinoExits
  BY <1>3 DEF A!RhinoExits
<1>4. CASE A!RefreshStarts
  BY <1>4 DEF A!RefreshStarts
<1>5. CASE A!HostRestarts
  BY <1>5 DEF A!HostRestarts
<1>6. ASSUME NEW l \in A!Lifecycles, A!LifecycleStarts(l) PROVE ProcessInv'
  <2>1. /\ alive' = TRUE /\ up' = l /\ starts' = l /\ l = starts + 1 /\ starts \in Nat
        /\ up = A!None /\ UNCHANGED <<native, work>>
    BY <1>6 DEF A!LifecycleStarts
  <2> QED
    BY <2>1
<1>7. ASSUME NEW l \in A!Lifecycles, A!PluginRegisters(l) \/ A!PluginDetaches(l) \/ A!AnswerLost(l)
      PROVE ProcessInv'
  BY <1>7 DEF A!PluginRegisters, A!PluginDetaches, A!AnswerLost
<1>8. ASSUME NEW l \in A!Lifecycles, A!NativeRecovers(l) PROVE ProcessInv'
  <2>1. /\ UNCHANGED <<alive, up, starts, work>> /\ native[l].gen # 0
        /\ native' = [native EXCEPT ![l].recovered = TRUE]
    BY <1>8 DEF A!NativeRecovers
  <2> QED
    BY <2>1
<1>9. ASSUME NEW l \in A!Lifecycles, A!Dispatch(l) PROVE ProcessInv'
  BY <1>9 DEF A!Dispatch
<1>10. ASSUME NEW l \in A!Lifecycles, A!WorkRuns(l) \/ A!WorkEnds(l) PROVE ProcessInv'
  <2>1. /\ UNCHANGED <<alive, up, starts, native>>
        /\ \/ work' = [work EXCEPT ![l] = A!NoWork]
           \/ up = l /\ work' = [work EXCEPT ![l].state = "running"]
    BY <1>10 DEF A!WorkRuns, A!WorkEnds
  <2>2. ASSUME NEW m \in A!Lifecycles, work'[m].state = "running" PROVE up = m
    <3>1. m # l => work'[m] = work[m]
      BY <2>1
    <3>2. m = l => up = m \/ work'[m] = A!NoWork
      BY <2>1
    <3>3. CASE m # l
      BY <2>2, <3>1, <3>3
    <3>4. CASE m = l
      <4>1. work'[m] # A!NoWork
        BY <2>2
      <4> HIDE DEF AttachInv, AttachTypes, ProcessInv, A!NoWork
      <4> QED
        BY <3>2, <3>4, <4>1
    <3> QED
      BY <3>3, <3>4
  <2> QED
    BY <2>1, <2>2
<1>11. ASSUME NEW l \in A!Lifecycles, A!ResultArrives(l) \/ A!ResultLost(l) PROVE ProcessInv'
  <2>1. UNCHANGED <<alive, up, starts, native, work>>
    BY <1>11 DEF A!ResultArrives, A!ResultLost
  <2> QED
    BY <2>1
<1>12. ASSUME NEW l \in A!Lifecycles, A!RegisterDetaches(l) PROVE ProcessInv'
  BY <1>12 DEF A!RegisterDetaches
<1>13. ASSUME NEW l \in A!Lifecycles, A!RegisterConnects(l) PROVE ProcessInv'
  BY <1>13 DEF A!RegisterConnects
<1>14. ASSUME NEW l \in A!Lifecycles, A!Handshake(l) PROVE ProcessInv'
  BY <1>14 DEF A!Handshake
<1>15. ASSUME NEW l \in A!Lifecycles, A!RegisterFails(l) PROVE ProcessInv'
  BY <1>15 DEF A!RegisterFails, A!Continue
<1>16. ASSUME NEW l \in A!Lifecycles, A!RegisterSupersedes(l) PROVE ProcessInv'
  BY <1>16 DEF A!RegisterSupersedes, A!Superseded
<1>17. ASSUME NEW l \in A!Lifecycles, A!RefreshDocuments(l) \/ A!RefreshScopes(l) PROVE ProcessInv'
  <2>1. UNCHANGED <<alive, up, starts, native, work>>
    BY <1>17 DEF A!RefreshDocuments, A!RefreshScopes
  <2> QED
    BY <2>1
<1>18. ASSUME NEW l \in A!Lifecycles, A!RefreshMarks(l) PROVE ProcessInv'
  <2>1. UNCHANGED <<alive, up, starts, native, work>>
    BY <1>18 DEF A!RefreshMarks
  <2> QED
    BY <2>1
<1>19. ASSUME NEW l \in A!Lifecycles, A!RefreshFails(l) \/ A!RefreshTimesOut(l) PROVE ProcessInv'
  <2>1. UNCHANGED <<alive, up, starts, native, work>>
    BY <1>19 DEF A!RefreshFails, A!RefreshTimesOut, A!RefreshEnds
  <2> QED
    BY <2>1
<1>20. ASSUME NEW l \in A!Lifecycles, A!RecoveryStarts(l) PROVE ProcessInv'
  BY <1>20 DEF A!RecoveryStarts
<1>21. ASSUME NEW l \in A!Lifecycles, A!RecoveryRegisters(l) PROVE ProcessInv'
  BY <1>21 DEF A!RecoveryRegisters
<1>22. ASSUME NEW l \in A!Lifecycles, A!RecoveryScopes(l) \/ A!RecoveryFails(l) PROVE ProcessInv'
  BY <1>22 DEF A!RecoveryScopes, A!RecoveryFails
<1>23. ASSUME NEW l \in A!Lifecycles, A!RecoveryOperations(l) PROVE ProcessInv'
  BY <1>23 DEF A!RecoveryOperations
<1>24. ASSUME NEW l \in A!Lifecycles, A!RecoveryByExit(l) PROVE ProcessInv'
  BY <1>24 DEF A!RecoveryByExit
<1>25. ASSUME NEW l \in A!Lifecycles, A!RegisterAnswered(l) \/ A!RegisterCompletes(l) PROVE ProcessInv'
  <2>1. UNCHANGED <<alive, up, starts, native, work>>
    BY <1>25, RegisterEffect
  <2> QED
    BY <2>1
<1> QED
  BY <1>1, <1>2, <1>3, <1>4, <1>5, <1>6, <1>7, <1>8, <1>9, <1>10, <1>11, <1>12, <1>13, <1>14, <1>15,
     <1>16, <1>17, <1>18, <1>19, <1>20, <1>21, <1>22, <1>23, <1>24, <1>25
  DEF A!Next, A!RegistrationStep, A!RefreshStep, A!RecoveryStep

\* The instance, the registry and the fence keep telling of one client.
LEMMA ConnectionKept == ASSUME HostingAssumption, AttachInv, [A!Next]_(A!vars) PROVE ConnectionInv'
<1> USE DEF AttachInv, AttachTypes, ConnectionInv, Natives, Admissions, Regs, A!Attached,
            A!NoReg, A!rhinoVars, A!workVars, A!hostVars, A!None, A!Close, A!SetAdmission,
            A!Replaced, A!Enqueue, A!SetReg, A!EndRegistration, A!EndRecovery, A!Fault
<1>1. CASE UNCHANGED A!vars
  BY <1>1 DEF A!vars
<1>2. CASE A!LifecycleStops
  BY <1>2 DEF A!LifecycleStops
<1>3. CASE A!RhinoExits
  BY <1>3 DEF A!RhinoExits
<1>4. CASE A!RefreshStarts
  <2>1. UNCHANGED <<native, queue, reg>>
    BY <1>4 DEF A!RefreshStarts
  <2>2. CASE alive
    <3>1. \A m \in A!Lifecycles : instance'[m] = instance[m] /\ registry'[m] = registry[m]
      BY <1>4, <2>2 DEF A!RefreshStarts, A!Dead
    <3> QED
      BY <2>1, <3>1
  <2>3. CASE ~alive
    <3>1. \A m \in A!Lifecycles : instance'[m] = 0
      BY <1>4, <2>3 DEF A!RefreshStarts
    <3> QED
      BY <2>1, <3>1
  <2> QED
    BY <2>2, <2>3
<1>5. CASE A!HostRestarts
  BY <1>5 DEF A!HostRestarts
<1>6. ASSUME NEW l \in A!Lifecycles, A!LifecycleStarts(l) PROVE ConnectionInv'
  BY <1>6 DEF A!LifecycleStarts
<1>7. ASSUME NEW l \in A!Lifecycles, A!PluginRegisters(l) \/ A!PluginDetaches(l) \/ A!AnswerLost(l)
      PROVE ConnectionInv'
  <2>1. UNCHANGED <<instance, registry, native, reg>>
    BY <1>7 DEF A!PluginRegisters, A!PluginDetaches, A!AnswerLost
  <2>3. queue' = queue \/ \E r \in Requests : queue' = [queue EXCEPT ![l] = Append(queue[l], r)]
    BY <1>7 DEF A!PluginRegisters, A!PluginDetaches, A!AnswerLost, Requests
  <2>4. \A m \in A!Lifecycles : queue[m] # <<>> => queue'[m] # <<>>
    BY <2>3 DEF Requests
  <2> QED
    BY <2>1, <2>4
<1>8. ASSUME NEW l \in A!Lifecycles, A!NativeRecovers(l) PROVE ConnectionInv'
  <2>1. /\ UNCHANGED <<instance, registry, queue, reg>>
        /\ native' = [native EXCEPT ![l].recovered = TRUE]
    BY <1>8 DEF A!NativeRecovers
  <2> QED
    BY <2>1
<1>9. ASSUME NEW l \in A!Lifecycles, A!Dispatch(l) PROVE ConnectionInv'
  <2>1. UNCHANGED <<instance, registry, native, queue, reg>>
    BY <1>9 DEF A!Dispatch
  <2> QED
    BY <2>1
<1>10. ASSUME NEW l \in A!Lifecycles, A!WorkRuns(l) \/ A!WorkEnds(l) PROVE ConnectionInv'
  <2>1. UNCHANGED <<instance, registry, native, queue, reg>>
    BY <1>10 DEF A!WorkRuns, A!WorkEnds
  <2> QED
    BY <2>1
<1>11. ASSUME NEW l \in A!Lifecycles, A!ResultArrives(l) \/ A!ResultLost(l) PROVE ConnectionInv'
  <2>1. UNCHANGED <<instance, registry, native, queue, reg>>
    BY <1>11 DEF A!ResultArrives, A!ResultLost
  <2> QED
    BY <2>1
<1>12. ASSUME NEW l \in A!Lifecycles, A!RegisterDetaches(l) PROVE ConnectionInv'
  <2>1. reg[l].pc = "idle" /\ UNCHANGED <<native, reg>> /\ queue' = [queue EXCEPT ![l] = Tail(@)]
    BY <1>12 DEF A!RegisterDetaches
  <2>2. CASE instance[l] # 0
    <3>1. /\ registry' = [registry EXCEPT ![l].admission = "detached"]
          /\ instance' = [instance EXCEPT ![l] = 0]
      BY <1>12, <2>2 DEF A!RegisterDetaches
    <3> QED
      BY <2>1, <3>1
  <2>3. CASE instance[l] = 0
    <3>1. UNCHANGED <<registry, instance>>
      BY <1>12, <2>3 DEF A!RegisterDetaches
    <3> QED
      BY <2>1, <3>1
  <2> QED
    BY <2>2, <2>3
<1>13. ASSUME NEW l \in A!Lifecycles, A!RegisterConnects(l) PROVE ConnectionInv'
  <2>1. UNCHANGED <<instance, registry, native, queue>> /\ queue[l] # <<>>
    BY <1>13 DEF A!RegisterConnects
  <2>2. CASE instance[l] # 0
    <3>1. reg' = [reg EXCEPT ![l] = [pc |-> "handshake", client |-> instance[l], fresh |-> FALSE]]
      BY <1>13, <2>2 DEF A!RegisterConnects
    <3> QED
      BY <2>1, <2>2, <3>1
  <2>3. CASE instance[l] = 0
    <3>1. reg' = [reg EXCEPT ![l] = [pc |-> "handshake", client |-> clients[l] + 1, fresh |-> TRUE]]
      BY <1>13, <2>3 DEF A!RegisterConnects
    <3>2. /\ reg'[l] = [pc |-> "handshake", client |-> clients[l] + 1, fresh |-> TRUE]
          /\ clients[l] + 1 # 0 /\ \A m \in A!Lifecycles \ {l} : reg'[m] = reg[m]
      BY <3>1
    <3>3. \A m \in A!Lifecycles : instance'[m] # 0 =>
            A!Attached(m)' /\ registry'[m].gen = instance'[m] /\ native'[m].gen = instance'[m]
      BY <2>1
    <3>4. ASSUME NEW m \in A!Lifecycles
          PROVE  /\ reg'[m].pc # "idle" =>
                      /\ queue'[m] # <<>> /\ reg'[m].client # 0
                      /\ IF reg'[m].fresh THEN instance'[m] = 0
                         ELSE instance'[m] \in {0, reg'[m].client} /\ native'[m].gen = reg'[m].client
                 /\ reg'[m].pc \in {"answered", "superseding"} => native'[m].gen = reg'[m].client
      <4>1. CASE m = l
        BY <2>1, <2>3, <3>2, <4>1
      <4>2. CASE m # l
        <5>1. /\ reg'[m] = reg[m] /\ queue'[m] = queue[m] /\ instance'[m] = instance[m]
              /\ native'[m] = native[m]
          BY <2>1, <3>2, <4>2
        <5> QED
          BY <5>1
      <4> QED
        BY <4>1, <4>2
    <3>5. \A m, o \in A!Lifecycles : instance'[m] # 0 /\ instance'[o] # 0 => m = o
      BY <2>1
    <3> QED
      BY <3>3, <3>4, <3>5
  <2> QED
    BY <2>2, <2>3
<1>14. ASSUME NEW l \in A!Lifecycles, A!Handshake(l) PROVE ConnectionInv'
  BY <1>14 DEF A!Handshake
<1>15. ASSUME NEW l \in A!Lifecycles, A!RegisterFails(l) PROVE ConnectionInv'
  <2>1. /\ UNCHANGED <<instance, registry, native>>
        /\ reg' = [reg EXCEPT ![l] = A!NoReg] /\ queue' = [queue EXCEPT ![l] = Tail(@)]
    BY <1>15 DEF A!RegisterFails, A!Continue
  <2> QED
    BY <2>1
<1>16. ASSUME NEW l \in A!Lifecycles, A!RegisterSupersedes(l) PROVE ConnectionInv'
  <2>1. UNCHANGED <<native, queue>> /\ reg[l].pc = "answered" /\ reg' = [reg EXCEPT ![l].pc = "superseding"]
    BY <1>16 DEF A!RegisterSupersedes
  <2>2. PICK m \in A!Lifecycles \ {l} : /\ registry' = [registry EXCEPT ![m].admission = "detached"]
                                       /\ instance' = [instance EXCEPT ![m] = 0]
    BY <1>16 DEF A!RegisterSupersedes, A!Superseded
  <2>3. /\ \A o \in A!Lifecycles \ {m} : registry'[o] = registry[o] /\ instance'[o] = instance[o]
        /\ instance'[m] = 0
    BY <2>2
  <2>4. /\ reg'[l].pc = "superseding" /\ reg'[l].client = reg[l].client /\ reg'[l].fresh = reg[l].fresh
        /\ \A o \in A!Lifecycles \ {l} : reg'[o] = reg[o]
    BY <2>1
  <2>5. \A o \in A!Lifecycles : instance'[o] # 0 =>
          A!Attached(o)' /\ registry'[o].gen = instance'[o] /\ native'[o].gen = instance'[o]
    BY <2>1, <2>3
  <2>6. ASSUME NEW o \in A!Lifecycles
        PROVE  /\ reg'[o].pc # "idle" =>
                    /\ queue'[o] # <<>> /\ reg'[o].client # 0
                    /\ IF reg'[o].fresh THEN instance'[o] = 0
                       ELSE instance'[o] \in {0, reg'[o].client} /\ native'[o].gen = reg'[o].client
               /\ reg'[o].pc \in {"answered", "superseding"} => native'[o].gen = reg'[o].client
    <3>1. /\ instance'[o] \in {0, instance[o]} /\ native'[o] = native[o] /\ queue'[o] = queue[o]
          /\ reg'[o].client = reg[o].client /\ reg'[o].fresh = reg[o].fresh
          /\ reg'[o].pc # "idle" => reg[o].pc # "idle"
          /\ reg'[o].pc \in {"answered", "superseding"} => reg[o].pc \in {"answered", "superseding"}
      BY <2>1, <2>3, <2>4
    <3> QED
      BY <3>1
  <2>7. \A o, q \in A!Lifecycles : instance'[o] # 0 /\ instance'[q] # 0 => o = q
    BY <2>3
  <2> QED
    BY <2>5, <2>6, <2>7
<1>17. ASSUME NEW l \in A!Lifecycles, A!RefreshDocuments(l) \/ A!RefreshScopes(l) PROVE ConnectionInv'
  <2>1. UNCHANGED <<instance, registry, native, queue, reg>>
    BY <1>17 DEF A!RefreshDocuments, A!RefreshScopes
  <2> QED
    BY <2>1
<1>18. ASSUME NEW l \in A!Lifecycles, A!RefreshMarks(l) PROVE ConnectionInv'
  <2>1. UNCHANGED <<instance, native, queue, reg>>
    BY <1>18 DEF A!RefreshMarks
  <2>2. registry' = registry \/ registry' = [registry EXCEPT ![l].admission = "ready"]
    BY <1>18 DEF A!RefreshMarks
  <2>3. CASE registry' = registry
    BY <2>1, <2>3
  <2>4. CASE registry' = [registry EXCEPT ![l].admission = "ready"]
    <3>1. \A m \in A!Lifecycles :
             registry'[m].gen = registry[m].gen /\ (registry'[m].admission = "ready" \/ registry'[m] = registry[m])
      BY <2>4
    <3> QED
      BY <2>1, <3>1
  <2> QED
    BY <2>2, <2>3, <2>4
<1>19. ASSUME NEW l \in A!Lifecycles, A!RefreshFails(l) \/ A!RefreshTimesOut(l) PROVE ConnectionInv'
  <2>1. UNCHANGED <<instance, native, queue, reg>>
    BY <1>19 DEF A!RefreshFails, A!RefreshTimesOut, A!RefreshEnds
  <2>2. registry' = registry \/ registry' = [registry EXCEPT ![l].admission = "recovering"]
    BY <1>19 DEF A!RefreshFails, A!RefreshTimesOut, A!RefreshEnds
  <2>3. CASE registry' = registry
    BY <2>1, <2>3
  <2>4. CASE registry' = [registry EXCEPT ![l].admission = "recovering"]
    <3>1. \A m \in A!Lifecycles :
             registry'[m].gen = registry[m].gen /\ (registry'[m].admission = "recovering" \/ registry'[m] = registry[m])
      BY <2>4
    <3> QED
      BY <2>1, <3>1
  <2> QED
    BY <2>2, <2>3, <2>4
<1>20. ASSUME NEW l \in A!Lifecycles, A!RecoveryStarts(l) PROVE ConnectionInv'
  <2>1. /\ UNCHANGED <<native, queue, reg>>
        /\ instance' = [instance EXCEPT ![l] = 0]
        /\ registry' = [registry EXCEPT ![l].admission = "recovering"]
    BY <1>20 DEF A!RecoveryStarts
  <2> QED
    BY <2>1
<1>21. ASSUME NEW l \in A!Lifecycles, A!RecoveryRegisters(l) PROVE ConnectionInv'
  <2>1. /\ UNCHANGED <<instance, registry, native, reg>>
        /\ queue' = [queue EXCEPT ![l] = Append(queue[l], "reconcile")]
    BY <1>21 DEF A!RecoveryRegisters
  <2>2. Append(queue[l], "reconcile") # <<>>
    <3>1. queue[l] \in Seq({"attach", "detach", "reconcile"})
      BY DEF Requests
    <3> HIDE DEF AttachInv, AttachTypes, ConnectionInv
    <3> QED
      BY <3>1
  <2>3. \A m \in A!Lifecycles : queue[m] # <<>> => queue'[m] # <<>>
    BY <2>1, <2>2
  <2> QED
    BY <2>1, <2>3
<1>22. ASSUME NEW l \in A!Lifecycles, A!RecoveryScopes(l) \/ A!RecoveryFails(l) PROVE ConnectionInv'
  <2>1. UNCHANGED <<instance, registry, native, queue, reg>>
    BY <1>22 DEF A!RecoveryScopes, A!RecoveryFails
  <2> QED
    BY <2>1
<1>23. ASSUME NEW l \in A!Lifecycles, A!RecoveryOperations(l) PROVE ConnectionInv'
  BY <1>23 DEF A!RecoveryOperations
<1>24. ASSUME NEW l \in A!Lifecycles, A!RecoveryByExit(l) PROVE ConnectionInv'
  BY <1>24 DEF A!RecoveryByExit
<1>25. ASSUME NEW l \in A!Lifecycles, A!RegisterAnswered(l) \/ A!RegisterCompletes(l)
       PROVE ConnectionInv'
  <2>1. /\ reg[l].pc \in {"answered", "superseding"} /\ UNCHANGED native
        /\ reg' = [reg EXCEPT ![l] = A!NoReg] /\ queue' = [queue EXCEPT ![l] = Tail(@)]
    BY <1>25, RegisterEffect
  <2>2. CASE Taken(l)
    <3>1. /\ \A m \in A!Lifecycles \ {l} : ~A!Attached(m)
          /\ registry' = [registry EXCEPT ![l] = [admission |-> "recovering", gen |-> reg[l].client]]
          /\ instance' = [instance EXCEPT ![l] = reg[l].client]
      BY <2>2 DEF Taken
    <3>2. \A m \in A!Lifecycles \ {l} : instance[m] = 0
      BY <3>1
    <3> QED
      BY <2>1, <3>1, <3>2
  <2>3. CASE Refused(l)
    <3>1. UNCHANGED <<registry, instance>>
      BY <2>3 DEF Refused
    <3> QED
      BY <2>1, <3>1
  <2> QED
    BY <1>25, <2>2, <2>3, RegisterEffect
<1> QED
  BY <1>1, <1>2, <1>3, <1>4, <1>5, <1>6, <1>7, <1>8, <1>9, <1>10, <1>11, <1>12, <1>13, <1>14, <1>15,
     <1>16, <1>17, <1>18, <1>19, <1>20, <1>21, <1>22, <1>23, <1>24, <1>25
  DEF A!Next, A!RegistrationStep, A!RefreshStep, A!RecoveryStep

\* An attachment is admitted behind the clean fence of its connection.
LEMMA AdmissionKept == ASSUME HostingAssumption, AttachInv, [A!Next]_(A!vars) PROVE AdmissionInv'
<1> USE DEF AttachInv, AttachTypes, ConnectionInv, AdmissionInv, Natives, Works, Admissions,
            Refreshes, A!NoRefresh, A!NoWork, A!rhinoVars, A!workVars, A!hostVars, A!None,
            A!Close, A!SetAdmission, A!Replaced, A!Enqueue, A!SetReg, A!EndRegistration,
            A!EndRecovery, A!Fault
<1>1. CASE UNCHANGED A!vars
  BY <1>1 DEF A!vars
<1>2. CASE A!LifecycleStops
  BY <1>2 DEF A!LifecycleStops
<1>3. CASE A!RhinoExits
  BY <1>3 DEF A!RhinoExits
<1>4. CASE A!RefreshStarts
  <2>1. UNCHANGED <<native, work>>
    BY <1>4 DEF A!RefreshStarts
  <2>2. CASE alive
    <3>1. \A m \in A!Lifecycles : instance'[m] = instance[m] /\ registry'[m] = registry[m]
      BY <1>4, <2>2 DEF A!RefreshStarts, A!Dead
    <3>2. \A m \in A!Lifecycles : refresh'[m].pc # "mark" /\ (refresh'[m].current => instance[m] # 0)
      BY <1>4, <2>2 DEF A!RefreshStarts
    <3> QED
      BY <2>1, <3>1, <3>2
  <2>3. CASE ~alive
    <3>1. \A m \in A!Lifecycles : registry'[m].admission # "ready" /\ refresh'[m].current = FALSE
      BY <1>4, <2>3 DEF A!RefreshStarts, A!Dead, A!Attached
    <3> QED
      BY <2>1, <3>1
  <2> QED
    BY <2>2, <2>3
<1>5. CASE A!HostRestarts
  BY <1>5 DEF A!HostRestarts
<1>6. ASSUME NEW l \in A!Lifecycles, A!LifecycleStarts(l) PROVE AdmissionInv'
  BY <1>6 DEF A!LifecycleStarts
<1>7. ASSUME NEW l \in A!Lifecycles, A!PluginRegisters(l) \/ A!PluginDetaches(l) \/ A!AnswerLost(l)
      PROVE AdmissionInv'
  BY <1>7 DEF A!PluginRegisters, A!PluginDetaches, A!AnswerLost
<1>8. ASSUME NEW l \in A!Lifecycles, A!NativeRecovers(l) PROVE AdmissionInv'
  BY <1>8 DEF A!NativeRecovers
<1>9. ASSUME NEW l \in A!Lifecycles, A!Dispatch(l) PROVE AdmissionInv'
  BY <1>9 DEF A!Dispatch
<1>10. ASSUME NEW l \in A!Lifecycles, A!WorkRuns(l) \/ A!WorkEnds(l) PROVE AdmissionInv'
  <2>1. UNCHANGED <<native, registry, instance, refresh>>
    BY <1>10 DEF A!WorkRuns, A!WorkEnds
  <2>2. \/ work' = [work EXCEPT ![l] = A!NoWork]
        \/ work[l].gen = native[l].gen /\ work' = [work EXCEPT ![l].state = "running"]
    BY <1>10 DEF A!WorkRuns, A!WorkEnds
  <2>3. CASE work' = [work EXCEPT ![l] = A!NoWork]
    BY <2>1, <2>3
  <2>4. CASE work[l].gen = native[l].gen /\ work' = [work EXCEPT ![l].state = "running"]
    <3>1. work'[l].gen = native[l].gen /\ \A m \in A!Lifecycles \ {l} : work'[m] = work[m]
      BY <2>4
    <3> QED
      BY <2>1, <3>1
  <2> QED
    BY <2>2, <2>3, <2>4
<1>11. ASSUME NEW l \in A!Lifecycles, A!ResultArrives(l) \/ A!ResultLost(l) PROVE AdmissionInv'
  <2>1. UNCHANGED <<instance, registry, native, refresh, work>>
    BY <1>11 DEF A!ResultArrives, A!ResultLost
  <2> QED
    BY <2>1
<1>12. ASSUME NEW l \in A!Lifecycles, A!RegisterDetaches(l) PROVE AdmissionInv'
  <2>1. UNCHANGED <<native, work>>
    BY <1>12 DEF A!RegisterDetaches
  <2>2. CASE instance[l] # 0
    <3>1. /\ registry' = [registry EXCEPT ![l].admission = "detached"]
          /\ instance' = [instance EXCEPT ![l] = 0]
          /\ refresh' = [refresh EXCEPT ![l].current = FALSE]
      BY <1>12, <2>2 DEF A!RegisterDetaches
    <3> QED
      BY <2>1, <3>1
  <2>3. CASE instance[l] = 0
    <3>1. UNCHANGED <<registry, instance, refresh>>
      BY <1>12, <2>3 DEF A!RegisterDetaches
    <3> QED
      BY <2>1, <3>1
  <2> QED
    BY <2>2, <2>3
<1>13. ASSUME NEW l \in A!Lifecycles, A!RegisterConnects(l) PROVE AdmissionInv'
  BY <1>13 DEF A!RegisterConnects
<1>14. ASSUME NEW l \in A!Lifecycles, A!Handshake(l) PROVE AdmissionInv'
  BY <1>14 DEF A!Handshake
<1>15. ASSUME NEW l \in A!Lifecycles, A!RegisterFails(l) PROVE AdmissionInv'
  BY <1>15 DEF A!RegisterFails, A!Continue
<1>16. ASSUME NEW l \in A!Lifecycles, A!RegisterSupersedes(l) PROVE AdmissionInv'
  BY <1>16 DEF A!RegisterSupersedes, A!Superseded
<1>17. ASSUME NEW l \in A!Lifecycles, A!RefreshDocuments(l) \/ A!RefreshScopes(l) PROVE AdmissionInv'
  <2>1. UNCHANGED <<native, work, registry, instance>>
    BY <1>17 DEF A!RefreshDocuments, A!RefreshScopes
  <2>2. CASE A!RefreshDocuments(l)
    <3>1. /\ refresh'[l].current = refresh[l].current /\ refresh'[l].pc # "mark"
          /\ \A m \in A!Lifecycles \ {l} : refresh'[m] = refresh[m]
      BY <2>2 DEF A!RefreshDocuments
    <3> QED
      BY <2>1, <3>1
  <2>3. CASE A!RefreshScopes(l)
    <3>1. /\ refresh'[l].current = refresh[l].current /\ refresh'[l].idle = A!ScopeIdle(l)
          /\ \A m \in A!Lifecycles \ {l} : refresh'[m] = refresh[m]
      BY <2>3 DEF A!RefreshScopes
    <3> QED
      BY <2>1, <3>1 DEF A!ScopeIdle
  <2> QED
    BY <1>17, <2>2, <2>3
<1>18. ASSUME NEW l \in A!Lifecycles, A!RefreshMarks(l) PROVE AdmissionInv'
  <2>1. /\ UNCHANGED <<native, work, instance>> /\ refresh' = [refresh EXCEPT ![l] = A!NoRefresh]
        /\ refresh[l].pc = "mark"
    BY <1>18 DEF A!RefreshMarks
  <2>2. CASE A!CanMark(l)
    <3>1. registry' = [registry EXCEPT ![l].admission = "ready"]
      BY <1>18, <2>2 DEF A!RefreshMarks
    <3>2. instance[l] # 0 /\ native[l].recovered
      BY <2>1, <2>2 DEF A!CanMark
    <3> QED
      BY <2>1, <3>1, <3>2
  <2>3. CASE ~A!CanMark(l)
    <3>1. registry' = registry
      BY <1>18, <2>3 DEF A!RefreshMarks
    <3> QED
      BY <2>1, <3>1
  <2> QED
    BY <2>2, <2>3
<1>19. ASSUME NEW l \in A!Lifecycles, A!RefreshFails(l) \/ A!RefreshTimesOut(l) PROVE AdmissionInv'
  <2>1. UNCHANGED <<native, work, instance>> /\ refresh' = [refresh EXCEPT ![l] = A!NoRefresh]
    BY <1>19 DEF A!RefreshFails, A!RefreshTimesOut, A!RefreshEnds
  <2>2. registry' = registry \/ registry' = [registry EXCEPT ![l].admission = "recovering"]
    BY <1>19 DEF A!RefreshFails, A!RefreshTimesOut, A!RefreshEnds
  <2>3. CASE registry' = registry
    BY <2>1, <2>3
  <2>4. CASE registry' = [registry EXCEPT ![l].admission = "recovering"]
    BY <2>1, <2>4
  <2> QED
    BY <2>2, <2>3, <2>4
<1>20. ASSUME NEW l \in A!Lifecycles, A!RecoveryStarts(l) PROVE AdmissionInv'
  <2>1. /\ UNCHANGED <<native, work>> /\ instance' = [instance EXCEPT ![l] = 0]
        /\ registry' = [registry EXCEPT ![l].admission = "recovering"]
        /\ refresh' = [refresh EXCEPT ![l].current = FALSE]
    BY <1>20 DEF A!RecoveryStarts
  <2> QED
    BY <2>1
<1>21. ASSUME NEW l \in A!Lifecycles, A!RecoveryRegisters(l) PROVE AdmissionInv'
  BY <1>21 DEF A!RecoveryRegisters
<1>22. ASSUME NEW l \in A!Lifecycles, A!RecoveryScopes(l) \/ A!RecoveryFails(l) PROVE AdmissionInv'
  BY <1>22 DEF A!RecoveryScopes, A!RecoveryFails
<1>23. ASSUME NEW l \in A!Lifecycles, A!RecoveryOperations(l) PROVE AdmissionInv'
  BY <1>23 DEF A!RecoveryOperations
<1>24. ASSUME NEW l \in A!Lifecycles, A!RecoveryByExit(l) PROVE AdmissionInv'
  BY <1>24 DEF A!RecoveryByExit
<1>25. ASSUME NEW l \in A!Lifecycles, A!RegisterAnswered(l) \/ A!RegisterCompletes(l)
       PROVE AdmissionInv'
  <2>1. /\ reg[l].pc \in {"answered", "superseding"} /\ UNCHANGED <<native, work>>
        /\ refresh' = [refresh EXCEPT ![l].current = FALSE]
    BY <1>25, RegisterEffect
  <2>2. CASE Taken(l)
    <3>1. /\ registry' = [registry EXCEPT ![l] = [admission |-> "recovering", gen |-> reg[l].client]]
          /\ instance' = [instance EXCEPT ![l] = reg[l].client]
      BY <2>2 DEF Taken
    <3> QED
      BY <2>1, <3>1
  <2>3. CASE Refused(l)
    <3>1. UNCHANGED <<registry, instance>>
      BY <2>3 DEF Refused
    <3> QED
      BY <2>1, <3>1
  <2> QED
    BY <1>25, <2>2, <2>3, RegisterEffect
<1> QED
  BY <1>1, <1>2, <1>3, <1>4, <1>5, <1>6, <1>7, <1>8, <1>9, <1>10, <1>11, <1>12, <1>13, <1>14, <1>15,
     <1>16, <1>17, <1>18, <1>19, <1>20, <1>21, <1>22, <1>23, <1>24, <1>25
  DEF A!Next, A!RegistrationStep, A!RefreshStep, A!RecoveryStep

\* A recovery stays behind the one registration that it waits for.
LEMMA RecoveryKept == ASSUME HostingAssumption, AttachInv, [A!Next]_(A!vars) PROVE RecoveryInv'
<1> USE DEF AttachInv, AttachTypes, ConnectionInv, RecoveryInv, RecoveryFits, Natives, Works,
            Regs, Recoveries, Requests, A!NoRecovery, A!NoWork, A!rhinoVars, A!workVars,
            A!hostVars, A!None, A!Close, A!SetAdmission, A!Replaced, A!Enqueue, A!SetReg,
            A!EndRegistration, A!EndRecovery, A!Fault
<1>1. CASE UNCHANGED A!vars
  BY <1>1 DEF A!vars
<1>2. CASE A!LifecycleStops
  BY <1>2 DEF A!LifecycleStops
<1>3. CASE A!RhinoExits
  BY <1>3 DEF A!RhinoExits
<1>4. CASE A!RefreshStarts
  BY <1>4 DEF A!RefreshStarts
<1>5. CASE A!HostRestarts
  BY <1>5 DEF A!HostRestarts
<1>6. ASSUME NEW l \in A!Lifecycles, A!LifecycleStarts(l) PROVE RecoveryInv'
  BY <1>6 DEF A!LifecycleStarts
<1>7. ASSUME NEW l \in A!Lifecycles, A!PluginRegisters(l) \/ A!PluginDetaches(l) \/ A!AnswerLost(l)
      PROVE RecoveryInv'
  <2>1. UNCHANGED <<native, work, recovery>>
    BY <1>7 DEF A!PluginRegisters, A!PluginDetaches, A!AnswerLost
  <2>2. queue' = queue \/ \E r \in {"attach", "detach"} : queue' = [queue EXCEPT ![l] = Append(queue[l], r)]
    BY <1>7 DEF A!PluginRegisters, A!PluginDetaches, A!AnswerLost
  <2>3. ASSUME NEW r \in {"attach", "detach"}, queue' = [queue EXCEPT ![l] = Append(queue[l], r)]
        PROVE  \A m \in A!Lifecycles : \A i \in DOMAIN queue'[m] :
                 queue'[m][i] = "reconcile" => i \in DOMAIN queue[m] /\ queue[m][i] = "reconcile"
    <3>1. queue[l] \in Seq({"attach", "detach", "reconcile"})
      OBVIOUS
    <3>2. \A i \in DOMAIN Append(queue[l], r) :
            Append(queue[l], r)[i] = "reconcile" => i \in DOMAIN queue[l] /\ queue[l][i] = "reconcile"
      BY <3>1
    <3>3. \A m \in A!Lifecycles : queue'[m] = IF m = l THEN Append(queue[l], r) ELSE queue[m]
      BY <2>3
    <3> QED
      BY <3>2, <3>3
  <2>4. \A m \in A!Lifecycles : \A i \in DOMAIN queue'[m] :
          queue'[m][i] = "reconcile" => i \in DOMAIN queue[m] /\ queue[m][i] = "reconcile"
    BY <2>2, <2>3
  <2>5. ASSUME NEW m \in A!Lifecycles PROVE RecoveryFits(m)'
    <3>1. RecoveryFits(m)
      OBVIOUS
    <3>2. /\ native'[m] = native[m] /\ work'[m] = work[m] /\ recovery'[m] = recovery[m]
          /\ \A i \in DOMAIN queue'[m] :
               queue'[m][i] = "reconcile" => i \in DOMAIN queue[m] /\ queue[m][i] = "reconcile"
      BY <2>1, <2>4
    <3> HIDE DEF AttachInv, AttachTypes
    <3> QED
      BY <3>1, <3>2
  <2> QED
    BY <2>5 DEF RecoveryInv
<1>8. ASSUME NEW l \in A!Lifecycles, A!NativeRecovers(l) PROVE RecoveryInv'
  <2>1. /\ UNCHANGED <<work, recovery, queue>>
        /\ native' = [native EXCEPT ![l].recovered = TRUE]
    BY <1>8 DEF A!NativeRecovers
  <2> QED
    BY <2>1
<1>9. ASSUME NEW l \in A!Lifecycles, A!Dispatch(l) PROVE RecoveryInv'
  <2>1. /\ recovery[l].pc = "idle" /\ UNCHANGED <<native, recovery, queue>>
        /\ work' = [work EXCEPT ![l] = [state |-> "queued", gen |-> registry[l].gen]]
    BY <1>9 DEF A!Dispatch
  <2>2. registry[l].gen # 0 /\ registry[l].gen = native[l].gen
    BY <1>9 DEF A!Dispatch, AdmissionInv
  <2> QED
    BY <2>1, <2>2
<1>10. ASSUME NEW l \in A!Lifecycles, A!WorkRuns(l) \/ A!WorkEnds(l) PROVE RecoveryInv'
  <2>1. UNCHANGED <<native, recovery, queue>>
    BY <1>10 DEF A!WorkRuns, A!WorkEnds
  <2>2. \/ work' = [work EXCEPT ![l] = A!NoWork]
        \/ work[l].state = "queued" /\ work' = [work EXCEPT ![l].state = "running"]
    BY <1>10 DEF A!WorkRuns, A!WorkEnds
  <2>3. CASE work' = [work EXCEPT ![l] = A!NoWork]
    BY <2>1, <2>3
  <2>4. CASE work[l].state = "queued" /\ work' = [work EXCEPT ![l].state = "running"]
    <3>1. work'[l].gen = work[l].gen /\ \A m \in A!Lifecycles \ {l} : work'[m] = work[m]
      BY <2>4
    <3> QED
      BY <2>1, <2>4, <3>1
  <2> QED
    BY <2>2, <2>3, <2>4
<1>11. ASSUME NEW l \in A!Lifecycles, A!ResultArrives(l) \/ A!ResultLost(l) PROVE RecoveryInv'
  <2>1. UNCHANGED <<native, work, recovery, queue>>
    BY <1>11 DEF A!ResultArrives, A!ResultLost
  <2> QED
    BY <2>1
<1>12. ASSUME NEW l \in A!Lifecycles, A!RegisterDetaches(l) PROVE RecoveryInv'
  <2>1. /\ queue[l] # <<>> /\ queue' = [queue EXCEPT ![l] = Tail(@)]
        /\ UNCHANGED <<native, work>> /\ A!Continue(l, FALSE)
    BY <1>12 DEF A!RegisterDetaches, A!Continue
  <2> QED
    BY <2>1, QueueMoves
<1>13. ASSUME NEW l \in A!Lifecycles, A!RegisterConnects(l) PROVE RecoveryInv'
  BY <1>13 DEF A!RegisterConnects
<1>14. ASSUME NEW l \in A!Lifecycles, A!Handshake(l) PROVE RecoveryInv'
  BY <1>14 DEF A!Handshake
<1>15. ASSUME NEW l \in A!Lifecycles, A!RegisterFails(l) PROVE RecoveryInv'
  <2>1. /\ queue[l] # <<>> /\ queue' = [queue EXCEPT ![l] = Tail(@)]
        /\ UNCHANGED <<native, work>> /\ A!Continue(l, FALSE)
    BY <1>15 DEF A!RegisterFails
  <2> QED
    BY <2>1, QueueMoves
<1>16. ASSUME NEW l \in A!Lifecycles, A!RegisterSupersedes(l) PROVE RecoveryInv'
  BY <1>16 DEF A!RegisterSupersedes, A!Superseded
<1>17. ASSUME NEW l \in A!Lifecycles, A!RefreshDocuments(l) \/ A!RefreshScopes(l) PROVE RecoveryInv'
  <2>1. UNCHANGED <<native, work, recovery, queue>>
    BY <1>17 DEF A!RefreshDocuments, A!RefreshScopes
  <2> QED
    BY <2>1
<1>18. ASSUME NEW l \in A!Lifecycles, A!RefreshMarks(l) PROVE RecoveryInv'
  BY <1>18 DEF A!RefreshMarks
<1>19. ASSUME NEW l \in A!Lifecycles, A!RefreshFails(l) \/ A!RefreshTimesOut(l) PROVE RecoveryInv'
  <2>1. UNCHANGED <<native, work, recovery, queue>>
    BY <1>19 DEF A!RefreshFails, A!RefreshTimesOut, A!RefreshEnds
  <2> QED
    BY <2>1
<1>20. ASSUME NEW l \in A!Lifecycles, A!RecoveryStarts(l) PROVE RecoveryInv'
  <2>1. /\ UNCHANGED <<native, work, queue>> /\ recovery[l].pc = "idle" /\ instance[l] # 0
        /\ recovery' = [recovery EXCEPT ![l] = [pc |-> "closing", old |-> instance[l], idle |-> FALSE]]
    BY <1>20 DEF A!RecoveryStarts
  <2> QED
    BY <2>1
<1>21. ASSUME NEW l \in A!Lifecycles, A!RecoveryRegisters(l) PROVE RecoveryInv'
  <2>1. /\ recovery[l].pc = "closing" /\ UNCHANGED <<native, work>>
        /\ queue' = [queue EXCEPT ![l] = Append(queue[l], "reconcile")]
        /\ recovery' = [recovery EXCEPT ![l].pc = "registering"]
    BY <1>21 DEF A!RecoveryRegisters
  <2>2. queue[l] \in Seq({"attach", "detach", "reconcile"})
        /\ \A i \in DOMAIN queue[l] : queue[l][i] # "reconcile"
    BY <2>1
  <2>3. \A i, j \in DOMAIN Append(queue[l], "reconcile") :
          Append(queue[l], "reconcile")[i] = "reconcile" /\ Append(queue[l], "reconcile")[j] = "reconcile" => i = j
    BY <2>2
  <2>4. \A m \in A!Lifecycles : queue'[m] = IF m = l THEN Append(queue[l], "reconcile") ELSE queue[m]
    BY <2>1
  <2>5. /\ recovery'[l].pc = "registering" /\ recovery'[l].old = recovery[l].old
        /\ \A m \in A!Lifecycles \ {l} : recovery'[m] = recovery[m]
    BY <2>1
  <2>6. RecoveryFits(l)'
    <3>1. RecoveryFits(l)
      OBVIOUS
    <3> QED
      BY <2>1, <2>3, <2>4, <2>5, <3>1
  <2>7. ASSUME NEW m \in A!Lifecycles \ {l} PROVE RecoveryFits(m)'
    <3>1. RecoveryFits(m)
      OBVIOUS
    <3> QED
      BY <2>1, <2>4, <2>5, <3>1
  <2> QED
    <3> HIDE DEF RecoveryFits
    <3> QED
      BY <2>6, <2>7 DEF RecoveryInv
<1>22. ASSUME NEW l \in A!Lifecycles, A!RecoveryScopes(l) \/ A!RecoveryFails(l) PROVE RecoveryInv'
  <2>1. UNCHANGED <<native, work, queue>>
    BY <1>22 DEF A!RecoveryScopes, A!RecoveryFails
  <2>2. CASE A!RecoveryScopes(l)
    <3>1. /\ recovery[l].pc = "scopes" /\ recovery'[l].pc = "operations"
          /\ recovery'[l].old = recovery[l].old
          /\ \A m \in A!Lifecycles \ {l} : recovery'[m] = recovery[m]
      BY <2>2 DEF A!RecoveryScopes
    <3>2. \A i \in DOMAIN queue'[l] : queue'[l][i] # "reconcile"
      BY <2>1, <3>1
    <3>3. /\ recovery'[l].pc # "idle" =>
               /\ recovery'[l].old <= native[l].gen
               /\ work[l].state # "none" => work[l].gen <= recovery'[l].old
          /\ recovery'[l].pc \in {"scopes", "operations"} => recovery'[l].old # native[l].gen
      BY <3>1
    <3>4. RecoveryFits(l)'
      BY <2>1, <3>2, <3>3
    <3>5. ASSUME NEW m \in A!Lifecycles \ {l} PROVE RecoveryFits(m)'
      <4>1. RecoveryFits(m) /\ recovery'[m] = recovery[m] /\ queue'[m] = queue[m]
        BY <2>1, <3>1
      <4> QED
        BY <2>1, <4>1
    <3> HIDE DEF RecoveryFits
    <3> QED
      BY <3>4, <3>5
  <2>3. CASE A!RecoveryFails(l)
    <3>1. /\ recovery[l].pc # "registering" /\ recovery'[l].pc = "idle"
          /\ \A m \in A!Lifecycles \ {l} : recovery'[m] = recovery[m]
      BY <2>3 DEF A!RecoveryFails
    <3>2. \A i \in DOMAIN queue'[l] : queue'[l][i] # "reconcile"
      BY <2>1, <3>1
    <3>3. /\ recovery'[l].pc # "idle" =>
               /\ recovery'[l].old <= native[l].gen
               /\ work[l].state # "none" => work[l].gen <= recovery'[l].old
          /\ recovery'[l].pc \in {"scopes", "operations"} => recovery'[l].old # native[l].gen
      BY <3>1
    <3>4. RecoveryFits(l)'
      BY <2>1, <3>2, <3>3
    <3>5. ASSUME NEW m \in A!Lifecycles \ {l} PROVE RecoveryFits(m)'
      <4>1. RecoveryFits(m) /\ recovery'[m] = recovery[m] /\ queue'[m] = queue[m]
        BY <2>1, <3>1
      <4> QED
        BY <2>1, <4>1
    <3> HIDE DEF RecoveryFits
    <3> QED
      BY <3>4, <3>5
  <2> QED
    BY <1>22, <2>2, <2>3
<1>23. ASSUME NEW l \in A!Lifecycles, A!RecoveryOperations(l) PROVE RecoveryInv'
  BY <1>23 DEF A!RecoveryOperations
<1>24. ASSUME NEW l \in A!Lifecycles, A!RecoveryByExit(l) PROVE RecoveryInv'
  BY <1>24 DEF A!RecoveryByExit
<1>25. ASSUME NEW l \in A!Lifecycles, A!RegisterAnswered(l) \/ A!RegisterCompletes(l) PROVE RecoveryInv'
  <2>1. /\ reg[l].pc \in {"answered", "superseding"} /\ UNCHANGED <<native, work>>
        /\ queue' = [queue EXCEPT ![l] = Tail(@)]
    BY <1>25, RegisterEffect
  <2>2. A!Continue(l, TRUE) \/ A!Continue(l, FALSE)
    BY <1>25, RegisterEffect DEF Taken, Refused
  <2>3. queue[l] # <<>> /\ native[l].gen = reg[l].client
    BY <2>1
  <2>4. CASE A!Continue(l, TRUE)
    BY <2>1, <2>3, <2>4, QueueMoves
  <2>5. CASE A!Continue(l, FALSE)
    BY <2>1, <2>3, <2>5, QueueMoves
  <2> QED
    BY <2>2, <2>4, <2>5
<1> QED
  BY <1>1, <1>2, <1>3, <1>4, <1>5, <1>6, <1>7, <1>8, <1>9, <1>10, <1>11, <1>12, <1>13, <1>14, <1>15,
     <1>16, <1>17, <1>18, <1>19, <1>20, <1>21, <1>22, <1>23, <1>24, <1>25
  DEF A!Next, A!RegistrationStep, A!RefreshStep, A!RecoveryStep

\* Work has a generation that the fence has seen, an older one once a recovery looks at it.
LEMMA Outdated ==
    ASSUME AttachInv, NEW l \in A!Lifecycles, work[l].state # "none"
    PROVE  /\ work[l].gen \in Nat \ {0} /\ work[l].gen <= native[l].gen /\ native[l].gen # 0
           /\ recovery[l].pc \in {"scopes", "operations"} => work[l].gen # native[l].gen
<1>1. work[l].gen \in Nat /\ native[l].gen \in Nat /\ recovery[l].old \in Nat
  BY DEF AttachInv, AttachTypes, Works, Natives, Recoveries
<1>2. RecoveryFits(l)
  BY DEF AttachInv, RecoveryInv
<1>3. /\ work[l].gen # 0 /\ work[l].gen <= native[l].gen
      /\ recovery[l].pc # "idle" => recovery[l].old <= native[l].gen /\ work[l].gen <= recovery[l].old
      /\ recovery[l].pc \in {"scopes", "operations"} => recovery[l].old # native[l].gen
  BY <1>2 DEF RecoveryFits
<1> QED
  BY <1>1, <1>3

\* What a recovery released cannot run any more.
LEMMA ReleasedKept == ASSUME HostingAssumption, AttachInv, [A!Next]_(A!vars) PROVE ReleasedInv'
<1> USE DEF AttachInv, AttachTypes, ProcessInv, ReleasedInv, Natives, Works, Regs, A!NoWork,
            A!Lifecycles, HostingAssumption, A!AttachmentAssumption, A!rhinoVars, A!workVars,
            A!hostVars, A!None, A!Close, A!SetAdmission, A!Replaced, A!Enqueue, A!SetReg,
            A!EndRegistration, A!EndRecovery, A!Fault
<1>1. CASE UNCHANGED A!vars
  BY <1>1 DEF A!vars
<1>2. CASE A!LifecycleStops
  BY <1>2 DEF A!LifecycleStops
<1>3. CASE A!RhinoExits
  BY <1>3 DEF A!RhinoExits
<1>4. CASE A!RefreshStarts
  BY <1>4 DEF A!RefreshStarts
<1>5. CASE A!HostRestarts
  BY <1>5 DEF A!HostRestarts
<1>6. ASSUME NEW l \in A!Lifecycles, A!LifecycleStarts(l) PROVE ReleasedInv'
  BY <1>6 DEF A!LifecycleStarts
<1>7. ASSUME NEW l \in A!Lifecycles, A!PluginRegisters(l) \/ A!PluginDetaches(l) \/ A!AnswerLost(l)
      PROVE ReleasedInv'
  BY <1>7 DEF A!PluginRegisters, A!PluginDetaches, A!AnswerLost
<1>8. ASSUME NEW l \in A!Lifecycles, A!NativeRecovers(l) PROVE ReleasedInv'
  BY <1>8 DEF A!NativeRecovers
<1>9. ASSUME NEW l \in A!Lifecycles, A!Dispatch(l) PROVE ReleasedInv'
  BY <1>9 DEF A!Dispatch
<1>10. ASSUME NEW l \in A!Lifecycles, A!WorkRuns(l) \/ A!WorkEnds(l) PROVE ReleasedInv'
  <2>1. UNCHANGED <<native, op, up, starts>>
    BY <1>10 DEF A!WorkRuns, A!WorkEnds
  <2>2. \/ work' = [work EXCEPT ![l] = A!NoWork]
        \/ /\ work[l].state = "queued" /\ up = l /\ work[l].gen = native[l].gen
           /\ work' = [work EXCEPT ![l].state = "running"]
    BY <1>10 DEF A!WorkRuns, A!WorkEnds
  <2>3. CASE work' = [work EXCEPT ![l] = A!NoWork]
    BY <2>1, <2>3
  <2>4. CASE /\ work[l].state = "queued" /\ up = l /\ work[l].gen = native[l].gen
             /\ work' = [work EXCEPT ![l].state = "running"]
    <3>1. op[l] # "recovered" /\ \A m \in A!Lifecycles \ {l} : work'[m] = work[m]
      BY <2>4
    <3> QED
      BY <2>1, <3>1
  <2> QED
    BY <2>2, <2>3, <2>4
<1>11. ASSUME NEW l \in A!Lifecycles, A!ResultArrives(l) \/ A!ResultLost(l) PROVE ReleasedInv'
  <2>1. /\ UNCHANGED <<native, work, up, starts>>
        /\ op' = [op EXCEPT ![l] = "none"] \/ op' = [op EXCEPT ![l] = "uncertain"]
    BY <1>11 DEF A!ResultArrives, A!ResultLost
  <2> QED
    BY <2>1
<1>12. ASSUME NEW l \in A!Lifecycles, A!RegisterDetaches(l) PROVE ReleasedInv'
  <2>1. UNCHANGED <<native, work, op, up, starts>>
    BY <1>12 DEF A!RegisterDetaches
  <2> QED
    BY <2>1
<1>13. ASSUME NEW l \in A!Lifecycles, A!RegisterConnects(l) PROVE ReleasedInv'
  BY <1>13 DEF A!RegisterConnects
<1>14. ASSUME NEW l \in A!Lifecycles, A!Handshake(l) PROVE ReleasedInv'
  <2>1. /\ UNCHANGED <<work, op, up, starts>> /\ reg[l].client >= native[l].gen
        /\ native'[l].gen = reg[l].client /\ \A m \in A!Lifecycles \ {l} : native'[m] = native[m]
    BY <1>14 DEF A!Handshake
  <2>2. work[l].state # "none" => work[l].gen <= native[l].gen
    BY DEF RecoveryInv, RecoveryFits
  <2>3. work[l].state # "none" /\ work[l].gen # native[l].gen => work[l].gen # native'[l].gen
    BY <2>1, <2>2
  <2> QED
    BY <2>1, <2>3
<1>15. ASSUME NEW l \in A!Lifecycles, A!RegisterFails(l) PROVE ReleasedInv'
  BY <1>15 DEF A!RegisterFails, A!Continue
<1>16. ASSUME NEW l \in A!Lifecycles, A!RegisterSupersedes(l) PROVE ReleasedInv'
  BY <1>16 DEF A!RegisterSupersedes, A!Superseded
<1>17. ASSUME NEW l \in A!Lifecycles, A!RefreshDocuments(l) \/ A!RefreshScopes(l) PROVE ReleasedInv'
  <2>1. UNCHANGED <<native, work, op, up, starts>>
    BY <1>17 DEF A!RefreshDocuments, A!RefreshScopes
  <2> QED
    BY <2>1
<1>18. ASSUME NEW l \in A!Lifecycles, A!RefreshMarks(l) PROVE ReleasedInv'
  <2>1. UNCHANGED <<native, work, op, up, starts>>
    BY <1>18 DEF A!RefreshMarks
  <2> QED
    BY <2>1
<1>19. ASSUME NEW l \in A!Lifecycles, A!RefreshFails(l) \/ A!RefreshTimesOut(l) PROVE ReleasedInv'
  <2>1. UNCHANGED <<native, work, op, up, starts>>
    BY <1>19 DEF A!RefreshFails, A!RefreshTimesOut, A!RefreshEnds
  <2> QED
    BY <2>1
<1>20. ASSUME NEW l \in A!Lifecycles, A!RecoveryStarts(l) PROVE ReleasedInv'
  BY <1>20 DEF A!RecoveryStarts
<1>21. ASSUME NEW l \in A!Lifecycles, A!RecoveryRegisters(l) PROVE ReleasedInv'
  BY <1>21 DEF A!RecoveryRegisters
<1>22. ASSUME NEW l \in A!Lifecycles, A!RecoveryScopes(l) \/ A!RecoveryFails(l) PROVE ReleasedInv'
  <2>1. UNCHANGED <<native, work, op, up, starts>>
    BY <1>22 DEF A!RecoveryScopes, A!RecoveryFails
  <2> QED
    BY <2>1
<1>23. ASSUME NEW l \in A!Lifecycles, A!RecoveryOperations(l) PROVE ReleasedInv'
  <2>1. UNCHANGED <<native, work, up, starts>> /\ recovery[l].pc = "operations"
    BY <1>23 DEF A!RecoveryOperations
  <2>2. CASE recovery[l].idle /\ work[l].state # "running"
    <3>1. op' = [op EXCEPT ![l] = "recovered"]
      BY <1>23, <2>2 DEF A!RecoveryOperations
    <3>2. work[l].state # "none" => work[l].gen # native[l].gen
      BY <2>1, Outdated
    <3> QED
      BY <2>1, <2>2, <3>1, <3>2
  <2>3. CASE ~(recovery[l].idle /\ work[l].state # "running")
    <3>1. op' = op
      BY <1>23, <2>3 DEF A!RecoveryOperations
    <3> QED
      BY <2>1, <3>1
  <2> QED
    BY <2>2, <2>3
<1>24. ASSUME NEW l \in A!Lifecycles, A!RecoveryByExit(l) PROVE ReleasedInv'
  <2>1. UNCHANGED <<native, work, up, starts>> /\ op' = [op EXCEPT ![l] = "recovered"] /\ ~alive
    BY <1>24 DEF A!RecoveryByExit
  <2>2. work[l].state # "running" /\ up # l
    <3>1. up = A!None /\ l # A!None
      BY <2>1, HostingAssumption DEF A!None, A!Lifecycles
    <3> QED
      BY <3>1
  <2>3. work[l].state = "queued" => l <= starts
    BY Outdated
  <2> QED
    BY <2>1, <2>2, <2>3
<1>25. ASSUME NEW l \in A!Lifecycles, A!RegisterAnswered(l) \/ A!RegisterCompletes(l) PROVE ReleasedInv'
  <2>1. UNCHANGED <<native, work, op, up, starts>>
    BY <1>25, RegisterEffect
  <2> QED
    BY <2>1
<1> QED
  BY <1>1, <1>2, <1>3, <1>4, <1>5, <1>6, <1>7, <1>8, <1>9, <1>10, <1>11, <1>12, <1>13, <1>14, <1>15,
     <1>16, <1>17, <1>18, <1>19, <1>20, <1>21, <1>22, <1>23, <1>24, <1>25
  DEF A!Next, A!RegistrationStep, A!RefreshStep, A!RecoveryStep

\* The inductive invariant of the attachments.
LEMMA AttachInvariant == ASSUME HostingAssumption PROVE A!Spec => []AttachInv
<1>1. A!Init => AttachInv
  <2> SUFFICES ASSUME A!Init PROVE AttachInv
    OBVIOUS
  <2>1. /\ alive = FALSE /\ up = A!None /\ starts = 0
        /\ native = [l \in A!Lifecycles |-> [gen |-> 0, recovered |-> FALSE]]
        /\ work = [l \in A!Lifecycles |-> A!NoWork] /\ op = [l \in A!Lifecycles |-> "none"]
        /\ registry = [l \in A!Lifecycles |-> [admission |-> "none", gen |-> 0]]
        /\ instance = [l \in A!Lifecycles |-> 0] /\ clients = [l \in A!Lifecycles |-> 0]
        /\ queue = [l \in A!Lifecycles |-> <<>>] /\ reg = [l \in A!Lifecycles |-> A!NoReg]
        /\ refresh = [l \in A!Lifecycles |-> A!NoRefresh]
        /\ recovery = [l \in A!Lifecycles |-> A!NoRecovery]
    BY DEF A!Init, A!Unknown
  <2>2. AttachTypes
    <3>1. [admission |-> "none", gen |-> 0] \in Admissions /\ [gen |-> 0, recovered |-> FALSE] \in Natives
      BY DEF Admissions, Natives
    <3>2. /\ native \in [A!Lifecycles -> Natives] /\ work \in [A!Lifecycles -> Works]
          /\ registry \in [A!Lifecycles -> Admissions] /\ reg \in [A!Lifecycles -> Regs]
          /\ refresh \in [A!Lifecycles -> Refreshes] /\ recovery \in [A!Lifecycles -> Recoveries]
      BY <2>1, <3>1, Made
    <3>3. /\ op \in [A!Lifecycles -> {"none", "dispatched", "uncertain", "recovered"}]
          /\ instance \in [A!Lifecycles -> Nat] /\ clients \in [A!Lifecycles -> Nat]
          /\ queue \in [A!Lifecycles -> Seq(Requests)]
      BY <2>1 DEF Requests
    <3> QED
      BY <2>1, <3>2, <3>3 DEF AttachTypes
  <2>3. ProcessInv /\ ReleasedInv
    BY <2>1 DEF ProcessInv, ReleasedInv, A!NoWork
  <2>4. ConnectionInv
    BY <2>1 DEF ConnectionInv, A!NoReg
  <2>5. AdmissionInv
    BY <2>1 DEF AdmissionInv, A!NoWork, A!NoRefresh
  <2>6. RecoveryInv
    BY <2>1 DEF RecoveryInv, RecoveryFits, A!NoWork, A!NoRecovery
  <2> QED
    BY <2>2, <2>3, <2>4, <2>5, <2>6 DEF AttachInv
<1>2. AttachInv /\ [A!Next]_(A!vars) => AttachInv'
  BY AttachTypesKept, ProcessKept, ConnectionKept, AdmissionKept, RecoveryKept, ReleasedKept
  DEF AttachInv
<1> QED
  BY <1>1, <1>2, PTL DEF A!Spec

-----------------------------------------------------------------------------
(***************************************************************************)
(* Readiness of Grasshopper                                                *)
(***************************************************************************)

States == G!Unready \cup {"ready"}
Statuses == [state : States, doc : G!MaybeDoc]
Syncs == [at : {"idle", "document", "capability"}, doc : G!MaybeDoc, state : States]
Calls == [kind : {"none", "status", "start"}, taken : BOOLEAN,
          reply : States \cup {"none", "lost", "done"}, doc : G!MaybeDoc]
Runs == [at : {"none", "subscribe", "first", "starting", "reading", "waiting", "last"},
         issued : BOOLEAN, starts : Nat]
ReadinessTypes ==
    /\ capability \in States /\ loaded \in BOOLEAN /\ hook \in BOOLEAN /\ canvas \in G!MaybeDoc
    /\ current \in Statuses /\ ui \in {"idle", "starting", "status", "read", "start"}
    /\ sync \in [G!Threads -> Syncs] /\ request \in Calls /\ run \in Runs
    /\ queued \in BOOLEAN /\ wakeup \in BOOLEAN

\* A run that has sent its start request says so, and it sends it after its first status.
StartInv ==
    /\ run.at \in {"none", "subscribe", "first"} => ~run.issued
    /\ IF run.issued THEN run.starts = 1 ELSE run.starts = 0

\* The UI thread copies the state that it read, for no event of Grasshopper comes
\* between; so a status that no background task spoiled tells the canvas.
StatusInv ==
    /\ ui \notin {"status", "start"} => sync["ui"].at = "idle"
    /\ sync["ui"].at = "capability" => sync["ui"].state = capability
    /\ capability = "ready" /\ ~stale /\ ui # "starting" => current = G!Truth

\* What a run has asked for, and what it has not heard of: an answer that came before
\* Grasshopper was ready leaves a signal behind.
Heard == queued \/ wakeup \/ missed \/ stale
HearingInv ==
    /\ run.at \in {"first", "reading", "last"} => request.kind = "status"
    /\ \/ run.at = "waiting"
       \/ run.at = "reading" /\ request.reply \notin {"none", "ready"}
       => (capability = "ready" /\ ui # "starting" => Heard)

ReadinessInv == ReadinessTypes /\ StartInv /\ StatusInv /\ HearingInv

\* The status keeps telling the canvas.
LEMMA StatusKept == ASSUME HostingAssumption, ReadinessInv, [G!Next]_(G!vars) PROVE StatusInv'
<1> USE DEF ReadinessInv, G!native, G!client, ReadinessTypes, StatusInv, Statuses, Syncs,
            G!Truth, G!Status, G!Threads, G!ReadinessAssumption, HostingAssumption, G!NoSync
<1>1. CASE UNCHANGED G!vars
  BY <1>1 DEF G!vars
<1>2. CASE G!Load \/ G!Register
  BY <1>2 DEF G!Load, G!Register
<1>3. CASE G!Started
  BY <1>3 DEF G!Started, G!Report, G!Status
<1>4. ASSUME NEW doc \in G!MaybeDoc, G!Move(doc) PROVE StatusInv'
  BY <1>4 DEF G!Move, G!Report, G!Status
<1>5. ASSUME NEW th \in Background, G!BackgroundSync(th) PROVE StatusInv'
  BY <1>5 DEF G!BackgroundSync, G!SyncBegins
<1>6. ASSUME NEW th \in G!Threads, G!SyncReads(th) PROVE StatusInv'
  BY <1>6 DEF G!SyncReads
<1>7. ASSUME NEW th \in Background, G!BackgroundWrites(th) PROVE StatusInv'
  <2>1. /\ current' = G!Status(sync[th].state, sync[th].doc) /\ sync' = [sync EXCEPT ![th] = G!NoSync]
        /\ stale' = (stale \/ sync[th].doc # current.doc \/ sync[th].state # capability)
        /\ UNCHANGED <<capability, canvas, ui>>
    BY <1>7 DEF G!BackgroundWrites, G!SyncWrites
  <2>2. sync'["ui"] = sync["ui"]
    BY <2>1
  <2>3. ASSUME capability = "ready", ~stale', ui # "starting" PROVE current' = G!Status("ready", canvas)
    <3>1. sync[th].doc = current.doc /\ sync[th].state = "ready" /\ ~stale
      BY <2>1, <2>3
    <3>2. current = G!Status("ready", canvas)
      BY <2>3, <3>1
    <3>3. current.doc = canvas
      BY <3>2
    <3> QED
      BY <2>1, <3>1, <3>3
  <2> QED
    BY <2>1, <2>2, <2>3
<1>8. CASE G!GetStatus
  BY <1>8 DEF G!GetStatus, G!Open, G!SyncBegins
<1>9. CASE G!StartGrasshopper
  <2>1. ui = "idle" /\ UNCHANGED <<canvas, current, stale>>
    BY <1>9 DEF G!StartGrasshopper
  <2>2. CASE capability \in {"ready", "loading", "not_installed"}
    <3>1. UNCHANGED <<capability, sync, ui>>
      BY <1>9, <2>2 DEF G!StartGrasshopper
    <3> QED
      BY <2>1, <3>1
  <2>3. CASE capability \notin {"ready", "loading", "not_installed"}
    <3>1. G!RunScript /\ ui' = "start" /\ G!SyncBegins("ui")
      BY <1>9, <2>3 DEF G!StartGrasshopper
    <3>2. capability' # "ready"
      BY <3>1 DEF G!RunScript
    <3>3. sync'["ui"].at = "document"
      BY <3>1 DEF G!SyncBegins
    <3> QED
      BY <2>1, <3>1, <3>2, <3>3
  <2> QED
    BY <2>2, <2>3
<1>10. CASE G!UiWrites
  <2>1. /\ current' = G!Status(sync["ui"].state, sync["ui"].doc) /\ sync' = [sync EXCEPT !["ui"] = G!NoSync]
        /\ stale' = (stale \/ sync["ui"].doc # current.doc) /\ sync["ui"].at = "capability"
        /\ ui \in {"status", "start"} /\ UNCHANGED <<capability, canvas>>
    BY <1>10 DEF G!UiWrites, G!SyncWrites
  <2>2. sync'["ui"].at = "idle"
    BY <2>1
  <2>3. ASSUME capability = "ready", ~stale' PROVE current' = G!Status("ready", canvas)
    <3>1. sync["ui"].doc = current.doc /\ sync["ui"].state = "ready" /\ ~stale
      BY <2>1, <2>3
    <3>2. current = G!Status("ready", canvas)
      BY <2>1, <2>3, <3>1
    <3>3. current.doc = canvas
      BY <3>2
    <3> QED
      BY <2>1, <3>1, <3>3
  <2> QED
    BY <2>1, <2>2, <2>3
<1>11. CASE G!UiAnswers
  BY <1>11 DEF G!UiAnswers, G!Taken
<1>12. ASSUME NEW c \in Tools, NEW needs \in {"ready", "document"}, G!EnsureReady(c, needs)
       PROVE StatusInv'
  BY <1>12 DEF G!EnsureReady, G!NoRun
<1>13. CASE G!Subscribed
  BY <1>13 DEF G!Subscribed, G!Read, G!Send, G!NoRequest
<1>14. CASE G!FirstRead \/ G!StartReplied
  BY <1>14 DEF G!FirstRead, G!StartReplied, G!Read, G!Start, G!Send, G!NoRequest, G!Replied
<1>15. CASE G!StatusRead
  BY <1>15 DEF G!StatusRead, G!Decide, G!Finish, G!Read, G!Start, G!Send, G!NoRequest, G!NoRun,
     G!Replied
<1>16. CASE G!LastRead
  BY <1>16 DEF G!LastRead, G!Decide, G!Finish, G!NoRequest, G!NoRun, G!Replied
<1>17. CASE G!Woken \/ G!DeadlinePasses
  BY <1>17 DEF G!Woken, G!DeadlinePasses, G!Read, G!Send, G!NoRequest
<1>18. CASE G!Close \/ G!Lose
  BY <1>18 DEF G!Close, G!Lose
<1>19. CASE G!Closed
  BY <1>19 DEF G!Closed, G!Finish, G!NoRequest, G!NoRun
<1>20. CASE G!Deliver \/ G!Reconnected
  BY <1>20 DEF G!Deliver, G!Reconnected, G!Signal
<1>21. CASE G!CallFails
  BY <1>21 DEF G!CallFails, G!Unstarted, G!Open
<1> QED
  BY <1>1, <1>2, <1>3, <1>4, <1>5, <1>6, <1>7, <1>8, <1>9, <1>10, <1>11, <1>12, <1>13, <1>14, <1>15,
     <1>16, <1>17, <1>18, <1>19, <1>20, <1>21
  DEF G!Next, G!UiStep, G!ClientStep, G!Threads

\* The values that a step of readiness may give to a record.
RunForms ==
    {run, G!NoRun, [G!NoRun EXCEPT !.at = "subscribe"],
     [run EXCEPT !.at = "starting", !.issued = TRUE, !.starts = run.starts + 1]}
    \cup {[run EXCEPT !.at = at] : at \in {"first", "reading", "waiting", "last"}}
CallForms ==
    {request, G!NoRequest, [request EXCEPT !.taken = TRUE],
     [request EXCEPT !.reply = current.state, !.doc = current.doc]}
    \cup {[G!NoRequest EXCEPT !.kind = kind] : kind \in {"status", "start"}}
    \cup {[request EXCEPT !.reply = reply] : reply \in {"done", "lost"}}
SyncForms(th) ==
    {sync, [sync EXCEPT ![th] = G!NoSync],
     [sync EXCEPT ![th] = [sync[th] EXCEPT !.at = "document", !.doc = current.doc]],
     [sync EXCEPT ![th] = [sync[th] EXCEPT !.at = "capability", !.state = capability]]}
LEMMA RecordsTyped == ASSUME ReadinessTypes
  PROVE  /\ RunForms \subseteq Runs /\ CallForms \subseteq Calls
         /\ \A th \in G!Threads : SyncForms(th) \subseteq [G!Threads -> Syncs]
         /\ \A state \in States, doc \in G!MaybeDoc : G!Status(state, doc) \in Statuses
<1>1. G!NoRun \in Runs /\ G!NoRequest \in Calls /\ G!NoSync \in Syncs /\ [G!NoRun EXCEPT !.at = "subscribe"] \in Runs
  BY DEF G!NoRun, G!NoRequest, G!NoSync, Runs, Calls, Syncs, States, G!Unready, G!MaybeDoc
<1>2. RunForms \subseteq Runs
  <2>1. [run EXCEPT !.at = "starting", !.issued = TRUE, !.starts = run.starts + 1] \in Runs
    <3>1. run.starts + 1 \in Nat
      BY DEF ReadinessTypes, Runs
    <3> QED
      BY <3>1 DEF ReadinessTypes, Runs
  <2>2. ASSUME NEW at \in {"first", "reading", "waiting", "last"} PROVE [run EXCEPT !.at = at] \in Runs
    BY DEF ReadinessTypes, Runs
  <2> QED
    BY <1>1, <2>1, <2>2 DEF ReadinessTypes, RunForms
<1>3. CallForms \subseteq Calls
  <2>1. current.state \in States /\ current.doc \in G!MaybeDoc
    BY DEF ReadinessTypes, Statuses
  <2>2. [request EXCEPT !.reply = current.state, !.doc = current.doc] \in Calls
    BY <2>1 DEF ReadinessTypes, Calls
  <2>3. [request EXCEPT !.taken = TRUE] \in Calls
    BY DEF ReadinessTypes, Calls
  <2>4. ASSUME NEW reply \in {"done", "lost"} PROVE [request EXCEPT !.reply = reply] \in Calls
    BY DEF ReadinessTypes, Calls
  <2>5. ASSUME NEW kind \in {"status", "start"} PROVE [G!NoRequest EXCEPT !.kind = kind] \in Calls
    BY DEF G!NoRequest, Calls, G!MaybeDoc
  <2> QED
    BY <1>1, <2>2, <2>3, <2>4, <2>5 DEF ReadinessTypes, CallForms
<1>4. ASSUME NEW th \in G!Threads PROVE SyncForms(th) \subseteq [G!Threads -> Syncs]
  <2>1. current.doc \in G!MaybeDoc /\ sync[th] \in Syncs /\ capability \in States
    BY DEF ReadinessTypes, Statuses
  <2>2. [sync[th] EXCEPT !.at = "document", !.doc = current.doc] \in Syncs
    BY <2>1 DEF Syncs
  <2>3. [sync[th] EXCEPT !.at = "capability", !.state = capability] \in Syncs
    BY <2>1 DEF Syncs
  <2>4. \A r \in Syncs : [sync EXCEPT ![th] = r] \in [G!Threads -> Syncs]
    BY DEF ReadinessTypes
  <2> QED
    BY <1>1, <2>2, <2>3, <2>4 DEF ReadinessTypes, SyncForms
<1>5. ASSUME NEW state \in States, NEW doc \in G!MaybeDoc PROVE G!Status(state, doc) \in Statuses
  BY DEF G!Status, Statuses, G!MaybeDoc
<1> QED
  BY <1>2, <1>3, <1>4, <1>5

\* What a run does with its status.
LEMMA StatusReadEffect ==
    ASSUME ReadinessInv, G!StatusRead
    PROVE  /\ run.at = "reading" /\ request.reply # "none" /\ UNCHANGED <<G!native, wakeup, missed>>
           /\ \/ request.reply \in {"ready", "failed", "not_installed"} /\ G!Finish(request.reply)
              \/ /\ request.reply \notin {"none", "ready"} /\ UNCHANGED queued
                 /\ \/ ~run.issued /\ G!Start
                    \/ run' = [run EXCEPT !.at = "waiting"] /\ request' = G!NoRequest
                    \/ G!Read("last")
<1>1. /\ run.at = "reading" /\ request.reply # "none" /\ UNCHANGED <<G!native, wakeup, missed>>
  BY DEF G!StatusRead, G!Replied
<1>2. CASE request.reply \in {"ready", "failed", "not_installed"}
  <2>1. G!Finish(request.reply)
    BY <1>2 DEF G!StatusRead, G!Decide
  <2> QED
    BY <1>1, <1>2, <2>1
<1>3. CASE request.reply \notin {"ready", "failed", "not_installed"}
  <2>1. /\ IF request.reply = "not_loaded" /\ ~run.issued THEN G!Start
           ELSE \/ run' = [run EXCEPT !.at = "waiting"] /\ request' = G!NoRequest
                \/ G!Read("last")
        /\ UNCHANGED <<queued, waiting, told>>
    BY <1>3 DEF G!StatusRead, G!Decide
  <2>2. CASE request.reply = "not_loaded" /\ ~run.issued
    BY <1>1, <1>3, <2>1, <2>2
  <2>3. CASE ~(request.reply = "not_loaded" /\ ~run.issued)
    BY <1>1, <1>3, <2>1, <2>3
  <2> QED
    BY <2>2, <2>3
<1> QED
  BY <1>2, <1>3

\* Every variable of readiness keeps its type.
LEMMA ReadinessTypesKept == ASSUME HostingAssumption, ReadinessInv, [G!Next]_(G!vars)
  PROVE ReadinessTypes'
<1> USE DEF ReadinessInv, G!native, G!client, ReadinessTypes, States, G!Threads, G!Unready,
            G!MaybeDoc
<1>1. CASE UNCHANGED G!vars
  BY <1>1 DEF G!vars
<1>2. CASE G!Load \/ G!Register
  BY <1>2 DEF G!Load, G!Register
<1>3. CASE G!Started
  <2>1. /\ \E state \in {"ready", "failed"} : current' = G!Status(state, canvas) \/ current' = G!Status(state, NoDoc)
        /\ capability' \in States /\ ui' = "idle" /\ wakeup' = TRUE
        /\ UNCHANGED <<loaded, hook, canvas, sync, request, run, queued>>
    BY <1>3 DEF G!Started, G!Report
  <2>2. current' \in Statuses
    BY <2>1, RecordsTyped
  <2> QED
    BY <2>1, <2>2
<1>4. ASSUME NEW doc \in G!MaybeDoc, G!Move(doc) PROVE ReadinessTypes'
  <2>1. canvas' = doc /\ UNCHANGED <<capability, loaded, hook, ui, sync, request, run, queued>>
    BY <1>4 DEF G!Move
  <2>2. CASE capability = "ready"
    <3>1. current' = G!Status("ready", doc) /\ wakeup' = TRUE
      BY <1>4, <2>2 DEF G!Move, G!Report
    <3>2. current' \in Statuses
      BY <3>1, RecordsTyped
    <3> QED
      BY <2>1, <3>1, <3>2
  <2>3. CASE capability # "ready"
    <3>1. UNCHANGED <<current, wakeup>>
      BY <1>4, <2>3 DEF G!Move
    <3> QED
      BY <2>1, <3>1
  <2> QED
    BY <2>2, <2>3
<1>5. ASSUME NEW th \in Background, G!BackgroundSync(th) PROVE ReadinessTypes'
  <2>1. /\ sync' \in SyncForms(th)
        /\ UNCHANGED <<capability, loaded, hook, canvas, current, ui, request, run, queued, wakeup>>
    BY <1>5 DEF G!BackgroundSync, G!SyncBegins, SyncForms
  <2>2. sync' \in [G!Threads -> Syncs]
    BY <2>1, RecordsTyped
  <2> QED
    BY <2>1, <2>2
<1>6. ASSUME NEW th \in G!Threads, G!SyncReads(th) PROVE ReadinessTypes'
  <2>1. /\ sync' \in SyncForms(th)
        /\ UNCHANGED <<capability, loaded, hook, canvas, current, ui, request, run, queued, wakeup>>
    BY <1>6 DEF G!SyncReads, SyncForms
  <2>2. sync' \in [G!Threads -> Syncs]
    BY <2>1, RecordsTyped
  <2> QED
    BY <2>1, <2>2
<1>7. ASSUME NEW th \in Background, G!BackgroundWrites(th) PROVE ReadinessTypes'
  <2>1. /\ current' = G!Status(sync[th].state, sync[th].doc) /\ sync' \in SyncForms(th)
        /\ UNCHANGED <<capability, loaded, hook, canvas, ui, request, run, queued, wakeup>>
    BY <1>7 DEF G!BackgroundWrites, G!SyncWrites, SyncForms
  <2>2. sync[th].state \in States /\ sync[th].doc \in G!MaybeDoc
    BY DEF Syncs
  <2>3. current' \in Statuses /\ sync' \in [G!Threads -> Syncs]
    BY <2>1, <2>2, RecordsTyped
  <2> QED
    BY <2>1, <2>3
<1>8. CASE G!GetStatus
  <2>1. /\ sync' \in SyncForms("ui") /\ request' \in CallForms /\ ui' = "status"
        /\ UNCHANGED <<capability, loaded, hook, canvas, current, run, queued, wakeup>>
    BY <1>8 DEF G!GetStatus, G!SyncBegins, SyncForms, CallForms
  <2>2. sync' \in [G!Threads -> Syncs] /\ request' \in Calls
    BY <2>1, RecordsTyped
  <2> QED
    BY <2>1, <2>2
<1>9. CASE G!StartGrasshopper
  <2>1. UNCHANGED <<canvas, current, run, queued, wakeup>>
    BY <1>9 DEF G!StartGrasshopper
  <2>2. request' \in CallForms
    BY <1>9 DEF G!StartGrasshopper, CallForms
  <2>3. CASE capability \in {"ready", "loading", "not_installed"}
    <3>1. UNCHANGED <<capability, loaded, hook, sync, ui>>
      BY <1>9, <2>3 DEF G!StartGrasshopper
    <3> QED
      BY <2>1, <2>2, <3>1, RecordsTyped
  <2>4. CASE capability \notin {"ready", "loading", "not_installed"}
    <3>1. G!RunScript /\ ui' = "start" /\ G!SyncBegins("ui")
      BY <1>9, <2>4 DEF G!StartGrasshopper
    <3>2. loaded' \in BOOLEAN /\ hook' \in BOOLEAN /\ capability' \in States
      BY <3>1 DEF G!RunScript
    <3>3. sync' \in SyncForms("ui")
      BY <3>1 DEF G!SyncBegins, SyncForms
    <3>4. sync' \in [G!Threads -> Syncs] /\ request' \in Calls
      BY <2>2, <3>3, RecordsTyped
    <3> QED
      BY <2>1, <3>1, <3>2, <3>4
  <2> QED
    BY <2>3, <2>4
<1>10. CASE G!UiWrites
  <2>1. /\ current' = G!Status(sync["ui"].state, sync["ui"].doc) /\ sync' \in SyncForms("ui")
        /\ request' \in CallForms /\ ui' \in {"read", "idle"}
        /\ UNCHANGED <<capability, loaded, hook, canvas, run, queued, wakeup>>
    BY <1>10 DEF G!UiWrites, G!SyncWrites, SyncForms, CallForms
  <2>2. sync["ui"].state \in States /\ sync["ui"].doc \in G!MaybeDoc
    BY DEF Syncs
  <2>3. current' \in Statuses /\ sync' \in [G!Threads -> Syncs] /\ request' \in Calls
    BY <2>1, <2>2, RecordsTyped
  <2> QED
    BY <2>1, <2>3
<1>11. CASE G!UiAnswers
  <2>1. /\ request' \in CallForms /\ ui' = "idle"
        /\ UNCHANGED <<capability, loaded, hook, canvas, current, sync, run, queued, wakeup>>
    BY <1>11 DEF G!UiAnswers, CallForms
  <2>2. request' \in Calls
    BY <2>1, RecordsTyped
  <2> QED
    BY <2>1, <2>2
<1>12. ASSUME NEW c \in Tools, NEW needs \in {"ready", "document"}, G!EnsureReady(c, needs)
       PROVE ReadinessTypes'
  <2>1. /\ run' \in RunForms /\ (queued' = FALSE \/ queued' = queued)
        /\ UNCHANGED <<capability, loaded, hook, canvas, current, ui, sync, request, wakeup>>
    BY <1>12 DEF G!EnsureReady, RunForms
  <2>2. run' \in Runs
    BY <2>1, RecordsTyped
  <2> QED
    BY <2>1, <2>2
<1>13. CASE G!Subscribed
  <2>1. /\ run' \in RunForms /\ request' \in CallForms /\ (queued' = FALSE \/ queued' = queued)
        /\ UNCHANGED <<capability, loaded, hook, canvas, current, ui, sync, wakeup>>
    BY <1>13 DEF G!Subscribed, G!Read, G!Send, RunForms, CallForms
  <2>2. run' \in Runs /\ request' \in Calls
    BY <2>1, RecordsTyped
  <2> QED
    BY <2>1, <2>2
<1>14. CASE G!FirstRead \/ G!StartReplied
  <2>1. /\ run' \in RunForms /\ request' \in CallForms /\ (queued' = FALSE \/ queued' = queued)
        /\ UNCHANGED <<capability, loaded, hook, canvas, current, ui, sync, wakeup>>
    BY <1>14 DEF G!FirstRead, G!StartReplied, G!Read, G!Start, G!Send, RunForms, CallForms
  <2>2. run' \in Runs /\ request' \in Calls
    BY <2>1, RecordsTyped
  <2> QED
    BY <2>1, <2>2
<1>15. CASE G!StatusRead
  <2>1. /\ run' \in RunForms /\ request' \in CallForms /\ (queued' = FALSE \/ queued' = queued)
        /\ UNCHANGED <<capability, loaded, hook, canvas, current, ui, sync, wakeup>>
    BY <1>15, StatusReadEffect DEF G!Finish, G!Read, G!Start, G!Send, RunForms, CallForms
  <2>2. run' \in Runs /\ request' \in Calls
    BY <2>1, RecordsTyped
  <2> QED
    BY <2>1, <2>2
<1>16. CASE G!LastRead
  <2>1. /\ run' \in RunForms /\ request' \in CallForms /\ (queued' = FALSE \/ queued' = queued)
        /\ UNCHANGED <<capability, loaded, hook, canvas, current, ui, sync, wakeup>>
    BY <1>16 DEF G!LastRead, G!Decide, G!Finish, RunForms, CallForms
  <2>2. run' \in Runs /\ request' \in Calls
    BY <2>1, RecordsTyped
  <2> QED
    BY <2>1, <2>2
<1>17. CASE G!Woken \/ G!DeadlinePasses
  <2>1. /\ run' \in RunForms /\ request' \in CallForms /\ (queued' = FALSE \/ queued' = queued)
        /\ UNCHANGED <<capability, loaded, hook, canvas, current, ui, sync, wakeup>>
    BY <1>17 DEF G!Woken, G!DeadlinePasses, G!Read, G!Send, RunForms, CallForms
  <2>2. run' \in Runs /\ request' \in Calls
    BY <2>1, RecordsTyped
  <2> QED
    BY <2>1, <2>2
<1>18. CASE G!Close \/ G!Lose
  BY <1>18 DEF G!Close, G!Lose
<1>19. CASE G!Closed
  <2>1. /\ run' \in RunForms /\ request' \in CallForms /\ (queued' = FALSE \/ queued' = queued)
        /\ UNCHANGED <<capability, loaded, hook, canvas, current, ui, sync, wakeup>>
    BY <1>19 DEF G!Closed, G!Finish, RunForms, CallForms
  <2>2. run' \in Runs /\ request' \in Calls
    BY <2>1, RecordsTyped
  <2> QED
    BY <2>1, <2>2
<1>20. CASE G!Deliver \/ G!Reconnected
  BY <1>20 DEF G!Deliver, G!Reconnected, G!Signal
<1>21. CASE G!CallFails
  <2>1. /\ request' \in CallForms
        /\ UNCHANGED <<capability, loaded, hook, canvas, current, ui, sync, run, queued, wakeup>>
    BY <1>21 DEF G!CallFails, CallForms
  <2>2. request' \in Calls
    BY <2>1, RecordsTyped
  <2> QED
    BY <2>1, <2>2
<1> QED
  BY <1>1, <1>2, <1>3, <1>4, <1>5, <1>6, <1>7, <1>8, <1>9, <1>10, <1>11, <1>12, <1>13, <1>14, <1>15,
     <1>16, <1>17, <1>18, <1>19, <1>20, <1>21
  DEF G!Next, G!UiStep, G!ClientStep, G!Threads

\* A run starts Grasshopper once.
LEMMA StartKept == ASSUME HostingAssumption, ReadinessInv, [G!Next]_(G!vars) PROVE StartInv'
<1> USE DEF ReadinessInv, G!native, G!client, ReadinessTypes, StartInv, HearingInv, Runs
<1>1. CASE UNCHANGED G!vars
  BY <1>1 DEF G!vars
<1>2. CASE G!Load \/ G!Register
  BY <1>2 DEF G!Load, G!Register
<1>3. CASE G!Started
  BY <1>3 DEF G!Started, G!Report, G!Status
<1>4. ASSUME NEW doc \in G!MaybeDoc, G!Move(doc) PROVE StartInv'
  BY <1>4 DEF G!Move, G!Report, G!Status
<1>5. ASSUME NEW th \in Background, G!BackgroundSync(th) PROVE StartInv'
  BY <1>5 DEF G!BackgroundSync, G!SyncBegins
<1>6. ASSUME NEW th \in G!Threads, G!SyncReads(th) PROVE StartInv'
  BY <1>6 DEF G!SyncReads
<1>7. ASSUME NEW th \in Background, G!BackgroundWrites(th) PROVE StartInv'
  BY <1>7 DEF G!BackgroundWrites, G!SyncWrites, G!Status, G!NoSync
<1>8. CASE G!GetStatus
  BY <1>8 DEF G!GetStatus, G!Open, G!SyncBegins
<1>9. CASE G!StartGrasshopper
  BY <1>9 DEF G!StartGrasshopper, G!Open, G!Unstarted, G!RunScript, G!SyncBegins
<1>10. CASE G!UiWrites
  BY <1>10 DEF G!UiWrites, G!SyncWrites, G!Status, G!NoSync, G!Taken
<1>11. CASE G!UiAnswers
  BY <1>11 DEF G!UiAnswers, G!Taken
<1>12. ASSUME NEW c \in Tools, NEW needs \in {"ready", "document"}, G!EnsureReady(c, needs)
       PROVE StartInv'
  BY <1>12 DEF G!EnsureReady, G!NoRun
<1>13. CASE G!Subscribed
  BY <1>13 DEF G!Subscribed, G!Read, G!Send, G!NoRequest
<1>14. CASE G!FirstRead \/ G!StartReplied
  <2>1. \/ run.at = "first" /\ G!Start
        \/ G!Read("reading")
    BY <1>14 DEF G!FirstRead, G!StartReplied
  <2>2. CASE run.at = "first" /\ G!Start
    BY <2>2 DEF G!Start
  <2>3. CASE G!Read("reading")
    BY <2>3 DEF G!Read
  <2> QED
    BY <2>1, <2>2, <2>3
<1>15. CASE G!StatusRead
  <2>1. CASE G!Finish(request.reply)
    BY <2>1 DEF G!Finish, G!NoRun
  <2>2. CASE ~run.issued /\ G!Start
    BY <2>2 DEF G!Start
  <2>3. CASE run' = [run EXCEPT !.at = "waiting"] \/ G!Read("last")
    BY <2>3 DEF G!Read
  <2> QED
    BY <1>15, <2>1, <2>2, <2>3, StatusReadEffect
<1>16. CASE G!LastRead
  BY <1>16 DEF G!LastRead, G!Decide, G!Finish, G!NoRequest, G!NoRun, G!Replied
<1>17. CASE G!Woken \/ G!DeadlinePasses
  BY <1>17 DEF G!Woken, G!DeadlinePasses, G!Read, G!Send, G!NoRequest
<1>18. CASE G!Close \/ G!Lose
  BY <1>18 DEF G!Close, G!Lose
<1>19. CASE G!Closed
  BY <1>19 DEF G!Closed, G!Finish, G!NoRequest, G!NoRun
<1>20. CASE G!Deliver \/ G!Reconnected
  BY <1>20 DEF G!Deliver, G!Reconnected, G!Signal
<1>21. CASE G!CallFails
  BY <1>21 DEF G!CallFails, G!Unstarted, G!Open
<1> QED
  BY <1>1, <1>2, <1>3, <1>4, <1>5, <1>6, <1>7, <1>8, <1>9, <1>10, <1>11, <1>12, <1>13, <1>14, <1>15,
     <1>16, <1>17, <1>18, <1>19, <1>20, <1>21
  DEF G!Next, G!UiStep, G!ClientStep, G!Threads

\* A run that may wait has a signal for what it has not heard of.
LEMMA HearingKept == ASSUME HostingAssumption, ReadinessInv, [G!Next]_(G!vars) PROVE HearingInv'
<1> USE DEF ReadinessInv, G!native, G!client, ReadinessTypes, HearingInv, StatusInv, Heard,
            Calls, Runs, G!Status, G!Truth
<1>1. CASE UNCHANGED G!vars
  BY <1>1 DEF G!vars
<1>2. CASE G!Load \/ G!Register
  BY <1>2 DEF G!Load, G!Register
<1>3. CASE G!Started
  BY <1>3 DEF G!Started, G!Report, G!Status
<1>4. ASSUME NEW doc \in G!MaybeDoc, G!Move(doc) PROVE HearingInv'
  BY <1>4 DEF G!Move, G!Report, G!Status
<1>5. ASSUME NEW th \in Background, G!BackgroundSync(th) PROVE HearingInv'
  BY <1>5 DEF G!BackgroundSync, G!SyncBegins
<1>6. ASSUME NEW th \in G!Threads, G!SyncReads(th) PROVE HearingInv'
  BY <1>6 DEF G!SyncReads
<1>7. ASSUME NEW th \in Background, G!BackgroundWrites(th) PROVE HearingInv'
  BY <1>7 DEF G!BackgroundWrites, G!SyncWrites, G!Status, G!NoSync
<1>8. CASE G!GetStatus
  BY <1>8 DEF G!GetStatus, G!Open, G!SyncBegins
<1>9. CASE G!StartGrasshopper
  BY <1>9 DEF G!StartGrasshopper, G!Open, G!Unstarted, G!RunScript, G!SyncBegins
<1>10. CASE G!UiWrites
  BY <1>10 DEF G!UiWrites, G!SyncWrites, G!Status, G!NoSync, G!Taken
<1>11. CASE G!UiAnswers
  BY <1>11 DEF G!UiAnswers, G!Taken
<1>12. ASSUME NEW c \in Tools, NEW needs \in {"ready", "document"}, G!EnsureReady(c, needs)
       PROVE HearingInv'
  BY <1>12 DEF G!EnsureReady, G!NoRun
<1>13. CASE G!Subscribed
  BY <1>13 DEF G!Subscribed, G!Read, G!Send, G!NoRequest
<1>14. CASE G!FirstRead \/ G!StartReplied
  BY <1>14 DEF G!FirstRead, G!StartReplied, G!Read, G!Start, G!Send, G!NoRequest, G!Replied
<1>15. CASE G!StatusRead
  <2>1. run.at = "reading" /\ request.reply # "none" /\ UNCHANGED <<capability, ui, stale, wakeup, missed>>
    BY <1>15, StatusReadEffect
  <2>2. CASE G!Finish(request.reply)
    BY <2>1, <2>2 DEF G!Finish, G!NoRun
  <2>3. CASE G!Start
    BY <2>1, <2>3 DEF G!Start
  <2>4. CASE run' = [run EXCEPT !.at = "waiting"] /\ request.reply # "ready" /\ UNCHANGED queued
    BY <2>1, <2>4
  <2>5. CASE G!Read("last")
    BY <2>1, <2>5 DEF G!Read, G!Send, G!NoRequest
  <2> QED
    BY <1>15, <2>2, <2>3, <2>4, <2>5, StatusReadEffect
<1>16. CASE G!LastRead
  BY <1>16 DEF G!LastRead, G!Decide, G!Finish, G!NoRequest, G!NoRun, G!Replied
<1>17. CASE G!Woken \/ G!DeadlinePasses
  BY <1>17 DEF G!Woken, G!DeadlinePasses, G!Read, G!Send, G!NoRequest
<1>18. CASE G!Close \/ G!Lose
  BY <1>18 DEF G!Close, G!Lose
<1>19. CASE G!Closed
  BY <1>19 DEF G!Closed, G!Finish, G!NoRequest, G!NoRun
<1>20. CASE G!Deliver \/ G!Reconnected
  BY <1>20 DEF G!Deliver, G!Reconnected, G!Signal
<1>21. CASE G!CallFails
  BY <1>21 DEF G!CallFails, G!Unstarted, G!Open
<1> QED
  BY <1>1, <1>2, <1>3, <1>4, <1>5, <1>6, <1>7, <1>8, <1>9, <1>10, <1>11, <1>12, <1>13, <1>14, <1>15,
     <1>16, <1>17, <1>18, <1>19, <1>20, <1>21
  DEF G!Next, G!UiStep, G!ClientStep, G!Threads

\* The inductive invariant of readiness.
LEMMA ReadinessInvariant == ASSUME HostingAssumption PROVE G!Spec => []ReadinessInv
<1>1. G!Init => ReadinessInv
  <2> SUFFICES ASSUME G!Init PROVE ReadinessInv
    OBVIOUS
  <2>1. /\ capability \in {"not_installed", "not_loaded"} /\ loaded = FALSE /\ hook = FALSE
        /\ canvas = NoDoc /\ current = G!Status(capability, NoDoc) /\ ui = "idle"
        /\ sync = [th \in G!Threads |-> G!NoSync] /\ request = G!NoRequest /\ run = G!NoRun
        /\ queued = FALSE /\ wakeup = FALSE
    BY DEF G!Init
  <2>2. G!NoRun \in Runs /\ G!NoRequest \in Calls /\ G!NoSync \in Syncs
    BY DEF G!NoRun, G!NoRequest, G!NoSync, Runs, Calls, Syncs, States, G!Unready, G!MaybeDoc
  <2>3. current \in Statuses
    BY <2>1 DEF Statuses, G!Status, States, G!Unready, G!MaybeDoc
  <2>4. sync \in [G!Threads -> Syncs]
    BY <2>1, <2>2
  <2>5. ReadinessTypes
    BY <2>1, <2>2, <2>3, <2>4 DEF ReadinessTypes, States, G!Unready, G!MaybeDoc
  <2>6. StartInv /\ HearingInv
    BY <2>1 DEF StartInv, HearingInv, G!NoRun
  <2>7. StatusInv
    BY <2>1 DEF StatusInv, G!NoSync, G!Threads
  <2> QED
    BY <2>5, <2>6, <2>7 DEF ReadinessInv
<1>2. ReadinessInv /\ [G!Next]_(G!vars) => ReadinessInv'
  BY ReadinessTypesKept, StartKept, StatusKept, HearingKept DEF ReadinessInv
<1> QED
  BY <1>1, <1>2, PTL DEF G!Spec

-----------------------------------------------------------------------------
(***************************************************************************)
(* The parts in one run                                                    *)
(***************************************************************************)

\* In a behaviour of the run each part behaves as it does alone.
LEMMA PartsBehave == Spec => H!Spec /\ A!Spec /\ G!Spec
<1>1. Init => H!Init /\ A!Init /\ G!Init
  BY DEF Init
<1>2. [Next]_vars => [H!Next]_(H!vars)
  BY DEF Next, HostPart, AttachPart, ReadinessPart, vars, hostVars, H!vars
<1>3. [Next]_vars => [A!Next]_(A!vars)
  BY DEF Next, HostPart, AttachPart, ReadinessPart, vars, attachVars, A!vars
<1>4. [Next]_vars => [G!Next]_(G!vars)
  BY DEF Next, HostPart, AttachPart, ReadinessPart, vars, readinessVars, G!vars,
         G!native, G!client
<1> QED
  BY <1>1, <1>2, <1>3, <1>4, PTL DEF Spec, H!Spec, A!Spec, G!Spec

\* At most one host works on the journal, and one that serves is the published host
\* of the current intent.
THEOREM HostIsUnique == Spec => []OneCurrentHost
<1>1. HostInv => OneCurrentHost
  BY DEF HostInv, OwnerInv, JournalInv, DiscoveryInv, OneCurrentHost, H!SingleHost, H!OneJournalUser,
         H!DiscoveryNamesOwner, H!ServesCurrentIntent
<1> QED
  BY <1>1, HostingAssumption, HostInvariant, PartsBehave, PTL DEF HostingAssumption

\* One lifecycle of a Rhino process is connected at a time, and work is admitted only
\* behind the fence of that connection.
THEOREM LifecycleIsFenced == Spec => []OneFencedLifecycle
<1>1. AttachInv => OneFencedLifecycle
  <2> SUFFICES ASSUME AttachInv PROVE OneFencedLifecycle
    OBVIOUS
  <2>1. A!OneLifecycleConnected
    BY DEF AttachInv, ConnectionInv, A!OneLifecycleConnected, A!Connected
  <2>2. A!ReadyIsFenced
    BY DEF AttachInv, ConnectionInv, AdmissionInv, A!ReadyIsFenced
  <2> QED
    BY <2>1, <2>2 DEF OneFencedLifecycle
<1> QED
  BY <1>1, HostingAssumption, AttachInvariant, PartsBehave, PTL

\* Work that a recovery released cannot run any more: it does not run, and what is
\* still queued has lost its lifecycle or its generation.
THEOREM ReleasedIsOver == Spec => []ReleasedWorkIsOver
<1>1. AttachInv => ReleasedWorkIsOver
  BY DEF AttachInv, ReleasedInv, ReleasedWorkIsOver, A!ReleasedWorkIsOver
<1> QED
  BY <1>1, HostingAssumption, AttachInvariant, PartsBehave, PTL

\* A tool starts Grasshopper once, hears that it is ready, and finds its document.
THEOREM ReadinessIsSound == Spec => []ReadinessSound
<1>1. ReadinessInv => ReadinessSound
  <2> SUFFICES ASSUME ReadinessInv PROVE ReadinessSound
    OBVIOUS
  <2>1. run \in Runs /\ (IF run.issued THEN run.starts = 1 ELSE run.starts = 0)
    BY DEF ReadinessInv, ReadinessTypes, StartInv
  <2>2. run.starts \in 0..1 /\ run.at \in {"none", "subscribe", "first", "starting", "reading", "waiting", "last"}
    BY <2>1 DEF Runs
  <2>3. \A th \in G!Threads : sync[th].at \in {"idle", "document", "capability"}
    BY DEF ReadinessInv, ReadinessTypes, Syncs
  <2>4. current \in [state : G!Unready \cup {"ready"}, doc : G!MaybeDoc]
    BY DEF ReadinessInv, ReadinessTypes, Statuses, States
  <2>5. G!TypeOK
    BY <2>2, <2>3, <2>4 DEF ReadinessInv, ReadinessTypes, States, G!TypeOK
  <2>6. G!StartsOnce
    BY <2>2 DEF G!StartsOnce
  <2>7. G!ReadyIsHeard
    BY DEF ReadinessInv, HearingInv, Heard, G!ReadyIsHeard
  <2>8. G!DocumentIsKnown
    BY DEF ReadinessInv, StatusInv, G!DocumentIsKnown
  <2> QED
    BY <2>5, <2>6, <2>7, <2>8 DEF ReadinessSound
<1> QED
  BY <1>1, HostingAssumption, ReadinessInvariant, PartsBehave, PTL
=============================================================================
