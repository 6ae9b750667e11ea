------------------------------- MODULE ToolPolicy -------------------------------
(***************************************************************************)
(* Which tools an agent may run (tool-policy.ts, tool-policy-store.ts,     *)
(* tool-policy-runtime.ts, tool-credentials.ts).  Several processes share  *)
(* one settings file under a file lock; each runs an agent or a settings   *)
(* window.  The steps are the locked sections and what happens between     *)
(* them: a tool call passes several checks, a key is read outside the      *)
(* lock, a refresh waits for the key store, a save writes the key before   *)
(* it publishes it.  A process dies, and the file is lost or damaged.      *)
(***************************************************************************)
EXTENDS Naturals, FiniteSets, FiniteSetsExt

CONSTANTS Agents, Windows, Tools, OnDemand, KeyTools, MaxKeys, MaxRevision, MaxEpoch, MaxFaults

ToolPolicyAssumption ==
    /\ OnDemand \subseteq Tools /\ KeyTools \subseteq Tools
    /\ MaxKeys \in Nat /\ MaxRevision \in Nat /\ MaxEpoch \in Nat /\ MaxFaults \in Nat

Processes == Agents \cup Windows
GatesOf(t) == {t, IF t \in KeyTools THEN "plugin" ELSE "builtin"}
Gates == UNION {GatesOf(t) : t \in Tools}

VARIABLES disk,     \* the settings file: present, missing or damaged
          file,     \* the policy in it, or that was last in it
          marker,   \* the profile was initialized
          entries,  \* the protected entries that hold a key
          observed, \* a process has read the settings
          seen,     \* the version a settings window shows, or none
          session,  \* what the agent's model was last offered
          manual,   \* tools the agent activated
          refresh,  \* a refresh that waits for the key store
          request,  \* an activation that waits for the key store
          call,     \* a tool call
          save,     \* a change of the key
          pending,  \* entries a process still has to delete
          offered,  \* tools the model was offered since they were last switched on
          revoked,  \* keys that were replaced, removed or lost with the settings
          used,     \* the number of keys saved so far
          epochs,   \* epochs so far
          faults
settings == <<disk, file, marker, observed, seen, revoked, epochs>>
agent == <<session, manual, refresh, request, call, offered>>
key == <<entries, save, pending, used>>
vars == <<settings, agent, key, faults>>

NoKey == 0
Keys == 1..MaxKeys
Policies ==
    [epoch : 0..MaxEpoch, revision : 0..MaxRevision, on : SUBSET Gates,
     since : [Gates -> 0..MaxRevision], generation : 0..MaxRevision, key : Keys \cup {NoKey}]
NoStep == [at |-> "none"]
Blocked == [epoch |-> MaxEpoch + 1, revision |-> 0, active |-> {}]
Version(p) == <<p.epoch, p.revision>>
Readable == disk = "present"

TypeOK ==
    /\ disk \in {"present", "missing", "damaged"} /\ file \in Policies
    /\ marker \in BOOLEAN /\ entries \subseteq Keys /\ observed \in [Processes -> BOOLEAN]
    /\ \A r \in Processes :
         /\ session[r] = Blocked \/ session[r] \in
              [epoch : 0..MaxEpoch, revision : 0..MaxRevision, active : SUBSET Tools]
         /\ \A a \in manual[r] : a \in [tool : Tools, epoch : 0..MaxEpoch, revision : 0..MaxRevision]
         /\ pending[r] \subseteq Keys /\ offered[r] \subseteq Tools
    /\ revoked \subseteq 1..used /\ used \in 0..MaxKeys
    /\ epochs \in 0..MaxEpoch /\ faults \in 0..MaxFaults

\* createPolicyDefaults: everything is on, a plugin is off.
Defaults(epoch) ==
    [epoch |-> epoch, revision |-> 0, on |-> Gates \ {"plugin"},
     since |-> [g \in Gates |-> 0], generation |-> 0, key |-> NoKey]
\* A profile with a key and all its tools on.
Configured ==
    [Defaults(0) EXCEPT !.revision = 1, !.on = Gates, !.since["plugin"] = 1,
                        !.generation = 1, !.key = 1]
Each(v) == [r \in Processes |-> v]
Init ==
    /\ disk \in {"missing", "present"} /\ marker = (disk = "present")
    /\ used \in IF disk = "present" THEN {0, 1} ELSE {0}
    /\ entries = 1..used
    /\ file = IF used = 1 THEN Configured ELSE Defaults(0)
    /\ observed = Each(FALSE) /\ seen = Each(<<>>)
    /\ session = Each(Blocked) /\ manual = Each({}) /\ refresh = Each(NoStep)
    /\ request = Each(NoStep) /\ call = Each(NoStep) /\ save = Each(NoStep) /\ pending = Each({})
    /\ offered = Each({}) /\ revoked = {}
    /\ epochs = 0 /\ faults = 0

-----------------------------------------------------------------------------
(* The store. *)
\* load: a readable file restores a lost marker.
Loaded(r) == Readable /\ UNCHANGED disk /\ marker' = TRUE /\ observed' = [observed EXCEPT ![r] = TRUE]
NotLoaded == ~Readable /\ UNCHANGED <<disk, marker, observed>>
\* New settings know nothing of what was before them, whatever was on and whichever keys.
NewEpoch ==
    /\ epochs < MaxEpoch /\ epochs' = epochs + 1 /\ file' = Defaults(epochs + 1)
    /\ offered' = Each({}) /\ revoked' = 1..used
\* The marker goes first: an initial write that is interrupted needs a repair.
Initialize(r) ==
    /\ disk = "missing" /\ ~marker /\ ~observed[r] /\ marker' = TRUE
    /\ \/ NewEpoch /\ disk' = "present" /\ observed' = [observed EXCEPT ![r] = TRUE] /\ UNCHANGED faults
       \/ faults < MaxFaults /\ faults' = faults + 1
          /\ UNCHANGED <<disk, observed, file, epochs, offered, revoked>>
    /\ UNCHANGED <<seen, session, manual, refresh, request, call, key>>
\* Repair is for a file that cannot be read.
Repair(r) ==
    /\ ~Readable /\ NewEpoch
    /\ disk' = "present" /\ marker' = TRUE /\ observed' = [observed EXCEPT ![r] = TRUE]
    /\ UNCHANGED <<seen, session, manual, refresh, request, call, key, faults>>
Damage ==
    /\ faults < MaxFaults /\ faults' = faults + 1
    /\ \/ Readable /\ disk' \in {"missing", "damaged"} /\ UNCHANGED marker
       \/ marker' = FALSE /\ UNCHANGED disk
    /\ UNCHANGED <<file, observed, seen, revoked, epochs, agent, key>>

\* Updates name the version they were made for; another version is a conflict.
Matches(version) == Version(file) = version
\* Gates that p has on and the file has not.
Opens(p) == p.on \ file.on
\* A new revision: p with its new gates stamped.
Commit(r, p, stamped) ==
    LET revision == file.revision + 1 IN
      /\ file.revision < MaxRevision
      /\ file' = [p EXCEPT !.revision = revision,
                           !.since = [g \in Gates |-> IF g \in stamped THEN revision ELSE @[g]]]
      /\ seen' = [seen EXCEPT ![r] = <<file.epoch, revision>>]
      /\ offered' = [o \in Processes |-> {t \in offered[o] : GatesOf(t) \cap stamped = {}}]
      /\ revoked' = IF p.key = file.key THEN revoked ELSE revoked \cup ({file.key} \ {NoKey})
Conflict(r) ==
    /\ seen' = [seen EXCEPT ![r] = Version(file)]
    /\ UNCHANGED <<file, offered, revoked>>

\* The window refreshes what it shows.
See(r) ==
    /\ Loaded(r) /\ seen[r] # Version(file) /\ seen' = [seen EXCEPT ![r] = Version(file)]
    /\ UNCHANGED <<file, revoked, epochs, agent, key, faults>>
\* patchPolicy: one gate.
Patch(r, g, on) ==
    /\ seen[r] # <<>> /\ Loaded(r)
    /\ IF Matches(seen[r])
       THEN LET p == [file EXCEPT !.on = IF on THEN @ \cup {g} ELSE @ \ {g}] IN Commit(r, p, Opens(p))
       ELSE Conflict(r)
    /\ UNCHANGED <<epochs, session, manual, refresh, request, call, key, faults>>
\* resetToolPolicy: the defaults, all stamped, and no key.
Reset(r) ==
    /\ seen[r] # <<>> /\ Loaded(r)
    /\ IF Matches(seen[r])
       THEN Commit(r, [Defaults(file.epoch) EXCEPT !.revision = file.revision,
                                                   !.generation = file.generation + 1], Gates)
       ELSE Conflict(r)
    /\ UNCHANGED <<epochs, session, manual, refresh, request, call, key, faults>>

-----------------------------------------------------------------------------
(* The key. *)
\* save: a fresh entry for the version the window shows.
Save(r, enable) ==
    /\ save[r] = NoStep /\ seen[r] # <<>> /\ Loaded(r) /\ Matches(seen[r])
    /\ used < MaxKeys /\ used' = used + 1
    /\ save' = [save EXCEPT ![r] = [at |-> "write", version |-> seen[r], old |-> file.key,
                                    generation |-> file.generation, own |-> used + 1, enable |-> enable]]
    /\ UNCHANGED <<file, seen, revoked, epochs, agent, entries, pending, faults>>
To(r, stage) == save' = [save EXCEPT ![r].at = stage]
\* Writing the entry may fail before or after it is there.
WriteKey(r) ==
    /\ save[r].at = "write"
    /\ \/ entries' = entries \cup {save[r].own} /\ To(r, "publish") /\ UNCHANGED faults
       \/ /\ faults < MaxFaults /\ faults' = faults + 1 /\ To(r, "undo")
          /\ entries' \in {entries, entries \cup {save[r].own}}
    /\ UNCHANGED <<settings, agent, pending, used>>
\* The old entry is deleted before the new one is published.
PublishKey_CleansFirst(r) ==
    /\ save[r].at = "publish" /\ entries' = entries \ {save[r].old}
    /\ \/ /\ Loaded(r)
          /\ IF Matches(save[r].version) /\ file.generation = save[r].generation
             THEN LET p == [file EXCEPT !.key = save[r].own, !.generation = @ + 1,
                              !.on = IF save[r].enable THEN @ \cup {"plugin"} ELSE @] IN
                    Commit(r, p, Opens(p)) /\ To(r, "replaced")
             ELSE Conflict(r) /\ To(r, "undo")
       \/ NotLoaded /\ To(r, "undo") /\ UNCHANGED <<file, seen, offered, revoked>>
    /\ UNCHANGED <<epochs, session, manual, refresh, request, call, pending, used, faults>>
\* publishPluginCredential under the lock.
PublishKey(r) ==
    /\ save[r].at = "publish"
    /\ \/ /\ Loaded(r)
          /\ IF Matches(save[r].version) /\ file.generation = save[r].generation
             THEN LET p == [file EXCEPT !.key = save[r].own, !.generation = @ + 1,
                              !.on = IF save[r].enable THEN @ \cup {"plugin"} ELSE @] IN
                    Commit(r, p, Opens(p)) /\ To(r, "replaced")
             ELSE Conflict(r) /\ To(r, "undo")
       \/ NotLoaded /\ To(r, "undo") /\ UNCHANGED <<file, seen, offered, revoked>>
    /\ UNCHANGED <<epochs, session, manual, refresh, request, call, entries, pending, used, faults>>
\* cleanup: the replaced entry, or the own one of a save that did not go through.
CleanKey(r) ==
    /\ save[r].at \in {"replaced", "undo"} /\ save' = [save EXCEPT ![r] = NoStep]
    /\ LET k == IF save[r].at = "undo" THEN save[r].own ELSE save[r].old IN
         \/ entries' = entries \ {k} /\ UNCHANGED <<pending, faults>>
         \/ /\ k # NoKey /\ faults < MaxFaults /\ faults' = faults + 1
            /\ pending' = [pending EXCEPT ![r] = @ \cup {k}] /\ UNCHANGED entries
    /\ UNCHANGED <<settings, agent, used>>
\* remove: the tombstone first, then all that is still to be deleted.
RemoveKey(r) ==
    /\ save[r] = NoStep /\ seen[r] # <<>> /\ Loaded(r)
    /\ IF Matches(seen[r])
       THEN /\ Commit(r, [file EXCEPT !.key = NoKey, !.generation = @ + 1], {})
            /\ pending' = [pending EXCEPT ![r] = @ \cup ({file.key} \ {NoKey})]
            /\ save' = [save EXCEPT ![r] = [at |-> "delete"]]
       ELSE Conflict(r) /\ UNCHANGED <<pending, save>>
    /\ UNCHANGED <<epochs, session, manual, refresh, request, call, entries, used, faults>>
DeleteKeys(r) ==
    /\ save[r].at = "delete" /\ save' = [save EXCEPT ![r] = NoStep]
    /\ \E kept \in SUBSET pending[r] :
         /\ kept # {} => faults < MaxFaults
         /\ faults' = faults + IF kept = {} THEN 0 ELSE 1
         /\ entries' = entries \ (pending[r] \ kept) /\ pending' = [pending EXCEPT ![r] = kept]
    /\ UNCHANGED <<settings, agent, used>>

-----------------------------------------------------------------------------
(* The agent. *)
Permitted(t) == Readable /\ GatesOf(t) \subseteq file.on
\* The credential requirement, given what the key store said.
HasKey(t, status) == t \in KeyTools => file.key # NoKey /\ status = "configured"
LastOn(t) == Max({file.since[g] : g \in GatesOf(t)})
\* checkPolicyPreflight does not ask since when a tool is on.
Callable_Stale(r, t) ==
    /\ Permitted(t) /\ HasKey(t, "configured")
    /\ session[r].epoch = file.epoch /\ session[r].revision <= file.revision
    /\ t \in session[r].active
\* resolveToolPolicy and checkPolicyPreflight.
Callable(r, t) ==
    /\ Permitted(t) /\ HasKey(t, "configured")
    /\ session[r].epoch = file.epoch /\ session[r].revision <= file.revision
    /\ LastOn(t) <= session[r].revision /\ t \in session[r].active

\* observe: activations that the settings have overtaken are forgotten.
Kept(r) ==
    {a \in manual[r] : Permitted(a.tool) /\ a.epoch = file.epoch /\ LastOn(a.tool) <= a.revision}
\* needsCredentialStatus and credentialStatus; waiting for the store may be cut short.
Needs(p) == "plugin" \in p.on /\ p.on \cap KeyTools # {}
Statuses(p) ==
    IF p.key = NoKey THEN {"missing"}
    ELSE IF ~Needs(p) THEN {"configured"}
    ELSE {IF p.key \in entries THEN "configured" ELSE "missing", "unavailable"}
\* What is kept of the settings over a wait.
Basis == [epoch |-> file.epoch, generation |-> file.generation, key |-> file.key, needs |-> Needs(file)]
\* currentCredentials: a status is good for the settings it was read for.
StatusNow(p, status) ==
    IF /\ p.epoch = file.epoch /\ p.generation = file.generation /\ p.key = file.key
       /\ Needs(file) => p.needs
    THEN status ELSE "unavailable"

\* reconcileSnapshot at a boundary of the model's requests: it reads the
\* settings, waits for the key store and applies what the settings are then.
Refresh(r) ==
    /\ refresh[r] = NoStep
    /\ \/ /\ Loaded(r) /\ manual' = [manual EXCEPT ![r] = Kept(r)]
          /\ \E status \in Statuses(file) :
               refresh' = [refresh EXCEPT ![r] = [at |-> "wait", basis |-> Basis, status |-> status]]
          /\ UNCHANGED <<session, offered>>
       \/ /\ NotLoaded /\ session' = [session EXCEPT ![r] = Blocked]
          /\ manual' = [manual EXCEPT ![r] = {}] /\ offered' = [offered EXCEPT ![r] = {}]
          /\ UNCHANGED refresh
    /\ UNCHANGED <<file, seen, revoked, epochs, request, call, key, faults>>
Offer(r, activated, status) ==
    {t \in Tools : Permitted(t) /\ HasKey(t, status) /\ (t \in OnDemand => t \in activated)}
ApplyRefresh(r) ==
    /\ refresh[r].at = "wait" /\ refresh' = [refresh EXCEPT ![r] = NoStep]
    /\ \/ /\ Loaded(r) /\ manual' = [manual EXCEPT ![r] = Kept(r)]
          /\ LET active == Offer(r, {a.tool : a \in Kept(r)}, StatusNow(refresh[r].basis, refresh[r].status))
             IN  /\ session' = [session EXCEPT ![r] =
                       [epoch |-> file.epoch, revision |-> file.revision, active |-> active]]
                 /\ offered' = [offered EXCEPT ![r] = active]
       \/ NotLoaded /\ UNCHANGED <<session, manual, offered>>
    /\ UNCHANGED <<file, seen, revoked, epochs, request, call, key, faults>>
\* The watcher sees the settings.
Observe(r) ==
    /\ manual[r] # {}
    /\ \/ Loaded(r) /\ manual' = [manual EXCEPT ![r] = Kept(r)]
       \/ NotLoaded /\ manual' = [manual EXCEPT ![r] = {}]
    /\ UNCHANGED <<file, seen, revoked, epochs, session, refresh, request, call, offered,
                   key, faults>>
\* activate: the agent asks for a tool; the key store is asked outside the lock.
Activate(r, t) ==
    /\ request[r] = NoStep /\ Loaded(r)
    /\ \E status \in IF t \in KeyTools THEN Statuses(file) ELSE {"configured"} :
         request' = [request EXCEPT ![r] = [at |-> "wait", tool |-> t, basis |-> Basis, revision |-> file.revision,
                                          status |-> status]]
    /\ UNCHANGED <<file, seen, revoked, epochs, session, manual, refresh, call, offered, key,
                   faults>>
Activated(r) ==
    /\ request[r].at = "wait" /\ request' = [request EXCEPT ![r] = NoStep]
    /\ LET t == request[r].tool  p == request[r].basis IN
         \/ /\ Loaded(r)
            /\ manual' = [manual EXCEPT ![r] = @ \cup
                 IF /\ Permitted(t) /\ p.epoch = file.epoch /\ LastOn(t) <= request[r].revision
                    /\ HasKey(t, StatusNow(p, request[r].status))
                 THEN {[tool |-> t, epoch |-> file.epoch, revision |-> file.revision]} ELSE {}]
         \/ NotLoaded /\ UNCHANGED manual
    /\ UNCHANGED <<file, seen, revoked, epochs, session, refresh, call, offered, key, faults>>

\* A call: preflight, then the last check right before it is sent.
Call(r, t) ==
    /\ call[r] = NoStep /\ Loaded(r) /\ Callable(r, t)
    /\ call' = [call EXCEPT ![r] = [at |-> "checked", tool |-> t, basis |-> Basis]]
    /\ UNCHANGED <<file, seen, revoked, epochs, session, manual, refresh, request, offered,
                   key, faults>>
Sent(r, k) == call' = [call EXCEPT ![r].at = "sent", ![r].basis.key = k]
Denied(r) == call' = [call EXCEPT ![r] = NoStep]
\* admit, for a tool without a key.
Admit(r) ==
    /\ call[r].at = "checked" /\ call[r].tool \notin KeyTools
    /\ \/ Loaded(r) /\ IF Callable(r, call[r].tool) THEN Sent(r, NoKey) ELSE Denied(r)
       \/ NotLoaded /\ Denied(r)
    /\ UNCHANGED <<file, seen, revoked, epochs, session, manual, refresh, request, offered,
                   key, faults>>
\* admitPlugin: it reads the key of the settings it was prepared for ...
ReadKey(r) ==
    /\ call[r].at = "checked" /\ call[r].tool \in KeyTools
    /\ IF call[r].basis.key \in entries THEN call' = [call EXCEPT ![r].at = "keyed"] ELSE Denied(r)
    /\ UNCHANGED <<settings, session, manual, refresh, request, offered, key, faults>>
\* ... and checks under the lock that they still hold.
AdmitPlugin(r) ==
    /\ call[r].at = "keyed"
    /\ \/ /\ Loaded(r)
          /\ LET p == call[r].basis IN
               IF /\ p.epoch = file.epoch /\ p.generation = file.generation /\ p.key = file.key
                  /\ Callable(r, call[r].tool)
               THEN Sent(r, p.key) ELSE Denied(r)
       \/ NotLoaded /\ Denied(r)
    /\ UNCHANGED <<file, seen, revoked, epochs, session, manual, refresh, request, offered,
                   key, faults>>
Returns(r) ==
    /\ call[r].at = "sent" /\ Denied(r)
    /\ UNCHANGED <<settings, session, manual, refresh, request, offered, key, faults>>

Forgets(r) ==
    /\ session' = [session EXCEPT ![r] = Blocked] /\ manual' = [manual EXCEPT ![r] = {}]
    /\ refresh' = [refresh EXCEPT ![r] = NoStep] /\ request' = [request EXCEPT ![r] = NoStep]
    /\ call' = [call EXCEPT ![r] = NoStep] /\ offered' = [offered EXCEPT ![r] = {}]
\* bind to another conversation: a new generation, older work is cancelled.
Rebind(r) ==
    /\ faults < MaxFaults /\ faults' = faults + 1 /\ Forgets(r) /\ UNCHANGED <<settings, key>>
\* The process dies and comes back; the lock is released by the system.
Crash(r) ==
    /\ faults < MaxFaults /\ faults' = faults + 1 /\ Forgets(r)
    /\ save' = [save EXCEPT ![r] = NoStep] /\ pending' = [pending EXCEPT ![r] = {}]
    /\ observed' = [observed EXCEPT ![r] = FALSE] /\ seen' = [seen EXCEPT ![r] = <<>>]
    /\ UNCHANGED <<disk, file, marker, revoked, epochs, entries, used>>

Next ==
    \/ Damage
    \/ \E r \in Processes : Initialize(r) \/ Crash(r)
    \/ \E r \in Windows :
         \/ Repair(r) \/ See(r) \/ Reset(r)
         \/ WriteKey(r) \/ PublishKey(r) \/ CleanKey(r) \/ RemoveKey(r) \/ DeleteKeys(r)
         \/ \E g \in Gates, on \in BOOLEAN : Patch(r, g, on)
         \/ \E enable \in BOOLEAN : Save(r, enable)
    \/ \E r \in Agents :
         \/ Rebind(r) \/ Refresh(r) \/ ApplyRefresh(r) \/ Observe(r) \/ Activated(r)
         \/ Admit(r) \/ ReadKey(r) \/ AdmitPlugin(r) \/ Returns(r)
         \/ \E t \in Tools : Activate(r, t) \/ Call(r, t)
Spec == Init /\ [][Next]_vars

-----------------------------------------------------------------------------
\* A tool that is sent was offered to the model since its gates were last switched
\* on, by whatever window, and uses no key that was replaced or removed.
SendsOnlyOffered ==
    \A r \in DOMAIN call : call[r].at # "sent" /\ call'[r].at = "sent" =>
        LET t == call[r].tool IN t \in offered[r] /\ call'[r].basis.key \notin revoked
OnlyOfferedToolsRun == [][SendsOnlyOffered]_vars

\* The entry the settings refer to is there: saves and removals of two windows
\* that overlap, fail or are cut short never delete the key in use.
LiveKeyKept == Readable /\ file.key # NoKey => file.key \in entries
=============================================================================
