------------------------------ MODULE TurnsProofs ------------------------------
(***************************************************************************)
(* Proofs about TaskScheduler for any set of tasks, of Rhino processes and *)
(* of dependencies, and any limits: an operation has its process to        *)
(* itself, a settled task leaves no native work behind, an unknown outcome *)
(* is reviewed before anything is built on it, and the limits on workers   *)
(* and on roots hold.  And about BoundDocuments for any documents,         *)
(* bindings, acts of a person and faults: the journal tells what became of *)
(* every activation, and nobody but a person takes away the documents that *)
(* a tool works in.  About InstanceProfiles: scans delete the files of the *)
(* dead, all of them and nothing else.  About Steering: the journal tells  *)
(* what the model saw of every input.                                      *)
(***************************************************************************)
EXTENDS Turns, SequenceTheorems, FiniteSetTheorems, TLAPS

Operations == [turn : Nat, state : {"dispatched", "known", "uncertain"}]
Entries == [phase : Phases, aborted : BOOLEAN, failed : BOOLEAN, fenced : BOOLEAN,
            confirmed : BOOLEAN]

\* Shapes without the model's bounds.
Shapes ==
    /\ rows \in Seq(Tasks)
    /\ state \in [Tasks -> States]
    /\ turn \in [Tasks -> Nat]
    /\ ops \in [Tasks -> Seq(Operations)]
    /\ openScopes \subseteq Tasks \X Nat
    /\ recovered \subseteq Tasks
    /\ active \in [Tasks -> Entries]
    /\ call \in [Tasks -> {"idle", "waiting", "leased", "native"}]
    /\ held \in [Processes -> Tasks \cup {NoTask}]
    /\ native \subseteq Tasks
    /\ pumpAt \in Nat
    /\ snapshot \in [Tasks -> States]

\* A task has one row from its acceptance on, and while the pump's loop runs its
\* snapshot is right about the rows still ahead of it.
PumpInv ==
    /\ \A t \in Tasks : state[t] = "absent" => t \notin ToSet(rows)
    /\ \A i, j \in DOMAIN rows : rows[i] = rows[j] => i = j
    /\ pumpAt > 1 =>
         \A i \in DOMAIN rows : i >= pumpAt => snapshot[rows[i]] = state[rows[i]]

\* The host has an entry only for a task whose turn runs, and a tool call only
\* while the model runs.
TurnOf(t) ==
    /\ IsActive(t) => state[t] \in {"running", "suspending"}
    /\ call[t] # "idle" => active[t].phase = "running" /\ state[t] = "running" /\ Bound(t)
    /\ call[t] = "native" =>
         ops[t] # <<>> /\ ops[t][Len(ops[t])] = [turn |-> turn[t], state |-> "dispatched"]
    /\ t \in recovered => state[t] = "uncertain"
TurnInv == \A t \in Tasks : TurnOf(t)

\* An unknown outcome belongs to the latest turn, and that turn has not settled.
UnknownOf(t) ==
    /\ \A i \in DOMAIN ops[t] : Pending(ops[t][i]) =>
         ops[t][i].turn = turn[t] /\ state[t] \in {"running", "suspending", "uncertain"}
    /\ \A s \in openScopes : s[1] = t =>
         s[2] = turn[t] /\ state[t] \in {"running", "suspending", "uncertain"}
UnknownInv == \A t \in Tasks : UnknownOf(t)

\* Until the task is uncertain, its unknown outcome keeps the lease of the process.
LeaseOf(t) ==
    /\ call[t] \in {"leased", "native"} => held[ProcessOf[t]] = t
    /\ Unsettled(t) => Bound(t) /\ (state[t] = "uncertain" \/ held[ProcessOf[t]] = t)
LeaseInv == \A t \in Tasks : LeaseOf(t)

\* What Rhino still executes is unknown to the journal and not reviewed, and no
\* other task has a lease on that process.
NativeOf(t) ==
    /\ \E i \in DOMAIN ops[t] : Pending(ops[t][i])
    /\ t \notin recovered
    /\ \A u \in Tasks : call[u] \in {"leased", "native"} /\ ProcessOf[u] = ProcessOf[t] => u = t
NativeInv == \A t \in native : NativeOf(t)

\* The host's entries are finitely many.
EntriesInv == IsFiniteSet({t \in Tasks : IsActive(t)})

\* Bound turns that compute, the aborted ones left out.
LiveWorkers == {t \in Tasks : /\ Bound(t) /\ ~active[t].aborted
                              /\ active[t].phase \notin {"none", "children"}}

SchedulerInv ==
    /\ Shapes /\ PumpInv /\ TurnInv /\ UnknownInv /\ LeaseInv /\ NativeInv
    /\ NativeExclusive /\ OneRoot

\* What an iteration of the pump does to each task: nothing, or it fails or starts
\* one that is still queued, and goes on behind it.
PumpDoes ==
    /\ state' \in [Tasks -> States] /\ active' \in [Tasks -> Entries]
    /\ pumpAt' \in Nat /\ snapshot' \in [Tasks -> States]
    /\ UNCHANGED <<rows, turn, ops, openScopes, recovered, call, held, native>>
    /\ \/ pumpAt' = 0 /\ UNCHANGED <<state, active>>
       \/ \E i \in DOMAIN rows :
            /\ rows[i] \in Tasks /\ state[rows[i]] = "queued" /\ ~IsActive(rows[i])
            /\ \A u \in Tasks \ {rows[i]} : state'[u] = state[u] /\ active'[u] = active[u]
            /\ pumpAt' = i + 1
            /\ \/ snapshot' = state
               \/ snapshot' = snapshot /\ pumpAt > 1 /\ pumpAt <= i
            /\ \/ state'[rows[i]] = "failed" /\ active'[rows[i]] = active[rows[i]]
               \/ /\ HasRoom(rows[i]) /\ MayStart(rows[i])
                  /\ state'[rows[i]] = "running"
                  /\ active'[rows[i]].phase = "starting"

\* What cancel()'s loop does on the way to each task: one that only waits is
\* cancelled, and one entry at most is aborted.
VisitDoes ==
    /\ state' \in [Tasks -> States] /\ active' \in [Tasks -> Entries]
    /\ pumpAt' \in {0, 1} /\ snapshot' = snapshot
    /\ UNCHANGED <<rows, turn, ops, openScopes, recovered, call, held, native>>
    /\ \A t \in Tasks : \/ state'[t] = state[t]
                        \/ state[t] \in {"queued", "awaiting_user"} /\ state'[t] = "cancelled"
    /\ \A t \in Tasks : /\ active'[t].phase = active[t].phase
                        /\ active[t].aborted => active'[t].aborted

\* What the end of a turn does to its task: uncertain, or its outcomes are known.
SettleDoes(t) ==
    /\ state' \in [Tasks -> States] /\ active' \in [Tasks -> Entries]
    /\ pumpAt' = 1 /\ snapshot' = snapshot
    /\ UNCHANGED <<rows, turn, ops, openScopes, recovered, call, held, native>>
    /\ \A u \in Tasks \ {t} : state'[u] = state[u] /\ active'[u] = active[u]
    /\ active[t].phase = "cleanup" /\ active'[t].phase = "none"
    /\ \/ state'[t] = "uncertain"
       \/ state'[t] \in {"cancelled", "failed", "completed"} /\ ~UnresolvedTurn(t)
       \/ state'[t] = "awaiting_user" /\ state[t] = "suspending" /\ ~UnresolvedTurn(t)

\* What the reply to a request does: the last operation gets its outcome.
AnsweredDoes(t) ==
    /\ ops' \in [Tasks -> Seq(Operations)]
    /\ \A u \in Tasks \ {t} : ops'[u] = ops[u]
    /\ Len(ops[t]) \in DOMAIN ops[t] /\ DOMAIN ops'[t] = DOMAIN ops[t]
    /\ \A i \in DOMAIN ops[t] : i # Len(ops[t]) => ops'[t][i] = ops[t][i]
    /\ ops'[t][Len(ops[t])].turn = ops[t][Len(ops[t])].turn
    /\ ops'[t][Len(ops[t])].state \in {"known", "uncertain"}
    /\ ops'[t][Len(ops[t])].state = "known" => t \notin native
    /\ call[t] = "native" /\ call' = [call EXCEPT ![t] = "leased"]
    /\ pumpAt' = 0 /\ snapshot' = snapshot
    /\ UNCHANGED <<rows, state, turn, openScopes, recovered, active, held, native>>

\* What the end of a tool does: the lease goes only if nothing of the task is unknown.
CloseDoes(t) ==
    /\ openScopes \subseteq openScopes'
    /\ openScopes' \subseteq openScopes \cup {<<t, turn[t]>>}
    /\ active' \in [Tasks -> Entries]
    /\ \A u \in Tasks : /\ active'[u].phase = active[u].phase
                        /\ active[u].aborted => active'[u].aborted
    /\ held' \in [Processes -> Tasks \cup {NoTask}]
    /\ \A q \in Processes \ {ProcessOf[t]} : held'[q] = held[q]
    /\ \/ held'[ProcessOf[t]] = held[ProcessOf[t]]
       \/ held[ProcessOf[t]] = t /\ ~UnknownOutcome(t, openScopes')
    /\ call[t] = "leased" /\ call' = [call EXCEPT ![t] = "idle"]
    /\ pumpAt' = 1 /\ snapshot' = snapshot
    /\ UNCHANGED <<rows, state, turn, ops, recovered, native>>

\* What the acceptance of a task does: a new row, at the end.
AcceptDoes(t) ==
    /\ rows' \in Seq(Tasks)
    /\ \A u \in Tasks : u \in ToSet(rows') => u = t \/ u \in ToSet(rows)
    /\ \A i, j \in DOMAIN rows' : rows'[i] = rows'[j] => i = j
    /\ state[t] = "absent" /\ state' = [state EXCEPT ![t] = "queued"]
    /\ turn' = [turn EXCEPT ![t] = 1]
    /\ pumpAt' = 1 /\ snapshot' = snapshot
    /\ UNCHANGED <<ops, openScopes, recovered, active, call, held, native>>

\* What a restart does to each task: a turn that ran is uncertain, nothing is active,
\* and a process belongs to one of its uncertain tasks that nobody has reviewed.
RestartDoes ==
    /\ state' \in [Tasks -> States] /\ active' \in [Tasks -> Entries]
    /\ \A t \in Tasks : /\ state'[t] = AfterCrash(state[t])
                        /\ active'[t].phase = "none" /\ call'[t] = "idle"
    /\ call' \in [Tasks -> {"idle"}]
    /\ held' \in [Processes -> Tasks \cup {NoTask}]
    /\ pumpAt' = 1 /\ snapshot' \in [Tasks -> States]
    /\ UNCHANGED <<rows, turn, ops, openScopes, recovered, native>>

\* The other steps, by what they change of what the invariant looks at.  A turn
\* goes on without a tool call:
EntryDoes(t) ==
    /\ active' \in [Tasks -> Entries]
    /\ \A u \in Tasks \ {t} : active'[u] = active[u]
    /\ active[t].phase # "none" /\ active'[t].phase # "none" /\ call[t] = "idle"
    /\ active'[t].aborted = active[t].aborted
    /\ active[t].phase = "children" /\ Bound(t) => active[t].aborted \/ WorkerCount < MaxWorkers
    /\ pumpAt' \in {0, 1} /\ snapshot' = snapshot
    /\ UNCHANGED <<rows, state, turn, ops, openScopes, recovered, call, held, native>>

\* a tool waits for the lease, or gives up;
QueueDoes(t) ==
    /\ \/ call[t] = "waiting" /\ call' = [call EXCEPT ![t] = "idle"]
       \/ /\ call[t] = "idle" /\ call' = [call EXCEPT ![t] = "waiting"]
          /\ Bound(t) /\ active[t].phase = "running" /\ state[t] = "running"
    /\ pumpAt' \in {0, 1} /\ snapshot' = snapshot
    /\ UNCHANGED <<rows, state, turn, ops, openScopes, recovered, active, held, native>>

\* a tool takes the lease;
LeaseDoes(t) ==
    /\ call[t] = "waiting" /\ call' = [call EXCEPT ![t] = "leased"]
    /\ ~UnresolvedProcess(ProcessOf[t]) /\ held[ProcessOf[t]] = NoTask
    /\ held' = [held EXCEPT ![ProcessOf[t]] = t]
    /\ pumpAt' = 0 /\ snapshot' = snapshot
    /\ UNCHANGED <<rows, state, turn, ops, openScopes, recovered, active, native>>

\* an operation leaves for Rhino;
DispatchDoes(t) ==
    /\ call[t] = "leased" /\ call' = [call EXCEPT ![t] = "native"]
    /\ ops' = [ops EXCEPT ![t] = Append(@, [turn |-> turn[t], state |-> "dispatched"])]
    /\ native' = native \cup {t}
    /\ pumpAt' = 0 /\ snapshot' = snapshot
    /\ UNCHANGED <<rows, state, turn, openScopes, recovered, active, held>>

\* a question is asked, or answered;
QuestionDoes(t) ==
    /\ \/ state[t] = "running" /\ state' = [state EXCEPT ![t] = "suspending"] /\ UNCHANGED turn
       \/ /\ state[t] = "awaiting_user" /\ state' = [state EXCEPT ![t] = "queued"]
          /\ turn' = [turn EXCEPT ![t] = turn[t] + 1]
    /\ call[t] = "idle"
    /\ pumpAt' \in {0, 1} /\ snapshot' = snapshot
    /\ UNCHANGED <<rows, ops, openScopes, recovered, active, call, held, native>>

\* a person reviews a task;
RecoverDoes(t) ==
    /\ Unrecovered(t) /\ t \notin native
    /\ recovered' = recovered \cup {t}
    /\ held' = [q \in Processes |-> IF held[q] = t THEN NoTask ELSE held[q]]
    /\ pumpAt' = 1 /\ snapshot' = snapshot
    /\ UNCHANGED <<rows, state, turn, ops, openScopes, active, call, native>>

\* Rhino finishes something, or none of this changes.
NothingDoes ==
    /\ native' \subseteq native
    /\ \/ pumpAt' \in {0, 1}
       \/ UNCHANGED pumpAt
    /\ snapshot' = snapshot
    /\ UNCHANGED <<rows, state, turn, ops, openScopes, recovered, active, call, held>>

\* A nonempty set of positions has a first one.
LEMMA Least ==
    ASSUME NEW n \in Nat, NEW M \in SUBSET (1..n), M # {}
    PROVE  \E m \in M : \A k \in M : m <= k
<1> DEFINE Below(x) == {y \in M : y < x}
           F == {Below(x) : x \in M}
<1>1. IsFiniteSet(M)
  <2>1. IsFiniteSet(1..n)
    BY 1 \in Int, n \in Int, FS_Interval
  <2> QED
    BY <2>1, FS_Subset
<1>2. IsWellFoundedOn(StrictSubsetOrdering(M), FiniteSubsetsOf(M))
  BY <1>1, FS_StrictSubsetOrderingWellFounded
<1>3. F \subseteq FiniteSubsetsOf(M) /\ F # {}
  <2>1. \A x \in M : Below(x) \subseteq M /\ IsFiniteSet(Below(x))
    BY <1>1, FS_Subset
  <2> QED
    BY <2>1, Zenon DEF FiniteSubsetsOf
<1>4. \E X \in F : \A Y \in F : <<Y, X>> \notin StrictSubsetOrdering(M)
  <2> HIDE DEF F
  <2> QED
    BY <1>2, <1>3, WFMin
<1>5. PICK m \in M : \A k \in M : <<Below(k), Below(m)>> \notin StrictSubsetOrdering(M)
  BY <1>4
<1>6. ASSUME NEW k \in M, k < m PROVE FALSE
  <2>1. \A y \in M : y \in Int
    OBVIOUS
  <2>2. \A y \in M : y < k => y < m
    BY <2>1, <1>6
  <2>3. Below(k) \subseteq Below(m) /\ Below(m) \subseteq M
    BY <2>2
  <2>4. k \in Below(m) /\ k \notin Below(k)
    BY <2>1, <1>6
  <2> QED
    BY <2>3, <2>4, <1>5 DEF StrictSubsetOrdering
<1> QED
  BY <1>6

\* An iteration of the pump does that.
LEMMA PumpEffect ==
    ASSUME Shapes, PumpInv, PumpStep
    PROVE  PumpDoes
<1> DEFINE read == IF pumpAt = 1 THEN state ELSE snapshot
           ready == {j \in DOMAIN rows :
                       /\ j >= pumpAt
                       /\ PumpFails(read, rows[j]) \/ PumpStarts(read, rows[j])}
           i == CHOOSE j \in ready : \A k \in ready : j <= k
           t == rows[i]
<1>1. UNCHANGED <<rows, turn, ops, openScopes, recovered, call, held, native>>
  BY DEF PumpStep
<1>2. CASE ready = {}
  <2>1. pumpAt' = 0 /\ snapshot' = NoSnapshot /\ UNCHANGED <<state, active>>
    BY <1>2 DEF PumpStep
  <2> QED
    BY <1>1, <2>1 DEF PumpDoes, Shapes, NoSnapshot, States
<1>3. CASE ready # {}
  <2>1. \E j \in ready : \A k \in ready : j <= k
    <3>1. Len(rows) \in Nat /\ ready \in SUBSET (1..Len(rows))
      BY DEF Shapes
    <3> HIDE DEF ready
    <3> QED
      BY <1>3, <3>1, Least
  <2>2. i \in ready
    <3> HIDE DEF ready
    <3> QED
      BY <2>1
  <2>3. i \in DOMAIN rows /\ i >= pumpAt /\ i \in Nat /\ t \in Tasks
    BY <2>2 DEF Shapes
  <2>4. PumpFails(read, t) \/ PumpStarts(read, t)
    BY <2>2
  <2>5. /\ pumpAt' = i + 1 /\ snapshot' = read
        /\ IF PumpFails(read, t)
           THEN /\ state' = [state EXCEPT ![t] = "failed"]
                /\ UNCHANGED active
           ELSE /\ state' = [state EXCEPT ![t] = "running"]
                /\ active' = [active EXCEPT ![t] = [NotActive EXCEPT !.phase = "starting"]]
    BY <1>3 DEF PumpStep
  <2>6. pumpAt \in Nat /\ pumpAt > 0
    BY DEF PumpStep, Shapes
  <2> HIDE DEF i, ready
  <2>7. read[t] = "queued" /\ ~IsActive(t)
    BY <2>4 DEF PumpFails, PumpStarts, Considers
  <2>8. (pumpAt = 1 /\ read = state) \/ (pumpAt > 1 /\ read = snapshot)
    BY <2>6
  <2>9. read[t] = state[t]
    BY <2>3, <2>8 DEF PumpInv
  <2>10. read = state \/ (read = snapshot /\ pumpAt > 1 /\ pumpAt <= i)
    BY <2>3, <2>8, <2>6
  <2>11. read \in [Tasks -> States]
    BY <2>8 DEF Shapes
  <2> HIDE DEF read, t
  <2>12. CASE PumpFails(read, t)
    <3>1. state' = [state EXCEPT ![t] = "failed"] /\ active' = active
      BY <2>5, <2>12
    <3>2. /\ state' \in [Tasks -> States] /\ state'[t] = "failed"
          /\ \A u \in Tasks \ {t} : state'[u] = state[u] /\ active'[u] = active[u]
      BY <2>3, <3>1 DEF Shapes, States
    <3>3. active' \in [Tasks -> Entries] /\ active'[t] = active[t]
      BY <3>1 DEF Shapes
    <3> QED
      BY <1>1, <2>3, <2>5, <2>7, <2>9, <2>10, <2>11, <3>2, <3>3 DEF PumpDoes, t
  <2>13. CASE ~PumpFails(read, t)
    <3>1. HasRoom(t) /\ MayStart(t)
      BY <2>4, <2>13 DEF PumpStarts
    <3>2. [NotActive EXCEPT !.phase = "starting"] \in Entries
      BY DEF NotActive, Entries, Phases
    <3>3. [NotActive EXCEPT !.phase = "starting"].phase = "starting"
      BY DEF NotActive
    <3>4. /\ state' = [state EXCEPT ![t] = "running"]
          /\ active' = [active EXCEPT ![t] = [NotActive EXCEPT !.phase = "starting"]]
      BY <2>5, <2>13
    <3>5. state' \in [Tasks -> States] /\ state'[t] = "running"
      BY <2>3, <3>4 DEF Shapes, States
    <3>6. active' \in [Tasks -> Entries] /\ active'[t].phase = "starting"
      BY <2>3, <3>4, <3>2, <3>3 DEF Shapes
    <3>7. \A u \in Tasks \ {t} : state'[u] = state[u] /\ active'[u] = active[u]
      BY <2>3, <3>4 DEF Shapes
    <3> QED
      BY <1>1, <2>3, <2>5, <2>7, <2>9, <2>10, <2>11, <3>1, <3>5, <3>6, <3>7 DEF PumpDoes, t
  <2> QED
    BY <2>12, <2>13
<1> QED
  BY <1>2, <1>3

\* cancel() does that.
LEMMA VisitEffect ==
    ASSUME Shapes, HostIdle, NEW family, NEW flags, Visit(family, flags)
    PROVE  VisitDoes
<1> DEFINE stop == {t \in family : IsActive(t)}
           first == CHOOSE t \in stop : \A u \in stop : Row(t) <= Row(u)
           visited == IF stop = {} THEN family
                      ELSE {t \in family : Row(t) < Row(first)}
<1> HIDE DEF first
<1>1. state' = [t \in Tasks |->
              IF t \in visited /\ state[t] \in {"queued", "awaiting_user"}
              THEN "cancelled" ELSE state[t]]
  BY DEF Visit, first
<1>2. active' = IF stop = {} THEN active ELSE [active EXCEPT ![first].aborted = TRUE]
  BY DEF Visit, first
<1>3. UNCHANGED <<rows, turn, ops, openScopes, recovered, call, held, native>>
  BY DEF Visit
<1>4. (IF stop = {} THEN Pump ELSE NoPump)
  BY DEF Visit
<1>5. pumpAt' \in {0, 1} /\ snapshot' = snapshot
  BY <1>4 DEF Pump, NoPump, HostIdle
<1> HIDE DEF visited, stop
<1> QED
  <2>1. state' \in [Tasks -> States]
    BY <1>1 DEF Shapes, States
  <2>2. \A t \in Tasks : \/ state'[t] = state[t]
                         \/ state[t] \in {"queued", "awaiting_user"} /\ state'[t] = "cancelled"
    BY <1>1 DEF Shapes
  <2>3. CASE active' = active
    BY <1>3, <1>5, <2>1, <2>2, <2>3 DEF VisitDoes, Shapes
  <2>4. CASE active' = [active EXCEPT ![first].aborted = TRUE]
    <3>1. active' \in [Tasks -> Entries]
      BY <2>4 DEF Shapes, Entries
    <3>2. \A t \in Tasks : /\ active'[t].phase = active[t].phase
                           /\ active[t].aborted => active'[t].aborted
      BY <2>4 DEF Shapes, Entries
    <3> QED
      BY <1>3, <1>5, <2>1, <2>2, <3>1, <3>2 DEF VisitDoes
  <2> QED
    BY <1>2, <2>3, <2>4

\* The end of a turn does that.
LEMMA SettleEffect ==
    ASSUME Shapes, NEW t \in Tasks, Settle(t)
    PROVE  SettleDoes(t)
<1>1. PICK confirmed \in {FALSE, active[t].confirmed} :
          state' = [state EXCEPT ![t] = Outcome(t, confirmed)]
  BY DEF Settle
<1>2. /\ UNCHANGED <<rows, turn, ops, openScopes, recovered, call, held, native>>
      /\ active[t].phase = "cleanup" /\ active' = [active EXCEPT ![t] = NotActive]
      /\ pumpAt' = 1 /\ snapshot' = snapshot
  BY DEF Settle, Pump
<1>3. NotActive \in Entries /\ NotActive.phase = "none"
  BY DEF NotActive, Entries, Phases
<1>4. \/ Outcome(t, confirmed) = "uncertain"
      \/ Outcome(t, confirmed) \in {"cancelled", "failed", "completed"} /\ ~UnresolvedTurn(t)
      \/ Outcome(t, confirmed) = "awaiting_user" /\ state[t] = "suspending" /\ ~UnresolvedTurn(t)
  BY DEF Outcome
<1>5. active' \in [Tasks -> Entries] /\ active'[t].phase = "none"
  BY <1>2, <1>3 DEF Shapes
<1>6. state' \in [Tasks -> States] /\ state'[t] = Outcome(t, confirmed)
  BY <1>1, <1>4 DEF Shapes, States
<1> QED
  BY <1>1, <1>2, <1>4, <1>5, <1>6 DEF SettleDoes, Shapes

\* A reply does that.
LEMMA AnsweredEffect ==
    ASSUME Shapes, NEW t \in Tasks, ops[t] # <<>>, Answered(t)
    PROVE  AnsweredDoes(t)
<1>1. PICK outcome \in {"known", "uncertain"} :
        /\ outcome = "known" => t \notin native
        /\ ops' = [ops EXCEPT ![t][Len(ops[t])].state = outcome]
  BY DEF Answered
<1> DEFINE n == Len(ops[t])
           o == ops[t][n]
<1>2. ops[t] \in Seq(Operations) /\ n \in DOMAIN ops[t] /\ n \in Nat
  BY DEF Shapes
<1>3. o \in Operations
  BY <1>2
<1>4. [o EXCEPT !.state = outcome] \in Operations
  BY <1>3 DEF Operations
<1>5. ops' = [ops EXCEPT ![t] = [ops[t] EXCEPT ![n] = [o EXCEPT !.state = outcome]]]
  BY <1>1
<1>6. [o EXCEPT !.state = outcome].state = outcome /\ [o EXCEPT !.state = outcome].turn = o.turn
  BY <1>3 DEF Operations
<1> HIDE DEF o, n
<1>7. [ops[t] EXCEPT ![n] = [o EXCEPT !.state = outcome]] \in Seq(Operations)
  BY <1>2, <1>4
<1>8. ops' \in [Tasks -> Seq(Operations)] /\ \A u \in Tasks \ {t} : ops'[u] = ops[u]
  BY <1>5, <1>7 DEF Shapes
<1>9. ops'[t] = [ops[t] EXCEPT ![n] = [o EXCEPT !.state = outcome]]
  BY <1>5 DEF Shapes
<1> QED
  BY <1>1, <1>2, <1>6, <1>8, <1>9 DEF AnsweredDoes, Answered, HostIdle, o, n

\* A closed tool's entry is one of the entries.
LEMMA FenceEdited ==
    ASSUME NEW e \in Entries, NEW fenced \in BOOLEAN, NEW confirmed \in BOOLEAN
    PROVE  [e EXCEPT !.fenced = fenced, !.confirmed = confirmed] \in Entries
<1>1. CASE fenced = TRUE /\ confirmed = TRUE
  BY <1>1 DEF Entries
<1>2. CASE fenced = TRUE /\ confirmed = FALSE
  BY <1>2 DEF Entries
<1>3. CASE fenced = FALSE /\ confirmed = TRUE
  BY <1>3 DEF Entries
<1>4. CASE fenced = FALSE /\ confirmed = FALSE
  BY <1>4 DEF Entries
<1> QED
  BY <1>1, <1>2, <1>3, <1>4

\* The end of a tool does that.
LEMMA CloseEffect ==
    ASSUME Shapes, NEW t \in Tasks, Bound(t), ProcessOf[t] \in Processes, CloseTool(t)
    PROVE  CloseDoes(t)
<1>1. PICK idle \in BOOLEAN :
        LET scopes == IF idle THEN openScopes ELSE openScopes \cup {<<t, turn[t]>>}
            unknown == UnknownOutcome(t, scopes)
        IN /\ openScopes' = scopes
           /\ active' = [active EXCEPT ![t].fenced = unknown, ![t].confirmed = idle]
           /\ held' = [held EXCEPT ![ProcessOf[t]] =
                           IF unknown \/ @ # t THEN @ ELSE NoTask]
  BY DEF CloseTool
<1>2. openScopes' = IF idle THEN openScopes ELSE openScopes \cup {<<t, turn[t]>>}
  BY <1>1
<1>3. active' = [active EXCEPT ![t].fenced = UnknownOutcome(t, openScopes'), ![t].confirmed = idle]
  BY <1>1
<1>4. held' = [held EXCEPT ![ProcessOf[t]] =
                  IF UnknownOutcome(t, openScopes') \/ @ # t THEN @ ELSE NoTask]
  BY <1>1
<1>5. UnknownOutcome(t, openScopes') \in BOOLEAN
  BY DEF UnknownOutcome
<1>6. /\ call[t] = "leased" /\ call' = [call EXCEPT ![t] = "idle"] /\ pumpAt' = 1 /\ snapshot' = snapshot
      /\ UNCHANGED <<rows, state, turn, ops, recovered, native>>
  BY DEF CloseTool, Pump
<1>7. /\ active' \in [Tasks -> Entries]
      /\ \A u \in Tasks : /\ active'[u].phase = active[u].phase
                          /\ active[u].aborted => active'[u].aborted
  <2>1. PICK fenced \in BOOLEAN :
          active' = [active EXCEPT ![t].fenced = fenced, ![t].confirmed = idle]
    BY <1>3, <1>5
  <2>2. [active[t] EXCEPT !.fenced = fenced, !.confirmed = idle] \in Entries
    BY FenceEdited DEF Shapes
  <2>3. active' \in [Tasks -> Entries]
    BY <2>1, <2>2 DEF Shapes
  <2>4. \A u \in Tasks : /\ active'[u].phase = active[u].phase
                         /\ active'[u].aborted = active[u].aborted
    BY <2>1 DEF Shapes, Entries
  <2> QED
    BY <2>3, <2>4
<1>8. /\ held' \in [Processes -> Tasks \cup {NoTask}]
      /\ \A q \in Processes \ {ProcessOf[t]} : held'[q] = held[q]
      /\ \/ held'[ProcessOf[t]] = held[ProcessOf[t]]
         \/ held[ProcessOf[t]] = t /\ ~UnknownOutcome(t, openScopes')
  BY <1>4 DEF Shapes
<1>9. openScopes \subseteq openScopes' /\ openScopes' \subseteq openScopes \cup {<<t, turn[t]>>}
  BY <1>2
<1> QED
  BY <1>6, <1>7, <1>8, <1>9 DEF CloseDoes

\* An acceptance does that.
LEMMA AcceptEffect ==
    ASSUME Shapes, PumpInv, NEW t \in Tasks, Accept(t)
    PROVE  AcceptDoes(t)
<1>1. /\ rows' = Append(rows, t) /\ rows \in Seq(Tasks)
      /\ state[t] = "absent" /\ state' = [state EXCEPT ![t] = "queued"]
      /\ turn' = [turn EXCEPT ![t] = 1]
      /\ pumpAt' = 1 /\ snapshot' = snapshot
      /\ UNCHANGED <<ops, openScopes, recovered, active, call, held, native>>
  BY DEF Accept, Shapes, Pump
<1>2. /\ rows' \in Seq(Tasks) /\ DOMAIN rows' = 1..(Len(rows) + 1) /\ Len(rows) \in Nat
      /\ DOMAIN rows = 1..Len(rows)
      /\ \A i \in DOMAIN rows' : rows'[i] = IF i = Len(rows) + 1 THEN t ELSE rows[i]
  BY <1>1
<1>3. \A i \in DOMAIN rows' : i \in DOMAIN rows \/ i = Len(rows) + 1
  BY <1>2
<1>4. \A i \in DOMAIN rows : rows[i] # t
  BY <1>1 DEF PumpInv, ToSet
<1>5. \A i \in DOMAIN rows : i # Len(rows) + 1
  BY <1>2
<1>6. \A i, j \in DOMAIN rows' : rows'[i] = rows'[j] => i = j
  BY <1>2, <1>3, <1>4, <1>5 DEF PumpInv
<1>7. \A u \in Tasks : u \in ToSet(rows') => u = t \/ u \in ToSet(rows)
  BY <1>2, <1>3 DEF ToSet
<1> QED
  BY <1>1, <1>2, <1>6, <1>7 DEF AcceptDoes

\* A restart does that.
LEMMA RestartEffect ==
    ASSUME Shapes, Restart
    PROVE  RestartDoes
<1>1. NotActive \in Entries /\ NotActive.phase = "none"
  BY DEF NotActive, Entries, Phases
<1>2. state' = [t \in Tasks |-> AfterCrash(state[t])]
  BY DEF Restart
<1> QED
  BY <1>1, <1>2 DEF RestartDoes, Restart, Shapes, AfterCrash, States, NoSnapshot

\* A run's entry may go to another phase, failed and confirmed or not.
LEMMA EntryEdited ==
    ASSUME NEW e \in Entries, NEW phase \in Phases, NEW failed \in BOOLEAN,
           NEW confirmed \in BOOLEAN
    PROVE  /\ [e EXCEPT !.phase = phase] \in Entries
           /\ [e EXCEPT !.phase = phase, !.failed = failed] \in Entries
           /\ [e EXCEPT !.phase = phase, !.failed = failed, !.confirmed = confirmed] \in Entries
<1>1. CASE failed = TRUE /\ confirmed = TRUE
  BY <1>1 DEF Entries
<1>2. CASE failed = TRUE /\ confirmed = FALSE
  BY <1>2 DEF Entries
<1>3. CASE failed = FALSE /\ confirmed = TRUE
  BY <1>3 DEF Entries
<1>4. CASE failed = FALSE /\ confirmed = FALSE
  BY <1>4 DEF Entries
<1> QED
  BY <1>1, <1>2, <1>3, <1>4

\* Every step does one of these.
LEMMA StepDoes ==
    ASSUME ConstantsAssumption, SchedulerInv, [Next]_vars
    PROVE  \/ PumpDoes \/ VisitDoes \/ RestartDoes \/ NothingDoes
           \/ \E t \in Tasks :
                \/ AcceptDoes(t) \/ SettleDoes(t) \/ AnsweredDoes(t) \/ CloseDoes(t)
                \/ EntryDoes(t) \/ QueueDoes(t) \/ LeaseDoes(t) \/ DispatchDoes(t)
                \/ QuestionDoes(t) \/ RecoverDoes(t)
<1>1. Shapes /\ PumpInv /\ TurnInv
  BY DEF SchedulerInv
<1>2. CASE PumpStep
  BY <1>1, <1>2, PumpEffect
<1>3. ASSUME CancelRest \/ \E t \in Tasks : Cancel(t) PROVE VisitDoes
  <2>1. HostIdle /\ \E family, flags : Visit(family, flags)
    BY <1>3 DEF Cancel, CancelRest
  <2> QED
    BY <1>1, <2>1, VisitEffect
<1>4. CASE Restart
  BY <1>1, <1>4, RestartEffect
<1>5. ASSUME NEW t \in Tasks, Submit(t) \/ Delegate(t) PROVE AcceptDoes(t)
  BY <1>1, <1>5, AcceptEffect DEF Submit, Delegate
<1>6. ASSUME NEW t \in Tasks, Settle(t) PROVE SettleDoes(t)
  BY <1>1, <1>6, SettleEffect
<1>7. ASSUME NEW t \in Tasks, Answered(t) PROVE AnsweredDoes(t)
  <2>1. ops[t] # <<>>
    BY <1>1, <1>7 DEF Answered, TurnInv, TurnOf
  <2> QED
    BY <1>1, <1>7, <2>1, AnsweredEffect
<1>8. ASSUME NEW t \in Tasks, CloseTool(t) PROVE CloseDoes(t)
  <2>1. Bound(t) /\ ProcessOf[t] \in Processes
    BY <1>1, <1>8, ConstantsAssumption DEF CloseTool, TurnInv, TurnOf, Bound, ConstantsAssumption
  <2> QED
    BY <1>1, <1>8, <2>1, CloseEffect
<1>9. ASSUME NEW t \in Tasks,
             StartDriver(t) \/ RunEnds(t) \/ WaitForChildren(t) \/ ResumeParent(t)
      PROVE  EntryDoes(t)
  <2>1. active' \in [Tasks -> Entries] /\ \A u \in Tasks \ {t} : active'[u] = active[u]
    <3>1. CASE StartDriver(t)
      <4>1. PICK confirmed \in BOOLEAN :
               \/ active' = [active EXCEPT ![t].phase = "running"]
               \/ active' = [active EXCEPT ![t].phase = "cleanup", ![t].failed = TRUE,
                                           ![t].confirmed = confirmed]
        BY <3>1 DEF StartDriver
      <4>2. CASE active' = [active EXCEPT ![t].phase = "running"]
        <5>1. [active[t] EXCEPT !.phase = "running"] \in Entries
          BY <1>1, EntryEdited DEF Shapes, Phases
        <5> QED
          BY <1>1, <4>2, <5>1 DEF Shapes
      <4>3. CASE active' = [active EXCEPT ![t].phase = "cleanup", ![t].failed = TRUE,
                                          ![t].confirmed = confirmed]
        <5>1. /\ [active[t] EXCEPT !.phase = "cleanup", !.failed = TRUE,
                                   !.confirmed = confirmed] \in Entries
          BY <1>1, EntryEdited DEF Shapes, Phases
        <5> QED
          BY <1>1, <4>3, <5>1 DEF Shapes
      <4> QED
        BY <4>1, <4>2, <4>3
    <3>2. CASE RunEnds(t)
      <4>1. PICK failed \in BOOLEAN :
               active' = [active EXCEPT ![t].phase = "cleanup", ![t].failed = failed]
        BY <3>2 DEF RunEnds
      <4>2. [active[t] EXCEPT !.phase = "cleanup", !.failed = failed] \in Entries
        BY <1>1, EntryEdited DEF Shapes, Phases
      <4> QED
        BY <1>1, <4>1, <4>2 DEF Shapes
    <3>3. CASE WaitForChildren(t)
      <4>1. [active[t] EXCEPT !.phase = "children"] \in Entries
        BY <1>1, EntryEdited DEF Shapes, Phases
      <4> QED
        BY <1>1, <3>3, <4>1 DEF WaitForChildren, Shapes
    <3>4. CASE ResumeParent(t)
      <4>1. [active[t] EXCEPT !.phase = "running"] \in Entries
        BY <1>1, EntryEdited DEF Shapes, Phases
      <4> QED
        BY <1>1, <3>4, <4>1 DEF ResumeParent, Shapes
    <3> QED
      BY <1>9, <3>1, <3>2, <3>3, <3>4
  <2>2. active'[t].phase # "none"
    BY <1>1, <1>9 DEF StartDriver, RunEnds, WaitForChildren, ResumeParent, Shapes, Entries
  <2>3. active[t].phase # "none" /\ call[t] = "idle"
    BY <1>1, <1>9 DEF StartDriver, RunEnds, WaitForChildren, ResumeParent, Shapes, TurnInv, TurnOf
  <2>4. active'[t].aborted = active[t].aborted
    BY <1>1, <1>9 DEF StartDriver, RunEnds, WaitForChildren, ResumeParent, Shapes, Entries
  <2>5. active[t].phase = "children" /\ Bound(t) => active[t].aborted \/ WorkerCount < MaxWorkers
    BY <1>9 DEF StartDriver, RunEnds, WaitForChildren, ResumeParent, ChildrenDone
  <2>6. /\ pumpAt' \in {0, 1} /\ snapshot' = snapshot
        /\ UNCHANGED <<rows, state, turn, ops, openScopes, recovered, call, held, native>>
    BY <1>9 DEF StartDriver, RunEnds, WaitForChildren, ResumeParent, HostIdle, Pump, NoPump,
                journal
  <2> QED
    BY <2>1, <2>2, <2>3, <2>4, <2>5, <2>6 DEF EntryDoes
<1>10. ASSUME NEW t \in Tasks, CallTool(t) \/ RefuseLease(t) PROVE QueueDoes(t)
  BY <1>10 DEF CallTool, RefuseLease, QueueDoes, HostIdle, Pump, journal
<1>11. ASSUME NEW t \in Tasks, TakeLease(t) PROVE LeaseDoes(t)
  BY <1>11 DEF TakeLease, LeaseDoes, HostIdle, NoPump, journal
<1>12. ASSUME NEW t \in Tasks, Dispatch(t) PROVE DispatchDoes(t)
  BY <1>12 DEF Dispatch, DispatchDoes, HostIdle
<1>13. ASSUME NEW t \in Tasks, Ask(t) \/ AnswerQuestion(t) PROVE QuestionDoes(t)
  BY <1>1, <1>13 DEF Ask, AnswerQuestion, QuestionDoes, TurnInv, TurnOf, Shapes, HostIdle, Pump, NoPump
<1>14. ASSUME NEW t \in Tasks, Recover(t) PROVE RecoverDoes(t)
  BY <1>14 DEF Recover, RecoverDoes, Pump
<1>15. ASSUME \/ RefreshTick \/ UNCHANGED vars
              \/ \E t \in Tasks : AwaitLease(t) \/ AwaitChildren(t) \/ NativeEnds(t)
       PROVE  NothingDoes
  BY <1>15 DEF RefreshTick, vars, journal, AwaitLease, AwaitChildren, NativeEnds, NothingDoes,
               HostIdle, Pump, NoPump
<1> QED
  BY <1>2, <1>3, <1>4, <1>5, <1>6, <1>7, <1>8, <1>9, <1>10, <1>11, <1>12, <1>13, <1>14, <1>15
     DEF Next, TaskStep

\* Every step keeps the shapes.
LEMMA ShapesKept ==
    ASSUME ConstantsAssumption, SchedulerInv, [Next]_vars
    PROVE  Shapes'
<1>1. Shapes
  BY DEF SchedulerInv
<1>2. CASE PumpDoes
  BY <1>1, <1>2 DEF PumpDoes, Shapes
<1>3. CASE VisitDoes
  BY <1>1, <1>3 DEF VisitDoes, Shapes
<1>4. CASE RestartDoes
  BY <1>1, <1>4 DEF RestartDoes, Shapes, AfterCrash
<1>5. CASE NothingDoes
  BY <1>1, <1>5 DEF NothingDoes, Shapes
<1>6. ASSUME NEW t \in Tasks, AcceptDoes(t) PROVE Shapes'
  BY <1>1, <1>6 DEF AcceptDoes, Shapes, States
<1>7. ASSUME NEW t \in Tasks, SettleDoes(t) PROVE Shapes'
  BY <1>1, <1>7 DEF SettleDoes, Shapes, UnresolvedTurn
<1>8. ASSUME NEW t \in Tasks, AnsweredDoes(t) PROVE Shapes'
  BY <1>1, <1>8 DEF AnsweredDoes, Shapes, Operations, TurnInv, TurnOf
<1>9. ASSUME NEW t \in Tasks, CloseDoes(t) PROVE Shapes'
  BY <1>1, <1>9 DEF CloseDoes, Shapes
<1>10. ASSUME NEW t \in Tasks, EntryDoes(t) PROVE Shapes'
  BY <1>1, <1>10 DEF EntryDoes, Shapes
<1>11. ASSUME NEW t \in Tasks, QueueDoes(t) PROVE Shapes'
  <2>1. call' \in [Tasks -> {"idle", "waiting", "leased", "native"}]
    <3>1. CASE call' = [call EXCEPT ![t] = "idle"]
      BY <1>1, <3>1 DEF Shapes
    <3>2. CASE call' = [call EXCEPT ![t] = "waiting"]
      BY <1>1, <3>2 DEF Shapes
    <3> QED
      BY <1>11, <3>1, <3>2 DEF QueueDoes
  <2> QED
    BY <1>1, <1>11, <2>1 DEF QueueDoes, Shapes
<1>12. ASSUME NEW t \in Tasks, LeaseDoes(t) PROVE Shapes'
  BY <1>1, <1>12 DEF LeaseDoes, Shapes
<1>13. ASSUME NEW t \in Tasks, DispatchDoes(t) PROVE Shapes'
  BY <1>1, <1>13 DEF DispatchDoes, Shapes, Operations
<1>14. ASSUME NEW t \in Tasks, QuestionDoes(t) PROVE Shapes'
  <2>1. state' \in [Tasks -> States]
    <3>1. CASE state' = [state EXCEPT ![t] = "suspending"]
      BY <1>1, <3>1 DEF Shapes, States
    <3>2. CASE state' = [state EXCEPT ![t] = "queued"]
      BY <1>1, <3>2 DEF Shapes, States
    <3> QED
      BY <1>14, <3>1, <3>2 DEF QuestionDoes
  <2>2. turn' \in [Tasks -> Nat]
    <3>1. CASE turn' = turn
      BY <1>1, <3>1 DEF Shapes
    <3>2. CASE turn' = [turn EXCEPT ![t] = turn[t] + 1]
      BY <1>1, <3>2 DEF Shapes
    <3> QED
      BY <1>14, <3>1, <3>2 DEF QuestionDoes
  <2>3. UNCHANGED <<rows, ops, openScopes, recovered, active, call, held, native, snapshot>>
        /\ pumpAt' \in Nat
    BY <1>14 DEF QuestionDoes
  <2> QED
    BY <1>1, <2>1, <2>2, <2>3 DEF Shapes
<1>15. ASSUME NEW t \in Tasks, RecoverDoes(t) PROVE Shapes'
  BY <1>1, <1>15 DEF RecoverDoes, Shapes, Unrecovered
<1> QED
  BY StepDoes, <1>1, <1>2, <1>3, <1>4, <1>5, <1>6, <1>7, <1>8, <1>9, <1>10, <1>11, <1>12, <1>13, <1>14,
     <1>15

\* Every step keeps the rows distinct, and the pump's snapshot right ahead of it.
LEMMA PumpKept ==
    ASSUME ConstantsAssumption, SchedulerInv, [Next]_vars
    PROVE  PumpInv'
<1>1. Shapes /\ PumpInv
  BY DEF SchedulerInv
<1>2. CASE PumpDoes
  <2>1. rows' = rows /\ pumpAt' \in Nat
    BY <1>2 DEF PumpDoes
  <2>2. CASE pumpAt' = 0 /\ UNCHANGED <<state, active>>
    BY <1>1, <2>1, <2>2 DEF PumpInv
  <2>3. CASE ~(pumpAt' = 0 /\ UNCHANGED <<state, active>>)
    <3>1. PICK i \in DOMAIN rows :
            /\ rows[i] \in Tasks /\ state[rows[i]] = "queued"
            /\ \A u \in Tasks \ {rows[i]} : state'[u] = state[u]
            /\ pumpAt' = i + 1
            /\ \/ snapshot' = state
               \/ snapshot' = snapshot /\ pumpAt > 1 /\ pumpAt <= i
            /\ state'[rows[i]] \in {"failed", "running"}
      BY <1>2, <2>3 DEF PumpDoes
    <3>2. \A u \in Tasks : state'[u] = "absent" => u \notin ToSet(rows)
      BY <1>1, <3>1 DEF PumpInv
    <3>3. ASSUME NEW j \in DOMAIN rows, j >= i + 1 PROVE snapshot'[rows[j]] = state'[rows[j]]
      <4>0. i \in Nat /\ j \in Nat /\ pumpAt \in Nat
        <5>1. rows \in Seq(Tasks) /\ pumpAt \in Nat
          BY <1>1 DEF Shapes
        <5>2. DOMAIN rows = 1..Len(rows)
          BY <5>1
        <5> QED
          BY <5>1, <5>2
      <4>1. j # i /\ j >= i
        BY <4>0, <3>3
      <4>2. rows[j] \in Tasks \ {rows[i]}
        BY <1>1, <4>1 DEF PumpInv, Shapes
      <4>3. CASE snapshot' = state
        BY <3>1, <4>2, <4>3
      <4>4. CASE snapshot' = snapshot /\ pumpAt > 1 /\ pumpAt <= i
        <5>1. j >= pumpAt
          BY <4>0, <4>1, <4>4
        <5> QED
          BY <1>1, <3>1, <4>2, <4>4, <5>1 DEF PumpInv
      <4> QED
        BY <3>1, <4>3, <4>4
    <3> QED
      BY <1>1, <2>1, <3>1, <3>2, <3>3 DEF PumpInv
  <2> QED
    BY <2>2, <2>3
<1>3. CASE VisitDoes
  <2>1. \A u \in Tasks : state'[u] = "absent" => state[u] = "absent"
    BY <1>1, <1>3 DEF VisitDoes
  <2> QED
    BY <1>1, <1>3, <2>1 DEF VisitDoes, PumpInv
<1>4. CASE RestartDoes
  <2>1. \A u \in Tasks : state'[u] = "absent" => state[u] = "absent"
    BY <1>1, <1>4 DEF RestartDoes, AfterCrash
  <2> QED
    BY <1>1, <1>4, <2>1 DEF RestartDoes, PumpInv
<1>5. CASE NothingDoes
  BY <1>1, <1>5 DEF NothingDoes, Shapes, PumpInv, ToSet
<1>6. ASSUME NEW t \in Tasks, AcceptDoes(t) PROVE PumpInv'
  <2>1. \A u \in Tasks : state'[u] = "absent" => u # t /\ state[u] = "absent"
    BY <1>1, <1>6 DEF AcceptDoes, Shapes
  <2>2. \A u \in Tasks : state'[u] = "absent" => u \notin ToSet(rows')
    BY <1>1, <1>6, <2>1 DEF AcceptDoes, PumpInv
  <2> QED
    BY <1>6, <2>2 DEF AcceptDoes, PumpInv
<1>7. ASSUME NEW t \in Tasks, SettleDoes(t) PROVE PumpInv'
  <2>1. \A u \in Tasks : state'[u] = "absent" => state[u] = "absent"
    BY <1>1, <1>7 DEF SettleDoes, Shapes
  <2> QED
    BY <1>1, <1>7, <2>1 DEF SettleDoes, PumpInv
<1>8. ASSUME NEW t \in Tasks, AnsweredDoes(t) PROVE PumpInv'
  BY <1>1, <1>8 DEF AnsweredDoes, Shapes, PumpInv, ToSet, Operations, TurnInv, TurnOf
<1>9. ASSUME NEW t \in Tasks, CloseDoes(t) PROVE PumpInv'
  BY <1>1, <1>9 DEF CloseDoes, Shapes, PumpInv, ToSet
<1>10. ASSUME NEW t \in Tasks, EntryDoes(t) PROVE PumpInv'
  BY <1>1, <1>10 DEF EntryDoes, Shapes, PumpInv, ToSet
<1>11. ASSUME NEW t \in Tasks, QueueDoes(t) PROVE PumpInv'
  BY <1>1, <1>11 DEF QueueDoes, Shapes, PumpInv, ToSet
<1>12. ASSUME NEW t \in Tasks, LeaseDoes(t) PROVE PumpInv'
  BY <1>1, <1>12 DEF LeaseDoes, Shapes, PumpInv, ToSet
<1>13. ASSUME NEW t \in Tasks, DispatchDoes(t) PROVE PumpInv'
  BY <1>1, <1>13 DEF DispatchDoes, Shapes, PumpInv, ToSet, Operations
<1>14. ASSUME NEW t \in Tasks, QuestionDoes(t) PROVE PumpInv'
  <2>1. \A u \in Tasks : state'[u] = "absent" => state[u] = "absent"
    BY <1>1, <1>14 DEF QuestionDoes, Shapes
  <2> QED
    BY <1>1, <1>14, <2>1 DEF QuestionDoes, PumpInv
<1>15. ASSUME NEW t \in Tasks, RecoverDoes(t) PROVE PumpInv'
  BY <1>1, <1>15 DEF RecoverDoes, Shapes, PumpInv, ToSet, Unrecovered
<1> QED
  BY StepDoes, <1>1, <1>2, <1>3, <1>4, <1>5, <1>6, <1>7, <1>8, <1>9, <1>10, <1>11, <1>12, <1>13, <1>14,
     <1>15

\* Every step keeps the host's entries and calls in step with the journal.
LEMMA TurnKept ==
    ASSUME ConstantsAssumption, SchedulerInv, [Next]_vars
    PROVE  TurnInv'
<1>1. Shapes /\ TurnInv
  BY DEF SchedulerInv
<1>2. ASSUME PumpDoes, NEW u \in Tasks PROVE TurnOf(u)'
  <2>1. UNCHANGED <<turn, ops, recovered, call>>
    BY <1>2 DEF PumpDoes
  <2>2. \/ state'[u] = state[u] /\ active'[u] = active[u]
        \/ state[u] = "queued" /\ ~IsActive(u) /\ state'[u] = "failed" /\ active'[u] = active[u]
        \/ state[u] = "queued" /\ ~IsActive(u) /\ state'[u] = "running"
    BY <1>2 DEF PumpDoes
  <2>3. call[u] # "idle" => state[u] = "running"
    BY <1>1 DEF TurnInv, TurnOf
  <2>4. u \in recovered => state[u] = "uncertain"
    BY <1>1 DEF TurnInv, TurnOf
  <2> QED
    BY <1>1, <2>1, <2>2, <2>3, <2>4 DEF TurnInv, TurnOf, IsActive, Bound
<1>3. ASSUME VisitDoes, NEW u \in Tasks PROVE TurnOf(u)'
  <2>1. /\ UNCHANGED <<turn, ops, openScopes, recovered, call, held, native>>
        /\ active'[u].phase = active[u].phase
        /\ state[u] \in {"queued", "awaiting_user"} \/ state'[u] = state[u]
    BY <1>3 DEF VisitDoes
  <2>2. CASE state'[u] = state[u]
    BY <1>1, <2>1, <2>2 DEF TurnInv, TurnOf, IsActive, Bound
  <2>3. CASE state[u] \in {"queued", "awaiting_user"}
    BY <1>1, <2>1, <2>3 DEF TurnInv, TurnOf, IsActive, Bound
  <2> QED
    BY <2>1, <2>2, <2>3
<1>4. ASSUME RestartDoes, NEW u \in Tasks PROVE TurnOf(u)'
  BY <1>1, <1>4 DEF RestartDoes, Shapes, TurnInv, TurnOf, IsActive, Bound, AfterCrash
<1>5. ASSUME NothingDoes, NEW u \in Tasks PROVE TurnOf(u)'
  BY <1>1, <1>5 DEF NothingDoes, Shapes, TurnInv, TurnOf, IsActive, Bound
<1>6. ASSUME NEW t \in Tasks, AcceptDoes(t), NEW u \in Tasks PROVE TurnOf(u)'
  <2>1. CASE u = t
    BY <1>1, <1>6, <2>1 DEF AcceptDoes, Shapes, TurnInv, TurnOf, IsActive, Bound
  <2>2. CASE u # t
    BY <1>1, <1>6, <2>2 DEF AcceptDoes, Shapes, TurnInv, TurnOf, IsActive, Bound
  <2> QED
    BY <2>1, <2>2
<1>7. ASSUME NEW t \in Tasks, SettleDoes(t), NEW u \in Tasks PROVE TurnOf(u)'
  <2>1. CASE u = t
    <3>1. /\ UNCHANGED <<recovered, call>>
          /\ active[t].phase = "cleanup" /\ active'[t].phase = "none"
      BY <1>7 DEF SettleDoes
    <3>2. call[t] = "idle" /\ state[t] \in {"running", "suspending"}
      BY <1>1, <3>1 DEF TurnInv, TurnOf, IsActive
    <3>3. t \notin recovered
      BY <1>1, <3>2 DEF TurnInv, TurnOf
    <3> QED
      BY <2>1, <3>1, <3>2, <3>3 DEF TurnOf, IsActive
  <2>2. CASE u # t
    <3>1. /\ UNCHANGED <<turn, ops, recovered, call>>
          /\ state'[u] = state[u] /\ active'[u] = active[u]
      BY <1>7, <2>2 DEF SettleDoes
    <3> QED
      BY <1>1, <3>1 DEF TurnInv, TurnOf, IsActive, Bound
  <2> QED
    BY <2>1, <2>2
<1>8. ASSUME NEW t \in Tasks, AnsweredDoes(t), NEW u \in Tasks PROVE TurnOf(u)'
  <2>1. CASE u = t
    <3>1. /\ UNCHANGED <<state, turn, active, recovered>>
          /\ call[t] = "native" /\ call'[t] = "leased"
      BY <1>1, <1>8 DEF AnsweredDoes, Shapes
    <3> QED
      BY <1>1, <2>1, <3>1 DEF TurnInv, TurnOf, IsActive, Bound
  <2>2. CASE u # t
    <3>1. /\ UNCHANGED <<state, turn, active, recovered>>
          /\ ops'[u] = ops[u] /\ call'[u] = call[u]
      BY <1>1, <1>8, <2>2 DEF AnsweredDoes, Shapes
    <3> QED
      BY <1>1, <3>1 DEF TurnInv, TurnOf, IsActive, Bound
  <2> QED
    BY <2>1, <2>2
<1>9. ASSUME NEW t \in Tasks, CloseDoes(t), NEW u \in Tasks PROVE TurnOf(u)'
  <2>1. CASE u = t
    BY <1>1, <1>9, <2>1 DEF CloseDoes, Shapes, TurnInv, TurnOf, IsActive, Bound
  <2>2. CASE u # t
    <3>1. /\ UNCHANGED <<state, turn, ops, recovered>>
          /\ active'[u].phase = active[u].phase /\ call'[u] = call[u]
      BY <1>1, <1>9, <2>2 DEF CloseDoes, Shapes
    <3> QED
      BY <1>1, <3>1 DEF TurnInv, TurnOf, IsActive, Bound
  <2> QED
    BY <2>1, <2>2
<1>10. ASSUME NEW t \in Tasks, EntryDoes(t), NEW u \in Tasks PROVE TurnOf(u)'
  BY <1>1, <1>10 DEF EntryDoes, Shapes, TurnInv, TurnOf, IsActive, Bound
<1>11. ASSUME NEW t \in Tasks, QueueDoes(t), NEW u \in Tasks PROVE TurnOf(u)'
  <2>1. CASE u = t
    BY <1>1, <1>11, <2>1 DEF QueueDoes, Shapes, TurnInv, TurnOf, IsActive, Bound
  <2>2. CASE u # t
    BY <1>1, <1>11, <2>2 DEF QueueDoes, Shapes, TurnInv, TurnOf, IsActive, Bound
  <2> QED
    BY <2>1, <2>2
<1>12. ASSUME NEW t \in Tasks, LeaseDoes(t), NEW u \in Tasks PROVE TurnOf(u)'
  <2>1. CASE u = t
    BY <1>1, <1>12, <2>1 DEF LeaseDoes, Shapes, TurnInv, TurnOf, IsActive, Bound
  <2>2. CASE u # t
    BY <1>1, <1>12, <2>2 DEF LeaseDoes, Shapes, TurnInv, TurnOf, IsActive, Bound
  <2> QED
    BY <2>1, <2>2
<1>13. ASSUME NEW t \in Tasks, DispatchDoes(t), NEW u \in Tasks PROVE TurnOf(u)'
  <2>1. CASE u = t
    BY <1>1, <1>13, <2>1
       DEF DispatchDoes, Shapes, TurnInv, TurnOf, IsActive, Bound, Operations
  <2>2. CASE u # t
    BY <1>1, <1>13, <2>2
       DEF DispatchDoes, Shapes, TurnInv, TurnOf, IsActive, Bound, Operations
  <2> QED
    BY <2>1, <2>2
<1>14. ASSUME NEW t \in Tasks, QuestionDoes(t), NEW u \in Tasks PROVE TurnOf(u)'
  <2>1. CASE u = t
    BY <1>1, <1>14, <2>1 DEF QuestionDoes, Shapes, TurnInv, TurnOf, IsActive, Bound
  <2>2. CASE u # t
    BY <1>1, <1>14, <2>2 DEF QuestionDoes, Shapes, TurnInv, TurnOf, IsActive, Bound
  <2> QED
    BY <2>1, <2>2
<1>15. ASSUME NEW t \in Tasks, RecoverDoes(t), NEW u \in Tasks PROVE TurnOf(u)'
  <2>1. CASE u = t
    BY <1>1, <1>15, <2>1
       DEF RecoverDoes, Shapes, TurnInv, TurnOf, IsActive, Bound, Unrecovered
  <2>2. CASE u # t
    BY <1>1, <1>15, <2>2
       DEF RecoverDoes, Shapes, TurnInv, TurnOf, IsActive, Bound, Unrecovered
  <2> QED
    BY <2>1, <2>2
<1> QED
  BY StepDoes, <1>1, <1>2, <1>3, <1>4, <1>5, <1>6, <1>7, <1>8, <1>9, <1>10, <1>11, <1>12, <1>13, <1>14,
     <1>15
     DEF TurnInv

\* An outcome that is not known is pending.
LEMMA PendingOrKnown ==
    ASSUME Shapes, NEW t \in Tasks
    PROVE  \A i \in DOMAIN ops[t] : ops[t][i].state # "known" => Pending(ops[t][i])
<1>1. \A i \in DOMAIN ops[t] : ops[t][i] \in Operations
  BY DEF Shapes
<1> QED
  BY <1>1 DEF Operations, Pending

\* When nothing of the latest turn is unresolved, nothing of the task is.
LEMMA ResolvedTurn ==
    ASSUME Shapes, UnknownInv, NEW t \in Tasks, ~UnresolvedTurn(t)
    PROVE  /\ \A i \in DOMAIN ops[t] : ~Pending(ops[t][i])
           /\ \A s \in openScopes : s[1] # t
           /\ ~Unsettled(t)
<1>1. \A i \in DOMAIN ops[t] : ~Pending(ops[t][i])
  BY DEF UnresolvedTurn, UnknownInv, UnknownOf
<1>2. ASSUME NEW s \in openScopes, s[1] = t PROVE FALSE
  <2>1. s[2] = turn[t]
    BY <1>2 DEF UnknownInv, UnknownOf
  <2>2. s = <<s[1], s[2]>>
    BY DEF Shapes
  <2> QED
    BY <1>2, <2>1, <2>2 DEF UnresolvedTurn
<1> QED
  BY <1>1, <1>2, PendingOrKnown DEF Unsettled

\* Every step keeps unknown outcomes with the latest turn of an unsettled task.
LEMMA UnknownKept ==
    ASSUME ConstantsAssumption, SchedulerInv, [Next]_vars
    PROVE  UnknownInv'
<1>1. Shapes /\ TurnInv /\ UnknownInv
  BY DEF SchedulerInv
<1>2. ASSUME PumpDoes, NEW u \in Tasks PROVE UnknownOf(u)'
  <2>1. /\ UNCHANGED <<turn, ops, openScopes>>
        /\ state[u] = "queued" \/ state'[u] = state[u]
    BY <1>2 DEF PumpDoes
  <2>2. CASE state'[u] = state[u]
    BY <1>1, <2>1, <2>2 DEF UnknownInv, UnknownOf, Pending
  <2>3. CASE state[u] = "queued"
    BY <1>1, <2>1, <2>3 DEF UnknownInv, UnknownOf, Pending
  <2> QED
    BY <2>1, <2>2, <2>3
<1>3. ASSUME VisitDoes, NEW u \in Tasks PROVE UnknownOf(u)'
  <2>1. /\ UNCHANGED <<turn, ops, openScopes, recovered, call, held, native>>
        /\ active'[u].phase = active[u].phase
        /\ state[u] \in {"queued", "awaiting_user"} \/ state'[u] = state[u]
    BY <1>3 DEF VisitDoes
  <2>2. CASE state'[u] = state[u]
    BY <1>1, <2>1, <2>2 DEF UnknownInv, UnknownOf, Pending
  <2>3. CASE state[u] \in {"queued", "awaiting_user"}
    BY <1>1, <2>1, <2>3 DEF UnknownInv, UnknownOf, Pending
  <2> QED
    BY <2>1, <2>2, <2>3
<1>4. ASSUME RestartDoes, NEW u \in Tasks PROVE UnknownOf(u)'
  BY <1>1, <1>4
     DEF RestartDoes, Shapes, TurnInv, TurnOf, UnknownInv, UnknownOf, Pending, IsActive,
         AfterCrash
<1>5. ASSUME NothingDoes, NEW u \in Tasks PROVE UnknownOf(u)'
  BY <1>1, <1>5
     DEF NothingDoes, Shapes, TurnInv, TurnOf, UnknownInv, UnknownOf, Pending, IsActive
<1>6. ASSUME NEW t \in Tasks, AcceptDoes(t), NEW u \in Tasks PROVE UnknownOf(u)'
  <2>1. CASE u = t
    BY <1>1, <1>6, <2>1
       DEF AcceptDoes, Shapes, TurnInv, TurnOf, UnknownInv, UnknownOf, Pending, IsActive
  <2>2. CASE u # t
    BY <1>1, <1>6, <2>2
       DEF AcceptDoes, Shapes, TurnInv, TurnOf, UnknownInv, UnknownOf, Pending, IsActive
  <2> QED
    BY <2>1, <2>2
<1>7. ASSUME NEW t \in Tasks, SettleDoes(t), NEW u \in Tasks PROVE UnknownOf(u)'
  <2>1. CASE u = t
    <3>1. UNCHANGED <<turn, ops, openScopes>>
      BY <1>7 DEF SettleDoes
    <3>2. state'[t] = "uncertain" \/ ~UnresolvedTurn(t)
      BY <1>7 DEF SettleDoes
    <3>3. CASE state'[t] = "uncertain"
      BY <1>1, <2>1, <3>1, <3>3 DEF UnknownInv, UnknownOf
    <3>4. CASE ~UnresolvedTurn(t)
      BY <1>1, <2>1, <3>1, <3>4, ResolvedTurn DEF UnknownOf
    <3> QED
      BY <3>2, <3>3, <3>4
  <2>2. CASE u # t
    BY <1>1, <1>7, <2>2 DEF SettleDoes, UnknownInv, UnknownOf
  <2> QED
    BY <2>1, <2>2
<1>8. ASSUME NEW t \in Tasks, AnsweredDoes(t), NEW u \in Tasks PROVE UnknownOf(u)'
  <2>1. UNCHANGED <<turn, state, openScopes>>
    BY <1>8 DEF AnsweredDoes
  <2>2. CASE u = t
    <3> DEFINE n == Len(ops[t])
    <3>1. state[t] = "running" /\ ops[t][n].turn = turn[t]
      <4>1. call[t] = "native"
        BY <1>8 DEF AnsweredDoes
      <4>2. ops[t][n] = [turn |-> turn[t], state |-> "dispatched"] /\ state[t] = "running"
        BY <1>1, <4>1 DEF TurnInv, TurnOf
      <4> QED
        BY <4>2
    <3>2. ASSUME NEW i \in DOMAIN ops'[t], Pending(ops'[t][i])
          PROVE  ops'[t][i].turn = turn'[t]
      <4>1. CASE i = n
        BY <1>8, <2>1, <3>1, <4>1 DEF AnsweredDoes
      <4>2. CASE i # n
        BY <1>1, <1>8, <2>1, <3>2, <4>2 DEF AnsweredDoes, UnknownInv, UnknownOf
      <4> QED
        BY <4>1, <4>2
    <3> QED
      BY <1>1, <2>1, <2>2, <3>1, <3>2 DEF UnknownInv, UnknownOf
  <2>3. CASE u # t
    <3>1. ops'[u] = ops[u]
      BY <1>8, <2>3 DEF AnsweredDoes
    <3> QED
      BY <1>1, <2>1, <3>1 DEF UnknownInv, UnknownOf
  <2> QED
    BY <2>2, <2>3
<1>9. ASSUME NEW t \in Tasks, CloseDoes(t), NEW u \in Tasks PROVE UnknownOf(u)'
  <2>1. UNCHANGED <<turn, state, ops>> /\ openScopes' \subseteq openScopes \cup {<<t, turn[t]>>}
    BY <1>9 DEF CloseDoes
  <2>2. state[t] = "running"
    BY <1>1, <1>9 DEF CloseDoes, TurnInv, TurnOf
  <2>3. ASSUME NEW s \in openScopes', s[1] = u
        PROVE  s[2] = turn[u] /\ state[u] \in {"running", "suspending", "uncertain"}
    <3>1. CASE s \in openScopes
      BY <1>1, <2>3, <3>1 DEF UnknownInv, UnknownOf
    <3>2. CASE s = <<t, turn[t]>>
      BY <2>2, <2>3, <3>2
    <3> QED
      BY <2>1, <3>1, <3>2
  <2> QED
    BY <1>1, <2>1, <2>3 DEF UnknownInv, UnknownOf
<1>10. ASSUME NEW t \in Tasks, EntryDoes(t), NEW u \in Tasks PROVE UnknownOf(u)'
  BY <1>1, <1>10
     DEF EntryDoes, Shapes, TurnInv, TurnOf, UnknownInv, UnknownOf, Pending, IsActive
<1>11. ASSUME NEW t \in Tasks, QueueDoes(t), NEW u \in Tasks PROVE UnknownOf(u)'
  <2>1. CASE u = t
    BY <1>1, <1>11, <2>1
       DEF QueueDoes, Shapes, TurnInv, TurnOf, UnknownInv, UnknownOf, Pending, IsActive
  <2>2. CASE u # t
    BY <1>1, <1>11, <2>2
       DEF QueueDoes, Shapes, TurnInv, TurnOf, UnknownInv, UnknownOf, Pending, IsActive
  <2> QED
    BY <2>1, <2>2
<1>12. ASSUME NEW t \in Tasks, LeaseDoes(t), NEW u \in Tasks PROVE UnknownOf(u)'
  <2>1. CASE u = t
    BY <1>1, <1>12, <2>1
       DEF LeaseDoes, Shapes, TurnInv, TurnOf, UnknownInv, UnknownOf, Pending, IsActive
  <2>2. CASE u # t
    BY <1>1, <1>12, <2>2
       DEF LeaseDoes, Shapes, TurnInv, TurnOf, UnknownInv, UnknownOf, Pending, IsActive
  <2> QED
    BY <2>1, <2>2
<1>13. ASSUME NEW t \in Tasks, DispatchDoes(t), NEW u \in Tasks PROVE UnknownOf(u)'
  <2>1. UNCHANGED <<turn, state, openScopes>>
    BY <1>13 DEF DispatchDoes
  <2>2. CASE u = t
    <3> DEFINE o == [turn |-> turn[t], state |-> "dispatched"]
               n == Len(ops[t])
    <3>1. state[t] = "running"
      BY <1>1, <1>13 DEF DispatchDoes, TurnInv, TurnOf
    <3>2. ops[t] \in Seq(Operations) /\ ops'[t] = Append(ops[t], o)
      BY <1>1, <1>13 DEF DispatchDoes, Shapes
    <3>3. /\ n \in Nat /\ DOMAIN ops[t] = 1..n /\ DOMAIN ops'[t] = 1..(n + 1)
          /\ \A i \in 1..(n + 1) : ops'[t][i] = IF i = n + 1 THEN o ELSE ops[t][i]
      BY <3>2
    <3>4. ASSUME NEW i \in DOMAIN ops'[t], Pending(ops'[t][i])
          PROVE  ops'[t][i].turn = turn'[t]
      <4>1. CASE i = n + 1
        BY <2>1, <3>3, <4>1
      <4>2. CASE i # n + 1
        <5>1. i \in DOMAIN ops[t] /\ ops'[t][i] = ops[t][i]
          BY <3>3, <4>2
        <5> QED
          BY <1>1, <2>1, <3>4, <5>1 DEF UnknownInv, UnknownOf
      <4> QED
        BY <4>1, <4>2
    <3> QED
      BY <1>1, <2>1, <2>2, <3>1, <3>4 DEF UnknownInv, UnknownOf
  <2>3. CASE u # t
    BY <1>1, <1>13, <2>1, <2>3 DEF DispatchDoes, UnknownInv, UnknownOf, Shapes
  <2> QED
    BY <2>2, <2>3
<1>14. ASSUME NEW t \in Tasks, QuestionDoes(t), NEW u \in Tasks PROVE UnknownOf(u)'
  <2>1. UNCHANGED <<ops, openScopes>>
    BY <1>14 DEF QuestionDoes
  <2>2. CASE u = t
    <3>1. CASE state[t] = "running"
      BY <1>1, <1>14, <2>1, <2>2, <3>1 DEF QuestionDoes, UnknownInv, UnknownOf, Shapes
    <3>2. CASE state[t] = "awaiting_user"
      BY <1>1, <2>1, <2>2, <3>2 DEF UnknownInv, UnknownOf
    <3> QED
      BY <1>14, <3>1, <3>2 DEF QuestionDoes
  <2>3. CASE u # t
    <3>1. state'[u] = state[u] /\ turn'[u] = turn[u]
      BY <1>1, <1>14, <2>3 DEF QuestionDoes, Shapes
    <3> QED
      BY <1>1, <2>1, <3>1 DEF UnknownInv, UnknownOf
  <2> QED
    BY <2>2, <2>3
<1>15. ASSUME NEW t \in Tasks, RecoverDoes(t), NEW u \in Tasks PROVE UnknownOf(u)'
  <2>1. CASE u = t
    BY <1>1, <1>15, <2>1
       DEF RecoverDoes, Shapes, TurnInv, TurnOf, UnknownInv, UnknownOf, Pending,
           IsActive, Unrecovered
  <2>2. CASE u # t
    BY <1>1, <1>15, <2>2
       DEF RecoverDoes, Shapes, TurnInv, TurnOf, UnknownInv, UnknownOf, Pending,
           IsActive, Unrecovered
  <2> QED
    BY <2>1, <2>2
<1> QED
  BY StepDoes, <1>1, <1>2, <1>3, <1>4, <1>5, <1>6, <1>7, <1>8, <1>9, <1>10, <1>11, <1>12, <1>13, <1>14,
     <1>15
     DEF UnknownInv

\* What is unsettled belongs to a task whose turn ran and did not end well.
LEMMA UnsettledStates ==
    ASSUME Shapes, UnknownInv, NEW t \in Tasks, Unsettled(t)
    PROVE  state[t] \in {"running", "suspending", "uncertain"}
<1>1. CASE \E i \in DOMAIN ops[t] : ops[t][i].state # "known"
  BY <1>1, PendingOrKnown DEF UnknownInv, UnknownOf
<1>2. CASE \E s \in openScopes : s[1] = t
  BY <1>2 DEF UnknownInv, UnknownOf
<1> QED
  BY <1>1, <1>2 DEF Unsettled

\* Every step keeps the lease with the task whose outcome is unknown.
LEMMA LeaseKept ==
    ASSUME ConstantsAssumption, SchedulerInv, [Next]_vars
    PROVE  LeaseInv'
<1>1. Shapes /\ TurnInv /\ UnknownInv /\ LeaseInv
  BY DEF SchedulerInv
<1>2. ASSUME PumpDoes, NEW u \in Tasks PROVE LeaseOf(u)'
  <2>1. /\ UNCHANGED <<turn, ops, openScopes, call, held>>
        /\ state[u] = "queued" \/ state'[u] = state[u]
    BY <1>2 DEF PumpDoes
  <2>2. CASE state'[u] = state[u]
    BY <1>1, <2>1, <2>2 DEF LeaseInv, LeaseOf, Unsettled
  <2>3. CASE state[u] = "queued"
    <3>1. ~Unsettled(u)
      BY <1>1, <2>3, UnsettledStates
    <3> QED
      BY <1>1, <2>1, <3>1 DEF LeaseInv, LeaseOf, Unsettled
  <2> QED
    BY <2>1, <2>2, <2>3
<1>3. ASSUME VisitDoes, NEW u \in Tasks PROVE LeaseOf(u)'
  <2>1. /\ UNCHANGED <<turn, ops, openScopes, recovered, call, held, native>>
        /\ active'[u].phase = active[u].phase
        /\ state[u] \in {"queued", "awaiting_user"} \/ state'[u] = state[u]
    BY <1>3 DEF VisitDoes
  <2>2. CASE state'[u] = state[u]
    BY <1>1, <2>1, <2>2 DEF LeaseInv, LeaseOf, Unsettled
  <2>3. CASE state[u] \in {"queued", "awaiting_user"}
    BY <1>1, <2>1, <2>3 DEF LeaseInv, LeaseOf, UnknownInv, UnknownOf, Shapes, Operations,
           Unsettled, Pending
  <2> QED
    BY <2>1, <2>2, <2>3
<1>4. ASSUME RestartDoes, NEW u \in Tasks PROVE LeaseOf(u)'
  <2>1. UNCHANGED <<ops, openScopes>> /\ call'[u] = "idle" /\ state'[u] = AfterCrash(state[u])
    BY <1>4 DEF RestartDoes
  <2>2. ASSUME Unsettled(u) PROVE state'[u] = "uncertain"
    BY <1>1, <2>1, <2>2, UnsettledStates DEF AfterCrash
  <2> QED
    BY <1>1, <2>1, <2>2 DEF LeaseInv, LeaseOf, Unsettled
<1>5. ASSUME NothingDoes, NEW u \in Tasks PROVE LeaseOf(u)'
  BY <1>1, <1>5
     DEF NothingDoes, Shapes, TurnInv, TurnOf, UnknownInv, UnknownOf, LeaseInv, LeaseOf,
         Unsettled, Pending, Bound, Operations
<1>6. ASSUME NEW t \in Tasks, AcceptDoes(t), NEW u \in Tasks PROVE LeaseOf(u)'
  <2>1. CASE u = t
    BY <1>1, <1>6, <2>1
       DEF AcceptDoes, Shapes, TurnInv, TurnOf, UnknownInv, UnknownOf, LeaseInv,
           LeaseOf, Unsettled, Pending, Bound, Operations
  <2>2. CASE u # t
    BY <1>1, <1>6, <2>2
       DEF AcceptDoes, Shapes, TurnInv, TurnOf, UnknownInv, UnknownOf, LeaseInv,
           LeaseOf, Unsettled, Pending, Bound, Operations
  <2> QED
    BY <2>1, <2>2
<1>7. ASSUME NEW t \in Tasks, SettleDoes(t), NEW u \in Tasks PROVE LeaseOf(u)'
  <2>1. UNCHANGED <<ops, openScopes, call, held>>
    BY <1>7 DEF SettleDoes
  <2>2. Unsettled(u)' <=> Unsettled(u)
    BY <2>1 DEF Unsettled
  <2>3. CASE u = t
    <3>1. call[t] = "idle"
      BY <1>1, <1>7 DEF SettleDoes, TurnInv, TurnOf, Shapes
    <3>2. state'[t] = "uncertain" \/ ~UnresolvedTurn(t)
      BY <1>7 DEF SettleDoes
    <3>3. ~UnresolvedTurn(t) => ~Unsettled(t)
      BY <1>1, ResolvedTurn
    <3> QED
      BY <1>1, <2>1, <2>2, <2>3, <3>1, <3>2, <3>3 DEF LeaseInv, LeaseOf
  <2>4. CASE u # t
    BY <1>1, <1>7, <2>1, <2>2, <2>4 DEF SettleDoes, LeaseInv, LeaseOf
  <2> QED
    BY <2>3, <2>4
<1>8. ASSUME NEW t \in Tasks, AnsweredDoes(t), NEW u \in Tasks PROVE LeaseOf(u)'
  <2>1. CASE u = t
    BY <1>1, <1>8, <2>1
       DEF AnsweredDoes, Shapes, TurnInv, TurnOf, UnknownInv, UnknownOf, LeaseInv,
           LeaseOf, Unsettled, Pending, Bound, Operations
  <2>2. CASE u # t
    <3>1. /\ UNCHANGED <<state, turn, openScopes, held>>
          /\ ops'[u] = ops[u] /\ call'[u] = call[u]
      BY <1>1, <1>8, <2>2 DEF AnsweredDoes, Shapes
    <3> QED
      BY <1>1, <3>1 DEF LeaseInv, LeaseOf, Unsettled
  <2> QED
    BY <2>1, <2>2
<1>9. ASSUME NEW t \in Tasks, CloseDoes(t), NEW u \in Tasks PROVE LeaseOf(u)'
  <2>1. /\ openScopes \subseteq openScopes' /\ openScopes' \subseteq openScopes \cup {<<t, turn[t]>>}
        /\ call' = [call EXCEPT ![t] = "idle"] /\ UNCHANGED <<state, turn, ops>>
        /\ \A q \in Processes \ {ProcessOf[t]} : held'[q] = held[q]
        /\ \/ held'[ProcessOf[t]] = held[ProcessOf[t]]
           \/ held[ProcessOf[t]] = t /\ ~UnknownOutcome(t, openScopes')
    BY <1>9 DEF CloseDoes
  <2>2. call[t] = "leased" /\ Bound(t) /\ held[ProcessOf[t]] = t
    BY <1>1, <1>9 DEF CloseDoes, TurnInv, TurnOf, LeaseInv, LeaseOf
  <2>3. CASE u = t
    <3>1. call'[t] = "idle"
      BY <1>1, <2>1 DEF Shapes
    <3>2. Unsettled(t)' => UnknownOutcome(t, openScopes')
      <4>1. \A i \in DOMAIN ops[t] : ops[t][i].state # "known" => Pending(ops[t][i])
        BY <1>1, PendingOrKnown
      <4> QED
        BY <2>1, <4>1 DEF Unsettled, UnknownOutcome
    <3> QED
      BY <2>1, <2>2, <2>3, <3>1, <3>2 DEF LeaseOf, Bound
  <2>4. CASE u # t
    <3>1. call'[u] = call[u] /\ (Unsettled(u)' => Unsettled(u))
      BY <1>1, <2>1, <2>4 DEF Shapes, Unsettled
    <3>2. call[u] \in {"leased", "native"} \/ Unsettled(u) => Bound(u)
      BY <1>1 DEF LeaseInv, LeaseOf, TurnInv, TurnOf
    <3>3. Bound(u) => ProcessOf[u] \in Processes
      BY ConstantsAssumption DEF Bound, ConstantsAssumption
    <3>4. Bound(u) /\ held[ProcessOf[u]] = u => held'[ProcessOf[u]] = u
      <4>1. CASE ProcessOf[u] = ProcessOf[t]
        BY <2>2, <2>4, <4>1
      <4>2. CASE ProcessOf[u] # ProcessOf[t]
        BY <2>1, <3>3, <4>2
      <4> QED
        BY <4>1, <4>2
    <3> QED
      BY <1>1, <2>1, <3>1, <3>2, <3>4 DEF LeaseInv, LeaseOf, Bound
  <2> QED
    BY <2>3, <2>4
<1>10. ASSUME NEW t \in Tasks, EntryDoes(t), NEW u \in Tasks PROVE LeaseOf(u)'
  BY <1>1, <1>10
     DEF EntryDoes, Shapes, TurnInv, TurnOf, UnknownInv, UnknownOf, LeaseInv, LeaseOf,
         Unsettled, Pending, Bound, Operations
<1>11. ASSUME NEW t \in Tasks, QueueDoes(t), NEW u \in Tasks PROVE LeaseOf(u)'
  <2>1. CASE u = t
    BY <1>1, <1>11, <2>1
       DEF QueueDoes, Shapes, TurnInv, TurnOf, UnknownInv, UnknownOf, LeaseInv, LeaseOf,
           Unsettled, Pending, Bound, Operations
  <2>2. CASE u # t
    BY <1>1, <1>11, <2>2
       DEF QueueDoes, Shapes, TurnInv, TurnOf, UnknownInv, UnknownOf, LeaseInv, LeaseOf,
           Unsettled, Pending, Bound, Operations
  <2> QED
    BY <2>1, <2>2
<1>12. ASSUME NEW t \in Tasks, LeaseDoes(t), NEW u \in Tasks PROVE LeaseOf(u)'
  <2>1. /\ call[t] = "waiting" /\ held[ProcessOf[t]] = NoTask
        /\ call' = [call EXCEPT ![t] = "leased"] /\ held' = [held EXCEPT ![ProcessOf[t]] = t]
        /\ UNCHANGED <<state, ops, openScopes>>
    BY <1>12 DEF LeaseDoes
  <2>2. Unsettled(u)' <=> Unsettled(u)
    BY <2>1 DEF Unsettled
  <2>3. NoTask \notin Tasks /\ ProcessOf[t] \in Processes
    BY <1>1, <2>1, ConstantsAssumption DEF ConstantsAssumption, TurnInv, TurnOf, Bound
  <2>4. held'[ProcessOf[t]] = t
    BY <1>1, <2>1, <2>3 DEF Shapes
  <2>5. u # t => call'[u] = call[u]
    BY <1>1, <2>1 DEF Shapes
  <2>6. held[ProcessOf[u]] = u => ProcessOf[u] # ProcessOf[t]
    BY <2>1, <2>3
  <2>7. ProcessOf[u] # ProcessOf[t] => held'[ProcessOf[u]] = held[ProcessOf[u]]
    BY <1>1, <2>1 DEF Shapes
  <2> QED
    BY <1>1, <2>1, <2>2, <2>4, <2>5, <2>6, <2>7 DEF LeaseInv, LeaseOf, Bound
<1>13. ASSUME NEW t \in Tasks, DispatchDoes(t), NEW u \in Tasks PROVE LeaseOf(u)'
  <2>1. CASE u = t
    BY <1>1, <1>13, <2>1
       DEF DispatchDoes, Shapes, TurnInv, TurnOf, UnknownInv, UnknownOf, LeaseInv,
           LeaseOf, Unsettled, Pending, Bound, Operations
  <2>2. CASE u # t
    BY <1>1, <1>13, <2>2
       DEF DispatchDoes, Shapes, TurnInv, TurnOf, UnknownInv, UnknownOf, LeaseInv,
           LeaseOf, Unsettled, Pending, Bound, Operations
  <2> QED
    BY <2>1, <2>2
<1>14. ASSUME NEW t \in Tasks, QuestionDoes(t), NEW u \in Tasks PROVE LeaseOf(u)'
  <2>1. CASE u = t
    BY <1>1, <1>14, <2>1
       DEF QuestionDoes, Shapes, TurnInv, TurnOf, UnknownInv, UnknownOf, LeaseInv,
           LeaseOf, Unsettled, Pending, Bound, Operations
  <2>2. CASE u # t
    BY <1>1, <1>14, <2>2
       DEF QuestionDoes, Shapes, TurnInv, TurnOf, UnknownInv, UnknownOf, LeaseInv,
           LeaseOf, Unsettled, Pending, Bound, Operations
  <2> QED
    BY <2>1, <2>2
<1>15. ASSUME NEW t \in Tasks, RecoverDoes(t), NEW u \in Tasks PROVE LeaseOf(u)'
  <2>1. /\ state[t] = "uncertain" /\ UNCHANGED <<state, ops, openScopes, call>>
        /\ held' = [q \in Processes |-> IF held[q] = t THEN NoTask ELSE held[q]]
    BY <1>15 DEF RecoverDoes, Unrecovered
  <2>2. Unsettled(u)' <=> Unsettled(u)
    BY <2>1 DEF Unsettled
  <2>3. CASE u = t
    BY <1>1, <2>1, <2>2, <2>3 DEF LeaseInv, LeaseOf, TurnInv, TurnOf
  <2>4. CASE u # t
    <3>1. Bound(u) => ProcessOf[u] \in Processes
      BY ConstantsAssumption DEF Bound, ConstantsAssumption
    <3>2. call[u] \in {"leased", "native"} \/ Unsettled(u) => Bound(u)
      BY <1>1 DEF LeaseInv, LeaseOf, TurnInv, TurnOf
    <3>3. Bound(u) /\ held[ProcessOf[u]] = u => held'[ProcessOf[u]] = u
      BY <2>1, <2>4, <3>1
    <3> QED
      BY <1>1, <2>1, <2>2, <3>2, <3>3 DEF LeaseInv, LeaseOf, Bound
  <2> QED
    BY <2>3, <2>4
<1> QED
  BY StepDoes, <1>1, <1>2, <1>3, <1>4, <1>5, <1>6, <1>7, <1>8, <1>9, <1>10, <1>11, <1>12, <1>13, <1>14,
     <1>15
     DEF LeaseInv

\* Every step keeps Rhino's work unknown to the journal, and away from other leases.
LEMMA NativeKept ==
    ASSUME ConstantsAssumption, SchedulerInv, [Next]_vars
    PROVE  NativeInv'
<1>1. Shapes /\ TurnInv /\ NativeInv /\ LeaseInv /\ UnknownInv
  BY DEF SchedulerInv
<1>2. ASSUME PumpDoes, NEW u \in native' PROVE NativeOf(u)'
  BY <1>1, <1>2 DEF PumpDoes, Shapes, NativeInv, NativeOf
<1>3. ASSUME VisitDoes, NEW u \in native' PROVE NativeOf(u)'
  BY <1>1, <1>3 DEF VisitDoes, Shapes, NativeInv, NativeOf
<1>4. ASSUME RestartDoes, NEW u \in native' PROVE NativeOf(u)'
  BY <1>1, <1>4 DEF RestartDoes, Shapes, NativeInv, NativeOf, AfterCrash
<1>5. ASSUME NothingDoes, NEW u \in native' PROVE NativeOf(u)'
  BY <1>1, <1>5 DEF NothingDoes, Shapes, NativeInv, NativeOf
<1>6. ASSUME NEW t \in Tasks, AcceptDoes(t), NEW u \in native' PROVE NativeOf(u)'
  <2>1. CASE u = t
    BY <1>1, <1>6, <2>1 DEF AcceptDoes, Shapes, NativeInv, NativeOf
  <2>2. CASE u # t
    BY <1>1, <1>6, <2>2 DEF AcceptDoes, Shapes, NativeInv, NativeOf
  <2> QED
    BY <2>1, <2>2
<1>7. ASSUME NEW t \in Tasks, SettleDoes(t), NEW u \in native' PROVE NativeOf(u)'
  <2>1. CASE u = t
    BY <1>1, <1>7, <2>1 DEF SettleDoes, Shapes, NativeInv, NativeOf, UnresolvedTurn
  <2>2. CASE u # t
    BY <1>1, <1>7, <2>2 DEF SettleDoes, Shapes, NativeInv, NativeOf, UnresolvedTurn
  <2> QED
    BY <2>1, <2>2
<1>8. ASSUME NEW t \in Tasks, AnsweredDoes(t), NEW u \in native' PROVE NativeOf(u)'
  <2>1. u \in native /\ recovered' = recovered /\ call[t] = "native"
        /\ call' = [call EXCEPT ![t] = "leased"]
    BY <1>8 DEF AnsweredDoes
  <2>2. \A w \in Tasks : call'[w] \in {"leased", "native"} => call[w] \in {"leased", "native"}
    BY <1>1, <2>1 DEF Shapes
  <2>3. \E i \in DOMAIN ops'[u] : Pending(ops'[u][i])
    <3>1. CASE u = t
      BY <1>8, <2>1, <3>1 DEF AnsweredDoes, Pending
    <3>2. CASE u # t
      BY <1>1, <1>8, <2>1, <3>2 DEF AnsweredDoes, NativeInv, NativeOf, Shapes
    <3> QED
      BY <3>1, <3>2
  <2> QED
    BY <1>1, <2>1, <2>2, <2>3 DEF NativeInv, NativeOf
<1>9. ASSUME NEW t \in Tasks, CloseDoes(t), NEW u \in native' PROVE NativeOf(u)'
  <2>1. CASE u = t
    BY <1>1, <1>9, <2>1 DEF CloseDoes, Shapes, NativeInv, NativeOf
  <2>2. CASE u # t
    BY <1>1, <1>9, <2>2 DEF CloseDoes, Shapes, NativeInv, NativeOf
  <2> QED
    BY <2>1, <2>2
<1>10. ASSUME NEW t \in Tasks, EntryDoes(t), NEW u \in native' PROVE NativeOf(u)'
  BY <1>1, <1>10 DEF EntryDoes, Shapes, NativeInv, NativeOf
<1>11. ASSUME NEW t \in Tasks, QueueDoes(t), NEW u \in native' PROVE NativeOf(u)'
  <2>1. CASE u = t
    BY <1>1, <1>11, <2>1 DEF QueueDoes, Shapes, NativeInv, NativeOf
  <2>2. CASE u # t
    BY <1>1, <1>11, <2>2 DEF QueueDoes, Shapes, NativeInv, NativeOf
  <2> QED
    BY <2>1, <2>2
<1>12. ASSUME NEW t \in Tasks, LeaseDoes(t), NEW u \in native' PROVE NativeOf(u)'
  <2>1. /\ u \in native /\ UNCHANGED <<recovered, ops>> /\ call[t] = "waiting"
        /\ call' = [call EXCEPT ![t] = "leased"]
        /\ ~UnresolvedProcess(ProcessOf[t]) /\ held[ProcessOf[t]] = NoTask
    BY <1>12 DEF LeaseDoes
  <2>2. u \in Tasks /\ (\E i \in DOMAIN ops[u] : Pending(ops[u][i])) /\ u \notin recovered
    BY <1>1, <2>1 DEF NativeInv, NativeOf, Shapes
  <2>3. Unsettled(u)
    BY <2>2 DEF Unsettled, Pending
  <2>4. ProcessOf[u] # ProcessOf[t]
    <3>1. NoTask \notin Tasks
      BY ConstantsAssumption DEF ConstantsAssumption
    <3>2. state[u] = "uncertain" \/ held[ProcessOf[u]] = u
      BY <1>1, <2>2, <2>3 DEF LeaseInv, LeaseOf
    <3> QED
      BY <2>1, <2>2, <3>1, <3>2 DEF UnresolvedProcess, Unrecovered
  <2>5. \A w \in Tasks : w # t => call'[w] = call[w]
    BY <1>1, <2>1 DEF Shapes
  <2> QED
    BY <1>1, <2>1, <2>4, <2>5 DEF NativeInv, NativeOf
<1>13. ASSUME NEW t \in Tasks, DispatchDoes(t), NEW u \in native' PROVE NativeOf(u)'
  <2>1. /\ native' = native \cup {t} /\ recovered' = recovered /\ call[t] = "leased"
        /\ call' = [call EXCEPT ![t] = "native"]
    BY <1>13 DEF DispatchDoes
  <2>2. \A w \in Tasks : call'[w] \in {"leased", "native"} => call[w] \in {"leased", "native"}
    BY <1>1, <2>1 DEF Shapes
  <2>3. CASE u = t
    <3> DEFINE o == [turn |-> turn[t], state |-> "dispatched"]
    <3>1. ops[t] \in Seq(Operations) /\ ops'[t] = Append(ops[t], o)
      BY <1>1, <1>13 DEF DispatchDoes, Shapes
    <3>2. Len(ops[t]) + 1 \in DOMAIN ops'[t] /\ ops'[t][Len(ops[t]) + 1] = o
      BY <3>1
    <3>3. \E i \in DOMAIN ops'[t] : Pending(ops'[t][i])
      BY <3>2 DEF Pending
    <3>4. t \notin recovered /\ held[ProcessOf[t]] = t
      BY <1>1, <2>1 DEF TurnInv, TurnOf, LeaseInv, LeaseOf
    <3>5. \A w \in Tasks : call[w] \in {"leased", "native"} /\ ProcessOf[w] = ProcessOf[t] => w = t
      BY <1>1, <3>4 DEF LeaseInv, LeaseOf
    <3> QED
      BY <2>1, <2>2, <2>3, <3>3, <3>4, <3>5 DEF NativeOf
  <2>4. CASE u # t
    <3>1. u \in native /\ ops'[u] = ops[u]
      BY <1>1, <1>13, <2>1, <2>4 DEF DispatchDoes, Shapes
    <3> QED
      BY <1>1, <2>1, <2>2, <3>1 DEF NativeInv, NativeOf
  <2> QED
    BY <2>3, <2>4
<1>14. ASSUME NEW t \in Tasks, QuestionDoes(t), NEW u \in native' PROVE NativeOf(u)'
  <2>1. CASE u = t
    BY <1>1, <1>14, <2>1 DEF QuestionDoes, Shapes, NativeInv, NativeOf
  <2>2. CASE u # t
    BY <1>1, <1>14, <2>2 DEF QuestionDoes, Shapes, NativeInv, NativeOf
  <2> QED
    BY <2>1, <2>2
<1>15. ASSUME NEW t \in Tasks, RecoverDoes(t), NEW u \in native' PROVE NativeOf(u)'
  <2>1. CASE u = t
    BY <1>1, <1>15, <2>1 DEF RecoverDoes, Shapes, NativeInv, NativeOf, Unrecovered
  <2>2. CASE u # t
    BY <1>1, <1>15, <2>2 DEF RecoverDoes, Shapes, NativeInv, NativeOf, Unrecovered
  <2> QED
    BY <2>1, <2>2
<1> QED
  BY StepDoes, <1>1, <1>2, <1>3, <1>4, <1>5, <1>6, <1>7, <1>8, <1>9, <1>10, <1>11, <1>12, <1>13, <1>14,
     <1>15
     DEF NativeInv

\* Every step keeps operations alone in their process.
LEMMA ExclusiveKept ==
    ASSUME ConstantsAssumption, SchedulerInv, [Next]_vars
    PROVE  NativeExclusive'
<1>1. Shapes /\ LeaseInv /\ NativeInv /\ NativeExclusive
  BY DEF SchedulerInv
<1>2. CASE PumpDoes
  BY <1>1, <1>2 DEF PumpDoes, Shapes, NativeExclusive
<1>3. CASE VisitDoes
  BY <1>1, <1>3 DEF VisitDoes, Shapes, NativeExclusive
<1>4. CASE RestartDoes
  BY <1>1, <1>4 DEF RestartDoes, Shapes, NativeExclusive, AfterCrash
<1>5. CASE NothingDoes
  BY <1>1, <1>5 DEF NothingDoes, Shapes, NativeExclusive
<1>6. ASSUME NEW t \in Tasks, AcceptDoes(t) PROVE NativeExclusive'
  BY <1>1, <1>6 DEF AcceptDoes, Shapes, NativeExclusive
<1>7. ASSUME NEW t \in Tasks, SettleDoes(t) PROVE NativeExclusive'
  BY <1>1, <1>7 DEF SettleDoes, Shapes, NativeExclusive, UnresolvedTurn
<1>8. ASSUME NEW t \in Tasks, AnsweredDoes(t) PROVE NativeExclusive'
  BY <1>1, <1>8 DEF AnsweredDoes, Shapes, NativeExclusive, Operations, TurnInv, TurnOf
<1>9. ASSUME NEW t \in Tasks, CloseDoes(t) PROVE NativeExclusive'
  BY <1>1, <1>9 DEF CloseDoes, Shapes, NativeExclusive
<1>10. ASSUME NEW t \in Tasks, EntryDoes(t) PROVE NativeExclusive'
  BY <1>1, <1>10 DEF EntryDoes, Shapes, NativeExclusive
<1>11. ASSUME NEW t \in Tasks, QueueDoes(t) PROVE NativeExclusive'
  BY <1>1, <1>11 DEF QueueDoes, Shapes, NativeExclusive
<1>12. ASSUME NEW t \in Tasks, LeaseDoes(t) PROVE NativeExclusive'
  BY <1>1, <1>12 DEF LeaseDoes, Shapes, NativeExclusive
<1>13. ASSUME NEW t \in Tasks, DispatchDoes(t) PROVE NativeExclusive'
  BY <1>1, <1>13 DEF DispatchDoes, Shapes, NativeExclusive, NativeInv, NativeOf
<1>14. ASSUME NEW t \in Tasks, QuestionDoes(t) PROVE NativeExclusive'
  BY <1>1, <1>14 DEF QuestionDoes, Shapes, NativeExclusive
<1>15. ASSUME NEW t \in Tasks, RecoverDoes(t) PROVE NativeExclusive'
  BY <1>1, <1>15 DEF RecoverDoes, Shapes, NativeExclusive, Unrecovered
<1> QED
  BY StepDoes, <1>1, <1>2, <1>3, <1>4, <1>5, <1>6, <1>7, <1>8, <1>9, <1>10, <1>11, <1>12, <1>13, <1>14,
     <1>15

\* Every step keeps the work slot with one root.
LEMMA RootKept ==
    ASSUME ConstantsAssumption, SchedulerInv, [Next]_vars
    PROVE  OneRoot'
<1>1. Shapes /\ TurnInv /\ OneRoot
  BY DEF SchedulerInv
<1>2. CASE PumpDoes
  <2>1. ASSUME NEW i \in DOMAIN rows, rows[i] \in Tasks, MayStart(rows[i]),
               \A u \in Tasks \ {rows[i]} : state'[u] = state[u]
        PROVE  OneRoot'
    <3>1. rows[i] \in Roots => \A r \in Roots \ {rows[i]} :
                                 state[r] \notin {"running", "suspending", "awaiting_user"}
      BY <2>1 DEF MayStart, RootBusy, Roots
    <3> QED
      BY <1>1, <2>1, <3>1 DEF OneRoot, Roots
  <2>2. ASSUME NEW i \in DOMAIN rows, rows[i] \in Tasks, state'[rows[i]] = "failed",
               \A u \in Tasks \ {rows[i]} : state'[u] = state[u]
        PROVE  OneRoot'
    BY <1>1, <2>2 DEF OneRoot, Roots
  <2>3. CASE UNCHANGED state
    BY <1>1, <2>3 DEF OneRoot
  <2> QED
    BY <1>2, <2>1, <2>2, <2>3 DEF PumpDoes
<1>3. CASE VisitDoes
  <2>1. \A u \in Tasks : state'[u] \in {"running", "suspending", "awaiting_user"} =>
                           state[u] \in {"running", "suspending", "awaiting_user"}
    BY <1>1, <1>3 DEF VisitDoes
  <2> QED
    BY <1>1, <2>1 DEF OneRoot, Roots
<1>4. CASE RestartDoes
  <2>1. \A u \in Tasks : state'[u] \in {"running", "suspending", "awaiting_user"} =>
                           state[u] \in {"running", "suspending", "awaiting_user"}
    BY <1>1, <1>4 DEF RestartDoes, AfterCrash
  <2> QED
    BY <1>1, <2>1 DEF OneRoot, Roots
<1>5. CASE NothingDoes
  BY <1>1, <1>5 DEF NothingDoes, Shapes, TurnInv, TurnOf, OneRoot, Roots, IsActive
<1>6. ASSUME NEW t \in Tasks, AcceptDoes(t) PROVE OneRoot'
  BY <1>1, <1>6 DEF AcceptDoes, Shapes, TurnInv, TurnOf, OneRoot, Roots, IsActive
<1>7. ASSUME NEW t \in Tasks, SettleDoes(t) PROVE OneRoot'
  <2>1. \A u \in Tasks : state'[u] \in {"running", "suspending", "awaiting_user"} =>
                           state[u] \in {"running", "suspending", "awaiting_user"}
    BY <1>1, <1>7 DEF SettleDoes, Shapes, TurnInv, TurnOf, IsActive
  <2> QED
    BY <1>1, <2>1 DEF OneRoot, Roots
<1>8. ASSUME NEW t \in Tasks, AnsweredDoes(t) PROVE OneRoot'
  BY <1>1, <1>8
     DEF AnsweredDoes, Shapes, TurnInv, TurnOf, OneRoot, Roots, IsActive, Operations
<1>9. ASSUME NEW t \in Tasks, CloseDoes(t) PROVE OneRoot'
  BY <1>1, <1>9 DEF CloseDoes, Shapes, TurnInv, TurnOf, OneRoot, Roots, IsActive
<1>10. ASSUME NEW t \in Tasks, EntryDoes(t) PROVE OneRoot'
  BY <1>1, <1>10 DEF EntryDoes, Shapes, TurnInv, TurnOf, OneRoot, Roots, IsActive
<1>11. ASSUME NEW t \in Tasks, QueueDoes(t) PROVE OneRoot'
  BY <1>1, <1>11 DEF QueueDoes, Shapes, TurnInv, TurnOf, OneRoot, Roots, IsActive
<1>12. ASSUME NEW t \in Tasks, LeaseDoes(t) PROVE OneRoot'
  BY <1>1, <1>12 DEF LeaseDoes, Shapes, TurnInv, TurnOf, OneRoot, Roots, IsActive
<1>13. ASSUME NEW t \in Tasks, DispatchDoes(t) PROVE OneRoot'
  BY <1>1, <1>13
     DEF DispatchDoes, Shapes, TurnInv, TurnOf, OneRoot, Roots, IsActive, Operations
<1>14. ASSUME NEW t \in Tasks, QuestionDoes(t) PROVE OneRoot'
  <2>1. \A u \in Tasks : state'[u] \in {"running", "suspending", "awaiting_user"} =>
                           state[u] \in {"running", "suspending", "awaiting_user"}
    BY <1>1, <1>14 DEF QuestionDoes, Shapes
  <2> QED
    BY <1>1, <2>1 DEF OneRoot, Roots
<1>15. ASSUME NEW t \in Tasks, RecoverDoes(t) PROVE OneRoot'
  BY <1>1, <1>15
     DEF RecoverDoes, Shapes, TurnInv, TurnOf, OneRoot, Roots, IsActive, Unrecovered
<1> QED
  BY StepDoes, <1>1, <1>2, <1>3, <1>4, <1>5, <1>6, <1>7, <1>8, <1>9, <1>10, <1>11, <1>12, <1>13, <1>14,
     <1>15

\* A set with room for one more element keeps the limit when it gets one.
LEMMA OneMore ==
    ASSUME NEW base, IsFiniteSet(base), NEW x, NEW n \in Nat, Cardinality(base) < n,
           NEW larger \in SUBSET (base \cup {x})
    PROVE  Cardinality(larger) <= n
<1>1. /\ IsFiniteSet(base \cup {x}) /\ Cardinality(base) \in Nat
      /\ Cardinality(base \cup {x}) \in {Cardinality(base), Cardinality(base) + 1}
  BY FS_AddElement, FS_CardinalityType
<1>2. IsFiniteSet(larger) /\ Cardinality(larger) <= Cardinality(base \cup {x})
  BY <1>1, FS_Subset
<1>3. Cardinality(larger) \in Nat
  BY <1>2, FS_CardinalityType
<1> QED
  BY <1>1, <1>2, <1>3

\* Every step keeps the entries finite and the workers within their limit.
LEMMA WorkersKept ==
    ASSUME ConstantsAssumption, SchedulerInv, EntriesInv, WorkerLimit, [Next]_vars
    PROVE  EntriesInv' /\ WorkerLimit'
<1> DEFINE Live == {t \in Tasks : IsActive(t)}
           Workers == {t \in Tasks : Bound(t) /\ active[t].phase \notin {"none", "children"}}
<1>1. Shapes /\ MaxWorkers \in Nat /\ IsFiniteSet(Live)
  BY DEF SchedulerInv, ConstantsAssumption, EntriesInv
<1>2. IsFiniteSet(Workers) /\ IsFiniteSet(LiveWorkers)
  <2>1. Workers \subseteq Live /\ LiveWorkers \subseteq Live
    BY DEF LiveWorkers, IsActive
  <2> QED
    BY <1>1, <2>1, FS_Subset
<1>3. ASSUME NEW t \in Tasks, Live' \subseteq Live \cup {t} PROVE EntriesInv'
  <2>1. IsFiniteSet(Live \cup {t})
    BY <1>1, FS_AddElement
  <2>2. IsFiniteSet(Live')
    BY <1>3, <2>1, FS_Subset
  <2> QED
    BY <2>2 DEF EntriesInv, IsActive
<1>4. ASSUME LiveWorkers' \subseteq LiveWorkers PROVE WorkerLimit'
  <2>1. Cardinality(LiveWorkers) <= MaxWorkers /\ Cardinality(LiveWorkers) \in Nat
    BY <1>2, FS_CardinalityType DEF WorkerLimit, LiveWorkers
  <2>2. IsFiniteSet(LiveWorkers') /\ Cardinality(LiveWorkers') <= Cardinality(LiveWorkers)
    BY <1>2, <1>4, FS_Subset
  <2>3. Cardinality(LiveWorkers') \in Nat
    BY <2>2, FS_CardinalityType
  <2>4. Cardinality(LiveWorkers') <= MaxWorkers
    BY <1>1, <2>1, <2>2, <2>3
  <2> QED
    BY <2>4 DEF WorkerLimit, LiveWorkers
<1>5. ASSUME NEW t \in Tasks, WorkerCount < MaxWorkers, LiveWorkers' \subseteq Workers \cup {t}
      PROVE  WorkerLimit'
  <2>1. Cardinality(Workers) < MaxWorkers
    BY <1>5 DEF WorkerCount
  <2>2. Cardinality(LiveWorkers') <= MaxWorkers
    <3> HIDE DEF Workers
    <3> QED
      BY <1>1, <1>2, <1>5, <2>1, OneMore
  <2> QED
    BY <2>2 DEF WorkerLimit, LiveWorkers
<1>6. ASSUME \A u \in Tasks : /\ active'[u].phase = active[u].phase
                              /\ active[u].aborted => active'[u].aborted
      PROVE  EntriesInv' /\ WorkerLimit'
  <2>1. LiveWorkers' \subseteq LiveWorkers /\ Live' \subseteq Live
    BY <1>6 DEF LiveWorkers, IsActive, Bound
  <2>2. IsFiniteSet(Live')
    BY <1>1, <2>1, FS_Subset
  <2> QED
    BY <1>4, <2>1, <2>2 DEF EntriesInv, IsActive
<1>7. ASSUME NEW t \in Tasks, \A u \in Tasks \ {t} : active'[u] = active[u],
             \/ active'[t].phase = "none"
             \/ active[t].phase \notin {"none", "children"} /\ active'[t].aborted = active[t].aborted
             \/ active[t].aborted /\ active'[t].aborted
             \/ ~Bound(t)
             \/ WorkerCount < MaxWorkers
      PROVE  EntriesInv' /\ WorkerLimit'
  <2>1. Live' \subseteq Live \cup {t}
    BY <1>7 DEF IsActive
  <2>2. LiveWorkers' \subseteq Workers \cup {t}
    BY <1>7 DEF LiveWorkers, Bound
  <2>3. CASE WorkerCount < MaxWorkers
    BY <1>3, <1>5, <2>1, <2>2, <2>3
  <2>4. CASE ~(WorkerCount < MaxWorkers)
    <3>1. LiveWorkers' \subseteq LiveWorkers
      BY <1>7, <2>4 DEF LiveWorkers, Bound
    <3> QED
      BY <1>3, <1>4, <2>1, <3>1
  <2> QED
    BY <2>3, <2>4
<1>8. CASE PumpDoes
  <2>1. CASE UNCHANGED active
    BY <1>6, <2>1
  <2>2. ASSUME NEW i \in DOMAIN rows, rows[i] \in Tasks, HasRoom(rows[i]),
               \A u \in Tasks \ {rows[i]} : active'[u] = active[u]
        PROVE  EntriesInv' /\ WorkerLimit'
    BY <1>7, <2>2 DEF HasRoom
  <2>3. ASSUME NEW i \in DOMAIN rows, rows[i] \in Tasks, active'[rows[i]] = active[rows[i]],
               \A u \in Tasks \ {rows[i]} : active'[u] = active[u]
        PROVE  EntriesInv' /\ WorkerLimit'
    BY <1>6, <2>3
  <2> QED
    BY <1>8, <2>1, <2>2, <2>3 DEF PumpDoes
<1>9. CASE VisitDoes
  BY <1>6, <1>9 DEF VisitDoes
<1>10. CASE RestartDoes
  <2>1. LiveWorkers' = {} /\ Live' = {}
    BY <1>10 DEF RestartDoes, LiveWorkers, IsActive
  <2>2. EntriesInv'
    BY <2>1, FS_EmptySet DEF EntriesInv, IsActive
  <2> QED
    BY <1>4, <2>1, <2>2
<1>11. ASSUME NEW t \in Tasks, CloseDoes(t) PROVE EntriesInv' /\ WorkerLimit'
  BY <1>6, <1>11 DEF CloseDoes
<1>12. ASSUME NEW t \in Tasks, SettleDoes(t) PROVE EntriesInv' /\ WorkerLimit'
  BY <1>7, <1>12 DEF SettleDoes
<1>13. ASSUME NEW t \in Tasks, EntryDoes(t) PROVE EntriesInv' /\ WorkerLimit'
  <2>1. /\ \A u \in Tasks \ {t} : active'[u] = active[u]
        /\ active[t].phase # "none" /\ active'[t].aborted = active[t].aborted
        /\ active[t].phase = "children" /\ Bound(t) => active[t].aborted \/ WorkerCount < MaxWorkers
    BY <1>13 DEF EntryDoes
  <2> QED
    BY <1>7, <2>1
<1>14. ASSUME UNCHANGED active PROVE EntriesInv' /\ WorkerLimit'
  BY <1>6, <1>14
<1>15. ASSUME NEW t \in Tasks,
              \/ AcceptDoes(t) \/ AnsweredDoes(t) \/ QueueDoes(t) \/ LeaseDoes(t)
              \/ DispatchDoes(t) \/ QuestionDoes(t) \/ RecoverDoes(t)
       PROVE  UNCHANGED active
  BY <1>15 DEF AcceptDoes, AnsweredDoes, QueueDoes, LeaseDoes, DispatchDoes, QuestionDoes,
               RecoverDoes
<1> QED
  BY StepDoes, <1>8, <1>9, <1>10, <1>11, <1>12, <1>13, <1>14, <1>15 DEF NothingDoes

\* The journal, the host and Rhino start with nothing.
LEMMA SchedulerInit ==
    ASSUME ConstantsAssumption, Init
    PROVE  SchedulerInv /\ EntriesInv /\ WorkerLimit
<1>1. Shapes
  BY DEF Init, Shapes, States, Entries, NotActive, Phases, NoSnapshot, Operations
<1>2. PumpInv /\ TurnInv /\ UnknownInv /\ LeaseInv /\ NativeInv /\ NativeExclusive /\ OneRoot
  BY DEF Init, PumpInv, TurnInv, TurnOf, UnknownInv, UnknownOf, LeaseInv, LeaseOf, Unsettled,
         NativeInv, NativeExclusive, OneRoot, Roots, IsActive, NotActive, ToSet
<1>3. {t \in Tasks : IsActive(t)} = {} /\ LiveWorkers = {}
  BY DEF Init, IsActive, NotActive, LiveWorkers
<1>4. EntriesInv
  BY <1>3, FS_EmptySet DEF EntriesInv
<1>5. WorkerLimit
  <2>1. MaxWorkers \in Nat
    BY DEF ConstantsAssumption
  <2>2. Cardinality(LiveWorkers) <= MaxWorkers
    BY <1>3, <2>1, FS_EmptySet
  <2> QED
    BY <2>2 DEF WorkerLimit, LiveWorkers
<1> QED
  BY <1>1, <1>2, <1>4, <1>5 DEF SchedulerInv

\* The invariant holds in every reachable state.
LEMMA SchedulerInvariant == Spec => [](SchedulerInv /\ EntriesInv /\ WorkerLimit)
<1>1. Init => SchedulerInv /\ EntriesInv /\ WorkerLimit
  BY ConstantsAssumption, SchedulerInit
<1>2. SchedulerInv /\ EntriesInv /\ WorkerLimit /\ [Next]_vars =>
          (SchedulerInv /\ EntriesInv /\ WorkerLimit)'
  BY ConstantsAssumption, ShapesKept, PumpKept, TurnKept, UnknownKept, LeaseKept, NativeKept,
     ExclusiveKept, RootKept, WorkersKept
     DEF SchedulerInv
<1> QED
  BY <1>1, <1>2, PTL DEF Spec

\* Of the operations the host ever sent into one Rhino process, at most one is being
\* executed, across lost replies, cancellations and restarts (withProcessLease).
THEOREM NativeAlone == Spec => []NativeExclusive
<1>1. SchedulerInv => NativeExclusive
  BY DEF SchedulerInv
<1> QED
  BY <1>1, SchedulerInvariant, PTL

\* A task recorded as completed, failed, cancelled or awaiting an answer has no native
\* work left, and nothing of it is unknown (the end of execute, journal.settle).
THEOREM SettledResolved == Spec => []SettledIsResolved
<1>1. SchedulerInv => SettledIsResolved
  <2>1. SUFFICES ASSUME SchedulerInv, NEW t \in Tasks,
                        state[t] \in {"completed", "failed", "cancelled", "awaiting_user"}
                 PROVE  t \notin native /\ ~Unsettled(t)
    BY DEF SettledIsResolved
  <2>2. ~Unsettled(t)
    BY <2>1, UnsettledStates DEF SchedulerInv
  <2>3. t \in native => Unsettled(t)
    BY <2>1 DEF SchedulerInv, NativeInv, NativeOf, Unsettled, Pending
  <2> QED
    BY <2>2, <2>3
<1> QED
  BY <1>1, SchedulerInvariant, PTL

\* A process is leased only when every unknown outcome on it has been reviewed, and a
\* task that ran returns to the queue only with the new turn of an answered question.
THEOREM ReviewComesFirst == Spec => ReviewedFirst
<1>1. SchedulerInv /\ [Next]_vars =>
        [\A t \in Tasks : call[t] = "waiting" /\ call'[t] = "leased" =>
            \A u \in Tasks : ProcessOf[u] = ProcessOf[t] =>
                \/ u \in recovered
                \/ state[u] # "uncertain" /\ ~Unsettled(u)]_vars
  <2>1. SUFFICES ASSUME SchedulerInv, [Next]_vars, NEW t \in Tasks,
                        call[t] = "waiting", call'[t] = "leased",
                        NEW u \in Tasks, ProcessOf[u] = ProcessOf[t], u \notin recovered
                 PROVE  state[u] # "uncertain" /\ ~Unsettled(u)
    OBVIOUS
  <2>2. Shapes /\ TurnInv /\ UnknownInv /\ LeaseInv
    BY <2>1 DEF SchedulerInv
  <2>3. LeaseDoes(t)
    <3>1. ASSUME NEW v \in Tasks, v # t,
                 call' = [call EXCEPT ![v] = "idle"] \/ call' = [call EXCEPT ![v] = "waiting"]
                   \/ call' = [call EXCEPT ![v] = "leased"] \/ call' = [call EXCEPT ![v] = "native"]
          PROVE  FALSE
      BY <2>1, <2>2, <3>1 DEF Shapes
    <3>2. call' # call
      BY <2>1
    <3>3. ~PumpDoes /\ ~VisitDoes /\ ~RestartDoes /\ ~NothingDoes
      BY <2>1, <3>2 DEF PumpDoes, VisitDoes, RestartDoes, NothingDoes
    <3>4. ASSUME NEW v \in Tasks
          PROVE  /\ ~AcceptDoes(v) /\ ~SettleDoes(v) /\ ~EntryDoes(v) /\ ~QuestionDoes(v)
                 /\ ~RecoverDoes(v)
      BY <3>2 DEF AcceptDoes, SettleDoes, EntryDoes, QuestionDoes, RecoverDoes
    <3>5. ASSUME NEW v \in Tasks PROVE ~AnsweredDoes(v) /\ ~CloseDoes(v) /\ ~DispatchDoes(v)
      BY <2>1, <2>2, <3>1 DEF AnsweredDoes, CloseDoes, DispatchDoes
    <3>6. ASSUME NEW v \in Tasks, QueueDoes(v) PROVE FALSE
      <4>1. v = t
        BY <3>1, <3>6 DEF QueueDoes
      <4> QED
        BY <2>1, <2>2, <3>6, <4>1 DEF QueueDoes, Shapes
    <3>7. ASSUME NEW v \in Tasks, LeaseDoes(v) PROVE v = t
      BY <3>1, <3>7 DEF LeaseDoes
    <3> QED
      BY <2>1, ConstantsAssumption, StepDoes, <3>3, <3>4, <3>5, <3>6, <3>7
  <2>4. ~Unrecovered(u) /\ held[ProcessOf[u]] = NoTask
    BY <2>1, <2>3 DEF LeaseDoes, UnresolvedProcess
  <2>5. state[u] # "uncertain"
    BY <2>1, <2>4 DEF Unrecovered
  <2>6. ASSUME Unsettled(u) PROVE FALSE
    <3>1. held[ProcessOf[u]] = u
      BY <2>2, <2>5, <2>6 DEF LeaseInv, LeaseOf
    <3> QED
      BY <2>4, <3>1, ConstantsAssumption DEF ConstantsAssumption
  <2> QED
    BY <2>5, <2>6
<1>2. SchedulerInv /\ [Next]_vars =>
        [\A t \in Tasks : state'[t] = "queued" /\ state[t] \notin {"absent", "queued"} =>
            state[t] = "awaiting_user" /\ turn'[t] = turn[t] + 1]_vars
  <2>1. SUFFICES ASSUME SchedulerInv, [Next]_vars, NEW t \in Tasks,
                        state'[t] = "queued", state[t] \notin {"absent", "queued"}
                 PROVE  state[t] = "awaiting_user" /\ turn'[t] = turn[t] + 1
    OBVIOUS
  <2>2. Shapes
    BY <2>1 DEF SchedulerInv
  <2>3. ~PumpDoes /\ ~VisitDoes /\ ~RestartDoes /\ ~NothingDoes
    BY <2>1 DEF PumpDoes, VisitDoes, RestartDoes, NothingDoes, AfterCrash
  <2>4. ASSUME NEW v \in Tasks
        PROVE  /\ ~AnsweredDoes(v) /\ ~CloseDoes(v) /\ ~EntryDoes(v) /\ ~QueueDoes(v)
               /\ ~LeaseDoes(v) /\ ~DispatchDoes(v) /\ ~RecoverDoes(v)
    BY <2>1 DEF AnsweredDoes, CloseDoes, EntryDoes, QueueDoes, LeaseDoes, DispatchDoes,
                RecoverDoes
  <2>5. ASSUME NEW v \in Tasks PROVE ~SettleDoes(v) /\ ~AcceptDoes(v)
    BY <2>1, <2>2 DEF SettleDoes, AcceptDoes, Shapes
  <2>6. PICK v \in Tasks : QuestionDoes(v)
    BY <2>1, ConstantsAssumption, StepDoes, <2>3, <2>4, <2>5
  <2>7. v = t
    BY <2>1, <2>2, <2>6 DEF QuestionDoes, Shapes
  <2> QED
    BY <2>1, <2>2, <2>6, <2>7 DEF QuestionDoes, Shapes
<1> QED
  BY <1>1, <1>2, SchedulerInvariant, PTL DEF Spec, ReviewedFirst, LeaseAfterRecovery, NoReplay

\* Two roots are never at work, suspending or waiting for their person at the same time
\* (journal.start), whatever the tasks are.
THEOREM RootsTakeTurns == Spec => []OneRoot
<1>1. SchedulerInv => OneRoot
  BY DEF SchedulerInv
<1> QED
  BY <1>1, SchedulerInvariant, PTL

\* Bound turns that compute never exceed the worker limit (pump, waitForChildren).
THEOREM WorkersLimited == Spec => []WorkerLimit
BY SchedulerInvariant, PTL


(***************************************************************************)
(* The documents of a tool                                                 *)
(***************************************************************************)

(* The types the proofs need; what a task may wait for is in them. *)
HostTypes ==
    /\ holder \in BoundTasks \cup {NoTask}
    /\ tool \in [BoundTasks -> {"idle", "list", "listed", "intended", "sent", "verify", "work", "over"}]
    /\ activation \in [BoundTasks -> {"none", "dispatched", "completed", "failed", "cancelled", "uncertain"}]
    /\ answered \in [BoundTasks -> {"none", "queued", "completed", "failed", "cancelled", "uncertain"}]
    /\ switched \in [BoundTasks -> BOOLEAN] /\ acts \in Nat

\* An activation through the journal's eyes and through Rhino's.
RecordInv ==
    \A t \in BoundTasks :
        /\ answered[t] = "completed" => switched[t]
        /\ answered[t] \in {"none", "queued", "cancelled"} => ~switched[t]
        /\ activation[t] = "completed" => answered[t] = "completed"
        /\ activation[t] = "cancelled" => answered[t] = "cancelled"
        /\ activation[t] = "failed" => answered[t] \in {"none", "failed"}
        /\ tool[t] \in {"intended", "sent", "verify"} => activation[t] = "dispatched"
        /\ tool[t] = "intended" => answered[t] = "none"
        /\ tool[t] = "verify" => answered[t] = "completed"

Busy == {"list", "listed", "intended", "sent", "verify", "work"}

\* The lease goes with the tool, and stays with an activation that may still take effect.
HolderInv ==
    \A t \in BoundTasks :
        /\ tool[t] \in Busy \/ answered[t] = "queued" => holder = t
        /\ answered[t] = "queued" => tool[t] \in {"sent", "idle", "over"}

ActivationInv == HostTypes /\ RecordInv /\ HolderInv

\* No task has begun, so none has a lease or an activation.
LEMMA ActivationInit == ASSUME B!BindingAssumption PROVE B!Init => ActivationInv
BY DEF B!BindingAssumption, B!Init, ActivationInv, HostTypes, RecordInv, HolderInv, Busy

\* Every step of the host keeps the invariant.
LEMMA HostStepKeeps ==
    ASSUME B!BindingAssumption, ActivationInv, NEW t \in BoundTasks,
           \/ B!ToolStarts(t) \/ B!List(t) \/ B!GiveUp(t) \/ B!OperationIntent(t) \/ B!Send(t) \/ B!Denied(t)
           \/ B!Answer(t) \/ B!AnswerLost(t) \/ B!Verify(t) \/ B!WorkEnds(t)
    PROVE  ActivationInv'
<1> USE DEF ActivationInv, HostTypes, RecordInv, HolderInv, Busy, B!Set, B!ToolEnds, B!Fails, B!documents
<1>0. NoTask \notin BoundTasks
  BY DEF B!BindingAssumption
<1>1. CASE B!ToolStarts(t)
  BY <1>0, <1>1 DEF B!ToolStarts
<1>2. CASE B!List(t)
  BY <1>2 DEF B!List, B!NextTarget
<1>3. CASE B!GiveUp(t)
  BY <1>0, <1>3 DEF B!GiveUp
<1>4. CASE B!OperationIntent(t)
  BY <1>4 DEF B!OperationIntent
<1>5. CASE B!Send(t)
  BY <1>5 DEF B!Send
<1>6. CASE B!Denied(t)
  BY <1>0, <1>6 DEF B!Denied
<1>7. CASE B!Answer(t)
  BY <1>0, <1>7 DEF B!Answer
<1>8. CASE B!AnswerLost(t)
  BY <1>0, <1>8 DEF B!AnswerLost
<1>9. CASE B!Verify(t)
  BY <1>0, <1>9 DEF B!Verify, B!NextTarget
<1>10. CASE B!WorkEnds(t)
  BY <1>0, <1>10 DEF B!WorkEnds
<1> QED
  BY <1>1, <1>2, <1>3, <1>4, <1>5, <1>6, <1>7, <1>8, <1>9, <1>10

\* Every step keeps the bindings and activations in order.
LEMMA BindingNextKeeps == ASSUME B!BindingAssumption
  PROVE ActivationInv /\ [B!Next]_(B!vars) => ActivationInv'
<1> SUFFICES ASSUME ActivationInv, [B!Next]_(B!vars) PROVE ActivationInv'
  OBVIOUS
<1> USE DEF ActivationInv, HostTypes, RecordInv, HolderInv, Busy, B!Set, B!host
<1>0. NoTask \notin BoundTasks
  BY DEF B!BindingAssumption
<1>1. ASSUME NEW t \in BoundTasks, B!Manage(t) PROVE ActivationInv'
  <2>1. PICK answer \in {"completed", "failed", "cancelled", "uncertain"}, effect \in BOOLEAN :
          /\ B!Activate(t, answer, effect)
          /\ answer = "completed" => effect
          /\ answer = "cancelled" => ~effect
    BY <1>1 DEF B!Manage
  <2>2. /\ answered[t] = "queued" /\ UNCHANGED <<holder, tool, activation, acts>>
        /\ answered' = [answered EXCEPT ![t] = answer]
        /\ switched' = [switched EXCEPT ![t] = effect]
    BY <1>1, <2>1 DEF B!Manage, B!Activate
  <2>3. /\ \A u \in BoundTasks : answered'[u] = IF u = t THEN answer ELSE answered[u]
        /\ \A u \in BoundTasks : switched'[u] = IF u = t THEN effect ELSE switched[u]
        /\ HostTypes'
    BY <2>2
  <2>4. activation[t] \notin {"completed", "failed", "cancelled"} /\ tool[t] \in {"sent", "idle", "over"}
    BY <2>2
  <2>5. RecordInv'
    BY <2>1, <2>2, <2>3, <2>4
  <2>6. HolderInv'
    BY <2>2, <2>3
  <2> QED
    BY <2>3, <2>5, <2>6
<1>2. ASSUME NEW t \in BoundTasks, B!Recover(t) PROVE ActivationInv'
  BY <1>0, <1>2 DEF B!Recover
<1>3. CASE B!HostDies
  BY <1>3 DEF B!HostDies
<1>4. CASE B!PersonActs \/ UNCHANGED B!vars
  BY <1>4 DEF B!PersonActs, B!vars, B!BindingAssumption
<1> QED
  BY <1>1, <1>2, <1>3, <1>4, HostStepKeeps DEF B!Next

\* The invariant of the activations holds in every behaviour.
LEMMA ActivationInvariant == ASSUME B!BindingAssumption PROVE B!Spec => []ActivationInv
BY ActivationInit, BindingNextKeeps, PTL DEF B!Spec

-----------------------------------------------------------------------------
\* While a tool works nothing is queued in Rhino, of its own or of anybody.
LEMMA NothingQueued ==
    ASSUME B!BindingAssumption, ActivationInv, NEW t \in BoundTasks, tool[t] = "work"
    PROVE  \A u \in BoundTasks : answered[u] # "queued"
<1>1. holder = t
  BY DEF ActivationInv, HolderInv, Busy
<1>2. \A u \in BoundTasks : answered[u] = "queued" => u = t
  BY <1>1 DEF ActivationInv, HolderInv
<1> QED
  BY <1>2 DEF ActivationInv, HolderInv

\* In a behaviour of the run the documents behave as they do alone.
LEMMA DocumentsBehave == TurnsSpec => B!Spec
<1>1. TurnsInit => B!Init
  BY DEF TurnsInit
<1>2. [TurnsNext]_all => [B!Next]_(B!vars)
  BY DEF TurnsNext, all, bindingVars, B!vars
<1> QED
  BY <1>1, <1>2, PTL DEF TurnsSpec, B!Spec

\* The record of an activation tells what became of it, and while a tool works in its
\* documents nobody but a person takes them away.
THEOREM DocumentsKept == TurnsSpec => ToolsKeepDocuments
<1> USE TurnsAssumption DEF TurnsAssumption
<1>1. ActivationInv => B!ActivationIsTold
  BY DEF ActivationInv, HostTypes, RecordInv, B!ActivationIsTold
<1>2. ASSUME ActivationInv, B!Next, NEW t \in BoundTasks, tool[t] = "work", tool'[t] = "work", B!InPlace(t)
      PROVE  B!InPlace(t)' \/ acts' > acts
  <2>1. CASE B!PersonActs
    <3>1. acts' = acts + 1 /\ acts < MaxActs
      BY <2>1 DEF B!PersonActs
    <3> QED
      BY <1>2, <3>1 DEF ActivationInv, HostTypes
  <2>2. CASE ~B!PersonActs
    <3>1. UNCHANGED <<front, association>>
      <4>1. \A u \in BoundTasks : ~B!Manage(u)
        BY <1>2, NothingQueued DEF B!Manage
      <4> QED
        BY <1>2, <2>2, <4>1 DEF B!Next, B!HostDies, B!ToolStarts, B!List, B!GiveUp, B!OperationIntent,
           B!Send, B!Denied,
           B!Answer, B!AnswerLost, B!Verify, B!WorkEnds, B!Recover, B!documents
    <3> QED
      BY <1>2, <3>1 DEF B!InPlace, B!ValidActivation
  <2> QED
    BY <2>1, <2>2
<1>3. ActivationInv /\ [B!Next]_(B!vars) =>
        [\A t \in BoundTasks : tool[t] = "work" /\ tool'[t] = "work" /\ B!InPlace(t) => B!InPlace(t)' \/ acts' > acts]_(B!vars)
  BY <1>2
<1> QED
  BY <1>1, <1>3, ActivationInvariant, DocumentsBehave, PTL
  DEF B!Spec, ToolsKeepDocuments, B!ToolsKeepDocuments, B!WorksUndisturbed

\* In the composed run the tasks behave as alone.
LEMMA SchedulerBehaves == TurnsSpec => Spec
<1>1. TurnsInit => Init
  BY DEF TurnsInit
<1>2. [TurnsNext]_all => [Next]_vars
  BY DEF TurnsNext, all
<1> QED
  BY <1>1, <1>2, PTL DEF TurnsSpec, Spec

-----------------------------------------------------------------------------
(* The profiles of the instances, for any processes, lifecycles, failures  *)
(* and retention.                                                          *)

ScanSteps == {"off", "next", "marker", "profile", "inspect", "mark", "check", "delete", "retain", "over"}
Scans == [step : ScanSteps, todo : SUBSET Ids, id : Ids \cup {Absent},
          seen : I!Identities \cup {I!Malformed} \cup I!Markers, due : SUBSET Ids, clean : BOOLEAN]
ProfileTypes ==
    /\ running \in [Pids -> 0 .. MaxStarts]
    /\ starts \in 0 .. MaxStarts
    /\ owner \in [Ids -> I!Identities \cup {Absent}]
    /\ owned \subseteq Ids
    /\ logs \subseteq Ids
    /\ profile \in [Ids -> I!Identities \cup {Absent, I!Malformed}]
    /\ marker \in [Ids -> I!Markers \cup {Absent}]
    /\ scan \in [Pids -> Scans]
    /\ now \in 0 .. MaxTime
    /\ DOMAIN dead = 1 .. MaxStarts

\* A process is known by its ID and its start time: nobody has that start time under
\* another ID, and the end of a process that is gone is on record.
Known(who) ==
    /\ who.startedAt <= starts
    /\ \A p \in Pids : running[p] = who.startedAt => p = who.pid
    /\ ~I!Alive(who) => dead[who.startedAt] \in 0 .. now
ProcessesInv ==
    /\ \A p \in Pids : running[p] <= starts
    /\ \A p, q \in Pids : running[p] = running[q] /\ running[p] # 0 => p = q

\* The files of a lifecycle: the profile is its owner's, a malformed one has no owner.
OwnerFits(i) ==
    /\ owner[i] # Absent => Known(owner[i])
    /\ i \in owned => owner[i] # Absent
    /\ profile[i] \in I!Identities => profile[i] = owner[i]
    /\ profile[i] = I!Malformed => owner[i] = Absent /\ i \in logs
    /\ i \in owned /\ I!Alive(owner[i]) => profile[i] = owner[i]
    /\ owner[i] # Absent /\ i \notin logs =>
         ~I!Alive(owner[i]) /\ now - dead[owner[i].startedAt] >= Retention
OwnersInv == \A i \in Ids : OwnerFits(i)

\* A marker tells that the owner is dead, and not a time before its death.
Truthful(i, m) ==
    /\ owner[i] = m.who
    /\ ~I!Alive(m.who)
    /\ dead[m.who.startedAt] <= m.at
    /\ m.at <= now
MarkersInv == \A i \in Ids : marker[i] # Absent => Truthful(i, marker[i])

\* What a scan remembers is still true, and every owner that was dead when it began is
\* done or still ahead of it.
Underway == {"marker", "profile", "inspect", "mark", "check", "delete"}
Ahead(p, i) == i \in scan[p].todo \/ (i = scan[p].id /\ scan[p].step \in Underway)
Remembers(p) ==
    /\ scan[p].step \in Underway \cup {"retain"} => scan[p].id \in Ids
    /\ scan[p].step \in {"inspect", "mark"} =>
         scan[p].seen \in I!Identities /\ owner[scan[p].id] = scan[p].seen
    /\ scan[p].step = "mark" => ~I!Alive(scan[p].seen)
    /\ scan[p].step \in {"check", "delete", "retain"} =>
         scan[p].seen \in I!Markers /\ Truthful(scan[p].id, scan[p].seen)
    /\ scan[p].step = "over" => scan[p].todo = {}
Reaches(p) ==
    scan[p].clean =>
        \A i \in scan[p].due :
            /\ owner[i] # Absent
            /\ ~I!Alive(owner[i])
            /\ profile[i] = Absent \/ Ahead(p, i)
ScanFits(p) == Remembers(p) /\ Reaches(p)

ProfileInv ==
    /\ ProfileTypes
    /\ ProcessesInv
    /\ OwnersInv
    /\ MarkersInv
    /\ \A p \in Pids : ScanFits(p)


\* No scan has begun, and a malformed profile may be left over.
LEMMA ProfileInit == ASSUME I!ProfileAssumption PROVE I!Init => ProfileInv
<1> SUFFICES ASSUME I!Init PROVE ProfileInv
  OBVIOUS
<1>1. I!Idle \in Scans /\ I!Malformed \notin I!Identities
  BY DEF I!Idle, Scans, ScanSteps, I!Malformed, I!Identities
<1>2. ProfileTypes
  BY <1>1 DEF ProfileTypes, I!Init, I!ProfileAssumption
<1>3. ProcessesInv /\ OwnersInv /\ MarkersInv
  BY <1>1 DEF ProcessesInv, OwnersInv, OwnerFits, MarkersInv, I!Init, I!ProfileAssumption
<1>4. ASSUME NEW p \in Pids PROVE ScanFits(p)
  BY DEF ScanFits, Remembers, Reaches, I!Init, I!Idle, Underway
<1> QED
  BY <1>2, <1>3, <1>4 DEF ProfileInv

\* A process that is gone stays gone, and the record of its end stays as it is.
LEMMA GoneForGood ==
    ASSUME I!ProfileAssumption, ProfileInv, I!Next, NEW who \in I!Identities, Known(who)
    PROVE  /\ Known(who)'
           /\ ~I!Alive(who) => ~I!Alive(who)' /\ dead'[who.startedAt] = dead[who.startedAt]
<1> USE DEF ProfileInv, ProfileTypes, ProcessesInv, I!ProfileAssumption
<1>0. who.pid \in Pids /\ who.startedAt \in 1 .. MaxStarts
  BY DEF I!Identities
<1>1. CASE I!Tick
  BY <1>0, <1>1 DEF I!Tick, I!processes, Known, I!Alive
<1>2. ASSUME NEW p \in Pids, NEW rhino \in BOOLEAN, I!StartProcess(p, rhino)
      PROVE  /\ Known(who)'
             /\ ~I!Alive(who) => ~I!Alive(who)' /\ dead'[who.startedAt] = dead[who.startedAt]
  BY <1>0, <1>2 DEF I!StartProcess, Known, I!Alive
<1>3. ASSUME NEW p \in Pids, I!EndProcess(p)
      PROVE  /\ Known(who)'
             /\ ~I!Alive(who) => ~I!Alive(who)' /\ dead'[who.startedAt] = dead[who.startedAt]
  BY <1>0, <1>3 DEF I!EndProcess, Known, I!Alive
<1>4. CASE UNCHANGED <<running, starts, dead, now>>
  BY <1>4 DEF Known, I!Alive
<1>5. ASSUME NEW p \in Pids,
             I!NextId(p) \/ I!EndScan(p) \/ I!ReadMarker(p) \/ I!ReadProfile(p) \/ I!Inspect(p)
             \/ I!WriteMarker(p) \/ I!CheckProfile(p) \/ I!DeleteProfile(p) \/ I!Retain(p)
             \/ \E i \in Ids : I!WriteProfile(p, i)
      PROVE UNCHANGED <<running, starts, dead, now>>
  BY <1>5 DEF I!NextId, I!EndScan, I!ReadMarker, I!ReadProfile, I!Inspect, I!WriteMarker,
     I!CheckProfile, I!DeleteProfile, I!Retain, I!WriteProfile, I!processes
<1>6. ASSUME NEW i \in Ids, I!DeleteOwned(i) PROVE UNCHANGED <<running, starts, dead, now>>
  BY <1>6 DEF I!DeleteOwned
<1> QED
  BY <1>1, <1>2, <1>3, <1>4, <1>5, <1>6 DEF I!Next


\* What the actions of a scan leave alone.
LEMMA ScanActions ==
    ASSUME NEW p \in Pids,
           I!NextId(p) \/ I!EndScan(p) \/ I!ReadMarker(p) \/ I!ReadProfile(p) \/ I!Inspect(p)
           \/ I!WriteMarker(p) \/ I!CheckProfile(p) \/ I!DeleteProfile(p) \/ I!Retain(p)
    PROVE  UNCHANGED <<running, starts, dead, owner, owned, now>>
  BY DEF I!NextId, I!EndScan, I!ReadMarker, I!ReadProfile, I!Inspect, I!WriteMarker,
     I!CheckProfile, I!DeleteProfile, I!Retain, I!processes

\* An owner stays the owner; a profile is left alone, deleted, or written by its owner.
LEMMA FilesStep ==
    ASSUME I!ProfileAssumption, ProfileInv, I!Next, NEW i \in Ids
    PROVE  /\ owner[i] # Absent => owner'[i] = owner[i]
           /\ \/ profile'[i] = profile[i]
              \/ profile'[i] = Absent
              \/ owner[i] = Absent /\ profile'[i] = owner'[i] /\ owner'[i] \in I!Identities
           /\ now <= now'
<1> USE DEF ProfileInv, ProfileTypes, I!ProfileAssumption
<1>1. CASE I!Tick
  BY <1>1 DEF I!Tick, I!processes, I!files
<1>2. ASSUME NEW p \in Pids, NEW rhino \in BOOLEAN, I!StartProcess(p, rhino)
      PROVE  UNCHANGED <<owner, profile, now>>
  BY <1>2 DEF I!StartProcess, I!files
<1>3. ASSUME NEW p \in Pids, I!EndProcess(p) PROVE UNCHANGED <<owner, profile, now>>
  BY <1>3 DEF I!EndProcess, I!files
<1>4. ASSUME NEW p \in Pids, NEW j \in Ids, I!WriteProfile(p, j)
      PROVE  /\ UNCHANGED now
             /\ owner[j] = Absent
             /\ owner' = [owner EXCEPT ![j] = [pid |-> p, startedAt |-> running[p]]]
             /\ profile' \in {profile, [profile EXCEPT ![j] = [pid |-> p, startedAt |-> running[p]]]}
             /\ [pid |-> p, startedAt |-> running[p]] \in I!Identities
  BY <1>4 DEF I!WriteProfile, I!AtomicWrite, I!Identities
<1>5. ASSUME NEW p \in Pids,
             I!NextId(p) \/ I!EndScan(p) \/ I!ReadMarker(p) \/ I!ReadProfile(p) \/ I!Inspect(p)
             \/ I!WriteMarker(p) \/ I!CheckProfile(p) \/ I!DeleteProfile(p) \/ I!Retain(p)
      PROVE  UNCHANGED <<owner, now>> /\ profile' \in {profile, [profile EXCEPT ![scan[p].id] = Absent]}
  BY <1>5 DEF I!NextId, I!EndScan, I!ReadMarker, I!ReadProfile, I!Inspect, I!WriteMarker,
     I!CheckProfile, I!DeleteProfile, I!Retain, I!processes, I!files
<1>6. ASSUME NEW j \in Ids, I!DeleteOwned(j)
      PROVE  UNCHANGED <<owner, now>> /\ profile' \in {profile, [profile EXCEPT ![j] = Absent]}
  BY <1>6 DEF I!DeleteOwned
<1>7. ASSUME NEW p \in Pids, NEW j \in Ids, I!WriteProfile(p, j)
      PROVE  /\ owner[i] # Absent => owner'[i] = owner[i]
             /\ \/ profile'[i] = profile[i]
                \/ owner[i] = Absent /\ profile'[i] = owner'[i] /\ owner'[i] \in I!Identities
             /\ now <= now'
  <2>1. PICK who \in I!Identities :
          /\ owner' = [owner EXCEPT ![j] = who]
          /\ profile' = profile \/ profile' = [profile EXCEPT ![j] = who]
    BY <1>4, <1>7
  <2>2. owner[j] = Absent /\ now \in Nat /\ now' = now
    BY <1>7 DEF I!WriteProfile
  <2>3. owner'[i] = (IF i = j THEN who ELSE owner[i])
    BY <2>1
  <2>4. profile'[i] = profile[i] \/ (i = j /\ profile'[i] = who)
    BY <2>1
  <2> QED
    BY <2>2, <2>3, <2>4
<1>8. ASSUME NEW p \in Pids,
             I!NextId(p) \/ I!EndScan(p) \/ I!ReadMarker(p) \/ I!ReadProfile(p) \/ I!Inspect(p)
             \/ I!WriteMarker(p) \/ I!CheckProfile(p) \/ I!DeleteProfile(p) \/ I!Retain(p)
      PROVE  UNCHANGED <<owner, now>> /\ profile'[i] \in {profile[i], Absent}
  BY <1>5, <1>8
<1>9. ASSUME NEW j \in Ids, I!DeleteOwned(j)
      PROVE  UNCHANGED <<owner, now>> /\ profile'[i] \in {profile[i], Absent}
  BY <1>6, <1>9
<1> QED
  BY <1>1, <1>2, <1>3, <1>7, <1>8, <1>9 DEF I!Next

\* A scan has its shape after every one of its steps, and the others are where they were.
LEMMA ScanMoves ==
    ASSUME I!ProfileAssumption, ProfileInv, NEW p \in Pids,
           I!NextId(p) \/ I!EndScan(p) \/ I!ReadMarker(p) \/ I!ReadProfile(p) \/ I!Inspect(p)
           \/ I!WriteMarker(p) \/ I!CheckProfile(p) \/ I!DeleteProfile(p) \/ I!Retain(p)
    PROVE  scan' \in [Pids -> Scans] /\ \A q \in Pids \ {p} : scan'[q] = scan[q]
<1> USE DEF ProfileInv, ProfileTypes, ScanFits, Remembers, Underway, ScanSteps
<1> DEFINE Moves == scan' \in [Pids -> Scans] /\ \A q \in Pids \ {p} : scan'[q] = scan[q]
<1>0. scan[p] \in Scans
  OBVIOUS
<1>1. ASSUME NEW y \in ScanSteps, I!Goto(p, y) PROVE Moves
  <2>1. [scan[p] EXCEPT !.step = y] \in Scans
    BY <1>0 DEF Scans
  <2> QED
    BY <1>1, <2>1 DEF I!Goto
<1>2. ASSUME I!GiveUp(p) PROVE Moves
  <2>1. [scan[p] EXCEPT !.step = "next", !.clean = FALSE] \in Scans
    BY <1>0 DEF Scans
  <2>2. scan' = [scan EXCEPT ![p] = [@ EXCEPT !.step = "next", !.clean = FALSE]]
    BY <1>2 DEF I!GiveUp, Scans
  <2> QED
    BY <2>1, <2>2
<1>3. ASSUME NEW y \in ScanSteps, NEW z \in I!Identities \cup {I!Malformed} \cup I!Markers, I!Read(p, y, z)
      PROVE  Moves
  <2>1. [scan[p] EXCEPT !.step = y, !.seen = z] \in Scans
    BY <1>0 DEF Scans
  <2>2. scan' = [scan EXCEPT ![p] = [@ EXCEPT !.step = y, !.seen = z]]
    BY <1>3 DEF I!Read, Scans
  <2> QED
    BY <2>1, <2>2
<1>4. ASSUME I!NextId(p) PROVE Moves
  <2>1. PICK i \in scan[p].todo :
          scan' = [scan EXCEPT ![p].step = "marker", ![p].id = i, ![p].todo = @ \ {i}]
    BY <1>4 DEF I!NextId
  <2>2. i \in Ids
    BY <1>0, <2>1 DEF Scans
  <2> DEFINE x == [step |-> "marker", todo |-> scan[p].todo \ {i}, id |-> i, seen |-> scan[p].seen,
                   due |-> scan[p].due, clean |-> scan[p].clean]
  <2>3. x \in Scans
    BY <1>0, <2>2 DEF Scans
  <2>4. scan' = [scan EXCEPT ![p] = x]
    BY <1>0, <2>1 DEF Scans
  <2> QED
    BY <2>3, <2>4
<1>5. ASSUME I!EndScan(p) PROVE Moves
  BY <1>5, <1>1 DEF I!EndScan
<1>6. ASSUME I!ReadMarker(p) PROVE Moves
  <2>1. scan[p].id \in Ids
    BY <1>6, <1>0 DEF I!ReadMarker, I!At
  <2>2. marker[scan[p].id] \in I!Markers \/ marker[scan[p].id] = Absent
    BY <2>1
  <2>3. (I!Read(p, "check", marker[scan[p].id]) /\ marker[scan[p].id] # Absent) \/ I!Goto(p, "profile")
    BY <1>6 DEF I!ReadMarker
  <2> QED
    BY <2>2, <2>3, <1>1, <1>3
<1>7. ASSUME I!ReadProfile(p) PROVE Moves
  <2>1. scan[p].id \in Ids
    BY <1>7, <1>0 DEF I!ReadProfile, I!At
  <2>2. profile[scan[p].id] \in I!Identities \cup {Absent, I!Malformed}
    BY <2>1
  <2>3. \/ I!Skip(p)
        \/ I!Read(p, "inspect", profile[scan[p].id]) /\ profile[scan[p].id] # Absent
        \/ I!GiveUp(p)
    BY <1>7 DEF I!ReadProfile
  <2> QED
    BY <2>2, <2>3, <1>1, <1>2, <1>3 DEF I!Skip
<1>8. ASSUME I!Inspect(p) PROVE Moves
  BY <1>8, <1>1, <1>2 DEF I!Inspect, I!Skip
<1>9. ASSUME I!WriteMarker(p) PROVE Moves
  <2>1. scan[p].seen \in I!Identities
    BY <1>9, <1>0 DEF I!WriteMarker, I!At
  <2>2. [who |-> scan[p].seen, at |-> now] \in I!Markers
    BY <2>1 DEF I!Markers
  <2>3. I!Read(p, "check", [who |-> scan[p].seen, at |-> now]) \/ I!GiveUp(p)
    BY <1>9 DEF I!WriteMarker
  <2> QED
    BY <2>2, <2>3, <1>2, <1>3
<1>10. ASSUME I!CheckProfile(p) PROVE Moves
  BY <1>10, <1>1, <1>2 DEF I!CheckProfile, I!Skip
<1>11. ASSUME I!DeleteProfile(p) PROVE Moves
  BY <1>11, <1>1, <1>2 DEF I!DeleteProfile
<1>12. ASSUME I!Retain(p) PROVE Moves
  BY <1>12, <1>1, <1>2 DEF I!Retain, I!Skip
<1> QED
  BY <1>4, <1>5, <1>6, <1>7, <1>8, <1>9, <1>10, <1>11, <1>12

\* The shapes of the files and of the scans.
LEMMA ProfileTypesKept ==
    ASSUME I!ProfileAssumption, ProfileInv, I!Next
    PROVE  ProfileTypes'
<1> USE DEF ProfileInv, ProfileTypes, I!ProfileAssumption
<1>1. CASE I!Tick
  BY <1>1 DEF I!Tick, I!processes, I!files
<1>2. ASSUME NEW p \in Pids, NEW rhino \in BOOLEAN, I!StartProcess(p, rhino) PROVE ProfileTypes'
  <2>1. [I!Idle EXCEPT !.step = "next", !.todo = I!Found, !.due = I!DeadFiles] \in Scans
    BY DEF I!Idle, Scans, ScanSteps, I!Found, I!DeadFiles
  <2>2. scan' \in [Pids -> Scans]
    BY <1>2, <2>1 DEF I!StartProcess
  <2> QED
    BY <1>2, <2>2 DEF I!StartProcess, I!files
<1>3. ASSUME NEW p \in Pids, I!EndProcess(p) PROVE ProfileTypes'
  <2>1. I!Idle \in Scans
    BY DEF I!Idle, Scans, ScanSteps
  <2> QED
    BY <1>3, <2>1 DEF I!EndProcess, I!files
<1>4. ASSUME NEW p \in Pids, NEW j \in Ids, I!WriteProfile(p, j) PROVE ProfileTypes'
  <2>1. [pid |-> p, startedAt |-> running[p]] \in I!Identities
    BY <1>4 DEF I!WriteProfile, I!Identities
  <2>2. /\ UNCHANGED <<running, starts, dead, marker, scan, now>>
        /\ owner' = [owner EXCEPT ![j] = [pid |-> p, startedAt |-> running[p]]]
        /\ profile' \in {profile, [profile EXCEPT ![j] = [pid |-> p, startedAt |-> running[p]]]}
        /\ owned' \in {owned, owned \cup {j}}
        /\ logs' = logs \cup {j}
    BY <1>4 DEF I!WriteProfile, I!AtomicWrite
  <2> QED
    BY <2>1, <2>2
<1>5. ASSUME NEW p \in Pids,
             I!NextId(p) \/ I!EndScan(p) \/ I!ReadMarker(p) \/ I!ReadProfile(p) \/ I!Inspect(p)
             \/ I!WriteMarker(p) \/ I!CheckProfile(p) \/ I!DeleteProfile(p) \/ I!Retain(p)
      PROVE  ProfileTypes'
  <2>1. UNCHANGED <<running, starts, dead, owner, owned, now>> /\ scan' \in [Pids -> Scans]
    BY <1>5, ScanActions, ScanMoves
  <2>2. \/ UNCHANGED <<profile, marker, logs>>
        \/ I!WriteMarker(p) \/ I!DeleteProfile(p) \/ I!Retain(p)
    BY <1>5 DEF I!NextId, I!EndScan, I!ReadMarker, I!ReadProfile, I!Inspect, I!CheckProfile, I!files
  <2>3. CASE UNCHANGED <<profile, marker, logs>>
    BY <2>1, <2>3
  <2>4. CASE I!WriteMarker(p)
    <3>1. scan[p].seen \in I!Identities
      BY <2>4 DEF I!WriteMarker, I!At, ScanFits, Remembers
    <3>2. [who |-> scan[p].seen, at |-> now] \in I!Markers
      BY <3>1 DEF I!Markers
    <3>3. /\ UNCHANGED <<profile, logs>>
          /\ marker' \in {marker, [marker EXCEPT ![scan[p].id] = [who |-> scan[p].seen, at |-> now]]}
      BY <2>4 DEF I!WriteMarker, I!AtomicWrite
    <3> QED
      BY <2>1, <3>2, <3>3
  <2>5. CASE I!DeleteProfile(p)
    <3>1. UNCHANGED <<marker, logs>> /\ profile' \in {profile, [profile EXCEPT ![scan[p].id] = Absent]}
      BY <2>5 DEF I!DeleteProfile
    <3> QED
      BY <2>1, <3>1
  <2>6. CASE I!Retain(p)
    <3>1. /\ UNCHANGED profile
          /\ marker' \in {marker, [marker EXCEPT ![scan[p].id] = Absent]}
          /\ logs' \in {logs, logs \ {scan[p].id}}
      BY <2>6 DEF I!Retain
    <3> QED
      BY <2>1, <3>1
  <2> QED
    BY <2>2, <2>3, <2>4, <2>5, <2>6
<1>6. ASSUME NEW j \in Ids, I!DeleteOwned(j) PROVE ProfileTypes'
  BY <1>6 DEF I!DeleteOwned
<1> QED
  BY <1>1, <1>2, <1>3, <1>4, <1>5, <1>6 DEF I!Next


\* No two processes that run share a start time.
LEMMA ProcessesKept ==
    ASSUME I!ProfileAssumption, ProfileInv, I!Next
    PROVE  ProcessesInv'
<1> USE DEF ProfileInv, ProfileTypes, ProcessesInv, I!ProfileAssumption
<1>1. CASE UNCHANGED <<running, starts>>
  BY <1>1
<1>2. ASSUME NEW p \in Pids, NEW rhino \in BOOLEAN, I!StartProcess(p, rhino) PROVE ProcessesInv'
  BY <1>2 DEF I!StartProcess
<1>3. ASSUME NEW p \in Pids, I!EndProcess(p) PROVE ProcessesInv'
  BY <1>3 DEF I!EndProcess
<1>4. ASSUME NEW p \in Pids, NEW j \in Ids, I!WriteProfile(p, j) PROVE UNCHANGED <<running, starts>>
  BY <1>4 DEF I!WriteProfile
<1>5. CASE I!Tick \/ \E j \in Ids : I!DeleteOwned(j)
  BY <1>5 DEF I!Tick, I!DeleteOwned, I!processes
<1> QED
  BY <1>1, <1>2, <1>3, <1>4, <1>5, ScanActions DEF I!Next

\* A step that leaves the files of a lifecycle alone leaves true what was said of them.
LEMMA OwnerStays ==
    ASSUME I!ProfileAssumption, ProfileInv, I!Next, NEW i \in Ids,
           owner'[i] = owner[i], profile'[i] = profile[i], i \in owned' => i \in owned,
           i \in logs => i \in logs'
    PROVE  OwnerFits(i)'
<1> USE DEF ProfileInv, ProfileTypes, OwnersInv, I!ProfileAssumption
<1>0. ProfileTypes'
  BY ProfileTypesKept
<1>1. OwnerFits(i) /\ owner[i] \in I!Identities \cup {Absent} /\ now <= now'
  BY FilesStep
<1>2. CASE owner[i] = Absent
  BY <1>0, <1>1, <1>2 DEF OwnerFits, I!Malformed
<1>3. CASE owner[i] # Absent
  <2>1. Known(owner[i]) /\ owner[i] \in I!Identities
    BY <1>1, <1>3 DEF OwnerFits
  <2>2. /\ Known(owner[i])'
        /\ ~I!Alive(owner[i]) => ~I!Alive(owner[i])' /\ dead'[owner[i].startedAt] = dead[owner[i].startedAt]
    BY <2>1, <1>3, GoneForGood
  <2>3. ~I!Alive(owner[i]) => dead[owner[i].startedAt] \in 0 .. now
    BY <2>1 DEF Known
  <2>4. Known(owner[i])' /\ (I!Alive(owner[i])' => I!Alive(owner[i]))
    BY <2>2
  <2>5. i \in owned' /\ I!Alive(owner[i])' => profile'[i] = owner'[i]
    BY <1>1, <2>4 DEF OwnerFits
  <2>6. i \notin logs' => ~I!Alive(owner[i])' /\ now' - dead'[owner[i].startedAt] >= Retention
    BY <1>0, <1>1, <1>3, <2>2, <2>3 DEF OwnerFits
  <2> QED
    BY <1>1, <1>3, <2>4, <2>5, <2>6 DEF OwnerFits
<1> QED
  BY <1>2, <1>3

\* A deletion, a retention or a new profile keeps what is known of the files.
LEMMA OwnersKept ==
    ASSUME I!ProfileAssumption, ProfileInv, I!Next, NEW i \in Ids
    PROVE  OwnerFits(i)'
<1> USE DEF I!ProfileAssumption
<1>1. CASE I!Tick
  BY <1>1, OwnerStays DEF I!Tick, I!processes, I!files
<1>2. ASSUME NEW p \in Pids, NEW rhino \in BOOLEAN, I!StartProcess(p, rhino) PROVE OwnerFits(i)'
  BY <1>2, OwnerStays DEF I!StartProcess, I!files
<1>3. ASSUME NEW p \in Pids, I!EndProcess(p) PROVE OwnerFits(i)'
  BY <1>3, OwnerStays DEF I!EndProcess, I!files
<1>4. ASSUME NEW p \in Pids, NEW j \in Ids, I!WriteProfile(p, j) PROVE OwnerFits(i)'
  <2>0. PICK who \in I!Identities : who = [pid |-> p, startedAt |-> running[p]]
    BY <1>4 DEF I!WriteProfile, ProfileInv, ProfileTypes, I!Identities
  <2>1. /\ owner[j] = Absent /\ profile[j] = Absent /\ running[p] # 0
        /\ owner' = [owner EXCEPT ![j] = who]
        /\ \/ profile' = profile /\ owned' = owned
           \/ profile' = [profile EXCEPT ![j] = who] /\ owned' = owned \cup {j}
        /\ logs' = logs \cup {j}
    BY <1>4, <2>0 DEF I!WriteProfile, I!AtomicWrite
  <2>2. CASE i # j
    <3>1. owner'[i] = owner[i] /\ profile'[i] = profile[i]
      BY <2>1, <2>2 DEF ProfileInv, ProfileTypes
    <3> QED
      BY <2>1, <2>2, <3>1, OwnerStays
  <2>3. CASE i = j
    <3>1. who \in I!Identities /\ who.pid = p /\ who.startedAt = running[p]
      BY <2>0
    <3>2. Known(who)'
      <4>1. UNCHANGED <<running, starts>>
        BY <1>4 DEF I!WriteProfile
      <4>2. ~I!Alive(who)' => FALSE
        BY <4>1, <3>1 DEF I!Alive
      <4> QED
        BY <2>1, <3>1, <4>1, <4>2 DEF Known, ProfileInv, ProfileTypes, ProcessesInv
    <3>3. owner'[i] = who /\ i \in logs' /\ (profile'[i] = who \/ profile'[i] = Absent)
      BY <2>1, <2>3 DEF ProfileInv, ProfileTypes
    <3>4. i \notin owned
      BY <2>1, <2>3 DEF ProfileInv, OwnersInv, OwnerFits
    <3>5. i \in owned' => profile'[i] = who
      BY <2>1, <2>3, <3>4 DEF ProfileInv, ProfileTypes
    <3>6. who # I!Malformed /\ who # Absent /\ Absent # I!Malformed
      BY <3>1 DEF I!Malformed, I!Identities
    <3> QED
      BY <3>1, <3>2, <3>3, <3>5, <3>6 DEF OwnerFits
  <2> QED
    BY <2>2, <2>3
<1>5. ASSUME NEW p \in Pids,
             I!NextId(p) \/ I!EndScan(p) \/ I!ReadMarker(p) \/ I!ReadProfile(p) \/ I!Inspect(p)
             \/ I!WriteMarker(p) \/ I!CheckProfile(p)
      PROVE  OwnerFits(i)'
  <2>1. UNCHANGED <<owner, owned>>
    BY <1>5, ScanActions
  <2>2. UNCHANGED <<profile, logs>>
    BY <1>5 DEF I!NextId, I!EndScan, I!ReadMarker, I!ReadProfile, I!Inspect, I!WriteMarker,
       I!CheckProfile, I!files
  <2> QED
    BY <2>1, <2>2, OwnerStays
<1>6. ASSUME NEW p \in Pids, I!DeleteProfile(p) PROVE OwnerFits(i)'
  <2>1. UNCHANGED <<running, owner, owned, logs, dead, now>>
    BY <1>6, ScanActions DEF I!DeleteProfile
  <2>2. scan[p].seen \in I!Markers /\ Truthful(scan[p].id, scan[p].seen) /\ scan[p].id \in Ids
    BY <1>6 DEF I!DeleteProfile, I!At, ProfileInv, ScanFits, Remembers, Underway
  <2>3. profile' = profile \/ profile' = [profile EXCEPT ![scan[p].id] = Absent]
    BY <1>6 DEF I!DeleteProfile
  <2>4. CASE profile'[i] = profile[i]
    BY <2>1, <2>4, OwnerStays
  <2>5. CASE profile'[i] # profile[i]
    <3>1. i = scan[p].id /\ profile'[i] = Absent
      BY <2>2, <2>3, <2>5 DEF ProfileInv, ProfileTypes
    <3>2. ~I!Alive(owner[i])
      BY <2>2, <3>1 DEF Truthful
    <3>3. UNCHANGED <<I!Alive(owner[i]), Known(owner[i])>>
      <4>1. UNCHANGED starts
        BY <1>6, ScanActions
      <4> QED
        BY <2>1, <4>1 DEF I!Alive, Known
    <3>4. OwnerFits(i)
      BY DEF ProfileInv, OwnersInv
    <3> QED
      BY <2>1, <3>1, <3>2, <3>3, <3>4 DEF OwnerFits
  <2> QED
    BY <2>4, <2>5
<1>7. ASSUME NEW p \in Pids, I!Retain(p) PROVE OwnerFits(i)'
  <2>1. UNCHANGED <<running, starts, owner, owned, profile, dead, now>>
    BY <1>7, ScanActions DEF I!Retain
  <2>2. scan[p].seen \in I!Markers /\ Truthful(scan[p].id, scan[p].seen)
    BY <1>7 DEF I!Retain, I!At, ProfileInv, ScanFits, Remembers, Underway
  <2>3. logs' = logs \/ (logs' = logs \ {scan[p].id} /\ I!LongDead(scan[p].seen))
    BY <1>7 DEF I!Retain
  <2>4. CASE i \in logs => i \in logs'
    BY <2>1, <2>4, OwnerStays
  <2>5. CASE i \in logs /\ i \notin logs'
    <3>1. i = scan[p].id /\ I!LongDead(scan[p].seen)
      BY <2>3, <2>5
    <3>2. owner[i] = scan[p].seen.who /\ owner[i] \in I!Identities /\ scan[p].seen.at \in Nat
      BY <2>2, <3>1 DEF Truthful, I!Markers
    <3>3. OwnerFits(i) /\ owner[i] # Absent /\ Known(owner[i])
      BY <3>2 DEF ProfileInv, OwnersInv, OwnerFits
    <3>4. ~I!Alive(owner[i]) /\ dead[owner[i].startedAt] <= scan[p].seen.at
      BY <2>2, <3>1, <3>2 DEF Truthful
    <3>5. dead[owner[i].startedAt] \in 0 .. now
      BY <3>3, <3>4 DEF Known
    <3>6. now - dead[owner[i].startedAt] >= Retention
      BY <3>1, <3>2, <3>4, <3>5 DEF I!LongDead, ProfileInv, ProfileTypes
    <3>7. UNCHANGED <<I!Alive(owner[i]), Known(owner[i])>>
      BY <2>1 DEF I!Alive, Known
    <3>8. profile[i] # I!Malformed
      BY <3>3 DEF OwnerFits
    <3> QED
      BY <2>1, <3>3, <3>4, <3>6, <3>7, <3>8 DEF OwnerFits
  <2> QED
    BY <2>4, <2>5
<1>8. ASSUME NEW j \in Ids, I!DeleteOwned(j) PROVE OwnerFits(i)'
  <2>1. UNCHANGED <<running, starts, dead, owner, logs, now>>
    BY <1>8 DEF I!DeleteOwned
  <2>2. \/ UNCHANGED <<profile, owned>>
        \/ profile' = [profile EXCEPT ![j] = Absent] /\ owned' = owned \ {j}
    BY <1>8 DEF I!DeleteOwned
  <2>3. CASE profile'[i] = profile[i]
    BY <2>1, <2>2, <2>3, OwnerStays
  <2>4. CASE profile'[i] # profile[i]
    <3>1. profile'[i] = Absent /\ i \notin owned'
      BY <2>2, <2>4 DEF ProfileInv, ProfileTypes
    <3>2. UNCHANGED <<I!Alive(owner[i]), Known(owner[i])>>
      BY <2>1 DEF I!Alive, Known
    <3>3. OwnerFits(i)
      BY DEF ProfileInv, OwnersInv
    <3> QED
      BY <2>1, <3>1, <3>2, <3>3 DEF OwnerFits
  <2> QED
    BY <2>3, <2>4
<1> QED
  BY <1>1, <1>2, <1>3, <1>4, <1>5, <1>6, <1>7, <1>8 DEF I!Next

\* What a marker says stays true.
LEMMA TruthStays ==
    ASSUME I!ProfileAssumption, ProfileInv, I!Next, NEW i \in Ids, NEW m \in I!Markers, Truthful(i, m)
    PROVE  Truthful(i, m)'
<1> USE DEF I!ProfileAssumption
<1>1. m.who \in I!Identities /\ owner[i] = m.who /\ owner[i] # Absent
  BY DEF I!Markers, Truthful
<1>2. Known(m.who)
  BY <1>1 DEF ProfileInv, OwnersInv, OwnerFits
<1>3. ~I!Alive(m.who)' /\ dead'[m.who.startedAt] = dead[m.who.startedAt]
  BY <1>1, <1>2, GoneForGood DEF Truthful
<1>4. owner'[i] = owner[i] /\ now <= now'
  BY <1>1, FilesStep
<1>5. now \in Nat /\ now' \in Nat /\ m.at \in Nat
  BY ProfileTypesKept DEF ProfileInv, ProfileTypes, I!Markers
<1> QED
  BY <1>1, <1>3, <1>4, <1>5 DEF Truthful

\* A marker is written by a scan that found the owner dead.
LEMMA MarkersKept ==
    ASSUME I!ProfileAssumption, ProfileInv, I!Next
    PROVE  MarkersInv'
<1> USE DEF I!ProfileAssumption
<1>1. SUFFICES ASSUME NEW i \in Ids, marker'[i] # Absent PROVE Truthful(i, marker[i])'
  BY DEF MarkersInv
<1>2. CASE marker'[i] = marker[i]
  <2>1. PICK m \in I!Markers : m = marker[i] /\ Truthful(i, m)
    BY <1>1, <1>2 DEF ProfileInv, ProfileTypes, MarkersInv
  <2>2. Truthful(i, m)'
    BY <2>1, TruthStays
  <2>3. m = marker'[i]
    BY <1>2, <2>1
  <2> QED
    BY <2>2, <2>3 DEF Truthful
<1>3. ASSUME NEW p \in Pids, I!WriteMarker(p), marker'[i] # marker[i] PROVE Truthful(i, marker[i])'
  <2>1. scan[p].seen \in I!Identities /\ owner[scan[p].id] = scan[p].seen /\ ~I!Alive(scan[p].seen)
        /\ scan[p].id \in Ids
    BY <1>3 DEF I!WriteMarker, I!At, ProfileInv, ScanFits, Remembers, Underway
  <2>2. PICK m \in I!Markers : m = [who |-> scan[p].seen, at |-> now]
    BY <2>1 DEF I!Markers, ProfileInv, ProfileTypes
  <2>3. marker' = [marker EXCEPT ![scan[p].id] = m]
    BY <1>3, <2>2 DEF I!WriteMarker, I!AtomicWrite
  <2>4. i = scan[p].id /\ marker'[i] = m
    BY <1>3, <2>1, <2>3 DEF ProfileInv, ProfileTypes
  <2>5. Known(scan[p].seen)
    BY <2>1 DEF ProfileInv, OwnersInv, OwnerFits
  <2>6. m.who = scan[p].seen /\ m.at = now
    BY <2>2
  <2>7. Truthful(i, m)
    <3>1. dead[scan[p].seen.startedAt] \in 0 .. now /\ now \in Nat
      BY <2>1, <2>5 DEF Known, ProfileInv, ProfileTypes
    <3> QED
      BY <2>1, <2>4, <2>6, <3>1 DEF Truthful
  <2>8. Truthful(i, m)'
    BY <2>7, TruthStays
  <2> QED
    BY <2>4, <2>8 DEF Truthful
<1>4. ASSUME NEW p \in Pids, I!Retain(p) PROVE marker'[i] \in {marker[i], Absent}
  <2>1. marker' = marker \/ marker' = [marker EXCEPT ![scan[p].id] = Absent]
    BY <1>4 DEF I!Retain
  <2> QED
    BY <2>1 DEF ProfileInv, ProfileTypes
<1>5. marker' = marker \/ (\E p \in Pids : I!WriteMarker(p) \/ I!Retain(p))
  BY DEF I!Next, I!Tick, I!StartProcess, I!EndProcess, I!NextId, I!EndScan, I!ReadMarker,
     I!ReadProfile, I!Inspect, I!CheckProfile, I!DeleteProfile, I!WriteProfile, I!DeleteOwned, I!files
<1> QED
  BY <1>1, <1>2, <1>3, <1>4, <1>5


\* The owner of a file stays, also when it is dead; a deleted profile is not written again.
LEMMA OwnerForGood ==
    ASSUME I!ProfileAssumption, ProfileInv, I!Next, NEW i \in Ids, owner[i] # Absent
    PROVE  /\ owner'[i] = owner[i]
           /\ ~I!Alive(owner[i]) => ~I!Alive(owner[i])'
           /\ profile[i] = Absent => profile'[i] = Absent
<1>1. PICK who \in I!Identities : who = owner[i]
  BY DEF ProfileInv, ProfileTypes
<1>2. Known(who)
  BY <1>1 DEF ProfileInv, OwnersInv, OwnerFits
<1>3. owner'[i] = who /\ (profile[i] = Absent => profile'[i] = Absent)
  BY <1>1, FilesStep
<1>4. ~I!Alive(who) => ~I!Alive(who)'
  BY <1>2, GoneForGood
<1> QED
  BY <1>1, <1>3, <1>4 DEF I!Alive

\* What a scan remembers stays true while it does not move.
LEMMA MemoryStays ==
    ASSUME I!ProfileAssumption, ProfileInv, I!Next, NEW q \in Pids, scan'[q] = scan[q]
    PROVE  Remembers(q)'
<1>0. PICK s \in Scans : s = scan[q] /\ s = scan'[q]
  BY DEF ProfileInv, ProfileTypes
<1>1. Remembers(q)
  BY DEF ProfileInv, ScanFits
<1>2. ASSUME s.step \in {"inspect", "mark"} PROVE owner'[s.id] = s.seen
  <2>1. s.id \in Ids /\ s.seen \in I!Identities /\ owner[s.id] = s.seen
    BY <1>0, <1>1, <1>2 DEF Remembers, Underway
  <2> QED
    BY <2>1, OwnerForGood DEF I!ProfileAssumption
<1>3. ASSUME s.step = "mark" PROVE ~I!Alive(s.seen)'
  <2>1. s.id \in Ids /\ s.seen \in I!Identities /\ owner[s.id] = s.seen /\ ~I!Alive(s.seen)
    BY <1>0, <1>1, <1>3 DEF Remembers, Underway
  <2>2. Known(s.seen)
    BY <2>1 DEF ProfileInv, OwnersInv, OwnerFits, I!ProfileAssumption
  <2> QED
    BY <2>1, <2>2, GoneForGood
<1>4. ASSUME s.step \in {"check", "delete", "retain"} PROVE Truthful(s.id, s.seen)'
  <2>1. s.id \in Ids /\ s.seen \in I!Markers /\ Truthful(s.id, s.seen)
    BY <1>0, <1>1, <1>4 DEF Remembers, Underway
  <2> QED
    BY <2>1, TruthStays
<1>5. Truthful(s.id, s.seen)' = Truthful(scan[q].id, scan[q].seen)'
  BY <1>0 DEF Truthful
<1>6. I!Alive(s.seen)' = I!Alive(scan[q].seen)'
  BY <1>0 DEF I!Alive
<1> QED
  BY <1>0, <1>1, <1>2, <1>3, <1>4, <1>5, <1>6 DEF Remembers

\* A scan that met no failure has done, or has still ahead of it, what it had before.
LEMMA ReachesOn ==
    ASSUME I!ProfileAssumption, ProfileInv, I!Next, NEW q \in Pids,
           scan'[q].clean =>
             /\ scan[q].clean /\ scan'[q].due = scan[q].due
             /\ \A i \in scan[q].due :
                  owner[i] # Absent /\ ~I!Alive(owner[i]) /\ Ahead(q, i) => Ahead(q, i)' \/ profile'[i] = Absent
    PROVE  Reaches(q)'
<1>1. Reaches(q) /\ scan[q] \in Scans
  BY DEF ProfileInv, ScanFits, ProfileTypes
<1>2. ASSUME scan'[q].clean, NEW i \in scan'[q].due
      PROVE  owner'[i] # Absent /\ ~I!Alive(owner[i])' /\ (profile'[i] = Absent \/ Ahead(q, i)')
  <2>1. i \in scan[q].due /\ i \in Ids
    BY <1>1, <1>2 DEF Scans
  <2>2. owner[i] # Absent /\ ~I!Alive(owner[i]) /\ (profile[i] = Absent \/ Ahead(q, i))
    BY <1>1, <1>2, <2>1 DEF Reaches
  <2>3. owner'[i] = owner[i] /\ ~I!Alive(owner[i])' /\ (profile[i] = Absent => profile'[i] = Absent)
    BY <2>1, <2>2, OwnerForGood
  <2> QED
    BY <1>2, <2>1, <2>2, <2>3 DEF I!Alive
<1> QED
  BY <1>2 DEF Reaches, I!Alive


\* What a scan remembers is true after each of its steps.
LEMMA ScanMemoryKept ==
    ASSUME I!ProfileAssumption, ProfileInv, I!Next, NEW p \in Pids,
           I!NextId(p) \/ I!EndScan(p) \/ I!ReadMarker(p) \/ I!ReadProfile(p) \/ I!Inspect(p)
           \/ I!WriteMarker(p) \/ I!CheckProfile(p) \/ I!DeleteProfile(p) \/ I!Retain(p)
    PROVE  Remembers(p)'
<1> USE DEF I!ProfileAssumption
<1>0. PICK s \in Scans : s = scan[p]
  BY DEF ProfileInv, ProfileTypes
<1>1. Remembers(p)
  BY DEF ProfileInv, ScanFits
<1>2. ASSUME scan'[p].step = "next" PROVE Remembers(p)'
  BY <1>2 DEF Remembers, Underway
<1>3. CASE I!NextId(p)
  <2>1. PICK j \in s.todo :
          scan' = [scan EXCEPT ![p].step = "marker", ![p].id = j, ![p].todo = @ \ {j}]
    BY <1>0, <1>3 DEF I!NextId
  <2>2. scan'[p].step = "marker" /\ scan'[p].id = j /\ j \in Ids
    BY <1>0, <2>1 DEF Scans, ProfileInv, ProfileTypes
  <2> QED
    BY <2>2 DEF Remembers, Underway
<1>4. CASE I!EndScan(p)
  <2>1. scan'[p].step = "over" /\ scan'[p].todo = {}
    BY <1>0, <1>4 DEF I!EndScan, I!Goto, Scans, ProfileInv, ProfileTypes
  <2> QED
    BY <2>1 DEF Remembers, Underway
<1>5. CASE I!ReadMarker(p)
  <2>1. s.id \in Ids /\ marker' = marker
    BY <1>0, <1>1, <1>5 DEF I!ReadMarker, I!At, Remembers, Underway, I!files
  <2>2. CASE I!Goto(p, "profile")
    <3>1. scan'[p].step = "profile" /\ scan'[p].id = s.id
      BY <1>0, <2>2 DEF I!Goto, Scans, ProfileInv, ProfileTypes
    <3> QED
      BY <2>1, <3>1 DEF Remembers, Underway
  <2>3. CASE I!Read(p, "check", marker[s.id]) /\ marker[s.id] # Absent
    <3>1. PICK m \in I!Markers : m = marker[s.id] /\ Truthful(s.id, m)
      BY <2>1, <2>3 DEF ProfileInv, ProfileTypes, MarkersInv
    <3>2. Truthful(s.id, m)'
      BY <2>1, <3>1, TruthStays
    <3>3. scan'[p].step = "check" /\ scan'[p].id = s.id /\ scan'[p].seen = m
      BY <1>0, <2>3, <3>1 DEF I!Read, Scans, ProfileInv, ProfileTypes
    <3>4. Truthful(scan[p].id, scan[p].seen)'
      BY <3>2, <3>3 DEF Truthful
    <3> QED
      BY <2>1, <3>3, <3>4 DEF Remembers, Underway
  <2> QED
    BY <1>0, <1>5, <2>2, <2>3 DEF I!ReadMarker
<1>6. CASE I!ReadProfile(p)
  <2>1. s.id \in Ids /\ owner' = owner
    BY <1>0, <1>1, <1>6, ScanActions DEF I!ReadProfile, I!At, Remembers, Underway
  <2>2. CASE I!Skip(p) \/ I!GiveUp(p)
    BY <1>0, <1>2, <2>2 DEF I!Skip, I!Goto, I!GiveUp, Scans, ProfileInv, ProfileTypes
  <2>3. CASE I!Read(p, "inspect", profile[s.id]) /\ profile[s.id] \notin {Absent, I!Malformed}
    <3>1. profile[s.id] \in I!Identities /\ owner[s.id] = profile[s.id]
      BY <2>1, <2>3 DEF ProfileInv, ProfileTypes, OwnersInv, OwnerFits
    <3>2. scan'[p].step = "inspect" /\ scan'[p].id = s.id /\ scan'[p].seen = profile[s.id]
      BY <1>0, <2>3 DEF I!Read, Scans, ProfileInv, ProfileTypes
    <3> QED
      BY <2>1, <3>1, <3>2 DEF Remembers, Underway
  <2> QED
    BY <1>0, <1>6, <2>2, <2>3 DEF I!ReadProfile
<1>7. CASE I!Inspect(p)
  <2>1. s.id \in Ids /\ owner' = owner /\ running' = running /\ s.seen \in I!Identities /\ owner[s.id] = s.seen
    BY <1>0, <1>1, <1>7, ScanActions DEF I!Inspect, I!At, Remembers, Underway
  <2>2. CASE I!Skip(p) \/ I!GiveUp(p)
    BY <1>0, <1>2, <2>2 DEF I!Skip, I!Goto, I!GiveUp, Scans, ProfileInv, ProfileTypes
  <2>3. CASE I!Goto(p, "mark") /\ ~I!IsOwner(p, s.seen)
    <3>1. scan'[p].step = "mark" /\ scan'[p].id = s.id /\ scan'[p].seen = s.seen
      BY <1>0, <2>3 DEF I!Goto, Scans, ProfileInv, ProfileTypes
    <3>2. ~I!Alive(scan[p].seen)'
      BY <2>1, <2>3, <3>1 DEF I!IsOwner, I!Alive
    <3> QED
      BY <2>1, <3>1, <3>2 DEF Remembers, Underway
  <2> QED
    BY <1>0, <1>7, <2>2, <2>3 DEF I!Inspect
<1>8. CASE I!WriteMarker(p)
  <2>1. s.id \in Ids /\ s.seen \in I!Identities /\ owner[s.id] = s.seen /\ ~I!Alive(s.seen)
    BY <1>0, <1>1, <1>8 DEF I!WriteMarker, I!At, Remembers, Underway
  <2>2. CASE I!GiveUp(p)
    BY <1>0, <1>2, <2>2 DEF I!GiveUp, Scans, ProfileInv, ProfileTypes
  <2>3. CASE I!Read(p, "check", [who |-> s.seen, at |-> now])
    <3>1. PICK m \in I!Markers : m = [who |-> s.seen, at |-> now]
      BY <2>1 DEF I!Markers, ProfileInv, ProfileTypes
    <3>2. m.who = s.seen /\ m.at = now
      BY <3>1
    <3>3. Known(s.seen)
      BY <2>1 DEF ProfileInv, OwnersInv, OwnerFits
    <3>4. Truthful(s.id, m)
      <4>1. dead[s.seen.startedAt] \in 0 .. now /\ now \in Nat
        BY <2>1, <3>3 DEF Known, ProfileInv, ProfileTypes
      <4> QED
        BY <2>1, <3>2, <4>1 DEF Truthful
    <3>5. Truthful(s.id, m)'
      BY <2>1, <3>4, TruthStays
    <3>6. scan'[p].step = "check" /\ scan'[p].id = s.id /\ scan'[p].seen = m
      BY <1>0, <2>3, <3>1 DEF I!Read, Scans, ProfileInv, ProfileTypes
    <3>7. Truthful(scan[p].id, scan[p].seen)'
      BY <3>5, <3>6 DEF Truthful
    <3> QED
      BY <2>1, <3>6, <3>7 DEF Remembers, Underway
  <2> QED
    BY <1>0, <1>8, <2>2, <2>3 DEF I!WriteMarker
<1>9. CASE I!CheckProfile(p) \/ I!DeleteProfile(p)
  <2>1. s.id \in Ids /\ s.seen \in I!Markers /\ Truthful(s.id, s.seen)
    BY <1>0, <1>1, <1>9 DEF I!CheckProfile, I!DeleteProfile, I!At, Remembers, Underway
  <2>2. CASE I!Skip(p) \/ I!GiveUp(p)
    BY <1>0, <1>2, <2>2 DEF I!Skip, I!Goto, I!GiveUp, Scans, ProfileInv, ProfileTypes
  <2>3. ASSUME NEW y \in {"retain", "delete"}, I!Goto(p, y) PROVE Remembers(p)'
    <3>1. scan'[p].step = y /\ scan'[p].id = s.id /\ scan'[p].seen = s.seen
      BY <1>0, <2>3 DEF I!Goto, Scans, ProfileInv, ProfileTypes
    <3>2. Truthful(s.id, s.seen)'
      BY <2>1, TruthStays
    <3>3. Truthful(scan[p].id, scan[p].seen)'
      BY <3>1, <3>2 DEF Truthful
    <3> QED
      BY <2>1, <3>1, <3>3 DEF Remembers, Underway
  <2> QED
    BY <1>9, <2>2, <2>3 DEF I!CheckProfile, I!DeleteProfile
<1>10. CASE I!Retain(p)
  BY <1>0, <1>2, <1>10 DEF I!Retain, I!Skip, I!Goto, I!GiveUp, Scans, ProfileInv, ProfileTypes
<1> QED
  BY <1>3, <1>4, <1>5, <1>6, <1>7, <1>8, <1>9, <1>10

\* A scan skips none of the owners that were dead when it began, unless it met a failure.
LEMMA ScanReachKept ==
    ASSUME I!ProfileAssumption, ProfileInv, I!Next, NEW p \in Pids,
           I!NextId(p) \/ I!EndScan(p) \/ I!ReadMarker(p) \/ I!ReadProfile(p) \/ I!Inspect(p)
           \/ I!WriteMarker(p) \/ I!CheckProfile(p) \/ I!DeleteProfile(p) \/ I!Retain(p)
    PROVE  Reaches(p)'
<1> USE DEF I!ProfileAssumption
<1>0. PICK s \in Scans : s = scan[p]
  BY DEF ProfileInv, ProfileTypes
<1>1. Remembers(p)
  BY DEF ProfileInv, ScanFits
<1> DEFINE Goes == scan'[p].clean =>
             /\ s.clean /\ scan'[p].due = s.due
             /\ \A i \in s.due :
                  owner[i] # Absent /\ ~I!Alive(owner[i]) /\ Ahead(p, i) => Ahead(p, i)' \/ profile'[i] = Absent
<1>2. ASSUME Goes PROVE Reaches(p)'
  BY <1>0, <1>2, ReachesOn
<1>3. CASE I!NextId(p)
  <2>1. PICK j \in s.todo :
          scan' = [scan EXCEPT ![p].step = "marker", ![p].id = j, ![p].todo = @ \ {j}]
    BY <1>0, <1>3 DEF I!NextId
  <2>2. /\ scan'[p].step = "marker" /\ scan'[p].id = j /\ scan'[p].todo = s.todo \ {j}
        /\ scan'[p].due = s.due /\ scan'[p].clean = s.clean
    BY <1>0, <2>1 DEF Scans, ProfileInv, ProfileTypes
  <2>3. s.step = "next"
    BY <1>0, <1>3 DEF I!NextId, I!At
  <2> QED
    BY <1>0, <1>2, <2>2, <2>3 DEF Ahead, Underway
<1>4. ASSUME NEW y \in ScanSteps, I!Goto(p, y)
      PROVE  /\ scan'[p].step = y /\ scan'[p].id = s.id /\ scan'[p].todo = s.todo
             /\ scan'[p].due = s.due /\ scan'[p].clean = s.clean
  BY <1>0, <1>4 DEF I!Goto, Scans, ProfileInv, ProfileTypes
<1>5. ASSUME NEW y \in ScanSteps, NEW z, I!Read(p, y, z)
      PROVE  /\ scan'[p].step = y /\ scan'[p].id = s.id /\ scan'[p].todo = s.todo
             /\ scan'[p].due = s.due /\ scan'[p].clean = s.clean
  BY <1>0, <1>5 DEF I!Read, Scans, ProfileInv, ProfileTypes
<1>6. ASSUME I!GiveUp(p) PROVE Reaches(p)'
  <2>1. ~scan'[p].clean
    BY <1>0, <1>6 DEF I!GiveUp, Scans, ProfileInv, ProfileTypes
  <2> QED
    BY <2>1 DEF Reaches
<1>7. ASSUME NEW y \in Underway, I!Goto(p, y) \/ \E z : I!Read(p, y, z) PROVE Reaches(p)'
  <2>1. /\ scan'[p].step = y /\ scan'[p].id = s.id /\ scan'[p].todo = s.todo
        /\ scan'[p].due = s.due /\ scan'[p].clean = s.clean
    BY <1>4, <1>5, <1>7 DEF Underway, ScanSteps
  <2> QED
    BY <1>0, <1>2, <2>1 DEF Ahead
\* The scan is done with a lifecycle that is due: its profile is gone.
<1>8. ASSUME NEW y \in ScanSteps, I!Goto(p, y),
             s.id \in s.due /\ owner[s.id] # Absent /\ ~I!Alive(owner[s.id]) => profile'[s.id] = Absent
      PROVE  Reaches(p)'
  <2>1. /\ scan'[p].step = y /\ scan'[p].id = s.id /\ scan'[p].todo = s.todo
        /\ scan'[p].due = s.due /\ scan'[p].clean = s.clean
    BY <1>4, <1>8
  <2> QED
    BY <1>0, <1>2, <1>8, <2>1 DEF Ahead
<1>9. CASE I!EndScan(p) \/ I!Retain(p)
  <2>1. s.step \in {"next", "retain"}
    BY <1>0, <1>9 DEF I!EndScan, I!Retain, I!At
  <2>2. I!GiveUp(p) \/ \E y \in {"over", "next"} : I!Goto(p, y)
    BY <1>9 DEF I!EndScan, I!Retain, I!Skip
  <2>3. ASSUME NEW y \in {"over", "next"}, I!Goto(p, y) PROVE Reaches(p)'
    <3>1. /\ scan'[p].todo = s.todo /\ scan'[p].due = s.due /\ scan'[p].clean = s.clean
      BY <1>4, <2>3 DEF ScanSteps
    <3> QED
      BY <1>0, <1>2, <2>1, <3>1 DEF Ahead, Underway
  <2> QED
    BY <1>6, <2>2, <2>3
<1>10. CASE I!ReadMarker(p)
  BY <1>7, <1>10 DEF I!ReadMarker, Underway
<1>11. CASE I!ReadProfile(p)
  <2>1. s.id \in Ids /\ profile' = profile
    BY <1>0, <1>1, <1>11 DEF I!ReadProfile, I!At, Remembers, Underway, I!files
  <2>2. \/ I!GiveUp(p) \/ I!Read(p, "inspect", profile[s.id])
        \/ profile[s.id] \in {Absent, I!Malformed} /\ I!Goto(p, "next")
    BY <1>0, <1>11 DEF I!ReadProfile, I!Skip
  <2>3. owner[s.id] # Absent => profile[s.id] # I!Malformed
    BY <2>1 DEF ProfileInv, OwnersInv, OwnerFits
  <2> QED
    BY <1>6, <1>7, <1>8, <2>1, <2>2, <2>3 DEF Underway, ScanSteps
<1>12. CASE I!Inspect(p)
  <2>1. owner[s.id] = s.seen
    BY <1>0, <1>1, <1>12 DEF I!Inspect, I!At, Remembers, Underway
  <2>2. I!GiveUp(p) \/ I!Goto(p, "mark") \/ (I!IsOwner(p, s.seen) /\ I!Goto(p, "next"))
    BY <1>0, <1>12 DEF I!Inspect, I!Skip
  <2>3. I!IsOwner(p, s.seen) => I!Alive(owner[s.id])
    BY <2>1 DEF I!IsOwner, I!Alive
  <2> QED
    BY <1>6, <1>7, <1>8, <2>2, <2>3 DEF Underway, ScanSteps
<1>13. CASE I!WriteMarker(p)
  BY <1>6, <1>7, <1>13 DEF I!WriteMarker, Underway
<1>14. CASE I!CheckProfile(p)
  <2>1. s.id \in Ids /\ owner[s.id] = s.seen.who /\ profile' = profile
    BY <1>0, <1>1, <1>14 DEF I!CheckProfile, I!At, Remembers, Underway, I!files, Truthful
  <2>2. \/ I!GiveUp(p) \/ I!Goto(p, "delete")
        \/ profile[s.id] = Absent /\ I!Goto(p, "retain")
        \/ profile[s.id] # s.seen.who /\ I!Goto(p, "next")
    BY <1>0, <1>14 DEF I!CheckProfile, I!Skip
  <2>3. owner[s.id] # Absent => profile[s.id] \in {owner[s.id], Absent}
    BY <2>1 DEF ProfileInv, ProfileTypes, OwnersInv, OwnerFits
  <2> QED
    BY <1>6, <1>7, <1>8, <2>1, <2>2, <2>3 DEF Underway, ScanSteps
<1>15. CASE I!DeleteProfile(p)
  <2>1. s.id \in Ids
    BY <1>0, <1>1, <1>15 DEF I!DeleteProfile, I!At, Remembers, Underway
  <2>2. I!GiveUp(p) \/ (profile' = [profile EXCEPT ![s.id] = Absent] /\ I!Goto(p, "retain"))
    BY <1>0, <1>15 DEF I!DeleteProfile
  <2>3. profile' = [profile EXCEPT ![s.id] = Absent] => profile'[s.id] = Absent
    BY <2>1 DEF ProfileInv, ProfileTypes
  <2> QED
    BY <1>6, <1>8, <2>2, <2>3 DEF ScanSteps
<1> QED
  BY <1>3, <1>9, <1>10, <1>11, <1>12, <1>13, <1>14, <1>15

\* All of this for every scan and every step.
LEMMA ScansKept ==
    ASSUME I!ProfileAssumption, ProfileInv, I!Next, NEW q \in Pids
    PROVE  ScanFits(q)'
<1> USE DEF I!ProfileAssumption
<1>1. ASSUME scan'[q] = scan[q] PROVE ScanFits(q)'
  <2>1. Reaches(q)'
    BY <1>1, ReachesOn DEF Ahead
  <2> QED
    BY <1>1, <2>1, MemoryStays DEF ScanFits
<1>2. ASSUME NEW p \in Pids,
             I!NextId(p) \/ I!EndScan(p) \/ I!ReadMarker(p) \/ I!ReadProfile(p) \/ I!Inspect(p)
             \/ I!WriteMarker(p) \/ I!CheckProfile(p) \/ I!DeleteProfile(p) \/ I!Retain(p)
      PROVE  ScanFits(q)'
  BY <1>1, <1>2, ScanMoves, ScanMemoryKept, ScanReachKept DEF ScanFits
<1>3. ASSUME NEW p \in Pids, I!EndProcess(p) PROVE ScanFits(q)'
  <2>1. CASE q # p
    BY <1>1, <1>3, <2>1 DEF I!EndProcess, ProfileInv, ProfileTypes
  <2>2. CASE q = p
    <3>1. scan'[p] = I!Idle
      BY <1>3 DEF I!EndProcess, ProfileInv, ProfileTypes
    <3> QED
      BY <2>2, <3>1 DEF ScanFits, Remembers, Reaches, I!Idle, Underway
  <2> QED
    BY <2>1, <2>2
<1>4. ASSUME NEW p \in Pids, NEW rhino \in BOOLEAN, I!StartProcess(p, rhino) PROVE ScanFits(q)'
  <2>1. CASE q # p \/ ~rhino
    <3>1. scan'[q] = scan[q]
      BY <1>4, <2>1 DEF I!StartProcess, ProfileInv, ProfileTypes
    <3> QED
      BY <1>1, <3>1
  <2>2. CASE q = p /\ rhino
    <3>1. scan'[p] = [I!Idle EXCEPT !.step = "next", !.todo = I!Found, !.due = I!DeadFiles]
      BY <1>4, <2>2 DEF I!StartProcess, ProfileInv, ProfileTypes
    <3>2. scan'[p].step = "next" /\ scan'[p].todo = I!Found /\ scan'[p].due = I!DeadFiles
      BY <3>1 DEF I!Idle
    <3>3. ASSUME NEW i \in I!DeadFiles
          PROVE  owner'[i] # Absent /\ ~I!Alive(owner[i])' /\ i \in I!Found
      <4>1. i \in Ids /\ profile[i] \in I!Identities /\ ~I!Alive(profile[i])
        BY <3>3 DEF I!DeadFiles
      <4>2. owner[i] = profile[i] /\ i \in I!Found
        BY <4>1 DEF ProfileInv, OwnersInv, OwnerFits, I!Found
      <4>3. owner[i] # Absent
        BY <4>1, <4>2
      <4> QED
        BY <4>1, <4>2, <4>3, OwnerForGood
    <3>4. Reaches(p)'
      BY <3>2, <3>3 DEF Reaches, Ahead
    <3> QED
      BY <2>2, <3>2, <3>4 DEF ScanFits, Remembers, Underway
  <2> QED
    BY <2>1, <2>2
<1>5. CASE I!Tick \/ (\E j \in Ids : I!DeleteOwned(j)) \/ (\E p \in Pids, j \in Ids : I!WriteProfile(p, j))
  <2>1. scan' = scan
    BY <1>5 DEF I!Tick, I!DeleteOwned, I!WriteProfile
  <2> QED
    BY <1>1, <2>1
<1> QED
  BY <1>2, <1>3, <1>4, <1>5 DEF I!Next


\* The profiles in the composed run: the other parts leave them alone.
LEMMA ProfileInvariant == TurnsSpec => []ProfileInv
<1> USE TurnsAssumption DEF TurnsAssumption
<1>1. TurnsInit => ProfileInv
  BY ProfileInit DEF TurnsInit
<1>2. ASSUME ProfileInv, [TurnsNext]_all PROVE ProfileInv'
  <2>1. CASE I!Next
    <3>1. OwnersInv' /\ (\A p \in Pids : ScanFits(p))'
      BY <1>2, <2>1, OwnersKept, ScansKept DEF OwnersInv
    <3> QED
      BY <1>2, <2>1, <3>1, ProfileTypesKept, ProcessesKept, MarkersKept DEF ProfileInv
  <2>2. CASE UNCHANGED profileVars
    BY <1>2, <2>2 DEF profileVars, ProfileInv, ProfileTypes, ProcessesInv, OwnersInv, OwnerFits, Known,
       MarkersInv, Truthful, ScanFits, Remembers, Reaches, Ahead, I!Alive
  <2> QED
    BY <1>2, <2>1, <2>2 DEF TurnsNext, all
<1> QED
  BY <1>1, <1>2, PTL DEF TurnsSpec

\* A scan takes no profile from an instance whose process runs and no logs of one that has
\* not been dead for the retention time; without failures it leaves no key of an owner that
\* was dead when it began, also when the process ID is in use again.
THEOREM OnlyTheDeadAreTaken == TurnsSpec => []ScansTakeTheDead
<1>1. ASSUME ProfileInv PROVE I!ScansTakeTheDead
  <2>1. \A i \in Ids : OwnerFits(i)
    BY <1>1 DEF ProfileInv, OwnersInv
  <2>2. ASSUME NEW p \in Pids, I!At(p, "over"), scan[p].clean, NEW i \in scan[p].due
        PROVE profile[i] = Absent
    BY <1>1, <2>2 DEF ProfileInv, ScanFits, Remembers, Reaches, Ahead, Underway, I!At
  <2> QED
    BY <2>1, <2>2 DEF OwnerFits, I!ScansTakeTheDead
<1> QED
  BY <1>1, ProfileInvariant, PTL DEF ScansTakeTheDead

-----------------------------------------------------------------------------
(* The steering inputs of a task, for any number of inputs, turns, failures *)
(* and restarts.                                                            *)

Inputs == [turn : Nat, state : S!States]
SteeringTypes ==
    /\ task \in {"running", "suspending", "awaiting_user", "over"}
    /\ inputTurn \in Nat
    /\ driver \in {"creating", "failed", "run", "ran", "cleaning", "gone"}
    /\ step \in {"new", "sending", "sent", "failed"}
    /\ promise \in {"none", "pending", "resolved", "rejected"}
    /\ inputs \in Seq(Inputs)
    /\ chain \in Seq(1 .. Len(inputs))
    /\ messages \in Seq(1 .. Len(inputs))
    /\ consumed \subseteq 1 .. Len(inputs)

\* Every earlier input of its turn is settled, and stays so.
Ready(j) ==
    \A i \in 1 .. j - 1 :
        inputs[i].turn = inputs[j].turn => inputs[i].state \in {"applied", "not_applied"}

\* The input that is being delivered, and what its promise says of it.
DeliveryInv ==
    /\ step = "new" <=> promise = "none"
    /\ step # "new" =>
         /\ chain # <<>>
         /\ inputs[S!First].state \in {"delivering", "unknown"}
         /\ Ready(S!First)
    /\ promise = "resolved" => step = "sent" /\ S!First \in consumed
    /\ promise \in {"pending", "rejected"} => S!First \notin consumed

\* While the model's loop runs, only the input that is being delivered can be queued.
SessionInv ==
    /\ driver \in {"creating", "failed", "gone"} => messages = <<>>
    /\ driver \in {"creating", "failed"} /\ step # "new" => inputs[S!First].turn # inputTurn
    /\ driver = "run" /\ messages # <<>> =>
         messages = <<S!First>> /\ step = "sent" /\ promise = "pending"
    /\ driver = "run" /\ step # "new" /\ inputs[S!First].turn = inputTurn =>
         promise \in {"pending", "resolved"}

JournalInv ==
    /\ driver = "gone" => task \in {"awaiting_user", "over"}
    /\ \A i \in 1 .. Len(inputs) :
         /\ inputs[i].turn <= inputTurn
         /\ inputs[i].state = "applied" => i \in consumed
         /\ inputs[i].state \in {"accepted", "not_applied"} => i \notin consumed
         /\ inputs[i].state \in {"accepted", "delivering"} =>
              task \in {"running", "suspending"} /\ inputs[i].turn = inputTurn
    /\ \A j \in consumed : Ready(j)

SteeringInv == SteeringTypes /\ DeliveryInv /\ SessionInv /\ JournalInv


\* Nothing has been sent to the task.
LEMMA SteeringInit == ASSUME S!SteeringAssumption PROVE S!Init => SteeringInv
  BY DEF S!Init, SteeringInv, SteeringTypes, DeliveryInv, SessionInv, JournalInv

\* The journal marks an input: its turn stays, and the others stay as they are.
LEMMA MarkEffect ==
    ASSUME inputs \in Seq(Inputs), NEW i \in 1 .. Len(inputs), NEW x \in S!States, S!Mark(i, x)
    PROVE  /\ inputs' \in Seq(Inputs) /\ Len(inputs') = Len(inputs)
           /\ \A j \in 1 .. Len(inputs) :
                inputs'[j].turn = inputs[j].turn /\ inputs'[j].state = (IF j = i THEN x ELSE inputs[j].state)
<1>0. inputs[i] \in Inputs
  OBVIOUS
<1>1. inputs[i] \in Inputs /\ [inputs[i] EXCEPT !.state = x] \in Inputs
  BY <1>0 DEF Inputs
<1>2. inputs' = [inputs EXCEPT ![i] = [inputs[i] EXCEPT !.state = x]]
  BY <1>1 DEF S!Mark
<1>3. inputs' \in Seq(Inputs) /\ Len(inputs') = Len(inputs)
  BY <1>1, <1>2
<1>4. \A j \in 1 .. Len(inputs) : inputs'[j] = (IF j = i THEN [inputs[i] EXCEPT !.state = x] ELSE inputs[j])
  BY <1>1, <1>2
<1>5. [inputs[i] EXCEPT !.state = x].state = x /\ [inputs[i] EXCEPT !.state = x].turn = inputs[i].turn
  BY <1>1 DEF Inputs
<1> QED
  BY <1>3, <1>4, <1>5

\* The journal retires the open inputs of the current turn.
LEMMA RetireEffect ==
    ASSUME inputs \in Seq(Inputs), S!Retire
    PROVE  /\ inputs' \in Seq(Inputs) /\ Len(inputs') = Len(inputs)
           /\ \A j \in 1 .. Len(inputs) :
                /\ inputs'[j].turn = inputs[j].turn
                /\ inputs[j].turn # inputTurn => inputs'[j].state = inputs[j].state
                /\ inputs[j].turn = inputTurn => inputs'[j].state = S!Retired(inputs[j].state)
<1>0. DOMAIN inputs = 1 .. Len(inputs)
  OBVIOUS
<1>1. ASSUME NEW x \in S!States PROVE S!Retired(x) \in S!States
  BY <1>1 DEF S!Retired, S!States
<1>2. ASSUME NEW j \in 1 .. Len(inputs)
      PROVE  /\ inputs'[j] \in Inputs
             /\ inputs'[j].turn = inputs[j].turn
             /\ inputs[j].turn # inputTurn => inputs'[j].state = inputs[j].state
             /\ inputs[j].turn = inputTurn => inputs'[j].state = S!Retired(inputs[j].state)
  <2>1. inputs[j] \in Inputs
    OBVIOUS
  <2>2. CASE inputs[j].turn = inputTurn
    <3>1. inputs'[j] = [inputs[j] EXCEPT !.state = S!Retired(@)]
      BY <1>0, <2>2 DEF S!Retire
    <3>2. [inputs[j] EXCEPT !.state = S!Retired(@)] = [turn |-> inputs[j].turn, state |-> S!Retired(inputs[j].state)]
      BY <2>1 DEF Inputs
    <3>3. S!Retired(inputs[j].state) \in S!States
      BY <1>1, <2>1 DEF Inputs
    <3> QED
      BY <2>1, <2>2, <3>1, <3>2, <3>3 DEF Inputs
  <2>3. CASE inputs[j].turn # inputTurn
    BY <1>0, <2>1, <2>3 DEF S!Retire
  <2> QED
    BY <2>2, <2>3
<1>3. DOMAIN inputs' = 1 .. Len(inputs)
  BY <1>0 DEF S!Retire
<1>4. inputs' = [j \in 1 .. Len(inputs) |-> inputs'[j]]
  BY <1>0 DEF S!Retire
<1>5. inputs' \in [1 .. Len(inputs) -> Inputs]
  BY <1>2, <1>3, <1>4, Zenon
<1>6. inputs' \in Seq(Inputs) /\ Len(inputs') = Len(inputs)
  BY <1>5, SeqDef
<1> QED
  BY <1>2, <1>6


\* The journal: an input is accepted for the current turn, a person cancels or answers.
LEMMA JournalStepKeeps ==
    ASSUME S!SteeringAssumption, SteeringInv, S!Accept \/ S!Cancel \/ S!Answer
    PROVE  SteeringInv'
<1> USE DEF S!SteeringAssumption
<1>1. CASE S!Accept
  <2>1. /\ inputs' = Append(inputs, [turn |-> inputTurn, state |-> "accepted"])
        /\ chain' = Append(chain, Len(inputs) + 1)
        /\ task = "running"
        /\ UNCHANGED <<task, inputTurn, driver, step, promise, messages, consumed>>
    BY <1>1 DEF S!Accept, S!journal, SteeringInv, SteeringTypes
  <2>2. /\ inputs' \in Seq(Inputs) /\ Len(inputs') = Len(inputs) + 1
        /\ \A i \in 1 .. Len(inputs) : inputs'[i] = inputs[i]
        /\ inputs'[Len(inputs) + 1] = [turn |-> inputTurn, state |-> "accepted"]
    <3>1. [turn |-> inputTurn, state |-> "accepted"] \in Inputs
      BY DEF SteeringInv, SteeringTypes, Inputs, S!States
    <3> QED
      BY <2>1, <3>1 DEF SteeringInv, SteeringTypes
  <2>3. Len(inputs) \in Nat /\ 1 .. Len(inputs) \subseteq 1 .. Len(inputs')
    BY <2>2 DEF SteeringInv, SteeringTypes
  <2>4. SteeringTypes'
    <3>1. chain \in Seq(1 .. Len(inputs')) /\ messages \in Seq(1 .. Len(inputs'))
      BY <2>3, SeqMonotonic DEF SteeringInv, SteeringTypes
    <3>2. Len(inputs) + 1 \in 1 .. Len(inputs')
      BY <2>2, <2>3
    <3> QED
      BY <2>1, <2>2, <2>3, <3>1, <3>2 DEF SteeringInv, SteeringTypes
  <2>5. chain # <<>> => chain' # <<>> /\ chain'[1] = chain[1] /\ chain[1] \in 1 .. Len(inputs)
    BY <2>1 DEF SteeringInv, SteeringTypes
  <2>6. ASSUME NEW j \in 1 .. Len(inputs), Ready(j) PROVE Ready(j)'
    BY <2>2, <2>3, <2>6 DEF Ready
  <2>7. step # "new" \/ promise # "none" => chain # <<>> /\ step # "new" /\ promise # "none"
    BY DEF SteeringInv, DeliveryInv
  <2>8. step # "new" => Ready(S!First)'
    <3>1. SUFFICES ASSUME step # "new" PROVE Ready(S!First)'
      OBVIOUS
    <3>2. PICK j \in 1 .. Len(inputs) : j = chain[1] /\ j = chain'[1] /\ Ready(j)
      BY <2>5, <2>7, <3>1 DEF SteeringInv, DeliveryInv, S!First
    <3>3. Ready(j)'
      BY <3>2, <2>6
    <3> QED
      BY <3>2, <3>3 DEF Ready, S!First
  <2>9. DeliveryInv'
    BY <2>1, <2>2, <2>5, <2>7, <2>8 DEF SteeringInv, DeliveryInv, S!First
  <2>10. SessionInv'
    BY <2>1, <2>2, <2>5, <2>7 DEF SteeringInv, SessionInv, S!First
  <2>11. JournalInv'
    <3>1. ASSUME NEW j \in consumed PROVE Ready(j)'
      BY <2>6 DEF SteeringInv, SteeringTypes, JournalInv
    <3>2. \A i \in 1 .. Len(inputs') : i \in 1 .. Len(inputs) \/ i = Len(inputs) + 1
      BY <2>2, <2>3
    <3>3. Len(inputs) + 1 \notin consumed /\ inputTurn \in Nat
      BY <2>3 DEF SteeringInv, SteeringTypes
    <3>4. inputs'[Len(inputs) + 1].turn = inputTurn /\ inputs'[Len(inputs) + 1].state = "accepted"
      BY <2>2
    <3>5. task = "running" /\ task' = task /\ inputTurn' = inputTurn /\ consumed' = consumed /\ driver' = driver
      BY <2>1
    <3>6. JournalInv
      BY DEF SteeringInv
    <3>7. ASSUME NEW i \in 1 .. Len(inputs')
          PROVE  /\ inputs'[i].turn <= inputTurn
                 /\ inputs'[i].state = "applied" => i \in consumed
                 /\ inputs'[i].state \in {"accepted", "not_applied"} => i \notin consumed
                 /\ inputs'[i].state \in {"accepted", "delivering"} => inputs'[i].turn = inputTurn
      <4>1. CASE i \in 1 .. Len(inputs)
        BY <2>2, <3>6, <4>1 DEF JournalInv
      <4>2. CASE i = Len(inputs) + 1
        BY <3>3, <3>4, <4>2
      <4> QED
        BY <3>2, <4>1, <4>2
    <3> QED
      BY <3>1, <3>5, <3>6, <3>7 DEF JournalInv
  <2> QED
    BY <2>4, <2>9, <2>10, <2>11 DEF SteeringInv
<1>2. CASE S!Cancel
  <2>1. /\ UNCHANGED <<inputTurn, driver, step, promise, inputs, chain, messages, consumed>>
        /\ task' = task \/ (driver = "gone" /\ task' = "over")
    BY <1>2 DEF S!Cancel, S!delivery
  <2> QED
    BY <2>1 DEF SteeringInv, SteeringTypes, DeliveryInv, SessionInv, JournalInv, Ready, S!First
<1>3. CASE S!Answer
  <2>1. /\ UNCHANGED <<step, promise, inputs, chain, messages, consumed>>
        /\ task = "awaiting_user" /\ driver = "gone" /\ task' = "running"
        /\ inputTurn' = inputTurn + 1 /\ driver' = "creating"
    BY <1>3 DEF S!Answer, S!delivery
  <2>2. step # "new" => chain[1] \in 1 .. Len(inputs)
    BY DEF SteeringInv, SteeringTypes, DeliveryInv
  <2>3. \A i \in 1 .. Len(inputs) : inputs[i].turn \in Nat /\ inputs[i].turn <= inputTurn
    <3>1. \A i \in 1 .. Len(inputs) : inputs[i] \in Inputs
      BY DEF SteeringInv, SteeringTypes
    <3> QED
      BY <3>1 DEF SteeringInv, JournalInv, Inputs
  <2>4. inputTurn \in Nat
    BY DEF SteeringInv, SteeringTypes
  <2>5. SteeringTypes' /\ DeliveryInv'
    BY <2>1 DEF SteeringInv, SteeringTypes, DeliveryInv, Ready, S!First
  <2>6. SessionInv'
    BY <2>1, <2>2, <2>3, <2>4 DEF SteeringInv, SessionInv, S!First
  <2>7. JournalInv'
    BY <2>1, <2>3, <2>4 DEF SteeringInv, JournalInv, Ready
  <2> QED
    BY <2>5, <2>6, <2>7 DEF SteeringInv
<1> QED
  BY <1>1, <1>2, <1>3


\* The delivery of the first input of the chain.
LEMMA DeliveryStepKeeps ==
    ASSUME S!SteeringAssumption, SteeringInv, S!Deliver \/ S!Enqueue \/ S!Delivered
    PROVE  SteeringInv'
<1> USE DEF S!SteeringAssumption
<1>0. SteeringTypes /\ DeliveryInv /\ SessionInv /\ JournalInv
  BY DEF SteeringInv
<1>1. ASSUME chain # <<>> PROVE S!First \in 1 .. Len(inputs) /\ Tail(chain) \in Seq(1 .. Len(inputs))
  BY <1>0, <1>1 DEF SteeringTypes, S!First
\* Without a delivery under way nothing is said of the first input.
<1>2. ASSUME S!Pop, chain # <<>>, Len(inputs') = Len(inputs), inputs' \in Seq(Inputs),
             driver = "run" => messages = <<>>,
             UNCHANGED <<task, inputTurn, driver, messages, consumed>>,
             JournalInv'
      PROVE  SteeringInv'
  <2>1. SteeringTypes'
    BY <1>0, <1>1, <1>2 DEF SteeringTypes, S!Pop
  <2>2. DeliveryInv' /\ SessionInv'
    BY <1>0, <1>2 DEF DeliveryInv, SessionInv, S!Pop
  <2> QED
    BY <1>2, <2>1, <2>2 DEF SteeringInv
<1>3. CASE S!Deliver
  <2>1. /\ chain # <<>> /\ step = "new"
        /\ UNCHANGED <<task, inputTurn, driver, messages, consumed>>
    BY <1>3 DEF S!Deliver, S!journal
  <2>2. driver = "run" => messages = <<>>
    BY <1>0, <2>1 DEF SessionInv
  <2>3. CASE S!Pop /\ UNCHANGED inputs
    <3>1. JournalInv'
      BY <1>0, <2>1, <2>3 DEF JournalInv, Ready
    <3> QED
      BY <1>0, <1>2, <2>1, <2>2, <2>3, <3>1 DEF SteeringTypes
  <2>4. CASE /\ ~S!GivesUp /\ driver \notin {"creating", "failed"} /\ S!Mark(S!First, "delivering")
             /\ step' = "sending" /\ promise' = "pending" /\ UNCHANGED chain
    <3>0. PICK f \in 1 .. Len(inputs) : f = S!First
      BY <1>1, <2>1
    <3>1. inputs[f].state = "accepted" /\ driver # "gone" /\ ~S!Blocked(f)
      BY <2>4, <3>0 DEF S!GivesUp
    <3>2. /\ inputs' \in Seq(Inputs) /\ Len(inputs') = Len(inputs)
          /\ \A j \in 1 .. Len(inputs) :
               /\ inputs'[j].turn = inputs[j].turn
               /\ inputs'[j].state = (IF j = f THEN "delivering" ELSE inputs[j].state)
      BY <1>0, <2>4, <3>0, MarkEffect DEF SteeringTypes, S!States
    <3>3. f = S!First'
      BY <2>4, <3>0 DEF S!First
    <3>4. Len(inputs) \in Nat
      BY <1>0 DEF SteeringTypes
    <3>5. ASSUME NEW j \in 1 .. Len(inputs), Ready(j) PROVE Ready(j)'
      <4>1. ASSUME NEW i \in 1 .. j - 1, inputs'[i].turn = inputs'[j].turn
            PROVE  inputs'[i].state \in {"applied", "not_applied"}
        <5>1. i \in 1 .. Len(inputs) /\ inputs[i].turn = inputs[j].turn
          BY <3>2, <3>4, <4>1
        <5>2. inputs[i].state \in {"applied", "not_applied"}
          BY <3>5, <5>1 DEF Ready
        <5> QED
          BY <3>1, <3>2, <5>1, <5>2
      <4> QED
        BY <4>1 DEF Ready
    <3>6. Ready(f)
      BY <3>1 DEF Ready, S!Blocked
    <3>7. Ready(f)' /\ inputs'[f].state = "delivering"
      BY <3>2, <3>5, <3>6
    <3>8. f \notin consumed
      BY <1>0, <3>1 DEF JournalInv
    <3>9. SteeringTypes'
      BY <1>0, <2>1, <2>4, <3>2 DEF SteeringTypes
    <3>10. DeliveryInv'
      <4>1. Ready(S!First)'
        BY <3>3, <3>7 DEF Ready
      <4> QED
        BY <2>1, <2>4, <3>3, <3>7, <3>8, <4>1 DEF DeliveryInv, S!First
    <3>11. SessionInv'
      BY <1>0, <2>1, <2>2, <2>4, <3>1 DEF SessionInv
    <3>12. JournalInv'
      <4>1. ASSUME NEW j \in consumed PROVE Ready(j)'
        BY <1>0, <3>5 DEF SteeringTypes, JournalInv
      <4>2. ASSUME NEW i \in 1 .. Len(inputs)
            PROVE  /\ inputs'[i].turn <= inputTurn
                   /\ inputs'[i].state = "applied" => i \in consumed
                   /\ inputs'[i].state \in {"accepted", "not_applied"} => i \notin consumed
                   /\ inputs'[i].state \in {"accepted", "delivering"} =>
                        task \in {"running", "suspending"} /\ inputs'[i].turn = inputTurn
        BY <1>0, <3>1, <3>2 DEF JournalInv
      <4> QED
        BY <1>0, <2>1, <3>2, <4>1, <4>2 DEF JournalInv
    <3> QED
      BY <3>9, <3>10, <3>11, <3>12 DEF SteeringInv
  <2> QED
    BY <1>3, <2>3, <2>4 DEF S!Deliver
<1>4. CASE S!Enqueue
  <2>0. PICK f \in 1 .. Len(inputs) : f = S!First
    BY <1>0, <1>1, <1>4 DEF S!Enqueue, DeliveryInv
  <2>1. /\ step = "sending"
        /\ UNCHANGED <<task, inputTurn, driver, inputs, chain, promise, consumed>>
        /\ \/ /\ step' = "sent"
              /\ messages' = (IF inputs[f].turn = inputTurn /\ driver # "gone" THEN Append(messages, f) ELSE messages)
           \/ step' = "failed" /\ messages' = messages
    BY <1>4, <2>0 DEF S!Enqueue, S!journal
  <2>2. SteeringTypes' /\ JournalInv' /\ UNCHANGED S!First
    <3>1. messages' \in Seq(1 .. Len(inputs))
      <4>1. messages' = messages \/ messages' = Append(messages, f)
        BY <2>1
      <4>2. messages \in Seq(1 .. Len(inputs))
        BY <1>0 DEF SteeringTypes
      <4> QED
        BY <2>0, <4>1, <4>2, AppendProperties
    <3>2. step' \in {"sent", "failed"}
      BY <2>1
    <3>3. SteeringTypes'
      BY <1>0, <2>1, <3>1, <3>2 DEF SteeringTypes
    <3>4. JournalInv' /\ UNCHANGED S!First
      BY <1>0, <2>1 DEF JournalInv, Ready, S!First
    <3> QED
      BY <3>3, <3>4
  <2>3. promise \in {"pending", "rejected"}
    BY <1>0, <2>1 DEF DeliveryInv, SteeringTypes
  <2>4. DeliveryInv'
    BY <1>0, <2>1, <2>2, <2>3 DEF DeliveryInv, Ready, S!First
  <2>5. SessionInv'
    <3>1. driver = "run" => messages = <<>>
      BY <1>0, <2>1 DEF SessionInv
    <3>2. Append(<<>>, f) = <<f>>
      OBVIOUS
    <3> QED
      BY <1>0, <2>0, <2>1, <2>2, <2>3, <3>1, <3>2 DEF SessionInv, S!First
  <2> QED
    BY <2>2, <2>4, <2>5 DEF SteeringInv
<1>5. CASE S!Delivered
  <2>1. step # "new" /\ S!Pop /\ UNCHANGED <<task, inputTurn, driver, messages, consumed>>
    BY <1>5 DEF S!Delivered, S!journal
  <2>0. PICK f \in 1 .. Len(inputs) : f = S!First
    BY <1>0, <1>1, <2>1 DEF DeliveryInv
  <2>2. chain # <<>> /\ inputs[f].state \in {"delivering", "unknown"} /\ Ready(f)
    BY <1>0, <2>0, <2>1 DEF DeliveryInv
  <2>3. driver = "run" => messages = <<>>
    BY <1>0, <1>5 DEF SessionInv, S!Delivered
  <2>4. CASE UNCHANGED inputs
    <3>1. JournalInv'
      BY <1>0, <2>1, <2>4 DEF JournalInv, Ready
    <3> QED
      BY <1>0, <1>2, <2>1, <2>2, <2>3, <2>4, <3>1 DEF SteeringTypes
  <2>5. ASSUME NEW x \in {"applied", "not_applied"}, S!Mark(f, x),
               x = "applied" => f \in consumed, x = "not_applied" => f \notin consumed
        PROVE  SteeringInv'
    <3>1. /\ inputs' \in Seq(Inputs) /\ Len(inputs') = Len(inputs)
          /\ \A j \in 1 .. Len(inputs) :
               /\ inputs'[j].turn = inputs[j].turn
               /\ inputs'[j].state = (IF j = f THEN x ELSE inputs[j].state)
      BY <1>0, <2>5, MarkEffect DEF SteeringTypes, S!States
    <3>2. Len(inputs) \in Nat
      BY <1>0 DEF SteeringTypes
    <3>3. ASSUME NEW j \in consumed PROVE Ready(j)'
      <4>1. Ready(j) /\ j \in 1 .. Len(inputs)
        BY <1>0 DEF SteeringTypes, JournalInv
      <4>2. ASSUME NEW i \in 1 .. j - 1, inputs'[i].turn = inputs'[j].turn
            PROVE  inputs'[i].state \in {"applied", "not_applied"}
        <5>1. i \in 1 .. Len(inputs) /\ inputs[i].turn = inputs[j].turn
          BY <3>1, <3>2, <4>1, <4>2
        <5>2. inputs[i].state \in {"applied", "not_applied"}
          BY <4>1, <5>1 DEF Ready
        <5> QED
          BY <3>1, <5>1, <5>2
      <4> QED
        BY <4>2 DEF Ready
    <3>4. ASSUME NEW i \in 1 .. Len(inputs)
          PROVE  /\ inputs'[i].turn <= inputTurn
                 /\ inputs'[i].state = "applied" => i \in consumed
                 /\ inputs'[i].state \in {"accepted", "not_applied"} => i \notin consumed
                 /\ inputs'[i].state \in {"accepted", "delivering"} =>
                      task \in {"running", "suspending"} /\ inputs'[i].turn = inputTurn
      BY <1>0, <2>5, <3>1 DEF JournalInv
    <3>5. JournalInv'
      BY <1>0, <2>1, <3>1, <3>3, <3>4 DEF JournalInv
    <3> QED
      BY <1>2, <2>1, <2>2, <2>3, <3>1, <3>5
  <2>6. \/ promise = "resolved" /\ S!Mark(f, "applied")
        \/ promise = "rejected" /\ S!Mark(f, "not_applied")
        \/ UNCHANGED inputs
    BY <1>5, <2>0 DEF S!Delivered
  <2>7. (promise = "resolved" => f \in consumed) /\ (promise = "rejected" => f \notin consumed)
    BY <1>0, <2>0 DEF DeliveryInv
  <2> QED
    BY <2>4, <2>5, <2>6, <2>7
<1> QED
  BY <1>3, <1>4, <1>5

\* The journal retires what is left of a turn that is over, or waits for an answer.
LEMMA RetireKeeps ==
    ASSUME SteeringInv, S!Retire, UNCHANGED <<inputTurn, consumed>>,
           driver' = "gone" => task' \in {"awaiting_user", "over"}
    PROVE  JournalInv' /\ \A j \in 1 .. Len(inputs) : Ready(j) => Ready(j)'
<1>0. SteeringTypes /\ JournalInv
  BY DEF SteeringInv
<1>1. /\ inputs' \in Seq(Inputs) /\ Len(inputs') = Len(inputs)
      /\ \A j \in 1 .. Len(inputs) :
           /\ inputs'[j].turn = inputs[j].turn
           /\ inputs[j].turn # inputTurn => inputs'[j].state = inputs[j].state
           /\ inputs[j].turn = inputTurn => inputs'[j].state = S!Retired(inputs[j].state)
  BY <1>0, RetireEffect DEF SteeringTypes
<1>2. Len(inputs) \in Nat
  BY <1>0 DEF SteeringTypes
<1>3. ASSUME NEW x \in S!States
      PROVE  /\ S!Retired(x) \notin {"accepted", "delivering"}
             /\ S!Retired(x) = "applied" => x = "applied"
             /\ S!Retired(x) = "not_applied" => x \in {"accepted", "not_applied"}
             /\ x \in {"applied", "not_applied"} => S!Retired(x) = x
  BY <1>3 DEF S!Retired, S!States
<1>4. \A i \in 1 .. Len(inputs) : inputs[i].state \in S!States
  <2>1. \A i \in 1 .. Len(inputs) : inputs[i] \in Inputs
    BY <1>0 DEF SteeringTypes
  <2> QED
    BY <2>1 DEF Inputs
<1>5. ASSUME NEW j \in 1 .. Len(inputs), Ready(j) PROVE Ready(j)'
  <2>1. ASSUME NEW i \in 1 .. j - 1, inputs'[i].turn = inputs'[j].turn
        PROVE  inputs'[i].state \in {"applied", "not_applied"}
    <3>1. i \in 1 .. Len(inputs) /\ inputs[i].turn = inputs[j].turn
      BY <1>1, <1>2, <2>1
    <3>2. inputs[i].state \in {"applied", "not_applied"}
      BY <1>5, <3>1 DEF Ready
    <3> QED
      BY <1>1, <1>3, <1>4, <3>1, <3>2
  <2> QED
    BY <2>1 DEF Ready
<1>6. ASSUME NEW i \in 1 .. Len(inputs)
      PROVE  /\ inputs'[i].turn <= inputTurn
             /\ inputs'[i].state = "applied" => i \in consumed
             /\ inputs'[i].state \in {"accepted", "not_applied"} => i \notin consumed
             /\ inputs'[i].state \notin {"accepted", "delivering"}
  <2>1. CASE inputs[i].turn = inputTurn
    BY <1>0, <1>1, <1>3, <1>4, <2>1 DEF JournalInv
  <2>2. CASE inputs[i].turn # inputTurn
    BY <1>0, <1>1, <2>2 DEF JournalInv
  <2> QED
    BY <2>1, <2>2
<1>7. ASSUME NEW j \in consumed PROVE Ready(j)'
  BY <1>0, <1>5 DEF SteeringTypes, JournalInv
<1> QED
  BY <1>1, <1>5, <1>6, <1>7 DEF JournalInv


\* The driver, its session, the end of a turn and the end of the host.
LEMMA DriverStepKeeps ==
    ASSUME S!SteeringAssumption, SteeringInv,
           S!DriverStarts \/ S!StartFails \/ S!Consume \/ S!Ask \/ S!RunEnds \/ S!Cleanup
    PROVE  SteeringInv'
<1> USE DEF S!SteeringAssumption
<1>0. SteeringTypes /\ DeliveryInv /\ SessionInv /\ JournalInv
  BY DEF SteeringInv
<1>1. CASE S!DriverStarts \/ S!StartFails
  <2>1. /\ UNCHANGED <<task, inputTurn, inputs, chain, step, promise, messages, consumed>>
        /\ driver = "creating" /\ driver' \in {"run", "ran", "failed"}
    BY <1>1 DEF S!DriverStarts, S!StartFails, S!Drive, S!journal, S!delivery
  <2> QED
    BY <1>0, <2>1 DEF SteeringInv, SteeringTypes, DeliveryInv, SessionInv, JournalInv, Ready, S!First
<1>2. CASE S!Consume
  <2>1. /\ driver = "run" /\ messages # <<>>
        /\ consumed' = consumed \cup {Head(messages)} /\ messages' = Tail(messages)
        /\ UNCHANGED <<task, inputTurn, driver, inputs, chain, step>>
    BY <1>2 DEF S!Consume, S!journal
  <2>2. messages = <<S!First>> /\ step = "sent" /\ promise = "pending" /\ chain # <<>>
    BY <1>0, <2>1 DEF DeliveryInv, SessionInv
  <2>3. PICK f \in 1 .. Len(inputs) : f = S!First
    BY <1>0, <2>2 DEF SteeringTypes, S!First
  <2>4. consumed' = consumed \cup {f} /\ messages' = <<>>
    BY <2>1, <2>2, <2>3
  <2>5. promise' = "resolved"
    BY <1>2, <2>2 DEF S!Consume
  <2>6. UNCHANGED S!First
    BY <2>1 DEF S!First
  <2>7. inputs[f].state \in {"delivering", "unknown"} /\ Ready(f)
    BY <1>0, <2>2, <2>3 DEF DeliveryInv
  <2>8. SteeringTypes'
    <3>1. messages' \in Seq(1 .. Len(inputs))
      BY <2>4
    <3>2. consumed' \subseteq 1 .. Len(inputs)
      BY <1>0, <2>3, <2>4 DEF SteeringTypes
    <3> QED
      BY <1>0, <2>1, <2>5, <3>1, <3>2 DEF SteeringTypes
  <2>9. DeliveryInv' /\ SessionInv'
    BY <1>0, <2>1, <2>2, <2>3, <2>4, <2>5, <2>6 DEF DeliveryInv, SessionInv, Ready, S!First
  <2>10. JournalInv'
    BY <1>0, <2>1, <2>4, <2>7 DEF JournalInv, Ready
  <2> QED
    BY <2>8, <2>9, <2>10 DEF SteeringInv
<1>3. CASE S!Ask \/ S!RunEnds
  <2>1. /\ UNCHANGED <<inputTurn, inputs, chain, step, promise, messages, consumed>>
        /\ driver = "run" /\ driver' \in {"run", "ran"}
        /\ task' = task \/ (task = "running" /\ task' = "suspending")
    BY <1>3 DEF S!Ask, S!RunEnds, S!Drive, S!journal, S!delivery
  <2> QED
    BY <1>0, <2>1 DEF SteeringInv, SteeringTypes, DeliveryInv, SessionInv, JournalInv, Ready, S!First
<1>4. CASE S!Cleanup
  <2>1. /\ UNCHANGED <<task, inputTurn, inputs, chain, step, consumed>>
        /\ driver' = "cleaning" /\ messages' = <<>>
        /\ promise' = promise \/ (promise = "pending" /\ promise' = "rejected")
    BY <1>4 DEF S!Cleanup, S!Idle, S!journal
  <2> QED
    BY <1>0, <2>1 DEF SteeringInv, SteeringTypes, DeliveryInv, SessionInv, JournalInv, Ready, S!First
<1> QED
  BY <1>1, <1>2, <1>3, <1>4

\* The end of a turn and of the host retire what is open.
LEMMA TurnEndKeeps ==
    ASSUME S!SteeringAssumption, SteeringInv, S!Settle \/ S!Crash
    PROVE  SteeringInv'
<1>0. SteeringTypes /\ DeliveryInv /\ SessionInv /\ JournalInv
  BY DEF SteeringInv
<1>1. CASE S!Settle
  <2>1. /\ S!Retire /\ task' \in {"awaiting_user", "over"} /\ driver' = "gone" /\ messages' = <<>>
        /\ UNCHANGED <<inputTurn, chain, step, promise, consumed>>
    BY <1>1 DEF S!Settle, S!Suspends, S!Ends, S!delivery
  <2>2. JournalInv' /\ \A j \in 1 .. Len(inputs) : Ready(j) => Ready(j)'
    BY <2>1, RetireKeeps
  <2>3. /\ inputs' \in Seq(Inputs) /\ Len(inputs') = Len(inputs)
        /\ \A j \in 1 .. Len(inputs) :
             /\ inputs[j].turn # inputTurn => inputs'[j].state = inputs[j].state
             /\ inputs[j].turn = inputTurn => inputs'[j].state = S!Retired(inputs[j].state)
    BY <1>0, <2>1, RetireEffect DEF SteeringTypes
  <2>4. SteeringTypes'
    BY <1>0, <2>1, <2>3 DEF SteeringTypes
  <2>5. SessionInv'
    BY <2>1 DEF SessionInv
  <2>6. DeliveryInv'
    <3>1. ASSUME step # "new"
          PROVE  inputs'[S!First].state \in {"delivering", "unknown"} /\ Ready(S!First)'
      <4>1. PICK f \in 1 .. Len(inputs) : f = S!First
        BY <1>0, <3>1 DEF SteeringTypes, DeliveryInv, S!First
      <4>2. inputs[f].state \in {"delivering", "unknown"} /\ Ready(f)
        BY <1>0, <3>1, <4>1 DEF DeliveryInv
      <4>3. inputs'[f].state \in {"delivering", "unknown"} /\ Ready(f)'
        BY <2>2, <2>3, <4>2 DEF S!Retired
      <4>4. f = S!First'
        BY <2>1, <4>1 DEF S!First
      <4> QED
        BY <4>1, <4>3, <4>4 DEF Ready
    <3>2. UNCHANGED S!First
      BY <2>1 DEF S!First
    <3> QED
      BY <1>0, <2>1, <3>1, <3>2 DEF DeliveryInv
  <2> QED
    BY <2>2, <2>4, <2>5, <2>6 DEF SteeringInv
<1>2. CASE S!Crash
  <2>1. /\ \/ task' = "over" /\ S!Retire
           \/ task \notin {"running", "suspending"} /\ UNCHANGED <<task, inputs>>
        /\ driver' = "gone" /\ messages' = <<>> /\ chain' = <<>> /\ step' = "new" /\ promise' = "none"
        /\ UNCHANGED <<inputTurn, consumed>>
    BY <1>2 DEF S!Crash
  <2>2. DeliveryInv' /\ SessionInv'
    BY <2>1 DEF DeliveryInv, SessionInv
  <2>3. CASE task' = "over" /\ S!Retire
    <3>1. JournalInv'
      BY <2>1, <2>3, RetireKeeps
    <3>2. inputs' \in Seq(Inputs) /\ Len(inputs') = Len(inputs)
      BY <1>0, <2>3, RetireEffect DEF SteeringTypes
    <3>3. SteeringTypes'
      BY <1>0, <2>1, <2>3, <3>2 DEF SteeringTypes
    <3> QED
      BY <2>2, <3>1, <3>3 DEF SteeringInv
  <2>4. CASE task \notin {"running", "suspending"} /\ UNCHANGED <<task, inputs>>
    <3>1. SteeringTypes' /\ JournalInv'
      BY <1>0, <2>1, <2>4 DEF SteeringTypes, JournalInv, Ready
    <3> QED
      BY <2>2, <3>1 DEF SteeringInv
  <2> QED
    BY <2>1, <2>3, <2>4
<1> QED
  BY <1>1, <1>2

\* The steering inputs in the composed run: the other parts leave them alone.
LEMMA SteeringInvariant == TurnsSpec => []SteeringInv
<1> USE TurnsAssumption DEF TurnsAssumption
<1>1. TurnsInit => SteeringInv
  BY SteeringInit DEF TurnsInit
<1>2. ASSUME SteeringInv, [TurnsNext]_all PROVE SteeringInv'
  <2>1. CASE S!Next
    BY <1>2, <2>1, JournalStepKeeps, DeliveryStepKeeps, DriverStepKeeps, TurnEndKeeps DEF S!Next
  <2>2. CASE UNCHANGED steeringVars
    BY <1>2, <2>2 DEF steeringVars, SteeringInv, SteeringTypes, DeliveryInv, SessionInv, JournalInv,
       Ready,
       S!First
  <2> QED
    BY <1>2, <2>1, <2>2 DEF TurnsNext, all
<1> QED
  BY <1>1, <1>2, PTL DEF TurnsSpec

\* The journal is right about what the model saw of every steering input, and nothing is
\* consumed before the earlier inputs of its turn are settled.
THEOREM InputsToldTruly == TurnsSpec => []SteeringIsTruthful
<1>1. ASSUME SteeringInv PROVE S!SteeringIsTruthful
  <2>1. SteeringTypes /\ JournalInv /\ DOMAIN inputs = 1 .. Len(inputs)
    BY <1>1 DEF SteeringInv, SteeringTypes
  <2> QED
    BY <2>1 DEF SteeringTypes, JournalInv, Ready, S!SteeringIsTruthful
<1> QED
  BY <1>1, SteeringInvariant, PTL DEF SteeringIsTruthful
=============================================================================
