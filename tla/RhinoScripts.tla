---------------------------- MODULE RhinoScripts ----------------------------
(***************************************************************************)
(* Saved scripts and their runs (rhino-script-workspace.ts,                *)
(* rhino-script-execution.ts).  Processes share the records of a           *)
(* workspace; a change of a record is one transaction under the writer     *)
(* lock (ScriptStore).  A batch is journaled before its items are sent to  *)
(* Rhino one after the other; other tool calls, also of other processes,   *)
(* look at a run and ask Rhino for the result it retained.  Processes and  *)
(* Rhino die, transactions are refused, answers are lost; a write that is  *)
(* interrupted leaves a temporary file, which counts like a record.        *)
(***************************************************************************)
EXTENDS Naturals, Sequences, FiniteSets

CONSTANTS Processes, Batches, MaxItems, EditIds, Texts, Quota, Reserve,
          MaxRevisions, MaxVersion, MaxLives, MaxCrashes, MaxFaults,
          MaxLeft   \* bound: the size of all temporary files

ScriptsAssumption ==
    /\ MaxItems \in Nat \ {0}   \* no empty items
    /\ Quota \in Nat \ {0} /\ Reserve \in Nat   \* room for a script
    /\ MaxRevisions \in Nat /\ MaxVersion \in Nat /\ MaxLives \in Nat /\ MaxCrashes \in Nat /\ MaxFaults \in Nat
    /\ MaxLeft \in Nat

VARIABLES script,    \* the revisions of the saved script
          edits,     \* an edit that was made, by its mutation ID
          batch,     \* a call's batch: who runs it, in which life of Rhino, which revision
          run,       \* the runs of a batch
          left,      \* the size of the temporary files of interrupted writes
          counted,   \* what of it the last admission or edit counted
          runner,    \* runBatch in a process
          observer,  \* reconcileRun in a process
          alive,     \* the incarnation of a process
          life,      \* the life (lifecycle instance) of Rhino
          native,    \* what became of a run in Rhino
          retained,  \* the result Rhino retained of it
          sends,     \* how often a run was sent
          settled,   \* the first terminal state of a run
          faults
journal == <<script, edits, batch, run, left, counted>>
rhino == <<life, native, retained, sends>>
vars == <<journal, runner, observer, alive, rhino, settled, faults>>

Items == 1..MaxItems
Runs == Batches \X Items
Absent == [owner |-> <<>>, life |-> 0, revision |-> 0]
NoRun == [state |-> "absent", version |-> 0, stored |-> FALSE, extra |-> FALSE]
Idle == [at |-> "idle"]
\* "died" is notStarted with the error "Original runner died before dispatch".
Terminal == {"completed", "failed", "notStarted", "died", "notRun"}
Results == {"ok", "bad", "refused", "large"}
Owner(p) == <<p, alive[p]>>
\* provenDead: the process of the claim is gone.
OwnerDead(b) == alive[batch[b].owner[1]] # batch[b].owner[2]
\* activeRunnerClaims of a process.
ActiveClaim(p, b) == runner[p].at # "idle" /\ runner[p].batch = b /\ batch[b].owner = Owner(p)

TypeOK ==
    /\ \A n \in DOMAIN script : script[n] \in [text : Texts, deleted : BOOLEAN]
    /\ edits \in [EditIds -> 0..MaxRevisions]
    /\ \A b \in Batches : batch[b] = Absent \/ batch[b].revision \in DOMAIN script
    /\ \A r \in Runs : run[r].state \in Terminal \cup {"absent", "prepared", "dispatching", "unknown"}
    /\ native \in [Runs -> {"none", "sent", "working", "lost", "cut"} \cup Results]
    /\ retained \in [Runs -> {"none"} \cup Results]
    /\ left \in 0..MaxLeft /\ counted \in 0..left

Init ==
    /\ \E t \in Texts : script \in {<<>>, <<[text |-> t, deleted |-> FALSE]>>}
    /\ edits = [m \in EditIds |-> 0]
    /\ batch = [b \in Batches |-> Absent] /\ run = [r \in Runs |-> NoRun]
    /\ runner = [p \in Processes |-> Idle] /\ observer = [p \in Processes |-> Idle]
    /\ alive = [p \in Processes |-> 1] /\ life = 1
    /\ native = [r \in Runs |-> "none"] /\ retained = [r \in Runs |-> "none"]
    /\ sends = [r \in Runs |-> 0] /\ settled = [r \in Runs |-> "none"]
    /\ left = 0 /\ counted = 0 /\ faults = 0

-----------------------------------------------------------------------------
(* The quota: a script's record holds its revisions and its edits, a batch  *)
(* its runs, a run's own file what came of it.  The directory also holds    *)
(* what interrupted writes left.                                            *)
Made == {r \in Runs : run[r].state # "absent"}
Stored == {r \in Runs : run[r].stored}
WithResult == {r \in Stored : run[r].extra}
ScriptRecord == Len(script) + Cardinality({m \in EditIds : edits[m] # 0})
RecordSize == ScriptRecord + Cardinality(Made) + Cardinality(Stored) + Reserve * Cardinality(WithResult)
Usage == RecordSize + left
\* What the runs that are not over may still need.
Unfinished == {r \in Made : run[r].state \notin Terminal}
Pending_Forgotten == 0
Pending == Reserve * Cardinality(Unfinished) + Cardinality(Unfinished \ Stored)
\* assertCapacity
Fits(size) == Usage + size + Pending <= Quota

(* Edits: the same mutation ID again is answered from the record. *)
Latest == script[Len(script)]
Commit(m, next, changed) ==
    /\ Fits(IF changed THEN 2 ELSE 1)
    /\ script' = IF changed THEN Append(script, next) ELSE script
    /\ edits' = [edits EXCEPT ![m] = Len(script')] /\ counted' = left
    /\ UNCHANGED <<batch, run, left, runner, observer, alive, rhino, settled, faults>>
Create(m, t) == script = <<>> /\ Commit(m, [text |-> t, deleted |-> FALSE], TRUE)
\* Against the current revision, of a script that is not deleted.
SetSource(m, t) == ~Latest.deleted /\ Commit(m, [Latest EXCEPT !.text = t], t # Latest.text)
Restore(m, n) == ~Latest.deleted /\ Commit(m, [Latest EXCEPT !.text = script[n].text], TRUE)
Delete(m, gone) == Commit(m, [Latest EXCEPT !.deleted = gone], gone # Latest.deleted)
Edit(m) ==
    /\ edits[m] = 0 /\ Len(script) < MaxRevisions
    /\ \/ \E t \in Texts : Create(m, t)
       \/ /\ script # <<>>
          /\ \/ \E t \in Texts : SetSource(m, t)
             \/ \E n \in DOMAIN script : Restore(m, n)
             \/ \E gone \in BOOLEAN : Delete(m, gone)

-----------------------------------------------------------------------------
(* The journal of runs. *)
Write(r, state, extra) ==
    /\ run' = [run EXCEPT ![r] = [state |-> state, version |-> @.version + 1, stored |-> TRUE,
                                  extra |-> @.extra \/ extra]]
    /\ settled' = [settled EXCEPT ![r] = IF @ = "none" /\ state \in Terminal THEN state ELSE @]
\* Whoever comes with an older version overwrites what was recorded since.
Update_AnyVersion(r, version, state, extra) == Write(r, state, extra)
\* update: an older version only replaces uncertainty by a terminal result.
Update(r, version, state, extra) ==
    IF run[r].version # version /\ (state \notin Terminal \/ run[r].state \in Terminal)
    THEN UNCHANGED <<run, settled>> ELSE Write(r, state, extra)
\* resultChange, which bounds what is recorded of a result: here it is as long as
\* that. A result too large to be returned says nothing of the effect.
StateOf(result) ==
    CASE result = "ok" -> "completed" [] result = "bad" -> "failed"
      [] result = "refused" -> "notStarted" [] OTHER -> "unknown"
Fault == faults < MaxFaults /\ faults' = faults + 1
\* A write that is interrupted may leave a part of the record, up to all of it.
Torn(size) == \E n \in 0..size : left + n <= MaxLeft /\ left' = left + n
\* A transaction that fails, before its write or in it.
WriteFails(size) == Fault /\ Torn(size)

(* runBatch. *)
\* pin: a revision of a script that is not deleted.
CanPin(n) == n \in DOMAIN script /\ ~Latest.deleted
\* A new call pins a revision; the life of Rhino is that of its connection.
Start(p, b, n) ==
    /\ runner[p] = Idle /\ batch[b] = Absent /\ CanPin(n)
    /\ runner' = [runner EXCEPT ![p] =
           [at |-> "admit", batch |-> b, revision |-> n, life |-> life,
            item |-> 1, version |-> 0, stop |-> FALSE, aborted |-> FALSE]]
    /\ UNCHANGED <<journal, observer, alive, rhino, settled, faults>>
Ends(p) == runner' = [runner EXCEPT ![p] = Idle]
\* One transaction journals the whole batch, unless another process did or it does not fit.
Admit(p) ==
    LET b == runner[p].batch IN
      /\ runner[p].at = "admit"
      /\ \/ Ends(p) /\ UNCHANGED <<batch, run>>
            /\ (runner[p].aborted \/ batch[b] # Absent \/ ~Fits(MaxItems * (Reserve + 2)))
            /\ UNCHANGED <<left, counted, faults>>
         \/ Ends(p) /\ WriteFails(MaxItems) /\ UNCHANGED <<batch, run, counted>>
         \/ /\ ~runner[p].aborted /\ batch[b] = Absent /\ Fits(MaxItems * (Reserve + 2))
            /\ batch' = [batch EXCEPT ![b] = [owner |-> Owner(p), life |-> runner[p].life,
                                              revision |-> runner[p].revision]]
            /\ run' = [r \in Runs |->
                   IF r[1] = b THEN [NoRun EXCEPT !.state = "prepared", !.version = 1] ELSE run[r]]
            /\ runner' = [runner EXCEPT ![p].at = "item"]
            /\ counted' = left /\ UNCHANGED <<left, faults>>
      /\ UNCHANGED <<script, edits, observer, alive, rhino, settled>>
Current(p) == <<runner[p].batch, runner[p].item>>
Advance(p, stop) ==
    IF runner[p].item + 1 \in Items
    THEN runner' = [runner EXCEPT ![p].at = "item", ![p].item = @ + 1, ![p].stop = stop]
    ELSE Ends(p)
\* After an item of unknown outcome the next one is sent.
Continues_Unknown(p, state) == state \in {"completed", "unknown"} /\ ~runner[p].aborted
Continues(p, state) == state = "completed" /\ ~runner[p].aborted
\* The next item is passed over, or its dispatch is journaled; neither may succeed.
Item(p) ==
    LET r == Current(p)  over == runner[p].stop \/ runner[p].aborted IN
      /\ runner[p].at = "item"
      /\ \/ WriteFails(1) /\ Advance(p, TRUE) /\ UNCHANGED <<run, settled>>
         \/ /\ over /\ Update(r, run[r].version, "notRun", FALSE)
            /\ Advance(p, TRUE) /\ UNCHANGED <<left, faults>>
         \/ /\ ~over /\ run[r].state # "prepared"
            /\ Advance(p, TRUE) /\ UNCHANGED <<run, settled, left, faults>>
         \/ /\ ~over /\ run[r].state = "prepared" /\ Update(r, run[r].version, "dispatching", FALSE)
            /\ runner' = [runner EXCEPT ![p].at = "send", ![p].version = run[r].version + 1]
            /\ UNCHANGED <<left, faults>>
      /\ UNCHANGED <<script, edits, batch, counted, observer, alive, rhino>>
\* The tool policy may refuse, or the call be cancelled before it is sent.
Records(p, state, extra) ==
    \/ /\ Update(Current(p), runner[p].version, state, extra)
       /\ Advance(p, ~Continues(p, run'[Current(p)].state)) /\ UNCHANGED <<left, faults>>
    \/ /\ WriteFails(IF extra THEN 1 + Reserve ELSE 1)
       /\ Advance(p, TRUE) /\ UNCHANGED <<run, settled>>
Refuse(p) ==
    /\ runner[p].at = "send" /\ Records(p, "notStarted", FALSE)
    /\ UNCHANGED <<script, edits, batch, counted, observer, alive, rhino>>
Send(p) ==
    LET r == Current(p) IN
      /\ runner[p].at = "send" /\ runner' = [runner EXCEPT ![p].at = "sent"]
      /\ native' = [native EXCEPT ![r] = IF batch[r[1]].life = life THEN "sent" ELSE "lost"]
      /\ sends' = [sends EXCEPT ![r] = @ + 1]
      /\ UNCHANGED <<journal, observer, alive, life, retained, settled, faults>>
\* The answer, or none: a wait may end while Rhino is still at work.
Answer(p) ==
    LET r == Current(p) IN
      /\ runner[p].at = "sent"
      /\ \/ native[r] \in Results /\ Records(p, StateOf(native[r]), TRUE)
         \/ native[r] \in {"lost", "cut"} /\ Records(p, "unknown", FALSE)
         \/ /\ native[r] \in {"sent", "working"} \cup Results /\ Fault
            /\ Update(r, runner[p].version, "unknown", FALSE)
            /\ Advance(p, ~Continues(p, run'[r].state)) /\ UNCHANGED left
      /\ UNCHANGED <<script, edits, batch, counted, observer, alive, rhino>>
Abort(p) ==
    /\ runner[p].at \in {"admit", "send", "sent"} /\ ~runner[p].aborted
    /\ runner' = [runner EXCEPT ![p].aborted = TRUE]
    /\ UNCHANGED <<journal, observer, alive, rhino, settled, faults>>

(* reconcileRun, also for every run of a repeated call: it sends nothing. *)
\* A result that cannot be found is taken for work that was not started.
Concluded_NotStarted(found) == IF found \in Results THEN StateOf(found) ELSE "notStarted"
Concluded(found) == IF found \in Results THEN StateOf(found) ELSE "unknown"
\* What is read outside of the writer lock may be out of date when it is judged: what
\* this process knows of its own runner is not, it does nothing else in between.
Look(p, r) ==
    /\ observer[p] = Idle /\ runner[p].at # "item"
    /\ run[r].state \in {"prepared", "dispatching", "unknown"} /\ run[r].version < MaxVersion
    /\ ~ActiveClaim(p, r[1])
    /\ observer' = [observer EXCEPT ![p] =
           [at |-> "judge", run |-> r, version |-> run[r].version,
            prepared |-> run[r].state = "prepared"]]
    /\ UNCHANGED <<journal, runner, alive, rhino, settled, faults>>
\* The dead stay dead and lives do not return: the test and the update that follows
\* it are one step, the update itself compares the version that was read.
RunnerGone(p, b) == batch[b].owner = Owner(p) \/ OwnerDead(b)
Judge(p) ==
    LET o == observer[p]  b == o.run[1] IN
      /\ o.at = "judge"
      /\ \/ /\ o.prepared /\ RunnerGone(p, b) /\ Update(o.run, o.version, "died", FALSE)
            /\ observer' = [observer EXCEPT ![p] = Idle]
         \/ /\ o.prepared /\ ~RunnerGone(p, b) /\ UNCHANGED <<run, settled>>
            /\ observer' = [observer EXCEPT ![p] = Idle]
         \/ /\ ~o.prepared /\ batch[b].life # life /\ Update(o.run, o.version, "unknown", FALSE)
            /\ observer' = [observer EXCEPT ![p] = Idle]
         \/ /\ ~o.prepared /\ batch[b].life = life /\ UNCHANGED <<run, settled>>
            /\ observer' = [observer EXCEPT ![p] =
                   [at |-> "ask", run |-> o.run, version |-> o.version]]
      /\ UNCHANGED <<script, edits, batch, left, counted, runner, alive, rhino, faults>>
\* getOperationResult, over the connection to the life the run was sent to; without
\* one, or without its answer, nothing is found.
Ask(p) ==
    /\ observer[p].at = "ask"
    /\ LET r == observer[p].run
           Found(found) == observer' = [observer EXCEPT ![p] =
               [at |-> "conclude", run |-> r, version |-> @.version, found |-> found]]
       IN \/ Found(IF batch[r[1]].life = life THEN retained[r] ELSE "none") /\ UNCHANGED faults
          \/ Found("none") /\ Fault
    /\ UNCHANGED <<journal, runner, alive, rhino, settled>>
Conclude(p) ==
    LET o == observer[p] IN
      /\ o.at = "conclude" /\ observer' = [observer EXCEPT ![p] = Idle]
      /\ Update(o.run, o.version, Concluded(o.found), o.found \in Results)
      /\ UNCHANGED <<script, edits, batch, left, counted, runner, alive, rhino, faults>>

-----------------------------------------------------------------------------
(* Rhino and the faults. *)
Execute(r) ==
    /\ native[r] = "sent" /\ native' = [native EXCEPT ![r] = "working"]
    /\ UNCHANGED <<journal, runner, observer, alive, life, retained, sends, settled, faults>>
Return(r) ==
    /\ \E result \in Results :
         /\ native[r] = IF result = "refused" THEN "sent" ELSE "working"
         /\ native' = [native EXCEPT ![r] = result] /\ retained' = [retained EXCEPT ![r] = result]
    /\ UNCHANGED <<journal, runner, observer, alive, life, sends, settled, faults>>
Expire(r) ==
    /\ retained[r] # "none" /\ Fault /\ retained' = [retained EXCEPT ![r] = "none"]
    /\ UNCHANGED <<journal, runner, observer, alive, life, native, sends, settled>>
Lose(r) ==
    /\ native[r] = "sent" /\ Fault /\ native' = [native EXCEPT ![r] = "lost"]
    /\ UNCHANGED <<journal, runner, observer, alive, life, retained, sends, settled>>
RhinoEnds ==
    /\ life < MaxLives /\ life' = life + 1
    /\ native' = [r \in Runs |-> CASE native[r] = "sent" -> "lost" [] native[r] = "working" -> "cut"
                                   [] OTHER -> native[r]]
    /\ retained' = [r \in Runs |-> "none"]
    /\ UNCHANGED <<journal, runner, observer, alive, sends, settled, faults>>
\* What a process may have written of a record when it dies.
Writing(p) ==
    LET At(at) == runner[p].at = at \/ observer[p].at = at
        CanEdit == Fits(1) /\ Len(script) < MaxRevisions /\ \E m \in EditIds : edits[m] = 0
    IN {n \in 1..(ScriptRecord + 2) : CanEdit}
       \cup {n \in 1..MaxItems : At("admit") /\ Fits(MaxItems * (Reserve + 2))}
       \cup {n \in 1..1 : At("item") \/ At("send")}
       \cup {n \in 1..(1 + Reserve) : At("sent") \/ At("judge") \/ At("conclude")}
Crash(p) ==
    /\ alive[p] <= MaxCrashes /\ alive' = [alive EXCEPT ![p] = @ + 1]
    /\ \/ UNCHANGED left
       \/ \E n \in Writing(p) : left + n <= MaxLeft /\ left' = left + n
    /\ runner' = [runner EXCEPT ![p] = Idle] /\ observer' = [observer EXCEPT ![p] = Idle]
    /\ UNCHANGED <<script, edits, batch, run, counted, rhino, settled, faults>>

Next ==
    \/ \E m \in EditIds : Edit(m)
    \/ \E p \in Processes :
         \/ Admit(p) \/ Item(p) \/ Refuse(p) \/ Send(p) \/ Answer(p) \/ Abort(p)
         \/ Judge(p) \/ Ask(p) \/ Conclude(p) \/ Crash(p)
         \/ \E b \in Batches, n \in DOMAIN script : Start(p, b, n)
         \/ \E r \in Runs : Look(p, r)
    \/ \E r \in Runs : Execute(r) \/ Return(r) \/ Expire(r) \/ Lose(r)
    \/ RhinoEnds
Spec == Init /\ [][Next]_vars

-----------------------------------------------------------------------------
\* What the journal says of a run is true and stays: completed ran, not started
\* did not and will not, one whose runner died is not sent any more; a run is sent
\* once, after the runs before it completed.
RunTellsEffect ==
    \A r \in Runs :
        /\ run[r].state = "completed" => native[r] = "ok"
        /\ run[r].state \in {"notStarted", "notRun"} => native[r] \in {"none", "refused"}
        /\ run[r].state = "died" => \A p \in Processes : ~ActiveClaim(p, r[1])
        /\ settled[r] # "none" => run[r].state = settled[r]
        /\ sends[r] <= 1
        /\ r[2] > 1 /\ native[r] # "none" => native[<<r[1], r[2] - 1>>] = "ok"

\* docs/rhino-script-workspace.md:44: "A dead runner's prepared item can become
\* `notStarted`; a dispatched item remains uncertain unless its original host retains
\* a terminal result."
DispatchedStaysUncertain ==
    \A r \in Runs : run[r].state = "died" => native[r] \in {"none", "refused"}

\* Together with what the last admission found of interrupted writes, the records
\* never grow past the quota, although the outcome of a run that was admitted is
\* always recorded: only deaths since then, in the middle of a write, can do that.
QuotaKept == RecordSize + counted <= Quota
=============================================================================
