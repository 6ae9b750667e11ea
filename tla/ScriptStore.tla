----------------------------- MODULE ScriptStore -----------------------------
(***************************************************************************)
(* The writer lock of a script workspace (rhino-script-store.ts).          *)
(* Processes share a directory and nothing else; every file operation is a *)
(* step.  A process may die between any two of them, and its lock file is  *)
(* then removed under a second file, recovery.lock.  A process that died   *)
(* does not come back: its successor is another process.                   *)
(***************************************************************************)
EXTENDS Naturals, FiniteSets

CONSTANTS Processes, MaxAttempts, MaxCrashes, MaxFaults

StoreAssumption == MaxAttempts \in Nat /\ MaxCrashes \in Nat /\ MaxFaults \in Nat

VARIABLES lock,     \* writer.lock: absent, or its claim and whether it is written
          recovery, \* recovery.lock exists
          at,       \* where transaction() is in each process
          attempt,  \* the claim of a process is its number and that of its attempt
          seen,     \* the claim of the dead writer it found
          faults
vars == <<lock, recovery, at, attempt, seen, faults>>

Free == [claim |-> <<>>, written |-> FALSE]
Claim(p) == <<p, attempt[p]>>
Dead == {p \in Processes : at[p] = "dead"}
ClaimsOf(p) == {<<p, n>> : n \in 1..MaxAttempts}
\* JSON.parse of what is there: a lock that is gone or not yet written is unreadable.
Readable == lock # Free /\ lock.written
OwnerDead == lock.claim[1] \in Dead

TypeOK ==
    /\ lock \in {Free} \cup [claim : UNION {ClaimsOf(p) : p \in Processes}, written : BOOLEAN]
    /\ recovery \in BOOLEAN
    /\ at \in [Processes -> {"idle", "look", "stale", "recheck", "remove", "retake", "retaken",
                             "abandon", "locked", "written", "inside", "release", "unlink", "dead"}]
    /\ attempt \in [Processes -> 0..MaxAttempts]
    /\ faults \in 0..MaxFaults

Init ==
    /\ lock = Free /\ recovery = FALSE
    /\ at = [p \in Processes |-> "idle"]
    /\ attempt = [p \in Processes |-> 0]
    /\ seen = [p \in Processes |-> <<>>]
    /\ faults = 0

Goes(p, where) == at' = [at EXCEPT ![p] = where]
\* WORKSPACE_BUSY: nothing is held.
Busy(p) == Goes(p, "idle")

\* openSync(lockPath, "wx")
Open(p) ==
    /\ at[p] = "idle" /\ attempt[p] < MaxAttempts
    /\ attempt' = [attempt EXCEPT ![p] = @ + 1]
    /\ IF lock = Free
       THEN lock' = [claim |-> <<p, attempt[p] + 1>>, written |-> FALSE] /\ Goes(p, "locked")
       ELSE Goes(p, "look") /\ UNCHANGED lock
    /\ UNCHANGED <<recovery, seen, faults>>
\* Whose lock is it?
Look(p) ==
    /\ at[p] = "look"
    /\ IF Readable /\ OwnerDead
       THEN seen' = [seen EXCEPT ![p] = lock.claim] /\ Goes(p, "stale")
       ELSE Busy(p) /\ UNCHANGED seen
    /\ UNCHANGED <<lock, recovery, attempt, faults>>
\* openSync(recoveryPath, "wx")
OpenRecovery(p) ==
    /\ at[p] = "stale"
    /\ IF recovery THEN Busy(p) /\ UNCHANGED recovery ELSE recovery' = TRUE /\ Goes(p, "recheck")
    /\ UNCHANGED <<lock, attempt, seen, faults>>
\* The lock that was found is taken for the lock that is there.
Recheck_Trusted(p) ==
    /\ at[p] = "recheck" /\ Goes(p, "remove")
    /\ UNCHANGED <<lock, recovery, attempt, seen, faults>>
\* The lock is read again: an unreadable one throws.
Recheck(p) ==
    /\ at[p] = "recheck"
    /\ Goes(p, IF Readable /\ lock.claim = seen[p] /\ OwnerDead THEN "remove" ELSE "abandon")
    /\ UNCHANGED <<lock, recovery, attempt, seen, faults>>
Remove(p) ==
    /\ at[p] = "remove" /\ lock' = Free /\ Goes(p, "retake")
    /\ UNCHANGED <<recovery, attempt, seen, faults>>
Retake(p) ==
    /\ at[p] = "retake"
    /\ IF lock = Free
       THEN lock' = [claim |-> Claim(p), written |-> FALSE] /\ Goes(p, "retaken")
       ELSE Goes(p, "abandon") /\ UNCHANGED lock
    /\ UNCHANGED <<recovery, attempt, seen, faults>>
\* finally: recovery.lock goes, with the lock taken or not.
CloseRecovery(p) ==
    /\ at[p] \in {"retaken", "abandon"}
    /\ recovery' = FALSE /\ Goes(p, IF at[p] = "retaken" THEN "locked" ELSE "idle")
    /\ UNCHANGED <<lock, attempt, seen, faults>>
\* The claim is written to the opened file, wherever its name went; the disk may be full.
WriteClaim(p) ==
    /\ at[p] = "locked"
    /\ \/ lock' = (IF lock.claim = Claim(p) THEN [lock EXCEPT !.written = TRUE] ELSE lock)
          /\ Goes(p, "written") /\ UNCHANGED faults
       \/ faults < MaxFaults /\ faults' = faults + 1 /\ Goes(p, "release") /\ UNCHANGED lock
    /\ UNCHANGED <<recovery, attempt, seen>>
\* Ordinary writers yield while a recovery is under way.
Enter(p) ==
    /\ at[p] = "written" /\ Goes(p, IF recovery THEN "release" ELSE "inside")
    /\ UNCHANGED <<lock, recovery, attempt, seen, faults>>
Leave(p) == at[p] = "inside" /\ Goes(p, "release") /\ UNCHANGED <<lock, recovery, attempt, seen, faults>>
\* The lock is removed if it is still the own one.
Release(p) ==
    /\ at[p] = "release"
    /\ Goes(p, IF Readable /\ lock.claim = Claim(p) THEN "unlink" ELSE "idle")
    /\ UNCHANGED <<lock, recovery, attempt, seen, faults>>
Unlink(p) ==
    /\ at[p] = "unlink" /\ lock' = Free /\ Goes(p, "idle")
    /\ UNCHANGED <<recovery, attempt, seen, faults>>
Crash(p) ==
    /\ at[p] # "dead" /\ Cardinality(Dead) < MaxCrashes /\ Goes(p, "dead")
    /\ UNCHANGED <<lock, recovery, attempt, seen, faults>>

Next ==
    \E p \in Processes :
        \/ Open(p) \/ Look(p) \/ OpenRecovery(p) \/ Recheck(p) \/ Remove(p) \/ Retake(p)
        \/ CloseRecovery(p) \/ WriteClaim(p) \/ Enter(p) \/ Leave(p) \/ Release(p) \/ Unlink(p)
        \/ Crash(p)
Spec == Init /\ [][Next]_vars

-----------------------------------------------------------------------------
\* At most one living process is inside a transaction, and the lock file is its
\* own: no recovery of a dead writer's lock ever removes that of a living one.
OneWriter ==
    \A p \in Processes : at[p] \in {"inside", "unlink"} =>
        /\ lock.claim = Claim(p)
        /\ \A q \in Processes \ {p} : at[q] # "inside"
=============================================================================
