--------------------------- MODULE InstanceProfiles ---------------------------
(***************************************************************************)
(* The profile files of the Rhino instances on one machine.  A lifecycle   *)
(* writes a file with its endpoints and its key, and deletes it when it    *)
(* stops; a Rhino that crashes leaves its file behind.  Every Rhino, when  *)
(* it starts, scans the directory in the background: it deletes the files  *)
(* of owners that are verifiably dead, and their logs a week after it      *)
(* recorded the death in a marker file.  Several scans run at once, Rhinos *)
(* start, stop and crash meanwhile, process IDs are used again, and reads, *)
(* writes and inspections fail.  Files are replaced by a rename, so that a *)
(* reader sees the old content or the new one; the temporary file that a   *)
(* crash leaves has a name nobody reads.                                   *)
(***************************************************************************)
EXTENDS Integers, FiniteSets

CONSTANTS Pids, Ids, Absent,  \* lifecycle IDs are GUIDs: none is used twice
          Retention,          \* EphemeralLogRetention
          MaxStarts, MaxTime, MaxFailures

\* The content of a profile, and of a marker.
Malformed == [pid |-> 0, startedAt |-> 0]
Identities == [pid : Pids, startedAt : 1 .. MaxStarts]
Markers == [who : Identities, at : 0 .. MaxTime]

ProfileAssumption ==
    /\ Retention \in Nat /\ MaxStarts \in Nat /\ MaxTime \in Nat /\ MaxFailures \in Nat
    /\ Absent \notin Identities \cup {Malformed} \cup Markers

VARIABLES running,  \* the start time of the process that has a process ID; 0: none
          starts,   \* processes started so far: the next start time
          dead,     \* when the process of each start time ended
          owner,    \* the process of each lifecycle that was started
          owned,    \* _ownedPaths: the lifecycles whose file their owner has not deleted
          profile, marker, logs, \* the files of each lifecycle
          scan,     \* the scan of each Rhino
          now, failures
vars == <<running, starts, dead, owner, owned, profile, marker, logs, scan, now, failures>>
files == <<profile, marker, logs>>
processes == <<running, starts, dead, owner, owned>>

Idle == [step |-> "off", todo |-> {}, id |-> Absent, seen |-> Malformed, due |-> {}, clean |-> TRUE]

TypeOK ==
    /\ running \in [Pids -> 0 .. MaxStarts] /\ starts \in 0 .. MaxStarts
    /\ owner \in [Ids -> Identities \cup {Absent}] /\ owned \subseteq Ids /\ logs \subseteq Ids
    /\ profile \in [Ids -> Identities \cup {Absent, Malformed}]
    /\ \A i \in Ids : marker[i] \in Markers \cup {Absent}
    /\ \A p \in Pids : scan[p].todo \subseteq Ids /\ scan[p].due \subseteq Ids

Alive(who) == running[who.pid] = who.startedAt

Init ==
    /\ running = [p \in Pids |-> 0] /\ starts = 0 /\ dead = [s \in 1 .. MaxStarts |-> Absent]
    /\ owner = [i \in Ids |-> Absent] /\ owned = {}
    /\ profile \in {f \in [Ids -> {Absent, Malformed}] : Cardinality({i \in Ids : f[i] = Malformed}) <= 1}
    /\ marker = [i \in Ids |-> Absent] /\ logs = {i \in Ids : profile[i] = Malformed}
    /\ scan = [p \in Pids |-> Idle] /\ now = 0 /\ failures = 0

Fails == failures < MaxFailures /\ failures' = failures + 1
Works == UNCHANGED failures
\* AtomicWrite: readers see the old content or the new one.
AtomicWrite(file, i, content) == [file EXCEPT ![i] = content]

-----------------------------------------------------------------------------
(* Processes and their lifecycles. *)
Tick == now < MaxTime /\ now' = now + 1 /\ UNCHANGED <<processes, files, scan, failures>>

\* CleanupStaleProfiles and Scan: the names of the profiles and of the markers.
Found == {i \in Ids : profile[i] # Absent \/ marker[i] # Absent}
\* The owners that have ended, whatever has their process ID now.
DeadFiles == {i \in Ids : profile[i] \in Identities /\ ~Alive(profile[i])}
\* A Rhino starts, or another program under the process ID.
StartProcess(p, rhino) ==
    /\ running[p] = 0 /\ starts < MaxStarts
    /\ starts' = starts + 1 /\ running' = [running EXCEPT ![p] = starts']
    /\ scan' = IF rhino THEN [scan EXCEPT ![p] = [Idle EXCEPT !.step = "next", !.todo = Found, !.due = DeadFiles]]
               ELSE scan
    /\ UNCHANGED <<dead, owner, owned, files, now, failures>>
\* A process ends, with its scan wherever it is.
EndProcess(p) ==
    /\ running[p] # 0 /\ running' = [running EXCEPT ![p] = 0]
    /\ dead' = [dead EXCEPT ![running[p]] = now] /\ scan' = [scan EXCEPT ![p] = Idle]
    /\ UNCHANGED <<starts, owner, owned, files, now, failures>>

\* WriteAsync: a failure leaves no profile.  The instance logs next to it.
WriteProfile(p, i) ==
    /\ running[p] # 0 /\ scan[p] # Idle /\ owner[i] = Absent /\ profile[i] = Absent
    /\ LET who == [pid |-> p, startedAt |-> running[p]] IN
       /\ owner' = [owner EXCEPT ![i] = who] /\ logs' = logs \cup {i}
       /\ \/ Works /\ profile' = AtomicWrite(profile, i, who) /\ owned' = owned \cup {i}
          \/ Fails /\ UNCHANGED <<profile, owned>>
    /\ UNCHANGED <<running, starts, dead, marker, scan, now>>
\* DeleteOwnedAsync: a file that cannot be deleted stays owned.
DeleteOwned(i) ==
    /\ i \in owned /\ Alive(owner[i])
    /\ \/ Works /\ profile' = [profile EXCEPT ![i] = Absent] /\ owned' = owned \ {i}
       \/ Fails /\ UNCHANGED <<profile, owned>>
    /\ UNCHANGED <<running, starts, dead, owner, marker, logs, scan, now>>

-----------------------------------------------------------------------------
(* A scan: Cleanup of one lifecycle after the other. *)
At(p, step) == scan[p].step = step
Goto(p, step) == scan' = [scan EXCEPT ![p].step = step]
Skip(p) == Goto(p, "next")
GiveUp(p) == scan' = [scan EXCEPT ![p].step = "next", ![p].clean = FALSE]
Read(p, step, who) == scan' = [scan EXCEPT ![p].step = step, ![p].seen = who]

NextId(p) ==
    /\ At(p, "next") /\ scan[p].todo # {}
    /\ \E i \in scan[p].todo :
         scan' = [scan EXCEPT ![p].step = "marker", ![p].id = i, ![p].todo = @ \ {i}]
    /\ UNCHANGED <<processes, files, now, failures>>
EndScan(p) ==
    /\ At(p, "next") /\ scan[p].todo = {} /\ Goto(p, "over")
    /\ UNCHANGED <<processes, files, now, failures>>

\* TryReadMarker: a marker that cannot be read counts as none.
ReadMarker(p) ==
    /\ At(p, "marker")
    /\ LET m == marker[scan[p].id] IN
       \/ Works /\ (IF m # Absent THEN Read(p, "check", m) ELSE Goto(p, "profile"))
       \/ Fails /\ m # Absent /\ Goto(p, "profile")
    /\ UNCHANGED <<processes, files, now>>
\* No profile, one that cannot be read, a malformed one: left alone.
ReadProfile(p) ==
    /\ At(p, "profile")
    /\ LET who == profile[scan[p].id] IN
       \/ Works /\ (IF who \in {Absent, Malformed} THEN Skip(p) ELSE Read(p, "inspect", who))
       \/ Fails /\ who # Absent /\ GiveUp(p)
    /\ UNCHANGED <<processes, files, now>>

\* A process that runs and started at the recorded time is the owner; what cannot be
\* inspected may be.
IsOwner_SamePid(p, who) == running[who.pid] # 0
IsOwner(p, who) == running[who.pid] = who.startedAt
Inspect(p) ==
    /\ At(p, "inspect")
    /\ \/ Works /\ (IF IsOwner(p, scan[p].seen) THEN Skip(p) ELSE Goto(p, "mark"))
       \/ Fails /\ GiveUp(p)
    /\ UNCHANGED <<processes, files, now>>

\* Without the marker the proof of the death would be lost with the profile.
WriteMarker(p) ==
    /\ At(p, "mark")
    /\ LET m == [who |-> scan[p].seen, at |-> now] IN
       \/ Works /\ marker' = AtomicWrite(marker, scan[p].id, m) /\ Read(p, "check", m)
       \/ Fails /\ UNCHANGED marker /\ GiveUp(p)
    /\ UNCHANGED <<processes, profile, logs, now>>
\* CleanupVerifiedDead: only the profile that the marker is about.
CheckProfile(p) ==
    /\ At(p, "check")
    /\ LET who == profile[scan[p].id] IN
       \/ Works /\ IF who = Absent THEN Goto(p, "retain")
                   ELSE IF who # scan[p].seen.who THEN Skip(p) ELSE Goto(p, "delete")
       \/ Fails /\ who # Absent /\ GiveUp(p)
    /\ UNCHANGED <<processes, files, now>>
DeleteProfile(p) ==
    /\ At(p, "delete")
    /\ \/ Works /\ profile' = [profile EXCEPT ![scan[p].id] = Absent] /\ Goto(p, "retain")
       \/ Fails /\ UNCHANGED profile /\ GiveUp(p)
    /\ UNCHANGED <<processes, marker, logs, now>>

LongDead(m) == now - m.at >= Retention
\* The logs, then the marker.
Retain(p) ==
    /\ At(p, "retain")
    /\ LET i == scan[p].id IN
       \/ Works /\ Skip(p) /\ (IF LongDead(scan[p].seen)
            THEN logs' = logs \ {i} /\ marker' = [marker EXCEPT ![i] = Absent]
            ELSE UNCHANGED <<logs, marker>>)
       \/ Fails /\ LongDead(scan[p].seen) /\ GiveUp(p) /\ logs' \in {logs, logs \ {i}} /\ UNCHANGED marker
    /\ UNCHANGED <<processes, profile, now>>

Next ==
    \/ Tick
    \/ \E p \in Pids :
         \/ \E rhino \in BOOLEAN : StartProcess(p, rhino)
         \/ EndProcess(p) \/ NextId(p) \/ EndScan(p) \/ ReadMarker(p) \/ ReadProfile(p) \/ Inspect(p)
         \/ WriteMarker(p) \/ CheckProfile(p) \/ DeleteProfile(p) \/ Retain(p)
         \/ \E i \in Ids : WriteProfile(p, i)
    \/ \E i \in Ids : DeleteOwned(i)
Spec == Init /\ [][Next]_vars

-----------------------------------------------------------------------------
\* A scan never takes the profile from an instance whose process runs, nor the logs of
\* one that has not been dead for the retention time, a malformed profile's included; and
\* one that met no failure leaves no key of an owner that was dead when it began, even if
\* the process ID is in use again.
ScansTakeTheDead ==
    /\ \A i \in Ids :
         /\ i \in owned /\ Alive(owner[i]) => profile[i] = owner[i]
         /\ owner[i] # Absent /\ i \notin logs =>
              ~Alive(owner[i]) /\ now - dead[owner[i].startedAt] >= Retention
         /\ profile[i] = Malformed => i \in logs
    /\ \A p \in Pids : At(p, "over") /\ scan[p].clean => \A i \in scan[p].due : profile[i] = Absent
=============================================================================
