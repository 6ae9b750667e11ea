---------------------- MODULE LifecycleControllerProofs ----------------------
(***************************************************************************)
(* Theorems about LifecycleController: what a state announces is so, only  *)
(* the announced instance has a profile on disk, external work is admitted *)
(* only while Running or while admission is about to be closed, and a      *)
(* start finds nothing of the instance before it.                          *)
(***************************************************************************)
EXTENDS LifecycleController, FiniteSetTheorems, TLAPS

Kinds == {"idle", "start", "stop", "report"}
Places == {"none", "cleanOld", "cleanedOld", "begin", "close", "resolve", "transport", "profile",
           "child", "handshake", "open", "fail", "abort", "failed", "fault", "finally",
           "clean", "settle", "note", "judge"}
Parts == {"transport", "profile", "child"}

Jobs == [kind : Kinds, pc : Places, id : Nat, of : Int, by : {"none", "starter", "restarter"},
         made : SUBSET Parts, ok : BOOLEAN]
Requests == [pc : {"idle", "close", "cancel"}, stop : Int, token : Int]

\* Shapes without the model's bounds.
Shapes ==
    /\ snap \in [state : LifecycleStates, id : Nat, failures : Nat]
    /\ job \in Jobs
    /\ request \in [Requesters -> Requests]
    /\ lastId \in Nat /\ activeStart \in Nat
    /\ closing \in BOOLEAN /\ child \in BOOLEAN
    /\ transport \in {"off", "on", "stopping"}

Gone == ~child /\ transport = "off" /\ profiles = {}
Attached(id) == child /\ transport = "on" /\ profiles = {id}

\* The places of a start between the creation of its instance and Running.
Building == {"close", "resolve", "transport", "profile", "child", "handshake", "open"}
\* What it has made when it gets there.
Made(pc) == CASE pc = "profile" -> {"transport"}
              [] pc = "child" -> {"transport", "profile"}
              [] pc \in {"handshake", "open"} -> Parts
              [] OTHER -> {}

\* A start owns what it has made; Rhino's exit may take the attachment and the
\* transport away from it.
StartInv ==
    /\ Starting("begin") => Gone /\ snap.state \in {"Stopped", "Stopping"}
    /\ Starting("cleanOld") \/ Starting("cleanedOld") => snap.state \in {"Faulted", "Stopping"}
    /\ Starting("cleanedOld") /\ job.ok => Gone
    /\ Starting("begin") \/ Starting("cleanOld") \/ Starting("cleanedOld") => job.made = {}
    /\ job.kind = "start" /\ job.pc \in Building =>
         /\ snap.state \in {"Starting", "Stopping"}
         /\ job.made = Made(job.pc)
         /\ profiles = {job.id : p \in job.made \cap {"profile"}}
         /\ child => "child" \in job.made
         /\ transport # "off" => "transport" \in job.made
         /\ ~closing => /\ "child" \in job.made => child
                        /\ "transport" \in job.made => transport = "on"
    /\ job.kind = "start" /\ job.pc \in {"fail", "abort", "failed", "fault"} =>
         snap.state \in {"Starting", "Stopping"}

\* A stop's cleanup runs while Stopping is announced, and a report's after it
\* announced the fault; until then its instance is attached.
StopInv ==
    job.kind = "stop" => /\ snap.state = "Stopping"
                         /\ job.pc = "settle" /\ job.ok => Gone
ReportInv ==
    /\ Reporting("note") => /\ snap.state \in {"Running", "Stopping"}
                            /\ ~closing => Attached(job.id)
    /\ job.kind = "report" /\ job.pc # "note" => snap.state \in {"Faulted", "Stopping"}

\* A job works for the announced instance.
JobInv == /\ job.kind # "idle" => job.id = snap.id
          /\ job.kind = "start" =>
               job.pc \in Building \cup {"cleanOld", "cleanedOld", "begin", "fail", "abort",
                                         "failed", "fault", "finally"}
          /\ StartInv /\ StopInv /\ ReportInv

\* Only Rhino's exit uses its request.
ExitInv == request["exit"].pc # "idle" => closing

LifecycleInv ==
    Shapes /\ ExitInv /\ JobInv /\ ProfileIsKnown /\ AnnouncedStateIsTrue /\ AdmissionFollowsState

\* What the actions do to the announced state, the job and what it manages.
\* Something beside them, the end of a job included;
Aside ==
    /\ job' \in {job, NoJob}
    /\ UNCHANGED <<snap, closing, transport, child, profiles>>
\* a stop is announced;
Announces ==
    /\ snap' = [snap EXCEPT !.state = "Stopping"]
    /\ closing' \in BOOLEAN /\ (closing => closing')
    /\ UNCHANGED <<job, transport, child, profiles>>
\* Rhino's exit signals, or a late transport ends;
Lowers ==
    /\ closing \/ (transport = "stopping" /\ UNCHANGED child)
    /\ child' \in BOOLEAN /\ (child' => child)
    /\ transport' \in {"off", "stopping"} /\ (transport = "off" => transport' = "off")
    /\ UNCHANGED <<snap, job, closing, profiles>>
\* a job takes the gate;
Takes ==
    /\ job = NoJob /\ ~closing
    /\ \/ /\ Startable
          /\ job'.kind = "start" /\ job'.pc = FirstStep
       \/ /\ snap.state = "Stopping"
          /\ job'.kind = "stop" /\ job'.pc = "clean"
       \/ /\ snap.state = "Running"
          /\ job'.kind = "report" /\ job'.pc = "note"
    /\ job' \in Jobs /\ job'.id = snap.id /\ job'.ok = TRUE /\ job'.made = {}
    /\ UNCHANGED <<snap, closing, transport, child, profiles>>

JobState == JobInv /\ ProfileIsKnown /\ AnnouncedStateIsTrue

\* What a job's next place leaves of it.
LEMMA JobEdited ==
    ASSUME NEW j \in Jobs, NEW pc \in Places, NEW made \in SUBSET Parts, NEW ok \in BOOLEAN,
           NEW id \in Nat
    PROVE  /\ [j EXCEPT !.pc = pc] \in Jobs
           /\ [j EXCEPT !.pc = pc, !.ok = ok] \in Jobs
           /\ [j EXCEPT !.made = made, !.pc = pc] \in Jobs
           /\ [j EXCEPT !.pc = pc, !.id = id] \in Jobs
<1>1. CASE ok = TRUE
  BY <1>1 DEF Jobs
<1>2. CASE ok = FALSE
  BY <1>2 DEF Jobs
<1> QED
  BY <1>1, <1>2

\* A step beside the job keeps its invariant.
LEMMA AsideKeeps ==
    ASSUME Shapes, JobState, Aside
    PROVE  JobState'
<1>1. CASE job' = job
  BY <1>1 DEF Aside, JobState, JobInv, StartInv, StopInv, ReportInv, ProfileIsKnown,
              AnnouncedStateIsTrue, Starting, Reporting, Gone, Attached
<1>2. CASE job' = NoJob
  BY <1>2 DEF Aside, JobState, JobInv, StartInv, StopInv, ReportInv, ProfileIsKnown,
              AnnouncedStateIsTrue, Starting, Reporting, Gone, Attached, NoJob
<1> QED
  BY <1>1, <1>2 DEF Aside

\* So does the announcement of a stop.
LEMMA AnnounceKeeps ==
    ASSUME Shapes, JobState, Announces
    PROVE  JobState'
<1>1. snap'.state = "Stopping" /\ snap'.id = snap.id
  BY DEF Announces, Shapes
<1>2. UNCHANGED <<job, transport, child, profiles>> /\ (~closing' => ~closing)
  BY DEF Announces
<1>3. StartInv' /\ StopInv' /\ ReportInv'
  BY <1>1, <1>2 DEF JobState, JobInv, StartInv, StopInv, ReportInv, Starting, Reporting,
                    Gone, Attached
<1> QED
  BY <1>1, <1>2, <1>3 DEF JobState, JobInv, ProfileIsKnown, AnnouncedStateIsTrue

\* So does Rhino's exit, and a transport that ends late.
LEMMA LowersKeeps ==
    ASSUME Shapes, JobState, Lowers
    PROVE  JobState'
<1>1. UNCHANGED <<snap, job, closing, profiles>>
  BY DEF Lowers
<1>2. Gone => Gone'
  BY DEF Lowers, Gone
<1>3. ASSUME NEW id, Attached(id), ~closing PROVE FALSE
  BY <1>3 DEF Lowers, Attached
<1>4. (child' => child) /\ (transport' # "off" => transport # "off")
  BY DEF Lowers
<1>5. ~closing => UNCHANGED child /\ transport = "stopping"
  BY DEF Lowers
<1>6. StartInv'
  BY <1>1, <1>2, <1>4, <1>5 DEF JobState, JobInv, StartInv, Starting
<1>7. StopInv' /\ ReportInv'
  BY <1>1, <1>2, <1>3 DEF JobState, JobInv, StopInv, ReportInv, Reporting
<1>8. AnnouncedStateIsTrue'
  BY <1>1, <1>2, <1>3 DEF JobState, AnnouncedStateIsTrue, Gone, Attached
<1> QED
  BY <1>1, <1>6, <1>7, <1>8 DEF JobState, JobInv, ProfileIsKnown

\* So does a job that takes the gate.
LEMMA TakesKeeps ==
    ASSUME Shapes, JobState, Takes
    PROVE  JobState'
<1>1. /\ UNCHANGED <<snap, closing, transport, child, profiles>>
      /\ job'.id = snap.id /\ job'.made = {}
  BY DEF Takes
<1>2. CASE Startable /\ job'.kind = "start" /\ job'.pc = FirstStep
  <2>1. \/ snap.state = "Faulted" /\ job'.pc = "cleanOld"
        \/ snap.state = "Stopped" /\ job'.pc = "begin"
    BY <1>2 DEF FirstStep, Startable
  <2>2. snap.state = "Stopped" => Gone
    BY DEF JobState, AnnouncedStateIsTrue, Gone
  <2> QED
    BY <1>1, <1>2, <2>1, <2>2 DEF JobState, JobInv, StartInv, StopInv, ReportInv,
       ProfileIsKnown, AnnouncedStateIsTrue, Starting, Reporting, Gone, Building
<1>3. CASE snap.state = "Stopping" /\ job'.kind = "stop" /\ job'.pc = "clean"
  BY <1>1, <1>3 DEF JobState, JobInv, StartInv, StopInv, ReportInv,
       ProfileIsKnown, AnnouncedStateIsTrue, Starting, Reporting, Gone
<1>4. CASE snap.state = "Running" /\ job'.kind = "report" /\ job'.pc = "note"
  BY <1>1, <1>4 DEF JobState, JobInv, StartInv, StopInv, ReportInv,
       ProfileIsKnown, AnnouncedStateIsTrue, Starting, Reporting, Gone, Attached
<1> QED
  BY <1>2, <1>3, <1>4 DEF Takes

\* A cleanup that reports success left nothing, if the cleaned profile is the
\* only one there is.
LEMMA Cleaned ==
    ASSUME Shapes, ProfileIsKnown, job.id = snap.id, NEW transactions \in BOOLEAN,
           NEW pc \in Places, CleanUpThen(job.id, transactions, pc)
    PROVE  /\ job' \in Jobs /\ job'.kind = job.kind /\ job'.id = job.id /\ job'.pc = pc
           /\ job'.made = job.made
           /\ job'.ok => Gone'
           /\ profiles' \subseteq profiles
           /\ child' = FALSE /\ transport' \in {"off", "stopping"}
           /\ UNCHANGED <<snap, closing>>
<1>1. CleanUp(job.id) /\ UNCHANGED <<snap, closing>>
  BY DEF CleanUpThen
<1>2. PICK ok \in IF ~Clean(job.id) THEN {FALSE}
                 ELSE IF transactions THEN BOOLEAN ELSE {TRUE} :
        job' = [job EXCEPT !.pc = pc, !.ok = ok]
  BY DEF CleanUpThen
<1>3. ok \in BOOLEAN /\ (ok => Clean(job.id))
  BY <1>2
<1>4. child' = FALSE /\ transport' \in {"off", "stopping"} /\ profiles' \subseteq profiles
  BY <1>1 DEF CleanUp
<1>5. Clean(job.id) => Gone'
  BY <1>1, <1>4 DEF Clean, Gone, ProfileIsKnown
<1>6. CASE ok = TRUE
  BY <1>1, <1>2, <1>3, <1>4, <1>5, <1>6 DEF Shapes, Jobs
<1>7. CASE ok = FALSE
  BY <1>1, <1>2, <1>3, <1>4, <1>5, <1>7 DEF Shapes, Jobs
<1> QED
  BY <1>3, <1>6, <1>7

\* A cleanup keeps the job's invariant.
LEMMA CleanKeeps ==
    ASSUME Shapes, JobState, CleanOld \/ CleanForStop \/ CleanForFault
    PROVE  JobState' /\ job' \in Jobs /\ transport' \in {"off", "stopping"} /\ child' = FALSE
<1>1. job.kind # "idle" /\ job.id = snap.id
  BY DEF CleanOld, CleanForStop, CleanForFault, Starting, Reporting, JobState, JobInv
<1>2. ProfileIsKnown
  BY DEF JobState
<1>3. CASE CleanOld
  <2>1. Starting("cleanOld") /\ CleanUpThen(job.id, FALSE, "cleanedOld")
    BY <1>3 DEF CleanOld
  <2>2. snap.state \in {"Faulted", "Stopping"}
    BY <2>1 DEF JobState, JobInv, StartInv
  <2>3. /\ job' \in Jobs /\ job'.kind = job.kind /\ job'.id = job.id /\ job'.pc = "cleanedOld"
        /\ job'.made = job.made
        /\ job'.ok => Gone'
        /\ profiles' \subseteq profiles
        /\ child' = FALSE /\ transport' \in {"off", "stopping"}
        /\ UNCHANGED <<snap, closing>>
    BY <1>1, <1>2, <2>1, Cleaned DEF Places
  <2> QED
    BY <1>1, <1>2, <2>1, <2>2, <2>3 DEF JobState, JobInv, StartInv, StopInv, ReportInv,
       ProfileIsKnown, AnnouncedStateIsTrue, Starting, Reporting, Gone, Building
<1>4. CASE CleanForStop
  <2>1. job.kind = "stop" /\ CleanUpThen(job.id, TRUE, "settle")
    BY <1>4 DEF CleanForStop
  <2>2. snap.state = "Stopping"
    BY <2>1 DEF JobState, JobInv, StopInv
  <2>3. /\ job' \in Jobs /\ job'.kind = job.kind /\ job'.id = job.id /\ job'.pc = "settle"
        /\ job'.ok => Gone'
        /\ profiles' \subseteq profiles
        /\ child' = FALSE /\ transport' \in {"off", "stopping"}
        /\ UNCHANGED <<snap, closing>>
    BY <1>1, <1>2, <2>1, Cleaned DEF Places
  <2> QED
    BY <1>1, <1>2, <2>1, <2>2, <2>3 DEF JobState, JobInv, StartInv, StopInv, ReportInv,
       ProfileIsKnown, AnnouncedStateIsTrue, Starting, Reporting, Gone
<1>5. CASE CleanForFault
  <2>1. Reporting("clean") /\ CleanUpThen(job.id, TRUE, "judge")
    BY <1>5 DEF CleanForFault
  <2>2. snap.state \in {"Faulted", "Stopping"}
    BY <2>1 DEF JobState, JobInv, ReportInv, Reporting
  <2>3. /\ job' \in Jobs /\ job'.kind = job.kind /\ job'.id = job.id /\ job'.pc = "judge"
        /\ job'.ok => Gone'
        /\ profiles' \subseteq profiles
        /\ child' = FALSE /\ transport' \in {"off", "stopping"}
        /\ UNCHANGED <<snap, closing>>
    BY <1>1, <1>2, <2>1, Cleaned DEF Places
  <2> QED
    BY <1>1, <1>2, <2>1, <2>2, <2>3 DEF JobState, JobInv, StartInv, StopInv, ReportInv,
       ProfileIsKnown, AnnouncedStateIsTrue, Starting, Reporting, Gone
<1> QED
  BY <1>3, <1>4, <1>5

\* The steps of a job that change the announced state, or what it manages.
Works ==
    \/ OldStays \/ BeginStart \/ CloseForStart \/ Stage \/ OpenStart \/ FailStart
    \/ AbortStart \/ FailedStart \/ FaultStart \/ SettleStop \/ NoteHealth
    \/ CloseForFault \/ JudgeFault \/ RefaultReport

\* Each of them keeps the job's invariant.
LEMMA WorksKeep ==
    ASSUME ConstantsAssumption, Shapes, JobState, Works
    PROVE  JobState'
<1> USE DEF JobState, JobInv, ProfileIsKnown, AnnouncedStateIsTrue
<1>1. CASE OldStays
  <2>1. job.id = snap.id /\ job' = NoJob /\ UNCHANGED <<closing, transport, child, profiles>>
    BY <1>1 DEF OldStays, EndStart, Release, resources, Starting
  <2>2. snap'.state = "Faulted" /\ snap'.id = snap.id
    BY <1>1, <2>1 DEF OldStays, Shapes
  <2> QED
    BY <2>1, <2>2 DEF NoJob, Starting, Reporting, StartInv, StopInv, ReportInv
<1>2. CASE BeginStart
  <2>1. Gone /\ job.kind = "start" /\ job.made = {}
    BY <1>2 DEF BeginStart, ResumesBegin, StartInv, Starting
  <2>2. /\ snap' = [state |-> "Starting", id |-> lastId + 1, failures |-> 0]
        /\ job' = [job EXCEPT !.pc = "close", !.id = lastId + 1]
        /\ UNCHANGED <<closing, transport, child, profiles>>
    BY <1>2 DEF BeginStart, resources
  <2>3. /\ job'.kind = "start" /\ job'.pc = "close" /\ job'.id = snap'.id
        /\ job'.made = {}
    BY <2>1, <2>2 DEF Shapes, Jobs
  <2> QED
    BY <2>1, <2>2, <2>3 DEF Gone, Starting, Reporting, StartInv, StopInv, ReportInv, Building,
       Made
<1>3. CASE CloseForStart
  <2>1. /\ job.kind = "start" /\ job.pc = "close"
        /\ job' = [job EXCEPT !.pc = "resolve"]
        /\ UNCHANGED <<snap, closing, transport, child, profiles>>
    BY <1>3 DEF CloseForStart, Starting, Step
  <2>2. /\ job'.kind = "start" /\ job'.pc = "resolve" /\ job'.id = job.id
        /\ job'.made = job.made
    BY <2>1 DEF Shapes, Jobs
  <2> QED
    BY <2>1, <2>2 DEF Starting, Reporting, StartInv, StopInv, ReportInv, Building, Made
<1>4. CASE Stage
  <2>1. PICK ok \in BOOLEAN :
          /\ ok /\ job.pc = "transport" => transport = "off"
          /\ transport' = IF ok /\ job.pc = "transport" THEN "on" ELSE transport
          /\ profiles' = IF ok /\ job.pc = "profile" THEN profiles \cup {job.id} ELSE profiles
          /\ child' = (child \/ (ok /\ job.pc = "child"))
          /\ job' = [job EXCEPT
                !.made = IF ok THEN @ \cup ({job.pc} \cap {"transport", "profile", "child"})
                         ELSE @,
                !.pc = IF job.id \in cancelled THEN "finally"
                       ELSE IF ~ok THEN "fail"
                       ELSE IF closing THEN "abort"
                       ELSE NextStage[@]]
    BY <1>4 DEF Stage
  <2>2. /\ job.kind = "start" /\ job.pc \in {"resolve", "transport", "profile", "child", "handshake"}
        /\ UNCHANGED <<snap, closing>>
    BY <1>4 DEF Stage, NextStage
  <2>3. /\ snap.state \in {"Starting", "Stopping"} /\ job.made = Made(job.pc) /\ job.id = snap.id
        /\ profiles = {job.id : p \in job.made \cap {"profile"}}
        /\ child => "child" \in job.made
        /\ transport # "off" => "transport" \in job.made
        /\ ~closing => /\ "child" \in job.made => child
                       /\ "transport" \in job.made => transport = "on"
    BY <2>2 DEF StartInv, Building
  <2>4. /\ job'.kind = "start" /\ job'.id = job.id /\ profiles' \subseteq {snap.id}
        /\ job'.pc = IF job.id \in cancelled THEN "finally"
                     ELSE IF ~ok THEN "fail"
                     ELSE IF closing THEN "abort" ELSE NextStage[job.pc]
        /\ job'.made = IF ok THEN job.made \cup ({job.pc} \cap {"transport", "profile", "child"})
                       ELSE job.made
    BY <2>1, <2>2, <2>3 DEF Shapes, Jobs
  <2>5. CASE job'.pc \in {"finally", "fail", "abort"}
    BY <2>2, <2>3, <2>4, <2>5 DEF Starting, Reporting, StartInv, StopInv, ReportInv, Building
  <2>6. CASE ok /\ ~closing /\ job'.pc = NextStage[job.pc]
    <3>1. job.pc # "child" => (child' <=> child)
      BY <2>1
    <3>2. CASE job.pc = "resolve"
      <4>1. job'.pc = "transport" /\ job'.made = {} /\ job.made = {}
        BY <2>3, <2>4, <2>6, <3>2 DEF NextStage, Made
      <4>2. UNCHANGED <<transport, profiles>>
        BY <2>1, <3>2
      <4> QED
        BY <2>2, <2>3, <2>4, <2>6, <3>1, <3>2, <4>1, <4>2
           DEF Starting, Reporting, StartInv, StopInv, ReportInv, Building, Made
    <3>3. CASE job.pc = "transport"
      <4>1. job'.pc = "profile" /\ job'.made = {"transport"} /\ job.made = {}
        BY <2>3, <2>4, <2>6, <3>3 DEF NextStage, Made
      <4>2. transport' = "on" /\ UNCHANGED profiles
        BY <2>1, <2>6, <3>3
      <4> QED
        BY <2>2, <2>3, <2>4, <2>6, <3>1, <3>3, <4>1, <4>2
           DEF Starting, Reporting, StartInv, StopInv, ReportInv, Building, Made
    <3>4. CASE job.pc = "profile"
      <4>1. /\ job'.pc = "child" /\ job'.made = {"transport", "profile"}
            /\ job.made = {"transport"}
        BY <2>3, <2>4, <2>6, <3>4 DEF NextStage, Made
      <4>2. UNCHANGED transport /\ profiles = {} /\ profiles' = {job.id}
        BY <2>1, <2>3, <2>6, <3>4, <4>1
      <4> QED
        BY <2>2, <2>3, <2>4, <2>6, <3>1, <3>4, <4>1, <4>2
           DEF Starting, Reporting, StartInv, StopInv, ReportInv, Building, Made
    <3>5. CASE job.pc = "child"
      <4>1. /\ job'.pc = "handshake" /\ job'.made = {"transport", "profile", "child"}
            /\ job.made = {"transport", "profile"}
        BY <2>3, <2>4, <2>6, <3>5 DEF NextStage, Made
      <4>2. UNCHANGED <<transport, profiles>>
        BY <2>1, <3>5
      <4>3. child'
        BY <2>1, <2>6, <3>5
      <4> QED
        BY <2>2, <2>3, <2>4, <2>6, <3>5, <4>1, <4>2, <4>3
           DEF Starting, Reporting, StartInv, StopInv, ReportInv, Building, Made, Parts
    <3>6. CASE job.pc = "handshake"
      <4>1. job'.pc = "open" /\ job'.made = Parts /\ job.made = Parts
        BY <2>3, <2>4, <2>6, <3>6 DEF NextStage, Made
      <4>2. UNCHANGED <<transport, profiles>>
        BY <2>1, <3>6
      <4> QED
        BY <2>2, <2>3, <2>4, <2>6, <3>1, <3>6, <4>1, <4>2
           DEF Starting, Reporting, StartInv, StopInv, ReportInv, Building, Made
    <3> QED
      BY <2>2, <3>2, <3>3, <3>4, <3>5, <3>6
  <2> QED
    BY <2>1, <2>2, <2>4, <2>5, <2>6
<1>5. CASE OpenStart
  <2>1. /\ job.kind = "start" /\ job.pc = "open" /\ job.id = snap.id
        /\ job' = [job EXCEPT !.pc = "finally"]
        /\ UNCHANGED <<closing, transport, child, profiles>>
        /\ \/ snap' = [state |-> "Running", id |-> job.id, failures |-> 0]
           \/ UNCHANGED snap
    BY <1>5 DEF OpenStart, Starting, Step
  <2>2. job'.kind = "start" /\ job'.pc = "finally" /\ job'.id = job.id
    BY <2>1 DEF Shapes, Jobs
  <2>3. snap'.id = snap.id /\ (snap'.state = "Running" \/ snap' = snap)
    BY <2>1
  <2>4. ~closing => child /\ transport = "on" /\ profiles = {snap.id}
    BY <2>1 DEF StartInv, Building, Made, Parts
  <2> QED
    BY <2>1, <2>2, <2>3, <2>4 DEF Starting, Reporting, StartInv, StopInv, ReportInv, Building
<1>6. CASE FailStart \/ AbortStart \/ FailedStart
  <2>1. /\ job.kind = "start" /\ job.pc \in {"fail", "abort", "failed"} /\ job.id = snap.id
        /\ job' \in {[job EXCEPT !.pc = "finally"], [job EXCEPT !.pc = "failed"],
                     [job EXCEPT !.pc = "fault"]}
        /\ UNCHANGED <<snap, closing>> /\ profiles' \subseteq profiles
    BY <1>6 DEF FailStart, AbortStart, FailedStart, Starting, Step, RollBack, resources
  <2>2. /\ job'.kind = "start" /\ job'.id = job.id
        /\ job'.pc \in {"finally", "failed", "fault"}
    BY <2>1 DEF Shapes, Jobs
  <2>3. snap.state \in {"Starting", "Stopping"}
    BY <2>1 DEF StartInv
  <2> QED
    BY <2>1, <2>2, <2>3 DEF Starting, Reporting, StartInv, StopInv, ReportInv, Building
<1>7. CASE FaultStart
  <2>1. /\ job.kind = "start" /\ job.id = snap.id
        /\ job' = [job EXCEPT !.pc = "finally"]
        /\ snap'.id = job.id /\ snap'.state = "Faulted"
        /\ UNCHANGED <<closing, profiles>>
    BY <1>7 DEF FaultStart, Starting, Step, resources
  <2>2. job'.kind = "start" /\ job'.id = job.id /\ job'.pc = "finally"
    BY <2>1 DEF Shapes, Jobs
  <2> QED
    BY <2>1, <2>2 DEF Starting, Reporting, StartInv, StopInv, ReportInv, Building
<1>8. CASE SettleStop
  <2>1. /\ job.kind = "stop" /\ job.pc = "settle" /\ job.id = snap.id /\ job' = NoJob
        /\ snap' = IF job.ok THEN [state |-> "Stopped", id |-> 0, failures |-> 0]
                   ELSE [snap EXCEPT !.state = "Faulted", !.id = job.id]
        /\ UNCHANGED <<closing, transport, child, profiles>>
    BY <1>8 DEF SettleStop, Release, resources
  <2>2. CASE job.ok
    <3>1. Gone /\ snap'.state = "Stopped"
      BY <2>1, <2>2 DEF StopInv
    <3> QED
      BY <2>1, <3>1 DEF Gone, NoJob, Starting, Reporting, StartInv, StopInv, ReportInv
  <2>3. CASE ~job.ok
    <3>1. snap'.state = "Faulted" /\ snap'.id = snap.id
      BY <2>1, <2>3 DEF Shapes
    <3> QED
      BY <2>1, <3>1 DEF NoJob, Starting, Reporting, StartInv, StopInv, ReportInv
  <2> QED
    BY <2>2, <2>3
<1>9. CASE NoteHealth
  <2>1. /\ job.kind = "report" /\ job.pc = "note" /\ job.id = snap.id
        /\ ~closing => Attached(job.id)
        /\ UNCHANGED <<closing, transport, child, profiles>>
    BY <1>9 DEF NoteHealth, Reporting, Quiet, resources, ReportInv
  <2>2. snap'.id = snap.id
        /\ \/ job' = NoJob /\ (snap' = snap \/ snap'.state = "Running")
           \/ job' = [job EXCEPT !.pc = "close"] /\ snap'.state = "Faulted"
    BY <1>9, <2>1 DEF NoteHealth, Release, Step
  <2>3. CASE job' = NoJob /\ (snap' = snap \/ snap'.state = "Running")
    BY <2>1, <2>2, <2>3 DEF NoJob, Attached, Starting, Reporting, StartInv, StopInv, ReportInv
  <2>4. CASE job' = [job EXCEPT !.pc = "close"] /\ snap'.state = "Faulted"
    <3>1. job'.kind = "report" /\ job'.id = job.id /\ job'.pc = "close"
      BY <2>1, <2>4 DEF Shapes, Jobs
    <3> QED
      BY <2>1, <2>2, <2>4, <3>1 DEF Starting, Reporting, StartInv, StopInv, ReportInv
  <2> QED
    BY <2>2, <2>3, <2>4
<1>10. CASE CloseForFault \/ JudgeFault
  <2>1. /\ job.kind = "report" /\ job.pc \in {"close", "judge"} /\ job.id = snap.id
        /\ UNCHANGED <<snap, closing, transport, child, profiles>>
        /\ \/ job' = NoJob
           \/ job' \in {[job EXCEPT !.pc = "clean"], [job EXCEPT !.pc = "fault"]}
    BY <1>10 DEF CloseForFault, JudgeFault, Reporting, Quiet, resources, Release, Step
  <2>2. CASE job' = NoJob
    BY <2>1, <2>2 DEF NoJob, Starting, Reporting, StartInv, StopInv, ReportInv
  <2>3. CASE job' \in {[job EXCEPT !.pc = "clean"], [job EXCEPT !.pc = "fault"]}
    <3>1. job'.kind = "report" /\ job'.id = job.id /\ job'.pc \in {"clean", "fault"}
      BY <2>1, <2>3 DEF Shapes, Jobs
    <3> QED
      BY <2>1, <3>1 DEF Starting, Reporting, StartInv, StopInv, ReportInv
  <2> QED
    BY <2>1, <2>2, <2>3
<1>11. CASE RefaultReport
  <2>1. /\ job.id = snap.id /\ job' = NoJob
        /\ UNCHANGED <<closing, transport, child, profiles>>
    BY <1>11 DEF RefaultReport, Reporting, Quiet, resources, Release
  <2>2. snap'.state = "Faulted" /\ snap'.id = snap.id
    BY <1>11, <2>1 DEF RefaultReport, Shapes
  <2> QED
    BY <2>1, <2>2 DEF NoJob, Starting, Reporting, StartInv, StopInv, ReportInv
<1> QED
  BY <1>1, <1>2, <1>3, <1>4, <1>5, <1>6, <1>7, <1>8, <1>9, <1>10, <1>11 DEF Works

\* Every step does one of these.
LEMMA StepDoes ==
    ASSUME ConstantsAssumption, LifecycleInv, [Next]_vars
    PROVE  \/ Aside \/ Announces \/ Lowers \/ Takes
           \/ CleanOld \/ CleanForStop \/ CleanForFault \/ Works
<1> USE DEF LifecycleInv
<1>1. CASE RequestStart \/ Probe
  BY <1>1 DEF RequestStart, Probe, Aside, controller, resources
<1>2. CASE RequestStop \/ RequestRestart \/ ObserveStop
  BY <1>2 DEF RequestStop, RequestRestart, ObserveStop, AcceptStop, Enter, Aside, Announces,
              resources, Shapes
<1>3. CASE CloseForRhinoExit
  BY <1>3 DEF CloseForRhinoExit, UiFree, Enter, Announces, resources, Shapes
<1>4. CASE TransportEnds
  BY <1>4 DEF TransportEnds, Lowers, controller, Shapes
<1>5. ASSUME NEW r \in Requesters, RequestStep(r) PROVE Aside
  BY <1>5 DEF RequestStep, CloseAdmission, ThrowRequest, AfterRequest, CancelActiveStart, Aside,
              resources
<1>6. CASE SignalExit
  BY <1>6 DEF SignalExit, CancelActiveStart, ExitInv, Lowers, Shapes
<1>7. CASE StartStep
  BY <1>7 DEF StartStep, StartInBackground, AbandonStart, IgnoreStart, EndStart, FinishStart,
              Release, Works, Aside, resources, controller
<1>8. CASE StopStep \/ ReportStep
  BY <1>8 DEF StopStep, ReportStep, Works
<1>9. CASE RestartStep
  BY <1>9 DEF RestartStep, RestartInBackground, RestartAfterStop, AcceptStop, Enter, Aside,
              Announces, resources, Shapes
<1>10. ASSUME NEW by \in {"starter", "restarter"}, AcquireStart(by) PROVE Aside \/ Takes
  <2>1. /\ job = NoJob /\ UNCHANGED <<snap, closing, transport, child, profiles>>
        /\ \/ UNCHANGED job
           \/ /\ ~closing /\ Startable
              /\ job' = [NoJob EXCEPT !.kind = "start", !.by = by, !.id = snap.id,
                                      !.pc = FirstStep]
    BY <1>10 DEF AcquireStart, resources
  <2>2. FirstStep \in {"cleanOld", "begin"}
    BY DEF FirstStep
  <2> QED
    BY <2>1, <2>2 DEF Aside, Takes, NoJob, Jobs, Kinds, Places, Shapes
<1>11. ASSUME NEW s \in Stops, AcquireStop(s) PROVE Aside \/ Takes
  <2>1. /\ job = NoJob /\ UNCHANGED <<snap, closing, transport, child, profiles>>
        /\ \/ UNCHANGED job
           \/ /\ ~closing /\ snap.state = "Stopping"
              /\ job' = [NoJob EXCEPT !.kind = "stop", !.pc = "clean", !.of = s, !.id = snap.id]
    BY <1>11 DEF AcquireStop, MustClean, resources
  <2>2. s \in Int
    BY ConstantsAssumption DEF Stops, ConstantsAssumption
  <2> QED
    BY <2>1, <2>2 DEF Aside, Takes, NoJob, Jobs, Kinds, Places, Shapes
<1>12. ASSUME NEW i \in Ids, AcquireReport(i) PROVE Aside \/ Takes
  <2>1. /\ job = NoJob /\ UNCHANGED <<snap, closing, transport, child, profiles>>
        /\ \/ UNCHANGED job
           \/ /\ ~closing /\ snap.state = "Running"
              /\ job' = [NoJob EXCEPT !.kind = "report", !.pc = "note", !.id = snap.id, !.of = i]
    BY <1>12 DEF AcquireReport, resources
  <2>2. i \in Int
    BY ConstantsAssumption DEF Ids, ConstantsAssumption
  <2> QED
    BY <2>1, <2>2 DEF Aside, Takes, NoJob, Jobs, Kinds, Places, Shapes
<1>13. CASE UNCHANGED vars
  BY <1>13 DEF vars, controller, resources, Aside
<1> QED
  BY <1>1, <1>2, <1>3, <1>4, <1>5, <1>6, <1>7, <1>8, <1>9, <1>10, <1>11, <1>12, <1>13 DEF Next

\* Stops are numbered by integers.
LEMMA StopNumbers ==
    ASSUME ConstantsAssumption
    PROVE  NextStop \in Int
<1>1. 2 * MaxStops + MaxRestarts \in Nat
  BY ConstantsAssumption DEF ConstantsAssumption
<1>2. IsFiniteSet(Stops)
  BY <1>1, FS_Interval DEF Stops
<1>3. IsFiniteSet({s \in Stops : stops[s] # "none"})
  BY <1>2, FS_Subset
<1> QED
  BY <1>3, FS_CardinalityType DEF NextStop

\* Every step keeps the requests.
RequestShapes ==
    /\ request \in [Requesters -> Requests]
    /\ lastId \in Nat /\ activeStart \in Nat
    /\ closing \in BOOLEAN
    /\ ExitInv

\* An accepted stop's request is one.
LEMMA AcceptShapes ==
    ASSUME ConstantsAssumption, RequestShapes, NEW r \in Requesters, AcceptStop(r)
    PROVE  /\ request' \in [Requesters -> Requests] /\ request'[r].pc = "close"
           /\ r # "exit" => request'["exit"] = request["exit"]
<1>1. [pc |-> "close", stop |-> NextStop, token |-> activeStart] \in Requests
  BY StopNumbers DEF Requests, RequestShapes
<1> QED
  BY <1>1 DEF AcceptStop, RequestShapes, Requesters

\* Every step keeps the shapes of the requests.
LEMMA RequestShapesKept ==
    ASSUME ConstantsAssumption, RequestShapes, [Next]_vars
    PROVE  RequestShapes'
<1> USE DEF RequestShapes
<1>1. CASE RequestStop \/ RequestRestart
  <2>1. UNCHANGED <<lastId, activeStart, closing>>
    BY <1>1 DEF RequestStop, RequestRestart, startIds
  <2>2. UNCHANGED request \/ AcceptStop("ui")
    BY <1>1 DEF RequestStop, RequestRestart, stopVars
  <2> QED
    BY <2>1, <2>2, AcceptShapes DEF ExitInv, Requesters
<1>2. CASE ObserveStop
  <2>1. UNCHANGED <<lastId, activeStart, closing>>
    BY <1>2 DEF ObserveStop, startIds
  <2>2. UNCHANGED request \/ AcceptStop("observer")
    BY <1>2 DEF ObserveStop, stopVars
  <2> QED
    BY <2>1, <2>2, AcceptShapes DEF ExitInv, Requesters
<1>3. CASE RestartStep
  <2>1. UNCHANGED <<lastId, activeStart, closing>>
    BY <1>3 DEF RestartStep, RestartInBackground, RestartAfterStop, startIds
  <2>2. UNCHANGED request \/ AcceptStop("restarter")
    BY <1>3 DEF RestartStep, RestartInBackground, RestartAfterStop, stopVars
  <2> QED
    BY <2>1, <2>2, AcceptShapes DEF ExitInv, Requesters
<1>4. CASE CloseForRhinoExit
  <2>1. [pc |-> "close", stop |-> 0, token |-> activeStart] \in Requests
    BY DEF Requests
  <2> QED
    BY <1>4, <2>1 DEF CloseForRhinoExit, startIds, ExitInv
<1>5. ASSUME NEW r \in Requesters, RequestStep(r) \/ CancelActiveStart(r),
             UNCHANGED <<lastId, activeStart, closing>>
      PROVE  RequestShapes'
  <2>1. \/ request[r].pc = "close" /\ request' = [request EXCEPT ![r].pc = "cancel"]
        \/ request' = [request EXCEPT ![r] = NoRequest]
    BY <1>5 DEF RequestStep, CloseAdmission, ThrowRequest, AfterRequest, CancelActiveStart
  <2>2. CASE request[r].pc = "close" /\ request' = [request EXCEPT ![r].pc = "cancel"]
    <3>1. [request[r] EXCEPT !.pc = "cancel"] \in Requests
      BY DEF Requests
    <3> QED
      BY <1>5, <2>2, <3>1 DEF ExitInv, Requesters
  <2>3. CASE request' = [request EXCEPT ![r] = NoRequest]
    <3>1. NoRequest \in Requests /\ NoRequest.pc = "idle"
      BY DEF NoRequest, Requests
    <3> QED
      BY <1>5, <2>3, <3>1 DEF ExitInv, Requesters
  <2> QED
    BY <2>1, <2>2, <2>3
<1>6. ASSUME NEW r \in Requesters, RequestStep(r) PROVE RequestShapes'
  <2>1. UNCHANGED <<lastId, activeStart, closing>>
    BY <1>6 DEF RequestStep, CloseAdmission, ThrowRequest, AfterRequest, startIds
  <2> QED
    BY <1>5, <1>6, <2>1
<1>7. CASE SignalExit
  <2>1. UNCHANGED <<lastId, activeStart, closing>> /\ CancelActiveStart("exit")
    BY <1>7 DEF SignalExit
  <2> QED
    BY <1>5, <2>1 DEF Requesters
<1>8. CASE BeginStart
  BY <1>8 DEF BeginStart, stopVars, ExitInv
<1>9. CASE FinishStart
  BY <1>9 DEF FinishStart, stopVars, ExitInv
<1>10. CASE \/ RequestStart \/ Probe \/ TransportEnds \/ StopStep \/ ReportStep
            \/ (StartStep /\ ~BeginStart /\ ~FinishStart)
            \/ \E by \in {"starter", "restarter"} : AcquireStart(by)
            \/ \E s \in Stops : AcquireStop(s)
            \/ \E i \in Ids : AcquireReport(i)
            \/ UNCHANGED vars
  <2>1. UNCHANGED <<request, lastId, activeStart, closing>>
    BY <1>10 DEF RequestStart, Probe, TransportEnds, StopStep, ReportStep, StartStep, AcquireStart,
       AcquireStop, AcquireReport, vars, controller, startIds, stopVars, StartInBackground,
       AbandonStart, CleanOld, OldStays, IgnoreStart, EndStart, CloseForStart, Stage, OpenStart,
       FailStart, RollBack, AbortStart, FailedStart, FaultStart, CleanForStop, CleanUpThen,
       SettleStop, NoteHealth, CloseForFault, CleanForFault, JudgeFault, RefaultReport, Quiet
  <2> QED
    BY <2>1 DEF ExitInv
<1> QED
  BY <1>1, <1>2, <1>3, <1>4, <1>6, <1>7, <1>8, <1>9, <1>10 DEF Next

\* The announced state and the job keep their shapes.
LEMMA ShapesKept ==
    ASSUME ConstantsAssumption, LifecycleInv, [Next]_vars
    PROVE  Shapes'
<1> DEFINE Rest == /\ snap' \in [state : LifecycleStates, id : Nat, failures : Nat]
                   /\ job' \in Jobs
                   /\ child' \in BOOLEAN /\ transport' \in {"off", "on", "stopping"}
<1>1. Shapes /\ JobState /\ RequestShapes
  BY DEF LifecycleInv, JobState, RequestShapes, Shapes
<1>2. RequestShapes'
  BY <1>1, RequestShapesKept
<1> SUFFICES Rest
  BY <1>2 DEF Shapes, RequestShapes
<1>3. NoJob \in Jobs
  BY DEF NoJob, Jobs, Kinds, Places
<1>4. CASE Aside \/ Announces \/ Lowers \/ Takes
  BY <1>1, <1>3, <1>4 DEF Aside, Announces, Lowers, Takes, Shapes, LifecycleStates
<1>5. CASE CleanOld \/ CleanForStop \/ CleanForFault
  <2>1. job' \in Jobs /\ transport' \in {"off", "stopping"} /\ child' = FALSE
    BY <1>1, <1>5, CleanKeeps
  <2>2. UNCHANGED snap
    BY <1>5 DEF CleanOld, CleanForStop, CleanForFault, CleanUpThen
  <2> QED
    BY <1>1, <2>1, <2>2 DEF Shapes
<1>6. CASE Works
  <2>1. \A pc \in Places : [job EXCEPT !.pc = pc] \in Jobs
    BY <1>1, JobEdited DEF Shapes, Parts
  <2>2. CASE OldStays
    BY <1>1, <1>3, <2>2 DEF OldStays, EndStart, Release, resources, Shapes, LifecycleStates, Jobs
  <2>3. CASE BeginStart
    <3>1. [job EXCEPT !.pc = "close", !.id = lastId + 1] \in Jobs
      <4>1. /\ job \in Jobs /\ lastId + 1 \in Nat /\ "close" \in Places
            /\ {} \in SUBSET Parts /\ TRUE \in BOOLEAN
        BY <1>1 DEF Shapes, Places
      <4> QED
        BY <4>1, JobEdited
    <3> QED
      BY <1>1, <2>3, <3>1 DEF BeginStart, resources, Shapes, LifecycleStates
  <2>4. CASE CloseForStart \/ OpenStart \/ FaultStart
    <3>1. /\ job' \in {[job EXCEPT !.pc = "resolve"], [job EXCEPT !.pc = "finally"]}
          /\ UNCHANGED <<child, transport>>
          /\ \/ UNCHANGED snap
             \/ snap' = [state |-> "Running", id |-> job.id, failures |-> 0]
             \/ snap' = [state |-> "Faulted", id |-> job.id, failures |-> 0]
      BY <2>4 DEF CloseForStart, OpenStart, FaultStart, Step, resources
    <3>2. job.id \in Nat
      BY <1>1 DEF Shapes, Jobs
    <3> QED
      BY <1>1, <2>1, <3>1, <3>2 DEF Shapes, LifecycleStates, Places
  <2>5. CASE Stage
    <3>1. PICK ok \in BOOLEAN :
            /\ transport' = IF ok /\ job.pc = "transport" THEN "on" ELSE transport
            /\ child' = (child \/ (ok /\ job.pc = "child"))
            /\ job' = [job EXCEPT
                  !.made = IF ok THEN @ \cup ({job.pc} \cap {"transport", "profile", "child"})
                           ELSE @,
                  !.pc = IF job.id \in cancelled THEN "finally"
                         ELSE IF ~ok THEN "fail"
                         ELSE IF closing THEN "abort"
                         ELSE NextStage[@]]
      BY <2>5 DEF Stage
    <3>2. UNCHANGED snap
      BY <2>5 DEF Stage
    <3> DEFINE made == IF ok THEN job.made \cup ({job.pc} \cap {"transport", "profile", "child"})
                       ELSE job.made
               pc == IF job.id \in cancelled THEN "finally"
                     ELSE IF ~ok THEN "fail"
                     ELSE IF closing THEN "abort"
                     ELSE NextStage[job.pc]
    <3>3. made \in SUBSET Parts
      BY <1>1 DEF Shapes, Jobs, Parts
    <3>4. job.pc \in {"resolve", "transport", "profile", "child", "handshake"}
      BY <2>5 DEF Stage, NextStage
    <3>5. pc \in Places
      BY <3>4 DEF NextStage, Places
    <3>6. job' = [job EXCEPT !.made = made, !.pc = pc]
      BY <3>1
    <3> HIDE DEF made, pc
    <3>7. job' \in Jobs
      BY <1>1, <3>3, <3>5, <3>6, JobEdited DEF Shapes
    <3>8. transport' \in {"off", "on", "stopping"}
      BY <1>1, <3>1 DEF Shapes
    <3>9. child' \in BOOLEAN
      BY <3>1
    <3> QED
      BY <1>1, <3>2, <3>7, <3>8, <3>9 DEF Shapes
  <2>6. CASE FailStart \/ AbortStart \/ FailedStart
    <3>1. /\ UNCHANGED snap
          /\ job' \in {[job EXCEPT !.pc = "finally"], [job EXCEPT !.pc = "failed"],
                       [job EXCEPT !.pc = "fault"]}
      BY <2>6 DEF FailStart, AbortStart, FailedStart, RollBack, Step
    <3>2. transport' \in {"off", "stopping", transport}
      BY <2>6 DEF FailStart, AbortStart, FailedStart, RollBack, resources
    <3>3. child' \in BOOLEAN
      <4>1. CASE UNCHANGED child
        BY <1>1, <4>1 DEF Shapes
      <4>2. CASE child' = (child /\ "child" \notin job.made)
        BY <4>2
      <4> QED
        BY <2>6, <4>1, <4>2 DEF FailStart, AbortStart, FailedStart, RollBack, resources
    <3> QED
      BY <1>1, <2>1, <3>1, <3>2, <3>3 DEF Shapes, Places
  <2>7. CASE SettleStop \/ RefaultReport
    <3>1. /\ job' = NoJob /\ UNCHANGED <<child, transport>>
          /\ \/ snap' = [state |-> "Stopped", id |-> 0, failures |-> 0]
             \/ snap' = [snap EXCEPT !.state = "Faulted", !.id = job.id]
      BY <2>7 DEF SettleStop, RefaultReport, Release, Quiet, resources
    <3>2. job.id \in Nat
      BY <1>1 DEF Shapes, Jobs
    <3>3. snap' \in [state : LifecycleStates, id : Nat, failures : Nat]
      <4>1. CASE snap' = [state |-> "Stopped", id |-> 0, failures |-> 0]
        BY <4>1 DEF LifecycleStates
      <4>2. CASE snap' = [snap EXCEPT !.state = "Faulted", !.id = job.id]
        BY <1>1, <3>2, <4>2 DEF Shapes, LifecycleStates
      <4> QED
        BY <3>1, <4>1, <4>2
    <3> QED
      BY <1>1, <1>3, <3>1, <3>3 DEF Shapes
  <2>8. CASE NoteHealth
    <3>1. /\ job' \in {NoJob, [job EXCEPT !.pc = "close"]}
          /\ UNCHANGED <<child, transport>>
      BY <2>8 DEF NoteHealth, Release, Step, resources
    <3>2. PICK failures \in {0, snap.failures + 1} :
             \/ UNCHANGED snap
             \/ snap' = [state |-> "Running", id |-> job.id, failures |-> failures]
             \/ snap' = [state |-> "Faulted", id |-> job.id, failures |-> failures]
      BY <2>8 DEF NoteHealth
    <3>3. failures \in Nat /\ job.id \in Nat
      BY <1>1 DEF Shapes, Jobs
    <3> QED
      BY <1>1, <1>3, <2>1, <3>1, <3>2, <3>3 DEF Shapes, LifecycleStates, Places
  <2>9. CASE CloseForFault \/ JudgeFault
    BY <1>1, <1>3, <2>1, <2>9 DEF CloseForFault, JudgeFault, Release, Step, Quiet, resources,
       Shapes, Places
  <2> QED
    BY <1>6, <2>2, <2>3, <2>4, <2>5, <2>6, <2>7, <2>8, <2>9 DEF Works
<1> QED
  BY <1>4, <1>5, <1>6, StepDoes

\* Admission opens only with Running, and whoever announces something else than
\* Running takes it on himself to close admission.
LEMMA AdmissionSteps ==
    ASSUME ConstantsAssumption, LifecycleInv, [Next]_vars, admission'
    PROVE  /\ ~admission => snap'.state = "Running"
           /\ snap.state = "Running" =>
                \/ snap'.state = "Running"
                \/ \E r \in Requesters : request'[r].pc = "close"
                \/ job'.kind = "report" /\ job'.pc = "close"
           /\ \A r \in Requesters : request[r].pc = "close" => request'[r].pc = "close"
           /\ Reporting("close") => job' = job
<1> DEFINE Announced == \E r \in Requesters : request'[r].pc = "close"
           Asked == \A r \in Requesters : request[r].pc = "close" => request'[r].pc = "close"
<1>1. Shapes /\ JobInv
  BY DEF LifecycleInv
<1>2. ASSUME NEW r \in Requesters, AcceptStop(r) PROVE Announced /\ Asked
  BY <1>1, <1>2 DEF AcceptStop, Shapes
<1>3. CASE RequestStop \/ RequestRestart \/ ObserveStop \/ RestartStep
  <2>1. UNCHANGED <<admission, job>>
    BY <1>3 DEF RequestStop, RequestRestart, ObserveStop, RestartStep, RestartInBackground,
       RestartAfterStop, resources
  <2>2. UNCHANGED <<snap, request>> \/ \E r \in Requesters : AcceptStop(r)
    BY <1>3 DEF RequestStop, RequestRestart, ObserveStop, RestartStep, RestartInBackground,
       RestartAfterStop, stopVars, Requesters
  <2> QED
    BY <1>2, <2>1, <2>2
<1>4. CASE CloseForRhinoExit
  <2>1. UNCHANGED <<admission, job>>
    BY <1>4 DEF CloseForRhinoExit, resources
  <2>2. request' = [request EXCEPT !["exit"] = [pc |-> "close", stop |-> 0, token |-> activeStart]]
    BY <1>4 DEF CloseForRhinoExit
  <2>3. Announced /\ Asked
    BY <1>1, <2>2 DEF Shapes, Requesters
  <2> QED
    BY <2>1, <2>3
<1>5. ASSUME NEW r \in Requesters, RequestStep(r) \/ (r = "exit" /\ SignalExit)
      PROVE  UNCHANGED <<snap, job, admission>> /\ Asked
  <2>1. CASE CloseAdmission(r)
    BY <2>1 DEF CloseAdmission
  <2>2. CASE ThrowRequest(r) \/ AfterRequest(r) \/ (r = "exit" /\ SignalExit)
    <3>1. request[r].pc = "cancel" /\ request' = [request EXCEPT ![r] = NoRequest]
      BY <2>2 DEF ThrowRequest, AfterRequest, SignalExit, CancelActiveStart
    <3>2. UNCHANGED <<snap, job, admission>>
      BY <2>2 DEF ThrowRequest, AfterRequest, SignalExit, resources
    <3> QED
      BY <1>1, <3>1, <3>2 DEF Shapes
  <2> QED
    BY <1>5, <2>1, <2>2 DEF RequestStep
<1>6. CASE Works
  <2>1. UNCHANGED request
    BY <1>6 DEF Works, OldStays, EndStart, BeginStart, CloseForStart, Stage, OpenStart, FailStart,
       RollBack, AbortStart, FailedStart, FaultStart, SettleStop, NoteHealth, CloseForFault,
       JudgeFault, RefaultReport, Quiet, stopVars
  <2>2. CASE OldStays \/ BeginStart \/ FaultStart \/ SettleStop \/ RefaultReport
    <3>1. snap.state # "Running" /\ ~Reporting("close") /\ UNCHANGED admission
      <4>1. UNCHANGED admission
        BY <2>2 DEF OldStays, EndStart, BeginStart, FaultStart, SettleStop, RefaultReport,
           Quiet, resources
      <4>2. CASE OldStays \/ BeginStart \/ FaultStart
        <5>1. \/ Starting("cleanedOld") \/ Starting("begin") \/ Starting("fault")
          BY <4>2 DEF OldStays, BeginStart, ResumesBegin, FaultStart
        <5> QED
          BY <1>1, <4>1, <5>1 DEF Starting, Reporting, JobInv, StartInv
      <4>3. CASE SettleStop
        BY <1>1, <4>1, <4>3 DEF SettleStop, Reporting, JobInv, StopInv
      <4>4. CASE RefaultReport
        BY <1>1, <4>1, <4>4 DEF RefaultReport, Reporting, JobInv, ReportInv
      <4> QED
        BY <2>2, <4>2, <4>3, <4>4
    <3> QED
      BY <2>1, <3>1
  <2>3. CASE CloseForStart \/ CloseForFault
    BY <2>3 DEF CloseForStart, CloseForFault
  <2>4. CASE Stage \/ FailStart \/ AbortStart \/ FailedStart \/ JudgeFault
    <3>1. UNCHANGED <<snap, admission>> /\ ~Reporting("close")
      BY <2>4 DEF Stage, FailStart, AbortStart, FailedStart, RollBack, JudgeFault, Starting,
         Reporting, resources
    <3> QED
      BY <2>1, <3>1
  <2>5. CASE OpenStart
    <3>1. ~Reporting("close")
      BY <2>5 DEF OpenStart, Starting, Reporting
    <3>2. \/ UNCHANGED <<snap, admission>>
          \/ snap' = [state |-> "Running", id |-> job.id, failures |-> 0]
      BY <2>5 DEF OpenStart
    <3>3. snap' = [state |-> "Running", id |-> job.id, failures |-> 0] => snap'.state = "Running"
      OBVIOUS
    <3> QED
      BY <2>1, <3>1, <3>2, <3>3
  <2>6. CASE NoteHealth
    <3>0. UNCHANGED admission
      BY <2>6 DEF NoteHealth, resources
    <3>1. /\ job.kind = "report" /\ job.pc = "note"
          /\ \/ UNCHANGED snap
             \/ snap'.state = "Running"
             \/ job' = [job EXCEPT !.pc = "close"]
      BY <2>6 DEF NoteHealth, Reporting, Step
    <3>2. job' = [job EXCEPT !.pc = "close"] => job'.kind = "report" /\ job'.pc = "close"
      BY <1>1, <3>1 DEF Shapes, Jobs
    <3> QED
      BY <2>1, <3>0, <3>1, <3>2 DEF Reporting
  <2> QED
    BY <1>6, <2>2, <2>3, <2>4, <2>5, <2>6 DEF Works
<1>7. CASE CleanOld \/ CleanForStop \/ CleanForFault
  <2>1. UNCHANGED <<snap, request, admission>> /\ ~Reporting("close")
    BY <1>7 DEF CleanOld, CleanForStop, CleanForFault, CleanUpThen, stopVars, Starting, Reporting
  <2> QED
    BY <2>1
<1>8. CASE \/ RequestStart \/ Probe \/ TransportEnds \/ StartInBackground \/ AbandonStart
           \/ IgnoreStart \/ FinishStart
           \/ \E by \in {"starter", "restarter"} : AcquireStart(by)
           \/ \E s \in Stops : AcquireStop(s)
           \/ \E i \in Ids : AcquireReport(i)
           \/ UNCHANGED vars
  <2>1. UNCHANGED <<snap, request, admission>>
    BY <1>8 DEF RequestStart, Probe, TransportEnds, StartInBackground, AbandonStart, IgnoreStart,
       EndStart, FinishStart, AcquireStart, AcquireStop, AcquireReport, vars, controller,
       resources, stopVars
  <2>2. Reporting("close") => job' = job
    <3>1. CASE RequestStart \/ Probe \/ TransportEnds \/ StartInBackground \/ AbandonStart
               \/ UNCHANGED vars
      BY <3>1 DEF RequestStart, Probe, TransportEnds, StartInBackground, AbandonStart, vars,
         controller
    <3>2. CASE IgnoreStart \/ FinishStart
      BY <3>2 DEF IgnoreStart, FinishStart, ResumesBegin, Starting, Reporting
    <3>3. CASE job = NoJob
      BY <3>3 DEF NoJob, Reporting
    <3> QED
      BY <1>8, <3>1, <3>2, <3>3 DEF AcquireStart, AcquireStop, AcquireReport
  <2> QED
    BY <2>1, <2>2
<1> QED
  BY <1>3, <1>4, <1>5, <1>6, <1>7, <1>8 DEF Next, StartStep, StopStep, ReportStep, Works, Requesters

\* So every step keeps admission with Running.
LEMMA AdmissionKept ==
    ASSUME ConstantsAssumption, LifecycleInv, [Next]_vars
    PROVE  AdmissionFollowsState'
  BY AdmissionSteps DEF LifecycleInv, AdmissionFollowsState, Reporting

\* Every step keeps the invariant.
LEMMA LifecycleStep ==
    ASSUME ConstantsAssumption, LifecycleInv, [Next]_vars
    PROVE  LifecycleInv'
<1>1. Shapes /\ JobState /\ RequestShapes
  BY DEF LifecycleInv, JobState, RequestShapes, Shapes
<1>2. JobState'
  BY <1>1, StepDoes, AsideKeeps, AnnounceKeeps, LowersKeeps, TakesKeeps, CleanKeeps, WorksKeep
<1>3. RequestShapes'
  BY <1>1, RequestShapesKept
<1> QED
  BY <1>2, <1>3, ShapesKept, AdmissionKept DEF LifecycleInv, JobState, RequestShapes

\* The controller starts with it.
LEMMA LifecycleInit ==
    ASSUME Init
    PROVE  LifecycleInv
<1>1. NoJob \in Jobs /\ NoRequest \in Requests
  BY DEF NoJob, Jobs, Kinds, Places, NoRequest, Requests
<1> QED
  BY <1>1 DEF Init, LifecycleInv, Shapes, ExitInv, JobInv, StartInv, StopInv, ReportInv,
     ProfileIsKnown, AnnouncedStateIsTrue, AdmissionFollowsState, LifecycleStates, NoJob,
     NoRequest, Requesters, Starting, Reporting

\* The invariant of the controller.
THEOREM LifecycleInvariant == Spec => []LifecycleInv
<1>1. Init => LifecycleInv
  BY LifecycleInit
<1>2. LifecycleInv /\ [Next]_vars => LifecycleInv'
  BY LifecycleStep, ConstantsAssumption
<1> QED
  BY <1>1, <1>2, PTL DEF Spec

\* Whatever stops, reports and Rhino's exit race with a start, a controller that
\* announces Stopped left nothing of any instance, and one that announces Running
\* is attached with its transport and its own profile.
THEOREM AnnouncedStateTrue == Spec => []AnnouncedStateIsTrue
<1>1. LifecycleInv => AnnouncedStateIsTrue
  BY DEF LifecycleInv
<1> QED
  BY <1>1, LifecycleInvariant, PTL

\* No profile with credentials is ever left outside the announced instance.
THEOREM ProfilesKnown == Spec => []ProfileIsKnown
<1>1. LifecycleInv => ProfileIsKnown
  BY DEF LifecycleInv
<1> QED
  BY <1>1, LifecycleInvariant, PTL

\* External work is admitted only while Running, or while whoever ended it is on
\* its way to close admission.
THEOREM AdmissionFollows == Spec => []AdmissionFollowsState
<1>1. LifecycleInv => AdmissionFollowsState
  BY DEF LifecycleInv
<1> QED
  BY <1>1, LifecycleInvariant, PTL

\* An instance is created only when nothing is left of the one before it.
THEOREM StartsFindNothing == Spec => StartFindsNothing
<1>1. LifecycleInv /\ [Next]_vars =>
        [lastId' # lastId => ~child /\ transport = "off" /\ profiles = {}]_vars
  <2> SUFFICES ASSUME LifecycleInv, Next, lastId' # lastId
               PROVE  ~child /\ transport = "off" /\ profiles = {}
    OBVIOUS
  <2>1. BeginStart
    BY DEF Next, RequestStart, RequestStop, RequestRestart, CloseForRhinoExit, ObserveStop, Probe,
       TransportEnds, RequestStep, CloseAdmission, ThrowRequest, AfterRequest, SignalExit,
       StartStep, StartInBackground, AbandonStart, CleanOld, OldStays, IgnoreStart, EndStart,
       CloseForStart, Stage, OpenStart, FailStart, RollBack, AbortStart, FailedStart, FaultStart,
       FinishStart, StopStep, CleanForStop, CleanUpThen, SettleStop, RestartStep,
       RestartInBackground, RestartAfterStop, ReportStep, NoteHealth, CloseForFault,
       CleanForFault, JudgeFault, RefaultReport, Quiet, AcquireStart, AcquireStop,
       AcquireReport, controller, startIds
  <2> QED
    BY <2>1 DEF BeginStart, ResumesBegin, LifecycleInv, JobInv, StartInv, Starting, Gone
<1> QED
  BY <1>1, LifecycleInvariant, PTL DEF Spec, StartFindsNothing
=============================================================================
