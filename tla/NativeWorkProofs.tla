--------------------------- MODULE NativeWorkProofs ---------------------------
(***************************************************************************)
(* Proofs about document actions, geometry transfers, Rhino launches, the  *)
(* writer lock and the journal of script workspaces, for any number of     *)
(* tasks, calls, requests and processes and any bounds: an invariant of    *)
(* each part, that each part behaves in the run of NativeWork as it does   *)
(* alone, and from both that receipts and journal tell what happened,      *)
(* nothing happens twice and the script store stays within its quota.      *)
(***************************************************************************)
EXTENDS NativeWork, FiniteSetTheorems, TLAPS

\* An operation belongs to a turn, and it holds the reservation from its intent on
\* if it writes the file.
StepInv ==
    \A t \in Tasks :
        /\ step[t] # "idle" => task[t] \in {"running", "acting"}
        /\ step[t] # "idle" /\ task[t] = "running" => kind[t] = "save" /\ step[t] # "ended"
        /\ step[t] # "idle" /\ task[t] = "acting" => kind[t] # "save"
        /\ step[t] = "intended" => native[t] = "none"
        /\ step[t] \in {"intended", "sent"} => op[t] = "dispatched" /\ (kind[t] # "load" => reserved = t)
        /\ step[t] = "verify" => op[t] = "completed" /\ kind[t] # "save"

\* What Rhino still may do, the journal has not recorded as done.
NativeInv ==
    \A t \in Tasks :
        /\ native[t] \in {"queued", "running"} =>
             /\ op[t] \in {"dispatched", "uncertain"} /\ (kind[t] # "load" => reserved = t)
             /\ step[t] \notin {"preflight", "inspected", "listed", "intended"}
        /\ native[t] \in {"none", "queued", "running", "cancelled"} => ~effect[t]
        /\ native[t] = "completed" => effect[t]
        /\ op[t] = "completed" => native[t] = "completed"
        /\ op[t] = "cancelled" => native[t] = "cancelled"
        /\ op[t] = "failed" => native[t] \in {"none", "failed"}

\* A task has one handoff, and its record follows the operation of that handoff.
HandoffInv ==
    \A t \in Tasks :
        /\ record[t] = "completed" <=> t \in authorized
        /\ grant[t] = "none" => record[t] = "none"
        /\ record[t] # "none" => t \in Roots
        /\ handoff[t] \in {"none", "suspending"} => record[t] \in {"none", "accepted"}
        /\ task[t] = "suspending" => handoff[t] = "suspending"
        /\ task[t] = "acting" =>
             /\ handoff[t] = "action_running"
             /\ step[t] = "idle" => record[t] \in {"none", "accepted"}
             /\ step[t] \in {"preflight", "inspected", "listed"} => record[t] = "accepted"
             /\ step[t] \in {"intended", "sent", "verify"} => record[t] = "dispatched"
             /\ step[t] \in {"idle", "preflight", "inspected", "listed"} =>
                  op[t] \notin {"dispatched", "uncertain"}
        /\ kind[t] # "save" /\ record[t] \in {"completed", "failed", "cancelled"} =>
             op[t] = record[t]

\* While the file is the version that a call found, another Rhino has it open only if
\* it opened it since the inventories: to save it there is to write the file.
AloneInv ==
    \A t \in Tasks :
        /\ baseline[t] <= file
        /\ kind[t] # "load" /\ (step[t] \in {"listed", "intended"} \/ native[t] \in {"queued", "running"}) =>
             (baseline[t] = file => openAt \subseteq {t} \cup loaded)

DocumentInv == D!TypeOK /\ StepInv /\ NativeInv /\ HandoffInv /\ AloneInv

\* Every step keeps the types.
LEMMA TypesKept == ASSUME D!DocumentAssumption, DocumentInv, [D!Next]_(D!vars) PROVE D!TypeOK'
<1> USE DEF DocumentInv, D!TypeOK, D!Set, D!receipts, D!call, D!rhino, D!documents, D!Fails, D!Ended, D!Admitted,
D!OperationFails, D!OperationResult, D!Release, D!Receipt, D!Outcome, D!Fault, D!Unresolved,
D!CannotRun, D!DocumentAssumption
<1>1. ASSUME NEW t \in Tasks, D!Prepare(t) PROVE D!TypeOK'
  BY <1>1 DEF D!Prepare
<1>2. ASSUME NEW t \in Tasks, D!BeginHandoff(t) PROVE D!TypeOK'
  BY <1>2 DEF D!BeginHandoff
<1>3. ASSUME NEW t \in Tasks, D!SaveStarts(t) PROVE D!TypeOK'
  BY <1>3 DEF D!SaveStarts
<1>4. ASSUME NEW t \in Tasks, D!Cancel(t) PROVE D!TypeOK'
  BY <1>4 DEF D!Cancel
<1>5. ASSUME NEW t \in Tasks, D!PreflightFails(t) PROVE D!TypeOK'
  BY <1>5 DEF D!PreflightFails
<1>6. ASSUME NEW t \in Tasks, D!TurnEnds(t) PROVE D!TypeOK'
  BY <1>6 DEF D!TurnEnds
<1>7. ASSUME NEW t \in Tasks, D!ActionEnds(t) PROVE D!TypeOK'
  BY <1>7 DEF D!ActionEnds
<1>8. ASSUME NEW t \in Tasks, D!ContinuationStarts(t) PROVE D!TypeOK'
  BY <1>8 DEF D!ContinuationStarts
<1>9. ASSUME NEW t \in Tasks, D!ActionStarts(t) PROVE D!TypeOK'
  BY <1>9 DEF D!ActionStarts
<1>10. ASSUME NEW t \in Tasks, D!Inspect(t) PROVE D!TypeOK'
  BY <1>10 DEF D!Inspect
<1>11. ASSUME NEW t \in Tasks, D!ListOthers(t) PROVE D!TypeOK'
  BY <1>11 DEF D!ListOthers
<1>12. ASSUME NEW t \in Tasks, D!OpenElsewhere(t) PROVE D!TypeOK'
  BY <1>12 DEF D!OpenElsewhere
<1>13. ASSUME NEW t \in Tasks, D!OperationIntent(t) PROVE D!TypeOK'
  BY <1>13 DEF D!OperationIntent
<1>14. ASSUME NEW t \in Tasks, D!IntentRefused(t) PROVE D!TypeOK'
  BY <1>14 DEF D!IntentRefused
<1>15. ASSUME NEW t \in Tasks, D!Send(t) PROVE D!TypeOK'
  BY <1>15 DEF D!Send
<1>16. ASSUME NEW t \in Tasks, D!Answer(t) PROVE D!TypeOK'
  BY <1>16 DEF D!Answer
<1>17. ASSUME NEW t \in Tasks, D!CompleteAction(t) PROVE D!TypeOK'
  <2>1. t \in Roots
    BY <1>17 DEF D!CompleteAction, StepInv, HandoffInv
  <2> QED
    BY <1>17, <2>1 DEF D!CompleteAction
<1>18. ASSUME NEW t \in Tasks, D!VerifyFails(t) PROVE D!TypeOK'
  BY <1>18 DEF D!VerifyFails
<1>19. ASSUME NEW t \in Tasks, D!AnswerLost(t) PROVE D!TypeOK'
  BY <1>19 DEF D!AnswerLost
<1>20. ASSUME NEW t \in Tasks, D!NativeStarts(t) PROVE D!TypeOK'
  BY <1>20 DEF D!NativeStarts
<1>21. ASSUME NEW t \in Tasks, D!NativeEnds(t) PROVE D!TypeOK'
  <2>1. file' \in 0..MaxFile /\ openAt' \subseteq Tasks
    BY <1>21 DEF D!NativeEnds, D!Writes, D!Loads
  <2>2. native' \in [Tasks -> {"none", "queued", "running", "completed", "failed",
                              "cancelled", "unknown"}]
    BY <1>21 DEF D!NativeEnds, D!Writes, D!Loads
  <2>3. effect' \in [Tasks -> BOOLEAN] /\ baseline' \in [Tasks -> 0..MaxFile]
    <3>1. effect' = [effect EXCEPT ![t] = TRUE] \/ effect' = effect
      BY <1>21 DEF D!NativeEnds, D!Writes, D!Loads
    <3>2. baseline' = [baseline EXCEPT ![t] = 0]
      BY <1>21 DEF D!NativeEnds, D!Writes, D!Loads
    <3>3. baseline' \in [Tasks -> 0..MaxFile]
      BY <3>2
    <3> QED
      BY <3>1, <3>3
  <2> QED
    BY <1>21, <2>1, <2>2, <2>3 DEF D!NativeEnds, D!Writes, D!Loads
<1>22. ASSUME NEW t \in Tasks, D!NativeCancelled(t) PROVE D!TypeOK'
  BY <1>22 DEF D!NativeCancelled
<1>23. ASSUME NEW t \in Tasks, D!Recover(t) PROVE D!TypeOK'
  BY <1>23 DEF D!Recover
<1>24. CASE D!ExternalWrite \/ D!HostRestarts \/ UNCHANGED D!vars
  BY <1>24 DEF D!ExternalWrite, D!HostRestarts, D!vars
<1>25. ASSUME NEW t \in Tasks, D!NothingToSave(t) PROVE D!TypeOK'
  BY <1>25 DEF D!NothingToSave
<1> QED
  BY <1>1, <1>2, <1>3, <1>4, <1>5, <1>6, <1>7, <1>8, <1>9, <1>10, <1>11, <1>12, <1>13, <1>14, <1>15,
  <1>16, <1>17, <1>18, <1>19, <1>20, <1>21, <1>22, <1>23, <1>24, <1>25 DEF D!Next, D!HostStep, D!NativeStep

\* Every step leaves a document operation in its turn, with its reservation.
LEMMA StepsKept == ASSUME D!DocumentAssumption, DocumentInv, [D!Next]_(D!vars) PROVE StepInv'
<1> USE DEF DocumentInv, D!TypeOK, StepInv, NativeInv, HandoffInv, D!Set, D!receipts, D!call,
D!rhino, D!Fails, D!Ended, D!Admitted, D!OperationFails, D!OperationResult, D!Release, D!Receipt,
D!Outcome, D!Fault, D!Unresolved, D!CannotRun, D!DocumentAssumption
<1>1. ASSUME NEW t \in Tasks, D!Prepare(t) PROVE StepInv'
  BY <1>1 DEF D!Prepare
<1>2. ASSUME NEW t \in Tasks, D!BeginHandoff(t) PROVE StepInv'
  BY <1>2 DEF D!BeginHandoff
<1>3. ASSUME NEW t \in Tasks, D!SaveStarts(t) PROVE StepInv'
  BY <1>3 DEF D!SaveStarts
<1>4. ASSUME NEW t \in Tasks, D!Cancel(t) PROVE StepInv'
  BY <1>4 DEF D!Cancel
<1>5. ASSUME NEW t \in Tasks, D!PreflightFails(t) PROVE StepInv'
  BY <1>5 DEF D!PreflightFails
<1>6. ASSUME NEW t \in Tasks, D!TurnEnds(t) PROVE StepInv'
  BY <1>6 DEF D!TurnEnds
<1>7. ASSUME NEW t \in Tasks, D!ActionEnds(t) PROVE StepInv'
  BY <1>7 DEF D!ActionEnds
<1>8. ASSUME NEW t \in Tasks, D!ContinuationStarts(t) PROVE StepInv'
  BY <1>8 DEF D!ContinuationStarts
<1>9. ASSUME NEW t \in Tasks, D!ActionStarts(t) PROVE StepInv'
  BY <1>9 DEF D!ActionStarts
<1>10. ASSUME NEW t \in Tasks, D!Inspect(t) PROVE StepInv'
  BY <1>10 DEF D!Inspect
<1>11. ASSUME NEW t \in Tasks, D!ListOthers(t) PROVE StepInv'
  BY <1>11 DEF D!ListOthers
<1>12. ASSUME NEW t \in Tasks, D!OpenElsewhere(t) PROVE StepInv'
  BY <1>12 DEF D!OpenElsewhere
<1>13. ASSUME NEW t \in Tasks, D!OperationIntent(t) PROVE StepInv'
  BY <1>13 DEF D!OperationIntent
<1>14. ASSUME NEW t \in Tasks, D!IntentRefused(t) PROVE StepInv'
  BY <1>14 DEF D!IntentRefused
<1>15. ASSUME NEW t \in Tasks, D!Send(t) PROVE StepInv'
  BY <1>15 DEF D!Send
<1>16. ASSUME NEW t \in Tasks, D!Answer(t) PROVE StepInv'
  BY <1>16 DEF D!Answer
<1>17. ASSUME NEW t \in Tasks, D!CompleteAction(t) PROVE StepInv'
  BY <1>17 DEF D!CompleteAction
<1>18. ASSUME NEW t \in Tasks, D!VerifyFails(t) PROVE StepInv'
  BY <1>18 DEF D!VerifyFails
<1>19. ASSUME NEW t \in Tasks, D!AnswerLost(t) PROVE StepInv'
  BY <1>19 DEF D!AnswerLost
<1>20. ASSUME NEW t \in Tasks, D!NativeStarts(t) PROVE StepInv'
  BY <1>20 DEF D!NativeStarts
<1>21. ASSUME NEW t \in Tasks, D!NativeEnds(t) PROVE StepInv'
  BY <1>21 DEF D!NativeEnds, D!Writes, D!Loads
<1>22. ASSUME NEW t \in Tasks, D!NativeCancelled(t) PROVE StepInv'
  BY <1>22 DEF D!NativeCancelled
<1>23. ASSUME NEW t \in Tasks, D!Recover(t) PROVE StepInv'
  BY <1>23 DEF D!Recover
<1>24. CASE D!ExternalWrite \/ D!HostRestarts \/ UNCHANGED D!vars
  BY <1>24 DEF D!ExternalWrite, D!HostRestarts, D!vars
<1>25. ASSUME NEW t \in Tasks, D!NothingToSave(t) PROVE StepInv'
  BY <1>25 DEF D!NothingToSave
<1> QED
  BY <1>1, <1>2, <1>3, <1>4, <1>5, <1>6, <1>7, <1>8, <1>9, <1>10, <1>11, <1>12, <1>13, <1>14, <1>15,
  <1>16, <1>17, <1>18, <1>19, <1>20, <1>21, <1>22, <1>23, <1>24, <1>25 DEF D!Next, D!HostStep, D!NativeStep

\* Every step leaves Rhino's side and the journal's side of an operation in agreement.
LEMMA NativeKept == ASSUME D!DocumentAssumption, DocumentInv, [D!Next]_(D!vars) PROVE NativeInv'
<1> USE DEF DocumentInv, D!TypeOK, StepInv, NativeInv, HandoffInv, D!Set, D!receipts, D!call,
D!rhino, D!Fails, D!Ended, D!Admitted, D!OperationFails, D!OperationResult, D!Release, D!Receipt,
D!Outcome, D!Fault, D!Unresolved, D!CannotRun, D!DocumentAssumption
<1>1. ASSUME NEW t \in Tasks, D!Prepare(t) PROVE NativeInv'
  BY <1>1 DEF D!Prepare
<1>2. ASSUME NEW t \in Tasks, D!BeginHandoff(t) PROVE NativeInv'
  BY <1>2 DEF D!BeginHandoff
<1>3. ASSUME NEW t \in Tasks, D!SaveStarts(t) PROVE NativeInv'
  BY <1>3 DEF D!SaveStarts
<1>4. ASSUME NEW t \in Tasks, D!Cancel(t) PROVE NativeInv'
  BY <1>4 DEF D!Cancel
<1>5. ASSUME NEW t \in Tasks, D!PreflightFails(t) PROVE NativeInv'
  BY <1>5 DEF D!PreflightFails
<1>6. ASSUME NEW t \in Tasks, D!TurnEnds(t) PROVE NativeInv'
  BY <1>6 DEF D!TurnEnds
<1>7. ASSUME NEW t \in Tasks, D!ActionEnds(t) PROVE NativeInv'
  BY <1>7 DEF D!ActionEnds
<1>8. ASSUME NEW t \in Tasks, D!ContinuationStarts(t) PROVE NativeInv'
  BY <1>8 DEF D!ContinuationStarts
<1>9. ASSUME NEW t \in Tasks, D!ActionStarts(t) PROVE NativeInv'
  BY <1>9 DEF D!ActionStarts
<1>10. ASSUME NEW t \in Tasks, D!Inspect(t) PROVE NativeInv'
  BY <1>10 DEF D!Inspect
<1>11. ASSUME NEW t \in Tasks, D!ListOthers(t) PROVE NativeInv'
  BY <1>11 DEF D!ListOthers
<1>12. ASSUME NEW t \in Tasks, D!OpenElsewhere(t) PROVE NativeInv'
  BY <1>12 DEF D!OpenElsewhere
<1>13. ASSUME NEW t \in Tasks, D!OperationIntent(t) PROVE NativeInv'
  BY <1>13 DEF D!OperationIntent
<1>14. ASSUME NEW t \in Tasks, D!IntentRefused(t) PROVE NativeInv'
  BY <1>14 DEF D!IntentRefused
<1>15. ASSUME NEW t \in Tasks, D!Send(t) PROVE NativeInv'
  BY <1>15 DEF D!Send
<1>16. ASSUME NEW t \in Tasks, D!Answer(t) PROVE NativeInv'
  BY <1>16 DEF D!Answer
<1>17. ASSUME NEW t \in Tasks, D!CompleteAction(t) PROVE NativeInv'
  BY <1>17 DEF D!CompleteAction
<1>18. ASSUME NEW t \in Tasks, D!VerifyFails(t) PROVE NativeInv'
  BY <1>18 DEF D!VerifyFails
<1>19. ASSUME NEW t \in Tasks, D!AnswerLost(t) PROVE NativeInv'
  BY <1>19 DEF D!AnswerLost
<1>20. ASSUME NEW t \in Tasks, D!NativeStarts(t) PROVE NativeInv'
  BY <1>20 DEF D!NativeStarts
<1>21. ASSUME NEW t \in Tasks, D!NativeEnds(t) PROVE NativeInv'
  BY <1>21 DEF D!NativeEnds, D!Writes, D!Loads
<1>22. ASSUME NEW t \in Tasks, D!NativeCancelled(t) PROVE NativeInv'
  BY <1>22 DEF D!NativeCancelled
<1>23. ASSUME NEW t \in Tasks, D!Recover(t) PROVE NativeInv'
  BY <1>23 DEF D!Recover
<1>24. CASE D!ExternalWrite \/ D!HostRestarts \/ UNCHANGED D!vars
  BY <1>24 DEF D!ExternalWrite, D!HostRestarts, D!vars
<1>25. ASSUME NEW t \in Tasks, D!NothingToSave(t) PROVE NativeInv'
  BY <1>25 DEF D!NothingToSave
<1> QED
  BY <1>1, <1>2, <1>3, <1>4, <1>5, <1>6, <1>7, <1>8, <1>9, <1>10, <1>11, <1>12, <1>13, <1>14, <1>15,
  <1>16, <1>17, <1>18, <1>19, <1>20, <1>21, <1>22, <1>23, <1>24, <1>25 DEF D!Next, D!HostStep, D!NativeStep

\* Every step keeps a record in step with the one handoff it belongs to.
LEMMA HandoffsKept == ASSUME D!DocumentAssumption, DocumentInv, [D!Next]_(D!vars) PROVE HandoffInv'
<1> USE DEF DocumentInv, D!TypeOK, StepInv, NativeInv, HandoffInv, D!Set, D!receipts, D!call,
D!rhino, D!Fails, D!Ended, D!Admitted, D!OperationFails, D!OperationResult, D!Release, D!Receipt,
D!Outcome, D!Fault, D!Unresolved, D!CannotRun, D!DocumentAssumption
<1>1. ASSUME NEW t \in Tasks, D!Prepare(t) PROVE HandoffInv'
  BY <1>1 DEF D!Prepare
<1>2. ASSUME NEW t \in Tasks, D!BeginHandoff(t) PROVE HandoffInv'
  BY <1>2 DEF D!BeginHandoff
<1>3. ASSUME NEW t \in Tasks, D!SaveStarts(t) PROVE HandoffInv'
  BY <1>3 DEF D!SaveStarts
<1>4. ASSUME NEW t \in Tasks, D!Cancel(t) PROVE HandoffInv'
  BY <1>4 DEF D!Cancel
<1>5. ASSUME NEW t \in Tasks, D!PreflightFails(t) PROVE HandoffInv'
  BY <1>5 DEF D!PreflightFails
<1>6. ASSUME NEW t \in Tasks, D!TurnEnds(t) PROVE HandoffInv'
  BY <1>6 DEF D!TurnEnds
<1>7. ASSUME NEW t \in Tasks, D!ActionEnds(t) PROVE HandoffInv'
  BY <1>7 DEF D!ActionEnds
<1>8. ASSUME NEW t \in Tasks, D!ContinuationStarts(t) PROVE HandoffInv'
  BY <1>8 DEF D!ContinuationStarts
<1>9. ASSUME NEW t \in Tasks, D!ActionStarts(t) PROVE HandoffInv'
  BY <1>9 DEF D!ActionStarts
<1>10. ASSUME NEW t \in Tasks, D!Inspect(t) PROVE HandoffInv'
  BY <1>10 DEF D!Inspect
<1>11. ASSUME NEW t \in Tasks, D!ListOthers(t) PROVE HandoffInv'
  BY <1>11 DEF D!ListOthers
<1>12. ASSUME NEW t \in Tasks, D!OpenElsewhere(t) PROVE HandoffInv'
  BY <1>12 DEF D!OpenElsewhere
<1>13. ASSUME NEW t \in Tasks, D!OperationIntent(t) PROVE HandoffInv'
  BY <1>13 DEF D!OperationIntent
<1>14. ASSUME NEW t \in Tasks, D!IntentRefused(t) PROVE HandoffInv'
  BY <1>14 DEF D!IntentRefused
<1>15. ASSUME NEW t \in Tasks, D!Send(t) PROVE HandoffInv'
  BY <1>15 DEF D!Send
<1>16. ASSUME NEW t \in Tasks, D!Answer(t) PROVE HandoffInv'
  BY <1>16 DEF D!Answer
<1>17. ASSUME NEW t \in Tasks, D!CompleteAction(t) PROVE HandoffInv'
  BY <1>17 DEF D!CompleteAction
<1>18. ASSUME NEW t \in Tasks, D!VerifyFails(t) PROVE HandoffInv'
  BY <1>18 DEF D!VerifyFails
<1>19. ASSUME NEW t \in Tasks, D!AnswerLost(t) PROVE HandoffInv'
  BY <1>19 DEF D!AnswerLost
<1>20. ASSUME NEW t \in Tasks, D!NativeStarts(t) PROVE HandoffInv'
  BY <1>20 DEF D!NativeStarts
<1>21. ASSUME NEW t \in Tasks, D!NativeEnds(t) PROVE HandoffInv'
  BY <1>21 DEF D!NativeEnds, D!Writes, D!Loads
<1>22. ASSUME NEW t \in Tasks, D!NativeCancelled(t) PROVE HandoffInv'
  BY <1>22 DEF D!NativeCancelled
<1>23. ASSUME NEW t \in Tasks, D!Recover(t) PROVE HandoffInv'
  BY <1>23 DEF D!Recover
<1>24. CASE D!ExternalWrite \/ D!HostRestarts \/ UNCHANGED D!vars
  BY <1>24 DEF D!ExternalWrite, D!HostRestarts, D!vars
<1>25. ASSUME NEW t \in Tasks, D!NothingToSave(t) PROVE HandoffInv'
  BY <1>25 DEF D!NothingToSave
<1> QED
  BY <1>1, <1>2, <1>3, <1>4, <1>5, <1>6, <1>7, <1>8, <1>9, <1>10, <1>11, <1>12, <1>13, <1>14, <1>15,
  <1>16, <1>17, <1>18, <1>19, <1>20, <1>21, <1>22, <1>23, <1>24, <1>25 DEF D!Next, D!HostStep, D!NativeStep

\* No step opens a document at an unchanged file.
LEMMA AloneKept == ASSUME D!DocumentAssumption, DocumentInv, [D!Next]_(D!vars) PROVE AloneInv'
<1> USE DEF DocumentInv, D!TypeOK, StepInv, NativeInv, AloneInv, D!Set, D!receipts, D!call, D!rhino, D!documents,
D!Fails, D!Ended, D!Admitted, D!OperationFails, D!OperationResult, D!Release, D!Receipt, D!Outcome,
D!Fault, D!Unresolved, D!CannotRun, D!DocumentAssumption
<1>1. ASSUME NEW t \in Tasks, D!Prepare(t) PROVE AloneInv'
  BY <1>1 DEF D!Prepare
<1>2. ASSUME NEW t \in Tasks, D!BeginHandoff(t) PROVE AloneInv'
  BY <1>2 DEF D!BeginHandoff
<1>3. ASSUME NEW t \in Tasks, D!SaveStarts(t) PROVE AloneInv'
  BY <1>3 DEF D!SaveStarts
<1>4. ASSUME NEW t \in Tasks, D!Cancel(t) PROVE AloneInv'
  BY <1>4 DEF D!Cancel
<1>5. ASSUME NEW t \in Tasks, D!PreflightFails(t) PROVE AloneInv'
  BY <1>5 DEF D!PreflightFails
<1>6. ASSUME NEW t \in Tasks, D!TurnEnds(t) PROVE AloneInv'
  BY <1>6 DEF D!TurnEnds
<1>7. ASSUME NEW t \in Tasks, D!ActionEnds(t) PROVE AloneInv'
  BY <1>7 DEF D!ActionEnds
<1>8. ASSUME NEW t \in Tasks, D!ContinuationStarts(t) PROVE AloneInv'
  BY <1>8 DEF D!ContinuationStarts
<1>9. ASSUME NEW t \in Tasks, D!ActionStarts(t) PROVE AloneInv'
  BY <1>9 DEF D!ActionStarts, HandoffInv
<1>10. ASSUME NEW t \in Tasks, D!Inspect(t) PROVE AloneInv'
  BY <1>10 DEF D!Inspect
<1>11. ASSUME NEW t \in Tasks, D!ListOthers(t) PROVE AloneInv'
  BY <1>11 DEF D!ListOthers
<1>12. ASSUME NEW t \in Tasks, D!OpenElsewhere(t) PROVE AloneInv'
  BY <1>12 DEF D!OpenElsewhere
<1>13. ASSUME NEW t \in Tasks, D!OperationIntent(t) PROVE AloneInv'
  BY <1>13 DEF D!OperationIntent
<1>14. ASSUME NEW t \in Tasks, D!IntentRefused(t) PROVE AloneInv'
  BY <1>14 DEF D!IntentRefused
<1>15. ASSUME NEW t \in Tasks, D!Send(t) PROVE AloneInv'
  BY <1>15 DEF D!Send
<1>16. ASSUME NEW t \in Tasks, D!Answer(t) PROVE AloneInv'
  BY <1>16 DEF D!Answer
<1>17. ASSUME NEW t \in Tasks, D!CompleteAction(t) PROVE AloneInv'
  BY <1>17 DEF D!CompleteAction
<1>18. ASSUME NEW t \in Tasks, D!VerifyFails(t) PROVE AloneInv'
  BY <1>18 DEF D!VerifyFails
<1>19. ASSUME NEW t \in Tasks, D!AnswerLost(t) PROVE AloneInv'
  BY <1>19 DEF D!AnswerLost
<1>20. ASSUME NEW t \in Tasks, D!NativeStarts(t) PROVE AloneInv'
  BY <1>20 DEF D!NativeStarts
<1>21. ASSUME NEW t \in Tasks, D!NativeEnds(t) PROVE AloneInv'
  BY <1>21 DEF D!NativeEnds, D!Writes, D!Loads
<1>22. ASSUME NEW t \in Tasks, D!NativeCancelled(t) PROVE AloneInv'
  BY <1>22 DEF D!NativeCancelled
<1>23. ASSUME NEW t \in Tasks, D!Recover(t) PROVE AloneInv'
  BY <1>23 DEF D!Recover
<1>24. CASE D!ExternalWrite \/ D!HostRestarts \/ UNCHANGED D!vars
  BY <1>24 DEF D!ExternalWrite, D!HostRestarts, D!vars
<1>25. ASSUME NEW t \in Tasks, D!NothingToSave(t) PROVE AloneInv'
  BY <1>25 DEF D!NothingToSave
<1> QED
  BY <1>1, <1>2, <1>3, <1>4, <1>5, <1>6, <1>7, <1>8, <1>9, <1>10, <1>11, <1>12, <1>13, <1>14, <1>15,
  <1>16, <1>17, <1>18, <1>19, <1>20, <1>21, <1>22, <1>23, <1>24, <1>25 DEF D!Next, D!HostStep, D!NativeStep

\* The invariant holds before anything was done.
LEMMA DocumentInit == ASSUME D!DocumentAssumption PROVE D!Init => DocumentInv
<1> SUFFICES ASSUME D!Init PROVE DocumentInv
  OBVIOUS
<1> USE DEF D!DocumentAssumption, D!Init
<1>1. D!TypeOK
  BY DEF D!TypeOK
<1>2. StepInv /\ NativeInv /\ HandoffInv /\ AloneInv
  BY DEF StepInv, NativeInv, HandoffInv, AloneInv
<1> QED
  BY <1>1, <1>2 DEF DocumentInv

\* The invariant holds in every behaviour.
LEMMA DocumentInvariant == ASSUME D!DocumentAssumption PROVE D!Spec => []DocumentInv
<1>1. DocumentInv /\ [D!Next]_(D!vars) => DocumentInv'
  <2> SUFFICES ASSUME DocumentInv, [D!Next]_(D!vars) PROVE DocumentInv'
    OBVIOUS
  <2> QED
    BY TypesKept, StepsKept, NativeKept, HandoffsKept, AloneKept DEF DocumentInv
<1> QED
  BY <1>1, DocumentInit, PTL DEF D!Spec

-----------------------------------------------------------------------------
(***************************************************************************)
(* Geometry transfers                                                      *)
(***************************************************************************)

\* A call works in Rhino under the lease, and does only what its request is for.
CallInv ==
    /\ \A c \in Exports : pc[c] \notin {"importing", "closing"}
    /\ \A c \in Imports : pc[c] \notin {"validate", "publish", "rename", "publishing"}
    /\ \A c \in T!Calls : pc[c] \in {"leased", "native", "validate", "importing", "closing"} => lease = c

\* One call exports, once; what it wrote is what the manifest tells.
ExportInv ==
    /\ \A c \in Exports :
         /\ pc[c] \in {"native", "validate"} => artifact = "dispatched" /\ manifest = 0
         /\ pc[c] = "native" => exported = 0
         /\ pc[c] = "validate" => staging = exported
         /\ pc[c] \in {"publish", "rename", "publishing"} => artifact \in {"exported", "published"}
    /\ artifact \in {"none", "accepted"} => exported = 0 /\ manifest = 0
    /\ artifact \in {"exported", "published"} => manifest = exported

\* Imports come after the publication, and one of them is dispatched, once.
ImportInv ==
    /\ transfer # "none" \/ (\E c \in Imports : pc[c] # "idle") => artifact = "published"
    /\ transfer \in {"none", "accepted"} => times = 0 /\ importOp = "none"
    /\ \A c \in Imports :
         /\ pc[c] \in {"native", "importing", "closing"} => transfer = "dispatched"
         /\ pc[c] \in {"native", "importing"} => times = 0
         /\ pc[c] = "closing" => /\ answer = "completed" => times = 1
                                 /\ answer = "cancelled" => times = 0
    /\ times = 0 => placed = 0
    /\ placed \in {0, exported}
    /\ T!ImportReceipt

TransferInv == T!TypeOK /\ CallInv /\ ExportInv /\ ImportInv

\* Nothing is exported or imported yet.
LEMMA TransferInit == ASSUME T!TransferAssumption PROVE T!Init => TransferInv
<1> SUFFICES ASSUME T!TransferAssumption, T!Init PROVE TransferInv
  OBVIOUS
<1>1. T!TypeOK
  <2>1. pc \in [T!Calls -> {"idle", "waiting", "leased", "native", "validate", "publish", "rename",
                           "publishing", "importing", "closing"}]
    BY DEF T!Init
  <2>2. source \in 1..MaxContent /\ {staging, stored, manifest, exported} \subseteq 0..MaxContent
    BY DEF T!TransferAssumption, T!Init
  <2>3. placed \in 0..MaxContent /\ times \in 0..2 /\ transferFaults \in 0..MaxTransferFaults
    BY DEF T!TransferAssumption, T!Init
  <2> QED
    BY <2>1, <2>2, <2>3 DEF T!Init, T!TypeOK, T!States
<1>2. \A c \in T!Calls : pc[c] = "idle"
  BY DEF T!Init
<1>3. Exports \subseteq T!Calls /\ Imports \subseteq T!Calls
  BY DEF T!Calls
<1>4. CallInv
  BY <1>2, <1>3 DEF CallInv
<1>5. ExportInv
  BY <1>2, <1>3 DEF ExportInv, T!Init
<1>6. ImportInv
  BY <1>2, <1>3 DEF ImportInv, T!Init, T!ImportReceipt
<1> QED
  BY <1>1, <1>4, <1>5, <1>6 DEF TransferInv

\* The call that exports is the only one that does, and no import has begun.
LEMMA ExportStepKeeps ==
    ASSUME T!TransferAssumption, TransferInv, NEW c \in Exports,
           \/ T!Export(c) \/ T!ExportIntent(c) \/ T!NativeExport(c) \/ T!NativeExportFails(c)
           \/ T!Validate(c) \/ T!PublishVerify(c) \/ T!PublishRename(c) \/ T!Publish(c)
              \/ T!DiskFails(c)
    PROVE  TransferInv'
<1> USE DEF T!TransferAssumption, TransferInv, T!TypeOK, CallInv, ExportInv, ImportInv,
            T!ImportReceipt, T!States, T!Calls, T!disk, T!artifacts, T!imports, T!Goto, T!End, T!Fault
<1>1. CASE T!Export(c)
  BY <1>1 DEF T!Export
<1>2. CASE T!ExportIntent(c)
  BY <1>2 DEF T!ExportIntent, T!ExportIntended
<1>3. CASE T!NativeExport(c)
  BY <1>3 DEF T!NativeExport
<1>4. CASE T!NativeExportFails(c)
  BY <1>4 DEF T!NativeExportFails
<1>5. CASE T!Validate(c)
  BY <1>5 DEF T!Validate
<1>6. CASE T!PublishVerify(c)
  BY <1>6 DEF T!PublishVerify
<1>7. CASE T!PublishRename(c)
  BY <1>7 DEF T!PublishRename
<1>8. CASE T!Publish(c)
  BY <1>8 DEF T!Publish, T!Publishable
<1>9. CASE T!DiskFails(c)
  BY <1>9 DEF T!DiskFails
<1> QED
  BY <1>1, <1>2, <1>3, <1>4, <1>5, <1>6, <1>7, <1>8, <1>9

\* The call that imports is the only one that does, and its receipt is true.
LEMMA ImportStepKeeps ==
    ASSUME T!TransferAssumption, TransferInv, NEW c \in Imports,
           \/ T!Import(c) \/ T!ImportIntent(c) \/ T!BeginFails(c) \/ T!Begin(c)
           \/ T!NativeImport(c) \/ T!Close(c) \/ T!CloseFails(c)
    PROVE  TransferInv'
<1> USE DEF T!TransferAssumption, TransferInv, T!TypeOK, CallInv, ExportInv, ImportInv,
            T!ImportReceipt, T!States, T!Calls, T!disk, T!artifacts, T!imports, T!Goto, T!End, T!Fault,
            T!ImportEnds, T!Receipt
<1>1. CASE T!Import(c)
  BY <1>1 DEF T!Import
<1>2. CASE T!ImportIntent(c)
  BY <1>2 DEF T!ImportIntent, T!ImportIntended
<1>3. CASE T!BeginFails(c)
  BY <1>3 DEF T!BeginFails
<1>4. CASE T!Begin(c)
  BY <1>4 DEF T!Begin
<1>5. CASE T!NativeImport(c)
  BY <1>5 DEF T!NativeImport, T!NativeVerified, T!Verified
<1>6. CASE T!Close(c)
  BY <1>6 DEF T!Close
<1>7. CASE T!CloseFails(c)
  BY <1>7 DEF T!CloseFails
<1> QED
  BY <1>1, <1>2, <1>3, <1>4, <1>5, <1>6, <1>7

\* Leases, people and other programs leave the records as they are.
LEMMA OtherTransferStepKeeps ==
    ASSUME T!TransferAssumption, TransferInv,
           T!Cancel \/ T!EditSource \/ T!Tamper \/ (\E c \in T!Calls : T!TakeLease(c))
           \/ UNCHANGED T!vars
    PROVE  TransferInv'
<1> USE DEF T!TransferAssumption, TransferInv, T!TypeOK, CallInv, ExportInv, ImportInv,
            T!ImportReceipt, T!States, T!Calls, T!disk, T!artifacts, T!imports, T!Goto, T!End, T!Fault
<1>1. CASE T!Cancel
  BY <1>1 DEF T!Cancel
<1>2. CASE T!EditSource \/ T!Tamper
  BY <1>2 DEF T!EditSource, T!Tamper
<1>3. ASSUME NEW c \in T!Calls, T!TakeLease(c) PROVE TransferInv'
  BY <1>3 DEF T!TakeLease
<1>4. CASE UNCHANGED T!vars
  BY <1>4 DEF T!vars
<1> QED
  BY <1>1, <1>2, <1>3, <1>4

\* The invariant of the transfer holds in every behaviour.
LEMMA TransferInvariant == ASSUME T!TransferAssumption PROVE T!Spec => []TransferInv
<1>1. TransferInv /\ [T!Next]_(T!vars) => TransferInv'
  BY ExportStepKeeps, ImportStepKeeps, OtherTransferStepKeeps DEF T!Next
<1> QED
  BY <1>1, TransferInit, PTL DEF T!Spec

-----------------------------------------------------------------------------
(***************************************************************************)
(* Launches                                                                *)
(***************************************************************************)

\* The record tells whether a Rhino may have been started, and of the records of a
\* task one at most is open.
LaunchInv ==
    /\ L!TypeOK
    /\ \A r \in Requests :
         /\ launch[r] \in {"none", "accepted"} \/ call[r] = "spawn" => spawns[r] = 0
            /\ rhino[r] = "none"
         /\ spawns[r] \in {0, 1}
         /\ call[r] \in {"inspect", "allow"} => launch[r] = "accepted"
         /\ call[r] \in {"spawn", "identify"} => launch[r] = "dispatched"
         /\ call[r] \in {"wait", "look"} => launch[r] \in {"dispatched", "uncertain"}
         /\ rhino[r] \in {"starting", "ready"} /\ r \notin launchAuthorized /\ ~launchCancelled =>
              launch[r] \in {"dispatched", "uncertain"}
    /\ \A r, q \in Requests :
         {launch[r], launch[q]} \subseteq {"accepted", "dispatched", "uncertain"} => r = q

\* A failed launch is closed, and when a Rhino may have started it stays open.
LEMMA FailedLaunchKeeps ==
    ASSUME LaunchInv, NEW r \in Requests, NEW notStarted \in BOOLEAN, L!LaunchFails(r, notStarted),
           launch[r] \in {"accepted", "dispatched"},
           launch[r] = "accepted" \/ notStarted => spawns[r] = 0 /\ rhino[r] = "none"
    PROVE  LaunchInv'
<1>1. \E state \in {"cancelled", "failed", "uncertain"} :
        /\ launch' = [launch EXCEPT ![r] = state] /\ call' = [call EXCEPT ![r] = "idle"]
        /\ state = "cancelled" => launchCancelled
        /\ state = "failed" => rhino[r] = "none"
  <2>1. CASE launchCancelled
    BY <2>1 DEF L!LaunchFails, L!Update
  <2>2. CASE ~launchCancelled
    <3>1. CASE launch[r] = "accepted" \/ notStarted
      BY <2>2, <3>1 DEF L!LaunchFails, L!Update
    <3>2. CASE ~(launch[r] = "accepted" \/ notStarted)
      BY <2>2, <3>2 DEF L!LaunchFails, L!Update
    <3> QED
      BY <3>1, <3>2
  <2> QED
    BY <2>1, <2>2
<1>2. UNCHANGED <<known, rhino, spawns, launchCancelled, launchAuthorized>>
  BY DEF L!LaunchFails
<1> QED
  BY <1>1, <1>2 DEF LaunchInv, L!TypeOK, L!States

\* Every step of a launch keeps its records.
LEMMA LaunchStepKeeps == ASSUME LaunchInv, [L!Next]_(L!vars) PROVE LaunchInv'
<1> USE DEF LaunchInv, L!TypeOK, L!States, L!Update
<1>1. CASE L!Cancel
  BY <1>1 DEF L!Cancel
<1>2. CASE UNCHANGED L!vars
  BY <1>2 DEF L!vars
<1>3. ASSUME NEW r \in Requests, L!Launch(r) PROVE LaunchInv'
  BY <1>3 DEF L!Launch, L!Unresolved
<1>4. ASSUME NEW r \in Requests, L!Retry(r) PROVE LaunchInv'
  BY <1>4 DEF L!Retry
<1>5. ASSUME NEW r \in Requests, L!InspectSource(r) PROVE LaunchInv'
  <2>1. launch[r] = "accepted" /\ spawns[r] = 0 /\ rhino[r] = "none"
    BY <1>5 DEF L!InspectSource
  <2>2. CASE L!LaunchFails(r, TRUE)
    BY <2>1, <2>2, FailedLaunchKeeps
  <2>3. CASE L!LaunchFails(r, FALSE)
    BY <2>1, <2>3, FailedLaunchKeeps
  <2>4. CASE /\ call' = [call EXCEPT ![r] = "allow"]
             /\ UNCHANGED <<launch, known, rhino, spawns, launchCancelled, launchAuthorized>>
    BY <1>5, <2>1, <2>4
  <2> QED
    BY <1>5, <2>2, <2>3, <2>4 DEF L!InspectSource
<1>6. ASSUME NEW r \in Requests, L!AllowsLaunch(r) PROVE LaunchInv'
  <2>1. launch[r] = "accepted" /\ spawns[r] = 0 /\ rhino[r] = "none"
    BY <1>6 DEF L!AllowsLaunch
  <2>2. CASE L!LaunchFails(r, TRUE)
    BY <2>1, <2>2, FailedLaunchKeeps
  <2>3. CASE L!LaunchFails(r, FALSE)
    BY <2>1, <2>3, FailedLaunchKeeps
  <2>4. CASE /\ L!Update(r, "dispatched", "spawn")
             /\ UNCHANGED <<known, rhino, spawns, launchCancelled, launchAuthorized>>
    BY <1>6, <2>1, <2>4
  <2> QED
    BY <1>6, <2>2, <2>3, <2>4 DEF L!AllowsLaunch
<1>7. ASSUME NEW r \in Requests, L!Spawn(r) PROVE LaunchInv'
  <2>1. launch[r] = "dispatched" /\ spawns[r] = 0 /\ rhino[r] = "none"
    BY <1>7 DEF L!Spawn
  <2>2. CASE L!LaunchFails(r, TRUE)
    BY <2>1, <2>2, FailedLaunchKeeps
  <2>3. CASE /\ rhino' = [rhino EXCEPT ![r] = "starting"]
             /\ spawns' = [spawns EXCEPT ![r] = @ + 1]
             /\ L!Update(r, "dispatched", "identify")
             /\ UNCHANGED <<known, launchCancelled, launchAuthorized>>
    BY <2>1, <2>3
  <2> QED
    BY <1>7, <2>2, <2>3 DEF L!Spawn
<1>8. ASSUME NEW r \in Requests, L!Identify(r) PROVE LaunchInv'
  <2>1. launch[r] = "dispatched"
    BY <1>8 DEF L!Identify
  <2>2. CASE L!LaunchFails(r, FALSE)
    BY <2>1, <2>2, FailedLaunchKeeps
  <2>3. CASE /\ rhino[r] # "exited" /\ known' = known \cup {r}
             /\ L!Update(r, "dispatched", "wait")
             /\ UNCHANGED <<rhino, spawns, launchCancelled, launchAuthorized>>
    BY <2>1, <2>3
  <2> QED
    BY <1>8, <2>2, <2>3 DEF L!Identify
<1>9. ASSUME NEW r \in Requests, L!Wait(r) PROVE LaunchInv'
  BY <1>9 DEF L!Wait
<1>10. ASSUME NEW r \in Requests, L!Look(r) PROVE LaunchInv'
  BY <1>10 DEF L!Look
<1>11. ASSUME NEW r \in Requests, L!RhinoReady(r) \/ L!RhinoExits(r) PROVE LaunchInv'
  BY <1>11 DEF L!RhinoReady, L!RhinoExits
<1> QED
  BY <1>1, <1>2, <1>3, <1>4, <1>5, <1>6, <1>7, <1>8, <1>9, <1>10, <1>11 DEF L!Next

\* The invariant of the launches holds in every behaviour.
LEMMA LaunchInvariant == L!Spec => []LaunchInv
<1>1. L!Init => LaunchInv
  <2> SUFFICES ASSUME L!Init PROVE LaunchInv
    OBVIOUS
  <2>1. L!TypeOK
    <3>1. launch \in [Requests -> L!States]
      BY DEF L!Init, L!States
    <3>2. call \in [Requests -> {"idle", "inspect", "allow", "spawn", "identify", "wait", "look"}]
      BY DEF L!Init
    <3>3. rhino \in [Requests -> {"none", "starting", "ready", "exited"}]
      BY DEF L!Init
    <3>4. spawns \in [Requests -> 0..2]
      BY DEF L!Init
    <3> QED
      BY <3>1, <3>2, <3>3, <3>4 DEF L!Init, L!TypeOK
  <2> QED
    BY <2>1 DEF L!Init, LaunchInv
<1> QED
  BY <1>1, LaunchStepKeeps, PTL DEF L!Spec

\* The Rhinos that may still come to be a replacement all belong to the open record.
LEMMA OneRhinoIsOpen == LaunchInv => L!NoReplacement
<1> SUFFICES ASSUME LaunchInv PROVE L!NoReplacement
  OBVIOUS
<1> DEFINE Coming ==
             {r \in Requests : rhino[r] \in {"starting", "ready"} /\ r \notin launchAuthorized}
<1>1. \A r \in Requests : spawns[r] <= 1
  BY DEF LaunchInv
<1>2. ASSUME ~launchCancelled PROVE Cardinality(Coming) <= 1
  <2>1. \A r, q \in Coming : r = q
    BY <1>2 DEF LaunchInv
  <2>2. CASE Coming = {}
    BY <2>2, FS_EmptySet
  <2>3. ASSUME NEW r \in Coming PROVE Cardinality(Coming) <= 1
    <3>1. Coming = {r}
      BY <2>1
    <3> QED
      BY <3>1, FS_Singleton
  <2> QED
    BY <2>2, <2>3
<1>3. L!Cardinality(Coming) = Cardinality(Coming)
  BY DEF L!Cardinality, Cardinality
<1> QED
  BY <1>1, <1>2, <1>3 DEF L!NoReplacement

-----------------------------------------------------------------------------
(***************************************************************************)
(* The writer lock                                                         *)
(***************************************************************************)

\* A lock file holds the claim of one attempt of one process.
IsLock(f) == f = S!Free \/ \E p \in LockProcesses, n \in Nat, written \in BOOLEAN :
                              f = [claim |-> <<p, n>>, written |-> written]

\* Where a living process holds the lock, and where it holds recovery.lock.
HoldsLock(p) == at[p] \in {"retaken", "locked", "written", "inside", "unlink"}
HoldsRecovery(p) == at[p] \in {"recheck", "remove", "retake", "retaken", "abandon"}

\* Who takes the lock and does not die keeps it; a recovery removes a dead writer's.
LockInv ==
    /\ IsLock(lock) /\ recovery \in BOOLEAN /\ attempt \in [LockProcesses -> Nat]
    /\ at \in [LockProcesses ->
                 {"idle", "look", "stale", "recheck", "remove", "retake", "retaken", "abandon",
                  "locked", "written", "inside", "release", "unlink", "dead"}]
    /\ \A p \in LockProcesses :
         /\ HoldsLock(p) => lock.claim = <<p, attempt[p]>>
         /\ HoldsRecovery(p) => recovery
         /\ at[p] = "remove" => lock # S!Free /\ lock.claim[1] \in S!Dead
    /\ \A p, q \in LockProcesses : HoldsRecovery(p) /\ HoldsRecovery(q) => p = q

\* A lock file that is not there has no owner.
LEMMA FreeIsNobodys == \A p, n : S!Free.claim # <<p, n>>
BY DEF S!Free

\* A process that holds the lock is the only one, and no recovery removes it.
LEMMA HolderIsAlone ==
    LockInv => \A p \in LockProcesses : HoldsLock(p) =>
                 /\ lock # S!Free
                 /\ \A q \in LockProcesses : q # p => ~HoldsLock(q) /\ at[q] # "remove"
BY FreeIsNobodys DEF LockInv, HoldsLock, S!Dead

\* Every file operation of every process keeps the lock its holder's.
LEMMA LockStepKeeps == ASSUME S!StoreAssumption, LockInv, [S!Next]_(S!vars) PROVE LockInv'
<1> USE DEF S!StoreAssumption, LockInv, HoldsLock, HoldsRecovery, S!Goes, S!Busy, S!Dead
<1>1. CASE UNCHANGED S!vars
  BY <1>1 DEF S!vars, IsLock
<1>2. ASSUME NEW p \in LockProcesses, S!Open(p) PROVE LockInv'
  <2>1. CASE lock = S!Free
    <3>1. lock' = [claim |-> <<p, attempt[p] + 1>>, written |-> FALSE]
      BY <1>2, <2>1 DEF S!Open
    <3>2. /\ at' = [at EXCEPT ![p] = "locked"] /\ attempt' = [attempt EXCEPT ![p] = @ + 1]
          /\ at[p] = "idle" /\ UNCHANGED recovery
      BY <1>2, <2>1 DEF S!Open
    <3>3. attempt'[p] \in Nat /\ attempt'[p] = attempt[p] + 1
      BY <3>2
    <3>4. IsLock(lock') /\ lock'.claim = <<p, attempt'[p]>>
      BY <3>1, <3>3 DEF IsLock
    <3>5. \A q \in LockProcesses : ~HoldsLock(q) /\ at[q] # "remove"
      BY <2>1, HolderIsAlone
    <3> QED
      BY <3>2, <3>3, <3>4, <3>5
  <2>2. CASE lock # S!Free
    BY <1>2, <2>2 DEF S!Open, IsLock
  <2> QED
    BY <2>1, <2>2
<1>3. ASSUME NEW p \in LockProcesses, S!Look(p) \/ S!OpenRecovery(p) \/ S!Recheck(p) PROVE LockInv'
  <2>1. CASE S!Look(p)
    <3>1. at' = [at EXCEPT ![p] = "stale"] \/ at' = [at EXCEPT ![p] = "idle"]
      BY <2>1 DEF S!Look
    <3>2. at[p] = "look" /\ UNCHANGED <<lock, recovery, attempt>>
      BY <2>1 DEF S!Look
    <3> QED
      BY <3>1, <3>2 DEF IsLock
  <2>2. CASE S!OpenRecovery(p) /\ recovery
    <3>1. at' = [at EXCEPT ![p] = "idle"] /\ at[p] = "stale" /\ UNCHANGED <<lock, recovery, attempt>>
      BY <2>2 DEF S!OpenRecovery
    <3> QED
      BY <3>1 DEF IsLock
  <2>3. CASE S!OpenRecovery(p) /\ ~recovery
    <3>1. at' = [at EXCEPT ![p] = "recheck"] /\ at[p] = "stale" /\ UNCHANGED <<lock, attempt>>
      BY <2>3 DEF S!OpenRecovery
    <3>2. recovery' = TRUE /\ \A q \in LockProcesses : ~HoldsRecovery(q)
      BY <2>3 DEF S!OpenRecovery
    <3> QED
      BY <3>1, <3>2 DEF IsLock
  <2>4. CASE S!Recheck(p)
    <3>1. at[p] = "recheck" /\ UNCHANGED <<lock, recovery, attempt>>
      BY <2>4 DEF S!Recheck
    <3>2. \/ at' = [at EXCEPT ![p] = "abandon"]
          \/ at' = [at EXCEPT ![p] = "remove"] /\ lock # S!Free /\ lock.claim[1] \in S!Dead
      BY <2>4 DEF S!Recheck, S!Readable, S!OwnerDead, S!Free
    <3> QED
      BY <3>1, <3>2 DEF IsLock
  <2> QED
    BY <1>3, <2>1, <2>2, <2>3, <2>4
<1>4. ASSUME NEW p \in LockProcesses, S!Remove(p) PROVE LockInv'
  BY <1>4 DEF S!Remove, IsLock
<1>5. ASSUME NEW p \in LockProcesses, S!Retake(p) PROVE LockInv'
  <2>1. CASE lock = S!Free
    <3>1. lock' = [claim |-> <<p, attempt[p]>>, written |-> FALSE]
      BY <1>5, <2>1 DEF S!Retake, S!Claim
    <3>2. at' = [at EXCEPT ![p] = "retaken"] /\ at[p] = "retake" /\ UNCHANGED <<attempt, recovery>>
      BY <1>5, <2>1 DEF S!Retake
    <3>3. IsLock(lock') /\ lock'.claim = <<p, attempt'[p]>>
      BY <3>1, <3>2 DEF IsLock
    <3>4. \A q \in LockProcesses : ~HoldsLock(q) /\ at[q] # "remove"
      BY <2>1, HolderIsAlone
    <3> QED
      BY <3>2, <3>3, <3>4
  <2>2. CASE lock # S!Free
    BY <1>5, <2>2 DEF S!Retake, IsLock
  <2> QED
    BY <2>1, <2>2
<1>6. ASSUME NEW p \in LockProcesses, S!CloseRecovery(p) PROVE LockInv'
  BY <1>6 DEF S!CloseRecovery, IsLock
<1>7. ASSUME NEW p \in LockProcesses, S!WriteClaim(p) PROVE LockInv'
  <2>1. lock # S!Free
    BY <1>7, HolderIsAlone DEF S!WriteClaim
  <2>2. PICK where \in {"written", "release"} :
          /\ at' = [at EXCEPT ![p] = where] /\ at[p] = "locked" /\ UNCHANGED <<attempt, recovery>>
          /\ lock' = lock \/ lock' = [lock EXCEPT !.written = TRUE]
    BY <1>7 DEF S!WriteClaim
  <2>3. IsLock(lock') /\ lock'.claim = lock.claim /\ lock' # S!Free
    <3>1. PICK q \in LockProcesses, n \in Nat, written \in BOOLEAN :
            lock = [claim |-> <<q, n>>, written |-> written]
      BY <2>1 DEF IsLock
    <3>2. PICK now \in BOOLEAN : lock' = [claim |-> <<q, n>>, written |-> now]
      BY <2>2, <3>1
    <3>3. IsLock(lock')
      BY <3>2 DEF IsLock
    <3>4. lock'.claim = <<q, n>> /\ lock.claim = <<q, n>>
      BY <3>1, <3>2
    <3> QED
      BY <3>3, <3>4, FreeIsNobodys
  <2> QED
    BY <2>2, <2>3
<1>8. ASSUME NEW p \in LockProcesses, S!Enter(p) \/ S!Leave(p) \/ S!Release(p) PROVE LockInv'
  BY <1>8 DEF S!Enter, S!Leave, S!Release, S!Readable, S!Claim, IsLock
<1>9. ASSUME NEW p \in LockProcesses, S!Unlink(p) PROVE LockInv'
  BY <1>9, HolderIsAlone DEF S!Unlink, IsLock
<1>10. ASSUME NEW p \in LockProcesses, S!Crash(p) PROVE LockInv'
  BY <1>10 DEF S!Crash, IsLock
<1> QED
  BY <1>1, <1>2, <1>3, <1>4, <1>5, <1>6, <1>7, <1>8, <1>9, <1>10 DEF S!Next

\* The invariant of the lock holds in every behaviour.
LEMMA LockInvariant == ASSUME S!StoreAssumption PROVE S!Spec => []LockInv
<1>1. S!Init => LockInv
  <2> SUFFICES ASSUME S!Init PROVE LockInv
    OBVIOUS
  <2>1. \A p \in LockProcesses : at[p] = "idle" /\ attempt[p] \in Nat
    BY DEF S!Init
  <2> QED
    BY <2>1 DEF S!Init, LockInv, IsLock, HoldsLock, HoldsRecovery
<1> QED
  BY <1>1, LockStepKeeps, PTL DEF S!Spec

-----------------------------------------------------------------------------
(***************************************************************************)
(* Runs of saved scripts.  z stands for a workspace: its processes,        *)
(* batches, texts and bounds.                                              *)
(***************************************************************************)

\* A run, a batch, what a process does as runner and as observer.
States(z) == R(z)!Terminal \cup {"absent", "prepared", "dispatching", "unknown"}
RunRecord(z) == [state : States(z), version : Nat, stored : BOOLEAN, extra : BOOLEAN]
Claim(z) == [owner : z.processes \X Nat, life : Nat \ {0}, revision : Nat]
RunnerRecord(z) ==
    [at : {"admit", "item", "send", "sent"}, batch : z.batches, revision : Nat, life : Nat \ {0},
     item : R(z)!Items, version : Nat, stop : BOOLEAN, aborted : BOOLEAN]
Judging(z) == [at : {"judge"}, run : R(z)!Runs, version : Nat, prepared : BOOLEAN]
Asking(z) == [at : {"ask"}, run : R(z)!Runs, version : Nat]
Concluding(z) == [at : {"conclude"}, run : R(z)!Runs, version : Nat, found : R(z)!Results \cup {"none"}]
Observing(z) == Judging(z) \cup Asking(z) \cup Concluding(z)
NativeStates(z) == {"none", "sent", "working", "lost", "cut"} \cup R(z)!Results
ScriptTypes(z) ==
    /\ script \in Seq([text : z.texts, deleted : BOOLEAN])
    /\ batch \in [z.batches -> {R(z)!Absent} \cup Claim(z)]
    /\ run \in [R(z)!Runs -> RunRecord(z)]
    /\ runner \in [z.processes -> {R(z)!Idle} \cup RunnerRecord(z)]
    /\ observer \in [z.processes -> {R(z)!Idle} \cup Observing(z)]
    /\ alive \in [z.processes -> Nat] /\ life \in Nat \ {0}
    /\ scriptNative \in [R(z)!Runs -> NativeStates(z)]
    /\ retained \in [R(z)!Runs -> R(z)!Results \cup {"none"}]
    /\ sends \in [R(z)!Runs -> Nat]
    /\ settled \in [R(z)!Runs -> R(z)!Terminal \cup {"none"}]

\* What the journal says of a run.
EffectFits(z, r) ==
    /\ run[r].state = "completed" => scriptNative[r] = "ok"
    /\ run[r].state \in {"notStarted", "notRun"} => scriptNative[r] \in {"none", "refused"}
    /\ settled[r] = IF run[r].state \in R(z)!Terminal THEN run[r].state ELSE "none"
    /\ run[r].state \in {"absent", "prepared"} => sends[r] = 0
    /\ batch[r[1]] = R(z)!Absent => run[r].state = "absent"
\* A run is sent once, in order, and what is retained of it is what became of it.
SendFits(z, r) ==
    /\ sends[r] <= 1 /\ (sends[r] = 0 => scriptNative[r] = "none")
    /\ retained[r] # "none" => scriptNative[r] = retained[r]
    /\ r[2] > 1 /\ scriptNative[r] # "none" => scriptNative[<<r[1], r[2] - 1>>] = "ok"
\* The runner of a batch owns it; the items after its own were not touched.
Working(p) == runner[p].at \in {"item", "send", "sent"}
Before(p) == <<runner[p].batch, runner[p].item - 1>>
RunnerFits(z, p) ==
    /\ runner[p].at = "admit" => runner[p].item = 1 /\ ~runner[p].stop
    /\ Working(p) =>
         /\ batch[runner[p].batch] # R(z)!Absent /\ batch[runner[p].batch].owner = R(z)!Owner(p)
         /\ \A j \in R(z)!Items : j > runner[p].item => run[<<runner[p].batch, j>>].state = "prepared"
    /\ runner[p].at = "item" =>
         /\ run[R(z)!Current(p)].state = "prepared"
         /\ ~runner[p].stop /\ runner[p].item > 1 => scriptNative[Before(p)] = "ok"
    /\ runner[p].at \in {"send", "sent"} =>
         /\ runner[p].item > 1 => scriptNative[Before(p)] = "ok"
         /\ runner[p].version <= run[R(z)!Current(p)].version
         /\ runner[p].version = run[R(z)!Current(p)].version => run[R(z)!Current(p)].state = "dispatching"
    /\ runner[p].at = "send" =>
         sends[R(z)!Current(p)] = 0 /\ run[R(z)!Current(p)].state \in {"dispatching", "unknown"}
    /\ runner[p].at = "sent" => sends[R(z)!Current(p)] = 1
\* An observer saw a run that was not over, and a result that stays.
SawPrepared(p) == observer[p].at = "judge" /\ observer[p].prepared
ObserverFits(z, p) ==
    observer[p] # R(z)!Idle =>
        LET r == observer[p].run IN
          /\ run[r].state # "absent"
          /\ ~SawPrepared(p) => run[r].state # "prepared"
          /\ observer[p].version <= run[r].version
          /\ observer[p].version = run[r].version =>
               run[r].state \in (IF SawPrepared(p) THEN {"prepared"} ELSE {"dispatching", "unknown"})
          /\ observer[p].at = "conclude" /\ observer[p].found # "none" => scriptNative[r] = observer[p].found
\* A runner that is gone does not come back to its batch: neither that of a run which is
\* recorded as never dispatched for that, nor the observer's own.
OwnersGone(z) ==
    /\ \A r \in R(z)!Runs : run[r].state = "died" => \A p \in z.processes : ~R(z)!ActiveClaim(p, r[1])
    /\ \A p \in z.processes : SawPrepared(p) => ~R(z)!ActiveClaim(p, observer[p].run[1])

JournalInv(z) ==
    /\ ScriptTypes(z)
    /\ \A r \in R(z)!Runs : EffectFits(z, r) /\ SendFits(z, r)
    /\ \A p \in z.processes : RunnerFits(z, p) /\ ObserverFits(z, p)

-----------------------------------------------------------------------------

\* The records are what they look like.
LEMMA ScriptShapes ==
    ASSUME NEW z
    PROVE  /\ R(z)!Idle.at = "idle" /\ R(z)!Absent.life = 0
           /\ \A c \in Claim(z) : c # R(z)!Absent
           /\ \A x \in RunnerRecord(z) : x # R(z)!Idle /\ x.at \in {"admit", "item", "send", "sent"}
           /\ \A o \in Observing(z) : o # R(z)!Idle /\ o.at \in {"judge", "ask", "conclude"}
              /\ o.run \in R(z)!Runs /\ o.version \in Nat
           /\ \A o \in Judging(z) : o.at = "judge" /\ o.prepared \in BOOLEAN
           /\ \A o \in Asking(z) : o.at = "ask"
           /\ \A o \in Concluding(z) : o.at = "conclude" /\ o.found \in R(z)!Results \cup {"none"}
           /\ R(z)!NoRun \in RunRecord(z) /\ R(z)!NoRun.state = "absent"
           /\ "absent" \notin R(z)!Terminal /\ "prepared" \notin R(z)!Terminal
              /\ "dispatching" \notin R(z)!Terminal
           /\ "unknown" \notin R(z)!Terminal /\ "none" \notin R(z)!Terminal
BY DEF R!Idle, R!Absent, Claim, RunnerRecord, Observing, Judging, Asking, Concluding, R!NoRun, RunRecord, States, R!Terminal

\* A runner at work is one of the records, at an item of its batch.
LEMMA RunnerKinds ==
    ASSUME NEW z, ScriptTypes(z), NEW p \in z.processes, runner[p].at # "idle"
    PROVE  /\ runner[p] \in RunnerRecord(z) /\ runner[p].batch \in z.batches
              /\ runner[p].item \in R(z)!Items
           /\ runner[p].version \in Nat /\ runner[p].stop \in BOOLEAN /\ runner[p].aborted \in BOOLEAN
           /\ R(z)!Current(p) \in R(z)!Runs /\ R(z)!Current(p)[1] = runner[p].batch
              /\ R(z)!Current(p)[2] = runner[p].item
<1>1. runner[p] \in RunnerRecord(z)
  BY ScriptShapes DEF ScriptTypes
<1>2. /\ runner[p].batch \in z.batches /\ runner[p].item \in R(z)!Items
      /\ runner[p].version \in Nat /\ runner[p].stop \in BOOLEAN /\ runner[p].aborted \in BOOLEAN
  BY <1>1 DEF RunnerRecord
<1> QED
  BY <1>1, <1>2 DEF R!Current, R!Runs

\* A batch has one runner: its owner.
LEMMA OneRunner ==
    ASSUME NEW z, JournalInv(z), NEW p \in z.processes, NEW q \in z.processes, Working(p), Working(q),
           runner[p].batch = runner[q].batch
    PROVE  p = q
<1>1. batch[runner[p].batch].owner = R(z)!Owner(p) /\ batch[runner[q].batch].owner = R(z)!Owner(q)
  BY DEF JournalInv, RunnerFits
<1> QED
  BY <1>1 DEF R!Owner

\* An update is written when the outcome was not known yet, or not at all.
LEMMA UpdateWrites ==
    ASSUME NEW z, NEW c, NEW version, NEW state, NEW extra, R(z)!Update(c, version, state, extra),
           run[c].version = version => run[c].state \notin R(z)!Terminal
    PROVE  \/ UNCHANGED <<run, settled>>
           \/ /\ R(z)!Write(c, state, extra) /\ run[c].state \notin R(z)!Terminal
              /\ state \notin R(z)!Terminal => run[c].version = version
BY DEF R!Update

\* What a write does to the journal.
LEMMA WriteFits ==
    ASSUME NEW z, JournalInv(z), NEW c \in R(z)!Runs,
           NEW state \in States(z) \ {"absent", "prepared"}, NEW extra \in BOOLEAN,
           R(z)!Write(c, state, extra), run[c].state \notin R(z)!Terminal, run[c].state # "absent",
           UNCHANGED <<batch, scriptNative, sends>>,
           state = "completed" => scriptNative[c] = "ok",
           state \in {"notStarted", "notRun"} => scriptNative[c] \in {"none", "refused"}
    PROVE  /\ run' \in [R(z)!Runs -> RunRecord(z)]
              /\ settled' \in [R(z)!Runs -> R(z)!Terminal \cup {"none"}]
           /\ run'[c].state = state /\ run'[c].version = run[c].version + 1
           /\ \A r \in R(z)!Runs \ {c} : run'[r] = run[r]
           /\ \A r \in R(z)!Runs : EffectFits(z, r)'
<1> DEFINE x == [state |-> state, version |-> run[c].version + 1, stored |-> TRUE,
                 extra |-> run[c].extra \/ extra]
           s == IF settled[c] = "none" /\ state \in R(z)!Terminal THEN state ELSE settled[c]
<1>0. /\ run \in [R(z)!Runs -> RunRecord(z)]
         /\ settled \in [R(z)!Runs -> R(z)!Terminal \cup {"none"}] /\ run[c].version \in Nat
      /\ EffectFits(z, c)
  BY DEF JournalInv, ScriptTypes, RunRecord
<1>1. run' = [run EXCEPT ![c] = x] /\ settled' = [settled EXCEPT ![c] = s]
  BY <1>0 DEF R!Write
<1>2. x \in RunRecord(z) /\ x.state = state /\ x.version = run[c].version + 1
  BY <1>0 DEF RunRecord
<1>3. s = IF state \in R(z)!Terminal THEN state ELSE "none"
  BY <1>0 DEF EffectFits
<1>4. s \in R(z)!Terminal \cup {"none"}
  BY <1>3
<1> HIDE DEF x, s
<1>5. /\ run' \in [R(z)!Runs -> RunRecord(z)] /\ settled' \in [R(z)!Runs -> R(z)!Terminal \cup {"none"}]
      /\ run'[c] = x /\ settled'[c] = s
      /\ \A r \in R(z)!Runs \ {c} : run'[r] = run[r] /\ settled'[r] = settled[r]
  BY <1>0, <1>1, <1>2, <1>4
<1>6. ASSUME NEW r \in R(z)!Runs PROVE EffectFits(z, r)'
  <2>1. CASE r = c
    <3>1. batch[c[1]] # R(z)!Absent
      BY <1>0 DEF EffectFits
    <3> QED
      BY <2>1, <3>1, <1>2, <1>3, <1>5 DEF EffectFits
  <2>2. CASE r # c
    BY <2>2, <1>5 DEF EffectFits, JournalInv
  <2> QED
    BY <2>1, <2>2
<1> QED
  BY <1>2, <1>5, <1>6

\* Who has not changed meanwhile still knows what it has to know.
LEMMA RunnersRest ==
    ASSUME NEW z, JournalInv(z), NEW c \in R(z)!Runs, NEW state \in States(z) \ {"absent", "prepared"},
           run'[c].state = state, run'[c].version = run[c].version + 1,
           \A r \in R(z)!Runs \ {c} : run'[r] = run[r],
           UNCHANGED <<batch, scriptNative, sends>>,
           NEW q \in z.processes, runner'[q] = runner[q], alive'[q] = alive[q],
           run[c].state = "prepared" => ~(Working(q) /\ runner[q].batch = c[1]),
           runner[q].at = "send" /\ R(z)!Current(q) = c => state \in {"dispatching", "unknown"}
    PROVE  RunnerFits(z, q)'
<1>0. ScriptTypes(z) /\ RunnerFits(z, q) /\ run[c].version \in Nat
  BY DEF JournalInv, ScriptTypes, RunRecord
<1>1. CASE runner[q].at = "idle"
  BY <1>1 DEF RunnerFits, Working
<1>2. CASE runner[q].at # "idle"
  <2>1. /\ R(z)!Current(q) \in R(z)!Runs /\ runner[q].batch \in z.batches
           /\ runner[q].item \in R(z)!Items /\ runner[q].version \in Nat
        /\ R(z)!Current(q)[1] = runner[q].batch
    BY <1>0, <1>2, RunnerKinds
  <2>2. /\ Working(q)' = Working(q) /\ R(z)!Current(q)' = R(z)!Current(q) /\ Before(q)' = Before(q)
           /\ R(z)!Owner(q)' = R(z)!Owner(q)
    BY DEF Working, R!Current, Before, R!Owner
  <2>3. ASSUME Working(q), NEW j \in R(z)!Items, j > runner[q].item
        PROVE  run'[<<runner[q].batch, j>>].state = "prepared"
    <3>1. <<runner[q].batch, j>> \in R(z)!Runs /\ run[<<runner[q].batch, j>>].state = "prepared"
      BY <2>1, <2>3, <1>0 DEF RunnerFits, R!Runs
    <3>2. <<runner[q].batch, j>> # c
      BY <2>3, <3>1
    <3> QED
      BY <3>1, <3>2
  <2>4. ASSUME runner[q].at = "item" PROVE run'[R(z)!Current(q)].state = "prepared"
    <3>1. run[R(z)!Current(q)].state = "prepared" /\ Working(q)
      BY <2>4, <1>0 DEF RunnerFits, Working
    <3>2. R(z)!Current(q) # c
      BY <2>1, <3>1
    <3> QED
      BY <2>1, <3>1, <3>2
  <2>5. ASSUME runner[q].at \in {"send", "sent"}
        PROVE  /\ runner[q].version <= run'[R(z)!Current(q)].version
               /\ runner[q].version = run'[R(z)!Current(q)].version => run'[R(z)!Current(q)].state = "dispatching"
    <3>1. /\ runner[q].version <= run[R(z)!Current(q)].version
          /\ runner[q].version = run[R(z)!Current(q)].version => run[R(z)!Current(q)].state = "dispatching"
      BY <2>5, <1>0 DEF RunnerFits
    <3>2. CASE R(z)!Current(q) = c
      BY <3>1, <3>2, <2>1, <1>0
    <3>3. CASE R(z)!Current(q) # c
      BY <3>1, <3>3, <2>1
    <3> QED
      BY <3>2, <3>3
  <2>6. ASSUME runner[q].at = "send"
        PROVE  sends[R(z)!Current(q)] = 0 /\ run'[R(z)!Current(q)].state \in {"dispatching", "unknown"}
    <3>1. sends[R(z)!Current(q)] = 0 /\ run[R(z)!Current(q)].state \in {"dispatching", "unknown"}
      BY <2>6, <1>0 DEF RunnerFits
    <3> QED
      BY <2>6, <3>1, <2>1
  <2> QED
    BY <1>0, <2>2, <2>3, <2>4, <2>5, <2>6 DEF RunnerFits
<1> QED
  BY <1>1, <1>2

\* What an observer saw of a run that was written since is out of date, not wrong.
LEMMA ObserversRest ==
    ASSUME NEW z, JournalInv(z), NEW c \in R(z)!Runs, NEW state \in States(z) \ {"absent", "prepared"},
           run'[c].state = state, run'[c].version = run[c].version + 1,
           \A r \in R(z)!Runs \ {c} : run'[r] = run[r], UNCHANGED scriptNative,
           NEW q \in z.processes, observer'[q] = observer[q]
    PROVE  ObserverFits(z, q)'
<1>0. ScriptTypes(z) /\ ObserverFits(z, q) /\ run[c].version \in Nat
  BY DEF JournalInv, ScriptTypes, RunRecord
<1>1. CASE observer[q] = R(z)!Idle
  BY <1>1 DEF ObserverFits, SawPrepared
<1>2. CASE observer[q] # R(z)!Idle
  <2>1. observer[q].run \in R(z)!Runs /\ observer[q].version \in Nat
    BY <1>0, <1>2, ScriptShapes DEF ScriptTypes
  <2>2. CASE observer[q].run = c
    BY <1>0, <1>2, <2>1, <2>2 DEF ObserverFits, SawPrepared
  <2>3. CASE observer[q].run # c
    BY <1>0, <1>2, <2>1, <2>3 DEF ObserverFits, SawPrepared
  <2> QED
    BY <2>2, <2>3
<1> QED
  BY <1>1, <1>2

\* The runner goes on to the next item, or is done.
LEMMA AdvanceFits ==
    ASSUME NEW z, JournalInv(z), NEW p \in z.processes, Working(p), NEW stop \in BOOLEAN,
           R(z)!Advance(p, stop),
           UNCHANGED <<batch, alive, scriptNative>>,
           \A r \in R(z)!Runs \ {R(z)!Current(p)} : run'[r] = run[r],
           ~stop => scriptNative[R(z)!Current(p)] = "ok"
    PROVE  /\ runner' \in [z.processes -> {R(z)!Idle} \cup RunnerRecord(z)]
           /\ \A q \in z.processes \ {p} : runner'[q] = runner[q]
           /\ RunnerFits(z, p)'
<1>0. ScriptTypes(z) /\ RunnerFits(z, p) /\ runner \in [z.processes -> {R(z)!Idle} \cup RunnerRecord(z)]
  BY DEF JournalInv, ScriptTypes
<1>1. /\ runner[p] \in RunnerRecord(z) /\ runner[p].batch \in z.batches /\ runner[p].item \in R(z)!Items
      /\ runner[p].version \in Nat /\ R(z)!Current(p) \in R(z)!Runs
  BY <1>0, RunnerKinds DEF Working
<1>2. CASE runner[p].item + 1 \in R(z)!Items
  <2> DEFINE y == [runner[p] EXCEPT !.at = "item", !.item = runner[p].item + 1, !.stop = stop]
  <2>1. /\ y \in RunnerRecord(z) /\ y.at = "item" /\ y.item = runner[p].item + 1 /\ y.stop = stop
        /\ y.batch = runner[p].batch
    BY <1>1, <1>2 DEF RunnerRecord
  <2>2. runner' = [runner EXCEPT ![p] = y]
    BY <1>0, <1>2 DEF R!Advance
  <2> HIDE DEF y
  <2>3. /\ runner' \in [z.processes -> {R(z)!Idle} \cup RunnerRecord(z)] /\ runner'[p] = y
        /\ \A q \in z.processes \ {p} : runner'[q] = runner[q]
    BY <1>0, <2>1, <2>2
  <2>4. Before(p)' = R(z)!Current(p)
    BY <1>1, <2>1, <2>3 DEF Before, R!Current, R!Items
  <2>5. R(z)!Current(p)' = <<runner[p].batch, runner[p].item + 1>> /\ R(z)!Owner(p)' = R(z)!Owner(p)
    BY <2>1, <2>3 DEF R!Current, R!Owner
  <2>6. /\ batch[runner[p].batch] # R(z)!Absent /\ batch[runner[p].batch].owner = R(z)!Owner(p)
        /\ \A j \in R(z)!Items : j > runner[p].item => run[<<runner[p].batch, j>>].state = "prepared"
    BY <1>0 DEF RunnerFits
  <2>7. ASSUME NEW j \in R(z)!Items, j > runner[p].item
        PROVE  run'[<<runner[p].batch, j>>].state = "prepared"
    <3>1. <<runner[p].batch, j>> \in R(z)!Runs \ {R(z)!Current(p)}
      BY <1>1, <2>7 DEF R!Runs, R!Current, R!Items
    <3> QED
      BY <2>6, <2>7, <3>1
  <2>8. run'[<<runner[p].batch, runner[p].item + 1>>].state = "prepared"
    BY <1>1, <1>2, <2>7 DEF R!Items
  <2>9. \A j \in R(z)!Items : j > y.item => j > runner[p].item
    BY <1>1, <2>1 DEF R!Items
  <2>10. RunnerFits(z, p)'
    BY <2>1, <2>3, <2>4, <2>5, <2>6, <2>7, <2>8, <2>9 DEF RunnerFits, Working
  <2> QED
    BY <2>3, <2>10
<1>3. CASE runner[p].item + 1 \notin R(z)!Items
  <2>1. runner' = [runner EXCEPT ![p] = R(z)!Idle]
    BY <1>3 DEF R!Advance, R!Ends
  <2>2. /\ runner' \in [z.processes -> {R(z)!Idle} \cup RunnerRecord(z)] /\ runner'[p] = R(z)!Idle
        /\ \A q \in z.processes \ {p} : runner'[q] = runner[q]
    BY <1>0, <2>1
  <2>3. RunnerFits(z, p)'
    BY <2>2, ScriptShapes DEF RunnerFits, Working
  <2> QED
    BY <2>2, <2>3
<1> QED
  BY <1>2, <1>3

\* The state of what a runner is at.
LEMMA CurrentKnown ==
    ASSUME NEW z, JournalInv(z), NEW p \in z.processes, Working(p)
    PROVE  /\ R(z)!Current(p) \in R(z)!Runs /\ run[R(z)!Current(p)].state # "absent"
           /\ runner[p].at # "item" => run[R(z)!Current(p)].state # "prepared"
           /\ runner[p].at \in {"send", "item"} => scriptNative[R(z)!Current(p)] = "none"
           /\ runner[p].at \in {"send", "sent"} =>
                (runner[p].version = run[R(z)!Current(p)].version => run[R(z)!Current(p)].state \notin R(z)!Terminal)
<1>1. ScriptTypes(z) /\ RunnerFits(z, p) /\ R(z)!Current(p) \in R(z)!Runs
  BY RunnerKinds DEF JournalInv, Working
<1>2. EffectFits(z, R(z)!Current(p)) /\ SendFits(z, R(z)!Current(p)) /\ sends[R(z)!Current(p)] \in Nat
  BY <1>1 DEF JournalInv, ScriptTypes
<1>3. CASE runner[p].at = "item"
  BY <1>1, <1>2, <1>3 DEF RunnerFits, EffectFits, SendFits
<1>4. CASE runner[p].at = "send"
  BY <1>1, <1>2, <1>4, ScriptShapes DEF RunnerFits, EffectFits, SendFits
<1>5. CASE runner[p].at = "sent"
  BY <1>1, <1>2, <1>5, ScriptShapes DEF RunnerFits, EffectFits, SendFits
<1> QED
  BY <1>1, <1>3, <1>4, <1>5 DEF Working

\* A step of a runner that at most writes its current run.
LEMMA RunnerWrites ==
    ASSUME NEW z, JournalInv(z), NEW p \in z.processes, Working(p),
           NEW state \in States(z) \ {"absent", "prepared"},
           NEW extra \in BOOLEAN,
           \/ UNCHANGED <<run, settled>>
           \/ R(z)!Write(R(z)!Current(p), state, extra) /\ run[R(z)!Current(p)].state \notin R(z)!Terminal,
           state = "completed" => scriptNative[R(z)!Current(p)] = "ok",
           state \in {"notStarted", "notRun"} => scriptNative[R(z)!Current(p)] \in {"none", "refused"},
           UNCHANGED <<script, batch, observer, alive, life, scriptNative, retained, sends>>,
           runner' \in [z.processes -> {R(z)!Idle} \cup RunnerRecord(z)],
           \A q \in z.processes \ {p} : runner'[q] = runner[q], RunnerFits(z, p)'
    PROVE  JournalInv(z)'
<1> DEFINE c == R(z)!Current(p)
<1>0. ScriptTypes(z) /\ c \in R(z)!Runs /\ run[c].state # "absent" /\ Working(p)
      /\ c[1] = runner[p].batch
  BY CurrentKnown, RunnerKinds DEF JournalInv, Working
<1>1. \A r \in R(z)!Runs : SendFits(z, r)'
  BY DEF JournalInv, SendFits
<1>2. CASE UNCHANGED <<run, settled>>
  <2>1. ScriptTypes(z)'
    BY <1>0, <1>2 DEF ScriptTypes
  <2>2. \A r \in R(z)!Runs : EffectFits(z, r)'
    BY <1>2 DEF JournalInv, EffectFits
  <2>3. \A q \in z.processes : ObserverFits(z, q)'
    BY <1>2 DEF JournalInv, ObserverFits, SawPrepared
  <2>4. ASSUME NEW q \in z.processes \ {p} PROVE RunnerFits(z, q)'
    <3>1. R(z)!Current(q)' = R(z)!Current(q) /\ Before(q)' = Before(q)
          /\ R(z)!Owner(q)' = R(z)!Owner(q) /\ Working(q)' = Working(q)
      BY <2>4 DEF R!Current, Before, R!Owner, Working
    <3>2. RunnerFits(z, q) /\ runner'[q] = runner[q]
      BY DEF JournalInv
    <3> QED
      BY <1>2, <3>1, <3>2 DEF RunnerFits
  <2> QED
    BY <1>1, <2>1, <2>2, <2>3, <2>4 DEF JournalInv
<1>3. CASE R(z)!Write(c, state, extra) /\ run[c].state \notin R(z)!Terminal
  <2> HIDE DEF c
  <2>0. UNCHANGED <<batch, scriptNative, sends>>
    OBVIOUS
  <2>1. /\ run' \in [R(z)!Runs -> RunRecord(z)]
           /\ settled' \in [R(z)!Runs -> R(z)!Terminal \cup {"none"}]
        /\ run'[c].state = state /\ run'[c].version = run[c].version + 1
        /\ \A r \in R(z)!Runs \ {c} : run'[r] = run[r]
        /\ \A r \in R(z)!Runs : EffectFits(z, r)'
    <3>1. /\ state = "completed" => scriptNative[c] = "ok"
          /\ state \in {"notStarted", "notRun"} => scriptNative[c] \in {"none", "refused"}
      BY DEF c
    <3> QED
      BY <1>0, <1>3, <2>0, <3>1, WriteFits
  <2>2. ScriptTypes(z)'
    BY <1>0, <2>1 DEF ScriptTypes
  <2>3. \A q \in z.processes : ObserverFits(z, q)'
    BY <1>0, <2>1, ObserversRest
  <2>4. ASSUME NEW q \in z.processes \ {p} PROVE RunnerFits(z, q)'
    <3>1. ~(Working(q) /\ runner[q].batch = c[1])
      BY <1>0, <2>4, OneRunner
    <3>2. runner[q].at = "send" /\ R(z)!Current(q) = c => state \in {"dispatching", "unknown"}
      <4> SUFFICES ASSUME runner[q].at = "send", R(z)!Current(q) = c PROVE FALSE
        OBVIOUS
      <4>1. Working(q)
        BY DEF Working
      <4>2. runner[q].batch = c[1]
        BY <1>0, <4>1, RunnerKinds DEF Working
      <4> QED
        BY <3>1, <4>1, <4>2
    <3>3. runner'[q] = runner[q] /\ alive'[q] = alive[q]
      OBVIOUS
    <3> QED
      BY <1>0, <2>0, <2>1, <3>1, <3>2, <3>3, RunnersRest
  <2> QED
    BY <1>1, <2>1, <2>2, <2>3, <2>4 DEF JournalInv
<1> QED
  BY <1>2, <1>3 DEF c

-----------------------------------------------------------------------------

\* The initial states satisfy the invariant.
LEMMA JournalStarts == ASSUME NEW z, R(z)!Init PROVE JournalInv(z)
<1> USE DEF R!Init
<1>1. ScriptTypes(z)
  <2>1. script \in Seq([text : z.texts, deleted : BOOLEAN])
    <3>1. PICK t \in z.texts : script \in {<<>>, <<[text |-> t, deleted |-> FALSE]>>}
      OBVIOUS
    <3>2. [text |-> t, deleted |-> FALSE] \in [text : z.texts, deleted : BOOLEAN]
      OBVIOUS
    <3> DEFINE x == [text |-> t, deleted |-> FALSE]
               K == [text : z.texts, deleted : BOOLEAN]
    <3> HIDE DEF x, K
    <3>3. x \in K
      BY DEF x, K
    <3>4. <<>> \in Seq(K) /\ <<x>> \in Seq(K)
      BY <3>3
    <3> QED
      BY <3>1, <3>4 DEF x, K
  <2>2. R(z)!NoRun \in RunRecord(z)
    BY ScriptShapes
  <2> QED
    BY <2>1, <2>2 DEF ScriptTypes, NativeStates
<1>2. ASSUME NEW r \in R(z)!Runs PROVE EffectFits(z, r) /\ SendFits(z, r)
  <2>1. run[r].state = "absent" /\ settled[r] = "none" /\ sends[r] = 0 /\ scriptNative[r] = "none"
        /\ retained[r] = "none"
    BY ScriptShapes
  <2> QED
    BY <2>1, ScriptShapes DEF EffectFits, SendFits
<1>3. ASSUME NEW p \in z.processes PROVE RunnerFits(z, p) /\ ObserverFits(z, p)
  <2>1. runner[p] = R(z)!Idle /\ observer[p] = R(z)!Idle /\ runner[p].at = "idle"
    BY ScriptShapes
  <2> QED
    BY <2>1 DEF RunnerFits, ObserverFits, Working, SawPrepared
<1> QED
  BY <1>1, <1>2, <1>3 DEF JournalInv

\* A runner that changed alone, or an observer.
LEMMA ProcessSteps ==
    ASSUME NEW z, JournalInv(z), NEW p \in z.processes,
           UNCHANGED <<batch, run, life, scriptNative, retained, sends, settled>>,
           script' \in Seq([text : z.texts, deleted : BOOLEAN]),
           alive' \in [z.processes -> Nat],
           runner' \in [z.processes -> {R(z)!Idle} \cup RunnerRecord(z)],
           observer' \in [z.processes -> {R(z)!Idle} \cup Observing(z)],
           \A q \in z.processes \ {p} :
             runner'[q] = runner[q] /\ observer'[q] = observer[q] /\ alive'[q] = alive[q],
           RunnerFits(z, p)', ObserverFits(z, p)'
    PROVE  JournalInv(z)'
<1>1. ScriptTypes(z)'
  BY DEF JournalInv, ScriptTypes
<1>2. \A r \in R(z)!Runs : EffectFits(z, r)' /\ SendFits(z, r)'
  BY DEF JournalInv, EffectFits, SendFits
<1>3. ASSUME NEW q \in z.processes \ {p} PROVE RunnerFits(z, q)' /\ ObserverFits(z, q)'
  <2>1. R(z)!Current(q)' = R(z)!Current(q) /\ Before(q)' = Before(q)
        /\ R(z)!Owner(q)' = R(z)!Owner(q) /\ Working(q)' = Working(q)
    BY <1>3 DEF R!Current, Before, R!Owner, Working
  <2>2. RunnerFits(z, q) /\ runner'[q] = runner[q] /\ ObserverFits(z, q) /\ observer'[q] = observer[q]
    BY DEF JournalInv
  <2> QED
    BY <2>1, <2>2 DEF RunnerFits, ObserverFits, SawPrepared
<1> QED
  BY <1>1, <1>2, <1>3 DEF JournalInv

\* Nobody's business changed.
LEMMA ScriptRests ==
    ASSUME NEW z, JournalInv(z),
           UNCHANGED <<batch, run, runner, observer, alive, life, scriptNative, retained, sends,
                       settled>>,
           script' \in Seq([text : z.texts, deleted : BOOLEAN])
    PROVE  JournalInv(z)'
<1>1. ScriptTypes(z)'
  BY DEF JournalInv, ScriptTypes
<1>2. \A r \in R(z)!Runs : EffectFits(z, r)' /\ SendFits(z, r)'
  BY DEF JournalInv, EffectFits, SendFits
<1>3. ASSUME NEW q \in z.processes PROVE RunnerFits(z, q)' /\ ObserverFits(z, q)'
  <2>1. R(z)!Current(q)' = R(z)!Current(q) /\ Before(q)' = Before(q)
        /\ R(z)!Owner(q)' = R(z)!Owner(q) /\ Working(q)' = Working(q)
    BY <1>3 DEF R!Current, Before, R!Owner, Working
  <2>2. RunnerFits(z, q) /\ ObserverFits(z, q)
    BY DEF JournalInv
  <2> QED
    BY <2>1, <2>2 DEF RunnerFits, ObserverFits, SawPrepared
<1> QED
  BY <1>1, <1>2, <1>3 DEF JournalInv

\* An edit commits a revision of its kind, or none.
LEMMA EditCommits ==
    ASSUME NEW z, JournalInv(z), NEW m \in z.edits, R(z)!Edit(m)
    PROVE  \E next \in [text : z.texts, deleted : BOOLEAN], changed \in BOOLEAN :
             R(z)!Commit(m, next, changed)
<1> DEFINE Revision == [text : z.texts, deleted : BOOLEAN]
<1>0. script \in Seq(Revision)
  BY DEF JournalInv, ScriptTypes
<1> HIDE DEF Revision
<1>1. script # <<>> => R(z)!Latest \in Revision
  <2>1. script # <<>> => Len(script) \in 1 .. Len(script)
    BY <1>0
  <2> QED
    BY <1>0, <2>1 DEF R!Latest
<1>2. \E next \in Revision, changed \in BOOLEAN : R(z)!Commit(m, next, changed)
  <2>1. ASSUME NEW t \in z.texts, R(z)!Create(m, t)
        PROVE \E next \in Revision, changed \in BOOLEAN : R(z)!Commit(m, next, changed)
    <3>1. [text |-> t, deleted |-> FALSE] \in Revision
      BY DEF Revision
    <3> QED
      BY <2>1, <3>1 DEF R!Create
  <2>2. ASSUME script # <<>>, NEW t \in z.texts, R(z)!SetSource(m, t)
        PROVE  \E next \in Revision, changed \in BOOLEAN : R(z)!Commit(m, next, changed)
    <3>1. [R(z)!Latest EXCEPT !.text = t] \in Revision
      BY <1>1, <2>2 DEF Revision
    <3> QED
      BY <2>2, <3>1 DEF R!SetSource
  <2>3. ASSUME script # <<>>, NEW n \in DOMAIN script, R(z)!Restore(m, n)
        PROVE  \E next \in Revision, changed \in BOOLEAN : R(z)!Commit(m, next, changed)
    <3>1. script[n].text \in z.texts
      <4>1. script[n] \in Revision
        BY <1>0, <2>3
      <4> QED
        BY <4>1 DEF Revision
    <3>2. [R(z)!Latest EXCEPT !.text = script[n].text] \in Revision
      BY <1>1, <2>3, <3>1 DEF Revision
    <3> QED
      BY <2>3, <3>2 DEF R!Restore
  <2>4. ASSUME script # <<>>, NEW gone \in BOOLEAN, R(z)!Delete(m, gone)
        PROVE  \E next \in Revision, changed \in BOOLEAN : R(z)!Commit(m, next, changed)
    <3>1. [R(z)!Latest EXCEPT !.deleted = gone] \in Revision
      BY <1>1, <2>4 DEF Revision
    <3> QED
      BY <2>4, <3>1 DEF R!Delete
  <2> QED
    BY <2>1, <2>2, <2>3, <2>4 DEF R!Edit
<1> QED
  BY <1>2 DEF Revision

\* An edit appends a revision of its kind.
LEMMA EditKeeps == ASSUME NEW z, JournalInv(z), NEW m \in z.edits, R(z)!Edit(m) PROVE JournalInv(z)'
<1> DEFINE Revision == [text : z.texts, deleted : BOOLEAN]
<1>0. script \in Seq(Revision)
  BY DEF JournalInv, ScriptTypes
<1> HIDE DEF Revision
<1>1. \A next \in Revision, changed \in BOOLEAN :
         R(z)!Commit(m, next, changed) =>
           /\ script' \in Seq(Revision)
           /\ UNCHANGED <<batch, run, runner, observer, alive, life, scriptNative, retained, sends,
                          settled>>
  BY <1>0 DEF R!Commit, R!rhino
<1>2. PICK next \in Revision, changed \in BOOLEAN : R(z)!Commit(m, next, changed)
  BY EditCommits DEF Revision
<1> QED
  BY <1>1, <1>2, ScriptRests DEF Revision

\* A call that starts has no batch yet.
LEMMA StartKeeps ==
    ASSUME NEW z, z.items \in Nat \ {0}, JournalInv(z), NEW p \in z.processes, NEW b \in z.batches,
           NEW n \in DOMAIN script, R(z)!Start(p, b, n)
    PROVE  JournalInv(z)'
<1> DEFINE x == [at |-> "admit", batch |-> b, revision |-> n, life |-> life,
                 item |-> 1, version |-> 0, stop |-> FALSE, aborted |-> FALSE]
<1>0. ScriptTypes(z) /\ ObserverFits(z, p) /\ script \in Seq([text : z.texts, deleted : BOOLEAN])
  BY DEF JournalInv, ScriptTypes
<1>1. CASE 1 \in R(z)!Items
  <2>1. n \in Nat /\ life \in Nat \ {0}
    BY <1>0 DEF ScriptTypes
  <2>2. x \in RunnerRecord(z) /\ x.at = "admit" /\ x.item = 1 /\ x.stop = FALSE
    BY <1>1, <2>1 DEF RunnerRecord
  <2>3. /\ runner' = [runner EXCEPT ![p] = x]
        /\ UNCHANGED <<script, batch, run, observer, alive, life, scriptNative, retained, sends,
                       settled>>
    BY DEF R!Start, R!journal, R!rhino
  <2> HIDE DEF x
  <2>4. /\ runner' \in [z.processes -> {R(z)!Idle} \cup RunnerRecord(z)] /\ runner'[p] = x
        /\ \A q \in z.processes \ {p} : runner'[q] = runner[q]
    BY <1>0, <2>2, <2>3 DEF ScriptTypes
  <2>5. RunnerFits(z, p)'
    BY <2>2, <2>4 DEF RunnerFits, Working
  <2>6. ObserverFits(z, p)'
    BY <1>0, <2>3 DEF ObserverFits, SawPrepared
  <2>7. /\ script' \in Seq([text : z.texts, deleted : BOOLEAN]) /\ alive' \in [z.processes -> Nat]
        /\ observer' \in [z.processes -> {R(z)!Idle} \cup Observing(z)]
    BY <1>0, <2>3 DEF ScriptTypes
  <2> QED
    BY <2>3, <2>4, <2>5, <2>6, <2>7, ProcessSteps
<1> QED
  BY <1>1 DEF R!Items

\* A runner that only forgets or notes something of itself.
LEMMA RunnerOnly ==
    ASSUME NEW z, JournalInv(z), NEW p \in z.processes, NEW x \in {R(z)!Idle} \cup RunnerRecord(z),
           runner' = [runner EXCEPT ![p] = x],
           UNCHANGED <<script, batch, run, observer, alive, life, scriptNative, retained, sends,
                       settled>>,
           runner'[p] = x => RunnerFits(z, p)'
    PROVE  JournalInv(z)'
<1>0. ScriptTypes(z) /\ ObserverFits(z, p)
  BY DEF JournalInv
<1>1. /\ runner' \in [z.processes -> {R(z)!Idle} \cup RunnerRecord(z)] /\ runner'[p] = x
      /\ \A q \in z.processes \ {p} : runner'[q] = runner[q]
  BY <1>0 DEF ScriptTypes
<1>2. ObserverFits(z, p)'
  BY <1>0 DEF ObserverFits, SawPrepared
<1>3. /\ script' \in Seq([text : z.texts, deleted : BOOLEAN]) /\ alive' \in [z.processes -> Nat]
      /\ observer' \in [z.processes -> {R(z)!Idle} \cup Observing(z)]
  BY <1>0 DEF ScriptTypes
<1> QED
  BY <1>1, <1>2, <1>3, ProcessSteps

\* A runner may end at any time.
LEMMA EndsKeeps ==
    ASSUME NEW z, JournalInv(z), NEW p \in z.processes, R(z)!Ends(p),
           UNCHANGED <<script, batch, run, observer, alive, life, scriptNative, retained, sends,
                       settled>>
    PROVE  JournalInv(z)'
<1>1. runner'[p] = R(z)!Idle => RunnerFits(z, p)'
  BY ScriptShapes DEF RunnerFits, Working
<1> QED
  BY <1>1, RunnerOnly DEF R!Ends

\* A call that is cancelled only notes it.
LEMMA AbortKeeps == ASSUME NEW z, JournalInv(z), NEW p \in z.processes, R(z)!Abort(p)
    PROVE JournalInv(z)'
<1> DEFINE x == [runner[p] EXCEPT !.aborted = TRUE]
<1>0. ScriptTypes(z) /\ RunnerFits(z, p) /\ runner[p] \in RunnerRecord(z)
  BY RunnerKinds DEF JournalInv, R!Abort, R!Idle
<1>1. /\ x \in RunnerRecord(z) /\ x.at = runner[p].at /\ x.item = runner[p].item
         /\ x.batch = runner[p].batch
      /\ x.stop = runner[p].stop /\ x.version = runner[p].version
  BY <1>0 DEF RunnerRecord
<1>2. runner' = [runner EXCEPT ![p] = x]
  BY <1>0 DEF R!Abort, ScriptTypes
<1>3. UNCHANGED <<script, batch, run, observer, alive, life, scriptNative, retained, sends, settled>>
  BY DEF R!Abort, R!journal, R!rhino
<1> HIDE DEF x
<1>4. ASSUME runner'[p] = x PROVE RunnerFits(z, p)'
  <2>1. R(z)!Current(p)' = R(z)!Current(p) /\ Before(p)' = Before(p)
        /\ R(z)!Owner(p)' = R(z)!Owner(p) /\ Working(p)' = Working(p)
    BY <1>1, <1>3, <1>4 DEF R!Current, Before, R!Owner, Working
  <2> QED
    BY <1>0, <1>1, <1>3, <1>4, <2>1 DEF RunnerFits
<1> QED
  BY <1>1, <1>2, <1>3, <1>4, RunnerOnly

\* A batch that is admitted is new: nobody runs or observes its runs.
LEMMA AdmitKeeps == ASSUME NEW z, JournalInv(z), NEW p \in z.processes, R(z)!Admit(p)
    PROVE JournalInv(z)'
<1> DEFINE b == runner[p].batch
           y == [owner |-> R(z)!Owner(p), life |-> runner[p].life, revision |-> runner[p].revision]
           fresh == [R(z)!NoRun EXCEPT !.state = "prepared", !.version = 1]
           x == [runner[p] EXCEPT !.at = "item"]
<1>0. ScriptTypes(z) /\ RunnerFits(z, p) /\ ObserverFits(z, p) /\ runner[p] \in RunnerRecord(z)
      /\ runner[p].at = "admit"
  BY RunnerKinds DEF JournalInv, R!Admit
<1>1. UNCHANGED <<script, observer, alive, life, scriptNative, retained, sends, settled>>
  BY DEF R!Admit, R!rhino
<1>2. CASE R(z)!Ends(p) /\ UNCHANGED <<batch, run>>
  BY <1>1, <1>2, EndsKeeps
<1>3. CASE /\ batch[b] = R(z)!Absent /\ batch' = [batch EXCEPT ![b] = y]
           /\ run' = [r \in R(z)!Runs |-> IF r[1] = b THEN fresh ELSE run[r]]
           /\ runner' = [runner EXCEPT ![p].at = "item"]
  <2>1. /\ x \in RunnerRecord(z) /\ x.at = "item" /\ x.item = 1 /\ x.stop = FALSE /\ x.batch = b
        /\ b \in z.batches /\ runner[p].item \in R(z)!Items
    BY <1>0 DEF RunnerRecord, RunnerFits
  <2>2. y \in Claim(z) /\ y # R(z)!Absent /\ y.owner = R(z)!Owner(p)
    <3>1. R(z)!Owner(p) \in z.processes \X Nat
      BY <1>0 DEF R!Owner, ScriptTypes
    <3>2. runner[p].life \in Nat \ {0} /\ runner[p].revision \in Nat
      BY <1>0 DEF RunnerRecord
    <3>3. y \in Claim(z)
      BY <3>1, <3>2 DEF Claim
    <3> QED
      BY <3>3, ScriptShapes
  <2>3. fresh \in RunRecord(z) /\ fresh.state = "prepared"
    BY DEF RunRecord, R!NoRun, States
  <2>4. runner' = [runner EXCEPT ![p] = x]
    BY <1>0, <1>3 DEF ScriptTypes
  <2> HIDE DEF b, x, y, fresh
  <2>5. /\ runner' \in [z.processes -> {R(z)!Idle} \cup RunnerRecord(z)] /\ runner'[p] = x
        /\ \A q \in z.processes \ {p} : runner'[q] = runner[q]
    BY <1>0, <2>1, <2>4 DEF ScriptTypes
  <2>6. /\ batch' \in [z.batches -> {R(z)!Absent} \cup Claim(z)] /\ batch'[b] = y
        /\ \A o \in z.batches \ {b} : batch'[o] = batch[o]
    BY <1>0, <1>3, <2>1, <2>2 DEF ScriptTypes
  <2>7. /\ run' \in [R(z)!Runs -> RunRecord(z)]
        /\ \A r \in R(z)!Runs : run'[r] = IF r[1] = b THEN fresh ELSE run[r]
    BY <1>0, <1>3, <2>3 DEF ScriptTypes
  <2>8. ScriptTypes(z)'
    BY <1>0, <1>1, <2>5, <2>6, <2>7 DEF ScriptTypes
  <2>9. ASSUME NEW r \in R(z)!Runs PROVE EffectFits(z, r)' /\ SendFits(z, r)'
    <3>1. EffectFits(z, r) /\ SendFits(z, r) /\ r[1] \in z.batches
      BY DEF JournalInv, R!Runs
    <3>2. SendFits(z, r)'
      BY <1>1, <3>1 DEF SendFits
    <3>3. CASE r[1] = b
      <4>1. run[r].state = "absent" /\ settled[r] = "none" /\ sends[r] = 0
        BY <1>3, <3>1, <3>3, ScriptShapes DEF EffectFits
      <4>2. run'[r].state = "prepared" /\ batch'[r[1]] # R(z)!Absent
        BY <2>2, <2>3, <2>6, <2>7, <3>3
      <4> QED
        BY <1>1, <3>2, <4>1, <4>2, ScriptShapes DEF EffectFits
    <3>4. CASE r[1] # b
      <4>1. run'[r] = run[r] /\ batch'[r[1]] = batch[r[1]]
        BY <2>6, <2>7, <3>1, <3>4
      <4> QED
        BY <1>1, <3>1, <3>2, <4>1 DEF EffectFits
    <3> QED
      BY <3>3, <3>4
  <2>10. ASSUME NEW q \in z.processes PROVE ObserverFits(z, q)'
    <3>1. CASE observer[q] = R(z)!Idle
      BY <1>1, <3>1 DEF ObserverFits, SawPrepared
    <3>2. CASE observer[q] # R(z)!Idle
      <4> DEFINE r == observer[q].run
      <4>1. r \in R(z)!Runs /\ r[1] \in z.batches
        BY <1>0, <3>2, ScriptShapes DEF ScriptTypes, R!Runs
      <4>2. run[r].state # "absent"
        BY <3>2 DEF JournalInv, ObserverFits, SawPrepared
      <4>3. batch[r[1]] # R(z)!Absent
        BY <4>1, <4>2 DEF JournalInv, EffectFits
      <4>4. run'[r] = run[r]
        BY <1>3, <2>7, <4>1, <4>3
      <4> QED
        BY <1>1, <4>4 DEF JournalInv, ObserverFits, SawPrepared
    <3> QED
      BY <3>1, <3>2
  <2>11. RunnerFits(z, p)'
    <3>1. R(z)!Owner(p)' = R(z)!Owner(p) /\ R(z)!Current(p)' = <<b, 1>> /\ Working(p)'
      BY <1>1, <2>1, <2>5 DEF R!Owner, R!Current, Working
    <3>2. \A j \in R(z)!Items : <<b, j>> \in R(z)!Runs /\ run'[<<b, j>>].state = "prepared"
      BY <2>1, <2>3, <2>7 DEF R!Runs
    <3>3. 1 \in R(z)!Items
      BY <2>1, <1>0 DEF RunnerFits
    <3> QED
      BY <2>1, <2>2, <2>5, <2>6, <3>1, <3>2, <3>3 DEF RunnerFits
  <2>12. ASSUME NEW q \in z.processes \ {p} PROVE RunnerFits(z, q)'
    <3>1. R(z)!Current(q)' = R(z)!Current(q) /\ Before(q)' = Before(q)
          /\ R(z)!Owner(q)' = R(z)!Owner(q) /\ Working(q)' = Working(q)
      BY <1>1, <2>5 DEF R!Current, Before, R!Owner, Working
    <3>2. RunnerFits(z, q) /\ runner'[q] = runner[q]
      BY <2>5 DEF JournalInv
    <3>3. CASE Working(q)
      <4>1. runner[q].batch \in z.batches /\ R(z)!Current(q) \in R(z)!Runs
            /\ R(z)!Current(q)[1] = runner[q].batch /\ runner[q].batch # b
        <5>1. batch[runner[q].batch] # R(z)!Absent
          BY <3>2, <3>3 DEF RunnerFits
        <5> QED
          BY <1>0, <1>3, <3>3, <5>1, RunnerKinds DEF Working, b
      <4>2. run'[R(z)!Current(q)] = run[R(z)!Current(q)]
            /\ batch'[runner[q].batch] = batch[runner[q].batch]
        BY <2>6, <2>7, <4>1
      <4>3. \A j \in R(z)!Items : run'[<<runner[q].batch, j>>] = run[<<runner[q].batch, j>>]
        BY <2>7, <4>1 DEF R!Runs
      <4> QED
        BY <1>1, <3>1, <3>2, <4>2, <4>3 DEF RunnerFits
    <3>4. CASE ~Working(q)
      BY <3>1, <3>2, <3>4 DEF RunnerFits, Working
    <3> QED
      BY <3>3, <3>4
  <2> QED
    BY <2>8, <2>9, <2>10, <2>11, <2>12 DEF JournalInv
<1> QED
  BY <1>2, <1>3 DEF R!Admit

\* A runner that records what it knows, or nothing, and goes on.
LEMMA RunnerGoesOn ==
    ASSUME NEW z, JournalInv(z), NEW p \in z.processes, Working(p),
           NEW state \in States(z) \ {"absent", "prepared"},
           NEW extra \in BOOLEAN,
           \/ UNCHANGED <<run, settled>>
           \/ R(z)!Write(R(z)!Current(p), state, extra) /\ run[R(z)!Current(p)].state \notin R(z)!Terminal,
           state = "completed" => scriptNative[R(z)!Current(p)] = "ok",
           state \in {"notStarted", "notRun"} => scriptNative[R(z)!Current(p)] \in {"none", "refused"},
           UNCHANGED <<script, batch, observer, alive, life, scriptNative, retained, sends>>,
           NEW stop \in BOOLEAN, R(z)!Advance(p, stop),
           ~stop => run'[R(z)!Current(p)].state = "completed"
    PROVE  JournalInv(z)'
<1> DEFINE c == R(z)!Current(p)
<1>0. c \in R(z)!Runs /\ run[c].state # "absent" /\ EffectFits(z, c)
  BY CurrentKnown DEF JournalInv
<1>1. /\ \A r \in R(z)!Runs \ {c} : run'[r] = run[r]
      /\ run'[c].state = run[c].state \/ run'[c].state = state
  <2>1. CASE UNCHANGED <<run, settled>>
    BY <2>1
  <2>2. CASE R(z)!Write(c, state, extra) /\ run[c].state \notin R(z)!Terminal
    <3>1. /\ state = "completed" => scriptNative[c] = "ok"
          /\ state \in {"notStarted", "notRun"} => scriptNative[c] \in {"none", "refused"}
          /\ UNCHANGED <<batch, scriptNative, sends>>
      OBVIOUS
    <3> HIDE DEF c
    <3> QED
      BY <1>0, <2>2, <3>1, WriteFits
  <2> QED
    BY <2>1, <2>2
<1>2. ~stop => scriptNative[c] = "ok"
  BY <1>0, <1>1 DEF EffectFits
<1>3. UNCHANGED <<batch, alive, scriptNative>>
  OBVIOUS
<1>4. /\ runner' \in [z.processes -> {R(z)!Idle} \cup RunnerRecord(z)]
      /\ \A q \in z.processes \ {p} : runner'[q] = runner[q]
      /\ RunnerFits(z, p)'
  BY <1>1, <1>2, <1>3, AdvanceFits
<1> QED
  BY <1>4, RunnerWrites

\* The answer is recorded, or could not be.
LEMMA RecordsKeeps ==
    ASSUME NEW z, JournalInv(z), NEW p \in z.processes, runner[p].at \in {"send", "sent"},
           NEW state \in States(z) \ {"absent", "prepared"}, NEW extra \in BOOLEAN,
           R(z)!Records(p, state, extra),
           state = "completed" => scriptNative[R(z)!Current(p)] = "ok",
           state \in {"notStarted", "notRun"} => scriptNative[R(z)!Current(p)] \in {"none", "refused"},
           UNCHANGED <<script, batch, observer, alive, life, scriptNative, retained, sends>>
    PROVE  JournalInv(z)'
<1>0. Working(p)
  BY DEF Working
<1>1. CASE /\ R(z)!Update(R(z)!Current(p), runner[p].version, state, extra)
           /\ R(z)!Advance(p, ~R(z)!Continues(p, run'[R(z)!Current(p)].state))
  <2> DEFINE stop == ~R(z)!Continues(p, run'[R(z)!Current(p)].state)
  <2>1. stop \in BOOLEAN /\ (~stop => run'[R(z)!Current(p)].state = "completed")
        /\ R(z)!Advance(p, stop)
    BY <1>1 DEF R!Continues
  <2>2. \/ UNCHANGED <<run, settled>>
        \/ R(z)!Write(R(z)!Current(p), state, extra) /\ run[R(z)!Current(p)].state \notin R(z)!Terminal
    BY <1>0, <1>1, CurrentKnown, UpdateWrites
  <2> HIDE DEF stop
  <2> QED
    BY <1>0, <2>1, <2>2, RunnerGoesOn
<1>2. CASE R(z)!Advance(p, TRUE) /\ UNCHANGED <<run, settled>>
  BY <1>0, <1>2, RunnerGoesOn
<1> QED
  BY <1>1, <1>2 DEF R!Records

\* What is refused before it was sent was not started.
LEMMA RefuseKeeps == ASSUME NEW z, JournalInv(z), NEW p \in z.processes, R(z)!Refuse(p)
    PROVE JournalInv(z)'
<1>1. /\ runner[p].at = "send" /\ R(z)!Records(p, "notStarted", FALSE)
      /\ UNCHANGED <<script, batch, observer, alive, life, scriptNative, retained, sends>>
  BY DEF R!Refuse, R!rhino
<1>2. scriptNative[R(z)!Current(p)] = "none"
  BY <1>1, CurrentKnown DEF Working
<1>3. "notStarted" \in States(z) \ {"absent", "prepared"}
  BY DEF States, R!Terminal
<1> QED
  BY <1>1, <1>2, <1>3, RecordsKeeps

\* What is recorded of a result agrees with it.
LEMMA StateOfResult ==
    ASSUME NEW z, NEW result \in R(z)!Results
    PROVE  /\ R(z)!StateOf(result) \in States(z) \ {"absent", "prepared"}
           /\ R(z)!StateOf(result) = "completed" => result = "ok"
           /\ R(z)!StateOf(result) \in {"notStarted", "notRun"} => result = "refused"
BY DEF R!StateOf, R!Results, States, R!Terminal

\* An answer, or its absence, is recorded as what it tells.
LEMMA AnswerKeeps ==
    ASSUME NEW z, JournalInv(z), NEW p \in z.processes, R(z)!Answer(p)
    PROVE JournalInv(z)'
<1> DEFINE c == R(z)!Current(p)
<1>1. /\ runner[p].at = "sent" /\ Working(p)
      /\ UNCHANGED <<script, batch, observer, alive, life, scriptNative, retained, sends>>
  BY DEF R!Answer, R!rhino, Working
<1>2. CASE scriptNative[c] \in R(z)!Results /\ R(z)!Records(p, R(z)!StateOf(scriptNative[c]), TRUE)
  BY <1>1, <1>2, StateOfResult, RecordsKeeps
<1>3. "unknown" \in States(z) \ {"absent", "prepared"}
  BY DEF States, R!Terminal
<1>4. CASE R(z)!Records(p, "unknown", FALSE)
  BY <1>1, <1>3, <1>4, RecordsKeeps
<1>5. CASE /\ R(z)!Update(c, runner[p].version, "unknown", FALSE)
           /\ R(z)!Advance(p, ~R(z)!Continues(p, run'[c].state))
  <2> DEFINE stop == ~R(z)!Continues(p, run'[c].state)
  <2>1. stop \in BOOLEAN /\ (~stop => run'[c].state = "completed") /\ R(z)!Advance(p, stop)
    BY <1>5 DEF R!Continues
  <2>2. UNCHANGED <<run, settled>> \/ (R(z)!Write(c, "unknown", FALSE) /\ run[c].state \notin R(z)!Terminal)
    BY <1>1, <1>5, CurrentKnown, UpdateWrites
  <2> HIDE DEF stop
  <2> QED
    BY <1>1, <1>3, <2>1, <2>2, RunnerGoesOn
<1> QED
  BY <1>2, <1>4, <1>5 DEF R!Answer

\* The dispatch of the next item is journaled before it is sent, or the item is passed over.
LEMMA ItemKeeps == ASSUME NEW z, JournalInv(z), NEW p \in z.processes, R(z)!Item(p) PROVE JournalInv(z)'
<1> DEFINE c == R(z)!Current(p)
<1>0. /\ runner[p].at = "item" /\ Working(p) /\ ScriptTypes(z) /\ RunnerFits(z, p)
         /\ runner[p] \in RunnerRecord(z)
      /\ c \in R(z)!Runs /\ run[c].state = "prepared" /\ run[c].state \notin R(z)!Terminal
         /\ run[c].version \in Nat
      /\ EffectFits(z, c) /\ scriptNative[c] = "none" /\ run[c].state # "absent"
  <2>1. runner[p].at = "item" /\ Working(p) /\ ScriptTypes(z) /\ RunnerFits(z, p)
    BY DEF R!Item, Working, JournalInv
  <2>2. c \in R(z)!Runs /\ runner[p] \in RunnerRecord(z)
    BY <2>1, RunnerKinds
  <2>3. run[c].state = "prepared" /\ scriptNative[c] = "none"
    BY <2>1, CurrentKnown DEF RunnerFits
  <2> QED
    BY <2>1, <2>2, <2>3, ScriptShapes DEF ScriptTypes, RunRecord, JournalInv
<1>1. UNCHANGED <<script, batch, observer, alive, life, scriptNative, retained, sends>>
  BY DEF R!Item, R!rhino
<1>2. {"notRun", "dispatching"} \subseteq States(z) \ {"absent", "prepared"}
  BY DEF States, R!Terminal
<1>3. CASE R(z)!Advance(p, TRUE) /\ UNCHANGED <<run, settled>>
  BY <1>0, <1>1, <1>2, <1>3, RunnerGoesOn
<1>4. CASE R(z)!Update(c, run[c].version, "notRun", FALSE) /\ R(z)!Advance(p, TRUE)
  <2>1. R(z)!Write(c, "notRun", FALSE)
    BY <1>4 DEF R!Update
  <2> QED
    BY <1>0, <1>1, <1>2, <1>4, <2>1, RunnerGoesOn
<1>5. CASE /\ ~(runner[p].stop \/ runner[p].aborted) /\ R(z)!Update(c, run[c].version, "dispatching", FALSE)
           /\ runner' = [runner EXCEPT ![p].at = "send", ![p].version = run[c].version + 1]
  <2> DEFINE n == run[c].version + 1
             x == [runner[p] EXCEPT !.at = "send", !.version = n]
  <2>1. R(z)!Write(c, "dispatching", FALSE)
    BY <1>5 DEF R!Update
  <2>2. /\ x \in RunnerRecord(z) /\ x.at = "send" /\ x.version = n /\ x.batch = runner[p].batch
        /\ x.item = runner[p].item /\ n \in Nat
    <3>1. n \in Nat
      BY <1>0
    <3> HIDE DEF n
    <3> QED
      BY <1>0, <3>1 DEF RunnerRecord
  <2>3. runner' = [runner EXCEPT ![p] = x]
    BY <1>0, <1>5 DEF ScriptTypes
  <2>4. /\ runner' \in [z.processes -> {R(z)!Idle} \cup RunnerRecord(z)] /\ runner'[p] = x
        /\ \A q \in z.processes \ {p} : runner'[q] = runner[q]
    <3> HIDE DEF x
    <3> QED
      BY <1>0, <2>2, <2>3 DEF ScriptTypes
  <2>5. run'[c].state = "dispatching" /\ run'[c].version = n
        /\ \A r \in R(z)!Runs \ {c} : run'[r] = run[r]
    <3>1. "dispatching" \in States(z) \ {"absent", "prepared"}
          /\ UNCHANGED <<batch, scriptNative, sends>>
      BY <1>1, <1>2
    <3> HIDE DEF c, x
    <3> QED
      BY <1>0, <2>1, <3>1, WriteFits
  <2> HIDE DEF x
  <2>6. RunnerFits(z, p)'
    <3>1. R(z)!Current(p)' = c /\ Before(p)' = Before(p) /\ R(z)!Owner(p)' = R(z)!Owner(p)
      BY <1>1, <2>2, <2>4 DEF R!Current, Before, R!Owner
    <3>2. \A j \in R(z)!Items : j > runner[p].item =>
            <<runner[p].batch, j>> \in R(z)!Runs \ {c} /\ run[<<runner[p].batch, j>>].state = "prepared"
      BY <1>0 DEF RunnerFits, R!Current, R!Runs, RunnerRecord, R!Items
    <3>3. runner[p].item > 1 => scriptNative[Before(p)] = "ok"
      BY <1>0, <1>5 DEF RunnerFits
    <3>4. sends[c] = 0
      BY <1>0 DEF EffectFits
    <3>5. batch[runner[p].batch] # R(z)!Absent /\ batch[runner[p].batch].owner = R(z)!Owner(p)
      BY <1>0 DEF RunnerFits
    <3> HIDE DEF c, n
    <3> QED
      BY <1>1, <2>2, <2>4, <2>5, <3>1, <3>2, <3>3, <3>4, <3>5 DEF RunnerFits, Working
  <2>7. "dispatching" \in States(z) \ {"absent", "prepared"}
    BY <1>2
  <2> QED
    BY <1>0, <1>1, <2>1, <2>4, <2>6, <2>7, RunnerWrites
<1> QED
  BY <1>3, <1>4, <1>5 DEF R!Item

\* A run is sent once, after the one before it completed.
LEMMA SendKeeps == ASSUME NEW z, z.items \in Nat \ {0}, JournalInv(z), NEW p \in z.processes,
                          R(z)!Send(p) PROVE JournalInv(z)'
<1> DEFINE c == R(z)!Current(p)
           x == [runner[p] EXCEPT !.at = "sent"]
           w == IF batch[c[1]].life = life THEN "sent" ELSE "lost"
<1>0. /\ runner[p].at = "send" /\ Working(p) /\ ScriptTypes(z) /\ RunnerFits(z, p)
         /\ runner[p] \in RunnerRecord(z)
      /\ c \in R(z)!Runs /\ run[c].state \in {"dispatching", "unknown"} /\ sends[c] = 0
      /\ scriptNative[c] = "none" /\ retained[c] = "none" /\ EffectFits(z, c)
  <2>1. runner[p].at = "send" /\ Working(p) /\ ScriptTypes(z) /\ RunnerFits(z, p)
    BY DEF R!Send, Working, JournalInv
  <2>2. c \in R(z)!Runs /\ runner[p] \in RunnerRecord(z)
    BY <2>1, RunnerKinds
  <2>3. run[c].state \in {"dispatching", "unknown"} /\ sends[c] = 0 /\ scriptNative[c] = "none"
    BY <2>1, CurrentKnown DEF RunnerFits
  <2>4. SendFits(z, c) /\ EffectFits(z, c) /\ retained[c] \in R(z)!Results \cup {"none"}
    BY <2>1, <2>2 DEF JournalInv, ScriptTypes
  <2>5. retained[c] = "none"
    BY <2>3, <2>4 DEF SendFits
  <2> QED
    BY <2>1, <2>2, <2>3, <2>4, <2>5
<1>1. UNCHANGED <<script, batch, run, observer, alive, life, retained, settled>>
  BY DEF R!Send, R!journal
<1>2. /\ x \in RunnerRecord(z) /\ x.at = "sent" /\ x.version = runner[p].version
      /\ x.batch = runner[p].batch /\ x.item = runner[p].item
  BY <1>0 DEF RunnerRecord
<1>3. runner' = [runner EXCEPT ![p] = x] /\ scriptNative' = [scriptNative EXCEPT ![c] = w]
      /\ sends' = [sends EXCEPT ![c] = 1]
  BY <1>0 DEF R!Send, ScriptTypes
<1>4. w \in {"sent", "lost"}
  OBVIOUS
<1>5. c[2] > 1 => scriptNative[Before(p)] = "ok" /\ Before(p) = <<c[1], c[2] - 1>>
  BY <1>0 DEF RunnerFits, Before, R!Current
<1>6. R(z)!Current(p) = c
  OBVIOUS
<1> HIDE DEF x, w, c
<1>7. /\ runner' \in [z.processes -> {R(z)!Idle} \cup RunnerRecord(z)] /\ runner'[p] = x
      /\ \A q \in z.processes \ {p} : runner'[q] = runner[q]
  BY <1>0, <1>2, <1>3 DEF ScriptTypes
<1>8. /\ scriptNative' \in [R(z)!Runs -> NativeStates(z)] /\ scriptNative'[c] = w
      /\ sends' \in [R(z)!Runs -> Nat] /\ sends'[c] = 1
      /\ \A r \in R(z)!Runs \ {c} : scriptNative'[r] = scriptNative[r] /\ sends'[r] = sends[r]
  BY <1>0, <1>3, <1>4 DEF ScriptTypes, NativeStates
<1>9. ScriptTypes(z)'
  BY <1>0, <1>1, <1>7, <1>8 DEF ScriptTypes
<1>10. ASSUME NEW r \in R(z)!Runs, scriptNative[r] # "none" PROVE scriptNative'[r] = scriptNative[r]
  BY <1>0, <1>8, <1>10
<1>11. \A r \in R(z)!Runs : r[2] > 1 => <<r[1], r[2] - 1>> \in R(z)!Runs
  BY DEF R!Runs, R!Items
<1>12. ASSUME NEW r \in R(z)!Runs PROVE EffectFits(z, r)' /\ SendFits(z, r)'
  <2>1. CASE r = c
    <3>1. EffectFits(z, r)'
      BY <1>0, <1>1, <1>4, <1>8, <2>1, ScriptShapes DEF EffectFits, R!Terminal
    <3>2. r[2] > 1 => scriptNative'[<<r[1], r[2] - 1>>] = "ok"
      BY <1>5, <1>10, <1>11, <2>1
    <3> QED
      BY <1>0, <1>1, <1>8, <2>1, <3>1, <3>2 DEF SendFits
  <2>2. CASE r # c
    <3>1. scriptNative'[r] = scriptNative[r] /\ sends'[r] = sends[r] /\ EffectFits(z, r)
          /\ SendFits(z, r)
      BY <1>8, <2>2 DEF JournalInv
    <3>2. r[2] > 1 /\ scriptNative[r] # "none" => scriptNative'[<<r[1], r[2] - 1>>] = "ok"
      BY <1>10, <1>11, <3>1 DEF SendFits
    <3> QED
      BY <1>1, <3>1, <3>2 DEF EffectFits, SendFits
  <2> QED
    BY <2>1, <2>2
<1>13. ASSUME NEW q \in z.processes PROVE ObserverFits(z, q)'
  <2>1. CASE observer[q] = R(z)!Idle
    BY <1>1, <2>1 DEF ObserverFits, SawPrepared
  <2>2. CASE observer[q] # R(z)!Idle
    <3>1. observer[q].run \in R(z)!Runs /\ ObserverFits(z, q)
      BY <1>0, <2>2, ScriptShapes DEF ScriptTypes, JournalInv
    <3> QED
      BY <1>1, <1>10, <2>2, <3>1 DEF ObserverFits, SawPrepared
  <2> QED
    BY <2>1, <2>2
<1>14. RunnerFits(z, p)'
  <2>1. R(z)!Current(p)' = c /\ Before(p)' = Before(p) /\ R(z)!Owner(p)' = R(z)!Owner(p)
    BY <1>1, <1>2, <1>6, <1>7 DEF R!Current, Before, R!Owner
  <2>2. runner[p].item > 1 => scriptNative'[Before(p)] = "ok"
    <3>1. c[2] = runner[p].item
      BY <1>6 DEF R!Current
    <3> QED
      BY <1>0, <1>5, <1>10, <1>11, <3>1
  <2> QED
    BY <1>0, <1>1, <1>2, <1>6, <1>7, <1>8, <2>1, <2>2 DEF RunnerFits, Working
<1>15. ASSUME NEW q \in z.processes \ {p} PROVE RunnerFits(z, q)'
  <2>1. R(z)!Current(q)' = R(z)!Current(q) /\ Before(q)' = Before(q)
        /\ R(z)!Owner(q)' = R(z)!Owner(q) /\ Working(q)' = Working(q)
    BY <1>1, <1>7 DEF R!Current, Before, R!Owner, Working
  <2>2. RunnerFits(z, q) /\ runner'[q] = runner[q]
    BY <1>7 DEF JournalInv
  <2>3. CASE Working(q)
    <3>1. R(z)!Current(q) \in R(z)!Runs /\ runner[q].item \in R(z)!Items
          /\ runner[q].batch \in z.batches
          /\ R(z)!Current(q)[1] = runner[q].batch
      BY <1>0, <2>3, RunnerKinds DEF Working
    <3>2. R(z)!Current(q) # c
      <4>1. R(z)!Current(p)[1] = runner[p].batch
        BY <1>0, RunnerKinds
      <4> QED
        BY <1>0, <1>6, <2>3, <3>1, <4>1, OneRunner
    <3>3. runner[q].item > 1 => Before(q) \in R(z)!Runs
      BY <3>1 DEF Before, R!Runs, R!Items
    <3>4. runner[q].item > 1 /\ scriptNative[Before(q)] = "ok" => scriptNative'[Before(q)] = "ok"
      BY <1>10, <3>3
    <3>5. sends'[R(z)!Current(q)] = sends[R(z)!Current(q)]
      BY <1>8, <3>1, <3>2
    <3> QED
      BY <1>1, <2>1, <2>2, <3>4, <3>5 DEF RunnerFits
  <2>4. CASE ~Working(q)
    BY <2>1, <2>2, <2>4 DEF RunnerFits, Working
  <2> QED
    BY <2>3, <2>4
<1> QED
  BY <1>9, <1>12, <1>13, <1>14, <1>15 DEF JournalInv

\* An observer that writes what it found, or nothing.
LEMMA ObserverWrites ==
    ASSUME NEW z, JournalInv(z), NEW p \in z.processes, NEW c \in R(z)!Runs,
           NEW state \in States(z) \ {"absent", "prepared"},
           NEW extra \in BOOLEAN,
           \/ UNCHANGED <<run, settled>>
           \/ R(z)!Write(c, state, extra) /\ run[c].state \notin R(z)!Terminal,
           run[c].state # "absent",
           state = "completed" => scriptNative[c] = "ok",
           state \in {"notStarted", "notRun"} => scriptNative[c] \in {"none", "refused"},
           run[c].state = "prepared" => \A q \in z.processes : ~(Working(q) /\ runner[q].batch = c[1]),
           \A q \in z.processes : runner[q].at = "send"
                                  /\ R(z)!Current(q) = c => state \in {"dispatching", "unknown"},
           UNCHANGED <<script, batch, runner, alive, life, scriptNative, retained, sends>>,
           observer' \in [z.processes -> {R(z)!Idle} \cup Observing(z)],
           \A q \in z.processes \ {p} : observer'[q] = observer[q],
           observer'[p] = observer[p] \/ observer'[p] = R(z)!Idle
    PROVE  JournalInv(z)'
<1>0. ScriptTypes(z)
  BY DEF JournalInv
<1>1. \A r \in R(z)!Runs : SendFits(z, r)'
  BY DEF JournalInv, SendFits
<1>2. CASE UNCHANGED <<run, settled>>
  <2>1. ScriptTypes(z)'
    BY <1>0, <1>2 DEF ScriptTypes
  <2>2. \A r \in R(z)!Runs : EffectFits(z, r)'
    BY <1>2 DEF JournalInv, EffectFits
  <2>3. \A q \in z.processes : ObserverFits(z, q)'
    BY <1>2 DEF JournalInv, ObserverFits, SawPrepared
  <2>4. ASSUME NEW q \in z.processes PROVE RunnerFits(z, q)'
    <3>1. R(z)!Current(q)' = R(z)!Current(q) /\ Before(q)' = Before(q)
          /\ R(z)!Owner(q)' = R(z)!Owner(q) /\ Working(q)' = Working(q)
      BY DEF R!Current, Before, R!Owner, Working
    <3>2. RunnerFits(z, q)
      BY DEF JournalInv
    <3> QED
      BY <1>2, <3>1, <3>2 DEF RunnerFits
  <2> QED
    BY <1>1, <2>1, <2>2, <2>3, <2>4 DEF JournalInv
<1>3. CASE R(z)!Write(c, state, extra) /\ run[c].state \notin R(z)!Terminal
  <2>0. UNCHANGED <<batch, scriptNative, sends>>
    OBVIOUS
  <2>1. /\ run' \in [R(z)!Runs -> RunRecord(z)]
           /\ settled' \in [R(z)!Runs -> R(z)!Terminal \cup {"none"}]
        /\ run'[c].state = state /\ run'[c].version = run[c].version + 1
        /\ \A r \in R(z)!Runs \ {c} : run'[r] = run[r]
        /\ \A r \in R(z)!Runs : EffectFits(z, r)'
    BY <1>3, <2>0, WriteFits
  <2>2. ScriptTypes(z)'
    BY <1>0, <2>1 DEF ScriptTypes
  <2>3. ASSUME NEW q \in z.processes PROVE ObserverFits(z, q)'
    <3>1. CASE observer'[q] = R(z)!Idle
      BY <3>1 DEF ObserverFits, SawPrepared
    <3>2. CASE observer'[q] = observer[q]
      BY <2>1, <3>2, ObserversRest
    <3> QED
      BY <3>1, <3>2
  <2>4. ASSUME NEW q \in z.processes PROVE RunnerFits(z, q)'
    <3>1. runner'[q] = runner[q] /\ alive'[q] = alive[q]
      OBVIOUS
    <3>2. /\ run[c].state = "prepared" => ~(Working(q) /\ runner[q].batch = c[1])
          /\ runner[q].at = "send" /\ R(z)!Current(q) = c => state \in {"dispatching", "unknown"}
      OBVIOUS
    <3> QED
      BY <2>0, <2>1, <3>1, <3>2, RunnersRest
  <2> QED
    BY <1>1, <2>1, <2>2, <2>3, <2>4 DEF JournalInv
<1> QED
  BY <1>2, <1>3

\* What was found is concluded, unless the journal says more by now.
LEMMA ConcludeKeeps ==
    ASSUME NEW z, JournalInv(z), NEW p \in z.processes, R(z)!Conclude(p)
    PROVE JournalInv(z)'
<1> DEFINE c == observer[p].run
           found == observer[p].found
           state == R(z)!Concluded(found)
           extra == found \in R(z)!Results
<1>0. /\ ScriptTypes(z) /\ ObserverFits(z, p) /\ observer[p].at = "conclude"
         /\ observer[p] \in Concluding(z)
      /\ c \in R(z)!Runs /\ found \in R(z)!Results \cup {"none"} /\ observer[p] # R(z)!Idle
  <2>1. ScriptTypes(z) /\ ObserverFits(z, p) /\ observer[p].at = "conclude"
    BY DEF JournalInv, R!Conclude
  <2>2. observer[p] \in Concluding(z)
    BY <2>1, ScriptShapes DEF ScriptTypes, Observing
  <2>3. c \in R(z)!Runs /\ found \in R(z)!Results \cup {"none"}
    BY <2>2 DEF Concluding
  <2> QED
    BY <2>1, <2>2, <2>3, ScriptShapes DEF Observing
<1>1. UNCHANGED <<script, batch, runner, alive, life, scriptNative, retained, sends>>
  BY DEF R!Conclude, R!rhino
<1>2. /\ state \in States(z) \ {"absent", "prepared"}
      /\ found \in R(z)!Results => scriptNative[c] = found
      /\ state = "completed" => scriptNative[c] = "ok"
      /\ state \in {"notStarted", "notRun"} => scriptNative[c] \in {"none", "refused"}
  <2>1. found \in R(z)!Results => scriptNative[c] = found
    <3>1. "none" \notin R(z)!Results
      BY DEF R!Results
    <3> QED
      BY <1>0, <3>1 DEF ObserverFits, SawPrepared
  <2>2. CASE found \in R(z)!Results
    BY <2>1, <2>2, StateOfResult DEF R!Concluded
  <2>3. CASE found \notin R(z)!Results
    BY <2>3 DEF R!Concluded, States, R!Terminal
  <2> QED
    BY <2>1, <2>2, <2>3
<1>3. run[c].state \notin {"absent", "prepared"}
  BY <1>0 DEF ObserverFits, SawPrepared
<1>4. \/ UNCHANGED <<run, settled>>
      \/ R(z)!Write(c, state, extra) /\ run[c].state \notin R(z)!Terminal
  <2>1. observer[p].version = run[c].version => run[c].state \notin R(z)!Terminal
    BY <1>0, ScriptShapes DEF ObserverFits, SawPrepared
  <2>2. R(z)!Update(c, observer[p].version, state, extra)
    BY DEF R!Conclude
  <2> HIDE DEF c, state, extra
  <2> QED
    BY <2>1, <2>2, UpdateWrites
<1>5. ASSUME NEW q \in z.processes, runner[q].at = "send", R(z)!Current(q) = c
      PROVE state \in {"dispatching", "unknown"}
  <2>1. scriptNative[c] = "none"
    BY <1>5, CurrentKnown DEF Working
  <2>2. found \notin R(z)!Results
    BY <1>2, <2>1 DEF R!Results
  <2> QED
    BY <2>2 DEF R!Concluded
<1>6. /\ observer' \in [z.processes -> {R(z)!Idle} \cup Observing(z)]
         /\ observer'[p] = R(z)!Idle
      /\ \A q \in z.processes \ {p} : observer'[q] = observer[q]
  BY <1>0 DEF R!Conclude, ScriptTypes
<1>7. /\ run[c].state # "absent"
      /\ run[c].state = "prepared" => \A q \in z.processes : ~(Working(q) /\ runner[q].batch = c[1])
  BY <1>3
<1>8. \A q \in z.processes : runner[q].at = "send"
                            /\ R(z)!Current(q) = c => state \in {"dispatching", "unknown"}
  BY <1>5
<1>9. observer'[p] = observer[p] \/ observer'[p] = R(z)!Idle
  BY <1>6
<1>10. c \in R(z)!Runs /\ extra \in BOOLEAN
  BY <1>0
<1> HIDE DEF c, state, extra
<1> QED
  BY <1>1, <1>2, <1>4, <1>6, <1>7, <1>8, <1>9, <1>10, ObserverWrites

\* An observer that only notes what it saw.
LEMMA ObserverOnly ==
    ASSUME NEW z, JournalInv(z), NEW p \in z.processes, NEW x \in {R(z)!Idle} \cup Observing(z),
           observer' = [observer EXCEPT ![p] = x],
           UNCHANGED <<script, batch, run, runner, alive, life, scriptNative, retained, sends, settled>>,
           observer'[p] = x => ObserverFits(z, p)'
    PROVE  JournalInv(z)'
<1>0. ScriptTypes(z) /\ RunnerFits(z, p)
  BY DEF JournalInv
<1>1. /\ observer' \in [z.processes -> {R(z)!Idle} \cup Observing(z)] /\ observer'[p] = x
      /\ \A q \in z.processes \ {p} : observer'[q] = observer[q]
  BY <1>0 DEF ScriptTypes
<1>2. RunnerFits(z, p)'
  <2>1. R(z)!Current(p)' = R(z)!Current(p) /\ Before(p)' = Before(p)
        /\ R(z)!Owner(p)' = R(z)!Owner(p) /\ Working(p)' = Working(p)
    BY DEF R!Current, Before, R!Owner, Working
  <2> QED
    BY <1>0, <2>1 DEF RunnerFits
<1>3. /\ script' \in Seq([text : z.texts, deleted : BOOLEAN]) /\ alive' \in [z.processes -> Nat]
      /\ runner' \in [z.processes -> {R(z)!Idle} \cup RunnerRecord(z)]
  BY <1>0 DEF ScriptTypes
<1> QED
  BY <1>1, <1>2, <1>3, ProcessSteps

\* What is read of a run that is not over.
LEMMA LookKeeps == ASSUME NEW z, JournalInv(z), NEW p \in z.processes, NEW c \in R(z)!Runs,
                          R(z)!Look(p, c) PROVE JournalInv(z)'
<1> DEFINE x == [at |-> "judge", run |-> c, version |-> run[c].version,
                 prepared |-> run[c].state = "prepared"]
<1>0. /\ run[c].state \in {"prepared", "dispatching", "unknown"} /\ run[c].version \in Nat
      /\ observer' = [observer EXCEPT ![p] = x]
      /\ UNCHANGED <<script, batch, run, runner, alive, life, scriptNative, retained, sends, settled>>
  BY DEF JournalInv, R!Look, ScriptTypes, RunRecord, R!journal, R!rhino
<1>1. /\ x \in Judging(z) /\ x \in Observing(z) /\ x.at = "judge" /\ x.run = c
      /\ x.version = run[c].version /\ (x.prepared <=> run[c].state = "prepared")
  BY <1>0 DEF Judging, Observing
<1> HIDE DEF x
<1>2. ASSUME observer'[p] = x PROVE ObserverFits(z, p)'
  <2>1. SawPrepared(p)' <=> run[c].state = "prepared"
    BY <1>1, <1>2 DEF SawPrepared
  <2>2. observer'[p].run = c /\ observer'[p].version = run[c].version /\ observer'[p].at # "conclude"
    BY <1>1, <1>2
  <2>3. run' = run
    BY <1>0
  <2> HIDE DEF SawPrepared
  <2>4. CASE run[c].state = "prepared"
    BY <1>0, <2>1, <2>2, <2>3, <2>4 DEF ObserverFits
  <2>5. CASE run[c].state # "prepared"
    BY <1>0, <2>1, <2>2, <2>3, <2>5 DEF ObserverFits
  <2> QED
    BY <2>4, <2>5
<1> QED
  BY <1>0, <1>1, <1>2, ObserverOnly

\* A runner that is gone works on nothing.
LEMMA GoneIsIdle ==
    ASSUME NEW z, JournalInv(z), OwnersGone(z), NEW p \in z.processes, SawPrepared(p),
           R(z)!RunnerGone(p, observer[p].run[1]), NEW q \in z.processes
    PROVE  ~R(z)!ActiveClaim(q, observer[p].run[1])
<1> SUFFICES ASSUME R(z)!ActiveClaim(q, observer[p].run[1]) PROVE FALSE
  OBVIOUS
<1>1. batch[observer[p].run[1]].owner = R(z)!Owner(q) /\ ~R(z)!OwnerDead(observer[p].run[1])
  BY DEF R!ActiveClaim, R!OwnerDead, R!Owner
<1>2. p = q
  BY <1>1 DEF R!RunnerGone, R!Owner
<1> QED
  BY <1>2 DEF OwnersGone

\* Judging what was seen: a run that its runner did not get to is over, one that was sent in
\* another life stays unknown, for one of this life Rhino is asked.
LEMMA JudgeKeeps ==
    ASSUME NEW z, JournalInv(z), OwnersGone(z), NEW p \in z.processes, R(z)!Judge(p)
    PROVE  JournalInv(z)'
<1> DEFINE o == observer[p]
           c == o.run
<1>0. /\ ScriptTypes(z) /\ ObserverFits(z, p) /\ o.at = "judge" /\ o # R(z)!Idle
      /\ o \in Judging(z) /\ c \in R(z)!Runs /\ o.version \in Nat /\ o.prepared \in BOOLEAN
  <2>1. ScriptTypes(z) /\ ObserverFits(z, p) /\ o.at = "judge"
    BY DEF JournalInv, R!Judge
  <2>2. o \in Judging(z)
    BY <2>1, ScriptShapes DEF ScriptTypes, Observing
  <2> QED
    BY <2>1, <2>2, ScriptShapes DEF Observing
<1>1. UNCHANGED <<script, batch, runner, alive, life, scriptNative, retained, sends>>
  BY DEF R!Judge, R!rhino
<1>2. run[c].state # "absent" /\ (o.version = run[c].version => run[c].state \notin R(z)!Terminal)
  <2>1. run[c].state # "absent"
        /\ (o.version = run[c].version => run[c].state \in {"prepared", "dispatching", "unknown"})
    BY <1>0 DEF ObserverFits, SawPrepared
  <2> QED
    BY <2>1, ScriptShapes
<1>3. ASSUME observer' = [observer EXCEPT ![p] = R(z)!Idle]
      PROVE  /\ observer' \in [z.processes -> {R(z)!Idle} \cup Observing(z)]
             /\ observer'[p] = observer[p] \/ observer'[p] = R(z)!Idle
             /\ \A q \in z.processes \ {p} : observer'[q] = observer[q]
  BY <1>0, <1>3 DEF ScriptTypes
<1>4. CASE /\ o.prepared /\ R(z)!RunnerGone(p, c[1]) /\ R(z)!Update(c, o.version, "died", FALSE)
           /\ observer' = [observer EXCEPT ![p] = R(z)!Idle]
  <2>1. ASSUME NEW q \in z.processes PROVE ~(Working(q) /\ runner[q].batch = c[1])
    <3>1. ~R(z)!ActiveClaim(q, c[1])
      BY <1>0, <1>4, GoneIsIdle DEF SawPrepared
    <3>2. Working(q) => batch[runner[q].batch].owner = R(z)!Owner(q) /\ runner[q].at # "idle"
      BY DEF JournalInv, RunnerFits, Working
    <3> QED
      BY <3>1, <3>2 DEF R!ActiveClaim
  <2>2. PICK s \in States(z) \ {"absent", "prepared"} : s = "died"
    BY DEF States, R!Terminal
  <2>3. UNCHANGED <<run, settled>> \/ (R(z)!Write(c, s, FALSE) /\ run[c].state \notin R(z)!Terminal)
    <3>1. R(z)!Update(c, o.version, s, FALSE)
      BY <1>4, <2>2
    <3> HIDE DEF c, o
    <3> QED
      BY <1>2, <3>1, UpdateWrites
  <2>4. ASSUME NEW q \in z.processes, runner[q].at = "send", R(z)!Current(q) = c
        PROVE  s \in {"dispatching", "unknown"}
    <3>1. Working(q) /\ runner[q].batch = c[1]
      BY <1>0, <2>4, RunnerKinds DEF Working
    <3> QED
      BY <2>1, <3>1
  <2>5. /\ s = "completed" => scriptNative[c] = "ok"
        /\ s \in {"notStarted", "notRun"} => scriptNative[c] \in {"none", "refused"}
    BY <2>2
  <2>6. /\ run[c].state = "prepared" => \A q \in z.processes : ~(Working(q) /\ runner[q].batch = c[1])
        /\ \A q \in z.processes : runner[q].at = "send"
                                  /\ R(z)!Current(q) = c => s \in {"dispatching", "unknown"}
    BY <2>1, <2>4
  <2>7. /\ observer' \in [z.processes -> {R(z)!Idle} \cup Observing(z)]
        /\ observer'[p] = observer[p] \/ observer'[p] = R(z)!Idle
        /\ \A q \in z.processes \ {p} : observer'[q] = observer[q]
    BY <1>3, <1>4
  <2>8. FALSE \in BOOLEAN /\ run[c].state # "absent" /\ c \in R(z)!Runs
    BY <1>0, <1>2
  <2> HIDE DEF c
  <2> QED
    BY <1>1, <2>3, <2>5, <2>6, <2>7, <2>8, ObserverWrites
<1>5. CASE /\ o.prepared /\ UNCHANGED <<run, settled>>
           /\ observer' = [observer EXCEPT ![p] = R(z)!Idle]
  <2>1. observer'[p] = R(z)!Idle => ObserverFits(z, p)'
    BY DEF ObserverFits, SawPrepared
  <2> QED
    BY <1>1, <1>5, <2>1, ObserverOnly
<1>6. CASE /\ ~o.prepared /\ R(z)!Update(c, o.version, "unknown", FALSE)
           /\ observer' = [observer EXCEPT ![p] = R(z)!Idle]
  <2>1. PICK s \in States(z) \ {"absent", "prepared"} : s = "unknown"
    BY DEF States, R!Terminal
  <2>2. UNCHANGED <<run, settled>> \/ (R(z)!Write(c, s, FALSE) /\ run[c].state \notin R(z)!Terminal)
    <3>1. R(z)!Update(c, o.version, s, FALSE)
      BY <1>6, <2>1
    <3> HIDE DEF c, o
    <3> QED
      BY <1>2, <3>1, UpdateWrites
  <2>3. run[c].state # "prepared" /\ run[c].state # "absent"
    BY <1>0, <1>6 DEF ObserverFits, SawPrepared
  <2>4. /\ s = "completed" => scriptNative[c] = "ok"
        /\ s \in {"notStarted", "notRun"} => scriptNative[c] \in {"none", "refused"}
        /\ run[c].state = "prepared" => \A q \in z.processes : ~(Working(q) /\ runner[q].batch = c[1])
        /\ \A q \in z.processes : runner[q].at = "send"
                                  /\ R(z)!Current(q) = c => s \in {"dispatching", "unknown"}
    BY <2>1, <2>3
  <2>5. /\ observer' \in [z.processes -> {R(z)!Idle} \cup Observing(z)]
        /\ observer'[p] = observer[p] \/ observer'[p] = R(z)!Idle
        /\ \A q \in z.processes \ {p} : observer'[q] = observer[q]
    BY <1>3, <1>6
  <2>6. FALSE \in BOOLEAN /\ run[c].state # "absent" /\ c \in R(z)!Runs
    BY <1>0, <1>2
  <2> HIDE DEF c
  <2> QED
    BY <1>1, <2>2, <2>4, <2>5, <2>6, ObserverWrites
<1>7. CASE /\ ~o.prepared /\ UNCHANGED <<run, settled>>
           /\ observer' = [observer EXCEPT ![p] = [at |-> "ask", run |-> c, version |-> o.version]]
  <2> DEFINE x == [at |-> "ask", run |-> c, version |-> o.version]
  <2>1. x \in Asking(z) /\ x \in Observing(z) /\ x.run = c /\ x.version = o.version /\ x.at = "ask"
    BY <1>0 DEF Asking, Observing
  <2>2. observer' = [observer EXCEPT ![p] = x]
    BY <1>7
  <2> HIDE DEF x
  <2>3. ASSUME observer'[p] = x PROVE ObserverFits(z, p)'
    BY <1>0, <1>1, <1>7, <2>1, <2>3 DEF ObserverFits, SawPrepared
  <2> QED
    BY <1>1, <1>7, <2>1, <2>2, <2>3, ObserverOnly
<1> QED
  BY <1>4, <1>5, <1>6, <1>7 DEF R!Judge

\* What Rhino answers is what it retained, if it answers.
LEMMA AskKeeps == ASSUME NEW z, JournalInv(z), NEW p \in z.processes, R(z)!Ask(p) PROVE JournalInv(z)'
<1> DEFINE c == observer[p].run
<1>0. /\ ScriptTypes(z) /\ ObserverFits(z, p) /\ observer[p].at = "ask" /\ observer[p] # R(z)!Idle
      /\ c \in R(z)!Runs /\ observer[p].version \in Nat
         /\ retained[c] \in R(z)!Results \cup {"none"} /\ SendFits(z, c)
  <2>1. ScriptTypes(z) /\ ObserverFits(z, p) /\ observer[p].at = "ask"
    BY DEF JournalInv, R!Ask
  <2>2. observer[p] \in Observing(z)
    BY <2>1, ScriptShapes DEF ScriptTypes
  <2> QED
    BY <2>1, <2>2, ScriptShapes DEF JournalInv, ScriptTypes
<1>1. UNCHANGED <<script, batch, run, runner, alive, life, scriptNative, retained, sends, settled>>
  BY DEF R!Ask, R!journal, R!rhino
<1>2. PICK found \in R(z)!Results \cup {"none"} :
        /\ found # "none" => scriptNative[c] = found
        /\ observer' = [observer EXCEPT ![p] =
             [at |-> "conclude", run |-> c, version |-> observer[p].version, found |-> found]]
  <2>1. \/ observer' = [observer EXCEPT ![p] =
             [at |-> "conclude", run |-> c, version |-> observer[p].version, found |-> retained[c]]]
        \/ observer' = [observer EXCEPT ![p] =
             [at |-> "conclude", run |-> c, version |-> observer[p].version, found |-> "none"]]
    BY <1>0 DEF R!Ask, ScriptTypes
  <2>2. retained[c] # "none" => scriptNative[c] = retained[c]
    BY <1>0 DEF SendFits
  <2> QED
    BY <1>0, <2>1, <2>2
<1> DEFINE x == [at |-> "conclude", run |-> c, version |-> observer[p].version, found |-> found]
<1>3. /\ x \in Concluding(z) /\ x \in Observing(z) /\ x.at = "conclude" /\ x.run = c
      /\ x.version = observer[p].version /\ x.found = found
  BY <1>0 DEF Concluding, Observing
<1>4. observer' = [observer EXCEPT ![p] = x]
  BY <1>2
<1> HIDE DEF x
<1>5. ASSUME observer'[p] = x PROVE ObserverFits(z, p)'
  BY <1>0, <1>1, <1>2, <1>3, <1>5 DEF ObserverFits, SawPrepared
<1> QED
  BY <1>1, <1>3, <1>4, <1>5, ObserverOnly

\* A process that dies holds nothing, and its incarnation is a new one.
LEMMA CrashKeeps == ASSUME NEW z, JournalInv(z), NEW p \in z.processes, R(z)!Crash(p)
    PROVE JournalInv(z)'
<1>0. ScriptTypes(z)
  BY DEF JournalInv
<1>1. UNCHANGED <<script, batch, run, life, scriptNative, retained, sends, settled>>
  BY DEF R!Crash, R!journal, R!rhino
<1>2. /\ runner' \in [z.processes -> {R(z)!Idle} \cup RunnerRecord(z)] /\ runner'[p] = R(z)!Idle
      /\ observer' \in [z.processes -> {R(z)!Idle} \cup Observing(z)]
         /\ observer'[p] = R(z)!Idle
      /\ alive' \in [z.processes -> Nat]
      /\ \A q \in z.processes \ {p} : runner'[q] = runner[q] /\ observer'[q] = observer[q]
         /\ alive'[q] = alive[q]
  <2>1. alive[p] + 1 \in Nat
    BY <1>0 DEF ScriptTypes
  <2> QED
    BY <1>0, <2>1 DEF R!Crash, ScriptTypes
<1>3. RunnerFits(z, p)' /\ ObserverFits(z, p)'
  BY <1>2, ScriptShapes DEF RunnerFits, ObserverFits, Working, SawPrepared
<1>4. script' \in Seq([text : z.texts, deleted : BOOLEAN])
  BY <1>0, <1>1 DEF ScriptTypes
<1> QED
  BY <1>1, <1>2, <1>3, <1>4, ProcessSteps

\* Rhino goes on: what it did stays, and what it did not get it does not do.
LEMMA NativeMoves ==
    ASSUME NEW z, z.items \in Nat \ {0}, JournalInv(z),
           UNCHANGED <<R(z)!journal, runner, observer, alive, sends, settled>>,
           life' \in Nat \ {0}, scriptNative' \in [R(z)!Runs -> NativeStates(z)],
           retained' \in [R(z)!Runs -> R(z)!Results \cup {"none"}],
           \A r \in R(z)!Runs :
             /\ scriptNative[r] \in R(z)!Results => scriptNative'[r] = scriptNative[r]
             /\ scriptNative[r] = "none" => scriptNative'[r] = "none"
             /\ retained'[r] # "none" => scriptNative'[r] = retained'[r]
    PROVE  JournalInv(z)'
<1>0. ScriptTypes(z) /\ UNCHANGED <<script, batch, run>>
  BY DEF JournalInv, R!journal
<1>1. ScriptTypes(z)'
  BY <1>0 DEF ScriptTypes
<1>2. {"ok", "refused"} \subseteq R(z)!Results /\ "none" \notin R(z)!Results
  BY DEF R!Results
<1>3. ASSUME NEW r \in R(z)!Runs PROVE EffectFits(z, r)' /\ SendFits(z, r)'
  <2>1. EffectFits(z, r) /\ SendFits(z, r)
    BY DEF JournalInv
  <2>2. EffectFits(z, r)'
    BY <1>0, <1>2, <2>1 DEF EffectFits
  <2>3. r[2] > 1 /\ scriptNative'[r] # "none" => scriptNative'[<<r[1], r[2] - 1>>] = "ok"
    <3> SUFFICES ASSUME r[2] > 1, scriptNative'[r] # "none"
    PROVE scriptNative'[<<r[1], r[2] - 1>>] = "ok"
      OBVIOUS
    <3>1. scriptNative[r] # "none"
      OBVIOUS
    <3>2. scriptNative[<<r[1], r[2] - 1>>] = "ok"
      BY <2>1, <3>1 DEF SendFits
    <3>3. <<r[1], r[2] - 1>> \in R(z)!Runs
      BY DEF R!Runs, R!Items
    <3> QED
      BY <1>2, <3>2, <3>3
  <2> QED
    BY <1>0, <2>1, <2>2, <2>3 DEF SendFits
<1>4. ASSUME NEW q \in z.processes PROVE ObserverFits(z, q)'
  <2>1. CASE observer[q] = R(z)!Idle
    BY <2>1 DEF ObserverFits, SawPrepared
  <2>2. CASE observer[q] # R(z)!Idle
    <3>1. observer[q].run \in R(z)!Runs /\ ObserverFits(z, q)
          /\ (observer[q].at = "conclude" => observer[q].found \in R(z)!Results \cup {"none"})
      BY <1>0, <2>2, ScriptShapes DEF ScriptTypes, JournalInv, Observing
    <3> QED
      BY <1>0, <2>2, <3>1 DEF ObserverFits, SawPrepared
  <2> QED
    BY <2>1, <2>2
<1>5. ASSUME NEW q \in z.processes PROVE RunnerFits(z, q)'
  <2>1. R(z)!Current(q)' = R(z)!Current(q) /\ Before(q)' = Before(q)
        /\ R(z)!Owner(q)' = R(z)!Owner(q) /\ Working(q)' = Working(q)
    BY DEF R!Current, Before, R!Owner, Working
  <2>2. RunnerFits(z, q)
    BY DEF JournalInv
  <2>3. CASE Working(q)
    <3>1. runner[q].item > 1 => Before(q) \in R(z)!Runs
      BY <1>0, <2>3, RunnerKinds DEF Before, R!Runs, R!Items, Working
    <3>2. runner[q].item > 1 /\ scriptNative[Before(q)] = "ok" => scriptNative'[Before(q)] = "ok"
      BY <1>2, <3>1
    <3> QED
      BY <1>0, <2>1, <2>2, <3>2 DEF RunnerFits
  <2>4. CASE ~Working(q)
    BY <2>1, <2>2, <2>4 DEF RunnerFits, Working
  <2> QED
    BY <2>3, <2>4
<1> QED
  BY <1>1, <1>3, <1>4, <1>5 DEF JournalInv

\* The steps of Rhino, and those that hit it.
LEMMA RhinoKeeps ==
    ASSUME NEW z, z.items \in Nat \ {0}, JournalInv(z),
           \/ \E r \in R(z)!Runs : R(z)!Execute(r) \/ R(z)!Return(r) \/ R(z)!Expire(r) \/ R(z)!Lose(r)
           \/ R(z)!RhinoEnds
    PROVE  JournalInv(z)'
<1>0. /\ ScriptTypes(z) /\ scriptNative \in [R(z)!Runs -> NativeStates(z)]
         /\ retained \in [R(z)!Runs -> R(z)!Results \cup {"none"}]
      /\ life \in Nat \ {0} /\ life + 1 \in Nat \ {0}
      /\ \A r \in R(z)!Runs : retained[r] # "none" => scriptNative[r] = retained[r]
         /\ scriptNative[r] \in R(z)!Results
  <2>1. /\ ScriptTypes(z) /\ scriptNative \in [R(z)!Runs -> NativeStates(z)]
           /\ retained \in [R(z)!Runs -> R(z)!Results \cup {"none"}]
        /\ life \in Nat \ {0}
    BY DEF JournalInv, ScriptTypes
  <2>2. ASSUME NEW r \in R(z)!Runs, retained[r] # "none"
        PROVE scriptNative[r] = retained[r] /\ scriptNative[r] \in R(z)!Results
    <3>1. SendFits(z, r) /\ retained[r] \in R(z)!Results \cup {"none"}
      BY <2>1 DEF JournalInv
    <3> QED
      BY <2>2, <3>1 DEF SendFits
  <2> QED
    BY <2>1, <2>2
<1>1. /\ {"sent", "working", "lost", "cut"} \subseteq NativeStates(z)
         /\ R(z)!Results \subseteq NativeStates(z)
      /\ {"sent", "working", "lost", "cut", "none"} \cap R(z)!Results = {}
  BY DEF NativeStates, R!Results
<1>2. ASSUME NEW r \in R(z)!Runs, R(z)!Execute(r) \/ R(z)!Lose(r) PROVE JournalInv(z)'
  <2>1. PICK w \in {"working", "lost"} : scriptNative' = [scriptNative EXCEPT ![r] = w]
    BY <1>2 DEF R!Execute, R!Lose
  <2>2. scriptNative[r] = "sent" /\ UNCHANGED <<R(z)!journal, runner, observer, alive, life,
                                                retained, sends, settled>>
    BY <1>2 DEF R!Execute, R!Lose
  <2> QED
    BY <1>0, <1>1, <2>1, <2>2, NativeMoves
<1>3. ASSUME NEW r \in R(z)!Runs, R(z)!Return(r) PROVE JournalInv(z)'
  <2>1. PICK result \in R(z)!Results :
          /\ scriptNative[r] \in {"sent", "working"}
          /\ scriptNative' = [scriptNative EXCEPT ![r] = result]
          /\ retained' = [retained EXCEPT ![r] = result]
    BY <1>3 DEF R!Return
  <2>2. UNCHANGED <<R(z)!journal, runner, observer, alive, life, sends, settled>>
    BY <1>3 DEF R!Return
  <2> QED
    BY <1>0, <1>1, <2>1, <2>2, NativeMoves
<1>4. ASSUME NEW r \in R(z)!Runs, R(z)!Expire(r) PROVE JournalInv(z)'
  <2>1. /\ retained' = [retained EXCEPT ![r] = "none"]
        /\ UNCHANGED <<R(z)!journal, runner, observer, alive, life, scriptNative, sends, settled>>
    BY <1>4 DEF R!Expire
  <2> QED
    BY <1>0, <1>1, <2>1, NativeMoves
<1>5. CASE R(z)!RhinoEnds
  <2>1. /\ \A r \in R(z)!Runs : scriptNative'[r] = IF scriptNative[r] = "sent" THEN "lost" ELSE
                                        IF scriptNative[r] = "working" THEN "cut" ELSE scriptNative[r]
        /\ scriptNative' \in [R(z)!Runs -> NativeStates(z)]
    BY <1>0, <1>1, <1>5 DEF R!RhinoEnds
  <2>2. /\ \A r \in R(z)!Runs : retained'[r] = "none"
        /\ retained' \in [R(z)!Runs -> R(z)!Results \cup {"none"}] /\ life' = life + 1
        /\ UNCHANGED <<R(z)!journal, runner, observer, alive, sends, settled>>
    BY <1>5 DEF R!RhinoEnds
  <2> QED
    BY <1>0, <1>1, <2>1, <2>2, NativeMoves
<1> QED
  BY <1>2, <1>3, <1>4, <1>5

\* Every step keeps the invariant.
LEMMA JournalKeeps ==
    ASSUME NEW z, z.items \in Nat \ {0}, JournalInv(z), OwnersGone(z), [R(z)!Next]_(R(z)!vars)
    PROVE JournalInv(z)'
<1>1. CASE R(z)!Next
  <2>1. ASSUME NEW m \in z.edits, R(z)!Edit(m) PROVE JournalInv(z)'
    BY <2>1, EditKeeps
  <2>2. ASSUME NEW p \in z.processes, R(z)!Admit(p) \/ R(z)!Item(p) \/ R(z)!Refuse(p)
               \/ R(z)!Send(p) \/ R(z)!Answer(p) \/ R(z)!Abort(p) PROVE JournalInv(z)'
    BY <2>2, AdmitKeeps, ItemKeeps, RefuseKeeps, SendKeeps, AnswerKeeps, AbortKeeps
  <2>3. ASSUME NEW p \in z.processes, R(z)!Judge(p) \/ R(z)!Ask(p) \/ R(z)!Conclude(p) \/ R(z)!Crash(p)
        PROVE JournalInv(z)'
    BY <2>3, JudgeKeeps, AskKeeps, ConcludeKeeps, CrashKeeps
  <2>4. ASSUME NEW p \in z.processes, NEW b \in z.batches, NEW n \in DOMAIN script,
               R(z)!Start(p, b, n) PROVE JournalInv(z)'
    BY <2>4, StartKeeps
  <2>5. ASSUME NEW p \in z.processes, NEW r \in R(z)!Runs, R(z)!Look(p, r) PROVE JournalInv(z)'
    BY <2>5, LookKeeps
  <2> QED
    BY <1>1, <2>1, <2>2, <2>3, <2>4, <2>5, RhinoKeeps DEF R!Next
<1>2. CASE UNCHANGED R(z)!vars
  <2>1. UNCHANGED <<batch, run, runner, observer, alive, life, scriptNative, retained, sends,
                    settled, script>>
    BY <1>2 DEF R!vars, R!journal, R!rhino
  <2>2. script' \in Seq([text : z.texts, deleted : BOOLEAN])
    BY <2>1 DEF JournalInv, ScriptTypes
  <2> QED
    BY <2>1, <2>2, ScriptRests
<1> QED
  BY <1>1, <1>2

-----------------------------------------------------------------------------
(* An owner that is gone stays gone: only a batch that was not there before *)
(* comes to have an active runner.                                          *)

\* A runner ends, or goes on with its batch.
LEMMA AdvanceStays ==
    ASSUME NEW z, JournalInv(z), NEW p \in z.processes, runner[p].at # "idle", NEW stop, R(z)!Advance(p, stop)
    PROVE  /\ \A q \in z.processes \ {p} : runner'[q] = runner[q]
           /\ runner'[p] = R(z)!Idle \/ runner'[p].batch = runner[p].batch
<1>1. runner \in [z.processes -> {R(z)!Idle} \cup RunnerRecord(z)] /\ runner[p] \in RunnerRecord(z)
  BY RunnerKinds DEF JournalInv, ScriptTypes
<1> QED
  BY <1>1 DEF R!Advance, R!Ends, RunnerRecord

\* Who is active at a batch was so before, or the batch is new.
LEMMA ClaimStays ==
    ASSUME NEW z, JournalInv(z), NEW p \in z.processes, NEW q \in z.processes, NEW b \in z.batches,
           alive'[q] = alive[q], batch'[b] = batch[b] \/ batch[b] = R(z)!Absent,
           \A o \in z.processes \ {p} : runner'[o] = runner[o],
           \/ runner'[p] = R(z)!Idle
           \/ runner[p].at # "idle" /\ runner'[p].batch = runner[p].batch,
           R(z)!ActiveClaim(q, b)'
    PROVE  R(z)!ActiveClaim(q, b) \/ batch[b] = R(z)!Absent
<1>1. /\ runner'[q].at # "idle" /\ runner'[q].batch = b /\ batch'[b].owner = R(z)!Owner(q)'
      /\ R(z)!Owner(q)' = R(z)!Owner(q)
  BY DEF R!ActiveClaim, R!Owner
<1>2. runner[q].at # "idle" /\ runner[q].batch = b
  <2>1. CASE q = p
    BY <1>1, <2>1, ScriptShapes
  <2>2. CASE q # p
    BY <1>1, <2>2
  <2> QED
    BY <2>1, <2>2
<1> QED
  BY <1>1, <1>2 DEF R!ActiveClaim

\* What is recorded otherwise leaves the runs that were never dispatched as they are.
LEMMA NoOtherDies ==
    ASSUME NEW z, JournalInv(z), NEW c, NEW version, NEW state, state # "died", NEW extra,
           UNCHANGED run \/ R(z)!Update(c, version, state, extra)
    PROVE  \A r \in R(z)!Runs : run'[r].state = "died" => run[r].state = "died"
<1>1. run \in [R(z)!Runs -> RunRecord(z)]
  BY DEF JournalInv, ScriptTypes
<1>2. UNCHANGED run \/ R(z)!Write(c, state, extra)
  BY DEF R!Update
<1> QED
  BY <1>1, <1>2 DEF R!Write

\* Who was gone is gone after a step in which only new batches get a runner.
LEMMA GoneStep ==
    ASSUME NEW z, JournalInv(z), OwnersGone(z),
           \A q \in z.processes, b \in z.batches :
             R(z)!ActiveClaim(q, b)' => R(z)!ActiveClaim(q, b) \/ batch[b] = R(z)!Absent,
           \A r \in R(z)!Runs : run'[r].state = "died" =>
             \/ run[r].state = "died"
             \/ run[r].state # "absent" /\ \A q \in z.processes : ~R(z)!ActiveClaim(q, r[1]),
           \A p \in z.processes : SawPrepared(p)' =>
             \/ SawPrepared(p) /\ observer'[p] = observer[p]
             \/ /\ observer'[p].run \in R(z)!Runs /\ run[observer'[p].run].state # "absent"
                /\ ~R(z)!ActiveClaim(p, observer'[p].run[1])
    PROVE  OwnersGone(z)'
<1>1. \A r \in R(z)!Runs : r[1] \in z.batches /\ (run[r].state # "absent" => batch[r[1]] # R(z)!Absent)
  BY DEF JournalInv, EffectFits, R!Runs
<1>2. ASSUME NEW r \in R(z)!Runs, run'[r].state = "died", NEW q \in z.processes
      PROVE  ~R(z)!ActiveClaim(q, r[1])'
  <2>1. run[r].state # "absent" /\ ~R(z)!ActiveClaim(q, r[1])
    BY <1>2 DEF OwnersGone
  <2> QED
    BY <1>1, <2>1
<1>3. ASSUME NEW p \in z.processes, SawPrepared(p)' PROVE ~R(z)!ActiveClaim(p, observer[p].run[1])'
  <2> DEFINE c == observer'[p].run
  <2>1. c \in R(z)!Runs /\ run[c].state # "absent" /\ ~R(z)!ActiveClaim(p, c[1])
    <3>1. CASE SawPrepared(p) /\ observer'[p] = observer[p]
      <4>1. observer[p] # R(z)!Idle /\ ObserverFits(z, p)
        BY <3>1 DEF SawPrepared, R!Idle, JournalInv
      <4>2. observer[p].run \in R(z)!Runs
        BY <4>1, ScriptShapes DEF JournalInv, ScriptTypes
      <4> QED
        BY <3>1, <4>1, <4>2 DEF ObserverFits, OwnersGone, SawPrepared
    <3> QED
      BY <1>3, <3>1
  <2>2. c[1] \in z.batches /\ batch[c[1]] # R(z)!Absent
    BY <1>1, <2>1
  <2>3. PICK b \in z.batches : b = c[1]
    BY <2>2
  <2>4. ~R(z)!ActiveClaim(p, b)'
    BY <2>1, <2>2, <2>3
  <2>5. R(z)!ActiveClaim(p, observer[p].run[1])' => R(z)!ActiveClaim(p, b)'
    BY <2>3 DEF R!ActiveClaim, R!Owner
  <2> QED
    BY <2>4, <2>5
<1> QED
  BY <1>2, <1>3 DEF OwnersGone

\* Nobody starts, and who ends is not active any more.
LEMMA NobodyStarts ==
    ASSUME NEW z, JournalInv(z), NEW p \in z.processes, UNCHANGED <<batch, alive>>,
           \A o \in z.processes \ {p} : runner'[o] = runner[o],
           \/ runner'[p] = runner[p] \/ runner'[p] = R(z)!Idle
           \/ runner[p].at # "idle" /\ runner'[p].batch = runner[p].batch
    PROVE  \A q \in z.processes, b \in z.batches :
             R(z)!ActiveClaim(q, b)' => R(z)!ActiveClaim(q, b) \/ batch[b] = R(z)!Absent
<1> SUFFICES ASSUME NEW q \in z.processes, NEW b \in z.batches, R(z)!ActiveClaim(q, b)'
             PROVE  R(z)!ActiveClaim(q, b) \/ batch[b] = R(z)!Absent
  OBVIOUS
<1>1. CASE runner'[p] = runner[p]
  BY <1>1 DEF R!ActiveClaim, R!Owner
<1>2. CASE \/ runner'[p] = R(z)!Idle
           \/ runner[p].at # "idle" /\ runner'[p].batch = runner[p].batch
  BY <1>2, ClaimStays
<1> QED
  BY <1>1, <1>2

\* Every step of a runner.
LEMMA RunnerLeavesGone ==
    ASSUME NEW z, z.items \in Nat \ {0}, JournalInv(z), OwnersGone(z), NEW p \in z.processes,
           \/ R(z)!Admit(p) \/ R(z)!Item(p) \/ R(z)!Refuse(p) \/ R(z)!Send(p) \/ R(z)!Answer(p)
           \/ R(z)!Abort(p)
    PROVE  OwnersGone(z)'
<1>0. /\ ScriptTypes(z) /\ runner[p].at # "idle" /\ runner[p] \in RunnerRecord(z)
         /\ runner[p].batch \in z.batches
      /\ UNCHANGED <<observer, alive>>
  <2>1. runner[p].at # "idle"
    BY DEF R!Admit, R!Item, R!Refuse, R!Send, R!Answer, R!Abort
  <2>2. UNCHANGED <<observer, alive>>
    BY DEF R!Admit, R!Item, R!Refuse, R!Send, R!Answer, R!Abort
  <2> QED
    BY <2>1, <2>2, RunnerKinds DEF JournalInv
<1>1. \A q \in z.processes : SawPrepared(q)' => SawPrepared(q) /\ observer'[q] = observer[q]
  BY <1>0 DEF SawPrepared
<1>2. ASSUME UNCHANGED batch,
             \A r \in R(z)!Runs : run'[r].state = "died" => run[r].state = "died",
             \A o \in z.processes \ {p} : runner'[o] = runner[o],
             runner'[p] = R(z)!Idle \/ runner'[p].batch = runner[p].batch
      PROVE  OwnersGone(z)'
  <2>1. \A q \in z.processes, b \in z.batches :
          R(z)!ActiveClaim(q, b)' => R(z)!ActiveClaim(q, b) \/ batch[b] = R(z)!Absent
    BY <1>0, <1>2, NobodyStarts
  <2> QED
    BY <1>1, <1>2, <2>1, GoneStep
<1>3. ASSUME NEW stop, R(z)!Advance(p, stop), UNCHANGED batch,
             \A r \in R(z)!Runs : run'[r].state = "died" => run[r].state = "died"
      PROVE  OwnersGone(z)'
  BY <1>0, <1>2, <1>3, AdvanceStays
<1>4. ASSUME NEW stop, R(z)!Advance(p, stop), UNCHANGED batch, NEW c, NEW version, NEW state,
             state # "died", NEW extra, UNCHANGED run \/ R(z)!Update(c, version, state, extra)
      PROVE  OwnersGone(z)'
  BY <1>3, <1>4, NoOtherDies
<1>5. ASSUME NEW state, state # "died", NEW extra, R(z)!Records(p, state, extra), UNCHANGED batch
      PROVE  OwnersGone(z)'
  BY <1>4, <1>5 DEF R!Records
<1>6. CASE R(z)!Admit(p)
  <2> DEFINE b == runner[p].batch
  <2>1. CASE R(z)!Ends(p) /\ UNCHANGED <<batch, run>>
    BY <1>0, <1>2, <2>1 DEF R!Ends, ScriptTypes
  <2>2. CASE /\ batch[b] = R(z)!Absent
             /\ \E y : batch' = [batch EXCEPT ![b] = y]
             /\ \A r \in R(z)!Runs : run'[r].state = "died" => run[r].state = "died"
             /\ runner' = [runner EXCEPT ![p].at = "item"]
    <3>1. /\ \A o \in z.processes \ {p} : runner'[o] = runner[o]
          /\ runner'[p].batch = runner[p].batch
      BY <1>0, <2>2 DEF ScriptTypes, RunnerRecord
    <3>2. \A o \in z.batches : batch'[o] = batch[o] \/ batch[o] = R(z)!Absent
      BY <1>0, <2>2 DEF ScriptTypes
    <3>3. \A q \in z.processes, o \in z.batches :
            R(z)!ActiveClaim(q, o)' => R(z)!ActiveClaim(q, o) \/ batch[o] = R(z)!Absent
      BY <1>0, <3>1, <3>2, ClaimStays
    <3> QED
      BY <1>1, <2>2, <3>3, GoneStep
  <2>3. ASSUME run' = [r \in R(z)!Runs |->
                  IF r[1] = b THEN [R(z)!NoRun EXCEPT !.state = "prepared", !.version = 1] ELSE run[r]]
        PROVE  \A r \in R(z)!Runs : run'[r].state = "died" => run[r].state = "died"
    BY <2>3 DEF R!NoRun
  <2> QED
    BY <1>6, <2>1, <2>2, <2>3 DEF R!Admit
<1>7. CASE R(z)!Item(p)
  <2>1. CASE R(z)!Advance(p, TRUE) /\ UNCHANGED run
    BY <1>4, <1>7, <2>1 DEF R!Item
  <2>2. CASE /\ R(z)!Update(R(z)!Current(p), run[R(z)!Current(p)].version, "notRun", FALSE)
             /\ R(z)!Advance(p, TRUE)
    BY <1>4, <1>7, <2>2 DEF R!Item
  <2>3. CASE /\ R(z)!Update(R(z)!Current(p), run[R(z)!Current(p)].version, "dispatching", FALSE)
             /\ runner' = [runner EXCEPT ![p].at = "send",
                                         ![p].version = run[R(z)!Current(p)].version + 1]
    <3>1. /\ \A o \in z.processes \ {p} : runner'[o] = runner[o]
          /\ runner'[p].batch = runner[p].batch
      BY <1>0, <2>3 DEF ScriptTypes, RunnerRecord
    <3>2. \A r \in R(z)!Runs : run'[r].state = "died" => run[r].state = "died"
      BY <2>3, NoOtherDies
    <3> QED
      BY <1>2, <1>7, <3>1, <3>2 DEF R!Item
  <2> QED
    BY <1>7, <2>1, <2>2, <2>3 DEF R!Item
<1>8. CASE R(z)!Refuse(p)
  BY <1>5, <1>8 DEF R!Refuse
<1>9. CASE R(z)!Send(p)
  BY <1>0, <1>2, <1>9 DEF R!Send, R!journal, ScriptTypes, RunnerRecord
<1>10. CASE R(z)!Abort(p)
  BY <1>0, <1>2, <1>10 DEF R!Abort, R!journal, ScriptTypes, RunnerRecord
<1>11. CASE R(z)!Answer(p)
  <2>1. R(z)!StateOf(scriptNative[R(z)!Current(p)]) # "died"
    BY DEF R!StateOf
  <2>2. ASSUME NEW state, state # "died", NEW extra, R(z)!Records(p, state, extra)
        PROVE  OwnersGone(z)'
    BY <1>5, <1>11, <2>2 DEF R!Answer
  <2>3. ASSUME R(z)!Update(R(z)!Current(p), runner[p].version, "unknown", FALSE),
               R(z)!Advance(p, ~R(z)!Continues(p, run'[R(z)!Current(p)].state))
        PROVE  OwnersGone(z)'
    BY <1>4, <1>11, <2>3 DEF R!Answer
  <2> QED
    BY <1>11, <2>1, <2>2, <2>3 DEF R!Answer
<1> QED
  BY <1>6, <1>7, <1>8, <1>9, <1>10, <1>11

\* Every step of an observer: what it judges is the work of a runner that is gone.
LEMMA ObserverLeavesGone ==
    ASSUME NEW z, JournalInv(z), OwnersGone(z), NEW p \in z.processes,
           \/ \E r \in R(z)!Runs : R(z)!Look(p, r)
           \/ R(z)!Judge(p) \/ R(z)!Ask(p) \/ R(z)!Conclude(p)
    PROVE  OwnersGone(z)'
<1>0. ScriptTypes(z)
  BY DEF JournalInv
<1>1. UNCHANGED <<batch, alive, runner>>
  BY DEF R!Look, R!Judge, R!Ask, R!Conclude, R!journal
<1>2. \A q \in z.processes, b \in z.batches :
        R(z)!ActiveClaim(q, b)' => R(z)!ActiveClaim(q, b) \/ batch[b] = R(z)!Absent
  BY <1>1, NobodyStarts
<1>3. ASSUME \A o \in z.processes \ {p} : observer'[o] = observer[o], observer'[p].at # "judge",
             \A r \in R(z)!Runs : run'[r].state = "died" =>
               \/ run[r].state = "died"
               \/ run[r].state # "absent" /\ \A q \in z.processes : ~R(z)!ActiveClaim(q, r[1])
      PROVE  OwnersGone(z)'
  <2>1. \A q \in z.processes : SawPrepared(q)' => SawPrepared(q) /\ observer'[q] = observer[q]
    BY <1>3 DEF SawPrepared
  <2> QED
    BY <1>2, <1>3, <2>1, GoneStep
<1>4. ASSUME NEW r \in R(z)!Runs, R(z)!Look(p, r) PROVE OwnersGone(z)'
  <2>1. /\ \A o \in z.processes \ {p} : observer'[o] = observer[o]
        /\ observer'[p].run = r /\ run[r].state # "absent" /\ ~R(z)!ActiveClaim(p, r[1])
        /\ UNCHANGED run
    BY <1>0, <1>4 DEF R!Look, R!journal, ScriptTypes
  <2>2. \A q \in z.processes : SawPrepared(q)' =>
          \/ SawPrepared(q) /\ observer'[q] = observer[q]
          \/ /\ observer'[q].run \in R(z)!Runs /\ run[observer'[q].run].state # "absent"
             /\ ~R(z)!ActiveClaim(q, observer'[q].run[1])
    BY <2>1 DEF SawPrepared
  <2> QED
    BY <1>2, <2>1, <2>2, GoneStep
<1>5. CASE R(z)!Judge(p)
  <2> DEFINE o == observer[p]
  <2>1. /\ \A q \in z.processes \ {p} : observer'[q] = observer[q]
        /\ observer'[p].at # "judge"
    <3>1. \/ observer' = [observer EXCEPT ![p] = R(z)!Idle]
          \/ observer' = [observer EXCEPT ![p] = [at |-> "ask", run |-> o.run, version |-> o.version]]
      BY <1>5 DEF R!Judge
    <3> HIDE DEF o
    <3> QED
      BY <1>0, <3>1, ScriptShapes DEF ScriptTypes
  <2>2. CASE o.prepared /\ R(z)!RunnerGone(p, o.run[1]) /\ R(z)!Update(o.run, o.version, "died", FALSE)
    <3>1. SawPrepared(p) /\ o # R(z)!Idle /\ ObserverFits(z, p) /\ run \in [R(z)!Runs -> RunRecord(z)]
      BY <1>0, <1>5, <2>2, ScriptShapes DEF R!Judge, SawPrepared, JournalInv, ScriptTypes
    <3>2. \A q \in z.processes : ~R(z)!ActiveClaim(q, o.run[1])
      BY <2>2, <3>1, GoneIsIdle
    <3>3. \A r \in R(z)!Runs : r # o.run => run'[r] = run[r]
      BY <2>2, <3>1 DEF R!Update, R!Write
    <3>4. \A r \in R(z)!Runs : run'[r].state = "died" =>
            \/ run[r].state = "died"
            \/ run[r].state # "absent" /\ \A q \in z.processes : ~R(z)!ActiveClaim(q, r[1])
      BY <3>1, <3>2, <3>3 DEF ObserverFits, SawPrepared
    <3> QED
      BY <1>3, <2>1, <3>4
  <2>3. CASE UNCHANGED run \/ R(z)!Update(o.run, o.version, "unknown", FALSE)
    <3>1. \A r \in R(z)!Runs : run'[r].state = "died" => run[r].state = "died"
      BY <2>3, NoOtherDies
    <3> QED
      BY <1>3, <2>1, <3>1
  <2> QED
    BY <1>5, <2>2, <2>3 DEF R!Judge
<1>6. CASE R(z)!Ask(p)
  <2>1. /\ \A q \in z.processes \ {p} : observer'[q] = observer[q]
        /\ observer'[p].at # "judge" /\ UNCHANGED run
    BY <1>0, <1>6 DEF R!Ask, R!journal, ScriptTypes
  <2> QED
    BY <1>3, <2>1
<1>7. CASE R(z)!Conclude(p)
  <2>1. /\ \A q \in z.processes \ {p} : observer'[q] = observer[q]
        /\ observer'[p].at # "judge"
    BY <1>0, <1>7, ScriptShapes DEF R!Conclude, ScriptTypes
  <2>2. R(z)!Concluded(observer[p].found) # "died"
    BY DEF R!Concluded, R!StateOf
  <2>3. \A r \in R(z)!Runs : run'[r].state = "died" => run[r].state = "died"
    BY <1>7, <2>2, NoOtherDies DEF R!Conclude
  <2> QED
    BY <1>3, <2>1, <2>3
<1> QED
  BY <1>4, <1>5, <1>6, <1>7

\* Every step: a call starts a batch that was not there, a process that dies is not active.
LEMMA GoneStays ==
    ASSUME NEW z, z.items \in Nat \ {0}, JournalInv(z), OwnersGone(z), [R(z)!Next]_(R(z)!vars)
    PROVE  OwnersGone(z)'
<1>0. ScriptTypes(z)
  BY DEF JournalInv
<1>1. ASSUME UNCHANGED <<batch, run, runner, observer, alive>> PROVE OwnersGone(z)'
  BY <1>1 DEF OwnersGone, SawPrepared, R!ActiveClaim, R!Owner
<1>2. ASSUME NEW m \in z.edits, R(z)!Edit(m) PROVE OwnersGone(z)'
  <2>1. UNCHANGED <<batch, run, runner, observer, alive>>
    BY <1>2, EditCommits DEF R!Commit
  <2> QED
    BY <1>1, <2>1
<1>3. ASSUME NEW p \in z.processes, NEW b \in z.batches, NEW n \in DOMAIN script, R(z)!Start(p, b, n)
      PROVE  OwnersGone(z)'
  <2>1. /\ UNCHANGED <<batch, run, observer, alive>> /\ batch[b] = R(z)!Absent
        /\ \A o \in z.processes \ {p} : runner'[o] = runner[o]
        /\ runner'[p].batch = b
    BY <1>0, <1>3 DEF R!Start, R!journal, ScriptTypes
  <2>2. \A q \in z.processes, o \in z.batches :
          R(z)!ActiveClaim(q, o)' => R(z)!ActiveClaim(q, o) \/ batch[o] = R(z)!Absent
    BY <2>1 DEF R!ActiveClaim, R!Owner
  <2>3. \A q \in z.processes : SawPrepared(q)' => SawPrepared(q) /\ observer'[q] = observer[q]
    BY <2>1 DEF SawPrepared
  <2> QED
    BY <2>1, <2>2, <2>3, GoneStep
<1>4. ASSUME NEW p \in z.processes, R(z)!Crash(p) PROVE OwnersGone(z)'
  <2>1. /\ UNCHANGED <<batch, run>>
        /\ runner'[p] = R(z)!Idle /\ observer'[p] = R(z)!Idle
        /\ \A q \in z.processes \ {p} : runner'[q] = runner[q] /\ observer'[q] = observer[q]
                                        /\ alive'[q] = alive[q]
    BY <1>0, <1>4 DEF R!Crash, ScriptTypes
  <2>2. \A q \in z.processes, o \in z.batches : R(z)!ActiveClaim(q, o)' => R(z)!ActiveClaim(q, o)
    BY <2>1, ScriptShapes DEF R!ActiveClaim, R!Owner
  <2>3. \A q \in z.processes : SawPrepared(q)' => SawPrepared(q) /\ observer'[q] = observer[q]
    BY <2>1, ScriptShapes DEF SawPrepared
  <2> QED
    BY <2>1, <2>2, <2>3, GoneStep
<1>5. ASSUME \/ \E r \in R(z)!Runs : R(z)!Execute(r) \/ R(z)!Return(r) \/ R(z)!Expire(r) \/ R(z)!Lose(r)
             \/ R(z)!RhinoEnds
      PROVE  OwnersGone(z)'
  <2>1. UNCHANGED <<batch, run, runner, observer, alive>>
    BY <1>5 DEF R!Execute, R!Return, R!Expire, R!Lose, R!RhinoEnds, R!journal
  <2> QED
    BY <1>1, <2>1
<1>6. CASE UNCHANGED R(z)!vars
  BY <1>1, <1>6 DEF R!vars, R!journal
<1>7. CASE R(z)!Next
  BY <1>2, <1>3, <1>4, <1>5, <1>7, RunnerLeavesGone, ObserverLeavesGone DEF R!Next
<1> QED
  BY <1>6, <1>7

\* The journal tells what happened.
LEMMA JournalTells == ASSUME NEW z, JournalInv(z), OwnersGone(z) PROVE R(z)!RunTellsEffect
<1> SUFFICES ASSUME NEW r \in R(z)!Runs
             PROVE  /\ run[r].state = "completed" => scriptNative[r] = "ok"
                    /\ run[r].state \in {"notStarted", "notRun"} => scriptNative[r] \in {"none", "refused"}
                    /\ run[r].state = "died" => \A p \in z.processes : ~R(z)!ActiveClaim(p, r[1])
                    /\ settled[r] # "none" => run[r].state = settled[r]
                    /\ sends[r] <= 1
                    /\ r[2] > 1 /\ scriptNative[r] # "none" => scriptNative[<<r[1], r[2] - 1>>] = "ok"
  BY DEF R!RunTellsEffect
<1> QED
  BY DEF JournalInv, OwnersGone, EffectFits, SendFits

-----------------------------------------------------------------------------
(***************************************************************************)
(* The quota.  An admitted run is charged at once with all that may be     *)
(* recorded of it, and with less only when it is over: then every later    *)
(* record finds the room that was kept for it.  The temporary files an     *)
(* admission or an edit counts stay beside that charge.                    *)
(***************************************************************************)

\* Cardinalities are those of finite sets, whichever instance speaks of them.
LEMMA SameSize == ASSUME NEW z, NEW V PROVE R(z)!Cardinality(V) = Cardinality(V)
BY DEF R!Cardinality, Cardinality

\* Products with the reserve.
LEMMA Times ==
    ASSUME NEW k \in Nat, NEW a \in Nat, NEW b \in Nat
    PROVE  k * a \in Nat /\ (a <= b => k * a <= k * b) /\ k * (a + b) = k * a + k * b
<1>1. k * a \in Nat /\ k * (a + b) = k * a + k * b
  OBVIOUS
<1>2. ASSUME a <= b PROVE k * a <= k * b
  <2>1. PICK d \in Nat : b = a + d
    <3>1. b - a \in Nat /\ b = a + (b - a)
      BY <1>2
    <3> QED
      BY <3>1
  <2>2. k * b = k * a + k * d /\ k * d \in Nat
    BY <2>1
  <2> QED
    BY <1>1, <2>2
<1> QED
  BY <1>1, <1>2

\* The edits that were made, and the runs a result is or may still be recorded of.
EditsMade(z) == {m \in z.edits : edits[m] # 0}
Owing(z) ==
    {r \in R(z)!Runs : run[r].state \notin R(z)!Terminal \cup {"absent"} \/ run[r].extra}
\* What was used and what is kept.
Charged(z) ==
    Len(script) + Cardinality(EditsMade(z)) + 2 * Cardinality(R(z)!Made)
    + z.reserve * Cardinality(Owing(z))
\* A result is in a file, a file is that of a run, and a run that is over has one.
RunFileFits(z, r) ==
    /\ run[r].extra => run[r].stored
    /\ run[r].stored => run[r].state # "absent"
    /\ run[r].state \in R(z)!Terminal => run[r].stored
QuotaInv(z) ==
    /\ edits \in [z.edits -> Nat]
    /\ \A r \in R(z)!Runs : RunFileFits(z, r)
    /\ IsFiniteSet(EditsMade(z)) /\ IsFiniteSet(R(z)!Made)
    /\ left \in Nat /\ counted \in Nat /\ counted <= left
    /\ Charged(z) + counted <= z.quota
\* Temporary files only become more, and are counted by who asks for room.
LeftGrows == left' \in Nat /\ left <= left' /\ counted' = counted

\* The numbers that make up the charge.
LEMMA ChargeNumbers ==
    ASSUME NEW z, z.reserve \in Nat, JournalInv(z), QuotaInv(z)
    PROVE  /\ Owing(z) \subseteq R(z)!Made /\ IsFiniteSet(Owing(z))
           /\ Len(script) \in Nat /\ Cardinality(EditsMade(z)) \in Nat
           /\ Cardinality(R(z)!Made) \in Nat /\ Cardinality(Owing(z)) \in Nat
           /\ z.reserve * Cardinality(Owing(z)) \in Nat
<1>1. Owing(z) \subseteq R(z)!Made
  BY DEF Owing, R!Made, QuotaInv, RunFileFits
<1>2. IsFiniteSet(Owing(z))
  BY <1>1, FS_Subset DEF QuotaInv
<1>3. Len(script) \in Nat
  <2>1. script \in Seq([text : z.texts, deleted : BOOLEAN])
    BY DEF JournalInv, ScriptTypes
  <2> QED
    BY <2>1
<1>4. /\ Cardinality(EditsMade(z)) \in Nat /\ Cardinality(R(z)!Made) \in Nat
      /\ Cardinality(Owing(z)) \in Nat
  BY <1>2, FS_CardinalityType DEF QuotaInv
<1> QED
  BY <1>1, <1>2, <1>3, <1>4, Times

\* The records are no larger than what is charged, and what is charged fits beside the
\* temporary files where assertCapacity finds room.
LEMMA ChargeCovers ==
    ASSUME NEW z, z.reserve \in Nat, z.quota \in Nat, JournalInv(z), QuotaInv(z)
    PROVE  /\ R(z)!RecordSize \in Nat /\ R(z)!RecordSize <= Charged(z)
           /\ \A size \in Nat : R(z)!Fits(size) => Charged(z) + left + size <= z.quota
<1> DEFINE M == R(z)!Made
           F == R(z)!Stored
           W == R(z)!WithResult
           U == R(z)!Unfinished
           O == Owing(z)
           c == Cardinality(EditsMade(z))
<1>1. /\ F \subseteq M /\ W \subseteq O /\ U \subseteq M
      /\ M \subseteq F \cup (U \ F) /\ O \subseteq U \cup W
  <2>1. \A r \in R(z)!Runs : RunFileFits(z, r)
    BY DEF QuotaInv
  <2> QED
    BY <2>1
    DEF RunFileFits, R!Made, R!Stored, R!WithResult, R!Unfinished, Owing
<1>2. IsFiniteSet(M) /\ IsFiniteSet(O) /\ IsFiniteSet(F) /\ IsFiniteSet(U) /\ IsFiniteSet(W)
      /\ IsFiniteSet(U \ F)
  <2>1. IsFiniteSet(M) /\ IsFiniteSet(O)
    BY ChargeNumbers DEF QuotaInv
  <2>2. (U \ F) \subseteq M
    BY <1>1
  <2> HIDE DEF M, F, W, U, O
  <2> QED
    BY <1>1, <2>1, <2>2, FS_Subset
<1>3. /\ Cardinality(M) \in Nat /\ Cardinality(O) \in Nat /\ Cardinality(F) \in Nat
      /\ Cardinality(U) \in Nat /\ Cardinality(W) \in Nat /\ Cardinality(U \ F) \in Nat
  BY <1>2, FS_CardinalityType
<1>4. Cardinality(F) <= Cardinality(M) /\ Cardinality(W) <= Cardinality(O)
  <2> HIDE DEF M, F, W, U, O
  <2> QED
    BY <1>1, <1>2, FS_Subset
<1>5. Cardinality(M) <= Cardinality(F) + Cardinality(U \ F)
  <2> HIDE DEF M, F, W, U, O
  <2>1. IsFiniteSet(F \cup (U \ F)) /\ Cardinality(M) <= Cardinality(F \cup (U \ F))
    BY <1>1, <1>2, FS_Union, FS_Subset
  <2>2. Cardinality(F \cap (U \ F)) \in Nat
    BY <1>2, FS_Intersection, FS_CardinalityType
  <2>3. Cardinality(F \cup (U \ F))
          = Cardinality(F) + Cardinality(U \ F) - Cardinality(F \cap (U \ F))
    BY <1>2, FS_Union
  <2>4. Cardinality(F \cup (U \ F)) <= Cardinality(F) + Cardinality(U \ F)
    BY <1>3, <2>2, <2>3
  <2>5. Cardinality(F \cup (U \ F)) \in Nat
    BY <2>1, FS_CardinalityType
  <2> QED
    BY <1>3, <2>1, <2>4, <2>5
<1>6. Cardinality(O) <= Cardinality(U) + Cardinality(W)
  <2> HIDE DEF M, F, W, U, O
  <2>1. IsFiniteSet(U \cup W) /\ Cardinality(O) <= Cardinality(U \cup W)
    BY <1>1, <1>2, FS_Union, FS_Subset
  <2>2. Cardinality(U \cap W) \in Nat
    BY <1>2, FS_Intersection, FS_CardinalityType
  <2>3. Cardinality(U \cup W) = Cardinality(U) + Cardinality(W) - Cardinality(U \cap W)
    BY <1>2, FS_Union
  <2>4. Cardinality(U \cup W) \in Nat
    BY <2>1, FS_CardinalityType
  <2> QED
    BY <1>3, <2>1, <2>2, <2>3, <2>4
<1>7. /\ R(z)!RecordSize = Len(script) + c + Cardinality(M) + Cardinality(F) + z.reserve * Cardinality(W)
      /\ R(z)!Pending = z.reserve * Cardinality(U) + Cardinality(U \ F)
  BY SameSize DEF R!RecordSize, R!ScriptRecord, R!Pending, EditsMade
<1>8. Charged(z) = Len(script) + c + 2 * Cardinality(M) + z.reserve * Cardinality(O)
  BY DEF Charged
<1>9. Len(script) \in Nat /\ c \in Nat
  BY ChargeNumbers
<1>10. /\ z.reserve * Cardinality(W) <= z.reserve * Cardinality(O)
       /\ z.reserve * Cardinality(O) <= z.reserve * Cardinality(U) + z.reserve * Cardinality(W)
       /\ z.reserve * Cardinality(W) \in Nat /\ z.reserve * Cardinality(O) \in Nat
       /\ z.reserve * Cardinality(U) \in Nat
  <2> HIDE DEF M, F, W, U, O
  <2>1. Cardinality(U) + Cardinality(W) \in Nat
    BY <1>3
  <2>2. z.reserve * Cardinality(O) <= z.reserve * (Cardinality(U) + Cardinality(W))
    BY <1>3, <1>6, <2>1, Times
  <2> QED
    BY <1>3, <1>4, <2>2, Times
<1> DEFINE rw == z.reserve * Cardinality(W)
           ro == z.reserve * Cardinality(O)
           ru == z.reserve * Cardinality(U)
<1>11. ASSUME NEW size \in Nat, R(z)!Fits(size) PROVE Charged(z) + left + size <= z.quota
  <2>1. R(z)!RecordSize + left + size + R(z)!Pending <= z.quota
    BY <1>11 DEF R!Fits, R!Usage
  <2> HIDE DEF M, F, W, U, O, c, rw, ro, ru
  <2>2. Len(script) + c + Cardinality(M) + Cardinality(F) + rw + left + size
          + (ru + Cardinality(U \ F)) <= z.quota
    BY <1>7, <2>1 DEF rw, ru
  <2>3. Charged(z) = Len(script) + c + 2 * Cardinality(M) + ro
    BY <1>8 DEF ro
  <2>4. rw \in Nat /\ ro \in Nat /\ ru \in Nat /\ ro <= ru + rw
    BY <1>10 DEF rw, ro, ru
  <2>5. size \in Nat /\ z.quota \in Nat /\ left \in Nat
    BY DEF QuotaInv
  <2>6. /\ Cardinality(M) \in Nat /\ Cardinality(F) \in Nat /\ Cardinality(U \ F) \in Nat
        /\ Cardinality(M) <= Cardinality(F) + Cardinality(U \ F)
    BY <1>3, <1>5
  <2>7. PICK l \in Nat, m \in Nat, f \in Nat, d \in Nat :
          l = Len(script) + c /\ m = Cardinality(M) /\ f = Cardinality(F) /\ d = Cardinality(U \ F)
    BY <1>9, <2>6
  <2>8. PICK w \in Nat, o \in Nat, u \in Nat, q \in Nat : w = rw /\ o = ro /\ u = ru /\ q = z.quota
    BY <2>4, <2>5
  <2>20. PICK v \in Nat : v = left
    BY <2>5
  <2>9. m <= f + d /\ o <= u + w
    BY <2>4, <2>6, <2>7, <2>8
  <2>10. l + m + f + w + v + size + (u + d) <= q
    BY <2>2, <2>7, <2>8, <2>20
  <2>11. l + 2 * m + o + v + size <= q
    BY ONLY size \in Nat, <2>9, <2>10
  <2>12. Charged(z) = l + 2 * m + o
    BY <2>3, <2>7, <2>8
  <2> QED
    BY <2>8, <2>11, <2>12, <2>20
<1>12. R(z)!RecordSize \in Nat /\ R(z)!RecordSize <= Charged(z)
  <2> HIDE DEF M, F, W, U, O, c, rw, ro, ru
  <2>1. R(z)!RecordSize = Len(script) + c + Cardinality(M) + Cardinality(F) + rw
    BY <1>7 DEF rw
  <2>2. Charged(z) = Len(script) + c + 2 * Cardinality(M) + ro
    BY <1>8 DEF ro
  <2>3. rw \in Nat /\ ro \in Nat /\ rw <= ro
    BY <1>10 DEF rw, ro
  <2>4. PICK l \in Nat, m \in Nat, f \in Nat, w \in Nat, o \in Nat :
          /\ l = Len(script) + c /\ m = Cardinality(M) /\ f = Cardinality(F)
          /\ w = rw /\ o = ro
    BY <1>3, <1>9, <2>3
  <2>5. w <= o /\ f <= m
    BY <1>4, <2>3, <2>4
  <2>6. R(z)!RecordSize = l + m + f + w
    BY <2>1, <2>4
  <2>7. Charged(z) = l + 2 * m + o
    BY <2>2, <2>4
  <2>8. l + m + f + w \in Nat /\ l + m + f + w <= l + 2 * m + o
    BY ONLY <2>5
  <2> QED
    BY <2>6, <2>7, <2>8
<1> QED
  BY <1>11, <1>12

\* Nothing is charged that was not charged before.
LEMMA ChargeShrinks ==
    ASSUME NEW z, z.reserve \in Nat, z.quota \in Nat, JournalInv(z), QuotaInv(z),
           Len(script') = Len(script), UNCHANGED edits, LeftGrows,
           \A r \in R(z)!Runs : RunFileFits(z, r)',
           (R(z)!Made)' \subseteq R(z)!Made, Owing(z)' \subseteq Owing(z)
    PROVE  QuotaInv(z)'
<1> DEFINE N == (R(z)!Made)'
           P == Owing(z)'
           c == Cardinality(EditsMade(z))
<1>1. EditsMade(z)' = EditsMade(z) /\ edits' \in [z.edits -> Nat]
  BY DEF EditsMade, QuotaInv
<1>2. /\ IsFiniteSet(R(z)!Made) /\ IsFiniteSet(Owing(z)) /\ IsFiniteSet(EditsMade(z))
  BY ChargeNumbers DEF QuotaInv
<1>3. /\ IsFiniteSet(N) /\ Cardinality(N) <= Cardinality(R(z)!Made) /\ Cardinality(N) \in Nat
      /\ IsFiniteSet(P) /\ Cardinality(P) <= Cardinality(Owing(z)) /\ Cardinality(P) \in Nat
  <2>1. N \in SUBSET R(z)!Made /\ P \in SUBSET Owing(z)
    OBVIOUS
  <2> HIDE DEF N, P
  <2> QED
    BY <1>2, <2>1, FS_Subset, FS_CardinalityType
<1>4. Cardinality(R(z)!Made) \in Nat /\ Cardinality(Owing(z)) \in Nat /\ c \in Nat /\ Len(script) \in Nat
  BY ChargeNumbers
<1>5. z.reserve * Cardinality(P) <= z.reserve * Cardinality(Owing(z))
      /\ z.reserve * Cardinality(P) \in Nat /\ z.reserve * Cardinality(Owing(z)) \in Nat
  <2> HIDE DEF P
  <2> QED
    BY <1>3, <1>4, Times
<1>6. Charged(z) = Len(script) + c + 2 * Cardinality(R(z)!Made) + z.reserve * Cardinality(Owing(z))
      /\ Charged(z) + counted <= z.quota /\ counted \in Nat
  BY DEF Charged, QuotaInv
<1>7. Charged(z)' = Len(script) + c + 2 * Cardinality(N) + z.reserve * Cardinality(P)
  BY <1>1 DEF Charged
<1> DEFINE ro == z.reserve * Cardinality(Owing(z))
           rp == z.reserve * Cardinality(P)
<1>8. Charged(z)' + counted <= z.quota
  <2>1. /\ Charged(z) = Len(script) + c + 2 * Cardinality(R(z)!Made) + ro
        /\ Charged(z)' = Len(script) + c + 2 * Cardinality(N) + rp
    BY <1>6, <1>7
  <2>2. ro \in Nat /\ rp \in Nat /\ rp <= ro
    BY <1>5
  <2> HIDE DEF N, P, c, ro, rp
  <2>3. PICK l \in Nat, m \in Nat, n \in Nat, o \in Nat, q \in Nat :
          /\ l = Len(script) + c /\ m = Cardinality(R(z)!Made) /\ n = Cardinality(N)
          /\ o = ro /\ q = rp
    BY <1>3, <1>4, <2>2
  <2>4. n <= m /\ q <= o
    BY <1>3, <2>2, <2>3
  <2>5. Charged(z) = l + 2 * m + o /\ Charged(z)' = l + 2 * n + q
    BY <2>1, <2>3
  <2>6. \A k, b \in Nat : (l + 2 * m + o) + k <= b => (l + 2 * n + q) + k <= b
    BY ONLY <2>4
  <2>7. z.quota \in Nat /\ counted \in Nat /\ Charged(z) + counted <= z.quota
    BY <1>6
  <2> QED
    BY <2>5, <2>6, <2>7
<1>9. left' \in Nat /\ counted' \in Nat /\ counted' <= left' /\ counted' = counted
  BY DEF QuotaInv, LeftGrows
<1> QED
  BY <1>1, <1>2, <1>3, <1>8, <1>9 DEF QuotaInv

\* A record of a run that was not over is within its charge.
LEMMA RecordIsCharged ==
    ASSUME NEW z, z.reserve \in Nat, z.quota \in Nat, JournalInv(z), QuotaInv(z),
           UNCHANGED <<script, edits>>, LeftGrows, NEW c \in R(z)!Runs, run[c].state # "absent",
           NEW state \in States(z) \ {"absent", "prepared"}, NEW extra \in BOOLEAN,
           \/ UNCHANGED run
           \/ R(z)!Write(c, state, extra) /\ run[c].state \notin R(z)!Terminal
    PROVE  QuotaInv(z)'
<1>1. CASE UNCHANGED run
  <2>1. (R(z)!Made)' = R(z)!Made /\ Owing(z)' = Owing(z)
    BY <1>1 DEF R!Made, Owing
  <2>2. \A r \in R(z)!Runs : RunFileFits(z, r)'
    BY <1>1 DEF QuotaInv, RunFileFits
  <2> QED
    BY <2>1, <2>2, ChargeShrinks
<1>2. CASE R(z)!Write(c, state, extra) /\ run[c].state \notin R(z)!Terminal
  <2> DEFINE x == [state |-> state, version |-> run[c].version + 1, stored |-> TRUE,
                   extra |-> run[c].extra \/ extra]
  <2>1. run \in [R(z)!Runs -> RunRecord(z)]
    BY DEF JournalInv, ScriptTypes
  <2>2. run' = [run EXCEPT ![c] = x]
    BY <1>2, <2>1 DEF R!Write
  <2>3. x.state = state /\ x.stored
    OBVIOUS
  <2> HIDE DEF x
  <2>4. run'[c] = x /\ \A r \in R(z)!Runs \ {c} : run'[r] = run[r]
    BY <2>1, <2>2
  <2>5. ASSUME NEW r \in R(z)!Runs PROVE RunFileFits(z, r)'
    BY <2>3, <2>4 DEF QuotaInv, RunFileFits, R!Terminal
  <2>6. (R(z)!Made)' \subseteq R(z)!Made
    BY <2>4 DEF R!Made
  <2>7. Owing(z)' \subseteq Owing(z)
    BY <1>2, <2>4 DEF Owing
  <2> QED
    BY <2>5, <2>6, <2>7, ChargeShrinks
<1> QED
  BY <1>1, <1>2

\* An edit is made where it fits.
LEMMA EditIsCharged ==
    ASSUME NEW z, z.reserve \in Nat, z.quota \in Nat, JournalInv(z), QuotaInv(z),
           NEW m \in z.edits, NEW next, NEW changed \in BOOLEAN,
           next \in [text : z.texts, deleted : BOOLEAN], R(z)!Commit(m, next, changed)
    PROVE  QuotaInv(z)'
<1> DEFINE size == IF changed THEN 2 ELSE 1
           c == Cardinality(EditsMade(z))
           rest == 2 * Cardinality(R(z)!Made) + z.reserve * Cardinality(Owing(z))
<1>1. Charged(z) + left + size <= z.quota /\ left \in Nat
  <2>1. size \in Nat /\ R(z)!Fits(size)
    BY DEF R!Commit
  <2> HIDE DEF size
  <2> QED
    BY <2>1, ChargeCovers DEF QuotaInv
<1>2. Len(script) \in Nat /\ Len(script') = Len(script) + size - 1
  <2>1. script \in Seq([text : z.texts, deleted : BOOLEAN])
    BY DEF JournalInv, ScriptTypes
  <2> DEFINE K == [text : z.texts, deleted : BOOLEAN]
  <2>2. script \in Seq(K) /\ next \in K
    BY <2>1
  <2>3. CASE changed
    <3>1. script' = Append(script, next)
      BY <2>3 DEF R!Commit
    <3> HIDE DEF K
    <3> QED
      BY <2>2, <2>3, <3>1
  <2>4. CASE ~changed
    <3>1. script' = script
      BY <2>4 DEF R!Commit
    <3> HIDE DEF K
    <3> QED
      BY <2>2, <2>4, <3>1
  <2> QED
    BY <2>3, <2>4
<1>3. edits' = [edits EXCEPT ![m] = Len(script')] /\ UNCHANGED run
  BY DEF R!Commit
<1>4. edits' \in [z.edits -> Nat] /\ EditsMade(z)' \subseteq EditsMade(z) \cup {m}
  BY <1>2, <1>3 DEF QuotaInv, EditsMade
<1>5. /\ IsFiniteSet(EditsMade(z)') /\ Cardinality(EditsMade(z)') \in Nat
      /\ Cardinality(EditsMade(z)') <= c + 1 /\ c \in Nat
  <2> DEFINE E == EditsMade(z)
             F == EditsMade(z)'
  <2>1. IsFiniteSet(E) /\ F \in SUBSET (E \cup {m})
    BY <1>4 DEF QuotaInv
  <2> HIDE DEF E, F
  <2>2. /\ IsFiniteSet(E \cup {m}) /\ Cardinality(E) \in Nat
        /\ Cardinality(E \cup {m}) = IF m \in E THEN Cardinality(E) ELSE Cardinality(E) + 1
    BY <2>1, FS_AddElement, FS_CardinalityType
  <2>3. IsFiniteSet(F) /\ Cardinality(F) <= Cardinality(E \cup {m}) /\ Cardinality(F) \in Nat
    BY <2>1, <2>2, FS_Subset, FS_CardinalityType
  <2>4. Cardinality(F) <= Cardinality(E) + 1
    BY <2>2, <2>3
  <2> QED
    BY <2>2, <2>3, <2>4 DEF E, F
<1>6. /\ (R(z)!Made)' = R(z)!Made /\ Owing(z)' = Owing(z)
      /\ \A r \in R(z)!Runs : RunFileFits(z, r)'
  BY <1>3 DEF R!Made, Owing, QuotaInv, RunFileFits
<1>7. Charged(z)' + left <= z.quota
  <2>1. /\ Charged(z) = Len(script) + c + 2 * Cardinality(R(z)!Made) + z.reserve * Cardinality(Owing(z))
        /\ Charged(z)' = Len(script') + Cardinality(EditsMade(z)')
             + 2 * Cardinality(R(z)!Made) + z.reserve * Cardinality(Owing(z))
    BY <1>6 DEF Charged
  <2>2. Cardinality(R(z)!Made) \in Nat /\ z.reserve * Cardinality(Owing(z)) \in Nat
    BY ChargeNumbers
  <2>3. size \in {1, 2} /\ z.quota \in Nat
    OBVIOUS
  <2> DEFINE ro == z.reserve * Cardinality(Owing(z))
             d == Cardinality(EditsMade(z)')
  <2> HIDE DEF size, c, ro, d
  <2>4. /\ Charged(z) = Len(script) + c + 2 * Cardinality(R(z)!Made) + ro
        /\ Charged(z)' = Len(script') + d + 2 * Cardinality(R(z)!Made) + ro
        /\ ro \in Nat /\ d \in Nat /\ d <= c + 1 /\ c \in Nat
    BY <1>5, <2>1, <2>2 DEF ro, d
  <2>5. PICK l \in Nat, e \in Nat, f \in Nat : l = Len(script) /\ e = c /\ f = d
    BY <1>2, <2>4
  <2>6. PICK g \in Nat, o \in Nat : g = Cardinality(R(z)!Made) /\ o = ro
    BY <2>2, <2>4
  <2>7. PICK q \in Nat, i \in {1, 2}, v \in Nat : q = z.quota /\ i = size /\ v = left
    BY <1>1, <2>3
  <2>8. Charged(z) = l + e + 2 * g + o
    BY <2>4, <2>5, <2>6
  <2>9. Charged(z)' = (l + i - 1) + f + 2 * g + o
    BY <1>2, <2>4, <2>5, <2>6, <2>7
  <2>10. l + e + 2 * g + o + v + i <= q /\ f <= e + 1
    BY <1>1, <2>4, <2>5, <2>7, <2>8
  <2>11. (l + i - 1) + f + 2 * g + o + v <= q
    BY ONLY <2>10
  <2> QED
    BY <2>7, <2>9, <2>11
<1>8. left' = left /\ counted' = left
  BY DEF R!Commit
<1> QED
  BY <1>1, <1>4, <1>5, <1>6, <1>7, <1>8 DEF QuotaInv

\* A batch is admitted where what all its runs may need fits.
LEMMA AdmissionIsCharged ==
    ASSUME NEW z, z.reserve \in Nat, z.quota \in Nat, z.items \in Nat \ {0}, JournalInv(z), QuotaInv(z),
           NEW b \in z.batches, R(z)!Fits(z.items * (z.reserve + 2)), UNCHANGED <<script, edits, left>>,
           counted' = left,
           run' = [r \in R(z)!Runs |->
             IF r[1] = b THEN [R(z)!NoRun EXCEPT !.state = "prepared", !.version = 1] ELSE run[r]]
    PROVE  QuotaInv(z)'
<1> DEFINE x == [R(z)!NoRun EXCEPT !.state = "prepared", !.version = 1]
           G == {b} \X R(z)!Items
           M == R(z)!Made
           O == Owing(z)
           N == (R(z)!Made)'
           P == Owing(z)'
           n == z.items
           k == z.reserve
           c == Cardinality(EditsMade(z))
<1>1. x.state = "prepared" /\ x.extra = FALSE /\ x.stored = FALSE
  BY DEF R!NoRun
<1>2. run' = [r \in R(z)!Runs |-> IF r[1] = b THEN x ELSE run[r]]
  OBVIOUS
<1> HIDE DEF x
<1>3. N \subseteq M \cup G /\ P \subseteq O \cup G
  <2>1. ASSUME NEW r \in R(z)!Runs, r[1] = b PROVE r \in G
    BY <2>1 DEF R!Runs
  <2> QED
    BY <1>2, <2>1 DEF R!Made, Owing
<1>4. ASSUME NEW r \in R(z)!Runs PROVE RunFileFits(z, r)'
  BY <1>1, <1>2 DEF QuotaInv, RunFileFits, R!Terminal
<1>5. IsFiniteSet(G) /\ Cardinality(G) = n
  <2>0. 1 \in Int /\ z.items \in Int /\ ~(1 > z.items) /\ z.items - 1 + 1 = z.items
    OBVIOUS
  <2>1. IsFiniteSet(R(z)!Items) /\ Cardinality(R(z)!Items) = n
    BY <2>0, FS_Interval DEF R!Items
  <2>2. IsFiniteSet({b}) /\ Cardinality({b}) = 1
    BY FS_Singleton
  <2>3. IsFiniteSet(G) /\ Cardinality(G) = 1 * n
    BY <2>1, <2>2, FS_Product
  <2> QED
    BY <2>3
<1>6. IsFiniteSet(M) /\ IsFiniteSet(O) /\ Cardinality(M) \in Nat /\ Cardinality(O) \in Nat
      /\ c \in Nat /\ Len(script) \in Nat
  BY ChargeNumbers DEF QuotaInv
<1>7. /\ IsFiniteSet(N) /\ Cardinality(N) \in Nat /\ Cardinality(N) <= Cardinality(M) + n
      /\ IsFiniteSet(P) /\ Cardinality(P) \in Nat /\ Cardinality(P) <= Cardinality(O) + n
  <2> HIDE DEF G, M, O, N, P, n
  <2>1. ASSUME NEW V, NEW V2, IsFiniteSet(V), V2 \subseteq V \cup G
        PROVE IsFiniteSet(V2) /\ Cardinality(V2) \in Nat /\ Cardinality(V2) <= Cardinality(V) + n
    <3>1. /\ IsFiniteSet(V \cup G)
          /\ Cardinality(V \cup G) = Cardinality(V) + Cardinality(G) - Cardinality(V \cap G)
      BY <1>5, <2>1, FS_Union
    <3>2. Cardinality(V \cap G) \in Nat /\ Cardinality(V) \in Nat /\ Cardinality(G) \in Nat
      BY <1>5, <2>1, FS_Intersection, FS_CardinalityType
    <3>3. IsFiniteSet(V2) /\ Cardinality(V2) <= Cardinality(V \cup G) /\ Cardinality(V2) \in Nat
      BY <2>1, <3>1, FS_Subset, FS_CardinalityType
    <3> QED
      BY <1>5, <3>1, <3>2, <3>3
  <2> QED
    BY <1>3, <1>6, <2>1
<1>8. /\ k * Cardinality(P) <= k * Cardinality(O) + k * n
      /\ k * Cardinality(P) \in Nat /\ k * Cardinality(O) \in Nat /\ k * n \in Nat
      /\ n * (k + 2) = k * n + 2 * n
  <2>0. k \in Nat /\ n \in Nat
    OBVIOUS
  <2> HIDE DEF O, P, k, n
  <2>1. k * Cardinality(P) <= k * (Cardinality(O) + n)
    <3>1. Cardinality(O) + n \in Nat
      BY <1>6, <2>0
    <3> QED
      BY <1>7, <2>0, <3>1, Times
  <2>2. /\ k * (Cardinality(O) + n) = k * Cardinality(O) + k * n
        /\ k * Cardinality(P) \in Nat /\ k * Cardinality(O) \in Nat /\ k * n \in Nat
    <3>1. k * (Cardinality(O) + n) = k * Cardinality(O) + k * n
      BY <1>6, <2>0, Times
    <3>2. k * Cardinality(P) \in Nat /\ k * Cardinality(O) \in Nat /\ k * n \in Nat
      BY <1>6, <1>7, <2>0, Times
    <3> QED
      BY <3>1, <3>2
  <2>3. n * (k + 2) = k * n + 2 * n
    BY <2>0
  <2> QED
    BY <2>1, <2>2, <2>3
<1>9. Charged(z) + left + n * (k + 2) <= z.quota /\ left \in Nat
  <2>1. n * (k + 2) \in Nat
    OBVIOUS
  <2> QED
    BY <2>1, ChargeCovers DEF QuotaInv
<1>10. Charged(z)' + left <= z.quota
  <2> DEFINE ro == k * Cardinality(O)
             rp == k * Cardinality(P)
             kn == k * n
  <2>1. /\ Charged(z) = Len(script) + c + 2 * Cardinality(M) + ro
        /\ Charged(z)' = Len(script) + c + 2 * Cardinality(N) + rp
    BY DEF Charged, EditsMade
  <2>2. /\ rp <= ro + kn /\ rp \in Nat /\ ro \in Nat /\ kn \in Nat
        /\ Charged(z) + left + (kn + 2 * n) <= z.quota /\ left \in Nat
    BY <1>8, <1>9
  <2>3. n \in Nat /\ z.quota \in Nat
    OBVIOUS
  <2> HIDE DEF M, O, N, P, n, k, c, ro, rp, kn
  <2>4. Cardinality(N) <= Cardinality(M) + n /\ Cardinality(N) \in Nat
    BY <1>7
  <2>5. PICK l \in Nat, m \in Nat, h \in Nat, i \in Nat :
          l = Len(script) + c /\ m = Cardinality(M) /\ h = Cardinality(N) /\ i = n
    BY <1>6, <2>3, <2>4
  <2>6. PICK w \in Nat, o \in Nat, u \in Nat, q \in Nat : w = kn /\ o = ro /\ u = rp /\ q = z.quota
    BY <2>2, <2>3
  <2>20. PICK v \in Nat : v = left
    BY <2>2
  <2>7. Charged(z) = l + 2 * m + o /\ Charged(z)' = l + 2 * h + u
    BY <2>1, <2>5, <2>6
  <2>8. l + 2 * m + o + v + (w + 2 * i) <= q /\ u <= o + w /\ h <= m + i
    BY <2>2, <2>4, <2>5, <2>6, <2>7, <2>20
  <2>9. l + 2 * h + u + v <= q
    BY ONLY <2>8
  <2> QED
    BY <2>6, <2>7, <2>9, <2>20
<1>11. EditsMade(z)' = EditsMade(z) /\ edits' \in [z.edits -> Nat]
  BY DEF EditsMade, QuotaInv
<1> QED
  BY <1>4, <1>7, <1>9, <1>10, <1>11 DEF QuotaInv

\* An empty workspace, or one with a script, is within its quota.
LEMMA QuotaStarts ==
    ASSUME NEW z, z.reserve \in Nat, z.quota \in Nat \ {0}, R(z)!Init PROVE QuotaInv(z)
<1>1. /\ edits = [m \in z.edits |-> 0] /\ EditsMade(z) = {}
  BY DEF R!Init, EditsMade
<1>2. \A r \in R(z)!Runs : run[r] = R(z)!NoRun
  BY DEF R!Init
<1>3. R(z)!NoRun.state = "absent" /\ R(z)!NoRun.extra = FALSE /\ R(z)!NoRun.stored = FALSE
  BY DEF R!NoRun
<1>4. R(z)!Made = {} /\ Owing(z) = {} /\ \A r \in R(z)!Runs : RunFileFits(z, r)
  BY <1>2, <1>3 DEF R!Made, Owing, RunFileFits, R!Terminal
<1>5. Len(script) \in {0, 1}
  <2>1. PICK t \in z.texts : script \in {<<>>, <<[text |-> t, deleted |-> FALSE]>>}
    BY DEF R!Init
  <2> QED
    BY <2>1
<1>6. IsFiniteSet({}) /\ Cardinality({}) = 0
  BY FS_EmptySet
<1>7. Charged(z) = Len(script) + 0 + 2 * 0 + z.reserve * 0
  BY <1>1, <1>4, <1>6 DEF Charged
<1>8. Charged(z) <= z.quota
  <2>1. z.reserve * 0 = 0
    OBVIOUS
  <2>2. Charged(z) = Len(script)
    BY <1>5, <1>7, <2>1
  <2> QED
    BY <1>5, <2>2
<1>9. left = 0 /\ counted = 0
  BY DEF R!Init
<1>10. Charged(z) + counted <= z.quota
  BY <1>5, <1>7, <1>8, <1>9
<1> QED
  BY <1>1, <1>4, <1>6, <1>9, <1>10 DEF QuotaInv

\* What an interrupted write leaves is at least nothing.
LEMMA TornGrows ==
    ASSUME NEW z, QuotaInv(z), NEW size, R(z)!Torn(size), counted' = counted PROVE LeftGrows
<1>1. PICK n \in 0..size : left' = left + n
  BY DEF R!Torn
<1>2. n \in Nat
  BY <1>1
<1> QED
  BY <1>1, <1>2 DEF LeftGrows, QuotaInv

\* A transaction that fails may leave a part of what it wrote.
LEMMA FailureLeaves ==
    ASSUME NEW z, QuotaInv(z), counted' = counted,
           UNCHANGED left \/ \E size \in Nat : R(z)!WriteFails(size)
    PROVE  LeftGrows
<1>1. ASSUME NEW size \in Nat, R(z)!WriteFails(size) PROVE LeftGrows
  BY <1>1, TornGrows DEF R!WriteFails
<1>2. CASE UNCHANGED left
  BY <1>2 DEF LeftGrows, QuotaInv
<1> QED
  BY <1>1, <1>2

\* The steps of a runner that may record something.
LEMMA RunnerLeaves ==
    ASSUME NEW z, z.reserve \in Nat, QuotaInv(z), NEW p \in z.processes,
           R(z)!Item(p) \/ R(z)!Refuse(p) \/ R(z)!Answer(p)
    PROVE  LeftGrows
<1>0. counted' = counted
  BY DEF R!Item, R!Refuse, R!Answer
<1>1. ASSUME NEW state, NEW extra \in BOOLEAN, R(z)!Records(p, state, extra) PROVE LeftGrows
  <2>1. UNCHANGED left \/ R(z)!WriteFails(1) \/ R(z)!WriteFails(1 + z.reserve)
    BY <1>1 DEF R!Records
  <2>2. 1 \in Nat /\ 1 + z.reserve \in Nat
    OBVIOUS
  <2> QED
    BY <1>0, <2>1, <2>2, FailureLeaves
<1>2. CASE R(z)!Item(p)
  <2>1. UNCHANGED left \/ R(z)!WriteFails(1)
    BY <1>2 DEF R!Item
  <2> QED
    BY <1>0, <2>1, FailureLeaves
<1>3. CASE R(z)!Refuse(p)
  BY <1>1, <1>3 DEF R!Refuse
<1>4. CASE R(z)!Answer(p)
  <2>1. UNCHANGED left \/ \E state, extra : extra \in BOOLEAN /\ R(z)!Records(p, state, extra)
    BY <1>4 DEF R!Answer
  <2> QED
    BY <1>0, <1>1, <2>1, FailureLeaves
<1> QED
  BY <1>2, <1>3, <1>4

\* A process that dies may leave what it was writing.
LEMMA CrashLeaves ==
    ASSUME NEW z, QuotaInv(z), NEW p \in z.processes, R(z)!Crash(p) PROVE LeftGrows
<1>1. \A n \in R(z)!Writing(p) : n \in Nat
  <2>1. \A m, n : n \in 1..m => n \in Nat
    OBVIOUS
  <2> QED
    BY <2>1 DEF R!Writing
<1>2. counted' = counted
  BY DEF R!Crash
<1>3. UNCHANGED left \/ \E n \in R(z)!Writing(p) : left' = left + n
  BY DEF R!Crash
<1> QED
  BY <1>1, <1>2, <1>3 DEF LeftGrows, QuotaInv

\* Every step keeps the charge within the quota.
LEMMA QuotaInvKept ==
    ASSUME NEW z, z.reserve \in Nat, z.quota \in Nat, z.items \in Nat \ {0},
           JournalInv(z), QuotaInv(z), [R(z)!Next]_(R(z)!vars)
    PROVE  QuotaInv(z)'
<1>1. ASSUME UNCHANGED <<script, edits, run>>, LeftGrows PROVE QuotaInv(z)'
  <2>1. (R(z)!Made)' = R(z)!Made /\ Owing(z)' = Owing(z)
    BY <1>1 DEF R!Made, Owing
  <2>2. \A r \in R(z)!Runs : RunFileFits(z, r)'
    BY <1>1 DEF QuotaInv, RunFileFits
  <2> QED
    BY <1>1, <2>1, <2>2, ChargeShrinks
<1>2. ASSUME NEW m \in z.edits, R(z)!Edit(m) PROVE QuotaInv(z)'
  BY <1>2, EditCommits, EditIsCharged
<1>3. {"notRun", "notStarted", "dispatching", "unknown"} \subseteq States(z) \ {"absent", "prepared"}
  BY DEF States, R!Terminal
<1>4. ASSUME NEW p \in z.processes, NEW state \in States(z) \ {"absent", "prepared"},
             NEW extra \in BOOLEAN, runner[p].at \in {"send", "sent"},
             R(z)!Records(p, state, extra) \/ R(z)!Update(R(z)!Current(p), runner[p].version, state, extra),
             UNCHANGED <<script, edits>>, LeftGrows
      PROVE  QuotaInv(z)'
  <2> DEFINE c == R(z)!Current(p)
  <2>1. /\ c \in R(z)!Runs /\ run[c].state # "absent"
        /\ run[c].version = runner[p].version => run[c].state \notin R(z)!Terminal
    BY <1>4, CurrentKnown DEF Working
  <2>2. UNCHANGED run \/ R(z)!Update(c, runner[p].version, state, extra)
    BY <1>4 DEF R!Records
  <2> HIDE DEF c
  <2>3. ASSUME R(z)!Update(c, runner[p].version, state, extra)
        PROVE  UNCHANGED run \/ (R(z)!Write(c, state, extra) /\ run[c].state \notin R(z)!Terminal)
    <3>1. \/ UNCHANGED <<run, settled>>
          \/ R(z)!Write(c, state, extra) /\ run[c].state \notin R(z)!Terminal
      <4>1. run[c].version = runner[p].version => run[c].state \notin R(z)!Terminal
        BY <2>1
      <4> QED
        BY <2>3, <4>1, UpdateWrites
    <3> QED
      BY <3>1
  <2> QED
    BY <1>4, <2>1, <2>2, <2>3, RecordIsCharged
<1>5. ASSUME NEW p \in z.processes, R(z)!Admit(p) PROVE QuotaInv(z)'
  <2> DEFINE b == runner[p].batch
  <2>1. b \in z.batches
    BY <1>5, RunnerKinds DEF JournalInv, R!Admit
  <2>2. UNCHANGED <<script, edits>>
    BY <1>5 DEF R!Admit
  <2>3. CASE /\ UNCHANGED <<run, counted>>
             /\ UNCHANGED left \/ \E size \in Nat : R(z)!WriteFails(size)
    BY <1>1, <2>2, <2>3, FailureLeaves
  <2>4. CASE /\ R(z)!Fits(z.items * (z.reserve + 2)) /\ counted' = left /\ UNCHANGED left
             /\ run' = [r \in R(z)!Runs |->
                  IF r[1] = b THEN [R(z)!NoRun EXCEPT !.state = "prepared", !.version = 1] ELSE run[r]]
    <3> HIDE DEF b
    <3> QED
      BY <2>1, <2>2, <2>4, AdmissionIsCharged
  <2> QED
    BY <1>5, <2>3, <2>4 DEF R!Admit
<1>6. ASSUME NEW p \in z.processes, R(z)!Item(p) PROVE QuotaInv(z)'
  <2> DEFINE c == R(z)!Current(p)
  <2>1. c \in R(z)!Runs /\ run[c].state = "prepared" /\ UNCHANGED <<script, edits>> /\ LeftGrows
    BY <1>6, RunnerKinds, RunnerLeaves DEF R!Item, JournalInv, RunnerFits
  <2>2. run[c].state \notin R(z)!Terminal /\ run[c].state # "absent"
    BY <2>1 DEF R!Terminal
  <2>3. \/ UNCHANGED run
        \/ \E state \in {"notRun", "dispatching"} : R(z)!Write(c, state, FALSE)
    BY <1>6 DEF R!Item, R!Update
  <2> HIDE DEF c
  <2> QED
    BY <1>3, <2>1, <2>2, <2>3, RecordIsCharged
<1>7. ASSUME NEW p \in z.processes, R(z)!Refuse(p) PROVE QuotaInv(z)'
  BY <1>3, <1>4, <1>7, RunnerLeaves DEF R!Refuse
<1>8. ASSUME NEW p \in z.processes, R(z)!Answer(p) PROVE QuotaInv(z)'
  <2>1. runner[p].at = "sent" /\ UNCHANGED <<script, edits>> /\ LeftGrows
    BY <1>8, RunnerLeaves DEF R!Answer
  <2>2. CASE scriptNative[R(z)!Current(p)] \in R(z)!Results
             /\ R(z)!Records(p, R(z)!StateOf(scriptNative[R(z)!Current(p)]), TRUE)
    BY <1>4, <2>1, <2>2, StateOfResult
  <2>3. CASE R(z)!Records(p, "unknown", FALSE)
             \/ R(z)!Update(R(z)!Current(p), runner[p].version, "unknown", FALSE)
    BY <1>3, <1>4, <2>1, <2>3
  <2> QED
    BY <1>8, <2>2, <2>3 DEF R!Answer
<1>9. ASSUME NEW p \in z.processes, R(z)!Conclude(p) PROVE QuotaInv(z)'
  <2> DEFINE c == observer[p].run
             state == R(z)!Concluded(observer[p].found)
             extra == observer[p].found \in R(z)!Results
  <2>1. /\ ObserverFits(z, p) /\ observer[p] \in Concluding(z) /\ c \in R(z)!Runs
        /\ observer[p] # R(z)!Idle /\ observer[p].found \in R(z)!Results \cup {"none"}
    <3>1. ScriptTypes(z) /\ ObserverFits(z, p) /\ observer[p].at = "conclude"
      BY <1>9 DEF JournalInv, R!Conclude
    <3>2. observer[p] \in Concluding(z)
      BY <3>1, ScriptShapes DEF ScriptTypes, Observing
    <3> QED
      BY <3>1, <3>2, ScriptShapes DEF Concluding, Observing
  <2>2. run[c].state # "absent" /\ (observer[p].version = run[c].version => run[c].state \notin R(z)!Terminal)
    BY <2>1, ScriptShapes DEF ObserverFits, SawPrepared
  <2>3. state \in States(z) \ {"absent", "prepared"}
    BY <1>3, <2>1, StateOfResult DEF R!Concluded
  <2>4. R(z)!Update(c, observer[p].version, state, extra) /\ UNCHANGED <<script, edits>>
        /\ LeftGrows /\ extra \in BOOLEAN
    BY <1>9 DEF R!Conclude, LeftGrows, QuotaInv
  <2> HIDE DEF c, state, extra
  <2>5. \/ UNCHANGED <<run, settled>>
        \/ R(z)!Write(c, state, extra) /\ run[c].state \notin R(z)!Terminal
    <3>1. run[c].version = observer[p].version => run[c].state \notin R(z)!Terminal
      BY <2>2
    <3> QED
      BY <2>4, <3>1, UpdateWrites
  <2> QED
    BY <2>1, <2>2, <2>3, <2>4, <2>5, RecordIsCharged
<1>10. ASSUME NEW p \in z.processes, R(z)!Judge(p) PROVE QuotaInv(z)'
  <2> DEFINE o == observer[p]
  <2>1. /\ ObserverFits(z, p) /\ o.run \in R(z)!Runs /\ o # R(z)!Idle
    <3>1. ScriptTypes(z) /\ ObserverFits(z, p) /\ o.at = "judge"
      BY <1>10 DEF JournalInv, R!Judge
    <3>2. o \in Observing(z)
      BY <3>1, ScriptShapes DEF ScriptTypes
    <3> QED
      BY <3>1, <3>2, ScriptShapes
  <2>2. run[o.run].state # "absent"
        /\ (o.version = run[o.run].version => run[o.run].state \notin R(z)!Terminal)
    <3>1. run[o.run].state # "absent"
          /\ (o.version = run[o.run].version => run[o.run].state \in {"prepared", "dispatching", "unknown"})
      BY <2>1 DEF ObserverFits
    <3> QED
      BY <3>1, ScriptShapes
  <2>3. UNCHANGED <<script, edits>> /\ LeftGrows
    BY <1>10 DEF R!Judge, LeftGrows, QuotaInv
  <2>4. PICK state \in {"died", "unknown"} : UNCHANGED run \/ R(z)!Update(o.run, o.version, state, FALSE)
    BY <1>10 DEF R!Judge
  <2>5. state \in States(z) \ {"absent", "prepared"} /\ FALSE \in BOOLEAN
    BY <2>4 DEF States, R!Terminal
  <2> HIDE DEF o
  <2>6. UNCHANGED run \/ (R(z)!Write(o.run, state, FALSE) /\ run[o.run].state \notin R(z)!Terminal)
    <3>1. ASSUME R(z)!Update(o.run, o.version, state, FALSE)
          PROVE  \/ UNCHANGED <<run, settled>>
                 \/ R(z)!Write(o.run, state, FALSE) /\ run[o.run].state \notin R(z)!Terminal
      BY <2>2, <3>1, UpdateWrites
    <3> QED
      BY <2>4, <3>1
  <2> QED
    BY <2>1, <2>2, <2>3, <2>5, <2>6, RecordIsCharged
<1>11. ASSUME NEW p \in z.processes,
              R(z)!Send(p) \/ R(z)!Abort(p) \/ R(z)!Ask(p)
              \/ (\E r \in R(z)!Runs : R(z)!Look(p, r))
              \/ \E b \in z.batches, n \in DOMAIN script : R(z)!Start(p, b, n)
       PROVE  QuotaInv(z)'
  <2>1. UNCHANGED <<script, edits, run, left, counted>>
    BY <1>11 DEF R!Send, R!Abort, R!Ask, R!Look, R!Start, R!journal
  <2>2. LeftGrows
    BY <2>1 DEF LeftGrows, QuotaInv
  <2> QED
    BY <1>1, <2>1, <2>2
<1>12. ASSUME \/ \E r \in R(z)!Runs : R(z)!Execute(r) \/ R(z)!Return(r) \/ R(z)!Expire(r) \/ R(z)!Lose(r)
              \/ R(z)!RhinoEnds \/ UNCHANGED R(z)!vars
       PROVE  QuotaInv(z)'
  <2>1. UNCHANGED <<script, edits, run, left, counted>>
    BY <1>12 DEF R!Execute, R!Return, R!Expire, R!Lose, R!RhinoEnds, R!vars, R!journal
  <2>2. LeftGrows
    BY <2>1 DEF LeftGrows, QuotaInv
  <2> QED
    BY <1>1, <2>1, <2>2
<1>13. ASSUME NEW p \in z.processes, R(z)!Crash(p) PROVE QuotaInv(z)'
  <2>1. UNCHANGED <<script, edits, run>> /\ LeftGrows
    BY <1>13, CrashLeaves DEF R!Crash
  <2> QED
    BY <1>1, <2>1
<1> HIDE DEF QuotaInv
<1> QED
  BY <1>2, <1>5, <1>6, <1>7, <1>8, <1>9, <1>10, <1>11, <1>12, <1>13 DEF R!Next

\* A workspace: its journal and its quota.
WorkspaceInv(z) == JournalInv(z) /\ OwnersGone(z) /\ QuotaInv(z)

\* In a behaviour of the run the workspace is that of its part.
WorkspacesHold ==
    /\ part = "quota" => WorkspaceInv(Filling)
    /\ part # "quota" => WorkspaceInv(Sharing)

\* The assumptions on the workspaces.
LEMMA WorkspaceFacts ==
    /\ Filling.items \in Nat \ {0} /\ Filling.reserve \in Nat /\ Filling.quota \in Nat \ {0}
    /\ Sharing.items \in Nat \ {0} /\ Sharing.reserve \in Nat /\ Sharing.quota \in Nat \ {0}
<1>1. R(Filling)!ScriptsAssumption /\ R(Sharing)!ScriptsAssumption
  BY NativeAssumption DEF NativeAssumption
<1> QED
  BY <1>1 DEF R!ScriptsAssumption

\* The invariant of one workspace: it starts, and a step or a rest keeps it.
LEMMA WorkspaceKeeps ==
    ASSUME NEW z, z.items \in Nat \ {0}, z.reserve \in Nat, z.quota \in Nat \ {0}
    PROVE  /\ R(z)!Init => WorkspaceInv(z)
           /\ WorkspaceInv(z) /\ (R(z)!Next \/ UNCHANGED runVars) => WorkspaceInv(z)'
<1>1. R(z)!Init => WorkspaceInv(z)
  <2>1. R(z)!Init => OwnersGone(z)
    BY ScriptShapes DEF R!Init, OwnersGone, SawPrepared, R!NoRun
  <2> QED
    BY <2>1, JournalStarts, QuotaStarts DEF WorkspaceInv
<1>2. UNCHANGED runVars => UNCHANGED R(z)!vars
  BY DEF runVars, R!vars, R!journal, R!rhino
<1>3. ASSUME WorkspaceInv(z), [R(z)!Next]_(R(z)!vars) PROVE WorkspaceInv(z)'
  BY <1>3, JournalKeeps, GoneStays, QuotaInvKept DEF WorkspaceInv
<1> QED
  BY <1>1, <1>2, <1>3

\* Journal and quota are as the invariant says in every behaviour of the run.
LEMMA WorkspaceInvariant == Spec => []WorkspacesHold
<1>1. Init => WorkspacesHold
  <2> SUFFICES ASSUME Init PROVE WorkspacesHold
    OBVIOUS
  <2>1. CASE part = "quota"
    BY <2>1, WorkspaceKeeps, WorkspaceFacts DEF Init, WorkspacesHold
  <2>2. CASE part # "quota"
    BY <2>2, WorkspaceKeeps, WorkspaceFacts DEF Init, WorkspacesHold
  <2> QED
    BY <2>1, <2>2
<1>2. WorkspacesHold /\ [Next]_vars => WorkspacesHold'
  <2> SUFFICES ASSUME WorkspacesHold, [Next]_vars PROVE WorkspacesHold'
    OBVIOUS
  <2>0. part' = part
    BY DEF Next, DocumentStep, vars
  <2>1. CASE UNCHANGED runVars
    <3>1. part = "quota" => WorkspaceInv(Filling)'
      BY <2>1, WorkspaceKeeps, WorkspaceFacts DEF WorkspacesHold
    <3>2. part # "quota" => WorkspaceInv(Sharing)'
      BY <2>1, WorkspaceKeeps, WorkspaceFacts DEF WorkspacesHold
    <3> QED
      BY <2>0, <3>1, <3>2 DEF WorkspacesHold
  <2>2. CASE part = "runs" /\ R(Sharing)!Next
    <3>1. WorkspaceInv(Sharing)'
      BY <2>2, WorkspaceKeeps, WorkspaceFacts DEF WorkspacesHold
    <3> QED
      BY <2>0, <2>2, <3>1 DEF WorkspacesHold
  <2>3. CASE part = "quota" /\ R(Filling)!Next
    <3>1. WorkspaceInv(Filling)'
      BY <2>3, WorkspaceKeeps, WorkspaceFacts DEF WorkspacesHold
    <3> QED
      BY <2>0, <2>3, <3>1 DEF WorkspacesHold
  <2> QED
    BY <2>1, <2>2, <2>3 DEF Next, DocumentStep, vars, scriptVars
<1> QED
  BY <1>1, <1>2, PTL DEF Spec

-----------------------------------------------------------------------------
(***************************************************************************)
(* The parts in one run                                                    *)
(***************************************************************************)

\* In a behaviour of the run each part behaves as it does alone.
LEMMA PartsBehave == Spec => D!Spec /\ T!Spec /\ L!Spec /\ S!Spec
<1>1. Init => D!Init /\ T!Init /\ L!Init /\ S!Init
  BY DEF Init
<1>2. [Next]_vars => [D!Next]_(D!vars)
  BY DEF Next, DocumentStep, vars, docVars, D!vars
<1>3. [Next]_vars => [T!Next]_(T!vars)
  BY DEF Next, DocumentStep, vars, transferVars, T!vars
<1>4. [Next]_vars => [L!Next]_(L!vars)
  BY DEF Next, DocumentStep, vars, launchVars, L!vars
<1>5. [Next]_vars => [S!Next]_(S!vars)
  BY DEF Next, DocumentStep, vars, scriptVars, lockVars, S!vars
<1> QED
  BY <1>1, <1>2, <1>3, <1>4, <1>5, PTL DEF Spec, D!Spec, T!Spec, L!Spec, S!Spec

\* Every variable of a task's document and of its actions keeps its type.
THEOREM TypeCorrect == Spec => []D!TypeOK
<1>1. DocumentInv => D!TypeOK
  BY DEF DocumentInv
<1> QED
  BY <1>1, NativeAssumption, DocumentInvariant, PartsBehave, PTL DEF NativeAssumption

\* The file is reserved for as long as an operation may still write it, and a save
\* never turns one file into the document of two Rhinos.
THEOREM FileHasOneWriter == Spec => OneWriterPerFile
<1> USE NativeAssumption DEF NativeAssumption
<1>1. DocumentInv => D!WritersHoldReservation
  BY DEF DocumentInv, NativeInv, D!WritersHoldReservation
<1>2. ASSUME DocumentInv, D!Next, NEW t \in Tasks, kind[t] # "load", effect'[t], ~effect[t]
      PROVE  openAt \subseteq {t} \cup loaded
  <2>1. D!NativeEnds(t)
    <3> USE DEF DocumentInv, D!TypeOK, D!Set, D!receipts, D!call, D!rhino, D!documents
    <3>1. ASSUME UNCHANGED effect PROVE FALSE
      BY <1>2, <3>1
    <3>2. ASSUME NEW u \in Tasks, D!OperationIntent(u) PROVE FALSE
      BY <1>2, <3>2 DEF D!OperationIntent
    <3>3. ASSUME NEW u \in Tasks, D!NativeEnds(u), u # t PROVE FALSE
      BY <1>2, <3>3 DEF D!NativeEnds
    <3> QED
      BY <1>2, <3>1, <3>2, <3>3 DEF D!Next, D!HostStep, D!NativeStep, D!ExternalWrite,
      D!HostRestarts, D!Prepare,
         D!BeginHandoff, D!SaveStarts, D!Cancel, D!PreflightFails, D!Fails, D!TurnEnds, D!ActionEnds,
         D!ContinuationStarts, D!ActionStarts, D!NothingToSave, D!Inspect, D!ListOthers, D!OpenElsewhere,
         D!IntentRefused, D!Send,
         D!Answer, D!AnswerLost, D!CompleteAction, D!VerifyFails, D!NativeStarts, D!NativeCancelled,
         D!Recover
  <2>2. native[t] = "running" /\ file = baseline[t]
    BY <1>2, <2>1 DEF D!NativeEnds, D!Writes, D!Loads, DocumentInv, D!TypeOK
  <2> QED
    BY <1>2, <2>2 DEF DocumentInv, AloneInv
<1>3. DocumentInv /\ [D!Next]_(D!vars) =>
        [\A t \in Tasks : kind[t] # "load" /\ effect'[t] /\ ~effect[t] =>
             openAt \subseteq {t} \cup loaded]_(D!vars)
  BY <1>2
<1> QED
  BY <1>1, <1>3, DocumentInvariant, PartsBehave, PTL
  DEF D!Spec, OneWriterPerFile, D!OneWriterPerFile, D!SavesAlone

\* Whatever happens to the artifact's file and however often the export is repeated,
\* the destination gets the version that Rhino exported, or nothing.
THEOREM OnlyTheExportArrives == Spec => []ImportsWhatWasExported
<1>1. TransferInv => T!ImportsWhatWasExported
  BY DEF TransferInv, ExportInv, ImportInv, T!ImportsWhatWasExported
<1> QED
  BY <1>1, NativeAssumption, TransferInvariant, PartsBehave, PTL
  DEF NativeAssumption, ImportsWhatWasExported

\* The receipt of a create/open and that of an import tell what happened, and a receipt
\* that says that nothing more will happen is right.
THEOREM ReceiptsTellEffect == Spec => []ReceiptTellsEffect
<1>1. DocumentInv => D!ReceiptTellsEffect
  BY NativeAssumption
  DEF NativeAssumption, D!DocumentAssumption, DocumentInv, NativeInv, HandoffInv, D!ReceiptTellsEffect
<1>2. TransferInv => T!ImportReceipt
  BY DEF TransferInv, ImportInv
<1> QED
  BY <1>1, <1>2, NativeAssumption, DocumentInvariant, TransferInvariant, PartsBehave, PTL
  DEF NativeAssumption, ReceiptTellsEffect

\* A request starts one Rhino at most, and a running task never has two Rhinos of
\* which it does not know that they are ready or gone.
THEOREM NoSecondRhino == Spec => []NoReplacement
BY LaunchInvariant, OneRhinoIsOpen, PartsBehave, PTL DEF NoReplacement

\* Transactions of a workspace exclude each other, and no recovery of a dead writer's
\* lock ever removes that of a living one.
THEOREM WritersExcludeEachOther == Spec => []OneWriter
<1>1. LockInv => S!OneWriter
  BY HolderIsAlone DEF LockInv, HoldsLock, S!OneWriter, S!Claim
<1> QED
  BY <1>1, NativeAssumption, LockInvariant, PartsBehave, PTL DEF NativeAssumption, OneWriter

\* Processes run, repeat and reconcile the calls of a workspace and die, answers and
\* records are lost and Rhino restarts: what the journal says of a run is true and
\* stays, and a run is sent once, after the runs before it completed.
THEOREM JournalTellsEffect == Spec => []RunTellsEffect
<1>1. WorkspacesHold => RunTellsEffect
  <2> SUFFICES ASSUME WorkspacesHold PROVE RunTellsEffect
    OBVIOUS
  <2>1. JournalInv(Filling) /\ OwnersGone(Filling) => R(Filling)!RunTellsEffect
    BY JournalTells
  <2>2. JournalInv(Sharing) /\ OwnersGone(Sharing) => R(Sharing)!RunTellsEffect
    BY JournalTells
  <2> QED
    BY <2>1, <2>2 DEF WorkspacesHold, WorkspaceInv, RunTellsEffect
<1> QED
  BY <1>1, WorkspaceInvariant, PTL

\* However batches, edits and results come, the records of a workspace, together with the
\* temporary files its last admission or edit counted, stay within its quota: a record of
\* a run that was admitted is never what overruns it.
THEOREM WorkspaceStaysInQuota == Spec => []QuotaKept
<1>1. WorkspacesHold => QuotaKept
  <2> SUFFICES ASSUME WorkspacesHold PROVE QuotaKept
    OBVIOUS
  <2>1. ASSUME NEW z, z.reserve \in Nat, z.quota \in Nat \ {0}, WorkspaceInv(z)
        PROVE  R(z)!QuotaKept
    <3>1. /\ R(z)!RecordSize \in Nat /\ R(z)!RecordSize <= Charged(z)
          /\ Charged(z) + counted <= z.quota /\ counted \in Nat
      BY <2>1, ChargeCovers DEF WorkspaceInv, QuotaInv
    <3>2. Charged(z) \in Nat
      BY <2>1, ChargeNumbers DEF WorkspaceInv, Charged
    <3> QED
      BY <2>1, <3>1, <3>2 DEF R!QuotaKept
  <2>2. part = "quota" => R(Filling)!QuotaKept
    BY <2>1, WorkspaceFacts DEF WorkspacesHold
  <2>3. part # "quota" => R(Sharing)!QuotaKept
    BY <2>1, WorkspaceFacts DEF WorkspacesHold
  <2> QED
    BY <2>2, <2>3 DEF QuotaKept
<1> QED
  BY <1>1, WorkspaceInvariant, PTL
=============================================================================
