------------------------------- MODULE Steering -------------------------------
(***************************************************************************)
(* Messages to a task that runs.  The journal accepts an input for the     *)
(* current turn; the task service delivers one after the other to the      *)
(* turn's driver; the driver queues it in the Pi session, and the model    *)
(* consumes it when its loop comes round, or never.  Meanwhile the turn    *)
(* waits for its driver, asks a question and is continued by another turn, *)
(* ends, is cancelled, or the host dies.  The journal must say of every    *)
(* input whether the model saw it.                                         *)
(***************************************************************************)
EXTENDS Integers, Sequences, SequencesExt

CONSTANTS MaxInputs, MaxTurns, MaxFailures, MaxCrashes

SteeringAssumption ==
    MaxInputs \in Nat /\ MaxTurns \in Nat /\ MaxFailures \in Nat /\ MaxCrashes \in Nat

VARIABLES task,      \* the task in the journal
          turn,      \* its current turn
          cancelled, \* cancellation_requested
          driver,    \* the driver of the turn
          aborted,   \* the signal of the turn
          stopping,  \* the question boundary ends the turn
          inputs,    \* the inputs in the journal: their turn and their state
          chain,     \* the deliveries of the task, in order
          step,      \* where the first of them is
          promise,   \* what it waits for: the consumption of its message
          queue,     \* the messages queued in the Pi session
          consumed,  \* the inputs that the model saw
          failures, crashes
vars == <<task, turn, cancelled, driver, aborted, stopping, inputs, chain, step, promise, queue,
          consumed, failures, crashes>>
journal == <<task, turn, cancelled>>
delivery == <<chain, step, promise>>

States == {"accepted", "delivering", "applied", "not_applied", "unknown"}
TypeOK ==
    /\ task \in {"running", "suspending", "awaiting_user", "over"} /\ turn \in 1 .. MaxTurns
    /\ driver \in {"creating", "failed", "run", "ran", "cleaning", "gone"}
    /\ cancelled \in BOOLEAN /\ aborted \in BOOLEAN /\ stopping \in BOOLEAN
    /\ \A i \in DOMAIN inputs : inputs[i].turn \in 1 .. MaxTurns /\ inputs[i].state \in States
    /\ step \in {"new", "sending", "sent", "failed"} /\ promise \in {"none", "pending", "resolved", "rejected"}
    /\ Range(chain) \cup Range(queue) \cup consumed \subseteq DOMAIN inputs

Init ==
    /\ task = "running" /\ turn = 1 /\ cancelled = FALSE /\ driver = "creating" /\ aborted = FALSE
    /\ stopping = FALSE /\ inputs = <<>> /\ chain = <<>> /\ step = "new" /\ promise = "none"
    /\ queue = <<>> /\ consumed = {} /\ failures = 0 /\ crashes = 0

-----------------------------------------------------------------------------
(* The journal. *)
Accept ==
    /\ task = "running" /\ ~cancelled /\ Len(inputs) < MaxInputs
    /\ inputs' = Append(inputs, [turn |-> turn, state |-> "accepted"])
    /\ chain' = Append(chain, Len(inputs'))
    /\ UNCHANGED <<journal, driver, aborted, stopping, step, promise, queue, consumed, failures, crashes>>

Mark(i, state) == inputs' = [inputs EXCEPT ![i].state = state]
\* retireInputs, of the current turn.
Retired(s) == CASE s = "accepted" -> "not_applied" [] s = "delivering" -> "unknown" [] OTHER -> s
Retire == inputs' = [i \in DOMAIN inputs |->
                       IF inputs[i].turn = turn THEN [inputs[i] EXCEPT !.state = Retired(@)] ELSE inputs[i]]
\* "Earlier steering input has not settled."
Blocked(i) == \E j \in 1 .. i - 1 : inputs[j].turn = inputs[i].turn /\ inputs[j].state \notin {"applied", "not_applied"}

Cancel ==
    /\ task # "over" /\ ~cancelled /\ cancelled' = TRUE
    /\ aborted' = (driver # "gone") /\ task' = (IF driver = "gone" THEN "over" ELSE task)
    /\ UNCHANGED <<turn, driver, stopping, inputs, delivery, queue, consumed, failures, crashes>>
\* The answer to the question queues the next turn; the pump starts it.
Answer ==
    /\ task = "awaiting_user" /\ ~cancelled /\ driver = "gone" /\ turn < MaxTurns
    /\ task' = "running" /\ turn' = turn + 1 /\ driver' = "creating"
    /\ UNCHANGED <<cancelled, aborted, stopping, inputs, delivery, queue, consumed, failures, crashes>>

-----------------------------------------------------------------------------
(* deliver, for the first input of the chain. *)
First == chain[1]
Pop == chain' = Tail(chain) /\ step' = "new" /\ promise' = "none"
GivesUp ==
    \/ inputs[First].state # "accepted" \/ driver = "gone" \/ aborted
    \/ driver \notin {"creating", "failed"} /\ (task # "running" \/ cancelled \/ Blocked(First))
\* It waits for the driver of the turn, and marks the input before it hands it over.
Deliver ==
    /\ chain # <<>> /\ step = "new"
    /\ \/ GivesUp /\ Pop /\ UNCHANGED inputs
       \/ /\ ~GivesUp /\ driver \notin {"creating", "failed"}
          /\ Mark(First, "delivering") /\ step' = "sending" /\ promise' = "pending" /\ UNCHANGED chain
    /\ UNCHANGED <<journal, driver, aborted, stopping, queue, consumed, failures, crashes>>
\* session.steer; a session that ended may still take the message.
Enqueue ==
    /\ step = "sending"
    /\ \/ step' = "sent" /\ UNCHANGED failures
          /\ queue' = (IF inputs[First].turn = turn /\ driver # "gone" THEN Append(queue, First) ELSE queue)
       \/ step' = "failed" /\ failures < MaxFailures /\ failures' = failures + 1 /\ UNCHANGED queue
    /\ UNCHANGED <<journal, driver, aborted, stopping, inputs, chain, promise, consumed, crashes>>
\* The delivery ends as its promise did; one that failed leaves the input as it is.
Delivered ==
    /\ \/ step = "sent" /\ promise = "resolved" /\ Mark(First, "applied")
       \/ step = "sent" /\ promise = "rejected" /\ Mark(First, "not_applied")
       \/ step = "failed" /\ UNCHANGED inputs
    /\ Pop
    /\ UNCHANGED <<journal, driver, aborted, stopping, queue, consumed, failures, crashes>>

-----------------------------------------------------------------------------
(* The driver and its Pi session. *)
Drive(from, to) == driver = from /\ driver' = to
DriverStarts ==
    /\ Drive("creating", IF aborted THEN "ran" ELSE "run")
    /\ UNCHANGED <<journal, aborted, stopping, inputs, delivery, queue, consumed, failures, crashes>>
StartFails ==
    /\ Drive("creating", "failed") /\ failures < MaxFailures /\ failures' = failures + 1
    /\ UNCHANGED <<journal, aborted, stopping, inputs, delivery, queue, consumed, crashes>>
\* A user message starts: the pending input with this text has been consumed.
Consume ==
    /\ driver = "run" /\ queue # <<>>
    /\ consumed' = consumed \cup {Head(queue)} /\ queue' = Tail(queue)
    /\ promise' = IF chain # <<>> /\ Head(queue) = First /\ promise = "pending" THEN "resolved" ELSE promise
    /\ UNCHANGED <<journal, driver, aborted, stopping, inputs, chain, step, failures, crashes>>
\* QuestionSuspensionBoundary.suspend: a question that is not recorded also ends the turn.
Ask ==
    /\ driver = "run" /\ ~stopping /\ stopping' = TRUE
    /\ task' = IF task = "running" /\ ~aborted THEN "suspending" ELSE task
    /\ UNCHANGED <<turn, cancelled, driver, aborted, inputs, delivery, queue, consumed, failures, crashes>>
\* The model is done, failed, or was stopped; a root then waits for its children.
RunEnds ==
    /\ Drive("run", "ran")
    /\ UNCHANGED <<journal, aborted, stopping, inputs, delivery, queue, consumed, failures, crashes>>

\* waitForIdle, then the messages left are dropped and their inputs rejected.
Idle_WhenAborted == driver = "ran" \/ (driver = "run" /\ aborted)
Idle == driver = "ran"
Cleanup ==
    /\ Idle /\ queue' = <<>>
    /\ promise' = (IF promise = "pending" THEN "rejected" ELSE promise)
    /\ driver' \in {"cleaning", driver} \ {"ran"}
    /\ UNCHANGED <<journal, aborted, stopping, inputs, chain, step, consumed, failures, crashes>>
\* confirmSuspension: the cleanup is confirmed and a person may answer.
Suspends == task = "suspending" /\ ~aborted /\ ~cancelled /\ Retire /\ task' = "awaiting_user"
\* settle, failRunning, or uncertain when the cleanup or an operation is in doubt.
Ends == Retire /\ task' = "over"
\* The journal records how the turn ended; the turn is no longer active.
Settle ==
    /\ driver \in {"cleaning", "failed"} /\ driver' = "gone" /\ (Suspends \/ Ends)
    /\ aborted' = FALSE /\ stopping' = FALSE /\ queue' = <<>>
    /\ UNCHANGED <<turn, cancelled, delivery, consumed, failures, crashes>>
\* The host dies and starts again: a turn that ran is left to a person.
Crash ==
    /\ crashes < MaxCrashes /\ crashes' = crashes + 1
    /\ IF task \in {"running", "suspending"} THEN task' = "over" /\ Retire ELSE UNCHANGED <<task, inputs>>
    /\ driver' = "gone" /\ aborted' = FALSE /\ stopping' = FALSE
    /\ chain' = <<>> /\ step' = "new" /\ promise' = "none" /\ queue' = <<>>
    /\ UNCHANGED <<turn, cancelled, consumed, failures>>

Next ==
    \/ Accept \/ Cancel \/ Answer \/ Deliver \/ Enqueue \/ Delivered
    \/ DriverStarts \/ StartFails \/ Consume \/ Ask \/ RunEnds \/ Cleanup \/ Settle \/ Crash
Spec == Init /\ [][Next]_vars

-----------------------------------------------------------------------------
\* The journal is right about what the model saw: an applied input was consumed, one that
\* is not applied never was; an input is only consumed when every earlier one of its turn
\* is settled; and a turn that is over leaves no input open.
SteeringIsTruthful ==
    /\ \A i \in DOMAIN inputs :
         /\ inputs[i].state = "applied" => i \in consumed
         /\ inputs[i].state \in {"accepted", "not_applied"} => i \notin consumed
         /\ inputs[i].state \in {"accepted", "delivering"} => task \in {"running", "suspending"} /\ inputs[i].turn = turn
    /\ \A j \in consumed : \A i \in 1 .. j - 1 :
         inputs[i].turn = inputs[j].turn => inputs[i].state \in {"applied", "not_applied"}
=============================================================================
