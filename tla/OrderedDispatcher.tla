-------------------------- MODULE OrderedDispatcher --------------------------
(***************************************************************************)
(* The queue in front of the Rhino UI thread: Hopper.Core/Dispatching/     *)
(* OrderedDispatcher.cs.  Any thread may submit a work item; one UI thread *)
(* takes items in PumpOne callbacks that the host scheduler delivers.      *)
(* Every `lock (_gate)' block is one action; what a thread still has to do *)
(* after it leaves the lock (post the pump, complete an item it removed)   *)
(* is state of its own, so that other threads may run in between.          *)
(***************************************************************************)
EXTENDS Naturals, SequencesExt

CONSTANTS
    External,   \* items submitted by SubmitExternal, each with its own operation ID
    Lifecycle,  \* items submitted by SubmitLifecycleControl
    Capacity,   \* _externalCapacity
    None        \* no item

Items == External \cup Lifecycle

ASSUME DispatcherAssumption ==
    /\ Capacity \in Nat \ {0}
    /\ None \notin External \cup Lifecycle
    /\ External \cap Lifecycle = {}

\* DispatcherResultKind; "pending" is a completion source that is not set.
BeforeStart == {"Busy", "DeadlineExceeded", "Cancelled", "ShuttingDown"}
Kinds == BeforeStart \cup {"Completed", "Failed"}

VARIABLES
    accepting,  \* _acceptingExternalWork
    shutdown,   \* _shutdown
    pumpPosted, \* _pumpPosted
    running,    \* _runningItem; _running is running # None
    extQ, lifeQ,  \* the two linked lists
    posting,    \* threads that left the lock with shouldPost and have not called Post
    callbacks,  \* PumpOne callbacks waiting for the UI thread
    ui,         \* where PumpOne is: a pc and the item it took
    removed,    \* the completion a thread owes an item it took out of a queue
    answer,     \* the result each item's task carries
    submitted,  \* items whose Submit ran
    executions, \* how often each item's operation was invoked
    cancelRequested, \* items whose cancellation token is cancelled
    expired     \* items whose start deadline passed

vars == <<accepting, shutdown, pumpPosted, running, extQ, lifeQ, posting,
          callbacks, ui, removed, answer, submitted, executions,
          cancelRequested, expired>>

UiIdle == [pc |-> "idle", item |-> None, kind |-> "none"]

Queued(i) == \/ \E k \in DOMAIN extQ : extQ[k] = i
             \/ \E l \in DOMAIN lifeQ : lifeQ[l] = i

QueuedItems == Range(extQ) \cup Range(lifeQ)

Init ==
    /\ accepting = TRUE /\ shutdown = FALSE /\ pumpPosted = FALSE
    /\ running = None
    /\ extQ = <<>> /\ lifeQ = <<>>
    /\ posting = 0 /\ callbacks = 0
    /\ ui = UiIdle
    /\ removed = [i \in Items |-> "none"]
    /\ answer = [i \in Items |-> "pending"]
    /\ submitted = {}
    /\ executions = [i \in Items |-> 0]
    /\ cancelRequested = {} /\ expired = {}

-----------------------------------------------------------------------------
(* The environment: tokens are cancelled and deadlines pass. *)

RequestCancel(i) ==
    /\ i \notin cancelRequested
    /\ cancelRequested' = cancelRequested \cup {i}
    /\ UNCHANGED <<accepting, shutdown, pumpPosted, running, extQ, lifeQ, posting,
                   callbacks, ui, removed, answer, submitted, executions, expired>>

DeadlinePasses(i) ==
    /\ i \notin expired
    /\ expired' = expired \cup {i}
    /\ UNCHANGED <<accepting, shutdown, pumpPosted, running, extQ, lifeQ, posting,
                   callbacks, ui, removed, answer, submitted, executions, cancelRequested>>

-----------------------------------------------------------------------------
(* Submit: the rejections in the order the code tests them, else enqueue. *)

Rejection(i) ==
    IF shutdown \/ (i \in External /\ ~accepting) THEN "ShuttingDown"
    ELSE IF i \in expired THEN "DeadlineExceeded"
    ELSE IF i \in cancelRequested THEN "Cancelled"
    ELSE IF i \in External /\ Len(extQ) >= Capacity THEN "Busy"
    ELSE "none"

SubmitRejected(i) ==
    /\ i \notin submitted
    /\ Rejection(i) # "none"
    /\ submitted' = submitted \cup {i}
    /\ answer' = [answer EXCEPT ![i] = Rejection(i)]
    /\ UNCHANGED <<accepting, shutdown, pumpPosted, running, extQ, lifeQ, posting,
                   callbacks, ui, removed, executions, cancelRequested, expired>>

\* Mutant: the promise is made but never kept in _pumpPosted.
PromisePump_Unrecorded(needed) ==
    /\ posting' = (IF needed THEN posting + 1 ELSE posting)
    /\ UNCHANGED pumpPosted

\* The thread that finds nothing running and no pump posted promises to post one.
PromisePump(needed) ==
    /\ pumpPosted' = (pumpPosted \/ needed)
    /\ posting' = (IF needed THEN posting + 1 ELSE posting)

SubmitQueued(i) ==
    /\ i \notin submitted
    /\ Rejection(i) = "none"
    /\ submitted' = submitted \cup {i}
    /\ IF i \in External
         THEN extQ' = Append(extQ, i) /\ UNCHANGED lifeQ
         ELSE lifeQ' = Append(lifeQ, i) /\ UNCHANGED extQ
    /\ PromisePump(running = None /\ ~pumpPosted)
    /\ UNCHANGED <<accepting, shutdown, running, callbacks, ui, removed, answer,
                   executions, cancelRequested, expired>>

-----------------------------------------------------------------------------
(* PostPump: the host scheduler takes the callback, or throws and the      *)
(* dispatcher shuts itself down and fails everything that was queued.      *)

PostPumpAccepted ==
    /\ posting > 0
    /\ posting' = posting - 1
    /\ callbacks' = callbacks + 1
    /\ UNCHANGED <<accepting, shutdown, pumpPosted, running, extQ, lifeQ, ui,
                   removed, answer, submitted, executions, cancelRequested, expired>>

\* Mutant: the lifecycle queue survives the drain.
DrainAll_KeepsLifecycle(kind) ==
    /\ shutdown' = TRUE
    /\ accepting' = FALSE
    /\ extQ' = <<>>
    /\ UNCHANGED lifeQ
    /\ removed' = [i \in Items |-> IF i \in Range(extQ) THEN kind ELSE removed[i]]

\* A thread drains both queues and owes each drained item the same completion.
DrainAll(kind) ==
    /\ shutdown' = TRUE
    /\ accepting' = FALSE
    /\ extQ' = <<>>
    /\ lifeQ' = <<>>
    /\ removed' = [i \in Items |-> IF i \in QueuedItems THEN kind ELSE removed[i]]

PostPumpThrows ==
    /\ posting > 0
    /\ posting' = posting - 1
    /\ pumpPosted' = FALSE
    /\ DrainAll("Failed")
    /\ UNCHANGED <<running, callbacks, ui, answer, submitted, executions,
                   cancelRequested, expired>>

Shutdown ==
    /\ ~shutdown
    /\ DrainAll("ShuttingDown")
    /\ UNCHANGED <<pumpPosted, running, posting, callbacks, ui, answer, submitted,
                   executions, cancelRequested, expired>>

-----------------------------------------------------------------------------
(* Admission and cancellation, from any thread. *)

CloseExternalAdmission ==
    /\ accepting
    /\ accepting' = FALSE
    /\ UNCHANGED <<shutdown, pumpPosted, running, extQ, lifeQ, posting, callbacks, ui,
                   removed, answer, submitted, executions, cancelRequested, expired>>

ReopenExternalAdmission ==
    /\ ~shutdown /\ ~accepting
    /\ accepting' = TRUE
    /\ UNCHANGED <<shutdown, pumpPosted, running, extQ, lifeQ, posting, callbacks, ui,
                   removed, answer, submitted, executions, cancelRequested, expired>>

CancelAllQueuedExternal ==
    /\ extQ # <<>>
    /\ extQ' = <<>>
    /\ removed' = [i \in Items |-> IF i \in Range(extQ) THEN "Cancelled" ELSE removed[i]]
    /\ UNCHANGED <<accepting, shutdown, pumpPosted, running, lifeQ, posting, callbacks,
                   ui, answer, submitted, executions, cancelRequested, expired>>

\* Mutant: the item that is running is cancelled as if it were queued.
CancelQueued_Running(i) ==
    /\ \/ \E k \in DOMAIN extQ : extQ[k] = i /\ extQ' = RemoveAt(extQ, k)
       \/ running = i /\ UNCHANGED extQ
    /\ removed[i] = "none"
    /\ removed' = [removed EXCEPT ![i] = "Cancelled"]
    /\ UNCHANGED <<accepting, shutdown, pumpPosted, running, lifeQ, posting, callbacks, ui,
                   answer, submitted, executions, cancelRequested, expired>>

\* CancelQueuedExternal(operationId) when the operation is still queued, and
\* CancelBeforeStart, the token's callback: unlink the item, complete it later.
CancelQueued(i) ==
    /\ \/ \E k \in DOMAIN extQ : extQ[k] = i /\ extQ' = RemoveAt(extQ, k) /\ UNCHANGED lifeQ
       \/ /\ i \in cancelRequested
          /\ \E k \in DOMAIN lifeQ : lifeQ[k] = i /\ lifeQ' = RemoveAt(lifeQ, k)
          /\ UNCHANGED extQ
    /\ removed' = [removed EXCEPT ![i] = "Cancelled"]
    /\ UNCHANGED <<accepting, shutdown, pumpPosted, running, posting, callbacks, ui,
                   answer, submitted, executions, cancelRequested, expired>>

\* TrySetResult: the first completion of an item is the one its task carries.
TrySetResult(i, kind) ==
    answer' = IF answer[i] = "pending" THEN [answer EXCEPT ![i] = kind] ELSE answer

\* Mutant: an item that was taken out of the queue is forgotten.
CompleteRemoved_Forgets(i) ==
    /\ removed[i] # "none"
    /\ removed' = [removed EXCEPT ![i] = "none"]
    /\ UNCHANGED <<accepting, shutdown, pumpPosted, running, extQ, lifeQ, posting,
                   callbacks, ui, answer, submitted, executions, cancelRequested, expired>>

CompleteRemoved(i) ==
    /\ removed[i] # "none"
    /\ TrySetResult(i, removed[i])
    /\ removed' = [removed EXCEPT ![i] = "none"]
    /\ UNCHANGED <<accepting, shutdown, pumpPosted, running, extQ, lifeQ, posting,
                   callbacks, ui, submitted, executions, cancelRequested, expired>>

-----------------------------------------------------------------------------
(* PumpOne on the UI thread. *)

\* TakeNext under the lock: lifecycle work first; a cancelled or late item is
\* refused without ever being marked as running.
Take(i) ==
    IF i \in cancelRequested
      THEN ui' = [pc |-> "refuse", item |-> i, kind |-> "Cancelled"] /\ UNCHANGED running
    ELSE IF i \in expired
      THEN ui' = [pc |-> "refuse", item |-> i, kind |-> "DeadlineExceeded"] /\ UNCHANGED running
    ELSE ui' = [pc |-> "execute", item |-> i, kind |-> "none"] /\ running' = i

PumpTake ==
    /\ callbacks > 0
    /\ ui.pc = "idle"
    /\ callbacks' = callbacks - 1
    /\ pumpPosted' = FALSE
    /\ \/ lifeQ # <<>> /\ Take(Head(lifeQ)) /\ lifeQ' = Tail(lifeQ) /\ UNCHANGED extQ
       \/ lifeQ = <<>> /\ extQ # <<>> /\ Take(Head(extQ)) /\ extQ' = Tail(extQ) /\ UNCHANGED lifeQ
       \/ /\ lifeQ = <<>> /\ extQ = <<>>
          /\ ui' = [UiIdle EXCEPT !.pc = "next"]
          /\ UNCHANGED <<extQ, lifeQ, running>>
    /\ UNCHANGED <<accepting, shutdown, posting, removed, answer, submitted,
                   executions, cancelRequested, expired>>

PumpRefuse ==
    /\ ui.pc = "refuse"
    /\ TrySetResult(ui.item, ui.kind)
    /\ ui' = [UiIdle EXCEPT !.pc = "next"]
    /\ UNCHANGED <<accepting, shutdown, pumpPosted, running, extQ, lifeQ, posting,
                   callbacks, removed, submitted, executions, cancelRequested, expired>>

\* The operation returns or throws; RecordExecution follows, still outside the lock.
PumpExecute ==
    /\ ui.pc = "execute"
    /\ executions' = [executions EXCEPT ![ui.item] = @ + 1]
    /\ \E kind \in {"Completed", "Failed"} : TrySetResult(ui.item, kind)
    /\ ui' = [ui EXCEPT !.pc = "executed"]
    /\ UNCHANGED <<accepting, shutdown, pumpPosted, running, extQ, lifeQ, posting,
                   callbacks, removed, submitted, cancelRequested, expired>>

PumpFinish ==
    /\ ui.pc = "executed"
    /\ running' = None
    /\ ui' = [UiIdle EXCEPT !.pc = "next"]
    /\ UNCHANGED <<accepting, shutdown, pumpPosted, extQ, lifeQ, posting, callbacks,
                   removed, answer, submitted, executions, cancelRequested, expired>>

\* Mutant: only the external queue is looked at.
PostNextIfNeeded_ForgetsLifecycle ==
    /\ ui.pc = "next"
    /\ PromisePump(running = None /\ ~pumpPosted /\ extQ # <<>>)
    /\ ui' = UiIdle
    /\ UNCHANGED <<accepting, shutdown, running, extQ, lifeQ, callbacks, removed,
                   answer, submitted, executions, cancelRequested, expired>>

PostNextIfNeeded ==
    /\ ui.pc = "next"
    /\ PromisePump(running = None /\ ~pumpPosted /\ (lifeQ # <<>> \/ extQ # <<>>))
    /\ ui' = UiIdle
    /\ UNCHANGED <<accepting, shutdown, running, extQ, lifeQ, callbacks, removed,
                   answer, submitted, executions, cancelRequested, expired>>

Pump == PumpTake \/ PumpRefuse \/ PumpExecute \/ PumpFinish \/ PostNextIfNeeded

Post == PostPumpAccepted \/ PostPumpThrows

Next ==
    \/ \E i \in Items : \/ RequestCancel(i) \/ DeadlinePasses(i)
                        \/ SubmitRejected(i) \/ SubmitQueued(i)
                        \/ CancelQueued(i) \/ CompleteRemoved(i)
    \/ Post \/ Shutdown
    \/ CloseExternalAdmission \/ ReopenExternalAdmission \/ CancelAllQueuedExternal
    \/ Pump

Spec == Init /\ [][Next]_vars

\* The UI thread keeps serving callbacks and its operations return; a thread
\* that promised to post, or to complete an item, does so.
Fairness ==
    /\ WF_vars(Pump)
    /\ WF_vars(Post)
    /\ \A i \in Items : WF_vars(CompleteRemoved(i))

FairSpec == Spec /\ Fairness

-----------------------------------------------------------------------------
FlagsOK == accepting \in BOOLEAN /\ shutdown \in BOOLEAN /\ pumpPosted \in BOOLEAN
QueuesOK == extQ \in Seq(External) /\ lifeQ \in Seq(Lifecycle)
CountsOK == posting \in Nat /\ callbacks \in Nat
UiOK == /\ running \in Items \cup {None}
        /\ ui \in [pc: {"idle", "refuse", "execute", "executed", "next"},
                   item: Items \cup {None}, kind: {"none", "Cancelled", "DeadlineExceeded"}]
RemovedOK == removed \in [Items -> Kinds \cup {"none"}]
AnswerOK == answer \in [Items -> Kinds \cup {"pending"}]
ExecutionsOK == executions \in [Items -> Nat]
SetsOK == submitted \subseteq Items /\ cancelRequested \subseteq Items /\ expired \subseteq Items

\* The types of the dispatcher's state, in parts that a proof cites one by one.
TypeOK == /\ FlagsOK /\ QueuesOK /\ CountsOK /\ UiOK
          /\ RemovedOK /\ AnswerOK /\ ExecutionsOK /\ SetsOK

\* _pumpPosted counts exactly one pump on its way: promised by a thread or
\* delivered to the UI thread's queue.  While an operation runs there is none,
\* so a nested message loop inside it cannot start a second operation
\* (PumpOne, Submit and PostNextIfNeeded keep this up together).
OnePumpInFlight ==
    /\ posting + callbacks = IF pumpPosted THEN 1 ELSE 0
    /\ running # None => ~pumpPosted

\* Queued work always has somebody who will look at it: a pump on its way, or
\* the PumpOne callback that ends in PostNextIfNeeded.  No wake-up is lost
\* between Submit, a cancelled head item and the end of an operation.
NoLostWakeup ==
    (extQ # <<>> \/ lifeQ # <<>>) => pumpPosted \/ ui.pc # "idle"

\* The answer of a task tells the truth about the native operation: a
\* before-start answer (what a caller may retry on) means it was never invoked,
\* "Completed" means exactly once, and nothing is invoked twice or after its
\* task was answered by a canceller.
AnswerTellsExecution ==
    \A i \in Items :
        /\ executions[i] <= 1
        /\ answer[i] \in BeforeStart => executions[i] = 0
        /\ answer[i] = "Completed" => executions[i] = 1
        /\ removed[i] # "none" => executions[i] = 0 /\ answer[i] = "pending"
        /\ Queued(i) => executions[i] = 0 /\ answer[i] = "pending"

\* After Shutdown, or after the host scheduler refused a callback, nothing is
\* queued and nothing can be admitted again, whatever the lifecycle controller
\* does with admission afterwards.
ShutdownIsFinal ==
    shutdown => ~accepting /\ extQ = <<>> /\ lifeQ = <<>>

\* Every submitted item is answered, also when cancellation, shutdown, a
\* passing deadline and the pump race for it: again and again nothing that was
\* submitted waits (an item stays submitted, and an answer stays).
EveryItemAnswered == []<>(\A i \in submitted : answer[i] # "pending")

-----------------------------------------------------------------------------
\* An item counts as running from the moment it is taken to run until its
\* operation returned, and as queued until whoever removed it has answered it.
Phase(i) ==
    IF answer[i] # "pending" THEN "done"
    ELSE IF i \notin submitted THEN "new"
    ELSE IF ui.pc = "execute" /\ ui.item = i THEN "running"
    ELSE "queued"

Contract == INSTANCE DispatcherContract WITH phase <- [i \in Items |-> Phase(i)]

\* The dispatcher keeps the promise the transport and the lifecycle controller
\* rely on: one operation at a time, and answers that tell refused work from
\* work that ran.
ImplementsContract == Contract!ContractSpec
=============================================================================
