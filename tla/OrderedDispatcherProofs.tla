----------------------- MODULE OrderedDispatcherProofs -----------------------
(***************************************************************************)
(* Proofs about OrderedDispatcher for every set of items and every         *)
(* capacity: type correctness, that no wake-up of the UI thread is lost,   *)
(* that operations never nest, and that shutdown is final.                 *)
(***************************************************************************)
EXTENDS OrderedDispatcher, SequenceTheorems, TLAPS

\* Unlinking a node leaves a queue over the same items.
LEMMA RemoveAtType ==
    ASSUME NEW S, NEW s \in Seq(S), NEW k \in DOMAIN s
    PROVE  RemoveAt(s, k) \in Seq(S)
<1>1. k \in 1..Len(s)
  OBVIOUS
<1>2. SubSeq(s, 1, k - 1) \in Seq(S)
  BY <1>1
<1>3. SubSeq(s, k + 1, Len(s)) \in Seq(S)
  BY <1>1
<1> QED
  BY <1>2, <1>3 DEF RemoveAt

\* The dispatcher starts with its types.
LEMMA InitType == Init => TypeOK
<1> SUFFICES ASSUME Init PROVE TypeOK
  OBVIOUS
<1>1. RemovedOK /\ AnswerOK
  BY DEF Init, RemovedOK, AnswerOK
<1>2. ExecutionsOK /\ QueuesOK
  BY DEF Init, ExecutionsOK, QueuesOK
<1>3. UiOK
  BY DEF Init, UiIdle, UiOK
<1>4. FlagsOK /\ CountsOK /\ SetsOK
  BY DEF Init, FlagsOK, CountsOK, SetsOK
<1> QED
  BY <1>1, <1>2, <1>3, <1>4 DEF TypeOK

\* What the UI thread's program counter says of the item it holds.
UiRuns ==
    /\ ui.pc \in {"execute", "executed"} => running = ui.item /\ ui.item \in Items
    /\ ui.pc \notin {"execute", "executed"} => running = None
    /\ ui.pc = "refuse" => ui.item \in Items /\ ui.kind # "none"

TypeInv == TypeOK /\ UiRuns

\* Every action keeps the types.
LEMMA NextType == TypeInv /\ [Next]_vars => TypeInv'
<1> SUFFICES ASSUME TypeInv, [Next]_vars PROVE TypeInv'
  OBVIOUS
<1>q. QueuesOK
  BY DEF TypeInv, TypeOK
<1>f. FlagsOK /\ CountsOK
  BY DEF TypeInv, TypeOK
<1>u. UiOK /\ UiRuns
  BY DEF TypeInv, TypeOK
<1>r. RemovedOK
  BY DEF TypeInv, TypeOK
<1>a. AnswerOK
  BY DEF TypeInv, TypeOK
<1>e. ExecutionsOK
  BY DEF TypeInv, TypeOK
<1>s. SetsOK
  BY DEF TypeInv, TypeOK
<1>queues. QueuesOK'
  <2>1. ASSUME NEW i \in Items, SubmitQueued(i) PROVE QueuesOK'
    <3>1. extQ' \in Seq(External)
      BY <1>q, <2>1 DEF QueuesOK, SubmitQueued
    <3>2. i \in External \/ i \in Lifecycle
      BY DEF Items
    <3>3. lifeQ' \in Seq(Lifecycle)
      BY <1>q, <2>1, <3>2 DEF QueuesOK, SubmitQueued
    <3> QED
      BY <3>1, <3>3 DEF QueuesOK
  <2>2. ASSUME NEW i \in Items, CancelQueued(i) PROVE QueuesOK'
    <3>1. extQ' \in Seq(External)
      BY <1>q, <2>2, RemoveAtType DEF QueuesOK, CancelQueued
    <3>2. lifeQ' \in Seq(Lifecycle)
      BY <1>q, <2>2, RemoveAtType DEF QueuesOK, CancelQueued
    <3> QED
      BY <3>1, <3>2 DEF QueuesOK
  <2>3. ASSUME extQ' = <<>>, lifeQ' \in {lifeQ, <<>>} PROVE QueuesOK'
    <3>1. <<>> \in Seq(External) /\ <<>> \in Seq(Lifecycle)
      OBVIOUS
    <3>2. extQ' \in Seq(External)
      BY <2>3, <3>1
    <3>3. lifeQ' \in Seq(Lifecycle)
      BY <1>q, <2>3, <3>1 DEF QueuesOK
    <3> QED
      BY <3>2, <3>3 DEF QueuesOK
  <2>4. CASE PumpTake
    <3>1. extQ' \in Seq(External)
      BY <1>q, <2>4 DEF QueuesOK, PumpTake
    <3>2. lifeQ' \in Seq(Lifecycle)
      BY <1>q, <2>4 DEF QueuesOK, PumpTake
    <3> QED
      BY <3>1, <3>2 DEF QueuesOK
  <2>5. ASSUME UNCHANGED <<extQ, lifeQ>> PROVE QueuesOK'
    BY <1>q, <2>5 DEF QueuesOK
  <2> QED
    BY <2>1, <2>2, <2>3, <2>4, <2>5 DEF Next, vars, RequestCancel, DeadlinePasses,
       SubmitRejected, CompleteRemoved, Post, PostPumpAccepted, PostPumpThrows, DrainAll,
       Shutdown, CloseExternalAdmission, ReopenExternalAdmission, CancelAllQueuedExternal,
       Pump, PumpRefuse, PumpExecute, PumpFinish, PostNextIfNeeded
<1>flags. FlagsOK' /\ CountsOK'
  <2>1. ASSUME NEW i \in Items, SubmitQueued(i) PROVE FlagsOK' /\ CountsOK'
    BY <1>f, <2>1 DEF FlagsOK, CountsOK, SubmitQueued, PromisePump
  <2>2. CASE PostNextIfNeeded
    BY <1>f, <2>2 DEF FlagsOK, CountsOK, PostNextIfNeeded, PromisePump
  <2>3. CASE PostPumpAccepted
    BY <1>f, <2>3 DEF FlagsOK, CountsOK, PostPumpAccepted
  <2>4. CASE PostPumpThrows \/ Shutdown
    <3>1. FlagsOK'
      BY <1>f, <2>4 DEF FlagsOK, PostPumpThrows, Shutdown, DrainAll
    <3>2. CountsOK'
      BY <1>f, <2>4 DEF CountsOK, PostPumpThrows, Shutdown
    <3> QED
      BY <3>1, <3>2
  <2>5. CASE PumpTake
    <3>1. UNCHANGED <<accepting, shutdown, posting>> /\ pumpPosted' = FALSE
          /\ callbacks > 0 /\ callbacks' = callbacks - 1
      BY <2>5 DEF PumpTake
    <3>2. FlagsOK'
      BY <1>f, <3>1 DEF FlagsOK
    <3>3. CountsOK'
      BY <1>f, <3>1 DEF CountsOK
    <3> QED
      BY <3>2, <3>3
  <2>6. CASE CloseExternalAdmission \/ ReopenExternalAdmission
    BY <1>f, <2>6 DEF FlagsOK, CountsOK, CloseExternalAdmission, ReopenExternalAdmission
  <2>7. ASSUME UNCHANGED <<accepting, shutdown, pumpPosted, posting, callbacks>>
        PROVE  FlagsOK' /\ CountsOK'
    BY <1>f, <2>7 DEF FlagsOK, CountsOK
  <2> QED
    BY <2>1, <2>2, <2>3, <2>4, <2>5, <2>6, <2>7 DEF Next, vars, RequestCancel,
       DeadlinePasses, SubmitRejected, CancelQueued, CompleteRemoved, Post,
       CancelAllQueuedExternal, Pump, PumpRefuse, PumpExecute, PumpFinish
<1>uiruns. UiOK' /\ UiRuns'
  <2>1. ASSUME NEW i \in Items, Take(i), ui.pc = "idle" PROVE UiOK' /\ UiRuns'
    BY <1>u, <2>1 DEF UiOK, UiRuns, Take
  <2>2. CASE PumpTake
    <3>1. CASE lifeQ # <<>> /\ Take(Head(lifeQ))
      <4>1. Head(lifeQ) \in Items
        BY <1>q, <3>1 DEF QueuesOK, Items
      <4> QED
        BY <2>1, <2>2, <3>1, <4>1 DEF PumpTake
    <3>2. CASE extQ # <<>> /\ Take(Head(extQ))
      <4>1. Head(extQ) \in Items
        BY <1>q, <3>2 DEF QueuesOK, Items
      <4> QED
        BY <2>1, <2>2, <3>2, <4>1 DEF PumpTake
    <3>3. CASE ui' = [UiIdle EXCEPT !.pc = "next"] /\ UNCHANGED running
      <4>1. ui.pc = "idle"
        BY <2>2 DEF PumpTake
      <4> QED
        BY <1>u, <3>3, <4>1 DEF UiOK, UiRuns, UiIdle
    <3> QED
      BY <2>2, <3>1, <3>2, <3>3 DEF PumpTake
  <2>3. CASE PumpRefuse \/ PumpExecute \/ PumpFinish \/ PostNextIfNeeded
    BY <1>u, <2>3 DEF UiOK, UiRuns, UiIdle, PumpRefuse, PumpExecute, PumpFinish,
       PostNextIfNeeded
  <2>4. ASSUME UNCHANGED <<running, ui>> PROVE UiOK' /\ UiRuns'
    BY <1>u, <2>4 DEF UiOK, UiRuns
  <2> QED
    BY <2>2, <2>3, <2>4 DEF Next, vars, RequestCancel, DeadlinePasses, SubmitRejected,
       SubmitQueued, CancelQueued, CompleteRemoved, Post, PostPumpAccepted, PostPumpThrows,
       DrainAll, Shutdown, CloseExternalAdmission, ReopenExternalAdmission,
       CancelAllQueuedExternal, Pump
<1>removed. RemovedOK'
  <2>1. CASE PostPumpThrows \/ Shutdown \/ CancelAllQueuedExternal
    BY <1>r, <2>1 DEF RemovedOK, PostPumpThrows, Shutdown, CancelAllQueuedExternal,
       DrainAll, Kinds, BeforeStart
  <2>2. ASSUME NEW i \in Items, CancelQueued(i) \/ CompleteRemoved(i) PROVE RemovedOK'
    BY <1>r, <2>2 DEF RemovedOK, CancelQueued, CompleteRemoved, Kinds, BeforeStart
  <2>3. ASSUME UNCHANGED removed PROVE RemovedOK'
    BY <1>r, <2>3 DEF RemovedOK
  <2> QED
    BY <2>1, <2>2, <2>3 DEF Next, vars, RequestCancel, DeadlinePasses, SubmitRejected,
       SubmitQueued, Post, PostPumpAccepted, CloseExternalAdmission,
       ReopenExternalAdmission, Pump, PumpTake, PumpRefuse, PumpExecute, PumpFinish,
       PostNextIfNeeded
<1>answer. AnswerOK'
  <2>1. ASSUME NEW i \in Items, SubmitRejected(i) PROVE AnswerOK'
    <3>1. Rejection(i) \in Kinds
      BY <2>1 DEF SubmitRejected, Rejection, Kinds, BeforeStart
    <3> QED
      BY <1>a, <2>1, <3>1 DEF AnswerOK, SubmitRejected
  <2>2. ASSUME NEW i, NEW kind \in Kinds, TrySetResult(i, kind) PROVE AnswerOK'
    BY <1>a, <2>2 DEF AnswerOK, TrySetResult
  <2>3. ASSUME NEW i \in Items, CompleteRemoved(i) PROVE AnswerOK'
    <3>1. removed[i] \in Kinds
      BY <1>r, <2>3 DEF RemovedOK, CompleteRemoved
    <3> QED
      BY <2>2, <2>3, <3>1 DEF CompleteRemoved
  <2>4. CASE PumpRefuse
    <3>1. ui.kind \in Kinds
      BY <1>u, <2>4 DEF UiOK, UiRuns, PumpRefuse, Kinds, BeforeStart
    <3> QED
      BY <2>2, <2>4, <3>1 DEF PumpRefuse
  <2>5. CASE PumpExecute
    BY <2>2, <2>5 DEF PumpExecute, Kinds
  <2>6. ASSUME UNCHANGED answer PROVE AnswerOK'
    BY <1>a, <2>6 DEF AnswerOK
  <2> QED
    BY <2>1, <2>3, <2>4, <2>5, <2>6 DEF Next, vars, RequestCancel, DeadlinePasses,
       SubmitQueued, CancelQueued, Post, PostPumpAccepted, PostPumpThrows, DrainAll,
       Shutdown, CloseExternalAdmission, ReopenExternalAdmission, CancelAllQueuedExternal,
       Pump, PumpTake, PumpFinish, PostNextIfNeeded
<1>executions. ExecutionsOK'
  <2>1. CASE PumpExecute
    <3>1. ui.item \in Items
      BY <1>u, <2>1 DEF UiRuns, PumpExecute
    <3>2. executions' = [executions EXCEPT ![ui.item] = @ + 1]
      BY <2>1 DEF PumpExecute
    <3> QED
      BY <1>e, <3>1, <3>2 DEF ExecutionsOK
  <2>2. ASSUME UNCHANGED executions PROVE ExecutionsOK'
    BY <1>e, <2>2 DEF ExecutionsOK
  <2> QED
    BY <2>1, <2>2 DEF Next, vars, RequestCancel, DeadlinePasses, SubmitRejected,
       SubmitQueued, CancelQueued, CompleteRemoved, Post, PostPumpAccepted, PostPumpThrows,
       Shutdown, CloseExternalAdmission, ReopenExternalAdmission, CancelAllQueuedExternal,
       Pump, PumpTake, PumpRefuse, PumpFinish, PostNextIfNeeded
<1>sets. SetsOK'
  BY <1>s DEF SetsOK, Next, vars, RequestCancel, DeadlinePasses, SubmitRejected,
     SubmitQueued, CancelQueued, CompleteRemoved, Post, PostPumpAccepted, PostPumpThrows,
     Shutdown, CloseExternalAdmission, ReopenExternalAdmission, CancelAllQueuedExternal,
     Pump, PumpTake, PumpRefuse, PumpExecute, PumpFinish, PostNextIfNeeded
<1> QED
  BY <1>queues, <1>flags, <1>removed, <1>answer, <1>executions, <1>sets, <1>uiruns
  DEF TypeInv, TypeOK

\* The state of the dispatcher always has the declared types.
THEOREM TypeCorrect == Spec => []TypeOK
<1>1. Init => TypeInv
  BY InitType DEF TypeInv, UiRuns, Init, UiIdle
<1>2. TypeInv => TypeOK
  BY DEF TypeInv
<1> QED
  BY <1>1, <1>2, NextType, PTL DEF Spec

-----------------------------------------------------------------------------
(* The wake-up protocol.  OnePumpInFlight and NoLostWakeup hold each other *)
(* up: a queue may grow without a new pump only because one is on its way  *)
(* or because the UI thread is still to run PostNextIfNeeded.              *)

PumpInv == TypeInv /\ OnePumpInFlight /\ NoLostWakeup

\* A promise is recorded in _pumpPosted exactly when it is made.
LEMMA PromiseKeepsCount ==
    ASSUME CountsOK, FlagsOK, OnePumpInFlight, NEW needed \in BOOLEAN,
           needed => running = None /\ ~pumpPosted,
           PromisePump(needed), UNCHANGED <<running, callbacks>>
    PROVE  OnePumpInFlight'
<1>1. CASE needed
  <2>1. posting = 0 /\ callbacks = 0 /\ running = None
    BY <1>1 DEF CountsOK, OnePumpInFlight
  <2>2. posting' = 1 /\ callbacks' = 0 /\ running' = None
    BY <1>1, <2>1 DEF PromisePump
  <2>3. pumpPosted'
    BY <1>1, Zenon DEF PromisePump
  <2> QED
    BY <2>2, <2>3 DEF OnePumpInFlight
<1>2. CASE ~needed
  <2>1. UNCHANGED <<pumpPosted, posting, running, callbacks>>
    BY <1>2 DEF PromisePump, FlagsOK
  <2> QED
    BY <2>1 DEF OnePumpInFlight
<1> QED
  BY <1>1, <1>2

\* No step nests two pumps.
LEMMA OnePumpStep == PumpInv /\ [Next]_vars => OnePumpInFlight'
<1> SUFFICES ASSUME PumpInv, [Next]_vars PROVE OnePumpInFlight'
  OBVIOUS
<1>1. CountsOK /\ FlagsOK /\ UiRuns /\ OnePumpInFlight
  BY DEF PumpInv, TypeInv, TypeOK
<1>2. ASSUME NEW i \in Items, SubmitQueued(i) PROVE OnePumpInFlight'
  BY <1>1, <1>2, PromiseKeepsCount DEF SubmitQueued, FlagsOK
<1>3. CASE PostNextIfNeeded
  BY <1>1, <1>3, PromiseKeepsCount DEF PostNextIfNeeded, FlagsOK
<1>4. CASE PostPumpAccepted
  <2>1. pumpPosted /\ posting = 1 /\ callbacks = 0
    BY <1>1, <1>4 DEF PostPumpAccepted, CountsOK, FlagsOK, OnePumpInFlight
  <2>2. UNCHANGED <<pumpPosted, running>> /\ posting' = 0 /\ callbacks' = 1
    BY <1>4, <2>1 DEF PostPumpAccepted
  <2> QED
    BY <1>1, <2>1, <2>2 DEF OnePumpInFlight
<1>5. CASE PostPumpThrows
  BY <1>1, <1>5 DEF PostPumpThrows, CountsOK, FlagsOK, OnePumpInFlight
<1>6. CASE PumpTake
  <2>1. pumpPosted /\ posting = 0 /\ callbacks = 1
    BY <1>1, <1>6 DEF PumpTake, CountsOK, FlagsOK, OnePumpInFlight
  <2>2. ~pumpPosted' /\ posting' = 0 /\ callbacks' = 0
    BY <1>6, <2>1 DEF PumpTake
  <2> QED
    BY <2>2 DEF OnePumpInFlight
<1>7. CASE PumpFinish
  BY <1>1, <1>7 DEF PumpFinish, OnePumpInFlight
<1>8. ASSUME UNCHANGED <<pumpPosted, running, posting, callbacks>> PROVE OnePumpInFlight'
  BY <1>1, <1>8 DEF OnePumpInFlight
<1> QED
  BY <1>2, <1>3, <1>4, <1>5, <1>6, <1>7, <1>8 DEF Next, vars, RequestCancel,
     DeadlinePasses, SubmitRejected, CancelQueued, CompleteRemoved, Post, Shutdown, DrainAll,
     CloseExternalAdmission, ReopenExternalAdmission, CancelAllQueuedExternal,
     Pump, PumpRefuse, PumpExecute

\* Every step leaves queued work somebody who looks at it.
LEMMA NoLostWakeupStep == PumpInv /\ [Next]_vars => NoLostWakeup'
<1> SUFFICES ASSUME PumpInv, [Next]_vars PROVE NoLostWakeup'
  OBVIOUS
<1>1. UiOK /\ UiRuns /\ NoLostWakeup
  BY DEF PumpInv, TypeInv, TypeOK
<1>2. ASSUME NEW i \in Items, SubmitQueued(i) PROVE NoLostWakeup'
  BY <1>1, <1>2 DEF SubmitQueued, PromisePump, NoLostWakeup, UiRuns
<1>3. CASE PostNextIfNeeded
  BY <1>1, <1>3 DEF PostNextIfNeeded, PromisePump, NoLostWakeup, UiRuns
<1>4. CASE PostPumpThrows \/ Shutdown
  BY <1>4 DEF PostPumpThrows, Shutdown, DrainAll, NoLostWakeup
<1>5. CASE PumpTake
  BY <1>5 DEF PumpTake, Take, UiIdle, NoLostWakeup
<1>6. ASSUME NEW i \in Items, CancelQueued(i) PROVE NoLostWakeup'
  <2>1. extQ # <<>> \/ lifeQ # <<>>
    BY <1>6 DEF CancelQueued
  <2>2. UNCHANGED <<pumpPosted, ui>>
    BY <1>6 DEF CancelQueued
  <2> QED
    BY <1>1, <2>1, <2>2 DEF NoLostWakeup
<1>7. CASE CancelAllQueuedExternal
  BY <1>1, <1>7 DEF CancelAllQueuedExternal, NoLostWakeup
<1>8. CASE PumpRefuse \/ PumpExecute \/ PumpFinish
  <2>1. ui'.pc \in {"executed", "next"}
    BY <1>1, <1>8 DEF PumpRefuse, PumpExecute, PumpFinish, UiIdle, UiOK
  <2> QED
    BY <2>1 DEF NoLostWakeup
<1>9. ASSUME UNCHANGED <<pumpPosted, ui, extQ, lifeQ>> PROVE NoLostWakeup'
  BY <1>1, <1>9 DEF NoLostWakeup
<1> QED
  BY <1>2, <1>3, <1>4, <1>5, <1>6, <1>7, <1>8, <1>9 DEF Next, vars, RequestCancel,
     DeadlinePasses, SubmitRejected, CompleteRemoved, Post, PostPumpAccepted,
     CloseExternalAdmission, ReopenExternalAdmission, Pump

\* The inductive invariant of the pumps holds in every reachable state.
LEMMA PumpInvariant == Spec => []PumpInv
<1>1. Init => PumpInv
  <2> SUFFICES ASSUME Init PROVE PumpInv
    OBVIOUS
  <2>1. TypeInv
    BY InitType DEF TypeInv, UiRuns, Init, UiIdle
  <2>2. OnePumpInFlight /\ NoLostWakeup
    BY DEF Init, OnePumpInFlight, NoLostWakeup
  <2> QED
    BY <2>1, <2>2 DEF PumpInv
<1>2. PumpInv /\ [Next]_vars => PumpInv'
  BY NextType, OnePumpStep, NoLostWakeupStep DEF PumpInv
<1> QED
  BY <1>1, <1>2, PTL DEF Spec

\* At most one pump is on its way, and none while an operation runs, so the
\* operations of PumpOne never nest, for any number of submitting threads.
THEOREM PumpsNeverNest == Spec => []OnePumpInFlight
<1>1. PumpInv => OnePumpInFlight
  BY DEF PumpInv
<1> QED
  BY <1>1, PumpInvariant, PTL

\* Queued work always has somebody who will look at it.
THEOREM WakeupsNeverLost == Spec => []NoLostWakeup
<1>1. PumpInv => NoLostWakeup
  BY DEF PumpInv
<1> QED
  BY <1>1, PumpInvariant, PTL

-----------------------------------------------------------------------------
\* After Shutdown, or after a refused callback, nothing is ever queued again.
THEOREM ShutdownFinal == Spec => []ShutdownIsFinal
<1>1. Init => ShutdownIsFinal
  BY DEF Init, ShutdownIsFinal
<1>2. ShutdownIsFinal /\ [Next]_vars => ShutdownIsFinal'
  <2> SUFFICES ASSUME ShutdownIsFinal, [Next]_vars PROVE ShutdownIsFinal'
    OBVIOUS
  <2>1. ASSUME NEW i \in Items, SubmitQueued(i) PROVE ShutdownIsFinal'
    BY <2>1 DEF SubmitQueued, Rejection, ShutdownIsFinal
  <2>2. ASSUME NEW i \in Items, CancelQueued(i) PROVE ShutdownIsFinal'
    BY <2>2 DEF CancelQueued, ShutdownIsFinal
  <2>3. CASE PumpTake
    BY <2>3 DEF PumpTake, ShutdownIsFinal
  <2>4. CASE Post
    BY <2>4 DEF Post, PostPumpAccepted, PostPumpThrows, DrainAll, ShutdownIsFinal
  <2>5. CASE Shutdown \/ CloseExternalAdmission \/ ReopenExternalAdmission
             \/ CancelAllQueuedExternal
    BY <2>5 DEF Shutdown, DrainAll, CloseExternalAdmission, ReopenExternalAdmission,
       CancelAllQueuedExternal, ShutdownIsFinal
  <2>6. CASE PostNextIfNeeded
    BY <2>6 DEF PostNextIfNeeded, PromisePump, ShutdownIsFinal
  <2>7. ASSUME UNCHANGED <<accepting, shutdown, extQ, lifeQ>> PROVE ShutdownIsFinal'
    BY <2>7 DEF ShutdownIsFinal
  <2> QED
    BY <2>1, <2>2, <2>3, <2>4, <2>5, <2>6, <2>7 DEF Next, vars, RequestCancel,
       DeadlinePasses, SubmitRejected, CompleteRemoved, Pump, PumpRefuse, PumpExecute,
       PumpFinish
<1> QED
  BY <1>1, <1>2, PTL DEF Spec

-----------------------------------------------------------------------------
(* The promise to the submitters.  An item is in one place at a time:      *)
(* queued, owed a completion, or in the hands of the UI thread; only there *)
(* may it still be answered, and it has not run yet.                       *)

NoDuplicates(s) == \A k, l \in 1..Len(s) : s[k] = s[l] => k = l
Held(i) == ui.pc \in {"refuse", "execute"} /\ ui.item = i
Waiting(i) == Queued(i) \/ removed[i] # "none" \/ Held(i)

Distinct == NoDuplicates(extQ) /\ NoDuplicates(lifeQ)
OnePlace ==
    \A i \in Items :
        /\ Queued(i) => removed[i] = "none" /\ ~Held(i)
        /\ removed[i] # "none" => ~Held(i)
WaitingIsPending ==
    \A i \in Items :
        /\ Waiting(i) => i \in submitted /\ answer[i] = "pending" /\ executions[i] = 0
        /\ i \notin submitted => answer[i] = "pending" /\ executions[i] = 0
\* What a thread owes an item it removed says that the item never ran.
OwedKinds == \A i \in Items : removed[i] \in {"none", "Cancelled", "ShuttingDown", "Failed"}
AnsweredOnce ==
    \A i \in Items :
        /\ executions[i] \in {0, 1}
        /\ answer[i] \in BeforeStart => executions[i] = 0
        /\ answer[i] = "Completed" => executions[i] = 1

ItemInv == Distinct /\ OnePlace /\ WaitingIsPending /\ OwedKinds /\ AnsweredOnce

\* Unlinking a node keeps the order of the others.
LEMMA RemoveAtElements ==
    ASSUME NEW S, NEW s \in Seq(S), NEW k \in 1..Len(s)
    PROVE  /\ Len(RemoveAt(s, k)) = Len(s) - 1
           /\ \A j \in 1..(Len(s) - 1) :
                 RemoveAt(s, k)[j] = IF j < k THEN s[j] ELSE s[j + 1]
<1> DEFINE left == SubSeq(s, 1, k - 1)
           right == SubSeq(s, k + 1, Len(s))
<1>1. left \in Seq(S) /\ Len(left) = k - 1 /\ \A j \in 1..(k - 1) : left[j] = s[j]
  OBVIOUS
<1>2. /\ right \in Seq(S) /\ Len(right) = Len(s) - k
      /\ \A j \in 1..(Len(s) - k) : right[j] = s[k + j]
  OBVIOUS
<1>3. RemoveAt(s, k) = left \o right
  BY DEF RemoveAt
<1> HIDE DEF left, right
<1>4. /\ Len(left \o right) = Len(s) - 1
      /\ \A j \in 1..(k - 1) : (left \o right)[j] = left[j]
      /\ \A j \in k..(Len(s) - 1) : (left \o right)[j] = right[j - (k - 1)]
  <2>1. Len(left \o right) = Len(left) + Len(right)
    BY <1>1, <1>2, ConcatProperties
  <2>2. \A j \in 1..(Len(left) + Len(right)) :
          (left \o right)[j] = IF j <= Len(left) THEN left[j] ELSE right[j - Len(left)]
    BY <1>1, <1>2, ConcatProperties
  <2>3. \A j \in 1..(k - 1) : (left \o right)[j] = left[j]
    BY <1>1, <1>2, <2>2
  <2>4. ASSUME NEW j \in k..(Len(s) - 1) PROVE (left \o right)[j] = right[j - (k - 1)]
    <3>1. j \in 1..(Len(left) + Len(right)) /\ ~(j <= Len(left))
      BY <1>1, <1>2
    <3> QED
      BY <1>1, <2>2, <3>1
  <2>5. Len(left \o right) = Len(s) - 1
    BY <1>1, <1>2, <2>1
  <2> QED
    BY <2>3, <2>4, <2>5
<1>5. \A j \in 1..(Len(s) - 1) : j >= k => right[j - (k - 1)] = s[j + 1]
  <2> SUFFICES ASSUME NEW j \in 1..(Len(s) - 1), j >= k PROVE right[j - (k - 1)] = s[j + 1]
    OBVIOUS
  <2>1. j - (k - 1) \in 1..(Len(s) - k) /\ k + (j - (k - 1)) = j + 1
    OBVIOUS
  <2> QED
    BY <1>2, <2>1
<1>6. ASSUME NEW j \in 1..(Len(s) - 1)
      PROVE  RemoveAt(s, k)[j] = IF j < k THEN s[j] ELSE s[j + 1]
  <2>1. CASE j < k
    <3>1. j \in 1..(k - 1)
      BY <2>1
    <3>2. (left \o right)[j] = s[j]
      BY <1>1, <1>4, <3>1
    <3> QED
      BY <1>3, <2>1, <3>2
  <2>2. CASE ~(j < k)
    <3>1. j \in k..(Len(s) - 1) /\ j >= k
      BY <2>2
    <3>2. (left \o right)[j] = s[j + 1]
      BY <1>4, <1>5, <3>1
    <3> QED
      BY <1>3, <2>2, <3>2
  <2> QED
    BY <2>1, <2>2
<1> QED
  BY <1>3, <1>4, <1>6

\* A queue without duplicates stays one when a node is unlinked, and the
\* unlinked item is gone.
LEMMA RemoveAtDistinct ==
    ASSUME NEW S, NEW s \in Seq(S), NEW k \in 1..Len(s), NoDuplicates(s)
    PROVE  /\ NoDuplicates(RemoveAt(s, k))
           /\ \A j \in 1..Len(RemoveAt(s, k)) :
                 /\ RemoveAt(s, k)[j] # s[k]
                 /\ \E l \in 1..Len(s) : RemoveAt(s, k)[j] = s[l]
<1> DEFINE r == RemoveAt(s, k)
           from(j) == IF j < k THEN j ELSE j + 1
<1>1. Len(r) = Len(s) - 1 /\ \A j \in 1..Len(r) : r[j] = s[from(j)]
  BY RemoveAtElements
<1>2. \A j \in 1..Len(r) : from(j) \in 1..Len(s) /\ from(j) # k
  BY <1>1
<1>3. \A i, j \in 1..Len(r) : from(i) = from(j) => i = j
  OBVIOUS
<1> HIDE DEF r, from
<1>4. NoDuplicates(r)
  BY <1>1, <1>2, <1>3 DEF NoDuplicates
<1>5. \A j \in 1..Len(r) : r[j] # s[k] /\ \E l \in 1..Len(s) : r[j] = s[l]
  BY <1>1, <1>2 DEF NoDuplicates
<1> QED
  BY <1>4, <1>5 DEF r

\* The rest of a queue without duplicates has none, and not its head.
LEMMA TailDistinct ==
    ASSUME NEW S, NEW s \in Seq(S), s # <<>>, NoDuplicates(s)
    PROVE  /\ NoDuplicates(Tail(s))
           /\ \A j \in 1..Len(Tail(s)) :
                 Tail(s)[j] # Head(s) /\ \E l \in 1..Len(s) : Tail(s)[j] = s[l]
<1>1. Len(Tail(s)) = Len(s) - 1 /\ \A j \in 1..Len(Tail(s)) : Tail(s)[j] = s[j + 1]
  OBVIOUS
<1>2. Head(s) = s[1] /\ 1 \in 1..Len(s)
  OBVIOUS
<1> QED
  BY <1>1, <1>2 DEF NoDuplicates

\* A new item at the end of a queue makes no duplicate.
LEMMA AppendDistinct ==
    ASSUME NEW S, NEW s \in Seq(S), NEW x \in S, NoDuplicates(s), \A k \in 1..Len(s) : s[k] # x
    PROVE  /\ NoDuplicates(Append(s, x))
           /\ \A j \in 1..Len(Append(s, x)) :
                 Append(s, x)[j] = x \/ \E l \in 1..Len(s) : Append(s, x)[j] = s[l]
<1>1. /\ Len(Append(s, x)) = Len(s) + 1 /\ Append(s, x)[Len(s) + 1] = x
      /\ \A j \in 1..Len(s) : Append(s, x)[j] = s[j]
  OBVIOUS
<1> QED
  BY <1>1 DEF NoDuplicates

\* Where an item may be after a step in which it entered no place.
LEMMA PlacesShrink ==
    ASSUME ItemInv, Distinct', OwedKinds',
           UNCHANGED <<submitted, answer, executions>>,
           \A j \in Items :
               /\ Queued(j)' => Queued(j)
               /\ removed'[j] # "none" => removed[j] # "none" \/ (Queued(j) /\ ~Queued(j)')
               /\ Held(j)' => Held(j) \/ (Queued(j) /\ ~Queued(j)' /\ removed'[j] = "none")
    PROVE  ItemInv'
<1>1. \A j \in Items : Waiting(j)' => Waiting(j)
  BY DEF Waiting
<1>2. OnePlace'
  BY DEF ItemInv, OnePlace
<1>3. WaitingIsPending'
  BY <1>1 DEF ItemInv, WaitingIsPending
<1>4. AnsweredOnce'
  BY DEF ItemInv, AnsweredOnce
<1> QED
  BY <1>2, <1>3, <1>4 DEF ItemInv

\* A refused submission keeps every item in one place.
LEMMA SubmitRejectedItems ==
    ASSUME TypeInv, ItemInv, NEW i \in Items, SubmitRejected(i) PROVE ItemInv'
<1>1. /\ i \notin submitted /\ submitted' = submitted \cup {i}
      /\ answer' = [answer EXCEPT ![i] = Rejection(i)]
      /\ UNCHANGED <<extQ, lifeQ, removed, ui, executions>>
  BY DEF SubmitRejected
<1>2. Rejection(i) \in BeforeStart
  BY DEF SubmitRejected, Rejection, BeforeStart
<1>3. ~Waiting(i) /\ executions[i] = 0
  BY <1>1 DEF ItemInv, WaitingIsPending
<1>4. \A j \in Items : (Queued(j)' <=> Queued(j)) /\ (Held(j)' <=> Held(j)) /\ (Waiting(j)' <=> Waiting(j))
  BY <1>1 DEF Queued, Held, Waiting
<1>5. \A j \in Items : answer'[j] = IF j = i THEN Rejection(i) ELSE answer[j]
  BY <1>1 DEF TypeInv, TypeOK, AnswerOK
<1>6. Distinct' /\ OnePlace' /\ OwedKinds'
  BY <1>1, <1>4 DEF ItemInv, Distinct, OnePlace, OwedKinds
<1>7. WaitingIsPending'
  BY <1>1, <1>3, <1>4, <1>5 DEF ItemInv, WaitingIsPending
<1>8. AnsweredOnce'
  BY <1>1, <1>2, <1>3, <1>5 DEF ItemInv, AnsweredOnce, BeforeStart
<1> QED
  BY <1>6, <1>7, <1>8 DEF ItemInv

\* An accepted submission keeps every item in one place.
LEMMA SubmitQueuedItems ==
    ASSUME TypeInv, ItemInv, NEW i \in Items, SubmitQueued(i) PROVE ItemInv'
<1>1. /\ i \notin submitted /\ submitted' = submitted \cup {i}
      /\ UNCHANGED <<removed, ui, answer, executions>>
      /\ \/ i \in External /\ extQ' = Append(extQ, i) /\ lifeQ' = lifeQ
         \/ i \in Lifecycle /\ lifeQ' = Append(lifeQ, i) /\ extQ' = extQ
  BY DEF SubmitQueued, Items
<1>2. ~Queued(i) /\ removed[i] = "none" /\ ~Held(i) /\ answer[i] = "pending" /\ executions[i] = 0
  BY <1>1 DEF ItemInv, WaitingIsPending, Waiting
<1>3. /\ extQ \in Seq(External) /\ lifeQ \in Seq(Lifecycle)
      /\ NoDuplicates(extQ) /\ NoDuplicates(lifeQ)
  BY DEF TypeInv, TypeOK, QueuesOK, ItemInv, Distinct
<1>4. Distinct' /\ \A j \in Items : Queued(j)' => Queued(j) \/ j = i
  <2>1. CASE i \in External /\ extQ' = Append(extQ, i) /\ lifeQ' = lifeQ
    <3>1. \A k \in 1..Len(extQ) : extQ[k] # i
      BY <1>2, <1>3 DEF Queued
    <3>2. /\ NoDuplicates(extQ')
          /\ \A k \in 1..Len(extQ') : extQ'[k] = i \/ \E l \in 1..Len(extQ) : extQ'[k] = extQ[l]
      BY <1>3, <2>1, <3>1, AppendDistinct
    <3>3. DOMAIN extQ' = 1..Len(extQ')
      BY <1>3, <2>1
    <3>4. DOMAIN extQ = 1..Len(extQ)
      BY <1>3
    <3> QED
      BY <1>3, <2>1, <3>2, <3>3, <3>4 DEF Distinct, Queued
  <2>2. CASE i \in Lifecycle /\ lifeQ' = Append(lifeQ, i) /\ extQ' = extQ
    <3>1. \A k \in 1..Len(lifeQ) : lifeQ[k] # i
      BY <1>2, <1>3 DEF Queued
    <3>2. /\ NoDuplicates(lifeQ')
          /\ \A k \in 1..Len(lifeQ') : lifeQ'[k] = i \/ \E l \in 1..Len(lifeQ) : lifeQ'[k] = lifeQ[l]
      BY <1>3, <2>2, <3>1, AppendDistinct
    <3>3. DOMAIN lifeQ' = 1..Len(lifeQ')
      BY <1>3, <2>2
    <3>4. DOMAIN lifeQ = 1..Len(lifeQ)
      BY <1>3
    <3> QED
      BY <1>3, <2>2, <3>2, <3>3, <3>4 DEF Distinct, Queued
  <2> QED
    BY <1>1, <2>1, <2>2
<1>5. \A j \in Items : Held(j)' <=> Held(j)
  BY <1>1 DEF Held
<1>6. OnePlace' /\ OwedKinds' /\ AnsweredOnce'
  BY <1>1, <1>2, <1>4, <1>5 DEF ItemInv, OnePlace, OwedKinds, AnsweredOnce
<1>7. WaitingIsPending'
  BY <1>1, <1>2, <1>4, <1>5 DEF ItemInv, WaitingIsPending, Waiting
<1> QED
  BY <1>4, <1>6, <1>7 DEF ItemInv

\* Draining a queue, or both, owes every drained item the same completion.
LEMMA DrainItems ==
    ASSUME TypeInv, ItemInv,
           NEW kind \in {"Cancelled", "ShuttingDown", "Failed"},
           extQ' = <<>>, lifeQ' \in {lifeQ, <<>>},
           \A j \in Items : removed'[j] = IF Queued(j) /\ ~Queued(j)' THEN kind ELSE removed[j],
           UNCHANGED <<ui, answer, submitted, executions>>
    PROVE  ItemInv'
<1>1. \A j \in Items : Queued(j)' => Queued(j)
  BY DEF Queued
<1>2. Distinct'
  BY DEF ItemInv, Distinct, NoDuplicates
<1>3. OwedKinds'
  BY DEF ItemInv, OwedKinds
<1>4. \A j \in Items : Held(j)' => Held(j)
  BY DEF Held
<1> QED
  BY <1>1, <1>2, <1>3, <1>4, PlacesShrink

\* One item is unlinked from the queue it is in; somebody owes it its completion.
LEMMA CancelQueuedItems ==
    ASSUME TypeInv, ItemInv, NEW i \in Items, CancelQueued(i) PROVE ItemInv'
<1>1. /\ UNCHANGED <<ui, answer, submitted, executions>>
      /\ removed' = [removed EXCEPT ![i] = "Cancelled"]
  BY DEF CancelQueued
<1>2. /\ extQ \in Seq(External) /\ lifeQ \in Seq(Lifecycle)
      /\ NoDuplicates(extQ) /\ NoDuplicates(lifeQ)
  BY DEF TypeInv, TypeOK, QueuesOK, ItemInv, Distinct
<1>3. Distinct' /\ Queued(i) /\ ~Queued(i)' /\ \A j \in Items : Queued(j)' => Queued(j)
  <2>1. ASSUME NEW k \in DOMAIN extQ, extQ[k] = i, extQ' = RemoveAt(extQ, k), lifeQ' = lifeQ
        PROVE  Distinct' /\ Queued(i) /\ ~Queued(i)' /\ \A j \in Items : Queued(j)' => Queued(j)
    <3>1. k \in 1..Len(extQ) /\ DOMAIN extQ = 1..Len(extQ) /\ DOMAIN lifeQ = 1..Len(lifeQ)
      BY <1>2, <2>1
    <3>2. /\ NoDuplicates(extQ')
          /\ \A j \in 1..Len(extQ') : extQ'[j] # i /\ \E l \in 1..Len(extQ) : extQ'[j] = extQ[l]
      BY <1>2, <2>1, <3>1, RemoveAtDistinct
    <3>3. extQ' \in Seq(External)
      BY <1>2, <2>1, RemoveAtType
    <3>4. DOMAIN extQ' = 1..Len(extQ')
      BY <3>3
    <3>5. i \in External
      BY <1>2, <2>1, <3>1
    <3>6. \A l \in DOMAIN lifeQ : lifeQ[l] # i
      BY <1>2, <3>1, <3>5, DispatcherAssumption
    <3> QED
      BY <1>2, <2>1, <3>1, <3>2, <3>4, <3>6 DEF Distinct, Queued
  <2>2. ASSUME NEW k \in DOMAIN lifeQ, lifeQ[k] = i, lifeQ' = RemoveAt(lifeQ, k), extQ' = extQ
        PROVE  Distinct' /\ Queued(i) /\ ~Queued(i)' /\ \A j \in Items : Queued(j)' => Queued(j)
    <3>1. k \in 1..Len(lifeQ) /\ DOMAIN extQ = 1..Len(extQ) /\ DOMAIN lifeQ = 1..Len(lifeQ)
      BY <1>2, <2>2
    <3>2. /\ NoDuplicates(lifeQ')
          /\ \A j \in 1..Len(lifeQ') : lifeQ'[j] # i /\ \E l \in 1..Len(lifeQ) : lifeQ'[j] = lifeQ[l]
      BY <1>2, <2>2, <3>1, RemoveAtDistinct
    <3>3. lifeQ' \in Seq(Lifecycle)
      BY <1>2, <2>2, RemoveAtType
    <3>4. DOMAIN lifeQ' = 1..Len(lifeQ')
      BY <3>3
    <3>5. i \in Lifecycle
      BY <1>2, <2>2, <3>1
    <3>6. \A l \in DOMAIN extQ : extQ[l] # i
      BY <1>2, <3>1, <3>5, DispatcherAssumption
    <3> QED
      BY <1>2, <2>2, <3>1, <3>2, <3>4, <3>6 DEF Distinct, Queued
  <2> QED
    BY <2>1, <2>2 DEF CancelQueued
<1>4. \A j \in Items : removed'[j] = IF j = i THEN "Cancelled" ELSE removed[j]
  BY <1>1 DEF TypeInv, TypeOK, RemovedOK
<1>5. OwedKinds'
  BY <1>4 DEF ItemInv, OwedKinds
<1>6. \A j \in Items : Held(j)' => Held(j)
  BY <1>1 DEF Held
<1> QED
  BY <1>1, <1>3, <1>4, <1>5, <1>6, PlacesShrink

\* The answer of a removed item keeps every item in one place.
LEMMA CompleteRemovedItems ==
    ASSUME TypeInv, ItemInv, NEW i \in Items, CompleteRemoved(i) PROVE ItemInv'
<1>1. /\ removed[i] # "none" /\ removed' = [removed EXCEPT ![i] = "none"]
      /\ UNCHANGED <<extQ, lifeQ, ui, submitted, executions>>
  BY DEF CompleteRemoved
<1>2. i \in submitted /\ answer[i] = "pending" /\ executions[i] = 0 /\ ~Queued(i) /\ ~Held(i)
  BY <1>1 DEF ItemInv, WaitingIsPending, OnePlace, Waiting
<1>3. \A j \in Items : answer'[j] = IF j = i THEN removed[i] ELSE answer[j]
  BY <1>2 DEF CompleteRemoved, TrySetResult, TypeInv, TypeOK, AnswerOK
<1>4. \A j \in Items : removed'[j] = IF j = i THEN "none" ELSE removed[j]
  BY <1>1 DEF TypeInv, TypeOK, RemovedOK
<1>5. \A j \in Items : (Queued(j)' <=> Queued(j)) /\ (Held(j)' <=> Held(j))
  BY <1>1 DEF Queued, Held
<1>6. Distinct' /\ OnePlace' /\ OwedKinds'
  BY <1>1, <1>4, <1>5 DEF ItemInv, Distinct, OnePlace, OwedKinds
<1>7. WaitingIsPending'
  BY <1>1, <1>2, <1>3, <1>4, <1>5 DEF ItemInv, WaitingIsPending, Waiting
<1>8. removed[i] \in {"Cancelled", "ShuttingDown", "Failed"}
  BY <1>1 DEF ItemInv, OwedKinds
<1>9. AnsweredOnce'
  BY <1>1, <1>2, <1>3, <1>8 DEF ItemInv, AnsweredOnce
<1> QED
  BY <1>6, <1>7, <1>9 DEF ItemInv

\* The head of a queue goes into the hands of the UI thread.
LEMMA PumpTakeItems == ASSUME TypeInv, ItemInv, PumpTake PROVE ItemInv'
<1>1. ui.pc = "idle" /\ UNCHANGED <<removed, answer, submitted, executions>>
  BY DEF PumpTake
<1>2. /\ extQ \in Seq(External) /\ lifeQ \in Seq(Lifecycle)
      /\ NoDuplicates(extQ) /\ NoDuplicates(lifeQ)
  BY DEF TypeInv, TypeOK, QueuesOK, ItemInv, Distinct
<1>3. OwedKinds'
  BY <1>1 DEF ItemInv, OwedKinds
<1>4. ASSUME NEW i \in Items, Take(i), Queued(i), ~Queued(i)', Distinct',
             \A j \in Items : Queued(j)' => Queued(j)
      PROVE  ItemInv'
  <2>1. ui'.item = i
    BY <1>4 DEF Take
  <2>2. \A j \in Items : Held(j)' => j = i
    BY <2>1 DEF Held
  <2>3. removed[i] = "none"
    BY <1>4 DEF ItemInv, OnePlace
  <2> QED
    BY <1>1, <1>3, <1>4, <2>2, <2>3, PlacesShrink
<1>5. ASSUME NEW i \in Items, i = Head(lifeQ), lifeQ # <<>>, Take(i), lifeQ' = Tail(lifeQ), extQ' = extQ
      PROVE  ItemInv'
  <2>1. i \in Lifecycle /\ Tail(lifeQ) \in Seq(Lifecycle) /\ i = lifeQ[1]
    BY <1>2, <1>5
  <2>2. /\ NoDuplicates(lifeQ')
        /\ \A j \in 1..Len(lifeQ') :
             lifeQ'[j] # i /\ \E l \in 1..Len(lifeQ) : lifeQ'[j] = lifeQ[l]
    BY <1>2, <1>5, TailDistinct
  <2>3. /\ DOMAIN lifeQ' = 1..Len(lifeQ') /\ DOMAIN lifeQ = 1..Len(lifeQ) /\ 1 \in DOMAIN lifeQ
        /\ DOMAIN extQ = 1..Len(extQ)
    BY <1>2, <1>5, <2>1
  <2>4. \A l \in DOMAIN extQ : extQ[l] # i
    BY <1>2, <2>1, <2>3, DispatcherAssumption
  <2>5. Distinct' /\ Queued(i) /\ ~Queued(i)'
    <3>1. Distinct'
      BY <1>2, <1>5, <2>2 DEF Distinct
    <3>2. Queued(i)
      BY <2>1, <2>3 DEF Queued
    <3>3. ASSUME Queued(i)' PROVE FALSE
      <4>1. /\ \A l \in DOMAIN extQ' : extQ'[l] # i
            /\ \A l \in DOMAIN lifeQ' : lifeQ'[l] # i
        BY <1>5, <2>2, <2>3, <2>4
      <4> QED
        BY <3>3, <4>1 DEF Queued
    <3> QED
      BY <3>1, <3>2, <3>3
  <2>6. \A j \in Items : Queued(j)' => Queued(j)
    BY <1>5, <2>2, <2>3 DEF Queued
  <2> QED
    BY <1>4, <1>5, <2>5, <2>6
<1>6. ASSUME NEW i \in Items, i = Head(extQ), extQ # <<>>, Take(i), extQ' = Tail(extQ), lifeQ' = lifeQ
      PROVE  ItemInv'
  <2>1. i \in External /\ Tail(extQ) \in Seq(External) /\ i = extQ[1]
    BY <1>2, <1>6
  <2>2. /\ NoDuplicates(extQ')
        /\ \A j \in 1..Len(extQ') :
             extQ'[j] # i /\ \E l \in 1..Len(extQ) : extQ'[j] = extQ[l]
    BY <1>2, <1>6, TailDistinct
  <2>3. /\ DOMAIN extQ' = 1..Len(extQ') /\ DOMAIN extQ = 1..Len(extQ) /\ 1 \in DOMAIN extQ
        /\ DOMAIN lifeQ = 1..Len(lifeQ)
    BY <1>2, <1>6, <2>1
  <2>4. \A l \in DOMAIN lifeQ : lifeQ[l] # i
    BY <1>2, <2>1, <2>3, DispatcherAssumption
  <2>5. Distinct' /\ Queued(i) /\ ~Queued(i)'
    <3>1. Distinct'
      BY <1>2, <1>6, <2>2 DEF Distinct
    <3>2. Queued(i)
      BY <2>1, <2>3 DEF Queued
    <3>3. ASSUME Queued(i)' PROVE FALSE
      <4>1. /\ \A l \in DOMAIN lifeQ' : lifeQ'[l] # i
            /\ \A l \in DOMAIN extQ' : extQ'[l] # i
        BY <1>6, <2>2, <2>3, <2>4
      <4> QED
        BY <3>3, <4>1 DEF Queued
    <3> QED
      BY <3>1, <3>2, <3>3
  <2>6. \A j \in Items : Queued(j)' => Queued(j)
    BY <1>6, <2>2, <2>3 DEF Queued
  <2> QED
    BY <1>4, <1>6, <2>5, <2>6
<1>7. ASSUME ui' = [UiIdle EXCEPT !.pc = "next"], UNCHANGED <<extQ, lifeQ>> PROVE ItemInv'
  <2>1. \A j \in Items : Queued(j)' => Queued(j)
    BY <1>7 DEF Queued
  <2>2. \A j \in Items : ~Held(j)'
    BY <1>7 DEF Held, UiIdle
  <2>3. Distinct'
    BY <1>7 DEF ItemInv, Distinct
  <2> QED
    BY <1>1, <1>3, <2>1, <2>2, <2>3, PlacesShrink
<1>8. (lifeQ # <<>> => Head(lifeQ) \in Items) /\ (extQ # <<>> => Head(extQ) \in Items)
  BY <1>2 DEF Items
<1> QED
  BY <1>5, <1>6, <1>7, <1>8 DEF PumpTake

\* The UI thread answers the item in its hands.
LEMMA PumpAnswersItems ==
    ASSUME TypeInv, ItemInv, PumpRefuse \/ PumpExecute PROVE ItemInv'
<1> DEFINE i == ui.item
<1>1. i \in Items /\ Held(i) /\ ui.pc \in {"refuse", "execute"}
  BY DEF PumpRefuse, PumpExecute, Held, TypeInv, UiRuns
<1>2. Waiting(i)
  BY <1>1 DEF Waiting
<1>3. i \in submitted /\ answer[i] = "pending" /\ executions[i] = 0
  BY <1>1, <1>2 DEF ItemInv, WaitingIsPending
<1>4. ~Queued(i) /\ removed[i] = "none"
  BY <1>1 DEF ItemInv, OnePlace
<1>5. UNCHANGED <<extQ, lifeQ, removed, submitted>>
  BY DEF PumpRefuse, PumpExecute
<1>6. \A j \in Items : ~Held(j)' /\ (Queued(j)' <=> Queued(j))
  BY <1>5 DEF PumpRefuse, PumpExecute, Held, UiIdle, Queued, TypeInv, TypeOK, UiOK
<1>7. Distinct' /\ OnePlace' /\ OwedKinds'
  BY <1>5, <1>6 DEF ItemInv, Distinct, OnePlace, OwedKinds
<1>8. PICK kind \in Kinds :
          /\ \A j \in Items : answer'[j] = IF j = i THEN kind ELSE answer[j]
          /\ \/ PumpRefuse /\ kind \in BeforeStart
             \/ PumpExecute /\ kind \in {"Completed", "Failed"}
  <2>1. CASE PumpRefuse
    <3>1. ui.kind \in BeforeStart
      BY <2>1 DEF PumpRefuse, TypeInv, TypeOK, UiOK, UiRuns, BeforeStart
    <3> QED
      BY <1>3, <2>1, <3>1 DEF PumpRefuse, TrySetResult, TypeInv, TypeOK, AnswerOK, Kinds
  <2>2. CASE PumpExecute
    BY <1>3, <2>2 DEF PumpExecute, TrySetResult, TypeInv, TypeOK, AnswerOK, Kinds
  <2> QED
    BY <2>1, <2>2
<1>9. \A j \in Items : /\ j # i => executions'[j] = executions[j]
                       /\ PumpRefuse => executions'[j] = executions[j]
  BY DEF PumpRefuse, PumpExecute, TypeInv, TypeOK, ExecutionsOK
<1>10. PumpExecute => executions'[i] = 1
  BY <1>1, <1>3 DEF PumpExecute, TypeInv, TypeOK, ExecutionsOK
<1> HIDE DEF i
<1>11. WaitingIsPending'
  BY <1>3, <1>4, <1>5, <1>6, <1>8, <1>9 DEF ItemInv, WaitingIsPending, Waiting
<1>12. AnsweredOnce'
  BY <1>3, <1>8, <1>9, <1>10 DEF ItemInv, AnsweredOnce, BeforeStart
<1> QED
  BY <1>7, <1>11, <1>12 DEF ItemInv

\* Every step keeps every item in one place.
LEMMA NextItems == TypeInv /\ ItemInv /\ [Next]_vars => ItemInv'
<1> SUFFICES ASSUME TypeInv, ItemInv, [Next]_vars PROVE ItemInv'
  OBVIOUS
<1>1. ASSUME NEW kind \in {"ShuttingDown", "Failed"}, DrainAll(kind),
             UNCHANGED <<ui, answer, submitted, executions>>
      PROVE  ItemInv'
  <2>1. \A j \in Items : (j \in QueuedItems <=> Queued(j)) /\ ~Queued(j)'
    BY <1>1 DEF QueuedItems, Queued, Range, DrainAll
  <2>2. \A j \in Items : removed'[j] = IF Queued(j) /\ ~Queued(j)' THEN kind ELSE removed[j]
    BY <1>1, <2>1 DEF DrainAll
  <2> QED
    BY <1>1, <2>2, DrainItems DEF DrainAll
<1>2. CASE CancelAllQueuedExternal
  <2>1. \A j \in Items : j \in Range(extQ) <=> Queued(j) /\ ~Queued(j)'
    <3>1. /\ extQ \in Seq(External) /\ lifeQ \in Seq(Lifecycle)
          /\ \A k \in DOMAIN extQ : extQ[k] \in External
          /\ \A k \in DOMAIN lifeQ : lifeQ[k] \in Lifecycle
      BY DEF TypeInv, TypeOK, QueuesOK
    <3>2. extQ' = <<>> /\ lifeQ' = lifeQ
      BY <1>2 DEF CancelAllQueuedExternal
    <3> QED
      BY <3>1, <3>2, DispatcherAssumption DEF Range, Queued
  <2>2. \A j \in Items : removed'[j] = IF Queued(j) /\ ~Queued(j)' THEN "Cancelled" ELSE removed[j]
    BY <1>2, <2>1 DEF CancelAllQueuedExternal
  <2> QED
    BY <1>2, <2>2, DrainItems DEF CancelAllQueuedExternal
<1>3. ASSUME UNCHANGED <<extQ, lifeQ, removed, answer, submitted, executions>>,
             ui' = ui \/ ui'.pc \notin {"refuse", "execute"}
      PROVE  ItemInv'
  <2>1. \A j \in Items : (Queued(j)' => Queued(j)) /\ (Held(j)' => Held(j))
    BY <1>3 DEF Queued, Held
  <2>2. Distinct' /\ OwedKinds'
    BY <1>3 DEF ItemInv, Distinct, OwedKinds
  <2> QED
    BY <1>3, <2>1, <2>2, PlacesShrink
<1>4. CASE PumpFinish \/ PostNextIfNeeded
  BY <1>3, <1>4 DEF PumpFinish, PostNextIfNeeded, UiIdle
<1>5. CASE PostPumpThrows \/ Shutdown
  BY <1>1, <1>5 DEF PostPumpThrows, Shutdown
<1>6. CASE PostPumpAccepted \/ CloseExternalAdmission \/ ReopenExternalAdmission \/ UNCHANGED vars
  BY <1>3, <1>6 DEF PostPumpAccepted, CloseExternalAdmission, ReopenExternalAdmission, vars
<1>7. ASSUME NEW i \in Items, RequestCancel(i) \/ DeadlinePasses(i) PROVE ItemInv'
  BY <1>3, <1>7 DEF RequestCancel, DeadlinePasses
<1> QED
  BY <1>2, <1>4, <1>5, <1>6, <1>7, SubmitRejectedItems, SubmitQueuedItems, CancelQueuedItems,
     CompleteRemovedItems, PumpTakeItems, PumpAnswersItems DEF Next, Post, Pump

\* The types and the places of the items hold in every reachable state.
LEMMA ItemInvariant == Spec => [](TypeInv /\ ItemInv)
<1>1. Init => TypeInv
  BY InitType DEF TypeInv, UiRuns, Init, UiIdle
<1>2. Init => ItemInv
  BY DEF Init, UiIdle, ItemInv, Distinct, NoDuplicates, OnePlace, WaitingIsPending, OwedKinds,
     AnsweredOnce, Waiting, Held, Queued, BeforeStart
<1>3. TypeInv /\ ItemInv /\ [Next]_vars => (TypeInv /\ ItemInv)'
  BY NextType, NextItems
<1> QED
  BY <1>1, <1>2, <1>3, PTL DEF Spec

\* The answer of an item tells the truth about its operation: refused work never
\* ran, completed work ran once, and nothing runs twice.
THEOREM AnswersTellExecution == Spec => []AnswerTellsExecution
<1>1. TypeInv /\ ItemInv => AnswerTellsExecution
  BY DEF ItemInv, AnsweredOnce, WaitingIsPending, Waiting, AnswerTellsExecution
<1> QED
  BY <1>1, ItemInvariant, PTL

-----------------------------------------------------------------------------
(* The dispatcher implements DispatcherContract: every step is a step of   *)
(* the contract for one item, or none.                                     *)

PhaseOf == [i \in Items |-> Phase(i)]

\* Nothing of an item's promise changes: the contract stutters.
LEMMA Stutters ==
    ASSUME UNCHANGED answer, \A j \in Items : Phase(j)' = Phase(j)
    PROVE  UNCHANGED Contract!contractVars
<1>1. PhaseOf' = PhaseOf
  BY DEF PhaseOf
<1> QED
  BY <1>1 DEF PhaseOf, Contract!contractVars

\* When one item changes its phase, the map of phases changes at that item.
LEMMA OnePhase ==
    ASSUME NEW i \in Items, NEW ph, \A j \in Items : Phase(j)' = IF j = i THEN ph ELSE Phase(j)
    PROVE  PhaseOf' = [PhaseOf EXCEPT ![i] = ph]
BY DEF PhaseOf

\* An item is refused before it started.
LEMMA Refuses ==
    ASSUME TypeInv, NEW i \in Items, NEW kind \in Contract!BeforeStart \cup {"Failed"},
           Phase(i) \in {"new", "queued"}, answer' = [answer EXCEPT ![i] = kind],
           \A j \in Items : j # i => Phase(j)' = Phase(j)
    PROVE  Contract!ContractNext
<1>1. Phase(i)' = "done"
  BY DEF Phase, TypeInv, TypeOK, AnswerOK, Contract!BeforeStart
<1>2. PhaseOf' = [PhaseOf EXCEPT ![i] = "done"]
  BY <1>1, OnePhase
<1>3. Contract!Refuse(i, kind)
  BY <1>2 DEF Contract!Refuse, PhaseOf
<1> QED
  BY <1>3 DEF Contract!ContractNext

\* Steps that touch neither answers nor admissions, and start nothing.
LEMMA QuietContract ==
    ASSUME UNCHANGED <<answer, submitted>>,
           ui' = ui \/ (ui.pc # "execute" /\ ui'.pc # "execute")
    PROVE  UNCHANGED Contract!contractVars
<1>1. \A j \in Items : Phase(j)' = Phase(j)
  BY DEF Phase
<1> QED
  BY <1>1, Stutters

\* Every step is a step of the contract for one item, or none.
LEMMA ContractStep ==
    TypeInv /\ ItemInv /\ [Next]_vars => [Contract!ContractNext]_(Contract!contractVars)
<1> SUFFICES ASSUME TypeInv, ItemInv, [Next]_vars
             PROVE  Contract!ContractNext \/ UNCHANGED Contract!contractVars
  OBVIOUS
<1> USE DEF BeforeStart, Contract!BeforeStart
<1>1. ASSUME NEW i \in Items, SubmitRejected(i) PROVE Contract!ContractNext
  <2>1. /\ i \notin submitted /\ submitted' = submitted \cup {i} /\ ui' = ui
        /\ answer' = [answer EXCEPT ![i] = Rejection(i)]
    BY <1>1 DEF SubmitRejected
  <2>2. Rejection(i) \in Contract!BeforeStart
    BY <1>1 DEF SubmitRejected, Rejection
  <2>3. Phase(i) = "new"
    BY <2>1 DEF Phase, ItemInv, WaitingIsPending
  <2>4. \A j \in Items : j # i => Phase(j)' = Phase(j)
    BY <2>1 DEF Phase, TypeInv, TypeOK, AnswerOK
  <2> QED
    BY <2>1, <2>2, <2>3, <2>4, Refuses
<1>2. ASSUME NEW i \in Items, SubmitQueued(i) PROVE Contract!ContractNext
  <2>1. i \notin submitted /\ submitted' = submitted \cup {i} /\ UNCHANGED <<answer, ui>>
    BY <1>2 DEF SubmitQueued
  <2>2. answer[i] = "pending" /\ ~Held(i)
    BY <2>1 DEF ItemInv, WaitingIsPending, Waiting
  <2>3. Phase(i) = "new" /\ Phase(i)' = "queued"
    BY <2>1, <2>2 DEF Phase, Held
  <2>4. \A j \in Items : j # i => Phase(j)' = Phase(j)
    BY <2>1 DEF Phase
  <2>5. PhaseOf' = [PhaseOf EXCEPT ![i] = "queued"]
    BY <2>3, <2>4, OnePhase
  <2>6. Contract!Enqueue(i)
    BY <2>1, <2>3, <2>5 DEF Contract!Enqueue, PhaseOf
  <2> QED
    BY <2>6 DEF Contract!ContractNext
<1>3. ASSUME NEW i \in Items, CompleteRemoved(i) PROVE Contract!ContractNext
  <2>1. removed[i] # "none" /\ UNCHANGED <<submitted, ui>>
    BY <1>3 DEF CompleteRemoved
  <2>2. i \in submitted /\ answer[i] = "pending" /\ ~Held(i)
    BY <2>1 DEF ItemInv, WaitingIsPending, OnePlace, Waiting
  <2>3. removed[i] \in Contract!BeforeStart \cup {"Failed"}
    BY <2>1 DEF ItemInv, OwedKinds
  <2>4. answer' = [answer EXCEPT ![i] = removed[i]]
    BY <1>3, <2>2 DEF CompleteRemoved, TrySetResult
  <2>5. Phase(i) = "queued"
    BY <2>2 DEF Phase, Held
  <2>6. \A j \in Items : j # i => Phase(j)' = Phase(j)
    BY <2>1, <2>4 DEF Phase, TypeInv, TypeOK, AnswerOK
  <2> QED
    BY <2>3, <2>4, <2>5, <2>6, Refuses
<1>4. CASE PumpTake
  <2>1. UNCHANGED <<answer, submitted>> /\ ui.pc = "idle"
    BY <1>4 DEF PumpTake
  <2>2. CASE ui'.pc # "execute"
    BY <2>1, <2>2, QuietContract
  <2>3. ASSUME NEW i \in Items, Queued(i), Take(i), ui'.pc = "execute" PROVE Contract!ContractNext
    <3>1. ui'.item = i /\ i \in submitted /\ answer[i] = "pending"
      BY <2>3 DEF Take, ItemInv, WaitingIsPending, Waiting
    <3>2. \A j \in Items : Phase(j)' = IF j = i THEN "running" ELSE Phase(j)
      BY <2>1, <2>3, <3>1 DEF Phase
    <3>3. PhaseOf' = [PhaseOf EXCEPT ![i] = "running"]
      BY <3>2, OnePhase
    <3>4. Phase(i) = "queued" /\ \A j \in Items : Phase(j) # "running"
      BY <2>1, <3>1 DEF Phase
    <3>5. Contract!Start(i)
      BY <2>1, <3>3, <3>4 DEF Contract!Start, Contract!NoneRunning, PhaseOf
    <3> QED
      BY <3>5 DEF Contract!ContractNext
  <2>4. /\ lifeQ # <<>> => Head(lifeQ) \in Items /\ Queued(Head(lifeQ))
        /\ extQ # <<>> => Head(extQ) \in Items /\ Queued(Head(extQ))
    <3>1. extQ \in Seq(External) /\ lifeQ \in Seq(Lifecycle)
      BY DEF TypeInv, TypeOK, QueuesOK
    <3>2. lifeQ # <<>> => Head(lifeQ) \in Lifecycle /\ 1 \in DOMAIN lifeQ /\ lifeQ[1] = Head(lifeQ)
      BY <3>1
    <3>3. extQ # <<>> => Head(extQ) \in External /\ 1 \in DOMAIN extQ /\ extQ[1] = Head(extQ)
      BY <3>1
    <3> QED
      BY <3>2, <3>3 DEF Items, Queued
  <2>5. ui' = [UiIdle EXCEPT !.pc = "next"] => ui'.pc # "execute"
    BY DEF UiIdle
  <2> QED
    BY <1>4, <2>2, <2>3, <2>4, <2>5 DEF PumpTake
<1>5. CASE PumpRefuse
  <2> DEFINE i == ui.item
  <2>1. /\ i \in Items /\ Held(i) /\ ui.pc = "refuse"
        /\ ui.kind \in {"Cancelled", "DeadlineExceeded"}
    BY <1>5 DEF PumpRefuse, Held, TypeInv, TypeOK, UiOK, UiRuns
  <2>2. i \in submitted /\ answer[i] = "pending"
    BY <2>1 DEF ItemInv, WaitingIsPending, Waiting
  <2>3. /\ answer' = [answer EXCEPT ![i] = ui.kind] /\ submitted' = submitted
        /\ ui'.pc # "execute"
    BY <1>5, <2>2 DEF PumpRefuse, TrySetResult, UiIdle
  <2>4. Phase(i) = "queued"
    BY <2>1, <2>2 DEF Phase
  <2>5. \A j \in Items : j # i => Phase(j)' = Phase(j)
    BY <2>1, <2>3 DEF Phase, TypeInv, TypeOK, AnswerOK
  <2> HIDE DEF i
  <2> QED
    BY <2>1, <2>3, <2>4, <2>5, Refuses
<1>6. CASE PumpExecute
  <2> DEFINE i == ui.item
  <2>1. i \in Items /\ Held(i) /\ ui.pc = "execute"
    BY <1>6 DEF PumpExecute, Held, TypeInv, UiRuns
  <2>2. i \in submitted /\ answer[i] = "pending"
    BY <2>1 DEF ItemInv, WaitingIsPending, Waiting
  <2>3. PICK kind \in {"Completed", "Failed"} : answer' = [answer EXCEPT ![i] = kind]
    BY <1>6, <2>2 DEF PumpExecute, TrySetResult
  <2>4. submitted' = submitted /\ ui'.pc = "executed"
    BY <1>6 DEF PumpExecute, TypeInv, TypeOK, UiOK
  <2>5. Phase(i) = "running"
    BY <2>1, <2>2 DEF Phase
  <2>6. \A j \in Items : Phase(j)' = IF j = i THEN "done" ELSE Phase(j)
    BY <2>1, <2>3, <2>4 DEF Phase, TypeInv, TypeOK, AnswerOK
  <2>7. \A k : k = i => PhaseOf' = [PhaseOf EXCEPT ![k] = "done"]
    BY <2>1, <2>6 DEF PhaseOf
  <2>8. Contract!Finish(i, kind)
    BY <2>1, <2>3, <2>5, <2>7 DEF Contract!Finish, PhaseOf
  <2> HIDE DEF i
  <2> QED
    BY <2>1, <2>8 DEF Contract!ContractNext
<1>7. CASE PumpFinish \/ PostNextIfNeeded
  <2>1. UNCHANGED <<answer, submitted>> /\ ui.pc # "execute" /\ ui'.pc # "execute"
    BY <1>7 DEF PumpFinish, PostNextIfNeeded, UiIdle
  <2> QED
    BY <2>1, QuietContract
<1>8. CASE Post \/ Shutdown \/ CloseExternalAdmission \/ ReopenExternalAdmission
           \/ CancelAllQueuedExternal \/ UNCHANGED vars
  BY <1>8, QuietContract DEF Post, PostPumpAccepted, PostPumpThrows, Shutdown,
     CloseExternalAdmission, ReopenExternalAdmission, CancelAllQueuedExternal, vars
<1>9. ASSUME NEW i \in Items, RequestCancel(i) \/ DeadlinePasses(i) \/ CancelQueued(i)
      PROVE  UNCHANGED Contract!contractVars
  BY <1>9, QuietContract DEF RequestCancel, DeadlinePasses, CancelQueued
<1> QED
  BY <1>1, <1>2, <1>3, <1>4, <1>5, <1>6, <1>7, <1>8, <1>9 DEF Next, Pump

\* The dispatcher keeps its promise for every set of items, every capacity and
\* any number of submitting threads.
THEOREM ContractKept == Spec => ImplementsContract
<1>1. Init => Contract!ContractInit
  BY DEF Init, UiIdle, Contract!ContractInit, Phase
<1> QED
  BY <1>1, ContractStep, ItemInvariant, PTL DEF Spec, ImplementsContract, Contract!ContractSpec
=============================================================================
