------------------------- MODULE DispatcherContract -------------------------
(***************************************************************************)
(* What OrderedDispatcher promises to the code that submits work to it     *)
(* (RpcTransportOwner, LifecycleController), without queues, pumps or      *)
(* locks: an item is refused, or it runs alone and its answer says so.     *)
(***************************************************************************)
EXTENDS Naturals

CONSTANT Items

\* The reasons an item is answered with before it started.
BeforeStart == {"Busy", "DeadlineExceeded", "Cancelled", "ShuttingDown"}

VARIABLES
    phase,  \* new, queued, running, done
    answer  \* what the item's task carries, or "pending"

contractVars == <<phase, answer>>

ContractInit ==
    /\ phase = [i \in Items |-> "new"]
    /\ answer = [i \in Items |-> "pending"]

Enqueue(i) ==
    /\ phase[i] = "new"
    /\ phase' = [phase EXCEPT ![i] = "queued"]
    /\ UNCHANGED answer

\* Rejected by Submit, cancelled, late, shut down, or failed with the scheduler.
Refuse(i, kind) ==
    /\ phase[i] \in {"new", "queued"}
    /\ phase' = [phase EXCEPT ![i] = "done"]
    /\ answer' = [answer EXCEPT ![i] = kind]

NoneRunning == \A i \in Items : phase[i] # "running"

Start(i) ==
    /\ phase[i] = "queued"
    /\ NoneRunning
    /\ phase' = [phase EXCEPT ![i] = "running"]
    /\ UNCHANGED answer

Finish(i, kind) ==
    /\ phase[i] = "running"
    /\ phase' = [phase EXCEPT ![i] = "done"]
    /\ answer' = [answer EXCEPT ![i] = kind]

\* A drain answers its items one by one, so one item changes in each step.
ContractNext ==
    \E i \in Items :
        \/ Enqueue(i) \/ Start(i)
        \/ \E kind \in BeforeStart \cup {"Failed"} : Refuse(i, kind)
        \/ \E kind \in {"Completed", "Failed"} : Finish(i, kind)

ContractSpec == ContractInit /\ [][ContractNext]_contractVars
=============================================================================
