------------------------------- MODULE Transport -------------------------------
(***************************************************************************)
(* The transport on the Rhino side and what comes before a tool is sent,   *)
(* next to each other: the exchange of calls over a result store (this     *)
(* module's own, RpcExchange), the execution fence, a result store of its  *)
(* own with several operations, the tool policy of an agent and a settings *)
(* window (without and with faults) and of several windows that change the *)
(* key, and the transactions around the edits of a turn.  In a behaviour   *)
(* one part acts, the others rest in an initial state.                     *)
(***************************************************************************)
EXTENDS RpcExchange

CONSTANTS Epochs, Clients, Tasks, Bindings, Grants, FenceOps, Orphan, None,
          StoreOps, StoreBodies, StoreSize, TooLarge, StoreCount, StoreLimit,
          StoreReservation, StoreResultLimit,
          Agents, Windows, Tools, OnDemand, KeyTools, MaxKeys, MaxRevision,
          KeyWindows, MaxWindowKeys, MaxFaultRevision, MaxEpoch, MaxFaults,
          MaxEdits, MaxTurns, MaxLosses, MaxBoundaries, MaxFailures

VARIABLES part,
          fenceAttached, fenceGeneration, retired, scope, recoveryRequired, consumed,
          recoveries, ui, fenceNative,
          storeEntries, storeBytes, storeOverdue, storeCompleting,
          disk, file, marker, keyEntries, observed, seen, session, manual, refresh, request,
          toolCall, save, pending, offered, revoked, used, epochs, faults,
          shared, accepting, stage, todo, turnOutcome, known, kind, turnCall, documents, late,
          edits, turns, losses, boundaries, failures, unrecorded

Fence == INSTANCE SharedExecutionFence WITH
       OpIds <- FenceOps, attached <- fenceAttached, generation <- fenceGeneration,
       native <- fenceNative
S == INSTANCE MutationResultStore WITH
       OpIds <- StoreOps, Bodies <- StoreBodies, Size <- StoreSize,
       MaximumCount <- StoreCount, MaximumBytes <- StoreLimit,
       ReservationBytes <- StoreReservation, MaximumTerminalResultBytes <- StoreResultLimit,
       entries <- storeEntries, usedBytes <- storeBytes, overdue <- storeOverdue,
       completing <- storeCompleting

\* Who shares the settings, and how often what can happen to them.
Quiet == [agents |-> Agents, windows |-> Windows, keys |-> MaxKeys, revision |-> MaxRevision,
          epoch |-> 1, faults |-> 0]
Faulty == [Quiet EXCEPT !.revision = MaxFaultRevision, !.epoch = MaxEpoch, !.faults = MaxFaults]
Windowed == [Faulty EXCEPT !.agents = {}, !.windows = KeyWindows, !.keys = MaxWindowKeys]
Policy(s) == INSTANCE ToolPolicy WITH
       Agents <- s.agents, Windows <- s.windows, MaxKeys <- s.keys, MaxRevision <- s.revision,
       MaxEpoch <- s.epoch, MaxFaults <- s.faults, entries <- keyEntries, call <- toolCall

T == INSTANCE AgentTurn WITH outcome <- turnOutcome, call <- turnCall, native <- documents

ASSUME TransportAssumption ==
    /\ ExchangeAssumption /\ Fence!FenceAssumption /\ S!StoreAssumption /\ T!TurnAssumption
    /\ \A s \in {Quiet, Faulty, Windowed} : Policy(s)!ToolPolicyAssumption

rpcVars == vars
fenceVars == <<fenceAttached, fenceGeneration, retired, scope, recoveryRequired, consumed,
               recoveries, ui, fenceNative>>
storeVars == <<storeEntries, storeBytes, storeOverdue, storeCompleting>>
policyVars == <<disk, file, marker, keyEntries, observed, seen, session, manual, refresh, request,
                toolCall, save, pending, offered, revoked, used, epochs, faults>>
turnVars == <<shared, accepting, stage, todo, turnOutcome, known, kind, turnCall, documents, late,
              edits, turns, losses, boundaries, failures, unrecorded>>
all == <<part, rpcVars, fenceVars, storeVars, policyVars, turnVars>>

TransportInit ==
    /\ part \in {"fence", "store", "rpc", "policy", "faults", "windows", "turn"}
    /\ Init /\ Fence!Init /\ S!StoreInit
    /\ \/ part = "windows" /\ Policy(Windowed)!Init
       \/ part = "faults" /\ Policy(Faulty)!Init
       \/ part \notin {"windows", "faults"} /\ Policy(Quiet)!Init
    /\ T!Init /\ (part = "turn" \/ shared)
    /\ part \in {"policy", "windows"} \/ used = 1
    /\ part = "fence" \/ fenceNative = [k \in Fence!Kinds |-> None]
TransportNext ==
    \/ part = "rpc" /\ Next /\ UNCHANGED <<part, fenceVars, storeVars, policyVars, turnVars>>
    \/ part = "fence" /\ Fence!Next /\ UNCHANGED <<part, rpcVars, storeVars, policyVars, turnVars>>
    \/ part = "store" /\ S!StoreNext /\ UNCHANGED <<part, rpcVars, fenceVars, policyVars, turnVars>>
    \/ part = "policy" /\ Policy(Quiet)!Next /\ UNCHANGED <<part, rpcVars, fenceVars, storeVars, turnVars>>
    \/ part = "faults" /\ Policy(Faulty)!Next /\ UNCHANGED <<part, rpcVars, fenceVars, storeVars, turnVars>>
    \/ part = "windows" /\ Policy(Windowed)!Next /\ UNCHANGED <<part, rpcVars, fenceVars, storeVars, turnVars>>
    \/ part = "turn" /\ T!Next /\ UNCHANGED <<part, rpcVars, fenceVars, storeVars, policyVars>>
TransportSpec == TransportInit /\ [][TransportNext]_all

\* The fence knows the owner of every native transaction that is open.
ScopeCoversNative == Fence!ScopeCoversNative
\* Native work never runs inside somebody else's transaction.
WorkRunsInOwnScope == Fence!WorkRunsInOwnScope
\* A host that is admitted finds no scope of an earlier one in its way.
AdmissionIsCurrent == Fence!AdmissionIsCurrent
\* A terminal result never changes before it expired.
TerminalIsStable == S!TerminalIsStable
\* A tool that is sent was offered since it was last switched on, with a live key.
OnlyOfferedToolsRun == [][Policy(Quiet)!SendsOnlyOffered]_policyVars
\* The edits of a turn run inside native transactions, a turn that ended well left none
\* open, and no scope of the fence is forgotten.
TurnAccountsForEdits == T!TurnAccountsForEdits
\* Overlapping changes of the key never delete the one in use.
LiveKeyKept == Policy(Quiet)!LiveKeyKept
=============================================================================
