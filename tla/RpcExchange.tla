----------------------------- MODULE RpcExchange -----------------------------
(***************************************************************************)
(* One mutation's way through the RPC layer: the host's HopperRpcClient    *)
(* (src/infra/rpc-client.ts), a DEALER/ROUTER connection that may be lost  *)
(* with everything in flight, RpcTransportOwner.cs on the Rhino side with  *)
(* its MutationResultStore, the dispatcher by its contract, and the fence  *)
(* by the one check that matters here, the attachment generation.          *)
(* Two calls may carry the same operation ID: the host keeps the ID of a   *)
(* journaled operation, and the server answers a repeated ID from its      *)
(* store.                                                                  *)
(***************************************************************************)
EXTENDS Naturals, FiniteSets

CONSTANTS
    Calls,          \* HopperRpcClient.call invocations of mutations
    OpIds, OpOf,    \* [Calls -> OpIds]
    Size, MaximumCount, MaximumBytes, ReservationBytes, MaximumTerminalResultBytes,
    Absent, Pending,
    MaxGeneration,  \* bound: attachments
    MaxExpiries     \* bound: terminal results that expire

\* Result classes the server answers with; "large" is the result of a native call
\* that exceeds the limit, "too_large" the body that is retained in its place.
Bodies == {"completed", "large", "too_large", "failed", "busy", "deadline", "cancelled",
           "shutting_down"}

\* Answers that tell the caller that its call changed nothing.
NotStarted == {"rejected", "busy", "deadline", "cancelled", "shutting_down"}

VARIABLES
    call,       \* PendingRequest: idle, waiting (not sent), sent, recovering, done
    outcome,    \* what the call returned
    captured,   \* the attachment generation in the call's executionOwner
    requests, replies,  \* in flight
    linked,     \* the client's socket is connected
    generation, \* the server's attachment
    attached,   \* the host has a client under the current generation
    native,     \* no, working, ran: the operation handler of the call's job
    completion, \* the CompleteDispatch continuation: none, serialised, over
    expiries,   \* per operation ID
    verdict,    \* what reconcileAttachment concluded about an unknown outcome
    phase, answer,                           \* the dispatcher's contract
    entries, usedBytes, overdue, completing  \* the result store

client == <<call, outcome, captured, attached, verdict>>
server == <<generation, native, completion, expiries>>
channel == <<requests, replies, linked>>
jobs == <<phase, answer>>
store == <<entries, usedBytes, overdue, completing>>
vars == <<client, server, channel, jobs, store>>

Dispatcher == INSTANCE DispatcherContract WITH Items <- Calls
Store == INSTANCE MutationResultStore WITH TooLarge <- "too_large"

\* The store's limits, and the texts of every result that no native call produced
\* are short.
ExchangeAssumption ==
    /\ OpOf \in [Calls -> OpIds]
    /\ Store!StoreAssumption
    /\ \A body \in Bodies \ {"large"} : Size[body] <= MaximumTerminalResultBytes

Init ==
    /\ call = [c \in Calls |-> "idle"]
    /\ outcome = [c \in Calls |-> "none"]
    /\ captured = [c \in Calls |-> 0]
    /\ requests = {} /\ replies = {} /\ linked = TRUE
    /\ generation = 1 /\ attached = TRUE
    /\ native = [c \in Calls |-> "no"]
    /\ completion = [c \in Calls |-> "none"]
    /\ expiries = [o \in OpIds |-> 0]
    /\ verdict = [c \in Calls |-> "none"]
    /\ Dispatcher!ContractInit
    /\ Store!StoreInit

-----------------------------------------------------------------------------
(* The client. *)

Call(c) ==
    /\ attached
    /\ call[c] = "idle"
    /\ call' = [call EXCEPT ![c] = "waiting"]
    /\ captured' = [captured EXCEPT ![c] = generation]
    /\ UNCHANGED <<outcome, attached, verdict, server, channel, jobs, store>>

Settle(c, kind) ==
    /\ call' = [call EXCEPT ![c] = "done"]
    /\ outcome' = [outcome EXCEPT ![c] = kind]

\* Connecting or admission fails, the budget ends, or the caller aborts, before
\* the request was handed to the socket.
FailBeforeSend(c) ==
    /\ call[c] = "waiting"
    /\ Settle(c, "rejected")
    /\ UNCHANGED <<captured, attached, verdict, server, channel, jobs, store>>

Send(c) ==
    /\ call[c] = "waiting" /\ linked
    /\ call' = [call EXCEPT ![c] = "sent"]
    /\ requests' = requests \cup {c}
    /\ UNCHANGED <<outcome, captured, attached, verdict, server, replies, linked, jobs, store>>

\* Mutant: a lost connection rejects every call, sent or not.
Disconnected_Rejects(state) ==
    IF state \in {"waiting", "sent"} THEN "done" ELSE state

Disconnected(state) ==
    CASE state = "waiting" -> "done"
      [] state = "sent" -> "recovering"
      [] OTHER -> state

\* handleDisconnect; anything in flight may or may not arrive.
Disconnect ==
    /\ attached /\ linked
    /\ linked' = FALSE
    /\ call' = [c \in Calls |-> Disconnected(call[c])]
    /\ outcome' = [c \in Calls |-> IF call[c] # "done" /\ call'[c] = "done" THEN "rejected"
                                   ELSE outcome[c]]
    /\ requests' \in SUBSET requests
    /\ replies' \in SUBSET replies
    /\ UNCHANGED <<captured, attached, verdict, server, jobs, store>>

\* ensureConnected under the same DEALER identity: RouterHandover gives the
\* identity to the new connection, and what the old one still holds arrives
\* under an identity that the fence does not know.
Connect ==
    /\ attached /\ ~linked
    /\ linked' = TRUE
    /\ requests' = {}
    /\ UNCHANGED <<client, server, replies, jobs, store>>

\* onCompletionTimeout of a sent call.
Timeout(c) ==
    /\ call[c] \in {"sent", "recovering"}
    /\ Settle(c, "unknown")
    /\ UNCHANGED <<captured, attached, verdict, server, channel, jobs, store>>

\* handlePayload, also for the answer of a lookup; an answer nobody waits for is dropped.
Deliver(c, body) ==
    /\ <<c, body>> \in replies /\ linked
    /\ replies' = replies \ {<<c, body>>}
    /\ IF call[c] \in {"sent", "recovering"} THEN Settle(c, body) ELSE UNCHANGED <<call, outcome>>
    /\ UNCHANGED <<captured, attached, verdict, server, requests, linked, jobs, store>>

\* close(), when the host lets its attachment go.
Close ==
    /\ attached /\ generation < MaxGeneration
    /\ attached' = FALSE
    /\ outcome' = [c \in Calls |-> CASE call[c] = "waiting" -> "rejected"
                                     [] call[c] \in {"sent", "recovering"} -> "unknown"
                                     [] OTHER -> outcome[c]]
    /\ call' = [c \in Calls |-> IF call[c] = "idle" THEN "idle" ELSE "done"]
    /\ UNCHANGED <<captured, verdict, server, channel, jobs, store>>

-----------------------------------------------------------------------------
(* The server's transport thread. *)

Reply(c, body) == replies' = replies \cup {<<c, body>>}

Receive(c) == c \in requests /\ requests' = requests \ {c}

\* The handshake of the host's next client.
Attach ==
    /\ ~attached
    /\ attached' = TRUE /\ linked' = TRUE
    /\ generation' = generation + 1
    /\ UNCHANGED <<call, outcome, captured, verdict, native, completion, expiries,
                   requests, replies, jobs, store>>

\* HandlePayload: the checks of the payload and of ValidateAdmission (a superseded
\* attachment among them), then the start deadline; no such request is admitted.
ReceiveRefused(c) ==
    /\ Receive(c) /\ UNCHANGED linked
    /\ \E body \in {"failed", "deadline"} : Reply(c, body)
    /\ UNCHANGED <<client, server, jobs, store>>

\* Mutant: a result that is retained does not stop a repeated operation ID.
Fresh_Terminal(o) == Store!AdmitState(o) \in {"Admitted", "ExistingTerminal"}

Fresh(o) == Store!AdmitState(o) = "Admitted"

\* AdmitMutation, then Dispatch.
ReceiveAdmitted(c) ==
    /\ Receive(c)
    /\ captured[c] = generation
    /\ Fresh(OpOf[c])
    /\ Store!Stored([Store!Live EXCEPT ![OpOf[c]] = Pending], Store!LiveBytes + ReservationBytes)
    /\ Dispatcher!Enqueue(c)
    /\ UNCHANGED <<client, server, replies, linked, completing>>

\* AdmitMutation answers a repeated operation ID from the store, or is full.
ReceiveKnown(c) ==
    /\ Receive(c)
    /\ captured[c] = generation
    /\ ~Fresh(OpOf[c])
    /\ UNCHANGED linked
    /\ Reply(c, IF Store!AdmitState(OpOf[c]) = "ExistingTerminal" THEN entries[OpOf[c]] ELSE "busy")
    /\ Store!Sweep
    /\ UNCHANGED <<client, server, jobs>>

\* recoverMutation: a client that lost its connection asks until it is answered.
Recovers(c) == call[c] = "recovering" /\ attached /\ linked
\* QueueLookupResponse; only a terminal answer settles the call.
Lookup(c) ==
    /\ Recovers(c)
    /\ Store!Live[OpOf[c]] \in Bodies
    /\ Reply(c, entries[OpOf[c]])
    /\ Store!Sweep
    /\ UNCHANGED <<client, server, requests, linked, jobs>>

-----------------------------------------------------------------------------
(* The dispatcher's item and the native handler behind the fence. *)

JobRefused(c, kind) ==
    /\ phase[c] = "queued"
    /\ Dispatcher!Refuse(c, kind)
    /\ UNCHANGED <<client, server, channel, store>>

JobStart(c) ==
    /\ Dispatcher!Start(c)
    /\ UNCHANGED <<client, server, channel, store>>

NativeBegin(c) ==
    /\ phase[c] = "running" /\ native[c] = "no"
    /\ captured[c] = generation
    /\ native' = [native EXCEPT ![c] = "working"]
    /\ UNCHANGED <<client, generation, completion, expiries, channel, jobs, store>>

\* The fence's refusal is a result of the operation, not an error.
NativeRefused(c) ==
    /\ phase[c] = "running" /\ native[c] = "no"
    /\ Dispatcher!Finish(c, "Completed")
    /\ UNCHANGED <<client, server, channel, store>>

NativeEnd(c) ==
    /\ native[c] = "working"
    /\ native' = [native EXCEPT ![c] = "ran"]
    /\ \E kind \in {"Completed", "Failed"} : Dispatcher!Finish(c, kind)
    /\ UNCHANGED <<client, generation, completion, expiries, channel, store>>

\* MapDispatcherResult: what CompleteDispatch may have to retain for the call.
Results(c) ==
    CASE answer[c] = "Completed" -> IF native[c] = "ran" THEN {"completed", "large", "failed"}
                                    ELSE {"failed"}
      [] answer[c] = "Failed" -> IF native[c] = "ran" THEN {"failed", "large"} ELSE {"failed"}
      [] answer[c] = "Busy" -> {"busy"}
      [] answer[c] = "DeadlineExceeded" -> {"deadline"}
      [] answer[c] = "Cancelled" -> {"cancelled"}
      [] answer[c] = "ShuttingDown" -> {"shutting_down"}

CompleteStart(c, body) ==
    /\ phase[c] = "done" /\ completion[c] = "none"
    /\ body \in Results(c)
    /\ Store!CompleteStart(OpOf[c], body)
    /\ completion' = [completion EXCEPT ![c] = "serialised"]
    /\ UNCHANGED <<client, generation, native, expiries, channel, jobs>>

CompleteFinish(c, body) ==
    /\ completion[c] = "serialised"
    /\ Store!CompleteFinish(OpOf[c], body)
    /\ Reply(c, entries'[OpOf[c]])
    /\ completion' = [completion EXCEPT ![c] = "over"]
    /\ UNCHANGED <<client, generation, native, expiries, requests, linked, jobs>>

\* A result is kept for ten minutes and a call gives up after two, so the call
\* whose job left the result is over by then.
ResultExpires(o) ==
    /\ \A c \in Calls : OpOf[c] = o /\ completion[c] = "over" => call[c] = "done"
    /\ expiries[o] < MaxExpiries
    /\ Store!Expire(o)
    /\ expiries' = [expiries EXCEPT ![o] = @ + 1]
    /\ UNCHANGED <<client, generation, native, completion, channel, jobs>>

-----------------------------------------------------------------------------
(* reconcileAttachment: under a new generation the host looks up every     *)
(* operation whose outcome it does not know.                               *)

\* IsOperationRunning: until PumpFinish, which may come after the item's answer.
SaysRunning(o, running) ==
    /\ (\E c \in Calls : OpOf[c] = o /\ phase[c] = "running") => running
    /\ running => \E c \in Calls : OpOf[c] = o /\ phase[c] \in {"running", "done"}

\* Mutant: an operation counts as finished whatever the server says of it.
Idle_Pending(o, running) == TRUE

Idle(o, running) == ~(Store!Live[o] = Pending /\ running)

Reconcile(c, running) ==
    /\ attached /\ linked
    /\ outcome[c] = "unknown" /\ captured[c] < generation
    /\ SaysRunning(OpOf[c], running)
    /\ verdict[c] # "idle"
    /\ verdict' = [verdict EXCEPT ![c] = IF Idle(OpOf[c], running) THEN "idle" ELSE "busy"]
    /\ Store!Sweep
    /\ UNCHANGED <<call, outcome, captured, attached, server, channel, jobs>>

Next ==
    \/ \E c \in Calls :
        \/ Call(c) \/ FailBeforeSend(c) \/ Send(c) \/ Timeout(c)
        \/ ReceiveRefused(c) \/ ReceiveAdmitted(c) \/ ReceiveKnown(c) \/ Lookup(c)
        \/ JobStart(c) \/ NativeBegin(c) \/ NativeRefused(c) \/ NativeEnd(c)
        \/ \E kind \in Dispatcher!BeforeStart \cup {"Failed"} : JobRefused(c, kind)
        \/ \E body \in Bodies :
            Deliver(c, body) \/ CompleteStart(c, body) \/ CompleteFinish(c, body)
        \/ \E running \in BOOLEAN : Reconcile(c, running)
    \/ Disconnect \/ Connect \/ Close \/ Attach
    \/ \E o \in OpIds : ResultExpires(o)

Spec == Init /\ [][Next]_vars

-----------------------------------------------------------------------------
\* The types of the exchange.
TypeOK ==
    /\ call \in [Calls -> {"idle", "waiting", "sent", "recovering", "done"}]
    /\ outcome \in [Calls -> Bodies \cup {"none", "rejected", "unknown"}]
    /\ captured \in [Calls -> 0..MaxGeneration]
    /\ requests \subseteq Calls /\ replies \subseteq Calls \X Bodies
    /\ generation \in 1..MaxGeneration /\ attached \in BOOLEAN /\ linked \in BOOLEAN
    /\ native \in [Calls -> {"no", "working", "ran"}]
    /\ completion \in [Calls -> {"none", "serialised", "over"}]
    /\ verdict \in [Calls -> {"none", "idle", "busy"}]
    /\ Store!StoreTypeOK

\* A job on its way always finds the reservation its admission made: Complete
\* never answers NotFound, which CompleteDispatch would turn into no answer at all.
ReservationWaitsForJob ==
    \A c \in Calls :
        phase[c] # "new" /\ completion[c] # "over" => entries[OpOf[c]] = Pending

\* What a caller is told is what happened: "nothing was started" means the
\* native handler of this call did not and will not run, "completed" means the
\* operation ran, also through lost connections, recovery and repeated IDs.
OutcomeIsTrue ==
    \A c \in Calls :
        /\ outcome[c] \in NotStarted => native[c] = "no" /\ phase[c] \in {"new", "done"}
        /\ outcome[c] \in {"completed", "too_large"} =>
              \E d \in Calls : OpOf[d] = OpOf[c] /\ native[d] = "ran"

\* An operation ID runs at most once for every time its result expired: a
\* repeated call within the retention time never repeats the native effect.
OncePerRetention ==
    \A o \in OpIds :
        Cardinality({c \in Calls : OpOf[c] = o /\ native[c] # "no"}) <= 1 + expiries[o]

\* What a caller is told of its operation is true, and an operation runs once for as
\* long as its result is retained.
OutcomeTellsExecution == OutcomeIsTrue /\ OncePerRetention

\* Live recovery rests on this: once the host has seen, under a new generation,
\* that an operation of unknown outcome is not running, that call's native
\* handler is not at work and never will be again.
IdleStaysIdle ==
    \A c \in Calls : verdict[c] = "idle" => native[c] # "working"
=============================================================================
