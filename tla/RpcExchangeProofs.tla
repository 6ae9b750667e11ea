-------------------------- MODULE RpcExchangeProofs --------------------------
(***************************************************************************)
(* Theorems about RpcExchange: whatever connections are lost, calls        *)
(* repeated and results expired, a caller is told the truth about the      *)
(* execution of its operation, an operation runs once for as long as its   *)
(* result is retained, and a retained result never changes.                *)
(***************************************************************************)
EXTENDS RpcExchange, FiniteSetTheorems, TLAPS

Answers == Dispatcher!BeforeStart \cup {"Completed", "Failed", "pending"}

\* Shapes without the model's bounds.
Shapes ==
    /\ call \in [Calls -> {"idle", "waiting", "sent", "recovering", "done"}]
    /\ outcome \in [Calls -> Bodies \cup {"none", "rejected", "unknown"}]
    /\ captured \in [Calls -> Nat]
    /\ requests \subseteq Calls
    /\ replies \subseteq Calls \X Bodies
    /\ generation \in Nat
    /\ native \in [Calls -> {"no", "working", "ran"}]
    /\ completion \in [Calls -> {"none", "serialised", "over"}]
    /\ expiries \in [OpIds -> Nat]
    /\ verdict \in [Calls -> {"none", "idle", "busy"}]
    /\ phase \in [Calls -> {"new", "queued", "running", "done"}]
    /\ answer \in [Calls -> Answers]
    /\ entries \in [OpIds -> Bodies \cup {Absent, Pending}]
    /\ overdue \subseteq OpIds
    /\ completing \subseteq OpIds \X Bodies

InFlight(c) == phase[c] # "new" /\ completion[c] # "over"
Ran(o) == \E d \in Calls : OpOf[d] = o /\ native[d] = "ran"

\* What a result says of a call that is not to be sent any more.
Truth(c, body) ==
    /\ body \in NotStarted => /\ native[c] = "no" /\ phase[c] \in {"new", "done"}
                              /\ c \notin requests
    /\ body \in {"completed", "too_large"} => Ran(OpOf[c])

\* The native handler works only while the item runs, and the result follows
\* the item's answer.
JobInv ==
    \A c \in Calls :
        /\ native[c] = "working" => phase[c] = "running"
        /\ phase[c] \in {"new", "queued"} => native[c] = "no"
        /\ phase[c] = "running" => native[c] # "ran"
        /\ completion[c] # "none" => phase[c] = "done"
        /\ phase[c] = "done" =>
             /\ answer[c] # "pending"
             /\ answer[c] \in Dispatcher!BeforeStart => native[c] = "no"

\* A request arrives once, and a call that recovers has none under way.
SentInv ==
    \A c \in Calls :
        /\ call[c] \in {"idle", "waiting"} => c \notin requests /\ phase[c] = "new"
        /\ c \in requests => phase[c] = "new" /\ \A b \in Bodies : <<c, b>> \notin replies
        /\ Recovers(c) => c \notin requests
        /\ outcome[c] # "none" => call[c] = "done"
        /\ ~attached => call[c] \in {"idle", "done"}
        /\ (\E b \in Bodies : <<c, b>> \in replies) => call[c] \notin {"idle", "waiting"}

\* A job on its way owns the reservation of its operation.
ReservationInv ==
    /\ \A c \in Calls : InFlight(c) => entries[OpOf[c]] = Pending
    /\ \A c, d \in Calls : InFlight(c) /\ InFlight(d) /\ OpOf[c] = OpOf[d] => c = d
    /\ \A o \in overdue : entries[o] \in Bodies

\* A serialised result is the only one of its operation and true of its call.
CompletingInv ==
    /\ \A o \in OpIds, b \in Bodies : <<o, b>> \in completing =>
         \E c \in Calls : OpOf[c] = o /\ completion[c] = "serialised" /\ Truth(c, b)
    /\ \A o \in OpIds, b, e \in Bodies : <<o, b>> \in completing /\ <<o, e>> \in completing => b = e

\* What the store retains is true, of the call whose job left it too for as long
\* as that call may ask.
RetainedInv ==
    /\ \A o \in OpIds : entries[o] \in {"completed", "too_large"} => Ran(o)
    /\ \A c \in Calls : completion[c] = "over" /\ call[c] # "done" =>
         /\ OpOf[c] \notin overdue /\ entries[OpOf[c]] \in Bodies
         /\ Truth(c, entries[OpOf[c]])

\* What is on its way to the client, or has arrived, is true.
ToldInv ==
    /\ \A c \in Calls, b \in Bodies : <<c, b>> \in replies => Truth(c, b)
    /\ \A c \in Calls : Truth(c, outcome[c])

\* Each job of an operation but the one the store knows of is paid for by an
\* expired result.
Admitted(o) == {c \in Calls : OpOf[c] = o /\ phase[c] # "new"}
CountInv ==
    \A o \in OpIds :
        /\ IsFiniteSet(Admitted(o))
        /\ Cardinality(Admitted(o)) <= expiries[o] + (IF Store!Live[o] = Absent THEN 0 ELSE 1)

\* A verdict is about an attachment that is over.
VerdictInv ==
    /\ \A c \in Calls : verdict[c] # "none" => captured[c] < generation /\ call[c] = "done"
    /\ IdleStaysIdle

ExchangeInv ==
    /\ Shapes /\ JobInv /\ SentInv /\ ReservationInv /\ CompletingInv /\ RetainedInv
    /\ ToldInv /\ CountInv /\ VerdictInv

\* What the store still holds when a step has dropped what expired.
LEMMA LiveFacts ==
    ASSUME ExchangeAssumption, Shapes
    PROVE  /\ Store!Live \in [OpIds -> Bodies \cup {Absent, Pending}]
           /\ \A o \in OpIds : Store!Live[o] = IF o \in overdue THEN Absent ELSE entries[o]
           /\ Absent \notin Bodies /\ Pending \notin Bodies /\ Absent # Pending
           /\ \A c \in Calls : OpOf[c] \in OpIds
  BY DEF Store!Live, Shapes, ExchangeAssumption, Store!StoreAssumption

\* Who is admitted finds nothing of his operation, and who is answered from the
\* store finds its result.
LEMMA AdmitFacts ==
    ASSUME ExchangeAssumption, Shapes, NEW o \in OpIds
    PROVE  /\ Store!AdmitState(o) = "Admitted" => Store!Live[o] = Absent
           /\ Store!AdmitState(o) = "ExistingTerminal" =>
                Store!Live[o] \in Bodies /\ entries[o] = Store!Live[o] /\ o \notin overdue
<1>1. CASE Store!Live[o] = Pending
  BY <1>1, LiveFacts DEF Store!AdmitState
<1>2. CASE Store!Live[o] \in Bodies
  BY <1>2, LiveFacts DEF Store!AdmitState
<1>3. CASE Store!Live[o] = Absent
  BY <1>3, LiveFacts DEF Store!AdmitState
<1> QED
  BY <1>1, <1>2, <1>3, LiveFacts

\* What a step does to the store.
Swept == entries' = Store!Live /\ overdue' = {}
StoreSame == UNCHANGED <<entries, overdue>>
Admits(c) ==
    /\ c \in requests /\ phase[c] = "new" /\ Store!Live[OpOf[c]] = Absent
    /\ entries' = [Store!Live EXCEPT ![OpOf[c]] = Pending] /\ overdue' = {}

\* The steps of the client and of the connection.
ClientStep ==
    \/ \E c \in Calls : \/ Call(c) \/ FailBeforeSend(c) \/ Send(c) \/ Timeout(c)
                        \/ \E body \in Bodies : Deliver(c, body)
    \/ Disconnect \/ Connect \/ Close \/ Attach

\* They leave the jobs and the store alone.
LEMMA ClientLeaves ==
    ASSUME ClientStep
    PROVE  UNCHANGED <<native, completion, expiries, phase, answer, entries, overdue, completing,
                       verdict>>
  BY DEF ClientStep, Call, FailBeforeSend, Send, Timeout, Deliver, Disconnect, Connect, Close,
         Attach, Settle, client, server, jobs, store

\* The steps of the server, of the jobs and of the store.
LEMMA NextSteps ==
    ASSUME Next
    PROVE  \/ ClientStep
           \/ \E c \in Calls :
                \/ ReceiveRefused(c) \/ ReceiveAdmitted(c) \/ ReceiveKnown(c) \/ Lookup(c)
                \/ JobStart(c) \/ NativeBegin(c) \/ NativeRefused(c) \/ NativeEnd(c)
                \/ \E kind \in Dispatcher!BeforeStart \cup {"Failed"} : JobRefused(c, kind)
                \/ \E body \in Bodies : CompleteStart(c, body) \/ CompleteFinish(c, body)
                \/ \E running \in BOOLEAN : Reconcile(c, running)
           \/ \E o \in OpIds : ResultExpires(o)
  BY DEF Next, ClientStep

\* Every step keeps the jobs in order.
LEMMA JobKept ==
    ASSUME ExchangeAssumption, ExchangeInv, [Next]_vars
    PROVE  JobInv'
<1>1. Shapes /\ JobInv
  BY DEF ExchangeInv
<1>2. CASE UNCHANGED <<native, completion, phase, answer>>
  BY <1>1, <1>2 DEF JobInv
<1>3. ASSUME NEW c \in Calls, ReceiveAdmitted(c) PROVE JobInv'
  BY <1>1, <1>3 DEF ReceiveAdmitted, Dispatcher!Enqueue, JobInv, Shapes, server
<1>4. ASSUME NEW c \in Calls, NEW kind \in Dispatcher!BeforeStart \cup {"Failed"}, JobRefused(c, kind)
      PROVE JobInv'
  BY <1>1, <1>4 DEF JobRefused, Dispatcher!Refuse, JobInv, Shapes, server, Dispatcher!BeforeStart
<1>5. ASSUME NEW c \in Calls, JobStart(c) PROVE JobInv'
  BY <1>1, <1>5 DEF JobStart, Dispatcher!Start, JobInv, Shapes, server
<1>6. ASSUME NEW c \in Calls, NativeBegin(c) PROVE JobInv'
  BY <1>1, <1>6 DEF NativeBegin, JobInv, Shapes, jobs
<1>7. ASSUME NEW c \in Calls, NativeRefused(c) PROVE JobInv'
  BY <1>1, <1>7 DEF NativeRefused, Dispatcher!Finish, JobInv, Shapes, server, Dispatcher!BeforeStart
<1>8. ASSUME NEW c \in Calls, NativeEnd(c) PROVE JobInv'
  BY <1>1, <1>8 DEF NativeEnd, Dispatcher!Finish, JobInv, Shapes, Dispatcher!BeforeStart
<1>9. ASSUME NEW c \in Calls, NEW body \in Bodies, CompleteStart(c, body) \/ CompleteFinish(c, body)
      PROVE JobInv'
  BY <1>1, <1>9 DEF CompleteStart, CompleteFinish, JobInv, Shapes, jobs
<1>10. ASSUME NEW c \in Calls,
              \/ ReceiveRefused(c) \/ ReceiveKnown(c) \/ Lookup(c)
              \/ \E running \in BOOLEAN : Reconcile(c, running)
       PROVE UNCHANGED <<native, completion, phase, answer>>
  BY <1>10 DEF ReceiveRefused, ReceiveKnown, Lookup, Reconcile, server, jobs
<1>11. ASSUME NEW o \in OpIds, ResultExpires(o) PROVE UNCHANGED <<native, completion, phase, answer>>
  BY <1>11 DEF ResultExpires, jobs
<1>12. CASE UNCHANGED vars
  BY <1>2, <1>12 DEF vars, server, jobs
<1> QED
  BY <1>2, <1>3, <1>4, <1>5, <1>6, <1>7, <1>8, <1>9, <1>10, <1>11, <1>12, ClientLeaves, NextSteps

\* Every step keeps the requests in order.
LEMMA SentKept ==
    ASSUME ExchangeAssumption, ExchangeInv, [Next]_vars
    PROVE  SentInv'
<1>1. Shapes /\ JobInv /\ SentInv
  BY DEF ExchangeInv
<1>2. CASE UNCHANGED <<call, outcome, requests, replies, phase, attached, linked>>
  BY <1>1, <1>2 DEF SentInv, Recovers
<1>3. ASSUME NEW c \in Calls, Call(c) PROVE SentInv'
  BY <1>1, <1>3 DEF Call, SentInv, Recovers, Shapes, channel, jobs
<1>4. ASSUME NEW c \in Calls, FailBeforeSend(c) \/ Timeout(c) PROVE SentInv'
  <2>1. /\ call' = [call EXCEPT ![c] = "done"]
        /\ \E kind : outcome' = [outcome EXCEPT ![c] = kind]
        /\ UNCHANGED <<requests, replies, phase, attached, linked>>
    BY <1>4 DEF FailBeforeSend, Timeout, Settle, channel, jobs
  <2> QED
    BY <1>1, <2>1 DEF SentInv, Recovers, Shapes
<1>5. ASSUME NEW c \in Calls, Send(c) PROVE SentInv'
  BY <1>1, <1>5 DEF Send, SentInv, Recovers, Shapes, jobs
<1>6. ASSUME NEW c \in Calls, NEW body \in Bodies, Deliver(c, body) PROVE SentInv'
  <2>1. /\ replies' = replies \ {<<c, body>>}
        /\ UNCHANGED <<requests, phase, attached, linked>>
        /\ \/ /\ call' = [call EXCEPT ![c] = "done"]
              /\ outcome' = [outcome EXCEPT ![c] = body]
           \/ UNCHANGED <<call, outcome>>
    BY <1>6 DEF Deliver, Settle, jobs
  <2> QED
    BY <1>1, <2>1 DEF SentInv, Recovers, Shapes
<1>7. CASE Disconnect
  <2>1. /\ linked' = FALSE /\ requests' \subseteq requests /\ replies' \subseteq replies
        /\ UNCHANGED <<phase, attached>> /\ attached
        /\ \A c \in Calls : /\ call[c] = "waiting" => call'[c] = "done"
                            /\ call[c] # "waiting" => call'[c] \in {call[c], "recovering"}
                            /\ call[c] \in {"idle", "done"} => call'[c] = call[c]
                            /\ outcome'[c] = outcome[c] \/ call'[c] = "done"
    BY <1>7 DEF Disconnect, Disconnected, jobs, Shapes
  <2> QED
    BY <1>1, <2>1 DEF SentInv, Recovers, Shapes
<1>8. CASE Connect
  BY <1>1, <1>8 DEF Connect, SentInv, Recovers, Shapes, client, jobs
<1>9. CASE Close
  <2>1. /\ attached' = FALSE /\ UNCHANGED <<requests, replies, phase, linked>>
        /\ \A c \in Calls : /\ call'[c] = IF call[c] = "idle" THEN "idle" ELSE "done"
                            /\ call[c] = "idle" => outcome'[c] = outcome[c]
    BY <1>9 DEF Close, channel, jobs
  <2> QED
    BY <1>1, <2>1 DEF SentInv, Recovers, Shapes
<1>10. CASE Attach
  BY <1>1, <1>10 DEF Attach, SentInv, Recovers, Shapes, jobs
<1>11. ASSUME NEW c \in Calls, ReceiveRefused(c) \/ ReceiveKnown(c) PROVE SentInv'
  <2>1. /\ c \in requests /\ requests' = requests \ {c}
        /\ \E body : replies' = replies \cup {<<c, body>>}
        /\ UNCHANGED <<call, outcome, phase, attached, linked>>
    BY <1>11 DEF ReceiveRefused, ReceiveKnown, Receive, Reply, client, jobs
  <2> QED
    BY <1>1, <2>1 DEF SentInv, Recovers, Shapes
<1>12. ASSUME NEW c \in Calls, ReceiveAdmitted(c) PROVE SentInv'
  <2>1. /\ c \in requests /\ requests' = requests \ {c} /\ phase' = [phase EXCEPT ![c] = "queued"]
        /\ UNCHANGED <<call, outcome, replies, attached, linked>>
    BY <1>12 DEF ReceiveAdmitted, Receive, Dispatcher!Enqueue, client
  <2> QED
    BY <1>1, <2>1 DEF SentInv, Recovers, Shapes
<1>13. ASSUME NEW c \in Calls, Lookup(c) PROVE SentInv'
  <2>1. /\ Recovers(c) /\ \E body : replies' = replies \cup {<<c, body>>}
        /\ UNCHANGED <<call, outcome, phase, attached, linked, requests>>
    BY <1>13 DEF Lookup, Reply, client, jobs
  <2> QED
    BY <1>1, <2>1 DEF SentInv, Recovers, Shapes
<1>14. ASSUME NEW c \in Calls,
              \/ \E kind \in Dispatcher!BeforeStart \cup {"Failed"} : JobRefused(c, kind)
              \/ JobStart(c) \/ NativeRefused(c) \/ NativeEnd(c)
       PROVE  SentInv'
  <2>1. /\ phase[c] # "new" /\ \E p \in {"running", "done"} : phase' = [phase EXCEPT ![c] = p]
        /\ UNCHANGED <<call, outcome, requests, replies, attached, linked>>
    BY <1>14 DEF JobRefused, JobStart, NativeRefused, NativeEnd, Dispatcher!Refuse,
       Dispatcher!Start, Dispatcher!Finish, client, channel
  <2> QED
    BY <1>1, <2>1 DEF SentInv, Recovers, Shapes
<1>15. ASSUME NEW c \in Calls, NEW body \in Bodies, CompleteFinish(c, body) PROVE SentInv'
  <2>1. /\ completion[c] = "serialised" /\ \E b : replies' = replies \cup {<<c, b>>}
        /\ UNCHANGED <<call, outcome, requests, phase, attached, linked>>
    BY <1>15 DEF CompleteFinish, Reply, client, jobs
  <2>2. phase[c] = "done"
    BY <1>1, <2>1 DEF JobInv
  <2> QED
    BY <1>1, <2>1, <2>2 DEF SentInv, Recovers, Shapes
<1>16. ASSUME \/ \E c \in Calls : \/ NativeBegin(c)
                                  \/ \E body \in Bodies : CompleteStart(c, body)
                                  \/ \E running \in BOOLEAN : Reconcile(c, running)
              \/ \E o \in OpIds : ResultExpires(o)
              \/ UNCHANGED vars
       PROVE  UNCHANGED <<call, outcome, requests, replies, phase, attached, linked>>
  BY <1>16 DEF NativeBegin, CompleteStart, Reconcile, ResultExpires, vars, client, channel, jobs
<1> QED
  BY <1>2, <1>3, <1>4, <1>5, <1>6, <1>7, <1>8, <1>9, <1>10, <1>11, <1>12, <1>13, <1>14, <1>15,
     <1>16, NextSteps DEF ClientStep

\* A step changes the store in one of these ways.
LEMMA StoreSteps ==
    ASSUME ExchangeAssumption, Shapes, Next
    PROVE  \/ UNCHANGED <<entries, overdue, completing, phase, completion>>
           \/ Swept /\ UNCHANGED <<completing, phase, completion>>
           \/ \E c \in Calls : /\ Admits(c) /\ phase' = [phase EXCEPT ![c] = "queued"]
                               /\ UNCHANGED <<completing, completion>>
           \/ \E c \in Calls : /\ \/ phase[c] = "queued" /\ phase' = [phase EXCEPT ![c] = "running"]
                                  \/ /\ phase[c] \in {"queued", "running"}
                                     /\ phase' = [phase EXCEPT ![c] = "done"]
                               /\ UNCHANGED <<entries, overdue, completing, completion>>
           \/ \E c \in Calls, body \in Bodies : CompleteStart(c, body) \/ CompleteFinish(c, body)
           \/ \E o \in OpIds : ResultExpires(o)
<1>1. CASE ClientStep
  BY <1>1, ClientLeaves
<1>2. ASSUME NEW c \in Calls, ReceiveRefused(c) \/ NativeBegin(c)
      PROVE UNCHANGED <<entries, overdue, completing, phase, completion>>
  BY <1>2 DEF ReceiveRefused, NativeBegin, server, jobs, store
<1>3. ASSUME NEW c \in Calls,
             ReceiveKnown(c) \/ Lookup(c) \/ \E running \in BOOLEAN : Reconcile(c, running)
      PROVE Swept /\ UNCHANGED <<completing, phase, completion>>
  BY <1>3 DEF ReceiveKnown, Lookup, Reconcile, Store!Sweep, Store!Stored, Swept, server, jobs
<1>4. ASSUME NEW c \in Calls, ReceiveAdmitted(c)
      PROVE  /\ Admits(c) /\ phase' = [phase EXCEPT ![c] = "queued"]
             /\ UNCHANGED <<completing, completion>>
  BY <1>4, AdmitFacts, LiveFacts DEF ReceiveAdmitted, Receive, Fresh, Store!Stored, Admits,
     Dispatcher!Enqueue, server
<1>5. ASSUME NEW c \in Calls,
             \/ \E kind \in Dispatcher!BeforeStart \cup {"Failed"} : JobRefused(c, kind)
             \/ JobStart(c) \/ NativeRefused(c) \/ NativeEnd(c)
      PROVE  /\ \/ phase[c] = "queued" /\ phase' = [phase EXCEPT ![c] = "running"]
                \/ /\ phase[c] \in {"queued", "running"}
                   /\ phase' = [phase EXCEPT ![c] = "done"]
             /\ UNCHANGED <<entries, overdue, completing, completion>>
  BY <1>5 DEF JobRefused, JobStart, NativeRefused, NativeEnd, Dispatcher!Refuse,
     Dispatcher!Start, Dispatcher!Finish, server, store
<1> QED
  BY <1>1, <1>2, <1>3, <1>4, <1>5, NextSteps

\* What CompleteStart and CompleteFinish do.
LEMMA CompleteFacts ==
    ASSUME ExchangeAssumption, ExchangeInv, NEW c \in Calls, NEW body \in Bodies
    PROVE  /\ CompleteStart(c, body) =>
                /\ phase[c] = "done" /\ completion[c] = "none" /\ body \in Results(c)
                /\ Swept /\ completing' = completing \cup {<<OpOf[c], Store!Retained(body)>>}
                /\ completion' = [completion EXCEPT ![c] = "serialised"]
                /\ UNCHANGED <<call, outcome, captured, attached, verdict, native, requests,
                               replies, linked, phase, answer, generation, expiries>>
           /\ CompleteFinish(c, body) =>
                /\ phase[c] = "done" /\ completion[c] = "serialised"
                /\ <<OpOf[c], body>> \in completing
                /\ completing' = completing \ {<<OpOf[c], body>>}
                /\ Store!Live[OpOf[c]] = Pending
                /\ entries' = [Store!Live EXCEPT ![OpOf[c]] = body] /\ overdue' = {}
                /\ replies' = replies \cup {<<c, body>>}
                /\ completion' = [completion EXCEPT ![c] = "over"]
                /\ UNCHANGED <<call, outcome, captured, attached, verdict, native, requests,
                               linked, phase, answer, generation, expiries>>
<1>1. Shapes /\ JobInv /\ ReservationInv
  BY DEF ExchangeInv
<1>2. CompleteStart(c, body) =>
        /\ phase[c] = "done" /\ completion[c] = "none" /\ body \in Results(c)
        /\ Swept /\ completing' = completing \cup {<<OpOf[c], Store!Retained(body)>>}
        /\ completion' = [completion EXCEPT ![c] = "serialised"]
        /\ UNCHANGED <<call, outcome, captured, attached, verdict, native, requests,
                       replies, linked, phase, answer, generation, expiries>>
  BY DEF CompleteStart, Store!CompleteStart, Store!Stored, Swept, client, channel, jobs
<1>3. ASSUME CompleteFinish(c, body)
      PROVE  /\ phase[c] = "done" /\ completion[c] = "serialised"
             /\ <<OpOf[c], body>> \in completing
             /\ completing' = completing \ {<<OpOf[c], body>>}
             /\ Store!Live[OpOf[c]] = Pending
             /\ entries' = [Store!Live EXCEPT ![OpOf[c]] = body] /\ overdue' = {}
             /\ replies' = replies \cup {<<c, body>>}
             /\ completion' = [completion EXCEPT ![c] = "over"]
             /\ UNCHANGED <<call, outcome, captured, attached, verdict, native, requests,
                            linked, phase, answer, generation, expiries>>
  <2>1. /\ completion[c] = "serialised" /\ Store!CompleteFinish(OpOf[c], body)
        /\ replies' = replies \cup {<<c, entries'[OpOf[c]]>>}
        /\ completion' = [completion EXCEPT ![c] = "over"]
        /\ UNCHANGED <<call, outcome, captured, attached, verdict, native, requests,
                       linked, phase, answer, generation, expiries>>
    BY <1>3 DEF CompleteFinish, Reply, client, jobs
  <2>2. phase[c] = "done" /\ entries[OpOf[c]] = Pending /\ OpOf[c] \notin overdue
    BY <1>1, <2>1, LiveFacts DEF JobInv, ReservationInv, InFlight
  <2>3. Store!Live[OpOf[c]] = Pending
    BY <1>1, <2>2, LiveFacts
  <2>4. /\ <<OpOf[c], body>> \in completing
        /\ completing' = completing \ {<<OpOf[c], body>>}
        /\ entries' = [Store!Live EXCEPT ![OpOf[c]] = body] /\ overdue' = {}
    BY <2>1, <2>3 DEF Store!CompleteFinish, Store!Stored
  <2>5. entries'[OpOf[c]] = body
    BY <1>1, <2>4, LiveFacts
  <2> QED
    BY <2>1, <2>2, <2>3, <2>4, <2>5
<1> QED
  BY <1>2, <1>3

\* A result expires after the call that left it.
LEMMA ExpireFacts ==
    ASSUME ExchangeInv, NEW o \in OpIds, ResultExpires(o)
    PROVE  /\ entries[o] \in Bodies /\ o \notin overdue /\ overdue' = overdue \cup {o}
           /\ \A c \in Calls : OpOf[c] = o /\ completion[c] = "over" => call[c] = "done"
           /\ expiries' = [expiries EXCEPT ![o] = expiries[o] + 1]
           /\ UNCHANGED <<call, outcome, captured, attached, verdict, native, requests, replies,
                          linked, phase, answer, generation, entries, completing, completion>>
  BY DEF ResultExpires, Store!Expire, Store!Terminal, client, channel, jobs

\* Every step keeps the reservations with the jobs.
LEMMA ReservationKept ==
    ASSUME ExchangeAssumption, ExchangeInv, [Next]_vars
    PROVE  ReservationInv'
<1>1. Shapes /\ JobInv /\ ReservationInv
  BY DEF ExchangeInv
<1>2. \A o \in OpIds : /\ entries[o] = Pending => Store!Live[o] = Pending
                       /\ Store!Live[o] \in Bodies \cup {Pending} => entries[o] = Store!Live[o]
  BY <1>1, LiveFacts DEF ReservationInv
<1>3. CASE UNCHANGED <<entries, overdue, completing, phase, completion>>
  BY <1>1, <1>3 DEF ReservationInv, InFlight
<1>4. CASE Swept /\ UNCHANGED <<completing, phase, completion>>
  BY <1>1, <1>2, <1>4, LiveFacts DEF ReservationInv, InFlight, Swept
<1>5. ASSUME NEW c \in Calls, Admits(c), phase' = [phase EXCEPT ![c] = "queued"],
             UNCHANGED completion
      PROVE  ReservationInv'
  <2>1. \A d \in Calls : InFlight(d) => OpOf[d] # OpOf[c]
    BY <1>1, <1>2, <1>5, LiveFacts DEF ReservationInv, Admits
  <2>2. /\ \A d \in Calls : InFlight(d)' => InFlight(d) \/ d = c
        /\ entries'[OpOf[c]] = Pending /\ overdue' = {}
        /\ \A o \in OpIds : o # OpOf[c] => entries'[o] = Store!Live[o]
    BY <1>1, <1>5, LiveFacts DEF InFlight, Shapes, Admits
  <2> QED
    BY <1>1, <1>2, <2>1, <2>2, LiveFacts DEF ReservationInv
<1>6. ASSUME NEW c \in Calls, phase[c] # "new", NEW p \in {"running", "done"},
             phase' = [phase EXCEPT ![c] = p], UNCHANGED <<entries, overdue, completion>>
      PROVE  ReservationInv'
  BY <1>1, <1>6 DEF ReservationInv, InFlight, Shapes
<1>7. ASSUME NEW c \in Calls, NEW body \in Bodies, CompleteStart(c, body) PROVE ReservationInv'
  <2>1. Swept /\ UNCHANGED phase /\ completion' = [completion EXCEPT ![c] = "serialised"]
        /\ completion[c] = "none"
    BY <1>7, CompleteFacts
  <2>2. \A d \in Calls : InFlight(d)' => InFlight(d)
    BY <1>1, <2>1 DEF InFlight, Shapes
  <2> QED
    BY <1>1, <1>2, <2>1, <2>2, LiveFacts DEF ReservationInv, Swept
<1>8. ASSUME NEW c \in Calls, NEW body \in Bodies, CompleteFinish(c, body) PROVE ReservationInv'
  <2>1. /\ phase[c] = "done" /\ completion[c] = "serialised" /\ UNCHANGED phase
        /\ entries' = [Store!Live EXCEPT ![OpOf[c]] = body] /\ overdue' = {}
        /\ completion' = [completion EXCEPT ![c] = "over"]
    BY <1>8, CompleteFacts
  <2>2. InFlight(c) /\ ~InFlight(c)' /\ \A d \in Calls : InFlight(d)' => InFlight(d)
    BY <1>1, <2>1 DEF InFlight, Shapes
  <2>3. \A o \in OpIds : o # OpOf[c] => entries'[o] = Store!Live[o]
    BY <1>1, <2>1, LiveFacts
  <2> QED
    BY <1>1, <1>2, <2>1, <2>2, <2>3, LiveFacts DEF ReservationInv
<1>9. ASSUME NEW o \in OpIds, ResultExpires(o) PROVE ReservationInv'
  BY <1>1, <1>9, ExpireFacts DEF ReservationInv, InFlight
<1>10. CASE UNCHANGED vars
  BY <1>3, <1>10 DEF vars, server, jobs, store
<1> QED
  BY <1>1, <1>3, <1>4, <1>5, <1>6, <1>7, <1>8, <1>9, <1>10, StoreSteps

\* What a step can change for a call that has been sent, or is over.
LEMMA SentStep ==
    ASSUME ExchangeAssumption, Shapes, [Next]_vars
    PROVE  /\ \A c \in Calls : call[c] \notin {"idle", "waiting"} /\ c \notin requests => c \notin requests'
           /\ \A c \in Calls : /\ phase[c] = "new" /\ c \notin requests => phase'[c] = "new"
                               /\ phase[c] = "done" => phase'[c] = "done"
                               /\ native[c] = "no" /\ phase[c] # "running" => native'[c] = "no"
                               /\ native[c] = "ran" => native'[c] = "ran"
<1> DEFINE Jobs == \A c \in Calls :
              /\ phase[c] = "new" /\ c \notin requests => phase'[c] = "new"
              /\ phase[c] = "done" => phase'[c] = "done"
              /\ native[c] = "no" /\ phase[c] # "running" => native'[c] = "no"
              /\ native[c] = "ran" => native'[c] = "ran"
<1>1. CASE ClientStep
  <2>1. Jobs
    BY <1>1, ClientLeaves
  <2>2. \A c \in Calls : c \in requests' => c \in requests \/ Send(c)
    BY <1>1 DEF ClientStep, Call, FailBeforeSend, Send, Timeout, Deliver, Disconnect, Connect,
       Close, Attach, channel
  <2> QED
    BY <2>1, <2>2 DEF Send
<1>2. ASSUME NEW c \in Calls, ReceiveAdmitted(c) PROVE Jobs /\ requests' \subseteq requests
  BY <1>2 DEF ReceiveAdmitted, Receive, Dispatcher!Enqueue, Shapes, server
<1>3. ASSUME NEW c \in Calls, NEW kind \in Dispatcher!BeforeStart \cup {"Failed"}, JobRefused(c, kind)
      PROVE Jobs /\ requests' \subseteq requests
  BY <1>3 DEF JobRefused, Dispatcher!Refuse, Shapes, server, channel
<1>4. ASSUME NEW c \in Calls, JobStart(c) \/ NativeRefused(c)
      PROVE Jobs /\ requests' \subseteq requests
  BY <1>4 DEF JobStart, NativeRefused, Dispatcher!Start, Dispatcher!Finish, Shapes, server, channel
<1>5. ASSUME NEW c \in Calls, NativeBegin(c) PROVE Jobs /\ requests' \subseteq requests
  BY <1>5 DEF NativeBegin, Shapes, jobs, channel
<1>6. ASSUME NEW c \in Calls, NativeEnd(c) PROVE Jobs /\ requests' \subseteq requests
  BY <1>6 DEF NativeEnd, Dispatcher!Finish, Shapes, channel
<1>7. ASSUME \/ \E c \in Calls :
                 \/ ReceiveRefused(c) \/ ReceiveKnown(c) \/ Lookup(c)
                 \/ \E running \in BOOLEAN : Reconcile(c, running)
                 \/ \E body \in Bodies : CompleteStart(c, body) \/ CompleteFinish(c, body)
             \/ \E o \in OpIds : ResultExpires(o)
             \/ UNCHANGED vars
      PROVE  requests' \subseteq requests /\ UNCHANGED <<native, phase>>
  BY <1>7 DEF ReceiveRefused, ReceiveKnown, Lookup, Reconcile, CompleteStart, CompleteFinish,
     ResultExpires, Receive, vars, server, channel, jobs
<1> QED
  BY <1>1, <1>2, <1>3, <1>4, <1>5, <1>6, <1>7, NextSteps

\* What has been true of a sent call stays true.
LEMMA TruthKept ==
    ASSUME ExchangeAssumption, ExchangeInv, [Next]_vars,
           NEW c \in Calls, call[c] \notin {"idle", "waiting"}, NEW b, Truth(c, b)
    PROVE  Truth(c, b)'
<1>1. Shapes
  BY DEF ExchangeInv
<1>2. Ran(OpOf[c]) => Ran(OpOf[c])'
  BY <1>1, SentStep DEF Ran
<1>3. b \in NotStarted => /\ native'[c] = "no" /\ phase'[c] \in {"new", "done"} /\ c \notin requests'
  BY <1>1, SentStep DEF Truth
<1> QED
  BY <1>2, <1>3 DEF Truth

\* An operation that ran has run.
LEMMA RanKept ==
    ASSUME ExchangeAssumption, Shapes, [Next]_vars, NEW o, Ran(o)
    PROVE  Ran(o)'
  BY SentStep DEF Ran

\* A call whose job is on its way, or over, has been sent.
LEMMA JobWasSent ==
    ASSUME ExchangeInv, NEW c \in Calls, phase[c] # "new" \/ completion[c] # "none"
    PROVE  call[c] \notin {"idle", "waiting"}
  BY DEF ExchangeInv, JobInv, SentInv

\* What a completion retains is true of its call.
LEMMA RetainsTruth ==
    ASSUME ExchangeAssumption, ExchangeInv, NEW c \in Calls, NEW body \in Bodies,
           CompleteStart(c, body)
    PROVE  Truth(c, Store!Retained(body)) /\ Store!Retained(body) \in Bodies
<1>1. Shapes /\ JobInv /\ SentInv
  BY DEF ExchangeInv
<1>2. phase[c] = "done" /\ body \in Results(c)
  BY CompleteFacts
<1>3. answer[c] \in {"Completed", "Failed", "Busy", "DeadlineExceeded", "Cancelled", "ShuttingDown"}
  BY <1>1, <1>2 DEF Shapes, JobInv, Answers, Dispatcher!BeforeStart
<1>4. /\ body \in NotStarted => native[c] = "no"
      /\ body \in {"completed", "large"} => native[c] = "ran"
      /\ body # "too_large"
  BY <1>1, <1>2, <1>3 DEF Results, JobInv, NotStarted, Dispatcher!BeforeStart
<1>5. Store!Retained(body) \in {body, "too_large"} /\ (body # "large" => Store!Retained(body) = body)
  BY DEF Store!Retained, ExchangeAssumption, Store!StoreAssumption
<1>6. c \notin requests
  BY <1>1, <1>2 DEF SentInv
<1> QED
  BY <1>2, <1>4, <1>5, <1>6 DEF Truth, Ran, NotStarted, Bodies

\* Every step keeps the serialised results those of their jobs.
LEMMA CompletingKept ==
    ASSUME ExchangeAssumption, ExchangeInv, [Next]_vars
    PROVE  CompletingInv'
<1>1. Shapes /\ JobInv /\ ReservationInv /\ CompletingInv
  BY DEF ExchangeInv
<1>2. \A c \in Calls, b \in Bodies : completion[c] = "serialised" /\ Truth(c, b) => Truth(c, b)'
  BY JobWasSent, TruthKept
<1>3. CASE UNCHANGED completing /\ UNCHANGED completion
  BY <1>1, <1>2, <1>3 DEF CompletingInv
<1>4. ASSUME NEW c \in Calls, NEW body \in Bodies, CompleteStart(c, body) PROVE CompletingInv'
  <2> DEFINE kept == Store!Retained(body)
  <2>1. /\ phase[c] = "done" /\ completion[c] = "none"
        /\ completing' = completing \cup {<<OpOf[c], kept>>}
        /\ completion' = [completion EXCEPT ![c] = "serialised"]
        /\ UNCHANGED <<native, requests, phase>>
    BY <1>4, CompleteFacts
  <2>2. Truth(c, kept) /\ kept \in Bodies
    BY <1>4, RetainsTruth
  <2>3. Truth(c, kept)'
    BY <2>1, <2>2 DEF Truth, Ran
  <2>4. \A b \in Bodies : <<OpOf[c], b>> \notin completing
    <3> SUFFICES ASSUME NEW b \in Bodies, <<OpOf[c], b>> \in completing PROVE FALSE
      OBVIOUS
    <3>1. PICK d \in Calls : OpOf[d] = OpOf[c] /\ completion[d] = "serialised"
      BY <1>1, LiveFacts DEF CompletingInv
    <3>2. InFlight(c) /\ InFlight(d)
      BY <1>1, <2>1, <3>1 DEF InFlight, JobInv
    <3> QED
      BY <1>1, <2>1, <3>1, <3>2 DEF ReservationInv
  <2>5. completion'[c] = "serialised" /\ \A d \in Calls : completion[d] = "serialised" => completion'[d] = "serialised"
    BY <1>1, <2>1 DEF Shapes
  <2>6. ASSUME NEW o \in OpIds, NEW b \in Bodies, <<o, b>> \in completing'
        PROVE  \E d \in Calls : OpOf[d] = o /\ completion'[d] = "serialised" /\ Truth(d, b)'
    <3>1. CASE <<o, b>> \in completing
      <4>1. PICK d \in Calls : OpOf[d] = o /\ completion[d] = "serialised" /\ Truth(d, b)
        BY <1>1, <3>1 DEF CompletingInv
      <4> QED
        BY <1>2, <2>5, <4>1
    <3>2. CASE <<o, b>> = <<OpOf[c], kept>>
      BY <2>3, <2>5, <3>2
    <3> QED
      BY <2>1, <2>6, <3>1, <3>2
  <2>7. ASSUME NEW o \in OpIds, NEW b \in Bodies, NEW e \in Bodies, <<o, b>> \in completing', <<o, e>> \in completing'
        PROVE  b = e
    BY <1>1, <2>1, <2>4, <2>7 DEF CompletingInv
  <2> HIDE DEF kept
  <2> QED
    BY <2>6, <2>7 DEF CompletingInv
<1>5. ASSUME NEW c \in Calls, NEW body \in Bodies, CompleteFinish(c, body) PROVE CompletingInv'
  <2>1. /\ phase[c] = "done" /\ completion[c] = "serialised" /\ <<OpOf[c], body>> \in completing
        /\ completing' = completing \ {<<OpOf[c], body>>}
        /\ completion' = [completion EXCEPT ![c] = "over"]
    BY <1>5, CompleteFacts
  <2>2. ASSUME NEW o \in OpIds, NEW b \in Bodies, <<o, b>> \in completing'
        PROVE  \E d \in Calls : OpOf[d] = o /\ completion'[d] = "serialised" /\ Truth(d, b)'
    <3>1. PICK d \in Calls : OpOf[d] = o /\ completion[d] = "serialised" /\ Truth(d, b)
      BY <1>1, <2>1, <2>2 DEF CompletingInv
    <3>2. d # c
      BY <1>1, <2>1, <2>2, <3>1 DEF CompletingInv
    <3> QED
      BY <1>1, <1>2, <2>1, <3>1, <3>2 DEF Shapes
  <2> QED
    BY <1>1, <2>1, <2>2 DEF CompletingInv
<1>6. ASSUME NEW o \in OpIds, ResultExpires(o) PROVE CompletingInv'
  BY <1>3, <1>6, ExpireFacts
<1>7. CASE UNCHANGED vars
  BY <1>3, <1>7 DEF vars, server, store
<1> QED
  BY <1>1, <1>3, <1>4, <1>5, <1>6, <1>7, StoreSteps

\* What a job serialised for its operation is true of its own call.
LEMMA SerialisedTruth ==
    ASSUME ExchangeAssumption, ExchangeInv, NEW c \in Calls, NEW body \in Bodies,
           completion[c] = "serialised", <<OpOf[c], body>> \in completing
    PROVE  Truth(c, body)
<1>1. Shapes /\ JobInv /\ ReservationInv /\ CompletingInv
  BY DEF ExchangeInv
<1>2. PICK d \in Calls : OpOf[d] = OpOf[c] /\ completion[d] = "serialised" /\ Truth(d, body)
  BY <1>1, LiveFacts DEF CompletingInv
<1>3. InFlight(c) /\ InFlight(d)
  BY <1>1, <1>2 DEF InFlight, JobInv
<1> QED
  BY <1>1, <1>2, <1>3 DEF ReservationInv

\* A call that is over stays over.
LEMMA DoneStays ==
    ASSUME Shapes, [Next]_vars, NEW c \in Calls, call[c] = "done"
    PROVE  call'[c] = "done"
<1>1. CASE ClientStep
  <2>1. ASSUME NEW d \in Calls, Call(d) PROVE call'[c] = "done"
    BY <2>1 DEF Call, Shapes
  <2>2. ASSUME NEW d \in Calls,
               FailBeforeSend(d) \/ Timeout(d) \/ \E body \in Bodies : Deliver(d, body)
        PROVE  call'[c] = "done"
    <3>1. CASE FailBeforeSend(d)
      BY <3>1 DEF FailBeforeSend, Settle, Shapes
    <3>2. CASE Timeout(d)
      BY <3>2 DEF Timeout, Settle, Shapes
    <3>3. ASSUME NEW body \in Bodies, Deliver(d, body) PROVE call'[c] = "done"
      BY <3>3 DEF Deliver, Settle, Shapes
    <3> QED
      BY <2>2, <3>1, <3>2, <3>3
  <2>3. ASSUME NEW d \in Calls, Send(d) PROVE call'[c] = "done"
    BY <2>3 DEF Send, Shapes
  <2>4. CASE Disconnect
    BY <2>4 DEF Disconnect, Disconnected
  <2>5. CASE Close
    BY <2>5 DEF Close
  <2>6. CASE Connect \/ Attach
    BY <2>6 DEF Connect, Attach, client
  <2> QED
    BY <1>1, <2>1, <2>2, <2>3, <2>4, <2>5, <2>6 DEF ClientStep
<1>2. CASE ~ClientStep
  BY <1>2, NextSteps DEF ReceiveRefused, ReceiveAdmitted, ReceiveKnown, Lookup, JobStart,
     NativeBegin, NativeRefused, NativeEnd, JobRefused, CompleteStart, CompleteFinish,
     Reconcile, ResultExpires, vars, client
<1> QED
  BY <1>1, <1>2

\* Every step keeps what is retained true.
LEMMA RetainedKept ==
    ASSUME ExchangeAssumption, ExchangeInv, [Next]_vars
    PROVE  RetainedInv'
<1>1. Shapes /\ JobInv /\ SentInv /\ ReservationInv /\ CompletingInv /\ RetainedInv
  BY DEF ExchangeInv
<1> DEFINE Asked(c) == completion[c] = "over" /\ call[c] # "done"
           OldTruth(c) == Truth(c, entries[OpOf[c]])
<1>2. \A c \in Calls : Asked(c)' /\ completion[c] = "over" => Asked(c)
  BY DoneStays, <1>1
<1>3. ASSUME NEW c \in Calls, Asked(c)
      PROVE  /\ OpOf[c] \notin overdue /\ entries[OpOf[c]] \in Bodies
             /\ Store!Live[OpOf[c]] = entries[OpOf[c]]
             /\ \A b : b = entries[OpOf[c]] => Truth(c, b)'
  <2>1. /\ OpOf[c] \notin overdue /\ entries[OpOf[c]] \in Bodies
        /\ Truth(c, entries[OpOf[c]])
    BY <1>1, <1>3 DEF RetainedInv
  <2>2. Store!Live[OpOf[c]] = entries[OpOf[c]]
    BY <1>1, <2>1, LiveFacts
  <2>3. call[c] \notin {"idle", "waiting"}
    BY <1>3, JobWasSent
  <2> QED
    BY <2>1, <2>2, <2>3, TruthKept
<1>4. \A o \in OpIds : Ran(o) => Ran(o)'
  BY <1>1, RanKept
<1>5. ASSUME \A o \in OpIds : \/ entries'[o] = entries[o]
                              \/ entries'[o] \in {Absent, Pending} /\ Store!Live[o] = Absent,
             overdue' \subseteq overdue, UNCHANGED completion
      PROVE  RetainedInv'
  <2>1. \A o \in OpIds : entries'[o] \in {"completed", "too_large"} => Ran(o)'
    BY <1>1, <1>4, <1>5, LiveFacts DEF RetainedInv, Bodies
  <2>2. ASSUME NEW c \in Calls, Asked(c)'
        PROVE  /\ OpOf[c] \notin overdue' /\ entries'[OpOf[c]] \in Bodies
               /\ Truth(c, entries[OpOf[c]])'
    <3>1. Asked(c)
      BY <1>2, <1>5, <2>2
    <3>2. entries'[OpOf[c]] = entries[OpOf[c]]
      BY <1>1, <1>3, <1>5, <3>1, LiveFacts
    <3> QED
      BY <1>3, <1>5, <3>1, <3>2
  <2> QED
    BY <2>1, <2>2 DEF RetainedInv
<1>6. CASE Swept /\ UNCHANGED completion
  BY <1>1, <1>5, <1>6, LiveFacts DEF Swept
<1>7. ASSUME NEW c \in Calls, Admits(c), UNCHANGED completion PROVE RetainedInv'
  BY <1>1, <1>5, <1>7, LiveFacts DEF Admits
<1>8. ASSUME NEW c \in Calls, NEW body \in Bodies, CompleteStart(c, body) PROVE RetainedInv'
  <2>1. /\ Swept /\ completion' = [completion EXCEPT ![c] = "serialised"]
        /\ UNCHANGED <<call, native, requests, phase>>
    BY <1>8, CompleteFacts
  <2>2. \A o \in OpIds : entries'[o] = entries[o] \/ entries'[o] = Absent
    BY <1>1, <2>1, LiveFacts DEF Swept
  <2>3. \A o \in OpIds : entries'[o] \in {"completed", "too_large"} => Ran(o)'
    BY <1>1, <1>4, <2>2, LiveFacts DEF RetainedInv, Bodies
  <2>4. ASSUME NEW d \in Calls, Asked(d)'
        PROVE  /\ OpOf[d] \notin overdue' /\ entries'[OpOf[d]] \in Bodies
               /\ Truth(d, entries[OpOf[d]])'
    <3>1. Asked(d)
      BY <1>1, <2>1, <2>4 DEF Shapes
    <3>2. entries'[OpOf[d]] = entries[OpOf[d]] /\ overdue' = {}
      BY <1>3, <2>1, <3>1, LiveFacts DEF Swept
    <3> QED
      BY <1>3, <3>1, <3>2
  <2> QED
    BY <2>3, <2>4 DEF RetainedInv
<1>9. ASSUME NEW c \in Calls, NEW body \in Bodies, CompleteFinish(c, body) PROVE RetainedInv'
  <2>1. /\ phase[c] = "done" /\ completion[c] = "serialised" /\ <<OpOf[c], body>> \in completing
        /\ Store!Live[OpOf[c]] = Pending
        /\ entries' = [Store!Live EXCEPT ![OpOf[c]] = body] /\ overdue' = {}
        /\ completion' = [completion EXCEPT ![c] = "over"]
        /\ UNCHANGED <<call, native, requests, phase>>
    BY <1>9, CompleteFacts
  <2>2. Truth(c, body)
    BY <2>1, SerialisedTruth
  <2>3. Truth(c, body)'
    BY <2>1, <2>2 DEF Truth, Ran
  <2>4. entries'[OpOf[c]] = body /\ \A o \in OpIds : o # OpOf[c] => entries'[o] = Store!Live[o]
    BY <1>1, <2>1, LiveFacts
  <2>5. \A o \in OpIds : entries'[o] \in {"completed", "too_large"} => Ran(o)'
    <3>1. body \in {"completed", "too_large"} => Ran(OpOf[c])'
      BY <2>3 DEF Truth
    <3>2. ASSUME NEW o \in OpIds, o # OpOf[c], entries'[o] \in {"completed", "too_large"} PROVE Ran(o)'
      BY <1>1, <1>4, <2>4, <3>2, LiveFacts DEF RetainedInv, Bodies
    <3> QED
      BY <2>4, <3>1, <3>2
  <2>6. ASSUME NEW d \in Calls, Asked(d)'
        PROVE  /\ OpOf[d] \notin overdue' /\ entries'[OpOf[d]] \in Bodies
               /\ Truth(d, entries[OpOf[d]])'
    <3>1. CASE d = c
      BY <2>1, <2>3, <2>4, <3>1
    <3>2. CASE d # c
      <4>1. Asked(d)
        BY <1>1, <2>1, <2>6, <3>2 DEF Shapes
      <4>2. OpOf[d] # OpOf[c] /\ entries'[OpOf[d]] = entries[OpOf[d]]
        BY <1>1, <1>3, <2>1, <2>4, <4>1, LiveFacts
      <4> QED
        BY <1>3, <2>1, <4>1, <4>2
    <3> QED
      BY <3>1, <3>2
  <2> QED
    BY <2>5, <2>6 DEF RetainedInv
<1>10. ASSUME NEW o \in OpIds, ResultExpires(o) PROVE RetainedInv'
  <2>1. /\ overdue' = overdue \cup {o} /\ UNCHANGED <<call, native, requests, phase, entries, completion>>
        /\ \A c \in Calls : OpOf[c] = o /\ completion[c] = "over" => call[c] = "done"
    BY <1>10, ExpireFacts
  <2> QED
    BY <1>1, <2>1 DEF RetainedInv, Truth, Ran
<1>11. CASE UNCHANGED <<entries, overdue, completion>>
  BY <1>5, <1>11
<1>12. CASE UNCHANGED vars
  BY <1>11, <1>12 DEF vars, server, store
<1> QED
  BY <1>1, <1>6, <1>7, <1>8, <1>9, <1>10, <1>11, <1>12, StoreSteps

\* What the client has been told, or will be, stays true.
LEMMA OldToldKept ==
    ASSUME ExchangeAssumption, ExchangeInv, [Next]_vars
    PROVE  /\ \A c \in Calls, b \in Bodies : <<c, b>> \in replies => Truth(c, b)'
           /\ \A c \in Calls : \A b : b = outcome[c] => Truth(c, b)'
<1>1. SentInv /\ ToldInv
  BY DEF ExchangeInv
<1>2. ASSUME NEW c \in Calls, NEW b \in Bodies, <<c, b>> \in replies PROVE Truth(c, b)'
  <2>1. Truth(c, b) /\ call[c] \notin {"idle", "waiting"}
    BY <1>1, <1>2 DEF ToldInv, SentInv
  <2> QED
    BY <2>1, TruthKept
<1>3. ASSUME NEW c \in Calls, NEW b, b = outcome[c] PROVE Truth(c, b)'
  <2>1. CASE b = "none"
    BY <2>1 DEF Truth, NotStarted
  <2>2. CASE b # "none"
    <3>1. Truth(c, b) /\ call[c] \notin {"idle", "waiting"}
      BY <1>1, <1>3, <2>2 DEF ToldInv, SentInv
    <3> QED
      BY <3>1, TruthKept
  <2> QED
    BY <2>1, <2>2
<1> QED
  BY <1>2, <1>3

\* The server's answers are true.
LEMMA AnswersAreTrue ==
    ASSUME ExchangeAssumption, ExchangeInv, NEW c \in Calls,
           \/ ReceiveRefused(c) \/ ReceiveKnown(c) \/ Lookup(c)
           \/ \E body \in Bodies : CompleteFinish(c, body)
    PROVE  \E b \in Bodies : Truth(c, b)' /\ replies' = replies \cup {<<c, b>>}
<1>1. Shapes /\ JobInv /\ SentInv /\ ReservationInv /\ CompletingInv /\ RetainedInv /\ ToldInv
  BY DEF ExchangeInv
<1>2. CASE ReceiveRefused(c)
  <2>1. /\ c \in requests /\ requests' = requests \ {c} /\ UNCHANGED <<native, phase>>
        /\ \E b \in {"failed", "deadline"} : replies' = replies \cup {<<c, b>>}
    BY <1>2 DEF ReceiveRefused, Receive, Reply, server, jobs
  <2>2. phase[c] = "new" /\ native[c] = "no"
    BY <1>1, <2>1 DEF SentInv, JobInv
  <2>3. \A b \in {"failed", "deadline"} : Truth(c, b)'
    BY <2>1, <2>2 DEF Truth
  <2> QED
    BY <2>1, <2>3 DEF Bodies
<1>3. CASE ReceiveKnown(c)
  <2> DEFINE told == IF Store!AdmitState(OpOf[c]) = "ExistingTerminal" THEN entries[OpOf[c]] ELSE "busy"
  <2>1. /\ c \in requests /\ requests' = requests \ {c} /\ UNCHANGED <<native, phase>>
        /\ replies' = replies \cup {<<c, told>>}
    BY <1>3 DEF ReceiveKnown, Receive, Reply, server, jobs
  <2>2. phase[c] = "new" /\ native[c] = "no"
    BY <1>1, <2>1 DEF SentInv, JobInv
  <2>3. told \in Bodies /\ (told \in {"completed", "too_large"} => Ran(OpOf[c]))
    <3>1. CASE Store!AdmitState(OpOf[c]) = "ExistingTerminal"
      BY <1>1, <3>1, LiveFacts, AdmitFacts DEF RetainedInv
    <3>2. CASE Store!AdmitState(OpOf[c]) # "ExistingTerminal"
      BY <3>2 DEF Bodies
    <3> QED
      BY <3>1, <3>2
  <2>4. Ran(OpOf[c]) => Ran(OpOf[c])'
    BY <2>1 DEF Ran
  <2> HIDE DEF told
  <2>5. ASSUME NEW b, b = told PROVE Truth(c, b)'
    BY <2>1, <2>2, <2>3, <2>4, <2>5 DEF Truth
  <2> QED
    BY <2>1, <2>3, <2>5
<1>4. CASE Lookup(c)
  <2>1. /\ Recovers(c) /\ Store!Live[OpOf[c]] \in Bodies /\ UNCHANGED <<native, phase, requests>>
        /\ replies' = replies \cup {<<c, entries[OpOf[c]]>>}
    BY <1>4 DEF Lookup, Reply, server, jobs
  <2>2. /\ c \notin requests /\ call[c] = "recovering"
        /\ entries[OpOf[c]] \in Bodies /\ entries[OpOf[c]] # Pending
    BY <1>1, <2>1, LiveFacts DEF SentInv, Recovers
  <2>3. Truth(c, entries[OpOf[c]])
    <3>1. CASE phase[c] = "new"
      BY <1>1, <2>2, <3>1, LiveFacts DEF RetainedInv, JobInv, Truth
    <3>2. CASE InFlight(c)
      BY <1>1, <2>2, <3>2 DEF ReservationInv
    <3>3. CASE completion[c] = "over"
      BY <1>1, <2>2, <3>3 DEF RetainedInv
    <3> QED
      BY <3>1, <3>2, <3>3 DEF InFlight
  <2>4. ASSUME NEW b, b = entries[OpOf[c]] PROVE Truth(c, b)'
    BY <2>1, <2>3, <2>4 DEF Truth, Ran
  <2> QED
    BY <2>1, <2>2, <2>4
<1>5. ASSUME NEW body \in Bodies, CompleteFinish(c, body)
      PROVE  Truth(c, body)' /\ replies' = replies \cup {<<c, body>>}
  <2>1. /\ completion[c] = "serialised" /\ <<OpOf[c], body>> \in completing
        /\ replies' = replies \cup {<<c, body>>} /\ UNCHANGED <<native, requests, phase>>
    BY <1>5, CompleteFacts
  <2>2. Truth(c, body)
    BY <2>1, SerialisedTruth
  <2> QED
    BY <2>1, <2>2 DEF Truth, Ran
<1> QED
  BY <1>2, <1>3, <1>4, <1>5

\* Every step keeps what the client is told true.
LEMMA ToldKept ==
    ASSUME ExchangeAssumption, ExchangeInv, [Next]_vars
    PROVE  ToldInv'
<1>1. Shapes /\ JobInv /\ SentInv /\ ToldInv
  BY DEF ExchangeInv
<1>2. \A c \in Calls : call[c] \in {"idle", "waiting"} => /\ native[c] = "no" /\ phase[c] = "new"
                                                        /\ c \notin requests
  BY <1>1 DEF SentInv, JobInv
<1>3. ASSUME replies' \subseteq replies, UNCHANGED outcome PROVE ToldInv'
  BY <1>3, OldToldKept DEF ToldInv
<1>4. ASSUME NEW c \in Calls, FailBeforeSend(c) \/ Timeout(c) PROVE ToldInv'
  <2>1. /\ UNCHANGED <<replies, requests, native, phase>>
        /\ \/ call[c] = "waiting" /\ outcome' = [outcome EXCEPT ![c] = "rejected"]
           \/ outcome' = [outcome EXCEPT ![c] = "unknown"]
    BY <1>4 DEF FailBeforeSend, Timeout, Settle, channel, server, jobs
  <2>2. \A b \in {"rejected", "unknown"} : outcome'[c] = b => Truth(c, b)'
    BY <1>1, <1>2, <2>1 DEF Truth, NotStarted, Shapes
  <2> QED
    BY <1>1, <2>1, <2>2, OldToldKept DEF ToldInv, Shapes
<1>5. ASSUME NEW c \in Calls, NEW body \in Bodies, Deliver(c, body) PROVE ToldInv'
  <2>1. /\ <<c, body>> \in replies /\ replies' \subseteq replies
        /\ outcome' = outcome \/ outcome' = [outcome EXCEPT ![c] = body]
    BY <1>5 DEF Deliver, Settle
  <2> QED
    BY <1>1, <2>1, OldToldKept DEF ToldInv, Shapes
<1>6. CASE Disconnect \/ Close
  <2>1. /\ replies' \subseteq replies /\ requests' \subseteq requests /\ UNCHANGED <<native, phase>>
        /\ \A c \in Calls : \/ outcome'[c] = outcome[c] \/ outcome'[c] = "unknown"
                            \/ call[c] = "waiting" /\ outcome'[c] = "rejected"
    <3>1. CASE Disconnect
      BY <1>1, <3>1 DEF Disconnect, Disconnected, server, jobs, Shapes
    <3>2. CASE Close
      <4>1. UNCHANGED <<replies, requests, native, phase>>
        BY <3>2 DEF Close, server, channel, jobs
      <4>2. ASSUME NEW c \in Calls
            PROVE  \/ outcome'[c] = outcome[c] \/ outcome'[c] = "unknown"
                   \/ call[c] = "waiting" /\ outcome'[c] = "rejected"
        BY <3>2 DEF Close
      <4> QED
        BY <4>1, <4>2
    <3> QED
      BY <1>6, <3>1, <3>2
  <2>2. ASSUME NEW c \in Calls PROVE Truth(c, outcome[c])'
    <3>1. ASSUME NEW b, b = outcome'[c] PROVE Truth(c, b)'
      <4>1. CASE b = outcome[c]
        BY <4>1, OldToldKept
      <4>2. CASE b = "unknown"
        BY <4>2 DEF Truth, NotStarted
      <4>3. CASE call[c] = "waiting" /\ b = "rejected"
        BY <1>2, <2>1, <4>3 DEF Truth
      <4> QED
        BY <2>1, <3>1, <4>1, <4>2, <4>3
    <3> QED
      BY <3>1
  <2> QED
    BY <2>1, <2>2, OldToldKept DEF ToldInv
<1>7. ASSUME NEW c \in Calls,
             \/ ReceiveRefused(c) \/ ReceiveKnown(c) \/ Lookup(c)
             \/ \E body \in Bodies : CompleteFinish(c, body)
      PROVE  ToldInv'
  <2>1. PICK b \in Bodies : Truth(c, b)' /\ replies' = replies \cup {<<c, b>>}
    BY <1>7, AnswersAreTrue
  <2>2. UNCHANGED outcome
    BY <1>7 DEF ReceiveRefused, ReceiveKnown, Lookup, CompleteFinish, client
  <2> QED
    BY <2>1, <2>2, OldToldKept DEF ToldInv
<1>8. ASSUME NEW c \in Calls, Call(c) \/ Send(c)
      PROVE replies' \subseteq replies /\ UNCHANGED outcome
  BY <1>8 DEF Call, Send, client, channel
<1>9. ASSUME NEW c \in Calls,
             \/ ReceiveAdmitted(c) \/ JobStart(c) \/ NativeBegin(c) \/ NativeRefused(c)
             \/ NativeEnd(c)
             \/ \E kind \in Dispatcher!BeforeStart \cup {"Failed"} : JobRefused(c, kind)
             \/ \E body \in Bodies : CompleteStart(c, body)
             \/ \E running \in BOOLEAN : Reconcile(c, running)
      PROVE replies' \subseteq replies /\ UNCHANGED outcome
  BY <1>9 DEF ReceiveAdmitted, JobStart, NativeBegin, NativeRefused, NativeEnd, JobRefused,
     CompleteStart, Reconcile, client, channel
<1>10. ASSUME Connect \/ Attach \/ (\E o \in OpIds : ResultExpires(o)) \/ UNCHANGED vars
       PROVE  replies' \subseteq replies /\ UNCHANGED outcome
  BY <1>10 DEF Connect, Attach, ResultExpires, vars, client, channel
<1> QED
  BY <1>3, <1>4, <1>5, <1>6, <1>7, <1>8, <1>9, <1>10, NextSteps DEF ClientStep

\* Only an expiry is counted.
LEMMA ExpiriesCounted ==
    ASSUME Next
    PROVE  expiries' = expiries \/ \E o \in OpIds : ResultExpires(o)
<1>1. CASE ClientStep
  BY <1>1 DEF ClientStep, Call, FailBeforeSend, Send, Timeout, Deliver, Disconnect, Connect,
     Close, Attach, server
<1> QED
  BY <1>1, NextSteps DEF ReceiveRefused, ReceiveAdmitted, ReceiveKnown, Lookup, JobStart,
     NativeBegin, NativeRefused, NativeEnd, JobRefused, CompleteStart, CompleteFinish,
     Reconcile, server

\* What the store holds once a step has dropped what expired.
LEMMA LiveSteps ==
    ASSUME ExchangeAssumption, ExchangeInv
    PROVE  /\ UNCHANGED <<entries, overdue>> => UNCHANGED Store!Live
           /\ Swept => UNCHANGED Store!Live
           /\ \A c \in Calls : Admits(c) =>
                /\ Store!Live[OpOf[c]] = Absent /\ Store!Live'[OpOf[c]] = Pending
                /\ \A o \in OpIds : o # OpOf[c] => Store!Live'[o] = Store!Live[o]
           /\ \A c \in Calls, body \in Bodies : CompleteFinish(c, body) =>
                /\ Store!Live[OpOf[c]] = Pending
                /\ \A o \in OpIds : o # OpOf[c] => Store!Live'[o] = Store!Live[o]
           /\ \A o \in OpIds : ResultExpires(o) =>
                /\ Store!Live[o] \in Bodies /\ Store!Live'[o] = Absent
                /\ \A e \in OpIds : e # o => Store!Live'[e] = Store!Live[e]
<1>1. Shapes
  BY DEF ExchangeInv
<1>2. \A o \in OpIds : Store!Live'[o] = IF o \in overdue' THEN Absent ELSE entries'[o]
  BY DEF Store!Live
<1>3. UNCHANGED <<entries, overdue>> => UNCHANGED Store!Live
  BY DEF Store!Live
<1>4. Swept => UNCHANGED Store!Live
  BY DEF Store!Live, Swept
<1>5. ASSUME NEW c \in Calls, Admits(c)
      PROVE  /\ Store!Live[OpOf[c]] = Absent /\ Store!Live'[OpOf[c]] = Pending
             /\ \A o \in OpIds : o # OpOf[c] => Store!Live'[o] = Store!Live[o]
  BY <1>1, <1>2, <1>5, LiveFacts DEF Admits
<1>6. ASSUME NEW c \in Calls, NEW body \in Bodies, CompleteFinish(c, body)
      PROVE  /\ Store!Live[OpOf[c]] = Pending
             /\ \A o \in OpIds : o # OpOf[c] => Store!Live'[o] = Store!Live[o]
  <2>1. /\ Store!Live[OpOf[c]] = Pending
        /\ entries' = [Store!Live EXCEPT ![OpOf[c]] = body] /\ overdue' = {}
    BY <1>6, CompleteFacts
  <2> QED
    BY <1>1, <1>2, <2>1, LiveFacts
<1>7. ASSUME NEW o \in OpIds, ResultExpires(o)
      PROVE  /\ Store!Live[o] \in Bodies /\ Store!Live'[o] = Absent
             /\ \A e \in OpIds : e # o => Store!Live'[e] = Store!Live[e]
  BY <1>1, <1>2, <1>7, LiveFacts, ExpireFacts
<1> QED
  BY <1>3, <1>4, <1>5, <1>6, <1>7

\* Every step keeps the jobs of an operation paid for.
LEMMA CountKept ==
    ASSUME ExchangeAssumption, ExchangeInv, [Next]_vars
    PROVE  CountInv'
<1>1. Shapes /\ JobInv /\ ReservationInv /\ CountInv
  BY DEF ExchangeInv
<1> DEFINE Paid(o) == expiries[o] + (IF Store!Live[o] = Absent THEN 0 ELSE 1)
<1>2. ASSUME \A o \in OpIds : Admitted(o)' = Admitted(o) /\ Paid(o)' = Paid(o) PROVE CountInv'
  BY <1>1, <1>2 DEF CountInv
<1>3. ASSUME UNCHANGED <<phase, Store!Live, expiries>> PROVE CountInv'
  BY <1>2, <1>3 DEF Admitted
<1>4. ASSUME NEW c \in Calls, Admits(c), phase' = [phase EXCEPT ![c] = "queued"], UNCHANGED expiries
      PROVE  CountInv'
  <2>1. /\ c \notin Admitted(OpOf[c]) /\ Admitted(OpOf[c])' = Admitted(OpOf[c]) \cup {c}
        /\ \A o \in OpIds : o # OpOf[c] => Admitted(o)' = Admitted(o)
    BY <1>1, <1>4 DEF Admits, Admitted, Shapes
  <2>2. /\ Paid(OpOf[c]) = expiries[OpOf[c]] /\ Paid(OpOf[c])' = expiries[OpOf[c]] + 1
        /\ \A o \in OpIds : o # OpOf[c] => Paid(o)' = Paid(o)
    BY <1>1, <1>4, LiveSteps, LiveFacts DEF Shapes
  <2>3. /\ IsFiniteSet(Admitted(OpOf[c])) /\ Cardinality(Admitted(OpOf[c])) <= Paid(OpOf[c])
    BY <1>1, LiveFacts DEF CountInv
  <2>4. /\ IsFiniteSet(Admitted(OpOf[c])')
        /\ Cardinality(Admitted(OpOf[c])') = Cardinality(Admitted(OpOf[c])) + 1
    BY <2>1, <2>3, FS_AddElement
  <2>5. Cardinality(Admitted(OpOf[c])) \in Nat /\ expiries[OpOf[c]] \in Nat
    BY <1>1, <2>3, FS_CardinalityType, LiveFacts DEF Shapes
  <2>6. Cardinality(Admitted(OpOf[c])') <= Paid(OpOf[c])'
    BY <2>2, <2>3, <2>4, <2>5
  <2>7. ASSUME NEW o \in OpIds
        PROVE  IsFiniteSet(Admitted(o)') /\ Cardinality(Admitted(o)') <= Paid(o)'
    <3>1. CASE o = OpOf[c]
      BY <2>4, <2>6, <3>1
    <3>2. CASE o # OpOf[c]
      BY <1>1, <2>1, <2>2, <3>2 DEF CountInv
    <3> QED
      BY <3>1, <3>2
  <2> QED
    BY <2>7 DEF CountInv
<1>5. ASSUME NEW c \in Calls, phase[c] # "new", NEW p \in {"running", "done"},
             phase' = [phase EXCEPT ![c] = p], UNCHANGED <<entries, overdue, expiries>>
      PROVE  CountInv'
  <2>1. \A o : Admitted(o)' = Admitted(o)
    BY <1>1, <1>5 DEF Admitted, Shapes
  <2>2. UNCHANGED Store!Live
    BY <1>5, LiveSteps
  <2> QED
    BY <1>2, <1>5, <2>1, <2>2
<1>6. ASSUME NEW c \in Calls, NEW body \in Bodies, CompleteStart(c, body), UNCHANGED expiries
      PROVE  CountInv'
  BY <1>3, <1>6, CompleteFacts, LiveSteps
<1>7. ASSUME NEW c \in Calls, NEW body \in Bodies, CompleteFinish(c, body) PROVE CountInv'
  <2>1. /\ Store!Live[OpOf[c]] = Pending /\ UNCHANGED <<phase, expiries>>
        /\ entries' = [Store!Live EXCEPT ![OpOf[c]] = body] /\ overdue' = {}
        /\ \A o \in OpIds : o # OpOf[c] => Store!Live'[o] = Store!Live[o]
    BY <1>7, CompleteFacts, LiveSteps
  <2>2. Store!Live'[OpOf[c]] = body
    BY <1>1, <2>1, LiveFacts DEF Store!Live
  <2>3. \A o \in OpIds : Paid(o)' = Paid(o)
    BY <1>1, <2>1, <2>2, LiveFacts
  <2> QED
    BY <1>2, <2>1, <2>3 DEF Admitted
<1>8. ASSUME NEW o \in OpIds, ResultExpires(o) PROVE CountInv'
  <2>1. /\ UNCHANGED phase /\ expiries' = [expiries EXCEPT ![o] = expiries[o] + 1]
        /\ Store!Live[o] # Absent /\ Store!Live'[o] = Absent
        /\ \A e \in OpIds : e # o => Store!Live'[e] = Store!Live[e]
    BY <1>1, <1>8, ExpireFacts, LiveSteps, LiveFacts
  <2>2. \A e \in OpIds : Paid(e)' = Paid(e)
    BY <1>1, <2>1 DEF Shapes
  <2> QED
    BY <1>2, <2>1, <2>2 DEF Admitted
<1>9. CASE UNCHANGED vars
  BY <1>3, <1>9, LiveSteps DEF vars, server, jobs, store
<1>10. CASE Next /\ UNCHANGED expiries
  <2>1. CASE UNCHANGED <<entries, overdue, completing, phase, completion>>
    BY <1>3, <1>10, <2>1, LiveSteps
  <2>2. CASE Swept /\ UNCHANGED <<completing, phase, completion>>
    BY <1>3, <1>10, <2>2, LiveSteps
  <2> QED
    BY <1>1, <1>4, <1>5, <1>6, <1>7, <1>8, <1>10, <2>1, <2>2, StoreSteps
<1> QED
  BY <1>8, <1>9, <1>10, ExpiriesCounted

\* Every step keeps a verdict about an attachment that is over.
LEMMA VerdictKept ==
    ASSUME ExchangeAssumption, ExchangeInv, [Next]_vars
    PROVE  VerdictInv'
<1>1. Shapes /\ JobInv /\ SentInv /\ ReservationInv /\ VerdictInv
  BY DEF ExchangeInv
<1>2. \A c \in Calls : call[c] = "done" => call'[c] = "done"
  BY <1>1, DoneStays
<1>3. CASE UNCHANGED <<verdict, captured, native>> /\ generation' \in {generation, generation + 1}
  BY <1>1, <1>2, <1>3 DEF VerdictInv, IdleStaysIdle, Shapes
<1>4. ASSUME NEW c \in Calls, Call(c) PROVE VerdictInv'
  BY <1>1, <1>2, <1>4 DEF Call, VerdictInv, IdleStaysIdle, Shapes, server
<1>5. ASSUME NEW c \in Calls, NativeBegin(c) PROVE VerdictInv'
  BY <1>1, <1>2, <1>5 DEF NativeBegin, VerdictInv, IdleStaysIdle, Shapes, client
<1>6. ASSUME NEW c \in Calls, NativeEnd(c) PROVE VerdictInv'
  BY <1>1, <1>2, <1>6 DEF NativeEnd, VerdictInv, IdleStaysIdle, Shapes, client
<1>7. ASSUME NEW c \in Calls, NEW running \in BOOLEAN, Reconcile(c, running) PROVE VerdictInv'
  <2>1. /\ outcome[c] = "unknown" /\ captured[c] < generation
        /\ SaysRunning(OpOf[c], running)
        /\ verdict' = [verdict EXCEPT ![c] = IF Idle(OpOf[c], running) THEN "idle" ELSE "busy"]
        /\ UNCHANGED <<call, captured, generation, native>>
    BY <1>7 DEF Reconcile, server
  <2>2. call[c] = "done"
    BY <1>1, <2>1 DEF SentInv
  <2>3. Idle(OpOf[c], running) => native[c] # "working"
    <3> SUFFICES ASSUME native[c] = "working" PROVE Store!Live[OpOf[c]] = Pending /\ running
      BY DEF Idle
    <3>1. phase[c] = "running" /\ completion[c] = "none"
      BY <1>1 DEF JobInv, Shapes
    <3>2. entries[OpOf[c]] = Pending /\ OpOf[c] \notin overdue
      BY <1>1, <3>1, LiveFacts DEF ReservationInv, InFlight
    <3> QED
      BY <1>1, <2>1, <3>1, <3>2, LiveFacts DEF SaysRunning
  <2> QED
    BY <1>1, <2>1, <2>2, <2>3 DEF VerdictInv, IdleStaysIdle, Shapes
<1>8. CASE Attach
  BY <1>1, <1>3, <1>8 DEF Attach
<1>9. ASSUME NEW c \in Calls,
             \/ FailBeforeSend(c) \/ Send(c) \/ Timeout(c)
             \/ ReceiveRefused(c) \/ ReceiveAdmitted(c) \/ ReceiveKnown(c) \/ Lookup(c)
             \/ JobStart(c) \/ NativeRefused(c)
             \/ \E kind \in Dispatcher!BeforeStart \cup {"Failed"} : JobRefused(c, kind)
             \/ \E body \in Bodies :
                  Deliver(c, body) \/ CompleteStart(c, body) \/ CompleteFinish(c, body)
      PROVE  UNCHANGED <<verdict, captured, native, generation>>
  BY <1>9 DEF FailBeforeSend, Send, Timeout, ReceiveRefused, ReceiveAdmitted, ReceiveKnown,
     Lookup, JobStart, NativeRefused, JobRefused, Deliver, CompleteStart, CompleteFinish,
     client, server
<1>10. ASSUME Disconnect \/ Connect \/ Close \/ (\E o \in OpIds : ResultExpires(o)) \/ UNCHANGED vars
       PROVE  UNCHANGED <<verdict, captured, native, generation>>
  BY <1>10 DEF Disconnect, Connect, Close, ResultExpires, vars, client, server
<1> QED
  BY <1>3, <1>4, <1>5, <1>6, <1>7, <1>8, <1>9, <1>10, NextSteps DEF ClientStep

\* Every step keeps the shapes.
LEMMA ShapesKept ==
    ASSUME ExchangeAssumption, ExchangeInv, [Next]_vars
    PROVE  Shapes'
<1>1. Shapes /\ JobInv /\ SentInv
  BY DEF ExchangeInv
<1> DEFINE ClientShapes == /\ call \in [Calls -> {"idle", "waiting", "sent", "recovering", "done"}]
                           /\ outcome \in [Calls -> Bodies \cup {"none", "rejected", "unknown"}]
                           /\ captured \in [Calls -> Nat]
                           /\ requests \subseteq Calls /\ replies \subseteq Calls \X Bodies
                           /\ generation \in Nat
           JobShapes == /\ native \in [Calls -> {"no", "working", "ran"}]
                        /\ completion \in [Calls -> {"none", "serialised", "over"}]
                        /\ verdict \in [Calls -> {"none", "idle", "busy"}]
                        /\ phase \in [Calls -> {"new", "queued", "running", "done"}]
                        /\ answer \in [Calls -> Answers]
           StoreShapes == /\ expiries \in [OpIds -> Nat]
                          /\ entries \in [OpIds -> Bodies \cup {Absent, Pending}]
                          /\ overdue \subseteq OpIds
                          /\ completing \subseteq OpIds \X Bodies
<1>2. ClientShapes /\ JobShapes /\ StoreShapes
  BY <1>1 DEF Shapes
<1>3. ClientShapes'
  <2>1. ASSUME NEW c \in Calls, Call(c) PROVE ClientShapes'
    BY <1>2, <2>1 DEF Call, server, channel
  <2>2. ASSUME NEW c \in Calls, FailBeforeSend(c) \/ Timeout(c) PROVE ClientShapes'
    BY <1>2, <2>2 DEF FailBeforeSend, Timeout, Settle, server, channel
  <2>3. ASSUME NEW c \in Calls, Send(c) PROVE ClientShapes'
    BY <1>2, <2>3 DEF Send, server
  <2>4. ASSUME NEW c \in Calls, NEW body \in Bodies, Deliver(c, body) PROVE ClientShapes'
    BY <1>2, <2>4 DEF Deliver, Settle, server
  <2>5. CASE Disconnect
    BY <1>2, <2>5 DEF Disconnect, Disconnected, server
  <2>6. CASE Connect
    BY <1>2, <2>6 DEF Connect, client, server
  <2>7. CASE Close
    <3>1. /\ UNCHANGED <<captured, generation, requests, replies>>
          /\ call' = [c \in Calls |-> IF call[c] = "idle" THEN "idle" ELSE "done"]
      BY <2>7 DEF Close, server, channel
    <3>2. outcome' \in [Calls -> Bodies \cup {"none", "rejected", "unknown"}]
      <4> DEFINE told(c) == CASE call[c] = "waiting" -> "rejected"
                              [] call[c] \in {"sent", "recovering"} -> "unknown"
                              [] OTHER -> outcome[c]
      <4>1. outcome' = [c \in Calls |-> told(c)]
        BY <2>7 DEF Close
      <4>2. \A c \in Calls : told(c) \in Bodies \cup {"none", "rejected", "unknown"}
        BY <1>2
      <4> HIDE DEF told
      <4> QED
        BY <4>1, <4>2
    <3> QED
      BY <1>2, <3>1, <3>2
  <2>8. CASE Attach
    BY <1>2, <2>8 DEF Attach
  <2>9. ASSUME NEW c \in Calls,
               \/ ReceiveRefused(c) \/ ReceiveKnown(c) \/ Lookup(c)
               \/ \E body \in Bodies : CompleteFinish(c, body)
        PROVE  ClientShapes'
    <3>1. \E b \in Bodies : replies' = replies \cup {<<c, b>>}
      BY <2>9, AnswersAreTrue
    <3>2. UNCHANGED <<call, outcome, captured, generation>> /\ requests' \subseteq requests
      BY <2>9 DEF ReceiveRefused, ReceiveKnown, Lookup, CompleteFinish, Receive, client, server
    <3> QED
      BY <1>2, <3>1, <3>2
  <2>10. ASSUME NEW c \in Calls,
                \/ ReceiveAdmitted(c) \/ JobStart(c) \/ NativeBegin(c) \/ NativeRefused(c)
                \/ NativeEnd(c)
                \/ \E kind \in Dispatcher!BeforeStart \cup {"Failed"} : JobRefused(c, kind)
                \/ \E body \in Bodies : CompleteStart(c, body)
                \/ \E running \in BOOLEAN : Reconcile(c, running)
         PROVE  /\ UNCHANGED <<call, outcome, captured, generation, replies>>
                /\ requests' \subseteq requests
    BY <2>10 DEF ReceiveAdmitted, JobStart, NativeBegin, NativeRefused, NativeEnd, JobRefused,
       CompleteStart, Reconcile, Receive, client, channel, server
  <2>11. ASSUME (\E o \in OpIds : ResultExpires(o)) \/ UNCHANGED vars
         PROVE  UNCHANGED <<call, outcome, captured, generation, replies, requests>>
    BY <2>11 DEF ResultExpires, vars, client, channel, server
  <2> QED
    BY <1>2, <2>1, <2>2, <2>3, <2>4, <2>5, <2>6, <2>7, <2>8, <2>9, <2>10, <2>11, NextSteps
       DEF ClientStep
<1>4. JobShapes'
  <2>1. ASSUME NEW c \in Calls, ReceiveAdmitted(c) PROVE JobShapes'
    BY <1>2, <2>1 DEF ReceiveAdmitted, Dispatcher!Enqueue, client, server
  <2>2. ASSUME NEW c \in Calls, JobStart(c) PROVE JobShapes'
    BY <1>2, <2>2 DEF JobStart, Dispatcher!Start, client, server
  <2>3. ASSUME NEW c \in Calls, NativeBegin(c) PROVE JobShapes'
    BY <1>2, <2>3 DEF NativeBegin, client, jobs
  <2>4. ASSUME NEW c \in Calls, NativeRefused(c) PROVE JobShapes'
    BY <1>2, <2>4 DEF NativeRefused, Dispatcher!Finish, client, server, Answers
  <2>5. ASSUME NEW c \in Calls, NativeEnd(c) PROVE JobShapes'
    BY <1>2, <2>5 DEF NativeEnd, Dispatcher!Finish, client, Answers
  <2>6. ASSUME NEW c \in Calls, NEW kind \in Dispatcher!BeforeStart \cup {"Failed"}, JobRefused(c, kind)
        PROVE JobShapes'
    BY <1>2, <2>6 DEF JobRefused, Dispatcher!Refuse, client, server, Answers
  <2>7. ASSUME NEW c \in Calls, NEW body \in Bodies, CompleteStart(c, body) \/ CompleteFinish(c, body)
        PROVE JobShapes'
    BY <1>2, <2>7 DEF CompleteStart, CompleteFinish, client, jobs
  <2>8. ASSUME NEW c \in Calls, NEW running \in BOOLEAN, Reconcile(c, running) PROVE JobShapes'
    BY <1>2, <2>8 DEF Reconcile, server, jobs
  <2>9. ASSUME \/ ClientStep \/ UNCHANGED vars \/ (\E o \in OpIds : ResultExpires(o))
               \/ \E c \in Calls : ReceiveRefused(c) \/ ReceiveKnown(c) \/ Lookup(c)
        PROVE  UNCHANGED <<native, completion, verdict, phase, answer>>
    BY <2>9, ClientLeaves DEF ResultExpires, ReceiveRefused, ReceiveKnown, Lookup, vars, client,
       server, jobs
  <2> QED
    BY <1>2, <2>1, <2>2, <2>3, <2>4, <2>5, <2>6, <2>7, <2>8, <2>9, NextSteps
<1>5. StoreShapes'
  <2>1. ASSUME NEW o \in OpIds, ResultExpires(o) PROVE StoreShapes'
    BY <1>2, <2>1, ExpireFacts
  <2>2. CASE UNCHANGED vars
    BY <1>2, <2>2 DEF vars, server, store
  <2>3. CASE Next /\ UNCHANGED expiries
    <3>1. CASE UNCHANGED <<entries, overdue, completing, phase, completion>>
      BY <1>2, <2>3, <3>1
    <3>2. CASE Swept /\ UNCHANGED completing
      BY <1>1, <1>2, <2>3, <3>2, LiveFacts DEF Swept
    <3>3. ASSUME NEW c \in Calls, Admits(c), UNCHANGED completing PROVE StoreShapes'
      BY <1>1, <1>2, <2>3, <3>3, LiveFacts DEF Admits
    <3>4. ASSUME NEW c \in Calls, NEW body \in Bodies, CompleteStart(c, body) PROVE StoreShapes'
      <4>1. /\ Swept /\ completing' = completing \cup {<<OpOf[c], Store!Retained(body)>>}
            /\ OpOf[c] \in OpIds
        BY <1>1, <3>4, CompleteFacts, LiveFacts
      <4>2. Store!Retained(body) \in Bodies
        BY <3>4, RetainsTruth
      <4> QED
        BY <1>1, <1>2, <2>3, <4>1, <4>2, LiveFacts DEF Swept
    <3>5. ASSUME NEW c \in Calls, NEW body \in Bodies, CompleteFinish(c, body) PROVE StoreShapes'
      <4>1. /\ completing' \subseteq completing /\ overdue' = {}
            /\ entries' = [Store!Live EXCEPT ![OpOf[c]] = body]
        BY <3>5, CompleteFacts
      <4> QED
        BY <1>1, <1>2, <2>3, <4>1, LiveFacts
    <3> QED
      BY <1>1, <1>2, <2>1, <2>3, <3>1, <3>2, <3>3, <3>4, <3>5, StoreSteps
  <2> QED
    BY <2>1, <2>2, <2>3, ExpiriesCounted
<1> QED
  BY <1>3, <1>4, <1>5 DEF Shapes

\* The exchange starts in order.
LEMMA ExchangeInit ==
    ASSUME ExchangeAssumption, Init
    PROVE  ExchangeInv
<1> USE DEF Init, Dispatcher!ContractInit, Store!StoreInit
<1>1. Shapes
  BY DEF Shapes, Answers
<1>2. JobInv /\ SentInv /\ VerdictInv
  BY DEF JobInv, SentInv, VerdictInv, IdleStaysIdle, Recovers
<1>3. ReservationInv /\ CompletingInv
  BY DEF ReservationInv, CompletingInv, InFlight
<1>4. RetainedInv /\ ToldInv
  BY DEF RetainedInv, ToldInv, Truth, NotStarted, ExchangeAssumption, Store!StoreAssumption, Bodies
<1>5. CountInv
  <2>1. \A o \in OpIds : Admitted(o) = {} /\ Store!Live[o] = Absent
    BY DEF Admitted, Store!Live
  <2> QED
    BY <2>1, FS_EmptySet DEF CountInv
<1> QED
  BY <1>1, <1>2, <1>3, <1>4, <1>5 DEF ExchangeInv

\* The inductive invariant of the exchange holds in every reachable state.
THEOREM ExchangeInvariant ==
    ASSUME ExchangeAssumption
    PROVE  Spec => []ExchangeInv
<1>1. Init => ExchangeInv
  BY ExchangeInit
<1>2. ExchangeInv /\ [Next]_vars => ExchangeInv'
  BY ShapesKept, JobKept, SentKept, ReservationKept, CompletingKept, RetainedKept, ToldKept,
     CountKept, VerdictKept DEF ExchangeInv
<1> QED
  BY <1>1, <1>2, PTL DEF Spec

\* What a caller is told of its operation is what happened, through lost
\* connections, recovery and repeated IDs, and within the time its result is
\* retained an operation runs once.
THEOREM CallersToldTruth ==
    ASSUME ExchangeAssumption
    PROVE  Spec => []OutcomeTellsExecution
<1>1. ExchangeInv => OutcomeIsTrue
  BY DEF ExchangeInv, ToldInv, Truth, Ran, OutcomeIsTrue
<1>2. ASSUME ExchangeInv PROVE OncePerRetention
  <2> SUFFICES ASSUME NEW o \in OpIds
               PROVE  Cardinality({c \in Calls : OpOf[c] = o /\ native[c] # "no"}) <= 1 + expiries[o]
    BY DEF OncePerRetention
  <2> DEFINE ran == {c \in Calls : OpOf[c] = o /\ native[c] # "no"}
  <2>1. Shapes /\ JobInv /\ CountInv
    BY <1>2 DEF ExchangeInv
  <2>2. ran \subseteq Admitted(o)
    BY <2>1 DEF Admitted, JobInv
  <2>3. /\ IsFiniteSet(Admitted(o))
        /\ Cardinality(Admitted(o)) <= expiries[o] + (IF Store!Live[o] = Absent THEN 0 ELSE 1)
    BY <2>1 DEF CountInv
  <2>4. /\ Cardinality(ran) \in Nat /\ Cardinality(Admitted(o)) \in Nat
        /\ Cardinality(ran) <= Cardinality(Admitted(o))
    BY <2>2, <2>3, FS_Subset, FS_CardinalityType
  <2>5. expiries[o] \in Nat
    BY <2>1 DEF Shapes
  <2> HIDE DEF ran
  <2>6. Cardinality(ran) <= 1 + expiries[o]
    BY <2>3, <2>4, <2>5
  <2> QED
    BY <2>6 DEF ran
<1> QED
  BY <1>1, <1>2, ExchangeInvariant, PTL DEF OutcomeTellsExecution

\* Once reconcileAttachment found an operation not running, the native handler of
\* the call it asked about is not at work and never will be.
THEOREM IdleVerdictHolds ==
    ASSUME ExchangeAssumption
    PROVE  Spec => []IdleStaysIdle
<1>1. ExchangeInv => IdleStaysIdle
  BY DEF ExchangeInv, VerdictInv
<1> QED
  BY <1>1, ExchangeInvariant, PTL

\* Complete finds the reservation that the admission of its job made.
THEOREM ReservationsKept ==
    ASSUME ExchangeAssumption
    PROVE  Spec => []ReservationWaitsForJob
<1>1. ExchangeInv => ReservationWaitsForJob
  BY DEF ExchangeInv, ReservationInv, InFlight, ReservationWaitsForJob
<1> QED
  BY <1>1, ExchangeInvariant, PTL

\* A retained result does not change before it expires: whoever repeats an
\* operation ID is answered with the result of its first run.
THEOREM RetainedResultsStable ==
    ASSUME ExchangeAssumption
    PROVE  Spec => Store!TerminalIsStable
<1> DEFINE Stable == \A o \in OpIds : Store!Terminal(o) /\ o \notin overdue => entries'[o] = entries[o]
<1>1. ASSUME ExchangeInv, [Next]_vars PROVE [Stable]_(Store!storeVars)
  <2>1. Shapes
    BY <1>1 DEF ExchangeInv
  <2>2. \A o \in OpIds : Store!Terminal(o) /\ o \notin overdue =>
            Store!Live[o] = entries[o] /\ Store!Live[o] \in Bodies
    BY <2>1, LiveFacts DEF Store!Terminal
  <2>3. CASE UNCHANGED entries
    BY <2>3
  <2>4. CASE Swept
    BY <2>1, <2>2, <2>4, LiveFacts DEF Swept
  <2>5. ASSUME NEW c \in Calls, Admits(c) PROVE Stable
    BY <2>1, <2>2, <2>5, LiveFacts DEF Admits
  <2>6. ASSUME NEW c \in Calls, NEW body \in Bodies, CompleteStart(c, body) PROVE Swept
    BY <1>1, <2>6, CompleteFacts
  <2>7. ASSUME NEW c \in Calls, NEW body \in Bodies, CompleteFinish(c, body) PROVE Stable
    <3>1. /\ Store!Live[OpOf[c]] = Pending
          /\ entries' = [Store!Live EXCEPT ![OpOf[c]] = body]
      BY <1>1, <2>7, CompleteFacts
    <3> QED
      BY <2>1, <2>2, <3>1, LiveFacts
  <2>8. ASSUME NEW o \in OpIds, ResultExpires(o) PROVE UNCHANGED entries
    BY <1>1, <2>8, ExpireFacts
  <2>9. CASE UNCHANGED vars
    BY <2>3, <2>9 DEF vars, store
  <2> QED
    BY <1>1, <2>1, <2>3, <2>4, <2>5, <2>6, <2>7, <2>8, <2>9, StoreSteps
<1> QED
  BY <1>1, ExchangeInvariant, PTL DEF Spec, Store!TerminalIsStable
=============================================================================
