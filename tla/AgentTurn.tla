------------------------------ MODULE AgentTurn ------------------------------
(***************************************************************************)
(* The edits of one agent turn (one tool call in the shared host, one      *)
(* prompt in a host of its own) and the native transactions they run in.   *)
(* RuntimeRpc serialises the edits of each owner, begins a transaction     *)
(* before the first, sends the segment it expects with every later one,    *)
(* and finishes both owners at the end.  Natively a transaction is an undo *)
(* record (Rhino) or a snapshot (Grasshopper), a document segment, and in  *)
(* the shared host a scope of the execution fence.  Replies get lost,      *)
(* lost requests may still be executed, native calls fail, and a person    *)
(* opens, saves or undoes something in between.  Commit and cancel differ  *)
(* only in what Grasshopper does with its snapshot; both are "finish".     *)
(***************************************************************************)
EXTENDS Integers, Sequences

CONSTANTS MaxEdits, MaxTurns, MaxLosses, MaxBoundaries, MaxFailures

TurnAssumption ==
    /\ MaxEdits \in Nat /\ MaxTurns \in Nat /\ MaxLosses \in Nat
    /\ MaxBoundaries \in Nat /\ MaxFailures \in Nat

VARIABLES shared,    \* the edits go through the shared host's fence
          accepting, \* turnAcceptingMutations
          stage,     \* where finishAgentTurn is; 0 outside of it
          todo,      \* the owners it has to close
          outcome,   \* how the last finish ended; "none" during a turn
          known,     \* what RuntimeRpc knows of each owner
          kind,      \* the edit or document action of each owner, and one queued behind it
          call,      \* the call in flight of each process
          native,    \* the document side of each owner
          late,      \* a request given up that may still be executed
          edits, turns, losses, boundaries, failures,
          unrecorded \* an edit ran outside any transaction though its turn accepted edits
bounds == <<edits, turns, losses, boundaries, failures>>
vars == <<shared, accepting, stage, todo, outcome, known, kind, call, native, late, bounds, unrecorded>>

Owners == {"grasshopper", "rhino"}
Processes == Owners \cup {"finish"}
Queries == {"probe", "state"}
Mutations == {"begin", "edit", "boundary", "finish"}
NoSegment == [state |-> "none", epoch |-> 0]
Segments == [state : {"none", "active", "idle", "abandoned"}, epoch : Nat]
NoReply == [ok |-> FALSE, seg |-> NoSegment, scope |-> FALSE]
\* A call expects a segment, or any (0).
Call(op, o, epoch, covered) ==
    [op |-> op, owner |-> o, expects |-> epoch, covered |-> covered, done |-> FALSE, reply |-> NoReply]
NoCall == Call("none", "rhino", 0, FALSE)

TypeOK ==
    /\ known \in [Owners -> [open : BOOLEAN, owed : BOOLEAN, seg : Segments,
                             uncertain : {"no", "late", "gone", "done"}]]
    /\ native \in [Owners -> [record : BOOLEAN, scope : BOOLEAN, seg : Segments]]
    /\ kind \in [Owners -> [now : {"none", "edit", "boundary"}, next : {"none", "edit", "boundary"}]]
    /\ stage \in 0..5 /\ outcome \in {"none", "ok", "error"} /\ todo \subseteq Owners
    /\ \A p \in Processes : call[p].op \in Queries \cup Mutations \cup {"none"}

Init ==
    /\ shared \in BOOLEAN /\ accepting = FALSE /\ stage = 0 /\ todo = {} /\ outcome = "ok"
    /\ known = [o \in Owners |-> [open |-> FALSE, owed |-> FALSE, seg |-> NoSegment, uncertain |-> "no"]]
    /\ kind = [o \in Owners |-> [now |-> "none", next |-> "none"]]
    /\ call = [p \in Processes |-> NoCall] /\ late = [o \in Owners |-> NoCall]
    /\ native = [o \in Owners |-> [record |-> FALSE, scope |-> FALSE,
                                   seg |-> [state |-> "idle", epoch |-> 0]]]
    /\ edits = 0 /\ turns = 0 /\ losses = 0 /\ boundaries = 0 /\ failures = 0 /\ unrecorded = FALSE

-----------------------------------------------------------------------------
(* The document side.  An effect is the document after the call, whether   *)
(* the call completed, and whether a native call failed.                   *)
Segment(doc, state) == [state |-> state, epoch |-> doc.seg.epoch + 1]
Advance(doc, record, scope, state) == [record |-> record, scope |-> scope, seg |-> Segment(doc, state)]
Effect(doc, ok, fails) == [doc |-> doc, ok |-> ok, fails |-> fails]

\* The fence records the scope before Begin runs, and leaves it when Begin fails.
BeginEffects(doc) ==
    { Effect(Advance(doc, TRUE, shared, "active"), TRUE, FALSE),
      Effect([doc EXCEPT !.scope = shared], FALSE, TRUE) }
\* CloseOwnedRecord keeps a record that does not close; Grasshopper drops its snapshot.
FinishEffects(o, doc) ==
    IF shared /\ ~doc.scope THEN {Effect(doc, FALSE, FALSE)}
    ELSE { Effect(Advance(doc, FALSE, FALSE, "idle"), TRUE, FALSE),
           Effect(IF o = "rhino" THEN doc ELSE Advance(doc, FALSE, doc.scope, "idle"), FALSE, TRUE) }
\* A document action ends the segment, unless it fails before it gets there.
BoundaryEffects(doc) ==
    {Effect(Advance(doc, FALSE, FALSE, "idle"), TRUE, FALSE), Effect(doc, TRUE, TRUE)}

\* ValidateSegment: a segment that is not the current one is refused.
Refused(c, doc) == c.expects # 0 /\ c.expects # doc.seg.epoch
Effects(c, doc) ==
    IF Refused(c, doc) THEN {Effect(doc, FALSE, FALSE)}
    ELSE CASE c.op = "begin" -> BeginEffects(doc)
           [] c.op = "finish" -> FinishEffects(c.owner, doc)
           [] c.op = "boundary" -> BoundaryEffects(doc)
           [] OTHER -> {Effect(doc, TRUE, FALSE)}
Run(c, e) ==
    /\ e \in Effects(c, native[c.owner]) /\ (e.fails => failures < MaxFailures)
    /\ native' = [native EXCEPT ![c.owner] = e.doc]
    /\ failures' = failures + (IF e.fails THEN 1 ELSE 0)
    /\ unrecorded' = (unrecorded \/ (c.op = "edit" /\ c.covered /\ e.ok /\ ~native[c.owner].record))

\* The UI thread executes a call; the reply carries the segment and the scope.
Execute(p) ==
    /\ call[p].op \in Mutations \cup {"state"} /\ ~call[p].done
    /\ \E e \in Effects(call[p], native[call[p].owner]) :
         /\ Run(call[p], e)
         /\ call' = [call EXCEPT ![p] = [@ EXCEPT !.done = TRUE,
                       !.reply = [ok |-> e.ok, seg |-> e.doc.seg, scope |-> e.doc.scope]]]
    /\ UNCHANGED <<shared, accepting, stage, todo, outcome, known, kind, late, edits, turns, losses, boundaries>>
ExecuteLate(o) ==
    /\ late[o].op # "none" /\ \E e \in Effects(late[o], native[o]) : Run(late[o], e)
    /\ late' = [late EXCEPT ![o] = NoCall] /\ known' = [known EXCEPT ![o].uncertain = "done"]
    /\ UNCHANGED <<shared, accepting, stage, todo, outcome, kind, call, edits, turns, losses, boundaries>>
\* GetOperationResult: an operation is terminal once it was executed.
AnswerProbe(p) ==
    /\ call[p].op = "probe" /\ ~call[p].done
    /\ call' = [call EXCEPT ![p] = [@ EXCEPT !.done = TRUE,
                  !.reply = [NoReply EXCEPT !.ok = known[call[p].owner].uncertain = "done"]]]
    /\ UNCHANGED <<shared, accepting, stage, todo, outcome, known, kind, native, late, bounds, unrecorded>>

\* ExternalBoundary, Reconcile, ObserveSaved: a person's action abandons the segment;
\* closing the record of it may fail.
External(o) ==
    /\ boundaries < MaxBoundaries /\ boundaries' = boundaries + 1
    /\ native[o].record \/ native[o].seg.state = "active"
    /\ \E left \in {FALSE, native[o].record /\ o = "rhino"} :
         native' = [native EXCEPT ![o] = Advance(@, left, @.scope, "abandoned")]
    /\ UNCHANGED <<shared, accepting, stage, todo, outcome, known, kind, call, late,
                   edits, turns, losses, failures, unrecorded>>

-----------------------------------------------------------------------------
(* RuntimeRpc. *)
\* observeTransaction: only the fence's replies tell who owns the scope.
Observe(k, reply) ==
    [k EXCEPT !.seg = reply.seg, !.open = reply.seg.state = "active",
              !.owed = IF shared THEN reply.scope ELSE @]
\* A begin or finish that succeeded has no debt, unless its reply says so.
Settled(k) == [k EXCEPT !.owed = FALSE]

Expected(k) == IF k.seg.state = "active" THEN k.seg.epoch ELSE 0
\* reconcileTransaction, when there is something to reconcile.
Reconciles(k) == k.uncertain # "no" \/ k.seg # NoSegment \/ k.owed
Reconcile(o, k) == Call(IF k.uncertain # "no" THEN "probe" ELSE "state", o, 0, FALSE)

Edit_Unchecked(o, k, covered) == Call("edit", o, 0, covered)
Edit(o, k, covered) == Call("edit", o, Expected(k), covered)
\* ensureTransactionForMutation, once the owner is reconciled.
Dispatch(o, k, what) ==
    IF what = "boundary" THEN Call("boundary", o, 0, FALSE)
    ELSE IF accepting /\ ~k.open THEN Call("begin", o, Expected(k), TRUE)
    ELSE Edit(o, k, accepting)
\* "A failed begin can reserve native ownership without opening an undo segment."
Owes(k, c) == IF c.op = "begin" THEN [k EXCEPT !.owed = TRUE] ELSE k
Send(p, k, c) ==
    call' = [call EXCEPT ![p] = c] /\ known' = [known EXCEPT ![c.owner] = Owes(k, c)]
FirstCall(o, k, what) == IF Reconciles(k) THEN Reconcile(o, k) ELSE Dispatch(o, k, what)

BeginTurn ==
    /\ outcome # "none" /\ stage = 0 /\ turns < (IF shared THEN 1 ELSE MaxTurns)
    /\ turns' = turns + 1 /\ outcome' = "none"
    /\ accepting' = \A o \in Owners : ~known[o].open
    /\ UNCHANGED <<shared, stage, todo, known, kind, call, native, late,
                   edits, losses, boundaries, failures, unrecorded>>
\* invoke: the mutations of an owner wait for each other.
Invoke(o, what) ==
    /\ outcome = "none" /\ stage = 0 /\ edits < MaxEdits /\ edits' = edits + 1
    /\ \/ kind[o].now = "none" /\ kind' = [kind EXCEPT ![o].now = what]
          /\ Send(o, known[o], FirstCall(o, known[o], what))
       \/ kind[o].now # "none" /\ kind[o].next = "none" /\ kind' = [kind EXCEPT ![o].next = what]
          /\ UNCHANGED <<call, known>>
    /\ UNCHANGED <<shared, accepting, stage, todo, outcome, native, late,
                   turns, losses, boundaries, failures, unrecorded>>
\* The mutation of o is over; the next one starts.
Over(o, k) ==
    /\ kind' = [kind EXCEPT ![o] = [now |-> @.next, next |-> "none"]]
    /\ IF kind[o].next = "none"
         THEN call' = [call EXCEPT ![o] = NoCall] /\ known' = [known EXCEPT ![o] = k]
         ELSE Send(o, k, FirstCall(o, k, kind[o].next))
Closed(o, k) == IF kind[o].now = "boundary" THEN [k EXCEPT !.open = FALSE] ELSE k

WorkerReply(o) ==
    LET c == call[o] IN
    LET k == known[o] IN
    /\ c.done
    /\ IF ~c.reply.ok THEN Over(o, IF c.op = "boundary" THEN Closed(o, k) ELSE k)
       ELSE CASE c.op = "probe" -> Send(o, k, Call("state", o, 0, FALSE)) /\ UNCHANGED kind
              [] c.op = "state" ->
                   LET seen == [Observe(k, c.reply) EXCEPT !.uncertain = "no"]
                   IN Send(o, seen, Dispatch(o, seen, kind[o].now)) /\ UNCHANGED kind
              [] c.op = "begin" ->
                   LET seen == [Observe(Settled(k), c.reply) EXCEPT !.open = TRUE]
                   IN Send(o, seen, Edit(o, seen, TRUE)) /\ UNCHANGED kind
              [] OTHER -> Over(o, Closed(o, Observe(k, c.reply)))
    /\ UNCHANGED <<shared, accepting, stage, todo, outcome, native, late, bounds, unrecorded>>

\* RpcOutcomeUnknownError: the request was executed, will be, or is gone.
Fate(p) == IF call[p].done THEN {"done"} ELSE {"late", "gone"}
Uncertain(k, p, fate) == IF call[p].op \in Mutations THEN [k EXCEPT !.uncertain = fate] ELSE k
Lost(p, fate) ==
    /\ losses < MaxLosses /\ losses' = losses + 1 /\ call[p].op # "none" /\ fate \in Fate(p)
    /\ late' = IF fate = "late" /\ call[p].op \in Mutations THEN [late EXCEPT ![call[p].owner] = call[p]] ELSE late
WorkerLoses(o) ==
    /\ \E fate \in Fate(o) :
         Lost(o, fate) /\ Over(o, Uncertain(IF call[o].op = "boundary" THEN Closed(o, known[o]) ELSE known[o], o, fate))
    /\ UNCHANGED <<shared, accepting, stage, todo, outcome, native,
                   edits, turns, boundaries, failures, unrecorded>>

\* finishAgentTurn: both owners are reconciled, then each one that is open or owed is
\* reconciled again and finished; Grasshopper first.
Stages == << <<"reconcile", "grasshopper">>, <<"reconcile", "rhino">>, <<"decide", "rhino">>,
             <<"finish", "grasshopper">>, <<"finish", "rhino">> >>
Ended(result) ==
    /\ outcome' = result /\ stage' = 0 /\ todo' = {} /\ call' = [call EXCEPT !["finish"] = NoCall]
Idle == \A p \in Processes : call[p].op = "none"
FinishTurn ==
    /\ outcome = "none" /\ accepting' = FALSE
    /\ \/ stage = 0 /\ stage' = 1 /\ UNCHANGED <<todo, outcome, known, call>>
    /\ UNCHANGED <<shared, kind, native, late, bounds, unrecorded>>
Owed(k) == k.open \/ k.owed
FinishStep ==
    /\ stage # 0 /\ Idle
    /\ LET do == Stages[stage][1] IN
       LET o == Stages[stage][2] IN
       CASE do = "decide" ->
              /\ todo' = {w \in Owners : Owed(known[w])} /\ stage' = stage + 1
              /\ known' = [w \in Owners |-> [known[w] EXCEPT !.open = FALSE]]
              /\ UNCHANGED <<call, outcome>>
         [] (do = "reconcile" /\ Reconciles(known[o])) \/ (do = "finish" /\ o \in todo) ->
              /\ call' = [call EXCEPT !["finish"] =
                            IF Reconciles(known[o]) THEN Reconcile(o, known[o])
                            ELSE Call("finish", o, Expected(known[o]), FALSE)]
              /\ UNCHANGED <<stage, todo, outcome, known>>
         [] OTHER ->
              /\ UNCHANGED known
              /\ IF stage = Len(Stages) THEN Ended("ok")
                 ELSE stage' = stage + 1 /\ UNCHANGED <<todo, outcome, call>>
    /\ UNCHANGED <<shared, accepting, kind, native, late, bounds, unrecorded>>
\* One owner is done.
Continue(k, o) ==
    /\ known' = [known EXCEPT ![o] = k]
    /\ IF stage = Len(Stages) THEN Ended("ok")
       ELSE stage' = stage + 1 /\ call' = [call EXCEPT !["finish"] = NoCall] /\ UNCHANGED <<todo, outcome>>
FinishReply ==
    LET c == call["finish"] IN
    LET o == c.owner IN
    /\ c.done
    /\ IF ~c.reply.ok THEN Ended("error") /\ UNCHANGED known
       ELSE CASE c.op = "probe" ->
                   call' = [call EXCEPT !["finish"] = Call("state", o, 0, FALSE)]
                   /\ UNCHANGED <<known, stage, todo, outcome>>
              [] c.op = "state" ->
                   LET k == [Observe(known[o], c.reply) EXCEPT !.uncertain = "no"] IN
                   IF Stages[stage][1] = "finish" /\ (k.seg.state = "active" \/ k.owed)
                     THEN /\ call' = [call EXCEPT !["finish"] = Call("finish", o, Expected(k), FALSE)]
                          /\ known' = [known EXCEPT ![o] = k] /\ UNCHANGED <<stage, todo, outcome>>
                     ELSE Continue(k, o)
              [] OTHER -> Continue(Observe(Settled(known[o]), c.reply), o)
    /\ UNCHANGED <<shared, accepting, kind, native, late, bounds, unrecorded>>
FinishLoses ==
    /\ \E fate \in Fate("finish") :
         /\ Lost("finish", fate) /\ Ended("error")
         /\ known' = [known EXCEPT ![call["finish"].owner] = Uncertain(@, "finish", fate)]
    /\ UNCHANGED <<shared, accepting, kind, native, edits, turns, boundaries, failures, unrecorded>>

Next ==
    \/ \E p \in Processes : Execute(p) \/ AnswerProbe(p)
    \/ \E o \in Owners : ExecuteLate(o) \/ External(o) \/ WorkerReply(o) \/ WorkerLoses(o)
    \/ \E o \in Owners, what \in {"edit", "boundary"} : Invoke(o, what)
    \/ BeginTurn \/ FinishTurn \/ FinishStep \/ FinishReply \/ FinishLoses
Spec == Init /\ [][Next]_vars

-----------------------------------------------------------------------------
\* An edit that a turn sent while it accepted edits runs inside a native transaction; a
\* turn that ended well left nothing open natively, and no lost request can open it
\* again; and while a turn is open, the host knows of every scope the fence holds for it.
TurnAccountsForEdits ==
    /\ ~unrecorded
    /\ outcome = "ok" => \A o \in Owners :
         /\ native[o].seg.state # "active" /\ late[o].op = "none"
         /\ shared => ~native[o].record /\ ~native[o].scope /\ native[o].seg.state = "idle"
    /\ \A o \in Owners : native[o].scope =>
         known[o].owed \/ known[o].uncertain # "no"
         \/ \E p \in Processes : call[p].owner = o /\ call[p].op # "none"
=============================================================================
