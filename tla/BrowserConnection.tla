--------------------------- MODULE BrowserConnection ---------------------------
(***************************************************************************)
(* How a browser tab follows the host (backend.ts, browser-server.ts,      *)
(* snapshot-sender.ts, snapshot-patch.ts and use-shared-connection.ts).    *)
(* The journal and the status of the host change at any time; the backend  *)
(* coalesces what it publishes, a socket has one snapshot in flight and    *)
(* sends the next as a patch, a status overtakes a queued snapshot, a tab  *)
(* replaces another and a connection is lost without the host, or the tab, *)
(* noticing.                                                               *)
(***************************************************************************)
EXTENDS Naturals, Sequences

CONSTANTS Tabs, Threads, NoTab, NoKey, MaxCursor, MaxStatus, MaxClicks, MaxLosses, MaxWire

Keys == [cursor : 0..MaxCursor, view : Threads]
BrowserAssumption ==
    /\ NoTab \notin Tabs /\ NoKey \notin Keys
    /\ {MaxCursor, MaxStatus, MaxClicks, MaxLosses, MaxWire} \subseteq Nat

VARIABLES cursor,      \* the revision of the journal (events and conversations)
          status,      \* the revision of runtime and targets
          view,        \* the thread the backend builds the history of
          published,   \* the history key of the last published snapshot, or NoKey
          timer,       \* a publication is due
          controller,  \* the tab whose socket is served, NoTab, or Lost: a dead one
          link,        \* the connection of a tab: off, open, joined, refused, or cut: half-open
          up,          \* history requests on their way to the host
          wire,        \* messages on their way to the tab
          previous,    \* the last snapshot the socket has written
          inflight,    \* the snapshot being written
          queued,      \* the newest snapshot that waits for it
          want,        \* the thread a tab has selected
          shown,       \* the snapshot a tab shows
          received,    \* the tab has a snapshot of this connection
          deadline,    \* the tab waits for a sign of life
          clicks, losses
serverVars == <<cursor, status, view, published, timer, controller>>
socketVars == <<link, up, wire, previous, inflight, queued>>
tabVars == <<want, shown, received, deadline>>
vars == <<serverVars, socketVars, tabVars, clicks, losses>>

Lost == <<NoTab>>
Snapshots == [hist : Keys, status : 0..MaxStatus]
Nothing == [hist |-> NoKey, status |-> 0]
MaybeSnapshot == Snapshots \cup {Nothing}

TypeOK ==
    /\ cursor \in 0..MaxCursor /\ status \in 0..MaxStatus /\ view \in Threads
    /\ published \in Keys \cup {NoKey} /\ timer \in BOOLEAN
    /\ controller \in Tabs \cup {NoTab, Lost}
    /\ link \in [Tabs -> {"off", "open", "joined", "cut", "refused"}]
    /\ up \in [Tabs -> Seq(Threads)] /\ DOMAIN wire = Tabs
    /\ {previous, inflight, queued, shown} \subseteq [Tabs -> MaybeSnapshot]
    /\ want \in [Tabs -> Threads] /\ {received, deadline} \subseteq [Tabs -> BOOLEAN]
    /\ clicks \in 0..MaxClicks /\ losses \in 0..MaxLosses

Init ==
    /\ cursor = 0 /\ status = 0 /\ view \in Threads /\ published = NoKey /\ timer = FALSE
    /\ controller = NoTab
    /\ link = [t \in Tabs |-> "off"] /\ up = [t \in Tabs |-> <<>>] /\ wire = [t \in Tabs |-> <<>>]
    /\ previous = [t \in Tabs |-> Nothing] /\ inflight = [t \in Tabs |-> Nothing]
    /\ queued = [t \in Tabs |-> Nothing] /\ shown = [t \in Tabs |-> Nothing]
    /\ want \in [Tabs -> Threads] /\ received = [t \in Tabs |-> FALSE]
    /\ deadline = [t \in Tabs |-> FALSE] /\ clicks = 0 /\ losses = 0

-----------------------------------------------------------------------------
(* The backend. *)
Key == [cursor |-> cursor, view |-> view]
Current == [hist |-> Key, status |-> status]

\* publish: one publication is due at a time, and none without a listener.
PublishDue == timer' = (timer \/ controller # NoTab)

JournalChanges ==
    /\ cursor < MaxCursor /\ cursor' = cursor + 1 /\ PublishDue
    /\ UNCHANGED <<status, view, published, controller, socketVars, tabVars, clicks, losses>>
StatusChanges ==
    /\ status < MaxStatus /\ status' = status + 1 /\ PublishDue
    /\ UNCHANGED <<cursor, view, published, controller, socketVars, tabVars, clicks, losses>>

\* snapshotPatch against the last snapshot that was written.
Output(t, new) ==
    IF previous[t] = Nothing THEN [kind |-> "full", to |-> new]
                             ELSE [kind |-> "patch", from |-> previous[t].hist, to |-> new]
Post(t, message) == wire' = [wire EXCEPT ![t] = Append(@, message)]
\* A snapshot that waits is already the base of the next patch.
Push_Overwritten(t, new) ==
    IF inflight[t] # Nothing
    THEN /\ queued' = [queued EXCEPT ![t] = new] /\ UNCHANGED wire
         /\ inflight' = [inflight EXCEPT ![t] = new] /\ UNCHANGED previous
    ELSE /\ Post(t, Output(t, new)) /\ inflight' = [inflight EXCEPT ![t] = new]
         /\ UNCHANGED <<previous, queued>>
\* The sender: one snapshot in flight and the newest replacement.
Push(t, new) ==
    IF inflight[t] # Nothing
    THEN queued' = [queued EXCEPT ![t] = new] /\ UNCHANGED <<previous, inflight, wire>>
    ELSE /\ Post(t, Output(t, new)) /\ inflight' = [inflight EXCEPT ![t] = new]
         /\ UNCHANGED <<previous, queued>>

\* The publication is sent: a snapshot when the history has changed since the
\* last one, the status alone otherwise.  A dead socket swallows it.
Publish ==
    /\ timer /\ timer' = FALSE
    /\ controller \in Tabs => Len(wire[controller]) < MaxWire
    /\ published' = IF controller = NoTab THEN published ELSE Key
    /\ \/ controller \in {NoTab, Lost} /\ UNCHANGED <<previous, inflight, queued, wire>>
       \/ controller \in Tabs /\ published # Key /\ Push(controller, Current)
       \/ /\ controller \in Tabs /\ published = Key
          /\ Post(controller, [kind |-> "status", status |-> status])
          /\ UNCHANGED <<previous, inflight, queued>>
    /\ UNCHANGED <<cursor, status, view, controller, link, up, tabVars, clicks, losses>>
\* The socket has written the snapshot; the newest queued one follows.
Written(t) ==
    /\ inflight[t] # Nothing
    /\ previous' = [previous EXCEPT ![t] = inflight[t]]
    /\ queued' = [queued EXCEPT ![t] = Nothing] /\ inflight' = [inflight EXCEPT ![t] = queued[t]]
    /\ IF queued[t] = Nothing THEN UNCHANGED wire
       ELSE Post(t, [kind |-> "patch", from |-> inflight[t].hist, to |-> queued[t]])
    /\ UNCHANGED <<serverVars, link, up, tabVars, clicks, losses>>

\* A tab authenticates: it replaces the controlling tab and gets a full snapshot.
Authenticate(t) ==
    /\ link[t] = "open" /\ link' = [link EXCEPT ![t] = "joined"]
    /\ controller' = t
    /\ inflight' = [inflight EXCEPT ![t] = Current]
    /\ wire' = [o \in Tabs |->
                  IF o = t THEN <<[kind |-> "full", to |-> Current]>>
                  ELSE IF o = controller THEN Append(wire[o], [kind |-> "replaced"])
                  ELSE wire[o]]
    /\ UNCHANGED <<cursor, status, view, published, timer, up, previous, queued, tabVars,
                   clicks, losses>>
\* A history request: it also selects the thread of the backend.
HistoryRequested(t) ==
    /\ up[t] # <<>> /\ up' = [up EXCEPT ![t] = Tail(@)] /\ controller = t
    /\ view' = Head(up[t]) /\ PublishDue
    /\ UNCHANGED <<cursor, status, published, controller, link, wire, previous, inflight, queued,
                   tabVars, clicks, losses>>
\* The request of a tab that was replaced is refused.
RequestRefused(t) ==
    /\ up[t] # <<>> /\ up' = [up EXCEPT ![t] = <<>>] /\ controller # t
    /\ UNCHANGED <<serverVars, link, wire, previous, inflight, queued, tabVars, clicks, losses>>
\* The host learns that the socket it serves is gone.
ServerNotices ==
    /\ controller = Lost /\ controller' = NoTab
    /\ UNCHANGED <<cursor, status, view, published, timer, socketVars, tabVars, clicks, losses>>

-----------------------------------------------------------------------------
(* A tab. *)
Connect(t) ==
    /\ link[t] = "off" /\ link' = [link EXCEPT ![t] = "open"]
    /\ deadline' = [deadline EXCEPT ![t] = TRUE]
    /\ UNCHANGED <<serverVars, up, wire, previous, inflight, queued, want, shown, received,
                   clicks, losses>>
\* What is on its way is gone, and what the host writes to the socket leads nowhere.
SocketGone(t, to) ==
    /\ link' = [link EXCEPT ![t] = to]
    /\ up' = [up EXCEPT ![t] = <<>>] /\ wire' = [wire EXCEPT ![t] = <<>>]
    /\ previous' = [previous EXCEPT ![t] = Nothing]
    /\ inflight' = [inflight EXCEPT ![t] = Nothing] /\ queued' = [queued EXCEPT ![t] = Nothing]
    /\ controller' = IF controller = t THEN Lost ELSE controller
\* The connection is given up, by the tab (retry) or by the network.
Dropped(t, to) ==
    /\ SocketGone(t, to)
    /\ received' = [received EXCEPT ![t] = FALSE] /\ deadline' = [deadline EXCEPT ![t] = FALSE]
\* The network fails: the tab is told, or believes that it is connected.
Lose(t) ==
    /\ link[t] \in {"open", "joined"} /\ losses < MaxLosses /\ losses' = losses + 1
    /\ Dropped(t, "off") \/ (SocketGone(t, "cut") /\ UNCHANGED <<received, deadline>>)
    /\ UNCHANGED <<cursor, status, view, published, timer, want, shown, clicks>>
\* Only a tab that has no snapshot yet minds that its deadline passed.
Expire_Unready(t) ==
    /\ link[t] = "cut" /\ deadline[t] /\ ~received[t] /\ Dropped(t, "off")
    /\ UNCHANGED <<cursor, status, view, published, timer, want, shown, clicks, losses>>
\* The deadline passes without an answer.  It may also pass while an answer is on its
\* way: that is a loss of which the tab knows.
Expire(t) ==
    /\ link[t] = "cut" /\ deadline[t] /\ Dropped(t, "off")
    /\ UNCHANGED <<cursor, status, view, published, timer, want, shown, clicks, losses>>

\* Whether a message can be used: a patch needs the revision it was made from.
Usable(t, m) ==
    /\ m.kind \in {"patch", "status"} => received[t]
    /\ m.kind = "patch" => shown[t].hist \in [cursor : {m.from.cursor}, view : Threads]
Shows(t, m) ==
    shown' = [shown EXCEPT ![t] = IF m.kind = "status" THEN [@ EXCEPT !.status = m.status] ELSE m.to]
\* The first snapshot of a connection is answered by a request for the thread
\* the tab has selected.
Receive(t) ==
    /\ link[t] = "joined" /\ wire[t] # <<>>
    /\ LET m == Head(wire[t]) IN
         \/ /\ m.kind # "replaced" /\ Usable(t, m) /\ Shows(t, m)
            /\ wire' = [wire EXCEPT ![t] = Tail(@)]
            /\ received' = [received EXCEPT ![t] = TRUE]
            /\ deadline' = [deadline EXCEPT ![t] = FALSE]
            /\ up' = [up EXCEPT ![t] = IF received[t] THEN @ ELSE Append(@, want[t])]
            /\ UNCHANGED <<controller, link, previous, inflight, queued>>
         \/ m.kind # "replaced" /\ ~Usable(t, m) /\ Dropped(t, "off") /\ UNCHANGED shown
         \/ m.kind = "replaced" /\ Dropped(t, "refused") /\ UNCHANGED shown
    /\ UNCHANGED <<cursor, status, view, published, timer, want, clicks, losses>>
\* The user takes control back in a tab that was replaced.
Reconnect(t) ==
    /\ link[t] = "refused" /\ losses < MaxLosses /\ losses' = losses + 1
    /\ link' = [link EXCEPT ![t] = "off"]
    /\ UNCHANGED <<serverVars, up, wire, previous, inflight, queued, tabVars, clicks>>
\* The user selects a thread; a connected tab asks for its history.
Click(t, thread) ==
    /\ clicks < MaxClicks /\ clicks' = clicks + 1 /\ thread # want[t]
    /\ want' = [want EXCEPT ![t] = thread]
    /\ up' = [up EXCEPT ![t] = IF received[t] /\ link[t] = "joined" THEN Append(@, thread) ELSE @]
    /\ UNCHANGED <<serverVars, link, wire, previous, inflight, queued, shown, received, deadline,
                   losses>>
\* The heartbeat: a tab that has its snapshot asks again and waits for any answer.
Probe(t) ==
    /\ received[t] /\ ~deadline[t] /\ deadline' = [deadline EXCEPT ![t] = TRUE]
    /\ up' = [up EXCEPT ![t] = IF link[t] = "joined" THEN Append(@, want[t]) ELSE @]
    /\ UNCHANGED <<serverVars, link, wire, previous, inflight, queued, want, shown, received,
                   clicks, losses>>

Next ==
    \/ JournalChanges \/ StatusChanges \/ Publish \/ ServerNotices
    \/ \E t \in Tabs :
         \/ Connect(t) \/ Receive(t) \/ Probe(t) \/ Authenticate(t) \/ HistoryRequested(t)
         \/ RequestRefused(t) \/ Written(t) \/ Lose(t) \/ Expire(t) \/ Reconnect(t)
         \/ \E thread \in Threads : Click(t, thread)

Spec == Init /\ [][Next]_vars
\* Timers fire, sockets deliver what they hold and tabs reconnect and probe.
Fairness ==
    /\ WF_vars(Publish)
    /\ \A t \in Tabs :
         /\ WF_vars(Connect(t)) /\ WF_vars(Receive(t)) /\ WF_vars(Probe(t))
         /\ WF_vars(Authenticate(t)) /\ WF_vars(HistoryRequested(t))
         /\ WF_vars(RequestRefused(t)) /\ WF_vars(Written(t)) /\ WF_vars(Expire(t))
FairSpec == Spec /\ Fairness

-----------------------------------------------------------------------------
Gives(m) == m.kind \in {"full", "patch"}
\* The history tab t holds after the first n messages of its wire: that of the last
\* snapshot among them, or the one on screen, if it is of this connection.
Holds(t, n, hist) ==
    \/ \E k \in 1..n :
         /\ Gives(wire[t][k]) /\ wire[t][k].to.hist = hist
         /\ \A j \in (k + 1)..n : ~Gives(wire[t][j])
    \/ received[t] /\ shown[t].hist = hist /\ \A j \in 1..n : ~Gives(wire[t][j])
\* Whatever is overtaken, replaced or lost, a patch reaches a tab on top of the
\* very snapshot it was made from: never on another view of the same revision.
PatchesFit ==
    \A t \in Tabs : \A n \in DOMAIN wire[t] :
      wire[t][n].kind = "patch" => Holds(t, n - 1, wire[t][n].from)

\* A tab comes to show the newest revision and status, unless another tab replaces it for
\* good: though its connection is lost or hangs, and a status may arrive before an older
\* snapshot.
CatchesUp ==
    \A t \in Tabs :
      <>[](link[t] # "refused") =>
        <>[](shown[t].hist \in [cursor : {cursor}, view : Threads] /\ shown[t].status = status)

\* Status messages cannot keep stale history alive: a tab that stays connected
\* comes to show the thread it has selected.
HistoryFollowsSelection ==
    \A t \in Tabs : <>[](received[t]) => <>[](shown[t].hist = [cursor |-> cursor, view |-> want[t]])
=============================================================================
