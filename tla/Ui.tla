----------------------------------- MODULE Ui -----------------------------------
(***************************************************************************)
(* What the browser sees of the host and asks of it, in one run: one tab   *)
(* and several tabs that follow the host, and the commands of a tab.  In a *)
(* behaviour one part acts, the others rest in an initial state.           *)
(***************************************************************************)
EXTENDS Naturals, Sequences

CONSTANTS Threads, Texts, NoTab, NoKey, Nobody, MaxRequests, MaxBreaks, MaxStops,
          Alone, Together   \* the tabs and bounds of "one tab" and of "tabs"

VARIABLES part,
          cursor, status, view, published, timer, controller, link, up, wire, previous,
          inflight, queued, want, shown, received, deadline, clicks, losses,
          conversation, task, receipt, files, unlinked, host, epoch, session, command,
          pending, draft, known, cLink, cUp, down, stopper, late, effects, again, breaks, stops

Browser(s) == INSTANCE BrowserConnection WITH
         Tabs <- s.tabs, MaxCursor <- s.cursor, MaxStatus <- s.status, MaxClicks <- s.clicks,
         MaxLosses <- s.losses, MaxWire <- s.wire
\* The same, for a temporal property.
One == INSTANCE BrowserConnection WITH
         Tabs <- Alone.tabs, MaxCursor <- Alone.cursor, MaxStatus <- Alone.status,
         MaxClicks <- Alone.clicks, MaxLosses <- Alone.losses, MaxWire <- Alone.wire
Commands == INSTANCE Conversations WITH
         Messages <- Texts, MaxLosses <- MaxBreaks, link <- cLink, up <- cUp, losses <- breaks

ASSUME UiAssumption ==
    /\ Browser(Alone)!BrowserAssumption /\ Browser(Together)!BrowserAssumption
    /\ Commands!ConversationAssumption

browserVars == <<cursor, status, view, published, timer, controller, link, up, wire, previous,
                 inflight, queued, want, shown, received, deadline, clicks, losses>>
commandVars == <<conversation, task, receipt, files, unlinked, host, epoch, session, command,
                 pending, draft, known, cLink, cUp, down, stopper, late, effects, again,
                 breaks, stops>>
vars == <<part, browserVars, commandVars>>

Init ==
    /\ part \in {"one tab", "tabs", "commands"}
    /\ \/ part = "tabs" /\ Browser(Together)!Init
       \/ part # "tabs" /\ Browser(Alone)!Init
    /\ Commands!Init
    /\ view = (CHOOSE t \in Threads : TRUE)  \* no thread differs from another to begin with
    /\ IF part \in {"one tab", "tabs"} THEN \A t \in Threads : conversation[t] = "live"
       ELSE want = [t \in DOMAIN want |-> view]
OneStep == part = "one tab" /\ UNCHANGED <<part, commandVars>>
CommandStep == part = "commands" /\ UNCHANGED <<part, browserVars>>
Next ==
    \/ OneStep /\ Browser(Alone)!Next
    \/ part = "tabs" /\ Browser(Together)!Next /\ UNCHANGED <<part, commandVars>>
    \/ CommandStep /\ Commands!Next

\* The fairness of BrowserConnection for one tab and of Conversations.
Fairness ==
    /\ WF_vars(OneStep /\ One!Publish)
    /\ \A t \in Alone.tabs :
         /\ WF_vars(OneStep /\ One!Connect(t)) /\ WF_vars(OneStep /\ One!Receive(t))
         /\ WF_vars(OneStep /\ One!Probe(t)) /\ WF_vars(OneStep /\ One!Authenticate(t))
         /\ WF_vars(OneStep /\ One!HistoryRequested(t))
         /\ WF_vars(OneStep /\ One!RequestRefused(t)) /\ WF_vars(OneStep /\ One!Written(t))
         /\ WF_vars(OneStep /\ One!Expire(t))
    /\ WF_vars(CommandStep /\ Commands!Handle) /\ WF_vars(CommandStep /\ Commands!Connect)
    /\ WF_vars(CommandStep /\ Commands!FirstSnapshot) /\ WF_vars(CommandStep /\ Commands!Reply)
    /\ WF_vars(CommandStep /\ Commands!Restart) /\ WF_vars(CommandStep /\ Commands!StopEnds)
    /\ \A r \in Commands!Requests : WF_vars(CommandStep /\ Commands!TaskEnds(r))
Spec == Init /\ [][Next]_vars /\ Fairness

\* A patch reaches a tab on top of the snapshot it was made from.
PatchesFit ==
    /\ part = "one tab" => Browser(Alone)!PatchesFit
    /\ part = "tabs" => Browser(Together)!PatchesFit
\* A text becomes work once, however often the connection breaks.
SentOnce == Commands!SentOnce
\* All live work is in one thread, neither archived nor deleted; a deleted thread leaves
\* no work and no file that nobody knows.
WorkFollowsThreads == Commands!OneLiveThread /\ Commands!DeletedIsGone
\* A tab comes to show the newest revision and status whatever becomes of its connection,
\* and every command of a tab comes to be answered or dropped with its session.
TabIsServed ==
    /\ part = "one tab" => One!CatchesUp
    /\ part = "commands" => Commands!EveryCommandAnswered
=============================================================================
