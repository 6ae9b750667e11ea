----------------------------- MODULE Conversations -----------------------------
(***************************************************************************)
(* Threads and the durable commands about them (journal.ts, backend.ts,    *)
(* use-shared-connection.ts and app.tsx).  A tab keeps a command until it  *)
(* is answered and sends it again on every new connection; the journal     *)
(* remembers what it has answered, and keeps a tombstone of what a deleted *)
(* thread was asked.  The connection breaks with messages on both ways,    *)
(* the host stops, crashes and starts again.                               *)
(* The user acts on a snapshot of any age: what the page shows as disabled *)
(* because of the journal's state is not assumed.                          *)
(***************************************************************************)
EXTENDS Naturals, Sequences, SequencesExt

CONSTANTS Threads, Messages, Nobody, MaxRequests, MaxLosses, MaxStops

ConversationAssumption ==
    /\ Nobody \notin Threads \cup Messages
    /\ MaxRequests \in Nat /\ MaxLosses \in Nat /\ MaxStops \in Nat

Requests == 1..MaxRequests
Commands ==
    [kind : {"submit", "steer"}, thread : Threads, text : Messages]
    \cup [kind : {"create", "archive", "unarchive", "delete", "purge", "cancel"},
          thread : Threads]

VARIABLES conversation, \* a thread: absent, live, archived or deleted
          task,         \* the work a submit request has started, or none
          receipt,      \* what the journal remembers of a request
          files,        \* threads with session files
          unlinked,     \* deleted threads whose files are still to be removed
          host,         \* up, stopping or down
          epoch,        \* of the host
          session,      \* the conversation session
          command,      \* the commands of the requests issued so far
          pending,      \* requests the tab has not seen answered, in order
          draft,        \* the text in the composer of a thread
          known,        \* the session the tab knows
          link,         \* off, open or ready
          up, down,     \* requests and replies on their way
          stopper,      \* the stop command whose answer waits for the host to stop, or 0
          late,         \* what the host may still read from a broken connection
          effects,      \* how often a text became work
          again,        \* how often the tab offers a text anew
          losses, stops
journal == <<conversation, task, receipt, files, unlinked>>
service == <<host, epoch, session>>
tab == <<command, pending, draft, known>>
wires == <<link, up, down, late, stopper>>
ghosts == <<effects, again>>
bounds == <<losses, stops>>
vars == <<journal, service, tab, wires, ghosts, bounds>>

Live == {"queued", "running"}
TypeOK ==
    /\ conversation \in [Threads -> {"absent", "live", "archived", "deleted"}]
    /\ task \in [Requests -> Live \cup {"none", "uncertain", "over"}]
    /\ receipt \in [Requests -> {"none", "receipt", "tombstone"}]
    /\ files \subseteq Threads /\ unlinked \subseteq Threads
    /\ host \in {"up", "stopping", "down"} /\ epoch \in 0..MaxStops /\ session \in 0..MaxStops
    /\ command \in Seq(Commands \cup [kind : {"stop"}, epoch : 0..MaxStops]) /\ Len(command) <= MaxRequests
    /\ pending \in Seq(Requests) /\ draft \in [Threads -> Messages \cup {Nobody}]
    /\ known \in 0..MaxStops /\ link \in {"off", "open", "ready"}
    /\ up \in Seq(Requests) /\ late \in Seq(Requests)
    /\ down \in Seq(Requests \X {"accepted", "error"})
    /\ effects \in [Messages -> Nat] /\ again \in [Messages -> Nat]
    /\ stopper \in 0..MaxRequests /\ losses \in 0..MaxLosses /\ stops \in 0..MaxStops

Init ==
    /\ conversation \in {c \in [Threads -> {"live", "absent"}] : \E t \in Threads : c[t] = "live"}
    /\ task = [r \in Requests |-> "none"] /\ receipt = [r \in Requests |-> "none"]
    /\ files = {} /\ unlinked = {}
    /\ host = "up" /\ epoch = 0 /\ session = 0
    /\ command = <<>> /\ pending = <<>> /\ draft = [t \in Threads |-> Nobody] /\ known = 0
    /\ link = "ready" /\ up = <<>> /\ down = <<>> /\ late = <<>> /\ stopper = 0
    /\ effects = [m \in Messages |-> 0] /\ again = [m \in Messages |-> 0]
    /\ losses = 0 /\ stops = 0

-----------------------------------------------------------------------------
(* The journal. *)
Of(t) == {r \in DOMAIN command : command[r].kind = "submit" /\ command[r].thread = t}
Working(t) == \E r \in Of(t) : task[r] \in Live
InReview(t) == \E r \in Of(t) : task[r] = "uncertain"

\* assertWritableConversation: it exists, is not archived, and no other works.
Writable_Elsewhere(t) == conversation[t] = "live"
Writable(t) == conversation[t] = "live" /\ \A o \in Threads \ {t} : ~Working(o)

Manageable(c) ==
    /\ conversation[c.thread] \in {"live", "archived"}
    /\ c.kind # "unarchive" => ~Working(c.thread)
    /\ c.kind = "delete" => ~InReview(c.thread)
Purgeable(t) == conversation[t] = "archived" /\ ~Working(t) /\ ~InReview(t)
\* steer expects a turn that runs.
Steerable(t) == \E r \in Of(t) : task[r] = "running"
\* What a first request needs, by its kind.
Allowed(c) ==
    /\ c.kind = "submit" => Writable(c.thread)
    /\ c.kind = "steer" => Steerable(c.thread)
    /\ c.kind \in {"archive", "unarchive", "delete"} => Manageable(c)
    /\ c.kind = "purge" => Purgeable(c.thread)

\* taskInConversation asks for the task of steer and cancel before the receipt.
TaskKnown(c) == c.kind \in {"steer", "cancel"} => \E r \in Of(c.thread) : task[r] # "none"
\* findRequest / request: a receipt is answered again, a tombstone refused.
Answer(r) ==
    IF host = "stopping" \/ ~TaskKnown(command[r]) THEN "error"
    ELSE IF receipt[r] # "none" THEN IF receipt[r] = "receipt" THEN "accepted" ELSE "error"
    ELSE IF Allowed(command[r]) THEN "accepted" ELSE "error"
\* Receipts are not looked up.
Applies_Always(r) == Answer(r) = "accepted"
Applies(r) == Answer(r) = "accepted" /\ receipt[r] = "none"

\* deleteConversationRows: the thread's rows go, tombstones stay.  A receipt of
\* steer or cancel names no thread.
Deleted(t, r) ==
    /\ conversation' = [conversation EXCEPT ![t] = "deleted"]
    /\ task' = [o \in Requests |-> IF o \in Of(t) THEN "none" ELSE task[o]]
    /\ receipt' = [o \in Requests |->
         IF o = r THEN "receipt"
         ELSE IF /\ receipt[o] = "receipt" /\ command[o].thread = t
                 /\ command[o].kind \in {"submit", "create", "archive", "unarchive", "delete"}
              THEN "tombstone" ELSE receipt[o]]
\* cleanupDeletedConversationFiles: a directory in use stays for the next time.
Cleanup(doomed) ==
    \E locked \in SUBSET (doomed \cap files) :
      unlinked' = locked /\ files' = files \ (doomed \ locked)

Noted(r) == receipt' = [receipt EXCEPT ![r] = "receipt"]
Becomes(t, state) == conversation' = [conversation EXCEPT ![t] = state]
Created(r) ==
    Becomes(command[r].thread, "live") /\ Noted(r) /\ UNCHANGED <<task, files, unlinked, effects>>
Managed(r) ==
    /\ Becomes(command[r].thread, IF command[r].kind = "archive" THEN "archived" ELSE "live")
    /\ Noted(r) /\ UNCHANGED <<task, files, unlinked, effects>>
Work(r) == effects' = [effects EXCEPT ![command[r].text] = @ + 1]
Submitted(r) ==
    /\ task' = [task EXCEPT ![r] = "queued"] /\ Work(r) /\ Noted(r)
    /\ UNCHANGED <<conversation, files, unlinked>>
Steered(r) == Work(r) /\ Noted(r) /\ UNCHANGED <<conversation, task, files, unlinked>>
\* A queued task is over at once, a running one ends when it can.
Cancelled(r) ==
    /\ task' = [o \in Requests |->
         IF o \in Of(command[r].thread) /\ task[o] = "queued" THEN "over" ELSE task[o]]
    /\ Noted(r) /\ UNCHANGED <<conversation, files, unlinked, effects>>
Removed(r) ==
    /\ Deleted(command[r].thread, r) /\ Cleanup(unlinked \cup {command[r].thread})
    /\ UNCHANGED effects
\* The transaction of request r: its effect and its receipt.
Apply(r) ==
    \/ command[r].kind = "create" /\ Created(r)
    \/ command[r].kind \in {"archive", "unarchive"} /\ Managed(r)
    \/ command[r].kind = "submit" /\ Submitted(r)
    \/ command[r].kind = "steer" /\ Steered(r)
    \/ command[r].kind = "cancel" /\ Cancelled(r)
    \/ command[r].kind \in {"delete", "purge"} /\ Removed(r)
\* A repeated delete only cleans up again.
Reapply(r) ==
    /\ IF Answer(r) = "accepted" /\ command[r].kind \in {"delete", "purge"}
       THEN Cleanup(unlinked) ELSE UNCHANGED <<files, unlinked>>
    /\ UNCHANGED <<conversation, task, receipt, effects>>

\* The command stops this very host.
Stops(r) == command[r].kind = "stop" /\ host = "up" /\ command[r].epoch = epoch
\* backend.command; stop_host is about an epoch, it has no receipt.
Command(r) ==
    IF command[r].kind = "stop"
    THEN /\ host' = IF Stops(r) THEN "stopping" ELSE host
         /\ UNCHANGED <<journal, effects>>
    ELSE (IF Applies(r) THEN Apply(r) ELSE Reapply(r)) /\ UNCHANGED host
Replied(r) ==
    <<<<r, IF command[r].kind = "stop" THEN "error" ELSE Answer(r)>>>>

Handle ==
    /\ host # "down" /\ link = "ready" /\ up # <<>> /\ up' = Tail(up)
    /\ Command(Head(up))
    /\ IF Stops(Head(up)) THEN stopper' = Head(up) /\ UNCHANGED down
       ELSE down' = down \o Replied(Head(up)) /\ UNCHANGED stopper
    /\ UNCHANGED <<epoch, session, tab, link, late, again, bounds>>
\* A message of the broken connection; nobody gets the answer.
HandleLate ==
    /\ host # "down" /\ late # <<>> /\ late' = Tail(late) /\ Command(Head(late))
    /\ UNCHANGED <<epoch, session, tab, link, up, down, stopper, again, bounds>>

-----------------------------------------------------------------------------
(* The host. *)
StartTask(r) ==
    /\ host = "up" /\ task[r] = "queued" /\ \A o \in Requests : task[o] # "running"
    /\ task' = [task EXCEPT ![r] = "running"] /\ files' = files \cup {command[r].thread}
    /\ UNCHANGED <<conversation, receipt, unlinked, service, tab, wires, ghosts, bounds>>
TaskEnds(r) ==
    /\ host # "down" /\ task[r] = "running"
    /\ \E end \in {"over", "uncertain"} : task' = [task EXCEPT ![r] = end]
    /\ UNCHANGED <<conversation, receipt, files, unlinked, service, tab, wires, ghosts, bounds>>
Reviewed(r) ==
    /\ host = "up" /\ task[r] = "uncertain" /\ task' = [task EXCEPT ![r] = "over"]
    /\ UNCHANGED <<conversation, receipt, files, unlinked, service, tab, wires, ghosts, bounds>>

Disconnected == link' = "off" /\ up' = <<>> /\ down' = <<>> /\ stopper' = 0
\* Stopping cancels all work first; it may fail, and the host then goes on.
StopEnds ==
    /\ host = "stopping" /\ \A r \in Requests : task[r] # "running"
    /\ task' = [r \in Requests |-> IF task[r] = "queued" THEN "over" ELSE task[r]]
    /\ \/ /\ host' = "up" /\ stopper' = 0 /\ UNCHANGED <<link, up, late, stops>>
          /\ down' = IF stopper = 0 THEN down ELSE Append(down, <<stopper, "error">>)
       \/ /\ stops < MaxStops /\ stops' = stops + 1 /\ host' = "down"
          /\ Disconnected /\ late' = <<>>
    /\ UNCHANGED <<conversation, receipt, files, unlinked, epoch, session, tab, ghosts, losses>>
Crash ==
    /\ host # "down" /\ stops < MaxStops /\ stops' = stops + 1 /\ host' = "down"
    /\ Disconnected /\ late' = <<>>
    /\ UNCHANGED <<journal, epoch, session, tab, ghosts, losses>>
\* A host starts: interrupted work needs a review, files are cleaned up.  Its
\* conversation session goes on only with a Rhino that survived.
Restart ==
    /\ host = "down" /\ host' = "up" /\ epoch' = epoch + 1 /\ session' \in {session, epoch + 1}
    /\ task' = [r \in Requests |-> IF task[r] = "running" THEN "uncertain" ELSE task[r]]
    /\ Cleanup(unlinked)
    /\ UNCHANGED <<conversation, receipt, tab, wires, ghosts, bounds>>

-----------------------------------------------------------------------------
(* The tab. *)
TextsOf(rs) == {command[r].text : r \in {s \in ToSet(rs) : command[s].kind \in {"submit", "steer"}}}
\* A text that is offered again after the tab was told or has forgotten.
Offered(texts) == again' = [m \in Messages |-> again[m] + IF m \in texts THEN 1 ELSE 0]

Connect ==
    /\ link = "off" /\ host # "down" /\ link' = "open" /\ late' = <<>>
    /\ UNCHANGED <<journal, service, tab, up, down, stopper, ghosts, bounds>>
\* Nothing is sent again.
FirstSnapshot_Forgets ==
    /\ link = "open" /\ link' = "ready" /\ known' = session /\ up' = <<>>
    /\ UNCHANGED <<journal, service, command, pending, draft, down, late, stopper, ghosts, bounds>>
\* The first snapshot: a new session drops what was pending and the draft of
\* the thread on screen; everything pending is sent again.
FirstSnapshot ==
    /\ link = "open" /\ link' = "ready" /\ known' = session
    /\ \/ known = session /\ UNCHANGED <<pending, draft, again>> /\ up' = pending
       \/ /\ known # session /\ pending' = <<>> /\ up' = <<>>
          /\ \E shown \in Threads : draft' = [draft EXCEPT ![shown] = Nobody]
          /\ Offered(TextsOf(pending))
    /\ UNCHANGED <<journal, service, command, down, late, stopper, effects, bounds>>
\* The connection breaks; the host may still read what was sent.
Lose ==
    /\ link \in {"open", "ready"} /\ losses < MaxLosses /\ losses' = losses + 1
    /\ Disconnected /\ late' = up
    /\ UNCHANGED <<journal, service, tab, ghosts, stops>>

Submitting(t) ==
    \E r \in ToSet(pending) : command[r].kind \in {"submit", "steer"} /\ command[r].thread = t
\* Every text is written once.
Write(t, m) ==
    /\ draft[t] = Nobody /\ ~Submitting(t) /\ \A o \in Threads : draft[o] # m
    /\ \A r \in DOMAIN command : command[r].kind \in {"submit", "steer"} => command[r].text # m
    /\ draft' = [draft EXCEPT ![t] = m]
    /\ UNCHANGED <<journal, service, command, pending, known, wires, ghosts, bounds>>
Sent(c) ==
    /\ link = "ready" /\ Len(command) < MaxRequests
    /\ command' = Append(command, c) /\ pending' = Append(pending, Len(command) + 1)
    /\ up' = Append(up, Len(command) + 1)
    /\ UNCHANGED <<journal, service, draft, known, link, down, late, stopper, ghosts, bounds>>
Send(t, kind) ==
    /\ draft[t] # Nobody /\ ~Submitting(t) /\ kind \in {"submit", "steer"}
    /\ Sent([kind |-> kind, thread |-> t, text |-> draft[t]])
Create(t) ==
    /\ conversation[t] = "absent" /\ \A r \in DOMAIN command : command[r] # [kind |-> "create", thread |-> t]
    /\ Sent([kind |-> "create", thread |-> t])
Manage(t, kind) ==
    /\ conversation[t] # "absent" /\ kind \in {"archive", "unarchive", "delete", "cancel"}
    /\ Sent([kind |-> kind, thread |-> t])
\* The dialog of archived threads; they may have changed since.
Purge(t) == conversation[t] # "absent" /\ Sent([kind |-> "purge", thread |-> t])
Stop == known = session /\ Sent([kind |-> "stop", epoch |-> epoch])

\* The answer takes the request from pending; an accepted text leaves the
\* composer, a refused one stays there.
Reply ==
    /\ down # <<>> /\ down' = Tail(down)
    /\ LET r == Head(down)[1]  c == command[r] IN
         /\ \/ r \notin ToSet(pending) /\ UNCHANGED pending
            \/ \E i \in DOMAIN pending : pending[i] = r /\ pending' = RemoveAt(pending, i)
         /\ draft' = IF c.kind \in {"submit", "steer"} /\ Head(down)[2] = "accepted" /\ r \in ToSet(pending)
                     THEN [draft EXCEPT ![c.thread] = IF @ = c.text THEN Nobody ELSE @] ELSE draft
         /\ Offered(IF Head(down)[2] = "error" THEN TextsOf(<<r>>) ELSE {})
    /\ UNCHANGED <<journal, service, command, known, link, up, late, stopper, effects, bounds>>

Next ==
    \/ Handle \/ HandleLate \/ StopEnds \/ Crash \/ Restart
    \/ \E r \in Requests : StartTask(r) \/ TaskEnds(r) \/ Reviewed(r)
    \/ Connect \/ FirstSnapshot \/ Lose \/ Reply \/ Stop
    \/ \E t \in Threads :
         \/ Create(t) \/ Purge(t) \/ \E m \in Messages : Write(t, m)
         \/ \E kind \in {"submit", "steer"} : Send(t, kind)
         \/ \E kind \in {"archive", "unarchive", "delete", "cancel"} : Manage(t, kind)

Spec == Init /\ [][Next]_vars
Fairness ==
    /\ WF_vars(Handle) /\ WF_vars(Connect) /\ WF_vars(FirstSnapshot) /\ WF_vars(Reply)
    /\ WF_vars(Restart) /\ WF_vars(StopEnds) /\ \A r \in Requests : WF_vars(TaskEnds(r))
FairSpec == Spec /\ Fairness

-----------------------------------------------------------------------------
\* A text the user sends becomes work once, however often the connection breaks,
\* unless he was told that it failed, or a new session made the tab forget it.
SentOnce == \A m \in Messages : effects[m] <= 1 + again[m]

\* All live work is in one thread, which is neither archived nor deleted, whatever
\* commands are repeated, refused or late.
OneLiveThread ==
    /\ \A s, t \in Threads : Working(s) /\ Working(t) => s = t
    /\ \A t \in Threads : Working(t) => conversation[t] = "live"

\* A deleted thread leaves nothing behind: no work, and no file that nobody knows.
DeletedIsGone ==
    \A t \in Threads : conversation[t] = "deleted" =>
      (\A r \in Of(t) : task[r] = "none") /\ (t \in files => t \in unlinked)

\* Every command comes to be answered or dropped with its session.
EveryCommandAnswered == \A r \in Requests : [](r \in ToSet(pending) => <>(r \notin ToSet(pending)))
=============================================================================
