------------------------ MODULE SharedExecutionFence ------------------------
(***************************************************************************)
(* The fence in front of native work in shared mode:                       *)
(* Hopper.Core/Transport/SharedExecutionFence.cs.  The transport thread    *)
(* attaches hosts; the UI thread (one item at a time, see                  *)
(* OrderedDispatcher) executes requests and recoveries.  Execute and       *)
(* Recover leave the lock while native code runs, so an attachment may     *)
(* change between their two critical sections.                             *)
(* `native' is what Rhino and Grasshopper really hold open; the fence only *)
(* knows `scope', its own bookkeeping of it.                               *)
(***************************************************************************)
EXTENDS Naturals

CONSTANTS
    Epochs, Clients,  \* host epochs and DEALER routing identities
    Tasks,            \* tasks with their captured turn
    Bindings,         \* [Tasks -> {"rhino", "grasshopper", "pair"}]: captured target
    Grants, OpIds,    \* document-action grants and operation IDs
    Orphan,           \* owner of a native transaction from before this fence
    None

Kinds == {"rhino", "grasshopper"}
Owners == [task: Tasks, gen: Nat]
Attachments == Epochs \X Clients

FenceAssumption ==
    /\ Bindings \in [Tasks -> {"rhino", "grasshopper", "pair"}]
    /\ Orphan # None
    /\ None \notin Owners \cup Attachments \cup OpIds /\ Orphan \notin Owners

VARIABLES
    attached,    \* _epoch and _client, or None
    generation,  \* _generation: how many have been issued, the last is current
    retired,     \* _retiredAttachments
    scope,       \* _rhinoScope and _grasshopperScope
    recoveryRequired,
    consumed,    \* _consumedGrants
    recoveries,  \* generations whose Recover waits in the dispatcher
    ui,          \* what the UI thread is executing
    native       \* external: the owner of the open native transaction of each kind

fence == <<attached, generation, retired, scope, recoveryRequired, consumed>>
vars == <<fence, recoveries, ui, native>>

UiIdle == [pc |-> "idle"]

Init ==
    /\ attached = None /\ generation = 0 /\ retired = {}
    /\ scope = [k \in Kinds |-> None]
    /\ recoveryRequired = TRUE
    /\ consumed = [g \in Grants |-> None]
    /\ recoveries = {}
    /\ ui = UiIdle
    /\ native \in [Kinds -> {None, Orphan}]

-----------------------------------------------------------------------------
(* Attach, from the handshake on the transport thread; every accepted      *)
(* handshake, also a repeated one, submits Recover for its generation.     *)

\* Mutant: a new host takes over without a recovery.
AttachNew_KeepsAdmission(a) ==
    /\ attached # a /\ a \notin retired
    /\ retired' = IF attached = None THEN retired ELSE retired \cup {attached}
    /\ attached' = a
    /\ generation' = generation + 1
    /\ recoveries' = recoveries \cup {generation'}
    /\ UNCHANGED <<recoveryRequired, scope, consumed, ui, native>>

AttachNew(a) ==
    /\ attached # a /\ a \notin retired
    /\ retired' = IF attached = None THEN retired ELSE retired \cup {attached}
    /\ attached' = a
    /\ generation' = generation + 1
    /\ recoveryRequired' = TRUE
    /\ recoveries' = recoveries \cup {generation'}
    /\ UNCHANGED <<scope, consumed, ui, native>>

AttachAgain ==
    /\ attached # None
    /\ recoveries' = recoveries \cup {generation}
    /\ UNCHANGED <<fence, ui, native>>

-----------------------------------------------------------------------------
(* Execute.  Requests carry the owner they were built for; the queue may   *)
(* hold requests of any earlier attachment.                                *)

Suits(kind, binding) ==
    CASE kind = "rhino" -> binding # "grasshopper"
      [] kind = "grasshopper" -> binding # "rhino"
      [] kind = "pair" -> binding = "pair"

Works == ({"begin", "end", "edit", "save", "activate"} \X Kinds)
         \cup {<<"edit", "pair">>, <<"import", "rhino">>}

\* Mutant: an open scope of another owner does not stop geometry.
Valid_AnyScope(op, kind, client, owner) ==
    /\ attached # None /\ client = attached[2]
    /\ owner.gen = generation
    /\ ~recoveryRequired
    /\ Suits(kind, Bindings[owner.task])
    /\ op \in {"end", "import"} => scope[kind] = owner

Valid(op, kind, client, owner) ==
    /\ attached # None /\ client = attached[2]
    /\ owner.gen = generation
    /\ ~recoveryRequired
    /\ op = "save" => \A k \in Kinds \ {kind} : scope[k] = None
    /\ op = "activate" => \A k \in Kinds : scope[k] = None
    /\ \A k \in Kinds : scope[k] \in {None, owner}
    /\ Suits(kind, Bindings[owner.task])
    /\ op \in {"end", "import"} => scope[kind] = owner

\* First critical section: validate, and reserve the scope before a native begin.
\* (Whether the captured documents are still the active ones is the caller's
\* validator; a request it refuses changes nothing.)
ExecuteStart(op, kind, client, owner) ==
    /\ ui.pc = "idle"
    /\ Valid(op, kind, client, owner)
    /\ scope' = IF op = "begin" THEN [scope EXCEPT ![kind] = owner] ELSE scope
    /\ ui' = [pc |-> "native", op |-> op, kind |-> kind, owner |-> owner]
    /\ UNCHANGED <<attached, generation, retired, recoveryRequired, consumed,
                   recoveries, native>>

GrantUnused(grant, opId) == consumed[grant] \in {None, opId}

\* An unbound document transition (new, open): needs a grant instead of an owner.
DocumentActionStart(client, gen, grant, opId) ==
    /\ ui.pc = "idle"
    /\ attached # None /\ client = attached[2]
    /\ gen = generation
    /\ ~recoveryRequired /\ \A k \in Kinds : scope[k] = None
    /\ GrantUnused(grant, opId)
    /\ consumed' = [consumed EXCEPT ![grant] = opId]
    /\ ui' = [pc |-> "native", op |-> "document", grant |-> grant, opId |-> opId]
    /\ UNCHANGED <<attached, generation, retired, scope, recoveryRequired,
                   recoveries, native>>

\* What the native handlers may leave open.  A begin may fail before or after it
\* opened its record; a commit, a cancel or a managed save that reports success
\* (or an idle transaction) closed it, one that fails may have.
Leaves(ok) ==
    IF ui.op = "begin"
      THEN {[native EXCEPT ![ui.kind] = o] : o \in {native[ui.kind], ui.owner}}
    ELSE IF ui.op \in {"end", "save"}
      THEN {[native EXCEPT ![ui.kind] = None]} \cup (IF ok THEN {} ELSE {native})
    ELSE {native}

\* Outside the lock.
ExecuteNative ==
    /\ ui.pc = "native"
    /\ \E ok \in BOOLEAN :
        /\ native' \in Leaves(ok)
        /\ ui' = IF ui.op = "document" THEN UiIdle
                 ELSE [pc |-> "record", op |-> ui.op, kind |-> ui.kind, owner |-> ui.owner, ok |-> ok]
    /\ UNCHANGED <<fence, recoveries>>

\* Mutant: a failed begin gives the scope back.
Recorded_FailedBegin(s) ==
    IF ui.owner.gen # generation THEN s
    ELSE IF ui.op = "begin" THEN [s EXCEPT ![ui.kind] = IF ui.ok THEN ui.owner ELSE None]
    ELSE IF ui.ok /\ ui.op = "end" THEN [s EXCEPT ![ui.kind] = None]
    ELSE s

\* Second critical section: what the result changes, unless the owner's
\* attachment was superseded meanwhile.
Recorded(s) ==
    IF ui.owner.gen # generation \/ ~ui.ok THEN s
    ELSE IF ui.op = "begin" THEN [s EXCEPT ![ui.kind] = ui.owner]
    ELSE IF ui.op = "end" THEN [s EXCEPT ![ui.kind] = None]
    ELSE IF ui.op = "save" /\ s[ui.kind] = ui.owner THEN [s EXCEPT ![ui.kind] = None]
    ELSE s

ExecuteRecord ==
    /\ ui.pc = "record"
    /\ scope' = Recorded(scope)
    /\ ui' = UiIdle
    /\ UNCHANGED <<attached, generation, retired, recoveryRequired, consumed,
                   recoveries, native>>

-----------------------------------------------------------------------------
(* Recover on the UI thread. *)

RecoverStart(g) ==
    /\ ui.pc = "idle"
    /\ g \in recoveries
    /\ recoveries' = recoveries \ {g}
    /\ ui' = IF g = generation /\ recoveryRequired
             THEN [pc |-> "cleanup", gen |-> g, read |-> scope] ELSE UiIdle
    /\ UNCHANGED <<fence, native>>

\* SharedTransactionCleanup: refuses a transaction its owner metadata does not
\* explain, then closes Rhino's record (which may throw and leave it open) and
\* reverts Grasshopper's, which is forgotten even when the revert throws.
RecoverCleanup ==
    /\ ui.pc = "cleanup"
    /\ LET explained == \A k \in Kinds : native[k] \in {None, ui.read[k]}
           done == [ui EXCEPT !.pc = "confirm"]
       IN \/ ui' = UiIdle /\ UNCHANGED native
          \/ explained /\ ui' = UiIdle /\ native' = [native EXCEPT !["rhino"] = None]
          \/ explained /\ ui' \in {UiIdle, done} /\ native' = [k \in Kinds |-> None]
    /\ UNCHANGED <<fence, recoveries>>

\* Mutant: admission opens again with the scopes of the host before.
RecoverConfirm_KeepsScopes ==
    /\ ui.pc = "confirm"
    /\ ui' = UiIdle
    /\ recoveryRequired' = (recoveryRequired /\ ui.gen # generation)
    /\ UNCHANGED <<attached, generation, retired, scope, consumed, recoveries, native>>

RecoverConfirm ==
    /\ ui.pc = "confirm"
    /\ ui' = UiIdle
    /\ IF ui.gen = generation
         THEN scope' = [k \in Kinds |-> None] /\ recoveryRequired' = FALSE
         ELSE UNCHANGED <<scope, recoveryRequired>>
    /\ UNCHANGED <<attached, generation, retired, consumed, recoveries, native>>

\* Rhino or Grasshopper ends a transaction by itself: the user saves, closes or
\* edits the document (ExternalBoundary, AgentTransaction.Reconcile).
NativeAbandon(k) ==
    /\ native[k] \notin {None, Orphan}
    /\ native' = [native EXCEPT ![k] = None]
    /\ UNCHANGED <<fence, recoveries, ui>>

IssuedOwners == [task: Tasks, gen: 1..generation]

Next ==
    \/ \E a \in Attachments : AttachNew(a)
    \/ AttachAgain
    \/ \E w \in Works, c \in Clients, o \in IssuedOwners : ExecuteStart(w[1], w[2], c, o)
    \/ \E c \in Clients, gen \in 1..generation, grant \in Grants, opId \in OpIds :
          DocumentActionStart(c, gen, grant, opId)
    \/ ExecuteNative \/ ExecuteRecord
    \/ \E g \in 1..generation : RecoverStart(g)
    \/ RecoverCleanup \/ RecoverConfirm
    \/ \E k \in Kinds : NativeAbandon(k)

Spec == Init /\ [][Next]_vars

-----------------------------------------------------------------------------
WorkKinds == Kinds \cup {"pair"}
WorkOps == {"begin", "end", "edit", "save", "activate", "import"}

UiStates ==
    {UiIdle}
    \cup [pc: {"native"}, op: WorkOps, kind: WorkKinds, owner: Owners]
    \cup [pc: {"native"}, op: {"document"}, grant: Grants, opId: OpIds]
    \cup [pc: {"record"}, op: WorkOps, kind: WorkKinds, owner: Owners, ok: BOOLEAN]
    \cup [pc: {"cleanup", "confirm"}, gen: Nat, read: [Kinds -> Owners \cup {None}]]

\* The types of the fence's state.
TypeOK ==
    /\ attached \in Attachments \cup {None}
    /\ generation \in Nat
    /\ retired \subseteq Attachments
    /\ scope \in [Kinds -> Owners \cup {None}]
    /\ recoveryRequired \in BOOLEAN
    /\ consumed \in [Grants -> OpIds \cup {None}]
    /\ recoveries \subseteq Nat
    /\ ui \in UiStates
    /\ native \in [Kinds -> Owners \cup {None, Orphan}]

\* The fence never forgets a transaction that is really open: it knows its owner,
\* also while a begin that throws, a commit that fails or a new attachment is in
\* flight; and a transaction it cannot know of keeps admission blocked.
ScopeCoversNative ==
    \A k \in Kinds :
        /\ native[k] \in Owners => scope[k] = native[k]
        /\ native[k] = Orphan => recoveryRequired

\* While native work of an owner runs, no transaction of anybody else is open
\* around it, and a document transition never runs inside a transaction.
WorkRunsInOwnScope ==
    ui.pc = "native" =>
        \A k \in Kinds : native[k] \in (IF ui.op \in {"document", "activate"}
                                        THEN {None} ELSE {None, ui.owner})

\* Both scopes are never owned by two different turns.
OneScopeOwner ==
    \A j, k \in Kinds : scope[j] # None /\ scope[k] # None => scope[j] = scope[k]

\* Once admission is open for a host, no scope of an earlier attachment is left
\* that would refuse its work for good: neither one reserved by a begin that was
\* running when the host was replaced, nor one that a late result sets again.
AdmissionIsCurrent ==
    ~recoveryRequired => \A k \in Kinds : scope[k] # None => scope[k].gen = generation
=============================================================================
