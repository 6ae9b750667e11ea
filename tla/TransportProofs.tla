--------------------------- MODULE TransportProofs ---------------------------
(***************************************************************************)
(* Proofs about the fence for any number of hosts, tasks and attachments:  *)
(* it knows the owner of every open native transaction and native work     *)
(* never runs inside somebody else's; and about the result store for any   *)
(* operations and limits: a terminal result does not change before it      *)
(* expired.  About the tool policy, for any agents, settings windows,      *)
(* tools, keys, revisions, epochs and faults: a tool that is sent was      *)
(* offered to the model since it was last switched on, and goes with no    *)
(* key that was replaced; windows that change the key keep the one in use. *)
(***************************************************************************)
EXTENDS Transport, Sequences, TLAPS

(***************************************************************************)
(* The execution fence                                                     *)
(***************************************************************************)

\* What is assumed of the constants of the fence.
LEMMA FenceFacts ==
    /\ Bindings \in [Tasks -> {"rhino", "grasshopper", "pair"}]
    /\ Orphan # None
    /\ None \notin Fence!Owners \cup Fence!Attachments \cup FenceOps /\ Orphan \notin Fence!Owners
BY TransportAssumption DEF Fence!FenceAssumption

\* In a behaviour of the run the fence and the store behave as they do alone.
LEMMA PartsBehave == TransportSpec => Fence!Spec /\ S!StoreSpec
<1>1. TransportInit => Fence!Init /\ S!StoreInit
  BY DEF TransportInit
<1>2. [TransportNext]_all => [Fence!Next]_(Fence!vars)
  BY DEF TransportNext, all, fenceVars, Fence!vars, Fence!fence
<1>3. [TransportNext]_all => [S!StoreNext]_(S!storeVars)
  BY DEF TransportNext, all, storeVars, S!storeVars
<1> QED
  BY <1>1, <1>2, <1>3, PTL DEF TransportSpec, Fence!Spec, S!StoreSpec

\* The two scope maps, which every step reads or updates by kind.
ScopeTypes ==
    /\ scope \in [Fence!Kinds -> Fence!Owners \cup {None}]
    /\ fenceNative \in [Fence!Kinds -> Fence!Owners \cup {None, Orphan}]
    /\ fenceGeneration \in Nat

Working == ui.pc \in {"native", "record"} /\ ui.op # "document"

\* What holds of the request the UI thread is executing: it saw only scopes of
\* its own owner, a begin has its scope reserved, and a close that succeeded
\* left nothing open.  An attachment that arrives meanwhile changes none of it.
WorkInv ==
    Working =>
        /\ ui.owner \in Fence!Owners
        /\ ui.op \in {"begin", "end", "save"} => ui.kind \in Fence!Kinds
        /\ \A k \in Fence!Kinds : scope[k] \in {None, ui.owner} /\ fenceNative[k] # Orphan
        /\ ui.op = "begin" => scope[ui.kind] = ui.owner
        /\ ui.op = "activate" => \A k \in Fence!Kinds : scope[k] = None
        /\ ui.pc = "record" /\ ui.ok /\ ui.op \in {"end", "save"} => fenceNative[ui.kind] = None

\* A document transition runs with both scopes idle; a finished cleanup left
\* nothing open.
IdleInv ==
    /\ ui.pc = "native" /\ ui.op = "document" =>
         \A k \in Fence!Kinds : scope[k] = None /\ fenceNative[k] = None
    /\ ui.pc = "record" => ui.op # "document"
    /\ ui.pc = "confirm" => \A k \in Fence!Kinds : fenceNative[k] = None

FenceInv == /\ ScopeTypes /\ WorkInv /\ IdleInv
            /\ Fence!ScopeCoversNative /\ Fence!OneScopeOwner /\ Fence!AdmissionIsCurrent

USE DEF Fence!Kinds

\* The fence starts in order.
LEMMA FenceInit == Fence!Init => FenceInv
<1> SUFFICES ASSUME Fence!Init PROVE FenceInv
  OBVIOUS
<1>1. ScopeTypes
  BY FenceFacts DEF Fence!Init, ScopeTypes
<1>2. WorkInv /\ IdleInv
  BY DEF Fence!Init, Fence!UiIdle, WorkInv, IdleInv, Working
<1>3. Fence!ScopeCoversNative
  BY FenceFacts DEF Fence!Init, Fence!ScopeCoversNative
<1>4. Fence!OneScopeOwner /\ Fence!AdmissionIsCurrent
  BY DEF Fence!Init, Fence!OneScopeOwner, Fence!AdmissionIsCurrent
<1> QED
  BY <1>1, <1>2, <1>3, <1>4 DEF FenceInv

\* Attaching a new host only closes admission.
LEMMA AttachStep ==
    ASSUME FenceInv, NEW a \in Fence!Attachments, Fence!AttachNew(a)
    PROVE  FenceInv'
<1>1. UNCHANGED <<scope, fenceNative, ui>> /\ recoveryRequired' /\ fenceGeneration' = fenceGeneration + 1
  BY DEF Fence!AttachNew
<1>2. ScopeTypes'
  BY <1>1 DEF FenceInv, ScopeTypes
<1>3. WorkInv' /\ IdleInv'
  BY <1>1 DEF FenceInv, WorkInv, IdleInv, Working
<1>4. Fence!ScopeCoversNative' /\ Fence!OneScopeOwner' /\ Fence!AdmissionIsCurrent'
  BY <1>1 DEF FenceInv, Fence!ScopeCoversNative, Fence!OneScopeOwner, Fence!AdmissionIsCurrent
<1> QED
  BY <1>2, <1>3, <1>4 DEF FenceInv

\* Steps that leave the bookkeeping, the native state and the request alone.
LEMMA QuietStep ==
    ASSUME FenceInv, UNCHANGED <<scope, fenceNative, fenceGeneration, recoveryRequired>>,
           ui' = ui \/ ui'.pc \in {"idle", "cleanup"}
    PROVE  FenceInv'
<1>1. ScopeTypes'
  BY DEF FenceInv, ScopeTypes
<1>2. WorkInv' /\ IdleInv'
  BY DEF FenceInv, WorkInv, IdleInv, Working
<1>3. Fence!ScopeCoversNative' /\ Fence!OneScopeOwner' /\ Fence!AdmissionIsCurrent'
  BY DEF FenceInv, Fence!ScopeCoversNative, Fence!OneScopeOwner, Fence!AdmissionIsCurrent
<1> QED
  BY <1>1, <1>2, <1>3 DEF FenceInv

\* The start of an execution keeps the fence.
LEMMA ExecuteStartStep ==
    ASSUME FenceInv, NEW w \in Fence!Works, NEW c \in Clients, NEW o \in Fence!IssuedOwners,
           Fence!ExecuteStart(w[1], w[2], c, o)
    PROVE  FenceInv'
<1> DEFINE op == w[1]
<1> DEFINE knd == w[2]
<1>1. o \in Fence!Owners
  BY DEF Fence!IssuedOwners, Fence!Owners
<1>2. op \in {"begin", "end", "save", "activate"} => knd \in Fence!Kinds
  BY DEF Fence!Works
<1>3. /\ o.gen = fenceGeneration /\ ~recoveryRequired
      /\ \A k \in Fence!Kinds : scope[k] \in {None, o}
      /\ op = "activate" => \A k \in Fence!Kinds : scope[k] = None
  BY DEF Fence!ExecuteStart, Fence!Valid
<1>4. /\ ui' = [pc |-> "native", op |-> op, kind |-> knd, owner |-> o]
      /\ scope' = (IF op = "begin" THEN [scope EXCEPT ![knd] = o] ELSE scope)
      /\ UNCHANGED <<fenceNative, fenceGeneration, recoveryRequired>>
  BY DEF Fence!ExecuteStart
<1>5. /\ scope \in [Fence!Kinds -> Fence!Owners \cup {None}]
      /\ fenceNative \in [Fence!Kinds -> Fence!Owners \cup {None, Orphan}] /\ fenceGeneration \in Nat
  BY DEF FenceInv, ScopeTypes
<1>6. op # "document"
  BY DEF Fence!Works
<1>7. \A k \in Fence!Kinds : scope'[k] \in {None, o} /\ (scope[k] = o => scope'[k] = o)
  BY <1>2, <1>3, <1>4, <1>5
<1>8. ScopeTypes'
  BY <1>1, <1>4, <1>5 DEF ScopeTypes
<1>9. \A k \in Fence!Kinds : fenceNative[k] # Orphan
  BY <1>3 DEF FenceInv, Fence!ScopeCoversNative
<1>10. WorkInv'
  <2>1. op = "begin" => scope'[knd] = o
    BY <1>2, <1>4, <1>5
  <2>2. op = "activate" => \A k \in Fence!Kinds : scope'[k] = None
    BY <1>3, <1>4
  <2> QED
    BY <1>1, <1>2, <1>4, <1>7, <1>9, <2>1, <2>2 DEF WorkInv, Working
<1>11. IdleInv'
  BY <1>4, <1>6 DEF IdleInv
<1>12. Fence!ScopeCoversNative'
  <2> SUFFICES ASSUME NEW k \in Fence!Kinds
               PROVE  (fenceNative[k] \in Fence!Owners => scope'[k] = fenceNative[k])
                      /\ (fenceNative[k] = Orphan => recoveryRequired')
    BY <1>4 DEF Fence!ScopeCoversNative
  <2>1. fenceNative[k] \in Fence!Owners => scope[k] = fenceNative[k]
    BY DEF FenceInv, Fence!ScopeCoversNative
  <2>2. fenceNative[k] \in Fence!Owners => fenceNative[k] = o
    BY <1>3, <2>1, FenceFacts
  <2> QED
    BY <1>7, <1>9, <2>1, <2>2
<1>13. Fence!OneScopeOwner' /\ Fence!AdmissionIsCurrent'
  BY <1>3, <1>4, <1>7 DEF Fence!OneScopeOwner, Fence!AdmissionIsCurrent
<1> QED
  BY <1>8, <1>10, <1>11, <1>12, <1>13 DEF FenceInv

\* The start of a document action keeps the fence.
LEMMA DocumentStartStep ==
    ASSUME FenceInv, NEW c, NEW gen, NEW grant, NEW opId,
           Fence!DocumentActionStart(c, gen, grant, opId)
    PROVE  FenceInv'
<1>1. /\ UNCHANGED <<scope, fenceNative, fenceGeneration, recoveryRequired>>
      /\ ui' = [pc |-> "native", op |-> "document", grant |-> grant, opId |-> opId]
      /\ ~recoveryRequired /\ \A k \in Fence!Kinds : scope[k] = None
  BY DEF Fence!DocumentActionStart
<1>2. \A k \in Fence!Kinds : fenceNative[k] = None
  BY <1>1, FenceFacts DEF FenceInv, ScopeTypes, Fence!ScopeCoversNative
<1>3. ScopeTypes'
  BY <1>1 DEF FenceInv, ScopeTypes
<1>4. WorkInv' /\ IdleInv'
  BY <1>1, <1>2 DEF WorkInv, IdleInv, Working
<1>5. Fence!ScopeCoversNative' /\ Fence!OneScopeOwner' /\ Fence!AdmissionIsCurrent'
  BY <1>1 DEF FenceInv, Fence!ScopeCoversNative, Fence!OneScopeOwner, Fence!AdmissionIsCurrent
<1> QED
  BY <1>3, <1>4, <1>5 DEF FenceInv

\* Native transactions that only close, or open under the owner of the reserved
\* scope, stay covered.
LEMMA NativeStep ==
    ASSUME FenceInv, Fence!ExecuteNative
    PROVE  FenceInv'
<1>1. /\ ui.pc = "native" /\ UNCHANGED <<scope, fenceGeneration, recoveryRequired>>
  BY DEF Fence!ExecuteNative, Fence!fence
<1>2. PICK ok \in BOOLEAN :
         /\ fenceNative' \in Fence!Leaves(ok)
         /\ ui' = IF ui.op = "document" THEN Fence!UiIdle
                  ELSE [pc |-> "record", op |-> ui.op, kind |-> ui.kind,
                        owner |-> ui.owner, ok |-> ok]
  BY DEF Fence!ExecuteNative
<1>3. /\ fenceNative \in [Fence!Kinds -> Fence!Owners \cup {None, Orphan}]
      /\ scope \in [Fence!Kinds -> Fence!Owners \cup {None}] /\ fenceGeneration \in Nat
  BY DEF FenceInv, ScopeTypes
<1>4. CASE ui.op = "document"
  <2>1. fenceNative' = fenceNative /\ ui'.pc = "idle"
    BY <1>2, <1>4 DEF Fence!Leaves, Fence!UiIdle
  <2> QED
    BY <1>1, <2>1, QuietStep
<1>5. CASE ui.op # "document"
  <2>1. Working
    BY <1>1, <1>5 DEF Working
  <2>2. /\ ui.owner \in Fence!Owners
        /\ ui.op \in {"begin", "end", "save"} => ui.kind \in Fence!Kinds
        /\ \A k \in Fence!Kinds : scope[k] \in {None, ui.owner} /\ fenceNative[k] # Orphan
        /\ ui.op = "begin" => scope[ui.kind] = ui.owner
        /\ ui.op = "activate" => \A k \in Fence!Kinds : scope[k] = None
    BY <2>1 DEF FenceInv, WorkInv
  <2>3. /\ ui' = [pc |-> "record", op |-> ui.op, kind |-> ui.kind,
                  owner |-> ui.owner, ok |-> ok]
    BY <1>2, <1>5
  <2>4. fenceNative' \in [Fence!Kinds -> Fence!Owners \cup {None, Orphan}]
        /\ \A k \in Fence!Kinds : fenceNative'[k] \in {fenceNative[k], None}
                            \/ (ui.op = "begin" /\ k = ui.kind /\ fenceNative'[k] = ui.owner)
    BY <1>2, <1>3, <2>2 DEF Fence!Leaves
  <2>5. ok /\ ui.op \in {"end", "save"} => fenceNative'[ui.kind] = None
    BY <1>2, <1>3, <2>2 DEF Fence!Leaves
  <2>6. ScopeTypes'
    BY <1>1, <1>3, <2>4 DEF ScopeTypes
  <2>7. \A k \in Fence!Kinds : fenceNative'[k] # Orphan
    BY <2>2, <2>4, FenceFacts
  <2>8. WorkInv'
    BY <1>1, <2>2, <2>3, <2>5, <2>7 DEF WorkInv, Working
  <2>9. IdleInv'
    BY <1>5, <2>3 DEF IdleInv
  <2>10. Fence!ScopeCoversNative'
    BY <1>1, <2>2, <2>4, <2>7, FenceFacts DEF FenceInv, Fence!ScopeCoversNative
  <2>11. Fence!OneScopeOwner' /\ Fence!AdmissionIsCurrent'
    BY <1>1 DEF FenceInv, Fence!OneScopeOwner, Fence!AdmissionIsCurrent
  <2> QED
    BY <2>6, <2>8, <2>9, <2>10, <2>11 DEF FenceInv
<1> QED
  BY <1>4, <1>5

\* The result of a superseded owner records nothing; a current one gives a scope
\* back only when the native side closed it.
LEMMA RecordStep ==
    ASSUME FenceInv, Fence!ExecuteRecord
    PROVE  FenceInv'
<1>1. /\ ui.pc = "record" /\ ui' = Fence!UiIdle /\ scope' = Fence!Recorded(scope)
      /\ UNCHANGED <<fenceNative, fenceGeneration, recoveryRequired>>
  BY DEF Fence!ExecuteRecord
<1>2. Working
  BY <1>1 DEF FenceInv, IdleInv, Working
<1>3. /\ ui.owner \in Fence!Owners
      /\ ui.op \in {"begin", "end", "save"} => ui.kind \in Fence!Kinds
      /\ \A k \in Fence!Kinds : scope[k] \in {None, ui.owner}
      /\ ui.op = "begin" => scope[ui.kind] = ui.owner
      /\ ui.ok /\ ui.op \in {"end", "save"} => fenceNative[ui.kind] = None
  BY <1>1, <1>2 DEF FenceInv, WorkInv
<1>4. scope \in [Fence!Kinds -> Fence!Owners \cup {None}] /\ fenceNative \in [Fence!Kinds -> Fence!Owners \cup {None, Orphan}]
      /\ fenceGeneration \in Nat
  BY DEF FenceInv, ScopeTypes
<1>5. /\ scope' \in [Fence!Kinds -> Fence!Owners \cup {None}]
      /\ \A k \in Fence!Kinds :
           scope'[k] = scope[k] \/ (scope'[k] = None /\ fenceNative[k] = None)
  BY <1>1, <1>3, <1>4 DEF Fence!Recorded
<1>6. ScopeTypes'
  BY <1>1, <1>4, <1>5 DEF ScopeTypes
<1>7. WorkInv' /\ IdleInv'
  BY <1>1 DEF WorkInv, IdleInv, Working, Fence!UiIdle
<1>8. Fence!ScopeCoversNative'
  BY <1>1, <1>5, FenceFacts DEF FenceInv, Fence!ScopeCoversNative
<1>9. Fence!OneScopeOwner' /\ Fence!AdmissionIsCurrent'
  BY <1>1, <1>5 DEF FenceInv, Fence!OneScopeOwner, Fence!AdmissionIsCurrent
<1> QED
  BY <1>6, <1>7, <1>8, <1>9 DEF FenceInv

\* The cleanup of a recovery keeps the fence.
LEMMA CleanupStep ==
    ASSUME FenceInv, Fence!RecoverCleanup
    PROVE  FenceInv'
<1>1. /\ ui.pc = "cleanup" /\ UNCHANGED <<scope, fenceGeneration, recoveryRequired>>
      /\ fenceNative' \in {fenceNative, [fenceNative EXCEPT !["rhino"] = None], [k \in Fence!Kinds |-> None]}
      /\ \/ ui' = Fence!UiIdle
         \/ ui'.pc = "confirm" /\ fenceNative' = [k \in Fence!Kinds |-> None]
  <2>1. CASE ui' = Fence!UiIdle
    BY <2>1 DEF Fence!RecoverCleanup, Fence!fence
  <2>2. CASE ui' = [ui EXCEPT !.pc = "confirm"] /\ fenceNative' = [k \in Fence!Kinds |-> None]
    BY <2>2 DEF Fence!RecoverCleanup, Fence!fence
  <2> QED
    BY <2>1, <2>2 DEF Fence!RecoverCleanup
<1>2. fenceNative' \in [Fence!Kinds -> Fence!Owners \cup {None, Orphan}]
      /\ \A k \in Fence!Kinds : fenceNative'[k] \in {fenceNative[k], None}
  BY <1>1 DEF FenceInv, ScopeTypes
<1>3. ScopeTypes'
  BY <1>1, <1>2 DEF FenceInv, ScopeTypes
<1>4. WorkInv' /\ IdleInv'
  BY <1>1 DEF WorkInv, IdleInv, Working, Fence!UiIdle
<1>5. Fence!ScopeCoversNative' /\ Fence!OneScopeOwner' /\ Fence!AdmissionIsCurrent'
  BY <1>1, <1>2, FenceFacts DEF FenceInv, Fence!ScopeCoversNative, Fence!OneScopeOwner,
     Fence!AdmissionIsCurrent
<1> QED
  BY <1>3, <1>4, <1>5 DEF FenceInv

\* The confirmation of a recovery keeps the fence.
LEMMA ConfirmStep ==
    ASSUME FenceInv, Fence!RecoverConfirm
    PROVE  FenceInv'
<1>1. /\ ui.pc = "confirm" /\ ui' = Fence!UiIdle /\ UNCHANGED <<fenceNative, fenceGeneration>>
      /\ \/ UNCHANGED <<scope, recoveryRequired>>
         \/ scope' = [k \in Fence!Kinds |-> None]
  BY DEF Fence!RecoverConfirm
<1>2. CASE UNCHANGED <<scope, recoveryRequired>>
  BY <1>1, <1>2, QuietStep DEF Fence!UiIdle
<1>3. CASE scope' = [k \in Fence!Kinds |-> None]
  <2>1. \A k \in Fence!Kinds : fenceNative[k] = None
    BY <1>1 DEF FenceInv, IdleInv
  <2>2. ScopeTypes'
    BY <1>1, <1>3 DEF FenceInv, ScopeTypes
  <2>3. WorkInv' /\ IdleInv'
    BY <1>1 DEF WorkInv, IdleInv, Working, Fence!UiIdle
  <2>4. Fence!ScopeCoversNative' /\ Fence!OneScopeOwner' /\ Fence!AdmissionIsCurrent'
    BY <1>1, <1>3, <2>1, FenceFacts DEF Fence!ScopeCoversNative, Fence!OneScopeOwner,
       Fence!AdmissionIsCurrent
  <2> QED
    BY <2>2, <2>3, <2>4 DEF FenceInv
<1> QED
  BY <1>1, <1>2, <1>3

\* An abandoned native transaction keeps the fence.
LEMMA AbandonStep ==
    ASSUME FenceInv, NEW j \in Fence!Kinds, Fence!NativeAbandon(j)
    PROVE  FenceInv'
<1>1. fenceNative' = [fenceNative EXCEPT ![j] = None]
      /\ UNCHANGED <<scope, fenceGeneration, recoveryRequired, ui>>
  BY DEF Fence!NativeAbandon, Fence!fence
<1>2. fenceNative' \in [Fence!Kinds -> Fence!Owners \cup {None, Orphan}]
      /\ \A k \in Fence!Kinds : fenceNative'[k] \in {fenceNative[k], None}
  BY <1>1 DEF FenceInv, ScopeTypes
<1>3. ScopeTypes'
  BY <1>1, <1>2 DEF FenceInv, ScopeTypes
<1>4. WorkInv'
  BY <1>1, <1>2, FenceFacts DEF FenceInv, WorkInv, Working
<1>5. IdleInv'
  BY <1>1, <1>2 DEF FenceInv, IdleInv
<1>6. Fence!ScopeCoversNative' /\ Fence!OneScopeOwner' /\ Fence!AdmissionIsCurrent'
  BY <1>1, <1>2, FenceFacts DEF FenceInv, Fence!ScopeCoversNative, Fence!OneScopeOwner,
     Fence!AdmissionIsCurrent
<1> QED
  BY <1>3, <1>4, <1>5, <1>6 DEF FenceInv

\* Every step keeps the fence.
LEMMA FenceNext == FenceInv /\ [Fence!Next]_(Fence!vars) => FenceInv'
<1> SUFFICES ASSUME FenceInv, [Fence!Next]_(Fence!vars) PROVE FenceInv'
  OBVIOUS
<1>1. ASSUME NEW a \in Fence!Attachments, Fence!AttachNew(a) PROVE FenceInv'
  BY <1>1, AttachStep
<1>2. CASE Fence!AttachAgain
  BY <1>2, QuietStep DEF Fence!AttachAgain, Fence!fence
<1>3. ASSUME NEW w \in Fence!Works, NEW c \in Clients, NEW o \in Fence!IssuedOwners,
             Fence!ExecuteStart(w[1], w[2], c, o)
      PROVE  FenceInv'
  BY <1>3, ExecuteStartStep
<1>4. ASSUME NEW c \in Clients, NEW gen \in 1..fenceGeneration, NEW grant \in Grants,
             NEW opId \in FenceOps, Fence!DocumentActionStart(c, gen, grant, opId)
      PROVE  FenceInv'
  BY <1>4, DocumentStartStep
<1>5. CASE Fence!ExecuteNative
  BY <1>5, NativeStep
<1>6. CASE Fence!ExecuteRecord
  BY <1>6, RecordStep
<1>7. ASSUME NEW g \in 1..fenceGeneration, Fence!RecoverStart(g) PROVE FenceInv'
  BY <1>7, QuietStep DEF Fence!RecoverStart, Fence!UiIdle, Fence!fence
<1>8. CASE Fence!RecoverCleanup
  BY <1>8, CleanupStep
<1>9. CASE Fence!RecoverConfirm
  BY <1>9, ConfirmStep
<1>10. ASSUME NEW k \in Fence!Kinds, Fence!NativeAbandon(k) PROVE FenceInv'
  BY <1>10, AbandonStep
<1>11. CASE UNCHANGED Fence!vars
  BY <1>11, QuietStep DEF Fence!vars, Fence!fence
<1> QED
  BY <1>1, <1>2, <1>3, <1>4, <1>5, <1>6, <1>7, <1>8, <1>9, <1>10, <1>11 DEF Fence!Next

\* The inductive invariant of the fence holds in every reachable state.
LEMMA FenceInvariant == Fence!Spec => []FenceInv
BY FenceInit, FenceNext, PTL DEF Fence!Spec

\* The fence knows the owner of every open native transaction, and keeps
\* admission blocked while a transaction it cannot know of may be open.
THEOREM NativeScopesKnown == TransportSpec => []ScopeCoversNative
<1>1. FenceInv => Fence!ScopeCoversNative
  BY DEF FenceInv
<1> QED
  BY <1>1, FenceInvariant, PartsBehave, PTL DEF ScopeCoversNative

\* Native work runs only inside its own transaction, whatever attaches meanwhile.
THEOREM NoWorkInForeignScope == TransportSpec => []WorkRunsInOwnScope
<1>1. FenceInv => Fence!WorkRunsInOwnScope
  <2> SUFFICES ASSUME FenceInv, ui.pc = "native", NEW k \in Fence!Kinds
               PROVE  fenceNative[k] \in (IF ui.op \in {"document", "activate"}
                                     THEN {None} ELSE {None, ui.owner})
    BY DEF Fence!WorkRunsInOwnScope
  <2>1. fenceNative[k] \in Fence!Owners \cup {None, Orphan} /\ (fenceNative[k] \in Fence!Owners => scope[k] = fenceNative[k])
    BY DEF FenceInv, ScopeTypes, Fence!ScopeCoversNative
  <2>2. CASE ui.op = "document"
    BY <2>2 DEF FenceInv, IdleInv
  <2>3. CASE ui.op # "document"
    <3>1. /\ scope[k] \in {None, ui.owner} /\ fenceNative[k] # Orphan
          /\ ui.op = "activate" => scope[k] = None
      BY <2>3 DEF FenceInv, WorkInv, Working
    <3> QED
      BY <2>1, <2>3, <3>1, FenceFacts
  <2> QED
    BY <2>2, <2>3
<1> QED
  BY <1>1, FenceInvariant, PartsBehave, PTL DEF WorkRunsInOwnScope

\* No two turns ever own the Rhino and the Grasshopper scope between them.
THEOREM ScopesHaveOneOwner == TransportSpec => []Fence!OneScopeOwner
<1>1. FenceInv => Fence!OneScopeOwner
  BY DEF FenceInv
<1> QED
  BY <1>1, FenceInvariant, PartsBehave, PTL

\* A host that may work finds no scope left over from an earlier host.
THEOREM NoStaleScopeAfterRecovery == TransportSpec => []AdmissionIsCurrent
<1>1. FenceInv => Fence!AdmissionIsCurrent
  BY DEF FenceInv
<1> QED
  BY <1>1, FenceInvariant, PartsBehave, PTL DEF AdmissionIsCurrent

(***************************************************************************)
(* The result store with several operations                                *)
(***************************************************************************)

\* Only a new reservation, a completion and a release touch entries that are swept
\* already, and none of them touches a terminal result that is still live.
LEMMA StoreStepKeepsResults ==
    ASSUME S!StoreAssumption, S!StoreNext, NEW o \in StoreOps, S!Terminal(o), o \notin storeOverdue
    PROVE  storeEntries'[o] = storeEntries[o]
<1> USE DEF S!StoreAssumption, S!Terminal, S!Live, S!Stored
<1>1. S!Live[o] = storeEntries[o] /\ S!Live[o] \in StoreBodies /\ S!Live[o] \notin {Pending, Absent}
  OBVIOUS
<1>2. ASSUME NEW p \in StoreOps, S!Expire(p) PROVE storeEntries'[o] = storeEntries[o]
  BY <1>2 DEF S!Expire
<1>3. ASSUME NEW p \in StoreOps, S!Admit(p) PROVE storeEntries'[o] = storeEntries[o]
  <2>1. CASE p = o
    <3>1. S!AdmitState(p) = "Admitted"
      BY <1>3 DEF S!Admit
    <3>2. S!AdmitState(p) = "ExistingTerminal"
      BY <1>1, <2>1 DEF S!AdmitState
    <3> QED
      BY <3>1, <3>2
  <2>2. CASE p # o
    BY <1>1, <1>3, <2>2 DEF S!Admit
  <2> QED
    BY <2>1, <2>2
<1>4. ASSUME NEW p \in StoreOps, S!ReleaseInFlight(p) PROVE storeEntries'[o] = storeEntries[o]
  BY <1>1, <1>4 DEF S!ReleaseInFlight
<1>5. ASSUME NEW p \in StoreOps, NEW body \in StoreBodies, S!CompleteStart(p, body)
      PROVE  storeEntries'[o] = storeEntries[o]
  BY <1>1, <1>5 DEF S!CompleteStart
<1>6. ASSUME NEW p \in StoreOps, NEW body \in StoreBodies, S!CompleteFinish(p, body)
      PROVE  storeEntries'[o] = storeEntries[o]
  BY <1>1, <1>6 DEF S!CompleteFinish
<1>7. CASE S!Sweep
  BY <1>1, <1>7 DEF S!Sweep
<1>8. CASE S!ReleaseAllInFlight
  BY <1>1, <1>8 DEF S!ReleaseAllInFlight
<1> QED
  BY <1>2, <1>3, <1>4, <1>5, <1>6, <1>7, <1>8 DEF S!StoreNext

\* A terminal result does not change before it expired, whichever completions,
\* releases and admissions of whatever operations race.
THEOREM TerminalResultsStable == TransportSpec => TerminalIsStable
<1> DEFINE Kept == \A o \in StoreOps :
             S!Terminal(o) /\ o \notin storeOverdue => storeEntries'[o] = storeEntries[o]
<1>1. [S!StoreNext]_(S!storeVars) => [Kept]_(S!storeVars)
  BY TransportAssumption, StoreStepKeepsResults DEF TransportAssumption
<1> QED
  BY <1>1, PartsBehave, PTL DEF S!StoreSpec, TerminalIsStable, S!TerminalIsStable

(***************************************************************************)
(* The edits of a turn, for any number of edits, turns, lost replies, acts *)
(* of a person and native failures.                                        *)
(***************************************************************************)
CallOps == {"none", "probe", "state", "begin", "edit", "boundary", "finish"}
Replies == [ok : BOOLEAN, seg : T!Segments, scope : BOOLEAN]
AllCalls == [op : CallOps, owner : T!Owners, expects : Nat, covered : BOOLEAN, done : BOOLEAN, reply : Replies]
Knowledge == [open : BOOLEAN, owed : BOOLEAN, seg : T!Segments, uncertain : {"no", "late", "gone", "done"}]
Docs == [record : BOOLEAN, scope : BOOLEAN, seg : T!Segments]
Work == {"none", "edit", "boundary"}
Queues == [now : Work, next : Work]
TurnTypes ==
    /\ shared \in BOOLEAN
    /\ accepting \in BOOLEAN
    /\ stage \in 0 .. 5
    /\ todo \subseteq T!Owners
    /\ turnOutcome \in {"none", "ok", "error"}
    /\ known \in [T!Owners -> Knowledge]
    /\ kind \in [T!Owners -> Queues]
    /\ turnCall \in [T!Processes -> AllCalls]
    /\ late \in [T!Owners -> AllCalls]
    /\ documents \in [T!Owners -> Docs]

\* A document records its active segment; only the shared host's fence has scopes, and
\* there nothing is left of a document whose scope was given back.
DocFits(d) ==
    /\ d.seg.state # "none"
    /\ d.seg.state = "active" => d.record /\ d.seg.epoch >= 1
    /\ ~shared => ~d.scope
    /\ shared /\ ~d.scope => ~d.record /\ d.seg.state = "idle"

\* A segment the host saw is the current one of the document or an older one.
Seen(d, s) ==
    /\ s.epoch <= d.seg.epoch
    /\ s.epoch = d.seg.epoch /\ s # T!NoSegment => s = d.seg
    /\ s.state = "active" => s.epoch >= 1

\* What the host does not know of a document, it knows that it does not know.
Knows(k, d, l) ==
    /\ Seen(d, k.seg)
    /\ k.open => k.seg.state = "active"
    /\ d.scope => k.owed \/ k.uncertain # "no"
    /\ d.seg.state = "active" => T!Reconciles(k)
    /\ l.op # "none" => k.uncertain = "late"

\* An edit that needs a transaction names a segment that was active once.
NamesSegment(c, d) ==
    c.op = "edit" /\ c.covered =>
        /\ c.expects >= 1
        /\ c.expects <= d.seg.epoch
        /\ c.expects = d.seg.epoch => d.seg.state = "active"
\* What an answered call tells is true.
Tells(c, k, d) ==
    /\ c.op = "probe" /\ c.reply.ok => k.uncertain = "done"
    /\ c.op # "probe" =>
         /\ Seen(d, c.reply.seg)
         /\ c.reply.seg.state # "none"
         /\ d.scope => c.reply.scope
         /\ d.seg.state = "active" => c.reply.seg.state = "active"
    /\ c.op = "begin" /\ c.reply.ok => c.reply.seg.state = "active"
    /\ c.op = "finish" /\ c.reply.ok => d.seg.state # "active" /\ ~d.scope
\* A transaction is begun on account, and nothing is changed while an earlier change is
\* uncertain.
CallFits(c, k, d) ==
    /\ NamesSegment(c, d)
    /\ c.op = "begin" => k.owed
    /\ c.op \in T!Mutations => k.uncertain = "no"
    /\ c.op = "state" => k.uncertain \in {"no", "done"}
    /\ c.done => Tells(c, k, d)

\* Each owner has one call in flight: its worker's, or the end of the turn's.
WorkerFits(o) ==
    /\ turnCall[o].op # "none" => turnCall[o].owner = o /\ turnCall[o].op # "finish"
    /\ turnCall[o].op # "none" => CallFits(turnCall[o], known[o], documents[o])
    /\ turnCall[o].done => turnCall[o].op # "none"
FinishFits ==
    LET c == turnCall["finish"] IN
    /\ c.done => c.op # "none"
    /\ c.op # "none" =>
         /\ stage \in {1, 2, 4, 5}
         /\ c.owner = T!Stages[stage][2]
         /\ c.op \in {"probe", "state", "finish"}
         /\ c.op = "finish" => stage \in {4, 5}
         /\ CallFits(c, known[c.owner], documents[c.owner])
LateFits(o) ==
    late[o].op # "none" => late[o].owner = o /\ NamesSegment(late[o], documents[o])

\* The end of a turn waits for the edits and has the owners to itself.
TurnsEndAlone ==
    /\ stage >= 2 \/ turnCall["finish"].op # "none" => \A o \in T!Owners : turnCall[o].op = "none"
    /\ turnOutcome # "none" => stage = 0 /\ T!Idle

\* What is known of an owner that was reconciled: it is certain, and it will be closed if
\* there is something to close.
Certain(o) ==
    /\ known[o].uncertain = "no"
    /\ stage <= 3 /\ documents[o].seg.state = "active" => known[o].open
    /\ stage >= 4 /\ (documents[o].seg.state = "active" \/ documents[o].scope) => o \in todo
ClosedFor(o) == documents[o].seg.state # "active" /\ ~documents[o].scope /\ late[o].op = "none"
StagesFit ==
    /\ stage >= 2 => Certain("grasshopper")
    /\ stage >= 3 => Certain("rhino")
    /\ stage = 5 => ClosedFor("grasshopper")
    /\ turnOutcome = "ok" => ClosedFor("grasshopper") /\ ClosedFor("rhino")

TurnInv ==
    /\ TurnTypes
    /\ ~unrecorded
    /\ \A o \in T!Owners : DocFits(documents[o]) /\ Knows(known[o], documents[o], late[o]) /\ WorkerFits(o) /\ LateFits(o)
    /\ FinishFits
    /\ TurnsEndAlone
    /\ StagesFit

\* A call is a call.
LEMMA CallTypes ==
    /\ \A op \in CallOps, o \in T!Owners, e \in Nat, c \in BOOLEAN : T!Call(op, o, e, c) \in AllCalls
    /\ T!NoCall \in AllCalls /\ T!NoSegment \in T!Segments /\ T!NoReply \in Replies
<1>1. T!NoSegment \in T!Segments
  BY DEF T!NoSegment, T!Segments
<1>2. T!NoReply \in Replies
  BY <1>1 DEF T!NoReply, Replies
<1>3. ASSUME NEW op \in CallOps, NEW o \in T!Owners, NEW e \in Nat, NEW c \in BOOLEAN
      PROVE  T!Call(op, o, e, c) \in AllCalls
  BY <1>2 DEF T!Call, AllCalls
<1>4. T!NoCall \in AllCalls
  BY <1>3 DEF T!NoCall, CallOps, T!Owners
<1> QED
  BY <1>1, <1>2, <1>3, <1>4

\* What an executed call does to a document: it stays, or its segment is replaced by a
\* later one; only a begin opens a segment or takes a scope; a finish that completed
\* leaves neither.
LEMMA EffectFacts ==
    ASSUME NEW c \in AllCalls, NEW d \in Docs, shared \in BOOLEAN, DocFits(d),
           NEW e \in T!Effects(c, d)
    PROVE  /\ e.doc \in Docs /\ e.ok \in BOOLEAN /\ e.fails \in BOOLEAN
           /\ DocFits(e.doc)
           /\ e.doc.seg = d.seg \/ e.doc.seg.epoch = d.seg.epoch + 1
           /\ e.doc.seg.state = "active" => e.doc.seg = d.seg \/ c.op = "begin"
           /\ e.doc.scope => d.scope \/ c.op = "begin"
           /\ c.op = "begin" /\ e.ok => e.doc.seg.state = "active"
           /\ c.op = "finish" /\ e.ok => e.doc.seg.state # "active" /\ ~e.doc.scope
           /\ c.op = "edit" => e.doc = d
           /\ c.op = "edit" /\ e.ok /\ c.expects # 0 => c.expects = d.seg.epoch
<1> USE DEF T!Effect
<1>0. d.seg \in T!Segments /\ d.seg.epoch \in Nat /\ d.record \in BOOLEAN /\ d.scope \in BOOLEAN
  BY DEF Docs, T!Segments
<1>1. ASSUME NEW r \in BOOLEAN, NEW s \in BOOLEAN, NEW st \in {"active", "idle", "abandoned"}
      PROVE  /\ T!Advance(d, r, s, st) \in Docs
             /\ T!Advance(d, r, s, st).record = r /\ T!Advance(d, r, s, st).scope = s
             /\ T!Advance(d, r, s, st).seg.state = st
             /\ T!Advance(d, r, s, st).seg.epoch = d.seg.epoch + 1
  <2>1. T!Segment(d, st) \in T!Segments /\ T!Segment(d, st).state = st /\ T!Segment(d, st).epoch = d.seg.epoch + 1
    BY <1>0 DEF T!Segment, T!Segments
  <2> QED
    BY <2>1 DEF T!Advance, Docs
<1>2. CASE T!Refused(c, d)
  <2>1. e = [doc |-> d, ok |-> FALSE, fails |-> FALSE]
    BY <1>2 DEF T!Effects
  <2> QED
    BY <2>1, <1>0
<1>3. CASE ~T!Refused(c, d) /\ c.op = "begin"
  <2>1. e \in T!BeginEffects(d)
    BY <1>3 DEF T!Effects
  <2>2. CASE e = T!Effect(T!Advance(d, TRUE, shared, "active"), TRUE, FALSE)
    <3> DEFINE f == T!Advance(d, TRUE, shared, "active")
    <3>1. e.doc = f /\ e.ok = TRUE /\ e.fails = FALSE
      BY <2>2
    <3>2. /\ f \in Docs /\ f.record = TRUE /\ f.scope = shared
          /\ f.seg.state = "active" /\ f.seg.epoch = d.seg.epoch + 1
      BY <1>1
    <3> HIDE DEF f
    <3>3. DocFits(f)
      <4>1. CASE shared
        BY <4>1, <3>2, <1>0 DEF DocFits
      <4>2. CASE ~shared
        BY <4>2, <3>2, <1>0 DEF DocFits
      <4> QED
        BY <4>1, <4>2
    <3> QED
      BY <1>3, <3>1, <3>2, <3>3
  <2>3. CASE e = T!Effect([d EXCEPT !.scope = shared], FALSE, TRUE)
    <3> DEFINE f == [d EXCEPT !.scope = shared]
    <3>1. f \in Docs /\ f.seg = d.seg /\ f.record = d.record /\ f.scope = shared
      BY DEF Docs
    <3>2. e.doc = f /\ e.ok = FALSE /\ e.fails = TRUE
      BY <2>3
    <3> HIDE DEF f
    <3> QED
      BY <1>3, <3>1, <3>2, <1>0 DEF DocFits
  <2> QED
    BY <2>1, <2>2, <2>3 DEF T!BeginEffects
<1>4. CASE ~T!Refused(c, d) /\ c.op = "finish"
  <2>1. e \in T!FinishEffects(c.owner, d)
    BY <1>4 DEF T!Effects
  <2>2. CASE e = T!Effect(d, FALSE, FALSE)
    BY <1>4, <2>2, <1>0
  <2>3. CASE e = T!Effect(T!Advance(d, FALSE, FALSE, "idle"), TRUE, FALSE)
    BY <1>4, <2>3, <1>1, <1>0 DEF DocFits
  <2>4. CASE e = T!Effect(d, FALSE, TRUE)
    BY <1>4, <2>4, <1>0
  <2>5. CASE e = T!Effect(T!Advance(d, FALSE, d.scope, "idle"), FALSE, TRUE)
    BY <1>4, <2>5, <1>1, <1>0 DEF DocFits
  <2>6. \/ e = T!Effect(d, FALSE, FALSE) \/ e = T!Effect(T!Advance(d, FALSE, FALSE, "idle"), TRUE, FALSE)
        \/ e = T!Effect(d, FALSE, TRUE) \/ e = T!Effect(T!Advance(d, FALSE, d.scope, "idle"), FALSE, TRUE)
    <3>1. CASE shared /\ ~d.scope
      BY <2>1, <3>1 DEF T!FinishEffects
    <3>2. CASE ~(shared /\ ~d.scope) /\ c.owner = "rhino"
      BY <2>1, <3>2 DEF T!FinishEffects
    <3>3. CASE ~(shared /\ ~d.scope) /\ c.owner # "rhino"
      BY <2>1, <3>3 DEF T!FinishEffects
    <3> QED
      BY <3>1, <3>2, <3>3
  <2> QED
    BY <2>6, <2>2, <2>3, <2>4, <2>5
<1>5. CASE ~T!Refused(c, d) /\ c.op = "boundary"
  <2>1. e \in T!BoundaryEffects(d)
    BY <1>5 DEF T!Effects
  <2>2. CASE e = T!Effect(T!Advance(d, FALSE, FALSE, "idle"), TRUE, FALSE)
    BY <1>5, <2>2, <1>1, <1>0 DEF DocFits
  <2>3. CASE e = T!Effect(d, TRUE, TRUE)
    BY <1>5, <2>3, <1>0
  <2> QED
    BY <2>1, <2>2, <2>3 DEF T!BoundaryEffects
<1>6. CASE ~T!Refused(c, d) /\ c.op \notin {"begin", "finish", "boundary"}
  <2>1. e = [doc |-> d, ok |-> TRUE, fails |-> FALSE]
    BY <1>6 DEF T!Effects
  <2>2. c.expects # 0 => c.expects = d.seg.epoch
    BY <1>6 DEF T!Refused
  <2> QED
    BY <2>1, <2>2, <1>6, <1>0
<1> QED
  BY <1>2, <1>3, <1>4, <1>5, <1>6

\* A later document makes no segment that was seen current.
LEMMA SeenLater ==
    ASSUME NEW d \in Docs, NEW f \in Docs, NEW s \in T!Segments,
           f.seg = d.seg \/ f.seg.epoch = d.seg.epoch + 1,
           Seen(d, s)
    PROVE  Seen(f, s)
<1>0. d.seg.epoch \in Nat /\ f.seg.epoch \in Nat /\ s.epoch \in Nat
  BY DEF Docs, T!Segments
<1> QED
  BY <1>0 DEF Seen

\* The same for the segment an edit names.
LEMMA NamedLater ==
    ASSUME NEW d \in Docs, NEW f \in Docs, NEW c \in AllCalls,
           f.seg = d.seg \/ f.seg.epoch = d.seg.epoch + 1,
           NamesSegment(c, d)
    PROVE  NamesSegment(c, f)
<1>0. d.seg.epoch \in Nat /\ f.seg.epoch \in Nat /\ c.expects \in Nat
  BY DEF Docs, T!Segments, AllCalls
<1> QED
  BY <1>0 DEF NamesSegment

\* Nothing a document does without a begin makes the host wrong.
LEMMA KnowsLater ==
    ASSUME NEW d \in Docs, NEW f \in Docs, NEW k \in Knowledge, NEW l \in AllCalls,
           f.seg = d.seg \/ f.seg.epoch = d.seg.epoch + 1,
           f.seg.state = "active" => f.seg = d.seg \/ k.owed,
           f.scope => d.scope \/ k.owed,
           Knows(k, d, l)
    PROVE  Knows(k, f, l)
<1>1. k.seg \in T!Segments
  BY DEF Knowledge
<1>2. Seen(f, k.seg)
  BY <1>1, SeenLater DEF Knows
<1> QED
  BY <1>2 DEF Knows, T!Reconciles

\* The calls an owner's worker sends next fit what the host knows.
LEMMA DispatchFits ==
    ASSUME NEW o \in T!Owners, NEW k \in Knowledge, NEW d \in Docs, NEW l \in AllCalls,
           NEW what \in Work, accepting \in BOOLEAN,
           Knows(k, d, l), k.uncertain = "no"
    PROVE  LET c == T!Dispatch(o, k, what) IN
           /\ c \in AllCalls /\ c.op \in {"begin", "edit", "boundary"} /\ c.owner = o /\ ~c.done
           /\ T!Owes(k, c) \in Knowledge
           /\ Knows(T!Owes(k, c), d, l)
           /\ CallFits(c, T!Owes(k, c), d)
<1> USE CallTypes
<1>0. k.seg.epoch \in Nat /\ T!Expected(k) \in Nat /\ k.open \in BOOLEAN
  BY DEF Knowledge, T!Segments, T!Expected
<1>1. CASE what = "boundary"
  <2> DEFINE c == T!Call("boundary", o, 0, FALSE)
  <2>1. T!Dispatch(o, k, what) = c
    BY <1>1 DEF T!Dispatch
  <2>2. c \in AllCalls /\ c.op = "boundary" /\ c.owner = o /\ ~c.done
    BY DEF T!Call, CallOps
  <2> HIDE DEF c
  <2>3. T!Owes(k, c) = k
    BY <2>2 DEF T!Owes
  <2> QED
    BY <2>1, <2>2, <2>3 DEF CallFits, NamesSegment, T!Mutations
<1>2. CASE what # "boundary" /\ accepting /\ ~k.open
  <2> DEFINE c == T!Call("begin", o, T!Expected(k), TRUE)
  <2>1. T!Dispatch(o, k, what) = c
    BY <1>2 DEF T!Dispatch
  <2>2. c \in AllCalls /\ c.op = "begin" /\ c.owner = o /\ ~c.done
    BY <1>0 DEF T!Call, CallOps
  <2> DEFINE h == [k EXCEPT !.owed = TRUE]
  <2>3. T!Owes(k, c) = h
    BY <2>2 DEF T!Owes
  <2>4. h \in Knowledge /\ h.owed /\ h.seg = k.seg /\ h.uncertain = k.uncertain /\ h.open = k.open
    BY DEF Knowledge
  <2> HIDE DEF c, h
  <2>5. Knows(h, d, l)
    BY <2>4 DEF Knows, T!Reconciles
  <2>6. CallFits(c, h, d)
    BY <2>2, <2>4 DEF CallFits, NamesSegment, T!Mutations
  <2> QED
    BY <2>1, <2>2, <2>3, <2>4, <2>5, <2>6
<1>3. CASE what # "boundary" /\ ~(accepting /\ ~k.open)
  <2> DEFINE c == T!Call("edit", o, T!Expected(k), accepting)
  <2>1. T!Dispatch(o, k, what) = c
    BY <1>3 DEF T!Dispatch, T!Edit
  <2>2. c \in AllCalls /\ c.op = "edit" /\ c.owner = o /\ ~c.done /\ c.expects = T!Expected(k) /\ c.covered = accepting
    BY <1>0 DEF T!Call, CallOps
  <2>3. T!Owes(k, c) = k
    BY <2>2 DEF T!Owes
  <2> HIDE DEF c
  <2>4. NamesSegment(c, d)
    <3> SUFFICES ASSUME accepting
                 PROVE  NamesSegment(c, d)
      BY <2>2 DEF NamesSegment
    <3>1. k.open
      BY <1>3
    <3>2. k.seg.state = "active" /\ Seen(d, k.seg)
      BY <3>1 DEF Knows
    <3>3. k.seg # T!NoSegment
      BY <3>2 DEF T!NoSegment
    <3> QED
      BY <2>2, <3>2, <3>3 DEF NamesSegment, Seen, T!Expected
  <2> QED
    BY <2>1, <2>2, <2>3, <2>4 DEF CallFits, T!Mutations
<1> QED
  BY <1>1, <1>2, <1>3

\* The same for the first call of an edit.
LEMMA FirstCallFits ==
    ASSUME NEW o \in T!Owners, NEW k \in Knowledge, NEW d \in Docs, NEW l \in AllCalls,
           NEW what \in Work, accepting \in BOOLEAN,
           Knows(k, d, l)
    PROVE  LET c == T!FirstCall(o, k, what) IN
           /\ c \in AllCalls /\ c.op \notin {"none", "finish"} /\ c.owner = o /\ ~c.done
           /\ T!Owes(k, c) \in Knowledge
           /\ Knows(T!Owes(k, c), d, l)
           /\ CallFits(c, T!Owes(k, c), d)
<1>1. CASE T!Reconciles(k)
  <2> DEFINE c == T!Call(IF k.uncertain # "no" THEN "probe" ELSE "state", o, 0, FALSE)
  <2>1. T!FirstCall(o, k, what) = c
    BY <1>1 DEF T!FirstCall, T!Reconcile
  <2>2. /\ c \in AllCalls /\ c.op \in {"probe", "state"} /\ c.owner = o /\ ~c.done
        /\ c.op = "state" => k.uncertain = "no"
    BY CallTypes DEF T!Call, CallOps
  <2> HIDE DEF c
  <2>3. T!Owes(k, c) = k
    BY <2>2 DEF T!Owes
  <2> QED
    BY <2>1, <2>2, <2>3 DEF CallFits, NamesSegment, T!Mutations
<1>2. CASE ~T!Reconciles(k)
  <2>1. k.uncertain = "no"
    BY <1>2 DEF T!Reconciles
  <2>2. T!FirstCall(o, k, what) = T!Dispatch(o, k, what)
    BY <1>2 DEF T!FirstCall
  <2> QED
    BY <2>1, <2>2, DispatchFits
<1> QED
  BY <1>1, <1>2

\* What a document answered to a query, a begin or an edit is what the host now knows.
LEMMA ObserveFits ==
    ASSUME NEW k \in Knowledge, NEW d \in Docs, NEW l \in AllCalls, NEW c \in AllCalls,
           shared \in BOOLEAN, DocFits(d), Knows(k, d, l), Tells(c, k, d), c.op # "probe",
           k.uncertain \in {"no", "done"}
    PROVE  LET h == [T!Observe(k, c.reply) EXCEPT !.uncertain = "no"] IN
           /\ h \in Knowledge /\ h.uncertain = "no" /\ h.seg = c.reply.seg
           /\ h.open = (c.reply.seg.state = "active")
           /\ shared => h.owed = c.reply.scope
           /\ Knows(h, d, l)
           /\ l.op = "none"
<1>0. c.reply \in Replies /\ c.reply.seg \in T!Segments /\ c.reply.scope \in BOOLEAN
  BY DEF AllCalls, Replies
<1> DEFINE g == T!Observe(k, c.reply)
           h == [g EXCEPT !.uncertain = "no"]
<1>1. /\ g \in Knowledge /\ g.seg = c.reply.seg /\ g.open = (c.reply.seg.state = "active")
      /\ shared => g.owed = c.reply.scope
  BY <1>0 DEF T!Observe, Knowledge
<1>2. /\ h \in Knowledge /\ h.uncertain = "no" /\ h.seg = g.seg /\ h.open = g.open /\ h.owed = g.owed
  <2> HIDE DEF g
  <2> QED
    BY <1>1 DEF Knowledge
<1> HIDE DEF g, h
<1>3. l.op = "none"
  BY DEF Knows
<1>4. h.seg # T!NoSegment
  BY <1>1, <1>2 DEF Tells, T!NoSegment
<1>5. Knows(h, d, l)
  <2>1. Seen(d, h.seg)
    BY <1>1, <1>2 DEF Tells
  <2>2. h.open => h.seg.state = "active"
    BY <1>1, <1>2
  <2>3. d.scope => h.owed
    BY <1>1, <1>2 DEF Tells, DocFits
  <2>4. T!Reconciles(h)
    BY <1>4 DEF T!Reconciles
  <2> QED
    BY <1>3, <2>1, <2>2, <2>3, <2>4 DEF Knows
<1> QED
  BY <1>1, <1>2, <1>3, <1>5 DEF g, h

\* What a call in flight knows of its owner; no other call has the same one.
LEMMA OneCall ==
    ASSUME TurnInv, NEW p \in T!Processes, turnCall[p].op # "none"
    PROVE  /\ turnCall[p].owner \in T!Owners /\ turnCall[p] \in AllCalls
           /\ CallFits(turnCall[p], known[turnCall[p].owner], documents[turnCall[p].owner])
           /\ \A q \in T!Owners : q # p /\ turnCall[q].op # "none" => turnCall[q].owner # turnCall[p].owner
           /\ p # "finish" => p \in T!Owners /\ turnCall[p].owner = p /\ turnCall["finish"].op = "none"
           /\ p = "finish" => \A o \in T!Owners : turnCall[o].op = "none"
           /\ turnOutcome = "none"
<1>1. turnCall[p] \in AllCalls /\ turnCall[p].owner \in T!Owners
  BY DEF TurnInv, TurnTypes, AllCalls
<1>2. turnOutcome = "none"
  BY DEF TurnInv, TurnsEndAlone, T!Idle
<1>3. CASE p = "finish"
  <2>1. \A o \in T!Owners : turnCall[o].op = "none"
    BY <1>3 DEF TurnInv, TurnsEndAlone
  <2>2. CallFits(turnCall[p], known[turnCall[p].owner], documents[turnCall[p].owner])
    BY <1>3 DEF TurnInv, FinishFits
  <2> QED
    BY <1>1, <1>2, <1>3, <2>1, <2>2
<1>4. CASE p # "finish"
  <2>1. p \in T!Owners
    BY <1>4 DEF T!Processes
  <2>2. turnCall["finish"].op = "none"
    BY <2>1 DEF TurnInv, TurnsEndAlone
  <2>3. turnCall[p].owner = p /\ CallFits(turnCall[p], known[p], documents[p])
    BY <2>1 DEF TurnInv, WorkerFits
  <2>4. \A q \in T!Owners : turnCall[q].op # "none" => turnCall[q].owner = q
    BY DEF TurnInv, WorkerFits
  <2> QED
    BY <1>1, <1>2, <1>4, <2>1, <2>2, <2>3, <2>4
<1> QED
  BY <1>3, <1>4

\* An executed call tells what it left.
LEMMA ReplyTells ==
    ASSUME NEW c \in AllCalls, NEW k \in Knowledge, NEW d \in Docs, shared \in BOOLEAN, DocFits(d),
           NEW e \in T!Effects(c, d), CallFits(c, k, d), c.op # "probe", c.op # "none"
    PROVE  LET a == [c EXCEPT !.done = TRUE,
                       !.reply = [ok |-> e.ok, seg |-> e.doc.seg, scope |-> e.doc.scope]] IN
           /\ a \in AllCalls /\ a.op = c.op /\ a.owner = c.owner
           /\ CallFits(a, k, e.doc)
<1> DEFINE r == [ok |-> e.ok, seg |-> e.doc.seg, scope |-> e.doc.scope]
           a == [c EXCEPT !.done = TRUE, !.reply = r]
<1>1. /\ e.doc \in Docs /\ e.ok \in BOOLEAN /\ DocFits(e.doc)
      /\ e.doc.seg = d.seg \/ e.doc.seg.epoch = d.seg.epoch + 1
      /\ c.op = "begin" /\ e.ok => e.doc.seg.state = "active"
      /\ c.op = "finish" /\ e.ok => e.doc.seg.state # "active" /\ ~e.doc.scope
  BY EffectFacts
<1>2. r \in Replies /\ r.ok = e.ok /\ r.seg = e.doc.seg /\ r.scope = e.doc.scope
  BY <1>1 DEF Replies, Docs
<1> HIDE DEF r
<1>3. /\ a \in AllCalls /\ a.op = c.op /\ a.owner = c.owner /\ a.covered = c.covered
      /\ a.expects = c.expects /\ a.reply = r
  BY <1>2 DEF AllCalls
<1> HIDE DEF a
<1>4. NamesSegment(a, e.doc)
  <2>1. NamesSegment(c, e.doc)
    BY <1>1, NamedLater DEF CallFits
  <2> QED
    BY <2>1, <1>3 DEF NamesSegment
<1>5. Seen(e.doc, e.doc.seg)
  BY <1>1 DEF Seen, DocFits, Docs, T!Segments
<1>6. e.doc.seg.state # "none"
  BY <1>1 DEF DocFits
<1>7. Tells(a, k, e.doc)
  BY <1>1, <1>2, <1>3, <1>5, <1>6 DEF Tells
<1>8. CallFits(a, k, e.doc)
  BY <1>3, <1>4, <1>7 DEF CallFits
<1> QED
  BY <1>3, <1>8 DEF a, r

\* The initial states satisfy the invariant.
LEMMA TurnStarts == T!Init => TurnInv
<1> SUFFICES ASSUME T!Init PROVE TurnInv
  OBVIOUS
<1> USE DEF T!Init
<1>1. TurnTypes
  <2>1. known \in [T!Owners -> Knowledge]
    BY CallTypes DEF Knowledge
  <2>2. documents \in [T!Owners -> Docs]
    BY DEF Docs, T!Segments
  <2>3. kind \in [T!Owners -> Queues]
    BY DEF Queues, Work
  <2>4. turnCall \in [T!Processes -> AllCalls] /\ late \in [T!Owners -> AllCalls]
    BY CallTypes
  <2>5. shared \in BOOLEAN /\ accepting \in BOOLEAN
    OBVIOUS
  <2>7. stage \in 0 .. 5
    OBVIOUS
  <2>6. todo \subseteq T!Owners /\ turnOutcome \in {"none", "ok", "error"}
    OBVIOUS
  <2> HIDE DEF T!Init
  <2> QED
    BY <2>1, <2>2, <2>3, <2>4, <2>5, <2>6, <2>7 DEF TurnTypes
<1>2. \A p \in T!Processes : turnCall[p].op = "none" /\ ~turnCall[p].done
  BY DEF T!NoCall, T!Call
<1>3. \A o \in T!Owners : late[o].op = "none"
  BY DEF T!NoCall, T!Call
<1>4. ASSUME NEW o \in T!Owners
      PROVE  DocFits(documents[o]) /\ Knows(known[o], documents[o], late[o]) /\ WorkerFits(o) /\ LateFits(o)
  <2>1. /\ documents[o].seg.state = "idle" /\ documents[o].seg.epoch = 0 /\ ~documents[o].scope /\ ~documents[o].record
        /\ documents[o].seg = [state |-> "idle", epoch |-> 0]
        /\ known[o].seg = T!NoSegment /\ ~known[o].open /\ ~known[o].owed /\ known[o].uncertain = "no"
    OBVIOUS
  <2>2. DocFits(documents[o])
    BY <2>1 DEF DocFits
  <2>3. Knows(known[o], documents[o], late[o])
    BY <2>1, <1>3 DEF Knows, Seen, T!NoSegment
  <2> QED
    BY <2>2, <2>3, <1>2, <1>3 DEF WorkerFits, LateFits, T!Processes
<1>5. FinishFits /\ TurnsEndAlone
  BY <1>2 DEF FinishFits, TurnsEndAlone, T!Idle, T!Processes
<1>6. StagesFit
  BY <1>3 DEF StagesFit, ClosedFor, T!Owners
<1> QED
  BY <1>1, <1>4, <1>5, <1>6 DEF TurnInv

\* A call the UI thread executes.
LEMMA ExecuteKeeps ==
    ASSUME TurnInv, NEW p \in T!Processes, T!Execute(p) PROVE TurnInv'
<1> DEFINE c == turnCall[p]
           o == c.owner
           d == documents[o]
<1>0. c.op \in T!Mutations \cup {"state"} /\ c.op # "none" /\ c.op # "probe"
  BY DEF T!Execute, T!Mutations
<1>1. /\ o \in T!Owners /\ c \in AllCalls /\ CallFits(c, known[o], d)
      /\ \A q \in T!Owners : q # p /\ turnCall[q].op # "none" => turnCall[q].owner # o
      /\ p # "finish" => p \in T!Owners /\ o = p /\ turnCall["finish"].op = "none"
      /\ p = "finish" => \A w \in T!Owners : turnCall[w].op = "none"
      /\ turnOutcome = "none"
  BY <1>0, OneCall
<1>2. TurnTypes /\ d \in Docs /\ known[o] \in Knowledge /\ shared \in BOOLEAN
  BY <1>1 DEF TurnInv, TurnTypes
<1>3. DocFits(d) /\ Knows(known[o], d, late[o])
  BY <1>1 DEF TurnInv
<1>4. PICK e \in T!Effects(c, d) :
        /\ T!Run(c, e)
        /\ turnCall' = [turnCall EXCEPT ![p] = [c EXCEPT !.done = TRUE,
                      !.reply = [ok |-> e.ok, seg |-> e.doc.seg, scope |-> e.doc.scope]]]
  BY DEF T!Execute
<1> DEFINE f == e.doc
           a == [c EXCEPT !.done = TRUE, !.reply = [ok |-> e.ok, seg |-> e.doc.seg, scope |-> e.doc.scope]]
<1>5. /\ shared' = shared /\ accepting' = accepting /\ stage' = stage /\ todo' = todo /\ turnOutcome' = turnOutcome
      /\ known' = known /\ kind' = kind /\ late' = late
  BY DEF T!Execute
<1>6. /\ f \in Docs /\ e.ok \in BOOLEAN /\ DocFits(f)
      /\ f.seg = d.seg \/ f.seg.epoch = d.seg.epoch + 1
      /\ f.seg.state = "active" => f.seg = d.seg \/ c.op = "begin"
      /\ f.scope => d.scope \/ c.op = "begin"
      /\ c.op = "edit" => f = d
      /\ c.op = "edit" /\ e.ok /\ c.expects # 0 => c.expects = d.seg.epoch
  BY <1>1, <1>2, <1>3, EffectFacts
<1>7. a \in AllCalls /\ a.op = c.op /\ a.owner = o /\ CallFits(a, known[o], f)
  BY <1>0, <1>1, <1>2, <1>3, ReplyTells
<1>8. documents' = [documents EXCEPT ![o] = f] /\ turnCall' = [turnCall EXCEPT ![p] = a]
  BY <1>4 DEF T!Run
<1>9. ~unrecorded'
  <2>1. c.op = "edit" /\ c.covered /\ e.ok => documents[o].record
    BY <1>1, <1>3, <1>6 DEF CallFits, NamesSegment, DocFits, AllCalls
  <2> QED
    BY <1>4, <2>1 DEF T!Run, TurnInv
<1> HIDE DEF a, f
<1>10. documents'[o] = f /\ turnCall'[p] = a /\ (\A w \in T!Owners : w # o => documents'[w] = documents[w])
  BY <1>1, <1>2, <1>8 DEF TurnTypes
<1>11. \A q \in T!Processes : turnCall'[q].op = turnCall[q].op /\ (q # p => turnCall'[q] = turnCall[q])
  BY <1>7, <1>8, <1>10 DEF TurnInv, TurnTypes
<1>12. TurnTypes'
  BY <1>2, <1>5, <1>6, <1>7, <1>8, <1>9 DEF TurnTypes
<1> HIDE DEF o, c, d
<1>13. ASSUME NEW w \in T!Owners
       PROVE  (DocFits(documents[w]) /\ Knows(known[w], documents[w], late[w]) /\ WorkerFits(w) /\ LateFits(w))'
  <2>0. DocFits(documents[w]) /\ Knows(known[w], documents[w], late[w]) /\ WorkerFits(w) /\ LateFits(w)
    BY DEF TurnInv
  <2>1. late[w] \in AllCalls /\ w \in T!Processes
    BY <1>2 DEF TurnTypes, T!Processes
  <2>2. CASE w = o
    <3>1. DocFits(documents[w])'
      BY <2>2, <1>5, <1>6, <1>10 DEF DocFits
    <3>2. Knows(known[w], f, late[w])
      BY <2>0, <2>1, <2>2, <1>1, <1>2, <1>6, KnowsLater DEF CallFits, d
    <3>3. late[w].op # "none" => NamesSegment(late[w], f)
      BY <2>0, <2>1, <2>2, <1>2, <1>6, NamedLater DEF LateFits, d
    <3>4. WorkerFits(w)'
      <4>1. CASE p = w
        BY <4>1, <2>0, <2>2, <1>0, <1>5, <1>7, <1>10 DEF WorkerFits, c
      <4>2. CASE p # w
        <5>1. turnCall[w].op = "none"
          BY <4>2, <2>0, <2>2, <1>1 DEF WorkerFits
        <5> QED
          BY <4>2, <5>1, <2>0, <2>1, <1>11 DEF WorkerFits
      <4> QED
        BY <4>1, <4>2
    <3> QED
      BY <2>2, <3>1, <3>2, <3>3, <3>4, <2>0, <1>5, <1>10 DEF LateFits
  <2>3. CASE w # o
    <3>1. documents'[w] = documents[w]
      BY <2>3, <1>10
    <3>2. turnCall'[w] = turnCall[w]
      BY <2>3, <2>1, <1>1, <1>11 DEF T!Owners
    <3> QED
      BY <2>0, <2>1, <3>1, <3>2, <1>5, <1>11 DEF DocFits, WorkerFits, LateFits
  <2> QED
    BY <2>2, <2>3
<1>14. FinishFits'
  <2>1. CASE p = "finish"
    BY <2>1, <1>0, <1>1, <1>5, <1>7, <1>10 DEF TurnInv, FinishFits, c, o
  <2>2. CASE p # "finish"
    BY <2>2, <1>1, <1>11 DEF TurnInv, FinishFits, T!Processes
  <2> QED
    BY <2>1, <2>2
<1>15. TurnsEndAlone'
  BY <1>1, <1>5, <1>11 DEF TurnInv, TurnsEndAlone, T!Processes
<1>16. StagesFit'
  <2>1. stage >= 2 => c.op # "begin"
    BY <1>0, <1>1 DEF TurnInv, TurnsEndAlone, FinishFits, c
  <2>2. ASSUME NEW w \in T!Owners, stage >= 2
        PROVE  /\ documents'[w].seg.state = "active" => documents[w].seg.state = "active"
               /\ documents'[w].scope => documents[w].scope
    BY <2>1, <2>2, <1>6, <1>10 DEF d
  <2>3. ASSUME NEW w \in T!Owners, stage >= 2, Certain(w) PROVE Certain(w)'
    BY <2>2, <2>3, <1>5 DEF Certain
  <2>4. ASSUME NEW w \in T!Owners, stage >= 2, ClosedFor(w) PROVE ClosedFor(w)'
    BY <2>2, <2>4, <1>5 DEF ClosedFor
  <2> QED
    BY <2>3, <2>4, <1>1, <1>2, <1>5 DEF TurnInv, StagesFit, T!Owners, TurnTypes
<1> QED
  BY <1>9, <1>12, <1>13, <1>14, <1>15, <1>16 DEF TurnInv

\* A request that was given up is executed after all.
LEMMA ExecuteLateKeeps ==
    ASSUME TurnInv, NEW o \in T!Owners, T!ExecuteLate(o) PROVE TurnInv'
<1> DEFINE c == late[o]
           d == documents[o]
<1>1. TurnTypes /\ d \in Docs /\ known[o] \in Knowledge /\ c \in AllCalls /\ shared \in BOOLEAN
  BY DEF TurnInv, TurnTypes
<1>2. /\ c.op # "none" /\ c.owner = o /\ NamesSegment(c, d) /\ DocFits(d) /\ Knows(known[o], d, c)
      /\ known[o].uncertain = "late"
  BY DEF T!ExecuteLate, TurnInv, LateFits, Knows
<1>3. PICK e \in T!Effects(c, d) : T!Run(c, e)
  BY DEF T!ExecuteLate
<1> DEFINE f == e.doc
           k == [known[o] EXCEPT !.uncertain = "done"]
<1>4. /\ shared' = shared /\ accepting' = accepting /\ stage' = stage /\ todo' = todo /\ turnOutcome' = turnOutcome
      /\ kind' = kind /\ turnCall' = turnCall
      /\ late' = [late EXCEPT ![o] = T!NoCall] /\ known' = [known EXCEPT ![o] = k]
  BY DEF T!ExecuteLate
<1>5. /\ f \in Docs /\ e.ok \in BOOLEAN /\ DocFits(f)
      /\ f.seg = d.seg \/ f.seg.epoch = d.seg.epoch + 1
      /\ f.seg.state = "active" => f.seg = d.seg \/ c.op = "begin"
      /\ c.op = "edit" => f = d
      /\ c.op = "edit" /\ e.ok /\ c.expects # 0 => c.expects = d.seg.epoch
  BY <1>1, <1>2, EffectFacts
<1>6. documents' = [documents EXCEPT ![o] = f]
  BY <1>2, <1>3 DEF T!Run
<1>7. ~unrecorded'
  <2>1. c.op = "edit" /\ c.covered /\ e.ok => documents[o].record
    BY <1>1, <1>2, <1>5 DEF NamesSegment, DocFits, AllCalls
  <2> QED
    BY <1>2, <1>3, <2>1 DEF T!Run, TurnInv
<1>8. /\ k \in Knowledge /\ k.uncertain = "done" /\ k.seg = known[o].seg /\ k.open = known[o].open
      /\ k.owed = known[o].owed
  BY <1>1 DEF Knowledge
<1> HIDE DEF c, d, f, k
<1>9. documents'[o] = f /\ known'[o] = k /\ late'[o] = T!NoCall
  BY <1>1, <1>4, <1>6 DEF TurnTypes
<1>10. \A w \in T!Owners : w # o => documents'[w] = documents[w] /\ known'[w] = known[w] /\ late'[w] = late[w]
  BY <1>1, <1>4, <1>6 DEF TurnTypes
<1>11. TurnTypes'
  BY <1>1, <1>4, <1>5, <1>6, <1>8, CallTypes DEF TurnTypes
<1>12. Knows(k, f, T!NoCall)
  <2>1. Seen(f, k.seg)
    BY <1>1, <1>2, <1>5, <1>8, SeenLater DEF Knows, Knowledge, d
  <2> QED
    BY <2>1, <1>2, <1>8 DEF Knows, T!Reconciles, T!NoCall, T!Call
<1>13. ASSUME NEW x \in AllCalls, x.op # "none", CallFits(x, known[o], d)
       PROVE  CallFits(x, k, f)
  <2>1. x.op \notin T!Mutations \cup {"state"}
    BY <1>2, <1>13 DEF CallFits
  <2>2. x.op = "probe"
    BY <2>1, <1>13 DEF AllCalls, CallOps, T!Mutations
  <2> QED
    BY <2>2, <1>8 DEF CallFits, NamesSegment, Tells, T!Mutations
<1>14. ASSUME NEW w \in T!Owners
       PROVE  (DocFits(documents[w]) /\ Knows(known[w], documents[w], late[w]) /\ WorkerFits(w) /\ LateFits(w))'
  <2>0. DocFits(documents[w]) /\ Knows(known[w], documents[w], late[w]) /\ WorkerFits(w) /\ LateFits(w)
    BY DEF TurnInv
  <2>1. CASE w = o
    <3>1. DocFits(documents[w])'
      BY <2>1, <1>4, <1>5, <1>9 DEF DocFits
    <3>2. Knows(known[w], documents[w], late[w])' /\ LateFits(w)'
      BY <2>1, <1>9, <1>12 DEF LateFits, T!NoCall, T!Call
    <3>3. WorkerFits(w)'
      <4>1. turnCall[w] \in AllCalls
        BY <1>1 DEF TurnTypes, T!Processes
      <4> QED
        BY <4>1, <2>0, <2>1, <1>4, <1>9, <1>13 DEF WorkerFits, d
    <3> QED
      BY <3>1, <3>2, <3>3
  <2>2. CASE w # o
    BY <2>0, <2>2, <1>4, <1>10 DEF DocFits, WorkerFits, LateFits
  <2> QED
    BY <2>1, <2>2
<1>15. FinishFits'
  <2>1. turnCall["finish"] \in AllCalls /\ turnCall["finish"].owner \in T!Owners
    BY <1>1 DEF TurnTypes, T!Processes, AllCalls
  <2>2. CASE turnCall["finish"].owner = o
    BY <2>1, <2>2, <1>4, <1>9, <1>13 DEF TurnInv, FinishFits, d
  <2>3. CASE turnCall["finish"].owner # o
    BY <2>1, <2>3, <1>4, <1>10 DEF TurnInv, FinishFits
  <2> QED
    BY <2>2, <2>3
<1>16. TurnsEndAlone'
  BY <1>4 DEF TurnInv, TurnsEndAlone, T!Idle
<1>17. StagesFit'
  <2>1. ~Certain(o) /\ ~ClosedFor(o)
    BY <1>2 DEF Certain, ClosedFor, c
  <2>2. ASSUME NEW w \in T!Owners, Certain(w) PROVE Certain(w)'
    BY <2>1, <2>2, <1>4, <1>10 DEF Certain
  <2>3. ASSUME NEW w \in T!Owners, ClosedFor(w) PROVE ClosedFor(w)'
    BY <2>1, <2>3, <1>4, <1>10 DEF ClosedFor
  <2> QED
    BY <2>2, <2>3, <1>4 DEF TurnInv, StagesFit, T!Owners
<1> QED
  BY <1>7, <1>11, <1>14, <1>15, <1>16, <1>17 DEF TurnInv

\* A query of what became of a call.
LEMMA AnswerProbeKeeps ==
    ASSUME TurnInv, NEW p \in T!Processes, T!AnswerProbe(p) PROVE TurnInv'
<1> DEFINE c == turnCall[p]
           o == c.owner
           r == [T!NoReply EXCEPT !.ok = known[o].uncertain = "done"]
           a == [c EXCEPT !.done = TRUE, !.reply = r]
<1>0. c.op = "probe" /\ c.op # "none"
  BY DEF T!AnswerProbe
<1>1. /\ o \in T!Owners /\ c \in AllCalls /\ CallFits(c, known[o], documents[o])
      /\ p # "finish" => p \in T!Owners /\ o = p /\ turnCall["finish"].op = "none"
      /\ turnOutcome = "none"
  BY <1>0, OneCall
<1>2. TurnTypes
  BY DEF TurnInv
<1>3. /\ shared' = shared /\ accepting' = accepting /\ stage' = stage /\ todo' = todo /\ turnOutcome' = turnOutcome
      /\ kind' = kind /\ known' = known /\ documents' = documents /\ late' = late /\ unrecorded' = unrecorded
      /\ turnCall' = [turnCall EXCEPT ![p] = a]
  BY DEF T!AnswerProbe
<1>4. r \in Replies /\ (r.ok => known[o].uncertain = "done")
  BY CallTypes DEF T!NoReply, Replies
<1> HIDE DEF r
<1>5. a \in AllCalls /\ a.op = "probe" /\ a.owner = o /\ a.reply = r
  BY <1>0, <1>1, <1>4 DEF AllCalls
<1> HIDE DEF a
<1>6. CallFits(a, known[o], documents[o])
  BY <1>4, <1>5 DEF CallFits, NamesSegment, Tells, T!Mutations
<1>7. turnCall'[p] = a /\ \A q \in T!Processes : turnCall'[q].op = turnCall[q].op /\ (q # p => turnCall'[q] = turnCall[q])
  BY <1>0, <1>2, <1>3, <1>5 DEF TurnTypes
<1>8. TurnTypes'
  BY <1>2, <1>3, <1>5 DEF TurnTypes
<1> HIDE DEF c, o
<1>9. ASSUME NEW w \in T!Owners
      PROVE  (DocFits(documents[w]) /\ Knows(known[w], documents[w], late[w]) /\ WorkerFits(w) /\ LateFits(w))'
  <2>0. DocFits(documents[w]) /\ Knows(known[w], documents[w], late[w]) /\ WorkerFits(w) /\ LateFits(w)
    BY DEF TurnInv
  <2>1. DocFits(documents[w])' /\ Knows(known[w], documents[w], late[w])' /\ LateFits(w)'
    BY <2>0, <1>3 DEF DocFits, LateFits
  <2>2. WorkerFits(w)'
    <3>1. CASE p = w
      BY <3>1, <2>0, <1>1, <1>3, <1>5, <1>6, <1>7 DEF WorkerFits, T!Owners
    <3>2. CASE p # w
      BY <3>2, <2>0, <1>3, <1>7 DEF WorkerFits, T!Processes
    <3> QED
      BY <3>1, <3>2
  <2> QED
    BY <2>1, <2>2
<1>10. FinishFits'
  <2>1. CASE p = "finish"
    BY <2>1, <1>0, <1>3, <1>5, <1>6, <1>7 DEF TurnInv, FinishFits, c, o
  <2>2. CASE p # "finish"
    BY <2>2, <1>1, <1>3, <1>7 DEF TurnInv, FinishFits, T!Processes
  <2> QED
    BY <2>1, <2>2
<1>11. TurnsEndAlone'
  BY <1>1, <1>3, <1>7 DEF TurnInv, TurnsEndAlone, T!Processes
<1>12. StagesFit'
  BY <1>3 DEF TurnInv, StagesFit, Certain, ClosedFor
<1> QED
  BY <1>3, <1>8, <1>9, <1>10, <1>11, <1>12 DEF TurnInv

\* An act of a person.
LEMMA ExternalKeeps ==
    ASSUME TurnInv, NEW o \in T!Owners, T!External(o) PROVE TurnInv'
<1> DEFINE d == documents[o]
<1>1. TurnTypes /\ d \in Docs /\ shared \in BOOLEAN
  BY DEF TurnInv, TurnTypes
<1>2. DocFits(d)
  BY DEF TurnInv
<1>3. d.record \/ d.seg.state = "active"
  BY DEF T!External
<1>4. PICK left \in BOOLEAN : documents' = [documents EXCEPT ![o] = T!Advance(@, left, @.scope, "abandoned")]
  BY DEF T!External
<1> DEFINE f == T!Advance(d, left, d.scope, "abandoned")
<1>5. documents' = [documents EXCEPT ![o] = f]
  BY <1>4
<1>6. /\ f \in Docs /\ f.seg.state = "abandoned" /\ f.seg.epoch = d.seg.epoch + 1 /\ f.scope = d.scope
  BY <1>1 DEF T!Advance, T!Segment, Docs, T!Segments
<1>7. /\ shared' = shared /\ accepting' = accepting /\ stage' = stage /\ todo' = todo /\ turnOutcome' = turnOutcome
      /\ kind' = kind /\ known' = known /\ turnCall' = turnCall /\ late' = late /\ unrecorded' = unrecorded
  BY DEF T!External
<1> HIDE DEF f
<1>8. documents'[o] = f /\ (\A w \in T!Owners : w # o => documents'[w] = documents[w])
  BY <1>1, <1>5 DEF TurnTypes
<1>9. TurnTypes'
  BY <1>1, <1>5, <1>6, <1>7 DEF TurnTypes
<1>10. DocFits(f)
  BY <1>1, <1>2, <1>3, <1>6 DEF DocFits
<1>11. ASSUME NEW k \in Knowledge, NEW x \in AllCalls, CallFits(x, k, d)
       PROVE  CallFits(x, k, f)
  <2>1. NamesSegment(x, f)
    BY <1>1, <1>6, <1>11, NamedLater DEF CallFits
  <2>2. x.op # "probe" /\ x.done => Seen(f, x.reply.seg)
    BY <1>1, <1>6, <1>11, SeenLater DEF CallFits, Tells, AllCalls, Replies
  <2>3. x.done => Tells(x, k, f)
    BY <2>2, <1>6, <1>11 DEF CallFits, Tells
  <2> QED
    BY <2>1, <2>3, <1>11 DEF CallFits
<1>12. ASSUME NEW w \in T!Owners
       PROVE  (DocFits(documents[w]) /\ Knows(known[w], documents[w], late[w]) /\ WorkerFits(w) /\ LateFits(w))'
  <2>0. DocFits(documents[w]) /\ Knows(known[w], documents[w], late[w]) /\ WorkerFits(w) /\ LateFits(w)
    BY DEF TurnInv
  <2>1. known[w] \in Knowledge /\ late[w] \in AllCalls /\ turnCall[w] \in AllCalls
    BY <1>1 DEF TurnTypes, T!Processes
  <2>2. CASE w = o
    <3>1. DocFits(documents[w])'
      BY <2>2, <1>7, <1>8, <1>10 DEF DocFits
    <3>2. Knows(known[w], f, late[w])
      BY <2>0, <2>1, <2>2, <1>1, <1>6, KnowsLater DEF d
    <3>3. late[w].op # "none" => NamesSegment(late[w], f)
      BY <2>0, <2>1, <2>2, <1>1, <1>6, NamedLater DEF LateFits
    <3>4. WorkerFits(w)'
      BY <2>0, <2>1, <2>2, <1>7, <1>8, <1>11 DEF WorkerFits
    <3> QED
      BY <2>0, <2>2, <3>1, <3>2, <3>3, <3>4, <1>7, <1>8 DEF LateFits
  <2>3. CASE w # o
    BY <2>0, <2>3, <1>7, <1>8 DEF DocFits, WorkerFits, LateFits
  <2> QED
    BY <2>2, <2>3
<1>13. FinishFits'
  <2>1. turnCall["finish"] \in AllCalls /\ turnCall["finish"].owner \in T!Owners /\ known[turnCall["finish"].owner] \in Knowledge
    BY <1>1 DEF TurnTypes, T!Processes, AllCalls
  <2>2. CASE turnCall["finish"].owner = o
    BY <2>1, <2>2, <1>7, <1>8, <1>11 DEF TurnInv, FinishFits
  <2>3. CASE turnCall["finish"].owner # o
    BY <2>1, <2>3, <1>7, <1>8 DEF TurnInv, FinishFits
  <2> QED
    BY <2>2, <2>3
<1>14. TurnsEndAlone'
  BY <1>7 DEF TurnInv, TurnsEndAlone, T!Idle
<1>15. StagesFit'
  <2>1. ASSUME NEW w \in T!Owners, Certain(w) PROVE Certain(w)'
    BY <2>1, <1>6, <1>7, <1>8 DEF Certain
  <2>2. ASSUME NEW w \in T!Owners, ClosedFor(w) PROVE ClosedFor(w)'
    BY <2>2, <1>6, <1>7, <1>8 DEF ClosedFor
  <2> QED
    BY <2>1, <2>2, <1>7 DEF TurnInv, StagesFit, T!Owners
<1> QED
  BY <1>7, <1>9, <1>12, <1>13, <1>14, <1>15 DEF TurnInv

\* A turn begins, and its end begins.
LEMMA BeginTurnKeeps ==
    ASSUME TurnInv, T!BeginTurn PROVE TurnInv'
<1>1. /\ shared' = shared /\ stage' = stage /\ todo' = todo /\ known' = known /\ kind' = kind /\ turnCall' = turnCall
      /\ documents' = documents /\ late' = late /\ unrecorded' = unrecorded
      /\ turnOutcome' = "none" /\ stage = 0 /\ accepting' \in BOOLEAN
  BY DEF T!BeginTurn
<1>2. TurnTypes'
  BY <1>1 DEF TurnInv, TurnTypes
<1>3. ASSUME NEW w \in T!Owners
      PROVE  (DocFits(documents[w]) /\ Knows(known[w], documents[w], late[w]) /\ WorkerFits(w) /\ LateFits(w))'
  BY <1>1 DEF TurnInv, DocFits, WorkerFits, LateFits
<1>4. FinishFits' /\ TurnsEndAlone' /\ StagesFit'
  BY <1>1 DEF TurnInv, FinishFits, TurnsEndAlone, StagesFit
<1> QED
  BY <1>1, <1>2, <1>3, <1>4 DEF TurnInv
LEMMA FinishTurnKeeps ==
    ASSUME TurnInv, T!FinishTurn PROVE TurnInv'
<1>1. /\ shared' = shared /\ stage' = 1 /\ todo' = todo /\ known' = known /\ kind' = kind /\ turnCall' = turnCall
      /\ documents' = documents /\ late' = late /\ unrecorded' = unrecorded
      /\ turnOutcome' = turnOutcome /\ turnOutcome = "none" /\ stage = 0 /\ accepting' \in BOOLEAN
  BY DEF T!FinishTurn
<1>2. TurnTypes'
  BY <1>1 DEF TurnInv, TurnTypes
<1>3. ASSUME NEW w \in T!Owners
      PROVE  (DocFits(documents[w]) /\ Knows(known[w], documents[w], late[w]) /\ WorkerFits(w) /\ LateFits(w))'
  BY <1>1 DEF TurnInv, DocFits, WorkerFits, LateFits
<1>4. FinishFits' /\ TurnsEndAlone' /\ StagesFit'
  BY <1>1 DEF TurnInv, FinishFits, TurnsEndAlone, StagesFit
<1> QED
  BY <1>1, <1>2, <1>3, <1>4 DEF TurnInv

\* An owner's worker goes on with a call that fits; k is what the host then knows.
LEMMA WorkerGoesOn ==
    ASSUME TurnInv, NEW o \in T!Owners, stage < 2, turnOutcome = "none", turnCall["finish"].op = "none",
           NEW k \in Knowledge, NEW c \in AllCalls, Knows(k, documents[o], late'[o]),
           c.op = "none" => ~c.done,
           c.op # "none" => c.owner = o /\ c.op # "finish" /\ CallFits(c, k, documents[o]),
           known' = [known EXCEPT ![o] = k], turnCall' = [turnCall EXCEPT ![o] = c],
           late'[o] \in AllCalls, late' = [late EXCEPT ![o] = late'[o]], LateFits(o)',
           kind' \in [T!Owners -> Queues],
           UNCHANGED <<shared, accepting, stage, todo, turnOutcome, documents, unrecorded>>
    PROVE  TurnInv'
<1>1. TurnTypes
  BY DEF TurnInv
<1>2. /\ \A w \in T!Owners : w # o => known'[w] = known[w] /\ turnCall'[w] = turnCall[w] /\ late'[w] = late[w]
      /\ known'[o] = k /\ turnCall'[o] = c /\ turnCall'["finish"] = turnCall["finish"]
  BY <1>1 DEF TurnTypes, T!Owners, T!Processes
<1>3. TurnTypes'
  BY <1>1 DEF TurnTypes
<1>4. ASSUME NEW w \in T!Owners
      PROVE  (DocFits(documents[w]) /\ Knows(known[w], documents[w], late[w]) /\ WorkerFits(w) /\ LateFits(w))'
  <2>0. DocFits(documents[w]) /\ Knows(known[w], documents[w], late[w]) /\ WorkerFits(w) /\ LateFits(w)
    BY DEF TurnInv
  <2>1. CASE w = o
    BY <2>0, <2>1, <1>2 DEF DocFits, WorkerFits
  <2>2. CASE w # o
    BY <2>0, <2>2, <1>2 DEF DocFits, WorkerFits, LateFits
  <2> QED
    BY <2>1, <2>2
<1>5. FinishFits'
  BY <1>2 DEF TurnInv, FinishFits
<1>6. TurnsEndAlone' /\ StagesFit'
  BY <1>1, <1>2 DEF TurnsEndAlone, StagesFit, TurnTypes
<1> QED
  BY <1>3, <1>4, <1>5, <1>6 DEF TurnInv

\* The worker of an owner takes what waits, or rests.
LEMMA OverFits ==
    ASSUME TurnTypes, NEW o \in T!Owners, NEW k \in Knowledge, NEW d \in Docs, NEW l \in AllCalls,
           Knows(k, d, l), T!Over(o, k)
    PROVE  /\ kind' \in [T!Owners -> Queues]
           /\ \E h \in Knowledge, c \in AllCalls :
                /\ known' = [known EXCEPT ![o] = h] /\ turnCall' = [turnCall EXCEPT ![o] = c]
                /\ Knows(h, d, l)
                /\ c.op = "none" => ~c.done
                /\ c.op # "none" => c.owner = o /\ c.op # "finish" /\ CallFits(c, h, d)
<1>1. kind' \in [T!Owners -> Queues] /\ kind[o].next \in Work /\ accepting \in BOOLEAN
  <2>1. kind[o].next \in Work /\ kind[o] \in Queues
    BY DEF TurnTypes, Queues
  <2>2. [now |-> kind[o].next, next |-> "none"] \in Queues
    BY <2>1 DEF Queues, Work
  <2>3. kind' = [kind EXCEPT ![o] = [now |-> kind[o].next, next |-> "none"]]
    BY DEF T!Over
  <2> QED
    BY <2>1, <2>2, <2>3 DEF TurnTypes
<1>2. CASE kind[o].next = "none"
  <2>1. known' = [known EXCEPT ![o] = k] /\ turnCall' = [turnCall EXCEPT ![o] = T!NoCall]
    BY <1>2 DEF T!Over
  <2>2. T!NoCall.op = "none" /\ ~T!NoCall.done
    BY DEF T!NoCall, T!Call
  <2> QED
    BY <1>1, <2>1, <2>2, CallTypes
<1>3. CASE kind[o].next # "none"
  <2> DEFINE c == T!FirstCall(o, k, kind[o].next)
  <2>1. /\ c \in AllCalls /\ c.op \notin {"none", "finish"} /\ c.owner = o /\ ~c.done
        /\ T!Owes(k, c) \in Knowledge /\ Knows(T!Owes(k, c), d, l) /\ CallFits(c, T!Owes(k, c), d)
    BY <1>1, FirstCallFits
  <2>2. turnCall' = [turnCall EXCEPT ![o] = c] /\ known' = [known EXCEPT ![o] = T!Owes(k, c)]
    BY <1>3, <2>1 DEF T!Over, T!Send
  <2> HIDE DEF c
  <2> QED
    BY <1>1, <2>1, <2>2
<1> QED
  BY <1>2, <1>3

\* An edit, or another document action, is asked for.
LEMMA InvokeKeeps ==
    ASSUME TurnInv, NEW o \in T!Owners, NEW what \in {"edit", "boundary"}, T!Invoke(o, what) PROVE TurnInv'
<1>1. /\ TurnTypes /\ documents[o] \in Docs /\ known[o] \in Knowledge /\ late[o] \in AllCalls
      /\ accepting \in BOOLEAN /\ Knows(known[o], documents[o], late[o]) /\ LateFits(o)
      /\ kind[o] \in Queues /\ what \in Work
  BY DEF TurnInv, TurnTypes, Work
<1>2. /\ shared' = shared /\ accepting' = accepting /\ stage' = stage /\ todo' = todo /\ turnOutcome' = turnOutcome
      /\ documents' = documents /\ late' = late /\ unrecorded' = unrecorded
      /\ turnOutcome = "none" /\ stage = 0
  BY DEF T!Invoke
<1>3. turnCall["finish"].op = "none"
  BY <1>2 DEF TurnInv, FinishFits
<1>4. CASE kind[o].now = "none" /\ kind' = [kind EXCEPT ![o].now = what]
           /\ T!Send(o, known[o], T!FirstCall(o, known[o], what))
  <2> DEFINE c == T!FirstCall(o, known[o], what)
  <2>1. /\ c \in AllCalls /\ c.op \notin {"none", "finish"} /\ c.owner = o /\ ~c.done
        /\ T!Owes(known[o], c) \in Knowledge /\ Knows(T!Owes(known[o], c), documents[o], late[o])
        /\ CallFits(c, T!Owes(known[o], c), documents[o])
    BY <1>1, FirstCallFits
  <2>2. turnCall' = [turnCall EXCEPT ![o] = c] /\ known' = [known EXCEPT ![o] = T!Owes(known[o], c)]
    BY <1>4, <2>1 DEF T!Send
  <2> HIDE DEF c
  <2>3. kind' \in [T!Owners -> Queues]
    <3>1. [kind[o] EXCEPT !.now = what] \in Queues
      BY <1>1 DEF Queues
    <3> QED
      BY <1>1, <1>4, <3>1 DEF TurnTypes
  <2>4. late' = [late EXCEPT ![o] = late'[o]] /\ late'[o] \in AllCalls /\ LateFits(o)'
    BY <1>1, <1>2 DEF TurnTypes, LateFits
  <2>5. UNCHANGED <<shared, accepting, stage, todo, turnOutcome, documents, unrecorded>>
    BY <1>2
  <2> DEFINE k == T!Owes(known[o], c)
  <2>6. /\ k \in Knowledge /\ Knows(k, documents[o], late'[o]) /\ CallFits(c, k, documents[o])
        /\ known' = [known EXCEPT ![o] = k]
    BY <2>1, <2>2, <1>2
  <2> HIDE DEF k
  <2> QED
    <3>1. /\ stage < 2 /\ turnOutcome = "none" /\ turnCall["finish"].op = "none"
          /\ k \in Knowledge /\ c \in AllCalls /\ Knows(k, documents[o], late'[o])
          /\ c.op = "none" => ~c.done
          /\ c.op # "none" => c.owner = o /\ c.op # "finish" /\ CallFits(c, k, documents[o])
      BY <1>2, <1>3, <2>1, <2>6
    <3>2. /\ known' = [known EXCEPT ![o] = k] /\ turnCall' = [turnCall EXCEPT ![o] = c]
          /\ late'[o] \in AllCalls /\ late' = [late EXCEPT ![o] = late'[o]] /\ LateFits(o)'
      BY <2>2, <2>4, <2>6
    <3> QED
      BY <3>1, <3>2, <2>3, <2>5, WorkerGoesOn
<1>5. CASE kind[o].next = "none" /\ kind' = [kind EXCEPT ![o].next = what] /\ UNCHANGED <<turnCall, known>>
  <2>1. kind' \in [T!Owners -> Queues]
    <3>1. [kind[o] EXCEPT !.next = what] \in Queues
      BY <1>1 DEF Queues
    <3> QED
      BY <1>1, <1>5, <3>1 DEF TurnTypes
  <2>2. TurnTypes'
    BY <1>1, <1>2, <1>5, <2>1 DEF TurnTypes
  <2>3. ASSUME NEW w \in T!Owners
        PROVE  (DocFits(documents[w]) /\ Knows(known[w], documents[w], late[w]) /\ WorkerFits(w) /\ LateFits(w))'
    BY <1>2, <1>5 DEF TurnInv, DocFits, WorkerFits, LateFits
  <2>4. FinishFits' /\ TurnsEndAlone' /\ StagesFit'
    BY <1>2, <1>5 DEF TurnInv, FinishFits, TurnsEndAlone, StagesFit
  <2> QED
    BY <1>2, <2>2, <2>3, <2>4 DEF TurnInv
<1> QED
  BY <1>4, <1>5 DEF T!Invoke

\* The worker of an owner reads an answer.
LEMMA WorkerReplyKeeps ==
    ASSUME TurnInv, NEW o \in T!Owners, T!WorkerReply(o) PROVE TurnInv'
<1> DEFINE c == turnCall[o]
           k == known[o]
           d == documents[o]
           l == late[o]
<1>0. c.done /\ c.op # "none"
  BY DEF T!WorkerReply, TurnInv, WorkerFits
<1>1. /\ c \in AllCalls /\ CallFits(c, k, d) /\ c.owner = o /\ turnOutcome = "none" /\ turnCall["finish"].op = "none"
      /\ c.op # "finish"
  <2>1. o \in T!Processes /\ o # "finish"
    BY DEF T!Processes, T!Owners
  <2> QED
    BY <2>1, <1>0, OneCall DEF TurnInv, WorkerFits
<1>2. stage < 2
  BY <1>0 DEF TurnInv, TurnTypes, TurnsEndAlone
<1>3. /\ TurnTypes /\ d \in Docs /\ k \in Knowledge /\ l \in AllCalls /\ shared \in BOOLEAN /\ accepting \in BOOLEAN
      /\ DocFits(d) /\ Knows(k, d, l) /\ LateFits(o) /\ kind[o] \in Queues
  BY DEF TurnInv, TurnTypes
<1>4. Tells(c, k, d)
  BY <1>0, <1>1 DEF CallFits
<1>5. UNCHANGED <<shared, accepting, stage, todo, turnOutcome, documents, unrecorded>> /\ late' = late
  BY DEF T!WorkerReply
<1>6. late' = [late EXCEPT ![o] = late'[o]] /\ late'[o] = l /\ late'[o] \in AllCalls /\ LateFits(o)'
  BY <1>3, <1>5 DEF TurnTypes, LateFits
<1> HIDE DEF c, k, d, l
<1>7. ASSUME NEW h \in Knowledge, Knows(h, d, l), T!Over(o, h) PROVE TurnInv'
  <2>1. kind' \in [T!Owners -> Queues]
    BY <1>3, <1>7, OverFits
  <2>2. PICK g \in Knowledge, a \in AllCalls :
           /\ known' = [known EXCEPT ![o] = g] /\ turnCall' = [turnCall EXCEPT ![o] = a]
           /\ Knows(g, d, l)
           /\ a.op = "none" => ~a.done
           /\ a.op # "none" => a.owner = o /\ a.op # "finish" /\ CallFits(a, g, d)
    BY <1>3, <1>7, OverFits
  <2> QED
    BY <1>1, <1>2, <1>5, <1>6, <2>1, <2>2, WorkerGoesOn DEF d
<1>8. ASSUME NEW h \in Knowledge, NEW a \in AllCalls, Knows(T!Owes(h, a), d, l), T!Owes(h, a) \in Knowledge,
             CallFits(a, T!Owes(h, a), d), a.owner = o, a.op \notin {"none", "finish"}, T!Send(o, h, a), kind' = kind
      PROVE  TurnInv'
  <2> DEFINE g == T!Owes(h, a)
  <2>1. known' = [known EXCEPT ![o] = g] /\ turnCall' = [turnCall EXCEPT ![o] = a]
    BY <1>8 DEF T!Send
  <2>2. g \in Knowledge /\ Knows(g, d, late'[o]) /\ CallFits(a, g, d)
    BY <1>6, <1>8
  <2>3. kind' \in [T!Owners -> Queues]
    BY <1>3, <1>8 DEF TurnTypes
  <2> HIDE DEF g
  <2> QED
    BY <1>1, <1>2, <1>5, <1>6, <1>8, <2>1, <2>2, <2>3, WorkerGoesOn DEF d
<1>9. ASSUME NEW h \in Knowledge, Knows(h, d, l)
      PROVE  /\ [h EXCEPT !.open = FALSE] \in Knowledge
             /\ Knows([h EXCEPT !.open = FALSE], d, l)
  <2> DEFINE g == [h EXCEPT !.open = FALSE]
  <2>1. g \in Knowledge /\ g.seg = h.seg /\ g.owed = h.owed /\ g.uncertain = h.uncertain /\ ~g.open
    BY DEF Knowledge
  <2> HIDE DEF g
  <2>2. Knows(g, d, l)
    BY <2>1, <1>9 DEF Knows, T!Reconciles
  <2> QED
    BY <2>1, <2>2 DEF g
<1>10. ASSUME NEW h \in Knowledge, Knows(h, d, l)
       PROVE  T!Closed(o, h) \in Knowledge /\ Knows(T!Closed(o, h), d, l)
  BY <1>9, <1>10 DEF T!Closed
<1>11. CASE ~c.reply.ok
  <2>1. T!Over(o, IF c.op = "boundary" THEN T!Closed(o, k) ELSE k)
    BY <1>11 DEF T!WorkerReply, c, k
  <2>2. CASE c.op = "boundary"
    BY <2>1, <2>2, <1>3, <1>7, <1>10
  <2>3. CASE c.op # "boundary"
    BY <2>1, <2>3, <1>3, <1>7
  <2> QED
    BY <2>2, <2>3
<1>12. CASE c.reply.ok /\ c.op = "probe"
  <2> DEFINE a == T!Call("state", o, 0, FALSE)
  <2>1. T!Send(o, k, a) /\ kind' = kind
    BY <1>12 DEF T!WorkerReply, c, k
  <2>2. a \in AllCalls /\ a.op = "state" /\ a.owner = o /\ ~a.done
    BY CallTypes DEF T!Call, CallOps
  <2> HIDE DEF a
  <2>3. T!Owes(k, a) = k
    BY <2>2 DEF T!Owes
  <2>4. CallFits(a, k, d)
    BY <2>2, <1>4, <1>12 DEF CallFits, NamesSegment, Tells, T!Mutations
  <2> QED
    BY <2>1, <2>2, <2>3, <2>4, <1>3, <1>8
<1>13. CASE c.reply.ok /\ c.op = "state"
  <2> DEFINE h == [T!Observe(k, c.reply) EXCEPT !.uncertain = "no"]
             a == T!Dispatch(o, h, kind[o].now)
  <2>1. T!Send(o, h, a) /\ kind' = kind
    BY <1>13 DEF T!WorkerReply, c, k
  <2>2. k.uncertain \in {"no", "done"}
    BY <1>1, <1>13 DEF CallFits
  <2>3. h \in Knowledge /\ h.uncertain = "no" /\ Knows(h, d, l)
    BY <1>1, <1>3, <1>4, <1>13, <2>2, ObserveFits
  <2> HIDE DEF h
  <2>4. kind[o].now \in Work
    BY <1>3 DEF Queues
  <2>5. /\ a \in AllCalls /\ a.op \in {"begin", "edit", "boundary"} /\ a.owner = o /\ ~a.done
        /\ T!Owes(h, a) \in Knowledge /\ Knows(T!Owes(h, a), d, l) /\ CallFits(a, T!Owes(h, a), d)
    BY <1>3, <2>3, <2>4, DispatchFits
  <2> HIDE DEF a
  <2> QED
    BY <2>1, <2>3, <2>5, <1>8
<1>14. k.uncertain = "no" => [k EXCEPT !.uncertain = "no"] = k
  BY <1>3 DEF Knowledge
<1>15. CASE c.reply.ok /\ c.op = "begin"
  <2> DEFINE s == T!Settled(k)
             g == T!Observe(s, c.reply)
             h == [g EXCEPT !.open = TRUE]
             a == T!Call("edit", o, T!Expected(h), TRUE)
  <2>1. T!Send(o, h, a) /\ kind' = kind
    BY <1>15 DEF T!WorkerReply, c, k, T!Edit
  <2>2. k.uncertain = "no" /\ l.op = "none"
    BY <1>1, <1>3, <1>15 DEF CallFits, T!Mutations, Knows
  <2>3. c.reply \in Replies /\ c.reply.seg \in T!Segments /\ c.reply.scope \in BOOLEAN
    BY <1>1 DEF AllCalls, Replies
  <2>4. s \in Knowledge /\ s.seg = k.seg /\ s.open = k.open /\ ~s.owed /\ s.uncertain = "no"
    BY <1>3, <2>2 DEF T!Settled, Knowledge
  <2> HIDE DEF s
  <2>5. /\ g \in Knowledge /\ g.seg = c.reply.seg /\ g.uncertain = "no"
        /\ shared => g.owed = c.reply.scope
    BY <2>3, <2>4 DEF T!Observe, Knowledge
  <2> HIDE DEF g
  <2>6. h \in Knowledge /\ h.seg = c.reply.seg /\ h.open /\ h.uncertain = "no" /\ h.owed = g.owed
    BY <2>5 DEF Knowledge
  <2> HIDE DEF h
  <2>7. Seen(d, h.seg) /\ h.seg.state = "active" /\ (d.scope => c.reply.scope)
    BY <1>4, <1>15, <2>6 DEF Tells
  <2>8. h.seg # T!NoSegment
    BY <2>7 DEF T!NoSegment
  <2>9. Knows(h, d, l)
    BY <2>2, <2>5, <2>6, <2>7, <2>8, <1>3 DEF Knows, T!Reconciles, DocFits
  <2>10. T!Expected(h) = h.seg.epoch /\ h.seg.epoch \in Nat
    BY <2>3, <2>6, <2>7 DEF T!Expected, T!Segments
  <2>11. /\ a \in AllCalls /\ a.op = "edit" /\ a.owner = o /\ ~a.done /\ a.expects = h.seg.epoch
    BY <2>10, CallTypes DEF T!Call, CallOps
  <2> HIDE DEF a
  <2>12. T!Owes(h, a) = h
    BY <2>11 DEF T!Owes
  <2>13. CallFits(a, h, d)
    BY <2>6, <2>7, <2>8, <2>11 DEF CallFits, NamesSegment, Seen, T!Mutations
  <2> QED
    BY <2>1, <2>6, <2>9, <2>11, <2>12, <2>13, <1>8
<1>16. CASE c.reply.ok /\ c.op \in {"edit", "boundary"}
  <2> DEFINE g == T!Observe(k, c.reply)
             h == [g EXCEPT !.uncertain = "no"]
  <2>1. T!Over(o, T!Closed(o, g))
    BY <1>16 DEF T!WorkerReply, c, k
  <2>2. k.uncertain = "no"
    BY <1>1, <1>16 DEF CallFits, T!Mutations
  <2>3. h \in Knowledge /\ Knows(h, d, l)
    BY <1>1, <1>3, <1>4, <1>16, <2>2, ObserveFits
  <2>4. g \in Knowledge /\ g.uncertain = "no"
    BY <1>1, <1>3, <2>2 DEF T!Observe, Knowledge, AllCalls, Replies
  <2> HIDE DEF g
  <2>5. h = g
    BY <2>4 DEF Knowledge
  <2> QED
    BY <2>1, <2>3, <2>5, <1>7, <1>10
<1> QED
  BY <1>0, <1>1, <1>11, <1>12, <1>13, <1>15, <1>16 DEF AllCalls, CallOps

\* What the host knows when a call is lost.
LEMMA LostFits ==
    ASSUME TurnInv, NEW p \in T!Processes, NEW fate \in T!Fate(p), T!Lost(p, fate)
    PROVE  /\ turnCall[p].op # "none" /\ fate \in {"done", "late", "gone"}
           /\ late' = [late EXCEPT ![turnCall[p].owner] = late'[turnCall[p].owner]]
           /\ late'[turnCall[p].owner] \in AllCalls
           /\ T!Uncertain(known[turnCall[p].owner], p, fate) \in Knowledge
           /\ Knows(T!Uncertain(known[turnCall[p].owner], p, fate), documents[turnCall[p].owner], late'[turnCall[p].owner])
           /\ late'[turnCall[p].owner].op # "none" =>
                /\ late'[turnCall[p].owner].owner = turnCall[p].owner
                /\ NamesSegment(late'[turnCall[p].owner], documents[turnCall[p].owner])
<1> DEFINE c == turnCall[p]
           o == c.owner
           k == known[o]
           u == T!Uncertain(k, p, fate)
<1>0. c.op # "none" /\ fate \in {"done", "late", "gone"}
  BY DEF T!Lost, T!Fate
<1>1. o \in T!Owners /\ c \in AllCalls /\ CallFits(c, k, documents[o])
  BY <1>0, OneCall
<1>2. /\ TurnTypes /\ k \in Knowledge /\ late[o] \in AllCalls /\ Knows(k, documents[o], late[o]) /\ LateFits(o)
  BY <1>1 DEF TurnInv, TurnTypes
<1>3. CASE c.op \in T!Mutations
  <2>1. k.uncertain = "no" /\ late[o].op = "none"
    BY <1>1, <1>2, <1>3 DEF CallFits, Knows
  <2>2. u = [k EXCEPT !.uncertain = fate]
    BY <1>3 DEF T!Uncertain
  <2>3. u \in Knowledge /\ u.uncertain = fate /\ u.seg = k.seg /\ u.open = k.open /\ u.owed = k.owed
    BY <2>2, <1>0, <1>2 DEF Knowledge
  <2>4. CASE fate = "late"
    <3>1. late' = [late EXCEPT ![o] = c]
      BY <2>4, <1>3 DEF T!Lost
    <3>2. late'[o] = c
      BY <3>1, <1>1, <1>2 DEF TurnTypes
    <3> HIDE DEF u, k, o, c
    <3>3. Knows(u, documents[o], c)
      BY <2>3, <2>4, <1>2 DEF Knows, T!Reconciles
    <3>4. NamesSegment(c, documents[o])
      BY <1>1 DEF CallFits
    <3> QED
      BY <3>1, <3>2, <3>3, <3>4, <2>3, <1>0, <1>1 DEF o, c, u, k
  <2>5. CASE fate # "late"
    <3>1. late' = late
      BY <2>5 DEF T!Lost
    <3>2. late' = [late EXCEPT ![o] = late'[o]]
      BY <3>1, <1>1, <1>2 DEF TurnTypes
    <3> HIDE DEF u, k, o, c
    <3>3. Knows(u, documents[o], late[o])
      BY <2>1, <2>3, <1>0, <1>2 DEF Knows, T!Reconciles
    <3> QED
      BY <3>1, <3>2, <3>3, <2>1, <2>3, <1>0, <1>2 DEF o, c, u, k
  <2> QED
    BY <2>4, <2>5
<1>4. CASE c.op \notin T!Mutations
  <2>1. late' = late /\ u = k
    BY <1>4 DEF T!Lost, T!Uncertain
  <2>2. late' = [late EXCEPT ![o] = late'[o]]
    BY <2>1, <1>1, <1>2 DEF TurnTypes
  <2> QED
    BY <2>1, <2>2, <1>0, <1>2 DEF LateFits
<1> QED
  BY <1>3, <1>4

\* The worker of an owner gives a call up.
LEMMA WorkerLosesKeeps ==
    ASSUME TurnInv, NEW o \in T!Owners, T!WorkerLoses(o) PROVE TurnInv'
<1>1. PICK fate \in T!Fate(o) :
        /\ T!Lost(o, fate)
        /\ T!Over(o, T!Uncertain(IF turnCall[o].op = "boundary" THEN T!Closed(o, known[o]) ELSE known[o], o, fate))
  BY DEF T!WorkerLoses
<1>2. /\ UNCHANGED <<shared, accepting, stage, todo, turnOutcome, documents>> /\ unrecorded' = unrecorded
  BY DEF T!WorkerLoses
<1>3. o \in T!Processes /\ o # "finish"
  BY DEF T!Processes, T!Owners
<1>4. turnCall[o].op # "none" /\ turnCall[o].owner = o /\ turnOutcome = "none" /\ turnCall["finish"].op = "none"
  BY <1>1, <1>3, OneCall DEF T!Lost
<1>5. stage < 2
  BY <1>4 DEF TurnInv, TurnTypes, TurnsEndAlone
<1> DEFINE k == known[o]
           d == documents[o]
           l == late'[o]
           u == T!Uncertain(k, o, fate)
<1>6. /\ fate \in {"done", "late", "gone"} /\ late' = [late EXCEPT ![o] = l] /\ l \in AllCalls
      /\ u \in Knowledge /\ Knows(u, d, l)
      /\ l.op # "none" => l.owner = o /\ NamesSegment(l, d)
  BY <1>1, <1>3, <1>4, LostFits
<1>7. TurnTypes /\ d \in Docs /\ k \in Knowledge
  BY DEF TurnInv, TurnTypes
<1>8. LateFits(o)'
  BY <1>2, <1>6 DEF LateFits
<1> DEFINE v == IF turnCall[o].op = "boundary" THEN T!Closed(o, k) ELSE k
           w == T!Uncertain(v, o, fate)
<1>9. w \in Knowledge /\ Knows(w, d, l)
  <2>1. CASE w = u
    BY <2>1, <1>6
  <2>2. CASE w = [u EXCEPT !.open = FALSE]
    <3>1. w \in Knowledge /\ w.seg = u.seg /\ w.owed = u.owed /\ w.uncertain = u.uncertain /\ ~w.open
      <4> HIDE DEF u, w
      <4> QED
        BY <2>2, <1>6 DEF Knowledge
    <3> HIDE DEF u, w, d, l
    <3> QED
      BY <3>1, <1>6 DEF Knows, T!Reconciles
  <2>3. w = u \/ w = [u EXCEPT !.open = FALSE]
    <3>1. CASE turnCall[o].op = "boundary" /\ kind[o].now = "boundary"
      <4>1. v = [k EXCEPT !.open = FALSE]
        BY <3>1 DEF T!Closed
      <4>2. turnCall[o].op \in T!Mutations
        BY <3>1 DEF T!Mutations
      <4>3. w = [v EXCEPT !.uncertain = fate] /\ u = [k EXCEPT !.uncertain = fate]
        BY <4>2 DEF T!Uncertain
      <4>4. [[k EXCEPT !.open = FALSE] EXCEPT !.uncertain = fate] = [[k EXCEPT !.uncertain = fate] EXCEPT !.open = FALSE]
        <5> HIDE DEF k
        <5> QED
          BY <1>6, <1>7 DEF Knowledge
      <4> QED
        BY <4>1, <4>3, <4>4
    <3>2. CASE ~(turnCall[o].op = "boundary" /\ kind[o].now = "boundary")
      <4>1. v = k
        BY <3>2 DEF T!Closed
      <4> QED
        BY <4>1
    <3> QED
      BY <3>1, <3>2
  <2> QED
    BY <2>1, <2>2, <2>3
<1>10. T!Over(o, w)
  BY <1>1
<1> HIDE DEF k, u, v, w, d, l
<1>11. kind' \in [T!Owners -> Queues]
  BY <1>6, <1>7, <1>9, <1>10, OverFits
<1>12. PICK g \in Knowledge, a \in AllCalls :
         /\ known' = [known EXCEPT ![o] = g] /\ turnCall' = [turnCall EXCEPT ![o] = a]
         /\ Knows(g, d, l)
         /\ a.op = "none" => ~a.done
         /\ a.op # "none" => a.owner = o /\ a.op # "finish" /\ CallFits(a, g, d)
  BY <1>6, <1>7, <1>9, <1>10, OverFits
<1>13. /\ late'[o] \in AllCalls /\ late' = [late EXCEPT ![o] = late'[o]]
       /\ Knows(g, documents[o], late'[o])
       /\ a.op # "none" => a.owner = o /\ a.op # "finish" /\ CallFits(a, g, documents[o])
  BY <1>6, <1>12 DEF d, l
<1> QED
  BY <1>2, <1>4, <1>5, <1>8, <1>11, <1>12, <1>13, WorkerGoesOn

\* The order in which the end of a turn goes through the owners.
LEMMA StagesAre ==
    /\ Len(T!Stages) = 5
    /\ T!Stages[1] = <<"reconcile", "grasshopper">>
    /\ T!Stages[2] = <<"reconcile", "rhino">>
    /\ T!Stages[3] = <<"decide", "rhino">>
    /\ T!Stages[4] = <<"finish", "grasshopper">>
    /\ T!Stages[5] = <<"finish", "rhino">>
  BY DEF T!Stages

\* The end of a turn asks the owner it is at; k is what the host then knows of it.
LEMMA FinishAsks ==
    ASSUME TurnInv, stage \in {1, 2, 4, 5}, NEW o \in T!Owners, o = T!Stages[stage][2],
           \A w \in T!Owners : turnCall[w].op = "none", turnOutcome = "none",
           NEW k \in Knowledge, NEW c \in AllCalls, Knows(k, documents[o], late[o]),
           c.op \in {"probe", "state", "finish"}, c.op = "finish" => stage \in {4, 5},
           c.owner = o, CallFits(c, k, documents[o]),
           k = known[o] \/ (stage \in {4, 5} /\ k.uncertain = "no"),
           known' = [known EXCEPT ![o] = k], turnCall' = [turnCall EXCEPT !["finish"] = c],
           UNCHANGED <<shared, accepting, kind, stage, todo, turnOutcome, documents, late, unrecorded>>
    PROVE  TurnInv'
<1>1. TurnTypes
  BY DEF TurnInv
<1>2. /\ known'[o] = k /\ turnCall'["finish"] = c
      /\ \A w \in T!Owners : (w # o => known'[w] = known[w]) /\ turnCall'[w] = turnCall[w]
  BY <1>1 DEF TurnTypes, T!Owners, T!Processes
<1>3. TurnTypes'
  BY <1>1 DEF TurnTypes
<1>4. ASSUME NEW w \in T!Owners
      PROVE  (DocFits(documents[w]) /\ Knows(known[w], documents[w], late[w]) /\ WorkerFits(w) /\ LateFits(w))'
  <2>0. DocFits(documents[w]) /\ Knows(known[w], documents[w], late[w]) /\ WorkerFits(w) /\ LateFits(w)
    BY DEF TurnInv
  <2>1. DocFits(documents[w])' /\ LateFits(w)'
    BY <2>0 DEF DocFits, LateFits
  <2>2. Knows(known[w], documents[w], late[w])'
    BY <2>0, <1>2
  <2>3. WorkerFits(w)'
    BY <2>0, <1>2 DEF WorkerFits
  <2> QED
    BY <2>1, <2>2, <2>3
<1>5. FinishFits'
  BY <1>2 DEF FinishFits
<1>6. TurnsEndAlone'
  BY <1>2 DEF TurnsEndAlone
<1>7. StagesFit'
  <2>1. ASSUME NEW w \in T!Owners, Certain(w), w # o \/ k = known[o] \/ stage >= 4
        PROVE  Certain(w)'
    BY <2>1, <1>1, <1>2 DEF Certain, TurnTypes
  <2>2. ASSUME NEW w \in T!Owners, ClosedFor(w) PROVE ClosedFor(w)'
    BY <2>2 DEF ClosedFor
  <2> QED
    BY <2>1, <2>2 DEF TurnInv, StagesFit, T!Owners
<1> QED
  BY <1>3, <1>4, <1>5, <1>6, <1>7 DEF TurnInv

\* A step of the end of a turn that leaves no call in flight.
LEMMA FinishRests ==
    ASSUME TurnInv, \A w \in T!Owners : turnCall[w].op = "none",
           known' \in [T!Owners -> Knowledge], late' \in [T!Owners -> AllCalls],
           \A w \in T!Owners : Knows(known'[w], documents[w], late'[w]) /\ LateFits(w)',
           turnCall' = [turnCall EXCEPT !["finish"] = T!NoCall], stage' \in 0 .. 5, todo' \in SUBSET T!Owners,
           turnOutcome' \in {"none", "ok", "error"}, turnOutcome' # "none" => stage' = 0,
           StagesFit',
           UNCHANGED <<shared, accepting, kind, documents, unrecorded>>
    PROVE  TurnInv'
<1>1. TurnTypes
  BY DEF TurnInv
<1>2. turnCall'["finish"] = T!NoCall /\ \A w \in T!Owners : turnCall'[w] = turnCall[w]
  BY <1>1 DEF TurnTypes, T!Owners, T!Processes
<1>3. T!NoCall.op = "none" /\ ~T!NoCall.done
  BY DEF T!NoCall, T!Call
<1>4. TurnTypes'
  BY <1>1, CallTypes DEF TurnTypes
<1>5. ASSUME NEW w \in T!Owners
      PROVE  (DocFits(documents[w]) /\ Knows(known[w], documents[w], late[w]) /\ WorkerFits(w) /\ LateFits(w))'
  BY <1>2 DEF TurnInv, DocFits, WorkerFits
<1>6. FinishFits'
  BY <1>2, <1>3 DEF FinishFits
<1>7. TurnsEndAlone'
  BY <1>2, <1>3 DEF TurnsEndAlone, T!Idle, T!Processes
<1> QED
  BY <1>4, <1>5, <1>6, <1>7 DEF TurnInv

\* One owner is done, and was the last one or not.
LEMMA ContinueFits ==
    ASSUME TurnInv, stage \in {1, 2, 4, 5}, NEW o \in T!Owners, o = T!Stages[stage][2],
           \A w \in T!Owners : turnCall[w].op = "none", turnOutcome = "none",
           NEW k \in Knowledge, Knows(k, documents[o], late[o]), k.uncertain = "no",
           stage \in {1, 2} /\ documents[o].seg.state = "active" => k.open,
           stage \in {4, 5} => ClosedFor(o),
           known' = [known EXCEPT ![o] = k], turnCall' = [turnCall EXCEPT !["finish"] = T!NoCall],
           \/ stage = 5 /\ turnOutcome' = "ok" /\ stage' = 0 /\ todo' = {}
           \/ stage # 5 /\ stage' = stage + 1 /\ UNCHANGED <<todo, turnOutcome>>,
           UNCHANGED <<shared, accepting, kind, documents, late, unrecorded>>
    PROVE  TurnInv'
<1>1. TurnTypes
  BY DEF TurnInv
<1>2. known'[o] = k /\ \A w \in T!Owners : w # o => known'[w] = known[w]
  BY <1>1 DEF TurnTypes
<1>3. known' \in [T!Owners -> Knowledge] /\ late' \in [T!Owners -> AllCalls]
  BY <1>1 DEF TurnTypes
<1>4. \A w \in T!Owners : Knows(known'[w], documents[w], late'[w]) /\ LateFits(w)'
  BY <1>2 DEF TurnInv, LateFits
<1>5. /\ stage' \in 0 .. 5 /\ todo' \in SUBSET T!Owners /\ turnOutcome' \in {"none", "ok", "error"}
      /\ turnOutcome' # "none" => stage' = 0
  BY <1>1 DEF TurnTypes
<1>6. StagesFit'
  <2>1. CASE stage = 1
    <3>1. o = "grasshopper" /\ stage' = 2 /\ turnOutcome' = "none"
      BY <2>1, StagesAre
    <3>2. Certain("grasshopper")'
      BY <3>1, <2>1, <1>2 DEF Certain
    <3> QED
      BY <3>1, <3>2 DEF StagesFit
  <2>2. CASE stage = 2
    <3>1. o = "rhino" /\ stage' = 3 /\ turnOutcome' = "none"
      BY <2>2, StagesAre
    <3>2. Certain("rhino")'
      BY <3>1, <2>2, <1>2 DEF Certain
    <3>3. Certain("grasshopper")'
      BY <3>1, <2>2, <1>2 DEF Certain, TurnInv, StagesFit, T!Owners
    <3> QED
      BY <3>1, <3>2, <3>3 DEF StagesFit
  <2>3. CASE stage = 4
    <3>1. o = "grasshopper" /\ stage' = 5 /\ turnOutcome' = "none" /\ todo' = todo
      BY <2>3, StagesAre
    <3>2. ClosedFor("grasshopper") /\ ClosedFor("grasshopper")'
      BY <3>1, <2>3 DEF ClosedFor
    <3>3. Certain("grasshopper")'
      BY <3>1, <3>2, <2>3, <1>2 DEF Certain, ClosedFor
    <3>4. Certain("rhino")'
      BY <3>1, <2>3, <1>2 DEF Certain, TurnInv, StagesFit, T!Owners
    <3> QED
      BY <3>1, <3>2, <3>3, <3>4 DEF StagesFit
  <2>4. CASE stage = 5
    <3>1. o = "rhino" /\ stage' = 0
      BY <2>4, StagesAre
    <3>2. ClosedFor("grasshopper")' /\ ClosedFor("rhino")'
      BY <3>1, <2>4 DEF ClosedFor, TurnInv, StagesFit
    <3> QED
      BY <3>1, <3>2 DEF StagesFit
  <2> QED
    BY <2>1, <2>2, <2>3, <2>4
<1> QED
  BY <1>3, <1>4, <1>5, <1>6, FinishRests

\* What the end of a turn may read of an owner.
LEMMA OwnerFacts ==
    ASSUME TurnInv, NEW o \in T!Owners
    PROVE  /\ known[o] \in Knowledge /\ documents[o] \in Docs /\ late[o] \in AllCalls /\ shared \in BOOLEAN
           /\ DocFits(documents[o]) /\ Knows(known[o], documents[o], late[o]) /\ LateFits(o)
           /\ known' = known => known' = [known EXCEPT ![o] = known[o]]
  BY DEF TurnInv, TurnTypes

\* The end of a turn goes on when nothing is in flight.
LEMMA FinishStepKeeps ==
    ASSUME TurnInv, T!FinishStep PROVE TurnInv'
<1> DEFINE do == T!Stages[stage][1]
           o == T!Stages[stage][2]
<1>1. /\ stage \in 1 .. 5 /\ T!Idle
      /\ UNCHANGED <<shared, accepting, kind, documents, late>> /\ unrecorded' = unrecorded
  BY DEF T!FinishStep, TurnInv, TurnTypes
<1>2. turnOutcome = "none" /\ (\A w \in T!Owners : turnCall[w].op = "none") /\ turnCall["finish"].op = "none"
  BY <1>1 DEF TurnInv, TurnsEndAlone, T!Idle, T!Processes
<1>3. o \in T!Owners /\ do \in {"reconcile", "decide", "finish"}
  BY <1>1, StagesAre DEF T!Owners
<1>4. /\ do = "decide" <=> stage = 3
      /\ do = "reconcile" <=> stage \in {1, 2}
      /\ do = "finish" <=> stage \in {4, 5}
  BY <1>1, StagesAre
<1> HIDE DEF do, o
<1>5. TurnTypes
  BY DEF TurnInv
<1>6. CASE do = "decide"
  <2>1. /\ todo' = {w \in T!Owners : T!Owed(known[w])} /\ stage' = stage + 1 /\ stage = 3
        /\ known' = [w \in T!Owners |-> [known[w] EXCEPT !.open = FALSE]]
        /\ UNCHANGED <<turnCall, turnOutcome>>
    BY <1>4, <1>6 DEF T!FinishStep, do, o
  <2>2. ASSUME NEW w \in T!Owners
        PROVE  /\ known'[w] \in Knowledge /\ known'[w].uncertain = known[w].uncertain
               /\ Knows(known'[w], documents[w], late[w])
    <3> DEFINE k == known[w]
               g == [k EXCEPT !.open = FALSE]
    <3>0. k \in Knowledge /\ Knows(k, documents[w], late[w])
      BY OwnerFacts
    <3>1. known'[w] = g
      BY <2>1
    <3> HIDE DEF k
    <3>2. g \in Knowledge /\ g.seg = k.seg /\ g.owed = k.owed /\ g.uncertain = k.uncertain /\ ~g.open
      BY <3>0 DEF Knowledge
    <3> HIDE DEF g
    <3>3. Knows(g, documents[w], late[w])
      BY <3>0, <3>2 DEF Knows, T!Reconciles
    <3> QED
      BY <3>1, <3>2, <3>3 DEF k
  <2>3. known' \in [T!Owners -> Knowledge]
    BY <2>1, <2>2
  <2>4. TurnTypes'
    BY <1>1, <1>5, <2>1, <2>3 DEF TurnTypes
  <2>5. ASSUME NEW w \in T!Owners
        PROVE  (DocFits(documents[w]) /\ Knows(known[w], documents[w], late[w]) /\ WorkerFits(w) /\ LateFits(w))'
    BY <1>1, <1>2, <2>1, <2>2 DEF TurnInv, DocFits, WorkerFits, LateFits
  <2>6. FinishFits' /\ TurnsEndAlone'
    BY <1>1, <1>2, <2>1 DEF TurnInv, FinishFits, TurnsEndAlone
  <2>7. ASSUME NEW w \in T!Owners, Certain(w) PROVE Certain(w)'
    <3>1. known[w].uncertain = "no" /\ Knows(known[w], documents[w], late[w])
      BY <2>7, OwnerFacts DEF Certain
    <3>2. documents[w].seg.state = "active" => known[w].open
      BY <2>1, <2>7 DEF Certain
    <3>3. documents[w].scope => known[w].owed
      BY <3>1 DEF Knows
    <3>4. documents[w].seg.state = "active" \/ documents[w].scope => w \in todo'
      BY <2>1, <3>2, <3>3 DEF T!Owed
    <3> QED
      BY <1>1, <2>1, <2>2, <3>1, <3>4 DEF Certain
  <2>8. StagesFit'
    BY <2>1, <2>7, <1>2 DEF TurnInv, StagesFit, T!Owners
  <2> QED
    BY <1>1, <2>4, <2>5, <2>6, <2>8 DEF TurnInv
<1>7. CASE (do = "reconcile" /\ T!Reconciles(known[o])) \/ (do = "finish" /\ o \in todo)
  <2> DEFINE k == known[o]
             c == IF T!Reconciles(k) THEN T!Reconcile(o, k) ELSE T!Call("finish", o, T!Expected(k), FALSE)
  <2>1. turnCall' = [turnCall EXCEPT !["finish"] = c] /\ UNCHANGED <<stage, todo, turnOutcome, known>>
    BY <1>7 DEF T!FinishStep, do, o
  <2>2. k \in Knowledge /\ Knows(k, documents[o], late[o]) /\ known' = [known EXCEPT ![o] = k]
    BY <1>3, <2>1, OwnerFacts
  <2>3. T!Expected(k) \in Nat
    BY <2>2 DEF T!Expected, Knowledge, T!Segments
  <2> HIDE DEF k
  <2>4. /\ c \in AllCalls /\ c.owner = o /\ ~c.done
        /\ \/ c.op = "probe"
           \/ c.op = "state" /\ k.uncertain = "no"
           \/ c.op = "finish" /\ ~T!Reconciles(k)
    <3>1. CASE T!Reconciles(k) /\ k.uncertain # "no"
      <4>1. c = T!Call("probe", o, 0, FALSE)
        BY <3>1 DEF T!Reconcile
      <4> HIDE DEF c
      <4>2. c \in AllCalls
        BY <4>1, <1>3, CallTypes DEF CallOps
      <4> QED
        BY <4>1, <4>2 DEF T!Call
    <3>2. CASE T!Reconciles(k) /\ k.uncertain = "no"
      <4>1. c = T!Call("state", o, 0, FALSE)
        BY <3>2 DEF T!Reconcile
      <4> HIDE DEF c
      <4> QED
        BY <4>1, <3>2, <1>3, CallTypes DEF T!Call, CallOps
    <3>3. CASE ~T!Reconciles(k)
      <4>1. c = T!Call("finish", o, T!Expected(k), FALSE)
        BY <3>3
      <4> QED
        BY <4>1, <3>3, <2>3, <1>3, CallTypes DEF T!Call, CallOps
    <3> QED
      BY <3>1, <3>2, <3>3
  <2> HIDE DEF c
  <2>5. CallFits(c, k, documents[o])
    BY <2>4 DEF CallFits, NamesSegment, T!Mutations, T!Reconciles
  <2>6. c.op \in {"probe", "state", "finish"} /\ (c.op = "finish" => stage \in {4, 5}) /\ stage \in {1, 2, 4, 5}
    BY <1>4, <1>7, <2>4 DEF k
  <2>7. o = T!Stages[stage][2] /\ k = known[o]
    BY DEF o, k
  <2>8. UNCHANGED <<shared, accepting, kind, stage, todo, turnOutcome, documents, late, unrecorded>>
    BY <1>1, <2>1
  <2> QED
    BY <1>2, <1>3, <2>1, <2>2, <2>4, <2>5, <2>6, <2>7, <2>8, FinishAsks
<1>8. CASE /\ do # "decide"
           /\ ~((do = "reconcile" /\ T!Reconciles(known[o])) \/ (do = "finish" /\ o \in todo))
  <2>1. /\ UNCHANGED known
        /\ IF stage = Len(T!Stages) THEN T!Ended("ok")
           ELSE stage' = stage + 1 /\ UNCHANGED <<todo, turnOutcome, turnCall>>
    BY <1>8 DEF T!FinishStep, do, o
  <2>2. /\ \/ stage = 5 /\ turnOutcome' = "ok" /\ stage' = 0 /\ todo' = {} /\ turnCall' = [turnCall EXCEPT !["finish"] = T!NoCall]
           \/ stage # 5 /\ stage' = stage + 1 /\ UNCHANGED <<todo, turnOutcome, turnCall>>
    BY <2>1, StagesAre DEF T!Ended
  <2> DEFINE k == known[o]
  <2>3. k \in Knowledge /\ Knows(k, documents[o], late[o]) /\ known' = [known EXCEPT ![o] = k]
    BY <1>3, <2>1, OwnerFacts
  <2>4. stage \in {1, 2, 4, 5} /\ o = T!Stages[stage][2]
    BY <1>1, <1>3, <1>4, <1>8 DEF o
  <2>5. stage \in {1, 2} => k.uncertain = "no" /\ documents[o].seg.state # "active"
    BY <1>4, <1>8, <2>3 DEF Knows, T!Reconciles
  <2>6. stage \in {4, 5} => Certain(o) /\ o \notin todo
    BY <1>3, <1>4, <1>8 DEF TurnInv, StagesFit, T!Owners
  <2>7. k.uncertain = "no"
    BY <2>4, <2>5, <2>6 DEF Certain
  <2>8. stage \in {4, 5} => ClosedFor(o)
    BY <2>3, <2>6, <2>7 DEF Certain, ClosedFor, Knows
  <2>9. CASE stage = 5
    <3>1. turnCall' = [turnCall EXCEPT !["finish"] = T!NoCall]
      BY <2>2, <2>9
    <3>2. UNCHANGED <<shared, accepting, kind, documents, late, unrecorded>>
      BY <1>1
    <3> HIDE DEF k
    <3> QED
      BY <1>2, <1>3, <2>2, <2>3, <2>4, <2>5, <2>7, <2>8, <2>9, <3>1, <3>2, ContinueFits
  <2>10. CASE stage # 5
    <3>1. stage' = stage + 1 /\ todo' = todo /\ turnOutcome' = turnOutcome /\ turnCall' = turnCall /\ known' = known
      BY <2>1, <2>2, <2>10
    <3>2. TurnTypes'
      BY <1>1, <1>5, <2>4, <2>10, <3>1 DEF TurnTypes
    <3>3. ASSUME NEW w \in T!Owners
          PROVE  (DocFits(documents[w]) /\ Knows(known[w], documents[w], late[w]) /\ WorkerFits(w) /\ LateFits(w))'
      BY <1>1, <3>1 DEF TurnInv, DocFits, WorkerFits, LateFits
    <3>4. FinishFits' /\ TurnsEndAlone'
      BY <1>1, <1>2, <3>1 DEF TurnInv, FinishFits, TurnsEndAlone
    <3>5. ASSUME NEW w \in T!Owners, Certain(w), stage # 3 PROVE Certain(w)'
      BY <3>5, <1>1, <2>4, <3>1 DEF Certain
    <3>6. ASSUME NEW w \in T!Owners, w = o, stage \in {1, 2} PROVE Certain(w)'
      <4>1. known'[w].uncertain = "no" /\ documents'[w].seg.state # "active" /\ stage' \in {2, 3}
        BY <3>6, <1>1, <2>5, <2>7, <3>1
      <4> QED
        BY <4>1 DEF Certain
    <3>7. ASSUME NEW w \in T!Owners, ClosedFor(w) PROVE ClosedFor(w)'
      BY <3>7, <1>1 DEF ClosedFor
    <3>8. StagesFit'
      <4>1. CASE stage = 1
        <5>1. o = "grasshopper"
          BY <4>1, StagesAre DEF o
        <5> QED
          BY <4>1, <5>1, <1>2, <3>1, <3>6 DEF StagesFit, T!Owners
      <4>2. CASE stage = 2
        <5>1. o = "rhino"
          BY <4>2, StagesAre DEF o
        <5> QED
          BY <4>2, <5>1, <1>2, <3>1, <3>5, <3>6 DEF TurnInv, StagesFit, T!Owners
      <4>3. CASE stage = 4
        <5>1. o = "grasshopper"
          BY <4>3, StagesAre DEF o
        <5> QED
          BY <4>3, <5>1, <1>2, <1>3, <3>1, <3>5, <3>7, <2>8 DEF TurnInv, StagesFit, T!Owners
      <4> QED
        BY <4>1, <4>2, <4>3, <2>4, <2>10
    <3> QED
      BY <1>1, <3>2, <3>3, <3>4, <3>8 DEF TurnInv
  <2> QED
    BY <2>9, <2>10
<1> QED
  BY <1>6, <1>7, <1>8

\* The end of a turn reads an answer.
LEMMA FinishReplyKeeps ==
    ASSUME TurnInv, T!FinishReply PROVE TurnInv'
<1> DEFINE c == turnCall["finish"]
           o == c.owner
           k == known[o]
           d == documents[o]
           l == late[o]
<1>1. c.done /\ c.op # "none"
  BY DEF T!FinishReply, TurnInv, FinishFits
<1>2. /\ o \in T!Owners /\ c \in AllCalls /\ CallFits(c, k, d) /\ turnOutcome = "none"
      /\ \A w \in T!Owners : turnCall[w].op = "none"
  BY <1>1, OneCall DEF T!Processes
<1>3. /\ stage \in {1, 2, 4, 5} /\ o = T!Stages[stage][2] /\ c.op \in {"probe", "state", "finish"}
      /\ c.op = "finish" => stage \in {4, 5}
  BY <1>1 DEF TurnInv, FinishFits
<1>4. /\ k \in Knowledge /\ d \in Docs /\ l \in AllCalls /\ shared \in BOOLEAN /\ DocFits(d) /\ Knows(k, d, l)
      /\ known' = known => known' = [known EXCEPT ![o] = k]
  BY <1>2, OwnerFacts
<1>5. Tells(c, k, d)
  BY <1>1, <1>2 DEF CallFits
<1>6. UNCHANGED <<shared, accepting, kind, documents, late, unrecorded>>
  BY DEF T!FinishReply
<1>7. T!Stages[stage][1] = "finish" <=> stage \in {4, 5}
  BY <1>3, StagesAre
<1> HIDE DEF c, o, k, d, l
<1>8. ASSUME NEW h \in Knowledge, T!Continue(h, o), Knows(h, d, l), h.uncertain = "no",
             stage \in {1, 2} /\ d.seg.state = "active" => h.open,
             stage \in {4, 5} => ClosedFor(o)
      PROVE  TurnInv'
  <2>1. known' = [known EXCEPT ![o] = h] /\ turnCall' = [turnCall EXCEPT !["finish"] = T!NoCall]
    BY <1>8 DEF T!Continue, T!Ended
  <2>2. \/ stage = 5 /\ turnOutcome' = "ok" /\ stage' = 0 /\ todo' = {}
        \/ stage # 5 /\ stage' = stage + 1 /\ UNCHANGED <<todo, turnOutcome>>
    BY <1>8, StagesAre DEF T!Continue, T!Ended
  <2>3. Knows(h, documents[o], late[o]) /\ (stage \in {1, 2} /\ documents[o].seg.state = "active" => h.open)
    BY <1>8 DEF d, l
  <2> QED
    BY <1>2, <1>3, <1>6, <1>8, <2>1, <2>2, <2>3, ContinueFits
<1>9. ASSUME NEW h \in Knowledge, NEW a \in AllCalls, Knows(h, d, l),
             a.op \in {"probe", "state", "finish"}, a.op = "finish" => stage \in {4, 5},
             a.owner = o, CallFits(a, h, d), h = k \/ (stage \in {4, 5} /\ h.uncertain = "no"),
             known' = [known EXCEPT ![o] = h], turnCall' = [turnCall EXCEPT !["finish"] = a],
             UNCHANGED <<stage, todo, turnOutcome>>
      PROVE  TurnInv'
  <2>1. Knows(h, documents[o], late[o]) /\ CallFits(a, h, documents[o])
    BY <1>9 DEF d, l
  <2>2. h = known[o] \/ (stage \in {4, 5} /\ h.uncertain = "no")
    BY <1>9 DEF k
  <2>3. UNCHANGED <<shared, accepting, kind, stage, todo, turnOutcome, documents, late, unrecorded>>
    BY <1>6, <1>9
  <2> QED
    BY <1>2, <1>3, <1>9, <2>1, <2>2, <2>3, FinishAsks
<1>10. CASE ~c.reply.ok
  <2>1. T!Ended("error") /\ known' = known
    BY <1>10 DEF T!FinishReply, c
  <2>2. /\ known' \in [T!Owners -> Knowledge] /\ late' \in [T!Owners -> AllCalls]
        /\ \A w \in T!Owners : Knows(known'[w], documents[w], late'[w]) /\ LateFits(w)'
    BY <1>6, <2>1 DEF TurnInv, TurnTypes, LateFits
  <2>3. /\ turnCall' = [turnCall EXCEPT !["finish"] = T!NoCall] /\ stage' = 0 /\ todo' = {} /\ turnOutcome' = "error"
    BY <2>1 DEF T!Ended
  <2>4. StagesFit'
    BY <2>3 DEF StagesFit
  <2> QED
    BY <1>2, <1>6, <2>2, <2>3, <2>4, FinishRests
<1>11. CASE c.reply.ok /\ c.op = "probe"
  <2> DEFINE a == T!Call("state", o, 0, FALSE)
  <2>1. turnCall' = [turnCall EXCEPT !["finish"] = a] /\ UNCHANGED <<known, stage, todo, turnOutcome>>
    BY <1>11 DEF T!FinishReply, c, o
  <2>2. a \in AllCalls /\ a.op = "state" /\ a.owner = o /\ ~a.done
    BY <1>2, CallTypes DEF T!Call, CallOps
  <2> HIDE DEF a
  <2>3. CallFits(a, k, d)
    BY <2>2, <1>5, <1>11 DEF CallFits, NamesSegment, Tells, T!Mutations
  <2> QED
    BY <1>4, <1>9, <2>1, <2>2, <2>3
<1>12. CASE c.reply.ok /\ c.op = "state"
  <2> DEFINE h == [T!Observe(k, c.reply) EXCEPT !.uncertain = "no"]
             a == T!Call("finish", o, T!Expected(h), FALSE)
  <2>1. IF T!Stages[stage][1] = "finish" /\ (h.seg.state = "active" \/ h.owed)
        THEN /\ turnCall' = [turnCall EXCEPT !["finish"] = a]
             /\ known' = [known EXCEPT ![o] = h] /\ UNCHANGED <<stage, todo, turnOutcome>>
        ELSE T!Continue(h, o)
    BY <1>12 DEF T!FinishReply, c, k, o
  <2>2. k.uncertain \in {"no", "done"}
    BY <1>2, <1>12 DEF CallFits
  <2>3. /\ h \in Knowledge /\ h.uncertain = "no" /\ h.seg = c.reply.seg /\ h.open = (c.reply.seg.state = "active")
        /\ shared => h.owed = c.reply.scope
        /\ Knows(h, d, l) /\ l.op = "none"
    BY <1>2, <1>4, <1>5, <1>12, <2>2, ObserveFits
  <2> HIDE DEF h
  <2>4. /\ d.seg.state = "active" => h.seg.state = "active" /\ h.open
        /\ d.scope => h.owed
    BY <2>3, <1>4, <1>5, <1>12 DEF Tells, DocFits
  <2>5. CASE stage \in {4, 5} /\ (h.seg.state = "active" \/ h.owed)
    <3>1. T!Expected(h) \in Nat
      BY <2>3 DEF T!Expected, Knowledge, T!Segments
    <3>2. a \in AllCalls /\ a.op = "finish" /\ a.owner = o /\ ~a.done
      BY <1>2, <3>1, CallTypes DEF T!Call, CallOps
    <3>3. /\ turnCall' = [turnCall EXCEPT !["finish"] = a] /\ known' = [known EXCEPT ![o] = h]
          /\ UNCHANGED <<stage, todo, turnOutcome>>
      BY <2>1, <2>5, <1>7
    <3> HIDE DEF a
    <3>4. CallFits(a, h, d)
      BY <2>3, <3>2 DEF CallFits, NamesSegment, T!Mutations
    <3> QED
      BY <1>9, <2>3, <2>5, <3>2, <3>3, <3>4
  <2>6. CASE ~(stage \in {4, 5} /\ (h.seg.state = "active" \/ h.owed))
    <3>1. T!Continue(h, o)
      BY <2>1, <2>6, <1>7
    <3>2. stage \in {4, 5} => ClosedFor(o)
      BY <2>3, <2>4, <2>6 DEF ClosedFor, d, l
    <3> QED
      BY <1>8, <2>3, <2>4, <3>1, <3>2
  <2> QED
    BY <2>5, <2>6
<1>13. CASE c.reply.ok /\ c.op = "finish"
  <2> DEFINE s == T!Settled(k)
             h == T!Observe(s, c.reply)
  <2>1. T!Continue(h, o)
    BY <1>13 DEF T!FinishReply, c, k, o
  <2>2. k.uncertain = "no" /\ l.op = "none"
    BY <1>2, <1>4, <1>13 DEF CallFits, T!Mutations, Knows
  <2>3. c.reply \in Replies /\ c.reply.seg \in T!Segments /\ c.reply.scope \in BOOLEAN
    BY <1>2 DEF AllCalls, Replies
  <2>4. s \in Knowledge /\ s.uncertain = "no"
    BY <1>4, <2>2 DEF T!Settled, Knowledge
  <2> HIDE DEF s
  <2>5. h \in Knowledge /\ h.uncertain = "no" /\ h.seg = c.reply.seg /\ h.open = (c.reply.seg.state = "active")
    BY <2>3, <2>4 DEF T!Observe, Knowledge
  <2> HIDE DEF h
  <2>6. d.seg.state # "active" /\ ~d.scope /\ Seen(d, c.reply.seg)
    BY <1>5, <1>13 DEF Tells
  <2>7. Knows(h, d, l)
    BY <2>2, <2>5, <2>6 DEF Knows
  <2>8. ClosedFor(o)
    BY <2>2, <2>6 DEF ClosedFor, d, l
  <2> QED
    BY <1>8, <2>1, <2>5, <2>6, <2>7, <2>8
<1> QED
  BY <1>3, <1>10, <1>11, <1>12, <1>13

\* The end of a turn gives a call up.
LEMMA FinishLosesKeeps ==
    ASSUME TurnInv, T!FinishLoses PROVE TurnInv'
<1>0. PICK o \in T!Owners : o = turnCall["finish"].owner
  BY DEF TurnInv, TurnTypes, T!Processes, AllCalls
<1>1. PICK fate \in T!Fate("finish") :
        /\ T!Lost("finish", fate) /\ T!Ended("error")
        /\ known' = [known EXCEPT ![o] = T!Uncertain(@, "finish", fate)]
  BY <1>0 DEF T!FinishLoses
<1>2. UNCHANGED <<shared, accepting, kind, documents>> /\ unrecorded' = unrecorded
  BY DEF T!FinishLoses
<1>3. o \in T!Owners /\ \A w \in T!Owners : turnCall[w].op = "none"
  BY <1>1, OneCall DEF T!Lost, T!Processes
<1> DEFINE u == T!Uncertain(known[o], "finish", fate)
           l == late'[o]
<1>4. /\ late' = [late EXCEPT ![o] = l] /\ l \in AllCalls
      /\ u \in Knowledge /\ Knows(u, documents[o], l)
      /\ l.op # "none" => l.owner = o /\ NamesSegment(l, documents[o])
  BY <1>0, <1>1, LostFits DEF T!Processes
<1>5. TurnTypes
  BY DEF TurnInv
<1>6. known' = [known EXCEPT ![o] = u]
  BY <1>1
<1> HIDE DEF u
<1>7. known'[o] = u /\ \A w \in T!Owners : w # o => known'[w] = known[w] /\ late'[w] = late[w]
  BY <1>3, <1>4, <1>5, <1>6 DEF TurnTypes
<1>8. known' \in [T!Owners -> Knowledge] /\ late' \in [T!Owners -> AllCalls]
  BY <1>3, <1>4, <1>5, <1>6 DEF TurnTypes
<1>9. \A w \in T!Owners : Knows(known'[w], documents[w], late'[w]) /\ LateFits(w)'
  <2>1. Knows(known'[o], documents[o], late'[o]) /\ LateFits(o)'
    BY <1>2, <1>4, <1>7 DEF LateFits
  <2>2. ASSUME NEW w \in T!Owners, w # o
        PROVE  Knows(known'[w], documents[w], late'[w]) /\ LateFits(w)'
    BY <2>2, <1>2, <1>7 DEF TurnInv, LateFits
  <2> QED
    BY <2>1, <2>2
<1>10. turnCall' = [turnCall EXCEPT !["finish"] = T!NoCall] /\ stage' = 0 /\ todo' = {} /\ turnOutcome' = "error"
  BY <1>1 DEF T!Ended
<1>11. StagesFit'
  BY <1>10 DEF StagesFit
<1> QED
  BY <1>2, <1>3, <1>8, <1>9, <1>10, <1>11, FinishRests

\* Every step of the model keeps the invariant.
LEMMA TurnInvInductive == TurnInv /\ [T!Next]_(T!vars) => TurnInv'
<1> SUFFICES ASSUME TurnInv, [T!Next]_(T!vars) PROVE TurnInv'
  OBVIOUS
<1>1. CASE UNCHANGED T!vars
  <2>1. /\ UNCHANGED <<shared, accepting, stage, todo, turnOutcome, known, kind, turnCall, documents, late>>
        /\ unrecorded' = unrecorded
    BY <1>1 DEF T!vars
  <2>2. TurnTypes'
    BY <2>1 DEF TurnInv, TurnTypes
  <2>3. ASSUME NEW w \in T!Owners
        PROVE  (DocFits(documents[w]) /\ Knows(known[w], documents[w], late[w]) /\ WorkerFits(w) /\ LateFits(w))'
    BY <2>1 DEF TurnInv, DocFits, WorkerFits, LateFits
  <2>4. FinishFits' /\ TurnsEndAlone' /\ StagesFit'
    BY <2>1 DEF TurnInv, FinishFits, TurnsEndAlone, T!Idle, StagesFit, Certain, ClosedFor
  <2> QED
    BY <2>1, <2>2, <2>3, <2>4 DEF TurnInv
<1>2. CASE T!Next
  BY <1>2, ExecuteKeeps, AnswerProbeKeeps, ExecuteLateKeeps, ExternalKeeps, WorkerReplyKeeps,
     WorkerLosesKeeps, InvokeKeeps, BeginTurnKeeps, FinishTurnKeeps, FinishStepKeeps, FinishReplyKeeps,
     FinishLosesKeeps DEF T!Next
<1> QED
  BY <1>1, <1>2

\* What the invariant says of the edits of a turn.
LEMMA TurnInvAccounts == TurnInv => T!TurnAccountsForEdits
<1> SUFFICES ASSUME TurnInv PROVE T!TurnAccountsForEdits
  OBVIOUS
<1>1. ASSUME NEW o \in T!Owners, turnOutcome = "ok" PROVE ClosedFor(o)
  BY <1>1 DEF TurnInv, StagesFit, T!Owners
<1>2. ASSUME NEW o \in T!Owners, ClosedFor(o), shared
      PROVE  ~documents[o].record /\ ~documents[o].scope /\ documents[o].seg.state = "idle"
  BY <1>2 DEF TurnInv, DocFits, ClosedFor
<1>3. ASSUME NEW o \in T!Owners, documents[o].scope
      PROVE  known[o].owed \/ known[o].uncertain # "no"
  BY <1>3 DEF TurnInv, Knows
<1> QED
  BY <1>1, <1>2, <1>3 DEF T!TurnAccountsForEdits, TurnInv, ClosedFor

\* Inside the composed behaviour the edits of a turn run as they do alone.
LEMMA TurnBehaves == TransportSpec => T!Spec
<1>1. TransportInit => T!Init
  BY DEF TransportInit
<1>2. [TransportNext]_all => [T!Next]_(T!vars)
  BY DEF TransportNext, all, turnVars, T!vars, T!bounds
<1> QED
  BY <1>1, <1>2, PTL DEF TransportSpec, T!Spec

\* An edit that a turn sent while it accepted edits ran inside a native transaction; a turn
\* that ended well left nothing open and nothing under way that could open it; and the host
\* knows of every scope the fence holds for it, whatever is lost, executed late, fails
\* natively or is done by a person in between.
THEOREM EditsAccountedFor == TransportSpec => []TurnAccountsForEdits
<1>1. T!Init => TurnInv
  BY TurnStarts
<1>2. TurnInv /\ [T!Next]_(T!vars) => TurnInv'
  BY TurnInvInductive
<1>3. TurnInv => TurnAccountsForEdits
  BY TurnInvAccounts DEF TurnAccountsForEdits
<1> QED
  BY <1>1, <1>2, <1>3, TurnBehaves, PTL DEF T!Spec

-----------------------------------------------------------------------------
(***************************************************************************)
(* The tool policy.  z stands for who shares the settings and what can     *)
(* happen to them.                                                         *)
(***************************************************************************)


\* The settings, a change of the key, a tool call and what a model was offered.
SettingsRecord(z) ==
    [epoch : Nat, revision : Nat, on : SUBSET (Policy(z)!Gates \cup {"plugin"}),
     since : [Policy(z)!Gates -> Nat], generation : Nat, key : Nat]
KeyChange ==
    [at : {"write", "publish", "undo", "replaced"}, version : Nat \X Nat, old : Nat,
     generation : Nat, own : Nat, enable : BOOLEAN]
ToolCall ==
    [at : {"checked", "keyed", "sent"}, tool : Tools,
     basis : [epoch : Nat, generation : Nat, key : Nat, needs : BOOLEAN]]
Session == [epoch : Nat, revision : Nat, active : SUBSET Tools]
PolicyTypes(z) ==
    /\ file \in SettingsRecord(z)
    /\ session \in [Policy(z)!Processes -> Session]
    /\ offered \in [Policy(z)!Processes -> SUBSET Tools]
    /\ toolCall \in [Policy(z)!Processes -> {Policy(z)!NoStep} \cup ToolCall]
    /\ save \in [Policy(z)!Processes -> {Policy(z)!NoStep, [at |-> "delete"]} \cup KeyChange]
    /\ pending \in [Policy(z)!Processes -> SUBSET (1 .. used)]
    /\ revoked \in SUBSET (1 .. used)
    /\ used \in Nat
    /\ epochs \in 0 .. z.epoch

\* What a model was offered with the settings of now, and was not switched on since, is
\* offered still.
OfferFits(z, r) ==
    /\ session[r] = Policy(z)!Blocked \/ session[r].epoch <= epochs
    /\ session[r].epoch = file.epoch => session[r].revision <= file.revision
    /\ session[r].epoch = file.epoch =>
         \A t \in session[r].active :
           (\A g \in Policy(z)!GatesOf(t) : file.since[g] <= session[r].revision) => t \in offered[r]

\* A key that is on its way is nobody else's; the settings keep the one they refer to.
Unpublished(r) == save[r].at \in {"write", "publish", "undo"}
Changes(r) == save[r] \in KeyChange
SaveFits(z, r) ==
    /\ Changes(r) => save[r].old <= used /\ save[r].own \in 1 .. used /\ save[r].version[1] <= epochs
    /\ Unpublished(r) => save[r].own # file.key
    /\ \A q \in Policy(z)!Processes : Unpublished(r) => save[r].own \notin pending[q]
    /\ \A q \in Policy(z)!Processes : Unpublished(r) /\ Unpublished(q)
       /\ q # r => save[r].own # save[q].own
    /\ \A q \in Policy(z)!Processes : Unpublished(r) /\ Changes(q) => save[r].own # save[q].old
    /\ save[r].at = "publish" => save[r].own \in keyEntries
    /\ save[r].at = "replaced" => save[r].old # file.key \/ save[r].old = Policy(z)!NoKey
    /\ Unpublished(r) /\ save[r].version[1] = file.epoch => save[r].own \notin revoked
    /\ file.key \notin pending[r]
KeyFits(z) ==
    /\ file.key <= used
    /\ file.key \notin revoked
    /\ file.key # Policy(z)!NoKey => file.key \in keyEntries
    /\ file.epoch <= epochs

PolicyInv(z) ==
    /\ PolicyTypes(z)
    /\ KeyFits(z)
    /\ \A r \in Policy(z)!Processes : OfferFits(z, r) /\ SaveFits(z, r)

-----------------------------------------------------------------------------
\* The largest of a tool's two gates' stamps bounds both.
LEMMA LastOnBounds ==
    ASSUME NEW z, file.since \in [Policy(z)!Gates -> Nat], NEW t \in Tools, NEW n \in Nat,
           Policy(z)!LastOn(t) <= n
    PROVE  \A g \in Policy(z)!GatesOf(t) : file.since[g] <= n
<1> DEFINE b == IF t \in KeyTools THEN "plugin" ELSE "builtin"
           stamps == {file.since[g] : g \in Policy(z)!GatesOf(t)}
           x == file.since[t]
           y == file.since[b]
<1>1. Policy(z)!GatesOf(t) = {t, b} /\ t \in Policy(z)!Gates /\ b \in Policy(z)!Gates
  BY DEF Policy!GatesOf, Policy!Gates
<1>2. x \in Nat /\ y \in Nat /\ stamps = {x, y}
  BY <1>1
<1> HIDE DEF b, stamps, x, y
<1>3. \E m \in stamps : \A k \in stamps : m >= k
  <2>1. CASE x >= y
    <3>1. x \in stamps /\ \A k \in stamps : x >= k
      BY <1>2, <2>1
    <3> QED
      BY <3>1
  <2>2. CASE y >= x
    <3>1. y \in stamps /\ \A k \in stamps : y >= k
      BY <1>2, <2>2
    <3> QED
      BY <3>1
  <2> QED
    BY <2>1, <2>2, <1>2
<1>4. Policy(z)!Max(stamps) \in stamps /\ \A k \in stamps : Policy(z)!Max(stamps) >= k
  BY <1>3 DEF Policy!Max
<1>5. Policy(z)!LastOn(t) = Policy(z)!Max(stamps)
  BY DEF Policy!LastOn, stamps
<1>6. \A k \in stamps : k <= n
  BY <1>2, <1>4, <1>5
<1> QED
  BY <1>6 DEF stamps

\* The records are what they look like.
LEMMA PolicyShapes ==
    ASSUME NEW z
    PROVE  /\ Policy(z)!NoStep.at = "none"
           /\ \A k \in KeyChange : k # Policy(z)!NoStep /\ k # [at |-> "delete"]
              /\ k.at \in {"write", "publish", "undo", "replaced"}
           /\ \A k \in {Policy(z)!NoStep, [at |-> "delete"]} : k.at \in {"none", "delete"}
           /\ \A c \in ToolCall : c.at \in {"checked", "keyed", "sent"} /\ c # Policy(z)!NoStep
           /\ \A e \in Nat : Policy(z)!Defaults(e) \in SettingsRecord(z)
           /\ \A e \in Nat : Policy(z)!Defaults(e).key = Policy(z)!NoKey
              /\ Policy(z)!Defaults(e).epoch = e
  BY DEF Policy!NoStep, KeyChange, ToolCall, Policy!Defaults, SettingsRecord, Policy!NoKey

\* Which saves are in progress.
LEMMA Saving ==
    ASSUME NEW z, PolicyTypes(z), NEW r \in Policy(z)!Processes,
           save[r].at \in {"write", "publish", "undo", "replaced"}
    PROVE  Changes(r)
  BY PolicyShapes DEF PolicyTypes, Changes

\* A step that leaves the keys and the settings alone.
LEMMA KeysRest ==
    ASSUME NEW z, PolicyInv(z), UNCHANGED <<file, revoked, epochs, keyEntries, save, pending, used>>
    PROVE  KeyFits(z)' /\ \A r \in Policy(z)!Processes : SaveFits(z, r)'
  BY DEF PolicyInv, KeyFits, SaveFits, Unpublished, Changes

\* A step that leaves the settings and what was offered alone.
LEMMA OffersRest ==
    ASSUME NEW z, PolicyInv(z), UNCHANGED <<file, epochs, session, offered>>
    PROVE  \A r \in Policy(z)!Processes : OfferFits(z, r)'
  BY DEF PolicyInv, OfferFits

\* A new revision takes from the model what it stamps.
LEMMA CommitFits ==
    ASSUME NEW z, PolicyInv(z), NEW r, NEW p \in SettingsRecord(z), NEW stamped,
           Policy(z)!Commit(r, p, stamped),
           p.epoch = file.epoch, \A g \in Policy(z)!Gates \ stamped : p.since[g] = file.since[g],
           UNCHANGED <<epochs, session>>
    PROVE  /\ file' \in SettingsRecord(z) /\ file'.key = p.key /\ file'.epoch = file.epoch
           /\ file'.revision = file.revision + 1
           /\ offered' \in [Policy(z)!Processes -> SUBSET Tools]
           /\ revoked' = IF p.key = file.key THEN revoked ELSE revoked \cup ({file.key} \ {Policy(z)!NoKey})
           /\ \A o \in Policy(z)!Processes : OfferFits(z, o)'
<1> DEFINE n == file.revision + 1
           since == [g \in Policy(z)!Gates |-> IF g \in stamped THEN n ELSE p.since[g]]
<1>0. PolicyTypes(z) /\ file \in SettingsRecord(z) /\ file.revision \in Nat /\ n \in Nat
  BY DEF PolicyInv, PolicyTypes, SettingsRecord
<1>1. since \in [Policy(z)!Gates -> Nat]
  BY <1>0 DEF SettingsRecord
<1>2. file' = [p EXCEPT !.revision = n, !.since = since]
  BY DEF Policy!Commit, SettingsRecord
<1>3. /\ offered' = [o \in Policy(z)!Processes |-> {t \in offered[o] : Policy(z)!GatesOf(t) \cap stamped = {}}]
      /\ revoked' = IF p.key = file.key THEN revoked ELSE revoked \cup ({file.key} \ {Policy(z)!NoKey})
  BY DEF Policy!Commit
<1>4. \A g \in Policy(z)!Gates : since[g] = IF g \in stamped THEN n ELSE file.since[g]
  OBVIOUS
<1> HIDE DEF since, n
<1>5. /\ file' \in SettingsRecord(z) /\ file'.key = p.key /\ file'.epoch = file.epoch
         /\ file'.revision = n
      /\ file'.since = since
  BY <1>0, <1>1, <1>2 DEF SettingsRecord
<1>6. offered' \in [Policy(z)!Processes -> SUBSET Tools]
  BY <1>0, <1>3 DEF PolicyTypes
<1>7. ASSUME NEW o \in Policy(z)!Processes PROVE OfferFits(z, o)'
  <2>0. OfferFits(z, o) /\ session[o] \in Session /\ session[o].revision \in Nat
    BY <1>0 DEF PolicyInv, PolicyTypes, Session
  <2>1. session[o].epoch = file.epoch => session[o].revision < n
    BY <2>0, <1>0 DEF OfferFits, n
  <2>2. ASSUME session[o].epoch = file.epoch, NEW t \in session[o].active,
               \A g \in Policy(z)!GatesOf(t) : since[g] <= session[o].revision
        PROVE  t \in offered'[o]
    <3>1. t \in Tools /\ Policy(z)!GatesOf(t) \subseteq Policy(z)!Gates
      BY <2>0 DEF Session, Policy!Gates
    <3>2. \A g \in Policy(z)!GatesOf(t) : g \notin stamped /\ since[g] = file.since[g]
      BY <2>0, <2>1, <2>2, <3>1, <1>0, <1>4
    <3>3. t \in offered[o]
      BY <2>0, <2>2, <3>2 DEF OfferFits
    <3> QED
      BY <3>2, <3>3, <1>3
  <2>3. session[o].epoch = file.epoch => session[o].revision <= n
    BY <2>0, <2>1, <1>0
  <2> QED
    BY <2>0, <2>2, <2>3, <1>5 DEF OfferFits
<1> QED
  BY <1>3, <1>5, <1>6, <1>7 DEF n

\* A step that takes the key out of the settings, or leaves it in them.
LEMMA KeyOut ==
    ASSUME NEW z, PolicyInv(z), file'.key \in {file.key, Policy(z)!NoKey}, file'.epoch = file.epoch,
           revoked' \in SUBSET (1 .. used),
           revoked' \subseteq revoked \cup {file.key},
           file'.key # Policy(z)!NoKey => revoked' = revoked,
           UNCHANGED <<epochs, keyEntries, save, pending, used>>
    PROVE  KeyFits(z)' /\ \A r \in Policy(z)!Processes : SaveFits(z, r)'
<1>0. PolicyTypes(z) /\ KeyFits(z) /\ used \in Nat
  BY DEF PolicyInv, PolicyTypes
<1>1. KeyFits(z)'
  BY <1>0 DEF KeyFits, Policy!NoKey
<1>2. ASSUME NEW r \in Policy(z)!Processes PROVE SaveFits(z, r)'
  <2>0. SaveFits(z, r) /\ pending[r] \subseteq 1 .. used
    BY <1>0 DEF PolicyInv, PolicyTypes
  <2>1. Unpublished(r) => Changes(r)
    BY <1>0, Saving DEF Unpublished
  <2>2. Unpublished(r) => save[r].own # file'.key
    BY <2>0, <2>1, <1>0 DEF SaveFits, Policy!NoKey
  <2>3. save[r].at = "replaced" => save[r].old # file'.key \/ save[r].old = Policy(z)!NoKey
    BY <2>0 DEF SaveFits
  <2>4. Unpublished(r) /\ save[r].version[1] = file'.epoch => save[r].own \notin revoked'
    BY <2>0 DEF SaveFits
  <2>5. file'.key \notin pending[r]
    BY <2>0, <1>0 DEF SaveFits, Policy!NoKey
  <2> QED
    BY <2>0, <2>2, <2>3, <2>4, <2>5 DEF SaveFits, Unpublished, Changes
<1> QED
  BY <1>1, <1>2

\* Settings of a new epoch offer nothing and hold no key.
LEMMA NewEpochFits ==
    ASSUME NEW z, PolicyInv(z), Policy(z)!NewEpoch,
           UNCHANGED <<session, keyEntries, save, pending, used, toolCall>>, z.epoch \in Nat
    PROVE  PolicyInv(z)'
<1>0. PolicyTypes(z) /\ KeyFits(z) /\ epochs \in 0 .. z.epoch /\ used \in Nat
  BY DEF PolicyInv, PolicyTypes
<1>1. /\ epochs < z.epoch /\ epochs' = epochs + 1 /\ file' = Policy(z)!Defaults(epochs + 1)
      /\ offered' = [o \in Policy(z)!Processes |-> {}] /\ revoked' = 1 .. used
  BY DEF Policy!NewEpoch, Policy!Each
<1>2. file' \in SettingsRecord(z) /\ file'.key = Policy(z)!NoKey /\ file'.epoch = epochs + 1
  BY <1>0, <1>1, PolicyShapes
<1>3. PolicyTypes(z)'
  BY <1>0, <1>1, <1>2 DEF PolicyTypes
<1>4. KeyFits(z)'
  BY <1>0, <1>1, <1>2 DEF KeyFits, Policy!NoKey
<1>5. ASSUME NEW r \in Policy(z)!Processes PROVE OfferFits(z, r)'
  <2>0. OfferFits(z, r) /\ session[r] \in Session /\ session[r].epoch \in Nat
    BY <1>0 DEF PolicyInv, PolicyTypes, Session
  <2>1. session[r].epoch # epochs + 1
    <3>1. Policy(z)!Blocked.epoch = z.epoch + 1
      BY DEF Policy!Blocked
    <3> QED
      BY <2>0, <3>1, <1>0, <1>1 DEF OfferFits
  <2> QED
    BY <2>0, <2>1, <1>0, <1>1, <1>2 DEF OfferFits
<1>6. ASSUME NEW r \in Policy(z)!Processes PROVE SaveFits(z, r)'
  <2>0. SaveFits(z, r) /\ pending[r] \subseteq 1 .. used
    BY <1>0 DEF PolicyInv, PolicyTypes
  <2>1. Unpublished(r) => Changes(r)
    BY <1>0, Saving DEF Unpublished
  <2>2. Changes(r) => save[r].version[1] \in Nat /\ save[r].version[1] <= epochs
    BY <2>0 DEF SaveFits, Changes, KeyChange
  <2>3. Unpublished(r) => save[r].own # Policy(z)!NoKey /\ save[r].version[1] # epochs + 1
    BY <2>0, <2>1, <2>2, <1>0 DEF SaveFits, Policy!NoKey
  <2>4. Policy(z)!NoKey \notin pending[r]
    BY <2>0, <1>0 DEF Policy!NoKey
  <2>5. Changes(r) => save[r].version[1] <= epochs'
    BY <2>2, <1>0, <1>1
  <2>6. save[r].at = "replaced" => save[r].old # Policy(z)!NoKey \/ save[r].old = Policy(z)!NoKey
    OBVIOUS
  <2> QED
    BY <2>0, <2>3, <2>4, <2>5, <2>6, <1>1, <1>2 DEF SaveFits, Unpublished, Changes
<1> QED
  BY <1>3, <1>4, <1>5, <1>6 DEF PolicyInv

\* A step of a tool call, or one that concerns neither keys, settings nor offers.
LEMMA ToolCallFits ==
    ASSUME NEW z, PolicyInv(z),
           UNCHANGED <<file, revoked, epochs, keyEntries, save, pending, used, session, offered>>,
           toolCall' \in [Policy(z)!Processes -> {Policy(z)!NoStep} \cup ToolCall]
    PROVE  PolicyInv(z)'
<1>1. PolicyTypes(z)'
  BY DEF PolicyInv, PolicyTypes
<1>2. KeyFits(z)' /\ \A r \in Policy(z)!Processes : SaveFits(z, r)'
  BY KeysRest
<1>3. \A r \in Policy(z)!Processes : OfferFits(z, r)'
  BY OffersRest
<1> QED
  BY <1>1, <1>2, <1>3 DEF PolicyInv

\* The model of an agent is offered tools for the settings of now, or none at all.
LEMMA OfferedFits ==
    ASSUME NEW z, PolicyInv(z), NEW r \in Policy(z)!Processes, NEW s \in Session,
           NEW x \in SUBSET Tools,
           (s = Policy(z)!Blocked /\ z.epoch \in Nat)
           \/ (s.epoch = file.epoch /\ s.revision = file.revision),
           s.active \subseteq x,
           session' = [session EXCEPT ![r] = s], offered' = [offered EXCEPT ![r] = x],
           UNCHANGED <<file, epochs>>
    PROVE  /\ session' \in [Policy(z)!Processes -> Session]
              /\ offered' \in [Policy(z)!Processes -> SUBSET Tools]
           /\ \A o \in Policy(z)!Processes : OfferFits(z, o)'
<1>0. PolicyTypes(z) /\ KeyFits(z) /\ epochs \in 0 .. z.epoch /\ file.revision \in Nat
      /\ file.epoch \in Nat
  BY DEF PolicyInv, PolicyTypes, SettingsRecord
<1>1. session' \in [Policy(z)!Processes -> Session]
      /\ offered' \in [Policy(z)!Processes -> SUBSET Tools]
  BY <1>0 DEF PolicyTypes
<1>2. ASSUME NEW o \in Policy(z)!Processes PROVE OfferFits(z, o)'
  <2>1. CASE o = r
    <3>1. session'[o] = s /\ offered'[o] = x
      BY <2>1, <1>0 DEF PolicyTypes
    <3>2. CASE s = Policy(z)!Blocked /\ z.epoch \in Nat
      <4>1. s.epoch = z.epoch + 1
        BY <3>2 DEF Policy!Blocked
      <4>2. s.epoch # file.epoch
        BY <3>2, <4>1, <1>0 DEF KeyFits
      <4> QED
        BY <3>1, <3>2, <4>2 DEF OfferFits
    <3>3. CASE s.epoch = file.epoch /\ s.revision = file.revision
      BY <3>1, <3>3, <1>0 DEF OfferFits, KeyFits
    <3> QED
      BY <3>2, <3>3
  <2>2. CASE o # r
    <3>1. session'[o] = session[o] /\ offered'[o] = offered[o]
      BY <2>2, <1>0 DEF PolicyTypes
    <3> QED
      BY <3>1 DEF PolicyInv, OfferFits
  <2> QED
    BY <2>1, <2>2
<1> QED
  BY <1>1, <1>2

\* The initial states satisfy the invariant.
LEMMA PolicyStarts == ASSUME NEW z, Policy(z)!Init, z.epoch \in Nat PROVE PolicyInv(z)
<1> USE DEF Policy!Init, Policy!Each
<1>1. used \in {0, 1} /\ keyEntries = 1 .. used
      /\ file = (IF used = 1 THEN Policy(z)!Configured ELSE Policy(z)!Defaults(0))
  OBVIOUS
<1>2. /\ file \in SettingsRecord(z) /\ file.epoch = 0 /\ file.key = used
  <2>1. Policy(z)!Defaults(0) \in SettingsRecord(z) /\ Policy(z)!Defaults(0).epoch = 0
        /\ Policy(z)!Defaults(0).key = 0
    BY PolicyShapes DEF Policy!NoKey
  <2>2. Policy(z)!Configured \in SettingsRecord(z) /\ Policy(z)!Configured.epoch = 0
        /\ Policy(z)!Configured.key = 1
    <3> DEFINE d == Policy(z)!Defaults(0)
               s == [d.since EXCEPT !["plugin"] = 1]
    <3>1. Policy(z)!Configured = [d EXCEPT !.revision = 1, !.on = Policy(z)!Gates, !.since = s,
                                           !.generation = 1, !.key = 1]
      BY DEF Policy!Configured
    <3>2. d.since \in [Policy(z)!Gates -> Nat]
      BY <2>1 DEF SettingsRecord
    <3>3. s \in [Policy(z)!Gates -> Nat]
      BY <3>2
    <3>4. d \in SettingsRecord(z) /\ d.epoch = 0
      BY <2>1
    <3> HIDE DEF d, s
    <3>5. [d EXCEPT !.revision = 1, !.on = Policy(z)!Gates, !.since = s, !.generation = 1, !.key = 1]
            \in SettingsRecord(z)
      BY <3>3, <3>4 DEF SettingsRecord
    <3> QED
      BY <3>1, <3>4, <3>5 DEF SettingsRecord
  <2> QED
    BY <2>1, <2>2, <1>1
<1>3. Policy(z)!Blocked \in Session
  BY DEF Policy!Blocked, Session
<1>4. PolicyTypes(z)
  BY <1>1, <1>2, <1>3 DEF PolicyTypes
<1>5. KeyFits(z)
  BY <1>1, <1>2 DEF KeyFits, Policy!NoKey
<1>6. ASSUME NEW r \in Policy(z)!Processes PROVE OfferFits(z, r) /\ SaveFits(z, r)
  <2>1. session[r] = Policy(z)!Blocked /\ Policy(z)!Blocked.epoch = z.epoch + 1
        /\ save[r] = Policy(z)!NoStep /\ pending[r] = {}
    BY DEF Policy!Blocked
  <2>2. \A q \in Policy(z)!Processes : pending[q] = {}
    OBVIOUS
  <2>3. OfferFits(z, r)
    BY <2>1, <1>2 DEF OfferFits
  <2>4. ~Changes(r) /\ save[r].at = "none"
    BY <2>1, PolicyShapes DEF Changes
  <2>5. SaveFits(z, r)
    BY <2>1, <2>4 DEF SaveFits, Unpublished
  <2> QED
    BY <2>3, <2>5
<1> QED
  BY <1>4, <1>5, <1>6 DEF PolicyInv

-----------------------------------------------------------------------------
\* One lemma for each step.
LEMMA DamageKeeps == ASSUME NEW z, PolicyInv(z), Policy(z)!Damage PROVE PolicyInv(z)'
<1>1. /\ UNCHANGED <<file, revoked, epochs, keyEntries, save, pending, used, session, offered>>
         /\ toolCall' = toolCall
  BY DEF Policy!Damage, Policy!agent, Policy!key
<1> QED
  BY <1>1, ToolCallFits DEF PolicyInv, PolicyTypes

\* The first write starts an epoch, or is interrupted after the marker.
LEMMA InitializeKeeps ==
    ASSUME NEW z, PolicyInv(z), NEW r \in Policy(z)!Processes, Policy(z)!Initialize(r),
           z.epoch \in Nat PROVE PolicyInv(z)'
<1>1. UNCHANGED <<session, keyEntries, save, pending, used, toolCall>>
  BY DEF Policy!Initialize, Policy!key
<1>2. CASE Policy(z)!NewEpoch
  BY <1>1, <1>2, NewEpochFits
<1>3. CASE UNCHANGED <<file, epochs, offered, revoked>>
  <2>1. UNCHANGED <<file, revoked, epochs, keyEntries, save, pending, used, session, offered>>
    BY <1>1, <1>3
  <2> QED
    BY <1>1, <2>1, ToolCallFits DEF PolicyInv, PolicyTypes
<1> QED
  BY <1>2, <1>3 DEF Policy!Initialize

\* A repair starts an epoch.
LEMMA RepairKeeps ==
    ASSUME NEW z, PolicyInv(z), NEW r \in Policy(z)!Processes, Policy(z)!Repair(r), z.epoch \in Nat
    PROVE PolicyInv(z)'
<1>1. UNCHANGED <<session, keyEntries, save, pending, used, toolCall>> /\ Policy(z)!NewEpoch
  BY DEF Policy!Repair, Policy!key
<1> QED
  BY <1>1, NewEpochFits

\* What a window shows concerns no key and no offer.
LEMMA SeeKeeps == ASSUME NEW z, PolicyInv(z), NEW r \in Policy(z)!Processes, Policy(z)!See(r)
  PROVE PolicyInv(z)'
<1>1. /\ UNCHANGED <<file, revoked, epochs, keyEntries, save, pending, used, session, offered>>
         /\ toolCall' = toolCall
  BY DEF Policy!See, Policy!agent, Policy!key
<1> QED
  BY <1>1, ToolCallFits DEF PolicyInv, PolicyTypes

\* A change of the settings that keeps the key, or takes it out.
LEMMA ChangeFits ==
    ASSUME NEW z, PolicyInv(z), NEW r, NEW p \in SettingsRecord(z), NEW stamped,
           Policy(z)!Commit(r, p, stamped),
           p.epoch = file.epoch, \A g \in Policy(z)!Gates \ stamped : p.since[g] = file.since[g],
           p.key \in {file.key, Policy(z)!NoKey},
           UNCHANGED <<epochs, session, keyEntries, save, pending, used, toolCall>>
    PROVE  PolicyInv(z)'
<1>1. /\ file' \in SettingsRecord(z) /\ file'.key = p.key /\ file'.epoch = file.epoch
      /\ offered' \in [Policy(z)!Processes -> SUBSET Tools]
      /\ revoked' = IF p.key = file.key THEN revoked ELSE revoked \cup ({file.key} \ {Policy(z)!NoKey})
      /\ \A o \in Policy(z)!Processes : OfferFits(z, o)'
  <2>1. UNCHANGED <<epochs, session>>
    OBVIOUS
  <2> QED
    BY <2>1, CommitFits
<1>2. PolicyTypes(z) /\ KeyFits(z) /\ used \in Nat /\ file.key \in Nat
  BY DEF PolicyInv, PolicyTypes, SettingsRecord
<1>3. /\ revoked' \in SUBSET (1 .. used) /\ revoked' \subseteq revoked \cup {file.key}
      /\ file'.key # Policy(z)!NoKey => revoked' = revoked
  <2>0. revoked \in SUBSET (1 .. used) /\ file.key <= used
    BY <1>2 DEF PolicyTypes, KeyFits
  <2>1. CASE p.key = file.key
    BY <1>1, <2>0, <2>1
  <2>2. CASE p.key # file.key
    <3>1. p.key = Policy(z)!NoKey /\ revoked' = revoked \cup ({file.key} \ {Policy(z)!NoKey})
      BY <1>1, <2>2
    <3>2. {file.key} \ {Policy(z)!NoKey} \subseteq 1 .. used
      BY <1>2, <2>0 DEF Policy!NoKey
    <3> QED
      BY <1>1, <2>0, <3>1, <3>2
  <2> QED
    BY <2>1, <2>2
<1>4. KeyFits(z)' /\ \A o \in Policy(z)!Processes : SaveFits(z, o)'
  BY <1>1, <1>3, KeyOut
<1>5. PolicyTypes(z)'
  BY <1>1, <1>2, <1>3 DEF PolicyTypes
<1> QED
  BY <1>1, <1>4, <1>5 DEF PolicyInv

\* A conflict changes only what the window shows.
LEMMA ConflictFits ==
    ASSUME NEW z, PolicyInv(z), NEW r, Policy(z)!Conflict(r),
           UNCHANGED <<epochs, session, keyEntries, save, pending, used, toolCall>>
    PROVE  PolicyInv(z)'
<1>1. UNCHANGED <<file, revoked, epochs, keyEntries, save, pending, used, session, offered>>
  BY DEF Policy!Conflict
<1> QED
  BY <1>1, ToolCallFits DEF PolicyInv, PolicyTypes

\* One gate is switched; the key stays.
LEMMA PatchKeeps ==
    ASSUME NEW z, PolicyInv(z), NEW r \in Policy(z)!Processes, NEW g \in Policy(z)!Gates,
           NEW on \in BOOLEAN, Policy(z)!Patch(r, g, on)
    PROVE  PolicyInv(z)'
<1> DEFINE gates == IF on THEN file.on \cup {g} ELSE file.on \ {g}
           p == [file EXCEPT !.on = gates]
<1>0. file \in SettingsRecord(z)
  BY DEF PolicyInv, PolicyTypes
<1>1. p \in SettingsRecord(z) /\ p.epoch = file.epoch /\ p.since = file.since /\ p.key = file.key
  <2>1. gates \in SUBSET (Policy(z)!Gates \cup {"plugin"})
    BY <1>0 DEF SettingsRecord
  <2> HIDE DEF gates
  <2> QED
    BY <1>0, <2>1 DEF SettingsRecord
<1>2. UNCHANGED <<epochs, session, keyEntries, save, pending, used, toolCall>>
  BY DEF Policy!Patch, Policy!key
<1>3. CASE Policy(z)!Commit(r, p, Policy(z)!Opens(p))
  <2> HIDE DEF p
  <2> QED
    BY <1>1, <1>2, <1>3, ChangeFits
<1>4. CASE Policy(z)!Conflict(r)
  BY <1>2, <1>4, ConflictFits
<1> QED
  BY <1>3, <1>4 DEF Policy!Patch

\* A reset takes the key out and stamps every gate.
LEMMA ResetKeeps == ASSUME NEW z, PolicyInv(z), NEW r \in Policy(z)!Processes, Policy(z)!Reset(r)
  PROVE PolicyInv(z)'
<1> DEFINE d == Policy(z)!Defaults(file.epoch)
           p == [d EXCEPT !.revision = file.revision, !.generation = file.generation + 1]
<1>0. file \in SettingsRecord(z) /\ file.epoch \in Nat /\ file.revision \in Nat
      /\ file.generation \in Nat
  BY DEF PolicyInv, PolicyTypes, SettingsRecord
<1>1. p \in SettingsRecord(z) /\ p.epoch = file.epoch /\ p.key = Policy(z)!NoKey
  <2>1. d \in SettingsRecord(z) /\ d.epoch = file.epoch /\ d.key = Policy(z)!NoKey
    BY <1>0, PolicyShapes
  <2>2. file.generation + 1 \in Nat
    BY <1>0
  <2> DEFINE m == file.generation + 1
  <2> HIDE DEF d, m
  <2>3. p = [d EXCEPT !.revision = file.revision, !.generation = m]
    BY DEF m
  <2> QED
    BY <1>0, <2>1, <2>2, <2>3 DEF SettingsRecord, m
<1>2. UNCHANGED <<epochs, session, keyEntries, save, pending, used, toolCall>>
  BY DEF Policy!Reset, Policy!key
<1>3. CASE Policy(z)!Commit(r, p, Policy(z)!Gates)
  <2> HIDE DEF p
  <2> QED
    BY <1>1, <1>2, <1>3, ChangeFits
<1>4. CASE Policy(z)!Conflict(r)
  BY <1>2, <1>4, ConflictFits
<1> QED
  BY <1>3, <1>4 DEF Policy!Reset

-----------------------------------------------------------------------------
(* The agent. *)

\* A new session: blocked, or offered what the settings allow.
LEMMA SessionFits ==
    ASSUME NEW z, PolicyInv(z), NEW r \in Policy(z)!Processes, NEW s \in Session,
           NEW x \in SUBSET Tools,
           (s = Policy(z)!Blocked /\ z.epoch \in Nat)
           \/ (s.epoch = file.epoch /\ s.revision = file.revision),
           s.active \subseteq x,
           session' = [session EXCEPT ![r] = s], offered' = [offered EXCEPT ![r] = x],
           toolCall' \in [Policy(z)!Processes -> {Policy(z)!NoStep} \cup ToolCall],
           UNCHANGED <<file, revoked, epochs, keyEntries, save, pending, used>>
    PROVE  PolicyInv(z)'
<1>1. UNCHANGED <<file, epochs>>
  OBVIOUS
<1>2. /\ session' \in [Policy(z)!Processes -> Session]
         /\ offered' \in [Policy(z)!Processes -> SUBSET Tools]
      /\ \A o \in Policy(z)!Processes : OfferFits(z, o)'
  BY <1>1, OfferedFits
<1>3. KeyFits(z)' /\ \A o \in Policy(z)!Processes : SaveFits(z, o)'
  BY KeysRest
<1>4. PolicyTypes(z)'
  BY <1>2 DEF PolicyInv, PolicyTypes
<1> QED
  BY <1>2, <1>3, <1>4 DEF PolicyInv

\* A step that only asks, waits or answers.
LEMMA AgentRests ==
    ASSUME NEW z, PolicyInv(z),
           UNCHANGED <<file, revoked, epochs, keyEntries, save, pending, used, session, offered>>,
           toolCall' = toolCall
    PROVE  PolicyInv(z)'
BY ToolCallFits DEF PolicyInv, PolicyTypes

\* Nobody is offered anything in a blocked session.
LEMMA BlockedIs == ASSUME NEW z, z.epoch \in Nat
  PROVE Policy(z)!Blocked \in Session /\ Policy(z)!Blocked.active = {}
BY DEF Policy!Blocked, Session

\* A refresh waits, or blocks the session when the settings cannot be read.
LEMMA RefreshKeeps ==
    ASSUME NEW z, PolicyInv(z), NEW r \in Policy(z)!Processes, Policy(z)!Refresh(r),
           z.epoch \in Nat PROVE PolicyInv(z)'
<1>1. UNCHANGED <<file, revoked, epochs, keyEntries, save, pending, used>> /\ toolCall' = toolCall
  BY DEF Policy!Refresh, Policy!key
<1>2. CASE UNCHANGED <<session, offered>>
  BY <1>1, <1>2, AgentRests
<1>3. CASE session' = [session EXCEPT ![r] = Policy(z)!Blocked] /\ offered' = [offered EXCEPT ![r] = {}]
  <2>1. toolCall' \in [Policy(z)!Processes -> {Policy(z)!NoStep} \cup ToolCall]
    BY <1>1 DEF PolicyInv, PolicyTypes
  <2>2. Policy(z)!Blocked \in Session /\ Policy(z)!Blocked.active \subseteq {} /\ {} \in SUBSET Tools
    BY BlockedIs
  <2> QED
    BY <1>1, <1>3, <2>1, <2>2, SessionFits
<1> QED
  BY <1>2, <1>3 DEF Policy!Refresh

\* A refresh offers what the settings allow when it is applied.
LEMMA ApplyRefreshKeeps == ASSUME NEW z, PolicyInv(z), NEW r \in Policy(z)!Processes,
            Policy(z)!ApplyRefresh(r)
  PROVE PolicyInv(z)'
<1> DEFINE active == Policy(z)!Offer(r, {a.tool : a \in Policy(z)!Kept(r)},
                                     Policy(z)!StatusNow(refresh[r].basis, refresh[r].status))
           s == [epoch |-> file.epoch, revision |-> file.revision, active |-> active]
<1>1. UNCHANGED <<file, revoked, epochs, keyEntries, save, pending, used>> /\ toolCall' = toolCall
  BY DEF Policy!ApplyRefresh, Policy!key
<1>2. CASE UNCHANGED <<session, offered>>
  BY <1>1, <1>2, AgentRests
<1>3. CASE session' = [session EXCEPT ![r] = s] /\ offered' = [offered EXCEPT ![r] = active]
  <2>1. toolCall' \in [Policy(z)!Processes -> {Policy(z)!NoStep} \cup ToolCall]
    BY <1>1 DEF PolicyInv, PolicyTypes
  <2>2. active \in SUBSET Tools
    BY DEF Policy!Offer
  <2>3. file.epoch \in Nat /\ file.revision \in Nat
    BY DEF PolicyInv, PolicyTypes, SettingsRecord
  <2> HIDE DEF active
  <2>4. s \in Session /\ s.epoch = file.epoch /\ s.revision = file.revision /\ s.active \subseteq active
    BY <2>2, <2>3 DEF Session
  <2> HIDE DEF s
  <2> QED
    BY <1>1, <1>3, <2>1, <2>2, <2>4, SessionFits
<1> QED
  BY <1>2, <1>3 DEF Policy!ApplyRefresh

\* The watcher forgets activations only.
LEMMA ObserveKeeps == ASSUME NEW z, PolicyInv(z), NEW r \in Policy(z)!Processes, Policy(z)!Observe(r)
  PROVE PolicyInv(z)'
BY AgentRests DEF Policy!Observe, Policy!key

\* An activation asks the key store.
LEMMA ActivateKeeps ==
    ASSUME NEW z, PolicyInv(z), NEW r \in Policy(z)!Processes, NEW t \in Tools,
           Policy(z)!Activate(r, t) PROVE PolicyInv(z)'
BY AgentRests DEF Policy!Activate, Policy!key

\* An activation that is answered offers nothing yet.
LEMMA ActivatedKeeps == ASSUME NEW z, PolicyInv(z), NEW r \in Policy(z)!Processes,
            Policy(z)!Activated(r)
  PROVE PolicyInv(z)'
<1>1. UNCHANGED <<file, revoked, epochs, keyEntries, save, pending, used, session, offered>>
      /\ toolCall' = toolCall
  BY DEF Policy!Activated, Policy!key
<1> QED
  BY <1>1, AgentRests

\* What a call may become.
LEMMA BasisKind == ASSUME NEW z, PolicyInv(z)
  PROVE Policy(z)!Basis \in [epoch : Nat, generation : Nat, key : Nat, needs : BOOLEAN]
<1>1. file.epoch \in Nat /\ file.generation \in Nat /\ file.key \in Nat
  BY DEF PolicyInv, PolicyTypes, SettingsRecord
<1>2. Policy(z)!Needs(file) \in BOOLEAN
  BY DEF Policy!Needs
<1> QED
  BY <1>1, <1>2 DEF Policy!Basis

\* A call that is denied, has read its key or is sent keeps its kind.
LEMMA CallSteps ==
    ASSUME NEW z, PolicyInv(z), NEW r \in Policy(z)!Processes
    PROVE  /\ Policy(z)!Denied(r) => toolCall' \in [Policy(z)!Processes -> {Policy(z)!NoStep} \cup ToolCall]
           /\ toolCall[r] \in ToolCall /\ toolCall' = [toolCall EXCEPT ![r].at = "keyed"] =>
                toolCall' \in [Policy(z)!Processes -> {Policy(z)!NoStep} \cup ToolCall]
           /\ \A k \in Nat : toolCall[r] \in ToolCall /\ Policy(z)!Sent(r, k) =>
                /\ toolCall' \in [Policy(z)!Processes -> {Policy(z)!NoStep} \cup ToolCall]
                /\ toolCall'[r].basis.key = k
           /\ toolCall[r].at \in {"checked", "keyed", "sent"} => toolCall[r] \in ToolCall
<1>0. toolCall \in [Policy(z)!Processes -> {Policy(z)!NoStep} \cup ToolCall]
  BY DEF PolicyInv, PolicyTypes
<1>1. Policy(z)!Denied(r) => toolCall' \in [Policy(z)!Processes -> {Policy(z)!NoStep} \cup ToolCall]
  BY <1>0 DEF Policy!Denied
<1>2. ASSUME toolCall[r] \in ToolCall, toolCall' = [toolCall EXCEPT ![r].at = "keyed"]
      PROVE  toolCall' \in [Policy(z)!Processes -> {Policy(z)!NoStep} \cup ToolCall]
  <2>1. [toolCall[r] EXCEPT !.at = "keyed"] \in ToolCall
    BY <1>2 DEF ToolCall
  <2> QED
    BY <1>0, <1>2, <2>1
<1>3. ASSUME NEW k \in Nat, toolCall[r] \in ToolCall, Policy(z)!Sent(r, k)
      PROVE  toolCall' \in [Policy(z)!Processes -> {Policy(z)!NoStep} \cup ToolCall]
             /\ toolCall'[r].basis.key = k
  <2> DEFINE b == [toolCall[r].basis EXCEPT !.key = k]
             c == [toolCall[r] EXCEPT !.at = "sent", !.basis = b]
  <2>1. b \in [epoch : Nat, generation : Nat, key : Nat, needs : BOOLEAN] /\ b.key = k
    BY <1>3 DEF ToolCall
  <2>2. toolCall' = [toolCall EXCEPT ![r] = c]
    BY <1>0, <1>3 DEF Policy!Sent
  <2> HIDE DEF b
  <2>3. c \in ToolCall /\ c.basis = b
    BY <1>3, <2>1 DEF ToolCall
  <2> HIDE DEF c
  <2> QED
    BY <1>0, <2>1, <2>2, <2>3
<1>4. toolCall[r].at \in {"checked", "keyed", "sent"} => toolCall[r] \in ToolCall
  BY <1>0, PolicyShapes
<1> QED
  BY <1>1, <1>2, <1>3, <1>4

\* A call is checked.
LEMMA CallKeeps == ASSUME NEW z, PolicyInv(z), NEW r \in Policy(z)!Processes, NEW t \in Tools,
            Policy(z)!Call(r, t)
  PROVE PolicyInv(z)'
<1> DEFINE c == [at |-> "checked", tool |-> t, basis |-> Policy(z)!Basis]
<1>1. UNCHANGED <<file, revoked, epochs, keyEntries, save, pending, used, session, offered>>
  BY DEF Policy!Call, Policy!key
<1>2. toolCall' = [toolCall EXCEPT ![r] = c]
  BY DEF Policy!Call
<1>3. c \in ToolCall
  BY BasisKind DEF ToolCall
<1> HIDE DEF c
<1>4. toolCall' \in [Policy(z)!Processes -> {Policy(z)!NoStep} \cup ToolCall]
  BY <1>2, <1>3 DEF PolicyInv, PolicyTypes
<1> QED
  BY <1>1, <1>4, ToolCallFits

\* A call without a key is sent or denied.
LEMMA AdmitKeeps == ASSUME NEW z, PolicyInv(z), NEW r \in Policy(z)!Processes, Policy(z)!Admit(r)
  PROVE PolicyInv(z)'
<1>1. UNCHANGED <<file, revoked, epochs, keyEntries, save, pending, used, session, offered>>
  BY DEF Policy!Admit, Policy!key
<1>2. toolCall[r] \in ToolCall
  BY CallSteps DEF Policy!Admit
<1>3. Policy(z)!Sent(r, Policy(z)!NoKey) \/ Policy(z)!Denied(r)
  BY DEF Policy!Admit
<1>4. toolCall' \in [Policy(z)!Processes -> {Policy(z)!NoStep} \cup ToolCall]
  BY <1>2, <1>3, CallSteps DEF Policy!NoKey
<1> QED
  BY <1>1, <1>4, ToolCallFits

\* A call has read its key.
LEMMA ReadKeyKeeps == ASSUME NEW z, PolicyInv(z), NEW r \in Policy(z)!Processes, Policy(z)!ReadKey(r)
  PROVE PolicyInv(z)'
<1>1. UNCHANGED <<file, revoked, epochs, keyEntries, save, pending, used, session, offered>>
  BY DEF Policy!ReadKey, Policy!key, Policy!settings
<1>2. toolCall[r] \in ToolCall
  BY CallSteps DEF Policy!ReadKey
<1>3. toolCall' = [toolCall EXCEPT ![r].at = "keyed"] \/ Policy(z)!Denied(r)
  BY DEF Policy!ReadKey
<1>4. toolCall' \in [Policy(z)!Processes -> {Policy(z)!NoStep} \cup ToolCall]
  BY <1>2, <1>3, CallSteps
<1> QED
  BY <1>1, <1>4, ToolCallFits

\* A call with a key is sent or denied.
LEMMA AdmitPluginKeeps == ASSUME NEW z, PolicyInv(z), NEW r \in Policy(z)!Processes,
            Policy(z)!AdmitPlugin(r)
  PROVE PolicyInv(z)'
<1>1. UNCHANGED <<file, revoked, epochs, keyEntries, save, pending, used, session, offered>>
  BY DEF Policy!AdmitPlugin, Policy!key
<1>2. toolCall[r] \in ToolCall
  BY CallSteps DEF Policy!AdmitPlugin
<1>3. toolCall[r].basis.key \in Nat
  BY <1>2 DEF ToolCall
<1>4. Policy(z)!Sent(r, toolCall[r].basis.key) \/ Policy(z)!Denied(r)
  BY DEF Policy!AdmitPlugin
<1>5. toolCall' \in [Policy(z)!Processes -> {Policy(z)!NoStep} \cup ToolCall]
  BY <1>2, <1>3, <1>4, CallSteps
<1> QED
  BY <1>1, <1>5, ToolCallFits

\* A call returns.
LEMMA ReturnsKeeps == ASSUME NEW z, PolicyInv(z), NEW r \in Policy(z)!Processes, Policy(z)!Returns(r)
  PROVE PolicyInv(z)'
<1>1. UNCHANGED <<file, revoked, epochs, keyEntries, save, pending, used, session, offered>>
  BY DEF Policy!Returns, Policy!key, Policy!settings
<1>2. toolCall' \in [Policy(z)!Processes -> {Policy(z)!NoStep} \cup ToolCall]
  BY CallSteps DEF Policy!Returns
<1> QED
  BY <1>1, <1>2, ToolCallFits

\* A rebound agent starts with a blocked session.
LEMMA RebindKeeps ==
    ASSUME NEW z, PolicyInv(z), NEW r \in Policy(z)!Processes, Policy(z)!Rebind(r), z.epoch \in Nat
    PROVE PolicyInv(z)'
<1>1. UNCHANGED <<file, revoked, epochs, keyEntries, save, pending, used>>
  BY DEF Policy!Rebind, Policy!key, Policy!settings
<1>2. session' = [session EXCEPT ![r] = Policy(z)!Blocked] /\ offered' = [offered EXCEPT ![r] = {}]
  BY DEF Policy!Rebind, Policy!Forgets
<1>3. toolCall' \in [Policy(z)!Processes -> {Policy(z)!NoStep} \cup ToolCall]
  BY DEF Policy!Rebind, Policy!Forgets, PolicyInv, PolicyTypes
<1>4. Policy(z)!Blocked \in Session /\ Policy(z)!Blocked.active \subseteq {} /\ {} \in SUBSET Tools
  BY BlockedIs
<1> QED
  BY <1>1, <1>2, <1>3, <1>4, SessionFits

-----------------------------------------------------------------------------
(* The key. *)
\* A step of process r leaves it with save s and the entries `left` to delete.
Others(z, r, s, left) ==
    \A q \in Policy(z)!Processes \ {r} :
      /\ Unpublished(q) => /\ save[q].own \notin left /\ save[q].own # file'.key
                           /\ s \in KeyChange => save[q].own # s.old
                           /\ save[q].version[1] = file.epoch => save[q].own \notin revoked'
      /\ save[q].at = "publish" => save[q].own \in keyEntries'
      /\ save[q].at = "replaced" => save[q].old # file'.key \/ save[q].old = Policy(z)!NoKey
      /\ file'.key \notin pending[q]
Own(z, r, s, left) ==
    /\ s \in {Policy(z)!NoStep, [at |-> "delete"]} \cup KeyChange /\ left \in SUBSET (1 .. used')
    /\ s \in KeyChange => s.old <= used' /\ s.own \in 1 .. used' /\ s.version[1] <= epochs
    /\ s.at \in {"write", "publish", "undo"} =>
         /\ s.own # file'.key /\ s.own # s.old /\ s.own \notin left
         /\ s.version[1] = file.epoch => s.own \notin revoked'
         /\ \A q \in Policy(z)!Processes \ {r} :
              /\ s.own \notin pending[q]
              /\ Unpublished(q) => s.own # save[q].own
              /\ Changes(q) => s.own # save[q].old
    /\ s.at = "publish" => s.own \in keyEntries'
    /\ s.at = "replaced" => s.old # file'.key \/ s.old = Policy(z)!NoKey
    /\ file'.key \notin left

\* A step that leaves its own save fit and does not disturb the others keeps the invariant.
LEMMA KeyMoves ==
    ASSUME NEW z, PolicyInv(z), NEW r \in Policy(z)!Processes, NEW s, NEW left, Own(z, r, s, left),
           Others(z, r, s, left),
           save' = [save EXCEPT ![r] = s], pending' = [pending EXCEPT ![r] = left],
           used' \in Nat, used <= used', epochs' = epochs, KeyFits(z)',
           file' \in SettingsRecord(z), file'.epoch = file.epoch, revoked' \in SUBSET (1 .. used'),
           session' \in [Policy(z)!Processes -> Session],
           offered' \in [Policy(z)!Processes -> SUBSET Tools],
           toolCall' \in [Policy(z)!Processes -> {Policy(z)!NoStep} \cup ToolCall],
           \A o \in Policy(z)!Processes : OfferFits(z, o)'
    PROVE  PolicyInv(z)'
<1>0. PolicyTypes(z) /\ used \in Nat
  BY DEF PolicyInv, PolicyTypes
<1>1. s \in {Policy(z)!NoStep, [at |-> "delete"]} \cup KeyChange /\ left \in SUBSET (1 .. used')
  BY DEF Own
<1>2. /\ save'[r] = s /\ pending'[r] = left
      /\ \A q \in Policy(z)!Processes \ {r} : save'[q] = save[q] /\ pending'[q] = pending[q]
  BY <1>0 DEF PolicyTypes
<1>3. PolicyTypes(z)'
  <2>1. save' \in [Policy(z)!Processes -> {Policy(z)!NoStep, [at |-> "delete"]} \cup KeyChange]
    BY <1>0, <1>1 DEF PolicyTypes
  <2>2. \A q \in Policy(z)!Processes : pending[q] \in SUBSET (1 .. used')
    BY <1>0 DEF PolicyTypes
  <2>3. pending' \in [Policy(z)!Processes -> SUBSET (1 .. used')]
    BY <1>0, <1>1, <2>2 DEF PolicyTypes
  <2> QED
    BY <1>0, <2>1, <2>3 DEF PolicyTypes
<1>4. \A q \in Policy(z)!Processes : save[q].at \in {"write", "publish", "undo"} => save[q] \in KeyChange
  BY <1>0, Saving DEF Changes
<1>5. s.at \in {"write", "publish", "undo"} => s \in KeyChange
  BY <1>1, PolicyShapes
<1>6. \A q \in Policy(z)!Processes : SaveFits(z, q)
  BY DEF PolicyInv
<1>7. ASSUME NEW o \in Policy(z)!Processes PROVE SaveFits(z, o)'
  <2>1. CASE o = r
    <3>1. Changes(o)' => s.old <= used' /\ s.own \in 1 .. used' /\ s.version[1] <= epochs
      BY <2>1, <1>2 DEF Changes, Own
    <3>2. ASSUME Unpublished(o)'
          PROVE  /\ s.own # file'.key
                 /\ \A q \in Policy(z)!Processes : s.own \notin pending'[q]
                 /\ \A q \in Policy(z)!Processes : Unpublished(q)' /\ q # r => s.own # save'[q].own
                 /\ \A q \in Policy(z)!Processes : Changes(q)' => s.own # save'[q].old
                 /\ s.version[1] = file.epoch => s.own \notin revoked'
      <4>1. s.at \in {"write", "publish", "undo"}
        BY <3>2, <2>1, <1>2 DEF Unpublished
      <4>2. /\ s.own # file'.key /\ s.own # s.old /\ s.own \notin left
            /\ s.version[1] = file.epoch => s.own \notin revoked'
            /\ \A q \in Policy(z)!Processes \ {r} :
                 /\ s.own \notin pending[q]
                 /\ Unpublished(q) => s.own # save[q].own
                 /\ Changes(q) => s.own # save[q].old
        BY <4>1 DEF Own
      <4> QED
        BY <4>2, <1>2 DEF Unpublished, Changes
    <3>3. /\ s.at = "publish" => s.own \in keyEntries'
          /\ s.at = "replaced" => s.old # file'.key \/ s.old = Policy(z)!NoKey
          /\ file'.key \notin left
      BY DEF Own
    <3> QED
      BY <2>1, <3>1, <3>2, <3>3, <1>2 DEF SaveFits
  <2>2. CASE o # r
    <3>0. save'[o] = save[o] /\ pending'[o] = pending[o] /\ o \in Policy(z)!Processes \ {r}
      BY <2>2, <1>2
    <3>1. Changes(o) => save[o].old <= used' /\ save[o].own \in 1 .. used'
          /\ save[o].version[1] <= epochs
      BY <1>0, <1>6 DEF SaveFits, Changes, KeyChange
    <3>2. ASSUME Unpublished(o)
          PROVE  /\ save[o].own # file'.key
                 /\ \A q \in Policy(z)!Processes : save[o].own \notin pending'[q]
                 /\ \A q \in Policy(z)!Processes : Unpublished(q)'
                    /\ q # o => save[o].own # save'[q].own
                 /\ \A q \in Policy(z)!Processes : Changes(q)' => save[o].own # save'[q].old
                 /\ save[o].version[1] = file.epoch => save[o].own \notin revoked'
      <4>1. /\ save[o].own \notin left /\ save[o].own # file'.key
            /\ s \in KeyChange => save[o].own # s.old
            /\ save[o].version[1] = file.epoch => save[o].own \notin revoked'
        BY <3>0, <3>2 DEF Others
      <4>2. s.at \in {"write", "publish", "undo"} => save[o].own # s.own
        BY <3>0, <3>2 DEF Own
      <4>3. /\ \A q \in Policy(z)!Processes : save[o].own \notin pending[q]
            /\ \A q \in Policy(z)!Processes : Unpublished(q) /\ q # o => save[o].own # save[q].own
            /\ \A q \in Policy(z)!Processes : Changes(q) => save[o].own # save[q].old
        BY <3>2, <1>6 DEF SaveFits
      <4>4. \A q \in Policy(z)!Processes : save[o].own \notin pending'[q]
        BY <4>1, <4>3, <1>2
      <4>5. \A q \in Policy(z)!Processes : Unpublished(q)' /\ q # o => save[o].own # save'[q].own
        BY <4>2, <4>3, <1>2 DEF Unpublished
      <4>6. \A q \in Policy(z)!Processes : Changes(q)' => save[o].own # save'[q].old
        BY <4>1, <4>3, <1>2 DEF Changes
      <4> QED
        BY <4>1, <4>4, <4>5, <4>6
    <3>3. /\ save[o].at = "publish" => save[o].own \in keyEntries'
          /\ save[o].at = "replaced" => save[o].old # file'.key \/ save[o].old = Policy(z)!NoKey
          /\ file'.key \notin pending[o]
      BY <3>0 DEF Others
    <3>4. Unpublished(o)' = Unpublished(o) /\ Changes(o)' = Changes(o)
      BY <3>0 DEF Unpublished, Changes
    <3> QED
      BY <3>0, <3>1, <3>2, <3>3, <3>4 DEF SaveFits
  <2> QED
    BY <2>1, <2>2
<1> QED
  BY <1>3, <1>7 DEF PolicyInv

\* While the settings stay, what was offered stays.
LEMMA KeyMovesOnly ==
    ASSUME NEW z, PolicyInv(z), NEW r \in Policy(z)!Processes, NEW s, NEW left, Own(z, r, s, left),
           Others(z, r, s, left),
           save' = [save EXCEPT ![r] = s], pending' = [pending EXCEPT ![r] = left],
           used' \in Nat, used <= used', UNCHANGED <<file, revoked, epochs, session, offered, toolCall>>,
           file.key # Policy(z)!NoKey => file.key \in keyEntries'
    PROVE  PolicyInv(z)'
<1>0. PolicyTypes(z) /\ KeyFits(z) /\ used \in Nat /\ file.key \in Nat
  BY DEF PolicyInv, PolicyTypes, SettingsRecord
<1>1. KeyFits(z)'
  BY <1>0 DEF KeyFits
<1>2. /\ file' \in SettingsRecord(z) /\ file'.epoch = file.epoch /\ revoked' \in SUBSET (1 .. used')
      /\ session' \in [Policy(z)!Processes -> Session]
         /\ offered' \in [Policy(z)!Processes -> SUBSET Tools]
      /\ toolCall' \in [Policy(z)!Processes -> {Policy(z)!NoStep} \cup ToolCall]
  BY <1>0 DEF PolicyTypes
<1>3. \A o \in Policy(z)!Processes : OfferFits(z, o)'
  <2>1. UNCHANGED <<file, epochs, session, offered>>
    OBVIOUS
  <2> QED
    BY <2>1, OffersRest
<1>4. epochs' = epochs
  OBVIOUS
<1> QED
  BY <1>1, <1>2, <1>3, <1>4, KeyMoves

\* What a save and what is left to delete may be.
LEMMA SaveKinds ==
    ASSUME NEW z, PolicyInv(z), NEW r \in Policy(z)!Processes
    PROVE  /\ save[r] \in {Policy(z)!NoStep, [at |-> "delete"]} \cup KeyChange
           /\ Unpublished(r) => save[r] \in KeyChange
           /\ save[r].at = "replaced" => save[r] \in KeyChange
           /\ pending[r] \in SUBSET (1 .. used) /\ used \in Nat
           /\ save[r] \in KeyChange => save[r].old \in Nat /\ save[r].own \in Nat
              /\ save[r].version[1] \in Nat
           /\ SaveFits(z, r) /\ KeyFits(z) /\ file \in SettingsRecord(z) /\ file.key \in Nat
           /\ revoked \in SUBSET (1 .. used) /\ epochs \in Nat
<1>1. PolicyTypes(z) /\ SaveFits(z, r) /\ KeyFits(z)
  BY DEF PolicyInv
<1>2. save[r] \in {Policy(z)!NoStep, [at |-> "delete"]} \cup KeyChange
  BY <1>1 DEF PolicyTypes
<1>3. /\ Unpublished(r) => save[r] \in KeyChange
      /\ save[r].at = "replaced" => save[r] \in KeyChange
  BY <1>1, Saving DEF Unpublished, Changes
<1>4. save[r] \in KeyChange => save[r].old \in Nat /\ save[r].own \in Nat /\ save[r].version[1] \in Nat
  BY DEF KeyChange
<1>5. /\ pending[r] \in SUBSET (1 .. used) /\ used \in Nat /\ file \in SettingsRecord(z)
         /\ file.key \in Nat
      /\ revoked \in SUBSET (1 .. used) /\ epochs \in Nat
  BY <1>1 DEF PolicyTypes, SettingsRecord
<1> QED
  BY <1>1, <1>2, <1>3, <1>4, <1>5

\* A save moves on.
LEMMA Stages ==
    ASSUME NEW z, NEW c \in KeyChange, NEW at \in {"write", "publish", "undo", "replaced"}
    PROVE  /\ [c EXCEPT !.at = at] \in KeyChange /\ [c EXCEPT !.at = at].at = at
           /\ [c EXCEPT !.at = at].own = c.own /\ [c EXCEPT !.at = at].old = c.old
           /\ [c EXCEPT !.at = at].version = c.version
BY DEF KeyChange

\* A save takes an entry nobody has used.
LEMMA SaveKeeps ==
    ASSUME NEW z, PolicyInv(z), NEW r \in Policy(z)!Processes, NEW enable \in BOOLEAN,
           Policy(z)!Save(r, enable) PROVE PolicyInv(z)'
<1> DEFINE s == [at |-> "write", version |-> seen[r], old |-> file.key,
                 generation |-> file.generation, own |-> used + 1, enable |-> enable]
<1>0. PolicyTypes(z) /\ KeyFits(z) /\ used \in Nat /\ file \in SettingsRecord(z)
  BY DEF PolicyInv, PolicyTypes
<1>1. /\ save' = [save EXCEPT ![r] = s] /\ pending' = pending /\ used' = used + 1
         /\ keyEntries' = keyEntries
      /\ UNCHANGED <<file, revoked, epochs, session, offered, toolCall>> /\ Policy(z)!Matches(seen[r])
  BY DEF Policy!Save, Policy!agent
<1>2. seen[r] = <<file.epoch, file.revision>>
  BY <1>1 DEF Policy!Matches, Policy!Version
<1>3. /\ s \in KeyChange /\ s.at = "write" /\ s.own = used + 1 /\ s.old = file.key
      /\ s.version[1] = file.epoch
  BY <1>0, <1>2 DEF KeyChange, SettingsRecord
<1> HIDE DEF s
<1>4. pending' = [pending EXCEPT ![r] = pending[r]]
  BY <1>0, <1>1 DEF PolicyTypes
<1>5. ASSUME NEW q \in Policy(z)!Processes
      PROVE  /\ Unpublished(q) => Changes(q) /\ save[q].own # file.key
             /\ Changes(q) => save[q].own <= used /\ save[q].old <= used
             /\ pending[q] \subseteq 1 .. used /\ file.key \notin pending[q]
             /\ Unpublished(q) /\ save[q].version[1] = file.epoch => save[q].own \notin revoked
             /\ Unpublished(q) => save[q].own \notin pending[r]
             /\ save[q].at = "publish" => save[q].own \in keyEntries
             /\ save[q].at = "replaced" => save[q].old # file.key \/ save[q].old = Policy(z)!NoKey
             /\ Changes(q) => save[q].own \in Nat /\ save[q].old \in Nat
  <2>1. SaveFits(z, q)
    BY DEF PolicyInv
  <2>2. Unpublished(q) => Changes(q)
    BY SaveKinds DEF Changes
  <2>3. Changes(q) => save[q].own \in Nat /\ save[q].old \in Nat /\ save[q].own <= used
    <3>1. Changes(q) => save[q].own \in Nat /\ save[q].old \in Nat
      BY SaveKinds DEF Changes
    <3>2. Changes(q) => save[q].own \in 1 .. used
      BY <2>1 DEF SaveFits
    <3> QED
      BY <3>1, <3>2, <1>0
  <2>4. pending[q] \subseteq 1 .. used
    BY SaveKinds
  <2> QED
    BY <2>1, <2>2, <2>3, <2>4 DEF SaveFits
<1>6. Own(z, r, s, pending[r])
  <2>1. pending[r] \in SUBSET (1 .. used') /\ used + 1 \notin pending[r] /\ file'.key \notin pending[r]
    BY <1>0, <1>1, <1>5
  <2>2. /\ s.old <= used' /\ s.own \in 1 .. used' /\ s.version[1] <= epochs
        /\ s.own # file'.key /\ s.own # s.old /\ s.own \notin revoked'
    BY <1>0, <1>1, <1>3 DEF KeyFits, PolicyTypes, SettingsRecord
  <2>3. \A q \in Policy(z)!Processes \ {r} :
          /\ s.own \notin pending[q]
          /\ Unpublished(q) => s.own # save[q].own
          /\ Changes(q) => s.own # save[q].old
    BY <1>0, <1>3, <1>5
  <2> QED
    BY <1>3, <2>1, <2>2, <2>3 DEF Own
<1>7. Others(z, r, s, pending[r])
  BY <1>1, <1>3, <1>5 DEF Others
<1>8. used' \in Nat /\ used <= used' /\ (file.key # Policy(z)!NoKey => file.key \in keyEntries')
  BY <1>0, <1>1 DEF KeyFits
<1> QED
  BY <1>1, <1>4, <1>6, <1>7, <1>8, KeyMovesOnly

\* What is known of the others, as long as the settings stay.
LEMMA OthersRest ==
    ASSUME NEW z, PolicyInv(z), NEW r \in Policy(z)!Processes, NEW s, NEW left,
           file' = file, revoked' = revoked,
           \A q \in Policy(z)!Processes \ {r} : save[q].at = "publish" => save[q].own \in keyEntries',
           \A q \in Policy(z)!Processes \ {r} : Unpublished(q) => save[q].own \notin left,
           \A q \in Policy(z)!Processes \ {r} : Unpublished(q) /\ s \in KeyChange => save[q].own # s.old
    PROVE  Others(z, r, s, left)
<1>1. \A q \in Policy(z)!Processes : SaveFits(z, q)
  BY DEF PolicyInv
<1> QED
  BY <1>1 DEF Others, SaveFits

\* The entry is written, or the save has to undo it.
LEMMA WriteKeyKeeps == ASSUME NEW z, PolicyInv(z), NEW r \in Policy(z)!Processes, Policy(z)!WriteKey(r)
  PROVE PolicyInv(z)'
<1>0. PolicyTypes(z) /\ SaveFits(z, r) /\ save[r] \in KeyChange /\ Unpublished(r) /\ Changes(r)
  BY SaveKinds DEF Policy!WriteKey, PolicyInv, Unpublished, Changes
<1>1. /\ pending' = pending /\ used' = used
         /\ UNCHANGED <<file, revoked, epochs, session, offered, toolCall>>
      /\ keyEntries \subseteq keyEntries'
  BY DEF Policy!WriteKey, Policy!agent, Policy!settings
<1>2. pending' = [pending EXCEPT ![r] = pending[r]]
  BY <1>0, <1>1 DEF PolicyTypes
<1>3. PICK at \in {"publish", "undo"} :
        /\ save' = [save EXCEPT ![r] = [save[r] EXCEPT !.at = at]]
        /\ at = "publish" => save[r].own \in keyEntries'
  BY <1>0 DEF Policy!WriteKey, Policy!To, PolicyTypes
<1> DEFINE s == [save[r] EXCEPT !.at = at]
<1>4. /\ s \in KeyChange /\ s.at = at /\ s.own = save[r].own /\ s.old = save[r].old
      /\ s.version = save[r].version
  <2>1. at \in {"write", "publish", "undo", "replaced"}
    BY <1>3
  <2> QED
    BY <1>0, <2>1, Stages
<1>5. save' = [save EXCEPT ![r] = s]
  BY <1>3
<1> HIDE DEF s
<1>6. Own(z, r, s, pending[r])
  BY <1>0, <1>1, <1>3, <1>4, SaveKinds DEF Own, SaveFits
<1>7. Others(z, r, s, pending[r])
  <2>1. \A q \in Policy(z)!Processes : SaveFits(z, q)
    BY DEF PolicyInv
  <2>2. \A q \in Policy(z)!Processes \ {r} : save[q].at = "publish" => save[q].own \in keyEntries'
    BY <2>1, <1>1 DEF SaveFits
  <2>3. \A q \in Policy(z)!Processes \ {r} : Unpublished(q) => save[q].own \notin pending[r]
    BY <2>1 DEF SaveFits
  <2>4. \A q \in Policy(z)!Processes \ {r} : Unpublished(q) /\ s \in KeyChange => save[q].own # s.old
    BY <2>1, <1>0, <1>4 DEF SaveFits
  <2> QED
    BY <1>1, <2>2, <2>3, <2>4, OthersRest
<1>8. used' \in Nat /\ used <= used' /\ (file.key # Policy(z)!NoKey => file.key \in keyEntries')
  BY <1>1, SaveKinds DEF KeyFits
<1> QED
  BY <1>1, <1>2, <1>5, <1>6, <1>7, <1>8, KeyMovesOnly

\* A process that has nothing under way any more, and these entries to delete.
LEMMA DoneKeeps ==
    ASSUME NEW z, PolicyInv(z), NEW r \in Policy(z)!Processes,
           NEW s \in {Policy(z)!NoStep, [at |-> "delete"]}, NEW left \in SUBSET (1 .. used),
           save' = [save EXCEPT ![r] = s], pending' = [pending EXCEPT ![r] = left],
           UNCHANGED <<file, revoked, epochs, used, session, offered, toolCall>>,
           file.key \notin left, file.key # Policy(z)!NoKey => file.key \in keyEntries',
           \A q \in Policy(z)!Processes \ {r} : save[q].at = "publish" => save[q].own \in keyEntries',
           \A q \in Policy(z)!Processes \ {r} : Unpublished(q) => save[q].own \notin left
    PROVE  PolicyInv(z)'
<1>1. s.at \in {"none", "delete"} /\ s \notin KeyChange
  BY PolicyShapes
<1>2. Own(z, r, s, left)
  BY <1>1 DEF Own
<1>3. Others(z, r, s, left)
  BY <1>1, OthersRest
<1>4. used' \in Nat /\ used <= used'
  BY SaveKinds
<1> QED
  BY <1>2, <1>3, <1>4, KeyMovesOnly

\* What a save cleans up is its own entry or the replaced one, never the key in use.
LEMMA CleanKeyKeeps == ASSUME NEW z, PolicyInv(z), NEW r \in Policy(z)!Processes, Policy(z)!CleanKey(r)
  PROVE PolicyInv(z)'
<1> DEFINE k == IF save[r].at = "undo" THEN save[r].own ELSE save[r].old
<1>0. /\ SaveFits(z, r) /\ save[r] \in KeyChange /\ Changes(r) /\ KeyFits(z)
      /\ save[r].at = "undo" => Unpublished(r)
  BY SaveKinds DEF Policy!CleanKey, Unpublished, Changes
<1>1. /\ save' = [save EXCEPT ![r] = Policy(z)!NoStep]
         /\ UNCHANGED <<file, revoked, epochs, used, session, offered, toolCall>>
  BY DEF Policy!CleanKey, Policy!agent, Policy!settings
<1>2. \A q \in Policy(z)!Processes : SaveFits(z, q)
  BY DEF PolicyInv
<1>3. k # file.key \/ k = Policy(z)!NoKey
  BY <1>0 DEF SaveFits, Policy!CleanKey
<1>4. \A q \in Policy(z)!Processes \ {r} : Unpublished(q) => save[q].own # k
  BY <1>0, <1>2 DEF SaveFits
<1>5. pending[r] \in SUBSET (1 .. used) /\ file.key \notin pending[r] /\ k \in 0 .. used
  BY <1>0, SaveKinds DEF SaveFits
<1>6. \A q \in Policy(z)!Processes \ {r} : save[q].at = "publish" => Unpublished(q)
                                           /\ save[q].own \in keyEntries
  BY <1>2 DEF SaveFits, Unpublished
<1>7. \A q \in Policy(z)!Processes \ {r} : Unpublished(q) => save[q].own \notin pending[r]
  BY <1>2 DEF SaveFits
<1>8. file.key # Policy(z)!NoKey => file.key \in keyEntries
  BY <1>0 DEF KeyFits
<1>9. Policy(z)!NoStep \in {Policy(z)!NoStep, [at |-> "delete"]}
  OBVIOUS
<1>10. CASE keyEntries' = keyEntries \ {k} /\ UNCHANGED pending
  <2>1. pending' = [pending EXCEPT ![r] = pending[r]]
    BY <1>10 DEF PolicyInv, PolicyTypes
  <2>2. file.key # Policy(z)!NoKey => file.key \in keyEntries'
    BY <1>3, <1>8, <1>10
  <2>3. \A q \in Policy(z)!Processes \ {r} : save[q].at = "publish" => save[q].own \in keyEntries'
    BY <1>4, <1>6, <1>10
  <2> QED
    BY <1>1, <1>5, <1>7, <1>9, <2>1, <2>2, <2>3, DoneKeeps
<1>11. CASE k # Policy(z)!NoKey /\ pending' = [pending EXCEPT ![r] = @ \cup {k}] /\ UNCHANGED keyEntries
  <2> DEFINE left == pending[r] \cup {k}
  <2>1. pending' = [pending EXCEPT ![r] = left] /\ left \in SUBSET (1 .. used)
    BY <1>5, <1>11 DEF Policy!NoKey
  <2>2. file.key \notin left
    BY <1>3, <1>5, <1>11
  <2>3. \A q \in Policy(z)!Processes \ {r} : Unpublished(q) => save[q].own \notin left
    BY <1>4, <1>7
  <2>4. \A q \in Policy(z)!Processes \ {r} : save[q].at = "publish" => save[q].own \in keyEntries'
    BY <1>6, <1>11
  <2>5. file.key # Policy(z)!NoKey => file.key \in keyEntries'
    BY <1>8, <1>11
  <2> HIDE DEF left, k
  <2> QED
    BY <1>1, <1>9, <2>1, <2>2, <2>3, <2>4, <2>5, DoneKeeps
<1> QED
  BY <1>10, <1>11 DEF Policy!CleanKey

\* Deleting again what was not deleted spares the key in use.
LEMMA DeleteKeysKeeps == ASSUME NEW z, PolicyInv(z), NEW r \in Policy(z)!Processes,
            Policy(z)!DeleteKeys(r)
  PROVE PolicyInv(z)'
<1>1. /\ save' = [save EXCEPT ![r] = Policy(z)!NoStep]
         /\ UNCHANGED <<file, revoked, epochs, used, session, offered, toolCall>>
  BY DEF Policy!DeleteKeys, Policy!agent, Policy!settings
<1>2. PICK kept \in SUBSET pending[r] :
        keyEntries' = keyEntries \ (pending[r] \ kept) /\ pending' = [pending EXCEPT ![r] = kept]
  BY DEF Policy!DeleteKeys
<1>3. \A q \in Policy(z)!Processes : SaveFits(z, q)
  BY DEF PolicyInv
<1>4. pending[r] \in SUBSET (1 .. used) /\ file.key \notin pending[r]
  BY <1>3, SaveKinds DEF SaveFits
<1>5. \A q \in Policy(z)!Processes \ {r} : Unpublished(q) => save[q].own \notin pending[r]
  BY <1>3 DEF SaveFits
<1>6. \A q \in Policy(z)!Processes \ {r} : save[q].at = "publish" => Unpublished(q)
                                           /\ save[q].own \in keyEntries
  BY <1>3 DEF SaveFits, Unpublished
<1>7. /\ file.key # Policy(z)!NoKey => file.key \in keyEntries'
      /\ \A q \in Policy(z)!Processes \ {r} : save[q].at = "publish" => save[q].own \in keyEntries'
      /\ \A q \in Policy(z)!Processes \ {r} : Unpublished(q) => save[q].own \notin kept
      /\ kept \in SUBSET (1 .. used) /\ file.key \notin kept
         /\ Policy(z)!NoStep \in {Policy(z)!NoStep, [at |-> "delete"]}
  BY <1>2, <1>4, <1>5, <1>6 DEF PolicyInv, KeyFits
<1> QED
  BY <1>1, <1>2, <1>7, DoneKeeps

\* A crash forgets the save and what was left to delete.
LEMMA CrashKeeps ==
    ASSUME NEW z, PolicyInv(z), NEW r \in Policy(z)!Processes, Policy(z)!Crash(r), z.epoch \in Nat
    PROVE PolicyInv(z)'
<1>0. PolicyTypes(z) /\ KeyFits(z) /\ used \in Nat
  BY DEF PolicyInv, PolicyTypes
<1>1. /\ save' = [save EXCEPT ![r] = Policy(z)!NoStep] /\ pending' = [pending EXCEPT ![r] = {}]
      /\ UNCHANGED <<file, revoked, epochs, keyEntries, used>>
      /\ session' = [session EXCEPT ![r] = Policy(z)!Blocked] /\ offered' = [offered EXCEPT ![r] = {}]
      /\ toolCall' = [toolCall EXCEPT ![r] = Policy(z)!NoStep]
  BY DEF Policy!Crash, Policy!Forgets
<1>2. Policy(z)!Blocked \in Session /\ Policy(z)!Blocked.active \subseteq {} /\ {} \in SUBSET Tools
  BY BlockedIs
<1>3. /\ session' \in [Policy(z)!Processes -> Session]
         /\ offered' \in [Policy(z)!Processes -> SUBSET Tools]
      /\ \A o \in Policy(z)!Processes : OfferFits(z, o)'
  <2>1. UNCHANGED <<file, epochs>>
    BY <1>1
  <2> QED
    BY <1>1, <1>2, <2>1, OfferedFits
<1>4. Own(z, r, Policy(z)!NoStep, {})
  <2>1. Policy(z)!NoStep.at = "none" /\ Policy(z)!NoStep \notin KeyChange
    BY PolicyShapes
  <2> QED
    BY <2>1 DEF Own
<1>5. Others(z, r, Policy(z)!NoStep, {})
  <2>1. Policy(z)!NoStep \notin KeyChange /\ \A q \in Policy(z)!Processes : SaveFits(z, q)
    BY PolicyShapes DEF PolicyInv
  <2>2. \A q \in Policy(z)!Processes \ {r} : save[q].at = "publish" => save[q].own \in keyEntries'
    BY <1>1, <2>1 DEF SaveFits
  <2>3. file' = file /\ revoked' = revoked
    BY <1>1
  <2> QED
    BY <2>1, <2>2, <2>3, OthersRest
<1>6. /\ KeyFits(z)' /\ used' \in Nat /\ used <= used' /\ epochs' = epochs
      /\ file' \in SettingsRecord(z) /\ file'.epoch = file.epoch /\ revoked' \in SUBSET (1 .. used')
      /\ toolCall' \in [Policy(z)!Processes -> {Policy(z)!NoStep} \cup ToolCall]
  BY <1>0, <1>1 DEF PolicyTypes, KeyFits
<1> QED
  BY <1>1, <1>3, <1>4, <1>5, <1>6, KeyMoves

\* The settings forget the key first, and then the entry is deleted.
LEMMA RemoveKeyKeeps == ASSUME NEW z, PolicyInv(z), NEW r \in Policy(z)!Processes,
            Policy(z)!RemoveKey(r)
  PROVE PolicyInv(z)'
<1>0. PolicyTypes(z) /\ KeyFits(z) /\ used \in Nat /\ file \in SettingsRecord(z) /\ file.key \in Nat
      /\ file.generation \in Nat
  BY DEF PolicyInv, PolicyTypes, SettingsRecord
<1>1. CASE Policy(z)!Conflict(r) /\ UNCHANGED <<pending, save>>
  <2>1. UNCHANGED <<epochs, session, keyEntries, save, pending, used, toolCall>>
    BY <1>1 DEF Policy!RemoveKey, Policy!key
  <2> QED
    BY <1>1, <2>1, ConflictFits
<1>2. CASE /\ Policy(z)!Commit(r, [file EXCEPT !.key = Policy(z)!NoKey, !.generation = @ + 1], {})
           /\ pending' = [pending EXCEPT ![r] = @ \cup ({file.key} \ {Policy(z)!NoKey})]
           /\ save' = [save EXCEPT ![r] = [at |-> "delete"]]
  <2> DEFINE n == file.generation + 1
             p == [file EXCEPT !.key = Policy(z)!NoKey, !.generation = n]
             out == {file.key} \ {Policy(z)!NoKey}
             left == pending[r] \cup out
             s == [at |-> "delete"]
  <2>1. UNCHANGED <<epochs, session, keyEntries, used, toolCall>>
    BY DEF Policy!RemoveKey, Policy!key
  <2>2. p \in SettingsRecord(z) /\ p.key = Policy(z)!NoKey /\ p.epoch = file.epoch
        /\ p.since = file.since
    <3>1. n \in Nat
      BY <1>0
    <3> HIDE DEF n
    <3> QED
      BY <1>0, <3>1 DEF SettingsRecord, Policy!NoKey
  <2>3. Policy(z)!Commit(r, p, {})
    BY <1>2, <1>0
  <2> HIDE DEF p
  <2>4. /\ file' \in SettingsRecord(z) /\ file'.key = Policy(z)!NoKey /\ file'.epoch = file.epoch
        /\ offered' \in [Policy(z)!Processes -> SUBSET Tools] /\ revoked' \subseteq revoked \cup out
        /\ \A o \in Policy(z)!Processes : OfferFits(z, o)'
    <3>1. UNCHANGED <<epochs, session>> /\ \A g \in Policy(z)!Gates \ {} : p.since[g] = file.since[g]
      BY <2>1, <2>2
    <3>2. /\ file' \in SettingsRecord(z) /\ file'.key = p.key /\ file'.epoch = file.epoch
          /\ offered' \in [Policy(z)!Processes -> SUBSET Tools]
          /\ revoked' = IF p.key = file.key THEN revoked ELSE revoked \cup ({file.key} \ {Policy(z)!NoKey})
          /\ \A o \in Policy(z)!Processes : OfferFits(z, o)'
      BY <2>2, <2>3, <3>1, CommitFits
    <3> QED
      BY <2>2, <3>2
  <2>5. out \subseteq 1 .. used /\ pending[r] \in SUBSET (1 .. used) /\ revoked \in SUBSET (1 .. used)
    BY <1>0 DEF KeyFits, Policy!NoKey, PolicyTypes
  <2>6. \A q \in Policy(z)!Processes : SaveFits(z, q) /\ (Unpublished(q) => Changes(q))
                                       /\ pending[q] \subseteq 1 .. used
    BY <1>0, SaveKinds DEF PolicyInv, Changes
  <2>7. \A q \in Policy(z)!Processes : Unpublished(q) => save[q].own \notin out
                                       /\ save[q].own # Policy(z)!NoKey
    BY <2>6 DEF SaveFits, Policy!NoKey
  <2>8. pending' = [pending EXCEPT ![r] = left] /\ left \in SUBSET (1 .. used)
        /\ Policy(z)!NoKey \notin left
    BY <1>2, <2>5 DEF Policy!NoKey
  <2> HIDE DEF out
  <2>9. s.at = "delete" /\ s \notin KeyChange /\ s \in {Policy(z)!NoStep, [at |-> "delete"]}
    BY PolicyShapes
  <2>10. save' = [save EXCEPT ![r] = s]
    BY <1>2
  <2> HIDE DEF s
  <2>11. Own(z, r, s, left)
    BY <2>1, <2>4, <2>8, <2>9 DEF Own
  <2>12. Others(z, r, s, left)
    <3>1. ASSUME NEW q \in Policy(z)!Processes, Unpublished(q)
          PROVE  /\ save[q].own \notin left /\ save[q].own # file'.key
                 /\ save[q].version[1] = file.epoch => save[q].own \notin revoked'
      BY <3>1, <2>4, <2>6, <2>7 DEF SaveFits
    <3>2. ASSUME NEW q \in Policy(z)!Processes
          PROVE  /\ save[q].at = "publish" => save[q].own \in keyEntries'
                 /\ save[q].at = "replaced" => save[q].old # file'.key \/ save[q].old = Policy(z)!NoKey
                 /\ file'.key \notin pending[q]
      BY <2>1, <2>4, <2>6 DEF SaveFits, Policy!NoKey
    <3> QED
      BY <2>9, <3>1, <3>2 DEF Others
  <2>13. /\ KeyFits(z)' /\ used' \in Nat /\ used <= used' /\ epochs' = epochs
         /\ revoked' \in SUBSET (1 .. used')
         /\ session' \in [Policy(z)!Processes -> Session]
            /\ toolCall' \in [Policy(z)!Processes -> {Policy(z)!NoStep} \cup ToolCall]
    <3>1. revoked' \in SUBSET (1 .. used') /\ Policy(z)!NoKey \notin revoked'
      <4>1. used' = used /\ Policy(z)!NoKey \notin 1 .. used /\ revoked \cup out \subseteq 1 .. used
        BY <2>1, <2>5 DEF Policy!NoKey
      <4>2. revoked' \subseteq 1 .. used
        BY <2>4, <4>1
      <4> QED
        BY <4>1, <4>2
    <3> QED
      BY <1>0, <2>1, <2>4, <3>1 DEF KeyFits, PolicyTypes, Policy!NoKey
  <2> HIDE DEF left
  <2> QED
    BY <2>4, <2>8, <2>10, <2>11, <2>12, <2>13, KeyMoves
<1> QED
  BY <1>1, <1>2 DEF Policy!RemoveKey

\* A key that is published is nobody else's, and was not lost with older settings.
LEMMA PublishKeyKeeps == ASSUME NEW z, PolicyInv(z), NEW r \in Policy(z)!Processes,
            Policy(z)!PublishKey(r)
  PROVE PolicyInv(z)'
<1>0. /\ PolicyTypes(z) /\ KeyFits(z) /\ used \in Nat /\ file \in SettingsRecord(z) /\ file.key \in Nat
      /\ file.generation \in Nat /\ file.on \subseteq Policy(z)!Gates \cup {"plugin"}
      /\ SaveFits(z, r) /\ save[r].at = "publish" /\ Unpublished(r) /\ save[r] \in KeyChange
         /\ Changes(r)
  BY SaveKinds DEF PolicyInv, PolicyTypes, SettingsRecord, Policy!PublishKey, Unpublished, Changes
<1>1. UNCHANGED <<epochs, session, keyEntries, pending, used, toolCall>>
  BY DEF Policy!PublishKey
<1>2. pending' = [pending EXCEPT ![r] = pending[r]]
  BY <1>0, <1>1 DEF PolicyTypes
<1>3. \A q \in Policy(z)!Processes : SaveFits(z, q)
  BY DEF PolicyInv
<1>4. /\ \A q \in Policy(z)!Processes : Unpublished(q) => save[q].own \notin pending[r]
      /\ \A q \in Policy(z)!Processes : save[q].at = "publish" => save[q].own \in keyEntries
  BY <1>3 DEF SaveFits
<1>5. CASE Policy(z)!To(r, "undo") /\ UNCHANGED <<file, offered, revoked>>
  <2> DEFINE s == [save[r] EXCEPT !.at = "undo"]
  <2>1. /\ s \in KeyChange /\ s.at = "undo" /\ s.own = save[r].own /\ s.old = save[r].old
        /\ s.version = save[r].version
    BY <1>0, Stages
  <2>2. save' = [save EXCEPT ![r] = s]
    BY <1>0, <1>5 DEF Policy!To, PolicyTypes
  <2> HIDE DEF s
  <2>3. Own(z, r, s, pending[r])
    BY <1>0, <1>1, <1>4, <1>5, <2>1, SaveKinds DEF Own, SaveFits
  <2>4. Others(z, r, s, pending[r])
    <3>1. \A q \in Policy(z)!Processes \ {r} : Unpublished(q) /\ s \in KeyChange => save[q].own # s.old
      BY <1>0, <1>3, <2>1 DEF SaveFits
    <3>2. file' = file /\ revoked' = revoked /\ keyEntries' = keyEntries
      BY <1>1, <1>5
    <3> QED
      BY <1>4, <3>1, <3>2, OthersRest
  <2>5. used' \in Nat /\ used <= used' /\ (file.key # Policy(z)!NoKey => file.key \in keyEntries')
        /\ UNCHANGED <<file, revoked, epochs, session, offered, toolCall>>
    BY <1>0, <1>1, <1>5 DEF KeyFits
  <2> QED
    BY <1>2, <2>2, <2>3, <2>4, <2>5, KeyMovesOnly
<1>6. ASSUME Policy(z)!Matches(save[r].version), Policy(z)!To(r, "replaced"),
             LET p == [file EXCEPT !.key = save[r].own, !.generation = @ + 1,
                        !.on = IF save[r].enable THEN @ \cup {"plugin"} ELSE @] IN
               Policy(z)!Commit(r, p, Policy(z)!Opens(p))
      PROVE  PolicyInv(z)'
  <2> DEFINE n == file.generation + 1
             own == save[r].own
             gates == IF save[r].enable THEN file.on \cup {"plugin"} ELSE file.on
             p == [file EXCEPT !.key = own, !.generation = n, !.on = gates]
             s == [save[r] EXCEPT !.at = "replaced"]
  <2>0. /\ save[r].version[1] = file.epoch /\ own \in Nat /\ own \in 1 .. used /\ own \notin revoked
        /\ own # file.key /\ own # save[r].old /\ own \in keyEntries
    <3>1. save[r].version[1] = file.epoch
      BY <1>6 DEF Policy!Matches, Policy!Version
    <3> QED
      BY <1>0, <3>1, SaveKinds DEF SaveFits
  <2>1. p \in SettingsRecord(z) /\ p.key = own /\ p.epoch = file.epoch /\ p.since = file.since
    <3>1. n \in Nat
      BY <1>0
    <3>2. gates \subseteq Policy(z)!Gates \cup {"plugin"}
      <4>1. CASE save[r].enable = TRUE
        BY <1>0, <4>1
      <4>2. CASE save[r].enable = FALSE
        BY <1>0, <4>2
      <4> QED
        BY <1>0, <4>1, <4>2 DEF KeyChange
    <3> HIDE DEF n, gates, own
    <3> QED
      BY <1>0, <2>0, <3>1, <3>2 DEF SettingsRecord
  <2>2. Policy(z)!Commit(r, p, Policy(z)!Opens(p))
    BY <1>0, <1>6
  <2> HIDE DEF p
  <2>3. /\ file' \in SettingsRecord(z) /\ file'.key = own /\ file'.epoch = file.epoch
        /\ offered' \in [Policy(z)!Processes -> SUBSET Tools]
        /\ revoked' = revoked \cup ({file.key} \ {Policy(z)!NoKey})
        /\ \A o \in Policy(z)!Processes : OfferFits(z, o)'
    <3>1. UNCHANGED <<epochs, session>> /\ \A g \in Policy(z)!Gates \ Policy(z)!Opens(p) : p.since[g] = file.since[g]
      BY <1>1, <2>1
    <3>2. /\ file' \in SettingsRecord(z) /\ file'.key = p.key /\ file'.epoch = file.epoch
          /\ offered' \in [Policy(z)!Processes -> SUBSET Tools]
          /\ revoked' = IF p.key = file.key THEN revoked ELSE revoked \cup ({file.key} \ {Policy(z)!NoKey})
          /\ \A o \in Policy(z)!Processes : OfferFits(z, o)'
      BY <2>1, <2>2, <3>1, CommitFits
    <3> QED
      BY <2>0, <2>1, <3>2
  <2>4. /\ s \in KeyChange /\ s.at = "replaced" /\ s.own = own /\ s.old = save[r].old
        /\ s.version = save[r].version
    BY <1>0, Stages
  <2>5. save' = [save EXCEPT ![r] = s]
    BY <1>0, <1>6 DEF Policy!To, PolicyTypes
  <2> HIDE DEF s
  <2>6. Own(z, r, s, pending[r])
    <3>1. /\ s.old <= used' /\ s.own \in 1 .. used' /\ s.version[1] <= epochs
          /\ s.old # file'.key /\ file'.key \notin pending[r] /\ pending[r] \in SUBSET (1 .. used')
      BY <1>0, <1>1, <2>0, <2>3, <2>4, SaveKinds DEF SaveFits
    <3> QED
      BY <2>4, <3>1 DEF Own
  <2>7. Others(z, r, s, pending[r])
    <3>1. ASSUME NEW q \in Policy(z)!Processes \ {r}, Unpublished(q)
          PROVE  /\ save[q].own \notin pending[r] /\ save[q].own # file'.key /\ save[q].own # s.old
                 /\ save[q].version[1] = file.epoch => save[q].own \notin revoked'
      <4>1. SaveFits(z, q) /\ save[q].own # own
        BY <1>0, <1>3, <3>1 DEF SaveFits
      <4> QED
        BY <1>0, <3>1, <4>1, <2>3, <2>4 DEF SaveFits
    <3>2. ASSUME NEW q \in Policy(z)!Processes \ {r}
          PROVE  /\ save[q].at = "publish" => save[q].own \in keyEntries'
                 /\ save[q].at = "replaced" => save[q].old # file'.key \/ save[q].old = Policy(z)!NoKey
                 /\ file'.key \notin pending[q]
      <4>1. save[q].at = "replaced" => Changes(q)
        BY SaveKinds DEF Changes
      <4>2. save[q].at = "replaced" => save[q].old # own
        BY <1>0, <4>1 DEF SaveFits
      <4>3. own \notin pending[q]
        BY <1>0 DEF SaveFits
      <4> QED
        BY <1>1, <1>4, <4>2, <4>3, <2>3
    <3> QED
      BY <3>1, <3>2 DEF Others
  <2>8. /\ KeyFits(z)' /\ used' \in Nat /\ used <= used' /\ epochs' = epochs
        /\ revoked' \in SUBSET (1 .. used')
        /\ session' \in [Policy(z)!Processes -> Session]
           /\ toolCall' \in [Policy(z)!Processes -> {Policy(z)!NoStep} \cup ToolCall]
    <3>1. revoked' \in SUBSET (1 .. used') /\ own \notin revoked'
      <4>1. used' = used /\ {file.key} \ {Policy(z)!NoKey} \subseteq 1 .. used
            /\ revoked \subseteq 1 .. used
        BY <1>0, <1>1 DEF KeyFits, Policy!NoKey, PolicyTypes
      <4>2. revoked' \subseteq 1 .. used
        BY <2>3, <4>1
      <4> QED
        BY <2>0, <2>3, <4>1, <4>2
    <3> QED
      BY <1>0, <1>1, <2>0, <2>3, <3>1 DEF KeyFits, PolicyTypes
  <2> QED
    BY <1>2, <2>3, <2>5, <2>6, <2>7, <2>8, KeyMoves
<1>7. CASE Policy(z)!Conflict(r) /\ Policy(z)!To(r, "undo")
  BY <1>5, <1>7 DEF Policy!Conflict
<1> QED
  BY <1>5, <1>6, <1>7 DEF Policy!PublishKey

\* Every step of the policy keeps the invariant.
LEMMA PolicyKeeps == ASSUME NEW z, PolicyInv(z), [Policy(z)!Next]_(Policy(z)!vars), z.epoch \in Nat
  PROVE PolicyInv(z)'
<1> USE DEF Policy!Processes
<1>1. ASSUME NEW r \in Policy(z)!Processes, Policy(z)!Initialize(r) \/ Policy(z)!Crash(r)
      PROVE PolicyInv(z)'
  BY <1>1, InitializeKeeps, CrashKeeps
<1>2. ASSUME NEW r \in z.windows,
             \/ Policy(z)!Repair(r) \/ Policy(z)!See(r) \/ Policy(z)!Reset(r)
             \/ Policy(z)!WriteKey(r) \/ Policy(z)!PublishKey(r) \/ Policy(z)!CleanKey(r)
                \/ Policy(z)!RemoveKey(r) \/ Policy(z)!DeleteKeys(r)
             \/ \E g \in Policy(z)!Gates, on \in BOOLEAN : Policy(z)!Patch(r, g, on)
             \/ \E enable \in BOOLEAN : Policy(z)!Save(r, enable)
      PROVE  PolicyInv(z)'
  BY <1>2, RepairKeeps, SeeKeeps, ResetKeeps, WriteKeyKeeps, PublishKeyKeeps, CleanKeyKeeps,
     RemoveKeyKeeps, DeleteKeysKeeps, PatchKeeps, SaveKeeps
<1>3. ASSUME NEW r \in z.agents,
             \/ Policy(z)!Rebind(r) \/ Policy(z)!Refresh(r) \/ Policy(z)!ApplyRefresh(r)
                \/ Policy(z)!Observe(r) \/ Policy(z)!Activated(r)
             \/ Policy(z)!Admit(r) \/ Policy(z)!ReadKey(r) \/ Policy(z)!AdmitPlugin(r)
                \/ Policy(z)!Returns(r)
             \/ \E t \in Tools : Policy(z)!Activate(r, t) \/ Policy(z)!Call(r, t)
      PROVE  PolicyInv(z)'
  BY <1>3, RebindKeeps, RefreshKeeps, ApplyRefreshKeeps, ObserveKeeps, ActivatedKeeps,
     AdmitKeeps, ReadKeyKeeps, AdmitPluginKeeps, ReturnsKeeps, ActivateKeeps, CallKeeps
<1>4. CASE UNCHANGED Policy(z)!vars
  BY <1>4, AgentRests DEF Policy!vars, Policy!settings, Policy!agent, Policy!key
<1> QED
  BY <1>1, <1>2, <1>3, <1>4, DamageKeeps DEF Policy!Next

\* What the invariant says of the key in use.
LEMMA PolicyKeepsKey == ASSUME NEW z, PolicyInv(z) PROVE Policy(z)!LiveKeyKept
BY DEF PolicyInv, KeyFits, Policy!LiveKeyKept

\* What may be called was offered, and a key that is used is the one of the settings.
LEMMA CallableIsOffered ==
    ASSUME NEW z, PolicyInv(z), NEW r \in Policy(z)!Processes, NEW t \in Tools, Policy(z)!Callable(r, t)
    PROVE  t \in offered[r]
<1>1. session[r].epoch = file.epoch /\ Policy(z)!LastOn(t) <= session[r].revision
      /\ t \in session[r].active
  BY DEF Policy!Callable
<1>2. file.since \in [Policy(z)!Gates -> Nat] /\ session[r].revision \in Nat
  BY DEF PolicyInv, PolicyTypes, SettingsRecord, Session
<1>3. \A g \in Policy(z)!GatesOf(t) : file.since[g] <= session[r].revision
  BY <1>1, <1>2, LastOnBounds
<1> QED
  BY <1>1, <1>3 DEF PolicyInv, OfferFits

\* What a step sends was offered, with the key of the settings.
LEMMA PolicySends == ASSUME NEW z, PolicyInv(z), [Policy(z)!Next]_(Policy(z)!vars)
  PROVE Policy(z)!SendsOnlyOffered
<1> SUFFICES ASSUME NEW r \in DOMAIN toolCall, toolCall[r].at # "sent", toolCall'[r].at = "sent"
             PROVE  toolCall[r].tool \in offered[r] /\ toolCall'[r].basis.key \notin revoked
  BY DEF Policy!SendsOnlyOffered
<1>0. PolicyTypes(z) /\ KeyFits(z) /\ r \in Policy(z)!Processes /\ revoked \subseteq 1 .. used
  BY DEF PolicyInv, PolicyTypes
<1>1. toolCall' # toolCall
  OBVIOUS
<1>2. \A q \in Policy(z)!Processes : ~Policy(z)!Denied(q)
  <2>1. Policy(z)!NoStep.at # "sent"
    BY DEF Policy!NoStep
  <2> QED
    BY <2>1, <1>0 DEF Policy!Denied, PolicyTypes
<1>3. \A q \in Policy(z)!Processes : Policy(z)!Sent(q, Policy(z)!NoKey) => q = r
  BY <1>0 DEF Policy!Sent, PolicyTypes
<1>4. \A q \in Policy(z)!Processes, k \in Nat : Policy(z)!Sent(q, k) => q = r
  BY <1>0 DEF Policy!Sent, PolicyTypes
<1>5. ASSUME Policy(z)!Admit(r)
      PROVE toolCall[r].tool \in offered[r] /\ toolCall'[r].basis.key \notin revoked
  <2>1. Policy(z)!Callable(r, toolCall[r].tool) /\ Policy(z)!Sent(r, Policy(z)!NoKey)
    BY <1>2, <1>5, <1>0 DEF Policy!Admit
  <2>2. toolCall[r] \in ToolCall
    BY <1>5, <1>0, CallSteps DEF Policy!Admit
  <2>3. toolCall[r].tool \in Tools
    BY <2>2 DEF ToolCall
  <2>4. toolCall'[r].basis.key = Policy(z)!NoKey
    BY <2>1, <2>2, <1>0, CallSteps DEF Policy!NoKey
  <2> QED
    BY <2>1, <2>3, <2>4, <1>0, CallableIsOffered DEF Policy!NoKey
<1>6. ASSUME Policy(z)!AdmitPlugin(r)
      PROVE toolCall[r].tool \in offered[r] /\ toolCall'[r].basis.key \notin revoked
  <2>1. Policy(z)!Callable(r, toolCall[r].tool) /\ Policy(z)!Sent(r, toolCall[r].basis.key)
        /\ toolCall[r].basis.key = file.key
    BY <1>2, <1>6, <1>0 DEF Policy!AdmitPlugin
  <2>2. toolCall[r] \in ToolCall
    BY <1>6, <1>0, CallSteps DEF Policy!AdmitPlugin
  <2>3. toolCall[r].tool \in Tools /\ toolCall[r].basis.key \in Nat
    BY <2>2 DEF ToolCall
  <2>4. toolCall'[r].basis.key = file.key
    BY <2>1, <2>2, <2>3, <1>0, CallSteps
  <2> QED
    BY <2>1, <2>3, <2>4, <1>0, CallableIsOffered DEF KeyFits
<1>7. ASSUME NEW q \in Policy(z)!Processes, Policy(z)!Admit(q) PROVE q = r
  BY <1>2, <1>3, <1>7 DEF Policy!Admit
<1>8. ASSUME NEW q \in Policy(z)!Processes, Policy(z)!AdmitPlugin(q) PROVE q = r
  <2>1. toolCall[q] \in ToolCall
    BY <1>8, CallSteps DEF Policy!AdmitPlugin
  <2>2. toolCall[q].basis.key \in Nat
    BY <2>1 DEF ToolCall
  <2> QED
    BY <2>2, <1>2, <1>4, <1>8 DEF Policy!AdmitPlugin
<1>9. ASSUME NEW q \in Policy(z)!Processes
      PROVE ~Policy(z)!ReadKey(q) /\ ~Policy(z)!Returns(q) /\ ~Policy(z)!Rebind(q)
            /\ ~Policy(z)!Crash(q)
  <2>1. ~Policy(z)!Returns(q) /\ ~Policy(z)!Rebind(q) /\ ~Policy(z)!Crash(q)
    BY <1>2, <1>0 DEF Policy!Returns, Policy!Rebind, Policy!Crash, Policy!Forgets, Policy!Denied
  <2>2. ASSUME Policy(z)!ReadKey(q) PROVE FALSE
    <3>1. toolCall' = [toolCall EXCEPT ![q].at = "keyed"]
      BY <2>2, <1>2 DEF Policy!ReadKey
    <3>2. toolCall[q] \in ToolCall
      BY <2>2, CallSteps DEF Policy!ReadKey
    <3>3. toolCall'[q].at = "keyed"
      BY <3>1, <3>2, <1>0 DEF PolicyTypes, ToolCall
    <3>4. q # r
      BY <3>3
    <3> QED
      BY <3>1, <3>4, <1>0 DEF PolicyTypes
  <2> QED
    BY <2>1, <2>2
<1>10. \A q \in Policy(z)!Processes, t \in Tools : ~Policy(z)!Call(q, t) 
  <2>1. SUFFICES ASSUME NEW q \in Policy(z)!Processes, NEW t \in Tools, Policy(z)!Call(q, t) PROVE FALSE
    OBVIOUS
  <2>2. toolCall' = [toolCall EXCEPT ![q] = [at |-> "checked", tool |-> t, basis |-> Policy(z)!Basis]]
    BY <2>1 DEF Policy!Call
  <2> QED
    BY <2>2, <1>0 DEF PolicyTypes
<1>11. \E q \in Policy(z)!Processes : Policy(z)!Admit(q) \/ Policy(z)!AdmitPlugin(q)
  <2>1. \A q \in Policy(z)!Processes :
          /\ ~Policy(z)!Repair(q) /\ ~Policy(z)!See(q) /\ ~Policy(z)!Reset(q)
          /\ ~Policy(z)!WriteKey(q) /\ ~Policy(z)!PublishKey(q) /\ ~Policy(z)!CleanKey(q)
          /\ ~Policy(z)!RemoveKey(q) /\ ~Policy(z)!DeleteKeys(q) /\ ~Policy(z)!Initialize(q)
    BY <1>1 DEF Policy!Repair, Policy!See, Policy!Reset, Policy!WriteKey, Policy!PublishKey,
       Policy!CleanKey, Policy!RemoveKey, Policy!DeleteKeys, Policy!Initialize, Policy!agent
  <2>2. \A q \in Policy(z)!Processes :
          /\ \A g \in Policy(z)!Gates, on \in BOOLEAN : ~Policy(z)!Patch(q, g, on)
          /\ \A enable \in BOOLEAN : ~Policy(z)!Save(q, enable)
          /\ ~Policy(z)!Refresh(q) /\ ~Policy(z)!ApplyRefresh(q) /\ ~Policy(z)!Observe(q)
          /\ ~Policy(z)!Activated(q) /\ \A t \in Tools : ~Policy(z)!Activate(q, t)
    BY <1>1 DEF Policy!Patch, Policy!Save, Policy!Refresh, Policy!ApplyRefresh, Policy!Observe,
       Policy!Activated, Policy!Activate, Policy!agent
  <2>3. ~Policy(z)!Damage /\ ~UNCHANGED Policy(z)!vars
    BY <1>1 DEF Policy!Damage, Policy!vars, Policy!agent
  <2> QED
    BY <1>9, <1>10, <2>1, <2>2, <2>3 DEF Policy!Next, Policy!Processes
<1> QED
  BY <1>5, <1>6, <1>7, <1>8, <1>11

-----------------------------------------------------------------------------
\* In a behaviour of the run the settings are those of its part.
PolicyHolds ==
    /\ part = "windows" => PolicyInv(Windowed)
    /\ part = "faults" => PolicyInv(Faulty)
    /\ part \notin {"windows", "faults"} => PolicyInv(Quiet)

\* The epochs of every part are numbers.
LEMMA SettingsFacts == Quiet.epoch \in Nat /\ Faulty.epoch \in Nat /\ Windowed.epoch \in Nat
<1>1. Policy(Quiet)!ToolPolicyAssumption /\ Policy(Faulty)!ToolPolicyAssumption
      /\ Policy(Windowed)!ToolPolicyAssumption
  BY TransportAssumption
<1> QED
  BY <1>1 DEF Policy!ToolPolicyAssumption

\* A part that rests keeps its settings.
LEMMA PolicyRests == ASSUME NEW z, PolicyInv(z), UNCHANGED policyVars, z.epoch \in Nat
  PROVE PolicyInv(z)'
<1>1. UNCHANGED Policy(z)!vars
  BY DEF policyVars, Policy!vars, Policy!settings, Policy!agent, Policy!key
<1> QED
  BY <1>1, PolicyKeeps

\* The invariant holds in every behaviour of the run.
LEMMA PolicyInvariant == TransportSpec => []PolicyHolds
<1>1. TransportInit => PolicyHolds
  <2> SUFFICES ASSUME TransportInit PROVE PolicyHolds
    OBVIOUS
  <2>1. CASE part = "windows"
    BY <2>1, PolicyStarts, SettingsFacts DEF TransportInit, PolicyHolds
  <2>2. CASE part = "faults"
    BY <2>2, PolicyStarts, SettingsFacts DEF TransportInit, PolicyHolds
  <2>3. CASE part \notin {"windows", "faults"}
    BY <2>3, PolicyStarts, SettingsFacts DEF TransportInit, PolicyHolds
  <2> QED
    BY <2>1, <2>2, <2>3
<1>2. PolicyHolds /\ [TransportNext]_all => PolicyHolds'
  <2> SUFFICES ASSUME PolicyHolds, [TransportNext]_all PROVE PolicyHolds'
    OBVIOUS
  <2>0. part' = part
    BY DEF TransportNext, all
  <2>1. CASE UNCHANGED policyVars
    <3>1. part = "windows" => PolicyInv(Windowed)'
      BY <2>1, PolicyRests, SettingsFacts DEF PolicyHolds
    <3>2. part = "faults" => PolicyInv(Faulty)'
      BY <2>1, PolicyRests, SettingsFacts DEF PolicyHolds
    <3>3. part \notin {"windows", "faults"} => PolicyInv(Quiet)'
      BY <2>1, PolicyRests, SettingsFacts DEF PolicyHolds
    <3> QED
      BY <2>0, <3>1, <3>2, <3>3 DEF PolicyHolds
  <2>2. CASE part = "policy" /\ Policy(Quiet)!Next
    <3>1. PolicyInv(Quiet)'
      BY <2>2, PolicyKeeps, SettingsFacts DEF PolicyHolds
    <3> QED
      BY <2>0, <2>2, <3>1 DEF PolicyHolds
  <2>3. CASE part = "faults" /\ Policy(Faulty)!Next
    <3>1. PolicyInv(Faulty)'
      BY <2>3, PolicyKeeps, SettingsFacts DEF PolicyHolds
    <3> QED
      BY <2>0, <2>3, <3>1 DEF PolicyHolds
  <2>4. CASE part = "windows" /\ Policy(Windowed)!Next
    <3>1. PolicyInv(Windowed)'
      BY <2>4, PolicyKeeps, SettingsFacts DEF PolicyHolds
    <3> QED
      BY <2>0, <2>4, <3>1 DEF PolicyHolds
  <2> QED
    BY <2>1, <2>2, <2>3, <2>4 DEF TransportNext, all
<1> QED
  BY <1>1, <1>2, PTL DEF TransportSpec

\* Saves and removals of the key by several windows, which overlap, fail between two of
\* their steps or are cut short by a crash, never delete the key the settings refer to.
THEOREM KeyInUseKept == TransportSpec => []LiveKeyKept
<1>1. PolicyHolds => LiveKeyKept
  <2> SUFFICES ASSUME PolicyHolds PROVE LiveKeyKept
    OBVIOUS
  <2>1. PolicyInv(Windowed) => LiveKeyKept
    BY PolicyKeepsKey DEF LiveKeyKept, Policy!LiveKeyKept, Policy!NoKey, Policy!Readable
  <2>2. PolicyInv(Faulty) => LiveKeyKept
    BY PolicyKeepsKey DEF LiveKeyKept, Policy!LiveKeyKept, Policy!NoKey, Policy!Readable
  <2>3. PolicyInv(Quiet) => LiveKeyKept
    BY PolicyKeepsKey DEF LiveKeyKept
  <2> QED
    BY <2>1, <2>2, <2>3 DEF PolicyHolds
<1> QED
  BY <1>1, PolicyInvariant, PTL

\* Between the checks of a call and its sending, settings change, keys are replaced and
\* agents refresh: what is sent was offered to the model since its gates were last
\* switched on, and the key it goes with was not replaced, removed or lost.
THEOREM OnlyOfferedAreSent == TransportSpec => OnlyOfferedToolsRun
<1>1. PolicyHolds /\ [TransportNext]_all => [Policy(Quiet)!SendsOnlyOffered]_policyVars
  <2> SUFFICES ASSUME PolicyHolds, [TransportNext]_all, policyVars' # policyVars
               PROVE  Policy(Quiet)!SendsOnlyOffered
    OBVIOUS
  <2>2. CASE part = "policy" /\ Policy(Quiet)!Next
    BY <2>2, PolicySends DEF PolicyHolds
  <2>3. CASE part = "faults" /\ Policy(Faulty)!Next
    <3>1. Policy(Faulty)!SendsOnlyOffered
      BY <2>3, PolicySends DEF PolicyHolds
    <3> QED
      BY <3>1 DEF Policy!SendsOnlyOffered
  <2>4. CASE part = "windows" /\ Policy(Windowed)!Next
    <3>1. Policy(Windowed)!SendsOnlyOffered
      BY <2>4, PolicySends DEF PolicyHolds
    <3> QED
      BY <3>1 DEF Policy!SendsOnlyOffered
  <2> QED
    BY <2>2, <2>3, <2>4 DEF TransportNext, all
<1> QED
  BY <1>1, PolicyInvariant, PTL DEF TransportSpec, OnlyOfferedToolsRun
=============================================================================
