------------------------------- MODULE UiProofs -------------------------------
(***************************************************************************)
(* Proofs about the browser, for any tabs, threads, texts and requests,    *)
(* and any number of changes, lost connections and restarts.  A patch      *)
(* reaches a tab on top of the snapshot it was made from; a text becomes   *)
(* work once; live work is in one thread, and a deleted thread is gone.   *)
(***************************************************************************)
EXTENDS Ui, FiniteSetTheorems, TLAPS

-----------------------------------------------------------------------------
(***************************************************************************)
(* Tabs.  z stands for the tabs of a run and what can happen to them.      *)
(***************************************************************************)

\* What is on its way to a tab.
Message(z) ==
    [kind : {"full"}, to : Browser(z)!Snapshots]
    \cup [kind : {"patch"}, from : Browser(z)!Keys, to : Browser(z)!Snapshots]
    \cup [kind : {"status"}, status : 0..z.status] \cup [kind : {"replaced"}]
BrowserTypes(z) ==
    /\ cursor \in 0..z.cursor /\ status \in 0..z.status /\ view \in Threads
    /\ controller \in z.tabs \cup {NoTab, Browser(z)!Lost}
    /\ wire \in [z.tabs -> Seq(Message(z))]
    /\ up \in [z.tabs -> Seq(Threads)] /\ want \in [z.tabs -> Threads]
    /\ previous \in [z.tabs -> Browser(z)!MaybeSnapshot]
    /\ inflight \in [z.tabs -> Browser(z)!MaybeSnapshot]
    /\ queued \in [z.tabs -> Browser(z)!MaybeSnapshot]
    /\ shown \in [z.tabs -> [hist : Browser(z)!Keys \cup {NoKey}, status : Nat]]
    /\ received \in [z.tabs -> BOOLEAN]

\* The snapshot that is being written, or was the last one written, is the one a tab
\* holds when everything on its wire has arrived.
BaseFits(z, t) ==
    /\ inflight[t] # Browser(z)!Nothing => Browser(z)!Holds(t, Len(wire[t]), inflight[t].hist)
    /\ inflight[t] = Browser(z)!Nothing /\ previous[t] # Browser(z)!Nothing =>
         Browser(z)!Holds(t, Len(wire[t]), previous[t].hist)
PatchFits(z, t) ==
    \A n \in DOMAIN wire[t] :
      wire[t][n].kind = "patch" => Browser(z)!Holds(t, n - 1, wire[t][n].from)
TabInv(z) ==
    /\ BrowserTypes(z)
    /\ \A t \in z.tabs : BaseFits(z, t) /\ PatchFits(z, t)

\* What a tab holds after n messages does not change when another follows.
LEMMA HeldBeforeAppend ==
    ASSUME NEW z, NEW S, NEW t, NEW m, NEW n \in 0..Len(wire[t]), NEW h,
           wire[t] \in Seq(S), wire'[t] = Append(wire[t], m),
           received'[t] = received[t], shown'[t] = shown[t]
    PROVE  Browser(z)!Holds(t, n, h)' <=> Browser(z)!Holds(t, n, h)
<1>1. \A k \in 1..n : wire'[t][k] = wire[t][k]
  OBVIOUS
<1>2. n \in Nat /\ \A k \in 1..n : (k + 1)..n \subseteq 1..n
  OBVIOUS
<1>3. (\A j \in 1..n : ~Browser(z)!Gives(wire'[t][j])) <=> (\A j \in 1..n : ~Browser(z)!Gives(wire[t][j]))
  BY <1>1
<1>4. ASSUME NEW k \in 1..n
      PROVE  /\ Browser(z)!Gives(wire'[t][k]) <=> Browser(z)!Gives(wire[t][k])
             /\ wire'[t][k] = wire[t][k]
             /\ (\A j \in (k + 1)..n : ~Browser(z)!Gives(wire'[t][j]))
                <=> (\A j \in (k + 1)..n : ~Browser(z)!Gives(wire[t][j]))
  BY <1>1, <1>2
<1>5. (\E k \in 1..n : /\ Browser(z)!Gives(wire'[t][k]) /\ wire'[t][k].to.hist = h
                       /\ \A j \in (k + 1)..n : ~Browser(z)!Gives(wire'[t][j]))
      <=> (\E k \in 1..n : /\ Browser(z)!Gives(wire[t][k]) /\ wire[t][k].to.hist = h
                           /\ \A j \in (k + 1)..n : ~Browser(z)!Gives(wire[t][j]))
  BY <1>4
<1> QED
  BY <1>3, <1>5 DEF Browser!Holds

\* A message that is no snapshot leaves what the tab will hold; a snapshot becomes that.
LEMMA HeldAfterAppend ==
    ASSUME NEW z, NEW S, NEW t, NEW m, NEW h, NEW l, l = Len(wire[t]),
           wire[t] \in Seq(S), wire'[t] = Append(wire[t], m),
           received'[t] = received[t], shown'[t] = shown[t],
           \/ Browser(z)!Gives(m) /\ h = m.to.hist
           \/ ~Browser(z)!Gives(m) /\ Browser(z)!Holds(t, l, h)
    PROVE  Browser(z)!Holds(t, Len(wire[t]), h)'
<1>1. /\ l \in Nat /\ Len(wire'[t]) = l + 1 /\ wire'[t][l + 1] = m
      /\ \A k \in 1..l : wire'[t][k] = wire[t][k]
  OBVIOUS
<1>3. \A j \in 1..(l + 1) : j \in 1..l \/ j = l + 1
  BY <1>1
<1>4. SUFFICES Browser(z)!Holds(t, l + 1, h)'
  BY <1>1
<1>5. CASE Browser(z)!Gives(m) /\ h = m.to.hist
  <2>1. l + 1 \in 1..(l + 1) /\ (l + 1 + 1)..(l + 1) = {}
    BY <1>1
  <2> QED
    BY <1>1, <1>5, <2>1 DEF Browser!Holds, Browser!Gives
<1>6. CASE ~Browser(z)!Gives(m) /\ Browser(z)!Holds(t, l, h)
  <2>1. CASE received[t] /\ shown[t].hist = h /\ \A j \in 1..l : ~Browser(z)!Gives(wire[t][j])
    BY <1>1, <1>3, <1>6, <2>1 DEF Browser!Holds, Browser!Gives
  <2>2. CASE \E k \in 1..l :
               /\ Browser(z)!Gives(wire[t][k]) /\ wire[t][k].to.hist = h
               /\ \A j \in (k + 1)..l : ~Browser(z)!Gives(wire[t][j])
    <3>1. PICK k \in 1..l :
            /\ Browser(z)!Gives(wire[t][k]) /\ wire[t][k].to.hist = h
            /\ \A j \in (k + 1)..l : ~Browser(z)!Gives(wire[t][j])
      BY <2>2
    <3>2. \A j \in (k + 1)..(l + 1) : j = l + 1 \/ (j \in 1..l /\ j \in (k + 1)..l)
      BY <1>1, <3>1
    <3>3. \A j \in (k + 1)..(l + 1) : ~Browser(z)!Gives(wire'[t][j])
      BY <1>1, <1>6, <3>1, <3>2 DEF Browser!Gives
    <3>4. k \in 1..(l + 1) /\ wire'[t][k] = wire[t][k]
      BY <1>1
    <3> QED
      BY <3>1, <3>3, <3>4 DEF Browser!Holds, Browser!Gives
  <2> QED
    BY <1>6, <2>1, <2>2 DEF Browser!Holds
<1> QED
  BY <1>5, <1>6

\* A message that arrives is what the tab holds from then on, if it is a snapshot.
LEMMA HeldAfterTail ==
    ASSUME NEW z, NEW S, NEW t, NEW n \in 1..Len(wire[t]), NEW h,
           wire[t] \in Seq(S), wire'[t] = Tail(wire[t]), received'[t],
           \/ Browser(z)!Gives(Head(wire[t])) /\ shown'[t].hist = Head(wire[t]).to.hist
           \/ ~Browser(z)!Gives(Head(wire[t])) /\ received[t] /\ shown'[t].hist = shown[t].hist,
           Browser(z)!Holds(t, n, h)
    PROVE  Browser(z)!Holds(t, n - 1, h)'
<1>1. /\ Head(wire[t]) = wire[t][1] /\ n - 1 \in Nat
      /\ \A k \in 1..(n - 1) : wire'[t][k] = wire[t][k + 1] /\ k + 1 \in 1..n
  OBVIOUS
<1>2. CASE received[t] /\ shown[t].hist = h /\ \A j \in 1..n : ~Browser(z)!Gives(wire[t][j])
  <2>1. \A k \in 1..(n - 1) : ~Browser(z)!Gives(wire'[t][k])
    BY <1>1, <1>2 DEF Browser!Gives
  <2>2. ~Browser(z)!Gives(wire[t][1])
    BY <1>2
  <2> QED
    BY <1>1, <1>2, <2>1, <2>2 DEF Browser!Holds, Browser!Gives
<1>3. CASE \E k \in 1..n :
             /\ Browser(z)!Gives(wire[t][k]) /\ wire[t][k].to.hist = h
             /\ \A j \in (k + 1)..n : ~Browser(z)!Gives(wire[t][j])
  <2>1. PICK k \in 1..n :
          /\ Browser(z)!Gives(wire[t][k]) /\ wire[t][k].to.hist = h
          /\ \A j \in (k + 1)..n : ~Browser(z)!Gives(wire[t][j])
    BY <1>3
  <2>2. \A j \in k..(n - 1) : j + 1 \in (k + 1)..n /\ j \in 1..(n - 1)
    OBVIOUS
  <2>3. \A j \in k..(n - 1) : ~Browser(z)!Gives(wire'[t][j])
    BY <1>1, <2>1, <2>2 DEF Browser!Gives
  <2>4. CASE k = 1
    BY <1>1, <2>1, <2>3, <2>4 DEF Browser!Holds, Browser!Gives
  <2>5. CASE k > 1
    <3>1. k - 1 \in 1..(n - 1) /\ wire'[t][k - 1] = wire[t][k] /\ (k - 1) + 1 = k
      BY <1>1, <2>5
    <3> QED
      BY <2>1, <2>3, <3>1 DEF Browser!Holds, Browser!Gives
  <2> QED
    BY <2>4, <2>5
<1> QED
  BY <1>2, <1>3 DEF Browser!Holds

\* A tab nothing happens to keeps its picture.
LEMMA TabAtRest ==
    ASSUME NEW z, NEW o \in z.tabs, wire'[o] = wire[o], received'[o] = received[o],
           shown'[o] = shown[o]
    PROVE  /\ PatchFits(z, o) => PatchFits(z, o)'
           /\ previous'[o] = previous[o] /\ inflight'[o] = inflight[o] /\ BaseFits(z, o) =>
                BaseFits(z, o)'
<1>1. ASSUME NEW n, NEW h PROVE Browser(z)!Holds(o, n, h)' <=> Browser(z)!Holds(o, n, h)
  BY DEF Browser!Holds, Browser!Gives
<1>2. PatchFits(z, o) => PatchFits(z, o)'
  BY <1>1 DEF PatchFits
<1>3. previous'[o] = previous[o] /\ inflight'[o] = inflight[o] /\ BaseFits(z, o) => BaseFits(z, o)'
  <2> SUFFICES ASSUME previous'[o] = previous[o], inflight'[o] = inflight[o], BaseFits(z, o)
               PROVE  BaseFits(z, o)'
    OBVIOUS
  <2>1. Browser(z)!Nothing' = Browser(z)!Nothing
    BY DEF Browser!Nothing
  <2>2. /\ inflight[o] # Browser(z)!Nothing => Browser(z)!Holds(o, Len(wire[o]), inflight[o].hist)'
        /\ inflight[o] = Browser(z)!Nothing /\ previous[o] # Browser(z)!Nothing =>
             Browser(z)!Holds(o, Len(wire[o]), previous[o].hist)'
    BY DEF BaseFits, Browser!Holds, Browser!Gives
  <2> QED
    BY <2>1, <2>2 DEF BaseFits
<1> QED
  BY <1>2, <1>3

\* A message is posted: a patch is made from what the tab will hold.
LEMMA PostFits ==
    ASSUME NEW z, TabInv(z), NEW t \in z.tabs, NEW m \in Message(z),
           wire' = [wire EXCEPT ![t] = Append(@, m)], UNCHANGED <<received, shown>>,
           m.kind = "patch" => Browser(z)!Holds(t, Len(wire[t]), m.from)
    PROVE  /\ wire' \in [z.tabs -> Seq(Message(z))]
           /\ \A o \in z.tabs : PatchFits(z, o)'
<1>1. wire[t] \in Seq(Message(z)) /\ wire'[t] = Append(wire[t], m)
  BY DEF TabInv, BrowserTypes
<1>2. wire' \in [z.tabs -> Seq(Message(z))]
  BY <1>1 DEF TabInv, BrowserTypes
<1>3. ASSUME NEW o \in z.tabs, o # t PROVE PatchFits(z, o)'
  <2>1. wire'[o] = wire[o]
    BY <1>3 DEF TabInv, BrowserTypes
  <2> QED
    BY <2>1, TabAtRest DEF TabInv
<1>4. ASSUME NEW n \in DOMAIN wire'[t], wire'[t][n].kind = "patch", NEW h, h = wire'[t][n].from
      PROVE  Browser(z)!Holds(t, n - 1, h)'
  <2>1. CASE n \in DOMAIN wire[t]
    <3>1. wire'[t][n] = wire[t][n] /\ n - 1 \in 0..Len(wire[t])
      BY <1>1, <2>1
    <3>2. Browser(z)!Holds(t, n - 1, h)
      BY <1>4, <2>1, <3>1 DEF TabInv, PatchFits
    <3> QED
      BY <1>1, <3>1, <3>2, HeldBeforeAppend
  <2>2. CASE n \notin DOMAIN wire[t]
    <3>1. n - 1 = Len(wire[t]) /\ wire'[t][n] = m /\ n - 1 \in 0..Len(wire[t])
      BY <1>1, <2>2
    <3>2. Browser(z)!Holds(t, n - 1, h)
      BY <1>4, <3>1
    <3> QED
      BY <1>1, <3>1, <3>2, HeldBeforeAppend
  <2> QED
    BY <2>1, <2>2
<1>5. PatchFits(z, t)'
  BY <1>4 DEF PatchFits
<1> QED
  BY <1>2, <1>3, <1>5

\* A posted snapshot is in flight; another message changes nothing about the snapshots.
LEMMA PostKeeps ==
    ASSUME NEW z, TabInv(z), NEW t \in z.tabs, NEW m \in Message(z), BrowserTypes(z)',
           wire' = [wire EXCEPT ![t] = Append(@, m)], UNCHANGED <<received, shown>>,
           m.kind = "patch" => Browser(z)!Holds(t, Len(wire[t]), m.from),
           \A o \in z.tabs \ {t} : previous'[o] = previous[o] /\ inflight'[o] = inflight[o],
           \/ /\ Browser(z)!Gives(m) /\ inflight'[t] # Browser(z)!Nothing
              /\ inflight'[t].hist = m.to.hist
           \/ /\ ~Browser(z)!Gives(m)
              /\ previous'[t] = previous[t] /\ inflight'[t] = inflight[t]
    PROVE  TabInv(z)'
<1>1. wire[t] \in Seq(Message(z)) /\ wire'[t] = Append(wire[t], m)
  BY DEF TabInv, BrowserTypes
<1>2. \A o \in z.tabs : PatchFits(z, o)'
  BY PostFits
<1>3. ASSUME NEW o \in z.tabs, o # t PROVE BaseFits(z, o)'
  <2>1. wire'[o] = wire[o]
    BY <1>3 DEF TabInv, BrowserTypes
  <2> QED
    BY <1>3, <2>1, TabAtRest DEF TabInv
<1>4. BaseFits(z, t)'
  <2>1. CASE /\ Browser(z)!Gives(m) /\ inflight'[t] # Browser(z)!Nothing
             /\ inflight'[t].hist = m.to.hist
    <3>1. ASSUME NEW h, h = m.to.hist PROVE Browser(z)!Holds(t, Len(wire[t]), h)'
      BY <1>1, <2>1, <3>1, HeldAfterAppend
    <3>2. Browser(z)!Holds(t, Len(wire[t]), inflight[t].hist)'
      BY <2>1, <3>1
    <3>3. Browser(z)!Nothing' = Browser(z)!Nothing
      BY DEF Browser!Nothing
    <3> QED
      BY <2>1, <3>2, <3>3 DEF BaseFits
  <2>2. CASE /\ ~Browser(z)!Gives(m)
             /\ previous'[t] = previous[t] /\ inflight'[t] = inflight[t]
    <3>1. ASSUME NEW h, Browser(z)!Holds(t, Len(wire[t]), h)
          PROVE  Browser(z)!Holds(t, Len(wire[t]), h)'
      BY <1>1, <2>2, <3>1, HeldAfterAppend
    <3>2. Browser(z)!Nothing' = Browser(z)!Nothing
      BY DEF Browser!Nothing
    <3>3. BaseFits(z, t)
      BY DEF TabInv
    <3> QED
      BY <2>2, <3>1, <3>2, <3>3 DEF BaseFits
  <2> QED
    BY <2>1, <2>2
<1> QED
  BY <1>2, <1>3, <1>4 DEF TabInv

\* What the backend sends is a snapshot; it differs from none.
LEMMA CurrentIsSnapshot ==
    ASSUME NEW z, Browser(z)!BrowserAssumption, BrowserTypes(z)
    PROVE  /\ Browser(z)!Current \in Browser(z)!Snapshots /\ Browser(z)!Current # Browser(z)!Nothing
           /\ \A s \in Browser(z)!Snapshots : s # Browser(z)!Nothing /\ s.hist \in Browser(z)!Keys
BY DEF BrowserTypes, Browser!BrowserAssumption, Browser!Current, Browser!Key, Browser!Snapshots,
       Browser!Nothing, Browser!Keys

\* A step that leaves connections and pictures alone.
LEMMA PicturesRest ==
    ASSUME NEW z, TabInv(z), BrowserTypes(z)',
           UNCHANGED <<wire, previous, inflight, queued, shown, received>>
    PROVE  TabInv(z)'
BY TabAtRest DEF TabInv

\* A snapshot is sent against the last one, or replaces the one that waits.
LEMMA PushKeeps ==
    ASSUME NEW z, Browser(z)!BrowserAssumption, TabInv(z), NEW t \in z.tabs,
           Browser(z)!Push(t, Browser(z)!Current), UNCHANGED <<received, shown>>,
           UNCHANGED <<cursor, status, view, controller, up, want>>
    PROVE  TabInv(z)'
<1> DEFINE new == Browser(z)!Current
<1>1. new \in Browser(z)!Snapshots /\ new # Browser(z)!Nothing
  BY CurrentIsSnapshot DEF TabInv
<1> HIDE DEF new
<1>2. CASE inflight[t] # Browser(z)!Nothing
  <2>1. queued' = [queued EXCEPT ![t] = new] /\ UNCHANGED <<previous, inflight, wire>>
    BY <1>2 DEF Browser!Push, new
  <2>2. BrowserTypes(z)'
    BY <1>1, <2>1 DEF TabInv, BrowserTypes, Browser!MaybeSnapshot, Browser!Snapshots, Browser!Nothing, Browser!Keys,
           Message, Browser!Lost
  <2> QED
    BY <2>1, <2>2, TabAtRest DEF TabInv
<1>3. CASE inflight[t] = Browser(z)!Nothing
  <2> DEFINE m == Browser(z)!Output(t, new)
  <2>1. /\ wire' = [wire EXCEPT ![t] = Append(@, m)]
        /\ inflight' = [inflight EXCEPT ![t] = new] /\ UNCHANGED <<previous, queued>>
    BY <1>3 DEF Browser!Push, Browser!Post, new
  <2>2. /\ m \in Message(z) /\ Browser(z)!Gives(m) /\ m.to = new
        /\ m.kind = "patch" => Browser(z)!Holds(t, Len(wire[t]), m.from)
    <3>1. CASE previous[t] = Browser(z)!Nothing
      BY <1>1, <3>1 DEF Message, Browser!Output, Browser!Gives
    <3>2. CASE previous[t] # Browser(z)!Nothing
      <4>1. previous[t] \in Browser(z)!Snapshots /\ previous[t].hist \in Browser(z)!Keys
        BY <3>2 DEF TabInv, BrowserTypes, Browser!MaybeSnapshot, Browser!Snapshots
      <4>2. m = [kind |-> "patch", from |-> previous[t].hist, to |-> new]
        BY <3>2 DEF Browser!Output
      <4>3. Browser(z)!Holds(t, Len(wire[t]), previous[t].hist)
        BY <1>3, <3>2 DEF TabInv, BaseFits
      <4> QED
        BY <1>1, <4>1, <4>2, <4>3 DEF Message, Browser!Gives
    <3> QED
      BY <3>1, <3>2
  <2> HIDE DEF m
  <2>3. BrowserTypes(z)'
    <3>1. wire' \in [z.tabs -> Seq(Message(z))]
      BY <2>1, <2>2, PostFits
    <3>2. inflight' \in [z.tabs -> Browser(z)!MaybeSnapshot]
      BY <1>1, <2>1 DEF TabInv, BrowserTypes, Browser!MaybeSnapshot
    <3> QED
      BY <2>1, <3>1, <3>2 DEF TabInv, BrowserTypes, Browser!MaybeSnapshot, Browser!Snapshots,
           Browser!Nothing, Browser!Keys, Message, Browser!Lost
  <2>4. inflight'[t] = new /\ \A o \in z.tabs \ {t} : previous'[o] = previous[o] /\ inflight'[o] = inflight[o]
    BY <2>1 DEF TabInv, BrowserTypes
  <2> QED
    BY <1>1, <2>1, <2>2, <2>3, <2>4, PostKeeps
<1> QED
  BY <1>2, <1>3

\* A publication sends a snapshot or the status, or goes to nobody.
LEMMA PublishKeeps ==
    ASSUME NEW z, Browser(z)!BrowserAssumption, TabInv(z), Browser(z)!Publish PROVE TabInv(z)'
<1>1. /\ UNCHANGED <<cursor, status, view, controller, up, want>>
      /\ UNCHANGED <<received, shown>>
  BY DEF Browser!Publish, Browser!tabVars
<1>2. CASE UNCHANGED <<previous, inflight, queued, wire>>
  <2>1. BrowserTypes(z)'
    BY <1>1, <1>2 DEF TabInv, BrowserTypes, Message, Browser!MaybeSnapshot, Browser!Snapshots,
           Browser!Nothing, Browser!Keys, Browser!Lost
  <2> QED
    BY <1>1, <1>2, <2>1, PicturesRest
<1>3. CASE controller \in z.tabs /\ Browser(z)!Push(controller, Browser(z)!Current)
  BY <1>1, <1>3, PushKeeps
<1>4. CASE /\ controller \in z.tabs /\ UNCHANGED <<previous, inflight, queued>>
           /\ Browser(z)!Post(controller, [kind |-> "status", status |-> status])
  <2> DEFINE m == [kind |-> "status", status |-> status]
  <2>1. wire' = [wire EXCEPT ![controller] = Append(@, m)]
    BY <1>4 DEF Browser!Post
  <2>2. m \in Message(z) /\ ~Browser(z)!Gives(m) /\ m.kind # "patch"
    BY DEF TabInv, BrowserTypes, Message, Browser!Gives
  <2> HIDE DEF m
  <2>3. BrowserTypes(z)'
    <3>1. wire' \in [z.tabs -> Seq(Message(z))]
      BY <1>1, <1>4, <2>1, <2>2, PostFits
    <3> QED
      BY <1>1, <1>4, <3>1 DEF TabInv, BrowserTypes, Browser!MaybeSnapshot, Browser!Snapshots,
           Browser!Nothing, Browser!Keys, Message, Browser!Lost
  <2> QED
    BY <1>1, <1>4, <2>1, <2>2, <2>3, PostKeeps
<1> QED
  BY <1>2, <1>3, <1>4 DEF Browser!Publish

\* A snapshot has been written; the one that waited follows as a patch of it.
LEMMA WrittenKeeps ==
    ASSUME NEW z, Browser(z)!BrowserAssumption, TabInv(z), NEW t \in z.tabs, Browser(z)!Written(t)
    PROVE  TabInv(z)'
<1>1. /\ UNCHANGED <<cursor, status, view, controller, up, want, received, shown>>
      /\ inflight[t] # Browser(z)!Nothing /\ previous' = [previous EXCEPT ![t] = inflight[t]]
      /\ inflight' = [inflight EXCEPT ![t] = queued[t]]
      /\ queued' = [queued EXCEPT ![t] = Browser(z)!Nothing]
  BY DEF Browser!Written, Browser!serverVars, Browser!tabVars
<1>2. /\ inflight'[t] = queued[t] /\ previous'[t] = inflight[t]
      /\ \A o \in z.tabs \ {t} : previous'[o] = previous[o] /\ inflight'[o] = inflight[o]
  BY <1>1 DEF TabInv, BrowserTypes
<1>3. Browser(z)!Holds(t, Len(wire[t]), inflight[t].hist)
  BY <1>1 DEF TabInv, BaseFits
<1>4. wire' \in [z.tabs -> Seq(Message(z))] => BrowserTypes(z)'
  BY <1>1 DEF TabInv, BrowserTypes, Message, Browser!MaybeSnapshot, Browser!Snapshots,
           Browser!Nothing, Browser!Keys, Browser!Lost
<1>5. CASE queued[t] = Browser(z)!Nothing
  <2>1. UNCHANGED wire
    BY <1>5 DEF Browser!Written
  <2>2. BrowserTypes(z)'
    BY <1>4, <2>1 DEF TabInv, BrowserTypes, Message, Browser!Snapshots, Browser!Keys
  <2>3. BaseFits(z, t)'
    <3>1. Browser(z)!Nothing' = Browser(z)!Nothing
      BY DEF Browser!Nothing
    <3>2. Browser(z)!Holds(t, Len(wire[t]), previous[t].hist)'
      BY <1>1, <1>2, <1>3, <2>1 DEF Browser!Holds, Browser!Gives
    <3> QED
      BY <1>2, <1>5, <3>1, <3>2 DEF BaseFits
  <2>4. \A o \in z.tabs : PatchFits(z, o)' /\ (o # t => BaseFits(z, o)')
    BY <1>1, <1>2, <2>1, TabAtRest DEF TabInv
  <2> QED
    BY <2>2, <2>3, <2>4 DEF TabInv
<1>6. CASE queued[t] # Browser(z)!Nothing
  <2> DEFINE m == [kind |-> "patch", from |-> inflight[t].hist, to |-> queued[t]]
  <2>1. wire' = [wire EXCEPT ![t] = Append(@, m)]
    BY <1>6 DEF Browser!Written, Browser!Post
  <2>2. m \in Message(z) /\ Browser(z)!Gives(m) /\ m.to = queued[t] /\ m.from = inflight[t].hist
    <3>1. inflight[t] \in Browser(z)!Snapshots /\ queued[t] \in Browser(z)!Snapshots
      BY <1>1, <1>6 DEF TabInv, BrowserTypes, Browser!MaybeSnapshot
    <3>2. inflight[t].hist \in Browser(z)!Keys
      BY <3>1 DEF Browser!Snapshots
    <3> QED
      BY <3>1, <3>2 DEF Message, Browser!Gives
  <2> HIDE DEF m
  <2>3. BrowserTypes(z)'
    BY <1>1, <1>3, <1>4, <2>1, <2>2, PostFits
  <2> QED
    BY <1>1, <1>2, <1>3, <1>6, <2>1, <2>2, <2>3, PostKeeps
<1> QED
  BY <1>5, <1>6

\* A tab that authenticates gets a full snapshot; the tab it replaces is told.
LEMMA AuthenticateKeeps ==
    ASSUME NEW z, Browser(z)!BrowserAssumption, TabInv(z), NEW t \in z.tabs,
           Browser(z)!Authenticate(t)
    PROVE  TabInv(z)'
<1> DEFINE new == Browser(z)!Current
           full == [kind |-> "full", to |-> new]
           told == [kind |-> "replaced"]
<1>1. /\ UNCHANGED <<cursor, status, view, up, want, received, shown, previous, queued>>
      /\ controller' = t /\ inflight' = [inflight EXCEPT ![t] = new]
      /\ wire' = [o \in z.tabs |->
                    IF o = t THEN <<full>>
                    ELSE IF o = controller THEN Append(wire[o], told) ELSE wire[o]]
  BY DEF Browser!Authenticate, Browser!tabVars
<1>2. new \in Browser(z)!Snapshots /\ new # Browser(z)!Nothing
  BY CurrentIsSnapshot DEF TabInv
<1> HIDE DEF new
<1>3. full \in Message(z) /\ told \in Message(z) /\ Browser(z)!Gives(full) /\ ~Browser(z)!Gives(told)
  BY <1>2 DEF Message, Browser!Gives
<1>4. full.kind # "patch" /\ full.to = new /\ told.kind # "patch"
  OBVIOUS
<1> HIDE DEF full, told
<1>5. wire' \in [z.tabs -> Seq(Message(z))]
  BY <1>1, <1>3 DEF TabInv, BrowserTypes
<1>6. BrowserTypes(z)'
  BY <1>1, <1>2, <1>5 DEF TabInv, BrowserTypes, Message, Browser!MaybeSnapshot, Browser!Snapshots,
           Browser!Nothing, Browser!Keys, Browser!Lost
<1>7. BaseFits(z, t)' /\ PatchFits(z, t)'
  <2>1. wire'[t] = <<full>> /\ inflight'[t] = new
    BY <1>1 DEF TabInv, BrowserTypes
  <2>2. Len(wire'[t]) = 1 /\ wire'[t][1] = full /\ DOMAIN wire'[t] = {1}
    BY <2>1
  <2>3. PatchFits(z, t)'
    BY <1>4, <2>2 DEF PatchFits
  <2>4. Browser(z)!Holds(t, Len(wire[t]), inflight[t].hist)'
    <3>1. 1 \in 1..1 /\ 2..1 = {} /\ 1 + 1 = 2
      OBVIOUS
    <3> QED
      BY <1>3, <1>4, <2>1, <2>2, <3>1 DEF Browser!Holds, Browser!Gives
  <2>5. Browser(z)!Nothing' = Browser(z)!Nothing
    BY DEF Browser!Nothing
  <2> QED
    BY <1>2, <2>1, <2>3, <2>4, <2>5 DEF BaseFits
<1>8. ASSUME NEW o \in z.tabs, o # t PROVE BaseFits(z, o)' /\ PatchFits(z, o)'
  <2>1. inflight'[o] = inflight[o] /\ previous'[o] = previous[o] /\ BaseFits(z, o) /\ PatchFits(z, o)
    BY <1>1, <1>8 DEF TabInv, BrowserTypes
  <2>2. CASE o # controller
    <3>1. wire'[o] = wire[o]
      BY <1>1, <1>8, <2>2
    <3> QED
      BY <1>1, <2>1, <3>1, TabAtRest
  <2>3. CASE o = controller
    <3>1. wire'[o] = Append(wire[o], told) /\ wire[o] \in Seq(Message(z))
      BY <1>1, <1>8, <2>3 DEF TabInv, BrowserTypes
    <3>2. \A n \in 0..Len(wire[o]) : \A h :
            Browser(z)!Holds(o, n, h)' <=> Browser(z)!Holds(o, n, h)
      BY <1>1, <3>1, HeldBeforeAppend
    <3>3. ASSUME NEW h, Browser(z)!Holds(o, Len(wire[o]), h)
          PROVE  Browser(z)!Holds(o, Len(wire[o]), h)'
      BY <1>1, <1>3, <3>1, <3>3, HeldAfterAppend
    <3>4. Browser(z)!Nothing' = Browser(z)!Nothing
      BY DEF Browser!Nothing
    <3>5. BaseFits(z, o)'
      BY <2>1, <3>3, <3>4 DEF BaseFits
    <3>6. ASSUME NEW n \in DOMAIN wire'[o], wire'[o][n].kind = "patch"
          PROVE  wire'[o][n] = wire[o][n] /\ n \in DOMAIN wire[o] /\ n - 1 \in 0..Len(wire[o])
      BY <1>4, <3>1, <3>6
    <3>7. PatchFits(z, o)'
      BY <2>1, <3>2, <3>6 DEF PatchFits
    <3> QED
      BY <3>5, <3>7
  <2> QED
    BY <2>2, <2>3
<1> QED
  BY <1>6, <1>7, <1>8 DEF TabInv

\* A connection that is lost or given up leaves no picture behind.
LEMMA DropKeeps ==
    ASSUME NEW z, TabInv(z), NEW t \in z.tabs, NEW to, Browser(z)!SocketGone(t, to), UNCHANGED shown,
           received' = received \/ received' = [received EXCEPT ![t] = FALSE],
           UNCHANGED <<cursor, status, view, want>>
    PROVE  TabInv(z)'
<1>1. /\ up' = [up EXCEPT ![t] = <<>>] /\ wire' = [wire EXCEPT ![t] = <<>>]
      /\ previous' = [previous EXCEPT ![t] = Browser(z)!Nothing]
      /\ inflight' = [inflight EXCEPT ![t] = Browser(z)!Nothing]
      /\ queued' = [queued EXCEPT ![t] = Browser(z)!Nothing]
      /\ controller' = IF controller = t THEN Browser(z)!Lost ELSE controller
  BY DEF Browser!SocketGone
<1>2. BrowserTypes(z)'
  <2>1. wire' \in [z.tabs -> Seq(Message(z))] /\ up' \in [z.tabs -> Seq(Threads)]
    BY <1>1 DEF TabInv, BrowserTypes
  <2> QED
    BY <1>1, <2>1 DEF TabInv, BrowserTypes, Message, Browser!MaybeSnapshot, Browser!Snapshots,
           Browser!Nothing, Browser!Keys, Browser!Lost
<1>3. BaseFits(z, t)' /\ PatchFits(z, t)'
  <2>1. wire'[t] = <<>> /\ inflight'[t] = Browser(z)!Nothing /\ previous'[t] = Browser(z)!Nothing
    BY <1>1 DEF TabInv, BrowserTypes
  <2>2. Browser(z)!Nothing' = Browser(z)!Nothing
    BY DEF Browser!Nothing
  <2>3. DOMAIN wire'[t] = {}
    BY <2>1
  <2> QED
    BY <2>1, <2>2, <2>3 DEF BaseFits, PatchFits
<1>4. ASSUME NEW o \in z.tabs, o # t PROVE BaseFits(z, o)' /\ PatchFits(z, o)'
  <2>1. /\ wire'[o] = wire[o] /\ inflight'[o] = inflight[o] /\ previous'[o] = previous[o]
        /\ received'[o] = received[o] /\ shown'[o] = shown[o]
    BY <1>1, <1>4 DEF TabInv, BrowserTypes
  <2> QED
    BY <2>1, TabAtRest DEF TabInv
<1> QED
  BY <1>2, <1>3, <1>4 DEF TabInv

\* A tab shows what arrives; what it cannot use, or that it was replaced, ends the connection.
LEMMA ReceiveKeeps ==
    ASSUME NEW z, Browser(z)!BrowserAssumption, TabInv(z), NEW t \in z.tabs, Browser(z)!Receive(t)
    PROVE  TabInv(z)'
<1>1. /\ wire[t] # <<>> /\ wire[t] \in Seq(Message(z))
      /\ UNCHANGED <<cursor, status, view, want>>
  BY DEF Browser!Receive, TabInv, BrowserTypes
<1>2. CASE \E to : Browser(z)!Dropped(t, to) /\ UNCHANGED shown
  BY <1>1, <1>2, DropKeeps DEF Browser!Dropped
<1>3. CASE /\ Browser(z)!Usable(t, Head(wire[t])) /\ Browser(z)!Shows(t, Head(wire[t]))
           /\ Head(wire[t]).kind # "replaced"
           /\ wire' = [wire EXCEPT ![t] = Tail(@)] /\ received' = [received EXCEPT ![t] = TRUE]
           /\ up' = [up EXCEPT ![t] = IF received[t] THEN @ ELSE Append(@, want[t])]
           /\ UNCHANGED <<controller, previous, inflight, queued>>
  <2> DEFINE m == Head(wire[t])
  <2>1. m \in Message(z) /\ m = wire[t][1]
    BY <1>1
  <2>2. \/ m.kind \in {"full", "patch"} /\ m.to \in Browser(z)!Snapshots
        \/ m.kind = "status" /\ m.status \in 0..z.status
    BY <1>3, <2>1 DEF Message
  <2>3. wire'[t] = Tail(wire[t]) /\ wire'[t] \in Seq(Message(z)) /\ received'[t]
    BY <1>1, <1>3 DEF TabInv, BrowserTypes
  <2>4. \/ Browser(z)!Gives(m) /\ shown'[t].hist = m.to.hist
        \/ ~Browser(z)!Gives(m) /\ received[t] /\ shown'[t].hist = shown[t].hist
    <3>1. shown \in [z.tabs -> [hist : Browser(z)!Keys \cup {NoKey}, status : Nat]]
      BY DEF TabInv, BrowserTypes
    <3>2. CASE m.kind \in {"full", "patch"}
      BY <1>3, <3>1, <3>2 DEF Browser!Shows, Browser!Gives
    <3>3. CASE m.kind = "status"
      <4>1. shown'[t] = [shown[t] EXCEPT !.status = m.status]
        BY <1>3, <3>1, <3>3 DEF Browser!Shows
      <4> QED
        BY <1>3, <3>1, <3>3, <4>1 DEF Browser!Usable, Browser!Gives
    <3> QED
      BY <2>2, <3>2, <3>3
  <2>5. \A n \in 1..Len(wire[t]) : \A h :
          Browser(z)!Holds(t, n, h) => Browser(z)!Holds(t, n - 1, h)'
    BY <1>1, <2>3, <2>4, HeldAfterTail
  <2> HIDE DEF m
  <2>6. Len(wire'[t]) = Len(wire[t]) - 1 /\ Len(wire[t]) \in 1..Len(wire[t])
    BY <1>1, <2>3
  <2>7. BaseFits(z, t)'
    <3>1. BaseFits(z, t) /\ Browser(z)!Nothing' = Browser(z)!Nothing
      BY DEF TabInv, Browser!Nothing
    <3>2. ASSUME NEW h, NEW l, l = Len(wire[t]), Browser(z)!Holds(t, l, h)
          PROVE  Browser(z)!Holds(t, Len(wire[t]), h)'
      <4>1. Browser(z)!Holds(t, l - 1, h)' /\ Len(wire'[t]) = l - 1
        BY <2>5, <2>6, <3>2
      <4> QED
        BY <4>1
    <3> QED
      BY <1>3, <3>1, <3>2 DEF BaseFits
  <2>8. PatchFits(z, t)'
    <3> SUFFICES ASSUME NEW n \in DOMAIN wire'[t], wire'[t][n].kind = "patch",
                        NEW h, h = wire'[t][n].from
                 PROVE  Browser(z)!Holds(t, n - 1, h)'
      BY DEF PatchFits
    <3>1. /\ n + 1 \in DOMAIN wire[t] /\ wire'[t][n] = wire[t][n + 1] /\ n \in 1..Len(wire[t])
          /\ (n + 1) - 1 = n
      BY <1>1, <2>3
    <3>2. Browser(z)!Holds(t, n, h)
      BY <3>1 DEF TabInv, PatchFits
    <3> QED
      BY <2>5, <3>1, <3>2
  <2>9. ASSUME NEW o \in z.tabs, o # t PROVE BaseFits(z, o)' /\ PatchFits(z, o)'
    <3>1. /\ wire'[o] = wire[o] /\ inflight'[o] = inflight[o] /\ previous'[o] = previous[o]
          /\ received'[o] = received[o] /\ shown'[o] = shown[o]
      BY <1>3, <2>9 DEF TabInv, BrowserTypes, Browser!Shows
    <3> QED
      BY <3>1, TabAtRest DEF TabInv
  <2>10. BrowserTypes(z)'
    <3>1. wire' \in [z.tabs -> Seq(Message(z))]
      BY <1>3, <2>3 DEF TabInv, BrowserTypes
    <3>2. up' \in [z.tabs -> Seq(Threads)]
      BY <1>3 DEF TabInv, BrowserTypes
    <3>3. shown' \in [z.tabs -> [hist : Browser(z)!Keys \cup {NoKey}, status : Nat]]
      <4>1. shown \in [z.tabs -> [hist : Browser(z)!Keys \cup {NoKey}, status : Nat]]
        BY DEF TabInv, BrowserTypes
      <4>2. CASE m.kind = "status"
        <5>1. shown' = [shown EXCEPT ![t] = [@ EXCEPT !.status = m.status]]
          BY <1>3, <4>2 DEF m, Browser!Shows
        <5>2. m.status \in Nat
          BY <2>2, <4>2
        <5> QED
          BY <4>1, <5>1, <5>2
      <4>3. CASE m.kind # "status"
        <5>1. shown' = [shown EXCEPT ![t] = m.to]
          BY <1>3, <4>3 DEF m, Browser!Shows
        <5>2. m.to \in [hist : Browser(z)!Keys \cup {NoKey}, status : Nat]
          BY <2>2, <4>3 DEF Browser!Snapshots
        <5> QED
          BY <4>1, <5>1, <5>2
      <4> QED
        BY <4>2, <4>3
    <3> QED
      BY <1>1, <1>3, <3>1, <3>2, <3>3 DEF TabInv, BrowserTypes, Message, Browser!MaybeSnapshot,
           Browser!Snapshots, Browser!Nothing, Browser!Keys, Browser!Lost
  <2> QED
    BY <2>7, <2>8, <2>9, <2>10 DEF TabInv
<1> QED
  BY <1>1, <1>2, <1>3 DEF Browser!Receive

\* Every step of the backend, of a socket and of a tab keeps the base of every patch.
LEMMA TabStepKeeps ==
    ASSUME NEW z, Browser(z)!BrowserAssumption, TabInv(z), [Browser(z)!Next]_(Browser(z)!vars)
    PROVE  TabInv(z)'
<1> USE DEF Browser!serverVars, Browser!socketVars, Browser!tabVars
<1>0. ASSUME BrowserTypes(z)', UNCHANGED <<wire, previous, inflight, queued, shown, received>>
      PROVE  TabInv(z)'
  BY <1>0, PicturesRest
<1>t. BrowserTypes(z)
  BY DEF TabInv
<1>1. CASE \/ UNCHANGED Browser(z)!vars
           \/ Browser(z)!JournalChanges \/ Browser(z)!StatusChanges \/ Browser(z)!ServerNotices
  <2>1. UNCHANGED <<view, up, want, wire, previous, inflight, queued, shown, received>>
    BY <1>1 DEF Browser!JournalChanges, Browser!StatusChanges, Browser!ServerNotices, Browser!vars
  <2>2. cursor' \in 0..z.cursor /\ status' \in 0..z.status
    <3>1. cursor \in 0..z.cursor /\ status \in 0..z.status /\ z.cursor \in Nat /\ z.status \in Nat
      BY <1>t DEF BrowserTypes, Browser!BrowserAssumption
    <3>2. \/ UNCHANGED <<cursor, status>>
          \/ cursor < z.cursor /\ cursor' = cursor + 1 /\ UNCHANGED status
          \/ status < z.status /\ status' = status + 1 /\ UNCHANGED cursor
      BY <1>1 DEF Browser!JournalChanges, Browser!StatusChanges, Browser!ServerNotices, Browser!vars
    <3> QED
      BY <3>1, <3>2
  <2>3. controller' \in z.tabs \cup {NoTab, Browser(z)!Lost}
    BY <1>1, <1>t DEF BrowserTypes, Browser!JournalChanges, Browser!StatusChanges,
           Browser!ServerNotices, Browser!vars
  <2> QED
    BY <1>0, <1>t, <2>1, <2>2, <2>3 DEF BrowserTypes, Message, Browser!MaybeSnapshot,
           Browser!Snapshots, Browser!Nothing, Browser!Keys, Browser!Lost
<1>2. CASE Browser(z)!Publish
  BY <1>2, PublishKeeps
<1>3. ASSUME NEW t \in z.tabs,
             \/ Browser(z)!Connect(t) \/ Browser(z)!Probe(t) \/ Browser(z)!RequestRefused(t)
             \/ Browser(z)!Reconnect(t) \/ Browser(z)!HistoryRequested(t)
             \/ \E thread \in Threads : Browser(z)!Click(t, thread)
      PROVE  TabInv(z)'
  <2>1. /\ UNCHANGED <<cursor, status, controller, wire, previous, inflight, queued, shown, received>>
        /\ up \in [z.tabs -> Seq(Threads)] /\ want \in [z.tabs -> Threads] /\ view \in Threads
    BY <1>3, <1>t DEF BrowserTypes, Browser!Connect, Browser!Probe, Browser!RequestRefused,
           Browser!Reconnect, Browser!HistoryRequested, Browser!Click
  <2>2. view' \in Threads
    <3>1. CASE Browser(z)!HistoryRequested(t)
      BY <2>1, <3>1 DEF Browser!HistoryRequested
    <3>2. CASE ~Browser(z)!HistoryRequested(t)
      BY <1>3, <2>1, <3>2 DEF Browser!Connect, Browser!Probe, Browser!RequestRefused,
           Browser!Reconnect, Browser!Click
    <3> QED
      BY <3>1, <3>2
  <2>3. want' \in [z.tabs -> Threads]
    BY <1>3, <2>1 DEF Browser!Connect, Browser!Probe, Browser!RequestRefused,
           Browser!Reconnect, Browser!HistoryRequested, Browser!Click
  <2>4. up' \in [z.tabs -> Seq(Threads)]
    <3>1. \/ up' = up \/ \E s \in Seq(Threads) : up' = [up EXCEPT ![t] = s]
      <4>1. up[t] \in Seq(Threads) /\ want[t] \in Threads
        BY <2>1
      <4>2. Append(up[t], want[t]) \in Seq(Threads) /\ <<>> \in Seq(Threads)
            /\ \A thread \in Threads : Append(up[t], thread) \in Seq(Threads)
        BY <4>1
      <4>3. up[t] # <<>> => Tail(up[t]) \in Seq(Threads)
        BY <4>1
      <4> QED
        BY <1>3, <2>1, <4>1, <4>2, <4>3 DEF Browser!Connect, Browser!Probe, Browser!RequestRefused,
           Browser!Reconnect, Browser!HistoryRequested, Browser!Click
    <3> QED
      BY <2>1, <3>1
  <2> QED
    BY <1>0, <1>t, <2>1, <2>2, <2>3, <2>4 DEF BrowserTypes, Message, Browser!MaybeSnapshot,
           Browser!Snapshots, Browser!Nothing, Browser!Keys, Browser!Lost
<1>4. ASSUME NEW t \in z.tabs, Browser(z)!Lose(t) \/ Browser(z)!Expire(t) PROVE TabInv(z)'
  <2>1. /\ \E to : Browser(z)!SocketGone(t, to)
        /\ received' = received \/ received' = [received EXCEPT ![t] = FALSE]
        /\ UNCHANGED <<cursor, status, view, want, shown>>
    BY <1>4 DEF Browser!Lose, Browser!Expire, Browser!Dropped
  <2> QED
    BY <2>1, DropKeeps
<1> QED
  BY <1>1, <1>2, <1>3, <1>4, AuthenticateKeeps, ReceiveKeeps, WrittenKeeps DEF Browser!Next

\* Nothing is on the wire to begin with.
LEMMA TabStarts ==
    ASSUME NEW z, Browser(z)!BrowserAssumption, Browser(z)!Init PROVE TabInv(z)
<1>1. \A t \in z.tabs : /\ wire[t] = <<>> /\ inflight[t] = Browser(z)!Nothing
                        /\ previous[t] = Browser(z)!Nothing
  BY DEF Browser!Init
<1>2. \A t \in z.tabs : BaseFits(z, t) /\ PatchFits(z, t)
  BY <1>1 DEF BaseFits, PatchFits
<1>3. BrowserTypes(z)
  <2>1. <<>> \in Seq(Message(z)) /\ <<>> \in Seq(Threads)
    OBVIOUS
  <2>2. 0 \in 0..z.cursor /\ 0 \in 0..z.status
    BY DEF Browser!BrowserAssumption
  <2>3. wire \in [z.tabs -> Seq(Message(z))] /\ up \in [z.tabs -> Seq(Threads)]
    BY <2>1 DEF Browser!Init
  <2>4. /\ previous \in [z.tabs -> Browser(z)!MaybeSnapshot]
        /\ inflight \in [z.tabs -> Browser(z)!MaybeSnapshot]
        /\ queued \in [z.tabs -> Browser(z)!MaybeSnapshot]
    BY DEF Browser!Init, Browser!MaybeSnapshot
  <2>5. shown \in [z.tabs -> [hist : Browser(z)!Keys \cup {NoKey}, status : Nat]]
    BY DEF Browser!Init, Browser!Nothing
  <2> QED
    BY <2>2, <2>3, <2>4, <2>5 DEF Browser!Init, BrowserTypes
<1> QED
  BY <1>2, <1>3 DEF TabInv

-----------------------------------------------------------------------------
(***************************************************************************)
(* Commands of a tab                                                       *)
(***************************************************************************)

Issued == 1..Len(command)
CommandTypes ==
    /\ conversation \in [Threads -> {"absent", "live", "archived", "deleted"}]
    /\ task \in [Commands!Requests -> Commands!Live \cup {"none", "uncertain", "over"}]
    /\ receipt \in [Commands!Requests -> {"none", "receipt", "tombstone"}]
    /\ command \in Seq(Commands!Commands \cup [kind : {"stop"}, epoch : Nat])
    /\ Len(command) <= MaxRequests
    /\ pending \in Seq(Issued) /\ cUp \in Seq(Issued) /\ late \in Seq(Issued)
    /\ down \in Seq(Issued \X {"accepted", "error"}) /\ stopper \in 0..Len(command)
    /\ draft \in [Threads -> Texts \cup {Nobody}] /\ epoch \in Nat
    /\ effects \in [Texts -> Nat] /\ again \in [Texts -> Nat]

\* The requests that carry a text; those of them the journal has answered.
HasText(r) == command[r].kind \in {"submit", "steer"}
Carriers(m) == {r \in Issued : HasText(r) /\ command[r].text = m}
Answered(m) == {r \in Carriers(m) : receipt[r] # "none"}

\* What the journal knows was asked for; live work is in one live thread; a text became
\* work once for every request that carries it and has its receipt.
WorkInv ==
    /\ \A r \in Commands!Requests : task[r] # "none" \/ receipt[r] # "none" => r \in Issued
    /\ \A s, t \in Threads : Commands!Working(s) /\ Commands!Working(t) => s = t
    /\ \A t \in Threads : Commands!Working(t) => conversation[t] = "live"
    /\ \A m \in Texts : effects[m] <= Cardinality(Answered(m))

\* A text is in one composer; while a request that carries it is pending it stays there,
\* and its thread has no other.
DraftInv ==
    /\ \A s, t \in Threads : draft[s] = draft[t] /\ draft[s] # Nobody => s = t
    /\ \A t \in Threads, r \in Issued :
         HasText(r) /\ command[r].text = draft[t] => command[r].thread = t
    /\ \A i, j \in DOMAIN pending : pending[i] = pending[j] => i = j
    /\ \A i \in DOMAIN pending :
         HasText(pending[i]) => draft[command[pending[i]].thread] = command[pending[i]].text
    /\ \A i, j \in DOMAIN pending :
         /\ HasText(pending[i]) /\ HasText(pending[j])
         /\ command[pending[i]].thread = command[pending[j]].thread
         => i = j
\* A text is sent once more only after it was offered once more.
OfferInv ==
    \A m \in Texts :
      /\ Cardinality(Carriers(m)) <= 1 + again[m]
      /\ \A t \in Threads :
           draft[t] = m /\ ~Commands!Submitting(t) => Cardinality(Carriers(m)) <= again[m]
CommandInv == CommandTypes /\ WorkInv /\ DraftInv /\ OfferInv

\* Requests are finitely many.
LEMMA CarriersAreFinite ==
    ASSUME command \in Seq(Commands!Commands \cup [kind : {"stop"}, epoch : Nat])
    PROVE  \A m : IsFiniteSet(Carriers(m)) /\ IsFiniteSet(Answered(m))
                  /\ Cardinality(Answered(m)) <= Cardinality(Carriers(m))
                  /\ Cardinality(Carriers(m)) \in Nat /\ Cardinality(Answered(m)) \in Nat
<1> TAKE m
<1>1. IsFiniteSet(Issued)
  BY FS_Interval DEF Issued
<1>2. Carriers(m) \subseteq Issued /\ Answered(m) \subseteq Carriers(m)
  BY DEF Carriers, Answered
<1> QED
  BY <1>1, <1>2, FS_Subset, FS_CardinalityType

\* The work and the receipts are left alone.
LEMMA WorkRests ==
    ASSUME WorkInv, UNCHANGED <<conversation, task, receipt, effects, command>> PROVE WorkInv'
BY DEF WorkInv, Issued, Answered, Carriers, HasText, Commands!Working, Commands!Of

\* Work that goes on or ends is where it was.
LEMMA LessWorkKeeps ==
    ASSUME WorkInv, UNCHANGED <<conversation, receipt, effects, command>>,
           \A r \in Commands!Requests : task'[r] \in Commands!Live => task[r] \in Commands!Live,
           \A r \in Commands!Requests : task'[r] # "none" => task[r] # "none",
           DOMAIN command \subseteq Commands!Requests
    PROVE  WorkInv'
<1>1. \A t \in Threads : Commands!Of(t)' = Commands!Of(t) /\ Commands!Of(t) \subseteq DOMAIN command
  BY DEF Commands!Of
<1>2. \A t \in Threads : Commands!Working(t)' => Commands!Working(t)
  BY <1>1 DEF Commands!Working
<1>3. \A m \in Texts : Answered(m)' = Answered(m)
  BY DEF Answered, Carriers, HasText, Issued
<1> QED
  BY <1>2, <1>3 DEF WorkInv, Issued

\* Requests have the numbers of their commands.
LEMMA IssuedAreRequests ==
    ASSUME CommandTypes, Commands!ConversationAssumption
    PROVE  /\ DOMAIN command = Issued /\ Issued \subseteq Commands!Requests /\ Len(command) \in Nat
           /\ \A r \in Issued : command[r] \in Commands!Commands \cup [kind : {"stop"}, epoch : Nat]
           /\ \A r \in Issued : HasText(r) => command[r].text \in Texts /\ command[r].thread \in Threads
<1>1. DOMAIN command = Issued /\ Len(command) \in Nat
  BY DEF CommandTypes, Issued
<1>2. Issued \subseteq Commands!Requests
  BY <1>1 DEF CommandTypes, Issued, Commands!Requests, Commands!ConversationAssumption
<1>3. \A r \in Issued : command[r] \in Commands!Commands \cup [kind : {"stop"}, epoch : Nat]
  BY <1>1 DEF CommandTypes
<1>4. \A r \in Issued : HasText(r) => command[r].text \in Texts /\ command[r].thread \in Threads
  BY <1>3 DEF HasText, Commands!Commands
<1> QED
  BY <1>1, <1>2, <1>3, <1>4

\* The journal is left alone, or a request gets its receipt; nothing else starts work.
LEMMA CommandKeepsWork ==
    ASSUME CommandTypes, WorkInv, Commands!ConversationAssumption, NEW q \in Issued,
           Commands!Command(q), UNCHANGED command
    PROVE  WorkInv'
<1> USE DEF Commands!Live
<1>1. /\ DOMAIN command = Issued /\ Issued' = Issued /\ Issued \subseteq Commands!Requests
      /\ \A t : Commands!Of(t)' = Commands!Of(t) /\ Commands!Of(t) \subseteq Issued
      /\ \A t : Commands!Of(t) = {r \in Issued : command[r].kind = "submit" /\ command[r].thread = t}
      /\ \A m : Carriers(m)' = Carriers(m) /\ Carriers(m) \subseteq Issued
  BY IssuedAreRequests DEF Issued, Commands!Of, Carriers, HasText
<1>2. \A m : /\ IsFiniteSet(Carriers(m)) /\ IsFiniteSet(Answered(m))
             /\ Cardinality(Answered(m)) \in Nat
  BY CarriersAreFinite DEF CommandTypes
<1>3. /\ task \in [Commands!Requests -> {"queued", "running", "none", "uncertain", "over"}]
      /\ receipt \in [Commands!Requests -> {"none", "receipt", "tombstone"}]
      /\ conversation \in [Threads -> {"absent", "live", "archived", "deleted"}]
      /\ effects \in [Texts -> Nat]
  BY DEF CommandTypes
<1>4. ASSUME \A r \in Commands!Requests : receipt[r] # "none" => receipt'[r] # "none",
             UNCHANGED effects
      PROVE  \A m \in Texts : effects'[m] <= Cardinality(Answered(m)')
  <2> TAKE m \in Texts
  <2>1. Answered(m) \subseteq Answered(m)' /\ Answered(m)' \subseteq Carriers(m)
    BY <1>1, <1>4 DEF Answered
  <2>2. IsFiniteSet(Answered(m)')
    BY <1>2, <2>1, FS_Subset
  <2>3. Cardinality(Answered(m)) <= Cardinality(Answered(m)')
    BY <2>1, <2>2, FS_Subset
  <2>4. Cardinality(Answered(m)') \in Nat
    BY <2>2, FS_CardinalityType
  <2> QED
    BY <1>2, <1>3, <1>4, <2>3, <2>4 DEF WorkInv
<1>5. CASE UNCHANGED <<conversation, task, receipt, effects>>
  BY <1>5, WorkRests
<1>6. CASE Commands!Applies(q) /\ Commands!Apply(q)
  <2>1. /\ receipt[q] = "none" /\ q \in Commands!Requests
        /\ command[q].kind # "stop" => Commands!Allowed(command[q])
    BY <1>1, <1>6 DEF Commands!Applies, Commands!Answer
  <2>2. CASE command[q].kind = "create" /\ Commands!Created(q)
    <3>1. /\ conversation' = [conversation EXCEPT ![command[q].thread] = "live"]
          /\ receipt' = [receipt EXCEPT ![q] = "receipt"] /\ UNCHANGED <<task, effects>>
      BY <2>2 DEF Commands!Created, Commands!Becomes, Commands!Noted
    <3>2. \A t : Commands!Working(t)' <=> Commands!Working(t)
      BY <1>1, <3>1 DEF Commands!Working
    <3>3. \A m \in Texts : effects'[m] <= Cardinality(Answered(m)')
      BY <1>3, <1>4, <3>1
    <3>4. \A t \in Threads : conversation[t] = "live" => conversation'[t] = "live"
      BY <1>3, <3>1
    <3>5. \A r \in Commands!Requests : task'[r] # "none" \/ receipt'[r] # "none" => r \in Issued'
      BY <1>1, <1>3, <3>1 DEF WorkInv
    <3> QED
      BY <3>2, <3>3, <3>4, <3>5 DEF WorkInv
  <2>3. CASE command[q].kind \in {"archive", "unarchive"} /\ Commands!Managed(q)
    <3>1. /\ receipt' = [receipt EXCEPT ![q] = "receipt"] /\ UNCHANGED <<task, effects>>
          /\ \/ conversation' = [conversation EXCEPT ![command[q].thread] = "live"]
             \/ /\ conversation' = [conversation EXCEPT ![command[q].thread] = "archived"]
                /\ ~Commands!Working(command[q].thread)
      BY <2>1, <2>3 DEF Commands!Managed, Commands!Becomes, Commands!Noted, Commands!Allowed, Commands!Manageable
    <3>2. \A t : Commands!Working(t)' <=> Commands!Working(t)
      BY <1>1, <3>1 DEF Commands!Working
    <3>3. \A m \in Texts : effects'[m] <= Cardinality(Answered(m)')
      BY <1>3, <1>4, <3>1
    <3>4. \A t \in Threads : Commands!Working(t) /\ conversation[t] = "live" => conversation'[t] = "live"
      BY <1>3, <3>1
    <3>5. \A r \in Commands!Requests : task'[r] # "none" \/ receipt'[r] # "none" => r \in Issued'
      BY <1>1, <1>3, <3>1 DEF WorkInv
    <3> QED
      BY <3>2, <3>3, <3>4, <3>5 DEF WorkInv
  <2>4. CASE command[q].kind \in {"submit", "steer"} /\ (Commands!Submitted(q) \/ Commands!Steered(q))
    <3>0. PICK m \in Texts : m = command[q].text
      BY <2>4, IssuedAreRequests DEF HasText
    <3>1. /\ UNCHANGED conversation /\ receipt' = [receipt EXCEPT ![q] = "receipt"]
          /\ effects' = [effects EXCEPT ![m] = @ + 1]
      BY <2>4, <3>0 DEF Commands!Submitted, Commands!Steered, Commands!Work, Commands!Noted
    <3>2. m \in Texts /\ q \in Carriers(m) /\ q \notin Answered(m)
      BY <2>1, <2>4, <3>0 DEF Carriers, Answered, HasText
    <3>3. ASSUME NEW o \in Texts PROVE effects'[o] <= Cardinality(Answered(o)')
      <4>1. CASE o = m
        <5>1. Answered(m)' = Answered(m) \cup {q}
          BY <1>1, <1>3, <2>1, <3>1, <3>2 DEF Answered
        <5>2. Cardinality(Answered(m)') = Cardinality(Answered(m)) + 1
          BY <1>2, <3>2, <5>1, FS_AddElement
        <5>3. effects[m] <= Cardinality(Answered(m)) /\ effects[m] \in Nat /\ effects'[m] = effects[m] + 1
          BY <1>3, <3>1, <3>2 DEF WorkInv
        <5> QED
          BY <1>2, <4>1, <5>2, <5>3
      <4>2. CASE o # m
        <5>1. Answered(o)' = Answered(o)
          BY <1>1, <1>3, <3>1, <3>2, <4>2 DEF Answered, Carriers
        <5>2. effects'[o] = effects[o]
          BY <1>3, <3>1, <4>2
        <5> QED
          BY <5>1, <5>2 DEF WorkInv
      <4> QED
        BY <4>1, <4>2
    <3>4. CASE Commands!Steered(q)
      <4>1. UNCHANGED task
        BY <3>4 DEF Commands!Steered
      <4>2. \A t : Commands!Working(t)' <=> Commands!Working(t)
        BY <1>1, <4>1 DEF Commands!Working
      <4>3. \A r \in Commands!Requests : task'[r] # "none" \/ receipt'[r] # "none" => r \in Issued'
        BY <1>1, <1>3, <3>1, <4>1 DEF WorkInv
      <4> QED
        BY <3>1, <3>3, <4>2, <4>3 DEF WorkInv
    <3>5. CASE command[q].kind = "submit" /\ Commands!Submitted(q)
      <4> DEFINE here == command[q].thread
      <4>1. /\ task' = [task EXCEPT ![q] = "queued"] /\ here \in Threads
            /\ conversation[here] = "live" /\ \A o \in Threads \ {here} : ~Commands!Working(o)
        BY <2>1, <3>5, IssuedAreRequests
           DEF Commands!Submitted, Commands!Allowed, Commands!Writable, HasText
      <4>2. \A r \in Commands!Requests : task'[r] \in {"queued", "running"} => r = q \/ task[r] \in {"queued", "running"}
        BY <1>3, <4>1
      <4>3. \A t \in Threads : Commands!Working(t)' => t = here
        BY <1>1, <4>1, <4>2 DEF Commands!Working
      <4>4. \A r \in Commands!Requests : task'[r] # "none" \/ receipt'[r] # "none" => r \in Issued'
        BY <1>1, <1>3, <3>1, <4>1 DEF WorkInv
      <4> QED
        BY <3>1, <3>3, <4>1, <4>3, <4>4 DEF WorkInv
    <3> QED
      BY <1>6, <2>4, <3>4, <3>5 DEF Commands!Apply, Commands!Submitted, Commands!Steered
  <2>5. CASE command[q].kind = "cancel" /\ Commands!Cancelled(q)
    <3>1. /\ UNCHANGED <<conversation, effects>> /\ receipt' = [receipt EXCEPT ![q] = "receipt"]
          /\ task' = [o \in Commands!Requests |->
                IF o \in Commands!Of(command[q].thread) /\ task[o] = "queued" THEN "over" ELSE task[o]]
      BY <2>5 DEF Commands!Cancelled, Commands!Noted
    <3>2. \A r \in Commands!Requests : task'[r] \in {"queued", "running"} => task[r] \in {"queued", "running"}
      BY <3>1
    <3>3. \A t \in Threads : Commands!Working(t)' => Commands!Working(t)
      BY <1>1, <3>2 DEF Commands!Working
    <3>4. \A m \in Texts : effects'[m] <= Cardinality(Answered(m)')
      BY <1>3, <1>4, <3>1
    <3>5. \A r \in Commands!Requests : task'[r] # "none" \/ receipt'[r] # "none" => r \in Issued'
      BY <1>1, <1>3, <3>1 DEF WorkInv
    <3> QED
      BY <3>1, <3>3, <3>4, <3>5 DEF WorkInv
  <2>6. CASE command[q].kind \in {"delete", "purge"} /\ Commands!Removed(q)
    <3> DEFINE here == command[q].thread
    <3>1. /\ conversation' = [conversation EXCEPT ![here] = "deleted"]
          /\ task' = [o \in Commands!Requests |-> IF o \in Commands!Of(here) THEN "none" ELSE task[o]]
          /\ \A r \in Commands!Requests : /\ receipt[r] # "none" => receipt'[r] # "none"
                                          /\ receipt'[r] # "none" => r = q \/ receipt[r] # "none"
          /\ UNCHANGED effects
      BY <1>3, <2>6 DEF Commands!Removed, Commands!Deleted
    <3>2. \A t : Commands!Working(t)' => Commands!Working(t)
      BY <1>1, <3>1 DEF Commands!Working
    <3>3. ~Commands!Working(here)'
      BY <1>1, <3>1 DEF Commands!Working
    <3>4. \A m \in Texts : effects'[m] <= Cardinality(Answered(m)')
      BY <1>4, <3>1
    <3>5. \A r \in Commands!Requests : task'[r] # "none" \/ receipt'[r] # "none" => r \in Issued'
      BY <1>1, <1>3, <3>1 DEF WorkInv
    <3>6. \A t \in Threads : t # here => conversation'[t] = conversation[t]
      BY <1>3, <3>1
    <3> QED
      BY <3>2, <3>3, <3>4, <3>5, <3>6 DEF WorkInv
  <2> QED
    BY <1>6, <2>2, <2>3, <2>4, <2>5, <2>6 DEF Commands!Apply
<1> QED
  BY <1>5, <1>6 DEF Commands!Command, Commands!Reapply, Commands!journal

\* What the journal keeps is of its kind.
LEMMA CommandKeepsTypes ==
    ASSUME CommandTypes, Commands!ConversationAssumption, NEW q \in Issued, Commands!Command(q)
    PROVE  /\ conversation' \in [Threads -> {"absent", "live", "archived", "deleted"}]
           /\ task' \in [Commands!Requests -> Commands!Live \cup {"none", "uncertain", "over"}]
           /\ receipt' \in [Commands!Requests -> {"none", "receipt", "tombstone"}]
           /\ effects' \in [Texts -> Nat]
<1> USE DEF Commands!Live, Commands!Noted, Commands!Becomes, Commands!Work
<1>1. q \in Commands!Requests /\ (HasText(q) => command[q].text \in Texts)
  BY IssuedAreRequests
<1>2. /\ conversation \in [Threads -> {"absent", "live", "archived", "deleted"}]
      /\ task \in [Commands!Requests -> Commands!Live \cup {"none", "uncertain", "over"}]
      /\ receipt \in [Commands!Requests -> {"none", "receipt", "tombstone"}]
      /\ effects \in [Texts -> Nat]
  BY DEF CommandTypes
<1>3. CASE UNCHANGED <<conversation, task, receipt, effects>>
  BY <1>2, <1>3
<1>4. CASE Commands!Created(q) \/ Commands!Managed(q)
  BY <1>1, <1>2, <1>4 DEF Commands!Created, Commands!Managed
<1>5. CASE HasText(q) /\ (Commands!Submitted(q) \/ Commands!Steered(q))
  <2>1. UNCHANGED conversation /\ effects' = [effects EXCEPT ![command[q].text] = @ + 1]
    BY <1>5 DEF Commands!Submitted, Commands!Steered
  <2>2. effects' \in [Texts -> Nat]
    BY <1>1, <1>2, <1>5, <2>1
  <2> QED
    BY <1>1, <1>2, <1>5, <2>1, <2>2 DEF Commands!Submitted, Commands!Steered
<1>6. CASE Commands!Cancelled(q)
  BY <1>1, <1>2, <1>6 DEF Commands!Cancelled
<1>7. CASE Commands!Removed(q)
  BY <1>1, <1>2, <1>7 DEF Commands!Removed, Commands!Deleted
<1> QED
  BY <1>3, <1>4, <1>5, <1>6, <1>7
     DEF Commands!Command, Commands!Reapply, Commands!journal, Commands!Apply, HasText

\* The composers and what the tab waits for are left alone.
LEMMA DraftRests ==
    ASSUME DraftInv, UNCHANGED <<command, pending, draft>> PROVE DraftInv'
BY DEF DraftInv, HasText, Issued

\* As are the texts on offer.
LEMMA OfferRests ==
    ASSUME OfferInv, UNCHANGED <<command, pending, draft, again>> PROVE OfferInv'
BY DEF OfferInv, Carriers, HasText, Issued, Commands!Submitting, Commands!ToSet

\* The host handles a command of the tab, or one of a connection that broke.
LEMMA HandleKeeps ==
    ASSUME CommandInv, Commands!ConversationAssumption, Commands!Handle \/ Commands!HandleLate
    PROVE  CommandInv'
<1> USE DEF Commands!tab, Commands!bounds
<1>1. CommandTypes /\ WorkInv /\ DraftInv /\ OfferInv
  BY DEF CommandInv
<1>2. PICK q \in Issued : /\ Commands!Command(q)
                          /\ UNCHANGED <<epoch, command, pending, draft, again>>
                          /\ cUp' \in Seq(Issued) /\ late' \in Seq(Issued)
                          /\ down' \in Seq(Issued \X {"accepted", "error"})
                          /\ stopper' \in 0..Len(command)
  <2>1. /\ cUp \in Seq(Issued) /\ late \in Seq(Issued) /\ stopper \in 0..Len(command)
        /\ down \in Seq(Issued \X {"accepted", "error"})
    BY <1>1 DEF CommandTypes
  <2>2. CASE Commands!Handle
    <3> DEFINE q == Head(cUp)
    <3>1. q \in Issued /\ Tail(cUp) \in Seq(Issued) /\ cUp' = Tail(cUp)
      BY <2>1, <2>2 DEF Commands!Handle
    <3>2. Commands!Replied(q) \in Seq(Issued \X {"accepted", "error"})
      BY <3>1 DEF Commands!Replied, Commands!Answer
    <3>3. down \o Commands!Replied(q) \in Seq(Issued \X {"accepted", "error"})
      BY <2>1, <3>2
    <3>4. down' \in Seq(Issued \X {"accepted", "error"}) /\ stopper' \in 0..Len(command)
      <4>1. /\ down' = down \/ down' = down \o Commands!Replied(q)
            /\ stopper' = stopper \/ stopper' = q
        BY <2>2 DEF Commands!Handle
      <4>2. q \in 0..Len(command)
        BY <3>1 DEF Issued
      <4> HIDE DEF q
      <4> QED
        BY <2>1, <3>3, <4>1, <4>2
    <3>5. /\ Commands!Command(q) /\ late' = late
          /\ UNCHANGED <<epoch, command, pending, draft, again>>
      BY <2>2 DEF Commands!Handle
    <3> QED
      BY <2>1, <3>1, <3>4, <3>5
  <2>3. CASE Commands!HandleLate
    <3>1. Head(late) \in Issued /\ Tail(late) \in Seq(Issued)
      BY <2>1, <2>3 DEF Commands!HandleLate
    <3> QED
      BY <2>1, <2>3, <3>1 DEF Commands!HandleLate
  <2> QED
    BY <2>2, <2>3
<1>3. WorkInv'
  BY <1>1, <1>2, CommandKeepsWork
<1>4. DraftInv' /\ OfferInv'
  BY <1>1, <1>2, DraftRests, OfferRests
<1>5. CommandTypes'
  <2>1. Issued' = Issued
    BY <1>2 DEF Issued
  <2>2. /\ conversation' \in [Threads -> {"absent", "live", "archived", "deleted"}]
        /\ task' \in [Commands!Requests -> Commands!Live \cup {"none", "uncertain", "over"}]
        /\ receipt' \in [Commands!Requests -> {"none", "receipt", "tombstone"}]
        /\ effects' \in [Texts -> Nat]
    BY <1>1, <1>2, CommandKeepsTypes
  <2> QED
    BY <1>1, <1>2, <2>1, <2>2 DEF CommandTypes, Commands!Requests, Commands!Live, Commands!Commands
<1> QED
  BY <1>3, <1>4, <1>5 DEF CommandInv

\* Work is started, ends or is interrupted; the host stops and starts again, and the
\* connection breaks or comes back: what the tab asked for stays.
LEMMA HostKeeps ==
    ASSUME CommandInv, Commands!ConversationAssumption,
           \/ Commands!StopEnds \/ Commands!Crash \/ Commands!Restart
           \/ Commands!Connect \/ Commands!Lose
           \/ \E r \in Commands!Requests :
                Commands!StartTask(r) \/ Commands!TaskEnds(r) \/ Commands!Reviewed(r)
    PROVE  CommandInv'
<1> USE DEF Commands!tab, Commands!bounds, Commands!journal, Commands!service, Commands!ghosts,
            Commands!wires, Commands!Disconnected, Commands!Live
<1>1. CommandTypes /\ WorkInv /\ DraftInv /\ OfferInv
  BY DEF CommandInv
<1>2. UNCHANGED <<conversation, receipt, effects, command, pending, draft, again>>
  BY DEF Commands!StopEnds, Commands!Crash, Commands!Restart, Commands!Connect, Commands!Lose,
         Commands!StartTask, Commands!TaskEnds, Commands!Reviewed
<1>3. task \in [Commands!Requests -> {"queued", "running", "none", "uncertain", "over"}]
  BY <1>1 DEF CommandTypes
<1>4. /\ task' \in [Commands!Requests -> {"queued", "running", "none", "uncertain", "over"}]
      /\ \A r \in Commands!Requests : task'[r] \in {"queued", "running"} => task[r] \in {"queued", "running"}
      /\ \A r \in Commands!Requests : task'[r] # "none" => task[r] # "none"
  <2>1. CASE Commands!Crash \/ Commands!Connect \/ Commands!Lose
    BY <1>3, <2>1 DEF Commands!Crash, Commands!Connect, Commands!Lose
  <2>2. CASE Commands!StopEnds \/ Commands!Restart
    <3>1. \/ task' = [r \in Commands!Requests |-> IF task[r] = "queued" THEN "over" ELSE task[r]]
          \/ task' = [r \in Commands!Requests |-> IF task[r] = "running" THEN "uncertain" ELSE task[r]]
      BY <2>2 DEF Commands!StopEnds, Commands!Restart
    <3> QED
      BY <1>3, <3>1
  <2>3. ASSUME NEW r \in Commands!Requests,
               Commands!StartTask(r) \/ Commands!TaskEnds(r) \/ Commands!Reviewed(r)
        PROVE  \E s \in {"running", "uncertain", "over"} :
                 /\ task' = [task EXCEPT ![r] = s] /\ task[r] # "none"
                 /\ s = "running" => task[r] = "queued"
    BY <1>3, <2>3 DEF Commands!StartTask, Commands!TaskEnds, Commands!Reviewed
  <2>4. CASE \E r \in Commands!Requests :
                Commands!StartTask(r) \/ Commands!TaskEnds(r) \/ Commands!Reviewed(r)
    BY <1>3, <2>3, <2>4
  <2> QED
    BY <2>1, <2>2, <2>4
<1>5. WorkInv'
  <2>1. DOMAIN command \subseteq Commands!Requests
    BY <1>1, IssuedAreRequests
  <2> QED
    BY <1>1, <1>2, <1>4, <2>1, LessWorkKeeps
<1>6. DraftInv' /\ OfferInv'
  BY <1>1, <1>2, DraftRests, OfferRests
<1>7. CommandTypes'
  <2>1. Issued' = Issued /\ <<>> \in Seq(Issued) /\ <<>> \in Seq(Issued \X {"accepted", "error"})
        /\ 0 \in 0..Len(command)
    <3>1. Len(command) \in Nat
      BY <1>1, IssuedAreRequests
    <3> QED
      BY <1>2, <3>1 DEF Issued
  <2>2. /\ cUp' \in Seq(Issued) /\ late' \in Seq(Issued) /\ stopper' \in 0..Len(command)
        /\ epoch' \in Nat
    <3>1. /\ cUp \in Seq(Issued) /\ late \in Seq(Issued) /\ stopper \in 0..Len(command)
          /\ epoch \in Nat
      BY <1>1 DEF CommandTypes
    <3>2. /\ cUp' = cUp \/ cUp' = <<>>
          /\ late' = late \/ late' = cUp \/ late' = <<>>
          /\ stopper' = stopper \/ stopper' = 0
          /\ epoch' = epoch \/ epoch' = epoch + 1
      BY DEF Commands!StopEnds, Commands!Crash, Commands!Restart,
         Commands!Connect, Commands!Lose, Commands!StartTask, Commands!TaskEnds, Commands!Reviewed
    <3>3. cUp' \in Seq(Issued) /\ late' \in Seq(Issued)
      BY <2>1, <3>1, <3>2
    <3>4. stopper' \in 0..Len(command)
      BY <2>1, <3>1, <3>2
    <3>5. epoch' \in Nat
      BY <3>1, <3>2
    <3> QED
      BY <3>3, <3>4, <3>5
  <2>3. down' \in Seq(Issued \X {"accepted", "error"})
    <3>1. down \in Seq(Issued \X {"accepted", "error"}) /\ stopper \in 0..Len(command)
      BY <1>1 DEF CommandTypes
    <3>2. CASE Commands!StopEnds
      <4>1. \/ down' = down \/ down' = <<>>
            \/ down' = Append(down, <<stopper, "error">>) /\ stopper # 0
        BY <3>2 DEF Commands!StopEnds
      <4>2. stopper # 0 => <<stopper, "error">> \in Issued \X {"accepted", "error"}
        BY <3>1 DEF Issued
      <4>3. stopper # 0 => Append(down, <<stopper, "error">>) \in Seq(Issued \X {"accepted", "error"})
        BY <3>1, <4>2
      <4> QED
        BY <2>1, <3>1, <4>1, <4>3
    <3>3. CASE ~Commands!StopEnds
      BY <2>1, <3>1, <3>3 DEF Commands!Crash, Commands!Restart,
         Commands!Connect, Commands!Lose, Commands!StartTask, Commands!TaskEnds, Commands!Reviewed
    <3> QED
      BY <3>2, <3>3
  <2> QED
    BY <1>1, <1>2, <1>4, <2>1, <2>2, <2>3 DEF CommandTypes, Commands!Requests, Commands!Commands
<1> QED
  BY <1>5, <1>6, <1>7 DEF CommandInv

\* The tab sends a command: it is issued, nothing is known of it yet, and a text it
\* carries is the one in the composer of its thread.
LEMMA SentKeeps ==
    ASSUME CommandInv, Commands!ConversationAssumption,
           NEW c \in Commands!Commands \cup [kind : {"stop"}, epoch : Nat], Commands!Sent(c),
           c.kind \in {"submit", "steer"} =>
             /\ c.text = draft[c.thread] /\ draft[c.thread] # Nobody
             /\ ~Commands!Submitting(c.thread)
    PROVE  CommandInv'
<1> USE DEF Commands!ToSet
<1>1. CommandTypes /\ WorkInv /\ DraftInv /\ OfferInv
  BY DEF CommandInv
<1>2. PICK n \in Nat : n = Len(command) + 1
  BY <1>1, IssuedAreRequests
<1>3. /\ command \in Seq(Commands!Commands \cup [kind : {"stop"}, epoch : Nat])
      /\ pending \in Seq(Issued) /\ cUp \in Seq(Issued) /\ late \in Seq(Issued)
      /\ down \in Seq(Issued \X {"accepted", "error"}) /\ stopper \in 0..Len(command)
  BY <1>1 DEF CommandTypes
<1>4. /\ command' = Append(command, c) /\ pending' = Append(pending, n) /\ cUp' = Append(cUp, n)
      /\ UNCHANGED <<conversation, task, receipt, draft, epoch, late, down, stopper, effects, again>>
      /\ n <= MaxRequests
  BY <1>2, <1>3 DEF Commands!Sent, Commands!journal, Commands!service, Commands!ghosts,
         Commands!ConversationAssumption
<1>5. /\ Len(command') = n /\ command'[n] = c /\ \A r \in Issued : command'[r] = command[r]
      /\ command' \in Seq(Commands!Commands \cup [kind : {"stop"}, epoch : Nat])
      /\ Issued' = Issued \cup {n} /\ n \notin Issued /\ DOMAIN command' = Issued \cup {n}
  BY <1>2, <1>3, <1>4 DEF Issued
<1>6. n \in Commands!Requests /\ Issued \subseteq Commands!Requests
  BY <1>1, <1>2, <1>4, IssuedAreRequests DEF Commands!Requests, Commands!ConversationAssumption
<1>7. /\ DOMAIN command = Issued /\ task[n] = "none" /\ receipt[n] = "none"
      /\ \A r \in Issued : HasText(r)' <=> HasText(r)
      /\ HasText(n)' <=> c.kind \in {"submit", "steer"}
  BY <1>1, <1>5, <1>6, IssuedAreRequests DEF WorkInv, HasText
<1>8. /\ Len(pending) \in Nat /\ DOMAIN pending = 1..Len(pending)
      /\ DOMAIN pending' = 1..(Len(pending) + 1)
      /\ \A i \in DOMAIN pending : pending'[i] = pending[i] /\ pending[i] \in Issued
      /\ pending'[Len(pending) + 1] = n
  BY <1>3, <1>4
<1>9. CommandTypes'
  <2>1. Seq(Issued) \subseteq Seq(Issued')
        /\ Seq(Issued \X {"accepted", "error"}) \subseteq Seq(Issued' \X {"accepted", "error"})
    BY <1>5
  <2>2. pending' \in Seq(Issued') /\ cUp' \in Seq(Issued')
    BY <1>3, <1>4, <1>5, <2>1
  <2>3. stopper' \in 0..Len(command')
    BY <1>2, <1>3, <1>4, <1>5
  <2> QED
    BY <1>1, <1>3, <1>4, <1>5, <2>1, <2>2, <2>3
       DEF CommandTypes, Commands!Requests, Commands!Live, Commands!Commands
<1>10. WorkInv'
  <2>1. \A t : Commands!Working(t)' <=> Commands!Working(t)
    BY <1>4, <1>5, <1>7 DEF Commands!Working, Commands!Of, Commands!Live
  <2>2. \A m : Answered(m)' = Answered(m)
    BY <1>4, <1>5, <1>7 DEF Answered, Carriers
  <2>3. \A r \in Commands!Requests : task'[r] # "none" \/ receipt'[r] # "none" => r \in Issued'
    BY <1>1, <1>4, <1>5 DEF WorkInv
  <2> QED
    BY <1>1, <1>4, <2>1, <2>2, <2>3 DEF WorkInv, Commands!Requests
<1>11. \A t : Commands!Submitting(t) => Commands!Submitting(t)'
  <2> SUFFICES ASSUME NEW t, Commands!Submitting(t) PROVE Commands!Submitting(t)'
    OBVIOUS
  <2>1. PICK i \in DOMAIN pending : HasText(pending[i]) /\ command[pending[i]].thread = t
    BY DEF Commands!Submitting, HasText
  <2>2. /\ i \in DOMAIN pending' /\ pending'[i] = pending[i]
        /\ HasText(pending[i])' /\ command'[pending[i]].thread = t
    BY <1>5, <1>7, <1>8, <2>1 DEF HasText
  <2> QED
    BY <2>2 DEF Commands!Submitting, HasText
<1>12. HasText(n)' => Commands!Submitting(c.thread)'
  <2>1. /\ Len(pending) + 1 \in DOMAIN pending' /\ pending'[Len(pending) + 1] = n /\ command'[n] = c
    BY <1>5, <1>8
  <2> QED
    BY <2>1 DEF Commands!Submitting, HasText
<1>13. \A i \in DOMAIN pending : HasText(n)' /\ HasText(pending[i]) => command[pending[i]].thread # c.thread
  BY <1>7 DEF Commands!Submitting, HasText
<1>14. DraftInv'
  <2>1. \A i \in DOMAIN pending' : \/ i \in DOMAIN pending /\ pending'[i] = pending[i] /\ pending[i] \in Issued
                                   \/ i = Len(pending) + 1 /\ pending'[i] = n
    BY <1>8
  <2>2. \A i, j \in DOMAIN pending' : pending'[i] = pending'[j] => i = j
    BY <1>1, <1>5, <2>1 DEF DraftInv
  <2>3. \A t \in Threads, r \in Issued' :
          HasText(r)' /\ command'[r].text = draft'[t] => command'[r].thread = t
    <3> SUFFICES ASSUME NEW t \in Threads, NEW r \in Issued \cup {n},
                        HasText(r)', command'[r].text = draft[t]
                 PROVE  command'[r].thread = t
      BY <1>4, <1>5
    <3>1. CASE r = n
      <4>1. draft[c.thread] = draft[t] /\ draft[c.thread] # Nobody /\ c.thread \in Threads
        BY <1>5, <1>7, <3>1 DEF Commands!Commands
      <4> QED
        BY <1>1, <1>5, <3>1, <4>1 DEF DraftInv
    <3>2. CASE r \in Issued
      BY <1>1, <1>5, <1>7, <3>2 DEF DraftInv
    <3> QED
      BY <3>1, <3>2
  <2>4. \A i \in DOMAIN pending' :
          HasText(pending[i])' => draft'[command'[pending'[i]].thread] = command'[pending'[i]].text
    BY <1>1, <1>4, <1>5, <1>7, <2>1 DEF DraftInv
  <2>5. \A i, j \in DOMAIN pending' :
          /\ HasText(pending[i])' /\ HasText(pending[j])'
          /\ command'[pending'[i]].thread = command'[pending'[j]].thread
          => i = j
    BY <1>1, <1>5, <1>7, <1>13, <2>1 DEF DraftInv
  <2> QED
    BY <1>1, <1>4, <2>2, <2>3, <2>4, <2>5 DEF DraftInv
<1>15. OfferInv'
  <2> SUFFICES ASSUME NEW m \in Texts
               PROVE  /\ Cardinality(Carriers(m)') <= 1 + again[m]
                      /\ \A t \in Threads : draft[t] = m /\ ~Commands!Submitting(t)' =>
                           Cardinality(Carriers(m)') <= again[m]
    BY <1>4 DEF OfferInv
  <2>1. IsFiniteSet(Carriers(m)) /\ Cardinality(Carriers(m)) \in Nat /\ again[m] \in Nat
    BY <1>1, <1>3, CarriersAreFinite DEF CommandTypes
  <2>2. CASE HasText(n)' /\ c.text = m
    <3>1. Carriers(m)' = Carriers(m) \cup {n} /\ n \notin Carriers(m)
      BY <1>5, <1>7, <2>2 DEF Carriers
    <3>2. Cardinality(Carriers(m)') = Cardinality(Carriers(m)) + 1
      BY <2>1, <3>1, FS_AddElement
    <3>3. draft[c.thread] = m /\ ~Commands!Submitting(c.thread) /\ c.thread \in Threads /\ m # Nobody
      BY <1>7, <2>2 DEF Commands!Commands
    <3>4. Cardinality(Carriers(m)) <= again[m]
      BY <1>1, <3>3 DEF OfferInv
    <3>5. \A t \in Threads : draft[t] = m => Commands!Submitting(t)'
      BY <1>1, <1>12, <2>2, <3>3 DEF DraftInv
    <3> QED
      BY <2>1, <3>2, <3>4, <3>5
  <2>3. CASE ~(HasText(n)' /\ c.text = m)
    <3>1. Carriers(m)' = Carriers(m)
      BY <1>5, <1>7, <2>3 DEF Carriers
    <3> QED
      BY <1>1, <1>11, <3>1 DEF OfferInv
  <2> QED
    BY <2>2, <2>3
<1> QED
  BY <1>9, <1>10, <1>14, <1>15 DEF CommandInv

\* The user writes a text that no request carries.
LEMMA WriteKeeps ==
    ASSUME CommandInv, Commands!ConversationAssumption, NEW t \in Threads, NEW m \in Texts,
           Commands!Write(t, m)
    PROVE  CommandInv'
<1> USE DEF Commands!ToSet
<1>1. CommandTypes /\ WorkInv /\ DraftInv /\ OfferInv
  BY DEF CommandInv
<1>2. /\ draft' = [draft EXCEPT ![t] = m] /\ ~Commands!Submitting(t)
      /\ \A o \in Threads : draft[o] # m
      /\ \A r \in Issued : HasText(r) => command[r].text # m
      /\ UNCHANGED <<conversation, task, receipt, epoch, command, pending, cUp, down, stopper, late,
                     effects, again>>
  BY <1>1, IssuedAreRequests DEF Commands!Write, HasText, Commands!journal, Commands!service,
         Commands!wires, Commands!ghosts
<1>3. /\ draft \in [Threads -> Texts \cup {Nobody}] /\ again \in [Texts -> Nat]
      /\ draft'[t] = m /\ \A o \in Threads \ {t} : draft'[o] = draft[o]
  BY <1>1, <1>2 DEF CommandTypes
<1>4. CommandTypes'
  BY <1>1, <1>2, <1>3 DEF CommandTypes, Issued, Commands!Requests, Commands!Live, Commands!Commands
<1>5. WorkInv'
  BY <1>1, <1>2, WorkRests
<1>6. DraftInv'
  <2>1. \A s, o \in Threads : draft'[s] = draft'[o] /\ draft'[s] # Nobody => s = o
    BY <1>1, <1>2, <1>3 DEF DraftInv
  <2>2. \A o \in Threads, r \in Issued :
          HasText(r) /\ command[r].text = draft'[o] => command[r].thread = o
    BY <1>1, <1>2, <1>3 DEF DraftInv
  <2>3. \A i \in DOMAIN pending :
          HasText(pending[i]) => draft'[command[pending[i]].thread] = command[pending[i]].text
    <3> SUFFICES ASSUME NEW i \in DOMAIN pending, HasText(pending[i])
                 PROVE  draft'[command[pending[i]].thread] = command[pending[i]].text
      OBVIOUS
    <3>1. pending[i] \in Issued /\ command[pending[i]].thread # t
      BY <1>1, <1>2 DEF CommandTypes, Commands!Submitting, HasText
    <3>2. command[pending[i]].thread \in Threads
      BY <1>1, <3>1, IssuedAreRequests
    <3> QED
      BY <1>1, <1>3, <3>1, <3>2 DEF DraftInv
  <2> QED
    BY <1>1, <1>2, <2>1, <2>2, <2>3 DEF DraftInv, HasText, Issued
<1>7. OfferInv'
  <2>1. \A o \in Texts : Carriers(o)' = Carriers(o)
    BY <1>2 DEF Carriers, HasText, Issued
  <2>2. \A o \in Threads : Commands!Submitting(o)' <=> Commands!Submitting(o)
    BY <1>2 DEF Commands!Submitting
  <2>3. Cardinality(Carriers(m)) = 0 /\ 0 <= again[m]
    <3>1. Carriers(m) = {}
      BY <1>2 DEF Carriers
    <3> QED
      BY <1>3, <3>1, FS_EmptySet
  <2>4. ASSUME NEW o \in Texts, NEW s \in Threads, draft'[s] = o, ~Commands!Submitting(s)
        PROVE  Cardinality(Carriers(o)) <= again[o]
    BY <1>1, <1>3, <2>3, <2>4 DEF OfferInv
  <2> QED
    BY <1>1, <1>2, <2>1, <2>2, <2>4 DEF OfferInv
<1> QED
  BY <1>4, <1>5, <1>6, <1>7 DEF CommandInv

\* The first snapshot of a connection: all that is pending is sent again, or dropped
\* with the session and its texts are on offer.
LEMMA FirstSnapshotKeeps ==
    ASSUME CommandInv, Commands!ConversationAssumption, Commands!FirstSnapshot
    PROVE  CommandInv'
<1> USE DEF Commands!ToSet
<1>1. CommandTypes /\ WorkInv /\ DraftInv /\ OfferInv
  BY DEF CommandInv
<1>2. UNCHANGED <<conversation, task, receipt, epoch, command, down, stopper, late, effects>>
  BY DEF Commands!FirstSnapshot, Commands!journal, Commands!service
<1>3. WorkInv'
  BY <1>1, <1>2, WorkRests
<1>4. CASE UNCHANGED <<pending, draft, again>> /\ cUp' = pending
  <2>1. DraftInv' /\ OfferInv'
    BY <1>1, <1>2, <1>4, DraftRests, OfferRests
  <2>2. CommandTypes'
    BY <1>1, <1>2, <1>4 DEF CommandTypes, Issued, Commands!Requests, Commands!Live, Commands!Commands
  <2> QED
    BY <1>3, <2>1, <2>2 DEF CommandInv
<1>5. CASE /\ pending' = <<>> /\ cUp' = <<>>
           /\ \E shown_ \in Threads : draft' = [draft EXCEPT ![shown_] = Nobody]
           /\ Commands!Offered(Commands!TextsOf(pending))
  <2>1. PICK here \in Threads : draft' = [draft EXCEPT ![here] = Nobody]
    BY <1>5
  <2>2. /\ draft \in [Threads -> Texts \cup {Nobody}] /\ again \in [Texts -> Nat] /\ Nobody \notin Texts
        /\ draft'[here] = Nobody /\ \A t \in Threads \ {here} : draft'[t] = draft[t]
        /\ pending \in Seq(Issued)
    BY <1>1, <2>1 DEF CommandTypes, Commands!ConversationAssumption
  <2>3. \A m \in Texts : /\ again'[m] \in Nat /\ again[m] <= again'[m]
                         /\ m \in Commands!TextsOf(pending) => again'[m] = again[m] + 1
    BY <1>5, <2>2 DEF Commands!Offered
  <2>4. again' \in [Texts -> Nat]
    BY <1>5, <2>2 DEF Commands!Offered
  <2>5. CommandTypes'
    <3>1. Issued' = Issued /\ <<>> \in Seq(Issued)
      BY <1>2 DEF Issued
    <3>2. draft' \in [Threads -> Texts \cup {Nobody}]
      BY <2>1, <2>2
    <3> QED
      BY <1>1, <1>2, <1>5, <2>4, <3>1, <3>2
         DEF CommandTypes, Commands!Requests, Commands!Live, Commands!Commands
  <2>6. DraftInv'
    <3>1. \A s, t \in Threads : draft'[s] = draft'[t] /\ draft'[s] # Nobody => s = t
      BY <1>1, <2>2 DEF DraftInv
    <3>2. \A t \in Threads, r \in Issued :
            HasText(r) /\ command[r].text = draft'[t] => command[r].thread = t
      BY <1>1, <2>2, IssuedAreRequests DEF DraftInv
    <3>3. DOMAIN pending' = {}
      BY <1>5
    <3> QED
      BY <1>2, <3>1, <3>2, <3>3 DEF DraftInv, HasText, Issued
  <2>7. OfferInv'
    <3>1. \A m \in Texts : /\ Carriers(m)' = Carriers(m) /\ Cardinality(Carriers(m)) \in Nat
                           /\ Cardinality(Carriers(m)) <= 1 + again[m]
      BY <1>1, <1>2, CarriersAreFinite DEF Carriers, HasText, Issued, CommandTypes, OfferInv
    <3>2. ASSUME NEW m \in Texts, NEW t \in Threads, draft'[t] = m
          PROVE  Cardinality(Carriers(m)) <= again'[m]
      <4>1. draft[t] = m /\ m # Nobody
        BY <2>2, <3>2
      <4>2. CASE ~Commands!Submitting(t)
        <5>1. Cardinality(Carriers(m)) <= again[m]
          BY <1>1, <4>1, <4>2 DEF OfferInv
        <5> QED
          BY <2>2, <2>3, <3>1, <5>1
      <4>3. CASE Commands!Submitting(t)
        <5>1. PICK i \in DOMAIN pending : HasText(pending[i]) /\ command[pending[i]].thread = t
          BY <4>3 DEF Commands!Submitting, HasText
        <5>2. command[pending[i]].text = m
          BY <1>1, <4>1, <5>1 DEF DraftInv
        <5>3. m \in Commands!TextsOf(pending)
          BY <5>1, <5>2 DEF Commands!TextsOf, HasText
        <5> QED
          BY <2>2, <2>3, <3>1, <5>3
      <4> QED
        BY <4>2, <4>3
    <3>3. ASSUME NEW m \in Texts PROVE Cardinality(Carriers(m)) <= 1 + again'[m]
      BY <2>2, <2>3, <3>1
    <3> QED
      BY <3>1, <3>2, <3>3 DEF OfferInv
  <2> QED
    BY <1>3, <2>5, <2>6, <2>7 DEF CommandInv
<1> QED
  BY <1>4, <1>5 DEF Commands!FirstSnapshot

\* What is left when one element is removed: the others, in their order.
LEMMA OthersStay ==
    ASSUME NEW S, NEW s \in Seq(S), NEW i \in DOMAIN s
    PROVE  /\ Commands!RemoveAt(s, i) \in Seq(S)
           /\ DOMAIN Commands!RemoveAt(s, i) = 1..(Len(s) - 1)
           /\ \A j \in 1..(Len(s) - 1) :
                Commands!RemoveAt(s, i)[j] = s[IF j < i THEN j ELSE j + 1]
<1>1. i \in 1..Len(s) /\ Len(s) \in Nat
  OBVIOUS
<1> DEFINE a == SubSeq(s, 1, i - 1)
           b == SubSeq(s, i + 1, Len(s))
<1>2. /\ a \in Seq(S) /\ Len(a) = i - 1 /\ \A j \in 1..(i - 1) : a[j] = s[j]
      /\ b \in Seq(S) /\ Len(b) = Len(s) - i /\ \A j \in 1..(Len(s) - i) : b[j] = s[i + j]
  BY <1>1
<1>3. Commands!RemoveAt(s, i) = a \o b
  BY DEF Commands!RemoveAt
<1> HIDE DEF a, b
<1>4. a \o b \in Seq(S) /\ DOMAIN (a \o b) = 1..(Len(s) - 1)
  BY <1>1, <1>2
<1>5. ASSUME NEW j \in 1..(Len(s) - 1) PROVE (a \o b)[j] = s[IF j < i THEN j ELSE j + 1]
  <2>1. CASE j < i
    BY <1>1, <1>2, <2>1
  <2>2. CASE ~(j < i)
    <3>1. j - (i - 1) \in 1..(Len(s) - i) /\ i + (j - (i - 1)) = j + 1 /\ j \in (i - 1)+1..(Len(s) - 1)
      BY <1>1, <2>2
    <3>2. (a \o b)[j] = b[j - (i - 1)]
      <4>1. a \in Seq(S) /\ b \in Seq(S) /\ Len(a) = i - 1 /\ Len(b) = Len(s) - i
        BY <1>2
      <4>2. \A k \in 1..Len(b) : (a \o b)[Len(a) + k] = b[k]
        BY <4>1
      <4>3. PICK k \in 1..Len(b) : k = j - (i - 1)
        BY <3>1, <4>1
      <4>4. Len(a) + k = j
        BY <1>1, <4>1, <4>3
      <4> QED
        BY <4>2, <4>3, <4>4
    <3>3. b[j - (i - 1)] = s[i + (j - (i - 1))]
      BY <1>2, <3>1
    <3> QED
      BY <2>2, <3>1, <3>2, <3>3
  <2> QED
    BY <2>1, <2>2
<1> QED
  BY <1>3, <1>4, <1>5

\* An answer takes its request, and no other, from what is pending; an accepted text
\* leaves its composer, a refused one is on offer.
LEMMA ReplyKeeps ==
    ASSUME CommandInv, Commands!ConversationAssumption, Commands!Reply
    PROVE  CommandInv'
<1> USE DEF Commands!ToSet
<1>1. CommandTypes /\ WorkInv /\ DraftInv /\ OfferInv
  BY DEF CommandInv
<1>2. /\ UNCHANGED <<conversation, task, receipt, epoch, command, cUp, stopper, late, effects>>
      /\ down # <<>> /\ down' = Tail(down)
  BY DEF Commands!Reply, Commands!journal, Commands!service
<1>3. /\ down \in Seq(Issued \X {"accepted", "error"}) /\ pending \in Seq(Issued)
      /\ draft \in [Threads -> Texts \cup {Nobody}] /\ again \in [Texts -> Nat]
      /\ Nobody \notin Texts
  BY <1>1 DEF CommandTypes, Commands!ConversationAssumption
<1>4. PICK r \in Issued, answer \in {"accepted", "error"} : Head(down)[1] = r /\ Head(down)[2] = answer
  <2>1. Head(down) \in Issued \X {"accepted", "error"}
    BY <1>2, <1>3
  <2> QED
    BY <2>1
<1>5. /\ \/ r \notin Commands!ToSet(pending) /\ UNCHANGED pending
         \/ \E i \in DOMAIN pending : pending[i] = r /\ pending' = Commands!RemoveAt(pending, i)
      /\ draft' = IF HasText(r) /\ answer = "accepted" /\ r \in Commands!ToSet(pending)
                  THEN [draft EXCEPT ![command[r].thread] = IF @ = command[r].text THEN Nobody ELSE @]
                  ELSE draft
      /\ Commands!Offered(IF answer = "error" THEN Commands!TextsOf(<<r>>) ELSE {})
  BY <1>4 DEF Commands!Reply, HasText
\* Where what is still pending was before.
<1>6. PICK place \in [DOMAIN pending' -> DOMAIN pending] :
        /\ pending' \in Seq(Issued)
        /\ \A i, j \in DOMAIN pending' : place[i] = place[j] => i = j
        /\ \A j \in DOMAIN pending' : pending'[j] = pending[place[j]] /\ pending'[j] # r
        /\ \A k \in DOMAIN pending : pending[k] # r => \E j \in DOMAIN pending' : place[j] = k
  <2>1. CASE r \notin Commands!ToSet(pending) /\ UNCHANGED pending
    <3> DEFINE f == [j \in DOMAIN pending |-> j]
    <3>1. \A k \in DOMAIN pending : pending[k] # r
      BY <2>1
    <3>2. f \in [DOMAIN pending' -> DOMAIN pending] /\ \A j \in DOMAIN pending : f[j] = j
      BY <2>1
    <3> QED
      BY <1>3, <2>1, <3>1, <3>2
  <2>2. ASSUME NEW i \in DOMAIN pending, pending[i] = r, pending' = Commands!RemoveAt(pending, i)
        PROVE  \E f \in [DOMAIN pending' -> DOMAIN pending] :
                 /\ pending' \in Seq(Issued)
                 /\ \A h, j \in DOMAIN pending' : f[h] = f[j] => h = j
                 /\ \A j \in DOMAIN pending' : pending'[j] = pending[f[j]] /\ pending'[j] # r
                 /\ \A k \in DOMAIN pending : pending[k] # r => \E j \in DOMAIN pending' : f[j] = k
    <3> DEFINE f == [j \in DOMAIN pending' |-> IF j < i THEN j ELSE j + 1]
    <3>1. /\ pending' \in Seq(Issued) /\ DOMAIN pending' = 1..(Len(pending) - 1)
          /\ \A j \in DOMAIN pending' : pending'[j] = pending[IF j < i THEN j ELSE j + 1]
      BY <1>3, <2>2, OthersStay
    <3>2. Len(pending) \in Nat /\ DOMAIN pending = 1..Len(pending) /\ i \in 1..Len(pending)
      BY <1>3
    <3>3. ASSUME NEW j \in DOMAIN pending'
          PROVE  f[j] \in DOMAIN pending /\ f[j] # i /\ pending'[j] = pending[f[j]]
      BY <3>1, <3>2, <3>3
    <3>4. f \in [DOMAIN pending' -> DOMAIN pending]
      BY <3>3
    <3>5. \A h, j \in DOMAIN pending' : f[h] = f[j] => h = j
      BY <3>1, <3>2
    <3>6. \A j \in DOMAIN pending' : pending'[j] # r
      BY <1>1, <2>2, <3>3 DEF DraftInv
    <3>7. ASSUME NEW k \in DOMAIN pending, pending[k] # r
          PROVE  \E j \in DOMAIN pending' : f[j] = k
      <4>1. k # i
        BY <2>2, <3>7
      <4>2. CASE k < i
        <5>1. k \in DOMAIN pending' /\ f[k] = k
          BY <3>1, <3>2, <4>2
        <5> QED
          BY <5>1
      <4>3. CASE k > i
        <5>1. k - 1 \in DOMAIN pending' /\ f[k - 1] = k
          BY <3>1, <3>2, <4>3
        <5> QED
          BY <5>1
      <4> QED
        BY <3>2, <4>1, <4>2, <4>3
    <3> HIDE DEF f
    <3> QED
      BY <3>1, <3>3, <3>4, <3>5, <3>6, <3>7
  <2> QED
    BY <1>5, <2>1, <2>2
<1>7. /\ Issued' = Issued /\ \A x : HasText(x)' <=> HasText(x)
      /\ \A m : Carriers(m)' = Carriers(m)
  BY <1>2 DEF Issued, HasText, Carriers
<1>8. HasText(r) => command[r].thread \in Threads /\ command[r].text \in Texts
  BY <1>1, IssuedAreRequests
<1>9. \A t \in Threads : draft'[t] = draft[t] \/ draft'[t] = Nobody
  BY <1>3, <1>5, <1>8
<1>10. \A m \in Texts : /\ again'[m] \in Nat /\ again[m] <= again'[m]
                        /\ answer = "error" /\ HasText(r) /\ command[r].text = m =>
                             again'[m] = again[m] + 1
  <2>1. HasText(r) => command[r].text \in Commands!TextsOf(<<r>>)
    BY DEF Commands!TextsOf, HasText
  <2> QED
    BY <1>3, <1>5, <2>1 DEF Commands!Offered
<1>11. CommandTypes'
  <2>1. down' \in Seq(Issued \X {"accepted", "error"})
    BY <1>2, <1>3
  <2>2. draft' \in [Threads -> Texts \cup {Nobody}]
    BY <1>3, <1>5, <1>8
  <2>3. again' \in [Texts -> Nat]
    BY <1>3, <1>5 DEF Commands!Offered
  <2> QED
    BY <1>1, <1>2, <1>6, <1>7, <2>1, <2>2, <2>3
       DEF CommandTypes, Commands!Requests, Commands!Live, Commands!Commands
<1>12. WorkInv'
  BY <1>1, <1>2, WorkRests
<1>13. DraftInv'
  <2>1. \A s, t \in Threads : draft'[s] = draft'[t] /\ draft'[s] # Nobody => s = t
    BY <1>1, <1>9 DEF DraftInv
  <2>2. \A t \in Threads, q \in Issued :
          HasText(q) /\ command[q].text = draft'[t] => command[q].thread = t
    BY <1>1, <1>3, <1>9, IssuedAreRequests DEF DraftInv
  <2>3. \A i, j \in DOMAIN pending' : pending'[i] = pending'[j] => i = j
    BY <1>1, <1>6 DEF DraftInv
  <2>4. ASSUME NEW i \in DOMAIN pending', NEW q \in Issued, q = pending'[i], HasText(q)
        PROVE  draft'[command[q].thread] = command[q].text
    <3>1. place[i] \in DOMAIN pending /\ pending[place[i]] = q /\ q # r
      BY <1>6, <2>4
    <3>2. draft[command[q].thread] = command[q].text /\ command[q].thread \in Threads
      BY <1>1, <2>4, <3>1, IssuedAreRequests DEF DraftInv
    <3>3. CASE HasText(r) /\ r \in Commands!ToSet(pending)
      <4>1. PICK k \in DOMAIN pending : pending[k] = r
        BY <3>3
      <4>2. command[r].thread # command[q].thread
        BY <1>1, <2>4, <3>1, <3>3, <4>1 DEF DraftInv
      <4> QED
        BY <1>3, <1>5, <3>2, <4>2
    <3>4. CASE ~(HasText(r) /\ r \in Commands!ToSet(pending))
      BY <1>5, <3>2, <3>4
    <3> QED
      BY <3>3, <3>4
  <2>5. ASSUME NEW i \in DOMAIN pending', NEW j \in DOMAIN pending',
               HasText(pending[i])', HasText(pending[j])',
               command'[pending'[i]].thread = command'[pending'[j]].thread
        PROVE  i = j
    <3>1. /\ place[i] \in DOMAIN pending /\ pending[place[i]] = pending'[i]
          /\ place[j] \in DOMAIN pending /\ pending[place[j]] = pending'[j]
      BY <1>6
    <3>2. HasText(pending[place[i]]) /\ HasText(pending[place[j]])
      BY <1>2, <2>5, <3>1 DEF HasText
    <3>3. place[i] = place[j]
      BY <1>1, <1>2, <2>5, <3>1, <3>2 DEF DraftInv
    <3> QED
      BY <1>6, <3>3
  <2>6. ASSUME NEW i \in DOMAIN pending', HasText(pending[i])'
        PROVE  draft'[command'[pending'[i]].thread] = command'[pending'[i]].text
    <3>1. pending'[i] \in Issued
      BY <1>6
    <3>2. \A q : HasText(q) <=> command[q].kind \in {"submit", "steer"}
      BY DEF HasText
    <3>3. command[pending'[i]].kind \in {"submit", "steer"}
      BY <1>2, <2>6 DEF HasText
    <3> QED
      BY <1>2, <2>4, <3>1, <3>2, <3>3
  <2> QED
    BY <1>7, <2>1, <2>2, <2>3, <2>5, <2>6, <1>2 DEF DraftInv
<1>14. OfferInv'
  <2>1. \A m \in Texts : /\ Cardinality(Carriers(m)) \in Nat
                         /\ Cardinality(Carriers(m)) <= 1 + again[m]
    BY <1>1, CarriersAreFinite DEF CommandTypes, OfferInv
  <2>2. ASSUME NEW m \in Texts PROVE Cardinality(Carriers(m)) <= 1 + again'[m]
    BY <1>3, <1>10, <2>1
  <2>3. ASSUME NEW m \in Texts, NEW t \in Threads, draft'[t] = m, ~Commands!Submitting(t)'
        PROVE  Cardinality(Carriers(m)) <= again'[m]
    <3>1. draft[t] = m /\ m # Nobody
      BY <1>3, <1>9, <2>3
    <3>2. CASE ~Commands!Submitting(t)
      <4>1. Cardinality(Carriers(m)) <= again[m]
        BY <1>1, <3>1, <3>2 DEF OfferInv
      <4> QED
        BY <1>3, <1>10, <2>1, <4>1
    <3>3. CASE Commands!Submitting(t)
      <4>1. PICK k \in DOMAIN pending : HasText(pending[k]) /\ command[pending[k]].thread = t
        BY <3>3 DEF Commands!Submitting, HasText
      <4>2. pending[k] = r
        <5> SUFFICES ASSUME pending[k] # r PROVE FALSE
          OBVIOUS
        <5>1. PICK j \in DOMAIN pending' : pending'[j] = pending[k]
          BY <1>6
        <5>2. command'[pending'[j]].kind \in {"submit", "steer"} /\ command'[pending'[j]].thread = t
          BY <1>2, <4>1, <5>1 DEF HasText
        <5> QED
          BY <2>3, <5>2 DEF Commands!Submitting
      <4>3. HasText(r) /\ command[r].text = m /\ command[r].thread = t /\ r \in Commands!ToSet(pending)
        BY <1>1, <3>1, <4>1, <4>2 DEF DraftInv
      <4>4. answer = "error"
        <5> SUFFICES ASSUME answer = "accepted" PROVE FALSE
          BY <1>4
        <5>1. draft'[t] = Nobody
          BY <1>3, <1>5, <3>1, <4>3
        <5> QED
          BY <2>3, <3>1, <5>1
      <4> QED
        BY <1>3, <1>10, <2>1, <4>3, <4>4
    <3> QED
      BY <3>2, <3>3
  <2> QED
    BY <1>7, <2>2, <2>3 DEF OfferInv
<1> QED
  BY <1>11, <1>12, <1>13, <1>14 DEF CommandInv

\* Every step of the host, of the connection and of the tab keeps what is asked, done
\* and on offer in step.
LEMMA CommandStepKeeps ==
    ASSUME CommandInv, Commands!ConversationAssumption, [Commands!Next]_(Commands!vars)
    PROVE  CommandInv'
<1> DEFINE Asked == Commands!Commands \cup [kind : {"stop"}, epoch : Nat]
<1>1. CASE UNCHANGED Commands!vars
  <2>1. UNCHANGED <<conversation, task, receipt, epoch, command, pending, draft, cUp, late, down,
                    stopper, effects, again>>
    BY <1>1 DEF Commands!vars, Commands!journal, Commands!service, Commands!tab, Commands!wires,
           Commands!ghosts
  <2>2. CommandTypes'
    BY <2>1 DEF CommandInv, CommandTypes, Issued, Commands!Requests, Commands!Live, Commands!Commands
  <2> QED
    BY <2>1, <2>2, WorkRests, DraftRests, OfferRests DEF CommandInv
<1>2. CASE \/ Commands!StopEnds \/ Commands!Crash \/ Commands!Restart
           \/ Commands!Connect \/ Commands!Lose
           \/ \E r \in Commands!Requests :
                Commands!StartTask(r) \/ Commands!TaskEnds(r) \/ Commands!Reviewed(r)
  BY <1>2, HostKeeps
<1>3. ASSUME NEW c \in Asked, Commands!Sent(c), c.kind \notin {"submit", "steer"} PROVE CommandInv'
  BY <1>3, SentKeeps
<1>4. CASE Commands!Stop
  <2>1. [kind |-> "stop", epoch |-> epoch] \in Asked
    BY DEF CommandInv, CommandTypes
  <2> QED
    BY <1>3, <1>4, <2>1 DEF Commands!Stop
<1>5. ASSUME NEW t \in Threads, Commands!Create(t) \/ Commands!Purge(t) PROVE CommandInv'
  <2>1. \A k \in {"create", "purge"} : [kind |-> k, thread |-> t] \in Asked
    BY DEF Commands!Commands
  <2> QED
    BY <1>3, <1>5, <2>1 DEF Commands!Create, Commands!Purge
<1>6. ASSUME NEW t \in Threads, NEW kind \in {"archive", "unarchive", "delete", "cancel"},
             Commands!Manage(t, kind) PROVE CommandInv'
  <2>1. [kind |-> kind, thread |-> t] \in Asked
    BY DEF Commands!Commands
  <2> QED
    BY <1>3, <1>6, <2>1 DEF Commands!Manage
<1>7. ASSUME NEW t \in Threads, NEW kind \in {"submit", "steer"}, Commands!Send(t, kind)
      PROVE  CommandInv'
  <2>1. draft[t] \in Texts /\ draft[t] # Nobody
    BY <1>7 DEF Commands!Send, CommandInv, CommandTypes
  <2>2. PICK c \in Asked : c = [kind |-> kind, thread |-> t, text |-> draft[t]]
    BY <2>1 DEF Commands!Commands
  <2>3. c.text = draft[c.thread] /\ draft[c.thread] # Nobody /\ ~Commands!Submitting(c.thread)
    BY <1>7, <2>1, <2>2 DEF Commands!Send
  <2>4. Commands!Sent(c)
    BY <1>7, <2>2 DEF Commands!Send
  <2> QED
    BY <2>3, <2>4, SentKeeps
<1>8. ASSUME NEW t \in Threads, NEW m \in Texts, Commands!Write(t, m) PROVE CommandInv'
  BY <1>8, WriteKeeps
<1> QED
  BY <1>1, <1>2, <1>4, <1>5, <1>6, <1>7, <1>8, HandleKeeps, FirstSnapshotKeeps, ReplyKeeps
     DEF Commands!Next

\* Nothing is asked to begin with.
LEMMA CommandStarts ==
    ASSUME Commands!ConversationAssumption, Commands!Init PROVE CommandInv
<1>1. /\ command = <<>> /\ pending = <<>> /\ cUp = <<>> /\ down = <<>> /\ late = <<>> /\ stopper = 0
      /\ epoch = 0 /\ draft = [t \in Threads |-> Nobody]
      /\ effects = [m \in Texts |-> 0] /\ again = [m \in Texts |-> 0]
      /\ task = [r \in Commands!Requests |-> "none"] /\ receipt = [r \in Commands!Requests |-> "none"]
      /\ conversation \in [Threads -> {"live", "absent"}]
  BY DEF Commands!Init
<1>2. Len(command) = 0 /\ Issued = {} /\ DOMAIN pending = {} /\ DOMAIN command = {}
  BY <1>1 DEF Issued
<1>3. CommandTypes
  BY <1>1, <1>2 DEF CommandTypes, Commands!ConversationAssumption, Commands!Live
<1>4. \A m : Cardinality(Carriers(m)) = 0 /\ Cardinality(Answered(m)) = 0
  <2>1. \A m : Carriers(m) = {} /\ Answered(m) = {}
    BY <1>2 DEF Carriers, Answered
  <2> QED
    BY <2>1, FS_EmptySet
<1>5. WorkInv
  BY <1>1, <1>2, <1>4 DEF WorkInv, Commands!Working, Commands!Of, Commands!Live
<1>6. DraftInv
  BY <1>1, <1>2 DEF DraftInv
<1>7. OfferInv
  BY <1>1, <1>4 DEF OfferInv
<1> QED
  BY <1>3, <1>5, <1>6, <1>7 DEF CommandInv

\* What was ever asked of a thread is of a thread that is not deleted; the files of a
\* deleted one are still to be removed.
GoneInv ==
    /\ \A r \in Commands!Requests :
         task[r] # "none" => /\ r \in Issued /\ command[r].kind = "submit"
                             /\ conversation[command[r].thread] # "deleted"
    /\ \A t \in Threads : conversation[t] = "deleted" /\ t \in files => t \in unlinked

\* No task is added, and threads and their files stay.
LEMMA GoneRests ==
    ASSUME GoneInv, UNCHANGED <<conversation, files, unlinked>>,
           \A r \in Commands!Requests : task'[r] # "none" => task[r] # "none",
           \A r \in Issued : r \in Issued' /\ command'[r] = command[r]
    PROVE  GoneInv'
BY DEF GoneInv, Commands!Requests

\* Files of deleted threads are removed but for those in use, which stay known.
LEMMA CleanupKeeps ==
    ASSUME NEW S, Commands!Cleanup(S),
           \A t \in Threads : conversation'[t] = "deleted" /\ t \in files => t \in S
    PROVE  \A t \in Threads : conversation'[t] = "deleted" /\ t \in files' => t \in unlinked'
<1>1. PICK locked \in SUBSET (S \cap files) : unlinked' = locked /\ files' = files \ (S \ locked)
  BY DEF Commands!Cleanup
<1> QED
  BY <1>1

\* A command the journal carries out leaves nothing of a thread it deletes, and starts
\* nothing in a deleted one.
LEMMA CommandKeepsGone ==
    ASSUME CommandTypes, GoneInv, Commands!ConversationAssumption, NEW q \in Issued,
           Commands!Command(q), UNCHANGED command
    PROVE  GoneInv'
<1> USE DEF Commands!Live
<1>1. /\ DOMAIN command = Issued /\ Issued' = Issued /\ Issued \subseteq Commands!Requests
      /\ \A t : Commands!Of(t) = {r \in Issued : command[r].kind = "submit" /\ command[r].thread = t}
  BY IssuedAreRequests DEF Issued, Commands!Of
<1>2. /\ task \in [Commands!Requests -> {"queued", "running", "none", "uncertain", "over"}]
      /\ conversation \in [Threads -> {"absent", "live", "archived", "deleted"}]
  BY DEF CommandTypes
<1>3. ASSUME UNCHANGED <<conversation, task>>, Commands!Cleanup(unlinked) \/ UNCHANGED <<files, unlinked>>
      PROVE  GoneInv'
  <2>1. \A t \in Threads : conversation'[t] = "deleted" /\ t \in files => t \in unlinked
    BY <1>3 DEF GoneInv
  <2>2. \A t \in Threads : conversation'[t] = "deleted" /\ t \in files' => t \in unlinked'
    BY <1>3, <2>1, CleanupKeeps
  <2> QED
    BY <1>1, <1>3, <2>2 DEF GoneInv, Commands!Requests
<1>4. CASE Commands!Reapply(q) \/ UNCHANGED Commands!journal
  BY <1>3, <1>4 DEF Commands!Reapply, Commands!journal
<1>5. CASE Commands!Applies(q) /\ Commands!Apply(q)
  <2>1. command[q].kind # "stop" => Commands!Allowed(command[q])
    BY <1>5 DEF Commands!Applies, Commands!Answer
  <2>2. ASSUME NEW s \in {"live", "archived"}, NEW t,
               conversation' = [conversation EXCEPT ![t] = s], UNCHANGED <<task, files, unlinked>>
        PROVE  GoneInv'
    <3>1. \A o : conversation'[o] = "deleted" /\ o \in Threads => conversation[o] = "deleted"
      BY <1>2, <2>2
    <3>2. ASSUME NEW r \in Commands!Requests, task[r] # "none"
          PROVE  conversation'[command[r].thread] # "deleted"
      <4>1. r \in Issued /\ HasText(r) /\ conversation[command[r].thread] # "deleted"
        BY <3>2 DEF GoneInv, HasText
      <4> QED
        BY <3>1, <4>1, IssuedAreRequests
    <3> QED
      BY <1>1, <2>2, <3>1, <3>2 DEF GoneInv, Commands!Requests
  <2>3. CASE \/ command[q].kind = "create" /\ Commands!Created(q)
             \/ command[q].kind \in {"archive", "unarchive"} /\ Commands!Managed(q)
    <3>1. UNCHANGED <<task, files, unlinked>>
      BY <2>3 DEF Commands!Created, Commands!Managed
    <3>2. \E s \in {"live", "archived"} : conversation' = [conversation EXCEPT ![command[q].thread] = s]
      BY <2>3 DEF Commands!Created, Commands!Managed, Commands!Becomes
    <3> QED
      BY <2>2, <3>1, <3>2
  <2>4. CASE command[q].kind = "steer" /\ Commands!Steered(q)
    BY <1>3, <2>4 DEF Commands!Steered
  <2>5. CASE command[q].kind = "submit" /\ Commands!Submitted(q)
    <3>1. /\ task' = [task EXCEPT ![q] = "queued"] /\ UNCHANGED <<conversation, files, unlinked>>
          /\ conversation[command[q].thread] = "live"
      BY <2>1, <2>5 DEF Commands!Submitted, Commands!Allowed, Commands!Writable
    <3>2. \A r \in Commands!Requests : task'[r] # "none" => r = q \/ task[r] # "none"
      BY <1>2, <3>1
    <3> QED
      BY <1>1, <2>5, <3>1, <3>2 DEF GoneInv, Commands!Requests
  <2>6. CASE command[q].kind = "cancel" /\ Commands!Cancelled(q)
    <3>1. /\ UNCHANGED <<conversation, files, unlinked>>
          /\ task' = [o \in Commands!Requests |->
                IF o \in Commands!Of(command[q].thread) /\ task[o] = "queued" THEN "over" ELSE task[o]]
      BY <2>6 DEF Commands!Cancelled
    <3>2. \A r \in Commands!Requests : task'[r] # "none" => task[r] # "none"
      BY <3>1
    <3> QED
      BY <1>1, <3>1, <3>2, GoneRests
  <2>7. CASE command[q].kind \in {"delete", "purge"} /\ Commands!Removed(q)
    <3> DEFINE here == command[q].thread
    <3>1. /\ conversation' = [conversation EXCEPT ![here] = "deleted"]
          /\ task' = [o \in Commands!Requests |-> IF o \in Commands!Of(here) THEN "none" ELSE task[o]]
          /\ Commands!Cleanup(unlinked \cup {here})
      BY <2>7 DEF Commands!Removed, Commands!Deleted
    <3>2. \A t \in Threads : t # here => conversation'[t] = conversation[t]
      BY <1>2, <3>1
    <3>3. \A t \in Threads : conversation'[t] = "deleted" /\ t \in files => t \in unlinked \cup {here}
      BY <3>2 DEF GoneInv
    <3>4. \A t \in Threads : conversation'[t] = "deleted" /\ t \in files' => t \in unlinked'
      BY <3>1, <3>3, CleanupKeeps
    <3>5. ASSUME NEW r \in Commands!Requests, task'[r] # "none"
          PROVE  /\ r \in Issued' /\ command'[r].kind = "submit"
                 /\ conversation'[command'[r].thread] # "deleted"
      <4>1. task[r] # "none" /\ r \notin Commands!Of(here)
        BY <3>1, <3>5
      <4>2. /\ r \in Issued /\ command[r].kind = "submit"
            /\ conversation[command[r].thread] # "deleted" /\ command[r].thread # here
        BY <1>1, <4>1 DEF GoneInv
      <4>3. command[r].thread \in Threads
        BY <4>2, IssuedAreRequests DEF HasText
      <4> QED
        BY <1>1, <3>2, <4>2, <4>3
    <3> HIDE DEF here
    <3> QED
      BY <3>4, <3>5 DEF GoneInv, Commands!Requests
  <2> QED
    BY <1>5, <2>3, <2>4, <2>5, <2>6, <2>7 DEF Commands!Apply
<1> QED
  BY <1>4, <1>5 DEF Commands!Command

\* Every step of the host, of the connection and of the tab keeps a deleted thread gone.
LEMMA GoneKeeps ==
    ASSUME CommandInv, GoneInv, Commands!ConversationAssumption, [Commands!Next]_(Commands!vars)
    PROVE  GoneInv'
<1> USE DEF Commands!tab, Commands!bounds, Commands!journal, Commands!service, Commands!ghosts,
            Commands!wires, Commands!Live
<1>0. CommandTypes
  BY DEF CommandInv
<1>1. task \in [Commands!Requests -> {"queued", "running", "none", "uncertain", "over"}]
  BY <1>0 DEF CommandTypes
<1>2. ASSUME UNCHANGED <<conversation, files, unlinked, command>>,
             \A r \in Commands!Requests : task'[r] # "none" => task[r] # "none"
      PROVE  GoneInv'
  <2>1. \A r \in Issued : r \in Issued' /\ command'[r] = command[r]
    BY <1>2 DEF Issued
  <2> QED
    BY <1>2, <2>1, GoneRests
<1>3. CASE \/ UNCHANGED Commands!vars \/ Commands!Crash \/ Commands!Connect \/ Commands!Lose
           \/ Commands!FirstSnapshot \/ Commands!Reply
           \/ \E t \in Threads, m \in Texts : Commands!Write(t, m)
  <2>1. UNCHANGED <<conversation, task, files, unlinked, command>>
    BY <1>3 DEF Commands!vars, Commands!Crash, Commands!Connect, Commands!Lose,
           Commands!FirstSnapshot, Commands!Reply, Commands!Write
  <2> QED
    BY <1>2, <2>1
<1>4. CASE Commands!StopEnds
  <2>1. /\ UNCHANGED <<conversation, files, unlinked, command>>
        /\ task' = [r \in Commands!Requests |-> IF task[r] = "queued" THEN "over" ELSE task[r]]
    BY <1>4 DEF Commands!StopEnds
  <2> QED
    BY <1>2, <2>1
<1>5. CASE Commands!Restart
  <2>1. /\ UNCHANGED <<conversation, command>> /\ Commands!Cleanup(unlinked)
        /\ task' = [r \in Commands!Requests |-> IF task[r] = "running" THEN "uncertain" ELSE task[r]]
    BY <1>5 DEF Commands!Restart
  <2>2. \A t \in Threads : conversation'[t] = "deleted" /\ t \in files => t \in unlinked
    BY <2>1 DEF GoneInv
  <2>3. \A t \in Threads : conversation'[t] = "deleted" /\ t \in files' => t \in unlinked'
    BY <2>1, <2>2, CleanupKeeps
  <2>4. \A r \in Commands!Requests : task'[r] # "none" => task[r] # "none"
    BY <2>1
  <2> QED
    BY <2>1, <2>3, <2>4 DEF GoneInv, Issued, Commands!Requests
<1>6. ASSUME NEW r \in Commands!Requests, Commands!TaskEnds(r) \/ Commands!Reviewed(r) PROVE GoneInv'
  <2>1. /\ UNCHANGED <<conversation, files, unlinked, command>> /\ task[r] # "none"
        /\ \E s \in {"uncertain", "over"} : task' = [task EXCEPT ![r] = s]
    BY <1>6 DEF Commands!TaskEnds, Commands!Reviewed
  <2> QED
    BY <1>1, <1>2, <2>1
<1>7. ASSUME NEW r \in Commands!Requests, Commands!StartTask(r) PROVE GoneInv'
  <2>1. /\ UNCHANGED <<conversation, unlinked, command>> /\ task[r] = "queued"
        /\ task' = [task EXCEPT ![r] = "running"] /\ files' = files \cup {command[r].thread}
    BY <1>7 DEF Commands!StartTask
  <2>2. conversation[command[r].thread] # "deleted"
    BY <2>1 DEF GoneInv
  <2>3. \A o \in Commands!Requests : task'[o] # "none" => task[o] # "none"
    BY <1>1, <2>1
  <2>4. \A t \in Threads : conversation'[t] = "deleted" /\ t \in files' => t \in unlinked'
    BY <2>1, <2>2 DEF GoneInv
  <2> QED
    BY <2>1, <2>3, <2>4 DEF GoneInv, Issued, Commands!Requests
<1>8. ASSUME NEW c, Commands!Sent(c) PROVE GoneInv'
  <2>1. UNCHANGED <<conversation, task, files, unlinked>> /\ command' = Append(command, c)
    BY <1>8 DEF Commands!Sent
  <2>2. command \in Seq(Commands!Commands \cup [kind : {"stop"}, epoch : Nat])
    BY <1>0 DEF CommandTypes
  <2>3. \A r \in Issued : r \in Issued' /\ command'[r] = command[r]
    <3>1. Len(command) \in Nat /\ Len(command') = Len(command) + 1
      BY <2>1, <2>2
    <3>2. \A r \in 1..Len(command) : command'[r] = command[r]
      BY <2>1, <2>2
    <3> QED
      BY <3>1, <3>2 DEF Issued
  <2> QED
    BY <2>1, <2>3, GoneRests
<1>9. CASE Commands!Stop \/ \E t \in Threads :
              \/ Commands!Create(t) \/ Commands!Purge(t)
              \/ \E kind \in {"submit", "steer"} : Commands!Send(t, kind)
              \/ \E kind \in {"archive", "unarchive", "delete", "cancel"} : Commands!Manage(t, kind)
  BY <1>8, <1>9 DEF Commands!Stop, Commands!Create, Commands!Purge, Commands!Send, Commands!Manage
<1>10. CASE Commands!Handle \/ Commands!HandleLate
  <2>1. PICK q \in Issued : Commands!Command(q)
    <3>1. cUp \in Seq(Issued) /\ late \in Seq(Issued)
      BY <1>0 DEF CommandTypes
    <3>2. /\ cUp # <<>> => Head(cUp) \in Issued
          /\ late # <<>> => Head(late) \in Issued
      BY <3>1
    <3> QED
      BY <1>10, <3>2 DEF Commands!Handle, Commands!HandleLate
  <2>2. UNCHANGED command
    BY <1>10 DEF Commands!Handle, Commands!HandleLate
  <2> QED
    BY <1>0, <2>1, <2>2, CommandKeepsGone
<1> QED
  BY <1>3, <1>4, <1>5, <1>6, <1>7, <1>9, <1>10 DEF Commands!Next

-----------------------------------------------------------------------------
(***************************************************************************)
(* The parts in one run                                                    *)
(***************************************************************************)

\* In a behaviour of the run the tabs are those of its part.
TabsHold ==
    /\ part = "tabs" => TabInv(Together)
    /\ part # "tabs" => TabInv(Alone)

\* A step of another part leaves the tabs alone.
LEMMA TabsRest ==
    ASSUME NEW z, Browser(z)!BrowserAssumption, TabInv(z), UNCHANGED browserVars PROVE TabInv(z)'
<1>1. UNCHANGED Browser(z)!vars
  BY DEF browserVars, Browser!vars, Browser!serverVars, Browser!socketVars, Browser!tabVars
<1> QED
  BY <1>1, TabStepKeeps

\* What is on its way to the tabs fits what they hold, in every behaviour of the run.
LEMMA TabsInvariant == Spec => []TabsHold
<1>0. Browser(Alone)!BrowserAssumption /\ Browser(Together)!BrowserAssumption
  BY UiAssumption DEF UiAssumption
<1>1. Init => TabsHold
  BY <1>0, TabStarts DEF Init, TabsHold
<1>2. TabsHold /\ [Next]_vars => TabsHold'
  <2> SUFFICES ASSUME TabsHold, [Next]_vars PROVE TabsHold'
    OBVIOUS
  <2>0. part' = part
    BY DEF Next, OneStep, CommandStep, vars
  <2>1. CASE UNCHANGED browserVars
    BY <1>0, <2>0, <2>1, TabsRest DEF TabsHold
  <2>2. CASE part = "one tab" /\ Browser(Alone)!Next
    BY <1>0, <2>0, <2>2, TabStepKeeps DEF TabsHold
  <2>3. CASE part = "tabs" /\ Browser(Together)!Next
    BY <1>0, <2>0, <2>3, TabStepKeeps DEF TabsHold
  <2> QED
    BY <2>1, <2>2, <2>3 DEF Next, OneStep, CommandStep, vars
<1> QED
  BY <1>1, <1>2, PTL DEF Spec

\* The commands of a tab are as the invariant says in every behaviour of the run.
LEMMA CommandInvariant == Spec => []CommandInv
<1>0. Commands!ConversationAssumption
  BY UiAssumption DEF UiAssumption
<1>1. Init => CommandInv
  BY <1>0, CommandStarts DEF Init
<1>2. CommandInv /\ [Next]_vars => CommandInv'
  <2> SUFFICES ASSUME CommandInv, [Next]_vars PROVE CommandInv'
    OBVIOUS
  <2>1. [Commands!Next]_(Commands!vars)
    <3>1. UNCHANGED commandVars => UNCHANGED Commands!vars
      BY DEF commandVars, Commands!vars, Commands!journal, Commands!service, Commands!tab,
             Commands!wires, Commands!ghosts, Commands!bounds
    <3> QED
      BY <3>1 DEF Next, OneStep, CommandStep, vars
  <2> QED
    BY <1>0, <2>1, CommandStepKeeps
<1> QED
  BY <1>1, <1>2, PTL DEF Spec

\* A deleted thread stays gone in every behaviour of the run.
LEMMA GoneInvariant == Spec => []GoneInv
<1>0. Commands!ConversationAssumption
  BY UiAssumption DEF UiAssumption
<1>1. Init => GoneInv
  BY DEF Init, GoneInv, Commands!Init
<1>2. CommandInv /\ GoneInv /\ [Next]_vars => GoneInv'
  <2> SUFFICES ASSUME CommandInv, GoneInv, [Next]_vars PROVE GoneInv'
    OBVIOUS
  <2>1. [Commands!Next]_(Commands!vars)
    <3>1. UNCHANGED commandVars => UNCHANGED Commands!vars
      BY DEF commandVars, Commands!vars, Commands!journal, Commands!service, Commands!tab,
             Commands!wires, Commands!ghosts, Commands!bounds
    <3> QED
      BY <3>1 DEF Next, OneStep, CommandStep, vars
  <2> QED
    BY <1>0, <2>1, GoneKeeps
<1> QED
  BY <1>1, <1>2, CommandInvariant, PTL DEF Spec

\* However often views, revisions and tabs change, a snapshot is overtaken or replaced and
\* a connection is lost, a patch reaches a tab on top of the snapshot it was made from.
THEOREM PatchesReachTheirBase == Spec => []PatchesFit
<1>1. ASSUME NEW z, TabInv(z) PROVE Browser(z)!PatchesFit
  BY <1>1 DEF TabInv, PatchFits, Browser!PatchesFit
<1>2. TabsHold => PatchesFit
  BY <1>1 DEF TabsHold, PatchesFit
<1> QED
  BY <1>2, TabsInvariant, PTL

\* A text the user sends becomes work once, however often connections break, the host
\* stops or crashes and the tab sends again, unless it was offered to him anew.
THEOREM TextsAreSentOnce == Spec => []SentOnce
<1>1. CommandInv => SentOnce
  <2> SUFFICES ASSUME CommandInv, NEW m \in Texts PROVE effects[m] <= 1 + again[m]
    BY DEF SentOnce, Commands!SentOnce
  <2>1. /\ Cardinality(Answered(m)) <= Cardinality(Carriers(m))
        /\ Cardinality(Answered(m)) \in Nat /\ Cardinality(Carriers(m)) \in Nat
    BY CarriersAreFinite DEF CommandInv, CommandTypes
  <2>2. effects[m] <= Cardinality(Answered(m)) /\ Cardinality(Carriers(m)) <= 1 + again[m]
    BY DEF CommandInv, WorkInv, OfferInv
  <2>3. effects[m] \in Nat /\ again[m] \in Nat
    BY DEF CommandInv, CommandTypes
  <2> QED
    BY <2>1, <2>2, <2>3
<1> QED
  BY <1>1, CommandInvariant, PTL

\* Whatever commands about threads are repeated, refused, late or lost, all live work is
\* in one thread, neither archived nor deleted, and a deleted one leaves no work and no file
\* that nobody knows.
THEOREM WorkStaysWithItsThread == Spec => []WorkFollowsThreads
<1>1. CommandInv => Commands!OneLiveThread
  BY DEF CommandInv, WorkInv, Commands!OneLiveThread
<1>2. CommandInv /\ GoneInv => Commands!DeletedIsGone
  <2> SUFFICES ASSUME CommandInv, GoneInv, NEW t \in Threads, conversation[t] = "deleted"
               PROVE  (\A r \in Commands!Of(t) : task[r] = "none") /\ (t \in files => t \in unlinked)
    BY DEF Commands!DeletedIsGone
  <2>1. \A r \in Commands!Of(t) : r \in Commands!Requests /\ command[r].thread = t
    <3>1. DOMAIN command \subseteq Commands!Requests
      BY IssuedAreRequests, UiAssumption DEF UiAssumption, CommandInv
    <3> QED
      BY <3>1 DEF Commands!Of
  <2> QED
    BY <2>1 DEF GoneInv
<1> QED
  BY <1>1, <1>2, CommandInvariant, GoneInvariant, PTL DEF WorkFollowsThreads
=============================================================================
