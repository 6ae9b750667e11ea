----------------------------- MODULE MCTransport -----------------------------
(***************************************************************************)
(* An instance of Transport for TLC.  The exchange: two calls under one    *)
(* operation ID over a store that holds one entry.  The fence: two hosts   *)
(* that may reattach under either route, a Rhino task and a task on a      *)
(* Grasshopper/Rhino pair.  The store: three operation IDs, a small, a     *)
(* full-size and an oversized result, room for two reservations.  The      *)
(* policy: an agent and a window, two windows for the keys.  The turn: one *)
(* lost reply, one failing native call, one action of a person.            *)
(***************************************************************************)
EXTENDS Transport, TLC

CONSTANTS p1, p2, c1, c2, t1, t2, g1, o1, o2, m1, m2, m3, w1, w2, small, large, huge

MCCalls == {c1, c2}
MCOps == {m1}
MCOpOf == c1 :> m1 @@ c2 :> m1
MCSize == [b \in Bodies |-> IF b = "large" THEN 2 ELSE 1]

MCEpochs == {p1, p2}
MCTasks == {t1, t2}
MCBindings == t1 :> "rhino" @@ t2 :> "pair"
MCGrants == {g1}
MCFenceOps == {o1, o2}

MCStoreOps == {m1, m2, m3}
MCStoreBodies == {small, large, huge}
MCStoreSize == small :> 1 @@ large :> 3 @@ huge :> 5

MCAgents == {"a"}
MCWindows == {"b"}
MCTools == {"web"}
MCKeyWindows == {w1, w2}

MCSymmetry ==
    Permutations(MCEpochs) \cup Permutations(MCCalls) \cup Permutations(MCFenceOps)
    \cup Permutations(MCKeyWindows)
=============================================================================
