---------------------------- MODULE MCNativeWork ----------------------------
(* Instances for TLC: two processes that run a batch of two items, while    *)
(* Rhino restarts once; and one process that fills a quota of nine records  *)
(* with two batches and an edit.                                            *)
EXTENDS NativeWork

MCSharing ==
    [processes |-> 1..2, batches |-> {"b1"}, items |-> 2, edits |-> {}, texts |-> {"t1"}, quota |-> 9,
     reserve |-> 2, revisions |-> 1, versions |-> 3, lives |-> 2, crashes |-> 1, faults |-> 1,
     left |-> 0]
MCFilling ==
    [processes |-> 1..1, batches |-> {"b1", "b2"}, items |-> 1, edits |-> {"m1"}, texts |-> {"t1", "t2"},
     quota |-> 9, reserve |-> 2, revisions |-> 2, versions |-> 3, lives |-> 1, crashes |-> 1, faults |-> 0,
     left |-> 3]
=============================================================================
