--------------------------- MODULE MCTaskScheduler ---------------------------
\* An instance of TaskScheduler for TLC: a root on Rhino process p and the
\* child it delegates there.
EXTENDS TaskScheduler, TLC

CONSTANTS root, child, p

MCPair == {root, child}
MCProcesses == {p}
MCParent == [t \in Tasks |-> IF t = root THEN NoTask ELSE root]
MCAllBound == [t \in Tasks |-> p]
MCConversation == [t \in Tasks |-> "first"]
MCDeps == [t \in Tasks |-> {}]
=============================================================================
