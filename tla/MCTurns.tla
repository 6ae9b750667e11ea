------------------------------ MODULE MCTurns ------------------------------
\* An instance of Turns for TLC: the root and the child of MCTaskScheduler, two
\* process IDs and two lifecycles, and the documents of a root on a definition and
\* its model and of a child on another model of the same Rhino.
EXTENDS Turns, MCTaskScheduler

CONSTANTS pid1, pid2, id1, id2

MCPids == {pid1, pid2}
MCIds == {id1, id2}
MCModels == {"m1", "m2"}
MCDefinitions == {"d1", "d2"}
MCBinding == [t \in {root, child} |-> IF t = root THEN [rhino |-> "m1", grasshopper |-> "d1"]
                                      ELSE [rhino |-> "m2", grasshopper |-> NoTask]]
MCSymmetry == Permutations(MCPids) \cup Permutations(MCIds)
=============================================================================
