------------------------ MODULE MCLifecycleController ------------------------
\* Instances of LifecycleController for TLC: the configurations give the number
\* of commands of each kind, in any order, before Rhino exits or not.
EXTENDS LifecycleController, TLC
=============================================================================
