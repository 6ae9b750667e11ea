--------------------------------- MODULE MCUi ---------------------------------
(* An instance of Ui for TLC: one tab, with every kind of change and fault; *)
(* and two tabs, which replace each other while the journal changes.        *)
EXTENDS Ui

CONSTANTS a, b

MCAlone == [tabs |-> {a}, cursor |-> 1, status |-> 1, clicks |-> 1, losses |-> 1, wire |-> 1]
MCTogether == [tabs |-> {a, b}, cursor |-> 1, status |-> 0, clicks |-> 0, losses |-> 0, wire |-> 1]
=============================================================================
