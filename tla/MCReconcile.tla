---------------------------- MODULE MCReconcile ----------------------------
(***************************************************************************)
(* Values for the constants of Reconcile.  The definitions are d1, what a  *)
(* person may change it to or systemd shows of it while it is disabled     *)
(* (d2), and one that cannot be run (d3).                                  *)
(***************************************************************************)
EXTENDS Reconcile

CONSTANTS d1, d2, d3

MCDefinitions == {d1, d2, d3}

OfAgent == [d \in MCDefinitions |-> d]
OfCrontab == [d \in MCDefinitions |-> None]
OfUnit == [d \in MCDefinitions |-> IF d = d1 THEN d2 ELSE d]

\* The points at which a scanner leaves no source half written, and all others.
BetweenSources == {"judge", "pick", "sweep", "mark"}
Anywhere == BetweenSources \cup {"read", "write"}
=============================================================================
