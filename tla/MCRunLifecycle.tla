--------------------------- MODULE MCRunLifecycle ---------------------------
(***************************************************************************)
(* Values for the constants of RunLifecycle: two automations, whose kinds  *)
(* of executor each run's configuration chooses.                           *)
(***************************************************************************)
EXTENDS RunLifecycle, TLC

CONSTANTS a1, a2, KindOfFirst, KindOfSecond

MCAutomations == {a1, a2}
MCExecutorOf == [a \in Automations |-> IF a = a1 THEN KindOfFirst ELSE KindOfSecond]

RunSymmetry == Permutations(Runs) \cup Permutations(Daemons)
=============================================================================
