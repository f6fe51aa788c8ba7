------------------------------ MODULE RunLedger ------------------------------
(***************************************************************************)
(* What the run history promises, without processes, attempts or crashes:  *)
(* a run is started once, an automation that forbids overlap has at most   *)
(* one run in progress, and a run is settled once, for good.               *)
(***************************************************************************)
CONSTANTS Runs, Automations, Exclusive, FinalStatus, Nobody

VARIABLES
  status, \* "absent", "running" or an outcome, of each run
  owner   \* the automation of each run that was started

vars == <<status, owner>>

Init ==
  /\ status = [r \in Runs |-> "absent"]
  /\ owner = [r \in Runs |-> Nobody]

InProgress(a) == {r \in Runs : owner[r] = a /\ status[r] = "running"}

Start(r, a) ==
  /\ status[r] = "absent"
  /\ a \in Exclusive => InProgress(a) = {}
  /\ status' = [status EXCEPT ![r] = "running"]
  /\ owner' = [owner EXCEPT ![r] = a]

Settle(r, outcome) ==
  /\ status[r] = "running"
  /\ status' = [status EXCEPT ![r] = outcome]
  /\ UNCHANGED owner

Next ==
  \E r \in Runs :
    \/ \E a \in Automations : Start(r, a)
    \/ \E outcome \in FinalStatus : Settle(r, outcome)

Spec == Init /\ [][Next]_vars
=============================================================================
