-------------------------------- MODULE Grant --------------------------------
(***************************************************************************)
(* What the approval store promises (ADR 0031, SECURITY.md), without a     *)
(* clock, plans, a Registry or crashes: a grant is asked for, answered     *)
(* once, spent by one holder, and used at most once, by that holder.       *)
(***************************************************************************)
EXTENDS Naturals

CONSTANTS Grants, Holders, Nobody

VARIABLES
  state,  \* of each grant
  holder, \* who spent it
  uses    \* how often something was started under it

vars == <<state, holder, uses>>

Init ==
  /\ state = [g \in Grants |-> "absent"]
  /\ holder = [g \in Grants |-> Nobody]
  /\ uses = [g \in Grants |-> 0]

Ask(g) ==
  /\ state[g] = "absent"
  /\ state' = [state EXCEPT ![g] = "open"]
  /\ UNCHANGED <<holder, uses>>

Answer(g, answer) ==
  /\ state[g] = "open"
  /\ state' = [state EXCEPT ![g] = answer]
  /\ UNCHANGED <<holder, uses>>

Spend(g, h) ==
  /\ state[g] = "granted"
  /\ state' = [state EXCEPT ![g] = "spent"]
  /\ holder' = [holder EXCEPT ![g] = h]
  /\ UNCHANGED uses

Use(g) ==
  /\ holder[g] # Nobody
  /\ uses[g] = 0
  /\ uses' = [uses EXCEPT ![g] = 1]
  /\ UNCHANGED <<state, holder>>

Next ==
  \E g \in Grants :
    \/ Ask(g)
    \/ \E answer \in {"granted", "refused"} : Answer(g, answer)
    \/ \E h \in Holders : Spend(g, h)
    \/ Use(g)

Spec == Init /\ [][Next]_vars
=============================================================================
