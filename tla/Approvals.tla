------------------------------ MODULE Approvals ------------------------------
(***************************************************************************)
(* Approvals of integration actions: a person asks for one and answers it, *)
(* and processes execute under it.  The table approvals is changed by      *)
(* single UPDATEs; everything around them (the events, the row of the      *)
(* automation, the admission of the run) is a call of its own, in          *)
(* processes that run at the same time and may die between any two.        *)
(* All actions are those of one integration action that needs approval,    *)
(* with different parameters, so they share one automation row.            *)
(***************************************************************************)
EXTENDS Naturals

CONSTANTS
  Ids,       \* approvals (UUIDs: each is requested once)
  Plans,     \* plan fingerprints: parameters of the one integration action
  Executors, \* CLI processes and RPC handlers that execute under an approval
  Lifetimes, \* the ttl_seconds that are asked for
  MaxTime,   \* bound of the clock
  Faults,    \* whether calls may fail and processes may die
  None       \* no approval, no automation, no call

ASSUME ApprovalsAssumption ==
  /\ None \notin Plans /\ None \notin Executors
  /\ Lifetimes \subseteq Nat
  /\ MaxTime \in Nat
  /\ Faults \in BOOLEAN

VARIABLES
  approval, \* the table approvals
  now,      \* Utc::now()
  owed,     \* events of an answer that its call has yet to append
  trail,    \* the events of approvals that were appended
  row,      \* the plan in the automation integration.<integration>.<action>
  running,  \* whose run has a running row under that automation
  stranded, \* whether a process died and left such a row
  at,       \* where each executor's call is
  job       \* its local variables

\* What a reader of the model wants to know and the code does not record.
VARIABLES
  spender,  \* who consumed an approval
  starts,   \* how many processes were started under it
  lost      \* why a consumed approval will not start one

tableVars == <<approval, now, owed>>
runVars == <<row, running, stranded>>
ghostVars == <<spender, starts, lost>>
vars == <<tableVars, trail, runVars, at, job, ghostVars>>

Statuses == {"pending", "approved", "rejected", "consumed"}
ApprovalType == [status : Statuses, plan : Plans, expires : Nat]
Notes == {"approved", "rejected", "consumed"} \X Ids
Points == {"idle", "consume", "note", "look", "save", "admit", "spawn", "run"}

\* `shared`: the run is filed under the common automation, not under a new id.
JobType == [plan : Plans, grant : Ids, shared : BOOLEAN]

ASSUME NoneIsNoRecord == None \notin ApprovalType /\ None \notin JobType

TypeOK ==
  /\ approval \in [Ids -> ApprovalType \cup {None}]
  /\ now \in 0..MaxTime
  /\ owed \subseteq Notes
  /\ trail \subseteq Notes
  /\ row \in Plans \cup {None}
  /\ running \subseteq Executors
  /\ stranded \in BOOLEAN
  /\ at \in [Executors -> Points]
  /\ job \in [Executors -> JobType \cup {None}]
  /\ \A e \in Executors : at[e] = "idle" <=> job[e] = None
  /\ spender \in [Ids -> Executors \cup {None}]
  /\ starts \in [Ids -> 0..1]
  /\ lost \in [Ids -> {"no", "overlap", "failure"}]

Init ==
  /\ approval = [a \in Ids |-> None]
  /\ now = 0
  /\ owed = {} /\ trail = {}
  /\ row = None /\ running = {} /\ stranded = FALSE
  /\ at = [e \in Executors |-> "idle"]
  /\ job = [e \in Executors |-> None]
  /\ spender = [a \in Ids |-> None]
  /\ starts = [a \in Ids |-> 0]
  /\ lost = [a \in Ids |-> "no"]

-----------------------------------------------------------------------------
(***************************************************************************)
(* Persons.                                                                *)
(***************************************************************************)

\* request_integration_approval.  (No property is about the event it appends.)
Request(a, plan, ttl) ==
  /\ approval[a] = None
  /\ approval' = [approval EXCEPT ![a] =
                    [status |-> "pending", plan |-> plan, expires |-> now + ttl]]
  /\ UNCHANGED <<now, owed, trail, runVars, at, job, ghostVars>>

AnswerableAnyTime(a, answer) ==
  answer = "rejected" \/ approval[a].expires > now

\* The WHERE of decide_approval: an approval that expired can still be rejected.
Answerable(a, answer) ==
  /\ approval[a].status = "pending"
  /\ answer = "rejected" \/ approval[a].expires > now

\* decide_approval.
Decide(a, answer) ==
  /\ approval[a] # None
  /\ Answerable(a, answer)
  /\ approval' = [approval EXCEPT ![a].status = answer]
  /\ owed' = owed \cup {<<answer, a>>}
  /\ UNCHANGED <<now, trail, runVars, at, job, ghostVars>>

\* append_event of the answer.
AppendOwed(note) ==
  /\ note \in owed
  /\ owed' = owed \ {note}
  /\ trail' = trail \cup {note}
  /\ UNCHANGED <<approval, now, runVars, at, job, ghostVars>>

\* The append fails, or the process dies before it.
ForgetOwed(note) ==
  /\ Faults
  /\ note \in owed
  /\ owed' = owed \ {note}
  /\ UNCHANGED <<approval, now, trail, runVars, at, job, ghostVars>>

Tick ==
  /\ now < MaxTime
  /\ now' = now + 1
  /\ UNCHANGED <<approval, owed, trail, runVars, at, job, ghostVars>>

-----------------------------------------------------------------------------
(***************************************************************************)
(* Executors.                                                              *)
(***************************************************************************)
Goto(e, point) == at' = [at EXCEPT ![e] = point]

Finish(e) ==
  /\ Goto(e, "idle")
  /\ job' = [job EXCEPT ![e] = None]

GrantOf(e) == job[e].grant

\* get_approval and the comparison with the plan: what is compared never changes.
Begin(e, plan, a) ==
  /\ at[e] = "idle"
  /\ approval[a] # None
  /\ approval[a].plan = plan
  /\ job' = [job EXCEPT ![e] = [plan |-> plan, grant |-> a, shared |-> TRUE]]
  /\ Goto(e, "consume")
  /\ UNCHANGED <<tableVars, trail, runVars, ghostVars>>

\* execute_approved_integration plans the stored request again.  It reads that the
\* approval is approved; it may no longer be when it is consumed.
PresentApproved(e, a) ==
  /\ approval[a] # None /\ approval[a].status = "approved"
  /\ Begin(e, approval[a].plan, a)

\* execute_integration with an approval_id the caller names, of whatever status;
\* without one, or for an id that does not exist, the action is held.
PresentRequest(e, plan, a) == Begin(e, plan, a)

ConsumableTwice(e) ==
  LET a == approval[GrantOf(e)]
  IN  a.plan = job[e].plan /\ a.status \in {"approved", "consumed"} /\ a.expires > now

ConsumableUnanswered(e) ==
  LET a == approval[GrantOf(e)]
  IN  a.plan = job[e].plan /\ a.status \in {"pending", "approved"} /\ a.expires > now

ConsumableForever(e) ==
  LET a == approval[GrantOf(e)]
  IN  a.plan = job[e].plan /\ a.status = "approved"

\* The WHERE of consume_approval.
Consumable(e) ==
  LET a == approval[GrantOf(e)]
  IN  a.plan = job[e].plan /\ a.status = "approved" /\ a.expires > now

\* consume_approval.
Consume(e) ==
  /\ at[e] = "consume"
  /\ \/ /\ Consumable(e)
        /\ approval' = [approval EXCEPT ![GrantOf(e)].status = "consumed"]
        /\ spender' = [spender EXCEPT ![GrantOf(e)] = e]
        /\ Goto(e, "note")
        /\ UNCHANGED job
     \/ ~Consumable(e) /\ Finish(e) /\ UNCHANGED <<approval, spender>>
  /\ UNCHANGED <<now, owed, trail, runVars, starts, lost>>

\* append_event integration.approval.consumed.
NoteConsumed(e) ==
  /\ at[e] = "note"
  /\ trail' = trail \cup {<<"consumed", GrantOf(e)>>}
  /\ Goto(e, "look")
  /\ UNCHANGED <<tableVars, runVars, job, ghostVars>>

AfterLookWaiting(shared) == IF shared THEN "save" ELSE "look"

AfterLook(shared) == "save"

\* get_automation: when the common row holds other parameters, the run is filed
\* under a new id (matches_same_integration_automation).
Look(e) ==
  /\ at[e] = "look"
  /\ LET shared == row \in {None, job[e].plan}
     IN  /\ job' = [job EXCEPT ![e].shared = shared]
         /\ Goto(e, AfterLook(shared))
  /\ UNCHANGED <<tableVars, trail, runVars, ghostVars>>

\* save_automation of the row computed then, whatever the table holds now.
Save(e) ==
  /\ at[e] = "save"
  /\ row' = IF job[e].shared THEN job[e].plan ELSE row
  /\ Goto(e, "admit")
  /\ UNCHANGED <<tableVars, trail, running, stranded, job, ghostVars>>

Overlaps(e) == job[e].shared /\ (running # {} \/ stranded)

\* try_record_run_start; a refusal comes after the approval was consumed.
Admit(e) ==
  /\ at[e] = "admit"
  /\ \/ /\ ~Overlaps(e)
        /\ running' = IF job[e].shared THEN running \cup {e} ELSE running
        /\ Goto(e, "spawn")
        /\ UNCHANGED <<job, lost>>
     \/ /\ Overlaps(e)
        /\ lost' = [lost EXCEPT ![GrantOf(e)] = "overlap"]
        /\ Finish(e)
        /\ UNCHANGED running
  /\ UNCHANGED <<tableVars, trail, row, stranded, spender, starts>>

\* execute_with_cancellation.
Spawn(e) ==
  /\ at[e] = "spawn"
  /\ starts' = [starts EXCEPT ![GrantOf(e)] = @ + 1]
  /\ Goto(e, "run")
  /\ UNCHANGED <<tableVars, trail, runVars, job, spender, lost>>

\* persist_integration_run, whatever the process, the parser and the verifier said.
Settle(e) ==
  /\ at[e] = "run"
  /\ running' = running \ {e}
  /\ Finish(e)
  /\ UNCHANGED <<tableVars, trail, row, stranded, ghostVars>>

Spending == {"note", "look", "save", "admit", "spawn"}

\* A call fails, or the process dies, wherever it is.
Abandon(e) ==
  /\ Faults
  /\ at[e] # "idle"
  /\ stranded' = (stranded \/ e \in running)
  /\ running' = running \ {e}
  /\ lost' = IF at[e] \in Spending THEN [lost EXCEPT ![GrantOf(e)] = "failure"] ELSE lost
  /\ Finish(e)
  /\ UNCHANGED <<tableVars, trail, row, spender, starts>>

\* A daemon starts: recover_running_runs settles every running row.
Recover ==
  /\ running' = {} /\ stranded' = FALSE
  /\ UNCHANGED <<tableVars, trail, row, at, job, ghostVars>>

Execute(e) ==
  \/ Consume(e) \/ NoteConsumed(e) \/ Look(e) \/ Save(e)
  \/ Admit(e) \/ Spawn(e) \/ Settle(e)

Next ==
  \/ \E a \in Ids, plan \in Plans, ttl \in Lifetimes : Request(a, plan, ttl)
  \/ \E a \in Ids, answer \in {"approved", "rejected"} : Decide(a, answer)
  \/ \E note \in Notes : AppendOwed(note) \/ ForgetOwed(note)
  \/ Tick
  \/ \E e \in Executors, a \in Ids : PresentApproved(e, a)
  \/ \E e \in Executors, plan \in Plans, a \in Ids : PresentRequest(e, plan, a)
  \/ \E e \in Executors : Execute(e) \/ Abandon(e)
  \/ Recover

\* A process that is not dead goes on; nobody has to ask or to answer.
Fairness == \A e \in Executors : WF_vars(Execute(e))

Spec == Init /\ [][Next]_vars /\ Fairness

-----------------------------------------------------------------------------
(***************************************************************************)
(* Properties.                                                             *)
(***************************************************************************)

\* SECURITY.md: an approval "is consumed atomically before spawn and cannot be
\* replayed".  However many executors present it, at most one process starts.
SingleUse == \A a \in Ids : starts[a] <= 1

\* README: "matched to the exact typed plan fingerprint".  Whoever is past the
\* consumption of an approval is the one who consumed it, for the plan it was
\* requested for; and no other approval was consumed.
GrantCoversPlan ==
  \A e \in Executors :
    at[e] \in Spending \cup {"run"} =>
      /\ approval[GrantOf(e)].status = "consumed"
      /\ approval[GrantOf(e)].plan = job[e].plan
      /\ spender[GrantOf(e)] = e

\* The audit trail never tells of an answer or a consumption that the table
\* does not know: an approval that was rejected stays rejected and unused, one
\* that was approved is approved or consumed.
TrailIsBacked ==
  \A a \in Ids : approval[a] # None =>
    /\ <<"rejected", a>> \in trail => approval[a].status = "rejected" /\ starts[a] = 0
    /\ <<"approved", a>> \in trail => approval[a].status \in {"approved", "consumed"}
    /\ <<"consumed", a>> \in trail => approval[a].status = "consumed"

\* An approval that expires before it is consumed stays unconsumed for good.
ExpiryIsFinal ==
  [][\A a \in Ids :
       approval[a] # None /\ approval[a].status # "consumed" /\ approval[a].expires <= now
       => approval'[a].status # "consumed"]_vars

\* A consumed approval starts its process, unless another run of the automation
\* was in progress, or its own process died or failed: nothing else loses it.
ConsumedIsAccountedFor ==
  \A a \in Ids : spender[a] # None ~> (starts[a] = 1 \/ lost[a] # "no")

\* What Grant shows of an approval whose row is `r`.
Shown(r) ==
  IF r = None THEN "absent"
  ELSE CASE r.status = "pending"  -> "open"
         [] r.status = "approved" -> "granted"
         [] r.status = "rejected" -> "refused"
         [] r.status = "consumed" -> "spent"

GrantState == [a \in Ids |-> Shown(approval[a])]

\* The detailed table and its executors keep the promise of Grant.
G == INSTANCE Grant WITH Grants <- Ids, Holders <- Executors, Nobody <- None,
                         state <- GrantState, holder <- spender, uses <- starts

ImplementsGrant == G!Spec
=============================================================================
