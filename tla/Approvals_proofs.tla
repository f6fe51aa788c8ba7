--------------------------- MODULE Approvals_proofs ---------------------------
(***************************************************************************)
(* Theorems about Approvals for every value of its constants.              *)
(***************************************************************************)
EXTENDS Approvals, TLAPS

-----------------------------------------------------------------------------
(***************************************************************************)
(* The inductive invariant.  That an approval is used once rests on        *)
(* GrantCoversPlan (whoever spends it is the one who consumed it) and on   *)
(* nothing having been started while somebody is still spending it.        *)
(***************************************************************************)
IsConsumed(a) == approval[a] # None /\ approval[a].status = "consumed"

SpentOnce ==
  \A a \in Ids :
    /\ spender[a] # None <=> IsConsumed(a)
    /\ starts[a] # 0 => IsConsumed(a)
    /\ \A e \in Executors : at[e] \in Spending /\ GrantOf(e) = a => starts[a] = 0

\* What has been said of an approval, or is about to be, is what its row says.
Told(note) == note \in owed \cup trail

NotesAreBacked ==
  \A a \in Ids :
    /\ Told(<<"rejected", a>>) => approval[a] # None /\ approval[a].status = "rejected"
    /\ Told(<<"approved", a>>) =>
         approval[a] # None /\ approval[a].status \in {"approved", "consumed"}
    /\ Told(<<"consumed", a>>) => IsConsumed(a)

\* An executor that is on its way holds an existing approval.
HoldsApproval ==
  \A e \in Executors : at[e] # "idle" => approval[GrantOf(e)] # None

IInv == TypeOK /\ HoldsApproval /\ GrantCoversPlan /\ SpentOnce /\ NotesAreBacked

LEMMA InitInv == Init => IInv
<1> SUFFICES ASSUME Init PROVE IInv
  OBVIOUS
<1>1. TypeOK
  <2>1. now \in 0..MaxTime /\ starts \in [Ids -> 0..1]
    BY ApprovalsAssumption DEF Init
  <2>2. \A e \in Executors : at[e] = "idle" <=> job[e] = None
    BY DEF Init
  <2>3. /\ approval \in [Ids -> ApprovalType \cup {None}]
        /\ spender \in [Ids -> Executors \cup {None}]
        /\ lost \in [Ids -> {"no", "overlap", "failure"}]
        /\ at \in [Executors -> Points]
        /\ job \in [Executors -> JobType \cup {None}]
    BY DEF Init, Points
  <2>4. /\ owed \subseteq Notes /\ trail \subseteq Notes
        /\ row \in Plans \cup {None} /\ running \subseteq Executors /\ stranded \in BOOLEAN
    BY DEF Init
  <2> QED
    BY <2>1, <2>2, <2>3, <2>4 DEF TypeOK
<1>2. HoldsApproval /\ GrantCoversPlan
  BY DEF Init, HoldsApproval, GrantCoversPlan, Spending
<1>3. SpentOnce
  <2>0. \A a \in Ids : approval[a] = None /\ spender[a] = None /\ starts[a] = 0
    BY DEF Init
  <2>1. \A a \in Ids : ~IsConsumed(a)
    BY <2>0 DEF IsConsumed
  <2>2. \A e \in Executors : at[e] \notin Spending
    BY DEF Init, Spending
  <2> QED
    BY <2>0, <2>1, <2>2 DEF SpentOnce
<1>4. NotesAreBacked
  BY DEF Init, NotesAreBacked, Told
<1> QED
  BY <1>1, <1>2, <1>3, <1>4 DEF IInv

-----------------------------------------------------------------------------
(***************************************************************************)
(* Each step keeps it, one lemma per conjunct.                             *)
(***************************************************************************)

\* The step that ends or moves an executor's call keeps its types.
LEMMA FinishType ==
  ASSUME TypeOK, NEW e \in Executors, Finish(e)
  PROVE  /\ at' \in [Executors -> Points]
         /\ job' \in [Executors -> JobType \cup {None}]
         /\ \A f \in Executors : at'[f] = "idle" <=> job'[f] = None
  BY DEF TypeOK, Finish, Goto, Points

LEMMA GotoType ==
  ASSUME TypeOK, NEW e \in Executors, NEW point \in Points \ {"idle"},
         at[e] # "idle", Goto(e, point), UNCHANGED job
  PROVE  /\ at' \in [Executors -> Points]
         /\ job' \in [Executors -> JobType \cup {None}]
         /\ \A f \in Executors : at'[f] = "idle" <=> job'[f] = None
  BY DEF TypeOK, Goto, Points

LEMMA BeginType ==
  ASSUME TypeOK, NEW e \in Executors, NEW plan \in Plans, NEW a \in Ids, Begin(e, plan, a)
  PROVE  TypeOK'
<1> DEFINE j == [plan |-> plan, grant |-> a, shared |-> TRUE]
<1>0. j \in JobType
  BY DEF JobType
<1>1. j \in JobType /\ j # None
  BY <1>0, NoneIsNoRecord
<1>2. job' = [job EXCEPT ![e] = j] /\ at' = [at EXCEPT ![e] = "consume"]
  BY DEF Begin, Goto
<1> HIDE DEF j
<1> QED
  BY <1>1, <1>2 DEF Begin, TypeOK, Points, tableVars, runVars, ghostVars

LEMMA ExecuteType ==
  ASSUME IInv, NEW e \in Executors, Execute(e)
  PROVE  TypeOK'
<1> USE DEF IInv, tableVars, runVars, ghostVars
<1>0. at[e] # "idle" => /\ job[e] \in JobType
                       /\ GrantOf(e) \in Ids
                       /\ approval[GrantOf(e)] \in ApprovalType
  BY DEF TypeOK, HoldsApproval, GrantOf, JobType
<1>1. CASE Consume(e)
  <2>1. CASE Finish(e) /\ UNCHANGED <<approval, spender>>
    BY <1>1, <2>1, FinishType DEF Consume, TypeOK
  <2>2. CASE ~(Finish(e) /\ UNCHANGED <<approval, spender>>)
    <3>1. /\ approval' = [approval EXCEPT ![GrantOf(e)].status = "consumed"]
          /\ spender' = [spender EXCEPT ![GrantOf(e)] = e]
          /\ Goto(e, "note") /\ UNCHANGED job /\ at[e] = "consume"
      BY <1>1, <2>2 DEF Consume
    <3>2. [approval[GrantOf(e)] EXCEPT !.status = "consumed"] \in ApprovalType
      BY <1>0, <3>1 DEF ApprovalType, Statuses
    <3>3. approval' \in [Ids -> ApprovalType \cup {None}]
      BY <1>0, <3>1, <3>2 DEF TypeOK
    <3>4. /\ at' \in [Executors -> Points]
          /\ job' \in [Executors -> JobType \cup {None}]
          /\ \A f \in Executors : at'[f] = "idle" <=> job'[f] = None
      BY <3>1, GotoType DEF Points
    <3>5. spender' \in [Ids -> Executors \cup {None}]
      BY <3>1 DEF TypeOK
    <3> QED
      BY <1>1, <3>3, <3>4, <3>5 DEF Consume, TypeOK
  <2> QED
    BY <2>1, <2>2
<1>2. CASE NoteConsumed(e)
  <2>1. <<"consumed", GrantOf(e)>> \in Notes
    BY <1>0, <1>2 DEF NoteConsumed, Notes
  <2>2. at[e] # "idle" /\ Goto(e, "look") /\ UNCHANGED job
    BY <1>2 DEF NoteConsumed
  <2> QED
    BY <1>2, <2>1, <2>2, GotoType DEF NoteConsumed, TypeOK, Points
<1>3. CASE Look(e)
  <2> DEFINE j == [job[e] EXCEPT !.shared = row \in {None, job[e].plan}]
  <2>0. (row \in {None, job[e].plan}) \in BOOLEAN
    OBVIOUS
  <2>a. j \in JobType
    BY <1>0, <1>3, <2>0 DEF JobType, Look
  <2>1. j \in JobType /\ j # None
    BY <2>a, NoneIsNoRecord
  <2>2. job' = [job EXCEPT ![e] = j] /\ at' = [at EXCEPT ![e] = "save"]
    BY <1>3 DEF Look, Goto, AfterLook
  <2> HIDE DEF j
  <2> QED
    BY <1>3, <2>1, <2>2 DEF Look, TypeOK, Points
<1>4. CASE Save(e)
  <2>1. at[e] # "idle" /\ Goto(e, "admit") /\ UNCHANGED job
    BY <1>4 DEF Save
  <2>2. job[e].plan \in Plans
    BY <1>0, <2>1 DEF JobType
  <2> QED
    BY <1>4, <2>1, <2>2, GotoType DEF Save, TypeOK, Points
<1>5. CASE Admit(e)
  <2>1. CASE Goto(e, "spawn") /\ UNCHANGED <<job, lost>>
    BY <1>5, <2>1, GotoType DEF Admit, TypeOK, Points
  <2>2. CASE Finish(e) /\ UNCHANGED running /\ lost' = [lost EXCEPT ![GrantOf(e)] = "overlap"]
    BY <1>5, <2>2, FinishType DEF Admit, TypeOK
  <2> QED
    BY <1>5, <2>1, <2>2 DEF Admit
<1>6. CASE Spawn(e)
  <2>1. at[e] # "idle" /\ Goto(e, "run") /\ UNCHANGED job
    BY <1>6 DEF Spawn
  <2>2. starts[GrantOf(e)] = 0
    BY <1>0, <1>6 DEF Spawn, SpentOnce, Spending
  <2>3. GrantOf(e) \in Ids /\ starts' = [starts EXCEPT ![GrantOf(e)] = 1]
    BY <1>0, <1>6, <2>2 DEF Spawn
  <2>4. starts' \in [Ids -> 0..1]
    BY <2>3 DEF TypeOK
  <2> QED
    BY <1>6, <2>1, <2>4, GotoType DEF Spawn, TypeOK, Points
<1>7. CASE Settle(e)
  BY <1>7, FinishType DEF Settle, TypeOK
<1> QED
  BY <1>1, <1>2, <1>3, <1>4, <1>5, <1>6, <1>7 DEF Execute

LEMMA StepType == IInv /\ [Next]_vars => TypeOK'
<1> SUFFICES ASSUME IInv, [Next]_vars PROVE TypeOK'
  OBVIOUS
<1> USE DEF IInv, tableVars, runVars, ghostVars
<1>1. ASSUME NEW a \in Ids, NEW plan \in Plans, NEW ttl \in Lifetimes, Request(a, plan, ttl)
      PROVE  TypeOK'
  <2> DEFINE asked == [status |-> "pending", plan |-> plan, expires |-> now + ttl]
  <2>1. asked \in ApprovalType
    BY ApprovalsAssumption DEF TypeOK, ApprovalType, Statuses
  <2>2. approval' = [approval EXCEPT ![a] = asked]
    BY <1>1 DEF Request
  <2> HIDE DEF asked
  <2> QED
    BY <1>1, <2>1, <2>2 DEF Request, TypeOK
<1>2. ASSUME NEW a \in Ids, NEW answer \in {"approved", "rejected"}, Decide(a, answer)
      PROVE  TypeOK'
  <2>1. approval[a] \in ApprovalType
    BY <1>2 DEF Decide, TypeOK
  <2>2. [approval[a] EXCEPT !.status = answer] \in ApprovalType
    BY <2>1 DEF ApprovalType, Statuses
  <2>3. approval' \in [Ids -> ApprovalType \cup {None}]
    BY <1>2, <2>2 DEF Decide, TypeOK
  <2>4. <<answer, a>> \in Notes
    BY DEF Notes
  <2> QED
    BY <1>2, <2>3, <2>4 DEF Decide, TypeOK
<1>3. ASSUME NEW note \in Notes, AppendOwed(note) \/ ForgetOwed(note)
      PROVE  TypeOK'
  BY <1>3 DEF AppendOwed, ForgetOwed, TypeOK
<1>4. CASE Tick
  BY <1>4, ApprovalsAssumption DEF Tick, TypeOK
<1>5. ASSUME NEW e \in Executors, NEW a \in Ids, PresentApproved(e, a)
      PROVE  TypeOK'
  <2>1. approval[a].plan \in Plans
    BY <1>5 DEF PresentApproved, TypeOK, ApprovalType
  <2> QED
    BY <1>5, <2>1, BeginType DEF PresentApproved
<1>6. ASSUME NEW e \in Executors, NEW plan \in Plans, NEW a \in Ids, PresentRequest(e, plan, a)
      PROVE  TypeOK'
  BY <1>6, BeginType DEF PresentRequest
<1>7. ASSUME NEW e \in Executors, Execute(e)
      PROVE  TypeOK'
  BY <1>7, ExecuteType
<1>8. ASSUME NEW e \in Executors, Abandon(e)
      PROVE  TypeOK'
  BY <1>8, FinishType DEF Abandon, TypeOK
<1>9. CASE Recover
  BY <1>9 DEF Recover, TypeOK
<1>10. CASE UNCHANGED vars
  BY <1>10 DEF vars, TypeOK
<1> QED
  BY <1>1, <1>2, <1>3, <1>4, <1>5, <1>6, <1>7, <1>8, <1>9, <1>10 DEF Next

-----------------------------------------------------------------------------
\* An executor that is not idle has a job, whose approval is an existing row.
LEMMA HeldRow ==
  ASSUME IInv, NEW e \in Executors, at[e] # "idle"
  PROVE  /\ job[e] \in JobType /\ GrantOf(e) \in Ids /\ job[e].plan \in Plans
         /\ approval[GrantOf(e)] \in ApprovalType
         /\ approval[GrantOf(e)] # None
  BY DEF IInv, TypeOK, HoldsApproval, GrantOf, JobType

\* What a step of one executor leaves of the others.
LEMMA StepHolds == IInv /\ [Next]_vars => HoldsApproval'
<1> SUFFICES ASSUME IInv, [Next]_vars, NEW e \in Executors, at'[e] # "idle"
             PROVE  approval'[job'[e].grant] # None
  BY DEF HoldsApproval, GrantOf
<1> USE DEF IInv, tableVars, runVars, ghostVars
<1>1. \A a \in Ids : approval[a] # None => approval'[a] # None
  <2>1. ASSUME NEW a \in Ids, NEW plan \in Plans, NEW ttl \in Lifetimes, Request(a, plan, ttl)
        PROVE  \A b \in Ids : approval[b] # None => approval'[b] # None
    BY <2>1 DEF Request, TypeOK
  <2>2. ASSUME NEW a \in Ids, NEW b \in Ids, NEW status \in Statuses, approval[a] \in ApprovalType,
               approval' = [approval EXCEPT ![a].status = status], approval[b] # None
        PROVE  approval'[b] # None
    <3>1. [approval[a] EXCEPT !.status = status] \in ApprovalType
      BY <2>2 DEF ApprovalType
    <3> QED
      BY <2>2, <3>1, NoneIsNoRecord DEF TypeOK
  <2>3. ASSUME NEW a \in Ids, NEW answer \in {"approved", "rejected"}, Decide(a, answer)
        PROVE  \A b \in Ids : approval[b] # None => approval'[b] # None
    BY <2>2, <2>3 DEF Decide, TypeOK, Statuses
  <2>4. ASSUME NEW f \in Executors, Consume(f)
        PROVE  \A b \in Ids : approval[b] # None => approval'[b] # None
    BY <2>2, <2>4, HeldRow DEF Consume, Statuses
  <2> QED
    BY <2>1, <2>3, <2>4
       DEF Next, Execute, AppendOwed, ForgetOwed, Tick, PresentApproved, PresentRequest, Begin,
           NoteConsumed, Look, Save, Admit, Spawn, Settle, Abandon, Recover, vars
<1>2. (at[e] # "idle" /\ job'[e].grant = GrantOf(e)) \/ approval[job'[e].grant] # None
  <2>1. ASSUME NEW f \in Executors, Execute(f) \/ Abandon(f)
        PROVE  at[e] # "idle" /\ job'[e].grant = GrantOf(e)
    <3>1. at[e] # "idle"
      BY <2>1 DEF Execute, Consume, NoteConsumed, Look, Save, Admit, Spawn, Settle, Abandon, Finish,
                  Goto, TypeOK
    <3>2. CASE f # e
      BY <2>1, <3>1, <3>2 DEF Execute, Consume, NoteConsumed, Look, Save, Admit, Spawn, Settle,
                  Abandon, Finish, TypeOK, GrantOf
    <3>3. CASE f = e /\ ~Look(e)
      BY <2>1, <3>1, <3>3 DEF Execute, Consume, NoteConsumed, Save, Admit, Spawn, Settle,
                  Abandon, Finish, Goto, TypeOK, GrantOf
    <3>4. CASE f = e /\ Look(e)
      <4>1. job[e] \in JobType
        BY <3>1, HeldRow
      <4> QED
        BY <3>1, <3>4, <4>1 DEF Look, TypeOK, GrantOf, JobType
    <3> QED
      BY <3>2, <3>3, <3>4
  <2>2. ASSUME NEW f \in Executors, NEW plan \in Plans, NEW a \in Ids, Begin(f, plan, a)
        PROVE  (at[e] # "idle" /\ job'[e].grant = GrantOf(e)) \/ approval[job'[e].grant] # None
    <3>1. CASE f = e
      BY <2>2, <3>1 DEF Begin, Goto, TypeOK
    <3>2. CASE f # e
      BY <2>2, <3>2 DEF Begin, Goto, TypeOK, GrantOf
    <3> QED
      BY <3>1, <3>2
  <2>3. ASSUME NEW f \in Executors, NEW a \in Ids, PresentApproved(f, a)
        PROVE  (at[e] # "idle" /\ job'[e].grant = GrantOf(e)) \/ approval[job'[e].grant] # None
    <3>1. approval[a].plan \in Plans
      BY <2>3 DEF PresentApproved, TypeOK, ApprovalType
    <3> QED
      BY <2>2, <2>3, <3>1 DEF PresentApproved
  <2>4. ASSUME UNCHANGED <<at, job>>
        PROVE  at[e] # "idle" /\ job'[e].grant = GrantOf(e)
    BY <2>4 DEF GrantOf
  <2> QED
    BY <2>1, <2>2, <2>3, <2>4
       DEF Next, Request, Decide, AppendOwed, ForgetOwed, Tick, PresentRequest, Recover, vars
<1>3. job'[e] \in JobType
  BY StepType DEF TypeOK
<1>4. job'[e].grant \in Ids
  BY <1>3 DEF JobType
<1>5. CASE at[e] # "idle" /\ job'[e].grant = GrantOf(e)
  BY <1>1, <1>4, <1>5, HeldRow
<1>6. CASE approval[job'[e].grant] # None
  BY <1>1, <1>4, <1>6
<1> QED
  BY <1>2, <1>5, <1>6

\* A row that is consumed is not changed again, nor is who consumed it.
LEMMA ConsumedStays ==
  ASSUME IInv, [Next]_vars, NEW a \in Ids, IsConsumed(a)
  PROVE  approval'[a] = approval[a] /\ spender'[a] = spender[a]
<1> USE DEF IInv, tableVars, runVars, ghostVars
<1>1. ASSUME NEW b \in Ids, NEW plan \in Plans, NEW ttl \in Lifetimes, Request(b, plan, ttl)
      PROVE  approval'[a] = approval[a] /\ spender'[a] = spender[a]
  BY <1>1 DEF Request, TypeOK, IsConsumed
<1>2. ASSUME NEW b \in Ids, NEW answer \in {"approved", "rejected"}, Decide(b, answer)
      PROVE  approval'[a] = approval[a] /\ spender'[a] = spender[a]
  BY <1>2 DEF Decide, Answerable, TypeOK, IsConsumed
<1>3. ASSUME NEW e \in Executors, Consume(e)
      PROVE  approval'[a] = approval[a] /\ spender'[a] = spender[a]
  <2>1. GrantOf(e) \in Ids
    BY <1>3, HeldRow DEF Consume
  <2>2. Consumable(e) => GrantOf(e) # a
    BY DEF Consumable, IsConsumed
  <2> QED
    BY <1>3, <2>1, <2>2 DEF Consume, TypeOK
<1> QED
  BY <1>1, <1>2, <1>3
     DEF Next, Execute, AppendOwed, ForgetOwed, Tick, PresentApproved, PresentRequest, Begin,
         NoteConsumed, Look, Save, Admit, Spawn, Settle, Abandon, Recover, vars

\* Who is on the way to a process after a step was so before, with the same plan
\* and the same approval, or has just consumed it.
LEMMA WhoSpends ==
  ASSUME IInv, [Next]_vars, NEW e \in Executors, at'[e] \in Spending \cup {"run"}
  PROVE  \/ /\ at[e] \in Spending \cup {"run"}
            /\ at'[e] \in Spending => at[e] \in Spending
            /\ job'[e].grant = GrantOf(e) /\ job'[e].plan = job[e].plan
         \/ Consume(e) /\ Consumable(e)
<1> USE DEF IInv, tableVars, runVars, ghostVars, Spending
<1>1. ASSUME UNCHANGED <<at[e], job[e]>>
      PROVE  /\ at[e] \in Spending \cup {"run"}
             /\ at'[e] \in Spending => at[e] \in Spending
             /\ job'[e].grant = GrantOf(e) /\ job'[e].plan = job[e].plan
  BY <1>1 DEF GrantOf
<1>2. ASSUME NEW f \in Executors \ {e}, Execute(f) \/ Abandon(f)
      PROVE  UNCHANGED <<at[e], job[e]>>
  BY <1>2 DEF Execute, Consume, NoteConsumed, Look, Save, Admit, Spawn, Settle, Abandon, Finish,
              Goto, TypeOK
<1>3. ASSUME NEW f \in Executors, NEW plan, NEW a, Begin(f, plan, a)
      PROVE  UNCHANGED <<at[e], job[e]>>
  BY <1>3 DEF Begin, Goto, TypeOK
<1>4. ~Abandon(e) /\ ~Settle(e)
  BY DEF Abandon, Settle, Finish, Goto, TypeOK
<1>5. ASSUME Execute(e), ~(Consume(e) /\ Consumable(e))
      PROVE  /\ at[e] \in Spending \cup {"run"}
             /\ at'[e] \in Spending => at[e] \in Spending
             /\ job'[e].grant = GrantOf(e) /\ job'[e].plan = job[e].plan
  <2>1. CASE Consume(e)
    BY <1>5, <2>1 DEF Consume, Finish, Goto, TypeOK
  <2>2. CASE Look(e)
    <3>1. job[e] \in JobType
      BY <2>2, HeldRow DEF Look
    <3> QED
      BY <2>2, <3>1 DEF Look, Goto, TypeOK, GrantOf, JobType
  <2>3. CASE NoteConsumed(e) \/ Save(e) \/ Admit(e) \/ Spawn(e)
    BY <2>3 DEF NoteConsumed, Save, Admit, Spawn, Finish, Goto, TypeOK, GrantOf
  <2> QED
    BY <1>4, <1>5, <2>1, <2>2, <2>3 DEF Execute
<1> QED
  BY <1>1, <1>2, <1>3, <1>4, <1>5
     DEF Next, Request, Decide, AppendOwed, ForgetOwed, Tick, PresentApproved, PresentRequest,
         Recover, vars

LEMMA StepCovers == IInv /\ [Next]_vars => GrantCoversPlan'
<1> SUFFICES ASSUME IInv, [Next]_vars, NEW e \in Executors, at'[e] \in Spending \cup {"run"}
             PROVE  /\ approval'[job'[e].grant].status = "consumed"
                    /\ approval'[job'[e].grant].plan = job'[e].plan
                    /\ spender'[job'[e].grant] = e
  BY DEF GrantCoversPlan, GrantOf, Spending
<1>1. CASE at[e] \in Spending \cup {"run"}
           /\ job'[e].grant = GrantOf(e) /\ job'[e].plan = job[e].plan
  <2>1. GrantOf(e) \in Ids /\ approval[GrantOf(e)] # None
    BY <1>1, HeldRow DEF Spending
  <2>2. /\ approval[GrantOf(e)].status = "consumed"
        /\ approval[GrantOf(e)].plan = job[e].plan
        /\ spender[GrantOf(e)] = e
    BY <1>1 DEF IInv, GrantCoversPlan
  <2> QED
    BY <1>1, <2>1, <2>2, ConsumedStays DEF IsConsumed
<1>2. CASE Consume(e) /\ Consumable(e)
  <2>1. GrantOf(e) \in Ids /\ approval[GrantOf(e)] \in ApprovalType
    BY <1>2, HeldRow DEF Consume
  <2>2. /\ approval' = [approval EXCEPT ![GrantOf(e)].status = "consumed"]
        /\ spender' = [spender EXCEPT ![GrantOf(e)] = e]
        /\ job' = job
    BY <1>2 DEF Consume
  <2>3. approval'[GrantOf(e)] = [approval[GrantOf(e)] EXCEPT !.status = "consumed"]
    BY <2>1, <2>2 DEF IInv, TypeOK
  <2>4. approval[GrantOf(e)].plan = job[e].plan
    BY <1>2 DEF Consumable
  <2> QED
    BY <2>1, <2>2, <2>3, <2>4 DEF IInv, TypeOK, GrantOf, ApprovalType
<1> QED
  BY <1>1, <1>2, WhoSpends

LEMMA StepSpent == IInv /\ [Next]_vars => SpentOnce'
<1> SUFFICES ASSUME IInv, [Next]_vars, NEW a \in Ids
             PROVE  /\ spender'[a] # None <=> IsConsumed(a)'
                    /\ starts'[a] # 0 => IsConsumed(a)'
                    /\ \A e \in Executors :
                         at'[e] \in Spending /\ job'[e].grant = a => starts'[a] = 0
  BY DEF SpentOnce, GrantOf, Spending
<1> USE DEF tableVars, runVars, ghostVars
<1>1. spender'[a] # None <=> IsConsumed(a)'
  <2>1. CASE IsConsumed(a)
    BY <2>1, ConsumedStays DEF IInv, SpentOnce, IsConsumed
  <2>2. CASE ~IsConsumed(a)
    <3>0. spender[a] = None
      BY <2>2 DEF IInv, SpentOnce
    <3>1. ASSUME NEW b \in Ids, NEW plan \in Plans, NEW ttl \in Lifetimes, Request(b, plan, ttl)
          PROVE  spender'[a] = None /\ ~IsConsumed(a)'
      <4>1. approval'[a] = approval[a] \/ approval'[a].status = "pending"
        BY <3>1 DEF Request, IInv, TypeOK
      <4> QED
        BY <2>2, <3>0, <3>1, <4>1 DEF Request, IsConsumed
    <3>2. ASSUME NEW b \in Ids, NEW answer \in {"approved", "rejected"}, Decide(b, answer)
          PROVE  spender'[a] = None /\ ~IsConsumed(a)'
      <4>0. approval[b] \in ApprovalType
        BY <3>2 DEF Decide, IInv, TypeOK
      <4>1. approval'[a] = approval[a] \/ approval'[a].status = answer
        BY <3>2, <4>0 DEF Decide, IInv, TypeOK, ApprovalType
      <4> QED
        BY <2>2, <3>0, <3>2, <4>1 DEF Decide, IsConsumed
    <3>3. ASSUME NEW e \in Executors, Consume(e)
          PROVE  spender'[a] # None <=> IsConsumed(a)'
      <4>1. GrantOf(e) \in Ids /\ approval[GrantOf(e)] \in ApprovalType
        BY <3>3, HeldRow DEF Consume
      <4>2. CASE Consumable(e) /\ GrantOf(e) = a
        <5>1. approval'[a] = [approval[a] EXCEPT !.status = "consumed"] /\ spender'[a] = e
          BY <3>3, <4>1, <4>2 DEF Consume, IInv, TypeOK
        <5>2. approval'[a] \in ApprovalType /\ approval'[a].status = "consumed"
          BY <4>1, <4>2, <5>1 DEF ApprovalType, Statuses
        <5> QED
          BY <5>1, <5>2, ApprovalsAssumption, NoneIsNoRecord DEF IsConsumed
      <4>3. CASE ~(Consumable(e) /\ GrantOf(e) = a)
        BY <2>2, <3>0, <3>3, <4>1, <4>3 DEF Consume, IInv, TypeOK, IsConsumed
      <4> QED
        BY <4>2, <4>3
    <3> QED
      BY <2>2, <3>0, <3>1, <3>2, <3>3
         DEF Next, Execute, AppendOwed, ForgetOwed, Tick, PresentApproved, PresentRequest, Begin,
             NoteConsumed, Look, Save, Admit, Spawn, Settle, Abandon, Recover, vars, IsConsumed
  <2> QED
    BY <2>1, <2>2
<1>2. starts'[a] = starts[a]
      \/ \E f \in Executors : Spawn(f) /\ GrantOf(f) = a /\ at[f] = "spawn"
  BY DEF Next, Request, Decide, Execute, Consume, AppendOwed, ForgetOwed, Tick, PresentApproved,
         PresentRequest, Begin, NoteConsumed, Look, Save, Admit, Spawn, Settle, Abandon, Recover,
         vars, IInv, TypeOK
<1>3. starts'[a] # 0 => IsConsumed(a)'
  <2>1. ASSUME starts'[a] # 0 PROVE IsConsumed(a)
    <3>1. CASE starts'[a] = starts[a]
      BY <2>1, <3>1 DEF IInv, SpentOnce
    <3>2. ASSUME NEW f \in Executors, GrantOf(f) = a, at[f] = "spawn"
          PROVE  IsConsumed(a)
      BY <3>2, HeldRow DEF IInv, GrantCoversPlan, IsConsumed, Spending
    <3> QED
      BY <1>2, <3>1, <3>2
  <2> QED
    BY <2>1, ConsumedStays DEF IsConsumed
<1>4. ASSUME NEW e \in Executors, at'[e] \in Spending, job'[e].grant = a
      PROVE  starts'[a] = 0
  <2>1. CASE at[e] \in Spending /\ GrantOf(e) = a
    <3>1. starts[a] = 0 /\ spender[a] = e
      BY <2>1 DEF IInv, SpentOnce, GrantCoversPlan
    <3>2. ASSUME NEW f \in Executors, Spawn(f), GrantOf(f) = a, at[f] = "spawn"
          PROVE  FALSE
      <4>1. f = e
        BY <3>1, <3>2 DEF IInv, GrantCoversPlan, Spending
      <4> QED
        BY <1>4, <3>2, <4>1 DEF Spawn, Goto, IInv, TypeOK, Spending
    <3> QED
      BY <1>2, <3>1, <3>2
  <2>2. CASE Consume(e) /\ Consumable(e)
    <3>1. GrantOf(e) = a
      BY <1>4, <2>2 DEF Consume, GrantOf
    <3>2. ~IsConsumed(a)
      BY <2>2, <3>1 DEF Consumable, IsConsumed
    <3>3. starts[a] = 0
      BY <3>2 DEF IInv, SpentOnce
    <3> QED
      BY <2>2, <3>3 DEF Consume
  <2> QED
    BY <1>4, <2>1, <2>2, WhoSpends
<1> QED
  BY <1>1, <1>3, <1>4

\* An answer goes to a pending row, a consumption to an approved one; the events
\* that follow say the same.
LEMMA StepNotes == IInv /\ [Next]_vars => NotesAreBacked'
<1> SUFFICES ASSUME IInv, [Next]_vars, NEW a \in Ids
             PROVE  /\ Told(<<"rejected", a>>)' => approval'[a] # None /\ approval'[a].status = "rejected"
                    /\ Told(<<"approved", a>>)' =>
                         approval'[a] # None /\ approval'[a].status \in {"approved", "consumed"}
                    /\ Told(<<"consumed", a>>)' => IsConsumed(a)'
  BY DEF NotesAreBacked
<1> USE DEF tableVars, runVars, ghostVars
<1> DEFINE Backed(row1) ==
      /\ Told(<<"rejected", a>>) => row1 # None /\ row1.status = "rejected"
      /\ Told(<<"approved", a>>) => row1 # None /\ row1.status \in {"approved", "consumed"}
      /\ Told(<<"consumed", a>>) => row1 # None /\ row1.status = "consumed"
<1>0. Backed(approval[a])
  BY DEF IInv, NotesAreBacked, IsConsumed
<1>1. ASSUME NEW b \in Ids, NEW plan \in Plans, NEW ttl \in Lifetimes, Request(b, plan, ttl)
      PROVE  Backed(approval'[a]) /\ UNCHANGED <<owed, trail>>
  BY <1>0, <1>1 DEF Request, IInv, TypeOK
<1>2. ASSUME NEW b \in Ids, NEW answer \in {"approved", "rejected"}, Decide(b, answer), b # a
      PROVE  Backed(approval'[a]) /\ \A type : Told(<<type, a>>)' => Told(<<type, a>>)
  BY <1>0, <1>2 DEF Decide, IInv, TypeOK, Told
<1>3. ASSUME NEW answer \in {"approved", "rejected"}, Decide(a, answer)
      PROVE  /\ approval'[a] # None /\ approval'[a].status = answer
             /\ \A type : Told(<<type, a>>)' => type = answer
  <2>1. approval[a] \in ApprovalType /\ approval[a].status = "pending"
    BY <1>3 DEF Decide, Answerable, IInv, TypeOK
  <2>2. approval'[a] = [approval[a] EXCEPT !.status = answer]
    BY <1>3, <2>1 DEF Decide, IInv, TypeOK
  <2>3. approval'[a] \in ApprovalType /\ approval'[a].status = answer
    BY <2>1, <2>2 DEF ApprovalType, Statuses
  <2>4. \A type \in {"rejected", "approved", "consumed"} : ~Told(<<type, a>>)
    BY <1>0, <2>1
  <2>5. \A type : Told(<<type, a>>)' => type = answer \/ Told(<<type, a>>)
    BY <1>3 DEF Decide, Told
  <2>6. \A type : Told(<<type, a>>) => type \in {"rejected", "approved", "consumed"}
    BY DEF Told, IInv, TypeOK, Notes
  <2> QED
    BY <2>3, <2>4, <2>5, <2>6, NoneIsNoRecord
<1>4. ASSUME NEW note \in Notes, AppendOwed(note) \/ ForgetOwed(note)
      PROVE  Backed(approval'[a]) /\ \A type : Told(<<type, a>>)' => Told(<<type, a>>)
  BY <1>0, <1>4 DEF AppendOwed, ForgetOwed, Told
<1>5. ASSUME NEW e \in Executors, Consume(e)
      PROVE  Backed(approval'[a]) /\ UNCHANGED <<owed, trail>>
  <2>1. GrantOf(e) \in Ids /\ approval[GrantOf(e)] \in ApprovalType
    BY <1>5, HeldRow DEF Consume
  <2>2. CASE Consumable(e) /\ GrantOf(e) = a
    <3>1. approval[a].status = "approved"
      BY <2>2 DEF Consumable
    <3>2. approval'[a] = [approval[a] EXCEPT !.status = "consumed"]
      BY <1>5, <2>1, <2>2 DEF Consume, IInv, TypeOK
    <3>3. approval'[a] \in ApprovalType /\ approval'[a].status = "consumed"
      BY <2>1, <2>2, <3>2 DEF ApprovalType, Statuses
    <3>4. ~Told(<<"rejected", a>>) /\ ~Told(<<"consumed", a>>)
      BY <1>0, <3>1
    <3> QED
      BY <1>5, <3>3, <3>4, NoneIsNoRecord DEF Consume
  <2>3. CASE ~(Consumable(e) /\ GrantOf(e) = a)
    <3>1. approval'[a] = approval[a]
      BY <1>5, <2>1, <2>3 DEF Consume, IInv, TypeOK
    <3> QED
      BY <1>0, <1>5, <3>1 DEF Consume
  <2> QED
    BY <2>2, <2>3
<1>6. ASSUME NEW e \in Executors, NoteConsumed(e)
      PROVE  /\ Backed(approval'[a])
             /\ \A type : Told(<<type, a>>)' =>
                  Told(<<type, a>>) \/ (type = "consumed" /\ GrantOf(e) = a)
             /\ GrantOf(e) = a => IsConsumed(a)'
  <2>1. approval[GrantOf(e)] # None /\ approval[GrantOf(e)].status = "consumed"
    BY <1>6, HeldRow DEF NoteConsumed, IInv, GrantCoversPlan, Spending
  <2>2. approval' = approval /\ owed' = owed /\ trail' = trail \cup {<<"consumed", GrantOf(e)>>}
    BY <1>6 DEF NoteConsumed
  <2>3. \A type : Told(<<type, a>>)' =>
          Told(<<type, a>>) \/ (type = "consumed" /\ GrantOf(e) = a)
    BY <2>2 DEF Told
  <2>4. GrantOf(e) = a => IsConsumed(a)'
    BY <2>1, <2>2 DEF IsConsumed
  <2>5. Backed(approval'[a])
    BY <1>0, <2>2
  <2> QED
    BY <2>3, <2>4, <2>5
<1>7. ASSUME UNCHANGED <<approval, owed, trail>>
      PROVE  Backed(approval'[a]) /\ UNCHANGED <<owed, trail>>
  BY <1>0, <1>7
<1>8. ASSUME Backed(approval'[a]), \A type : Told(<<type, a>>)' => Told(<<type, a>>)
      PROVE  /\ Told(<<"rejected", a>>)' => approval'[a] # None /\ approval'[a].status = "rejected"
             /\ Told(<<"approved", a>>)' =>
                  approval'[a] # None /\ approval'[a].status \in {"approved", "consumed"}
             /\ Told(<<"consumed", a>>)' => IsConsumed(a)'
  BY <1>8 DEF IsConsumed
<1>9. UNCHANGED <<owed, trail>> => \A type : Told(<<type, a>>)' => Told(<<type, a>>)
  BY DEF Told
<1>10. CASE \E b \in Ids, plan \in Plans, ttl \in Lifetimes : Request(b, plan, ttl)
  BY <1>1, <1>8, <1>9, <1>10
<1>11. CASE \E b \in Ids, answer \in {"approved", "rejected"} : Decide(b, answer)
  <2>1. PICK b \in Ids, answer \in {"approved", "rejected"} : Decide(b, answer)
    BY <1>11
  <2>2. CASE b # a
    BY <1>2, <1>8, <2>1, <2>2
  <2>3. CASE b = a
    BY <1>3, <2>1, <2>3 DEF IsConsumed
  <2> QED
    BY <2>2, <2>3
<1>12. CASE \E note \in Notes : AppendOwed(note) \/ ForgetOwed(note)
  BY <1>4, <1>8, <1>12
<1>13. CASE \E e \in Executors : Consume(e)
  BY <1>5, <1>8, <1>9, <1>13
<1>14. CASE \E e \in Executors : NoteConsumed(e)
  <2>1. PICK e \in Executors : NoteConsumed(e)
    BY <1>14
  <2> QED
    BY <1>6, <2>1 DEF IsConsumed
<1>15. CASE UNCHANGED <<approval, owed, trail>>
  BY <1>7, <1>8, <1>9, <1>15
<1> HIDE DEF Backed
<1> QED
  BY <1>10, <1>11, <1>12, <1>13, <1>14, <1>15
     DEF Next, Execute, Tick, PresentApproved, PresentRequest, Begin, Look, Save, Admit, Spawn,
         Settle, Abandon, Recover, vars

-----------------------------------------------------------------------------
(***************************************************************************)
(* Theorems.                                                               *)
(***************************************************************************)

\* The inductive invariant holds in every state.
THEOREM ApprovalsInvariant == Spec => []IInv
<1>1. IInv /\ [Next]_vars => IInv'
  BY StepType, StepHolds, StepCovers, StepSpent, StepNotes DEF IInv
<1> QED
  BY InitInv, <1>1, PTL DEF Spec

\* Every variable keeps its type; the counter of processes started under an
\* approval stays within 0..1.
THEOREM ApprovalsTypeCorrect == Spec => []TypeOK
<1>1. IInv => TypeOK
  BY DEF IInv
<1> QED
  BY <1>1, ApprovalsInvariant, PTL

\* For any number of approvals, plans and executors, whenever they fail and
\* however long approvals live, an approval starts at most one process.
THEOREM ApprovalIsUsedOnce == Spec => []SingleUse
<1>1. IInv => SingleUse
  BY DEF IInv, TypeOK, SingleUse
<1> QED
  BY <1>1, ApprovalsInvariant, PTL

\* A process is only ever under way for the plan its approval was requested for,
\* by the executor that consumed it.
THEOREM GrantCoversPlanAlways == Spec => []GrantCoversPlan
<1>1. IInv => GrantCoversPlan
  BY DEF IInv
<1> QED
  BY <1>1, ApprovalsInvariant, PTL

\* The audit trail agrees with the table, whichever events were lost.
THEOREM TrailIsAlwaysBacked == Spec => []TrailIsBacked
<1>1. IInv => TrailIsBacked
  BY DEF IInv, TrailIsBacked, NotesAreBacked, Told, SpentOnce, IsConsumed, TypeOK
<1> QED
  BY <1>1, ApprovalsInvariant, PTL

\* No step consumes an approval that has expired.
THEOREM ExpiredStaysUnconsumed == Spec => ExpiryIsFinal
<1> DEFINE Final ==
      \A a \in Ids :
        approval[a] # None /\ approval[a].status # "consumed" /\ approval[a].expires <= now
        => approval'[a].status # "consumed"
<1>1. IInv /\ [Next]_vars => Final
  <2> SUFFICES ASSUME IInv, [Next]_vars, NEW a \in Ids, approval[a] # None,
                      approval[a].status # "consumed", approval[a].expires <= now
               PROVE  approval'[a].status # "consumed"
    OBVIOUS
  <2> USE DEF IInv, tableVars, runVars, ghostVars
  <2>0. approval[a] \in ApprovalType
    BY DEF TypeOK
  <2>1. ASSUME NEW b \in Ids, NEW plan \in Plans, NEW ttl \in Lifetimes, Request(b, plan, ttl)
        PROVE  approval'[a].status # "consumed"
    BY <2>1 DEF Request, TypeOK
  <2>2. ASSUME NEW b \in Ids, NEW answer \in {"approved", "rejected"}, Decide(b, answer)
        PROVE  approval'[a].status # "consumed"
    <3>1. approval'[a] = approval[a] \/ approval'[a] = [approval[a] EXCEPT !.status = answer]
      BY <2>2 DEF Decide, TypeOK
    <3> QED
      BY <2>0, <3>1 DEF ApprovalType
  <2>3. ASSUME NEW e \in Executors, Consume(e)
        PROVE  approval'[a].status # "consumed"
    <3>1. GrantOf(e) \in Ids
      BY <2>3, HeldRow DEF Consume
    <3>2. Consumable(e) => GrantOf(e) # a
      BY <2>0 DEF Consumable, ApprovalType, TypeOK
    <3> QED
      BY <2>3, <3>1, <3>2 DEF Consume, TypeOK
  <2> QED
    BY <2>1, <2>2, <2>3
       DEF Next, Execute, AppendOwed, ForgetOwed, Tick, PresentApproved, PresentRequest, Begin,
           NoteConsumed, Look, Save, Admit, Spawn, Settle, Abandon, Recover, vars
<1>2. [][Final]_vars <=> ExpiryIsFinal
  BY DEF ExpiryIsFinal
<1> HIDE DEF Final
<1> QED
  BY <1>1, <1>2, ApprovalsInvariant, PTL DEF Spec

-----------------------------------------------------------------------------
(***************************************************************************)
(* Refinement of Grant.                                                    *)
(***************************************************************************)

\* When one row changes, one abstract state does.
LEMMA OneRowShown ==
  ASSUME NEW a \in Ids, NEW r, approval \in [Ids -> ApprovalType \cup {None}],
         approval' = [approval EXCEPT ![a] = r]
  PROVE  GrantState' = [GrantState EXCEPT ![a] = Shown(r)]
<1>1. GrantState = [b \in Ids |-> Shown(approval[b])]
  BY DEF GrantState, Shown
<1>2. GrantState' = [b \in Ids |-> Shown(approval'[b])]
  BY DEF GrantState, Shown
<1> QED
  BY <1>1, <1>2

LEMMA ShownStates ==
  ASSUME NEW r \in ApprovalType
  PROVE  /\ r.status = "pending" => Shown(r) = "open"
         /\ r.status = "approved" => Shown(r) = "granted"
         /\ r.status = "rejected" => Shown(r) = "refused"
         /\ r.status = "consumed" => Shown(r) = "spent"
<1>1. r # None
  BY NoneIsNoRecord
<1> QED
  BY <1>1 DEF Shown

LEMMA RowShown ==
  ASSUME NEW a \in Ids
  PROVE  GrantState[a] = Shown(approval[a])
  BY DEF GrantState, Shown

LEMMA InitRefines == Init => G!Init
<1> SUFFICES ASSUME Init PROVE G!Init
  OBVIOUS
<1>1. GrantState = [a \in Ids |-> "absent"]
  BY DEF Init, GrantState, Shown
<1> QED
  BY <1>1 DEF Init, G!Init

LEMMA StepRefines == IInv /\ [Next]_vars => [G!Next]_(G!vars)
<1> SUFFICES ASSUME IInv, [Next]_vars PROVE G!Next \/ UNCHANGED <<GrantState, spender, starts>>
  BY DEF G!vars
<1> USE DEF tableVars, runVars, ghostVars
<1>0. approval \in [Ids -> ApprovalType \cup {None}] /\ starts \in [Ids -> 0..1]
  BY DEF IInv, TypeOK
<1>1. ASSUME NEW a \in Ids, NEW plan \in Plans, NEW ttl \in Lifetimes, Request(a, plan, ttl)
      PROVE  G!Ask(a)
  <2> DEFINE asked == [status |-> "pending", plan |-> plan, expires |-> now + ttl]
  <2>1. asked \in ApprovalType
    BY ApprovalsAssumption DEF IInv, TypeOK, ApprovalType, Statuses
  <2>2. Shown(asked) = "open"
    BY <2>1, ShownStates
  <2>3. approval' = [approval EXCEPT ![a] = asked] /\ approval[a] = None
    BY <1>1 DEF Request
  <2> HIDE DEF asked
  <2>4. GrantState' = [GrantState EXCEPT ![a] = "open"]
    BY <1>0, <2>2, <2>3, OneRowShown
  <2>5. GrantState[a] = "absent"
    BY <2>3, RowShown DEF Shown
  <2> QED
    BY <1>1, <2>4, <2>5 DEF Request, G!Ask
<1>2. ASSUME NEW a \in Ids, NEW answer \in {"approved", "rejected"}, Decide(a, answer)
      PROVE  \E word \in {"granted", "refused"} : G!Answer(a, word)
  <2> DEFINE answered == [approval[a] EXCEPT !.status = answer]
             word == IF answer = "approved" THEN "granted" ELSE "refused"
  <2>1. approval[a] \in ApprovalType /\ approval[a].status = "pending"
    BY <1>0, <1>2 DEF Decide, Answerable
  <2>2. answered \in ApprovalType /\ answered.status = answer
    BY <2>1 DEF ApprovalType, Statuses
  <2>3. Shown(answered) = word
    BY <2>2, ShownStates
  <2>4. approval' = [approval EXCEPT ![a] = answered]
    BY <1>0, <1>2 DEF Decide
  <2>5. GrantState[a] = "open"
    BY <2>1, RowShown, ShownStates
  <2> HIDE DEF answered, word
  <2>6. GrantState' = [GrantState EXCEPT ![a] = word]
    BY <1>0, <2>3, <2>4, OneRowShown
  <2>7. G!Answer(a, word)
    BY <1>2, <2>5, <2>6 DEF Decide, G!Answer
  <2> QED
    BY <2>7 DEF word
<1>3. ASSUME NEW e \in Executors, Consume(e), Consumable(e)
      PROVE  G!Spend(GrantOf(e), e)
  <2> DEFINE a == GrantOf(e)
             spent == [approval[a] EXCEPT !.status = "consumed"]
  <2>1. a \in Ids /\ approval[a] \in ApprovalType /\ approval[a].status = "approved"
    BY <1>3, HeldRow DEF Consume, Consumable
  <2>2. spent \in ApprovalType /\ spent.status = "consumed"
    BY <2>1 DEF ApprovalType, Statuses
  <2>3. Shown(spent) = "spent"
    BY <2>2, ShownStates
  <2>4. approval' = [approval EXCEPT ![a] = spent] /\ spender' = [spender EXCEPT ![a] = e]
    BY <1>0, <1>3 DEF Consume
  <2>5. GrantState[a] = "granted"
    BY <2>1, RowShown, ShownStates
  <2> HIDE DEF a, spent
  <2>6. GrantState' = [GrantState EXCEPT ![a] = "spent"]
    BY <1>0, <2>1, <2>3, <2>4, OneRowShown
  <2>7. G!Spend(a, e)
    BY <1>3, <2>4, <2>5, <2>6 DEF Consume, G!Spend
  <2> QED
    BY <2>7 DEF a
<1>4. ASSUME NEW e \in Executors, Spawn(e)
      PROVE  G!Use(GrantOf(e)) /\ GrantOf(e) \in Ids
  <2>1. GrantOf(e) \in Ids /\ spender[GrantOf(e)] = e /\ starts[GrantOf(e)] = 0
    BY <1>4, HeldRow DEF Spawn, IInv, GrantCoversPlan, SpentOnce, Spending
  <2>2. starts' = [starts EXCEPT ![GrantOf(e)] = 1]
    BY <1>4, <2>1 DEF Spawn
  <2>3. GrantState' = GrantState
    BY <1>4 DEF Spawn, GrantState
  <2>4. e # None
    BY ApprovalsAssumption
  <2> QED
    BY <1>4, <2>1, <2>2, <2>3, <2>4 DEF Spawn, G!Use
<1>5. ASSUME UNCHANGED <<approval, spender, starts>>
      PROVE  UNCHANGED <<GrantState, spender, starts>>
  BY <1>5 DEF GrantState
<1>6. CASE \E a \in Ids, plan \in Plans, ttl \in Lifetimes : Request(a, plan, ttl)
  BY <1>1, <1>6 DEF G!Next
<1>7. CASE \E a \in Ids, answer \in {"approved", "rejected"} : Decide(a, answer)
  BY <1>2, <1>7 DEF G!Next
<1>8. CASE \E e \in Executors : Consume(e) /\ Consumable(e)
  <2>1. PICK e \in Executors : Consume(e) /\ Consumable(e)
    BY <1>8
  <2>2. GrantOf(e) \in Ids
    BY <2>1, HeldRow DEF Consume
  <2> QED
    BY <1>3, <2>1, <2>2 DEF G!Next
<1>9. CASE \E e \in Executors : Spawn(e)
  BY <1>4, <1>9 DEF G!Next
<1>10. CASE UNCHANGED <<approval, spender, starts>>
  BY <1>5, <1>10
<1> QED
  BY <1>6, <1>7, <1>8, <1>9, <1>10
     DEF Next, Execute, Consume, AppendOwed, ForgetOwed, Tick, PresentApproved, PresentRequest,
         Begin, NoteConsumed, Look, Save, Admit, Settle, Abandon, Recover, vars

\* The table with its executors, clock, failures and overlaps is an implementation
\* of Grant: whatever happens, each step is a step of it or changes nothing it shows.
THEOREM ApprovalsImplementGrant == Spec => ImplementsGrant
  BY InitRefines, StepRefines, ApprovalsInvariant, PTL DEF Spec, ImplementsGrant, G!Spec
=============================================================================
