------------------------ MODULE SchedulerPass_proofs ------------------------
(***************************************************************************)
(* What the scheduler's pass guarantees for any number of automations,     *)
(* daemons and operators, of any triggers and policies: every copy of a    *)
(* row, in the Registry, in the pass or in the hands of an operator, says  *)
(* the truth about the occurrences before its next run.                    *)
(***************************************************************************)
EXTENDS SchedulerPass, Scheduler_proofs

InVisit(d) == phase[d] \in {"starting", "running"}

\* While the runs of a visit are made, what was found due at its beginning is still
\* what is due: neither the row of the pass nor its instant changes.
VisitIsFixed(d) ==
  /\ phase[d] \in {"visiting", "starting", "running"} => now[d] <= clock
  /\ InVisit(d) =>
       /\ todo[d] # <<>> /\ Eligible(d)
       /\ Due(d) # Invalid /\ Due(d) # <<>>
       /\ \A i \in 1..Len(due[d]) : \E j \in 1..Len(Due(d)) : due[d][i] = Due(d)[j]
  /\ phase[d] = "running" => due[d] # <<>>

VisitInv == \A d \in Daemons : VisitIsFixed(d)

TypeInv == TypeOK /\ VisitInv

\* The occurrences of the visit that the pass has dealt with were evaluated.
DealtWith(d) ==
  /\ InVisit(d) =>
       \A j \in 1..Len(Due(d)) :
         \/ Due(d)[j] \in evaluated[Current(d)]
         \/ \E i \in 1..Len(due[d]) : due[d][i] = Due(d)[j]
  /\ phase[d] = "running" => Head(due[d]) \in evaluated[Current(d)]

EvaluatedInv == \A d \in Daemons : DealtWith(d)

\* The automations whose every occurrence is to be evaluated.
Replayed(a) == a \in Automations \ Unscheduled /\ CatchesUp(a) /\ MaxAgeOf[a] = Never

\* A next run that may be written at any time without losing an occurrence.
Honest(a, next, done) ==
  /\ next # Never => OnGrid(TriggerOf[a], 0, next)
  /\ TriggerOf[a].kind = "interval" => next # Never
  /\ \A t \in Occurrences(a) : (next # Never /\ next <= t) \/ t \in done

\* The next run of a row or of one of its copies: what the pass read, what an operator
\* holds.
Copied(a, next) ==
  \/ registry[a] # Absent /\ next = registry[a].next
  \/ \E d \in Daemons : snapshot[d][a] # Absent /\ next = snapshot[d][a].next
  \/ \E o \in Operators : held[o] # Absent /\ held[o].of = a /\ next = held[o].row.next

HonestInv ==
  \A a \in Automations, next \in Instants \cup {Never} :
    Replayed(a) /\ Copied(a, next) => Honest(a, next, evaluated[a])

CatchUpInv == TypeInv /\ EvaluatedInv /\ HonestInv

\* The cron expressions that never stop firing.
Forever ==
  \A a \in Automations \ Unscheduled :
    TriggerOf[a].kind = "cron" => \E t \in TriggerOf[a].fires : t > MaxClock

Timed(a) == a \in Automations \ Unscheduled /\ TriggerOf[a].kind = "cron"

\* Every copy of a row of a cron automation asks for an instant at which it fires.
FiringInv ==
  \A a \in Automations :
    Timed(a) =>
      /\ \A next \in Instants \cup {Never} : Copied(a, next) => next \in TriggerOf[a].fires
      /\ admitted[a] \subseteq TriggerOf[a].fires

\* One daemon that nobody disturbs and that does not die.
Undisturbed == (\A d, e \in Daemons : d = e) /\ Operators = {} /\ MaxCrashes = 0

\* Whenever an automation that has a schedule is asked for its next run, there is one.
Endless ==
  \A a \in Automations, x \in 0..MaxClock :
    TriggerOf[a] # Manual => NextRun(TriggerOf[a], x) \in Instants

\* The occurrences of the visit for which no run was asked for yet.
Pending(d) == IF phase[d] = "running" THEN Tail(due[d]) ELSE due[d]

\* An occurrence that was run lies before the next run, or in a visit before what is left.
RunBefore(a, t) == registry[a].next # Never /\ t < registry[a].next

RunInVisit(d, a, t) ==
  /\ InVisit(d) /\ a = Current(d)
  /\ \E j \in 1..Len(Due(d)) : t = Due(d)[j]
  /\ \A i \in 1..Len(Pending(d)) : t < Pending(d)[i]

OnceInv ==
  \A a \in Automations :
    /\ registry[a] # Absent
    /\ repeated[a] = {}
    /\ \A d \in Daemons : snapshot[d][a] \in {Absent, registry[a]}
    /\ \A t \in admitted[a] : RunBefore(a, t) \/ \E d \in Daemons : RunInVisit(d, a, t)

AscendingInv ==
  \A d \in Daemons :
    InVisit(d) => \A i, j \in 1..Len(due[d]) : i < j => due[d][i] < due[d][j]

TickInv == TypeInv /\ OnceInv /\ AscendingInv
-----------------------------------------------------------------------------
(***************************************************************************)
(* The type invariant.                                                     *)
(***************************************************************************)
Suffix(s) == s \in {SubSeq(Order, i, Len(Order)) : i \in 1..(Len(Order) + 1)}

LEMMA OrderFacts ==
  /\ Order \in Seq(Automations) /\ Len(Order) \in Nat
  /\ \A i \in 1..Len(Order) : Order[i] \in Automations
<1>1. Order \in Seq(Automations)
  BY SchedulerPassAssumption
<1> QED
  BY <1>1

LEMMA Suffixes ==
  /\ Suffix(<<>>) /\ Suffix(Order)
  /\ \A s : Suffix(s) /\ s # <<>> => Suffix(Tail(s)) /\ Head(s) \in Automations
<1> DEFINE n == Len(Order)
<1>1. n \in Nat /\ Order \in Seq(Automations)
  BY OrderFacts
<1>2. SubSeq(Order, n + 1, n) = <<>>
  BY <1>1
<1>3. SubSeq(Order, 1, n) = Order
  BY <1>1
<1>4. ASSUME NEW i \in 1..(n + 1), SubSeq(Order, i, n) # <<>>
      PROVE  /\ Head(SubSeq(Order, i, n)) \in Automations
             /\ i + 1 \in 1..(n + 1)
             /\ Tail(SubSeq(Order, i, n)) = SubSeq(Order, i + 1, n)
  <2>1. i \in 1..n /\ i + 1 \in 1..(n + 1)
    BY <1>1, <1>2, <1>4
  <2>2. Head(SubSeq(Order, i, n)) = Order[i]
    BY <1>1, <2>1
  <2>3. Tail(SubSeq(Order, i, n)) = SubSeq(Order, i + 1, n)
    BY <1>1, <2>1
  <2> QED
    BY <2>1, <2>2, <2>3, OrderFacts
<1>5. 1 \in 1..(n + 1) /\ n + 1 \in 1..(n + 1)
  BY <1>1
<1>6. Suffix(<<>>) /\ Suffix(Order)
  BY <1>2, <1>3, <1>5 DEF Suffix
<1> QED
  BY <1>4, <1>6 DEF Suffix

LEMMA ConstantFacts ==
  /\ \A a \in Automations :
       /\ TriggerOf[a] \in TriggerType /\ MisfireOf[a] \in MisfireType
       /\ MaxAgeOf[a] \in Nat \cup {Never}
  /\ MaxClock \in Nat /\ LastInstant \in Nat /\ MaxClock < LastInstant
  /\ 0 \in Instants /\ 0..MaxClock \subseteq Instants
  /\ Never \notin Int /\ Invalid \notin Int /\ Never # Invalid
BY SchedulerAssumption, SchedulerPassAssumption DEF Instants

\* What the pass has before it when it visits an automation.
LEMMA VisitFacts ==
  ASSUME TypeOK, NEW d \in Daemons, todo[d] # <<>>
  PROVE  /\ Current(d) \in Automations
         /\ Suffix(Tail(todo[d]))
         /\ TriggerOf[Current(d)] \in TriggerType
         /\ MisfireOf[Current(d)] \in MisfireType
         /\ Row(d) \in RowType \cup {Absent}
         /\ now[d] \in 0..MaxClock
<1>1. Suffix(todo[d])
  BY DEF TypeOK, Suffix
<1>2. Current(d) \in Automations /\ Suffix(Tail(todo[d]))
  BY <1>1, Suffixes DEF Current
<1>3. snapshot[d] \in [Automations -> RowType \cup {Absent}] /\ now[d] \in 0..MaxClock
  BY DEF TypeOK
<1> QED
  BY <1>2, <1>3, ConstantFacts DEF Row

LEMMA DueFacts ==
  ASSUME TypeOK, NEW d \in Daemons, todo[d] # <<>>, Row(d) # Absent
  PROVE  /\ Scheduled(d) \in Instants
         /\ Due(d) # Invalid =>
              /\ Due(d) \in Seq(0..MaxClock)
              /\ \A i \in 1..Len(Due(d)) : Due(d)[i] <= now[d] /\ Scheduled(d) <= Due(d)[i]
              /\ \A i, j \in 1..Len(Due(d)) : i < j => Due(d)[i] < Due(d)[j]
              /\ Due(d) # <<>> =>
                   /\ Scheduled(d) <= now[d]
                   /\ AdvanceFrom(d) \in 0..MaxClock
                   /\ \A i \in 1..Len(Due(d)) : Due(d)[i] <= AdvanceFrom(d)
              /\ Due(d) # <<>> /\ ~CatchesUp(Current(d)) => Due(d) = <<Scheduled(d)>>
              /\ CatchesUp(Current(d)) /\ Scheduled(d) <= now[d] =>
                   /\ Chain(Due(d), TriggerOf[Current(d)], Scheduled(d), now[d])
                   /\ Due(d) # <<>> /\ Len(Due(d)) >= 1
<1> USE ConstantFacts
<1> DEFINE a == Current(d)
           s == Scheduled(d)
           runs == Due(d)
<1>1. /\ TriggerOf[a] \in TriggerType /\ MisfireOf[a] \in MisfireType
      /\ Row(d) \in RowType /\ now[d] \in 0..MaxClock
  BY VisitFacts
<1>2. now[d] \in Nat /\ now[d] < LastInstant /\ now[d] \in Instants
  BY <1>1 DEF Instants
<1>3. s \in Instants
  BY <1>1, <1>2 DEF Scheduled, RowType
<1>4. SUFFICES ASSUME runs # Invalid
               PROVE  /\ runs \in Seq(0..MaxClock)
                      /\ \A i \in 1..Len(runs) : runs[i] <= now[d] /\ s <= runs[i]
                      /\ \A i, j \in 1..Len(runs) : i < j => runs[i] < runs[j]
                      /\ runs # <<>> =>
                           /\ s <= now[d]
                           /\ AdvanceFrom(d) \in 0..MaxClock
                           /\ \A i \in 1..Len(runs) : runs[i] <= AdvanceFrom(d)
                      /\ runs # <<>> /\ ~CatchesUp(a) => runs = <<s>>
                      /\ CatchesUp(a) /\ s <= now[d] =>
                           /\ Chain(runs, TriggerOf[a], s, now[d])
                           /\ runs # <<>> /\ Len(runs) >= 1
  BY <1>3
<1>5. runs = DueRuns(TriggerOf[a], s, now[d], MisfireOf[a])
  BY DEF Due
<1>6. AdvanceFrom(d) = IF CatchesUp(a) THEN runs[Len(runs)] ELSE now[d]
  BY DEF AdvanceFrom
<1> HIDE DEF runs, a, s
<1>7. /\ runs \in Seq(0..now[d])
      /\ \A i, j \in 1..Len(runs) : i < j => runs[i] < runs[j]
      /\ \A i \in 1..Len(runs) : s <= runs[i]
      /\ runs # <<>> => s <= now[d]
      /\ runs # <<>> /\ MisfireOf[a].policy # "catch_up" => runs = <<s>>
      /\ MisfireOf[a].policy = "catch_up" /\ s <= now[d] =>
           Chain(runs, TriggerOf[a], s, now[d]) /\ Len(runs) >= 1
  BY <1>1, <1>2, <1>3, <1>4, <1>5, DueRunsReturns
<1>8. \A i \in 1..Len(runs) : runs[i] \in 0..now[d]
  <2> DEFINE S == 0..now[d]
  <2>1. runs \in Seq(S)
    BY <1>7
  <2> HIDE DEF S
  <2>2. \A i \in 1..Len(runs) : runs[i] \in S
    BY <2>1
  <2> QED
    BY <2>2 DEF S
<1>9. \A i \in 1..Len(runs) : runs[i] <= now[d] /\ runs[i] \in 0..MaxClock
  BY <1>1, <1>8
<1>10. runs \in Seq(0..MaxClock) /\ Len(runs) \in Nat
  BY <1>7, <1>9, SequenceInto
<1>11. ASSUME runs # <<>>
       PROVE  /\ AdvanceFrom(d) \in 0..MaxClock
              /\ \A i \in 1..Len(runs) : runs[i] <= AdvanceFrom(d)
  <2>1. Len(runs) \in 1..Len(runs)
    BY <1>10, <1>11
  <2>2. \A i \in 1..Len(runs) : i = Len(runs) \/ runs[i] < runs[Len(runs)]
    BY <1>7, <1>10, <2>1
  <2>3. \A i \in 1..Len(runs) : runs[i] \in Nat
    BY <1>8
  <2>4. \A i \in 1..Len(runs) : runs[i] <= runs[Len(runs)]
    BY <2>1, <2>2, <2>3
  <2> QED
    BY <1>1, <1>6, <1>9, <2>1, <2>4
<1>12. Len(runs) >= 1 => runs # <<>>
  OBVIOUS
<1> QED
  BY <1>7, <1>9, <1>10, <1>11, <1>12 DEF CatchesUp

\* A pass that keeps its place, its rows and its instant keeps what follows from them.
LEMMA VisitStays ==
  ASSUME NEW d, todo'[d] = todo[d], snapshot'[d] = snapshot[d], now'[d] = now[d]
  PROVE  /\ Current(d)' = Current(d) /\ Row(d)' = Row(d) /\ Scheduled(d)' = Scheduled(d)
         /\ Due(d)' = Due(d) /\ AdvanceFrom(d)' = AdvanceFrom(d)
         /\ Eligible(d)' = Eligible(d)
<1>1. Current(d)' = Current(d) /\ Row(d)' = Row(d)
  BY DEF Current, Row
<1>2. Scheduled(d)' = Scheduled(d)
  BY <1>1 DEF Scheduled
<1>3. Due(d)' = Due(d)
  BY <1>1, <1>2 DEF Due
<1>4. AdvanceFrom(d)' = AdvanceFrom(d)
  BY <1>1, <1>3 DEF AdvanceFrom
<1>5. Eligible(d)' = Eligible(d)
  BY <1>1 DEF Eligible
<1> QED
  BY <1>1, <1>2, <1>3, <1>4, <1>5

PassTyped ==
  /\ phase \in [Daemons -> {"down", "idle", "visiting", "starting", "running"}]
  /\ now \in [Daemons -> 0..MaxClock]
  /\ todo \in [Daemons -> {SubSeq(Order, i, Len(Order)) : i \in 1..(Len(Order) + 1)}]
  /\ snapshot \in [Daemons -> [Automations -> RowType \cup {Absent}]]

LEMMA TypedPass == TypeOK => PassTyped
BY DEF TypeOK, PassTyped, Suffix

\* The rest of the world does not see that a visit is over or that a pass has ended.
Elsewhere(d) ==
  \A e \in Daemons :
    e # d => /\ phase'[e] = phase[e] /\ now'[e] = now[e]
             /\ todo'[e] = todo[e] /\ snapshot'[e] = snapshot[e]

LEMMA LeaveEffect ==
  ASSUME TypeOK, NEW d \in Daemons, todo[d] # <<>>, Leave(d)
  PROVE  /\ PassTyped' /\ Elsewhere(d)
         /\ phase'[d] = "visiting" /\ now'[d] = now[d]
         /\ snapshot'[d] = [snapshot[d] EXCEPT ![Current(d)] = Absent]
<1>1. PassTyped
  BY TypedPass
<1>2. Current(d) \in Automations /\ Suffix(Tail(todo[d]))
  BY VisitFacts
<1>3. /\ todo' = [todo EXCEPT ![d] = Tail(todo[d])]
      /\ snapshot' = [snapshot EXCEPT ![d] = [snapshot[d] EXCEPT ![Current(d)] = Absent]]
      /\ phase' = [phase EXCEPT ![d] = "visiting"]
      /\ now' = now
  BY DEF Leave
<1> QED
  BY <1>1, <1>2, <1>3 DEF PassTyped, Elsewhere, Suffix

LEMMA DropEffect ==
  ASSUME TypeOK, NEW d \in Daemons, NEW next \in {"down", "idle"}, DropPass(d, next)
  PROVE  /\ PassTyped' /\ Elsewhere(d)
         /\ phase'[d] = next
         /\ snapshot'[d] = [a \in Automations |-> Absent]
<1>1. PassTyped
  BY TypedPass
<1>2. Suffix(<<>>) /\ 0 \in 0..MaxClock
  BY Suffixes, ConstantFacts
<1>3. /\ todo' = [todo EXCEPT ![d] = <<>>]
      /\ snapshot' = [snapshot EXCEPT ![d] = [a \in Automations |-> Absent]]
      /\ phase' = [phase EXCEPT ![d] = next]
      /\ now' = [now EXCEPT ![d] = 0]
  BY DEF DropPass
<1> QED
  BY <1>1, <1>2, <1>3 DEF PassTyped, Elsewhere, Suffix

\* What a visit writes back: the row the pass read with the next run it computed.
LEMMA SaveEffect ==
  ASSUME TypeOK, NEW d \in Daemons, todo[d] # <<>>, Eligible(d), NEW x \in Instants,
         SaveAndLeave(d, NextRun(TriggerOf[Current(d)], x))
  PROVE  /\ PassTyped' /\ Elsewhere(d)
         /\ phase'[d] \in {"visiting", "down"}
         /\ phase'[d] = "visiting" => now'[d] = now[d]
         /\ registry' \in [Automations -> RowType \cup {Absent}]
         /\ \/ registry' = registry /\ snapshot'[d] = [a \in Automations |-> Absent]
               /\ NextRun(TriggerOf[Current(d)], x) = Invalid
            \/ /\ NextRun(TriggerOf[Current(d)], x) \in Instants \cup {Never}
               /\ registry' = [registry EXCEPT ![Current(d)] =
                    [Row(d) EXCEPT !.next = NextRun(TriggerOf[Current(d)], x)]]
               /\ snapshot'[d] = [snapshot[d] EXCEPT ![Current(d)] = Absent]
<1> DEFINE a == Current(d)
           next == NextRun(TriggerOf[a], x)
<1>1. a \in Automations /\ TriggerOf[a] \in TriggerType /\ Row(d) \in RowType
  BY VisitFacts DEF Eligible
<1>2. next \in Instants \cup {Never, Invalid}
  BY <1>1, NextRunIsAhead
<1>3. registry \in [Automations -> RowType \cup {Absent}]
  BY DEF TypeOK
<1> HIDE DEF next
<1>4. SaveAndLeave(d, next)
  BY DEF next
<1>5. CASE /\ next # Invalid
           /\ registry' = [registry EXCEPT ![a] = [Row(d) EXCEPT !.next = next]]
           /\ Leave(d)
  <2>1. next \in Instants \cup {Never}
    BY <1>2, <1>5
  <2>2. [Row(d) EXCEPT !.next = next] \in RowType
    BY <1>1, <2>1 DEF RowType
  <2> HIDE DEF a
  <2>3. registry' \in [Automations -> RowType \cup {Absent}]
    BY <1>1, <1>3, <1>5, <2>2
  <2>4. /\ PassTyped' /\ Elsewhere(d)
        /\ phase'[d] = "visiting" /\ now'[d] = now[d]
        /\ snapshot'[d] = [snapshot[d] EXCEPT ![a] = Absent]
    BY <1>5, LeaveEffect DEF a
  <2> QED
    BY <1>5, <2>1, <2>3, <2>4 DEF a, next
<1>6. CASE next = Invalid /\ DropPass(d, "down") /\ UNCHANGED registry
  <2>1. /\ PassTyped' /\ Elsewhere(d) /\ phase'[d] = "down"
        /\ snapshot'[d] = [b \in Automations |-> Absent]
    BY <1>6, DropEffect
  <2> QED
    BY <1>3, <1>6, <2>1 DEF next
<1> QED
  BY <1>4, <1>5, <1>6 DEF SaveAndLeave

LEMMA FixedStays ==
  ASSUME NEW d, VisitIsFixed(d), clock \in Int, clock' \in Int, clock <= clock',
         now[d] \in Int,
         phase'[d] = phase[d], now'[d] = now[d], todo'[d] = todo[d],
         snapshot'[d] = snapshot[d], due'[d] = due[d]
  PROVE  VisitIsFixed(d)'
<1>1. /\ Due(d)' = Due(d) /\ Eligible(d)' = Eligible(d)
  BY VisitStays
<1> QED
  BY <1>1 DEF VisitIsFixed, InVisit

LEMMA OthersStayFixed ==
  ASSUME TypeOK, VisitInv, NEW d \in Daemons, Elsewhere(d), clock' = clock,
         \A e \in Daemons : e # d => due'[e] = due[e]
  PROVE  \A e \in Daemons : e # d => VisitIsFixed(e)'
<1> SUFFICES ASSUME NEW e \in Daemons, e # d
             PROVE  VisitIsFixed(e)'
  OBVIOUS
<1>1. clock \in Int /\ clock' \in Int /\ clock <= clock' /\ now[e] \in Int
  BY ConstantFacts DEF TypeOK
<1>2. VisitIsFixed(e) /\ due'[e] = due[e]
  BY DEF VisitInv
<1>3. /\ phase'[e] = phase[e] /\ now'[e] = now[e]
      /\ todo'[e] = todo[e] /\ snapshot'[e] = snapshot[e]
  BY DEF Elsewhere
<1> QED
  BY <1>1, <1>2, <1>3, FixedStays

\* A pass that is not in a visit has nothing to keep but its place in time.
LEMMA BetweenVisits ==
  ASSUME TypeOK, VisitInv, NEW d \in Daemons, Elsewhere(d), clock' = clock,
         \A e \in Daemons : e # d => due'[e] = due[e],
         phase'[d] \in {"down", "idle", "visiting"},
         phase'[d] = "visiting" => now'[d] <= clock
  PROVE  VisitInv'
<1>1. \A e \in Daemons : e # d => VisitIsFixed(e)'
  BY OthersStayFixed
<1>2. VisitIsFixed(d)'
  BY DEF VisitIsFixed, InVisit
<1> QED
  BY <1>1, <1>2 DEF VisitInv

RestTyped ==
  /\ clock \in 0..MaxClock
  /\ registry \in [Automations -> RowType \cup {Absent}]
  /\ running \in [Automations -> SUBSET (Daemons \cup {"person"})]
  /\ due \in [Daemons -> Seq(0..MaxClock)]
  /\ held \in [Operators -> {Absent} \cup [of : Automations, row : RowType, intent : Intents]]
  /\ evaluated \in [Automations -> SUBSET (0..MaxClock)]
  /\ admitted \in [Automations -> SUBSET (0..MaxClock)]
  /\ repeated \in [Automations -> SUBSET (0..MaxClock)]
  /\ recorded \subseteq Automations
  /\ ordered \in [Automations -> States \cup {"none"}]
  /\ crashes \in 0..MaxCrashes

LEMMA BothTyped == TypeOK <=> PassTyped /\ RestTyped
BY DEF TypeOK, PassTyped, RestTyped

\* A pass between two visits: BeginPass to BeginRuns and FinishVisit.
LEMMA PassTypes ==
  ASSUME TypeInv, NEW d \in Daemons,
         BeginPass(d) \/ EndPass(d) \/ PassOver(d) \/ FailPass(d)
  PROVE  TypeInv'
<1>1. TypeOK /\ VisitInv /\ PassTyped /\ RestTyped
  BY BothTyped DEF TypeInv
<1>2. /\ UNCHANGED <<clock, registry, running, due, historyVars, operatorVars, crashes>>
      /\ PassTyped' /\ Elsewhere(d)
      /\ phase'[d] \in {"down", "idle", "visiting"}
      /\ phase'[d] = "visiting" => now'[d] <= clock
  <2>1. CASE BeginPass(d)
    <3>1. clock \in 0..MaxClock /\ clock <= clock
      BY <1>1 DEF RestTyped
    <3>2. Suffix(Order)
      BY Suffixes
    <3>3. /\ phase' = [phase EXCEPT ![d] = "visiting"]
          /\ now' = [now EXCEPT ![d] = clock]
          /\ snapshot' = [snapshot EXCEPT ![d] = registry]
          /\ todo' = [todo EXCEPT ![d] = Order]
      BY <2>1 DEF BeginPass
    <3>4. PassTyped' /\ Elsewhere(d) /\ phase'[d] = "visiting" /\ now'[d] = clock
      BY <1>1, <3>1, <3>2, <3>3 DEF PassTyped, RestTyped, Elsewhere, Suffix
    <3> QED
      BY <2>1, <3>1, <3>4 DEF BeginPass
  <2>2. CASE EndPass(d)
    <3>1. DropPass(d, "idle")
      BY <2>2 DEF EndPass
    <3> QED
      BY <1>1, <2>2, <3>1, DropEffect DEF EndPass
  <2>3. CASE PassOver(d)
    <3>1. Leave(d) /\ todo[d] # <<>> /\ phase[d] = "visiting"
      BY <2>3 DEF PassOver, Visiting
    <3>2. now[d] <= clock
      BY <1>1, <3>1 DEF VisitInv, VisitIsFixed
    <3> QED
      BY <1>1, <2>3, <3>1, <3>2, LeaveEffect DEF PassOver
  <2>4. CASE FailPass(d)
    <3>1. DropPass(d, "down")
      BY <2>4 DEF FailPass
    <3> QED
      BY <1>1, <2>4, <3>1, DropEffect DEF FailPass
  <2> QED
    BY <2>1, <2>2, <2>3, <2>4
<1>3. RestTyped'
  BY <1>1, <1>2 DEF RestTyped, historyVars, operatorVars
<1>4. VisitInv'
  BY <1>1, <1>2, BetweenVisits
<1> QED
  BY <1>2, <1>3, <1>4 DEF TypeOK, PassTyped, RestTyped, TypeInv

\* A visit that is over, with or without runs: the row is written back.
LEMMA SaveTypes ==
  ASSUME TypeInv, NEW d \in Daemons, Expire(d) \/ SkipMisfire(d) \/ FinishVisit(d)
  PROVE  TypeInv'
<1>1. TypeOK /\ VisitInv /\ PassTyped /\ RestTyped
  BY BothTyped DEF TypeInv
<1>2. now[d] \in Instants /\ now[d] \in 0..MaxClock
  BY <1>1, ConstantFacts DEF TypeOK
<1>3. PICK x \in Instants :
        /\ todo[d] # <<>> /\ Eligible(d) /\ phase[d] \in {"visiting", "starting"}
        /\ SaveAndLeave(d, NextRun(TriggerOf[Current(d)], x))
  <2>1. CASE Expire(d) \/ SkipMisfire(d)
    BY <1>2, <2>1 DEF Expire, SkipMisfire, MayEvaluate, Visiting
  <2>2. CASE FinishVisit(d)
    <3>1. phase[d] = "starting" /\ SaveAndLeave(d, NextRun(TriggerOf[Current(d)], AdvanceFrom(d)))
      BY <2>2 DEF FinishVisit
    <3>2. todo[d] # <<>> /\ Eligible(d) /\ Due(d) # Invalid /\ Due(d) # <<>>
      BY <1>1, <3>1 DEF VisitInv, VisitIsFixed, InVisit
    <3>3. AdvanceFrom(d) \in 0..MaxClock
      BY <1>1, <3>2, DueFacts DEF Eligible
    <3> QED
      BY <3>1, <3>2, <3>3, ConstantFacts
  <2> QED
    BY <2>1, <2>2
<1>4. /\ PassTyped' /\ Elsewhere(d)
      /\ phase'[d] \in {"visiting", "down"}
      /\ phase'[d] = "visiting" => now'[d] = now[d]
      /\ registry' \in [Automations -> RowType \cup {Absent}]
  BY <1>1, <1>3, SaveEffect
<1>5. UNCHANGED <<clock, running, due, historyVars, operatorVars, crashes>>
  BY DEF Expire, SkipMisfire, FinishVisit
<1>6. now[d] <= clock
  BY <1>1, <1>3 DEF VisitInv, VisitIsFixed
<1>7. RestTyped'
  BY <1>1, <1>4, <1>5 DEF RestTyped, historyVars, operatorVars
<1>8. VisitInv'
  BY <1>1, <1>4, <1>5, <1>6, BetweenVisits
<1> QED
  BY <1>4, <1>7, <1>8 DEF TypeOK, PassTyped, RestTyped, TypeInv

\* What a step inside a visit leaves alone.
LEMMA InsideVisit ==
  ASSUME TypeInv, NEW d \in Daemons,
         UNCHANGED <<clock, registry, now, todo, snapshot>>,
         NEW next \in {"starting", "running"}, phase' = [phase EXCEPT ![d] = next],
         NEW left \in Seq(0..MaxClock), due' = [due EXCEPT ![d] = left]
  PROVE  /\ PassTyped' /\ due' \in [Daemons -> Seq(0..MaxClock)]
         /\ Elsewhere(d) /\ \A e \in Daemons : e # d => due'[e] = due[e] /\ VisitIsFixed(e)'
         /\ phase'[d] = next /\ due'[d] = left
<1>1. TypeOK /\ VisitInv /\ PassTyped /\ RestTyped
  BY BothTyped DEF TypeInv
<1>2. /\ PassTyped' /\ Elsewhere(d) /\ phase'[d] = next
  BY <1>1 DEF PassTyped, Elsewhere
<1>3. /\ due' \in [Daemons -> Seq(0..MaxClock)]
      /\ \A e \in Daemons : e # d => due'[e] = due[e]
      /\ due'[d] = left
  BY <1>1 DEF RestTyped
<1>4. \A e \in Daemons : e # d => VisitIsFixed(e)'
  BY <1>1, <1>2, <1>3, OthersStayFixed
<1> QED
  BY <1>2, <1>3, <1>4

LEMMA BeginRunsTypes ==
  ASSUME TypeInv, NEW d \in Daemons, BeginRuns(d)
  PROVE  TypeInv'
<1>1. TypeOK /\ VisitInv /\ PassTyped /\ RestTyped
  BY BothTyped DEF TypeInv
<1>2. /\ todo[d] # <<>> /\ Eligible(d) /\ phase[d] = "visiting"
      /\ Due(d) # Invalid /\ Due(d) # <<>>
  BY DEF BeginRuns, MayEvaluate, Visiting
<1>3. Due(d) \in Seq(0..MaxClock)
  BY <1>1, <1>2, DueFacts DEF Eligible
<1>4. /\ UNCHANGED <<clock, registry, now, todo, snapshot>>
      /\ UNCHANGED <<running, historyVars, operatorVars, crashes>>
      /\ phase' = [phase EXCEPT ![d] = "starting"] /\ due' = [due EXCEPT ![d] = Due(d)]
  BY DEF BeginRuns
<1>5. /\ PassTyped' /\ due' \in [Daemons -> Seq(0..MaxClock)]
      /\ Elsewhere(d) /\ \A e \in Daemons : e # d => due'[e] = due[e] /\ VisitIsFixed(e)'
      /\ phase'[d] = "starting" /\ due'[d] = Due(d)
  BY <1>3, <1>4, InsideVisit
<1>6. now[d] <= clock
  BY <1>1, <1>2 DEF VisitInv, VisitIsFixed
<1>7. Due(d)' = Due(d) /\ Eligible(d)' = Eligible(d)
  BY <1>4, VisitStays
<1>8. VisitIsFixed(d)'
  BY <1>2, <1>4, <1>5, <1>6, <1>7 DEF VisitIsFixed, InVisit
<1>9. RestTyped'
  BY <1>1, <1>4, <1>5 DEF RestTyped, historyVars, operatorVars
<1> QED
  BY <1>5, <1>8, <1>9 DEF TypeOK, PassTyped, RestTyped, TypeInv, VisitInv

LEMMA TailFacts ==
  ASSUME NEW S, NEW s \in Seq(S), s # <<>>
  PROVE  /\ Head(s) \in S /\ Head(s) = s[1] /\ 1 \in 1..Len(s) /\ Len(s) \in Nat
         /\ Tail(s) \in Seq(S) /\ Len(Tail(s)) = Len(s) - 1
         /\ \A i \in 1..Len(Tail(s)) : i + 1 \in 1..Len(s) /\ Tail(s)[i] = s[i + 1]
OBVIOUS

\* What a visit does with the first of the occurrences it has still to run.
LEMMA StartRunEffect ==
  ASSUME TypeInv, NEW d \in Daemons, StartRun(d)
  PROVE  LET a == Current(d)
             t == Head(due[d])
         IN  /\ phase[d] = "starting" /\ due[d] # <<>> /\ todo[d] # <<>> /\ Eligible(d)
             /\ a \in Automations /\ t \in 0..MaxClock
             /\ UNCHANGED <<clock, registry, now, todo, snapshot, operatorVars, crashes>>
             /\ evaluated' = [evaluated EXCEPT ![a] = evaluated[a] \cup {t}]
             /\ \/ /\ running' = [running EXCEPT ![a] = running[a] \cup {d}]
                   /\ admitted' = [admitted EXCEPT ![a] = admitted[a] \cup {t}]
                   /\ repeated' = [repeated EXCEPT ![a] = repeated[a] \cup (admitted[a] \cap {t})]
                   /\ recorded' = recorded \cup {a}
                   /\ phase' = [phase EXCEPT ![d] = "running"]
                   /\ due' = [due EXCEPT ![d] = due[d]]
                \/ /\ phase' = [phase EXCEPT ![d] = "starting"]
                   /\ due' = [due EXCEPT ![d] = Tail(due[d])]
                   /\ UNCHANGED <<running, admitted, repeated, recorded>>
<1>1. TypeOK /\ VisitInv
  BY DEF TypeInv
<1>2. phase[d] = "starting" /\ due[d] # <<>>
  BY DEF StartRun
<1>3. todo[d] # <<>> /\ Eligible(d)
  BY <1>1, <1>2 DEF VisitInv, VisitIsFixed, InVisit
<1>4. Current(d) \in Automations
  BY <1>1, <1>3, VisitFacts
<1>5. due[d] \in Seq(0..MaxClock)
  BY <1>1 DEF TypeOK
<1>6. Head(due[d]) \in 0..MaxClock
  BY <1>2, <1>5, TailFacts
<1>7. due = [due EXCEPT ![d] = due[d]] /\ phase = [phase EXCEPT ![d] = "starting"]
  BY <1>1, <1>2 DEF TypeOK
<1> QED
  BY <1>2, <1>3, <1>4, <1>6, <1>7 DEF StartRun

LEMMA StartRunTypes ==
  ASSUME TypeInv, NEW d \in Daemons, StartRun(d)
  PROVE  TypeInv'
<1>1. TypeOK /\ VisitInv /\ PassTyped /\ RestTyped
  BY BothTyped DEF TypeInv
<1> DEFINE a == Current(d)
           t == Head(due[d])
<1>2. /\ phase[d] = "starting" /\ due[d] # <<>> /\ todo[d] # <<>> /\ Eligible(d)
      /\ a \in Automations /\ t \in 0..MaxClock
      /\ UNCHANGED <<clock, registry, now, todo, snapshot, operatorVars, crashes>>
      /\ evaluated' = [evaluated EXCEPT ![a] = evaluated[a] \cup {t}]
      /\ \/ /\ running' = [running EXCEPT ![a] = running[a] \cup {d}]
            /\ admitted' = [admitted EXCEPT ![a] = admitted[a] \cup {t}]
            /\ repeated' = [repeated EXCEPT ![a] = repeated[a] \cup (admitted[a] \cap {t})]
            /\ recorded' = recorded \cup {a}
            /\ phase' = [phase EXCEPT ![d] = "running"]
            /\ due' = [due EXCEPT ![d] = due[d]]
         \/ /\ phase' = [phase EXCEPT ![d] = "starting"]
            /\ due' = [due EXCEPT ![d] = Tail(due[d])]
            /\ UNCHANGED <<running, admitted, repeated, recorded>>
  BY StartRunEffect
<1>3. due[d] \in Seq(0..MaxClock)
  BY <1>1 DEF RestTyped
<1>4. /\ Tail(due[d]) \in Seq(0..MaxClock)
      /\ \A i \in 1..Len(Tail(due[d])) :
           i + 1 \in 1..Len(due[d]) /\ Tail(due[d])[i] = due[d][i + 1]
  BY <1>2, <1>3, TailFacts
<1>5. PICK next \in {"starting", "running"}, left \in {due[d], Tail(due[d])} :
        /\ phase' = [phase EXCEPT ![d] = next] /\ due' = [due EXCEPT ![d] = left]
        /\ next = "running" => left = due[d]
  BY <1>2
<1>6. left \in Seq(0..MaxClock)
  BY <1>3, <1>4
<1>7. /\ PassTyped' /\ due' \in [Daemons -> Seq(0..MaxClock)]
      /\ \A e \in Daemons : e # d => VisitIsFixed(e)'
      /\ phase'[d] = next /\ due'[d] = left
  BY <1>2, <1>5, <1>6, InsideVisit
<1>8. Due(d)' = Due(d) /\ Eligible(d)' = Eligible(d)
  BY <1>2, VisitStays
<1>9. /\ now[d] <= clock /\ Due(d) # Invalid /\ Due(d) # <<>>
      /\ \A i \in 1..Len(due[d]) : \E j \in 1..Len(Due(d)) : due[d][i] = Due(d)[j]
  BY <1>1, <1>2 DEF VisitInv, VisitIsFixed, InVisit
<1>10. \A i \in 1..Len(left) : \E j \in 1..Len(Due(d)) : left[i] = Due(d)[j]
  BY <1>4, <1>9
<1>11. VisitIsFixed(d)'
  BY <1>2, <1>5, <1>7, <1>8, <1>9, <1>10 DEF VisitIsFixed, InVisit
<1>12. RestTyped'
  <2> HIDE DEF a, t
  <2>1. evaluated' \in [Automations -> SUBSET (0..MaxClock)]
    BY <1>1, <1>2 DEF RestTyped
  <2>2. running' \in [Automations -> SUBSET (Daemons \cup {"person"})]
    <3>1. running \in [Automations -> SUBSET (Daemons \cup {"person"})]
      BY <1>1 DEF RestTyped
    <3>2. running' = running \/ running' = [running EXCEPT ![a] = running[a] \cup {d}]
      BY <1>2
    <3> QED
      BY <1>2, <3>1, <3>2
  <2>3. admitted' \in [Automations -> SUBSET (0..MaxClock)]
    <3>1. admitted \in [Automations -> SUBSET (0..MaxClock)]
      BY <1>1 DEF RestTyped
    <3>2. admitted' = admitted \/ admitted' = [admitted EXCEPT ![a] = admitted[a] \cup {t}]
      BY <1>2
    <3> QED
      BY <1>2, <3>1, <3>2
  <2>4. repeated' \in [Automations -> SUBSET (0..MaxClock)]
    <3>1. repeated \in [Automations -> SUBSET (0..MaxClock)]
      BY <1>1 DEF RestTyped
    <3>2. \/ repeated' = repeated
          \/ repeated' = [repeated EXCEPT ![a] = repeated[a] \cup (admitted[a] \cap {t})]
      BY <1>2
    <3> QED
      BY <1>2, <3>1, <3>2
  <2>5. recorded' \subseteq Automations
    BY <1>1, <1>2 DEF RestTyped
  <2> QED
    BY <1>1, <1>2, <1>7, <2>1, <2>2, <2>3, <2>4, <2>5 DEF RestTyped, operatorVars
<1> QED
  BY <1>7, <1>11, <1>12 DEF TypeOK, PassTyped, RestTyped, TypeInv, VisitInv

LEMMA EndRunEffect ==
  ASSUME TypeInv, NEW d \in Daemons, EndRun(d)
  PROVE  /\ phase[d] = "running" /\ due[d] # <<>> /\ todo[d] # <<>> /\ Eligible(d)
         /\ Current(d) \in Automations
         /\ UNCHANGED <<clock, registry, now, todo, snapshot, historyVars, operatorVars, crashes>>
         /\ running' = [running EXCEPT ![Current(d)] = running[Current(d)] \ {d}]
         /\ due' = [due EXCEPT ![d] = Tail(due[d])]
         /\ phase' = [phase EXCEPT ![d] = "starting"]
<1>1. TypeOK /\ VisitInv /\ phase[d] = "running"
  BY DEF TypeInv, EndRun
<1>2. todo[d] # <<>> /\ Eligible(d) /\ due[d] # <<>>
  BY <1>1 DEF VisitInv, VisitIsFixed, InVisit
<1> QED
  BY <1>1, <1>2, VisitFacts DEF EndRun

LEMMA EndRunTypes ==
  ASSUME TypeInv, NEW d \in Daemons, EndRun(d)
  PROVE  TypeInv'
<1>1. TypeOK /\ VisitInv /\ PassTyped /\ RestTyped
  BY BothTyped DEF TypeInv
<1> DEFINE a == Current(d)
<1>2. /\ phase[d] = "running" /\ due[d] # <<>> /\ todo[d] # <<>> /\ Eligible(d)
      /\ a \in Automations
      /\ UNCHANGED <<clock, registry, now, todo, snapshot, historyVars, operatorVars, crashes>>
      /\ running' = [running EXCEPT ![a] = running[a] \ {d}]
      /\ due' = [due EXCEPT ![d] = Tail(due[d])]
      /\ phase' = [phase EXCEPT ![d] = "starting"]
  BY EndRunEffect
<1>3. /\ Tail(due[d]) \in Seq(0..MaxClock)
      /\ \A i \in 1..Len(Tail(due[d])) :
           i + 1 \in 1..Len(due[d]) /\ Tail(due[d])[i] = due[d][i + 1]
  BY <1>1, <1>2, TailFacts DEF RestTyped
<1>4. /\ PassTyped' /\ due' \in [Daemons -> Seq(0..MaxClock)]
      /\ \A e \in Daemons : e # d => VisitIsFixed(e)'
      /\ phase'[d] = "starting" /\ due'[d] = Tail(due[d])
  BY <1>2, <1>3, InsideVisit
<1>5. Due(d)' = Due(d) /\ Eligible(d)' = Eligible(d)
  BY <1>2, VisitStays
<1>6. /\ now[d] <= clock /\ Due(d) # Invalid /\ Due(d) # <<>>
      /\ \A i \in 1..Len(due[d]) : \E j \in 1..Len(Due(d)) : due[d][i] = Due(d)[j]
  BY <1>1, <1>2 DEF VisitInv, VisitIsFixed, InVisit
<1>7. \A i \in 1..Len(Tail(due[d])) : \E j \in 1..Len(Due(d)) : Tail(due[d])[i] = Due(d)[j]
  BY <1>3, <1>6
<1>8. VisitIsFixed(d)'
  BY <1>2, <1>4, <1>5, <1>6, <1>7 DEF VisitIsFixed, InVisit
<1>9. RestTyped'
  <2> HIDE DEF a
  <2>1. running' \in [Automations -> SUBSET (Daemons \cup {"person"})]
    BY <1>1, <1>2 DEF RestTyped
  <2> QED
    BY <1>1, <1>2, <1>4, <2>1 DEF RestTyped, historyVars, operatorVars
<1> QED
  BY <1>4, <1>8, <1>9 DEF TypeOK, PassTyped, RestTyped, TypeInv, VisitInv

\* Time, persons and operators leave the passes alone.
LEMMA PassesStay ==
  ASSUME TypeInv, UNCHANGED passVars, clock' \in Int, clock <= clock'
  PROVE  PassTyped' /\ VisitInv'
<1>1. TypeOK /\ VisitInv /\ PassTyped
  BY BothTyped DEF TypeInv
<1>2. phase' = phase /\ now' = now /\ todo' = todo /\ snapshot' = snapshot /\ due' = due
  BY DEF passVars
<1>3. PassTyped'
  BY <1>1, <1>2 DEF PassTyped
<1>4. ASSUME NEW e \in Daemons
      PROVE  VisitIsFixed(e)'
  <2>1. VisitIsFixed(e) /\ clock \in Int /\ now[e] \in Int
    BY <1>1, ConstantFacts DEF VisitInv, TypeOK
  <2> QED
    BY <1>2, <2>1, FixedStays
<1> QED
  BY <1>3, <1>4 DEF VisitInv

LEMMA WorldTypes ==
  ASSUME TypeInv,
         \/ Tick \/ \E a \in Automations : StartManual(a) \/ EndManual(a)
         \/ \E o \in Operators, a \in Automations, intent \in Intents : ReadRow(o, a, intent)
         \/ \E o \in Operators : WriteRow(o) \/ DeleteRow(o)
  PROVE  TypeInv'
<1>1. TypeOK /\ VisitInv /\ PassTyped /\ RestTyped
  BY BothTyped DEF TypeInv
<1>2. clock \in 0..MaxClock /\ clock \in Int /\ clock <= clock
  BY <1>1, ConstantFacts DEF RestTyped
<1>3. UNCHANGED passVars /\ clock' \in Int /\ clock <= clock' /\ RestTyped'
  <2>1. CASE Tick
    <3>1. clock' \in 0..MaxClock /\ clock' \in Int /\ clock <= clock'
      BY <1>2, <2>1, ConstantFacts DEF Tick
    <3> QED
      BY <1>1, <2>1, <3>1 DEF Tick, RestTyped, passVars, historyVars, operatorVars
  <2>2. ASSUME NEW a \in Automations, StartManual(a)
        PROVE  UNCHANGED <<clock, passVars>> /\ RestTyped'
    <3>1. running' = [running EXCEPT ![a] = running[a] \cup {"person"}]
      BY <2>2 DEF StartManual
    <3>2. running' \in [Automations -> SUBSET (Daemons \cup {"person"})]
      BY <1>1, <3>1 DEF RestTyped
    <3> QED
      BY <1>1, <2>2, <3>2 DEF StartManual, RestTyped, passVars, operatorVars
  <2>3. ASSUME NEW a \in Automations, EndManual(a)
        PROVE  UNCHANGED <<clock, passVars>> /\ RestTyped'
    <3>1. running' = [running EXCEPT ![a] = running[a] \ {"person"}]
      BY <2>3 DEF EndManual
    <3>2. running' \in [Automations -> SUBSET (Daemons \cup {"person"})]
      BY <1>1, <3>1 DEF RestTyped
    <3> QED
      BY <1>1, <2>3, <3>2 DEF EndManual, RestTyped, passVars, historyVars, operatorVars
  <2>4. ASSUME NEW o \in Operators, NEW a \in Automations, NEW intent \in Intents,
               ReadRow(o, a, intent)
        PROVE  UNCHANGED <<clock, passVars>> /\ RestTyped'
    <3>1. registry[a] \in RowType
      BY <1>1, <2>4 DEF ReadRow, RestTyped
    <3>2. held' = [held EXCEPT ![o] = [of |-> a, row |-> registry[a], intent |-> intent]]
      BY <2>4 DEF ReadRow
    <3>3. held' \in [Operators -> {Absent} \cup [of : Automations, row : RowType, intent : Intents]]
      BY <1>1, <3>1, <3>2 DEF RestTyped
    <3> QED
      BY <1>1, <2>4, <3>3 DEF ReadRow, RestTyped, passVars, historyVars
  <2>5. ASSUME NEW o \in Operators, WriteRow(o)
        PROVE  UNCHANGED <<clock, passVars>> /\ RestTyped'
    <3> DEFINE row == Altered(held[o].row, held[o].intent)
               a == held[o].of
    <3>1. a \in Automations /\ held[o].row \in RowType
      BY <1>1, <2>5 DEF WriteRow, RestTyped
    <3>2. row \in RowType /\ row.state \in States
      BY <3>1 DEF Altered, RowType, States
    <3>3. /\ registry' = [registry EXCEPT ![a] = row]
          /\ ordered' = [ordered EXCEPT ![a] = row.state]
          /\ held' = [held EXCEPT ![o] = Absent]
          /\ UNCHANGED <<clock, running, passVars, historyVars, crashes>>
      BY <2>5 DEF WriteRow
    <3> HIDE DEF row, a
    <3>4. registry' \in [Automations -> RowType \cup {Absent}]
      BY <1>1, <3>1, <3>2, <3>3 DEF RestTyped
    <3>5. ordered' \in [Automations -> States \cup {"none"}]
      BY <1>1, <3>1, <3>2, <3>3 DEF RestTyped
    <3>6. held' \in [Operators -> {Absent} \cup [of : Automations, row : RowType, intent : Intents]]
      BY <1>1, <3>3 DEF RestTyped
    <3> QED
      BY <1>1, <3>3, <3>4, <3>5, <3>6 DEF RestTyped, passVars, historyVars
  <2>6. ASSUME NEW o \in Operators, DeleteRow(o)
        PROVE  UNCHANGED <<clock, passVars>> /\ RestTyped'
    <3>1. registry' = registry \/ registry' = [registry EXCEPT ![held[o].of] = Absent]
      BY <2>6 DEF DeleteRow
    <3>2. registry' \in [Automations -> RowType \cup {Absent}]
      BY <1>1, <3>1 DEF RestTyped
    <3>3. held' = [held EXCEPT ![o] = Absent]
      BY <2>6 DEF DeleteRow
    <3>4. held' \in [Operators -> {Absent} \cup [of : Automations, row : RowType, intent : Intents]]
      BY <1>1, <3>3 DEF RestTyped
    <3> QED
      BY <1>1, <2>6, <3>2, <3>4 DEF DeleteRow, RestTyped, passVars, historyVars
  <2> QED
    BY <1>2, <2>1, <2>2, <2>3, <2>4, <2>5, <2>6
<1>4. PassTyped' /\ VisitInv'
  BY <1>3, PassesStay
<1> QED
  BY <1>3, <1>4 DEF TypeOK, PassTyped, RestTyped, TypeInv

LEMMA DaemonTypes ==
  ASSUME TypeInv, NEW d \in Daemons, CrashDaemon(d) \/ StartDaemon(d)
  PROVE  TypeInv'
<1>1. TypeOK /\ VisitInv /\ PassTyped /\ RestTyped
  BY BothTyped DEF TypeInv
<1>2. CASE CrashDaemon(d)
  <2>1. DropPass(d, "down")
    BY <1>2 DEF CrashDaemon
  <2>2. PassTyped' /\ Elsewhere(d) /\ phase'[d] = "down"
    BY <1>1, <2>1, DropEffect
  <2>3. crashes' \in 0..MaxCrashes
    BY <1>1, <1>2, SchedulerPassAssumption DEF CrashDaemon, RestTyped
  <2>4. due' = [due EXCEPT ![d] = <<>>]
    BY <1>2 DEF CrashDaemon
  <2>5. due' \in [Daemons -> Seq(0..MaxClock)]
    <3>1. <<>> \in Seq(0..MaxClock)
      OBVIOUS
    <3> QED
      BY <1>1, <2>4, <3>1 DEF RestTyped
  <2>6. \A e \in Daemons : e # d => due'[e] = due[e]
    BY <1>1, <2>4 DEF RestTyped
  <2>7. clock' = clock /\ RestTyped'
    BY <1>1, <1>2, <2>3, <2>5 DEF CrashDaemon, RestTyped, historyVars, operatorVars
  <2>8. VisitInv'
    BY <1>1, <2>2, <2>6, <2>7, BetweenVisits
  <2> QED
    BY <2>2, <2>7, <2>8 DEF TypeOK, PassTyped, RestTyped, TypeInv
<1>3. CASE StartDaemon(d)
  <2>1. /\ phase' = [phase EXCEPT ![d] = "idle"]
        /\ running' = [a \in Automations |-> {}]
        /\ UNCHANGED <<clock, registry, now, todo, snapshot, due, historyVars, operatorVars, crashes>>
    BY <1>3 DEF StartDaemon
  <2>2. PassTyped' /\ Elsewhere(d) /\ phase'[d] = "idle"
    BY <1>1, <2>1 DEF PassTyped, Elsewhere
  <2>3. RestTyped'
    BY <1>1, <2>1 DEF RestTyped, historyVars, operatorVars
  <2>4. VisitInv'
    BY <1>1, <2>1, <2>2, BetweenVisits
  <2> QED
    BY <2>2, <2>3, <2>4 DEF TypeOK, PassTyped, RestTyped, TypeInv
<1> QED
  BY <1>2, <1>3

LEMMA FirstRows ==
  ASSUME NEW a \in Automations \ Unscheduled
  PROVE  NextRun(TriggerOf[a], 0) \in Instants \cup {Never}
<1>1. NextRun(TriggerOf[a], 0) \in Instants \cup {Never, Invalid}
  BY ConstantFacts, NextRunIsAhead
<1> QED
  BY <1>1, SchedulerPassAssumption

LEMMA InitTypes ==
  ASSUME Init
  PROVE  TypeInv
<1>1. \A a \in Automations : registry[a] \in RowType
  BY FirstRows DEF Init, RowType, States
<1>2. RestTyped
  <2>1. <<>> \in Seq(0..MaxClock)
    OBVIOUS
  <2>2. registry \in [Automations -> RowType \cup {Absent}]
    BY <1>1 DEF Init
  <2>3. 0 \in 0..MaxClock /\ 0 \in 0..MaxCrashes
    BY SchedulerPassAssumption
  <2> QED
    BY <2>1, <2>2, <2>3 DEF Init, RestTyped
<1>3. PassTyped
  BY Suffixes, ConstantFacts DEF Init, PassTyped, Suffix
<1>4. VisitInv
  BY DEF Init, VisitInv, VisitIsFixed, InVisit
<1> QED
  BY <1>2, <1>3, <1>4, BothTyped DEF TypeInv

LEMMA NextTypes ==
  ASSUME TypeInv, [Next]_vars
  PROVE  TypeInv'
<1>1. ASSUME NEW d \in Daemons, PassStep(d)
      PROVE  TypeInv'
  BY <1>1, PassTypes, SaveTypes, BeginRunsTypes, StartRunTypes, EndRunTypes DEF PassStep
<1>2. ASSUME UNCHANGED vars
      PROVE  TypeInv'
  <2>1. clock \in Int /\ clock <= clock
    BY ConstantFacts DEF TypeInv, TypeOK
  <2>2. PassTyped' /\ VisitInv'
    BY <1>2, <2>1, PassesStay DEF vars
  <2>3. RestTyped
    BY BothTyped DEF TypeInv
  <2>4. RestTyped'
    BY <1>2, <2>3 DEF RestTyped, vars, passVars, historyVars, operatorVars
  <2> QED
    BY <2>2, <2>4 DEF TypeOK, PassTyped, RestTyped, TypeInv
<1> QED
  BY <1>1, <1>2, WorldTypes, DaemonTypes DEF Next

\* The rows, the passes and what operators hold keep their types, and what a visit found
\* due stays what is due until it ends, whatever is done to the Registry meanwhile.
THEOREM SchedulerTypeInvariant == Spec => []TypeInv
<1>1. Init => TypeInv
  BY InitTypes
<1>2. TypeInv /\ [Next]_vars => TypeInv'
  BY NextTypes
<1> QED
  BY <1>1, <1>2, PTL DEF Spec

-----------------------------------------------------------------------------
(***************************************************************************)
(* Where the next run of a row comes from: whoever writes a row writes     *)
(* what some copy says already, but for the end of a visit.                *)
(***************************************************************************)
Computed(d, a, next) ==
  /\ a = Current(d) /\ next # Invalid
  /\ \/ Expire(d) /\ next = NextRun(TriggerOf[a], now[d])
     \/ SkipMisfire(d) /\ next = NextRun(TriggerOf[a], now[d])
     \/ FinishVisit(d) /\ next = NextRun(TriggerOf[a], AdvanceFrom(d))

LEMMA CopiesOfPass ==
  ASSUME TypeOK, NEW d \in Daemons, Elsewhere(d), UNCHANGED held,
         NEW a \in Automations, registry'[a] = registry[a],
         snapshot'[d][a] \in {Absent, snapshot[d][a], registry[a]},
         NEW next, Copied(a, next)'
  PROVE  Copied(a, next)
<1>1. \A e \in Daemons : snapshot'[e][a] \in {Absent, snapshot[e][a], registry[a]}
  BY DEF Elsewhere
<1> QED
  BY <1>1 DEF Copied

LEMMA SavedCopies ==
  ASSUME TypeInv, NEW d \in Daemons, Expire(d) \/ SkipMisfire(d) \/ FinishVisit(d),
         NEW a \in Automations, NEW next, Copied(a, next)'
  PROVE  Copied(a, next) \/ Computed(d, a, next)
<1>1. TypeOK /\ VisitInv
  BY DEF TypeInv
<1>2. /\ todo[d] # <<>> /\ Eligible(d)
      /\ phase[d] = "starting" => Due(d) # Invalid /\ Due(d) # <<>>
  BY <1>1 DEF Expire, SkipMisfire, FinishVisit, MayEvaluate, Visiting, VisitInv, VisitIsFixed, InVisit
<1>3. PICK x \in Instants :
        /\ SaveAndLeave(d, NextRun(TriggerOf[Current(d)], x))
        /\ \/ x = now[d] /\ (Expire(d) \/ SkipMisfire(d))
           \/ x = AdvanceFrom(d) /\ FinishVisit(d)
  <2>1. CASE Expire(d) \/ SkipMisfire(d)
    <3>1. now[d] \in Instants
      BY <1>1, ConstantFacts DEF TypeOK
    <3> QED
      BY <2>1, <3>1 DEF Expire, SkipMisfire
  <2>2. CASE FinishVisit(d)
    <3>1. phase[d] = "starting" /\ SaveAndLeave(d, NextRun(TriggerOf[Current(d)], AdvanceFrom(d)))
      BY <2>2 DEF FinishVisit
    <3>2. AdvanceFrom(d) \in 0..MaxClock
      BY <1>1, <1>2, <3>1, DueFacts DEF Eligible
    <3> QED
      BY <2>2, <3>1, <3>2, ConstantFacts
  <2> QED
    BY <2>1, <2>2
<1> DEFINE new == NextRun(TriggerOf[Current(d)], x)
<1>4. /\ Elsewhere(d)
      /\ \/ registry' = registry /\ snapshot'[d] = [b \in Automations |-> Absent]
         \/ /\ new \in Instants \cup {Never}
            /\ registry' = [registry EXCEPT ![Current(d)] = [Row(d) EXCEPT !.next = new]]
            /\ snapshot'[d] = [snapshot[d] EXCEPT ![Current(d)] = Absent]
  BY <1>1, <1>2, <1>3, SaveEffect
<1>5. UNCHANGED held
  BY DEF Expire, SkipMisfire, FinishVisit, operatorVars
<1>6. snapshot[d] \in [Automations -> RowType \cup {Absent}]
      /\ registry \in [Automations -> RowType \cup {Absent}]
  BY <1>1 DEF TypeOK
<1>7. snapshot'[d][a] \in {Absent, snapshot[d][a]}
  BY <1>4, <1>6
<1>8. CASE registry'[a] = registry[a]
  BY <1>1, <1>4, <1>5, <1>7, <1>8, CopiesOfPass
<1>9. CASE registry'[a] # registry[a]
  <2>1. /\ new \in Instants \cup {Never} /\ a = Current(d)
        /\ registry'[a] = [Row(d) EXCEPT !.next = new]
    BY <1>4, <1>6, <1>9
  <2>2. Row(d) \in RowType
    BY <1>1, <1>2, VisitFacts DEF Eligible
  <2>3. registry'[a].next = new
    BY <2>1, <2>2 DEF RowType
  <2>4. new # Invalid
    BY <2>1, ConstantFacts DEF Instants
  <2>5. next = new \/ Copied(a, next)
    <3>1. \A e \in Daemons : snapshot'[e][a] \in {Absent, snapshot[e][a]}
      BY <1>4, <1>7 DEF Elsewhere
    <3> QED
      BY <1>5, <2>3, <3>1 DEF Copied
  <2> QED
    BY <1>3, <2>1, <2>4, <2>5 DEF Computed
<1> QED
  BY <1>8, <1>9

\* No step but the end of a visit makes a next run that no copy of the row had.
LEMMA CopiesSpread ==
  ASSUME TypeInv, [Next]_vars, NEW a \in Automations, NEW next, Copied(a, next)'
  PROVE  Copied(a, next) \/ \E d \in Daemons : Computed(d, a, next)
<1>1. TypeOK /\ VisitInv
  BY DEF TypeInv
<1>2. ASSUME NEW d \in Daemons, PassStep(d)
      PROVE  Copied(a, next) \/ Computed(d, a, next)
  <2>1. CASE BeginPass(d)
    <3>1. /\ snapshot' = [snapshot EXCEPT ![d] = registry]
          /\ phase' = [phase EXCEPT ![d] = "visiting"] /\ now' = [now EXCEPT ![d] = clock]
          /\ todo' = [todo EXCEPT ![d] = Order]
          /\ registry' = registry /\ UNCHANGED held
      BY <2>1 DEF BeginPass, operatorVars
    <3>2. Elsewhere(d) /\ snapshot'[d] = registry
      BY <1>1, <3>1 DEF TypeOK, Elsewhere
    <3> QED
      BY <1>1, <3>1, <3>2, CopiesOfPass
  <2>2. CASE EndPass(d) \/ FailPass(d)
    <3>1. (DropPass(d, "idle") \/ DropPass(d, "down")) /\ registry' = registry /\ UNCHANGED held
      BY <2>2 DEF EndPass, FailPass, operatorVars
    <3>2. Elsewhere(d) /\ snapshot'[d][a] = Absent
      BY <1>1, <3>1, DropEffect
    <3> QED
      BY <1>1, <3>1, <3>2, CopiesOfPass
  <2>3. CASE PassOver(d)
    <3>1. Leave(d) /\ todo[d] # <<>> /\ registry' = registry /\ UNCHANGED held
      BY <2>3 DEF PassOver, Visiting, operatorVars
    <3>2. Elsewhere(d) /\ snapshot'[d] = [snapshot[d] EXCEPT ![Current(d)] = Absent]
      BY <1>1, <3>1, LeaveEffect
    <3>3. snapshot[d] \in [Automations -> RowType \cup {Absent}]
      BY <1>1 DEF TypeOK
    <3>4. snapshot'[d][a] \in {Absent, snapshot[d][a]}
      BY <3>2, <3>3
    <3> QED
      BY <1>1, <3>1, <3>2, <3>4, CopiesOfPass
  <2>4. CASE BeginRuns(d) \/ StartRun(d) \/ EndRun(d)
    BY <2>4 DEF BeginRuns, StartRun, EndRun, Copied, operatorVars
  <2>5. CASE Expire(d) \/ SkipMisfire(d) \/ FinishVisit(d)
    BY <2>5, SavedCopies
  <2> QED
    BY <1>2, <2>1, <2>2, <2>3, <2>4, <2>5 DEF PassStep
<1>3. CASE Tick \/ UNCHANGED vars
  BY <1>3 DEF Tick, Copied, vars, passVars, operatorVars
<1>4. ASSUME NEW b \in Automations, StartManual(b) \/ EndManual(b)
      PROVE  Copied(a, next)
  BY <1>4 DEF StartManual, EndManual, Copied, passVars, operatorVars
<1>5. ASSUME NEW o \in Operators, NEW b \in Automations, NEW intent \in Intents,
             ReadRow(o, b, intent)
      PROVE  Copied(a, next)
  <2>1. /\ registry[b] # Absent /\ UNCHANGED <<registry, snapshot>>
        /\ held' = [held EXCEPT ![o] = [of |-> b, row |-> registry[b], intent |-> intent]]
    BY <1>5 DEF ReadRow, passVars
  <2>2. \A p \in Operators : p # o => held'[p] = held[p]
    BY <1>1, <2>1 DEF TypeOK
  <2>3. held'[o].of = b /\ held'[o].row = registry[b]
    BY <1>1, <2>1 DEF TypeOK
  <2> QED
    BY <2>1, <2>2, <2>3 DEF Copied
<1>6. ASSUME NEW o \in Operators, WriteRow(o) \/ DeleteRow(o)
      PROVE  Copied(a, next)
  <2>1. held[o] # Absent /\ UNCHANGED snapshot /\ held' = [held EXCEPT ![o] = Absent]
    BY <1>6 DEF WriteRow, DeleteRow, passVars
  <2>2. \A p \in Operators : held'[p] \in {held[p], Absent}
    BY <1>1, <2>1 DEF TypeOK
  <2>3. held[o].row \in RowType /\ held[o].of \in Automations
    BY <1>1, <2>1 DEF TypeOK
  <2>4. Altered(held[o].row, held[o].intent).next = held[o].row.next
    BY <2>3 DEF Altered, RowType
  <2>5. \/ registry'[a] \in {registry[a], Absent}
        \/ held[o].of = a /\ registry'[a].next = held[o].row.next
    <3>1. registry \in [Automations -> RowType \cup {Absent}]
      BY <1>1 DEF TypeOK
    <3>2. CASE WriteRow(o)
      <4> DEFINE row == Altered(held[o].row, held[o].intent)
      <4>1. registry' = [registry EXCEPT ![held[o].of] = row]
        BY <3>2 DEF WriteRow
      <4> HIDE DEF row
      <4>2. registry'[a] = registry[a] \/ (held[o].of = a /\ registry'[a] = row)
        BY <3>1, <4>1
      <4> QED
        BY <2>4, <4>2 DEF row
    <3>3. CASE DeleteRow(o)
      BY <3>1, <3>3 DEF DeleteRow
    <3> QED
      BY <1>6, <3>2, <3>3
  <2> QED
    BY <2>1, <2>2, <2>5 DEF Copied
<1>7. ASSUME NEW d \in Daemons, CrashDaemon(d) \/ StartDaemon(d)
      PROVE  Copied(a, next)
  <2>1. CASE CrashDaemon(d)
    <3>1. DropPass(d, "down") /\ registry' = registry /\ UNCHANGED held
      BY <2>1 DEF CrashDaemon, operatorVars
    <3>2. Elsewhere(d) /\ snapshot'[d][a] = Absent
      BY <1>1, <3>1, DropEffect
    <3> QED
      BY <1>1, <3>1, <3>2, CopiesOfPass
  <2>2. CASE StartDaemon(d)
    BY <2>2 DEF StartDaemon, Copied, operatorVars
  <2> QED
    BY <1>7, <2>1, <2>2
<1> QED
  BY <1>2, <1>3, <1>4, <1>5, <1>6, <1>7 DEF Next

-----------------------------------------------------------------------------
(***************************************************************************)
(* catch_up loses no occurrence.                                           *)
(***************************************************************************)
LEMMA EvaluatedGrows ==
  ASSUME TypeInv, [Next]_vars
  PROVE  \A a \in Automations : evaluated[a] \subseteq evaluated'[a]
<1>1. TypeOK
  BY DEF TypeInv
<1>2. ASSUME NEW d \in Daemons, PassStep(d)
      PROVE  \A a \in Automations : evaluated[a] \subseteq evaluated'[a]
  <2>1. CASE StartRun(d)
    <3>1. evaluated' = [evaluated EXCEPT ![Current(d)] = evaluated[Current(d)] \cup {Head(due[d])}]
      BY <2>1, StartRunEffect
    <3> QED
      BY <1>1, <3>1 DEF TypeOK
  <2>2. CASE ~StartRun(d)
    <3>1. evaluated' = evaluated
      BY <1>2, <2>2 DEF PassStep, BeginPass, EndPass, PassOver, FailPass, Expire, SkipMisfire,
         BeginRuns, EndRun, FinishVisit, historyVars
    <3> QED
      BY <3>1
  <2> QED
    BY <2>1, <2>2
<1>3. CASE ~\E d \in Daemons : PassStep(d)
  <2>1. evaluated' = evaluated
    BY <1>3 DEF Next, Tick, StartManual, EndManual, ReadRow, WriteRow, DeleteRow, CrashDaemon,
       StartDaemon, vars, historyVars
  <2> QED
    BY <2>1
<1> QED
  BY <1>2, <1>3

\* Whoever acts outside a visit of d leaves it alone, or the visit is over.
LEMMA OutsideTheVisit ==
  ASSUME TypeInv, [Next]_vars, NEW d \in Daemons, ~BeginRuns(d), ~StartRun(d), ~EndRun(d)
  PROVE  \/ phase'[d] \notin {"starting", "running"}
         \/ /\ phase'[d] = phase[d] /\ due'[d] = due[d] /\ todo'[d] = todo[d]
            /\ snapshot'[d] = snapshot[d] /\ now'[d] = now[d]
<1>1. TypeOK /\ VisitInv
  BY DEF TypeInv
<1>2. ASSUME PassStep(d)
      PROVE  phase'[d] \notin {"starting", "running"}
  <2>1. CASE BeginPass(d)
    BY <1>1, <2>1 DEF BeginPass, TypeOK
  <2>2. CASE EndPass(d) \/ FailPass(d)
    BY <1>1, <2>2 DEF EndPass, FailPass, DropPass, TypeOK
  <2>3. CASE PassOver(d)
    BY <1>1, <2>3 DEF PassOver, Leave, TypeOK
  <2>4. CASE Expire(d) \/ SkipMisfire(d) \/ FinishVisit(d)
    <3>1. phase' = [phase EXCEPT ![d] = "visiting"] \/ phase' = [phase EXCEPT ![d] = "down"]
      BY <2>4 DEF Expire, SkipMisfire, FinishVisit, SaveAndLeave, Leave, DropPass
    <3> QED
      BY <1>1, <3>1 DEF TypeOK
  <2> QED
    BY <1>2, <2>1, <2>2, <2>3, <2>4 DEF PassStep
<1>3. ASSUME NEW e \in Daemons, e # d, PassStep(e)
      PROVE  /\ phase'[d] = phase[d] /\ due'[d] = due[d] /\ todo'[d] = todo[d]
             /\ snapshot'[d] = snapshot[d] /\ now'[d] = now[d]
  <2>1. CASE BeginPass(e)
    BY <1>1, <1>3, <2>1 DEF BeginPass, TypeOK
  <2>2. CASE EndPass(e) \/ FailPass(e)
    <3>1. DropPass(e, "idle") \/ DropPass(e, "down")
      BY <2>2 DEF EndPass, FailPass
    <3>2. Elsewhere(e)
      BY <1>1, <3>1, DropEffect
    <3> QED
      BY <1>3, <2>2, <3>2 DEF Elsewhere, EndPass, FailPass
  <2>3. CASE PassOver(e)
    <3>1. Leave(e) /\ todo[e] # <<>>
      BY <2>3 DEF PassOver, Visiting
    <3>2. Elsewhere(e)
      BY <1>1, <3>1, LeaveEffect
    <3> QED
      BY <1>3, <2>3, <3>2 DEF Elsewhere, PassOver
  <2>4. CASE Expire(e) \/ SkipMisfire(e) \/ FinishVisit(e)
    <3>1. PICK next : SaveAndLeave(e, next)
      BY <2>4 DEF Expire, SkipMisfire, FinishVisit
    <3>2. todo[e] # <<>>
      BY <1>1, <2>4 DEF Expire, SkipMisfire, FinishVisit, MayEvaluate, Visiting, VisitInv,
         VisitIsFixed, InVisit
    <3>3. Elsewhere(e)
      BY <1>1, <3>1, <3>2, LeaveEffect, DropEffect DEF SaveAndLeave
    <3> QED
      BY <1>3, <2>4, <3>3 DEF Elsewhere, Expire, SkipMisfire, FinishVisit
  <2>5. CASE BeginRuns(e)
    BY <1>1, <1>3, <2>5 DEF BeginRuns, TypeOK
  <2>6. CASE StartRun(e)
    <3>1. \/ /\ phase' = [phase EXCEPT ![e] = "running"] /\ due' = [due EXCEPT ![e] = due[e]]
          \/ /\ phase' = [phase EXCEPT ![e] = "starting"] /\ due' = [due EXCEPT ![e] = Tail(due[e])]
      BY <2>6, StartRunEffect
    <3>2. UNCHANGED <<now, todo, snapshot>>
      BY <2>6, StartRunEffect
    <3> QED
      BY <1>1, <1>3, <3>1, <3>2 DEF TypeOK
  <2>7. CASE EndRun(e)
    BY <1>1, <1>3, <2>7 DEF EndRun, TypeOK
  <2> QED
    BY <1>3, <2>1, <2>2, <2>3, <2>4, <2>5, <2>6, <2>7 DEF PassStep
<1>4. ASSUME NEW e \in Daemons, CrashDaemon(e)
      PROVE  \/ phase'[d] \notin {"starting", "running"}
             \/ /\ phase'[d] = phase[d] /\ due'[d] = due[d] /\ todo'[d] = todo[d]
                /\ snapshot'[d] = snapshot[d] /\ now'[d] = now[d]
  <2>1. Elsewhere(e) /\ phase'[e] = "down"
    BY <1>1, <1>4, DropEffect DEF CrashDaemon
  <2>2. e # d => due'[d] = due[d]
    BY <1>1, <1>4 DEF CrashDaemon, TypeOK
  <2> QED
    BY <2>1, <2>2 DEF Elsewhere
<1>5. ASSUME NEW e \in Daemons, StartDaemon(e)
      PROVE  \/ phase'[d] \notin {"starting", "running"}
             \/ /\ phase'[d] = phase[d] /\ due'[d] = due[d] /\ todo'[d] = todo[d]
                /\ snapshot'[d] = snapshot[d] /\ now'[d] = now[d]
  BY <1>1, <1>5 DEF StartDaemon, TypeOK
<1>6. CASE UNCHANGED passVars
  BY <1>6 DEF passVars
<1>7. \/ \E e \in Daemons : PassStep(e) \/ CrashDaemon(e) \/ StartDaemon(e)
      \/ UNCHANGED passVars
  BY DEF Next, Tick, StartManual, EndManual, ReadRow, WriteRow, DeleteRow, vars
<1> QED
  BY <1>2, <1>3, <1>4, <1>5, <1>6, <1>7

LEMMA DealtStays ==
  ASSUME NEW d, DealtWith(d), todo'[d] = todo[d], snapshot'[d] = snapshot[d], now'[d] = now[d],
         InVisit(d) => phase'[d] = phase[d] /\ due'[d] = due[d],
         ~InVisit(d) => phase'[d] \notin {"starting", "running"},
         InVisit(d) => evaluated[Current(d)] \subseteq evaluated'[Current(d)]
  PROVE  DealtWith(d)'
<1>1. Due(d)' = Due(d) /\ Current(d)' = Current(d)
  BY VisitStays
<1> QED
  BY <1>1 DEF DealtWith, InVisit

LEMMA DealtElsewhere ==
  ASSUME TypeInv, [Next]_vars, NEW d \in Daemons, DealtWith(d),
         ~BeginRuns(d), ~StartRun(d), ~EndRun(d)
  PROVE  DealtWith(d)'
<1>1. TypeOK /\ VisitInv /\ (todo[d] # <<>> => Current(d) \in Automations)
  BY VisitFacts DEF TypeInv
<1>2. InVisit(d) => evaluated[Current(d)] \subseteq evaluated'[Current(d)]
  BY <1>1, EvaluatedGrows DEF VisitInv, VisitIsFixed
<1>3. CASE phase'[d] \notin {"starting", "running"}
  BY <1>3 DEF DealtWith, InVisit
<1>4. CASE phase'[d] \in {"starting", "running"}
  BY <1>2, <1>4, OutsideTheVisit, DealtStays DEF InVisit
<1> QED
  BY <1>3, <1>4

LEMMA DealtInside ==
  ASSUME TypeInv, [Next]_vars, NEW d \in Daemons, DealtWith(d),
         BeginRuns(d) \/ StartRun(d) \/ EndRun(d)
  PROVE  DealtWith(d)'
<1>1. TypeOK /\ VisitInv
  BY DEF TypeInv
<1>2. CASE BeginRuns(d)
  <2>1. /\ UNCHANGED <<now, todo, snapshot>>
        /\ phase' = [phase EXCEPT ![d] = "starting"] /\ due' = [due EXCEPT ![d] = Due(d)]
    BY <1>2 DEF BeginRuns
  <2>2. phase'[d] = "starting" /\ due'[d] = Due(d)
    BY <1>1, <2>1 DEF TypeOK
  <2>3. Due(d)' = Due(d)
    BY <2>1, VisitStays
  <2> QED
    BY <2>2, <2>3 DEF DealtWith
<1>3. CASE StartRun(d)
  <2> DEFINE a == Current(d)
             t == Head(due[d])
  <2>1. /\ phase[d] = "starting" /\ due[d] # <<>> /\ todo[d] # <<>>
        /\ a \in Automations
        /\ UNCHANGED <<now, todo, snapshot>>
        /\ evaluated' = [evaluated EXCEPT ![a] = evaluated[a] \cup {t}]
        /\ \/ /\ phase' = [phase EXCEPT ![d] = "running"]
              /\ due' = [due EXCEPT ![d] = due[d]]
           \/ /\ phase' = [phase EXCEPT ![d] = "starting"]
              /\ due' = [due EXCEPT ![d] = Tail(due[d])]
    BY <1>3, StartRunEffect
  <2>2. Due(d)' = Due(d) /\ Current(d)' = a
    BY <2>1, VisitStays
  <2> HIDE DEF a, t
  <2>3. evaluated'[a] = evaluated[a] \cup {t}
    BY <1>1, <2>1 DEF TypeOK
  <2>4. \/ phase'[d] = "running" /\ due'[d] = due[d]
        \/ phase'[d] = "starting" /\ due'[d] = Tail(due[d])
    BY <1>1, <2>1 DEF TypeOK
  <2>5. due[d] \in Seq(0..MaxClock)
    BY <1>1 DEF TypeOK
  <2>6. /\ t = due[d][1] /\ Len(due[d]) \in Nat /\ Len(Tail(due[d])) = Len(due[d]) - 1
        /\ \A i \in 1..Len(Tail(due[d])) : Tail(due[d])[i] = due[d][i + 1]
    BY <2>1, <2>5, TailFacts DEF t
  <2>7. \A j \in 1..Len(Due(d)) :
           \/ Due(d)[j] \in evaluated[a]
           \/ \E i \in 1..Len(due[d]) : due[d][i] = Due(d)[j]
    BY <2>1 DEF DealtWith, InVisit, a
  <2>8. ASSUME NEW j \in 1..Len(Due(d))
        PROVE  \/ Due(d)[j] \in evaluated'[a]
               \/ \E i \in 1..Len(due'[d]) : due'[d][i] = Due(d)[j]
    <3>1. CASE Due(d)[j] \in evaluated[a]
      BY <2>3, <3>1
    <3>2. ASSUME NEW i \in 1..Len(due[d]), due[d][i] = Due(d)[j]
          PROVE  \/ Due(d)[j] \in evaluated'[a]
                 \/ \E k \in 1..Len(due'[d]) : due'[d][k] = Due(d)[j]
      <4>1. CASE i = 1
        BY <2>3, <2>6, <3>2, <4>1
      <4>2. CASE i # 1 /\ due'[d] = Tail(due[d])
        <5>1. i - 1 \in 1..Len(Tail(due[d])) /\ i - 1 + 1 = i
          BY <2>6, <4>2
        <5>2. Tail(due[d])[i - 1] = due[d][i]
          BY <2>6, <5>1
        <5> QED
          BY <3>2, <4>2, <5>1, <5>2
      <4> QED
        BY <2>4, <3>2, <4>1, <4>2
    <3> QED
      BY <2>7, <3>1, <3>2
  <2>9. phase'[d] = "running" => Head(due'[d]) \in evaluated'[a]
    BY <2>3, <2>4 DEF t
  <2> QED
    BY <2>2, <2>8, <2>9 DEF DealtWith
<1>4. CASE EndRun(d)
  <2>1. /\ phase[d] = "running" /\ due[d] # <<>>
        /\ UNCHANGED <<now, todo, snapshot, evaluated>>
        /\ due' = [due EXCEPT ![d] = Tail(due[d])] /\ phase' = [phase EXCEPT ![d] = "starting"]
    BY <1>4, EndRunEffect DEF historyVars
  <2>2. Due(d)' = Due(d) /\ Current(d)' = Current(d)
    BY <2>1, VisitStays
  <2>3. phase'[d] = "starting" /\ due'[d] = Tail(due[d]) /\ due[d] \in Seq(0..MaxClock)
    BY <1>1, <2>1 DEF TypeOK
  <2>4. /\ Head(due[d]) = due[d][1] /\ Len(due[d]) \in Nat
        /\ Len(Tail(due[d])) = Len(due[d]) - 1
        /\ \A i \in 1..Len(Tail(due[d])) : Tail(due[d])[i] = due[d][i + 1]
    BY <2>1, <2>3, TailFacts
  <2>5. /\ Head(due[d]) \in evaluated[Current(d)]
        /\ \A j \in 1..Len(Due(d)) :
             \/ Due(d)[j] \in evaluated[Current(d)]
             \/ \E i \in 1..Len(due[d]) : due[d][i] = Due(d)[j]
    BY <2>1 DEF DealtWith, InVisit
  <2>6. ASSUME NEW j \in 1..Len(Due(d)), NEW i \in 1..Len(due[d]), due[d][i] = Due(d)[j], i # 1
        PROVE  \E k \in 1..Len(Tail(due[d])) : Tail(due[d])[k] = Due(d)[j]
    <3>1. i - 1 \in 1..Len(Tail(due[d])) /\ i - 1 + 1 = i
      BY <2>4, <2>6
    <3> QED
      BY <2>4, <2>6, <3>1
  <2>7. \A j \in 1..Len(Due(d)) :
           \/ Due(d)[j] \in evaluated[Current(d)]
           \/ \E k \in 1..Len(Tail(due[d])) : Tail(due[d])[k] = Due(d)[j]
    BY <2>4, <2>5, <2>6
  <2> QED
    BY <2>1, <2>2, <2>3, <2>7 DEF DealtWith
<1> QED
  BY <1>2, <1>3, <1>4

LEMMA NextEvaluated ==
  ASSUME TypeInv, EvaluatedInv, [Next]_vars
  PROVE  EvaluatedInv'
BY DealtInside, DealtElsewhere DEF EvaluatedInv

LEMMA OccurrencesFire ==
  ASSUME NEW a \in Automations
  PROVE  /\ \A t \in Occurrences(a) : t \in Fires(TriggerOf[a], 0) /\ t \in Nat
         /\ TriggerOf[a].kind = "cron" => Occurrences(a) = TriggerOf[a].fires
<1>1. TriggerOf[a] \in TriggerType /\ MaxClock \in Nat
  BY ConstantFacts
<1> QED
  BY <1>1, TriggerKinds, ConstantFacts DEF Occurrences, Fires, Instants

\* At the end of a visit the next run is one that passes over nothing.
LEMMA ReplayIsHonest ==
  ASSUME TypeInv, NEW d \in Daemons, todo[d] # <<>>, Eligible(d),
         Due(d) # Invalid, Due(d) # <<>>, Replayed(Current(d)),
         Honest(Current(d), Row(d).next, evaluated[Current(d)]),
         \A j \in 1..Len(Due(d)) : Due(d)[j] \in evaluated[Current(d)],
         NEW next, next = NextRun(TriggerOf[Current(d)], AdvanceFrom(d)), next # Invalid
  PROVE  Honest(Current(d), next, evaluated[Current(d)])
<1> DEFINE a == Current(d)
           trigger == TriggerOf[a]
           s == Scheduled(d)
           runs == Due(d)
           last == runs[Len(runs)]
           done == evaluated[a]
<1>1. TypeOK
  BY DEF TypeInv
<1>2. /\ a \in Automations /\ trigger \in TriggerType /\ Row(d) \in RowType
      /\ now[d] \in 0..MaxClock /\ CatchesUp(a)
  BY <1>1, VisitFacts DEF Eligible, Replayed
<1>3. s \in Instants /\ s <= now[d]
      /\ Chain(runs, trigger, s, now[d]) /\ Len(runs) >= 1
  BY <1>1, <1>2, DueFacts DEF Eligible
<1>4. next = NextRun(trigger, last)
  BY <1>2 DEF AdvanceFrom
<1>5. OnGrid(trigger, 0, s)
  <2>1. CASE Row(d).next = Never
    <3>1. trigger.kind # "interval"
      BY <2>1 DEF Honest
    <3> QED
      BY <3>1 DEF OnGrid
  <2>2. CASE Row(d).next # Never
    BY <2>2 DEF Honest, Scheduled
  <2> QED
    BY <2>1, <2>2
<1> HIDE DEF runs, s, last, trigger
<1>6. Len(runs) \in 1..Len(runs) /\ last \in Instants
  BY <1>3 DEF Chain, last
<1>7. OnGrid(trigger, 0, last)
  BY <1>2, <1>3, <1>5, <1>6, ChainOnGrid DEF last, trigger
<1>8. next \in Instants \cup {Never, Invalid}
  BY <1>2, <1>4, <1>6, NextRunIsAhead DEF trigger
<1>9. /\ next \in Instants => OnGrid(trigger, 0, next) /\ next \in Fires(trigger, 0)
      /\ \A t \in Fires(trigger, 0) : t > last => next \in Instants /\ next <= t
  BY <1>2, <1>4, <1>6, <1>7, NextRunIsNext DEF trigger
<1>10. trigger.kind = "interval" => next # Never
  BY <1>2, <1>4, <1>6, NextRunIsAhead DEF trigger
<1>11. ASSUME NEW t \in Occurrences(a)
       PROVE  (next # Never /\ next <= t) \/ t \in done
  <2>1. t \in Fires(trigger, 0) /\ t \in Nat /\ last \in Nat /\ s \in Nat
    BY <1>2, <1>3, <1>6, OccurrencesFire, ConstantFacts DEF trigger, Instants
  <2>2. CASE t > last
    BY <1>9, <2>1, <2>2, ConstantFacts DEF Instants
  <2>3. CASE t <= last /\ s <= t
    <3>1. \E i \in 1..Len(runs) : runs[i] = t
      BY <1>2, <1>3, <1>5, <2>1, <2>3, ChainCovers DEF last, trigger
    <3> QED
      BY <3>1 DEF runs
  <2>4. CASE t < s
    <3>1. (Row(d).next # Never /\ Row(d).next <= t) \/ t \in done
      BY <1>11 DEF Honest
    <3>2. Row(d).next # Never => Row(d).next = s
      BY DEF Scheduled, s
    <3> QED
      BY <2>1, <2>4, <3>1, <3>2
  <2> QED
    BY <2>1, <2>2, <2>3, <2>4
<1> QED
  BY <1>8, <1>9, <1>10, <1>11 DEF Honest, trigger

\* An automation whose occurrences are all to be evaluated has none skipped.
LEMMA NothingSkipped ==
  ASSUME TypeInv, NEW d \in Daemons, Replayed(Current(d))
  PROVE  ~Expire(d) /\ ~SkipMisfire(d)
<1>1. TypeOK
  BY DEF TypeInv
<1>2. ~TooOld(d)
  BY DEF TooOld, Replayed
<1>3. ~SkipMisfire(d)
  <2>1. SUFFICES ASSUME todo[d] # <<>>, Eligible(d), Due(d) # Invalid, Due(d) = <<>>, ~Ahead(d)
                 PROVE  FALSE
    BY DEF SkipMisfire, MayEvaluate, Visiting
  <2>2. Scheduled(d) \in Instants /\ now[d] \in 0..MaxClock
    BY <1>1, <2>1, DueFacts, VisitFacts DEF Eligible
  <2>3. Scheduled(d) <= now[d]
    BY <2>1, <2>2, ConstantFacts DEF Ahead, Instants
  <2> QED
    BY <1>1, <2>1, <2>3, DueFacts DEF Eligible, Replayed
<1> QED
  BY <1>2, <1>3 DEF Expire

LEMMA NextHonest ==
  ASSUME TypeInv, EvaluatedInv, HonestInv, [Next]_vars
  PROVE  HonestInv'
<1> SUFFICES ASSUME NEW a \in Automations, NEW next \in Instants \cup {Never},
                    Replayed(a), Copied(a, next)'
             PROVE  Honest(a, next, evaluated'[a])
  BY DEF HonestInv
<1>1. evaluated[a] \subseteq evaluated'[a]
  BY EvaluatedGrows
<1>2. Honest(a, next, evaluated[a]) => Honest(a, next, evaluated'[a])
  BY <1>1 DEF Honest
<1>3. CASE Copied(a, next)
  BY <1>2, <1>3 DEF HonestInv
<1>4. ASSUME NEW d \in Daemons, Computed(d, a, next)
      PROVE  Honest(a, next, evaluated[a])
  <2>1. FinishVisit(d) /\ a = Current(d) /\ next # Invalid
        /\ next = NextRun(TriggerOf[a], AdvanceFrom(d))
    BY <1>4, NothingSkipped DEF Computed
  <2>2. phase[d] = "starting" /\ due[d] = <<>>
    BY <2>1 DEF FinishVisit
  <2>3. todo[d] # <<>> /\ Eligible(d) /\ Due(d) # Invalid /\ Due(d) # <<>>
    BY <2>2 DEF TypeInv, VisitInv, VisitIsFixed, InVisit
  <2>4. \A j \in 1..Len(Due(d)) : Due(d)[j] \in evaluated[a]
    <3>1. DealtWith(d) /\ Len(<<>>) = 0
      BY DEF EvaluatedInv
    <3> QED
      BY <2>1, <2>2, <3>1 DEF DealtWith, InVisit
  <2>5. Row(d) \in RowType /\ Row(d) # Absent
    BY <2>3, VisitFacts DEF Eligible, TypeInv
  <2>6. Copied(a, Row(d).next) /\ Row(d).next \in Instants \cup {Never}
    BY <2>1, <2>5 DEF Copied, Row, RowType
  <2>7. Honest(a, Row(d).next, evaluated[a])
    BY <2>6 DEF HonestInv
  <2> QED
    BY <2>1, <2>3, <2>4, <2>7, ReplayIsHonest
<1> QED
  BY <1>2, <1>3, <1>4, CopiesSpread

LEMMA InitHonest ==
  ASSUME Init
  PROVE  EvaluatedInv /\ HonestInv
<1>1. EvaluatedInv
  BY DEF Init, EvaluatedInv, DealtWith, InVisit
<1>2. ASSUME NEW a \in Automations, NEW next \in Instants \cup {Never},
             Replayed(a), Copied(a, next)
      PROVE  Honest(a, next, evaluated[a])
  <2> USE ConstantFacts
  <2>1. next = NextRun(TriggerOf[a], 0)
    BY <1>2 DEF Init, Copied, Replayed
  <2>2. /\ TriggerOf[a] \in TriggerType /\ 0 \in Instants
        /\ NextRun(TriggerOf[a], 0) # Invalid
    BY <1>2, SchedulerPassAssumption DEF Replayed
  <2>3. OnGrid(TriggerOf[a], 0, 0)
    BY <2>2, TriggerKinds DEF OnGrid
  <2>4. /\ next \in Instants => OnGrid(TriggerOf[a], 0, next)
        /\ \A t \in Fires(TriggerOf[a], 0) : t > 0 => next \in Instants /\ next <= t
    BY <2>1, <2>2, <2>3, NextRunIsNext
  <2>5. TriggerOf[a].kind = "interval" => next # Never
    BY <2>1, <2>2, NextRunIsAhead
  <2>6. \A t \in Occurrences(a) : t \in Fires(TriggerOf[a], 0) /\ t > 0
    <3>1. \A t \in Fires(TriggerOf[a], 0) : t \in Nat /\ t # 0
      BY <2>2, TriggerKinds, SchedulerPassAssumption DEF Fires, Instants
    <3> QED
      BY <3>1, OccurrencesFire
  <2> QED
    BY <2>4, <2>5, <2>6 DEF Honest, Instants
<1> QED
  BY <1>1, <1>2 DEF HonestInv

\* catch_up without an age limit passes over no occurrence, however many daemons,
\* operators and crashes there are and from however old a copy a row is written back
\* (ADR 0016).
THEOREM CatchUpIsComplete == Spec => []CatchUpLosesNothing
<1>1. Init => CatchUpInv
  BY InitTypes, InitHonest DEF CatchUpInv
<1>2. CatchUpInv /\ [Next]_vars => CatchUpInv'
  BY NextTypes, NextEvaluated, NextHonest DEF CatchUpInv
<1>3. CatchUpInv => CatchUpLosesNothing
  <2> SUFFICES ASSUME CatchUpInv, NEW a \in Automations \ Unscheduled, CatchesUp(a),
                      MaxAgeOf[a] = Never, registry[a] # Absent
               PROVE  \A t \in Occurrences(a) :
                        \/ registry[a].next # Never /\ registry[a].next <= t
                        \/ t \in evaluated[a]
    BY DEF CatchUpLosesNothing
  <2>1. registry[a] \in RowType
    BY DEF CatchUpInv, TypeInv, TypeOK
  <2>2. Copied(a, registry[a].next) /\ registry[a].next \in Instants \cup {Never}
    BY <2>1 DEF Copied, RowType
  <2>3. Honest(a, registry[a].next, evaluated[a])
    BY <2>2 DEF CatchUpInv, HonestInv, Replayed
  <2> QED
    BY <2>3 DEF Honest
<1> QED
  BY <1>1, <1>2, <1>3, PTL DEF Spec

-----------------------------------------------------------------------------
(***************************************************************************)
(* The scheduler runs a cron automation for its own instants only.         *)
(***************************************************************************)
\* A step that admits a run admits it for an occurrence of a visit.
LEMMA AdmittedInVisits ==
  ASSUME TypeInv, [Next]_vars, NEW a \in Automations, NEW t \in admitted'[a]
  PROVE  \/ t \in admitted[a]
         \/ \E d \in Daemons :
              StartRun(d) /\ a = Current(d) /\ t = Head(due[d])
              /\ \E j \in 1..Len(Due(d)) : t = Due(d)[j]
<1>1. TypeOK /\ VisitInv
  BY DEF TypeInv
<1>2. ASSUME NEW d \in Daemons, StartRun(d)
      PROVE  \/ t \in admitted[a]
             \/ /\ a = Current(d) /\ t = Head(due[d])
                /\ \E j \in 1..Len(Due(d)) : t = Due(d)[j]
  <2>1. /\ phase[d] = "starting" /\ due[d] # <<>>
        /\ \/ admitted' = [admitted EXCEPT ![Current(d)] = admitted[Current(d)] \cup {Head(due[d])}]
           \/ admitted' = admitted
    BY <1>2, StartRunEffect
  <2>2. t \in admitted[a] \/ (a = Current(d) /\ t = Head(due[d]))
    BY <1>1, <2>1 DEF TypeOK
  <2>3. Head(due[d]) = due[d][1] /\ 1 \in 1..Len(due[d])
    BY <1>1, <2>1, TailFacts DEF TypeOK
  <2>4. \E j \in 1..Len(Due(d)) : due[d][1] = Due(d)[j]
    BY <1>1, <2>1, <2>3 DEF VisitInv, VisitIsFixed, InVisit
  <2> QED
    BY <2>2, <2>3, <2>4
<1>3. CASE ~\E d \in Daemons : StartRun(d)
  <2>1. admitted' = admitted
    BY <1>3 DEF Next, PassStep, BeginPass, EndPass, PassOver, FailPass, Expire, SkipMisfire,
       BeginRuns, EndRun, FinishVisit, Tick, StartManual, EndManual, ReadRow, WriteRow,
       DeleteRow, CrashDaemon, StartDaemon, vars, historyVars
  <2> QED
    BY <2>1
<1> QED
  BY <1>2, <1>3

LEMMA FirstCopies ==
  ASSUME Init, NEW a \in Automations \ Unscheduled, NEW next, Copied(a, next)
  PROVE  next = NextRun(TriggerOf[a], 0)
BY DEF Init, Copied

\* Under Forever next_run always finds an instant of the expression.
LEMMA TimedNext ==
  ASSUME Forever, NEW a \in Automations, Timed(a), NEW x \in 0..MaxClock
  PROVE  NextRun(TriggerOf[a], x) \in TriggerOf[a].fires
<1>1. TriggerOf[a] \in TriggerType /\ x \in Instants /\ TriggerOf[a].fires \in SUBSET Instants
  BY ConstantFacts, TriggerKinds DEF Timed
<1>2. PICK t \in TriggerOf[a].fires : t > MaxClock
  BY DEF Forever, Timed
<1>3. t \in Nat /\ t > x
  BY <1>1, <1>2, ConstantFacts DEF Instants
<1>4. /\ OnGrid(TriggerOf[a], 0, x) /\ Fires(TriggerOf[a], 0) = TriggerOf[a].fires
      /\ NextRun(TriggerOf[a], x) # Invalid
  <2>1. Later(TriggerOf[a].fires, x) # {} /\ Later(TriggerOf[a].fires, x) \in SUBSET Nat
        /\ Later(TriggerOf[a].fires, x) \in SUBSET Instants
    BY <1>1, <1>2, <1>3, ConstantFacts DEF Later, Instants
  <2>2. Earliest(Later(TriggerOf[a].fires, x)) \in Instants
    BY <2>1, EarliestIsIn
  <2>3. NextRun(TriggerOf[a], x) = Earliest(Later(TriggerOf[a].fires, x))
    BY <2>1 DEF NextRun, Timed
  <2> QED
    BY <2>2, <2>3, ConstantFacts DEF OnGrid, Fires, Timed, Instants
<1> QED
  BY <1>1, <1>2, <1>3, <1>4, NextRunIsNext

LEMMA DueFires ==
  ASSUME TypeInv, FiringInv, NEW d \in Daemons, InVisit(d), Timed(Current(d)),
         NEW j \in 1..Len(Due(d))
  PROVE  Due(d)[j] \in TriggerOf[Current(d)].fires
<1> DEFINE a == Current(d)
           trigger == TriggerOf[a]
           s == Scheduled(d)
           runs == Due(d)
<1>1. TypeOK /\ todo[d] # <<>> /\ Eligible(d) /\ runs # Invalid /\ runs # <<>>
  BY DEF TypeInv, VisitInv, VisitIsFixed
<1>2. /\ a \in Automations /\ trigger \in TriggerType /\ Row(d) \in RowType
  BY <1>1, VisitFacts DEF Eligible
<1>3. Copied(a, Row(d).next) /\ Row(d).next \in Instants \cup {Never}
  BY <1>1, <1>2 DEF Copied, Row, RowType, Eligible
<1>4. Row(d).next \in trigger.fires
  BY <1>2, <1>3 DEF FiringInv
<1>5. trigger.fires \in SUBSET Instants
  BY <1>2, TriggerKinds DEF Timed
<1>6. s \in trigger.fires
  BY <1>4, <1>5, ConstantFacts DEF Scheduled, Instants
<1>7. /\ s <= now[d]
      /\ ~CatchesUp(a) => runs = <<s>>
      /\ CatchesUp(a) => Chain(runs, trigger, s, now[d])
  BY <1>1, DueFacts DEF Eligible
<1>8. CASE ~CatchesUp(a)
  <2>1. Due(d) = <<s>>
    BY <1>7, <1>8
  <2> HIDE DEF s
  <2>2. j = 1
    BY <2>1
  <2> QED
    BY <1>6, <2>1, <2>2
<1>9. CASE CatchesUp(a)
  <2>1. OnGrid(trigger, 0, s) /\ Fires(trigger, 0) = trigger.fires
    BY DEF OnGrid, Fires, Timed
  <2> HIDE DEF runs, trigger, s
  <2>2. \A i \in 1..Len(runs) : i # 1 => runs[i] \in trigger.fires
    BY <1>2, <1>7, <1>9, <2>1, ChainOnGrid
  <2>3. runs[1] = s
    <3>1. Len(runs) \in Nat /\ j \in 1..Len(runs)
      BY <1>7, <1>9 DEF Chain, runs
    <3>2. Len(runs) >= 1
      BY <3>1
    <3> QED
      BY <1>7, <1>9, <3>2 DEF Chain
  <2> QED
    BY <1>6, <2>2, <2>3 DEF runs, trigger
<1> QED
  BY <1>8, <1>9

\* A cron automation whose expression never stops firing is run by the scheduler only
\* for instants at which it fires: not for the instants at which a pass looks, and not
\* for those a stale copy of its row holds.
THEOREM RunsOccurrencesOnly == Forever => (Spec => []OnlyOccurrencesRun)
<1> SUFFICES ASSUME Forever
             PROVE  Spec => []OnlyOccurrencesRun
  OBVIOUS
<1>1. Init => TypeInv /\ FiringInv
  <2> SUFFICES ASSUME Init
               PROVE  TypeInv /\ FiringInv
    OBVIOUS
  <2>1. 0 \in 0..MaxClock
    BY ConstantFacts
  <2>2. ASSUME NEW a \in Automations, Timed(a)
        PROVE  /\ \A next : Copied(a, next) => next \in TriggerOf[a].fires
               /\ admitted[a] \subseteq TriggerOf[a].fires
    BY <2>1, <2>2, FirstCopies, TimedNext DEF Timed, Init
  <2> QED
    BY <2>2, InitTypes DEF FiringInv
<1>2. TypeInv /\ FiringInv /\ [Next]_vars => TypeInv' /\ FiringInv'
  <2> SUFFICES ASSUME TypeInv, FiringInv, [Next]_vars
               PROVE  TypeInv' /\ FiringInv'
    OBVIOUS
  <2>1. ASSUME NEW a \in Automations, Timed(a), NEW next \in Instants \cup {Never}, Copied(a, next)'
        PROVE  next \in TriggerOf[a].fires
    <3>1. CASE Copied(a, next)
      BY <2>1, <3>1 DEF FiringInv
    <3>2. ASSUME NEW d \in Daemons, Computed(d, a, next)
          PROVE  next \in TriggerOf[a].fires
      <4>1. PICK x \in 0..MaxClock : next = NextRun(TriggerOf[a], x)
        <5>1. now[d] \in 0..MaxClock
          BY DEF TypeInv, TypeOK
        <5>2. FinishVisit(d) => AdvanceFrom(d) \in 0..MaxClock
          <6>1. FinishVisit(d) => todo[d] # <<>> /\ Eligible(d) /\ Due(d) # Invalid /\ Due(d) # <<>>
            BY DEF FinishVisit, TypeInv, VisitInv, VisitIsFixed, InVisit
          <6> QED
            BY <6>1, DueFacts DEF Eligible, TypeInv
        <5> QED
          BY <3>2, <5>1, <5>2 DEF Computed
      <4> QED
        BY <2>1, <4>1, TimedNext
    <3> QED
      BY <2>1, <3>1, <3>2, CopiesSpread
  <2>2. ASSUME NEW a \in Automations, Timed(a), NEW t \in admitted'[a]
        PROVE  t \in TriggerOf[a].fires
    <3>1. CASE t \in admitted[a]
      BY <2>2, <3>1 DEF FiringInv
    <3>2. ASSUME NEW d \in Daemons, StartRun(d), a = Current(d),
                 NEW j \in 1..Len(Due(d)), t = Due(d)[j]
          PROVE  t \in TriggerOf[a].fires
      BY <2>2, <3>2, DueFires DEF InVisit, StartRun
    <3> QED
      BY <2>2, <3>1, <3>2, AdmittedInVisits
  <2>3. FiringInv'
    BY <2>1, <2>2 DEF FiringInv, Timed
  <2> QED
    BY <2>3, NextTypes
<1>3. FiringInv => OnlyOccurrencesRun
  BY OccurrencesFire DEF FiringInv, Timed, OnlyOccurrencesRun
<1> QED
  BY <1>1, <1>2, <1>3, PTL DEF Spec

-----------------------------------------------------------------------------
(***************************************************************************)
(* One undisturbed daemon runs every occurrence once.                      *)
(***************************************************************************)
LEMMA NextAscending ==
  ASSUME TypeInv, AscendingInv, [Next]_vars
  PROVE  AscendingInv'
<1> SUFFICES ASSUME NEW d \in Daemons, InVisit(d)'
             PROVE  \A i, j \in 1..Len(due'[d]) : i < j => due'[d][i] < due'[d][j]
  BY DEF AscendingInv
<1>1. TypeOK /\ VisitInv
  BY DEF TypeInv
<1>2. due[d] \in Seq(0..MaxClock)
  BY <1>1 DEF TypeOK
<1>3. CASE BeginRuns(d)
  <2>1. todo[d] # <<>> /\ Eligible(d) /\ Due(d) # Invalid /\ due'[d] = Due(d)
    BY <1>1, <1>3 DEF BeginRuns, MayEvaluate, Visiting, TypeOK
  <2> QED
    BY <1>1, <2>1, DueFacts DEF Eligible
<1>4. CASE StartRun(d) \/ EndRun(d)
  <2>1. /\ InVisit(d) /\ due[d] # <<>>
        /\ \/ due' = [due EXCEPT ![d] = due[d]]
           \/ due' = [due EXCEPT ![d] = Tail(due[d])]
    BY <1>4, StartRunEffect, EndRunEffect DEF InVisit
  <2>2. due'[d] \in {due[d], Tail(due[d])}
    BY <1>1, <2>1 DEF TypeOK
  <2>3. \A i, j \in 1..Len(due[d]) : i < j => due[d][i] < due[d][j]
    BY <2>1 DEF AscendingInv
  <2>4. \A i \in 1..Len(Tail(due[d])) :
          i + 1 \in 1..Len(due[d]) /\ Tail(due[d])[i] = due[d][i + 1]
    BY <1>2, <2>1, TailFacts
  <2>5. \A i, j \in 1..Len(Tail(due[d])) : i < j => Tail(due[d])[i] < Tail(due[d])[j]
    <3> SUFFICES ASSUME NEW i \in 1..Len(Tail(due[d])), NEW j \in 1..Len(Tail(due[d])), i < j
                 PROVE  Tail(due[d])[i] < Tail(due[d])[j]
      OBVIOUS
    <3>1. i + 1 \in 1..Len(due[d]) /\ j + 1 \in 1..Len(due[d]) /\ i + 1 < j + 1
      BY <2>4
    <3> QED
      BY <2>3, <2>4, <3>1
  <2> QED
    BY <2>2, <2>3, <2>5
<1>5. CASE ~BeginRuns(d) /\ ~StartRun(d) /\ ~EndRun(d)
  <2>1. phase'[d] = phase[d] /\ due'[d] = due[d]
    BY <1>5, OutsideTheVisit DEF InVisit
  <2> QED
    BY <2>1 DEF AscendingInv, InVisit
<1> QED
  BY <1>3, <1>4, <1>5

\* The row of the visit is the row of the Registry, since nobody else writes.
LEMMA RowIsCurrent ==
  ASSUME TypeInv, OnceInv, NEW d \in Daemons, todo[d] # <<>>, Row(d) # Absent
  PROVE  Row(d) = registry[Current(d)] /\ Row(d) \in RowType /\ Current(d) \in Automations
BY VisitFacts DEF OnceInv, Row, TypeInv

LEMMA RunBeforeIsNumber ==
  ASSUME TypeInv, NEW a \in Automations, NEW t \in admitted[a]
  PROVE  t \in Nat /\ (RunBefore(a, t) /\ registry[a] # Absent => registry[a].next \in Instants)
BY ConstantFacts DEF TypeInv, TypeOK, RunBefore, RowType

\* The end of a visit: everything that was run lies before the next run that is written.
LEMMA SaveKeepsOrder ==
  ASSUME Undisturbed, Endless, TypeInv, OnceInv, NEW d \in Daemons,
         Expire(d) \/ SkipMisfire(d) \/ FinishVisit(d)
  PROVE  OnceInv'
<1>1. TypeOK /\ VisitInv
  BY DEF TypeInv
<1> DEFINE a == Current(d)
<1>2. /\ todo[d] # <<>> /\ Eligible(d) /\ phase[d] \in {"visiting", "starting"}
      /\ phase[d] = "starting" => Due(d) # Invalid /\ Due(d) # <<>>
  BY <1>1 DEF Expire, SkipMisfire, FinishVisit, MayEvaluate, Visiting, VisitInv, VisitIsFixed, InVisit
<1>3. /\ Row(d) = registry[a] /\ Row(d) \in RowType /\ a \in Automations /\ Row(d) # Absent
      /\ now[d] \in 0..MaxClock /\ Scheduled(d) \in Instants
  BY <1>1, <1>2, RowIsCurrent, VisitFacts, DueFacts DEF Eligible
<1>4. PICK x \in 0..MaxClock :
        /\ SaveAndLeave(d, NextRun(TriggerOf[a], x))
        /\ Scheduled(d) <= x
        /\ phase[d] = "starting" => \A j \in 1..Len(Due(d)) : Due(d)[j] <= x
  <2>1. CASE Expire(d) \/ SkipMisfire(d)
    <3>1. phase[d] = "visiting" /\ SaveAndLeave(d, NextRun(TriggerOf[a], now[d]))
      BY <2>1 DEF Expire, SkipMisfire, MayEvaluate, Visiting
    <3>2. Scheduled(d) <= now[d]
      <4>1. CASE Expire(d)
        BY <4>1 DEF Expire, TooOld
      <4>2. CASE SkipMisfire(d)
        <5>1. Scheduled(d) \in Nat /\ now[d] \in Nat
          BY <1>3, ConstantFacts DEF Instants
        <5> QED
          BY <4>2, <5>1 DEF SkipMisfire, Ahead
      <4> QED
        BY <2>1, <4>1, <4>2
    <3> QED
      BY <1>3, <3>1, <3>2
  <2>2. CASE FinishVisit(d)
    <3>1. phase[d] = "starting" /\ SaveAndLeave(d, NextRun(TriggerOf[a], AdvanceFrom(d)))
      BY <2>2 DEF FinishVisit
    <3>2. /\ AdvanceFrom(d) \in 0..MaxClock /\ Due(d) \in Seq(0..MaxClock) /\ Due(d) # <<>>
          /\ \A i \in 1..Len(Due(d)) : Scheduled(d) <= Due(d)[i] /\ Due(d)[i] <= AdvanceFrom(d)
      BY <1>1, <1>2, <1>3, <3>1, DueFacts
    <3>3. 1 \in 1..Len(Due(d)) /\ Due(d)[1] \in Nat
      BY <3>2, ConstantFacts
    <3>4. Scheduled(d) <= AdvanceFrom(d)
      BY <1>3, <3>2, <3>3, ConstantFacts DEF Instants
    <3> QED
      BY <3>1, <3>2, <3>4
  <2> QED
    BY <2>1, <2>2
<1> DEFINE next == NextRun(TriggerOf[a], x)
<1>5. next \in Instants
  BY <1>2, <1>3, <1>4 DEF Eligible, Endless
<1>6. x \in Instants /\ x \in Nat /\ next > x
  BY <1>3, <1>4, <1>5, ConstantFacts, NextRunIsAhead DEF Instants
<1>7. /\ Elsewhere(d)
      /\ registry' = [registry EXCEPT ![a] = [Row(d) EXCEPT !.next = next]]
      /\ snapshot'[d] = [snapshot[d] EXCEPT ![a] = Absent]
  <2>1. next # Invalid
    BY <1>5, ConstantFacts DEF Instants
  <2> QED
    BY <1>1, <1>2, <1>4, <1>6, <2>1, SaveEffect
<1>8. admitted' = admitted /\ repeated' = repeated
  BY DEF Expire, SkipMisfire, FinishVisit, historyVars
<1> HIDE DEF a, next
<1>9. /\ registry'[a].next = next
      /\ \A b \in Automations : b # a => registry'[b] = registry[b]
      /\ snapshot'[d][a] = Absent
      /\ \A b \in Automations : b # a => snapshot'[d][b] = snapshot[d][b]
  <2>1. registry \in [Automations -> RowType \cup {Absent}]
        /\ snapshot[d] \in [Automations -> RowType \cup {Absent}]
    BY <1>1 DEF TypeOK
  <2>2. registry'[a] = [Row(d) EXCEPT !.next = next]
    BY <1>3, <1>7, <2>1
  <2>3. registry'[a].next = next
    BY <1>3, <2>2 DEF RowType
  <2> QED
    BY <1>3, <1>7, <2>1, <2>3
<1>10. registry'[a] # Absent
  <2>1. [Row(d) EXCEPT !.next = next] \in RowType
    BY <1>3, <1>5 DEF RowType
  <2>2. registry'[a] = [Row(d) EXCEPT !.next = next]
    BY <1>1, <1>3, <1>7 DEF TypeOK
  <2> QED
    BY <2>1, <2>2, AbsentIsNoRow
<1>11. \A e \in Daemons : e = d
  BY DEF Undisturbed
<1>12. ASSUME NEW b \in Automations, NEW t \in admitted[b]
       PROVE  RunBefore(b, t)'
  <2>1. t \in Nat /\ (RunBefore(b, t) /\ registry[b] # Absent => registry[b].next \in Instants)
    BY <1>12, RunBeforeIsNumber
  <2>2. RunBefore(b, t) \/ RunInVisit(d, b, t)
    BY <1>11 DEF OnceInv
  <2>3. CASE b # a
    <3>1. RunBefore(b, t)
      BY <2>2, <2>3 DEF RunInVisit, a
    <3> QED
      BY <1>9, <2>3, <3>1 DEF RunBefore
  <2>4. CASE b = a
    <3>1. t <= x
      <4>1. CASE RunBefore(a, t)
        <5>1. registry[a].next \in Instants /\ t < registry[a].next
          BY <1>3, <2>1, <2>4, <4>1 DEF RunBefore
        <5>2. Scheduled(d) = registry[a].next
          BY <1>3, <5>1, ConstantFacts DEF Scheduled, Instants
        <5> QED
          BY <1>4, <1>6, <2>1, <5>1, <5>2, ConstantFacts DEF Instants
      <4>2. CASE RunInVisit(d, a, t)
        BY <1>2, <1>4, <4>2 DEF RunInVisit, InVisit
      <4> QED
        BY <2>2, <2>4, <4>1, <4>2
    <3>2. t < next
      BY <1>5, <1>6, <2>1, <3>1, ConstantFacts DEF Instants
    <3> QED
      BY <1>5, <1>9, <2>4, <3>2, ConstantFacts DEF RunBefore, Instants
  <2> QED
    BY <2>3, <2>4
<1>13. ASSUME NEW b \in Automations
       PROVE  /\ registry'[b] # Absent /\ repeated'[b] = {}
              /\ snapshot'[d][b] \in {Absent, registry'[b]}
  BY <1>8, <1>9, <1>10 DEF OnceInv
<1> QED
  BY <1>8, <1>11, <1>12, <1>13 DEF OnceInv

\* The steps that write no row: the Registry stays, and what the pass holds is a copy.
LEMMA OnceStays ==
  ASSUME OnceInv, UNCHANGED <<registry, admitted, repeated>>,
         \A d \in Daemons, a \in Automations : snapshot'[d][a] \in {Absent, snapshot[d][a], registry[a]},
         \A d \in Daemons, a \in Automations : \A t \in admitted[a] :
           RunInVisit(d, a, t) => RunInVisit(d, a, t)'
  PROVE  OnceInv'
<1>1. \A a \in Automations : \A t \in admitted[a] : RunBefore(a, t) => RunBefore(a, t)'
  BY DEF RunBefore
<1>2. \A a \in Automations, d \in Daemons : snapshot'[d][a] \in {Absent, registry'[a]}
  BY DEF OnceInv
<1>3. \A a \in Automations : registry'[a] # Absent /\ repeated'[a] = {}
  BY DEF OnceInv
<1>4. ASSUME NEW a \in Automations, NEW t \in admitted'[a]
      PROVE  RunBefore(a, t)' \/ \E d \in Daemons : RunInVisit(d, a, t)'
  <2>1. t \in admitted[a]
    BY <1>4
  <2>2. RunBefore(a, t) \/ \E d \in Daemons : RunInVisit(d, a, t)
    BY <2>1 DEF OnceInv
  <2> QED
    BY <1>1, <2>1, <2>2
<1> QED
  BY <1>2, <1>3, <1>4 DEF OnceInv

LEMMA InVisitStays ==
  ASSUME NEW d, NEW a, NEW t, RunInVisit(d, a, t), UNCHANGED passVars
  PROVE  RunInVisit(d, a, t)'
<1>1. phase' = phase /\ due' = due
  BY DEF passVars
<1>2. Current(d)' = Current(d) /\ Due(d)' = Due(d)
  BY VisitStays DEF passVars
<1>3. Pending(d)' = Pending(d)
  BY <1>1 DEF Pending
<1> QED
  BY <1>1, <1>2, <1>3 DEF RunInVisit, InVisit

\* A run is asked for: its occurrence was not run before, and what is left lies after it.
LEMMA StartRunsOnce ==
  ASSUME Undisturbed, TypeInv, OnceInv, AscendingInv, NEW d \in Daemons, StartRun(d)
  PROVE  OnceInv'
<1> DEFINE a == Current(d)
           t0 == Head(due[d])
<1>1. /\ phase[d] = "starting" /\ due[d] # <<>> /\ todo[d] # <<>> /\ Eligible(d)
      /\ a \in Automations /\ t0 \in 0..MaxClock
      /\ UNCHANGED <<clock, registry, now, todo, snapshot, operatorVars, crashes>>
      /\ \/ /\ admitted' = [admitted EXCEPT ![a] = admitted[a] \cup {t0}]
            /\ repeated' = [repeated EXCEPT ![a] = repeated[a] \cup (admitted[a] \cap {t0})]
            /\ phase' = [phase EXCEPT ![d] = "running"]
            /\ due' = [due EXCEPT ![d] = due[d]]
         \/ /\ phase' = [phase EXCEPT ![d] = "starting"]
            /\ due' = [due EXCEPT ![d] = Tail(due[d])]
            /\ UNCHANGED <<admitted, repeated>>
  BY StartRunEffect
<1>2. TypeOK /\ VisitInv /\ \A e \in Daemons : e = d
  BY DEF TypeInv, Undisturbed
<1>3. due[d] \in Seq(0..MaxClock)
  BY <1>2 DEF TypeOK
<1>4. /\ t0 = due[d][1] /\ 1 \in 1..Len(due[d]) /\ t0 \in Nat
      /\ \A i \in 1..Len(Tail(due[d])) :
           i + 1 \in 1..Len(due[d]) /\ Tail(due[d])[i] = due[d][i + 1] /\ 1 < i + 1
  BY <1>1, <1>3, TailFacts, ConstantFacts
<1>5. \A i, j \in 1..Len(due[d]) : i < j => due[d][i] < due[d][j]
  BY <1>1 DEF AscendingInv, InVisit
<1>6. \A i \in 1..Len(Tail(due[d])) : t0 < Tail(due[d])[i]
  BY <1>4, <1>5
<1>7. PICK j0 \in 1..Len(Due(d)) : t0 = Due(d)[j0]
  BY <1>1, <1>2, <1>4 DEF VisitInv, VisitIsFixed, InVisit
<1>8. Current(d)' = a /\ Due(d)' = Due(d)
  BY <1>1, VisitStays
<1>9. Pending(d) = due[d] /\ Pending(d)' = Tail(due[d]) /\ InVisit(d)'
  BY <1>1, <1>2 DEF Pending, InVisit, TypeOK
<1>10. ASSUME NEW b, b = a, NEW t, t = t0
       PROVE  RunInVisit(d, b, t)'
  <2>1. \E j \in 1..Len(Due(d)) : t = Due(d)[j]
    BY <1>7, <1>10
  <2>2. \A i \in 1..Len(Tail(due[d])) : t < Tail(due[d])[i]
    BY <1>6, <1>10
  <2> HIDE DEF a, t0
  <2> QED
    BY <1>8, <1>9, <1>10, <2>1, <2>2 DEF RunInVisit
<1>11. ASSUME NEW b \in Automations, NEW t \in admitted[b], RunInVisit(d, b, t)
       PROVE  RunInVisit(d, b, t)'
  <2>1. b = a /\ (\E j \in 1..Len(Due(d)) : t = Due(d)[j]) /\ \A i \in 1..Len(due[d]) : t < due[d][i]
    BY <1>9, <1>11 DEF RunInVisit
  <2>2. \A i \in 1..Len(Tail(due[d])) : t < Tail(due[d])[i]
    BY <1>4, <2>1
  <2> QED
    BY <1>8, <1>9, <2>1, <2>2 DEF RunInVisit
<1>12. t0 \notin admitted[a]
  <2> SUFFICES ASSUME t0 \in admitted[a]
               PROVE  FALSE
    OBVIOUS
  <2>1. RunBefore(a, t0) \/ RunInVisit(d, a, t0)
    BY <1>1, <1>2 DEF OnceInv
  <2>2. CASE RunBefore(a, t0)
    <3>1. Row(d) = registry[a] /\ registry[a] # Absent /\ Scheduled(d) <= t0 /\ Scheduled(d) \in Instants
      BY <1>1, <1>2, <1>7, RowIsCurrent, DueFacts DEF Eligible, VisitInv, VisitIsFixed, InVisit
    <3>2. Scheduled(d) = registry[a].next /\ t0 < registry[a].next
      BY <2>2, <3>1 DEF Scheduled, RunBefore
    <3> QED
      BY <1>4, <3>1, <3>2, ConstantFacts DEF Instants
  <2>3. CASE RunInVisit(d, a, t0)
    BY <1>4, <1>9, <2>3 DEF RunInVisit
  <2> QED
    BY <2>1, <2>2, <2>3
<1>13. /\ \A b \in Automations : repeated'[b] = {}
       /\ \A b \in Automations : \A t \in admitted'[b] : t \in admitted[b] \/ (b = a /\ t = t0)
  <2>1. \A b \in Automations : repeated[b] = {}
    BY DEF OnceInv
  <2> HIDE DEF a, t0
  <2>2. \A b \in Automations : \A t \in admitted'[b] : t \in admitted[b] \/ (b = a /\ t = t0)
    <3>1. \/ admitted' = [admitted EXCEPT ![a] = admitted[a] \cup {t0}]
          \/ admitted' = admitted
      BY <1>1
    <3> QED
      BY <1>2, <3>1 DEF TypeOK
  <2>3. \A b \in Automations : repeated'[b] = {}
    <3>1. \/ repeated' = [repeated EXCEPT ![a] = repeated[a] \cup (admitted[a] \cap {t0})]
          \/ repeated' = repeated
      BY <1>1
    <3>2. admitted[a] \cap {t0} = {}
      BY <1>12
    <3>3. repeated[a] \cup (admitted[a] \cap {t0}) = {}
      BY <1>1, <2>1, <3>2
    <3>4. repeated' = repeated \/ repeated' = [repeated EXCEPT ![a] = {}]
      BY <3>1, <3>3
    <3>5. repeated \in [Automations -> SUBSET (0..MaxClock)]
      BY <1>2 DEF TypeOK
    <3> QED
      BY <2>1, <3>4, <3>5
  <2> QED
    BY <2>2, <2>3
<1>14. ASSUME NEW b \in Automations, NEW t \in admitted'[b]
       PROVE  RunBefore(b, t)' \/ RunInVisit(d, b, t)'
  <2>1. CASE t \in admitted[b]
    <3>1. RunBefore(b, t) \/ RunInVisit(d, b, t)
      BY <1>2, <2>1 DEF OnceInv
    <3>2. RunBefore(b, t) => RunBefore(b, t)'
      BY <1>1 DEF RunBefore
    <3> QED
      BY <1>11, <2>1, <3>1, <3>2
  <2>2. CASE t \notin admitted[b]
    BY <1>10, <1>13, <2>2
  <2> QED
    BY <2>1, <2>2
<1> QED
  BY <1>1, <1>13, <1>14 DEF OnceInv

LEMMA NextOnce ==
  ASSUME Undisturbed, Endless, TypeInv, OnceInv, AscendingInv, [Next]_vars
  PROVE  OnceInv'
<1>1. TypeOK /\ VisitInv
  BY DEF TypeInv
<1>2. ASSUME NEW d \in Daemons, PassStep(d)
      PROVE  OnceInv'
  <2>1. \A e \in Daemons : e = d
    BY DEF Undisturbed
  <2>2. CASE BeginPass(d) \/ EndPass(d) \/ PassOver(d) \/ FailPass(d) \/ BeginRuns(d)
    <3>1. ~InVisit(d) /\ UNCHANGED <<registry, admitted, repeated>>
      BY <2>2 DEF BeginPass, EndPass, PassOver, FailPass, BeginRuns, MayEvaluate, Visiting, InVisit,
         historyVars
    <3>2. \A a \in Automations : snapshot'[d][a] \in {Absent, snapshot[d][a], registry[a]}
      <4>1. CASE BeginPass(d)
        BY <1>1, <4>1 DEF BeginPass, TypeOK
      <4>2. CASE EndPass(d) \/ FailPass(d)
        BY <1>1, <4>2, DropEffect DEF EndPass, FailPass
      <4>3. CASE PassOver(d)
        <5>1. snapshot'[d] = [snapshot[d] EXCEPT ![Current(d)] = Absent]
          BY <1>1, <4>3, LeaveEffect DEF PassOver, Visiting
        <5> QED
          BY <1>1, <5>1 DEF TypeOK
      <4>4. CASE BeginRuns(d)
        BY <4>4 DEF BeginRuns
      <4> QED
        BY <2>2, <4>1, <4>2, <4>3, <4>4
    <3> QED
      BY <2>1, <3>1, <3>2, OnceStays DEF RunInVisit
  <2>3. CASE Expire(d) \/ SkipMisfire(d) \/ FinishVisit(d)
    BY <2>3, SaveKeepsOrder
  <2>4. CASE StartRun(d)
    BY <2>4, StartRunsOnce
  <2>5. CASE EndRun(d)
    <3>1. /\ phase[d] = "running" /\ UNCHANGED <<registry, now, todo, snapshot, admitted, repeated>>
          /\ due' = [due EXCEPT ![d] = Tail(due[d])] /\ phase' = [phase EXCEPT ![d] = "starting"]
      BY <2>5, EndRunEffect DEF historyVars
    <3>2. Current(d)' = Current(d) /\ Due(d)' = Due(d)
      BY <3>1, VisitStays
    <3>3. Pending(d)' = Pending(d) /\ InVisit(d)'
      BY <1>1, <3>1 DEF Pending, InVisit, TypeOK
    <3>4. \A a \in Automations : \A t \in admitted[a] : RunInVisit(d, a, t) => RunInVisit(d, a, t)'
      BY <3>2, <3>3 DEF RunInVisit
    <3> QED
      BY <2>1, <3>1, <3>4, OnceStays
  <2> QED
    BY <1>2, <2>2, <2>3, <2>4, <2>5 DEF PassStep
<1>3. ASSUME UNCHANGED <<registry, passVars, admitted, repeated>>
      PROVE  OnceInv'
  <2>1. \A d \in Daemons, a \in Automations : \A t \in admitted[a] :
          RunInVisit(d, a, t) => RunInVisit(d, a, t)'
    BY <1>3, InVisitStays
  <2> QED
    BY <1>3, <2>1, OnceStays DEF passVars
<1>4. ASSUME NEW d \in Daemons, StartDaemon(d)
      PROVE  OnceInv'
  <2>1. /\ phase[d] = "down" /\ UNCHANGED <<registry, snapshot, admitted, repeated>>
    BY <1>4 DEF StartDaemon, historyVars
  <2>2. \A e \in Daemons : ~InVisit(e)
    BY <2>1 DEF Undisturbed, InVisit
  <2> QED
    BY <2>1, <2>2, OnceStays DEF RunInVisit
<1>5. \A d \in Daemons : ~CrashDaemon(d)
  BY <1>1 DEF CrashDaemon, Undisturbed, TypeOK
<1> QED
  <2>1. \/ \E d \in Daemons : PassStep(d) \/ StartDaemon(d)
        \/ UNCHANGED <<registry, passVars, admitted, repeated>>
    BY <1>5 DEF Undisturbed, Next, Tick, StartManual, EndManual, vars, historyVars
  <2> QED
    BY <1>2, <1>3, <1>4, <2>1

\* One daemon that runs undisturbed never runs an occurrence twice: not when runs take
\* longer than their interval, not after a backlog, not beside runs asked for by hand
\* (the same scheduling tick is not executed again).
THEOREM TicksRunOnce == Undisturbed /\ Endless => (Spec => []TickRunsOnce)
<1> SUFFICES ASSUME Undisturbed, Endless
             PROVE  Spec => []TickRunsOnce
  OBVIOUS
<1>1. Init => TickInv
  <2> SUFFICES ASSUME Init
               PROVE  TickInv
    OBVIOUS
  <2>1. TypeInv
    BY InitTypes
  <2>2. \A a \in Automations : registry[a] # Absent
    <3>1. \A a \in Automations : registry[a] \in RowType
      BY FirstRows DEF Init, RowType, States
    <3> QED
      BY <3>1, AbsentIsNoRow
  <2>3. OnceInv
    BY <2>2 DEF Init, OnceInv
  <2>4. AscendingInv
    BY DEF Init, AscendingInv, InVisit
  <2> QED
    BY <2>1, <2>3, <2>4 DEF TickInv
<1>2. TickInv /\ [Next]_vars => TickInv'
  BY NextTypes, NextOnce, NextAscending DEF TickInv
<1>3. TickInv => TickRunsOnce
  BY DEF TickInv, OnceInv, TickRunsOnce
<1> QED
  BY <1>1, <1>2, <1>3, PTL DEF Spec
=============================================================================
