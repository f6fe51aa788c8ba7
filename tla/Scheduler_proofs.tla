-------------------------- MODULE Scheduler_proofs --------------------------
(***************************************************************************)
(* What next_run and the loop of catch_up return, for every trigger and    *)
(* every instant: the facts the proofs about the scheduler's pass rest on. *)
(* Induction over the rounds of the loop goes by the least round for which *)
(* a claim would be wrong.                                                 *)
(***************************************************************************)
EXTENDS Scheduler, WellFoundedInduction, TLAPS

LEMMA Least ==
  ASSUME NEW T \in SUBSET Nat, T # {}
  PROVE  \E x \in T : \A y \in T : x <= y
<1> DEFINE R == OpToRel(<, Nat)
<1>1. IsWellFoundedOn(R, Nat)
  BY NatLessThanWellFounded
<1>2. \A x, y \in Nat : x < y => <<x, y>> \in R
  BY DEF OpToRel
<1> HIDE DEF R
<1>3. PICK x \in T : \A y \in T : ~(<<y, x>> \in R)
  BY <1>1, WFMin
<1>4. ASSUME NEW y \in T
      PROVE  x <= y
  <2>1. x \in Nat /\ y \in Nat /\ ~(<<y, x>> \in R)
    BY <1>3
  <2>2. ~(y < x)
    BY <1>2, <2>1
  <2> QED
    BY <2>1, <2>2
<1> QED
  BY <1>4

Rounds(f, trigger, scheduled, now, n) ==
  f = [k \in 0..n |-> IF k = 0 THEN [runs |-> <<>>, next |-> scheduled] ELSE Round(trigger, now, f[k - 1])]

LEMMA RoundsExist ==
  ASSUME NEW trigger, NEW scheduled, NEW now, NEW n \in Nat
  PROVE  \E f : Rounds(f, trigger, scheduled, now, n)
<1> DEFINE T == {m \in Nat : ~ \E f : Rounds(f, trigger, scheduled, now, m)}
<1>1. SUFFICES ASSUME T # {}
               PROVE  FALSE
  OBVIOUS
<1>2. PICK m \in T : \A y \in T : m <= y
  BY <1>1, Least
<1>3. CASE m = 0
  <2> DEFINE g == [k \in 0..0 |-> [runs |-> <<>>, next |-> scheduled]]
  <2>1. Rounds(g, trigger, scheduled, now, 0)
    BY DEF Rounds
  <2> QED
    BY <1>2, <1>3, <2>1
<1>4. CASE m # 0
  <2>1. m \in Nat /\ m - 1 \in Nat /\ m - 1 \notin T
    BY <1>2, <1>4
  <2>2. PICK f : Rounds(f, trigger, scheduled, now, m - 1)
    BY <2>1
  <2> DEFINE g == [k \in 0..m |-> IF k = m THEN Round(trigger, now, f[m - 1]) ELSE f[k]]
  <2>3. \A k \in 0..m : g[k] = IF k = 0 THEN [runs |-> <<>>, next |-> scheduled]
                                ELSE Round(trigger, now, g[k - 1])
    BY <1>4, <2>1, <2>2 DEF Rounds
  <2>4. g = [k \in 0..m |-> g[k]]
    OBVIOUS
  <2> HIDE DEF g
  <2>5. Rounds(g, trigger, scheduled, now, m)
    BY <2>3, <2>4 DEF Rounds
  <2> QED
    BY <1>2, <2>5
<1> QED
  BY <1>3, <1>4

LEMMA MissedRounds ==
  ASSUME NEW trigger, NEW scheduled, NEW now, NEW n \in Nat
  PROVE  \E f : /\ Rounds(f, trigger, scheduled, now, n)
                /\ Missed(trigger, scheduled, now, n) =
                     IF f[n].next = Invalid THEN Invalid ELSE f[n].runs
<1> DEFINE c == CHOOSE f : Rounds(f, trigger, scheduled, now, n)
<1>1. Rounds(c, trigger, scheduled, now, n)
  BY RoundsExist
<1>2. Missed(trigger, scheduled, now, n) = IF c[n].next = Invalid THEN Invalid ELSE c[n].runs
  BY DEF Missed, Rounds
<1> QED
  BY <1>1, <1>2
-----------------------------------------------------------------------------
(***************************************************************************)
(* next_run.                                                               *)
(***************************************************************************)

\* The instants at which a trigger fires when its intervals count from an origin.
Fires(trigger, origin) ==
  CASE trigger.kind = "interval" ->
         {t \in Nat : t > origin /\ trigger.seconds > 0 /\ (t - origin) % trigger.seconds = 0}
    [] trigger.kind = "cron" -> trigger.fires
    [] OTHER -> {}

\* An interval that is asked for its next run at one of its own instants stays on them.
OnGrid(trigger, origin, x) ==
  trigger.kind = "interval" /\ trigger.seconds > 0 =>
    x >= origin /\ (x - origin) % trigger.seconds = 0

LEMMA TriggerKinds ==
  ASSUME NEW trigger \in TriggerType
  PROVE  /\ trigger.kind \in {"manual", "malformed", "interval", "cron"}
         /\ trigger.kind = "interval" => trigger.seconds \in Nat
         /\ trigger.kind = "cron" => trigger.fires \in SUBSET Instants
BY DEF TriggerType

LEMMA EarliestIsIn ==
  ASSUME NEW T \in SUBSET Nat, T # {}
  PROVE  Earliest(T) \in T /\ \A t \in T : Earliest(T) <= t
BY Least DEF Earliest

\* next_run lies ahead of the instant it was asked for, inside the supported range;
\* an interval always has one, or an error.
LEMMA NextRunIsAhead ==
  ASSUME NEW trigger \in TriggerType, NEW x \in Instants
  PROVE  /\ NextRun(trigger, x) \in Instants \cup {Never, Invalid}
         /\ NextRun(trigger, x) \in Instants => NextRun(trigger, x) > x
         /\ trigger.kind = "interval" => NextRun(trigger, x) # Never
<1> USE SchedulerAssumption
<1>1. CASE trigger.kind = "interval"
  <2>1. trigger.seconds \in Nat
    BY <1>1, TriggerKinds
  <2>2. NextRun(trigger, x) = IF IntervalIsValid(trigger.seconds, x)
                              THEN x + trigger.seconds ELSE Invalid
    BY <1>1 DEF NextRun
  <2> QED
    BY <2>1, <2>2 DEF IntervalIsValid, Instants
<1>2. CASE trigger.kind = "cron"
  <2> DEFINE later == Later(trigger.fires, x)
  <2>1. later \in SUBSET Nat /\ later \in SUBSET Instants /\ \A t \in later : t > x
    BY <1>2, TriggerKinds DEF Later, Instants
  <2>2. NextRun(trigger, x) = IF later = {} THEN Never ELSE Earliest(later)
    BY <1>2 DEF NextRun
  <2>3. later # {} => Earliest(later) \in later
    BY <2>1, EarliestIsIn
  <2> QED
    BY <1>2, <2>1, <2>2, <2>3 DEF Instants
<1>3. CASE trigger.kind \in {"manual", "malformed"}
  BY <1>3 DEF NextRun, Instants
<1> QED
  BY <1>1, <1>2, <1>3, TriggerKinds

\* Two multiples of the same number are at least that number apart.
LEMMA MultiplesApart ==
  ASSUME NEW n \in Nat, n > 0, NEW x \in Nat, NEW y \in Nat,
         x % n = 0, y % n = 0, x < y
  PROVE  x + n <= y
<1>1. PICK p \in Nat : x = n * p
  BY SMT
<1>2. PICK q \in Nat : y = n * q
  BY SMT
<1>3. p < q
  BY <1>1, <1>2, SMT
<1>4. p + 1 <= q
  BY <1>3
<1>5. n * (p + 1) <= n * q
  BY <1>4, SMT
<1>6. n * (p + 1) = n * p + n
  BY SMT
<1> QED
  BY <1>1, <1>2, <1>5, <1>6

LEMMA NextMultiple ==
  ASSUME NEW n \in Nat, n > 0, NEW x \in Nat, x % n = 0
  PROVE  (x + n) % n = 0
<1>1. PICK p \in Nat : x = n * p
  BY SMT
<1> DEFINE q == (x + n) \div n
           r == (x + n) % n
<1>2. q \in Nat /\ r \in 0..(n - 1) /\ x + n = n * q + r
  BY SMT
<1> HIDE DEF q, r
<1>3. n * (p + 1) = n * q + r
  BY <1>1, <1>2, SMT
<1>4. CASE q <= p
  <2>1. n * (q + 1) <= n * (p + 1)
    BY <1>2, <1>4, SMT
  <2>2. n * (q + 1) = n * q + n
    BY <1>2, SMT
  <2> QED
    BY <1>2, <1>3, <2>1, <2>2, SMT
<1>5. CASE p + 1 < q
  <2>1. n * (p + 2) <= n * q
    BY <1>2, <1>5, SMT
  <2>2. n * (p + 2) = n * (p + 1) + n
    BY SMT
  <2> QED
    BY <1>2, <1>3, <2>1, <2>2, SMT
<1>6. CASE q = p + 1
  BY <1>2, <1>3, <1>6, SMT DEF r
<1> QED
  BY <1>2, <1>4, <1>5, <1>6

\* next_run is the first instant after the given one at which the trigger fires.
LEMMA NextRunIsNext ==
  ASSUME NEW trigger \in TriggerType, NEW origin \in Nat, NEW x \in Instants,
         OnGrid(trigger, origin, x), NextRun(trigger, x) # Invalid
  PROVE  /\ NextRun(trigger, x) \in Instants =>
              OnGrid(trigger, origin, NextRun(trigger, x)) /\ NextRun(trigger, x) \in Fires(trigger, origin)
         /\ \A t \in Fires(trigger, origin) :
              t > x => NextRun(trigger, x) \in Instants /\ NextRun(trigger, x) <= t
<1> USE SchedulerAssumption
<1>1. CASE trigger.kind = "interval"
  <2> DEFINE n == trigger.seconds
  <2>1. n \in Nat
    BY <1>1, TriggerKinds
  <2>2. n > 0 /\ x + n <= LastInstant /\ NextRun(trigger, x) = x + n
    BY <1>1 DEF NextRun, IntervalIsValid
  <2> DEFINE y == x - origin
  <2>3. x \in Nat /\ y \in Nat /\ y % n = 0 /\ x = origin + y
    BY <1>1, <2>2 DEF OnGrid, Instants
  <2> HIDE DEF y, n
  <2>4. (y + n) % n = 0 /\ x + n - origin = y + n
    <3>1. (y + n) % n = 0
      BY <2>1, <2>2, <2>3, NextMultiple
    <3> QED
      BY <2>1, <2>3, <3>1
  <2>5. Fires(trigger, origin) = {t \in Nat : t > origin /\ n > 0 /\ (t - origin) % n = 0}
    BY <1>1 DEF Fires, n
  <2>6. ASSUME NEW t \in Fires(trigger, origin), t > x
        PROVE  x + n <= t
    <3>1. t - origin \in Nat /\ (t - origin) % n = 0 /\ y < t - origin /\ t \in Nat
      BY <2>3, <2>5, <2>6
    <3>2. y + n <= t - origin
      BY <2>1, <2>2, <2>3, <3>1, MultiplesApart
    <3> QED
      BY <2>1, <2>3, <3>1, <3>2
  <2>7. x + n \in Instants /\ x + n > origin
    BY <2>1, <2>2, <2>3 DEF Instants
  <2>8. x + n \in Fires(trigger, origin) /\ OnGrid(trigger, origin, x + n)
    <3>1. x + n \in Fires(trigger, origin)
      <4> DEFINE z == x + n
      <4>1. z \in Nat /\ z > origin /\ z - origin = y + n
        BY <2>1, <2>3, <2>4, <2>7
      <4> HIDE DEF z
      <4>2. (z - origin) % n = 0
        BY <2>4, <4>1
      <4> QED
        BY <2>2, <2>5, <4>1, <4>2 DEF z
    <3>2. OnGrid(trigger, origin, x + n)
      <4> DEFINE z == x + n
      <4>1. z >= origin /\ (z - origin) % n = 0
        BY <2>1, <2>3, <2>4, <2>7
      <4> HIDE DEF z
      <4>2. OnGrid(trigger, origin, z)
        BY <4>1, Zenon DEF OnGrid, n
      <4> QED
        BY <4>2 DEF z
    <3> QED
      BY <3>1, <3>2
  <2> QED
    BY <2>2, <2>6, <2>7, <2>8
<1>2. CASE trigger.kind = "cron"
  <2> DEFINE later == Later(trigger.fires, x)
  <2>1. later \in SUBSET Nat /\ later \in SUBSET Instants /\ later = {t \in trigger.fires : t > x}
    BY <1>2, TriggerKinds DEF Later, Instants
  <2>2. NextRun(trigger, x) = IF later = {} THEN Never ELSE Earliest(later)
    BY <1>2 DEF NextRun
  <2>3. later # {} => Earliest(later) \in later /\ \A t \in later : Earliest(later) <= t
    BY <2>1, EarliestIsIn
  <2>4. Fires(trigger, origin) = trigger.fires
    BY <1>2 DEF Fires
  <2>5. \A y : OnGrid(trigger, origin, y)
    BY <1>2 DEF OnGrid
  <2>6. Never \notin Instants
    BY DEF Instants
  <2> HIDE DEF later
  <2>7. CASE later = {}
    BY <2>1, <2>2, <2>4, <2>6, <2>7
  <2>8. CASE later # {}
    BY <2>1, <2>2, <2>3, <2>4, <2>5, <2>8
  <2> QED
    BY <2>7, <2>8
<1>3. CASE trigger.kind \in {"manual", "malformed"}
  <2>1. Fires(trigger, origin) = {} /\ NextRun(trigger, x) \in {Never, Invalid}
    BY <1>3 DEF NextRun, Fires
  <2> QED
    BY <2>1 DEF Instants
<1> QED
  BY <1>1, <1>2, <1>3, TriggerKinds

-----------------------------------------------------------------------------
(***************************************************************************)
(* The loop of catch_up.                                                   *)
(***************************************************************************)

\* A chain of occurrences: it begins with the scheduled one, and next_run leads from
\* each of its instants, none of them ahead of the clock, to the next one.
Chain(runs, trigger, scheduled, now) ==
  /\ runs \in Seq(Instants)
  /\ \A i \in 1..Len(runs) : runs[i] <= now
  /\ Len(runs) >= 1 => runs[1] = scheduled
  /\ \A i \in 1..(Len(runs) - 1) : runs[i + 1] = NextRun(trigger, runs[i])

\* What holds after each round: a chain so far, and the instant to go on from.
Progress(before, trigger, scheduled, now, k) ==
  /\ before = [runs |-> before.runs, next |-> before.next]
  /\ Chain(before.runs, trigger, scheduled, now)
  /\ before.next \in Instants \cup {Invalid}
  /\ Len(before.runs) <= k
  /\ k = 0 => before.runs = <<>>
  /\ k >= 1 => Len(before.runs) >= 1
  /\ before.runs = <<>> => before.next = scheduled
  /\ before.runs # <<>> =>
       before.next = LET after == NextRun(trigger, before.runs[Len(before.runs)])
                     IN  IF after = Never THEN now + 1 ELSE after
  /\ before.next # Invalid /\ before.next <= now => Len(before.runs) = k

LEMMA RoundKeepsProgress ==
  ASSUME NEW trigger \in TriggerType, NEW scheduled \in Instants, NEW now \in Nat,
         scheduled <= now, now < LastInstant, NEW k \in Nat,
         NEW before, Progress(before, trigger, scheduled, now, k)
  PROVE  Progress(Round(trigger, now, before), trigger, scheduled, now, k + 1)
<1> USE SchedulerAssumption
<1> DEFINE after == NextRun(trigger, before.next)
           runs == before.runs
<1>1. CASE before.next = Invalid \/ before.next > now
  <2>1. Round(trigger, now, before) = before
    BY <1>1 DEF Round, StopsAt
  <2>2. runs # <<>>
    BY <1>1 DEF Progress, Instants
  <2>3. Len(runs) \in Nat /\ Len(runs) >= 1
    BY <2>2 DEF Progress, Chain
  <2>4. before.next # Invalid => ~(before.next <= now)
    BY <1>1 DEF Progress, Instants
  <2> QED
    BY <2>1, <2>2, <2>3, <2>4 DEF Progress
<1>2. CASE before.next # Invalid /\ before.next <= now
  <2>1. before.next \in Instants /\ ~(before.next > now)
    BY <1>2 DEF Progress, Instants
  <2> DEFINE ran == Append(runs, before.next)
             next == IF after = Never THEN now + 1 ELSE after
  <2>2. Round(trigger, now, before) = [runs |-> ran, next |-> next]
    BY <1>2, <2>1 DEF Round, StopsAt
  <2>3. after \in Instants \cup {Never, Invalid}
    BY <2>1, NextRunIsAhead
  <2>4. now + 1 \in Instants
    BY DEF Instants
  <2>5. next \in Instants \cup {Invalid}
    BY <2>3, <2>4
  <2>6. runs \in Seq(Instants) /\ Len(runs) \in Nat
    BY DEF Progress, Chain
  <2>7. /\ ran \in Seq(Instants) /\ Len(ran) = Len(runs) + 1
        /\ \A i \in 1..Len(runs) : ran[i] = runs[i]
        /\ ran[Len(runs) + 1] = before.next
    BY <2>1, <2>6
  <2> HIDE DEF ran, next
  <2>8. \A i \in 1..Len(ran) : ran[i] <= now
    BY <1>2, <2>6, <2>7 DEF Progress, Chain
  <2>9. ran[1] = scheduled
    <3>1. CASE runs = <<>>
      BY <2>6, <2>7, <3>1 DEF Progress
    <3>2. CASE runs # <<>>
      BY <2>6, <2>7, <3>2 DEF Progress, Chain
    <3> QED
      BY <3>1, <3>2
  <2>10. ASSUME NEW i \in 1..(Len(ran) - 1)
         PROVE  ran[i + 1] = NextRun(trigger, ran[i])
    <3>1. CASE i < Len(runs)
      <4>1. i \in 1..(Len(runs) - 1) /\ i \in 1..Len(runs) /\ i + 1 \in 1..Len(runs)
        BY <2>6, <2>7, <3>1
      <4>2. runs[i + 1] = NextRun(trigger, runs[i])
        BY <4>1 DEF Progress, Chain
      <4> QED
        BY <2>7, <4>1, <4>2
    <3>2. CASE i = Len(runs)
      <4>1. runs # <<>> /\ Len(runs) \in 1..Len(runs)
        BY <2>6, <3>2
      <4>2. before.next = LET last == NextRun(trigger, runs[Len(runs)])
                          IN  IF last = Never THEN now + 1 ELSE last
        BY <4>1 DEF Progress
      <4>3. before.next = NextRun(trigger, runs[Len(runs)])
        BY <1>2, <2>1, <4>2 DEF Instants
      <4> QED
        BY <2>7, <3>2, <4>1, <4>3
    <3> QED
      BY <2>6, <2>7, <3>1, <3>2
  <2>11. Chain(ran, trigger, scheduled, now)
    BY <2>7, <2>8, <2>9, <2>10 DEF Chain
  <2>12. ran # <<>> /\ Len(ran) >= 1 /\ ran[Len(ran)] = before.next
    BY <2>6, <2>7
  <2>13. Len(runs) = k
    BY <1>2 DEF Progress
  <2> DEFINE made == [runs |-> ran, next |-> next]
  <2>14. made.runs = ran /\ made.next = next /\ made = [runs |-> made.runs, next |-> made.next]
    OBVIOUS
  <2> HIDE DEF made
  <2>15. Progress(made, trigger, scheduled, now, k + 1)
    BY <2>5, <2>6, <2>7, <2>11, <2>12, <2>13, <2>14 DEF Progress, next
  <2> QED
    BY <2>2, <2>15 DEF made
<1> QED
  BY <1>1, <1>2 DEF Progress, Instants

LEMMA RoundsProgress ==
  ASSUME NEW trigger \in TriggerType, NEW scheduled \in Instants, NEW now \in Nat,
         scheduled <= now, now < LastInstant, NEW n \in Nat,
         NEW f, Rounds(f, trigger, scheduled, now, n)
  PROVE  \A k \in 0..n : Progress(f[k], trigger, scheduled, now, k)
<1> USE SchedulerAssumption
<1> DEFINE T == {k \in 0..n : ~Progress(f[k], trigger, scheduled, now, k)}
<1>1. SUFFICES ASSUME T # {}
               PROVE  FALSE
  OBVIOUS
<1>2. T \in SUBSET Nat
  OBVIOUS
<1>3. PICK k \in T : \A y \in T : k <= y
  BY <1>1, <1>2, Least
<1>4. \A j \in 0..n : f[j] = IF j = 0 THEN [runs |-> <<>>, next |-> scheduled]
                             ELSE Round(trigger, now, f[j - 1])
  BY DEF Rounds
<1>5. CASE k = 0
  <2>1. f[0] = [runs |-> <<>>, next |-> scheduled]
    BY <1>3, <1>4, <1>5
  <2>2. Progress(f[0], trigger, scheduled, now, 0)
    BY <2>1 DEF Progress, Chain, Instants
  <2> QED
    BY <1>3, <1>5, <2>2
<1>6. CASE k # 0
  <2>1. k \in 0..n /\ k - 1 \in 0..n /\ k - 1 \in Nat /\ k - 1 \notin T
    BY <1>3, <1>6
  <2>2. Progress(f[k - 1], trigger, scheduled, now, k - 1)
    BY <2>1
  <2>3. f[k] = Round(trigger, now, f[k - 1])
    BY <1>4, <1>6, <2>1
  <2>4. Progress(f[k], trigger, scheduled, now, k - 1 + 1)
    BY <2>1, <2>2, <2>3, RoundKeepsProgress
  <2>5. k - 1 + 1 = k
    BY <2>1
  <2> QED
    BY <1>3, <2>4, <2>5
<1> QED
  BY <1>5, <1>6

\* What catch_up returns: a chain, as long as the loop was allowed to make it unless
\* it reached the first occurrence that is still ahead.
LEMMA MissedIsChain ==
  ASSUME NEW trigger \in TriggerType, NEW scheduled \in Instants, NEW now \in Nat,
         scheduled <= now, now < LastInstant, NEW n \in Nat, n >= 1,
         Missed(trigger, scheduled, now, n) # Invalid
  PROVE  LET runs == Missed(trigger, scheduled, now, n)
             last == NextRun(trigger, runs[Len(runs)])
         IN  /\ Chain(runs, trigger, scheduled, now)
             /\ Len(runs) \in 1..n
             /\ last # Invalid
             /\ last \in Instants /\ last <= now => Len(runs) = n
<1> USE SchedulerAssumption
<1>1. PICK f : /\ Rounds(f, trigger, scheduled, now, n)
               /\ Missed(trigger, scheduled, now, n) =
                    IF f[n].next = Invalid THEN Invalid ELSE f[n].runs
  BY MissedRounds
<1>2. Progress(f[n], trigger, scheduled, now, n)
  BY <1>1, RoundsProgress
<1>3. f[n].next # Invalid /\ Missed(trigger, scheduled, now, n) = f[n].runs
  BY <1>1
<1> DEFINE runs == f[n].runs
           last == NextRun(trigger, runs[Len(runs)])
<1>4. Chain(runs, trigger, scheduled, now) /\ Len(runs) <= n /\ Len(runs) >= 1
  BY <1>2 DEF Progress
<1>5. Len(runs) \in Nat /\ runs # <<>>
  BY <1>4 DEF Chain
<1>6. f[n].next = IF last = Never THEN now + 1 ELSE last
  BY <1>2, <1>5 DEF Progress
<1>7. last # Invalid
  BY <1>3, <1>6
<1>8. last \in Instants => last = f[n].next
  BY <1>6 DEF Instants
<1>9. last \in Instants /\ last <= now => Len(runs) = n
  BY <1>2, <1>3, <1>8 DEF Progress
<1> HIDE DEF runs, last
<1> QED
  BY <1>3, <1>4, <1>5, <1>7, <1>9 DEF runs, last

LEMMA ChainStep ==
  ASSUME NEW trigger, NEW scheduled, NEW now, NEW runs,
         Chain(runs, trigger, scheduled, now), NEW i \in 1..Len(runs), i # 1
  PROVE  /\ i - 1 \in 1..Len(runs) /\ i - 1 < i
         /\ runs[i - 1] \in Instants /\ runs[i] \in Instants
         /\ runs[i] = NextRun(trigger, runs[i - 1])
         /\ NextRun(trigger, runs[i - 1]) # Invalid
<1>1. Len(runs) \in Nat
  BY DEF Chain
<1>2. i - 1 \in 1..Len(runs) /\ i - 1 < i /\ i - 1 \in 1..(Len(runs) - 1) /\ i - 1 + 1 = i
  BY <1>1
<1>3. runs[i - 1] \in Instants /\ runs[i] \in Instants
  BY <1>2 DEF Chain
<1>4. runs[i] = NextRun(trigger, runs[i - 1])
  BY <1>2 DEF Chain
<1> QED
  BY <1>2, <1>3, <1>4, SchedulerAssumption DEF Instants

\* A chain that begins on the grid of its trigger stays on it, and all its instants
\* but the first are instants at which the trigger fires.
LEMMA ChainOnGrid ==
  ASSUME NEW trigger \in TriggerType, NEW origin \in Nat, NEW scheduled, NEW now, NEW runs,
         Chain(runs, trigger, scheduled, now), OnGrid(trigger, origin, scheduled)
  PROVE  \A i \in 1..Len(runs) :
           OnGrid(trigger, origin, runs[i]) /\ (i # 1 => runs[i] \in Fires(trigger, origin))
<1> DEFINE Good(i) == OnGrid(trigger, origin, runs[i]) /\ (i # 1 => runs[i] \in Fires(trigger, origin))
           T == {i \in 1..Len(runs) : ~Good(i)}
<1>1. SUFFICES ASSUME T # {}
               PROVE  FALSE
  OBVIOUS
<1>2. Len(runs) \in Nat /\ T \in SUBSET Nat
  BY DEF Chain
<1>3. PICK i \in T : \A y \in T : i <= y
  BY <1>1, <1>2, Least
<1>4. CASE i = 1
  <2>1. runs[1] = scheduled
    BY <1>2, <1>3, <1>4 DEF Chain
  <2> QED
    BY <1>3, <1>4, <2>1
<1>5. CASE i # 1
  <2>1. i \in 1..Len(runs)
    BY <1>3
  <2>2. /\ i - 1 \in 1..Len(runs) /\ i - 1 < i
        /\ runs[i - 1] \in Instants /\ runs[i] \in Instants
        /\ runs[i] = NextRun(trigger, runs[i - 1])
        /\ NextRun(trigger, runs[i - 1]) # Invalid
    BY <1>5, <2>1, ChainStep
  <2>3. i - 1 \notin T
    BY <1>3, <2>1, <2>2
  <2>4. OnGrid(trigger, origin, runs[i - 1])
    BY <2>2, <2>3
  <2>5. OnGrid(trigger, origin, runs[i]) /\ runs[i] \in Fires(trigger, origin)
    BY <2>2, <2>4, NextRunIsNext
  <2> QED
    BY <1>3, <2>5
<1> QED
  BY <1>4, <1>5

LEMMA ChainAscends ==
  ASSUME NEW trigger \in TriggerType, NEW scheduled, NEW now, NEW runs,
         Chain(runs, trigger, scheduled, now)
  PROVE  \A i, j \in 1..Len(runs) : i < j => runs[i] < runs[j]
<1> DEFINE T == {j \in 1..Len(runs) : \E i \in 1..Len(runs) : i < j /\ ~(runs[i] < runs[j])}
<1>1. SUFFICES ASSUME T # {}
               PROVE  FALSE
  OBVIOUS
<1>2. Len(runs) \in Nat /\ T \in SUBSET Nat
  BY DEF Chain
<1>3. PICK j \in T : \A y \in T : j <= y
  BY <1>1, <1>2, Least
<1>4. PICK i \in 1..Len(runs) : i < j /\ ~(runs[i] < runs[j])
  BY <1>3
<1>5. j \in 1..Len(runs) /\ j # 1
  BY <1>2, <1>3, <1>4
<1>6. /\ j - 1 \in 1..Len(runs) /\ j - 1 < j
      /\ runs[j - 1] \in Instants /\ runs[j] \in Instants
      /\ runs[j] = NextRun(trigger, runs[j - 1])
  BY <1>5, ChainStep
<1>7. runs[j - 1] < runs[j]
  BY <1>6, NextRunIsAhead
<1>8. j - 1 \notin T
  BY <1>3, <1>5, <1>6
<1>9. i = j - 1 \/ runs[i] < runs[j - 1]
  BY <1>4, <1>5, <1>6, <1>8
<1>10. runs[i] \in Nat /\ runs[j - 1] \in Nat /\ runs[j] \in Nat
  <2>1. runs \in Seq(Instants) /\ i \in 1..Len(runs)
    BY <1>4 DEF Chain
  <2>2. runs[i] \in Instants
    BY <2>1
  <2> QED
    BY <1>6, <2>2, SchedulerAssumption DEF Instants
<1> QED
  BY <1>4, <1>7, <1>9, <1>10

\* A chain leaves out no instant at which its trigger fires before its last one.
LEMMA ChainCovers ==
  ASSUME NEW trigger \in TriggerType, NEW origin \in Nat, NEW scheduled \in Instants, NEW now, NEW runs,
         Chain(runs, trigger, scheduled, now), OnGrid(trigger, origin, scheduled),
         NEW t \in Fires(trigger, origin), t \in Nat, scheduled <= t,
         Len(runs) >= 1, t <= runs[Len(runs)]
  PROVE  \E i \in 1..Len(runs) : runs[i] = t
<1> DEFINE T == {i \in 1..Len(runs) : t <= runs[i]}
<1>1. Len(runs) \in Nat /\ Len(runs) \in T /\ T \in SUBSET Nat
  <2>1. Len(runs) \in Nat
    BY DEF Chain
  <2> QED
    BY <2>1
<1>2. PICK i \in T : \A y \in T : i <= y
  BY <1>1, Least
<1>3. i \in 1..Len(runs) /\ t <= runs[i] /\ runs[i] \in Instants
  BY <1>2 DEF Chain
<1>4. CASE i = 1
  <2>1. runs[1] = scheduled
    BY <1>1, <1>3 DEF Chain
  <2> QED
    BY <1>3, <1>4, <2>1 DEF Instants
<1>5. CASE i # 1
  <2>1. /\ i - 1 \in 1..Len(runs) /\ i - 1 < i
        /\ runs[i - 1] \in Instants /\ runs[i] \in Instants
        /\ runs[i] = NextRun(trigger, runs[i - 1])
        /\ NextRun(trigger, runs[i - 1]) # Invalid
    BY <1>3, <1>5, ChainStep
  <2>2. i - 1 \notin T
    BY <1>2, <1>3, <2>1
  <2>3. t > runs[i - 1]
    BY <2>1, <2>2 DEF Instants
  <2>4. OnGrid(trigger, origin, runs[i - 1])
    BY <2>1, ChainOnGrid
  <2>5. runs[i] <= t
    BY <2>1, <2>3, <2>4, NextRunIsNext
  <2> QED
    BY <1>3, <2>5 DEF Instants
<1> QED
  BY <1>4, <1>5

-----------------------------------------------------------------------------
\* catch_up replays the missed occurrences themselves, oldest first and none of them
\* twice, from the one that was due: all of them, or as many as it may and then it
\* leaves out only later ones (ADR 0016).
THEOREM CatchUpIsExact ==
  ASSUME NEW trigger \in TriggerType, NEW origin \in Nat, NEW scheduled \in Instants, NEW now \in Nat,
         scheduled <= now, now < LastInstant, OnGrid(trigger, origin, scheduled),
         NEW maxRuns \in Nat,
         DueRuns(trigger, scheduled, now, CatchUp(maxRuns)) # Invalid
  PROVE  LET runs == DueRuns(trigger, scheduled, now, CatchUp(maxRuns))
         IN  /\ Len(runs) \in 1..maxRuns /\ runs[1] = scheduled
             /\ \A i, j \in 1..Len(runs) : i < j => runs[i] < runs[j]
             /\ \A i \in 1..Len(runs) :
                  runs[i] <= now /\ (i # 1 => runs[i] \in Fires(trigger, origin))
             /\ \A t \in Fires(trigger, origin) :
                  scheduled <= t /\ t <= now
                  => \/ \E i \in 1..Len(runs) : runs[i] = t
                     \/ Len(runs) = maxRuns /\ t > runs[Len(runs)]
<1> USE SchedulerAssumption
<1> DEFINE runs == Missed(trigger, scheduled, now, maxRuns)
           last == NextRun(trigger, runs[Len(runs)])
<1>1. DueRuns(trigger, scheduled, now, CatchUp(maxRuns)) =
        CatchUpRuns(trigger, scheduled, now, maxRuns)
  BY DEF DueRuns, CatchUp, Instants
<1>2. maxRuns >= 1 /\ runs # Invalid
      /\ DueRuns(trigger, scheduled, now, CatchUp(maxRuns)) = runs
  BY <1>1 DEF CatchUpRuns
<1>3. /\ Chain(runs, trigger, scheduled, now) /\ Len(runs) \in 1..maxRuns
      /\ last # Invalid
      /\ last \in Instants /\ last <= now => Len(runs) = maxRuns
  BY <1>2, MissedIsChain
<1> HIDE DEF runs
<1>4. Len(runs) \in 1..Len(runs) /\ Len(runs) >= 1
  BY <1>3
<1>5. runs[1] = scheduled /\ \A i \in 1..Len(runs) : runs[i] <= now /\ runs[i] \in Instants
  BY <1>3, <1>4 DEF Chain
<1>6. \A i, j \in 1..Len(runs) : i < j => runs[i] < runs[j]
  BY <1>3, ChainAscends
<1>7. \A i \in 1..Len(runs) :
        OnGrid(trigger, origin, runs[i]) /\ (i # 1 => runs[i] \in Fires(trigger, origin))
  BY <1>3, ChainOnGrid
<1>8. ASSUME NEW t \in Fires(trigger, origin), scheduled <= t, t <= now
      PROVE  \/ \E i \in 1..Len(runs) : runs[i] = t
             \/ Len(runs) = maxRuns /\ t > runs[Len(runs)]
  <2>1. t \in Nat
    BY <1>8, TriggerKinds DEF Fires, Instants
  <2>2. CASE t <= runs[Len(runs)]
    BY <1>3, <1>4, <1>8, <2>1, <2>2, ChainCovers
  <2>3. CASE t > runs[Len(runs)]
    <3>1. last \in Instants /\ last <= t
      BY <1>3, <1>4, <1>5, <1>7, <2>3, NextRunIsNext
    <3>2. last <= now
      BY <1>8, <2>1, <3>1 DEF Instants
    <3> QED
      BY <1>3, <2>3, <3>1, <3>2
  <2> QED
    BY <1>4, <1>5, <2>1, <2>2, <2>3 DEF Instants
<1> QED
  BY <1>2, <1>3, <1>5, <1>6, <1>7, <1>8

LEMMA SequenceInto ==
  ASSUME NEW S, NEW T, NEW s \in Seq(S), \A i \in 1..Len(s) : s[i] \in T
  PROVE  s \in Seq(T)
<1>1. s = [i \in 1..Len(s) |-> s[i]] /\ Len(s) \in Nat
  OBVIOUS
<1>2. s \in [1..Len(s) -> T]
  BY <1>1
<1> QED
  BY <1>1, <1>2

\* What due_runs returns under any policy when it returns no error: instants that have
\* come, in ascending order, none before the scheduled one.
LEMMA DueRunsReturns ==
  ASSUME NEW trigger \in TriggerType, NEW misfire \in MisfireType,
         NEW scheduled \in Instants, NEW now \in Nat, now < LastInstant,
         DueRuns(trigger, scheduled, now, misfire) # Invalid
  PROVE  LET runs == DueRuns(trigger, scheduled, now, misfire)
         IN  /\ runs \in Seq(0..now)
             /\ \A i, j \in 1..Len(runs) : i < j => runs[i] < runs[j]
             /\ \A i \in 1..Len(runs) : scheduled <= runs[i]
             /\ runs # <<>> => scheduled <= now
             /\ runs # <<>> /\ misfire.policy # "catch_up" => runs = <<scheduled>>
             /\ misfire.policy = "catch_up" /\ scheduled <= now =>
                  /\ Chain(runs, trigger, scheduled, now)
                  /\ Len(runs) >= 1
<1> USE SchedulerAssumption
<1> DEFINE runs == DueRuns(trigger, scheduled, now, misfire)
<1>1. /\ misfire.policy \in {"skip", "run_once", "catch_up"}
      /\ misfire.policy = "catch_up" => misfire.maxRuns \in Nat
  BY DEF MisfireType
<1>2. scheduled \in Nat
  BY DEF Instants
<1>3. CASE scheduled > now \/ misfire.policy = "skip"
  <2>1. runs = <<>>
    BY <1>2, <1>3 DEF DueRuns
  <2>2. scheduled <= now => misfire.policy # "catch_up"
    BY <1>2, <1>3
  <2> HIDE DEF runs
  <2> QED
    BY <2>1, <2>2 DEF runs
<1>4. CASE scheduled <= now /\ misfire.policy = "run_once"
  <2>1. runs = <<scheduled>>
    BY <1>2, <1>4 DEF DueRuns
  <2> HIDE DEF runs
  <2>2. runs \in Seq(0..now)
    BY <1>2, <1>4, <2>1
  <2> QED
    BY <1>2, <1>4, <2>1, <2>2 DEF runs
<1>5. CASE scheduled <= now /\ misfire.policy = "catch_up"
  <2> DEFINE n == misfire.maxRuns
  <2>1. runs = CatchUpRuns(trigger, scheduled, now, n)
    BY <1>2, <1>5 DEF DueRuns
  <2>2. n \in Nat /\ n >= 1 /\ runs = Missed(trigger, scheduled, now, n)
        /\ Missed(trigger, scheduled, now, n) # Invalid
    BY <1>1, <1>5, <2>1 DEF CatchUpRuns
  <2> HIDE DEF runs, n
  <2>3. Chain(runs, trigger, scheduled, now) /\ Len(runs) \in 1..n
    BY <1>5, <2>2, MissedIsChain
  <2>4. Len(runs) \in Nat /\ Len(runs) >= 1
    BY <2>2, <2>3
  <2>5. \A i, j \in 1..Len(runs) : i < j => runs[i] < runs[j]
    BY <2>3, ChainAscends
  <2>6. \A i \in 1..Len(runs) : runs[i] \in Instants /\ runs[i] <= now
    BY <2>3 DEF Chain
  <2>7. \A i \in 1..Len(runs) : runs[i] \in 0..now
    BY <2>6 DEF Instants
  <2>8. runs \in Seq(0..now)
    BY <2>3, <2>7, SequenceInto DEF Chain
  <2>9. runs[1] = scheduled
    BY <2>3, <2>4 DEF Chain
  <2>10. ASSUME NEW i \in 1..Len(runs)
         PROVE  scheduled <= runs[i]
    <3>1. CASE i = 1
      BY <1>2, <2>9, <3>1
    <3>2. CASE i # 1
      <4>1. 1 \in 1..Len(runs) /\ 1 < i
        BY <2>4, <3>2
      <4>2. runs[1] < runs[i]
        BY <2>5, <4>1
      <4> QED
        BY <1>2, <2>7, <2>9, <4>2
    <3> QED
      BY <3>1, <3>2
  <2> QED
    BY <1>5, <2>3, <2>4, <2>5, <2>8, <2>10 DEF runs
<1> QED
  BY <1>1, <1>2, <1>3, <1>4, <1>5
-----------------------------------------------------------------------------
(***************************************************************************)
(* The rounds of loops of different lengths.                               *)
(***************************************************************************)
LEMMA RoundsAgree ==
  ASSUME NEW trigger, NEW scheduled, NEW now, NEW n \in Nat, NEW m \in Nat,
         NEW f, Rounds(f, trigger, scheduled, now, n),
         NEW g, Rounds(g, trigger, scheduled, now, m)
  PROVE  \A k \in Nat : k <= n /\ k <= m => f[k] = g[k]
<1> DEFINE T == {k \in Nat : k <= n /\ k <= m /\ f[k] # g[k]}
<1>1. SUFFICES ASSUME T # {}
               PROVE  FALSE
  OBVIOUS
<1>2. PICK k \in T : \A y \in T : k <= y
  BY <1>1, Least
<1> DEFINE first == [runs |-> <<>>, next |-> scheduled]
<1>3. \A j \in 0..n : f[j] = IF j = 0 THEN first ELSE Round(trigger, now, f[j - 1])
  BY DEF Rounds
<1>4. \A j \in 0..m : g[j] = IF j = 0 THEN first ELSE Round(trigger, now, g[j - 1])
  BY DEF Rounds
<1> HIDE DEF first
<1>5. k \in 0..n /\ k \in 0..m
  BY <1>2
<1>6. CASE k = 0
  BY <1>2, <1>3, <1>4, <1>5, <1>6
<1>7. CASE k # 0
  <2>1. k - 1 \in Nat /\ k - 1 \notin T
    BY <1>2, <1>7
  <2>2. f[k - 1] = g[k - 1]
    BY <1>2, <2>1
  <2> QED
    BY <1>2, <1>3, <1>4, <1>5, <1>7, <2>2
<1> QED
  BY <1>6, <1>7

\* The result of every loop that is not longer can be read off the rounds.
LEMMA MissedFromRounds ==
  ASSUME NEW trigger, NEW scheduled, NEW now, NEW n \in Nat,
         NEW f, Rounds(f, trigger, scheduled, now, n), NEW k \in 0..n
  PROVE  Missed(trigger, scheduled, now, k) = IF f[k].next = Invalid THEN Invalid ELSE f[k].runs
<1>1. k \in Nat /\ k <= n
  OBVIOUS
<1>2. PICK g : /\ Rounds(g, trigger, scheduled, now, k)
               /\ Missed(trigger, scheduled, now, k) =
                    IF g[k].next = Invalid THEN Invalid ELSE g[k].runs
  BY <1>1, MissedRounds
<1>3. f[k] = g[k]
  BY <1>1, <1>2, RoundsAgree
<1> QED
  BY <1>2, <1>3

\* A loop that has met an error or an occurrence that is still ahead is finished.
Finished(before, now) == before.next = Invalid \/ before.next > now

LEMMA FinishedStays ==
  ASSUME NEW trigger, NEW scheduled, NEW now, NEW n \in Nat,
         NEW f, Rounds(f, trigger, scheduled, now, n), NEW k \in 0..n,
         Finished(f[k], now)
  PROVE  f[n] = f[k]
<1> DEFINE T == {j \in k..n : f[j] # f[k]}
<1>1. SUFFICES ASSUME T # {}
               PROVE  FALSE
  <2>1. n \in k..n
    OBVIOUS
  <2> QED
    BY <1>1, <2>1
<1>2. T \in SUBSET Nat
  OBVIOUS
<1>3. PICK j \in T : \A y \in T : j <= y
  BY <1>1, <1>2, Least
<1>4. j \in 0..n /\ j # 0 /\ j - 1 \in k..n /\ j - 1 \notin T
  BY <1>3
<1>5. f[j - 1] = f[k]
  BY <1>4
<1>6. f[j] = Round(trigger, now, f[j - 1])
  <2>1. \A i \in 0..n : f[i] = IF i = 0 THEN [runs |-> <<>>, next |-> scheduled]
                               ELSE Round(trigger, now, f[i - 1])
    BY DEF Rounds
  <2> QED
    BY <1>4, <2>1
<1>7. Round(trigger, now, f[k]) = f[k]
  BY DEF Round, StopsAt, Finished
<1> QED
  BY <1>3, <1>5, <1>6, <1>7

\* What a loop has collected, behind what was collected before it.
Behind(runs, before) == [runs |-> runs \o before.runs, next |-> before.next]

LEMMA RoundAfterRuns ==
  ASSUME NEW trigger, NEW now, NEW runs \in Seq(Instants),
         NEW b, b = [runs |-> b.runs, next |-> b.next],
         b.runs \in Seq(Instants), b.next \in Instants \cup {Invalid}
  PROVE  Round(trigger, now, Behind(runs, b)) = Behind(runs, Round(trigger, now, b))
<1> DEFINE after == NextRun(trigger, b.next)
           to == IF after = Never THEN now + 1 ELSE after
           front == Behind(runs, b)
<1>0. front.runs = runs \o b.runs /\ front.next = b.next
  BY DEF Behind
<1> HIDE DEF front
<1>1. CASE b.next = Invalid \/ b.next > now
  BY <1>0, <1>1 DEF Round, StopsAt, front
<1>2. CASE b.next # Invalid /\ ~(b.next > now)
  <2>1. Append(runs \o b.runs, b.next) = runs \o Append(b.runs, b.next)
    <3>1. b.next \in Instants
      BY <1>2
    <3> QED
      BY <3>1
  <2> DEFINE one == [runs |-> Append(b.runs, b.next), next |-> to]
  <2>2. Round(trigger, now, b) = one
    BY <1>2 DEF Round, StopsAt
  <2>3. Round(trigger, now, front) = [runs |-> Append(runs \o b.runs, b.next), next |-> to]
    BY <1>0, <1>2 DEF Round, StopsAt
  <2>4. one.runs = Append(b.runs, b.next) /\ one.next = to
    OBVIOUS
  <2> HIDE DEF to, one
  <2>5. Behind(runs, one) = [runs |-> Append(runs \o b.runs, b.next), next |-> to]
    BY <2>1, <2>4 DEF Behind
  <2> QED
    BY <2>2, <2>3, <2>5 DEF front
<1> QED
  BY <1>1, <1>2

\* The rounds of a loop after its first p rounds are those of a loop that begins with
\* the occurrence reached, behind what was collected before.
LEMMA RoundsResume ==
  ASSUME NEW trigger \in TriggerType, NEW scheduled \in Instants, NEW now \in Nat,
         scheduled <= now, now < LastInstant, NEW p \in Nat, NEW q \in Nat, NEW n \in Nat,
         n = p + q, NEW f, Rounds(f, trigger, scheduled, now, n),
         NEW resume \in Instants, resume <= now, f[p].next = resume,
         NEW g, Rounds(g, trigger, resume, now, q)
  PROVE  f[n] = Behind(f[p].runs, g[q])
<1> DEFINE runs == f[p].runs
           T == {k \in 0..q : f[p + k] # Behind(runs, g[k])}
<1>1. /\ \A j \in 0..n : f[j] = IF j = 0 THEN [runs |-> <<>>, next |-> scheduled]
                                ELSE Round(trigger, now, f[j - 1])
      /\ \A j \in 0..q : g[j] = IF j = 0 THEN [runs |-> <<>>, next |-> resume]
                                ELSE Round(trigger, now, g[j - 1])
  BY DEF Rounds
<1>2. \A j \in 0..n : Progress(f[j], trigger, scheduled, now, j)
  BY RoundsProgress
<1>3. \A j \in 0..q : Progress(g[j], trigger, resume, now, j)
  BY RoundsProgress
<1>4. runs \in Seq(Instants) /\ f[p] = [runs |-> runs, next |-> resume]
  <2>1. p \in 0..n
    OBVIOUS
  <2>2. Progress(f[p], trigger, scheduled, now, p)
    BY <1>2, <2>1
  <2> QED
    BY <2>2 DEF Progress, Chain
<1> HIDE DEF runs
<1>5. SUFFICES ASSUME T # {}
               PROVE  FALSE
  <2>1. q \in 0..q /\ p + q = n
    OBVIOUS
  <2> QED
    BY <1>5, <2>1 DEF runs
<1>6. T \in SUBSET Nat
  OBVIOUS
<1>7. PICK k \in T : \A y \in T : k <= y
  BY <1>5, <1>6, Least
<1>8. k \in 0..q /\ f[p + k] # Behind(runs, g[k])
  BY <1>7
<1>9. CASE k = 0
  <2>1. g[0] = [runs |-> <<>>, next |-> resume] /\ runs \o <<>> = runs
    BY <1>1, <1>4
  <2>2. Behind(runs, g[0]) = f[p]
    BY <1>4, <2>1 DEF Behind
  <2> QED
    BY <1>8, <1>9, <2>2
<1>10. CASE k # 0
  <2> DEFINE j == k - 1
             b == g[j]
  <2>1. j \in 0..q /\ j < k
    BY <1>8, <1>10
  <2>2. f[p + j] = Behind(runs, b)
    BY <1>7, <2>1
  <2>3. g[k] = Round(trigger, now, b)
    BY <1>1, <1>8, <1>10
  <2>4. f[p + k] = Round(trigger, now, f[p + j])
    <3>1. p + k \in 0..n /\ p + k # 0 /\ p + k - 1 = p + j
      BY <1>8, <1>10
    <3> QED
      BY <1>1, <3>1
  <2>5. Progress(b, trigger, resume, now, j)
    BY <1>3, <2>1
  <2> HIDE DEF b, j
  <2>6. /\ b.runs \in Seq(Instants) /\ b.next \in Instants \cup {Invalid}
        /\ b = [runs |-> b.runs, next |-> b.next]
    BY <2>5 DEF Progress, Chain
  <2>7. Round(trigger, now, Behind(runs, b)) = Behind(runs, Round(trigger, now, b))
    BY <1>4, <2>6, RoundAfterRuns
  <2> QED
    BY <1>8, <2>2, <2>3, <2>4, <2>7
<1> QED
  BY <1>9, <1>10

SplitsAt(trigger, scheduled, now, p, q, n) ==
  LET piece == Missed(trigger, scheduled, now, p)
      resume == NextRun(trigger, piece[Len(piece)])
  IN  /\ resume \in Instants \cup {Never}
      /\ Missed(trigger, scheduled, now, n) =
           IF resume # Never /\ resume <= now
           THEN piece \o Missed(trigger, resume, now, q) ELSE piece
      /\ piece \in Seq(Instants)

\* A backlog that is evaluated in two pieces gives what it gives when it is evaluated
\* at once.
LEMMA BacklogSplits ==
  ASSUME NEW trigger \in TriggerType, NEW scheduled \in Instants, NEW now \in Nat,
         scheduled <= now, now < LastInstant,
         NEW p \in Nat, NEW q \in Nat, NEW n \in Nat, p >= 1, q >= 1, n = p + q,
         Missed(trigger, scheduled, now, n) # Invalid
  PROVE  SplitsAt(trigger, scheduled, now, p, q, n)
<1> SUFFICES LET piece == Missed(trigger, scheduled, now, p)
                 resume == NextRun(trigger, piece[Len(piece)])
             IN  /\ resume \in Instants \cup {Never}
                 /\ Missed(trigger, scheduled, now, n) =
                      IF resume # Never /\ resume <= now
                      THEN piece \o Missed(trigger, resume, now, q) ELSE piece
                 /\ piece \in Seq(Instants)
  BY DEF SplitsAt
<1> USE SchedulerAssumption
<1>1. p \in 0..n /\ n \in 0..n /\ n \in p..n
  OBVIOUS
<1>2. PICK f : Rounds(f, trigger, scheduled, now, n)
  BY RoundsExist
<1> DEFINE piece == f[p].runs
           resume == NextRun(trigger, piece[Len(piece)])
<1>3. /\ Missed(trigger, scheduled, now, n) = IF f[n].next = Invalid THEN Invalid ELSE f[n].runs
      /\ Missed(trigger, scheduled, now, p) = IF f[p].next = Invalid THEN Invalid ELSE f[p].runs
  BY <1>1, <1>2, MissedFromRounds
<1>4. f[n].next # Invalid /\ Missed(trigger, scheduled, now, n) = f[n].runs
  BY <1>3
<1>5. f[p].next = Invalid \/ f[p].next > now => f[n] = f[p]
  <2>1. Finished(f[p], now) => f[n] = f[p]
    BY <1>1, <1>2, FinishedStays
  <2> QED
    BY <2>1 DEF Finished
<1>6. f[p].next # Invalid /\ Missed(trigger, scheduled, now, p) = piece
  BY <1>3, <1>4, <1>5
<1>7. Progress(f[p], trigger, scheduled, now, p)
  BY <1>1, <1>2, RoundsProgress
<1>8. /\ piece \in Seq(Instants) /\ Len(piece) >= 1 /\ piece # <<>>
      /\ f[p].next \in Instants
      /\ f[p].next = IF resume = Never THEN now + 1 ELSE resume
  <2>1. piece \in Seq(Instants) /\ Len(piece) >= 1
    BY <1>7 DEF Progress, Chain
  <2>2. piece # <<>>
    BY <2>1
  <2> QED
    BY <1>6, <1>7, <2>1, <2>2 DEF Progress
<1> HIDE DEF resume, piece
<1>9. CASE resume = Never \/ resume > now
  <2>1. f[p].next > now
    BY <1>8, <1>9
  <2>2. f[n].runs = piece
    BY <1>5, <2>1 DEF piece
  <2>3. ~(resume # Never /\ resume <= now)
    BY <1>8, <1>9 DEF Instants
  <2>4. resume \in Instants \cup {Never}
    BY <1>8
  <2> QED
    BY <1>4, <1>6, <1>8, <2>2, <2>3, <2>4 DEF resume
<1>10. CASE resume # Never /\ ~(resume > now)
  <2>1. f[p].next = resume /\ resume \in Instants /\ resume <= now
    BY <1>8, <1>10 DEF Instants
  <2>2. PICK g : Rounds(g, trigger, resume, now, q)
    BY RoundsExist
  <2>3. f[n] = Behind(f[p].runs, g[q])
    BY <1>2, <2>1, <2>2, RoundsResume
  <2>4. g[q].next # Invalid /\ f[n].runs = piece \o g[q].runs
    <3>1. f[n].next = g[q].next /\ f[n].runs = f[p].runs \o g[q].runs
      <4> DEFINE r == f[p].runs
                 b == g[q]
      <4>1. f[n] = Behind(r, b)
        BY <2>3
      <4> HIDE DEF r, b
      <4>2. f[n].next = b.next /\ f[n].runs = r \o b.runs
        BY <4>1 DEF Behind
      <4> QED
        BY <4>2 DEF r, b
    <3> QED
      BY <1>4, <3>1 DEF piece
  <2>5. Missed(trigger, resume, now, q) = g[q].runs
    <3>1. q \in 0..q
      OBVIOUS
    <3> QED
      BY <2>2, <2>4, <3>1, MissedFromRounds
  <2> QED
    BY <1>4, <1>6, <1>8, <1>10, <2>1, <2>4, <2>5 DEF resume
<1> QED
  BY <1>8, <1>9, <1>10

-----------------------------------------------------------------------------
(***************************************************************************)
(* When the loop fails.                                                    *)
(***************************************************************************)
Stuck(before, trigger, now) ==
  before.next \in Instants /\ before.next <= now /\ NextRun(trigger, before.next) = Invalid

\* The loop fails exactly when one of its rounds meets an instant without next run.
LEMMA FailsWhenStuck ==
  ASSUME NEW trigger \in TriggerType, NEW scheduled \in Instants, NEW now \in Nat,
         scheduled <= now, now < LastInstant, NEW n \in Nat,
         NEW f, Rounds(f, trigger, scheduled, now, n)
  PROVE  f[n].next = Invalid <=> \E k \in 0..(n - 1) : Stuck(f[k], trigger, now)
<1> USE SchedulerAssumption
<1>1. \A k \in 0..n : f[k] = IF k = 0 THEN [runs |-> <<>>, next |-> scheduled]
                             ELSE Round(trigger, now, f[k - 1])
  BY DEF Rounds
<1>2. \A k \in 0..n : Progress(f[k], trigger, scheduled, now, k)
  BY RoundsProgress
<1>3. ASSUME f[n].next = Invalid
      PROVE  \E k \in 0..(n - 1) : Stuck(f[k], trigger, now)
  <2> DEFINE T == {k \in 0..n : f[k].next = Invalid}
  <2>1. T # {} /\ T \in SUBSET Nat
    <3>1. n \in T
      BY <1>3
    <3> QED
      BY <3>1
  <2>2. PICK k \in T : \A y \in T : k <= y
    BY <2>1, Least
  <2>3. k # 0
    <3>1. f[0].next = scheduled
      BY <1>1
    <3> QED
      BY <2>2, <3>1 DEF Instants
  <2> DEFINE j == k - 1
             b == f[j]
  <2>4. j \in 0..(n - 1) /\ j \in 0..n /\ j < k /\ k \in 0..n
    BY <2>2, <2>3
  <2>5. b.next # Invalid /\ f[k].next = Invalid
    BY <2>2, <2>4
  <2>6. f[k] = Round(trigger, now, b)
    BY <1>1, <2>3, <2>4
  <2>7. b.next \in Instants
    BY <1>2, <2>4, <2>5 DEF Progress
  <2> HIDE DEF b, j
  <2>8. ~(b.next > now)
    BY <2>5, <2>6 DEF Round, StopsAt
  <2>9. f[k].next = LET after == NextRun(trigger, b.next)
                    IN  IF after = Never THEN now + 1 ELSE after
    BY <2>5, <2>6, <2>8 DEF Round, StopsAt
  <2>10. NextRun(trigger, b.next) = Invalid
    BY <2>5, <2>9
  <2>11. Stuck(b, trigger, now)
    BY <2>7, <2>8, <2>10 DEF Stuck, Instants
  <2> QED
    BY <2>4, <2>11 DEF b
<1>4. ASSUME NEW k \in 0..(n - 1), Stuck(f[k], trigger, now)
      PROVE  f[n].next = Invalid
  <2> DEFINE j == k + 1
             b == f[k]
  <2>1. j \in 0..n /\ j # 0 /\ j - 1 = k
    OBVIOUS
  <2>2. f[j] = Round(trigger, now, b)
    BY <1>1, <2>1
  <2> HIDE DEF b, j
  <2>3. Stuck(b, trigger, now)
    BY <1>4 DEF b
  <2>4. b.next # Invalid /\ ~(b.next > now)
    BY <2>3 DEF Stuck, Instants
  <2>5. f[j].next = Invalid
    BY <2>2, <2>3, <2>4 DEF Round, StopsAt, Stuck
  <2>6. f[n] = f[j]
    <3>1. Finished(f[j], now)
      BY <2>5 DEF Finished
    <3> QED
      BY <2>1, <3>1, FinishedStays
  <2> QED
    BY <2>5, <2>6
<1> QED
  BY <1>3, <1>4

LEMMA Times ==
  ASSUME NEW s \in Nat, NEW j \in Nat, NEW k \in Nat
  PROVE  /\ j * s \in Nat /\ (j + 1) * s = j * s + s
         /\ j <= k => j * s <= k * s
<1>1. j * s \in Nat /\ (j + 1) * s = j * s + s
  BY SMT
<1>2. ASSUME j <= k
      PROVE  j * s <= k * s
  <2>1. k - j \in Nat
    BY <1>2
  <2>2. (k - j) * s \in Nat
    BY <2>1, SMT
  <2>3. k * s = j * s + (k - j) * s
    BY SMT
  <2>4. k * s \in Nat
    BY SMT
  <2> QED
    BY <1>1, <2>2, <2>3, <2>4
<1> QED
  BY <1>1, <1>2

\* An interval is counted from the scheduled instant on.
LEMMA IntervalRound ==
  ASSUME NEW trigger \in TriggerType, trigger.kind = "interval",
         NEW scheduled \in Instants, NEW now \in Nat, scheduled <= now, now < LastInstant,
         NEW n \in Nat, NEW f, Rounds(f, trigger, scheduled, now, n),
         NEW k \in 0..n, f[k].next \in Instants, f[k].next <= now
  PROVE  f[k].next = scheduled + k * trigger.seconds
<1> USE SchedulerAssumption
<1>0. PICK s \in Nat : s = trigger.seconds
  BY TriggerKinds
<1> DEFINE T == {j \in 0..n : f[j].next \in Instants /\ f[j].next <= now
                              /\ f[j].next # scheduled + j * s}
<1>1. SUFFICES ASSUME T # {}
               PROVE  FALSE
  BY <1>0, <1>1
<1>2. T \in SUBSET Nat
  OBVIOUS
<1>3. PICK j \in T : \A y \in T : j <= y
  BY <1>1, <1>2, Least
<1>4. \A i \in 0..n : f[i] = IF i = 0 THEN [runs |-> <<>>, next |-> scheduled]
                             ELSE Round(trigger, now, f[i - 1])
  BY DEF Rounds
<1>5. j \in 0..n /\ f[j].next \in Instants /\ f[j].next <= now /\ f[j].next # scheduled + j * s
  BY <1>3
<1>6. j # 0
  <2>1. f[0].next = scheduled /\ scheduled + 0 * s = scheduled
    <3>1. f[0].next = scheduled
      BY <1>4
    <3>2. 0 * s = 0
      BY <1>0, SMT
    <3> QED
      BY <3>1, <3>2 DEF Instants
  <2> QED
    BY <1>5, <2>1
<1> DEFINE i == j - 1
           b == f[i]
<1>7. i \in 0..n /\ i < j /\ i \in Nat /\ i + 1 = j
  BY <1>5, <1>6
<1>8. f[j] = Round(trigger, now, b)
  BY <1>4, <1>5, <1>6
<1>9. b.next \in Instants \cup {Invalid}
  <2>1. Progress(f[i], trigger, scheduled, now, i)
    BY <1>7, RoundsProgress
  <2> QED
    BY <2>1 DEF Progress
<1>10. i \notin T
  BY <1>3, <1>7
<1> HIDE DEF b, T
<1>11. ~Finished(b, now)
  <2>1. ASSUME Finished(b, now)
        PROVE  f[j] = b
    BY <1>8, <2>1 DEF Round, StopsAt, Finished
  <2> QED
    BY <1>5, <2>1 DEF Finished, Instants
<1>12. b.next \in Instants /\ b.next <= now
  BY <1>9, <1>11 DEF Finished, Instants
<1>13. b.next = scheduled + i * s
  BY <1>7, <1>10, <1>12 DEF T, b
<1>14. f[j].next = b.next + s
  <2>1. f[j].next = LET after == NextRun(trigger, b.next)
                    IN  IF after = Never THEN now + 1 ELSE after
    BY <1>8, <1>11 DEF Round, StopsAt, Finished
  <2>2. NextRun(trigger, b.next) \in {b.next + s, Invalid}
    BY <1>0 DEF NextRun
  <2>3. NextRun(trigger, b.next) # Never
    BY <1>0, <1>12, <2>2 DEF Instants
  <2> QED
    BY <1>5, <2>1, <2>2, <2>3 DEF Instants
<1>15. (i + 1) * s = i * s + s /\ i * s \in Nat
  BY <1>0, <1>7, Times
<1> HIDE DEF i
<1> QED
  BY <1>0, <1>5, <1>7, <1>13, <1>14, <1>15 DEF Instants

LEMMA IntervalReaches ==
  ASSUME NEW trigger \in TriggerType, trigger.kind = "interval",
         NEW scheduled \in Instants, NEW now \in Nat, scheduled <= now, now < LastInstant,
         NEW n \in Nat, NEW f, Rounds(f, trigger, scheduled, now, n),
         NEW s \in Nat, s = trigger.seconds,
         NEW k \in 0..(n - 1), scheduled + k * s <= now,
         \A j \in 0..(n - 1) : ~Stuck(f[j], trigger, now)
  PROVE  f[k].next = scheduled + k * s
<1> USE SchedulerAssumption
<1> DEFINE T == {j \in 0..k : f[j].next # scheduled + j * s}
<1>1. SUFFICES ASSUME T # {}
               PROVE  FALSE
  <2>1. k \in 0..k
    OBVIOUS
  <2> QED
    BY <1>1, <2>1
<1>2. T \in SUBSET Nat
  OBVIOUS
<1>3. PICK j \in T : \A y \in T : j <= y
  BY <1>1, <1>2, Least
<1>4. \A i \in 0..n : f[i] = IF i = 0 THEN [runs |-> <<>>, next |-> scheduled]
                             ELSE Round(trigger, now, f[i - 1])
  BY DEF Rounds
<1>5. j \in 0..k /\ j \in 0..n /\ f[j].next # scheduled + j * s
  BY <1>3
<1>6. j # 0
  <2>1. f[0].next = scheduled
    BY <1>4
  <2>2. 0 * s = 0
    BY SMT
  <2> QED
    BY <1>5, <2>1, <2>2 DEF Instants
<1> DEFINE i == j - 1
           b == f[i]
<1>7. i \in 0..(n - 1) /\ i < j /\ i \in 0..k /\ i \in Nat /\ i + 1 = j
  BY <1>5, <1>6
<1>8. f[j] = Round(trigger, now, b)
  BY <1>4, <1>5, <1>6
<1> HIDE DEF b, T
<1>9. i \notin T
  BY <1>3, <1>7
<1>10. b.next = scheduled + i * s
  BY <1>7, <1>9 DEF T, b
<1> HIDE DEF i
<1>11. i * s \in Nat /\ k * s \in Nat /\ i * s <= k * s /\ (i + 1) * s = i * s + s
  <2>1. i \in Nat /\ k \in Nat /\ i <= k
    BY <1>7
  <2>2. i * s \in Nat /\ (i + 1) * s = i * s + s /\ (i <= k => i * s <= k * s)
    BY <2>1, Times
  <2>3. k * s \in Nat
    BY <2>1, Times
  <2> QED
    BY <2>1, <2>2, <2>3
<1>12. b.next \in Instants /\ b.next <= now
  BY <1>10, <1>11 DEF Instants
<1>13. NextRun(trigger, b.next) # Invalid
  <2>1. ~Stuck(b, trigger, now)
    BY <1>7 DEF b
  <2> QED
    BY <1>12, <2>1 DEF Stuck
<1>14. NextRun(trigger, b.next) = b.next + s
  BY <1>13 DEF NextRun
<1>15. f[j].next = b.next + s
  <2>1. b.next # Invalid /\ ~(b.next > now)
    BY <1>12 DEF Instants
  <2>2. f[j].next = LET after == NextRun(trigger, b.next)
                    IN  IF after = Never THEN now + 1 ELSE after
    BY <1>8, <2>1 DEF Round, StopsAt
  <2>3. b.next + s # Never
    BY <1>12 DEF Instants
  <2> QED
    BY <1>14, <2>2, <2>3
<1> QED
  BY <1>5, <1>7, <1>10, <1>11, <1>15 DEF Instants

LEMMA NextRunExists ==
  ASSUME NEW trigger \in TriggerType, trigger.kind \in {"manual", "cron"}, NEW x \in Instants
  PROVE  NextRun(trigger, x) # Invalid
<1> USE SchedulerAssumption
<1>1. CASE trigger.kind = "manual"
  BY <1>1 DEF NextRun
<1>2. CASE trigger.kind = "cron"
  <2> DEFINE later == Later(trigger.fires, x)
  <2>1. later \in SUBSET Nat
    BY <1>2, TriggerKinds DEF Later, Instants
  <2>2. later # {} => Earliest(later) \in later
    BY <2>1, EarliestIsIn
  <2>3. NextRun(trigger, x) = IF later = {} THEN Never ELSE Earliest(later)
    BY <1>2 DEF NextRun
  <2> HIDE DEF later
  <2>4. later # {} => Earliest(later) \in Nat
    BY <2>1, <2>2
  <2>5. later # {} => Earliest(later) # Invalid
    BY <2>4
  <2> QED
    BY <2>3, <2>5
<1> QED
  BY <1>1, <1>2

\* Evaluation fails exactly on what cannot be scheduled.
LEMMA MissedFails ==
  ASSUME NEW trigger \in TriggerType, NEW scheduled \in Instants, NEW now \in Nat,
         scheduled <= now, now < LastInstant, NEW n \in Nat, n >= 1
  PROVE  Missed(trigger, scheduled, now, n) = Invalid
         <=> \/ trigger.kind = "malformed"
             \/ /\ trigger.kind = "interval"
                /\ \E k \in 0..(n - 1) :
                     /\ scheduled + k * trigger.seconds <= now
                     /\ \/ trigger.seconds = 0
                        \/ scheduled + (k + 1) * trigger.seconds > LastInstant
<1> USE SchedulerAssumption
<1>1. PICK f : Rounds(f, trigger, scheduled, now, n)
  BY RoundsExist
<1>2. \A k \in 0..n : Progress(f[k], trigger, scheduled, now, k)
  BY <1>1, RoundsProgress
<1>3. f[n].next = Invalid <=> \E k \in 0..(n - 1) : Stuck(f[k], trigger, now)
  BY <1>1, FailsWhenStuck
<1>4. Missed(trigger, scheduled, now, n) = Invalid <=> f[n].next = Invalid
  <2>1. n \in 0..n
    OBVIOUS
  <2>2. Missed(trigger, scheduled, now, n) = IF f[n].next = Invalid THEN Invalid ELSE f[n].runs
    BY <1>1, <2>1, MissedFromRounds
  <2>3. f[n].runs \in Seq(Instants)
    BY <1>2, <2>1 DEF Progress, Chain
  <2>4. f[n].runs \in Seq(Nat)
    BY <2>3, SequenceInto DEF Instants
  <2> QED
    BY <2>2, <2>4, ErrorAssumption
<1>5. CASE trigger.kind = "malformed"
  <2>1. f[0].next = scheduled
    BY <1>1 DEF Rounds
  <2>2. Stuck(f[0], trigger, now)
    BY <1>5, <2>1 DEF Stuck, NextRun
  <2>3. 0 \in 0..(n - 1)
    OBVIOUS
  <2> QED
    BY <1>3, <1>4, <1>5, <2>2, <2>3
<1>6. CASE trigger.kind \in {"manual", "cron"}
  <2>1. \A x \in Instants : NextRun(trigger, x) # Invalid
    BY <1>6, NextRunExists
  <2> QED
    BY <1>3, <1>4, <1>6, <2>1 DEF Stuck
<1>7. CASE trigger.kind = "interval"
  <2>0. PICK s \in Nat : s = trigger.seconds
    BY <1>7, TriggerKinds
  <2>1. \A x \in Instants : NextRun(trigger, x) = Invalid <=> s = 0 \/ x + s > LastInstant
    BY <1>7, <2>0 DEF NextRun, IntervalIsValid, Instants
  <2>2. ASSUME NEW k \in 0..(n - 1), Stuck(f[k], trigger, now)
        PROVE  scheduled + k * s <= now /\ (s = 0 \/ scheduled + (k + 1) * s > LastInstant)
    <3>1. k \in 0..n /\ f[k].next \in Instants /\ f[k].next <= now
      BY <2>2 DEF Stuck
    <3>2. f[k].next = scheduled + k * s
      BY <1>1, <1>7, <2>0, <3>1, IntervalRound
    <3>3. s = 0 \/ f[k].next + s > LastInstant
      BY <2>1, <2>2 DEF Stuck
    <3>4. (k + 1) * s = k * s + s /\ k * s \in Nat
      BY <2>0, Times
    <3> QED
      BY <2>0, <3>1, <3>2, <3>3, <3>4 DEF Instants
  <2>3. ASSUME NEW k \in 0..(n - 1), scheduled + k * s <= now,
               s = 0 \/ scheduled + (k + 1) * s > LastInstant
        PROVE  f[n].next = Invalid
    <3> SUFFICES ASSUME f[n].next # Invalid
                 PROVE  FALSE
      OBVIOUS
    <3>1. \A j \in 0..(n - 1) : ~Stuck(f[j], trigger, now)
      BY <1>3
    <3>2. k * s \in Nat /\ (k + 1) * s = k * s + s
      BY Times
    <3>3. f[k].next = scheduled + k * s
      BY <1>1, <1>7, <2>0, <2>3, <3>1, IntervalReaches
    <3>4. f[k].next \in Instants /\ f[k].next <= now
      BY <2>3, <3>2, <3>3 DEF Instants
    <3>5. s = 0 \/ f[k].next + s > LastInstant
      BY <2>3, <3>2, <3>3 DEF Instants
    <3>6. Stuck(f[k], trigger, now)
      BY <2>1, <3>4, <3>5 DEF Stuck
    <3> QED
      BY <3>1, <3>6
  <2> QED
    BY <1>3, <1>4, <1>7, <2>0, <2>2, <2>3
<1> QED
  BY <1>5, <1>6, <1>7, TriggerKinds

=============================================================================
