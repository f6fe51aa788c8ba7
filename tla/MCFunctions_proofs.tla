------------------------ MODULE MCFunctions_proofs ------------------------
(***************************************************************************)
(* The schedule arithmetic for every bound on the dates, native entries    *)
(* with commands of any length, and the scans of a host: the proofs of the *)
(* properties of MCFunctions that are about them.  Gateway_proofs has the  *)
(* others.                                                                 *)
(***************************************************************************)
EXTENDS MCFunctions, Scheduler_proofs

\* The input is one of the inputs, and stays as it is.
LEMMA InputStays == Spec => []Init
<1>1. Init /\ [Next]_input => Init'
  BY DEF Next, Init
<1> QED
  BY <1>1, PTL DEF Spec

LEMMA InputsByKind ==
  ASSUME Init
  PROVE  /\ input.kind = "run" => input.request \in Runnable /\ input.process \in Processes
         /\ input.kind = "request" => input.request \in Requests
         /\ input.kind = "call" => input.request \in ToolCalls
         /\ input.kind = "http" => input.request \in HttpRequests
         /\ input.kind = "route" => input.request \in Routes
         /\ input.kind = "native" => input.entry \in Entries
         /\ input.kind = "host" =>
              input.host \in Hosts /\ input.source \in {"all"} \cup Native!Providers
BY DEF Init, Schedules

-----------------------------------------------------------------------------
(***************************************************************************)
(* The schedule arithmetic.                                                *)
(***************************************************************************)
LEMMA SchedulesAreTyped ==
  ASSUME Init, input.kind = "schedule"
  PROVE  /\ input.trigger \in TriggerType /\ input.misfire \in MisfireType
         /\ input.scheduled \in Instants /\ input.scheduled \in Nat
         /\ input.now \in Nat /\ input.now < LastInstant
         /\ input.misfire.policy \in {"skip", "run_once", "catch_up"}
         /\ input.misfire.policy = "catch_up" => input.misfire.maxRuns \in Nat
<1> USE SchedulerAssumption, MCFunctionsAssumption
<1>1. input \in Schedules
  BY DEF Init
<1>2. input.trigger \in TriggerType
  <2>1. \A n \in 0..Bound : Interval(n) \in TriggerType
    BY DEF Interval, TriggerType
  <2>2. \A fires \in SUBSET Instants : Cron(fires) \in TriggerType
    BY DEF Cron, TriggerType
  <2>3. Manual \in TriggerType /\ Malformed \in TriggerType
    BY DEF Manual, Malformed, TriggerType
  <2>4. input.trigger \in Triggers
    BY <1>1 DEF Schedules
  <2> QED
    BY <2>1, <2>2, <2>3, <2>4 DEF Triggers
<1>3. input.misfire \in MisfireType
  <2>1. \A n \in 0..Bound : CatchUp(n) \in MisfireType
    BY DEF CatchUp, MisfireType
  <2>2. Skip \in MisfireType /\ RunOnce \in MisfireType
    BY DEF Skip, RunOnce, MisfireType
  <2>3. input.misfire \in Misfires
    BY <1>1 DEF Schedules
  <2> QED
    BY <2>1, <2>2, <2>3 DEF Misfires
<1>4. input.scheduled \in 0..Bound /\ input.now \in 0..Bound
  BY <1>1 DEF Schedules
<1> QED
  BY <1>2, <1>3, <1>4 DEF Instants, MisfireType

LEMMA FiresOfInput ==
  ASSUME NEW trigger \in TriggerType, NEW scheduled \in Nat, NEW t \in Nat
  PROVE  /\ OnGrid(trigger, scheduled, scheduled)
         /\ t > scheduled => (t \in Fires(trigger, scheduled) <=> FiresAt(trigger, scheduled, t))
<1>1. CASE trigger.kind = "interval"
  <2>1. trigger.seconds \in Nat
    BY <1>1, TriggerKinds
  <2>2. trigger.seconds > 0 => 0 % trigger.seconds = 0
    BY <2>1, SMT
  <2>3. scheduled - scheduled = 0
    OBVIOUS
  <2>4. OnGrid(trigger, scheduled, scheduled)
    BY <2>2, <2>3 DEF OnGrid
  <2> QED
    BY <1>1, <2>4 DEF Fires, FiresAt
<1>2. CASE trigger.kind # "interval"
  BY <1>2 DEF OnGrid, Fires, FiresAt
<1> QED
  BY <1>1, <1>2

LEMMA CatchUpIsMissed ==
  ASSUME NEW trigger, NEW t \in Nat, NEW now \in Nat, NEW k \in Nat, k >= 1
  PROVE  DueRuns(trigger, t, now, CatchUp(k)) =
           IF t <= now THEN Missed(trigger, t, now, k) ELSE <<>>
<1>1. CatchUp(k).policy = "catch_up" /\ CatchUp(k).maxRuns = k
  BY DEF CatchUp
<1>2. CASE t > now
  <2>1. ~(t <= now)
    BY <1>2
  <2> QED
    BY <1>2, <2>1 DEF DueRuns
<1>3. CASE t <= now
  <2>1. ~(t > now) /\ k # 0
    BY <1>3
  <2>2. DueRuns(trigger, t, now, CatchUp(k)) = CatchUpRuns(trigger, t, now, k)
    BY <1>1, <1>3, <2>1 DEF DueRuns
  <2> QED
    BY <1>3, <2>1, <2>2 DEF CatchUpRuns
<1> QED
  BY <1>2, <1>3

\* A backlog: an occurrence that has come.
Backlog(trigger, scheduled, now) ==
  /\ trigger \in TriggerType /\ scheduled \in Instants /\ now \in Nat
  /\ scheduled <= now /\ now < LastInstant

LEMMA AlwaysReplays ==
  ASSUME NEW trigger, NEW scheduled, NEW now, NEW n,
         Backlog(trigger, scheduled, now), n \in Nat
  PROVE  Replays(trigger, scheduled, now, n)
<1> USE SchedulerAssumption
<1> SUFFICES ASSUME NEW runs, runs = DueRuns(trigger, scheduled, now, CatchUp(n)),
                    runs # Invalid
             PROVE  LET ran == {runs[i] : i \in DOMAIN runs}
                        missed == MissedOccurrences(trigger, scheduled, now)
                    IN  /\ Len(runs) <= n
                        /\ \A i, j \in DOMAIN runs : i < j => runs[i] < runs[j]
                        /\ ran \subseteq missed
                        /\ \A t \in missed \ ran : Len(runs) = n /\ \A u \in ran : u < t
  BY DEF Replays
<1> DEFINE ran == {runs[i] : i \in DOMAIN runs}
           missed == MissedOccurrences(trigger, scheduled, now)
<1>1. /\ scheduled \in Instants /\ scheduled \in Nat /\ now \in Nat /\ scheduled <= now
      /\ now < LastInstant /\ n \in Nat /\ trigger \in TriggerType /\ CatchUp(n) \in MisfireType
  BY DEF Backlog, Instants, CatchUp, MisfireType
<1>2. OnGrid(trigger, scheduled, scheduled)
  BY <1>1, FiresOfInput
<1>3. /\ Len(runs) \in 1..n /\ runs[1] = scheduled
      /\ \A i, j \in 1..Len(runs) : i < j => runs[i] < runs[j]
      /\ \A i \in 1..Len(runs) :
           runs[i] <= now /\ (i # 1 => runs[i] \in Fires(trigger, scheduled))
      /\ \A t \in Fires(trigger, scheduled) :
           scheduled <= t /\ t <= now
           => \/ \E i \in 1..Len(runs) : runs[i] = t
              \/ Len(runs) = n /\ t > runs[Len(runs)]
  BY <1>1, <1>2, CatchUpIsExact
<1>4. runs \in Seq(0..now)
  BY <1>1, DueRunsReturns
<1>5. \A i \in 1..Len(runs) : runs[i] \in Nat
  BY <1>1, <1>4
<1>6. DOMAIN runs = 1..Len(runs) /\ Len(runs) \in Nat /\ Len(runs) >= 1 /\ 1 \in 1..Len(runs)
  BY <1>1, <1>3, <1>4
<1>7. \A i, j \in 1..Len(runs) : i < j => runs[i] < runs[j]
  BY <1>3
<1>8. ASSUME NEW i \in 1..Len(runs)
      PROVE  runs[i] \in missed
  <2>1. CASE i = 1
    BY <1>3, <2>1 DEF MissedOccurrences
  <2>2. CASE i # 1
    <3>1. 1 \in 1..Len(runs) /\ 1 < i
      BY <1>6, <2>2
    <3>2. scheduled < runs[i] /\ runs[i] <= now /\ runs[i] \in Nat
      <4>1. runs[1] < runs[i]
        BY <1>7, <3>1
      <4>2. runs[1] = scheduled /\ runs[i] <= now
        BY <1>3
      <4> QED
        BY <1>5, <4>1, <4>2
    <3>3. FiresAt(trigger, scheduled, runs[i])
      BY <1>1, <1>3, <2>2, <3>2, FiresOfInput
    <3> QED
      BY <1>1, <3>2, <3>3 DEF MissedOccurrences
  <2> QED
    BY <2>1, <2>2
<1>9. ASSUME NEW t \in missed, t \notin ran
      PROVE  Len(runs) = n /\ \A u \in ran : u < t
  <2>1. t # scheduled
    <3>1. runs[1] = scheduled
      BY <1>3
    <3> QED
      BY <1>9, <1>6, <3>1
  <2>2. t \in scheduled + 1..now /\ FiresAt(trigger, scheduled, t)
    BY <1>9, <2>1 DEF MissedOccurrences
  <2>3. t \in Nat /\ scheduled < t /\ t <= now
    BY <1>1, <2>2
  <2>4. t \in Fires(trigger, scheduled)
    BY <1>1, <2>2, <2>3, FiresOfInput
  <2>5. Len(runs) = n /\ t > runs[Len(runs)]
    <3>1. \/ \E i \in 1..Len(runs) : runs[i] = t
          \/ Len(runs) = n /\ t > runs[Len(runs)]
      BY <1>1, <1>3, <2>3, <2>4
    <3>2. ~ \E i \in 1..Len(runs) : runs[i] = t
      BY <1>9, <1>6
    <3> QED
      BY <3>1, <3>2
  <2>6. ASSUME NEW i \in 1..Len(runs)
        PROVE  runs[i] < t
    <3>1. Len(runs) \in 1..Len(runs) /\ (i = Len(runs) \/ i < Len(runs))
      <4>1. Len(runs) \in Nat /\ Len(runs) >= 1
        BY <1>6
      <4> QED
        BY <4>1
    <3>2. i = Len(runs) \/ runs[i] < runs[Len(runs)]
      BY <1>7, <3>1
    <3> QED
      BY <1>5, <2>3, <2>5, <3>1, <3>2
  <2> QED
    BY <1>6, <2>5, <2>6
<1> HIDE DEF missed
<1>10. ran \subseteq missed
  BY <1>8, <1>6
<1>11. \A t \in missed \ ran : Len(runs) = n /\ \A u \in ran : u < t
  BY <1>9
<1>12. Len(runs) <= n
  BY <1>3
<1> HIDE DEF ran
<1>13. \A i, j \in DOMAIN runs : i < j => runs[i] < runs[j]
  BY <1>6, <1>7
<1> QED
  BY <1>10, <1>11, <1>12, <1>13 DEF missed, ran

LEMMA ReplaysMissed ==
  ASSUME Init
  PROVE  CatchUpReplaysMissed
BY SchedulesAreTyped, AlwaysReplays DEF CatchUpReplaysMissed, Backlog

\* catch_up replays what was missed, as much as it may, and nothing else, for an
\* interval that was scheduled at any instant and for any cron expression (due_runs).
THEOREM CatchUpReplays == Spec => []CatchUpReplaysMissed
BY ReplaysMissed, InputStays, PTL

LEMMA AlwaysSplits ==
  ASSUME NEW trigger, NEW scheduled, NEW now, NEW first, NEW second,
         Backlog(trigger, scheduled, now),
         first \in Nat /\ first >= 1, second \in Nat /\ second >= 1
  PROVE  Splits(trigger, scheduled, now, first, second)
<1> USE SchedulerAssumption
<1> SUFFICES ASSUME NEW whole, whole = DueRuns(trigger, scheduled, now, CatchUp(first + second)),
                    NEW piece, piece = DueRuns(trigger, scheduled, now, CatchUp(first)),
                    NEW resume, resume = NextRun(trigger, piece[Len(piece)]),
                    whole # Invalid
             PROVE  whole = piece \o (IF resume = Never THEN <<>>
                                      ELSE DueRuns(trigger, resume, now, CatchUp(second)))
  BY DEF Splits
<1> DEFINE rest == Missed(trigger, resume, now, second)
<1>1. /\ scheduled \in Instants /\ scheduled \in Nat /\ now \in Nat /\ scheduled <= now
      /\ now < LastInstant /\ trigger \in TriggerType
  BY DEF Backlog, Instants
<1>2. PICK n \in Nat : n = first + second /\ n >= 1
  OBVIOUS
<1>3. whole = Missed(trigger, scheduled, now, n)
  BY <1>1, <1>2, CatchUpIsMissed
<1>4. piece = Missed(trigger, scheduled, now, first)
  BY <1>1, CatchUpIsMissed
<1>5. /\ resume \in Instants \cup {Never} /\ piece \in Seq(Instants)
      /\ whole = IF resume # Never /\ resume <= now THEN piece \o rest ELSE piece
  <2>1. Missed(trigger, scheduled, now, n) # Invalid
    BY <1>3
  <2>2. SplitsAt(trigger, scheduled, now, first, second, n)
    BY <1>1, <1>2, <2>1, BacklogSplits
  <2> QED
    BY <1>3, <1>4, <2>2, Zenon DEF SplitsAt
<1> HIDE DEF rest
<1>6. piece \o <<>> = piece
  BY <1>5
<1>7. CASE resume = Never
  BY <1>5, <1>6, <1>7
<1>8. CASE resume # Never
  <2>1. resume \in Nat
    BY <1>5, <1>8 DEF Instants
  <2>2. DueRuns(trigger, resume, now, CatchUp(second)) = IF resume <= now THEN rest ELSE <<>>
    BY <1>1, <2>1, CatchUpIsMissed DEF rest
  <2> QED
    BY <1>5, <1>6, <1>8, <2>2
<1> QED
  BY <1>7, <1>8

LEMMA SplitsBacklog ==
  ASSUME Init
  PROVE  BacklogMayBeSplit
<1>1. \A k \in 1..Bound : k \in Nat /\ k >= 1
  BY MCFunctionsAssumption
<1> QED
  BY <1>1, SchedulesAreTyped, AlwaysSplits DEF BacklogMayBeSplit, Backlog

\* What max_runs leaves behind is not lost and not run twice: a pass that resumes where
\* an earlier one stopped gives the runs that one pass would have given (due_runs, next_run).
THEOREM BacklogSplitsAnywhere == Spec => []BacklogMayBeSplit
BY SplitsBacklog, InputStays, PTL

LEMMA FailsExactly ==
  ASSUME NEW trigger \in TriggerType, NEW misfire \in MisfireType,
         NEW scheduled \in Instants, NEW now \in Nat, now < LastInstant
  PROVE  DueRuns(trigger, scheduled, now, misfire) = Invalid
         <=> /\ misfire.policy = "catch_up" /\ scheduled <= now
             /\ Unschedulable(trigger, scheduled, now, misfire.maxRuns)
<1> USE SchedulerAssumption
<1> DEFINE n == misfire.maxRuns
           due == DueRuns(trigger, scheduled, now, misfire)
<1>1. /\ scheduled \in Nat /\ misfire.policy \in {"skip", "run_once", "catch_up"}
      /\ misfire.policy = "catch_up" => n \in Nat
  BY DEF Instants, MisfireType
<1>2. <<>> # Invalid /\ <<scheduled>> # Invalid
  <2>1. <<>> \in Seq(Nat) /\ <<scheduled>> \in Seq(Nat)
    BY <1>1
  <2> QED
    BY <2>1, ErrorAssumption
<1>3. CASE scheduled > now \/ misfire.policy \in {"skip", "run_once"}
  <2>1. due # Invalid
    BY <1>1, <1>2, <1>3 DEF DueRuns
  <2>2. ~(misfire.policy = "catch_up" /\ scheduled <= now)
    BY <1>1, <1>3
  <2> QED
    BY <2>1, <2>2
<1>4. CASE scheduled <= now /\ misfire.policy = "catch_up"
  <2>1. due = CatchUpRuns(trigger, scheduled, now, n)
    BY <1>1, <1>4 DEF DueRuns
  <2>2. CASE n = 0
    BY <1>4, <2>1, <2>2 DEF CatchUpRuns, Unschedulable
  <2>3. CASE n # 0
    <3>1. n \in Nat /\ n >= 1
      BY <1>1, <1>4, <2>3
    <3>2. due = Missed(trigger, scheduled, now, n)
      BY <2>1, <2>3 DEF CatchUpRuns
    <3>3. Missed(trigger, scheduled, now, n) = Invalid <=> Unschedulable(trigger, scheduled, now, n)
      BY <1>4, <2>3, <3>1, MissedFails DEF Unschedulable
    <3> QED
      BY <1>4, <3>2, <3>3
  <2> QED
    BY <2>2, <2>3
<1> QED
  BY <1>1, <1>3, <1>4

LEMMA FailsOnlyThen ==
  ASSUME Init
  PROVE  FailsOnUnschedulable
BY SchedulesAreTyped, FailsExactly DEF FailsOnUnschedulable

\* Evaluation fails for exactly the definitions that have no next run, so that no
\* schedule that can be kept is refused (due_runs, next_run, interval_trigger).
THEOREM FailureIsUnschedulable == Spec => []FailsOnUnschedulable
BY FailsOnlyThen, InputStays, PTL

-----------------------------------------------------------------------------
(***************************************************************************)
(* Native entries.                                                         *)
(***************************************************************************)
LEMMA WordListsAreSequences ==
  ASSUME NEW w \in WordLists
  PROVE  /\ w \in Seq(Words) /\ Len(w) \in Nat /\ Len(w) >= 1 /\ w # <<>>
         /\ DOMAIN w = 1..Len(w) /\ \A i \in 1..Len(w) : w[i] \in Words
<1>1. PICK n \in 1..MaxWords : w \in [1..n -> Words]
  BY DEF WordLists
<1>2. n \in Nat /\ n >= 1
  BY MCFunctionsAssumption
<1>3. w \in Seq(Words) /\ Len(w) = n
  BY <1>1, <1>2
<1> QED
  BY <1>2, <1>3

\* The first words of a list.
Front(w, i) == [j \in 1..i |-> w[j]]

LEMMA FrontGrows ==
  ASSUME NEW w \in Seq(Words), NEW i \in 2..Len(w)
  PROVE  Front(w, i) = Front(w, i - 1) \o <<w[i]>>
<1>1. i \in Nat /\ i - 1 \in Nat /\ i - 1 >= 1
  OBVIOUS
<1>2. Front(w, i - 1) \in Seq(Words) /\ Len(Front(w, i - 1)) = i - 1
  BY <1>1 DEF Front
<1>3. Front(w, i) \in Seq(Words) /\ Len(Front(w, i)) = i
  BY <1>1 DEF Front
<1> QED
  BY <1>1, <1>2, <1>3 DEF Front

Flattens(f, w) ==
  f = [i \in 1..Len(w) |-> IF i = 1 THEN <<w[i]>> ELSE f[i - 1] \o <<w[i]>>]

LEMMA FlattenExists ==
  ASSUME NEW w \in Seq(Words), Len(w) >= 1
  PROVE  \E f : Flattens(f, w)
<1> DEFINE f == [i \in 1..Len(w) |-> Front(w, i)]
<1>1. ASSUME NEW i \in 1..Len(w)
      PROVE  f[i] = IF i = 1 THEN <<w[i]>> ELSE f[i - 1] \o <<w[i]>>
  <2>1. CASE i = 1
    <3>1. Front(w, 1) = <<w[1]>>
      BY DEF Front
    <3> QED
      BY <2>1, <3>1
  <2>2. CASE i # 1
    <3>1. i \in 2..Len(w) /\ i - 1 \in 1..Len(w)
      BY <2>2
    <3> QED
      BY <2>2, <3>1, FrontGrows
  <2> QED
    BY <2>1, <2>2
<1>2. f = [i \in 1..Len(w) |-> f[i]]
  OBVIOUS
<1> HIDE DEF f
<1>3. Flattens(f, w)
  BY <1>1, <1>2 DEF Flattens
<1> QED
  BY <1>3

LEMMA FlattensToFronts ==
  ASSUME NEW w \in Seq(Words), NEW f, Flattens(f, w), NEW i \in 1..Len(w)
  PROVE  f[i] = Front(w, i)
<1> DEFINE T == {j \in 1..Len(w) : f[j] # Front(w, j)}
<1>1. SUFFICES ASSUME T # {}
               PROVE  FALSE
  BY <1>1
<1>2. T \in SUBSET Nat
  OBVIOUS
<1>3. PICK j \in T : \A y \in T : j <= y
  BY <1>1, <1>2, Least
<1>4. j \in 1..Len(w) /\ f[j] # Front(w, j)
  BY <1>3
<1>5. f[j] = IF j = 1 THEN <<w[j]>> ELSE f[j - 1] \o <<w[j]>>
  BY <1>4 DEF Flattens
<1>6. CASE j = 1
  <2>1. Front(w, 1) = <<w[1]>>
    BY DEF Front
  <2> QED
    BY <1>4, <1>5, <1>6, <2>1
<1>7. CASE j # 1
  <2>1. j \in 2..Len(w) /\ j - 1 \in 1..Len(w) /\ ~(j <= j - 1)
    BY <1>4, <1>7
  <2>2. f[j - 1] = Front(w, j - 1)
    BY <1>3, <2>1
  <2>3. Front(w, j) = Front(w, j - 1) \o <<w[j]>>
    BY <2>1, FrontGrows
  <2> QED
    BY <1>4, <1>5, <1>7, <2>2, <2>3
<1> QED
  BY <1>6, <1>7

\* Without quotes, a command falls into its words.
LEMMA SplitKeepsWords ==
  ASSUME NEW w \in WordLists, \A i \in DOMAIN w : w[i] # "spaced"
  PROVE  Native!Split(w) = w
<1>1. /\ w \in Seq(Words) /\ Len(w) \in Nat /\ Len(w) >= 1
      /\ DOMAIN w = 1..Len(w) /\ w = [i \in 1..Len(w) |-> w[i]]
  BY WordListsAreSequences
<1> DEFINE singles == [i \in DOMAIN w |-> <<w[i]>>]
           c == CHOOSE f : Flattens(f, w)
<1>2. [i \in DOMAIN w |-> IF w[i] = "spaced" THEN <<"'half", "half'">> ELSE <<w[i]>>] = singles
  OBVIOUS
<1>3. Len(singles) = Len(w) /\ \A i \in 1..Len(w) : singles[i] = <<w[i]>>
  BY <1>1
<1>4. Flattens(c, w)
  BY <1>1, FlattenExists
<1>5. Native!FlattenSeq(singles) = c[Len(w)]
  BY <1>1, <1>3 DEF Native!FlattenSeq, Flattens
<1> HIDE DEF c
<1>6. c[Len(w)] = w
  <2>1. Len(w) \in 1..Len(w)
    BY <1>1
  <2>2. c[Len(w)] = Front(w, Len(w))
    BY <1>1, <1>4, <2>1, FlattensToFronts
  <2> QED
    BY <1>1, <2>2 DEF Front
<1> QED
  BY <1>2, <1>5, <1>6 DEF Native!Split

LEMMA SequencesAreEqual ==
  ASSUME NEW S, NEW u \in Seq(S), NEW v \in Seq(S), Len(u) = Len(v),
         \A i \in 1..Len(v) : u[i] = v[i]
  PROVE  u = v
<1>1. u = [i \in 1..Len(v) |-> u[i]] /\ v = [i \in 1..Len(v) |-> v[i]]
  OBVIOUS
<1> QED
  BY <1>1

LEMMA SingleWord ==
  ASSUME NEW S, NEW w \in Seq(S), Len(w) = 1
  PROVE  Tail(w) = <<>>
<1>1. w # <<>>
  OBVIOUS
<1>2. Tail(w) \in Seq(S) /\ Len(Tail(w)) = 0
  BY <1>1
<1>3. <<>> \in Seq(S) /\ Len(<<>>) = 0
  OBVIOUS
<1>4. ASSUME NEW v \in Seq(S), Len(v) = 0
      PROVE  Tail(w) = v
  <2>1. \A i \in 1..Len(v) : Tail(w)[i] = v[i]
    BY <1>4
  <2>2. Len(Tail(w)) = Len(v)
    BY <1>2, <1>4
  <2> QED
    BY <1>2, <2>1, <2>2, SequencesAreEqual
<1> QED
  BY <1>3, <1>4, Zenon

LEMMA PrefixedWord ==
  ASSUME NEW S, NEW x \in S, NEW r \in Seq(S), NEW w, w = <<x>> \o r
  PROVE  w \in Seq(S) /\ w # <<>> /\ Head(w) = x /\ Tail(w) = r
<1>1. /\ w \in Seq(S) /\ Len(w) = Len(r) + 1 /\ Len(r) \in Nat /\ w[1] = x
      /\ \A i \in 1..Len(r) : w[i + 1] = r[i]
  OBVIOUS
<1>2. w # <<>> /\ Head(w) = x
  BY <1>1
<1>3. /\ Tail(w) \in Seq(S) /\ Len(Tail(w)) = Len(r)
      /\ \A i \in 1..Len(r) : Tail(w)[i] = r[i]
  BY <1>1, <1>2
<1>4. Tail(w) = r
  BY <1>3, SequencesAreEqual
<1> QED
  BY <1>1, <1>2, <1>4

LEMMA NoShell ==
  ASSUME NEW S, NEW words \in Seq(S), NEW command, command = Native!Argv(words),
         command # NoCommand, ~Native!InvokesShell(command)
  PROVE  ~RunsShell(words)
<1>1. words # <<>> /\ Len(words) \in Nat
  BY DEF Native!Argv
<1>2. command.executable = words[1] /\ command.args = Tail(words)
  BY <1>1 DEF Native!Argv
<1>3. ASSUME NEW i \in 2..Len(words), words[i] = "-c"
      PROVE  "-c" \in Native!ToSet(command.args)
  <2>1. Tail(words) \in Seq(S) /\ Len(Tail(words)) = Len(words) - 1
    BY <1>1
  <2>2. i - 1 \in 1..Len(Tail(words)) /\ Tail(words)[i - 1] = words[i]
    BY <1>1, <2>1
  <2>3. i - 1 \in DOMAIN Tail(words)
    BY <2>1, <2>2
  <2> QED
    BY <1>2, <1>3, <2>2, <2>3 DEF Native!ToSet
<1> QED
  BY <1>2, <1>3 DEF Native!InvokesShell, RunsShell

LEMMA LaunchdRunsTheSame ==
  ASSUME NEW e \in Entries, e.provider = "launchd", Native!Promoted(e)
  PROVE  /\ Native!CommandOf(e) = Native!Argv(NativeWords(e))
         /\ \E S : NativeWords(e) \in Seq(S)
<1>1. /\ e.words \in WordLists \cup {<<>>, NoCommand}
      /\ e.program \in {"none", "tool", "sh"}
  BY DEF Entries
<1>2. Native!CommandOf(e) = Native!LaunchdCommand(e) /\ Native!LaunchdCommand(e) # NoCommand
  BY DEF Native!Promoted, Native!CommandOf
<1>3. e.words # NoCommand
  BY <1>2 DEF Native!LaunchdCommand
<1>4. e.words \in Seq(Words)
  <2>1. CASE e.words \in WordLists
    BY <2>1, WordListsAreSequences
  <2>2. CASE e.words = <<>>
    BY <2>2
  <2> QED
    BY <1>1, <1>3, <2>1, <2>2
<1>5. CASE e.program = "none"
  BY <1>2, <1>3, <1>4, <1>5 DEF Native!LaunchdCommand, NativeWords
<1>6. CASE e.program # "none"
  <2> DEFINE rest == SubSeq(e.words, 2, Len(e.words))
             S == Words \cup {e.program}
  <2>1. /\ rest = IF e.words = <<>> THEN <<>> ELSE Tail(e.words)
        /\ rest \in Seq(S)
    BY <1>4
  <2>2. NativeWords(e) = <<e.program>> \o rest
    BY <1>6 DEF NativeWords
  <2>3. e.program \in S
    OBVIOUS
  <2> HIDE DEF rest, S
  <2>4. /\ NativeWords(e) \in Seq(S) /\ NativeWords(e) # <<>>
        /\ Head(NativeWords(e)) = e.program /\ Tail(NativeWords(e)) = rest
    BY <2>1, <2>2, <2>3, PrefixedWord
  <2>5. Native!LaunchdCommand(e) = [executable |-> e.program, args |-> rest]
    BY <1>3, <1>6, <2>1 DEF Native!LaunchdCommand
  <2> QED
    BY <1>2, <2>4, <2>5 DEF Native!Argv
<1> QED
  BY <1>5, <1>6

LEMMA CronRunsTheSame ==
  ASSUME NEW e \in Entries, e.provider = "cron", Native!Promoted(e),
         \A i \in DOMAIN e.words : e.words[i] \notin ShellSyntax
  PROVE  /\ Native!CommandOf(e) = Native!Argv(e.words)
         /\ e.words \in Seq(Words) /\ e.program = "none" /\ e.start = "fields"
<1>1. e.words \in WordLists /\ e.program = "none"
  BY DEF Entries
<1>2. Native!Split(e.words) = e.words
  BY <1>1, SplitKeepsWords DEF ShellSyntax
<1>3. e.words \in Seq(Words) /\ e.words # <<>> /\ Head(e.words) # "'half"
  <2>1. e.words \in Seq(Words) /\ e.words # <<>> /\ Len(e.words) >= 1 /\ e.words[1] \in Words
    BY <1>1, WordListsAreSequences
  <2> QED
    BY <2>1 DEF Words
<1>4. Native!CommandOf(e) = Native!CronCommand(e)
  BY DEF Native!CommandOf
<1> QED
  BY <1>1, <1>2, <1>3, <1>4 DEF Native!CronCommand, Native!Argv, Native!Promoted, Native!Parsed

LEMMA OthersRunTheSame ==
  ASSUME NEW e \in Entries, e.provider \in {"systemd", "task-scheduler"}, Native!Promoted(e),
         e.provider = "systemd" => Len(e.words) = 1
  PROVE  /\ Native!CommandOf(e) = Native!Argv(e.words)
         /\ \E S : e.words \in Seq(S)
         /\ e.program = "none" /\ e.start = "none"
<1>1. CASE e.provider = "systemd"
  <2>1. e.words \in WordLists \cup {<<>>} /\ e.program = "none" /\ e.start = "none"
    BY <1>1 DEF Entries
  <2>2. e.words \in Seq(Words)
    <3>1. CASE e.words \in WordLists
      BY <3>1, WordListsAreSequences
    <3>2. CASE e.words = <<>>
      BY <3>2
    <3> QED
      BY <2>1, <3>1, <3>2
  <2>3. Native!CommandOf(e) = Native!SystemdCommand(e) /\ Native!SystemdCommand(e) # NoCommand
    BY <1>1 DEF Native!Promoted, Native!CommandOf
  <2>4. e.words # <<>> /\ Native!SystemdCommand(e) = [executable |-> Head(e.words), args |-> <<>>]
    BY <2>3 DEF Native!SystemdCommand
  <2>5. Tail(e.words) = <<>>
    BY <1>1, <2>2, SingleWord
  <2> QED
    BY <2>1, <2>2, <2>3, <2>4, <2>5 DEF Native!Argv
<1>2. CASE e.provider = "task-scheduler"
  <2>1. e.words \in WordLists \cup {<<"N/A">>} /\ e.program = "none" /\ e.start = "none"
    BY <1>2 DEF Entries
  <2>2. e.words \in Seq(Words \cup {"N/A"})
    <3>1. CASE e.words \in WordLists
      BY <3>1, WordListsAreSequences
    <3>2. CASE e.words = <<"N/A">>
      BY <3>2
    <3> QED
      BY <2>1, <3>1, <3>2
  <2>3. Native!CommandOf(e) = Native!WindowsCommand(e) /\ Native!WindowsCommand(e) # NoCommand
    BY <1>2 DEF Native!Promoted, Native!CommandOf
  <2>4. Native!WindowsCommand(e) = Native!Argv(e.words)
    BY <2>3 DEF Native!WindowsCommand
  <2> QED
    BY <2>1, <2>2, <2>3, <2>4
<1> QED
  BY <1>1, <1>2

LEMMA PromotedRuns ==
  ASSUME Init
  PROVE  PromotedRunsTheSame
<1> SUFFICES ASSUME input.kind = "native", NEW e, e = input.entry, Native!Promoted(e),
                    e.provider = "cron" => \A i \in DOMAIN e.words : e.words[i] \notin ShellSyntax,
                    e.provider = "systemd" => Len(e.words) = 1, e.start # "calendars"
             PROVE  /\ Native!CommandOf(e) = Native!Argv(NativeWords(e))
                    /\ ~RunsShell(NativeWords(e))
                    /\ e.start \in {"interval", "calendar"} => Native!TriggerOf(e) = e.start
                    /\ e.provider = "cron" => e.start = "fields"
  BY DEF PromotedRunsTheSame
<1>1. e \in Entries
  BY InputsByKind
<1>2. e.provider \in {"launchd", "cron", "systemd", "task-scheduler"}
  BY <1>1 DEF Entries
<1>3. /\ Native!CommandOf(e) = Native!Argv(NativeWords(e))
      /\ \E S : NativeWords(e) \in Seq(S)
  <2>1. CASE e.provider = "launchd"
    BY <1>1, <2>1, LaunchdRunsTheSame
  <2>2. CASE e.provider = "cron"
    BY <1>1, <2>2, CronRunsTheSame DEF NativeWords
  <2>3. CASE e.provider \in {"systemd", "task-scheduler"}
    BY <1>1, <2>3, OthersRunTheSame DEF NativeWords
  <2> QED
    BY <1>2, <2>1, <2>2, <2>3
<1>4. Native!CommandOf(e) # NoCommand /\ ~Native!InvokesShell(Native!CommandOf(e))
  BY DEF Native!Promoted
<1>5. ~RunsShell(NativeWords(e))
  BY <1>3, <1>4, NoShell
<1>6. e.provider = "cron" => e.start = "fields"
  BY <1>1, CronRunsTheSame
<1>7. e.start \in {"interval", "calendar"} => Native!TriggerOf(e) = e.start
  <2>1. e.start \in {"interval", "calendar"} => e.provider = "launchd"
    BY <1>1, <1>2, <1>6, OthersRunTheSame
  <2> QED
    BY <2>1 DEF Native!TriggerOf, Native!LaunchdTrigger
<1> QED
  BY <1>3, <1>5, <1>6, <1>7

\* Of agents of launchd with one schedule, crontab lines without syntax of the shell, systemd
\* services without arguments and tasks of Windows: what is promoted runs the words that
\* its native scheduler runs, however many, at the same times, and they invoke no shell
\* with -c (as_observed_automation, the parsers of discovery.rs).  Of the others neither
\* need hold.
THEOREM PromotionKeepsTheJob == Spec => []PromotedRunsTheSame
BY PromotedRuns, InputStays, PTL

-----------------------------------------------------------------------------
(***************************************************************************)
(* Scans of a host.                                                        *)
(***************************************************************************)
LEMMA ScanReports ==
  ASSUME NEW h, NEW source \in {"all"} \cup Native!Providers, NEW e \in Native!Scan(h, source)
  PROVE  \/ e \in Native!LaunchdEntries(h) \cup Native!CronEntries(h) \cup Native!SystemdEntries(h)
         \/ e \in Native!BrewEntries(h)
         \/ \E p \in Native!Applications : e \in Native!ApplicationEntries(h, p)
BY DEF Native!Scan, Native!Unmatched, Native!Providers, Native!Natives

LEMMA EntriesByProvider ==
  ASSUME NEW h, NEW e
  PROVE  /\ e \in Native!LaunchdEntries(h) =>
              /\ h.platform = "macos" /\ e.provider = "launchd"
              /\ e.entity = "service" => h.service = "linked" /\ e = Native!Entry("launchd", "service")
         /\ e \in Native!CronEntries(h) =>
              e = Native!Entry("cron", "own") /\ e.provider = "cron" /\ e.entity = "own"
         /\ e \in Native!SystemdEntries(h) =>
              /\ h.platform = "linux" /\ e.provider = "systemd"
              /\ e.entity = "service" => h.service = "unit" /\ e = Native!Entry("systemd", "service")
         /\ e \in Native!BrewEntries(h) =>
              e = Native!BrewEntry(h) /\ e.entity = "service"
              /\ IF h.service \in {"linked", "unlinked"} THEN e = Native!Entry("launchd", "service") /\ e.provider = "launchd"
                 ELSE e.provider = "homebrew"
         /\ \A p : e \in Native!ApplicationEntries(h, p) =>
              h.platform = "macos" /\ e.provider = p /\ e.entity = "own"
BY DEF Native!LaunchdEntries, Native!CronEntries, Native!SystemdEntries, Native!BrewEntries,
       Native!BrewEntry, Native!ApplicationEntries, Native!Entry

\* The host when all of its providers answer.
Healthy(h) == [h EXCEPT !.launchd = "answers", !.cron = "answers", !.systemd = "answers",
                        !.homebrew = "answers", !.applications = "answers"]

LEMMA HealthyHost ==
  ASSUME NEW h \in Hosts
  PROVE  /\ Native!LaunchdEntries(Healthy(h)) = Native!LaunchdEntries(h)
         /\ h.systemd = "answers" => Native!SystemdEntries(Healthy(h)) = Native!SystemdEntries(h)
         /\ Healthy(h).service = h.service /\ Healthy(h).platform = h.platform
<1>1. h \in [platform : {"macos", "linux"}, launchd : {"absent", "fails", "answers"},
          cron : {"absent", "fails", "answers"},
          systemd : {"absent", "down", "fails", "answers"},
          homebrew : {"absent", "fails", "answers"}, applications : {"fails", "answers"},
          service : {"linked", "unlinked", "unit", "none"}]
  BY DEF Hosts
<1>2. /\ Healthy(h).service = h.service /\ Healthy(h).platform = h.platform
      /\ Healthy(h).systemd = "answers"
  BY <1>1 DEF Healthy
<1> QED
  BY <1>2 DEF Native!LaunchdEntries, Native!SystemdEntries

LEMMA CompleteIsSeen ==
  ASSUME NEW h \in Hosts, NEW source \in {"all"} \cup Native!Providers, NEW s \in {"all", source},
         ~Native!ScanFails(h, source), h.service # "unlinked",
         NEW e \in Native!Scan(Healthy(h), s),
         e.provider \in Native!CompleteProviders(h, source) \ {"homebrew"}
  PROVE  e \in Native!Scan(h, source)
<1> DEFINE g == Healthy(h)
<1>1. h.platform \in {"macos", "linux"} /\ h.cron \in {"absent", "fails", "answers"}
  BY DEF Hosts
<1>2. h.service = "linked" => h.platform = "macos"
  BY DEF Hosts
<1>3. e.provider \in {"launchd", "cron", "systemd"} /\ source \in {"all", e.provider}
  BY DEF Native!CompleteProviders, Native!Natives
<1>4. \/ e \in Native!LaunchdEntries(g) \cup Native!CronEntries(g) \cup Native!SystemdEntries(g)
      \/ e \in Native!BrewEntries(g)
  <2>1. ASSUME NEW p \in Native!Applications, e \in Native!ApplicationEntries(g, p)
        PROVE  FALSE
    BY <1>3, <2>1, EntriesByProvider DEF Native!Applications
  <2> QED
    BY <2>1, ScanReports
<1>5. CASE e.provider = "launchd"
  <2>1. e \in Native!LaunchdEntries(h)
    <3>1. e \in Native!LaunchdEntries(g) => e \in Native!LaunchdEntries(h)
      BY HealthyHost
    <3>2. e \in Native!BrewEntries(g)
            => e = Native!Entry("launchd", "service") /\ h.service = "linked"
      <4>1. g.service = h.service /\ h.service # "unlinked"
        BY HealthyHost
      <4> HIDE DEF g
      <4> QED
        BY <1>5, <4>1, EntriesByProvider
    <3>3. h.service = "linked" => Native!Entry("launchd", "service") \in Native!LaunchdEntries(h)
      BY <1>2 DEF Native!LaunchdEntries
    <3> QED
      BY <1>4, <1>5, <3>1, <3>2, <3>3, EntriesByProvider
  <2> QED
    BY <1>3, <1>5, <2>1 DEF Native!Scan
<1>6. CASE e.provider = "cron"
  <2>1. e \in Native!CronEntries(g)
    BY <1>4, <1>6, EntriesByProvider
  <2>2. h.cron = "answers"
    BY <1>1, <1>3, <1>6 DEF Native!ScanFails, Native!Fails, Native!Natives, Native!CompleteProviders
  <2>3. e \in Native!CronEntries(h)
    BY <2>1, <2>2 DEF Native!CronEntries
  <2> QED
    BY <1>3, <1>6, <2>3 DEF Native!Scan
<1>7. CASE e.provider = "systemd"
  <2>1. e \in Native!SystemdEntries(g)
    BY <1>4, <1>7, EntriesByProvider
  <2>2. h.systemd = "answers"
    BY <1>7 DEF Native!CompleteProviders
  <2>3. e \in Native!SystemdEntries(h)
    BY <2>1, <2>2, HealthyHost
  <2> QED
    BY <1>3, <1>7, <2>3 DEF Native!Scan
<1> QED
  BY <1>3, <1>5, <1>6, <1>7

LEMMA ServiceIsOne ==
  ASSUME NEW h \in Hosts, NEW source \in {"all"} \cup Native!Providers,
         NEW e \in Native!Scan(h, source), NEW f \in Native!Scan(h, source),
         e.entity = "service", f.entity = "service"
  PROVE  e = f
<1> DEFINE launchd == Native!LaunchdEntries(h)
           cron == Native!CronEntries(h)
           systemd == Native!SystemdEntries(h)
           brew == Native!BrewEntries(h)
<1>1. ASSUME NEW d \in Native!Scan(h, source), d.entity = "service"
      PROVE  d \in launchd \cup systemd \cup brew
  BY <1>1, ScanReports, EntriesByProvider
<1>2. ASSUME NEW d, d.entity = "service"
      PROVE  /\ d \in launchd => d = Native!Entry("launchd", "service") /\ h.platform = "macos"
             /\ d \in systemd => d = Native!Entry("systemd", "service") /\ h.platform = "linux"
             /\ d \in brew => d = Native!BrewEntry(h) /\ d \notin systemd
  BY <1>2, EntriesByProvider
<1>3. ASSUME NEW d \in Native!Scan(h, source), d.entity = "service",
             d \notin launchd \cup systemd,
             NEW n \in Native!Scan(h, source), n.entity = "service"
      PROVE  n \notin launchd \cup systemd
  <2>1. ~ \E p : d \in Native!ApplicationEntries(h, p)
    BY <1>3, EntriesByProvider
  <2>2. d \notin cron
    BY <1>3, EntriesByProvider
  <2>3. CASE source = "all"
    <3>1. d \in Native!Unmatched(h, launchd \cup cron \cup systemd)
      BY <1>3, <2>1, <2>2, <2>3 DEF Native!Scan
    <3> QED
      BY <1>3, <3>1 DEF Native!Unmatched
  <2>4. CASE source = "homebrew"
    <3>1. d \in Native!Unmatched(h, launchd)
      BY <1>3, <2>4 DEF Native!Scan
    <3>2. n \notin launchd
      BY <1>3, <3>1 DEF Native!Unmatched
    <3>3. n \in brew
      BY <1>3, <2>4, <3>2 DEF Native!Scan, Native!Unmatched
    <3> QED
      BY <1>2, <1>3, <3>2, <3>3
  <2>5. CASE source \notin {"all", "homebrew"}
    BY <1>3, <2>1, <2>2, <2>5 DEF Native!Scan
  <2> QED
    BY <2>3, <2>4, <2>5
<1> HIDE DEF launchd, systemd, brew
<1>4. CASE e \in launchd \cup systemd
  <2>1. f \in launchd \cup systemd
    BY <1>3, <1>4
  <2> QED
    BY <1>2, <1>4, <2>1
<1>5. CASE e \notin launchd \cup systemd
  <2>1. f \notin launchd \cup systemd
    BY <1>3, <1>5
  <2>2. e \in brew /\ f \in brew
    BY <1>1, <1>5, <2>1
  <2> QED
    BY <1>2, <2>2
<1> QED
  BY <1>4, <1>5

LEMMA Complete ==
  ASSUME Init
  PROVE  CompleteMeansAll
<1> SUFFICES ASSUME NEW h \in Hosts, NEW source \in {"all"} \cup Native!Providers,
                    ~Native!ScanFails(h, source)
             PROVE  /\ h.service # "unlinked" =>
                         \A e \in UNION {Native!Scan(Healthy(h), s) : s \in {"all", source}} :
                           e.provider \in Native!CompleteProviders(h, source) \ {"homebrew"}
                             => e \in Native!Scan(h, source)
                    /\ \A e, f \in Native!Scan(h, source) :
                         e.entity = "service" /\ f.entity = "service" => e = f
  BY InputsByKind DEF CompleteMeansAll, Healthy
<1>1. \A e \in UNION {Native!Scan(Healthy(h), s) : s \in {"all", source}} :
        \E s \in {"all", source} : e \in Native!Scan(Healthy(h), s)
  OBVIOUS
<1> QED
  BY <1>1, CompleteIsSeen, ServiceIsOne

\* A scan calls missing only what is not there: what it reports as complete holds every
\* entry that an earlier scan can have stored, and a service has one identity
\* (scan_native_snapshot, merge_homebrew_sources).
THEOREM CompleteScansSeeAll == Spec => []CompleteMeansAll
BY Complete, InputStays, PTL
=============================================================================
