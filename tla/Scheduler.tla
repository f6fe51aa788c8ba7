----------------------------- MODULE Scheduler -----------------------------
(***************************************************************************)
(* scheduler.rs: when an automation runs next, which of its missed         *)
(* occurrences are due, and whether a run may start.  Instants are natural *)
(* numbers of seconds up to LastInstant, the end of the supported date     *)
(* range.                                                                  *)
(***************************************************************************)
EXTENDS Integers, Sequences

CONSTANTS
  LastInstant,
  Never,   \* None: there is no next run
  Invalid  \* an error: the definition cannot be scheduled

ASSUME SchedulerAssumption ==
  LastInstant \in Nat /\ Never \notin Int /\ Invalid \notin Int /\ Never # Invalid

\* An error is not a list of runs.
ASSUME ErrorAssumption == Invalid \notin Seq(Nat)

Manual == [kind |-> "manual"]
Interval(seconds) == [kind |-> "interval", seconds |-> seconds]

\* A cron expression in its timezone is the set of instants at which it fires.
Cron(fires) == [kind |-> "cron", fires |-> fires]

\* A cron expression or a timezone that does not parse.
Malformed == [kind |-> "malformed"]

Skip == [policy |-> "skip"]
RunOnce == [policy |-> "run_once"]
CatchUp(maxRuns) == [policy |-> "catch_up", maxRuns |-> maxRuns]

Instants == 0..LastInstant
TriggerType ==
  [kind : {"manual", "malformed"}]
    \cup [kind : {"interval"}, seconds : Nat] \cup [kind : {"cron"}, fires : SUBSET Instants]
MisfireType == [policy : {"skip", "run_once"}] \cup [policy : {"catch_up"}, maxRuns : Nat]

Earliest(instants) == CHOOSE t \in instants : \A u \in instants : t <= u

\* The fires of a cron expression that come after an instant.
Later(fires, after) == {t \in fires : t > after}

IntervalIsPositive(seconds, after) == seconds > 0

\* An interval of zero is refused, and so is a date out of range.
IntervalIsValid(seconds, after) == seconds > 0 /\ after + seconds <= LastInstant

NextRun(trigger, after) ==
  CASE trigger.kind = "manual" -> Never
    [] trigger.kind = "interval" ->
         IF IntervalIsValid(trigger.seconds, after) THEN after + trigger.seconds ELSE Invalid
    [] trigger.kind = "cron" ->
         LET later == Later(trigger.fires, after)
         IN  IF later = {} THEN Never ELSE Earliest(later)
    [] OTHER -> Invalid

StopsBefore(next, now) == next >= now

\* The loop of catch_up ends with the first occurrence that is still ahead.
StopsAt(next, now) == next > now

\* One round of the loop: next_run is asked after every occurrence, also after the
\* last one, and its error is the error of the loop.
Round(trigger, now, before) ==
  LET after == NextRun(trigger, before.next)
  IN  IF before.next = Invalid \/ StopsAt(before.next, now) THEN before
      ELSE [runs |-> Append(before.runs, before.next),
            next |-> IF after = Never THEN now + 1 ELSE after]

\* The occurrences the loop collects in at most maxRuns rounds.
Missed(trigger, scheduled, now, maxRuns) ==
  LET round[k \in 0..maxRuns] ==
        IF k = 0 THEN [runs |-> <<>>, next |-> scheduled] ELSE Round(trigger, now, round[k - 1])
  IN  IF round[maxRuns].next = Invalid THEN Invalid ELSE round[maxRuns].runs

MissedAndOneMore(trigger, scheduled, now, maxRuns) ==
  Missed(trigger, scheduled, now, maxRuns + 1)

CatchUpRuns(trigger, scheduled, now, maxRuns) ==
  IF maxRuns = 0 THEN Invalid ELSE Missed(trigger, scheduled, now, maxRuns)

DueRuns(trigger, scheduled, now, misfire) ==
  CASE scheduled > now -> <<>>
    [] scheduled <= now /\ misfire.policy = "skip" -> <<>>
    [] scheduled <= now /\ misfire.policy = "run_once" -> <<scheduled>>
    [] OTHER -> CatchUpRuns(trigger, scheduled, now, misfire.maxRuns)
=============================================================================
