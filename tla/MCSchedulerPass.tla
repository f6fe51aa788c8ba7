-------------------------- MODULE MCSchedulerPass --------------------------
(***************************************************************************)
(* Values for the constants of SchedulerPass: two automations, the first   *)
(* one visited first, whose schedules each run's configuration chooses.    *)
(***************************************************************************)
EXTENDS SchedulerPass

CONSTANTS a1, a2, FirstKind, FirstMisfire, SecondKind, SecondMisfire, FirstMaxAge

MCOrder == <<a1, a2>>

TriggerNamed(kind) ==
  CASE kind = "every2" -> Interval(2)
    [] kind = "every3" -> Interval(3)
    [] kind = "cron" -> Cron({1, 3, 4, LastInstant})
    [] kind = "cron_once" -> Cron({1})
    [] OTHER -> Interval(0)

MisfireNamed(policy) ==
  CASE policy = "skip" -> Skip
    [] policy = "run_once" -> RunOnce
    [] OTHER -> CatchUp(2)

MCTriggerOf ==
  [a \in {a1, a2} |-> TriggerNamed(IF a = a1 THEN FirstKind ELSE SecondKind)]
MCMisfireOf ==
  [a \in {a1, a2} |-> MisfireNamed(IF a = a1 THEN FirstMisfire ELSE SecondMisfire)]
MCMaxAgeOf == [a \in {a1, a2} |-> IF a = a1 THEN FirstMaxAge ELSE Never]
=============================================================================
