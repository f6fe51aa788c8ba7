--------------------------- MODULE SchedulerPass ---------------------------
(***************************************************************************)
(* scheduled_pass: the daemon reads every automation of the Registry once, *)
(* then visits them in turn, runs what is due and writes the whole row     *)
(* back with a new next_run_at.  Meanwhile operators (CLI processes, RPC   *)
(* handlers, a native scan) read rows and write them back as well, and     *)
(* every run of the pass takes its time.                                   *)
(***************************************************************************)
EXTENDS Scheduler, FiniteSets

CONSTANTS
  Order,       \* the automations, sorted by name
  TriggerOf, MisfireOf, MaxAgeOf, \* of each; an age of Never is unset
  Exclusive,   \* the automations whose concurrency is forbid_overlap
  Unscheduled, \* those registered from YAML or adopted: without a next_run_at
  FromNative,  \* those adopted
  RunByHand,   \* those that persons run as well
  Daemons,     \* daemon processes
  Operators,   \* processes that change automations
  Intents,     \* what operators do
  Absent,      \* no row, nothing held
  MaxClock,    \* bound on the clock
  MaxCrashes   \* bound on the crashes of daemons

Automations == {Order[i] : i \in DOMAIN Order}

\* The instants an automation that was given a next run at 0 is to run at.
Occurrences(a) ==
  CASE TriggerOf[a].kind = "interval" ->
         {t \in 1..MaxClock : TriggerOf[a].seconds > 0 /\ t % TriggerOf[a].seconds = 0}
    [] TriggerOf[a].kind = "cron" -> TriggerOf[a].fires
    [] OTHER -> {}

CatchesUp(a) == MisfireOf[a].policy = "catch_up"

ASSUME SchedulerPassAssumption ==
  /\ Order \in Seq(Automations)
  /\ \A i, j \in DOMAIN Order : Order[i] = Order[j] => i = j
  /\ TriggerOf \in [Automations -> TriggerType] /\ MisfireOf \in [Automations -> MisfireType]
  /\ MaxAgeOf \in [Automations -> Nat \cup {Never}]
  /\ \A a \in Automations : TriggerOf[a].kind = "cron" => 0 \notin TriggerOf[a].fires
  /\ Exclusive \subseteq Automations /\ Unscheduled \subseteq Automations
  /\ RunByHand \subseteq Automations /\ FromNative \subseteq Unscheduled
  /\ Intents \subseteq {"pause", "resume", "attention", "acknowledge", "release", "delete"}
  /\ MaxClock \in Nat /\ MaxCrashes \in Nat
  /\ MaxClock < LastInstant
  /\ \A a \in Automations \ Unscheduled : NextRun(TriggerOf[a], 0) # Invalid

VARIABLES
  clock,     \* Utc::now()
  registry,  \* the row of each automation
  running,   \* who supervises a run of it in progress: daemons, "person"
  phase,     \* of each daemon: "down", "idle", "visiting", "starting", "running"
  now,       \* of each daemon's pass
  todo,      \* automations the pass has still to visit, the current one first
  snapshot,  \* the rows the pass read
  due,       \* occurrences of the current automation it has still to run
  held,      \* what each operator read and will write back
  evaluated, \* history: occurrences a run was asked for
  admitted,  \* history: occurrences a run was started for
  repeated,  \* history: those it was started for again
  recorded,  \* automations that have a run in the history
  ordered,   \* history: the last state an operator wrote
  crashes    \* crashes so far

passVars == <<phase, now, todo, snapshot, due>>
historyVars == <<evaluated, admitted, repeated, recorded>>
operatorVars == <<held, ordered>>
vars == <<clock, registry, running, passVars, historyVars, operatorVars, crashes>>

States == {"enabled", "paused", "needs_attention"}
RowType ==
  [owner : {"managed", "adopted", "observed"}, state : States, next : Instants \cup {Never}]

ASSUME AbsentIsNoRow == Absent \notin RowType

TypeOK ==
  /\ clock \in 0..MaxClock
  /\ registry \in [Automations -> RowType \cup {Absent}]
  /\ running \in [Automations -> SUBSET (Daemons \cup {"person"})]
  /\ phase \in [Daemons -> {"down", "idle", "visiting", "starting", "running"}]
  /\ now \in [Daemons -> 0..MaxClock]
  /\ todo \in [Daemons -> {SubSeq(Order, i, Len(Order)) : i \in 1..(Len(Order) + 1)}]
  /\ snapshot \in [Daemons -> [Automations -> RowType \cup {Absent}]]
  /\ due \in [Daemons -> Seq(0..MaxClock)]
  /\ held \in [Operators -> {Absent} \cup [of : Automations, row : RowType, intent : Intents]]
  /\ evaluated \in [Automations -> SUBSET (0..MaxClock)]
  /\ admitted \in [Automations -> SUBSET (0..MaxClock)]
  /\ repeated \in [Automations -> SUBSET (0..MaxClock)]
  /\ recorded \subseteq Automations
  /\ ordered \in [Automations -> States \cup {"none"}]
  /\ crashes \in 0..MaxCrashes

Init ==
  /\ clock = 0
  /\ registry = [a \in Automations |->
       [owner |-> IF a \in FromNative THEN "adopted" ELSE "managed",
        state |-> "enabled",
        next |-> IF a \in Unscheduled THEN Never ELSE NextRun(TriggerOf[a], 0)]]
  /\ running = [a \in Automations |-> {}]
  /\ phase = [d \in Daemons |-> "idle"]
  /\ now = [d \in Daemons |-> 0]
  /\ todo = [d \in Daemons |-> <<>>]
  /\ snapshot = [d \in Daemons |-> [a \in Automations |-> Absent]]
  /\ due = [d \in Daemons |-> <<>>]
  /\ held = [o \in Operators |-> Absent]
  /\ evaluated = [a \in Automations |-> {}]
  /\ admitted = [a \in Automations |-> {}]
  /\ repeated = [a \in Automations |-> {}]
  /\ recorded = {}
  /\ ordered = [a \in Automations |-> "none"]
  /\ crashes = 0

-----------------------------------------------------------------------------
(***************************************************************************)
(* A pass reads the Registry and visits the automations.                   *)
(***************************************************************************)

BeginPass(d) ==
  /\ phase[d] = "idle"
  /\ phase' = [phase EXCEPT ![d] = "visiting"]
  /\ now' = [now EXCEPT ![d] = clock]
  /\ snapshot' = [snapshot EXCEPT ![d] = registry]
  /\ todo' = [todo EXCEPT ![d] = Order]
  /\ UNCHANGED <<clock, registry, running, due, historyVars, operatorVars, crashes>>

\* The pass returns, fails or dies, and its local variables with it.
DropPass(d, next) ==
  /\ phase' = [phase EXCEPT ![d] = next]
  /\ now' = [now EXCEPT ![d] = 0]
  /\ todo' = [todo EXCEPT ![d] = <<>>]
  /\ snapshot' = [snapshot EXCEPT ![d] = [a \in Automations |-> Absent]]

EndPass(d) ==
  /\ phase[d] = "visiting"
  /\ todo[d] = <<>>
  /\ DropPass(d, "idle")
  /\ UNCHANGED <<clock, registry, running, due, historyVars, operatorVars, crashes>>

Current(d) == Head(todo[d])
Row(d) == snapshot[d][Current(d)]
Visiting(d) == phase[d] = "visiting" /\ todo[d] # <<>>

ScheduledWhenPolled(d) == now[d]

\* An automation that never got a next_run_at is due at once.
Scheduled(d) == IF Row(d).next = Never THEN now[d] ELSE Row(d).next

Due(d) == DueRuns(TriggerOf[Current(d)], Scheduled(d), now[d], MisfireOf[Current(d)])

EligibleManaged(d) == Row(d) # Absent /\ Row(d).owner = "managed" /\ Row(d).state = "enabled"

Eligible(d) ==
  /\ Row(d) # Absent
  /\ Row(d).owner \in {"adopted", "managed"}
  /\ Row(d).state = "enabled"
  /\ TriggerOf[Current(d)] # Manual

MayStart(a) == a \in Exclusive => running[a] = {}

TooOld(d) ==
  LET maxAge == MaxAgeOf[Current(d)]
  IN  maxAge # Never /\ Scheduled(d) <= now[d] /\ now[d] - Scheduled(d) > maxAge

NeverAhead(d) == FALSE

Ahead(d) == Scheduled(d) > now[d]

\* The visit is over, the next automation is up.
Leave(d) ==
  /\ todo' = [todo EXCEPT ![d] = Tail(@)]
  /\ snapshot' = [snapshot EXCEPT ![d][Current(d)] = Absent]
  /\ phase' = [phase EXCEPT ![d] = "visiting"]
  /\ UNCHANGED now

\* save_automation writes the row as the pass read it, with its new next run;
\* without one (`?`) the pass, and with it the daemon, ends.
SaveAndLeave(d, next) ==
  \/ /\ next # Invalid
     /\ registry' = [registry EXCEPT ![Current(d)] = [Row(d) EXCEPT !.next = next]]
     /\ Leave(d)
  \/ /\ next = Invalid
     /\ DropPass(d, "down")
     /\ UNCHANGED registry

\* Not for the scheduler, not now, or not yet: the row is left alone.
PassOver(d) ==
  /\ Visiting(d)
  /\ \/ ~Eligible(d)
     \/ /\ Eligible(d) /\ Due(d) # Invalid
        /\ \/ ~MayStart(Current(d))
           \/ ~TooOld(d) /\ Due(d) = <<>> /\ Ahead(d)
  /\ Leave(d)
  /\ UNCHANGED <<clock, registry, running, due, historyVars, operatorVars, crashes>>

\* due_runs returns an error: `?` ends the pass and the daemon.
FailPass(d) ==
  /\ Visiting(d) /\ Eligible(d)
  /\ Due(d) = Invalid
  /\ DropPass(d, "down")
  /\ UNCHANGED <<clock, registry, running, due, historyVars, operatorVars, crashes>>

MayEvaluate(d) ==
  Visiting(d) /\ Eligible(d) /\ Due(d) # Invalid /\ MayStart(Current(d))

\* misfire_max_age_seconds: the age of the first occurrence decides about all.
Expire(d) ==
  /\ MayEvaluate(d)
  /\ TooOld(d)
  /\ SaveAndLeave(d, NextRun(TriggerOf[Current(d)], now[d]))
  /\ UNCHANGED <<clock, running, due, historyVars, operatorVars, crashes>>

\* Nothing is due of an occurrence that has come: the policy is skip.
SkipMisfire(d) ==
  /\ MayEvaluate(d)
  /\ ~TooOld(d) /\ Due(d) = <<>> /\ ~Ahead(d)
  /\ SaveAndLeave(d, NextRun(TriggerOf[Current(d)], now[d]))
  /\ UNCHANGED <<clock, running, due, historyVars, operatorVars, crashes>>

BeginRuns(d) ==
  /\ MayEvaluate(d)
  /\ ~TooOld(d) /\ Due(d) # <<>>
  /\ due' = [due EXCEPT ![d] = Due(d)]
  /\ phase' = [phase EXCEPT ![d] = "starting"]
  /\ UNCHANGED <<clock, registry, running, now, todo, snapshot, historyVars, operatorVars, crashes>>

-----------------------------------------------------------------------------
(***************************************************************************)
(* The runs of a visit, one after the other (see RunLifecycle).            *)
(***************************************************************************)

\* execute_automation_at: admitted under the overlap policy, rejected by it, or
\* by the foreign key when the automation has been deleted meanwhile.
MayAdmit(a) == registry[a] # Absent /\ MayStart(a)

StartRun(d) ==
  /\ phase[d] = "starting"
  /\ due[d] # <<>>
  /\ LET a == Current(d)
         t == Head(due[d])
     IN  /\ evaluated' = [evaluated EXCEPT ![a] = @ \cup {t}]
         /\ \/ /\ MayAdmit(a)
               /\ running' = [running EXCEPT ![a] = @ \cup {d}]
               /\ admitted' = [admitted EXCEPT ![a] = @ \cup {t}]
               /\ repeated' = [repeated EXCEPT ![a] = @ \cup (admitted[a] \cap {t})]
               /\ recorded' = recorded \cup {a}
               /\ phase' = [phase EXCEPT ![d] = "running"]
               /\ UNCHANGED due
            \/ /\ ~MayAdmit(a)
               /\ due' = [due EXCEPT ![d] = Tail(@)]
               /\ UNCHANGED <<running, admitted, repeated, recorded, phase>>
  /\ UNCHANGED <<clock, registry, now, todo, snapshot, operatorVars, crashes>>

\* Whatever the run ended as, its occurrence is done with.
EndRun(d) ==
  /\ phase[d] = "running"
  /\ running' = [running EXCEPT ![Current(d)] = @ \ {d}]
  /\ due' = [due EXCEPT ![d] = Tail(@)]
  /\ phase' = [phase EXCEPT ![d] = "starting"]
  /\ UNCHANGED <<clock, registry, now, todo, snapshot, historyVars, operatorVars, crashes>>

AdvanceFromNow(d) == now[d]
AdvanceFromFirst(d) == IF CatchesUp(Current(d)) THEN Head(Due(d)) ELSE now[d]

\* catch_up goes on where it stopped, run_once starts again from now.
AdvanceFrom(d) == IF CatchesUp(Current(d)) THEN Due(d)[Len(Due(d))] ELSE now[d]

FinishVisit(d) ==
  /\ phase[d] = "starting"
  /\ due[d] = <<>>
  /\ SaveAndLeave(d, NextRun(TriggerOf[Current(d)], AdvanceFrom(d)))
  /\ UNCHANGED <<clock, running, due, historyVars, operatorVars, crashes>>

PassStep(d) ==
  \/ BeginPass(d) \/ EndPass(d)
  \/ PassOver(d) \/ FailPass(d) \/ Expire(d) \/ SkipMisfire(d) \/ BeginRuns(d)
  \/ StartRun(d) \/ EndRun(d) \/ FinishVisit(d)

-----------------------------------------------------------------------------
(***************************************************************************)
(* The rest of the world.                                                  *)
(***************************************************************************)

Tick ==
  /\ clock < MaxClock
  /\ clock' = clock + 1
  /\ UNCHANGED <<registry, running, passVars, historyVars, operatorVars, crashes>>

\* A run asked for by a person.
StartManual(a) ==
  /\ a \in RunByHand
  /\ "person" \notin running[a]
  /\ MayAdmit(a)
  /\ running' = [running EXCEPT ![a] = @ \cup {"person"}]
  /\ recorded' = recorded \cup {a}
  /\ UNCHANGED <<clock, registry, passVars, evaluated, admitted, repeated,
                 operatorVars, crashes>>

EndManual(a) ==
  /\ "person" \in running[a]
  /\ running' = [running EXCEPT ![a] = @ \ {"person"}]
  /\ UNCHANGED <<clock, registry, passVars, historyVars, operatorVars, crashes>>

HasSource(row) == row.owner \in {"adopted", "observed"}

\* What the operations require of the row they read: transition_runtime_state,
\* reconcile_discovered_source and mark_missing_sources, acknowledge_source_drift,
\* rollback_adoption, delete_automation.
Permits(a, row, intent) ==
  \/ /\ intent \in {"pause", "resume"}
     /\ row.owner # "observed" /\ row.state # "needs_attention"
     /\ row.state # (IF intent = "pause" THEN "paused" ELSE "enabled")
  \/ intent \in {"attention", "release"} /\ HasSource(row)
  \/ intent = "acknowledge" /\ row.owner = "adopted" /\ row.state = "needs_attention"
  \/ intent = "delete" /\ row.owner = "managed" /\ a \notin recorded

Altered(row, intent) ==
  CASE intent = "resume" -> [row EXCEPT !.state = "enabled"]
    [] intent = "attention" -> [row EXCEPT !.state = "needs_attention"]
    [] intent = "release" -> [row EXCEPT !.owner = "observed", !.state = "needs_attention"]
    [] OTHER -> [row EXCEPT !.state = "paused"]

\* An operation reads the row in one call to the Registry ...
ReadRow(o, a, intent) ==
  /\ held[o] = Absent
  /\ registry[a] # Absent
  /\ Permits(a, registry[a], intent)
  /\ held' = [held EXCEPT ![o] = [of |-> a, row |-> registry[a], intent |-> intent]]
  /\ UNCHANGED <<clock, registry, running, passVars, historyVars, ordered, crashes>>

\* ... and writes all of it in another.
WriteRow(o) ==
  /\ held[o] # Absent
  /\ held[o].intent # "delete"
  /\ LET row == Altered(held[o].row, held[o].intent)
     IN  /\ registry' = [registry EXCEPT ![held[o].of] = row]
         /\ ordered' = [ordered EXCEPT ![held[o].of] = row.state]
  /\ held' = [held EXCEPT ![o] = Absent]
  /\ UNCHANGED <<clock, running, passVars, historyVars, crashes>>

\* The foreign key of the run history protects an automation with runs.
DeleteRow(o) ==
  /\ held[o] # Absent
  /\ held[o].intent = "delete"
  /\ registry' = IF held[o].of \in recorded THEN registry
                 ELSE [registry EXCEPT ![held[o].of] = Absent]
  /\ held' = [held EXCEPT ![o] = Absent]
  /\ UNCHANGED <<clock, running, passVars, historyVars, ordered, crashes>>

\* A daemon dies with its pass; the rows of its runs stay.
CrashDaemon(d) ==
  /\ crashes < MaxCrashes
  /\ phase[d] # "down"
  /\ crashes' = crashes + 1
  /\ DropPass(d, "down")
  /\ due' = [due EXCEPT ![d] = <<>>]
  /\ UNCHANGED <<clock, registry, running, historyVars, operatorVars>>

\* recover_running_runs: no row is running when the first pass begins.
StartDaemon(d) ==
  /\ phase[d] = "down"
  /\ phase' = [phase EXCEPT ![d] = "idle"]
  /\ running' = [a \in Automations |-> {}]
  /\ UNCHANGED <<clock, registry, now, todo, snapshot, due, historyVars, operatorVars, crashes>>

Next ==
  \/ \E d \in Daemons : PassStep(d)
  \/ Tick
  \/ \E a \in Automations : StartManual(a) \/ EndManual(a)
  \/ \E o \in Operators, a \in Automations, intent \in Intents : ReadRow(o, a, intent)
  \/ \E o \in Operators : WriteRow(o) \/ DeleteRow(o)
  \/ \E d \in Daemons : CrashDaemon(d) \/ StartDaemon(d)

Spec == Init /\ [][Next]_vars

\* Time passes; the daemon's loop goes on and its runs end (timeout_seconds); the
\* service manager starts it again when it is down.
FairSpec ==
  /\ Spec
  /\ WF_vars(Tick)
  /\ \A d \in Daemons : WF_vars(PassStep(d) \/ StartDaemon(d))

-----------------------------------------------------------------------------
(***************************************************************************)
(* Properties.                                                             *)
(***************************************************************************)

\* catch_up without an age limit passes over no occurrence: whatever was written
\* back meanwhile, from however old a copy, every occurrence before next_run_at
\* has been evaluated (ADR 0016: a still-due occurrence is left for a later pass).
CatchUpLosesNothing ==
  \A a \in Automations \ Unscheduled :
    CatchesUp(a) /\ MaxAgeOf[a] = Never /\ registry[a] # Absent
    => \A t \in Occurrences(a) :
         \/ registry[a].next # Never /\ registry[a].next <= t
         \/ t \in evaluated[a]

\* An occurrence is run once (the same scheduling tick is not executed again).
TickRunsOnce == \A a \in Automations : repeated[a] = {}

\* The scheduler runs a cron automation only for instants at which its expression
\* fires, and not for the instants at which a pass happens to look.
OnlyOccurrencesRun ==
  \A a \in Automations \ Unscheduled :
    TriggerOf[a].kind = "cron" => admitted[a] \subseteq Occurrences(a)

\* An automation an operator paused stays out of the scheduler's hands until an
\* operator resumes it.
PauseIsKept ==
  \A a \in Automations :
    ordered[a] = "paused" /\ registry[a] # Absent => registry[a].state # "enabled"

\* Every enabled automation that has a schedule is run, unless its misfire policy
\* is skip or a person keeps an exclusive automation busy.
ScheduledAutomationRuns == \A a \in Automations : <>(admitted[a] # {})
=============================================================================
