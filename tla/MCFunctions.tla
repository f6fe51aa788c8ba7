----------------------------- MODULE MCFunctions -----------------------------
(***************************************************************************)
(* The functions of Taskrail that keep no state, over every input: what    *)
(* catch_up makes of a backlog, the adapters of a request and of the       *)
(* output of its process, the gates of a call, and discovery of a native   *)
(* entry and of a host.  Each is compared with a definition of its own or  *)
(* with another list that must agree with it.                              *)
(***************************************************************************)
EXTENDS Integers, Sequences, Gateway, Scheduler

CONSTANTS
  Bound,      \* of scheduled instants, clocks, intervals and max_runs
  Unheard,    \* names of actions and parameters a client makes up
  MaxWords,   \* of a native command
  NoCommand

\* The clock is inside the supported date range.
ASSUME MCFunctionsAssumption == Bound \in Nat /\ Bound < LastInstant /\ MaxWords \in Nat

Native == INSTANCE NativeSources

-----------------------------------------------------------------------------
(***************************************************************************)
(* The inputs.                                                             *)
(***************************************************************************)
Triggers ==
  {Interval(n) : n \in 0..Bound} \cup {Cron(fires) : fires \in SUBSET Instants}
    \cup {Manual, Malformed}

Misfires == {Skip, RunOnce} \cup {CatchUp(n) : n \in 0..Bound}

Schedules ==
  [kind : {"schedule"}, trigger : Triggers, scheduled : 0..Bound, now : 0..Bound,
   misfire : Misfires]

\* Every action the adapter can do, and others.
Actions(tool) == {c.action : c \in Capabilities(tool)} \cup Unheard

\* Every choice of parameters, also of some unknown to the adapter; listed says
\* that a fresh discovery lists the Shortcut, confirm that its run is confirmed.
RequestsOf(name, tool) ==
  LET names == Parameters[tool] \cup Unheard
      flags == IF tool = "shortcuts" THEN BOOLEAN ELSE {TRUE}
  IN  UNION {[tool : {name}, action : Actions(tool), given : {given}, sound : SUBSET given,
              listed : flags, confirm : flags] : given \in SUBSET names}

Requests == UNION {RequestsOf(t, t) : t \in Tools}

ToolCalls ==
  UNION {IF IsIntegration(t) THEN RequestsOf(t, Integration(t))
         ELSE {[tool |-> t, action |-> "none", given |-> {}, sound |-> {},
                listed |-> TRUE, confirm |-> TRUE]} : t \in McpTools}

\* What becomes of a run depends on the action and on whether it is a dry run.
Runnable ==
  {r \in Requests : Plannable(r) /\ r.given = r.sound /\ r.given \subseteq Parameters[r.tool]}

Processes ==
  [status : {"succeeded", "failed", "timed_out", "cancelled"}, out : Outputs]

HttpRequests ==
  [origin : {"none", "allowed", "foreign"}, method : {"GET", "POST", "OPTIONS"},
   path : {"/mcp", "/healthz", "/metrics", "/other"}, bearer : BOOLEAN, json : BOOLEAN,
   accepts : BOOLEAN, version : {"absent", "known", "unknown"},
   body : {"initialize", "call", "notification", "malformed"}]

Words == {"tool", "sh", "-c", "spaced", "NAME=value", "operator"}
WordLists == UNION {[1..n -> Words] : n \in 1..MaxWords}

Entries ==
  [provider : {"launchd"}, program : {"none", "tool", "sh"}, timer : {FALSE},
   words : WordLists \cup {<<>>, NoCommand},
   start : {"none", "interval", "calendar", "calendars"}]
  \cup [provider : {"cron"}, program : {"none"}, timer : {FALSE}, words : WordLists,
        start : {"fields", "@daily", "comment"}]
  \cup [provider : {"systemd"}, program : {"none"}, timer : BOOLEAN,
        words : WordLists \cup {<<>>}, start : {"none"}]
  \cup [provider : {"task-scheduler"}, program : {"none"}, timer : {FALSE},
        words : WordLists \cup {<<"N/A">>}, start : {"none"}]

Hosts ==
  {h \in [platform : {"macos", "linux"}, launchd : {"absent", "fails", "answers"},
          cron : {"absent", "fails", "answers"},
          systemd : {"absent", "down", "fails", "answers"},
          homebrew : {"absent", "fails", "answers"}, applications : {"fails", "answers"},
          service : {"linked", "unlinked", "unit", "none"}] :
     /\ h.service \in {"linked", "unlinked"} => h.platform = "macos"
     /\ h.service = "unit" => h.platform = "linux"}

VARIABLE input

Init ==
  \/ input \in Schedules
  \/ input \in [kind : {"run"}, request : Runnable, process : Processes]
  \/ input \in [kind : {"request"}, request : Requests]
  \/ input \in [kind : {"call"}, request : ToolCalls]
  \/ input \in [kind : {"http"}, request : HttpRequests]
  \/ input \in [kind : {"route"}, request : Routes]
  \/ input \in [kind : {"native"}, entry : Entries]
  \/ input \in [kind : {"host"}, host : Hosts, source : {"all"} \cup Native!Providers]

\* One input is one behaviour.
Next == UNCHANGED input

Spec == Init /\ [][Next]_input

-----------------------------------------------------------------------------
(***************************************************************************)
(* The schedule arithmetic, compared with definitions that do not use      *)
(* next_run.                                                               *)
(***************************************************************************)
\* An interval counts from the scheduled instant.
FiresAt(trigger, scheduled, t) ==
  CASE trigger.kind = "interval" -> trigger.seconds > 0 /\ (t - scheduled) % trigger.seconds = 0
    [] trigger.kind = "cron" -> t \in trigger.fires
    [] OTHER -> FALSE

MissedOccurrences(trigger, scheduled, now) ==
  {scheduled} \cup {t \in scheduled + 1..now : FiresAt(trigger, scheduled, t)}

Replays(trigger, scheduled, now, maxRuns) ==
  LET due == DueRuns(trigger, scheduled, now, CatchUp(maxRuns))
      ran == {due[i] : i \in DOMAIN due}
      missed == MissedOccurrences(trigger, scheduled, now)
  IN  due # Invalid =>
        /\ Len(due) <= maxRuns
        /\ \A i, j \in DOMAIN due : i < j => due[i] < due[j]
        /\ ran \subseteq missed
        /\ \A t \in missed \ ran : Len(due) = maxRuns /\ \A u \in ran : u < t

\* catch_up replays the missed occurrences themselves, from the one that was
\* due, oldest first, as many as it may: none is left out before the last one
\* and none is run ahead of its time or twice.
CatchUpReplaysMissed ==
  input.kind = "schedule" /\ input.misfire.policy = "catch_up" /\ input.scheduled <= input.now =>
    Replays(input.trigger, input.scheduled, input.now, input.misfire.maxRuns)

Splits(trigger, scheduled, now, first, second) ==
  LET whole == DueRuns(trigger, scheduled, now, CatchUp(first + second))
      piece == DueRuns(trigger, scheduled, now, CatchUp(first))
      resume == NextRun(trigger, piece[Len(piece)])
  IN  whole # Invalid
      => whole = piece \o (IF resume = Never THEN <<>>
                           ELSE DueRuns(trigger, resume, now, CatchUp(second)))

\* What one pass leaves due is what a later pass picks up: evaluated in two
\* pieces, with the next run computed in between, a backlog gives the same runs
\* as evaluated at once.
BacklogMayBeSplit ==
  input.kind = "schedule" /\ input.scheduled <= input.now =>
    \A first, second \in 1..Bound :
      Splits(input.trigger, input.scheduled, input.now, first, second)

\* A run that must be asked for its next one, and has none: an interval of zero, a
\* malformed expression, a date out of range.
Unschedulable(trigger, scheduled, now, maxRuns) ==
  \/ maxRuns = 0
  \/ trigger.kind = "malformed"
  \/ /\ trigger.kind = "interval"
     /\ \E k \in 0..(maxRuns - 1) :
          /\ scheduled + k * trigger.seconds <= now
          /\ \/ trigger.seconds = 0
             \/ scheduled + (k + 1) * trigger.seconds > LastInstant

\* Evaluation fails exactly on a definition that cannot be scheduled: catch_up
\* with no runs allowed, or with a run that has no next one.
FailsOnUnschedulable ==
  input.kind = "schedule" =>
    (DueRuns(input.trigger, input.scheduled, input.now, input.misfire) = Invalid
     <=> /\ input.misfire.policy = "catch_up" /\ input.scheduled <= input.now
         /\ Unschedulable(input.trigger, input.scheduled, input.now, input.misfire.maxRuns))

-----------------------------------------------------------------------------
(***************************************************************************)
(* Requests, runs and gates.                                               *)
(***************************************************************************)
\* The operations whose parsers look for errors in what the tool reports.
Reporting ==
  [rclone |-> {"check", "copy", "sync"},
   restic |-> {"backup", "check", "forget", "prune"},
   github |-> {"issues", "pulls", "failed-runs", "checks"}]

Reports(r) == r.tool \in DOMAIN Reporting /\ r.action \in Reporting[r.tool]

\* The history and the inbox tell what the tool reported: no run is recorded as
\* succeeded whose process did not end well, or whose output reports errors or
\* failed checks; a scan that found something asks for attention although the
\* scanner then exits with an error; and whatever was not a success, nor was
\* cancelled, is an item of the inbox.
StatusIsHonest ==
  input.kind = "run" =>
    LET r == input.request
        status == RunStatus(r, input.process)
        out == input.process.out
        signals == {Signal("run", status)}
                     \cup {Signal("event", e) : e \in RunEvents(r, input.process)}
    IN  /\ status = "succeeded" =>
             /\ input.process.status = "succeeded" \/ PlanOnly(r)
             /\ ~(Reports(r) /\ ShowsErrors(out))
             /\ ~(r.action = "checks" /\ out = "failed_checks")
        /\ r.tool \in Scanners /\ r.action = "scan" /\ out = "findings"
             => status = "needs_attention"
        /\ status \notin {"succeeded", "cancelled"} <=> \E s \in signals : IsItem(s)

\* What is held can be granted: a request that is stopped for an approval, and
\* gives no parameter its adapter does not know, can be requested with the same
\* parameters and executed by the approval, also when it came as the call of a
\* tool; on the command line, too, unless it names the variables of a restic
\* repository, for which approval_request has no option; what is scheduled is
\* not held when its time comes; and the list of capabilities names the risk of
\* every plan.
RequestIsApprovable(r) ==
  /\ Held(r) /\ r.given \subseteq Parameters[r.tool]
       => Requestable(r) /\ r.tool \in ExecutionTools
  /\ Held(r) /\ Typed(r, Commands) /\ r.given \cap {"repository_env", "password_env"} = {}
       => Typed(r, ApprovalCommands)
  /\ Requestable(r) => Held(r)
  /\ Schedulable(r) => ~Held(r)
  /\ Plannable(r) =>
       \E c \in Capabilities(r.tool) :
         /\ c.action = r.action
         /\ Plan(r).risk \in {c.risk} \cup IF c.dry /\ Plan(r).dry THEN {Read} ELSE {}

HeldIsApprovable ==
  /\ input.kind = "request" => RequestIsApprovable(input.request)
  /\ input.kind = "call" /\ IsIntegration(input.request.tool)
       => RequestIsApprovable(Forwarded(input.request))

\* The lists of the gates are kept by hand and agree with what a call does: a
\* call that may change something, or be held for a grant to do so, is of a tool
\* without the readOnlyHint, outside of the public profile, and not sent to a
\* host of the fleet that is read-only; a tool that can destroy says so; the
\* fleet describes a tool as its host does; the tools are reached over HTTP only
\* with the token; and no page of another origin makes the dashboard change
\* anything.
CallIsGated(c) ==
  /\ MayChange(c) =>
       /\ \A h \in Hints : h.tool = c.tool => ~h.readOnly
       /\ ~Offered(c.tool, "public")
       /\ FleetRefuses(c, FALSE)
  /\ IsIntegration(c.tool) /\ MayChange(c) /\ Risk(Forwarded(c)) \in {SystemWrite, Destructive}
       => \A h \in Hints : h.tool = c.tool => h.destructive
  /\ \A f \in FleetHints :
       RemoteTool(f.tool) = c.tool => [f EXCEPT !.tool = c.tool] \in Hints

GatesAgree ==
  /\ input.kind = "call" => CallIsGated(input.request)
  /\ input.kind = "http" /\ HttpAnswer(input.request) \in {"call", "initialize"}
       => input.request.bearer /\ input.request.version # "unknown"
  /\ input.kind = "route" /\ (Serves(input.request, "none") \/ Serves(input.request, "foreign"))
       => input.request.calls \notin ChangingMethods

-----------------------------------------------------------------------------
(***************************************************************************)
(* Native entries and scans of a host.                                     *)
(***************************************************************************)
\* What the native scheduler runs: the program of an agent, with the arguments
\* after the first, which is its name.
NativeWords(e) ==
  IF e.program = "none" THEN e.words ELSE <<e.program>> \o SubSeq(e.words, 2, Len(e.words))

RunsShell(words) == words[1] = "sh" /\ \E i \in 2..Len(words) : words[i] = "-c"

\* The shell of cron interprets these, and a word that holds blanks is one word.
ShellSyntax == {"spaced", "NAME=value", "operator"}

\* An entry that becomes an automation runs the same program with the same
\* arguments as its native scheduler does, at the same times, and never through
\* a shell. Left out are the entries of which that does not hold: crontab lines
\* that use the syntax of the shell, systemd services with arguments, and agents
\* with several calendar intervals.
PromotedRunsTheSame ==
  input.kind = "native" =>
    LET e == input.entry
        argv == NativeWords(e)
        plain == /\ e.provider = "cron" => \A i \in DOMAIN e.words : e.words[i] \notin ShellSyntax
                 /\ e.provider = "systemd" => Len(e.words) = 1
                 /\ e.start # "calendars"
    IN  Native!Promoted(e) /\ plain =>
          /\ Native!CommandOf(e) = Native!Argv(argv)
          /\ ~RunsShell(argv)
          /\ e.start \in {"interval", "calendar"} => Native!TriggerOf(e) = e.start
          /\ e.provider = "cron" => e.start = "fields"

\* A scan calls no entry missing that is there: the entries of a provider it
\* calls complete are all that any earlier scan can have stored for it on the
\* same host, whatever was unavailable or failed meanwhile; and no entry is known
\* by two identities. Left out are a plist of Homebrew outside of the directories
\* of launchd, which only Homebrew lists, and the services of Homebrew itself,
\* which never become automations.
CompleteMeansAll ==
  input.kind = "host" =>
    LET h == input.host
        now == Native!Scan(h, input.source)
        healthy == [h EXCEPT !.launchd = "answers", !.cron = "answers", !.systemd = "answers",
                             !.homebrew = "answers", !.applications = "answers"]
        stored == UNION {Native!Scan(healthy, s) : s \in {"all", input.source}}
    IN  ~Native!ScanFails(h, input.source) =>
          /\ h.service # "unlinked" =>
               \A e \in stored :
                 e.provider \in Native!CompleteProviders(h, input.source) \ {"homebrew"}
                   => e \in now
          /\ \A e, f \in now : e.entity = "service" /\ f.entity = "service" => e = f
=============================================================================
