------------------------------ MODULE Gateway -------------------------------
(***************************************************************************)
(* The ways into Taskrail and what each of them lets through: the policy   *)
(* and the approvals of the service (service.rs), the methods of the RPC   *)
(* server (rpc.rs), the tools of the MCP adapter with their hints and      *)
(* profiles (mcp.rs), the fleet that forwards tools to other hosts         *)
(* (fleet.rs), and the routes of the dashboard (web.rs).                   *)
(*                                                                         *)
(* Each of them keeps a list of its own; the properties are about what the *)
(* lists must agree on.  Tools are named without their prefix taskrail_.   *)
(***************************************************************************)
EXTENDS Adapters

-----------------------------------------------------------------------------
\* The service.

\* DefaultPolicy: reads are allowed, anything else is held for an approval.
RequiresApproval(r) == Risk(r) # Read

\* sanitize_approval_action that was not told of the reference rclone reads.
ApprovalParametersOfTransfer ==
  [mole |-> {"dry_run", "limit"}, restic |-> {"path", "repository_env", "password_env"},
   rclone |-> {"source", "destination", "dry_run"},
   homebrew |-> {"file", "dry_run"}, shortcuts |-> {"shortcut_id"}, topgrade |-> {}]

\* sanitize_approval_action: the parameters an approval may store.
ApprovalParameters ==
  [mole |-> {"dry_run", "limit"}, restic |-> {"path", "repository_env", "password_env"},
   rclone |-> {"source", "destination", "dry_run", "config_env"},
   homebrew |-> {"file", "dry_run"}, shortcuts |-> {"shortcut_id"}, topgrade |-> {}]

Sanitizable(r) ==
  r.tool \in DOMAIN ApprovalParameters /\ r.given \subseteq ApprovalParameters[r.tool]

\* The tools approval.request dispatches to.
RequestTools == {"mole", "restic", "rclone", "homebrew", "shortcuts", "topgrade"}

\* The tools an approval can be executed with.
ExecutionTools == {"mole", "restic", "rclone", "homebrew", "shortcuts", "topgrade"}

Requestable(r) ==
  /\ r.tool \in RequestTools
  /\ Sanitizable(r)
  /\ Preflight(r)
  /\ Plannable(r)
  /\ RequiresApproval(r)

\* A request that execute_integration stops until it presents an approval.
Held(r) == Plannable(r) /\ Preflight(r) /\ RequiresApproval(r)

\* create_integration_automation
Schedulable(r) == Plannable(r) /\ ~RequiresApproval(r)

\* The process of a plan that starts none, as its adapter is told.
ProcessOf(r, p) == IF PlanOnly(r) THEN [status |-> "succeeded", out |-> "empty"] ELSE p

\* The status of a run: that of the parsed result and of its verification, and
\* of the process when neither objects.
RunStatus(r, p) ==
  LET result == Parse(r, ProcessOf(r, p))
  IN  IF result.status \in {"unparsed", "failed"} \/ Verify(r, result) = "failed" THEN "failed"
      ELSE IF result.status = "needs_attention" THEN "needs_attention"
      ELSE ProcessOf(r, p).status

\* The events of a run.
RunEvents(r, p) ==
  LET result == Parse(r, ProcessOf(r, p))
  IN  IF result.status = "unparsed" THEN {"integration.parse.failed"}
      ELSE {"integration.result"}
             \cup {e \in {"integration.attention"} : result.status = "needs_attention"}
             \cup {e \in {"integration.verification.failed"} : Verify(r, result) = "failed"}

-----------------------------------------------------------------------------
\* The inbox: the signals it lists, each an automation, an adoption, an approval,
\* a run or an event with its status.
Signal(of, status) == [of |-> of, status |-> status]

IsItem(s) ==
  CASE s.of = "automation" -> s.status = "needs_attention"
    [] s.of = "adoption" -> s.status \notin {"committed", "rolled_back", "needs_attention"}
    [] s.of = "approval" -> s.status = "pending"
    [] s.of = "run" -> s.status \in {"failed", "timed_out", "interrupted"}
    [] s.of = "event" -> s.status = "integration.attention"

-----------------------------------------------------------------------------
\* The RPC server: the methods that change more than the history of runs.
ChangingMethods ==
  {"automation.create", "automation.delete", "automation.pause", "automation.resume",
   "automation.run", "integration.create", "adoption.apply", "adoption.rollback",
   "source.acknowledge_drift", "approval.request", "approval.approve", "approval.reject",
   "approval.execute", "run.cancel", "automation.scan"}

-----------------------------------------------------------------------------
\* The MCP adapter. A hint is the readOnlyHint, destructiveHint and
\* idempotentHint of a tool.
Hinted(tools, readOnly, destructive, idempotent) ==
  {[tool |-> t, readOnly |-> readOnly, destructive |-> destructive,
    idempotent |-> idempotent] : t \in tools}

OverviewHints ==
  Hinted({"status", "overview", "render_overview", "list_automations",
          "discover_local_automations", "scan_native", "list_integrations"},
         TRUE, FALSE, TRUE)
    \cup Hinted({"schedule_integration"}, FALSE, FALSE, FALSE)

AdoptionHints ==
  Hinted({"list_adoptions", "get_adoption"}, TRUE, FALSE, TRUE)
    \cup Hinted({"adopt_automation", "rollback_adoption"}, FALSE, TRUE, FALSE)
    \cup Hinted({"acknowledge_drift"}, FALSE, FALSE, TRUE)

WritingToolHints ==
  Hinted({"mole", "restic", "rclone", "homebrew", "topgrade"}, FALSE, TRUE, TRUE)
    \cup Hinted({"shortcuts"}, FALSE, TRUE, FALSE)

ReadingToolHints ==
  Hinted({"vibecleaner", "github", "mas", "osv_scanner", "gitleaks", "trivy"},
         TRUE, FALSE, TRUE)

ApprovalHints ==
  Hinted({"list_approvals"}, TRUE, FALSE, TRUE)
    \cup Hinted({"request_approval", "approve"}, FALSE, FALSE, FALSE)
    \cup Hinted({"reject"}, FALSE, FALSE, TRUE)
    \cup Hinted({"execute_approved"}, FALSE, TRUE, FALSE)

AutomationHints ==
  Hinted({"get_automation", "list_runs", "get_run_logs", "list_attention", "list_events"},
         TRUE, FALSE, TRUE)
    \cup Hinted({"create_automation"}, FALSE, FALSE, FALSE)
    \cup Hinted({"delete_automation", "run_automation"}, FALSE, TRUE, FALSE)
    \cup Hinted({"pause_automation", "resume_automation"}, FALSE, FALSE, TRUE)
    \cup Hinted({"cancel_run"}, FALSE, TRUE, TRUE)

Hints ==
  OverviewHints \cup AdoptionHints \cup WritingToolHints \cup ReadingToolHints
    \cup ApprovalHints \cup AutomationHints

McpTools == {h.tool : h \in Hints}

\* The tools of the profile that is served without the right to change.
PublicReadOnlyTools ==
  {"status", "overview", "render_overview", "list_automations",
   "discover_local_automations", "scan_native", "list_integrations", "vibecleaner",
   "list_adoptions", "get_adoption", "github", "mas", "osv_scanner", "gitleaks", "trivy",
   "get_automation", "list_runs", "get_run_logs", "list_attention", "list_events"}

\* call_tool_with_profile: the RPC methods a tool calls.
RegistryCalls ==
  [status |-> {"daemon.status", "automation.discover"},
   list_automations |-> {"automation.list"},
   discover_local_automations |-> {"automation.discover"},
   scan_native |-> {"automation.discover"}, list_integrations |-> {"integration.list"},
   schedule_integration |-> {"integration.create"}, list_adoptions |-> {"adoptions.list"},
   get_adoption |-> {"adoption.inspect"}, adopt_automation |-> {"adoption.apply"},
   rollback_adoption |-> {"adoption.rollback"},
   acknowledge_drift |-> {"source.acknowledge_drift"}]

AutomationCalls ==
  [list_approvals |-> {"approvals.list"}, request_approval |-> {"approval.request"},
   approve |-> {"approval.approve"}, reject |-> {"approval.reject"},
   execute_approved |-> {"approval.execute"}, get_automation |-> {"automation.inspect"},
   create_automation |-> {"automation.create"}, delete_automation |-> {"automation.delete"},
   pause_automation |-> {"automation.pause"}, resume_automation |-> {"automation.resume"},
   run_automation |-> {"automation.run"}, list_runs |-> {"runs.list"},
   get_run_logs |-> {"run.logs"}, cancel_run |-> {"run.cancel"},
   list_attention |-> {"inbox.list"}, list_events |-> {"events.list"}]

OverviewMethods ==
  {"daemon.status", "automation.discover", "automation.list", "runs.list", "inbox.list"}

Calls(tool) ==
  CASE tool \in DOMAIN RegistryCalls -> RegistryCalls[tool]
    [] tool \in DOMAIN AutomationCalls -> AutomationCalls[tool]
    [] tool \in {"overview", "render_overview"} -> OverviewMethods

\* The integration a tool is for.
Integration(tool) == IF tool = "osv_scanner" THEN "osv" ELSE tool

IsIntegration(tool) == Integration(tool) \in Tools

\* taskrail_mole passes on two parameters, and a dry run unless it is told not to.
MoleRequest(c) ==
  [c EXCEPT !.given = {"dry_run", "limit"},
            !.sound = {"limit"} \cup IF "dry_run" \in c.given \ c.sound THEN {} ELSE {"dry_run"}]

\* taskrail_shortcuts passes on the identifier of a run, and nothing else.
ShortcutsRequest(c) ==
  LET kept == IF c.action = "run" THEN {"shortcut_id"} ELSE {}
  IN  [c EXCEPT !.given = @ \cap kept, !.sound = @ \cap kept]

\* The request the daemon is sent for the call of a tool.
Forwarded(c) ==
  CASE c.tool = "mole" -> MoleRequest(c)
    [] c.tool = "shortcuts" -> ShortcutsRequest(c)
    [] OTHER -> [c EXCEPT !.tool = Integration(c.tool)]

\* A run of a Shortcut must be confirmed before anything is sent.
Confirmed(c) == c.tool = "shortcuts" /\ c.action = "run" => c.confirm

\* The actions the daemon answers itself, without a plan.
Answered(c) == c.action \in {"detect", "doctor"}

\* The call may change something, or be held for a grant to do so.
MayChange(c) ==
  IF IsIntegration(c.tool)
  THEN Confirmed(c) /\ ~Answered(c) /\ Held(Forwarded(c))
  ELSE Calls(c.tool) \cap ChangingMethods # {}

\* The tool is offered in the profile.
Offered(tool, profile) == profile = "public" => tool \in PublicReadOnlyTools

\* http_response_for_request_with_profile: what becomes of an HTTP request. The
\* body is a call of a tool, the first message of a session, a notification
\* (which has no id and is dropped), or no JSON-RPC at all.
HttpAnswer(h) ==
  IF h.origin = "foreign" THEN "403"
  ELSE IF h.method = "GET" /\ h.path = "/healthz" THEN "health"
  ELSE IF h.method = "GET" /\ h.path = "/metrics" THEN IF h.bearer THEN "metrics" ELSE "401"
  ELSE IF h.method = "OPTIONS" THEN "204"
  ELSE IF h.path # "/mcp" THEN "404"
  ELSE IF h.method # "POST" THEN "405"
  ELSE IF ~h.bearer THEN "401"
  ELSE IF ~h.json THEN "415"
  ELSE IF ~h.accepts THEN "406"
  ELSE IF h.version = "unknown" \/ h.body = "malformed" THEN "400"
  ELSE IF h.body # "initialize" /\ h.version = "absent" THEN "400"
  ELSE IF h.body = "notification" THEN "202" ELSE h.body

-----------------------------------------------------------------------------
\* The command line: the actions a command can be given, the parameters it always
\* passes on and those it may. A real run of mole and a transfer name dry_run in
\* any case.
Command(tool, actions, always, maybe) ==
  {[tool |-> tool, action |-> a, always |-> always, maybe |-> maybe] : a \in actions}

MoleCommands ==
  Command("mole", {"version", "analyze", "status"}, {}, {})
    \cup Command("mole", {"history"}, {"limit"}, {})
    \cup Command("mole", {"clean"}, {"dry_run"}, {})

VibecleanerCommands == Command("vibecleaner", {"scan"}, {"directories", "min_size_mb"}, {})

ResticCommands ==
  Command("restic", {"snapshots", "check", "forget", "prune"}, {}, {})
    \cup Command("restic", {"backup"}, {"path"}, {"repository_env", "password_env"})

RcloneCommands ==
  Command("rclone", {"list-remotes"}, {}, {})
    \cup Command("rclone", {"check", "copy"}, {"source", "destination"}, {})
    \cup Command("rclone", {"sync"}, {"source", "destination", "dry_run"}, {})

GithubCommands ==
  Command("github", {"issues", "pulls", "failed-runs"}, {"repo"}, {})
    \cup Command("github", {"checks"}, {"repo", "pull_number"}, {})

HomebrewCommands ==
  Command("homebrew", {"outdated"}, {}, {})
    \cup Command("homebrew", {"bundle-check"}, {"file"}, {})
    \cup Command("homebrew", {"upgrade", "cleanup"}, {"dry_run"}, {})

MasCommands == Command("mas", {"list", "outdated"}, {}, {})

ShortcutsCommands == Command("shortcuts", {"run"}, {"shortcut_id"}, {})

ScannerCommands ==
  UNION {Command(t, {"scan"}, {"path"}, Parameters[t] \ {"path"}) : t \in Scanners}

TopgradeCommands == Command("topgrade", {"inspect", "plan", "run"}, {}, {})

Commands ==
  MoleCommands \cup VibecleanerCommands \cup ResticCommands \cup RcloneCommands
    \cup GithubCommands \cup HomebrewCommands \cup MasCommands \cup ShortcutsCommands
    \cup ScannerCommands \cup TopgradeCommands

\* approval_request: the commands that ask for an approval.
ApprovalCommands ==
  Command("mole", {"clean"}, {"dry_run"}, {})
    \cup Command("restic", {"backup"}, {"path"}, {})
    \cup Command("restic", {"forget", "prune"}, {}, {})
    \cup Command("rclone", {"copy"}, {"source", "destination"}, {})
    \cup Command("rclone", {"sync"}, {"source", "destination", "dry_run"}, {})
    \cup Command("homebrew", {"upgrade", "cleanup"}, {"dry_run"}, {})
    \cup Command("shortcuts", {"run"}, {"shortcut_id"}, {})
    \cup Command("topgrade", {"run"}, {}, {})

Typed(r, commands) ==
  \E c \in commands :
    /\ c.tool = r.tool /\ c.action = r.action
    /\ c.always \subseteq r.given /\ r.given \subseteq c.always \cup c.maybe
    /\ Confirmed(r)

-----------------------------------------------------------------------------
\* The fleet. Its tools are those of the hosts, under two other names.
Renamed == [host_overview |-> "overview", discover |-> "discover_local_automations"]

RemoteTool(tool) == IF tool \in DOMAIN Renamed THEN Renamed[tool] ELSE tool

FleetViewHints ==
  Hinted({"host_overview", "status", "discover", "list_automations", "list_integrations",
          "get_automation", "list_runs", "list_attention", "list_events"}, TRUE, FALSE, TRUE)

FleetAdoptionHints ==
  Hinted({"list_adoptions", "get_adoption"}, TRUE, FALSE, TRUE)
    \cup Hinted({"adopt_automation", "rollback_adoption"}, FALSE, TRUE, FALSE)
    \cup Hinted({"acknowledge_drift"}, FALSE, FALSE, TRUE)

FleetToolHints ==
  Hinted({"mole", "restic", "rclone", "homebrew", "topgrade"}, FALSE, TRUE, TRUE)
    \cup Hinted({"shortcuts"}, FALSE, TRUE, FALSE)
    \cup Hinted({"vibecleaner", "github", "mas", "osv_scanner", "gitleaks", "trivy"},
                TRUE, FALSE, TRUE)

FleetControlHints ==
  Hinted({"create_automation", "schedule_integration"}, FALSE, FALSE, FALSE)
    \cup Hinted({"list_approvals", "get_run_logs"}, TRUE, FALSE, TRUE)
    \cup Hinted({"request_approval", "approve"}, FALSE, FALSE, FALSE)
    \cup Hinted({"reject", "pause_automation", "resume_automation"}, FALSE, FALSE, TRUE)
    \cup Hinted({"delete_automation", "execute_approved", "run_automation"},
                FALSE, TRUE, FALSE)
    \cup Hinted({"cancel_run"}, FALSE, TRUE, TRUE)

FleetHints ==
  FleetViewHints \cup FleetAdoptionHints \cup FleetToolHints \cup FleetControlHints

MutatingTools ==
  {"create_automation", "delete_automation", "pause_automation", "resume_automation",
   "run_automation", "cancel_run", "schedule_integration", "adopt_automation",
   "rollback_adoption", "acknowledge_drift", "request_approval", "approve", "reject",
   "execute_approved"}

\* is_mutating_integration_call that takes a missing flag for a dry run, as
\* taskrail_mole does.
IsMutatingUnlessDry(c) ==
  LET real == "dry_run" \in c.given \ c.sound
  IN  \/ c.tool = "restic" /\ c.action \in {"backup", "forget", "prune"}
      \/ c.tool = "rclone" /\ c.action = "copy"
      \/ c.tool \in {"shortcuts", "topgrade"} /\ c.action = "run"
      \/ c.tool = "mole" /\ c.action = "clean" /\ real
      \/ c.tool = "rclone" /\ c.action = "sync" /\ real
      \/ c.tool = "homebrew" /\ c.action \in {"upgrade", "cleanup"} /\ real

\* is_mutating_integration_call
IsMutatingCall(c) ==
  \/ c.tool = "restic" /\ c.action \in {"backup", "forget", "prune"}
  \/ c.tool = "rclone" /\ c.action = "copy"
  \/ c.tool \in {"shortcuts", "topgrade"} /\ c.action = "run"
  \/ c.tool = "mole" /\ c.action = "clean" /\ ~DryRun(c)
  \/ c.tool = "rclone" /\ c.action = "sync" /\ ~DryRun(c)
  \/ c.tool = "homebrew" /\ c.action \in {"upgrade", "cleanup"} /\ ~DryRun(c)

\* FleetGateway::call_tool sends nothing to a host that is read-only.
FleetRefuses(c, allowWrites) ==
  (c.tool \in MutatingTools \/ IsMutatingCall(c)) /\ ~allowWrites

-----------------------------------------------------------------------------
\* The dashboard: what a route of its API calls.
Routes ==
  {[method |-> "GET", calls |-> m] :
     m \in {"daemon.status", "automation.list", "integration.list", "approvals.list",
            "runs.list", "inbox.list", "events.list", "metrics.list",
            "automation.discover", "automation.inspect", "run.logs"}}
  \cup
  {[method |-> "POST", calls |-> m] :
     m \in {"automation.run", "automation.pause", "automation.resume", "run.cancel",
            "approval.approve", "approval.reject"}}

OriginIsAllowed(method, origin) == method # "POST" \/ origin = "own"

Serves(route, origin) == OriginIsAllowed(route.method, origin)
=============================================================================
