------------------------------ MODULE Adapters ------------------------------
(***************************************************************************)
(* The integrations of Taskrail (integrations/*.rs): for a request, the    *)
(* plan an adapter makes of it; for the output of the process, the result  *)
(* it parses and the verdict of its verification.                          *)
(*                                                                         *)
(* A request names the parameters that are given and, among them, those    *)
(* that are sound: a path that is no option, a UUID, a valid variable      *)
(* name, and for dry_run the value true.  An output is what the parser     *)
(* tells apart.                                                            *)
(***************************************************************************)
EXTENDS FiniteSets

\* RiskClass
Read == "read"
NetworkWrite == "network_write"
SystemWrite == "system_write"
Destructive == "destructive"

\* The parameters each adapter looks at.
Parameters ==
  [mole |-> {"dry_run", "limit"}, homebrew |-> {"file", "dry_run"}, mas |-> {},
   rclone |-> {"source", "destination", "dry_run", "config_env"},
   restic |-> {"path", "repository_env", "password_env"},
   osv |-> {"path"}, gitleaks |-> {"path", "baseline"}, trivy |-> {"path", "scan_type"},
   shortcuts |-> {"shortcut_id"}, topgrade |-> {},
   vibecleaner |-> {"directories", "min_size_mb"}, github |-> {"repo", "pull_number"}]

Tools == DOMAIN Parameters

Scanners == {"osv", "gitleaks", "trivy"}

\* "text" is no JSON; "alien" is JSON that holds nothing the parser looks for,
\* such as [0]; "errors" are what collect_error_findings finds, "snapshot" is
\* the identifier of a backup, "unsure" and "unrated" are folders of risk
\* verify and of an unknown risk.
Outputs ==
  {"empty", "text", "alien", "clean", "errors", "warnings", "findings",
   "failed_checks", "unsure", "unrated", "snapshot", "snapshot_errors"}

IsJson(out) == out \notin {"empty", "text"}

ShowsErrors(out) == out \in {"errors", "snapshot_errors"}

\* A required parameter; a parameter that may be left out; the flag dry_run.
Requires(r, names) == names \subseteq r.sound
MayHave(r, names) == names \cap r.given \subseteq r.sound
DryRun(r) == "dry_run" \in r.sound

\* Capability::new(action, risk, supports_dry_run)
Capable(actions, risk, dry) == {[action |-> a, risk |-> risk, dry |-> dry] : a \in actions}

\* What a process, as parsed, comes to.
Result(status, findings) ==
  [status |-> status, findings |-> findings, snapshot |-> FALSE]

Done == Result("succeeded", FALSE)
Attention == Result("needs_attention", TRUE)
FailedResult == Result("failed", FALSE)
Unparsed == Result("unparsed", FALSE)

AttentionIf(found) == IF found THEN Attention ELSE Done

\* The verdict most adapters give: whatever did not fail has passed.
PassedUnlessFailed(result) == IF result.status = "failed" THEN "failed" ELSE "passed"

-----------------------------------------------------------------------------
\* Mole, the cleaner of macOS.
MoleCapabilities ==
  Capable({"detect", "version", "analyze", "status", "history"}, Read, FALSE)
    \cup Capable({"clean"}, Destructive, TRUE)

MoleCommand(r) == r.action \in {"version", "analyze", "status", "history", "clean"}

MoleDry(r) == r.action = "clean" /\ DryRun(r)

MoleRisk(r) == IF r.action = "clean" /\ ~MoleDry(r) THEN Destructive ELSE Read

MoleStructured(out) ==
  IF ~IsJson(out) \/ out = "alien" THEN Unparsed ELSE AttentionIf(out = "warnings")

MoleParse(r, out) ==
  CASE r.action = "version" -> IF out = "empty" THEN Unparsed ELSE Done
    [] r.action = "clean" -> Done
    [] OTHER -> MoleStructured(out)

MoleVerify(r, result) ==
  IF result.status # "failed" /\ r.action = "clean" /\ ~MoleDry(r)
  THEN "not_configured" ELSE PassedUnlessFailed(result)

-----------------------------------------------------------------------------
\* Homebrew.
HomebrewCapabilities ==
  Capable({"doctor", "outdated", "bundle-check"}, Read, FALSE)
    \cup Capable({"upgrade", "cleanup"}, SystemWrite, TRUE)

HomebrewCommand(r) ==
  \/ r.action \in {"doctor", "outdated", "upgrade", "cleanup"}
  \/ r.action = "bundle-check" /\ Requires(r, {"file"})

HomebrewDry(r) == r.action \in {"upgrade", "cleanup"} /\ DryRun(r)

HomebrewRisk(r) ==
  IF r.action \in {"upgrade", "cleanup"} /\ ~HomebrewDry(r) THEN SystemWrite ELSE Read

\* An outdated package is a change, not a finding.
HomebrewOutdated(out) == IF IsJson(out) THEN Done ELSE Unparsed

HomebrewParse(r, out) == IF r.action = "outdated" THEN HomebrewOutdated(out) ELSE Done

HomebrewVerify(r, result) ==
  IF result.status # "failed" /\ r.action \in {"upgrade", "cleanup"} /\ ~HomebrewDry(r)
  THEN "not_configured" ELSE PassedUnlessFailed(result)

-----------------------------------------------------------------------------
\* The command line of the Mac App Store: read-only, no structured output.
MasCapabilities == Capable({"doctor", "list", "outdated"}, Read, FALSE)

MasCommand(r) == r.action \in {"doctor", "list", "outdated"}

MasParse(r, out) == Done

-----------------------------------------------------------------------------
\* rclone.
RcloneCapabilities ==
  Capable({"doctor", "list-remotes", "check"}, Read, FALSE)
    \cup Capable({"copy"}, NetworkWrite, FALSE) \cup Capable({"sync"}, Destructive, TRUE)

RcloneCommand(r) ==
  /\ \/ r.action \in {"doctor", "list-remotes"}
     \/ r.action \in {"check", "copy", "sync"} /\ Requires(r, {"source", "destination"})
  /\ MayHave(r, {"config_env"})

RcloneDry(r) == r.action = "sync" /\ DryRun(r)

RcloneRisk(r) ==
  CASE r.action = "copy" -> NetworkWrite
    [] r.action = "sync" /\ ~RcloneDry(r) -> Destructive
    [] OTHER -> Read

\* No output is a transfer without anything to transfer.
RcloneTransfer(out) ==
  CASE out = "empty" -> Done
    [] out = "text" -> Unparsed
    [] OTHER -> AttentionIf(ShowsErrors(out))

RcloneParse(r, out) ==
  IF r.action \in {"check", "copy", "sync"} THEN RcloneTransfer(out) ELSE Done

RcloneVerify(r, result) ==
  IF result.status # "failed" /\ r.action = "sync"
  THEN IF RcloneDry(r) THEN "passed" ELSE "not_configured"
  ELSE IF result.status = "failed" \/ result.findings THEN "failed" ELSE "passed"

-----------------------------------------------------------------------------
\* restic.
ResticCapabilities ==
  Capable({"doctor", "snapshots", "check"}, Read, FALSE)
    \cup Capable({"backup"}, NetworkWrite, FALSE)
    \cup Capable({"forget", "prune"}, Destructive, FALSE)

ResticCommand(r) ==
  \/ r.action \in {"doctor", "snapshots", "check", "forget", "prune"}
  \/ r.action = "backup" /\ Requires(r, {"path"})

ResticReferences(r) ==
  r.action # "doctor" => MayHave(r, {"repository_env", "password_env"})

ResticRisk(r) ==
  CASE r.action = "backup" -> NetworkWrite
    [] r.action \in {"forget", "prune"} -> Destructive
    [] OTHER -> Read

ResticOperation(out) ==
  [AttentionIf(ShowsErrors(out)) EXCEPT !.snapshot = out \in {"snapshot", "snapshot_errors"}]

ResticParse(r, out) ==
  IF r.action = "doctor" \/ (r.action = "check" /\ out = "empty") THEN Done
  ELSE IF ~IsJson(out) THEN Unparsed
  ELSE IF r.action = "snapshots" THEN Done ELSE ResticOperation(out)

ResticVerify(r, result) ==
  IF result.status # "failed" /\ r.action \in {"forget", "prune"} THEN "not_configured"
  ELSE IF result.status # "failed" /\ r.action = "backup" /\ result.snapshot THEN "passed"
  ELSE IF result.status = "failed" \/ result.findings THEN "failed" ELSE "passed"

-----------------------------------------------------------------------------
\* The scanners OSV-Scanner, Gitleaks and Trivy. They exit with an error when
\* they find something, so findings count whatever became of the process.
ScannerCapabilities == Capable({"doctor", "scan"}, Read, FALSE)

ScannerCommand(r) ==
  \/ r.action = "doctor"
  \/ r.action = "scan" /\ Requires(r, {"path"}) /\ MayHave(r, Parameters[r.tool])

OsvFinds(out) == out = "findings"

\* Every element of the report is a finding, whatever it holds.
GitleaksFinds(out) == IsJson(out) /\ out # "clean"

TrivyFinds(out) == out = "findings"

ScannerFinds(r, out) ==
  CASE r.tool = "osv" -> OsvFinds(out)
    [] r.tool = "gitleaks" -> GitleaksFinds(out)
    [] OTHER -> TrivyFinds(out)

\* parse of a scanner that looks at the process first, as every other adapter.
ScannerParseByExit(r, p) ==
  IF p.status # "succeeded" THEN FailedResult
  ELSE IF r.action = "doctor" THEN Done
  ELSE IF ~IsJson(p.out) THEN Unparsed ELSE AttentionIf(ScannerFinds(r, p.out))

ScannerParse(r, p) ==
  CASE r.action = "doctor" -> IF p.status = "succeeded" THEN Done ELSE FailedResult
    [] r.action = "scan" /\ ~IsJson(p.out) ->
         IF p.status = "succeeded" THEN Unparsed ELSE FailedResult
    [] OTHER -> IF ScannerFinds(r, p.out) THEN Attention
                ELSE IF p.status = "succeeded" THEN Done ELSE FailedResult

-----------------------------------------------------------------------------
\* Apple Shortcuts: a run by its UUID, which a fresh discovery must list.
ShortcutsCapabilities ==
  Capable({"doctor"}, Read, FALSE) \cup Capable({"run"}, SystemWrite, FALSE)

ShortcutsCommand(r) ==
  \/ r.action = "run" /\ r.given = {"shortcut_id"} /\ Requires(r, {"shortcut_id"})
  \/ r.action = "doctor" /\ r.given = {}

ShortcutsRisk(r) == IF r.action = "run" THEN SystemWrite ELSE Read

ShortcutsPreflight(r) == r.action = "run" => r.listed

ShortcutsParse(r, out) == Done

ShortcutsVerify(result) == IF result.status = "succeeded" THEN "passed" ELSE "failed"

-----------------------------------------------------------------------------
\* Topgrade: inspect and plan start no process.
TopgradeCapabilities ==
  Capable({"doctor", "inspect", "plan"}, Read, FALSE) \cup Capable({"run"}, SystemWrite, FALSE)

TopgradeCommand(r) == r.action \in {"doctor", "inspect", "plan", "run"}

TopgradePlanOnly(r) == r.action \in {"inspect", "plan"}

TopgradeRisk(r) == IF r.action = "run" THEN SystemWrite ELSE Read

TopgradeParse(r, p) ==
  IF TopgradePlanOnly(r) \/ p.status = "succeeded" THEN Done ELSE FailedResult

TopgradeVerify(r, result) ==
  IF result.status # "failed" /\ r.action = "run" THEN "not_configured"
  ELSE PassedUnlessFailed(result)

-----------------------------------------------------------------------------
\* VibeCleaner: a scan whose report must be complete; only a folder of unknown
\* risk calls for attention.
VibecleanerCapabilities == Capable({"scan"}, Read, FALSE)

VibecleanerCommand(r) ==
  /\ r.action = "scan"
  /\ r.given \subseteq Parameters["vibecleaner"]
  /\ Requires(r, {"directories"})
  /\ MayHave(r, {"min_size_mb"})

VibecleanerScan(out) ==
  CASE out = "unrated" -> Attention
    [] out = "unsure" -> Result("succeeded", TRUE)
    [] out = "clean" -> Done
    [] OTHER -> Unparsed

VibecleanerParse(r, out) == VibecleanerScan(out)

-----------------------------------------------------------------------------
\* GitHub, through gh.
GithubCapabilities ==
  Capable({"doctor", "issues", "pulls", "failed-runs", "checks"}, Read, FALSE)

GithubQuery(r) ==
  /\ r.action \in {"issues", "pulls", "failed-runs", "checks"}
  /\ Requires(r, {"repo"})
  /\ r.action = "checks" => Requires(r, {"pull_number"})

GithubCommand(r) == r.action = "doctor" \/ GithubQuery(r)

GithubParse(r, out) ==
  IF r.action = "doctor" THEN Done
  ELSE IF ~IsJson(out) THEN Unparsed
  ELSE AttentionIf(ShowsErrors(out) \/ (r.action = "checks" /\ out = "failed_checks"))

-----------------------------------------------------------------------------
\* The adapters together.
Capabilities(tool) ==
  CASE tool = "mole" -> MoleCapabilities
    [] tool = "homebrew" -> HomebrewCapabilities
    [] tool = "mas" -> MasCapabilities
    [] tool = "rclone" -> RcloneCapabilities
    [] tool = "restic" -> ResticCapabilities
    [] tool \in Scanners -> ScannerCapabilities
    [] tool = "shortcuts" -> ShortcutsCapabilities
    [] tool = "topgrade" -> TopgradeCapabilities
    [] tool = "vibecleaner" -> VibecleanerCapabilities
    [] tool = "github" -> GithubCapabilities

\* The adapter can build the command of the request.
Plannable(r) ==
  CASE r.tool = "mole" -> MoleCommand(r)
    [] r.tool = "homebrew" -> HomebrewCommand(r)
    [] r.tool = "mas" -> MasCommand(r)
    [] r.tool = "rclone" -> RcloneCommand(r)
    [] r.tool = "restic" -> ResticCommand(r) /\ ResticReferences(r)
    [] r.tool \in Scanners -> ScannerCommand(r)
    [] r.tool = "shortcuts" -> ShortcutsCommand(r)
    [] r.tool = "topgrade" -> TopgradeCommand(r)
    [] r.tool = "vibecleaner" -> VibecleanerCommand(r)
    [] r.tool = "github" -> GithubCommand(r)

Risk(r) ==
  CASE r.tool = "mole" -> MoleRisk(r)
    [] r.tool = "homebrew" -> HomebrewRisk(r)
    [] r.tool = "rclone" -> RcloneRisk(r)
    [] r.tool = "restic" -> ResticRisk(r)
    [] r.tool = "shortcuts" -> ShortcutsRisk(r)
    [] r.tool = "topgrade" -> TopgradeRisk(r)
    [] OTHER -> Read

IsDryRun(r) ==
  CASE r.tool = "mole" -> MoleDry(r)
    [] r.tool = "homebrew" -> HomebrewDry(r)
    [] r.tool = "rclone" -> RcloneDry(r)
    [] OTHER -> FALSE

Preflight(r) == r.tool = "shortcuts" => ShortcutsPreflight(r)

PlanOnly(r) == r.tool = "topgrade" /\ TopgradePlanOnly(r)

\* The plan of a plannable request; the arguments of its command are those of
\* the parameters the adapter looks at.
Plan(r) ==
  [tool |-> r.tool, action |-> r.action, risk |-> Risk(r), dry |-> IsDryRun(r),
   planOnly |-> PlanOnly(r), arguments |-> r.given \cap Parameters[r.tool]]

\* Most adapters look at the output of a process that ended well, and at no other.
ParseOutput(r, out) ==
  CASE r.tool = "mole" -> MoleParse(r, out)
    [] r.tool = "homebrew" -> HomebrewParse(r, out)
    [] r.tool = "mas" -> MasParse(r, out)
    [] r.tool = "rclone" -> RcloneParse(r, out)
    [] r.tool = "restic" -> ResticParse(r, out)
    [] r.tool = "shortcuts" -> ShortcutsParse(r, out)
    [] r.tool = "vibecleaner" -> VibecleanerParse(r, out)
    [] r.tool = "github" -> GithubParse(r, out)

Parse(r, p) ==
  CASE r.tool \in Scanners -> ScannerParse(r, p)
    [] r.tool = "topgrade" -> TopgradeParse(r, p)
    [] OTHER -> IF p.status = "succeeded" THEN ParseOutput(r, p.out) ELSE FailedResult

Verify(r, result) ==
  CASE r.tool = "mole" -> MoleVerify(r, result)
    [] r.tool = "homebrew" -> HomebrewVerify(r, result)
    [] r.tool = "rclone" -> RcloneVerify(r, result)
    [] r.tool = "restic" -> ResticVerify(r, result)
    [] r.tool = "shortcuts" -> ShortcutsVerify(result)
    [] r.tool = "topgrade" -> TopgradeVerify(r, result)
    [] OTHER -> PassedUnlessFailed(result)
=============================================================================
