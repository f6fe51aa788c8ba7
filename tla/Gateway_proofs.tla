--------------------------- MODULE Gateway_proofs ---------------------------
(***************************************************************************)
(* What the adapters make of a request and of a process, and what the      *)
(* gates let through, whatever names of actions and of parameters a client *)
(* makes up: the proofs of StatusIsHonest, HeldIsApprovable and GatesAgree.*)
(*                                                                         *)
(* The lists of the code are sets of names here; most lemmas say how two   *)
(* of them relate.                                                         *)
(***************************************************************************)
EXTENDS MCFunctions_proofs

-----------------------------------------------------------------------------
(***************************************************************************)
(* Capabilities: every plan is of an action its adapter lists, at its risk.*)
(***************************************************************************)
\* A capability covers what is planned for the request.
Covers(c, r) ==
  /\ c.action = r.action
  /\ Risk(r) \in {c.risk} \cup IF c.dry /\ IsDryRun(r) THEN {Read} ELSE {}

Listed(r) == \E c \in Capabilities(r.tool) : Covers(c, r)

LEMMA CapableOf ==
  ASSUME NEW A, NEW a \in A, NEW risk, NEW dry
  PROVE  [action |-> a, risk |-> risk, dry |-> dry] \in Capable(A, risk, dry)
BY DEF Capable

LEMMA CoveredBy ==
  ASSUME NEW r, NEW A, r.action \in A, NEW risk, NEW dry,
         Capable(A, risk, dry) \subseteq Capabilities(r.tool),
         Risk(r) = risk \/ (dry /\ IsDryRun(r) /\ Risk(r) = Read)
  PROVE  Listed(r)
<1> DEFINE c == [action |-> r.action, risk |-> risk, dry |-> dry]
<1>1. c \in Capabilities(r.tool)
  BY CapableOf
<1>2. Covers(c, r)
  BY DEF Covers
<1> QED
  BY <1>1, <1>2 DEF Listed

LEMMA MoleIsListed ==
  ASSUME NEW r, r.tool = "mole", Plannable(r)
  PROVE  Listed(r)
<1>1. Capabilities(r.tool) = MoleCapabilities
  BY DEF Capabilities, Scanners
<1>2. CASE r.action \in {"detect", "version", "analyze", "status", "history"}
  <2>1. Capable({"detect", "version", "analyze", "status", "history"}, Read, FALSE) \subseteq Capabilities(r.tool)
    BY <1>1 DEF MoleCapabilities
  <2>2. Risk(r) = Read
    BY <1>2 DEF Risk, Scanners, IsDryRun, MoleRisk, MoleDry, MoleCommand
  <2> QED
    BY <1>2, <2>1, <2>2, CoveredBy
<1>3. CASE r.action \in {"clean"}
  <2>1. Capable({"clean"}, Destructive, TRUE) \subseteq Capabilities(r.tool)
    BY <1>1 DEF MoleCapabilities
  <2>2. Risk(r) = Destructive \/ (IsDryRun(r) /\ Risk(r) = Read)
    BY <1>3 DEF Risk, Scanners, IsDryRun, MoleRisk, MoleDry, MoleCommand
  <2> QED
    BY <1>3, <2>1, <2>2, CoveredBy
<1> QED
  BY <1>2, <1>3 DEF Plannable, Scanners, MoleRisk, MoleDry, MoleCommand

LEMMA HomebrewIsListed ==
  ASSUME NEW r, r.tool = "homebrew", Plannable(r)
  PROVE  Listed(r)
<1>1. Capabilities(r.tool) = HomebrewCapabilities
  BY DEF Capabilities, Scanners
<1>2. CASE r.action \in {"doctor", "outdated", "bundle-check"}
  <2>1. Capable({"doctor", "outdated", "bundle-check"}, Read, FALSE) \subseteq Capabilities(r.tool)
    BY <1>1 DEF HomebrewCapabilities
  <2>2. Risk(r) = Read
    BY <1>2 DEF Risk, Scanners, IsDryRun, HomebrewRisk, HomebrewDry, HomebrewCommand
  <2> QED
    BY <1>2, <2>1, <2>2, CoveredBy
<1>3. CASE r.action \in {"upgrade", "cleanup"}
  <2>1. Capable({"upgrade", "cleanup"}, SystemWrite, TRUE) \subseteq Capabilities(r.tool)
    BY <1>1 DEF HomebrewCapabilities
  <2>2. Risk(r) = SystemWrite \/ (IsDryRun(r) /\ Risk(r) = Read)
    BY <1>3 DEF Risk, Scanners, IsDryRun, HomebrewRisk, HomebrewDry, HomebrewCommand
  <2> QED
    BY <1>3, <2>1, <2>2, CoveredBy
<1> QED
  BY <1>2, <1>3 DEF Plannable, Scanners, HomebrewRisk, HomebrewDry, HomebrewCommand

LEMMA MasIsListed ==
  ASSUME NEW r, r.tool = "mas", Plannable(r)
  PROVE  Listed(r)
<1>1. Capabilities(r.tool) = MasCapabilities
  BY DEF Capabilities, Scanners
<1>2. CASE r.action \in {"doctor", "list", "outdated"}
  <2>1. Capable({"doctor", "list", "outdated"}, Read, FALSE) \subseteq Capabilities(r.tool)
    BY <1>1 DEF MasCapabilities
  <2>2. Risk(r) = Read
    BY <1>2 DEF Risk, Scanners, MasCommand
  <2> QED
    BY <1>2, <2>1, <2>2, CoveredBy
<1> QED
  BY <1>2 DEF Plannable, Scanners, MasCommand

LEMMA RcloneIsListed ==
  ASSUME NEW r, r.tool = "rclone", Plannable(r)
  PROVE  Listed(r)
<1>1. Capabilities(r.tool) = RcloneCapabilities
  BY DEF Capabilities, Scanners
<1>2. CASE r.action \in {"doctor", "list-remotes", "check"}
  <2>1. Capable({"doctor", "list-remotes", "check"}, Read, FALSE) \subseteq Capabilities(r.tool)
    BY <1>1 DEF RcloneCapabilities
  <2>2. Risk(r) = Read
    BY <1>2 DEF Risk, Scanners, IsDryRun, RcloneRisk, RcloneDry, RcloneCommand
  <2> QED
    BY <1>2, <2>1, <2>2, CoveredBy
<1>3. CASE r.action \in {"copy"}
  <2>1. Capable({"copy"}, NetworkWrite, FALSE) \subseteq Capabilities(r.tool)
    BY <1>1 DEF RcloneCapabilities
  <2>2. Risk(r) = NetworkWrite
    BY <1>3 DEF Risk, Scanners, IsDryRun, RcloneRisk, RcloneDry, RcloneCommand
  <2> QED
    BY <1>3, <2>1, <2>2, CoveredBy
<1>4. CASE r.action \in {"sync"}
  <2>1. Capable({"sync"}, Destructive, TRUE) \subseteq Capabilities(r.tool)
    BY <1>1 DEF RcloneCapabilities
  <2>2. Risk(r) = Destructive \/ (IsDryRun(r) /\ Risk(r) = Read)
    BY <1>4 DEF Risk, Scanners, IsDryRun, RcloneRisk, RcloneDry, RcloneCommand
  <2> QED
    BY <1>4, <2>1, <2>2, CoveredBy
<1> QED
  BY <1>2, <1>3, <1>4 DEF Plannable, Scanners, RcloneRisk, RcloneDry, RcloneCommand

LEMMA ResticIsListed ==
  ASSUME NEW r, r.tool = "restic", Plannable(r)
  PROVE  Listed(r)
<1>1. Capabilities(r.tool) = ResticCapabilities
  BY DEF Capabilities, Scanners
<1>2. CASE r.action \in {"doctor", "snapshots", "check"}
  <2>1. Capable({"doctor", "snapshots", "check"}, Read, FALSE) \subseteq Capabilities(r.tool)
    BY <1>1 DEF ResticCapabilities
  <2>2. Risk(r) = Read
    BY <1>2 DEF Risk, Scanners, ResticRisk, ResticCommand
  <2> QED
    BY <1>2, <2>1, <2>2, CoveredBy
<1>3. CASE r.action \in {"backup"}
  <2>1. Capable({"backup"}, NetworkWrite, FALSE) \subseteq Capabilities(r.tool)
    BY <1>1 DEF ResticCapabilities
  <2>2. Risk(r) = NetworkWrite
    BY <1>3 DEF Risk, Scanners, ResticRisk, ResticCommand
  <2> QED
    BY <1>3, <2>1, <2>2, CoveredBy
<1>4. CASE r.action \in {"forget", "prune"}
  <2>1. Capable({"forget", "prune"}, Destructive, FALSE) \subseteq Capabilities(r.tool)
    BY <1>1 DEF ResticCapabilities
  <2>2. Risk(r) = Destructive
    BY <1>4 DEF Risk, Scanners, ResticRisk, ResticCommand
  <2> QED
    BY <1>4, <2>1, <2>2, CoveredBy
<1> QED
  BY <1>2, <1>3, <1>4 DEF Plannable, Scanners, ResticRisk, ResticCommand

LEMMA ShortcutsIsListed ==
  ASSUME NEW r, r.tool = "shortcuts", Plannable(r)
  PROVE  Listed(r)
<1>1. Capabilities(r.tool) = ShortcutsCapabilities
  BY DEF Capabilities, Scanners
<1>2. CASE r.action \in {"doctor"}
  <2>1. Capable({"doctor"}, Read, FALSE) \subseteq Capabilities(r.tool)
    BY <1>1 DEF ShortcutsCapabilities
  <2>2. Risk(r) = Read
    BY <1>2 DEF Risk, Scanners, ShortcutsRisk, ShortcutsCommand
  <2> QED
    BY <1>2, <2>1, <2>2, CoveredBy
<1>3. CASE r.action \in {"run"}
  <2>1. Capable({"run"}, SystemWrite, FALSE) \subseteq Capabilities(r.tool)
    BY <1>1 DEF ShortcutsCapabilities
  <2>2. Risk(r) = SystemWrite
    BY <1>3 DEF Risk, Scanners, ShortcutsRisk, ShortcutsCommand
  <2> QED
    BY <1>3, <2>1, <2>2, CoveredBy
<1> QED
  BY <1>2, <1>3 DEF Plannable, Scanners, ShortcutsRisk, ShortcutsCommand

LEMMA TopgradeIsListed ==
  ASSUME NEW r, r.tool = "topgrade", Plannable(r)
  PROVE  Listed(r)
<1>1. Capabilities(r.tool) = TopgradeCapabilities
  BY DEF Capabilities, Scanners
<1>2. CASE r.action \in {"doctor", "inspect", "plan"}
  <2>1. Capable({"doctor", "inspect", "plan"}, Read, FALSE) \subseteq Capabilities(r.tool)
    BY <1>1 DEF TopgradeCapabilities
  <2>2. Risk(r) = Read
    BY <1>2 DEF Risk, Scanners, TopgradeRisk, TopgradeCommand
  <2> QED
    BY <1>2, <2>1, <2>2, CoveredBy
<1>3. CASE r.action \in {"run"}
  <2>1. Capable({"run"}, SystemWrite, FALSE) \subseteq Capabilities(r.tool)
    BY <1>1 DEF TopgradeCapabilities
  <2>2. Risk(r) = SystemWrite
    BY <1>3 DEF Risk, Scanners, TopgradeRisk, TopgradeCommand
  <2> QED
    BY <1>3, <2>1, <2>2, CoveredBy
<1> QED
  BY <1>2, <1>3 DEF Plannable, Scanners, TopgradeRisk, TopgradeCommand

LEMMA VibecleanerIsListed ==
  ASSUME NEW r, r.tool = "vibecleaner", Plannable(r)
  PROVE  Listed(r)
<1>1. Capabilities(r.tool) = VibecleanerCapabilities
  BY DEF Capabilities, Scanners
<1>2. CASE r.action \in {"scan"}
  <2>1. Capable({"scan"}, Read, FALSE) \subseteq Capabilities(r.tool)
    BY <1>1 DEF VibecleanerCapabilities
  <2>2. Risk(r) = Read
    BY <1>2 DEF Risk, Scanners, VibecleanerCommand
  <2> QED
    BY <1>2, <2>1, <2>2, CoveredBy
<1> QED
  BY <1>2 DEF Plannable, Scanners, VibecleanerCommand

LEMMA GithubIsListed ==
  ASSUME NEW r, r.tool = "github", Plannable(r)
  PROVE  Listed(r)
<1>1. Capabilities(r.tool) = GithubCapabilities
  BY DEF Capabilities, Scanners
<1>2. CASE r.action \in {"doctor", "issues", "pulls", "failed-runs", "checks"}
  <2>1. Capable({"doctor", "issues", "pulls", "failed-runs", "checks"}, Read, FALSE) \subseteq Capabilities(r.tool)
    BY <1>1 DEF GithubCapabilities
  <2>2. Risk(r) = Read
    BY <1>2 DEF Risk, Scanners, GithubCommand, GithubQuery
  <2> QED
    BY <1>2, <2>1, <2>2, CoveredBy
<1> QED
  BY <1>2 DEF Plannable, Scanners, GithubCommand, GithubQuery

LEMMA ScannerIsListed ==
  ASSUME NEW r, r.tool \in Scanners, Plannable(r)
  PROVE  Listed(r)
<1>1. Capable({"doctor", "scan"}, Read, FALSE) \subseteq Capabilities(r.tool)
  BY DEF Capabilities, Scanners, ScannerCapabilities
<1>2. r.action \in {"doctor", "scan"} /\ Risk(r) = Read
  BY DEF Plannable, Scanners, ScannerCommand, Risk
<1> QED
  BY <1>1, <1>2, CoveredBy

LEMMA PlansAreListed ==
  ASSUME NEW r, r.tool \in Tools, Plannable(r)
  PROVE  Listed(r)
<1>1. \/ r.tool \in {"mole", "homebrew", "mas", "rclone", "restic", "shortcuts", "topgrade",
                     "vibecleaner", "github"}
      \/ r.tool \in Scanners
  BY DEF Tools, Parameters, Scanners
<1> QED
  BY <1>1, MoleIsListed, HomebrewIsListed, MasIsListed, RcloneIsListed, ResticIsListed,
     ScannerIsListed, ShortcutsIsListed, TopgradeIsListed, VibecleanerIsListed, GithubIsListed

-----------------------------------------------------------------------------
(***************************************************************************)
(* Approvals.                                                              *)
(***************************************************************************)
\* What needs an approval is what the fleet takes for a change.
LEMMA RiskyIsMutating ==
  ASSUME NEW r, r.tool \in Tools, RequiresApproval(r)
  PROVE  IsMutatingCall(r) /\ r.tool \in RequestTools
BY DEF RequiresApproval, Risk, RequestTools, Tools, Parameters, IsMutatingCall, MoleRisk,
       MoleDry, HomebrewRisk, HomebrewDry, RcloneRisk, RcloneDry, ResticRisk, ShortcutsRisk,
       TopgradeRisk

LEMMA ParametersAgree ==
  ASSUME NEW t \in RequestTools
  PROVE  /\ t \in ExecutionTools /\ t \in DOMAIN ApprovalParameters
         /\ ApprovalParameters[t] = Parameters[t]
BY DEF RequestTools, ExecutionTools, ApprovalParameters, Parameters

LEMMA CommandOfTool ==
  ASSUME NEW tool \in RequestTools, NEW c \in Commands, c.tool = tool
  PROVE  /\ tool = "mole" => c \in MoleCommands
         /\ tool = "homebrew" => c \in HomebrewCommands
         /\ tool = "rclone" => c \in RcloneCommands
         /\ tool = "restic" => c \in ResticCommands
         /\ tool = "shortcuts" => c \in ShortcutsCommands
         /\ tool = "topgrade" => c \in TopgradeCommands
BY DEF RequestTools, Commands, Command, MoleCommands, VibecleanerCommands, ResticCommands,
       RcloneCommands, GithubCommands, HomebrewCommands, MasCommands, ShortcutsCommands,
       ScannerCommands, TopgradeCommands, Scanners

LEMMA TypedApproval ==
  ASSUME NEW r, r.tool \in Tools, Held(r), Typed(r, Commands),
         r.given \cap {"repository_env", "password_env"} = {}
  PROVE  Typed(r, ApprovalCommands)
<1>1. IsMutatingCall(r) /\ r.tool \in RequestTools
  BY RiskyIsMutating DEF Held
<1>2. PICK c \in Commands :
        /\ c.tool = r.tool /\ c.action = r.action
        /\ c.always \subseteq r.given /\ r.given \subseteq c.always \cup c.maybe
        /\ Confirmed(r)
  BY DEF Typed
<1>3. CASE r.tool = "mole"
  <2>1. c \in MoleCommands /\ r.action = "clean"
    BY <1>1, <1>2, <1>3, CommandOfTool DEF IsMutatingCall
  <2>2. c \in ApprovalCommands
    BY <1>2, <2>1 DEF MoleCommands, ApprovalCommands, Command
  <2> QED
    BY <1>2, <2>2 DEF Typed
<1>4. CASE r.tool = "homebrew"
  <2>1. c \in HomebrewCommands /\ r.action \in {"upgrade", "cleanup"}
    BY <1>1, <1>2, <1>4, CommandOfTool DEF IsMutatingCall
  <2>2. c \in ApprovalCommands
    BY <1>2, <2>1 DEF HomebrewCommands, ApprovalCommands, Command
  <2> QED
    BY <1>2, <2>2 DEF Typed
<1>5. CASE r.tool = "rclone"
  <2>1. c \in RcloneCommands /\ r.action \in {"copy", "sync"}
    BY <1>1, <1>2, <1>5, CommandOfTool DEF IsMutatingCall
  <2>2. c \in ApprovalCommands
    BY <1>2, <2>1 DEF RcloneCommands, ApprovalCommands, Command
  <2> QED
    BY <1>2, <2>2 DEF Typed
<1>6. CASE r.tool = "restic"
  <2>1. c \in ResticCommands /\ r.action \in {"backup", "forget", "prune"}
    BY <1>1, <1>2, <1>6, CommandOfTool DEF IsMutatingCall
  <2>2. CASE r.action = "backup"
    <3>1. c.always = {"path"} /\ c.maybe = {"repository_env", "password_env"}
      BY <1>2, <2>1, <2>2 DEF ResticCommands, Command
    <3>2. r.given = {"path"}
      BY <1>2, <3>1
    <3>3. [tool |-> "restic", action |-> "backup", always |-> {"path"}, maybe |-> {}]
            \in ApprovalCommands
      BY DEF ApprovalCommands, Command
    <3> QED
      BY <1>2, <1>6, <2>2, <3>2, <3>3 DEF Typed
  <2>3. CASE r.action # "backup"
    <3>1. c \in ApprovalCommands
      BY <1>2, <2>1, <2>3 DEF ResticCommands, ApprovalCommands, Command
    <3> QED
      BY <1>2, <3>1 DEF Typed
  <2> QED
    BY <2>2, <2>3
<1>7. CASE r.tool = "shortcuts"
  <2>1. c \in ApprovalCommands
    BY <1>1, <1>2, <1>7, CommandOfTool DEF ShortcutsCommands, ApprovalCommands, Command
  <2> QED
    BY <1>2, <2>1 DEF Typed
<1>8. CASE r.tool = "topgrade"
  <2>1. c \in TopgradeCommands /\ r.action = "run"
    BY <1>1, <1>2, <1>8, CommandOfTool DEF IsMutatingCall
  <2>2. c \in ApprovalCommands
    BY <1>2, <2>1 DEF TopgradeCommands, ApprovalCommands, Command
  <2> QED
    BY <1>2, <2>2 DEF Typed
<1> QED
  BY <1>1, <1>3, <1>4, <1>5, <1>6, <1>7, <1>8 DEF RequestTools

LEMMA AlwaysApprovable ==
  ASSUME NEW r, r.tool \in Tools
  PROVE  RequestIsApprovable(r)
<1>1. Held(r) => r.tool \in RequestTools
  BY RiskyIsMutating DEF Held
<1>2. Held(r) /\ r.given \subseteq Parameters[r.tool]
        => Requestable(r) /\ r.tool \in ExecutionTools
  BY <1>1, ParametersAgree DEF Held, Requestable, Sanitizable
<1>3. Requestable(r) => Held(r)
  BY DEF Held, Requestable
<1>4. Schedulable(r) => ~Held(r)
  BY DEF Held, Schedulable
<1>5. Plannable(r) =>
        \E c \in Capabilities(r.tool) :
          /\ c.action = r.action
          /\ Plan(r).risk \in {c.risk} \cup IF c.dry /\ Plan(r).dry THEN {Read} ELSE {}
  <2>1. Plan(r).risk = Risk(r) /\ Plan(r).dry = IsDryRun(r)
    BY DEF Plan
  <2> QED
    BY <2>1, PlansAreListed DEF Listed, Covers
<1> QED
  BY <1>2, <1>3, <1>4, <1>5, TypedApproval DEF RequestIsApprovable

-----------------------------------------------------------------------------
(***************************************************************************)
(* Hints, profiles and the fleet.                                          *)
(***************************************************************************)
\* The tools with each of the hints.
Readers == {"status", "overview", "render_overview", "list_automations",
            "discover_local_automations", "scan_native", "list_integrations",
            "list_adoptions", "get_adoption", "vibecleaner", "github", "mas", "osv_scanner",
            "gitleaks", "trivy", "list_approvals", "get_automation", "list_runs",
            "get_run_logs", "list_attention", "list_events"}
Doers == {"schedule_integration", "request_approval", "approve", "create_automation"}
Breakers == {"adopt_automation", "rollback_adoption", "shortcuts", "execute_approved",
             "delete_automation", "run_automation"}
Setters == {"acknowledge_drift", "reject", "pause_automation", "resume_automation"}
Enders == {"mole", "restic", "rclone", "homebrew", "topgrade", "cancel_run"}

\* Both lists of hints, in whatever groups they are written.
LEMMA HintsOfTools ==
  ASSUME NEW h
  PROVE  h \in Hints <=> \/ h \in Hinted(Readers, TRUE, FALSE, TRUE)
                         \/ h \in Hinted(Doers, FALSE, FALSE, FALSE)
                         \/ h \in Hinted(Breakers, FALSE, TRUE, FALSE)
                         \/ h \in Hinted(Setters, FALSE, FALSE, TRUE)
                         \/ h \in Hinted(Enders, FALSE, TRUE, TRUE)
BY DEF Hints, OverviewHints, AdoptionHints, WritingToolHints, ReadingToolHints, ApprovalHints,
       AutomationHints, Hinted, Readers, Doers, Breakers, Setters, Enders

FleetReaders ==
  {"host_overview", "status", "discover", "list_automations", "list_integrations",
   "get_automation", "list_runs", "list_attention", "list_events", "list_adoptions",
   "get_adoption", "vibecleaner", "github", "mas", "osv_scanner", "gitleaks", "trivy",
   "list_approvals", "get_run_logs"}

LEMMA HintsOfFleet ==
  ASSUME NEW f \in FleetHints
  PROVE  \/ f \in Hinted(FleetReaders, TRUE, FALSE, TRUE)
         \/ f \in Hinted(Doers, FALSE, FALSE, FALSE)
         \/ f \in Hinted(Breakers, FALSE, TRUE, FALSE)
         \/ f \in Hinted(Setters, FALSE, FALSE, TRUE)
         \/ f \in Hinted(Enders, FALSE, TRUE, TRUE)
BY DEF FleetHints, FleetViewHints, FleetAdoptionHints, FleetToolHints, FleetControlHints,
       Hinted, FleetReaders, Doers, Breakers, Setters, Enders

\* The fleet describes every tool as its host does.
LEMMA FleetAgrees ==
  ASSUME NEW f \in FleetHints
  PROVE  [f EXCEPT !.tool = RemoteTool(f.tool)] \in Hints
<1>1. ASSUME NEW T, NEW U, NEW a, NEW b, NEW d,
             f \in Hinted(T, a, b, d), \A t \in T : RemoteTool(t) \in U
      PROVE  [f EXCEPT !.tool = RemoteTool(f.tool)] \in Hinted(U, a, b, d)
  BY <1>1 DEF Hinted
<1>2. \A t \in FleetReaders : RemoteTool(t) \in Readers
  BY DEF FleetReaders, RemoteTool, Renamed, Readers
<1>3. /\ \A t \in Doers : RemoteTool(t) \in Doers
      /\ \A t \in Breakers : RemoteTool(t) \in Breakers
      /\ \A t \in Setters : RemoteTool(t) \in Setters
      /\ \A t \in Enders : RemoteTool(t) \in Enders
  BY DEF Doers, Breakers, Setters, Enders, RemoteTool, Renamed
<1> DEFINE Found == [f EXCEPT !.tool = RemoteTool(f.tool)] \in Hints
<1>4. f \in Hinted(FleetReaders, TRUE, FALSE, TRUE) => Found
  BY <1>1, <1>2, HintsOfTools
<1>5. f \in Hinted(Doers, FALSE, FALSE, FALSE) => Found
  BY <1>1, <1>3, HintsOfTools
<1>6. f \in Hinted(Breakers, FALSE, TRUE, FALSE) => Found
  BY <1>1, <1>3, HintsOfTools
<1>7. f \in Hinted(Setters, FALSE, FALSE, TRUE) => Found
  BY <1>1, <1>3, HintsOfTools
<1>8. f \in Hinted(Enders, FALSE, TRUE, TRUE) => Found
  BY <1>1, <1>3, HintsOfTools
<1> QED
  BY <1>4, <1>5, <1>6, <1>7, <1>8, HintsOfFleet

LEMMA HintsByTool ==
  ASSUME NEW h \in Hints
  PROVE  /\ h.tool \in RequestTools => ~h.readOnly /\ h.destructive
         /\ h.tool \in MutatingTools => ~h.readOnly
<1>1. ASSUME NEW T, NEW a, NEW b, NEW d, h \in Hinted(T, a, b, d)
      PROVE  h.tool \in T /\ h.readOnly = a /\ h.destructive = b
  BY <1>1 DEF Hinted
<1>2. /\ Readers \cap (RequestTools \cup MutatingTools) = {}
      /\ (Doers \cup Setters) \cap RequestTools = {}
  BY DEF Readers, Doers, Setters, RequestTools, MutatingTools
<1> QED
  BY <1>1, <1>2, HintsOfTools

\* A tool that calls a method that changes something is on the list of the fleet.
LEMMA CallsOfTools ==
  ASSUME NEW t \in McpTools, ~IsIntegration(t), Calls(t) \cap ChangingMethods # {}
  PROVE  t \in MutatingTools
<1>1. t \in Readers \cup Doers \cup Breakers \cup Setters \cup Enders
  <2>1. PICK h \in Hints : h.tool = t
    BY DEF McpTools
  <2>2. ASSUME NEW T, NEW a, NEW b, NEW d, h \in Hinted(T, a, b, d)
        PROVE  t \in T
    BY <2>1, <2>2 DEF Hinted
  <2> QED
    BY <2>1, <2>2, HintsOfTools
<1>3. CASE t \in Readers
  <2>1. \/ t \in {"status", "list_automations", "discover_local_automations", "scan_native",
                  "list_integrations", "list_adoptions", "get_adoption"}
        \/ t \in {"list_approvals", "get_automation", "list_runs", "get_run_logs",
                  "list_attention", "list_events"}
        \/ t \in {"overview", "render_overview"}
    BY <1>3 DEF Readers, IsIntegration, Integration, Tools, Parameters
  <2> QED
    BY <2>1 DEF Calls, RegistryCalls, AutomationCalls, OverviewMethods, ChangingMethods
<1>4. CASE t \in Doers \cup Breakers \cup Setters \cup Enders
  BY <1>4 DEF Doers, Breakers, Setters, Enders, IsIntegration, Integration, Tools, Parameters,
              MutatingTools
<1> QED
  BY <1>1, <1>3, <1>4

LEMMA CallsAreTyped ==
  ASSUME NEW c \in ToolCalls
  PROVE  /\ c.tool \in McpTools
         /\ c = [tool |-> c.tool, action |-> c.action, given |-> c.given, sound |-> c.sound,
                 listed |-> c.listed, confirm |-> c.confirm]
<1>1. PICK t \in McpTools :
        c \in IF IsIntegration(t) THEN RequestsOf(t, Integration(t))
               ELSE {[tool |-> t, action |-> "none", given |-> {}, sound |-> {},
                      listed |-> TRUE, confirm |-> TRUE]}
  BY DEF ToolCalls
<1>2. CASE IsIntegration(t)
  <2>1. PICK given :
          \E flags : c \in [tool : {t}, action : Actions(Integration(t)), given : {given},
                           sound : SUBSET given, listed : flags, confirm : flags]
    BY <1>1, <1>2 DEF RequestsOf
  <2> QED
    BY <2>1
<1>3. CASE ~IsIntegration(t)
  BY <1>1, <1>3
<1> QED
  BY <1>2, <1>3

LEMMA ForwardedRequest ==
  ASSUME NEW c \in ToolCalls, IsIntegration(c.tool)
  PROVE  /\ Forwarded(c).tool = Integration(c.tool)
         /\ Forwarded(c).action = c.action
         /\ IF c.tool = "mole" THEN "dry_run" \in c.sound => "dry_run" \in Forwarded(c).sound ELSE
            c.tool # "shortcuts" => Forwarded(c).sound = c.sound
BY CallsAreTyped DEF Forwarded, MoleRequest, ShortcutsRequest, Integration

LEMMA ForwardedIsMutating ==
  ASSUME NEW c \in ToolCalls, IsIntegration(c.tool), Held(Forwarded(c))
  PROVE  IsMutatingCall(c) /\ c.tool \in RequestTools
<1> DEFINE r == Forwarded(c)
<1>1. r.tool = Integration(c.tool) /\ r.action = c.action
  BY ForwardedRequest
<1>2. IsMutatingCall(r) /\ r.tool \in RequestTools
  BY <1>1, RiskyIsMutating DEF Held, IsIntegration
<1>3. c.tool = r.tool
  BY <1>1, <1>2 DEF Integration, RequestTools
<1>4. r.tool \in {"mole", "rclone", "homebrew"} /\ "dry_run" \in c.sound => "dry_run" \in r.sound
  BY <1>3, ForwardedRequest
<1> HIDE DEF r
<1> QED
  BY <1>1, <1>2, <1>3, <1>4 DEF IsMutatingCall, DryRun

LEMMA AlwaysGated ==
  ASSUME NEW c \in ToolCalls
  PROVE  CallIsGated(c)
<1>1. c.tool \in McpTools
  BY CallsAreTyped
<1>2. MayChange(c) => \/ IsIntegration(c.tool) /\ IsMutatingCall(c) /\ c.tool \in RequestTools
                      \/ c.tool \in MutatingTools
  BY <1>1, ForwardedIsMutating, CallsOfTools DEF MayChange
<1>3. MayChange(c) => \A h \in Hints : h.tool = c.tool => ~h.readOnly
  BY <1>2, HintsByTool
<1>4. MayChange(c) => ~Offered(c.tool, "public")
  <2>1. PublicReadOnlyTools \cap (RequestTools \cup MutatingTools) = {}
    BY DEF PublicReadOnlyTools, RequestTools, MutatingTools
  <2> QED
    BY <1>2, <2>1 DEF Offered
<1>5. MayChange(c) => FleetRefuses(c, FALSE)
  BY <1>2 DEF FleetRefuses
<1>6. IsIntegration(c.tool) /\ MayChange(c) => \A h \in Hints : h.tool = c.tool => h.destructive
  BY ForwardedIsMutating, HintsByTool DEF MayChange
<1>7. \A f \in FleetHints : RemoteTool(f.tool) = c.tool => [f EXCEPT !.tool = c.tool] \in Hints
  BY FleetAgrees
<1> QED
  BY <1>3, <1>4, <1>5, <1>6, <1>7 DEF CallIsGated

-----------------------------------------------------------------------------
(***************************************************************************)
(* The inputs.                                                             *)
(***************************************************************************)
LEMMA RequestsHaveTools ==
  ASSUME NEW r \in Requests
  PROVE  r.tool \in Tools
<1>1. PICK t \in Tools : r \in RequestsOf(t, t)
  BY DEF Requests
<1>2. PICK given :
        \E flags : r \in [tool : {t}, action : Actions(t), given : {given},
                         sound : SUBSET given, listed : flags, confirm : flags]
  BY <1>1 DEF RequestsOf
<1> QED
  BY <1>2

LEMMA Approvable ==
  ASSUME Init
  PROVE  HeldIsApprovable
<1>2. \A c \in ToolCalls : IsIntegration(c.tool) => Forwarded(c).tool \in Tools
  BY ForwardedRequest DEF IsIntegration
<1> QED
  BY <1>2, RequestsHaveTools, AlwaysApprovable, InputsByKind DEF HeldIsApprovable

\* What is held for an approval can be granted and executed, also when it came as the
\* call of a tool or could be typed, and what is scheduled is not held later, for any
\* parameters (approval_request, sanitize_approval_action, requires_approval, main.rs).
THEOREM HeldCanBeGranted == Spec => []HeldIsApprovable
BY Approvable, InputStays, PTL

LEMMA Gated ==
  ASSUME Init
  PROVE  GatesAgree
<1>1. input.kind = "call" => CallIsGated(input.request)
  BY AlwaysGated, InputsByKind
<1>2. ASSUME NEW h, HttpAnswer(h) \in {"call", "initialize"}
      PROVE  h.bearer /\ h.version # "unknown"
  BY <1>2 DEF HttpAnswer
<1>3. ASSUME NEW route \in Routes, Serves(route, "none") \/ Serves(route, "foreign")
      PROVE  route.calls \notin ChangingMethods
  BY <1>3 DEF Routes, Serves, OriginIsAllowed, ChangingMethods
<1> QED
  BY <1>1, <1>2, <1>3, InputsByKind DEF GatesAgree

\* Hints, profiles, the fleet, the HTTP server and the dashboard agree on what changes
\* something, for any action and parameters (tool_descriptors, PUBLIC_READ_ONLY_TOOLS,
\* is_mutating_integration_call, http_response_for_request_with_profile, web.rs).
THEOREM GatesAgreeOnCalls == Spec => []GatesAgree
BY Gated, InputStays, PTL

-----------------------------------------------------------------------------
(***************************************************************************)
(* Runs.                                                                   *)
(***************************************************************************)
\* The results of which no success comes.
Poor == {"failed", "unparsed", "needs_attention"}

LEMMA ErrorsAreSeen ==
  ASSUME NEW r, NEW q, Reports(r), ShowsErrors(q.out)
  PROVE  Parse(r, q).status \in Poor
<1> USE DEF Poor, Attention, FailedResult, Unparsed, Result, AttentionIf, ShowsErrors, IsJson
<1>1. CASE q.status # "succeeded"
  BY <1>1 DEF Parse, Reports, Reporting, Scanners
<1>2. CASE q.status = "succeeded" /\ r.tool = "rclone"
  <2>1. r.action \in {"check", "copy", "sync"}
    BY <1>2 DEF Reports, Reporting
  <2> QED
    BY <1>2, <2>1 DEF Parse, ParseOutput, Scanners, RcloneParse, RcloneTransfer
<1>3. CASE q.status = "succeeded" /\ r.tool = "restic"
  <2>1. r.action \in {"backup", "check", "forget", "prune"}
    BY <1>3 DEF Reports, Reporting
  <2> QED
    BY <1>3, <2>1 DEF Parse, ParseOutput, Scanners, ResticParse, ResticOperation
<1>4. CASE q.status = "succeeded" /\ r.tool = "github"
  <2>1. r.action # "doctor"
    BY <1>4 DEF Reports, Reporting
  <2> QED
    BY <1>4, <2>1 DEF Parse, ParseOutput, Scanners, GithubParse
<1> QED
  BY <1>1, <1>2, <1>3, <1>4 DEF Reports, Reporting

LEMMA FailedChecksAreSeen ==
  ASSUME NEW r, NEW q, r.tool \in Tools, Plannable(r), r.action = "checks", q.out = "failed_checks"
  PROVE  Parse(r, q).status \in Poor
<1>1. r.tool = "github"
  BY DEF Tools, Parameters, Scanners, Plannable, MoleCommand, HomebrewCommand, MasCommand,
     RcloneCommand, ResticCommand, ScannerCommand, ShortcutsCommand, TopgradeCommand,
     VibecleanerCommand
<1> QED
  BY <1>1 DEF Poor, Attention, FailedResult, Unparsed, Result, AttentionIf, ShowsErrors, IsJson,
              Parse, ParseOutput, Scanners, GithubParse

LEMMA FindingsAreSeen ==
  ASSUME NEW r, NEW q, r.tool \in Scanners, r.action = "scan", q.out = "findings"
  PROVE  Parse(r, q).status = "needs_attention" /\ Verify(r, Parse(r, q)) = "passed"
<1>1. ScannerFinds(r, q.out) /\ IsJson(q.out)
  BY DEF Scanners, ScannerFinds, OsvFinds, GitleaksFinds, TrivyFinds, IsJson
<1>2. ScannerParse(r, q) = Attention
  BY <1>1 DEF ScannerParse
<1>3. Parse(r, q) = Attention
  BY <1>2 DEF Parse, Scanners
<1> QED
  BY <1>3 DEF Scanners, Verify, PassedUnlessFailed, Attention, Result

LEMMA StatusOfRun ==
  ASSUME NEW r, NEW p
  PROVE  LET status == RunStatus(r, p)
             result == Parse(r, ProcessOf(r, p))
         IN  /\ status \in {"failed", "needs_attention", ProcessOf(r, p).status}
             /\ result.status \in Poor => status \in {"failed", "needs_attention"}
             /\ status = "needs_attention" /\ ProcessOf(r, p).status # "needs_attention"
                  => result.status = "needs_attention"
             /\ result.status = "needs_attention" /\ Verify(r, result) # "failed"
                  => status = "needs_attention"
BY DEF RunStatus, Poor

LEMMA ItemsOfRun ==
  ASSUME NEW r, NEW p, NEW status
  PROVE  (\E s \in {Signal("run", status)} \cup {Signal("event", e) : e \in RunEvents(r, p)} :
            IsItem(s))
         <=> \/ status \in {"failed", "timed_out", "interrupted"}
             \/ Parse(r, ProcessOf(r, p)).status = "needs_attention"
<1>1. IsItem(Signal("run", status)) <=> status \in {"failed", "timed_out", "interrupted"}
  BY DEF IsItem, Signal
<1>2. \A e : IsItem(Signal("event", e)) <=> e = "integration.attention"
  BY DEF IsItem, Signal
<1>3. "integration.attention" \in RunEvents(r, p)
        <=> Parse(r, ProcessOf(r, p)).status = "needs_attention"
  BY DEF RunEvents
<1> QED
  BY <1>1, <1>2, <1>3

LEMMA Honest ==
  ASSUME Init
  PROVE  StatusIsHonest
<1> SUFFICES ASSUME NEW r \in Runnable, NEW p \in Processes,
                    NEW status, status = RunStatus(r, p)
             PROVE  /\ status = "succeeded" =>
                         /\ p.status = "succeeded" \/ PlanOnly(r)
                         /\ ~(Reports(r) /\ ShowsErrors(p.out))
                         /\ ~(r.action = "checks" /\ p.out = "failed_checks")
                    /\ r.tool \in Scanners /\ r.action = "scan" /\ p.out = "findings"
                         => status = "needs_attention"
                    /\ status \notin {"succeeded", "cancelled"}
                         <=> \E s \in {Signal("run", status)}
                                         \cup {Signal("event", e) : e \in RunEvents(r, p)} :
                               IsItem(s)
  BY InputsByKind DEF StatusIsHonest
<1> DEFINE q == ProcessOf(r, p)
           result == Parse(r, q)
<1>1. r.tool \in Tools /\ Plannable(r)
  BY RequestsHaveTools DEF Runnable
<1>2. p.status \in {"succeeded", "failed", "timed_out", "cancelled"}
  BY DEF Processes
<1>3. IF PlanOnly(r) THEN q.status = "succeeded" /\ r.tool = "topgrade" ELSE q = p
  BY DEF ProcessOf, PlanOnly
<1>4. q.status \in {"succeeded", "failed", "timed_out", "cancelled"}
  BY <1>2, <1>3
<1> HIDE DEF q
<1>5. Reports(r) /\ ShowsErrors(p.out) => result.status \in Poor
  BY <1>3, ErrorsAreSeen DEF Reports, Reporting
<1>6. r.action = "checks" /\ p.out = "failed_checks" => result.status \in Poor
  BY <1>1, <1>3, FailedChecksAreSeen DEF PlanOnly, TopgradePlanOnly
<1>7. r.tool \in Scanners /\ r.action = "scan" /\ p.out = "findings"
        => result.status = "needs_attention" /\ Verify(r, result) = "passed"
  BY <1>3, FindingsAreSeen DEF Scanners
<1> HIDE DEF result
<1>8. /\ status \in {"failed", "needs_attention", q.status}
      /\ result.status \in Poor => status \in {"failed", "needs_attention"}
      /\ status = "needs_attention" => result.status = "needs_attention"
      /\ result.status = "needs_attention" /\ Verify(r, result) # "failed"
           => status = "needs_attention"
  BY <1>4, StatusOfRun DEF q, result
<1>9. (\E s \in {Signal("run", status)} \cup {Signal("event", e) : e \in RunEvents(r, p)} :
         IsItem(s))
      <=> status \in {"failed", "timed_out", "interrupted"} \/ result.status = "needs_attention"
  BY ItemsOfRun DEF q, result
<1>10. status = "succeeded" =>
         /\ p.status = "succeeded" \/ PlanOnly(r)
         /\ ~(Reports(r) /\ ShowsErrors(p.out))
         /\ ~(r.action = "checks" /\ p.out = "failed_checks")
  BY <1>3, <1>5, <1>6, <1>8
<1>11. r.tool \in Scanners /\ r.action = "scan" /\ p.out = "findings"
         => status = "needs_attention"
  BY <1>7, <1>8
<1>12. status \notin {"succeeded", "cancelled"}
         <=> status \in {"failed", "timed_out", "interrupted"} \/ result.status = "needs_attention"
  BY <1>4, <1>8 DEF Poor
<1> QED
  BY <1>9, <1>10, <1>11, <1>12

\* No run is recorded as succeeded that was not, findings and failures reach the inbox,
\* and nothing else does (the parsers and verifiers of integrations, execute_integration,
\* the inbox).
THEOREM HistoryIsHonest == Spec => []StatusIsHonest
BY Honest, InputStays, PTL
=============================================================================
