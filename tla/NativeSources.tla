---------------------------- MODULE NativeSources ----------------------------
(***************************************************************************)
(* What discovery.rs makes of the entries of native schedulers, and core.rs *)
(* of what was discovered: the command and the trigger of an entry, whether *)
(* it becomes an automation, and which entries a scan reports.             *)
(*                                                                         *)
(* The words of a command are "sh" with its option "-c", a "spaced" one    *)
(* that is quoted because it holds blanks, a "NAME=value" in front of a    *)
(* command, an "operator" of the shell, and plain ones.                    *)
(***************************************************************************)
EXTENDS Integers, SequencesExt

CONSTANT NoCommand

-----------------------------------------------------------------------------
(***************************************************************************)
(* Commands and triggers.                                                  *)
(***************************************************************************)
\* CommandSpec of an argument vector.
Argv(words) ==
  IF words = <<>> THEN NoCommand ELSE [executable |-> Head(words), args |-> Tail(words)]

\* CommandSpec::invokes_shell
InvokesShell(command) ==
  command.executable = "sh" /\ "-c" \in ToSet(command.args)

\* split_whitespace, which does not look at quotes.
Split(words) ==
  FlattenSeq([i \in DOMAIN words |->
    IF words[i] = "spaced" THEN <<"'half", "half'">> ELSE <<words[i]>>])

EveryMinute == "* * * * *"

\* launchd_command that takes the words as they are.
LaunchdCommandUnshifted(e) ==
  CASE e.program # "none" /\ e.words # NoCommand ->
         [executable |-> e.program, args |-> e.words]
    [] e.program = "none" /\ e.words # NoCommand -> Argv(e.words)
    [] OTHER -> NoCommand

\* launchd_command: with a Program the first of ProgramArguments is its name; a
\* Program alone is no command.
LaunchdCommand(e) ==
  CASE e.program # "none" /\ e.words # NoCommand ->
         [executable |-> e.program, args |-> IF e.words = <<>> THEN <<>> ELSE Tail(e.words)]
    [] e.program = "none" /\ e.words # NoCommand -> Argv(e.words)
    [] OTHER -> NoCommand

\* calendar_to_cron: of several intervals in an array, every minute.
LaunchdTrigger(e) ==
  CASE e.start = "interval" -> "interval"
    [] e.start = "calendar" -> "calendar"
    [] e.start = "calendars" -> EveryMinute
    [] OTHER -> "manual"

\* parse_cron_command trims the quotes of the executable.
CronCommand(e) ==
  LET words == Split(e.words)
  IN  IF words = <<>> THEN NoCommand
      ELSE [executable |-> IF Head(words) = "'half" THEN "half" ELSE Head(words),
            args |-> Tail(words)]

\* parse_systemd_command: systemctl shows ExecStart as
\* { path=tool ; argv[]=tool arg ; ... }, of which the path is kept.
SystemdCommand(e) ==
  IF e.timer \/ e.words = <<>> THEN NoCommand ELSE [executable |-> Head(e.words), args |-> <<>>]

\* parse_windows_command looks at quotes.
WindowsCommand(e) == IF e.words = <<"N/A">> THEN NoCommand ELSE Argv(e.words)

\* The lines of a crontab that parse_crontab takes for entries.
Parsed(e) == e.provider = "cron" => e.start = "fields"

CommandOf(e) ==
  CASE e.provider = "launchd" -> LaunchdCommand(e)
    [] e.provider = "cron" -> CronCommand(e)
    [] e.provider = "systemd" -> SystemdCommand(e)
    [] e.provider = "task-scheduler" -> WindowsCommand(e)
    [] OTHER -> NoCommand

TriggerOf(e) ==
  CASE e.provider = "launchd" -> LaunchdTrigger(e)
    [] e.provider = "cron" -> "calendar"
    [] OTHER -> "manual"

\* Application-owned entries and timers of systemd have no automation.
Applications ==
  {"shortcuts", "automator", "keyboard-maestro", "raycast", "alfred", "hazel"}

ObserveOnly(e) == e.provider \in Applications \/ (e.provider = "systemd" /\ e.timer)

\* as_observed_automation
Promoted(e) ==
  /\ Parsed(e) /\ ~ObserveOnly(e)
  /\ CommandOf(e) # NoCommand
  /\ ~InvokesShell(CommandOf(e))

-----------------------------------------------------------------------------
(***************************************************************************)
(* What a scan reports.  The host is a platform and the state of every      *)
(* provider: its program is "absent", it is "down" (the user manager of     *)
(* systemd), a call of it "fails", or it "answers"; and the file that       *)
(* describes the service Homebrew has: a plist that is "linked" into a root *)
(* of launchd or "unlinked", a unit of systemd, or "none" at all.           *)
(***************************************************************************)
Natives == {"launchd", "cron", "systemd", "homebrew"}
Providers == Natives \cup Applications

\* An entry is named by the provider under whose identity it is stored.
Entry(provider, entity) == [provider |-> provider, entity |-> entity]

\* The service of Homebrew as its own description names it (homebrew_source).
BrewEntry(host) ==
  IF host.service \in {"linked", "unlinked"} THEN Entry("launchd", "service")
  ELSE Entry("homebrew", "service")

\* DiscoveryProvider::scan of each provider, when it does not fail.
LaunchdEntries(host) ==
  IF host.platform # "macos" THEN {}
  ELSE {Entry("launchd", "own")}
         \cup {Entry("launchd", "service") : s \in {host.service} \cap {"linked"}}

CronEntries(host) == IF host.cron = "answers" THEN {Entry("cron", "own")} ELSE {}

SystemdEntries(host) ==
  IF host.platform # "linux" \/ host.systemd # "answers" THEN {}
  ELSE {Entry("systemd", "own")}
         \cup {Entry("systemd", "service") : s \in {host.service} \cap {"unit"}}

BrewEntries(host) == IF host.homebrew = "answers" THEN {BrewEntry(host)} ELSE {}

ApplicationEntries(host, provider) ==
  IF host.platform = "macos" /\ host.applications = "answers"
  THEN {Entry(provider, "own")} ELSE {}

\* A provider whose failure ends the scan. That of an application is passed over
\* unless it was asked for by name.
Fails(host, provider) ==
  CASE provider = "launchd" -> host.platform = "macos" /\ host.launchd = "fails"
    [] provider = "cron" -> host.cron = "fails"
    [] provider = "systemd" -> host.platform = "linux" /\ host.systemd = "fails"
    [] provider = "homebrew" -> host.homebrew = "fails"
    [] OTHER -> host.platform = "macos" /\ host.applications = "fails"

\* merge_homebrew_sources: a service that a native provider reports as well is
\* known by the identity it has there.
Unmatched(host, natives) ==
  {b \in BrewEntries(host) : \A n \in natives : n.entity # "service"}

\* A scan for Homebrew asks launchd as well.
ScanFails(host, source) ==
  CASE source = "all" -> \E p \in Natives : Fails(host, p)
    [] source = "homebrew" -> Fails(host, "homebrew") \/ Fails(host, "launchd")
    [] OTHER -> Fails(host, source)

\* scan_native_sources, when it does not fail.
Scan(host, source) ==
  LET natives == LaunchdEntries(host) \cup CronEntries(host) \cup SystemdEntries(host)
      services == {n \in LaunchdEntries(host) : n.entity = "service"}
      related == IF BrewEntries(host) = {} THEN {} ELSE services
  IN  CASE source = "all" ->
             natives \cup Unmatched(host, natives)
               \cup UNION {ApplicationEntries(host, p) : p \in Applications}
        [] source = "launchd" -> LaunchdEntries(host)
        [] source = "cron" -> CronEntries(host)
        [] source = "systemd" -> SystemdEntries(host)
        [] source = "homebrew" -> related \cup Unmatched(host, LaunchdEntries(host))
        [] OTHER -> ApplicationEntries(host, source)

\* scan_native_snapshot that takes what was asked for to have been seen.
CompleteWhenRequested(host, source) == IF source = "all" THEN Natives ELSE {source} \cap Natives

\* scan_native_snapshot: the providers that were queried authoritatively.
CompleteProviders(host, source) ==
  {p \in Natives \cap (IF source = "all" THEN Natives ELSE {source}) :
     CASE p = "launchd" -> host.platform = "macos" /\ host.launchd # "absent"
       [] p = "cron" -> host.cron # "absent"
       [] p = "systemd" -> host.platform = "linux" /\ host.systemd = "answers"
       [] p = "homebrew" -> host.homebrew # "absent"}
=============================================================================
