------------------------------ MODULE Reconcile ------------------------------
(***************************************************************************)
(* Discovery: scanners compare the native schedulers with the Registry,    *)
(* while persons edit the native entries and operators adopt, acknowledge, *)
(* pause, resume and roll back.  A scan is a snapshot; what it found is     *)
(* written source by source, each in three calls: upsert_source, then a    *)
(* read and a write of the automation's row.                               *)
(* The sources are those Taskrail can schedule, of one provider: the       *)
(* observe-only kinds have no automation.                                  *)
(***************************************************************************)
EXTENDS Naturals

CONSTANTS
  Sources,     \* identities of native entries
  Definitions, \* contents of an entry: the fingerprint, the command
  Opaque,      \* the definitions that invoke a shell or have no command
  Listed,      \* what a unit is without its properties: a line, no command
  WhenOff,     \* what a scan shows of an entry that adoption disabled
  Scanners,    \* processes that scan
  Daemon,      \* the one that makes complete passes; the others scan by command
  Operators,   \* processes that change what is owned, by command or over RPC
  Answers,     \* how the provider may answer: all of it, a list, or nothing
  Patient,     \* no two processes work on the same source at the same time
  Faults,      \* points at which a scanner may fail or die
  MaxMoves,    \* bound of what persons, operators and failures do
  None

ASSUME ReconcileAssumption ==
  /\ Opaque \subseteq Definitions /\ None \notin Definitions
  /\ Listed \notin Definitions \cup {None}
  /\ WhenOff \in [Definitions -> Definitions \cup {None}]
  /\ "all" \in Answers /\ Answers \subseteq {"all", "list", "nothing"}
  /\ Daemon \in Scanners /\ None \notin Sources
  /\ Patient \in BOOLEAN
  /\ MaxMoves \in Nat

VARIABLES
  native,  \* the content of each entry, None when there is none
  off,     \* entries that an adoption disabled
  answers, \* how the provider answers
  known,   \* the table sources: the definition that was stored last
  row,     \* the automation of each source
  journal, \* sources with a transaction in adoption_journal
  moves,   \* how much persons, operators and failures did
  at,      \* where each scanner's call is
  scan,    \* its local variables
  doing    \* each operator's call and its local variables

\* History: what the entries were, in truth, when a scanner looked, which of them
\* an adoption had disabled, whose properties it was refused, and whether the
\* provider was away then and back when the scanner asked for it.
VARIABLE truth

worldVars == <<native, off, answers, journal>>
vars == <<worldVars, known, row, moves, at, scan, doing, truth>>

Row(owner, state, runs, expects) ==
  [owner |-> owner, state |-> state, runs |-> runs, expects |-> expects]
RowType == [owner : {"observed", "adopted"}, state : {"enabled", "paused", "needs_attention"},
            runs : Definitions, expects : Definitions \cup {Listed}]
Entries == Definitions \cup {None}
Contents == Entries \cup {Listed}

\* Without a command that as_observed_automation accepts.
Unrunnable == Opaque \cup {Listed}

TruthType == [entries : [Sources -> Entries], off : SUBSET Sources, listed : SUBSET Sources,
              away : BOOLEAN, back : BOOLEAN]
NoTruth == [entries |-> [s \in Sources |-> None], off |-> {}, listed |-> {},
            away |-> FALSE, back |-> FALSE]
Points == {"idle", "judge", "pick", "read", "write", "sweep", "mark"}

\* found: the snapshot; todo: the sources still to be visited; cur: the one in
\* hand; copy: its row when it was read; complete: the provider was authoritative.
ScanType == [found : [Sources -> Contents], todo : SUBSET Sources, cur : Sources \cup {None},
             copy : RowType \cup {None}, complete : BOOLEAN]
NoScan == [found |-> [s \in Sources |-> None], todo |-> {}, cur |-> None,
           copy |-> None, complete |-> FALSE]

Calls == {"adopt", "acknowledge", "pause", "resume", "rollback"}
CallType == [call : Calls, source : Sources, copy : RowType, known : Contents,
             step : {"first", "stage", "disable", "last"}]

TypeOK ==
  /\ native \in [Sources -> Entries]
  /\ off \subseteq Sources /\ answers \in Answers /\ journal \subseteq Sources
  /\ known \in [Sources -> Contents]
  /\ row \in [Sources -> RowType \cup {None}]
  /\ moves \in 0..MaxMoves
  /\ at \in [Scanners -> Points]
  /\ scan \in [Scanners -> ScanType]
  /\ doing \in [Operators -> CallType \cup {None}]
  /\ truth \in [Scanners -> TruthType]
  /\ \A s \in Sources : row[s] # None => known[s] # None

Init ==
  /\ native \in [Sources -> Entries]
  /\ off = {} /\ answers = "all" /\ journal = {}
  /\ known = [s \in Sources |-> None]
  /\ row = [s \in Sources |-> None]
  /\ moves = 0
  /\ at = [p \in Scanners |-> "idle"]
  /\ scan = [p \in Scanners |-> NoScan]
  /\ doing = [o \in Operators |-> None]
  /\ truth = [p \in Scanners |-> NoTruth]

-----------------------------------------------------------------------------
Goto(p, point) == at' = [at EXCEPT ![p] = point]

EndScan(p) ==
  /\ Goto(p, "idle")
  /\ scan' = [scan EXCEPT ![p] = NoScan]
  /\ truth' = [truth EXCEPT ![p] = NoTruth]

MayMove == moves < MaxMoves
Move == MayMove /\ moves' = moves + 1

Busy(s) ==
  \/ \E p \in Scanners : scan[p].cur = s
  \/ \E o \in Operators : doing[o] # None /\ doing[o].source = s
Free(s) == Patient => ~Busy(s)

\* SaveRow is save_automation: the whole row, computed from a copy.
SaveRow(s, value) == row' = [row EXCEPT ![s] = value]

Marked(r) == [r EXCEPT !.state = "needs_attention"]

-----------------------------------------------------------------------------
(***************************************************************************)
(* Persons and providers.                                                  *)
(***************************************************************************)
Edit(s, content) ==
  /\ Move
  /\ content # native[s]
  /\ native' = [native EXCEPT ![s] = content]
  /\ UNCHANGED <<off, answers, journal, known, row, at, scan, doing, truth>>

\* The provider's commands or its user manager go away, fail for single units,
\* or come back.
Toggle ==
  /\ Move
  /\ answers' \in Answers \ {answers}
  /\ UNCHANGED <<native, off, journal, known, row, at, scan, doing, truth>>

-----------------------------------------------------------------------------
(***************************************************************************)
(* Scanners.                                                               *)
(***************************************************************************)

\* Disabling an entry may change it for a scan: a comment in a crontab is no
\* entry, the properties of a systemd unit tell whether it is enabled and
\* active; an agent's plist stays what it was.
Visible(s) == IF s \in off /\ native[s] # None THEN WhenOff[native[s]] ELSE native[s]

\* A provider that is not there is an empty inventory; a unit whose properties
\* `systemctl show` does not give is taken from the line of the list.
Shown(s, listed) ==
  IF answers = "nothing" \/ Visible(s) = None THEN None
  ELSE IF s \in listed THEN Listed ELSE Visible(s)

\* scan_native_sources: the daemon scans after every interval, a command when a
\* person calls it.
Look(p) ==
  /\ at[p] = "idle"
  /\ \E listed \in SUBSET Sources :
       /\ answers # "list" => listed = {}
       /\ LET found == [s \in Sources |-> Shown(s, listed)]
          IN  scan' = [scan EXCEPT ![p].found = found,
                                   ![p].todo = {s \in Sources : found[s] # None}]
       /\ truth' = [truth EXCEPT ![p] = [entries |-> native, off |-> off, listed |-> listed,
                                         away |-> answers = "nothing", back |-> FALSE]]
  /\ Goto(p, IF p = Daemon THEN "judge" ELSE "pick")
  /\ IF p = Daemon THEN UNCHANGED moves ELSE Move
  /\ UNCHANGED <<worldVars, known, row, doing>>

CompleteRegardless(p) == TRUE

\* executable_available, systemd_user_manager_available: asked after the scan.
Complete(p) == answers # "nothing"

Judge(p) ==
  /\ at[p] = "judge"
  /\ scan' = [scan EXCEPT ![p].complete = Complete(p)]
  /\ truth' = [truth EXCEPT ![p].back = answers # "nothing"]
  /\ Goto(p, "pick")
  /\ UNCHANGED <<worldVars, known, row, moves, doing>>

\* upsert_source.
Store(p, s) ==
  /\ at[p] = "pick"
  /\ s \in scan[p].todo
  /\ Free(s)
  /\ known' = [known EXCEPT ![s] = scan[p].found[s]]
  /\ scan' = [scan EXCEPT ![p].todo = @ \ {s}, ![p].cur = s]
  /\ Goto(p, "read")
  /\ UNCHANGED <<worldVars, row, moves, doing, truth>>

\* get_automation.
Read(p) ==
  /\ at[p] = "read"
  /\ scan' = [scan EXCEPT ![p].copy = row[scan[p].cur]]
  /\ Goto(p, "write")
  /\ UNCHANGED <<worldVars, known, row, moves, doing, truth>>

ReconciledAnew(copy, d) ==
  IF d \in Unrunnable
  THEN IF copy # None /\ copy.owner = "observed" THEN Marked(copy) ELSE copy
  ELSE IF copy # None /\ copy.state = "needs_attention" THEN copy
  ELSE Row("observed", "enabled", d, d)

ReconciledLate(copy, d) ==
  IF d \in Unrunnable
  THEN IF copy # None /\ copy.owner = "observed" THEN Marked(copy) ELSE copy
  ELSE IF copy = None \/ copy.owner = "observed" THEN Row("observed", "enabled", d, d)
  ELSE IF copy.expects # d /\ copy.state = "enabled" THEN Marked(copy)
  ELSE copy

\* reconcile_discovered_source, from the copy of the row and the definition found.
Reconciled(copy, d) ==
  IF d \in Unrunnable
  THEN IF copy # None /\ copy.owner = "observed" THEN Marked(copy) ELSE copy
  ELSE IF copy = None \/ copy.owner = "observed" THEN Row("observed", "enabled", d, d)
  ELSE IF copy.expects # d THEN Marked(copy)
  ELSE copy

\* The early returns that save nothing: RetainedOwned, and the end for a source
\* that has no automation and cannot be run.
Retained(copy, d) ==
  \/ d \in Unrunnable /\ (copy = None \/ copy.owner = "adopted")
  \/ copy # None /\ copy.owner = "adopted" /\ copy.expects = d

Write(p) ==
  /\ at[p] = "write"
  /\ LET copy == scan[p].copy
         d    == scan[p].found[scan[p].cur]
     IN  IF Retained(copy, d) THEN UNCHANGED row ELSE SaveRow(scan[p].cur, Reconciled(copy, d))
  /\ scan' = [scan EXCEPT ![p].cur = None, ![p].copy = None]
  /\ Goto(p, "pick")
  /\ UNCHANGED <<worldVars, known, moves, doing, truth>>

\* list_sources at the beginning of mark_missing_sources; a scan by command, and
\* one that was not complete, end without it.
Sweep(p) ==
  /\ at[p] = "pick" /\ scan[p].todo = {}
  /\ IF scan[p].complete
     THEN /\ scan' = [scan EXCEPT ![p].todo =
                        {s \in Sources : known[s] # None /\ scan[p].found[s] = None}]
          /\ Goto(p, "sweep")
          /\ UNCHANGED truth
     ELSE EndScan(p)
  /\ UNCHANGED <<worldVars, known, row, moves, doing>>

ReadMissing(p, s) ==
  /\ at[p] = "sweep"
  /\ s \in scan[p].todo
  /\ Free(s)
  /\ IF row[s] = None
     THEN /\ scan' = [scan EXCEPT ![p].todo = @ \ {s}]
          /\ UNCHANGED at
     ELSE /\ scan' = [scan EXCEPT ![p].todo = @ \ {s}, ![p].cur = s, ![p].copy = row[s]]
          /\ Goto(p, "mark")
  /\ UNCHANGED <<worldVars, known, row, moves, doing, truth>>

MarkMissing(p) ==
  /\ at[p] = "mark"
  /\ SaveRow(scan[p].cur, Marked(scan[p].copy))
  /\ scan' = [scan EXCEPT ![p].cur = None, ![p].copy = None]
  /\ Goto(p, "sweep")
  /\ UNCHANGED <<worldVars, known, moves, doing, truth>>

EndPass(p) ==
  /\ at[p] = "sweep" /\ scan[p].todo = {}
  /\ EndScan(p)
  /\ UNCHANGED <<worldVars, known, row, moves, doing>>

\* A command or a Registry call fails, or the process dies.
Fail(p) ==
  /\ at[p] \in Faults
  /\ Move
  /\ EndScan(p)
  /\ UNCHANGED <<worldVars, known, row, doing>>

ScanStep(p) ==
  \/ Look(p) \/ Judge(p) \/ Read(p) \/ Write(p) \/ Sweep(p) \/ MarkMissing(p) \/ EndPass(p)
  \/ \E s \in Sources : Store(p, s) \/ ReadMissing(p, s)

-----------------------------------------------------------------------------
(***************************************************************************)
(* Operators.                                                              *)
(***************************************************************************)
Refused(call, r, k) ==
  CASE call = "adopt"       -> r.owner # "observed" \/ r.state = "needs_attention" \/ k \in Unrunnable
    [] call = "acknowledge" -> r.owner # "adopted" \/ r.state # "needs_attention" \/ r.expects = k
    [] call = "pause"       -> r.owner # "adopted" \/ r.state # "enabled"
    [] call = "resume"      -> r.owner # "adopted" \/ r.state # "paused"
    [] call = "rollback"    -> FALSE

\* The call reads the source and its row, and refuses or goes on.
Call(o, call, s) ==
  /\ Move
  /\ doing[o] = None
  /\ Free(s)
  /\ row[s] # None
  /\ call = "rollback" => s \in journal
  /\ ~Refused(call, row[s], known[s])
  /\ doing' = [doing EXCEPT ![o] = [call |-> call, source |-> s, copy |-> row[s],
                 known |-> known[s], step |-> IF call \in {"adopt", "rollback"} THEN "first" ELSE "last"]]
  /\ UNCHANGED <<worldVars, known, row, at, scan, truth>>

Step(o, call, from, to) ==
  /\ doing[o] # None /\ doing[o].call = call /\ doing[o].step = from
  /\ doing' = [doing EXCEPT ![o].step = to]

\* The snapshot of an adoption must show the definition that was stored.
TakeSnapshot(o) ==
  /\ doing[o] # None /\ doing[o].call = "adopt" /\ doing[o].step = "first"
  /\ IF answers = "all" /\ native[doing[o].source] = doing[o].known /\ doing[o].source \notin off
     THEN /\ doing' = [doing EXCEPT ![o].step = "stage"]
          /\ journal' = journal \cup {doing[o].source}
     ELSE doing' = [doing EXCEPT ![o] = None] /\ UNCHANGED journal
  /\ UNCHANGED <<native, off, answers, known, row, moves, at, scan, truth>>

\* The definition is that of the row, the fingerprint that of the source.
Staged(j) == Row("adopted", "paused", j.copy.runs, j.known)

Stage(o) ==
  /\ Step(o, "adopt", "stage", "disable")
  /\ SaveRow(doing[o].source, Staged(doing[o]))
  /\ UNCHANGED <<worldVars, known, moves, at, scan, truth>>

Disable(o) ==
  /\ Step(o, "adopt", "disable", "last")
  /\ off' = off \cup {doing[o].source}
  /\ UNCHANGED <<native, answers, journal, known, row, moves, at, scan, truth>>

Restore(o) ==
  /\ Step(o, "rollback", "first", "last")
  /\ off' = off \ {doing[o].source}
  /\ UNCHANGED <<native, answers, journal, known, row, moves, at, scan, truth>>

\* What each call saves last.
Saved(j) ==
  CASE j.call = "adopt"       -> [Staged(j) EXCEPT !.state = "enabled"]
    [] j.call = "acknowledge" -> [j.copy EXCEPT !.expects = j.known, !.state = "paused"]
    [] j.call = "pause"       -> [j.copy EXCEPT !.state = "paused"]
    [] j.call = "resume"      -> [j.copy EXCEPT !.state = "enabled"]
    [] j.call = "rollback"    -> [j.copy EXCEPT !.owner = "observed", !.state = "needs_attention"]

Save(o) ==
  /\ doing[o] # None /\ doing[o].step = "last"
  /\ SaveRow(doing[o].source, Saved(doing[o]))
  /\ doing' = [doing EXCEPT ![o] = None]
  /\ UNCHANGED <<worldVars, known, moves, at, scan, truth>>

Operate(o) == TakeSnapshot(o) \/ Stage(o) \/ Disable(o) \/ Restore(o) \/ Save(o)

Next ==
  \/ \E s \in Sources, content \in Entries : Edit(s, content)
  \/ Toggle
  \/ \E p \in Scanners : ScanStep(p) \/ Fail(p)
  \/ \E o \in Operators, call \in Calls, s \in Sources : Call(o, call, s)
  \/ \E o \in Operators : Operate(o)

\* The daemon loops, and is started again when it dies; what was called goes on.
Fairness ==
  /\ \A p \in Scanners : WF_vars((p = Daemon \/ at[p] # "idle") /\ ScanStep(p))
  /\ \A o \in Operators : WF_vars(Operate(o))

Spec == Init /\ [][Next]_vars /\ Fairness

-----------------------------------------------------------------------------
(***************************************************************************)
(* Properties.                                                             *)
(***************************************************************************)
Owned(s) == row[s] # None /\ row[s].owner = "adopted"
Attended(s) == row[s] # None /\ row[s].state = "needs_attention"

\* Another process wrote the row of the source that this scanner has in hand.
Overtaken(p, s) == scan[p].cur = s /\ scan[p].copy # row[s]

\* ADR 0014: a scan leaves an owned automation its owner, definition, expected
\* fingerprint and state, and may only mark it as needing attention.  The code keeps
\* it for a scanner that is not overtaken between its read of the row and its write
\* (reconcile_discovered_source).
OnlyStaleCopiesDisown ==
  [][\A p \in Scanners : scan'[p] # scan[p] =>
       \A s \in Sources :
         Owned(s) /\ ~Overtaken(p, s) => row'[s] \in {row[s], Marked(row[s])}]_vars

Alarmed(s) == ~Attended(s) /\ Attended(s)'

\* The entry was not what the automation expects, or cannot be run.
Founded(t, s, r) == t.entries[s] # r.expects \/ t.entries[s] \in Opaque

\* Discovery marks an automation only for an entry that differed in truth; an
\* unavailable provider must never make old observations look deleted
\* (scan_native_snapshot), nor an adoption its own entry.
NoFalseAlarm ==
  [][\A p \in Scanners : scan'[p] # scan[p] =>
       \A s \in Sources : Alarmed(s) => Founded(truth[p], s, row'[s])]_vars

\* What the code keeps of that promise, whatever overlaps, fails or goes away:
\* the only unfounded alarms are for an entry that its own adoption changed or
\* hid, for a unit that systemd listed without its properties, and for a
\* provider that was away for the scan and back when it was asked for.
AlarmsAreExplained ==
  [][\A p \in Scanners : scan'[p] # scan[p] =>
       \A s \in Sources : Alarmed(s) =>
         \/ Founded(truth[p], s, row'[s])
         \/ s \in truth[p].off /\ WhenOff[truth[p].entries[s]] # truth[p].entries[s]
         \/ s \in truth[p].listed
         \/ truth[p].away /\ truth[p].back]_vars

\* The row disagrees with an entry that the provider shows, or does not show.
Outdated(s) ==
  /\ answers = "all" /\ row[s] # None /\ ~Attended(s)
  /\ \/ Visible(s) = None
     \/ ~Owned(s) /\ Visible(s) # row[s].runs
     \/ Owned(s) /\ Visible(s) \notin Opaque /\ Visible(s) # row[s].expects

\* Each change of an entry shows in the end: the row of an observed one follows
\* it, the others are marked.  (An owned entry whose new definition cannot be run
\* is not among them: reconcile_discovered_source retains it without comparing.)
ChangeIsNoticed == \A s \in Sources : Outdated(s) ~> ~Outdated(s)
=============================================================================
