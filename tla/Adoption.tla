------------------------------ MODULE Adoption ------------------------------
(***************************************************************************)
(* Handing a job of a native scheduler over to Taskrail and back: adopt,   *)
(* rollback_after_failure and rollback_adoption, step by step.  Registry,  *)
(* journal and native scheduler are changed in separate calls, each of     *)
(* which may fail, and the process may die between any two.                *)
(***************************************************************************)
EXTENDS FiniteSets

CONSTANTS
  Sources,     \* discovered jobs of native schedulers, distinct in content
  Txs,         \* adoption transactions (UUIDs: each is begun once)
  Operators,   \* processes that adopt and roll back: CLI, RPC handlers
  Crontab,     \* those cron keeps in its one table
  Units,       \* services of systemd; what is left are launchd agents
  Patient,     \* operators never work on the same source at the same time
  Faults,      \* whether commands and calls may fail and processes may die
  None         \* no journal entry, no job

ASSUME AdoptionAssumption ==
  /\ Crontab \subseteq Sources /\ Units \subseteq Sources \ Crontab
  /\ Patient \in BOOLEAN /\ Faults \in BOOLEAN

VARIABLES
  native,  \* the sources the native schedulers run
  row,     \* the automation of each source: ownership and runtime state
  journal, \* adoption_journal
  at,      \* where each operator's call is
  job      \* its local variables

vars == <<native, row, journal, at, job>>

Observed(state) == [owner |-> "observed", state |-> state]
Adopted(state) == [owner |-> "adopted", state |-> state]

TxStates == {"preparing", "native_disabled", "internal_enabled", "committed",
             "rolling_back", "rolled_back", "needs_attention"}
Terminal == {"committed", "rolled_back", "needs_attention"}

EntryType == [source : Sources, before : SUBSET Sources, state : TxStates]
JobType == [tx : Txs, source : Sources, before : SUBSET Sources, failed : BOOLEAN]
Points == {"idle", "snapshot", "begin", "stage", "disable", "note_disabled", "verify",
           "enable", "note_enabled", "prove", "commit",
           "roll_back", "restore", "revert", "close"}

ASSUME NoneIsNoRecord == None \notin EntryType /\ None \notin JobType

TypeOK ==
  /\ native \subseteq Sources
  /\ row \in [Sources -> [owner : {"observed", "adopted"},
                          state : {"enabled", "paused", "needs_attention"}]]
  /\ journal \in [Txs -> EntryType \cup {None}]
  /\ at \in [Operators -> Points]
  /\ job \in [Operators -> JobType \cup {None}]
  /\ \A o \in Operators : at[o] = "idle" <=> job[o] = None

Init ==
  /\ native = Sources
  /\ row = [s \in Sources |-> Observed("enabled")]
  /\ journal = [t \in Txs |-> None]
  /\ at = [o \in Operators |-> "idle"]
  /\ job = [o \in Operators |-> None]

-----------------------------------------------------------------------------
Goto(o, point) == at' = [at EXCEPT ![o] = point]

Finish(o) ==
  /\ Goto(o, "idle")
  /\ job' = [job EXCEPT ![o] = None]

SourceOf(o) == job[o].source

\* save_automation, with the operator's own copy of the row.
SaveRow(o, value) == row' = [row EXCEPT ![SourceOf(o)] = value]

\* update_adoption.
SetState(o, state) == journal' = [journal EXCEPT ![job[o].tx].state = state]

\* A step of the call that saves the row, or writes the journal.
SaveStep(o, from, value, to) ==
  /\ at[o] = from
  /\ SaveRow(o, value)
  /\ Goto(o, to)
  /\ UNCHANGED <<native, journal, job>>

JournalStep(o, from, state, to) ==
  /\ at[o] = from
  /\ SetState(o, state)
  /\ Goto(o, to)
  /\ UNCHANGED <<native, row, job>>

Untouched(s) == Patient => \A o \in Operators : job[o] # None => SourceOf(o) # s

-----------------------------------------------------------------------------
(***************************************************************************)
(* Adoption.                                                               *)
(***************************************************************************)

\* adopt_source reads the row; an owned source, or one that needs attention, is
\* refused.
ChooseSource(o, s, t) ==
  /\ at[o] = "idle"
  /\ Untouched(s)
  /\ row[s].owner = "observed" /\ row[s].state # "needs_attention"
  /\ journal[t] = None /\ \A p \in Operators : job[p] # None => job[p].tx # t
  /\ job' = [job EXCEPT ![o] = [tx |-> t, source |-> s, before |-> {}, failed |-> FALSE]]
  /\ Goto(o, "snapshot")
  /\ UNCHANGED <<native, row, journal>>

\* The controller's snapshot: cron's is the whole table, which must have the
\* entry; systemd's is that the unit is enabled, which it must be; launchd's is
\* whether the agent was loaded.
TakeSnapshot(o) ==
  /\ at[o] = "snapshot"
  /\ SourceOf(o) \in Crontab \cup Units => SourceOf(o) \in native
  /\ job' = [job EXCEPT ![o].before =
               native \cap (IF SourceOf(o) \in Crontab THEN Crontab ELSE {SourceOf(o)})]
  /\ Goto(o, "begin")
  /\ UNCHANGED <<native, row, journal>>

FirstState == "preparing"

BeginAdoption(o) ==
  /\ at[o] = "begin"
  /\ journal' = [journal EXCEPT ![job[o].tx] =
                   [source |-> SourceOf(o), before |-> job[o].before, state |-> FirstState]]
  /\ Goto(o, "stage")
  /\ UNCHANGED <<native, row, job>>

\* The refusal or the dry run: nothing has been written.
Decline(o) ==
  /\ at[o] \in {"snapshot", "begin"}
  /\ Finish(o)
  /\ UNCHANGED <<native, row, journal>>

Stage(o) == SaveStep(o, "stage", Adopted("paused"), "disable")

\* What is run natively after the controller did its work: cron's table is
\* replaced by one computed from the snapshot, launchd and systemd are told of one
\* job. A unit that is enabled or active is run.
WithCrontab(entries) == (native \ Crontab) \cup entries
WhenDisabled(j) ==
  IF j.source \in Crontab THEN WithCrontab(j.before \ {j.source}) ELSE native \ j.before
WhenRestored(j) ==
  IF j.source \in Crontab THEN WithCrontab(j.before) ELSE native \cup j.before

\* A command may fail before or after its effect, and may report a success that
\* has no effect yet (which verify_disabled is there for).
CommandOutcomes(result) ==
  {[done |-> TRUE, native |-> result]} \cup
  (IF Faults THEN [done : BOOLEAN, native : {native, result}] ELSE {})

Disable(o) ==
  /\ at[o] = "disable"
  /\ \E outcome \in CommandOutcomes(WhenDisabled(job[o])) :
       /\ native' = outcome.native
       /\ Goto(o, IF outcome.done THEN "note_disabled" ELSE "roll_back")
  /\ UNCHANGED <<row, journal, job>>

NoteDisabled(o) == JournalStep(o, "note_disabled", "native_disabled", "verify")

VerifiedUnseen(o) == TRUE

Verified(o) == SourceOf(o) \notin native

Verify(o) == at[o] = "verify" /\ Verified(o) /\ Goto(o, "enable") /\ UNCHANGED <<native, row, journal, job>>

\* The journal cannot be written, the check fails or cannot be made.
FailVerification(o) ==
  /\ \/ at[o] = "verify" /\ (~Verified(o) \/ Faults)
     \/ at[o] = "note_disabled" /\ Faults
  /\ Goto(o, "roll_back")
  /\ UNCHANGED <<native, row, journal, job>>

Enable(o) == SaveStep(o, "enable", Adopted("enabled"), "note_enabled")

NoteEnabled(o) == JournalStep(o, "note_enabled", "internal_enabled", "prove")

\* count_owners_for_fingerprint, of a fingerprint that no other source has.
Prove(o) ==
  /\ at[o] = "prove"
  /\ Goto(o, IF row[SourceOf(o)].owner = "adopted" THEN "commit" ELSE "roll_back")
  /\ UNCHANGED <<native, row, journal, job>>

Commit(o) ==
  /\ at[o] = "commit"
  /\ SetState(o, "committed")
  /\ Finish(o)
  /\ UNCHANGED <<native, row>>

-----------------------------------------------------------------------------
(***************************************************************************)
(* Rollback, after a failure or asked for by a person.                     *)
(***************************************************************************)

\* rollback_source takes any entry of the journal, whatever its state, and with
\* it the snapshot that was taken then.
ChooseTx(o, t) ==
  /\ at[o] = "idle"
  /\ journal[t] # None
  /\ Untouched(journal[t].source)
  /\ job' = [job EXCEPT ![o] = [tx |-> t, source |-> journal[t].source,
                                before |-> journal[t].before, failed |-> FALSE]]
  /\ Goto(o, "roll_back")
  /\ UNCHANGED <<native, row, journal>>

RollBack(o) == JournalStep(o, "roll_back", "rolling_back", "restore")

Restore(o) ==
  /\ at[o] = "restore"
  /\ \E outcome \in CommandOutcomes(WhenRestored(job[o])) :
       /\ outcome.done => outcome.native = WhenRestored(job[o])
       /\ native' = outcome.native
       /\ job' = [job EXCEPT ![o].failed = ~outcome.done]
  /\ Goto(o, "revert")
  /\ UNCHANGED <<row, journal>>

Revert(o) == SaveStep(o, "revert", Observed("needs_attention"), "close")

RollbackResultRegardless(j) == "rolled_back"

RollbackResult(j) == IF j.failed THEN "needs_attention" ELSE "rolled_back"

Close(o) ==
  /\ at[o] = "close"
  /\ SetState(o, RollbackResult(job[o]))
  /\ Finish(o)
  /\ UNCHANGED <<native, row>>

-----------------------------------------------------------------------------
\* A Registry call fails (`?`) or the process dies: the call ends where it is.
Abandon(o) ==
  /\ Faults
  /\ at[o] # "idle"
  /\ Finish(o)
  /\ UNCHANGED <<native, row, journal>>

\* A complete scan reaches a source: cron shows only entries that are not
\* commented out, which is a source missing; a unit of another state has another
\* fingerprint, which is drift; an agent's plist stays as it is.
Rescan(s) ==
  /\ \/ /\ s \in Crontab => s \in native
        /\ row[s].owner = "observed"
        /\ row' = [row EXCEPT ![s] = Observed(IF s \in native THEN "enabled" ELSE "paused")]
     \/ /\ s \in Crontab \ native \/ (s \in Units \ native /\ row[s].owner = "adopted")
        /\ row' = [row EXCEPT ![s].state = "needs_attention"]
  /\ UNCHANGED <<native, journal, at, job>>

Operate(o) ==
  \/ TakeSnapshot(o) \/ BeginAdoption(o) \/ Decline(o) \/ Stage(o) \/ Disable(o)
  \/ NoteDisabled(o) \/ Verify(o) \/ FailVerification(o) \/ Enable(o) \/ NoteEnabled(o)
  \/ Prove(o) \/ Commit(o)
  \/ RollBack(o) \/ Restore(o) \/ Revert(o) \/ Close(o)

Next ==
  \/ \E o \in Operators, s \in Sources, t \in Txs : ChooseSource(o, s, t)
  \/ \E o \in Operators, t \in Txs : ChooseTx(o, t)
  \/ \E o \in Operators : Operate(o)
  \/ \E o \in Operators : Abandon(o)
  \/ \E s \in Sources : Rescan(s)

Spec == Init /\ [][Next]_vars

-----------------------------------------------------------------------------
(***************************************************************************)
(* Properties.                                                             *)
(***************************************************************************)

RunsInternally(s) == row[s] = Adopted("enabled")

HasEntry(s, states) ==
  \E t \in Txs : journal[t] # None /\ journal[t].source = s /\ journal[t].state \in states

\* No job is run by both schedulers (ADR 0001), except while the journal says that
\* it is being rolled back: the native scheduler is restored before the row.
SingleOwner ==
  \A s \in native : RunsInternally(s) => HasEntry(s, {"rolling_back"})

Open == (TxStates \ Terminal) \cup {"needs_attention"}

\* The rollback of a transaction whose snapshot shows an agent that was not loaded
\* leaves it so, whatever was adopted or restored since that snapshot was taken.
ReturnedUnloaded(s) ==
  \E t \in Txs :
    /\ journal[t] # None /\ journal[t].source = s
    /\ journal[t].state = "rolled_back" /\ s \notin journal[t].before

\* A job that neither scheduler runs shows: its automation needs attention, or a
\* transaction has not ended, or ended in need of attention; or somebody returned
\* to a snapshot in which it was not run.
NoJobIsLost ==
  \A s \in Sources \ native :
    \/ RunsInternally(s)
    \/ row[s].state = "needs_attention"
    \/ HasEntry(s, Open)
    \/ ReturnedUnloaded(s)

\* At commit time exactly one scheduler owns the job: Taskrail does and the native
\* one does not run it.
CommitIsHandover ==
  [][\A t \in Txs :
       (/\ journal[t] # None /\ journal'[t].state = "committed"
        /\ journal[t].state # "committed")
       => /\ journal[t].source \notin native'
          /\ row'[journal[t].source].owner = "adopted"]_vars

\* A rollback that is recorded as complete has restored what the snapshot says
\* of its source and given up the ownership (ADR 0029).
RollbackIsComplete ==
  [][\A t \in Txs :
       (/\ journal[t] # None /\ journal'[t].state = "rolled_back"
        /\ journal[t].state # "rolled_back")
       => /\ journal[t].before \cap {journal[t].source} \subseteq native'
          /\ row'[journal[t].source].owner = "observed"]_vars
=============================================================================
