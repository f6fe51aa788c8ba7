---------------------------- MODULE Adoption_proofs ----------------------------
(***************************************************************************)
(* Theorems about Adoption for any number of sources, transactions and     *)
(* operators, with or without failures and crashes.                        *)
(***************************************************************************)
EXTENDS Adoption, TLAPS

-----------------------------------------------------------------------------
(***************************************************************************)
(* The types.                                                              *)
(***************************************************************************)
LEMMA TypeInit == Init => TypeOK
  BY DEF Init, TypeOK, Observed, Points

LEMMA Outcome ==
  ASSUME NEW result, NEW outcome \in CommandOutcomes(result)
  PROVE  outcome.done \in BOOLEAN /\ outcome.native \in {native, result}
<1>1. CASE outcome = [done |-> TRUE, native |-> result]
  BY <1>1
<1>2. CASE outcome \in [done : BOOLEAN, native : {native, result}]
  BY <1>2
<1> QED
  BY <1>1, <1>2 DEF CommandOutcomes

LEMMA SnapshotsType ==
  ASSUME TypeOK, NEW j \in JobType
  PROVE  WhenDisabled(j) \subseteq Sources /\ WhenRestored(j) \subseteq Sources
  BY DEF TypeOK, JobType, WhenDisabled, WhenRestored, WithCrontab

\* What the calls do to the variables that all of them share.
LEMMA GotoType ==
  ASSUME TypeOK, NEW o \in Operators, NEW point \in Points \ {"idle"},
         at[o] # "idle", Goto(o, point), UNCHANGED job
  PROVE  /\ at' \in [Operators -> Points]
         /\ job' \in [Operators -> JobType \cup {None}]
         /\ \A p \in Operators : at'[p] = "idle" <=> job'[p] = None
  BY DEF TypeOK, Goto

LEMMA FinishType ==
  ASSUME TypeOK, NEW o \in Operators, Finish(o)
  PROVE  /\ at' \in [Operators -> Points]
         /\ job' \in [Operators -> JobType \cup {None}]
         /\ \A p \in Operators : at'[p] = "idle" <=> job'[p] = None
  BY DEF TypeOK, Finish, Goto, Points

LEMMA NewJobType ==
  ASSUME TypeOK, NEW o \in Operators, NEW j \in JobType, NEW point \in Points \ {"idle"},
         job' = [job EXCEPT ![o] = j], Goto(o, point)
  PROVE  /\ at' \in [Operators -> Points]
         /\ job' \in [Operators -> JobType \cup {None}]
         /\ \A p \in Operators : at'[p] = "idle" <=> job'[p] = None
  BY NoneIsNoRecord DEF TypeOK, Goto

LEMMA WorkingType ==
  ASSUME TypeOK, NEW o \in Operators, at[o] # "idle"
  PROVE  /\ job[o] \in JobType
         /\ job[o].tx \in Txs /\ SourceOf(o) \in Sources /\ job[o].before \subseteq Sources
         /\ job[o].failed \in BOOLEAN
  BY DEF TypeOK, JobType, SourceOf

LEMMA SaveRowType ==
  ASSUME TypeOK, NEW o \in Operators, at[o] # "idle",
         NEW owner \in {"observed", "adopted"},
         NEW state \in {"enabled", "paused", "needs_attention"},
         SaveRow(o, [owner |-> owner, state |-> state])
  PROVE  row' \in [Sources -> [owner : {"observed", "adopted"},
                               state : {"enabled", "paused", "needs_attention"}]]
  BY WorkingType DEF TypeOK, SaveRow

LEMMA SetStateType ==
  ASSUME TypeOK, NEW o \in Operators, at[o] # "idle", journal[job[o].tx] # None,
         NEW state \in TxStates, SetState(o, state)
  PROVE  /\ journal' \in [Txs -> EntryType \cup {None}]
         /\ \A t \in Txs : journal[t] # None => journal'[t] # None
<1>1. journal[job[o].tx] \in EntryType
  BY WorkingType DEF TypeOK
<1>2. [journal[job[o].tx] EXCEPT !.state = state] \in EntryType
  BY <1>1 DEF EntryType
<1> QED
  BY <1>2, WorkingType, NoneIsNoRecord DEF TypeOK, SetState

\* A call that is past its snapshot has an entry in the journal.
HasJournaled ==
  \A o \in Operators :
    at[o] \notin {"idle", "snapshot", "begin"} => journal[job[o].tx] # None

TypeInv == TypeOK /\ HasJournaled

LEMMA EntriesStay ==
  ASSUME TypeOK, HasJournaled, [Next]_vars, NEW t \in Txs, journal[t] # None
  PROVE  journal'[t] # None
<1>1. ASSUME NEW o \in Operators, NEW state \in TxStates, at[o] # "idle",
             journal[job[o].tx] # None, SetState(o, state)
      PROVE  journal'[t] # None
  BY <1>1, SetStateType
<1>2. ASSUME NEW o \in Operators, BeginAdoption(o)
      PROVE  journal'[t] # None
  <2> DEFINE e == [source |-> SourceOf(o), before |-> job[o].before, state |-> FirstState]
  <2>1. e \in EntryType
    BY <1>2, WorkingType DEF BeginAdoption, EntryType, FirstState, TxStates
  <2>2. e # None /\ journal' = [journal EXCEPT ![job[o].tx] = e]
    BY <1>2, <2>1, NoneIsNoRecord DEF BeginAdoption
  <2> HIDE DEF e
  <2> QED
    BY <2>2 DEF TypeOK
<1>3. ASSUME NEW o \in Operators,
             NoteDisabled(o) \/ NoteEnabled(o) \/ Commit(o) \/ RollBack(o) \/ Close(o)
      PROVE  journal'[t] # None
  <2>1. /\ at[o] \notin {"idle", "snapshot", "begin"}
        /\ \E state \in TxStates : SetState(o, state)
    BY <1>3 DEF NoteDisabled, NoteEnabled, Commit, RollBack, Close, JournalStep, TxStates,
                RollbackResult
  <2> QED
    BY <1>1, <2>1 DEF HasJournaled
<1>4. CASE UNCHANGED journal
  BY <1>4
<1> QED
  BY <1>2, <1>3, <1>4
     DEF Next, vars, ChooseSource, ChooseTx, Operate, Abandon, Rescan, TakeSnapshot, Decline,
         Stage, Disable, Verify, FailVerification, Enable, Prove, Restore, Revert, SaveStep

LEMMA OperateType ==
  ASSUME TypeInv, NEW o \in Operators, Operate(o)
  PROVE  TypeOK'
<1> USE DEF TypeInv
<1>0. at[o] # "idle" => /\ job[o] \in JobType /\ SourceOf(o) \in Sources
                       /\ job[o].tx \in Txs /\ job[o].before \subseteq Sources
  BY WorkingType
<1>1. ASSUME NEW owner \in {"observed", "adopted"},
             NEW state \in {"enabled", "paused", "needs_attention"},
             NEW from \in Points \ {"idle"}, NEW to \in Points \ {"idle"},
             SaveStep(o, from, [owner |-> owner, state |-> state], to)
      PROVE  TypeOK'
  BY <1>1, SaveRowType, GotoType DEF SaveStep, TypeOK
<1>2. ASSUME NEW state \in TxStates, at[o] \notin {"idle", "snapshot", "begin"},
             SetState(o, state), UNCHANGED <<native, row>>,
             Finish(o) \/ (UNCHANGED job /\ \E to \in Points \ {"idle"} : Goto(o, to))
      PROVE  TypeOK'
  <2>1. journal[job[o].tx] # None
    BY <1>2 DEF HasJournaled
  <2>2. journal' \in [Txs -> EntryType \cup {None}]
    BY <1>2, <2>1, SetStateType
  <2> QED
    BY <1>2, <2>2, GotoType, FinishType DEF TypeOK
<1>3. ASSUME at[o] # "idle", native' \subseteq Sources, UNCHANGED <<row, journal>>,
             \/ Finish(o)
             \/ UNCHANGED job /\ \E to \in Points \ {"idle"} : Goto(o, to)
             \/ \E j \in JobType, to \in Points \ {"idle"} :
                  job' = [job EXCEPT ![o] = j] /\ Goto(o, to)
      PROVE  TypeOK'
  BY <1>3, GotoType, FinishType, NewJobType DEF TypeOK
<1>4. CASE TakeSnapshot(o)
  <2> DEFINE seen == native \cap (IF SourceOf(o) \in Crontab THEN Crontab ELSE {SourceOf(o)})
  <2>1. [job[o] EXCEPT !.before = seen] \in JobType
    BY <1>0, <1>4 DEF TakeSnapshot, JobType, TypeOK
  <2>2. job' = [job EXCEPT ![o] = [job[o] EXCEPT !.before = seen]]
    BY <1>4 DEF TakeSnapshot, TypeOK
  <2> HIDE DEF seen
  <2> QED
    BY <1>3, <1>4, <2>1, <2>2 DEF TakeSnapshot, TypeOK, Points
<1>5. CASE BeginAdoption(o)
  <2>1. [source |-> SourceOf(o), before |-> job[o].before, state |-> FirstState] \in EntryType
    BY <1>0, <1>5 DEF BeginAdoption, EntryType, FirstState, TxStates
  <2>2. journal' \in [Txs -> EntryType \cup {None}]
    BY <1>0, <1>5, <2>1 DEF BeginAdoption, TypeOK
  <2> QED
    BY <1>5, <2>2, GotoType DEF BeginAdoption, TypeOK, Points
<1>6. CASE Decline(o)
  BY <1>3, <1>6 DEF Decline, TypeOK
<1>7. CASE Stage(o) \/ Enable(o) \/ Revert(o)
  BY <1>1, <1>7 DEF Stage, Enable, Revert, Adopted, Observed, Points
<1>8. CASE NoteDisabled(o) \/ NoteEnabled(o) \/ RollBack(o)
  BY <1>2, <1>8 DEF NoteDisabled, NoteEnabled, RollBack, JournalStep, Points, TxStates
<1>9. CASE Commit(o) \/ Close(o)
  BY <1>2, <1>9 DEF Commit, Close, RollbackResult, TxStates
<1>10. CASE Disable(o)
  <2>1. native' \subseteq Sources
    BY <1>0, <1>10, Outcome, SnapshotsType DEF Disable, TypeOK
  <2>2. \E to \in Points \ {"idle"} : Goto(o, to)
    BY <1>10 DEF Disable, Points
  <2> QED
    BY <1>3, <1>10, <2>1, <2>2 DEF Disable
<1>11. CASE Verify(o) \/ FailVerification(o) \/ Prove(o)
  <2>1. at[o] # "idle" /\ UNCHANGED <<native, row, journal, job>>
    BY <1>11 DEF Verify, FailVerification, Prove
  <2>2. \E to \in Points \ {"idle"} : Goto(o, to)
    BY <1>11 DEF Verify, FailVerification, Prove, Points
  <2>3. native' \subseteq Sources
    BY <2>1 DEF TypeOK
  <2> QED
    BY <1>3, <2>1, <2>2, <2>3
<1>12. CASE Restore(o)
  <2>1. PICK outcome \in CommandOutcomes(WhenRestored(job[o])) :
          /\ native' = outcome.native
          /\ job' = [job EXCEPT ![o].failed = ~outcome.done]
    BY <1>12 DEF Restore
  <2> DEFINE j == [job[o] EXCEPT !.failed = ~outcome.done]
  <2>2. at[o] # "idle" /\ Goto(o, "revert") /\ UNCHANGED <<row, journal>>
    BY <1>12 DEF Restore
  <2>3. j \in JobType
    BY <1>0, <2>1, <2>2, Outcome DEF JobType
  <2>4. job' = [job EXCEPT ![o] = j]
    BY <2>1 DEF TypeOK
  <2>5. native' \subseteq Sources
    BY <1>0, <2>1, <2>2, Outcome, SnapshotsType DEF TypeOK
  <2> HIDE DEF j
  <2>6. "revert" \in Points \ {"idle"}
    BY DEF Points
  <2> QED
    BY <1>3, <2>2, <2>3, <2>4, <2>5, <2>6
<1> QED
  BY <1>4, <1>5, <1>6, <1>7, <1>8, <1>9, <1>10, <1>11, <1>12 DEF Operate

\* A call that begins, and what happens beside the calls.
LEMMA OutsideType ==
  ASSUME TypeInv, [Next]_vars, \A o \in Operators : ~Operate(o)
  PROVE  TypeOK'
<1> USE DEF TypeInv
<1>1. ASSUME NEW o \in Operators, NEW s \in Sources, NEW t \in Txs, ChooseSource(o, s, t)
      PROVE  TypeOK'
  <2> DEFINE j == [tx |-> t, source |-> s, before |-> {}, failed |-> FALSE]
  <2>1. j \in JobType /\ job' = [job EXCEPT ![o] = j]
    BY <1>1 DEF ChooseSource, JobType
  <2> HIDE DEF j
  <2> QED
    BY <1>1, <2>1, NewJobType DEF ChooseSource, TypeOK, Points
<1>2. ASSUME NEW o \in Operators, NEW t \in Txs, ChooseTx(o, t)
      PROVE  TypeOK'
  <2> DEFINE j == [tx |-> t, source |-> journal[t].source,
                   before |-> journal[t].before, failed |-> FALSE]
  <2>1. journal[t] \in EntryType
    BY <1>2 DEF ChooseTx, TypeOK
  <2>2. j \in JobType /\ job' = [job EXCEPT ![o] = j]
    BY <1>2, <2>1 DEF ChooseTx, JobType, EntryType
  <2> HIDE DEF j
  <2> QED
    BY <1>2, <2>2, NewJobType DEF ChooseTx, TypeOK, Points
<1>3. ASSUME NEW o \in Operators, Abandon(o)
      PROVE  TypeOK'
  BY <1>3, FinishType DEF Abandon, TypeOK
<1>4. ASSUME NEW s \in Sources, Rescan(s)
      PROVE  TypeOK'
  BY <1>4 DEF Rescan, Observed, TypeOK
<1>5. CASE UNCHANGED vars
  BY <1>5 DEF vars, TypeOK
<1> QED
  BY <1>1, <1>2, <1>3, <1>4, <1>5 DEF Next

\* A step of a call concerns the call's own variables, its transaction's entry and
\* its source's row, and leaves it the transaction and the source it chose.
LEMMA OperateFrame ==
  ASSUME TypeOK, NEW o \in Operators, Operate(o)
  PROVE  /\ at[o] # "idle"
         /\ \A p \in Operators \ {o} : at'[p] = at[p] /\ job'[p] = job[p]
         /\ at'[o] # "idle" => job'[o].tx = job[o].tx /\ job'[o].source = job[o].source
         /\ \A t \in Txs \ {job[o].tx} : journal'[t] = journal[t]
         /\ \A s \in Sources \ {SourceOf(o)} : row'[s] = row[s]
<1>1. CASE TakeSnapshot(o)
  BY <1>1, WorkingType DEF TakeSnapshot, Goto, TypeOK, JobType
<1>2. CASE Restore(o)
  BY <1>2, WorkingType DEF Restore, Goto, TypeOK, JobType
<1>3. CASE BeginAdoption(o)
  BY <1>3 DEF BeginAdoption, Goto, TypeOK
<1>4. CASE Decline(o)
  BY <1>4 DEF Decline, Finish, Goto, TypeOK
<1>5. CASE Commit(o) \/ Close(o)
  BY <1>5 DEF Commit, Close, SetState, Finish, Goto, TypeOK
<1>6. CASE Stage(o) \/ Enable(o) \/ Revert(o)
  BY <1>6 DEF Stage, Enable, Revert, SaveStep, SaveRow, Goto, TypeOK
<1>7. CASE NoteDisabled(o) \/ NoteEnabled(o) \/ RollBack(o)
  BY <1>7 DEF NoteDisabled, NoteEnabled, RollBack, JournalStep, SetState, Goto, TypeOK
<1>8. CASE Disable(o)
  BY <1>8 DEF Disable, Goto, TypeOK
<1>9. CASE Verify(o) \/ FailVerification(o) \/ Prove(o)
  BY <1>9 DEF Verify, FailVerification, Prove, Goto, TypeOK
<1> QED
  BY <1>1, <1>2, <1>3, <1>4, <1>5, <1>6, <1>7, <1>8, <1>9 DEF Operate

LEMMA JournaledStep == TypeInv /\ [Next]_vars => HasJournaled'
<1> SUFFICES ASSUME TypeInv, [Next]_vars, NEW o \in Operators,
                    at'[o] \notin {"idle", "snapshot", "begin"}
             PROVE  journal'[job'[o].tx] # None
  BY DEF HasJournaled
<1> USE DEF TypeInv
<1>1. CASE at[o] \notin {"idle", "snapshot", "begin"} /\ job'[o].tx = job[o].tx
  BY <1>1, EntriesStay, WorkingType DEF HasJournaled
<1>2. CASE \E t \in Txs : ChooseTx(o, t)
  <2>1. PICK t \in Txs : ChooseTx(o, t)
    BY <1>2
  <2>2. job'[o].tx = t /\ journal[t] # None
    BY <2>1 DEF ChooseTx, TypeOK
  <2> QED
    BY <2>2, EntriesStay
<1>3. CASE BeginAdoption(o)
  <2> DEFINE e == [source |-> SourceOf(o), before |-> job[o].before, state |-> FirstState]
  <2>1. e \in EntryType /\ job'[o].tx = job[o].tx /\ job[o].tx \in Txs
    BY <1>3, WorkingType DEF BeginAdoption, EntryType, FirstState, TxStates
  <2>2. e # None /\ journal' = [journal EXCEPT ![job[o].tx] = e]
    BY <1>3, <2>1, NoneIsNoRecord DEF BeginAdoption
  <2> HIDE DEF e
  <2> QED
    BY <2>1, <2>2 DEF TypeOK
<1>4. ASSUME NEW p \in Operators, Operate(p), ~BeginAdoption(o)
      PROVE  at[o] \notin {"idle", "snapshot", "begin"} /\ job'[o].tx = job[o].tx
  <2>1. CASE p # o
    BY <1>4, <2>1, OperateFrame
  <2>2. CASE p = o
    <3>1. job'[o].tx = job[o].tx /\ at[o] # "idle"
      BY <1>4, <2>2, OperateFrame
    <3>2. ~TakeSnapshot(o) /\ ~Decline(o)
      BY DEF TakeSnapshot, Decline, Finish, Goto, TypeOK
    <3>3. at[o] \notin {"snapshot", "begin"}
      BY <1>4, <2>2, <3>2
         DEF Operate, Stage, Disable, NoteDisabled, Verify, FailVerification, Enable,
             NoteEnabled, Prove, Commit, RollBack, Restore, Revert, Close, SaveStep, JournalStep
    <3> QED
      BY <3>1, <3>3
  <2> QED
    BY <2>1, <2>2
<1>5. ASSUME NEW p \in Operators, \A t \in Txs : ~ChooseTx(o, t),
             \/ \E s \in Sources, t \in Txs : ChooseSource(p, s, t)
             \/ \E t \in Txs : ChooseTx(p, t)
             \/ Abandon(p)
      PROVE  at[o] \notin {"idle", "snapshot", "begin"} /\ job'[o].tx = job[o].tx
  BY <1>5 DEF ChooseSource, ChooseTx, Abandon, Goto, Finish, TypeOK
<1>6. CASE UNCHANGED <<at, job>>
  BY <1>1, <1>6
<1> QED
  BY <1>1, <1>2, <1>3, <1>4, <1>5, <1>6 DEF Next, Rescan, vars

\* Every variable keeps its type, and a call past its snapshot has its entry.
THEOREM AdoptionTypeInvariant == Spec => []TypeInv
<1>1. Init => TypeInv
  BY TypeInit DEF TypeInv, HasJournaled, Init
<1>2. TypeInv /\ [Next]_vars => TypeInv'
  BY OperateType, OutsideType, JournaledStep DEF TypeInv
<1> QED
  BY <1>1, <1>2, PTL DEF Spec

-----------------------------------------------------------------------------
(***************************************************************************)
(* Ownership.  Two things are assumed: no two operators work on the same   *)
(* source at a time, and the crontab holds one entry that is adopted; the  *)
(* run Adoption_crontab shows what happens with two, as a snapshot of the  *)
(* table is a snapshot of all of them.  Then each call has its source for  *)
(* itself, and what it last did to the entry, the row and the native       *)
(* scheduler is still so at its next step.                                 *)
(***************************************************************************)
Apart == Patient /\ \A s, t \in Crontab : s = t

Entry(o) == journal[job[o].tx]
Working(o) == at[o] # "idle"

OneAtATime ==
  \A o, p \in Operators : Working(o) /\ Working(p) /\ o # p =>
    SourceOf(o) # SourceOf(p) /\ job[o].tx # job[p].tx

\* A snapshot shows one source, and of the crontab an entry that was there.
Fits(source, before) ==
  before \subseteq {source} /\ (source \in Crontab => before = {source})

SnapshotsFit == \A t \in Txs : journal[t] # None => Fits(journal[t].source, journal[t].before)

HoldsEntry(o) ==
  CASE at[o] = "snapshot" -> Entry(o) = None /\ job[o].before = {}
    [] at[o] = "begin"    -> Entry(o) = None /\ Fits(SourceOf(o), job[o].before)
    [] OTHER -> /\ Entry(o) # None
                /\ Entry(o).source = SourceOf(o) /\ Entry(o).before = job[o].before
                /\ Fits(SourceOf(o), job[o].before)

\* How far the journal is.
HasNoted(o) ==
  /\ at[o] \in {"stage", "disable", "note_disabled"} => Entry(o).state = "preparing"
  /\ at[o] \in {"verify", "enable", "note_enabled"} => Entry(o).state = "native_disabled"
  /\ at[o] \in {"prove", "commit"} => Entry(o).state = "internal_enabled"
  /\ at[o] \in {"restore", "revert", "close"} => Entry(o).state = "rolling_back"

\* How far the row and the native scheduler are.
HasDone(o) ==
  LET s == SourceOf(o)
  IN  /\ at[o] \in {"disable", "note_disabled", "verify", "enable", "note_enabled", "prove",
                    "commit"} => row[s].owner = "adopted"
      /\ at[o] \in {"enable", "note_enabled", "prove", "commit"} => s \notin native
      /\ at[o] \in {"note_enabled", "prove", "commit"} => row[s].state # "paused"
      /\ at[o] \in {"revert", "close"} /\ ~job[o].failed => job[o].before \subseteq native
      /\ at[o] = "close" => row[s].owner = "observed"

Sound(o) == HoldsEntry(o) /\ HasNoted(o) /\ HasDone(o)

\* A stronger form of NoJobIsLost: the row of an observed automation may be
\* rewritten by every scan, so it is not what the job is accounted for by.
Accounted ==
  \A s \in Sources \ native :
    \/ row[s].owner = "adopted" /\ row[s].state # "paused"
    \/ HasEntry(s, Open)
    \/ ReturnedUnloaded(s)

OwnerInv ==
  /\ TypeInv /\ OneAtATime /\ SnapshotsFit
  /\ \A o \in Operators : Working(o) => Sound(o)
  /\ SingleOwner /\ Accounted

\* What a call needs of OwnerInv at its next step.
LEMMA SoundFacts ==
  ASSUME OwnerInv, NEW o \in Operators, Working(o)
  PROVE  /\ job[o].tx \in Txs /\ SourceOf(o) \in Sources /\ job[o].failed \in BOOLEAN
         /\ HoldsEntry(o) /\ HasNoted(o) /\ HasDone(o)
         /\ at[o] # "snapshot" => Fits(SourceOf(o), job[o].before)
         /\ at[o] \notin {"snapshot", "begin"} =>
              /\ Entry(o) \in EntryType /\ Entry(o) # None
              /\ Entry(o).source = SourceOf(o) /\ Entry(o).before = job[o].before
         /\ at[o] \in {"snapshot", "begin"} => Entry(o) = None
<1>1. job[o].tx \in Txs /\ SourceOf(o) \in Sources /\ job[o].failed \in BOOLEAN
  BY WorkingType DEF OwnerInv, TypeInv, Working
<1>2. Sound(o)
  BY DEF OwnerInv
<1>3. Entry(o) \in EntryType \cup {None}
  BY <1>1 DEF OwnerInv, TypeInv, TypeOK, Entry
<1> QED
  BY <1>1, <1>2, <1>3 DEF Sound, HoldsEntry

\* update_adoption changes the state of one entry and nothing else.
LEMMA SetStateEffect ==
  ASSUME OwnerInv, NEW o \in Operators, at[o] \notin {"idle", "snapshot", "begin"},
         NEW state \in TxStates, SetState(o, state)
  PROVE  /\ journal'[job[o].tx] # None /\ journal'[job[o].tx].state = state
         /\ journal'[job[o].tx].source = SourceOf(o)
         /\ journal'[job[o].tx].before = job[o].before
<1>1. Entry(o) \in EntryType /\ Entry(o).source = SourceOf(o) /\ Entry(o).before = job[o].before
  BY SoundFacts DEF Working
<1>2. job[o].tx \in Txs /\ journal \in [Txs -> EntryType \cup {None}]
  BY SoundFacts DEF Working, OwnerInv, TypeInv, TypeOK
<1>3. journal'[job[o].tx] = [Entry(o) EXCEPT !.state = state]
  BY <1>2 DEF SetState, Entry
<1>4. [Entry(o) EXCEPT !.state = state] \in EntryType
  BY <1>1 DEF EntryType
<1> QED
  BY <1>1, <1>3, <1>4, NoneIsNoRecord DEF EntryType

\* begin_adoption adds an entry.
LEMMA BeginEffect ==
  ASSUME OwnerInv, NEW o \in Operators, BeginAdoption(o)
  PROVE  /\ journal'[job[o].tx] # None /\ journal'[job[o].tx].state = "preparing"
         /\ journal'[job[o].tx].source = SourceOf(o)
         /\ journal'[job[o].tx].before = job[o].before
<1> DEFINE e == [source |-> SourceOf(o), before |-> job[o].before, state |-> "preparing"]
<1>1. at[o] # "idle" /\ TypeOK
  BY DEF BeginAdoption, OwnerInv, TypeInv
<1>2. e \in EntryType /\ job[o].tx \in Txs
  BY <1>1, WorkingType DEF EntryType, TxStates
<1>3. journal'[job[o].tx] = e
  BY <1>1, <1>2 DEF BeginAdoption, FirstState, TypeOK
<1>4. e # None
  BY <1>2, NoneIsNoRecord
<1> QED
  BY <1>3, <1>4

\* The commands of the native schedulers concern the call's source alone.
LEMMA CommandEffect ==
  ASSUME Apart, OwnerInv, NEW o \in Operators, at[o] \notin {"idle", "snapshot", "begin"}
  PROVE  /\ WhenDisabled(job[o]) = native \ job[o].before
         /\ WhenRestored(job[o]) = native \cup job[o].before
<1>1. Fits(SourceOf(o), job[o].before)
  BY SoundFacts DEF Working
<1>2. CASE SourceOf(o) \in Crontab
  <2>1. Crontab = {SourceOf(o)} /\ job[o].before = {SourceOf(o)}
    BY <1>1, <1>2 DEF Apart, Fits
  <2> QED
    BY <2>1 DEF WhenDisabled, WhenRestored, WithCrontab, SourceOf
<1>3. CASE SourceOf(o) \notin Crontab
  BY <1>3 DEF WhenDisabled, WhenRestored, SourceOf
<1> QED
  BY <1>2, <1>3

LEMMA NativeFrame ==
  ASSUME Apart, OwnerInv, NEW o \in Operators, Operate(o)
  PROVE  /\ \A s \in Sources \ {SourceOf(o)} : s \in native' <=> s \in native
         /\ Disable(o) => native' \subseteq native
         /\ Restore(o) => native \subseteq native'
         /\ ~Disable(o) /\ ~Restore(o) => native' = native
<1>1. CASE Disable(o)
  <2>1. at[o] = "disable"
    BY <1>1 DEF Disable
  <2>2. native' \in {native, native \ job[o].before} /\ job[o].before \subseteq {SourceOf(o)}
    BY <1>1, <2>1, Outcome, CommandEffect, SoundFacts DEF Disable, Fits, Working
  <2>3. ~Restore(o)
    BY <2>1 DEF Restore
  <2> QED
    BY <1>1, <2>2, <2>3
<1>2. CASE Restore(o)
  <2>1. at[o] = "restore"
    BY <1>2 DEF Restore
  <2>2. native' \in {native, native \cup job[o].before} /\ job[o].before \subseteq {SourceOf(o)}
    BY <1>2, <2>1, Outcome, CommandEffect, SoundFacts DEF Restore, Fits, Working
  <2>3. ~Disable(o)
    BY <2>1 DEF Disable
  <2> QED
    BY <1>2, <2>2, <2>3
<1>3. CASE ~Disable(o) /\ ~Restore(o)
  BY <1>3 DEF Operate, TakeSnapshot, BeginAdoption, Decline, Stage, NoteDisabled, Verify,
              FailVerification, Enable, NoteEnabled, Prove, Commit, RollBack, Revert, Close,
              SaveStep, JournalStep
<1> QED
  BY <1>1, <1>2, <1>3

\* Whoever else is at work is not disturbed.
LEMMA OthersStaySound ==
  ASSUME Apart, OwnerInv, NEW o \in Operators, Operate(o),
         NEW p \in Operators \ {o}, Working(p)
  PROVE  Sound(p)'
<1>1. /\ at'[p] = at[p] /\ job'[p] = job[p] /\ Working(o)
  BY OperateFrame DEF OwnerInv, TypeInv, Working
<1>2. SourceOf(p) # SourceOf(o) /\ job[p].tx # job[o].tx
  BY <1>1 DEF OwnerInv, OneAtATime
<1>3. job[p].tx \in Txs /\ SourceOf(p) \in Sources
  BY SoundFacts
<1>4. /\ journal'[job[p].tx] = journal[job[p].tx] /\ row'[SourceOf(p)] = row[SourceOf(p)]
      /\ SourceOf(p) \in native' <=> SourceOf(p) \in native
  BY <1>2, <1>3, OperateFrame, NativeFrame DEF OwnerInv, TypeInv
<1>5. HoldsEntry(p) /\ HasNoted(p) /\ HasDone(p)
  BY SoundFacts
<1>6. at[p] \in {"revert", "close"} => job[p].before \subseteq {SourceOf(p)}
  BY SoundFacts DEF Fits
<1>7. SourceOf(p)' = SourceOf(p) /\ Entry(p)' = Entry(p)
  BY <1>1, <1>4 DEF SourceOf, Entry
<1>8. HoldsEntry(p)' /\ HasNoted(p)'
  BY <1>1, <1>5, <1>7 DEF HoldsEntry, HasNoted
<1>9. HasDone(p)'
  BY <1>1, <1>4, <1>5, <1>6, <1>7 DEF HasDone
<1> QED
  BY <1>8, <1>9 DEF Sound

\* The call's next step finds what this one did.
LEMMA OwnStaysSound ==
  ASSUME Apart, OwnerInv, NEW o \in Operators, Operate(o), Working(o)'
  PROVE  Sound(o)'
<1> DEFINE s == SourceOf(o)
<1>0. TypeOK /\ Working(o)
  BY OperateFrame DEF OwnerInv, TypeInv, Working
<1>1. /\ s \in Sources /\ job[o].tx \in Txs
      /\ SourceOf(o)' = s /\ job'[o].tx = job[o].tx
  BY <1>0, SoundFacts, OperateFrame DEF Working, SourceOf
<1>2. HoldsEntry(o) /\ HasNoted(o) /\ HasDone(o)
  BY <1>0, SoundFacts
<1>3. CASE TakeSnapshot(o)
  <2>1. /\ at[o] = "snapshot" /\ at'[o] = "begin" /\ Entry(o)' = None
        /\ job'[o].before = native \cap (IF s \in Crontab THEN Crontab ELSE {s})
        /\ s \in Crontab => s \in native
    BY <1>0, <1>1, <1>2, <1>3, WorkingType
       DEF TakeSnapshot, Goto, TypeOK, JobType, HoldsEntry, Entry, Working
  <2>2. Fits(s, job'[o].before)
    BY <2>1 DEF Fits, Apart
  <2> QED
    BY <1>1, <2>1, <2>2 DEF Sound, HoldsEntry, HasNoted, HasDone
<1>4. CASE BeginAdoption(o)
  <2>1. at[o] = "begin" /\ at'[o] = "stage" /\ UNCHANGED job
    BY <1>0, <1>4 DEF BeginAdoption, Goto, TypeOK
  <2>2. /\ Entry(o)' # None /\ Entry(o)'.state = "preparing"
        /\ Entry(o)'.source = s /\ Entry(o)'.before = job[o].before
    BY <1>4, <2>1, BeginEffect DEF Entry
  <2>3. Fits(s, job[o].before)
    BY <1>2, <2>1 DEF HoldsEntry
  <2> QED
    BY <1>1, <2>1, <2>2, <2>3 DEF Sound, HoldsEntry, HasNoted, HasDone
<1>5. ASSUME NEW state \in TxStates, at[o] \notin {"idle", "snapshot", "begin"},
             SetState(o, state), UNCHANGED <<native, row, job>>,
             at'[o] \notin {"idle", "snapshot", "begin"}
      PROVE  HoldsEntry(o)' /\ Entry(o)'.state = state
  <2>1. /\ Entry(o)' # None /\ Entry(o)'.state = state
        /\ Entry(o)'.source = s /\ Entry(o)'.before = job[o].before
    BY <1>5, SetStateEffect DEF Entry
  <2>2. Fits(s, job[o].before)
    BY <1>0, <1>5, SoundFacts
  <2> QED
    BY <1>1, <1>5, <2>1, <2>2 DEF HoldsEntry
<1>6. ASSUME at[o] \notin {"idle", "snapshot", "begin"}, journal' = journal,
             job'[o].before = job[o].before, at'[o] \notin {"idle", "snapshot", "begin"}
      PROVE  HoldsEntry(o)' /\ Entry(o)' = Entry(o)
  <2>1. Entry(o)' = Entry(o)
    BY <1>1, <1>6 DEF Entry
  <2> QED
    BY <1>1, <1>2, <1>6, <2>1 DEF HoldsEntry
<1>7. ASSUME NEW value, SaveRow(o, value)
      PROVE  row'[s] = value
  BY <1>0, <1>1, <1>7 DEF SaveRow, TypeOK
<1>8. CASE Stage(o) \/ Enable(o) \/ Revert(o)
  <2>1. HoldsEntry(o)' /\ Entry(o)' = Entry(o) /\ UNCHANGED <<native, job>>
    BY <1>0, <1>6, <1>8 DEF Stage, Enable, Revert, SaveStep, Goto, TypeOK
  <2>2. \/ at[o] = "stage" /\ at'[o] = "disable" /\ row'[s] = Adopted("paused")
        \/ at[o] = "enable" /\ at'[o] = "note_enabled" /\ row'[s] = Adopted("enabled")
        \/ at[o] = "revert" /\ at'[o] = "close" /\ row'[s] = Observed("needs_attention")
    BY <1>0, <1>7, <1>8 DEF Stage, Enable, Revert, SaveStep, Goto, TypeOK
  <2> QED
    BY <1>1, <1>2, <2>1, <2>2 DEF Sound, HasNoted, HasDone, Adopted, Observed
<1>9. CASE NoteDisabled(o) \/ NoteEnabled(o) \/ RollBack(o)
  <2>1. \/ at[o] = "note_disabled" /\ at'[o] = "verify" /\ SetState(o, "native_disabled")
        \/ at[o] = "note_enabled" /\ at'[o] = "prove" /\ SetState(o, "internal_enabled")
        \/ at[o] = "roll_back" /\ at'[o] = "restore" /\ SetState(o, "rolling_back")
    BY <1>0, <1>9 DEF NoteDisabled, NoteEnabled, RollBack, JournalStep, Goto, TypeOK
  <2>2. UNCHANGED <<native, row, job>>
    BY <1>9 DEF NoteDisabled, NoteEnabled, RollBack, JournalStep
  <2> QED
    BY <1>1, <1>2, <1>5, <2>1, <2>2 DEF Sound, HasNoted, HasDone, TxStates
<1>10. CASE Disable(o)
  <2>1. /\ at[o] = "disable" /\ at'[o] \in {"note_disabled", "roll_back"}
        /\ UNCHANGED <<row, journal, job>>
    BY <1>0, <1>10 DEF Disable, Goto, TypeOK
  <2> QED
    BY <1>1, <1>2, <1>6, <2>1 DEF Sound, HasNoted, HasDone
<1>11. CASE Verify(o) \/ FailVerification(o) \/ Prove(o)
  <2>1. UNCHANGED <<native, row, journal, job>>
    BY <1>11 DEF Verify, FailVerification, Prove
  <2>2. \/ at[o] = "verify" /\ at'[o] = "enable" /\ s \notin native
        \/ at[o] \in {"verify", "note_disabled"} /\ at'[o] = "roll_back"
        \/ at[o] = "prove" /\ at'[o] \in {"commit", "roll_back"}
    BY <1>0, <1>11 DEF Verify, FailVerification, Prove, Verified, Goto, TypeOK
  <2> QED
    BY <1>1, <1>2, <1>6, <2>1, <2>2 DEF Sound, HasNoted, HasDone
<1>12. CASE Restore(o)
  <2>1. PICK outcome \in CommandOutcomes(WhenRestored(job[o])) :
          /\ outcome.done => outcome.native = WhenRestored(job[o])
          /\ native' = outcome.native
          /\ job' = [job EXCEPT ![o].failed = ~outcome.done]
    BY <1>12 DEF Restore
  <2>2. at[o] = "restore" /\ at'[o] = "revert" /\ UNCHANGED <<row, journal>>
    BY <1>0, <1>12 DEF Restore, Goto, TypeOK
  <2>3. job[o] \in JobType /\ job'[o] = [job[o] EXCEPT !.failed = ~outcome.done]
    BY <1>0, <2>1, WorkingType DEF TypeOK, Working
  <2>4. job'[o].before = job[o].before /\ (~job'[o].failed => outcome.done)
    BY <2>3, Zenon DEF JobType
  <2>5. ~job'[o].failed => job'[o].before \subseteq native'
    BY <2>1, <2>2, <2>4, CommandEffect
  <2> QED
    BY <1>1, <1>2, <1>6, <2>2, <2>4, <2>5 DEF Sound, HasNoted, HasDone
<1>13. ~Decline(o) /\ ~Commit(o) /\ ~Close(o)
  BY <1>0 DEF Decline, Commit, Close, Finish, Goto, Working, TypeOK
<1> QED
  BY <1>3, <1>4, <1>8, <1>9, <1>10, <1>11, <1>12, <1>13 DEF Operate

LEMMA EntriesFrame ==
  ASSUME OwnerInv, NEW o \in Operators, Operate(o)
  PROVE  /\ at[o] \in {"snapshot", "begin"} =>
              \A t \in Txs : journal[t] # None => journal'[t] = journal[t]
         /\ \A s \in Sources \ {SourceOf(o)}, t \in Txs :
              journal[t] # None /\ journal[t].source = s => journal'[t] = journal[t]
<1>1. TypeOK /\ Working(o)
  BY OperateFrame DEF OwnerInv, TypeInv, Working
<1>2. job[o].tx \in Txs /\ (Entry(o) # None => Entry(o).source = SourceOf(o))
      /\ (at[o] \in {"snapshot", "begin"} => Entry(o) = None)
  BY <1>1, SoundFacts
<1> QED
  BY <1>1, <1>2, OperateFrame DEF Entry

\* A source that a call does not work on is owned as before.
LEMMA OthersKeepOwner ==
  ASSUME Apart, OwnerInv, NEW o \in Operators, Operate(o),
         NEW s \in Sources \ {SourceOf(o)}
  PROVE  /\ row'[s] = row[s] /\ (s \in native' <=> s \in native)
         /\ \A states : HasEntry(s, states) => HasEntry(s, states)'
         /\ ReturnedUnloaded(s) => ReturnedUnloaded(s)'
<1>1. row'[s] = row[s] /\ (s \in native' <=> s \in native)
  BY OperateFrame, NativeFrame DEF OwnerInv, TypeInv
<1>2. \A t \in Txs : journal[t] # None /\ journal[t].source = s => journal'[t] = journal[t]
  BY EntriesFrame
<1> QED
  BY <1>1, <1>2 DEF HasEntry, ReturnedUnloaded

\* While a call works on a source, the journal tells where it is; what the call did
\* last tells who runs the job.
LEMMA OwnKeepsOwner ==
  ASSUME Apart, OwnerInv, NEW o \in Operators, Operate(o),
         NEW s \in Sources, s = SourceOf(o)
  PROVE  /\ s \in native' /\ RunsInternally(s)' => HasEntry(s, {"rolling_back"})'
         /\ s \notin native' => \/ row'[s].owner = "adopted" /\ row'[s].state # "paused"
                               \/ HasEntry(s, Open)' \/ ReturnedUnloaded(s)'
<1>0. /\ TypeOK /\ Working(o) /\ job[o].tx \in Txs
      /\ HasNoted(o) /\ HasDone(o) /\ HoldsEntry(o)
  BY SoundFacts, OperateFrame DEF OwnerInv, TypeInv, Working
<1>1. /\ s \in native /\ RunsInternally(s) => HasEntry(s, {"rolling_back"})
      /\ s \notin native => \/ row[s].owner = "adopted" /\ row[s].state # "paused"
                           \/ HasEntry(s, Open) \/ ReturnedUnloaded(s)
  BY <1>0 DEF OwnerInv, SingleOwner, Accounted, TypeOK
<1> DEFINE Kept == /\ s \in native' /\ RunsInternally(s)' => HasEntry(s, {"rolling_back"})'
                   /\ s \notin native' => \/ row'[s].owner = "adopted" /\ row'[s].state # "paused"
                                          \/ HasEntry(s, Open)' \/ ReturnedUnloaded(s)'
<1>2. ASSUME native' = native, row' = row,
             \A t \in Txs : journal[t] # None => journal'[t] = journal[t]
      PROVE  Kept
  BY <1>1, <1>2 DEF RunsInternally, HasEntry, ReturnedUnloaded
<1>3. ASSUME journal'[job[o].tx] # None, journal'[job[o].tx].source = s,
             journal'[job[o].tx].state = "rolling_back"
      PROVE  Kept
  BY <1>0, <1>3 DEF HasEntry, Open, TxStates, Terminal
<1>4. ASSUME at[o] \notin {"idle", "snapshot", "begin"}, Entry(o).state # "rolling_back",
             journal'[job[o].tx] # None, journal'[job[o].tx].source = s,
             journal'[job[o].tx].state \in Open,
             row'[s] = row[s] \/ row'[s].state = "paused",
             s \in native' => s \in native
      PROVE  Kept
  <2>1. HasEntry(s, Open)'
    BY <1>0, <1>4 DEF HasEntry
  <2>2. \A t \in Txs \ {job[o].tx} : journal'[t] = journal[t]
    BY <1>0, OperateFrame
  <2>3. HasEntry(s, {"rolling_back"}) => HasEntry(s, {"rolling_back"})'
    BY <1>4, <2>2 DEF HasEntry, Entry
  <2>4. RunsInternally(s)' => RunsInternally(s)
    BY <1>4 DEF RunsInternally, Adopted
  <2> QED
    BY <1>1, <1>4, <2>1, <2>3, <2>4
<1>5. CASE TakeSnapshot(o) \/ Decline(o) \/ Verify(o) \/ FailVerification(o) \/ Prove(o)
  BY <1>2, <1>5 DEF TakeSnapshot, Decline, Verify, FailVerification, Prove
<1>6. CASE BeginAdoption(o)
  BY <1>2, <1>6, EntriesFrame DEF BeginAdoption
<1>7. CASE Stage(o) \/ Disable(o)
  <2>1. at[o] \in {"stage", "disable"} /\ journal' = journal
    BY <1>7 DEF Stage, Disable, SaveStep
  <2>2. Entry(o) # None /\ Entry(o).source = s /\ Entry(o).state = "preparing"
    BY <1>0, <2>1, SoundFacts DEF HasNoted
  <2>3. row'[s] = row[s] \/ row'[s].state = "paused"
    BY <1>0, <1>7 DEF Stage, Disable, SaveStep, SaveRow, Adopted, TypeOK
  <2>4. s \in native' => s \in native
    BY <1>7, NativeFrame DEF Stage, Disable, SaveStep
  <2> QED
    BY <1>4, <2>1, <2>2, <2>3, <2>4 DEF Entry, Open, TxStates, Terminal
<1>8. CASE NoteDisabled(o) \/ NoteEnabled(o) \/ Commit(o)
  <2>1. \/ at[o] = "note_disabled" /\ SetState(o, "native_disabled")
        \/ at[o] = "note_enabled" /\ SetState(o, "internal_enabled")
        \/ at[o] = "commit" /\ SetState(o, "committed")
    BY <1>8 DEF NoteDisabled, NoteEnabled, Commit, JournalStep
  <2>2. UNCHANGED <<native, row>>
    BY <1>8 DEF NoteDisabled, NoteEnabled, Commit, JournalStep
  <2>3. Entry(o).state # "rolling_back"
    BY <1>0, <2>1 DEF HasNoted
  <2>4. CASE at[o] # "commit"
    BY <1>4, <2>1, <2>2, <2>3, <2>4, SetStateEffect DEF TxStates, Open, Terminal
  <2>5. CASE at[o] = "commit"
    <3>1. row'[s].owner = "adopted" /\ row'[s].state # "paused" /\ s \notin native'
      BY <1>0, <2>2, <2>5 DEF HasDone
    <3> QED
      BY <3>1
  <2> QED
    BY <2>4, <2>5
<1>9. CASE Enable(o)
  <2>1. at[o] = "enable" /\ native' = native /\ row'[s] = Adopted("enabled")
    BY <1>0, <1>9 DEF Enable, SaveStep, SaveRow, TypeOK
  <2>2. s \notin native'
    BY <1>0, <2>1 DEF HasDone
  <2> QED
    BY <2>1, <2>2 DEF Adopted
<1>10. CASE RollBack(o)
  BY <1>3, <1>10, SetStateEffect DEF RollBack, JournalStep, TxStates
<1>11. CASE Restore(o) \/ Revert(o)
  <2>1. at[o] \in {"restore", "revert"} /\ journal' = journal
    BY <1>11 DEF Restore, Revert, SaveStep
  <2>2. Entry(o) # None /\ Entry(o).source = s /\ Entry(o).state = "rolling_back"
    BY <1>0, <2>1, SoundFacts DEF HasNoted
  <2> QED
    BY <1>3, <2>1, <2>2 DEF Entry
<1>12. CASE Close(o)
  <2>1. /\ at[o] = "close" /\ UNCHANGED <<native, row>>
        /\ SetState(o, RollbackResult(job[o]))
    BY <1>12 DEF Close
  <2>2. row'[s].owner = "observed" /\ (~job[o].failed => job[o].before \subseteq native')
    BY <1>0, <2>1 DEF HasDone
  <2>3. ~RunsInternally(s)'
    BY <2>2 DEF RunsInternally, Adopted
  <2>4. RollbackResult(job[o]) \in TxStates
    BY DEF RollbackResult, TxStates
  <2>5. /\ journal'[job[o].tx] # None /\ journal'[job[o].tx].source = s
        /\ journal'[job[o].tx].state = RollbackResult(job[o])
        /\ journal'[job[o].tx].before = job[o].before
    BY <2>1, <2>4, SetStateEffect
  <2>6. CASE job[o].failed
    <3>1. HasEntry(s, Open)'
      BY <1>0, <2>5, <2>6 DEF HasEntry, RollbackResult, Open, TxStates, Terminal
    <3> QED
      BY <2>3, <3>1
  <2>7. CASE ~job[o].failed
    <3>1. s \notin native' => ReturnedUnloaded(s)'
      BY <1>0, <2>2, <2>5, <2>7 DEF ReturnedUnloaded, RollbackResult
    <3> QED
      BY <2>3, <3>1
  <2> QED
    BY <2>6, <2>7
<1> QED
  BY <1>5, <1>6, <1>7, <1>8, <1>9, <1>10, <1>11, <1>12 DEF Operate

LEMMA OperateOwner ==
  ASSUME Apart, OwnerInv, NEW o \in Operators, Operate(o)
  PROVE  SingleOwner' /\ Accounted'
<1>0. SourceOf(o) \in Sources /\ native' \subseteq Sources
  BY SoundFacts, OperateFrame, OperateType DEF OwnerInv, TypeInv, TypeOK, Working
<1>1. SingleOwner'
  <2> SUFFICES ASSUME NEW s \in Sources, s \in native', RunsInternally(s)'
               PROVE  HasEntry(s, {"rolling_back"})'
    BY <1>0 DEF SingleOwner
  <2>1. CASE s = SourceOf(o)
    BY <2>1, OwnKeepsOwner
  <2>2. CASE s # SourceOf(o)
    BY <2>2, OthersKeepOwner DEF OwnerInv, SingleOwner, RunsInternally
  <2> QED
    BY <2>1, <2>2
<1>2. Accounted'
  <2> SUFFICES ASSUME NEW s \in Sources, s \notin native'
               PROVE  \/ row'[s].owner = "adopted" /\ row'[s].state # "paused"
                      \/ HasEntry(s, Open)' \/ ReturnedUnloaded(s)'
    BY DEF Accounted
  <2>1. CASE s = SourceOf(o)
    BY <2>1, OwnKeepsOwner
  <2>2. CASE s # SourceOf(o)
    <3>1. /\ row'[s] = row[s] /\ s \notin native
          /\ HasEntry(s, Open) => HasEntry(s, Open)'
          /\ ReturnedUnloaded(s) => ReturnedUnloaded(s)'
      BY <2>2, OthersKeepOwner
    <3> QED
      BY <3>1 DEF OwnerInv, Accounted
  <2> QED
    BY <2>1, <2>2
<1> QED
  BY <1>1, <1>2

LEMMA OperateSnapshots ==
  ASSUME OwnerInv, NEW o \in Operators, Operate(o)
  PROVE  OneAtATime' /\ SnapshotsFit'
<1>1. TypeOK /\ Working(o)
  BY OperateFrame DEF OwnerInv, TypeInv, Working
<1>2. OneAtATime'
  BY <1>1, OperateFrame DEF OwnerInv, OneAtATime, Working, SourceOf
<1>3. SnapshotsFit'
  <2> SUFFICES ASSUME NEW t \in Txs, journal'[t] # None
               PROVE  Fits(journal'[t].source, journal'[t].before)
    BY DEF SnapshotsFit, Fits
  <2>1. CASE journal'[t] = journal[t]
    BY <2>1 DEF OwnerInv, SnapshotsFit
  <2>2. CASE t = job[o].tx /\ journal'[t] # journal[t]
    <3>1. \/ BeginAdoption(o)
          \/ /\ at[o] \notin {"idle", "snapshot", "begin"}
             /\ \E state \in TxStates : SetState(o, state)
      BY <2>2 DEF Operate, TakeSnapshot, Decline, Stage, Disable, NoteDisabled, Verify,
           FailVerification, Enable, NoteEnabled, Prove, Commit, RollBack, Restore, Revert,
           Close, SaveStep, JournalStep, RollbackResult, TxStates
    <3>2. journal'[t].source = SourceOf(o) /\ journal'[t].before = job[o].before
      BY <2>2, <3>1, BeginEffect, SetStateEffect
    <3>3. at[o] # "snapshot"
      BY <3>1 DEF BeginAdoption
    <3> QED
      BY <1>1, <3>2, <3>3, SoundFacts
  <2>3. t = job[o].tx \/ journal'[t] = journal[t]
    BY <1>1, OperateFrame
  <2> QED
    BY <2>1, <2>2, <2>3
<1> QED
  BY <1>2, <1>3

LEMMA OperateKeepsOwnerInv ==
  ASSUME Apart, OwnerInv, NEW o \in Operators, Operate(o), TypeInv'
  PROVE  OwnerInv'
<1>1. ASSUME NEW p \in Operators, Working(p)'
      PROVE  Sound(p)'
  <2>1. CASE p = o
    BY <1>1, <2>1, OwnStaysSound
  <2>2. CASE p # o
    <3>1. at'[p] = at[p]
      BY <2>2, OperateFrame DEF OwnerInv, TypeInv
    <3> QED
      BY <1>1, <2>2, <3>1, OthersStaySound DEF Working
  <2> QED
    BY <2>1, <2>2
<1> QED
  BY <1>1, OperateOwner, OperateSnapshots DEF OwnerInv

\* A call begins on a source and a transaction that nobody else works on.
LEMMA BeginKeepsOwnerInv ==
  ASSUME Apart, OwnerInv, TypeInv', NEW o \in Operators,
         \/ \E s \in Sources, t \in Txs : ChooseSource(o, s, t)
         \/ \E t \in Txs : ChooseTx(o, t)
  PROVE  OwnerInv'
<1>0. TypeOK /\ Patient
  BY DEF OwnerInv, TypeInv, Apart
<1>1. PICK s \in Sources, t \in Txs :
        /\ at[o] = "idle" /\ Untouched(s) /\ job'[o].tx = t /\ job'[o].source = s
        /\ UNCHANGED <<native, row, journal>>
        /\ \A p \in Operators \ {o} : at'[p] = at[p] /\ job'[p] = job[p]
        /\ \/ /\ at'[o] = "snapshot" /\ journal[t] = None /\ job'[o].before = {}
              /\ \A p \in Operators : job[p] # None => job[p].tx # t
           \/ /\ at'[o] = "roll_back" /\ journal[t] # None
              /\ journal[t].source = s /\ journal[t].before = job'[o].before
  <2>1. ASSUME NEW s \in Sources, NEW t \in Txs, ChooseSource(o, s, t)
        PROVE  /\ at[o] = "idle" /\ Untouched(s) /\ job'[o].tx = t /\ job'[o].source = s
               /\ UNCHANGED <<native, row, journal>>
               /\ \A p \in Operators \ {o} : at'[p] = at[p] /\ job'[p] = job[p]
               /\ at'[o] = "snapshot" /\ journal[t] = None /\ job'[o].before = {}
               /\ \A p \in Operators : job[p] # None => job[p].tx # t
    BY <1>0, <2>1 DEF ChooseSource, Goto, TypeOK
  <2>2. ASSUME NEW t \in Txs, ChooseTx(o, t)
        PROVE  /\ at[o] = "idle" /\ Untouched(journal[t].source)
               /\ job'[o].tx = t /\ job'[o].source = journal[t].source
               /\ UNCHANGED <<native, row, journal>>
               /\ \A p \in Operators \ {o} : at'[p] = at[p] /\ job'[p] = job[p]
               /\ at'[o] = "roll_back" /\ journal[t] # None /\ journal[t].source \in Sources
               /\ journal[t].before = job'[o].before
    <3>1. journal[t] \in EntryType
      BY <1>0, <2>2 DEF ChooseTx, TypeOK
    <3> QED
      BY <1>0, <2>2, <3>1 DEF ChooseTx, Goto, TypeOK, EntryType
  <2> QED
    BY <2>1, <2>2
<1>2. \A p \in Operators \ {o} : Working(p) => SourceOf(p) # s /\ job[p].tx # t
  <2> SUFFICES ASSUME NEW p \in Operators \ {o}, Working(p)
               PROVE  SourceOf(p) # s /\ job[p].tx # t
    OBVIOUS
  <2>1. job[p] # None
    BY <1>0 DEF Working, TypeOK
  <2>2. SourceOf(p) # s
    BY <1>0, <1>1, <2>1 DEF Untouched
  <2>3. at[p] \in {"snapshot", "begin"} => journal[job[p].tx] = None
    BY SoundFacts DEF Entry
  <2>4. at[p] \notin {"snapshot", "begin"} => journal[job[p].tx].source = SourceOf(p)
    BY SoundFacts DEF Entry
  <2> QED
    BY <1>1, <2>1, <2>2, <2>3, <2>4
<1>3. OneAtATime'
  BY <1>1, <1>2 DEF OwnerInv, OneAtATime, Working, SourceOf
<1>4. ASSUME NEW p \in Operators \ {o}, Working(p)'
      PROVE  Sound(p)'
  <2>1. Working(p) /\ at'[p] = at[p] /\ job'[p] = job[p]
    BY <1>1, <1>4 DEF Working
  <2>2. HoldsEntry(p) /\ HasNoted(p) /\ HasDone(p)
    BY <2>1, SoundFacts
  <2>3. SourceOf(p)' = SourceOf(p) /\ Entry(p)' = Entry(p)
    BY <1>1, <2>1 DEF SourceOf, Entry
  <2> QED
    BY <1>1, <2>1, <2>2, <2>3 DEF Sound, HoldsEntry, HasNoted, HasDone
<1>5. Sound(o)'
  <2>1. SourceOf(o)' = s /\ Entry(o)' = journal[t]
    BY <1>1 DEF SourceOf, Entry
  <2>2. journal[t] # None => Fits(journal[t].source, journal[t].before)
    BY DEF OwnerInv, SnapshotsFit
  <2> QED
    BY <1>1, <2>1, <2>2 DEF Sound, HoldsEntry, HasNoted, HasDone
<1>6. SnapshotsFit' /\ SingleOwner' /\ Accounted'
  BY <1>1 DEF OwnerInv, SnapshotsFit, SingleOwner, Accounted, RunsInternally, HasEntry,
              ReturnedUnloaded
<1> QED
  BY <1>3, <1>4, <1>5, <1>6 DEF OwnerInv

LEMMA AbandonKeepsOwnerInv ==
  ASSUME OwnerInv, TypeInv', NEW o \in Operators, Abandon(o)
  PROVE  OwnerInv'
<1>1. /\ at'[o] = "idle" /\ UNCHANGED <<native, row, journal>>
      /\ \A p \in Operators \ {o} : at'[p] = at[p] /\ job'[p] = job[p]
  BY DEF Abandon, Finish, Goto, OwnerInv, TypeInv, TypeOK
<1>2. ASSUME NEW p \in Operators, Working(p)'
      PROVE  Sound(p)'
  <2>1. Working(p) /\ at'[p] = at[p] /\ job'[p] = job[p]
    BY <1>1, <1>2 DEF Working
  <2>2. HoldsEntry(p) /\ HasNoted(p) /\ HasDone(p)
    BY <2>1, SoundFacts
  <2>3. SourceOf(p)' = SourceOf(p) /\ Entry(p)' = Entry(p)
    BY <1>1, <2>1 DEF SourceOf, Entry
  <2> QED
    BY <1>1, <2>1, <2>2, <2>3 DEF Sound, HoldsEntry, HasNoted, HasDone
<1>3. OneAtATime'
  BY <1>1 DEF OwnerInv, OneAtATime, Working, SourceOf
<1>4. SnapshotsFit' /\ SingleOwner' /\ Accounted'
  BY <1>1 DEF OwnerInv, SnapshotsFit, SingleOwner, Accounted, RunsInternally, HasEntry,
              ReturnedUnloaded
<1> QED
  BY <1>2, <1>3, <1>4 DEF OwnerInv

\* A scan enables or pauses what Taskrail does not own, and marks what it owns.
LEMMA RescanKeepsOwnerInv ==
  ASSUME OwnerInv, TypeInv', NEW s \in Sources, Rescan(s)
  PROVE  OwnerInv'
<1>1. /\ UNCHANGED <<native, journal, at, job>>
      /\ \A r \in Sources :
           /\ row'[r].owner = row[r].owner
           /\ row'[r].owner = "adopted" => row'[r] = row[r] \/ row'[r].state = "needs_attention"
  BY DEF Rescan, Observed, OwnerInv, TypeInv, TypeOK
<1>2. ASSUME NEW p \in Operators, Working(p)'
      PROVE  Sound(p)'
  <2>1. Working(p) /\ SourceOf(p) \in Sources
    BY <1>1, <1>2, SoundFacts DEF Working
  <2>2. HoldsEntry(p) /\ HasNoted(p) /\ HasDone(p)
    BY <2>1, SoundFacts
  <2>3. SourceOf(p)' = SourceOf(p) /\ Entry(p)' = Entry(p)
    BY <1>1, <2>1 DEF SourceOf, Entry
  <2>4. HasDone(p)'
    BY <1>1, <2>1, <2>2, <2>3 DEF HasDone
  <2> QED
    BY <1>1, <2>2, <2>3, <2>4 DEF Sound, HoldsEntry, HasNoted
<1>3. OneAtATime' /\ SnapshotsFit'
  BY <1>1 DEF OwnerInv, OneAtATime, SnapshotsFit, Working, SourceOf
<1>4. SingleOwner'
  <2>1. \A r \in Sources : RunsInternally(r)' => RunsInternally(r)
    BY <1>1 DEF RunsInternally, Adopted
  <2> QED
    BY <1>1, <2>1 DEF OwnerInv, SingleOwner, HasEntry, TypeInv, TypeOK
<1>5. Accounted'
  BY <1>1 DEF OwnerInv, Accounted, HasEntry, ReturnedUnloaded
<1> QED
  BY <1>2, <1>3, <1>4, <1>5 DEF OwnerInv

LEMMA OwnerInit == Init => OwnerInv
<1> SUFFICES ASSUME Init PROVE OwnerInv
  OBVIOUS
<1>1. TypeInv
  BY TypeInit DEF TypeInv, HasJournaled, Init
<1>2. \A o \in Operators : ~Working(o)
  BY DEF Init, Working
<1>3. SingleOwner /\ Accounted /\ SnapshotsFit
  BY DEF Init, SingleOwner, RunsInternally, Observed, Adopted, Accounted, SnapshotsFit
<1> QED
  BY <1>1, <1>2, <1>3 DEF OwnerInv, OneAtATime

LEMMA OwnerStep == Apart => (OwnerInv /\ [Next]_vars => OwnerInv')
<1> SUFFICES ASSUME Apart, OwnerInv, [Next]_vars PROVE OwnerInv'
  OBVIOUS
<1>1. TypeInv'
  BY OperateType, OutsideType, JournaledStep DEF OwnerInv, TypeInv
<1>2. CASE UNCHANGED vars
  <2>1. \A p \in Operators : Sound(p) => Sound(p)'
    BY <1>2 DEF vars, Sound, HoldsEntry, HasNoted, HasDone, SourceOf, Entry
  <2> QED
    BY <1>1, <1>2, <2>1 DEF vars, OwnerInv, OneAtATime, SnapshotsFit, Working, SourceOf,
       SingleOwner, Accounted, RunsInternally, HasEntry, ReturnedUnloaded
<1> QED
  BY <1>1, <1>2, OperateKeepsOwnerInv, BeginKeepsOwnerInv, AbandonKeepsOwnerInv,
     RescanKeepsOwnerInv DEF Next

THEOREM OwnerInvariant == Apart => (Spec => []OwnerInv)
<1> SUFFICES ASSUME Apart PROVE Spec => []OwnerInv
  OBVIOUS
<1>1. OwnerInv /\ [Next]_vars => OwnerInv'
  BY OwnerStep
<1> QED
  BY <1>1, OwnerInit, PTL DEF Spec

\* ADR 0001: a job that is run natively is run by Taskrail as well only while the
\* journal says that it is being rolled back, whatever fails and dies.
THEOREM OneOwner == Apart => (Spec => []SingleOwner)
<1> SUFFICES ASSUME Apart PROVE Spec => []SingleOwner
  OBVIOUS
<1>1. OwnerInv => SingleOwner
  BY DEF OwnerInv
<1> QED
  BY <1>1, OwnerInvariant, PTL

\* A job that neither scheduler runs shows in its row or in the journal.
THEOREM LostJobsShow == Apart => (Spec => []NoJobIsLost)
<1> SUFFICES ASSUME Apart PROVE Spec => []NoJobIsLost
  OBVIOUS
<1>1. OwnerInv => NoJobIsLost
  <2> SUFFICES ASSUME OwnerInv, NEW s \in Sources \ native
               PROVE  \/ RunsInternally(s) \/ row[s].state = "needs_attention"
                      \/ HasEntry(s, Open) \/ ReturnedUnloaded(s)
    BY DEF NoJobIsLost
  <2>1. row[s] \in [owner : {"observed", "adopted"}, state : {"enabled", "paused", "needs_attention"}]
    BY DEF OwnerInv, TypeInv, TypeOK
  <2>2. row[s].owner = "adopted" /\ row[s].state # "paused"
          => RunsInternally(s) \/ row[s].state = "needs_attention"
    BY <2>1 DEF RunsInternally, Adopted
  <2> QED
    BY <2>2 DEF OwnerInv, Accounted
<1> QED
  BY <1>1, OwnerInvariant, PTL

\* The journal's states are written by the calls, each at its place.
LEMMA StateChange ==
  ASSUME OwnerInv, [Next]_vars, NEW t \in Txs, journal[t] # None,
         journal'[t].state # journal[t].state,
         journal'[t].state \in {"committed", "rolled_back"}
  PROVE  \E o \in Operators :
           /\ at[o] = IF journal'[t].state = "committed" THEN "commit" ELSE "close"
           /\ t = job[o].tx /\ journal[t].source = SourceOf(o) /\ journal[t].before = job[o].before
           /\ (journal'[t].state = "rolled_back" => ~job[o].failed)
           /\ UNCHANGED <<native, row>> /\ HasDone(o)
<1>1. PICK o \in Operators : Operate(o)
  BY DEF Next, vars, ChooseSource, ChooseTx, Abandon, Rescan
<1>2. TypeOK /\ Working(o) /\ t = job[o].tx
  BY <1>1, OperateFrame DEF OwnerInv, TypeInv, Working
<1>3. at[o] \notin {"snapshot", "begin"}
  BY <1>2, SoundFacts DEF Entry
<1>4. HasDone(o) /\ journal[t].source = SourceOf(o) /\ journal[t].before = job[o].before
  BY <1>2, <1>3, SoundFacts DEF Entry
<1>5. ASSUME NEW state \in TxStates, SetState(o, state)
      PROVE  journal'[t].state = state
  BY <1>2, <1>3, <1>5, SetStateEffect DEF Working
<1>6. Commit(o) \/ Close(o)
  <2>1. ~(NoteDisabled(o) \/ NoteEnabled(o) \/ RollBack(o))
    BY <1>5 DEF NoteDisabled, NoteEnabled, RollBack, JournalStep, TxStates
  <2>2. journal' # journal /\ ~BeginAdoption(o)
    BY <1>3 DEF BeginAdoption
  <2> QED
    BY <1>1, <2>1, <2>2 DEF Operate, TakeSnapshot, Decline, Stage, Disable, Verify,
       FailVerification, Enable, Prove, Restore, Revert, SaveStep
<1>7. \/ at[o] = "commit" /\ journal'[t].state = "committed"
      \/ at[o] = "close" /\ journal'[t].state = RollbackResult(job[o])
  BY <1>5, <1>6 DEF Commit, Close, RollbackResult, TxStates
<1> QED
  BY <1>2, <1>4, <1>6, <1>7 DEF Commit, Close, RollbackResult

\* A transaction commits only when the native scheduler does not run its job and
\* Taskrail owns it.
THEOREM CommitHandsOver == Apart => (Spec => CommitIsHandover)
<1> SUFFICES ASSUME Apart PROVE Spec => CommitIsHandover
  OBVIOUS
<1>1. OwnerInv /\ [Next]_vars =>
        [\A t \in Txs :
           (/\ journal[t] # None /\ journal'[t].state = "committed"
            /\ journal[t].state # "committed")
           => /\ journal[t].source \notin native'
              /\ row'[journal[t].source].owner = "adopted"]_vars
  BY StateChange DEF HasDone
<1> QED
  BY <1>1, OwnerInvariant, PTL DEF Spec, CommitIsHandover

\* A transaction is recorded as rolled back only when the native scheduler runs
\* what the snapshot says and the ownership is given up.
THEOREM RollbackRestores == Apart => (Spec => RollbackIsComplete)
<1> SUFFICES ASSUME Apart PROVE Spec => RollbackIsComplete
  OBVIOUS
<1>1. OwnerInv /\ [Next]_vars =>
        [\A t \in Txs :
           (/\ journal[t] # None /\ journal'[t].state = "rolled_back"
            /\ journal[t].state # "rolled_back")
           => /\ journal[t].before \cap {journal[t].source} \subseteq native'
              /\ row'[journal[t].source].owner = "observed"]_vars
  BY StateChange DEF HasDone
<1> QED
  BY <1>1, OwnerInvariant, PTL DEF Spec, RollbackIsComplete

\* Every variable keeps its type.
THEOREM AdoptionTypeCorrect == Spec => []TypeOK
<1>1. TypeInv => TypeOK
  BY DEF TypeInv
<1> QED
  BY <1>1, AdoptionTypeInvariant, PTL
=============================================================================
