--------------------------- MODULE Reconcile_proofs ---------------------------
(***************************************************************************)
(* Theorems about Reconcile for any number of sources, definitions,        *)
(* scanners and operators, and any number of edits, outages and failures.  *)
(***************************************************************************)
EXTENDS Reconcile, TLAPS

-----------------------------------------------------------------------------
(***************************************************************************)
(* The types, and where the calls are.                                     *)
(***************************************************************************)
Holding == {"read", "write", "mark"}

\* A scanner holds a source while it is between the calls for it.  What it is about
\* to visit, and what it visits, it found or it missed; what it misses it marks only
\* after a complete scan.
ScanInv(p) ==
  /\ scan[p].cur # None <=> at[p] \in Holding
  /\ at[p] \in {"judge", "pick", "read", "write"} => \A s \in scan[p].todo : scan[p].found[s] # None
  /\ at[p] \in {"read", "write"} => scan[p].found[scan[p].cur] # None
  /\ at[p] \in Holding => known[scan[p].cur] # None
  /\ at[p] \in {"sweep", "mark"} =>
       scan[p].complete /\ \A s \in scan[p].todo : scan[p].found[s] = None
  /\ at[p] = "mark" => scan[p].found[scan[p].cur] = None /\ scan[p].copy # None
  /\ at[p] \in {"idle", "judge"} => ~scan[p].complete

\* An operator's call is one that was not refused.
CallInv(o) ==
  doing[o] # None =>
    /\ doing[o].known \in Definitions \cup {Listed}
    /\ known[doing[o].source] # None
    /\ doing[o].call \in {"acknowledge", "pause", "resume"} => doing[o].copy.owner = "adopted"

TypeInv ==
  /\ TypeOK
  /\ \A p \in Scanners : ScanInv(p)
  /\ \A o \in Operators : CallInv(o)

LEMMA TypeInit == Init => TypeInv
  BY ReconcileAssumption
     DEF Init, TypeInv, TypeOK, ScanInv, CallInv, NoScan, ScanType, Contents, Entries, Points,
         Holding, NoTruth, TruthType

LEMMA Scanner ==
  ASSUME TypeInv, NEW p \in Scanners
  PROVE  /\ at \in [Scanners -> Points] /\ scan \in [Scanners -> ScanType]
         /\ scan[p].cur # None <=> at[p] \in Holding
         /\ at[p] \in {"judge", "pick", "read", "write"} => \A s \in scan[p].todo : scan[p].found[s] # None
         /\ at[p] \in {"read", "write"} => scan[p].found[scan[p].cur] # None
         /\ at[p] \in {"sweep", "mark"} =>
              scan[p].complete /\ \A s \in scan[p].todo : scan[p].found[s] = None
         /\ at[p] = "mark" => scan[p].found[scan[p].cur] = None /\ scan[p].copy # None
         /\ known \in [Sources -> Contents] /\ row \in [Sources -> RowType \cup {None}]
         /\ \A s \in Sources : row[s] # None => known[s] # None
  BY DEF TypeInv, TypeOK, ScanInv

\* The steps of one scanner leave the others where they are.
Alone(p) == \A q \in Scanners \ {p} : at'[q] = at[q] /\ scan'[q] = scan[q]

\* The truth at the moment of a scan.
Witnessed(listed) ==
  [entries |-> native, off |-> off, listed |-> listed, away |-> answers = "nothing", back |-> FALSE]

LEMMA ShownType ==
  ASSUME TypeInv, NEW s \in Sources, NEW listed
  PROVE  Shown(s, listed) \in Contents
<1>1. /\ native[s] \in Definitions \cup {None}
      /\ \A d \in Definitions : WhenOff[d] \in Definitions \cup {None}
  BY ReconcileAssumption DEF TypeInv, TypeOK, Entries
<1>2. Visible(s) \in Definitions \cup {None}
  BY <1>1 DEF Visible
<1> QED
  BY <1>2 DEF Shown, Contents, Entries

LEMMA LookEffect ==
  ASSUME TypeInv, NEW p \in Scanners, Look(p)
  PROVE  /\ Alone(p) /\ at'[p] \in {"judge", "pick"}
         /\ scan'[p] \in ScanType
         /\ scan'[p].todo = {s \in Sources : scan'[p].found[s] # None}
         /\ scan'[p].cur = None /\ ~scan'[p].complete
         /\ \E listed \in SUBSET Sources :
              /\ scan'[p].found = [s \in Sources |-> Shown(s, listed)]
              /\ truth' = [truth EXCEPT ![p] = Witnessed(listed)]
<1>1. scan[p] \in ScanType /\ scan[p].cur = None /\ ~scan[p].complete
  BY DEF TypeInv, TypeOK, ScanInv, Look, Holding
<1>0. PICK listed \in SUBSET Sources :
        /\ LET found == [s \in Sources |-> Shown(s, listed)]
           IN  scan' = [scan EXCEPT ![p].found = found,
                                    ![p].todo = {s \in Sources : found[s] # None}]
        /\ truth' = [truth EXCEPT ![p] = Witnessed(listed)]
  BY DEF Look, Witnessed
<1> DEFINE found == [s \in Sources |-> Shown(s, listed)]
<1>2. found \in [Sources -> Contents]
  BY ShownType
<1>3. scan' = [scan EXCEPT ![p] = [scan[p] EXCEPT !.found = found,
                                     !.todo = {s \in Sources : found[s] # None}]]
  BY <1>0 DEF TypeInv, TypeOK
<1> HIDE DEF found
<1>4. scan'[p] = [scan[p] EXCEPT !.found = found, !.todo = {s \in Sources : found[s] # None}]
  BY <1>3 DEF TypeInv, TypeOK
<1>5. /\ scan'[p].found = found /\ scan'[p].todo = {s \in Sources : found[s] # None}
      /\ scan'[p].cur = scan[p].cur /\ scan'[p].complete = scan[p].complete
      /\ scan'[p] \in ScanType
  BY <1>1, <1>2, <1>4 DEF ScanType
<1>6. Alone(p) /\ at'[p] \in {"judge", "pick"}
  BY <1>3 DEF Alone, Look, Goto, TypeInv, TypeOK
<1> QED
  BY <1>0, <1>1, <1>5, <1>6 DEF found

LEMMA JudgeEffect ==
  ASSUME TypeInv, NEW p \in Scanners, Judge(p)
  PROVE  /\ Alone(p) /\ at'[p] = "pick" /\ scan'[p] \in ScanType
         /\ scan'[p].found = scan[p].found /\ scan'[p].todo = scan[p].todo
         /\ scan'[p].cur = scan[p].cur /\ scan'[p].complete = (answers # "nothing")
<1>1. (answers # "nothing") \in BOOLEAN
  OBVIOUS
<1>2. /\ at \in [Scanners -> Points] /\ scan \in [Scanners -> ScanType]
  BY Scanner
<1> QED
  BY <1>1, <1>2 DEF ScanType, Judge, Goto, Alone, Complete

LEMMA StoreEffect ==
  ASSUME TypeInv, NEW p \in Scanners, NEW s \in Sources, Store(p, s)
  PROVE  /\ Alone(p) /\ at'[p] = "read" /\ scan'[p] \in ScanType
         /\ scan'[p].found = scan[p].found /\ scan'[p].todo = scan[p].todo \ {s}
         /\ scan'[p].cur = s /\ scan'[p].complete = scan[p].complete
         /\ scan[p].cur = None /\ scan[p].found[s] # None
         /\ known' = [known EXCEPT ![s] = scan[p].found[s]]
<1>1. /\ at \in [Scanners -> Points] /\ scan \in [Scanners -> ScanType]
      /\ scan[p].cur = None /\ scan[p].found[s] # None
  BY Scanner DEF Store, Holding
<1> QED
  BY <1>1 DEF ScanType, Store, Goto, Alone

LEMMA ReadEffect ==
  ASSUME TypeInv, NEW p \in Scanners, Read(p)
  PROVE  /\ Alone(p) /\ at'[p] = "write" /\ scan'[p] \in ScanType
         /\ scan'[p].found = scan[p].found /\ scan'[p].todo = scan[p].todo
         /\ scan'[p].cur = scan[p].cur /\ scan'[p].complete = scan[p].complete
         /\ scan[p].cur \in Sources /\ scan'[p].copy = row[scan[p].cur]
<1>1. /\ at \in [Scanners -> Points] /\ scan \in [Scanners -> ScanType]
      /\ scan[p].cur # None /\ row \in [Sources -> RowType \cup {None}]
  BY Scanner DEF Read, Holding
<1>2. scan[p].cur \in Sources
  BY <1>1 DEF ScanType
<1>3. row[scan[p].cur] \in RowType \cup {None}
  BY <1>1, <1>2
<1> QED
  BY <1>1, <1>2, <1>3 DEF ScanType, Read, Goto, Alone

\* Both writes let go of the source.
LEMMA ReleaseEffect ==
  ASSUME TypeInv, NEW p \in Scanners, NEW point \in {"pick", "sweep"}, Goto(p, point),
         scan' = [scan EXCEPT ![p].cur = None, ![p].copy = None]
  PROVE  /\ Alone(p) /\ at'[p] = point /\ scan'[p] \in ScanType
         /\ scan'[p].found = scan[p].found /\ scan'[p].todo = scan[p].todo
         /\ scan'[p].cur = None /\ scan'[p].complete = scan[p].complete
<1>1. /\ at \in [Scanners -> Points] /\ scan \in [Scanners -> ScanType]
  BY Scanner
<1> QED
  BY <1>1 DEF ScanType, Goto, Alone

LEMMA EndScanEffect ==
  ASSUME TypeInv, NEW p \in Scanners, EndScan(p)
  PROVE  /\ Alone(p) /\ at'[p] = "idle" /\ scan'[p] \in ScanType
         /\ scan'[p].cur = None /\ ~scan'[p].complete
         /\ truth' \in [Scanners -> TruthType]
         /\ \A q \in Scanners \ {p} : truth'[q] = truth[q]
<1>1. /\ at \in [Scanners -> Points] /\ scan \in [Scanners -> ScanType]
  BY Scanner
<1>2. truth \in [Scanners -> TruthType] /\ truth' = [truth EXCEPT ![p] = NoTruth]
  BY DEF EndScan, TypeInv, TypeOK
<1>3. NoTruth \in TruthType
  BY DEF NoTruth, TruthType, Entries
<1>4. truth' \in [Scanners -> TruthType] /\ \A q \in Scanners \ {p} : truth'[q] = truth[q]
  BY <1>2, <1>3
<1>5. NoScan \in ScanType /\ NoScan.cur = None /\ ~NoScan.complete
  BY DEF NoScan, ScanType, Contents, Entries
<1>6. scan' = [scan EXCEPT ![p] = NoScan] /\ at' = [at EXCEPT ![p] = "idle"]
  BY DEF EndScan, Goto
<1> QED
  BY <1>1, <1>4, <1>5, <1>6 DEF Alone

LEMMA SweepEffect ==
  ASSUME TypeInv, NEW p \in Scanners, Sweep(p), scan[p].complete
  PROVE  /\ Alone(p) /\ at'[p] = "sweep" /\ scan'[p] \in ScanType
         /\ scan'[p].found = scan[p].found
         /\ \A s \in scan'[p].todo : scan[p].found[s] = None
         /\ scan'[p].cur = None /\ scan'[p].complete
<1>1. /\ at \in [Scanners -> Points] /\ scan \in [Scanners -> ScanType]
      /\ scan[p].cur = None
  BY Scanner DEF Sweep, Holding
<1>2. /\ scan' = [scan EXCEPT ![p].todo = {s \in Sources : known[s] # None /\ scan[p].found[s] = None}]
      /\ at' = [at EXCEPT ![p] = "sweep"]
  BY DEF Sweep, Goto
<1> QED
  BY <1>1, <1>2 DEF ScanType, Alone

LEMMA ReadMissingEffect ==
  ASSUME TypeInv, NEW p \in Scanners, NEW s \in Sources, ReadMissing(p, s)
  PROVE  /\ Alone(p) /\ scan'[p] \in ScanType
         /\ scan'[p].found = scan[p].found /\ scan'[p].todo = scan[p].todo \ {s}
         /\ scan'[p].complete = scan[p].complete
         /\ scan[p].cur = None /\ scan[p].found[s] = None
         /\ \/ at'[p] = "sweep" /\ scan'[p].cur = None
            \/ /\ at'[p] = "mark" /\ scan'[p].cur = s
               /\ scan'[p].copy = row[s] /\ row[s] # None /\ known[s] # None
<1>1. /\ at \in [Scanners -> Points] /\ scan \in [Scanners -> ScanType] /\ scan[p] \in ScanType
      /\ scan[p].cur = None /\ scan[p].found[s] = None
      /\ row[s] # None => row[s] \in RowType /\ known[s] # None
  BY Scanner DEF ReadMissing, Holding
<1>2. CASE row[s] = None
  <2>1. scan' = [scan EXCEPT ![p].todo = @ \ {s}] /\ UNCHANGED at /\ at[p] = "sweep"
    BY <1>2 DEF ReadMissing
  <2> QED
    BY <1>1, <2>1 DEF ScanType, Alone
<1>3. CASE row[s] # None
  <2>1. scan' = [scan EXCEPT ![p] = [scan[p] EXCEPT !.todo = @ \ {s}, !.cur = s, !.copy = row[s]]]
    BY <1>1, <1>3 DEF ReadMissing
  <2>2. row[s] \in RowType /\ known[s] # None
    BY <1>1, <1>3
  <2>3. /\ scan'[p] \in ScanType /\ scan'[p].found = scan[p].found
        /\ scan'[p].todo = scan[p].todo \ {s} /\ scan'[p].complete = scan[p].complete
        /\ scan'[p].cur = s /\ scan'[p].copy = row[s]
    BY <1>1, <2>1, <2>2 DEF ScanType
  <2>4. Alone(p) /\ at'[p] = "mark"
    BY <1>1, <1>3, <2>1 DEF ReadMissing, Alone, Goto
  <2> QED
    BY <1>1, <1>3, <2>2, <2>3, <2>4
<1> QED
  BY <1>2, <1>3

\* What a scanner writes.
LEMMA WriteEffect ==
  ASSUME TypeInv, NEW p \in Scanners, Write(p)
  PROVE  /\ scan[p].cur \in Sources /\ scan[p].copy \in RowType \cup {None}
         /\ scan[p].found[scan[p].cur] \in Definitions \cup {Listed}
         /\ row' \in [Sources -> RowType \cup {None}]
         /\ \A s \in Sources \ {scan[p].cur} : row'[s] = row[s]
         /\ row'[scan[p].cur] =
              IF Retained(scan[p].copy, scan[p].found[scan[p].cur]) THEN row[scan[p].cur]
              ELSE Reconciled(scan[p].copy, scan[p].found[scan[p].cur])
<1>0. scan[p] \in ScanType /\ row \in [Sources -> RowType \cup {None}]
  BY Scanner
<1>1. scan[p] \in ScanType /\ scan[p].cur \in Sources /\ scan[p].found[scan[p].cur] # None
  BY Scanner DEF ScanType, Write, Holding
<1>2. scan[p].copy \in RowType \cup {None} /\ scan[p].found[scan[p].cur] \in Definitions \cup {Listed}
  BY <1>1 DEF ScanType, Contents, Entries
<1>3. Reconciled(scan[p].copy, scan[p].found[scan[p].cur]) \in RowType \cup {None}
  BY <1>2 DEF Reconciled, RowType, Row, Marked, Unrunnable
<1> QED
  BY <1>0, <1>1, <1>2, <1>3 DEF Write, SaveRow

LEMMA MarkEffect ==
  ASSUME TypeInv, NEW p \in Scanners, MarkMissing(p)
  PROVE  /\ scan[p].cur \in Sources /\ scan[p].copy \in RowType
         /\ scan[p].found[scan[p].cur] = None /\ scan[p].complete
         /\ row' = [row EXCEPT ![scan[p].cur] = Marked(scan[p].copy)]
         /\ Marked(scan[p].copy) \in RowType
<1>1. /\ scan[p] \in ScanType /\ scan[p].cur # None /\ scan[p].copy # None
      /\ scan[p].found[scan[p].cur] = None /\ scan[p].complete
  BY Scanner DEF MarkMissing, Holding
<1> QED
  BY <1>1 DEF ScanType, MarkMissing, SaveRow, RowType, Marked

-----------------------------------------------------------------------------
(***************************************************************************)
(* Type correctness, whoever works on a source at the same time.           *)
(***************************************************************************)

\* An operator's call keeps what it read until it saves it.
LEMMA StepEffect ==
  ASSUME TypeInv, NEW o \in Operators, NEW call \in Calls, NEW from,
         NEW to \in {"first", "stage", "disable", "last"}, Step(o, call, from, to)
  PROVE  /\ \A u \in Operators \ {o} : doing'[u] = doing[u]
         /\ doing[o] \in CallType /\ doing[o] # None
         /\ doing[o].call = call /\ doing[o].step = from
         /\ doing'[o] = [doing[o] EXCEPT !.step = to] /\ doing'[o] \in CallType
  BY DEF TypeInv, TypeOK, CallType, Step

LEMMA SavedType ==
  ASSUME NEW j \in CallType, j.known \in Definitions \cup {Listed}
  PROVE  Saved(j) \in RowType /\ Staged(j) \in RowType
<1>1. Staged(j) \in RowType
  BY DEF CallType, RowType, Row, Staged
<1>2. \/ Saved(j) = [Staged(j) EXCEPT !.state = "enabled"]
      \/ Saved(j) = [j.copy EXCEPT !.expects = j.known, !.state = "paused"]
      \/ Saved(j) = [j.copy EXCEPT !.state = "paused"]
      \/ Saved(j) = [j.copy EXCEPT !.state = "enabled"]
      \/ Saved(j) = [j.copy EXCEPT !.owner = "observed", !.state = "needs_attention"]
  BY DEF CallType, Calls, Saved
<1>3. j.copy \in RowType
  BY DEF CallType
<1> QED
  BY <1>1, <1>2, <1>3 DEF RowType

\* The states of the calls after a step of an operator.
LEMMA DoingNext ==
  ASSUME TypeInv, NEW o \in Operators, Operate(o)
  PROVE  /\ doing[o] \in CallType /\ doing[o] # None
         /\ \A u \in Operators \ {o} : doing'[u] = doing[u]
         /\ \/ doing'[o] = None
            \/ /\ doing'[o] \in CallType
               /\ \E to \in {"first", "stage", "disable", "last"} :
                    doing'[o] = [doing[o] EXCEPT !.step = to]
         /\ UNCHANGED <<known, at, scan, truth, native, answers, moves>>
<1>1. CASE TakeSnapshot(o)
  BY <1>1 DEF TypeInv, TypeOK, CallType, TakeSnapshot
<1>2. CASE Stage(o)
  BY <1>2, StepEffect DEF Stage, Calls, worldVars
<1>3. CASE Disable(o)
  BY <1>3, StepEffect DEF Disable, Calls
<1>4. CASE Restore(o)
  BY <1>4, StepEffect DEF Restore, Calls
<1>5. CASE Save(o)
  BY <1>5 DEF TypeInv, TypeOK, CallType, Save, worldVars
<1> QED
  BY <1>1, <1>2, <1>3, <1>4, <1>5 DEF Operate

\* The row after a step of an operator.
LEMMA RowNext ==
  ASSUME TypeInv, NEW o \in Operators, Operate(o)
  PROVE  \/ UNCHANGED row
         \/ /\ doing[o].source \in Sources /\ doing[o].known \in Definitions \cup {Listed}
            /\ doing'[o] # doing[o]
            /\ \/ /\ doing[o].call = "adopt" /\ row' = [row EXCEPT ![doing[o].source] = Staged(doing[o])]
                  /\ Staged(doing[o]) \in RowType
               \/ /\ row' = [row EXCEPT ![doing[o].source] = Saved(doing[o])]
                  /\ Saved(doing[o]) \in RowType /\ doing'[o] = None
<1>1. doing[o] \in CallType /\ doing[o] # None
  BY DoingNext
<1>2. doing[o].source \in Sources /\ doing[o].known \in Definitions \cup {Listed}
  BY <1>1 DEF TypeInv, CallInv, CallType
<1>3. CASE Stage(o)
  <2>1. doing'[o] = [doing[o] EXCEPT !.step = "disable"] /\ doing[o].step = "stage"
    BY <1>3, StepEffect DEF Stage, Calls
  <2>2. doing'[o].step = "disable"
    BY <1>1, <2>1 DEF CallType
  <2> QED
    BY <1>1, <1>2, <1>3, <2>1, <2>2, SavedType DEF Stage, Step, SaveRow
<1>4. CASE Save(o)
  <2>1. doing'[o] = None
    BY <1>4 DEF Save, TypeInv, TypeOK
  <2> QED
    BY <1>1, <1>2, <1>4, <2>1, SavedType DEF Save, SaveRow
<1>5. CASE TakeSnapshot(o) \/ Disable(o) \/ Restore(o)
  BY <1>5 DEF TakeSnapshot, Disable, Restore
<1> QED
  BY <1>3, <1>4, <1>5 DEF Operate

LEMMA OperateType ==
  ASSUME TypeInv, NEW o \in Operators, Operate(o)
  PROVE  TypeInv'
<1>1. off' \subseteq Sources /\ journal' \subseteq Sources
  <2>1. doing[o].source \in Sources
    BY DoingNext DEF CallType
  <2> QED
    BY <2>1 DEF Operate, TakeSnapshot, Stage, Disable, Restore, Save, worldVars, TypeInv, TypeOK
<1>2. doing' \in [Operators -> CallType \cup {None}]
  <2>1. \A u \in Operators : doing'[u] \in CallType \cup {None}
    BY DoingNext DEF TypeInv, TypeOK
  <2>2. doing' = [u \in Operators |-> doing'[u]]
    BY DEF Operate, TakeSnapshot, Stage, Disable, Restore, Save, Step, TypeInv, TypeOK
  <2> QED
    BY <2>1, <2>2
<1>3. /\ row' \in [Sources -> RowType \cup {None}]
      /\ \A s \in Sources : row'[s] # None => known'[s] # None
  <2>1. UNCHANGED known /\ known[doing[o].source] # None
    BY DoingNext DEF TypeInv, CallInv
  <2> QED
    BY <2>1, RowNext DEF TypeInv, TypeOK
<1>4. TypeOK'
  BY <1>1, <1>2, <1>3, DoingNext DEF TypeInv, TypeOK
<1>5. \A p \in Scanners : ScanInv(p)'
  <2>1. UNCHANGED <<known, at, scan>>
    BY DoingNext
  <2> QED
    BY <2>1 DEF TypeInv, ScanInv
<1>6. ASSUME NEW u \in Operators
      PROVE  CallInv(u)'
  <2>1. \/ doing'[u] = None \/ doing'[u] = doing[u]
        \/ \E to \in {"first", "stage", "disable", "last"} :
             doing'[u] = [doing[u] EXCEPT !.step = to]
    BY DoingNext
  <2>2. doing'[u] # None =>
          /\ doing[u] # None /\ doing[u] \in CallType
          /\ doing'[u].known = doing[u].known /\ doing'[u].source = doing[u].source
          /\ doing'[u].call = doing[u].call /\ doing'[u].copy = doing[u].copy
    BY <2>1, DoingNext DEF TypeInv, TypeOK, CallType
  <2> QED
    BY <2>2, DoingNext DEF TypeInv, CallInv
<1> QED
  BY <1>4, <1>5, <1>6 DEF TypeInv

LEMMA CallEffect ==
  ASSUME TypeInv, NEW o \in Operators, NEW call \in Calls, NEW s \in Sources, Call(o, call, s)
  PROVE  /\ doing[o] = None
         /\ \A u \in Operators \ {o} : doing'[u] = doing[u]
         /\ doing' \in [Operators -> CallType \cup {None}]
         /\ doing'[o].source = s /\ doing'[o].call = call /\ row[s] \in RowType
         /\ doing'[o].copy = row[s] /\ doing'[o].known = known[s]
         /\ known[s] \in Definitions \cup {Listed}
<1>1. row[s] \in RowType /\ known[s] \in Definitions \cup {Listed}
  BY DEF TypeInv, TypeOK, Call, Contents, Entries
<1> DEFINE step == IF call \in {"adopt", "rollback"} THEN "first" ELSE "last"
           j == [call |-> call, source |-> s, copy |-> row[s], known |-> known[s], step |-> step]
<1>2. j \in CallType
  BY <1>1 DEF CallType, Contents, Entries
<1>3. doing' = [doing EXCEPT ![o] = j] /\ doing[o] = None
  BY DEF Call
<1> QED
  BY <1>1, <1>2, <1>3 DEF TypeInv, TypeOK

LEMMA CallTypeInv ==
  ASSUME TypeInv, NEW o \in Operators, NEW call \in Calls, NEW s \in Sources, Call(o, call, s)
  PROVE  TypeInv'
<1>1. TypeOK'
  <2>1. /\ UNCHANGED <<worldVars, known, row, at, scan, truth>>
        /\ moves' = moves + 1 /\ moves < MaxMoves
    BY DEF Call, Move, MayMove
  <2>2. moves' \in 0..MaxMoves
    BY <2>1, ReconcileAssumption DEF TypeInv, TypeOK
  <2>3. doing' \in [Operators -> CallType \cup {None}]
    BY CallEffect
  <2> QED
    BY <2>1, <2>2, <2>3 DEF TypeInv, TypeOK, worldVars
<1>2. \A p \in Scanners : ScanInv(p)'
  BY DEF TypeInv, ScanInv, Call
<1>3. ASSUME NEW u \in Operators
      PROVE  CallInv(u)'
  <2>1. CASE u # o
    BY <2>1, CallEffect DEF TypeInv, CallInv, Call
  <2>2. CASE u = o
    <3>1. ~Refused(call, row[s], known[s]) /\ UNCHANGED known
      BY DEF Call
    <3>2. call \in {"acknowledge", "pause", "resume"} => row[s].owner = "adopted"
      BY <3>1 DEF Refused
    <3>3. known[s] # None
      BY CallEffect, ReconcileAssumption
    <3> HIDE DEF Call
    <3> QED
      BY <2>2, <3>1, <3>2, <3>3, CallEffect DEF CallInv
  <2> QED
    BY <2>1, <2>2
<1> QED
  BY <1>1, <1>2, <1>3 DEF TypeInv

\* What is left to show of a step of a scanner.
LEMMA ScannerType ==
  ASSUME TypeInv, NEW p \in Scanners, Alone(p),
         at' \in [Scanners -> Points], scan' = [q \in Scanners |-> scan'[q]],
         scan'[p] \in ScanType, ScanInv(p)',
         known' \in [Sources -> Contents], row' \in [Sources -> RowType \cup {None}],
         truth' \in [Scanners -> TruthType], moves' \in 0..MaxMoves,
         \A s \in Sources : known[s] # None => known'[s] # None,
         \A s \in Sources : row'[s] # None => known'[s] # None,
         UNCHANGED <<worldVars, doing>>
  PROVE  TypeInv'
<1>1. scan' \in [Scanners -> ScanType]
  BY DEF TypeInv, TypeOK, Alone
<1>2. TypeOK'
  BY <1>1 DEF TypeInv, TypeOK, worldVars
<1>3. ASSUME NEW q \in Scanners, q # p
      PROVE  ScanInv(q)'
  BY <1>3 DEF Alone, TypeInv, TypeOK, ScanType, ScanInv, Holding
<1>4. \A o \in Operators : CallInv(o)'
  BY DEF TypeInv, TypeOK, CallInv, CallType
<1> QED
  BY <1>2, <1>3, <1>4 DEF TypeInv

LEMMA ScannerFunctions ==
  ASSUME TypeInv, NEW p \in Scanners, ScanStep(p) \/ Fail(p)
  PROVE  at' \in [Scanners -> Points] /\ scan' = [q \in Scanners |-> scan'[q]]
  BY DEF TypeInv, TypeOK, Points, ScanStep, Fail, Look, Judge, Store, Read, Write, Sweep,
         ReadMissing, MarkMissing, EndPass, EndScan, Goto

LEMMA ScanTypeInv ==
  ASSUME TypeInv, NEW p \in Scanners, ScanStep(p) \/ Fail(p)
  PROVE  TypeInv'
<1>0. /\ at' \in [Scanners -> Points] /\ scan' = [q \in Scanners |-> scan'[q]]
      /\ scan[p] \in ScanType /\ ScanInv(p)
      /\ known \in [Sources -> Contents] /\ row \in [Sources -> RowType \cup {None}]
      /\ truth \in [Scanners -> TruthType] /\ moves \in 0..MaxMoves
      /\ \A s \in Sources : row[s] # None => known[s] # None
  BY ScannerFunctions DEF TypeInv, TypeOK
<1>1. CASE Look(p)
  <2>1. ScanInv(p)'
    BY <1>1, LookEffect DEF ScanInv, Holding
  <2>2. truth' \in [Scanners -> TruthType]
    <3>1. PICK listed \in SUBSET Sources : truth' = [truth EXCEPT ![p] = Witnessed(listed)]
      BY <1>1, LookEffect
    <3>2. Witnessed(listed) \in TruthType
      BY DEF Witnessed, TruthType, TypeInv, TypeOK
    <3> QED
      BY <1>0, <3>1, <3>2
  <2>3. UNCHANGED <<worldVars, known, row, doing>> /\ moves' \in 0..MaxMoves
    BY <1>0, <1>1, ReconcileAssumption DEF Look, Move, MayMove
  <2> QED
    BY <1>0, <1>1, <2>1, <2>2, <2>3, LookEffect, ScannerType
<1>2. CASE Judge(p)
  <2>1. /\ \A s \in scan[p].todo : scan[p].found[s] # None
        /\ scan[p].cur = None
        /\ UNCHANGED <<worldVars, known, row, moves, doing>>
    BY <1>0, <1>2 DEF Judge, ScanInv, Holding
  <2>2. ScanInv(p)'
    BY <1>2, <2>1, JudgeEffect DEF ScanInv, Holding
  <2>3. truth' \in [Scanners -> TruthType]
    <3>1. truth' = [truth EXCEPT ![p] = [truth[p] EXCEPT !.back = (answers # "nothing")]]
      BY <1>0, <1>2 DEF Judge
    <3>2. [truth[p] EXCEPT !.back = (answers # "nothing")] \in TruthType
      BY <1>0 DEF TruthType
    <3> QED
      BY <1>0, <3>1, <3>2
  <2> QED
    BY <1>0, <1>2, <2>1, <2>2, <2>3, JudgeEffect, ScannerType
<1>3. ASSUME NEW s \in Sources, Store(p, s)
      PROVE  TypeInv'
  <2>1. /\ \A t \in scan[p].todo : scan[p].found[t] # None
        /\ UNCHANGED <<worldVars, row, moves, doing, truth>>
    BY <1>0, <1>3 DEF Store, ScanInv
  <2>2. /\ scan[p].found[s] \in Contents /\ scan[p].found[s] # None
        /\ known' = [known EXCEPT ![s] = scan[p].found[s]]
    BY <1>0, <1>3, StoreEffect DEF ScanType
  <2>3. /\ known' \in [Sources -> Contents] /\ known'[s] # None
        /\ \A t \in Sources : known[t] # None => known'[t] # None
    BY <1>0, <2>2
  <2>4. ScanInv(p)'
    BY <1>3, <2>1, <2>3, StoreEffect, ReconcileAssumption DEF ScanInv, Holding
  <2> QED
    BY <1>0, <1>3, <2>1, <2>3, <2>4, StoreEffect, ScannerType
<1>4. CASE Read(p)
  <2>1. /\ at[p] = "read" /\ scan[p].found[scan[p].cur] # None
        /\ known[scan[p].cur] # None
        /\ \A t \in scan[p].todo : scan[p].found[t] # None
        /\ UNCHANGED <<worldVars, known, row, moves, doing, truth>>
    BY <1>0, <1>4 DEF Read, ScanInv, Holding
  <2>2. ScanInv(p)'
    BY <1>4, <2>1, ReadEffect, ReconcileAssumption DEF ScanInv, Holding
  <2> QED
    BY <1>0, <1>4, <2>1, <2>2, ReadEffect, ScannerType
<1>5. CASE Write(p)
  <2>1. /\ Alone(p) /\ at'[p] = "pick" /\ scan'[p] \in ScanType
        /\ scan'[p].found = scan[p].found /\ scan'[p].todo = scan[p].todo
        /\ scan'[p].cur = None /\ scan'[p].complete = scan[p].complete
    BY <1>5, ReleaseEffect DEF Write
  <2>2. /\ \A t \in scan[p].todo : scan[p].found[t] # None
        /\ known[scan[p].cur] # None
        /\ UNCHANGED <<worldVars, known, moves, doing, truth>>
    BY <1>0, <1>5 DEF Write, ScanInv, Holding
  <2>3. ScanInv(p)'
    BY <2>1, <2>2 DEF ScanInv, Holding
  <2>4. /\ row' \in [Sources -> RowType \cup {None}]
        /\ \A s \in Sources : row'[s] # None => known'[s] # None
    BY <1>0, <1>5, <2>2, WriteEffect
  <2> QED
    BY <1>0, <2>1, <2>2, <2>3, <2>4, ScannerType
<1>6. CASE Sweep(p) /\ scan[p].complete
  <2>1. ScanInv(p)'
    BY <1>6, SweepEffect DEF ScanInv, Holding
  <2>2. UNCHANGED <<worldVars, known, row, moves, doing, truth>>
    BY <1>6 DEF Sweep
  <2> QED
    BY <1>0, <1>6, <2>1, <2>2, SweepEffect, ScannerType
<1>7. ASSUME NEW s \in Sources, ReadMissing(p, s)
      PROVE  TypeInv'
  <2>1. /\ scan[p].complete
        /\ \A t \in scan[p].todo : scan[p].found[t] = None
        /\ s # None
        /\ UNCHANGED <<worldVars, known, row, moves, doing, truth>>
    BY <1>0, <1>7, ReconcileAssumption DEF ReadMissing, ScanInv
  <2>2. ScanInv(p)'
    BY <1>7, <2>1, ReadMissingEffect DEF ScanInv, Holding
  <2> QED
    BY <1>0, <1>7, <2>1, <2>2, ReadMissingEffect, ScannerType
<1>8. CASE MarkMissing(p)
  <2>1. /\ Alone(p) /\ at'[p] = "sweep" /\ scan'[p] \in ScanType
        /\ scan'[p].found = scan[p].found /\ scan'[p].todo = scan[p].todo
        /\ scan'[p].cur = None /\ scan'[p].complete = scan[p].complete
    BY <1>8, ReleaseEffect DEF MarkMissing
  <2>2. /\ \A t \in scan[p].todo : scan[p].found[t] = None
        /\ scan[p].complete /\ known[scan[p].cur] # None
        /\ UNCHANGED <<worldVars, known, moves, doing, truth>>
    BY <1>0, <1>8 DEF MarkMissing, ScanInv, Holding
  <2>3. ScanInv(p)'
    BY <2>1, <2>2 DEF ScanInv, Holding
  <2>4. /\ row' \in [Sources -> RowType \cup {None}]
        /\ \A s \in Sources : row'[s] # None => known'[s] # None
    BY <1>0, <1>8, <2>2, MarkEffect
  <2> QED
    BY <1>0, <2>1, <2>2, <2>3, <2>4, ScannerType
<1>9. CASE EndScan(p) /\ UNCHANGED <<worldVars, known, row, doing>> /\ moves' \in 0..MaxMoves
  <2>1. ScanInv(p)'
    BY <1>9, EndScanEffect DEF ScanInv, Holding
  <2> QED
    BY <1>0, <1>9, <2>1, EndScanEffect, ScannerType
<1>10. ASSUME EndPass(p) \/ Fail(p) \/ (Sweep(p) /\ ~scan[p].complete)
       PROVE  EndScan(p) /\ UNCHANGED <<worldVars, known, row, doing>> /\ moves' \in 0..MaxMoves
  BY <1>0, <1>10, ReconcileAssumption DEF EndPass, Fail, Sweep, Move, MayMove
<1> QED
  BY <1>1, <1>2, <1>3, <1>4, <1>5, <1>6, <1>7, <1>8, <1>9, <1>10 DEF ScanStep

LEMMA TypeNext == TypeInv /\ [Next]_vars => TypeInv'
<1> SUFFICES ASSUME TypeInv, [Next]_vars
             PROVE  TypeInv'
  OBVIOUS
<1>1. ASSUME NEW s \in Sources, NEW content \in Entries, Edit(s, content)
      PROVE  TypeInv'
  BY <1>1, ReconcileAssumption
     DEF Edit, Move, MayMove, TypeInv, TypeOK, ScanInv, CallInv
<1>2. CASE Toggle
  BY <1>2, ReconcileAssumption DEF Toggle, Move, MayMove, TypeInv, TypeOK, ScanInv, CallInv
<1>3. ASSUME NEW p \in Scanners, ScanStep(p) \/ Fail(p)
      PROVE  TypeInv'
  BY <1>3, ScanTypeInv
<1>4. ASSUME NEW o \in Operators, NEW call \in Calls, NEW s \in Sources, Call(o, call, s)
      PROVE  TypeInv'
  BY <1>4, CallTypeInv
<1>5. ASSUME NEW o \in Operators, Operate(o)
      PROVE  TypeInv'
  BY <1>5, OperateType
<1>6. CASE UNCHANGED vars
  BY <1>6 DEF vars, worldVars, TypeInv, TypeOK, ScanInv, CallInv
<1> QED
  BY <1>1, <1>2, <1>3, <1>4, <1>5, <1>6 DEF Next

\* Whoever works on a source at the same time: every row has a source, a scanner marks
\* only what a complete scan missed (mark_missing_sources), it reconciles only what it
\* found (reconcile_discovered_source), and a call goes on only when it was not refused.
THEOREM ReconcileTypeInvariant == Spec => []TypeInv
<1>1. Init => TypeInv
  BY TypeInit
<1>2. TypeInv /\ [Next]_vars => TypeInv'
  BY TypeNext
<1> QED
  BY <1>1, <1>2, PTL DEF Spec

-----------------------------------------------------------------------------
(***************************************************************************)
(* One process at a time works on a source (Patient).  Then the copy of a  *)
(* row that a scanner holds is the row when it writes it back.             *)
(***************************************************************************)
Exclusive ==
  /\ \A p, q \in Scanners : p # q /\ scan[p].cur # None => scan[p].cur # scan[q].cur
  /\ \A p \in Scanners, o \in Operators : doing[o] # None => scan[p].cur # doing[o].source
  /\ \A o, u \in Operators :
       o # u /\ doing[o] # None /\ doing[u] # None => doing[o].source # doing[u].source

CopiesAreCurrent ==
  \A p \in Scanners : at[p] \in {"write", "mark"} => scan[p].copy = row[scan[p].cur]

RowInv == TypeInv /\ Exclusive /\ CopiesAreCurrent

LEMMA RowInit == Init => RowInv
<1> SUFFICES ASSUME Init
             PROVE  RowInv
  OBVIOUS
<1>1. TypeInv
  BY TypeInit
<1>2. \A p \in Scanners : at[p] = "idle" /\ scan[p].cur = None
  BY DEF Init, NoScan
<1>3. \A o \in Operators : doing[o] = None
  BY DEF Init
<1> QED
  BY <1>1, <1>2, <1>3 DEF RowInv, Exclusive, CopiesAreCurrent

\* What a step of a scanner means for the sources in hand and for their rows.
LEMMA ScannerMoves ==
  ASSUME TypeInv, NEW p \in Scanners, ScanStep(p) \/ Fail(p)
  PROVE  /\ Alone(p) /\ UNCHANGED doing
         /\ \/ scan'[p].cur \in {None, scan[p].cur}
            \/ scan'[p].cur \in Sources /\ Free(scan'[p].cur)
         /\ \/ UNCHANGED row
            \/ /\ scan[p].cur \in Sources /\ at'[p] \notin {"write", "mark"}
               /\ \A s \in Sources \ {scan[p].cur} : row'[s] = row[s]
         /\ at'[p] \in {"write", "mark"} => scan'[p].copy = row'[scan'[p].cur]
<1>1. CASE Look(p)
  BY <1>1, LookEffect DEF Look
<1>2. CASE Judge(p)
  BY <1>2, JudgeEffect DEF Judge
<1>3. ASSUME NEW s \in Sources, Store(p, s)
      PROVE  /\ Alone(p) /\ UNCHANGED <<doing, row>> /\ at'[p] = "read"
             /\ scan'[p].cur \in Sources /\ Free(scan'[p].cur)
  BY <1>3, StoreEffect DEF Store
<1>4. CASE Read(p)
  BY <1>4, ReadEffect DEF Read
<1>5. CASE Write(p)
  <2>1. Alone(p) /\ at'[p] = "pick" /\ scan'[p].cur = None
    BY <1>5, ReleaseEffect DEF Write
  <2> QED
    BY <1>5, <2>1, WriteEffect DEF Write
<1>6. CASE Sweep(p) /\ scan[p].complete
  BY <1>6, SweepEffect DEF Sweep
<1>7. ASSUME NEW s \in Sources, ReadMissing(p, s)
      PROVE  /\ Alone(p) /\ UNCHANGED <<doing, row>>
             /\ \/ at'[p] = "sweep" /\ scan'[p].cur = None
                \/ /\ at'[p] = "mark" /\ scan'[p].cur \in Sources /\ Free(scan'[p].cur)
                   /\ scan'[p].copy = row[scan'[p].cur]
  BY <1>7, ReadMissingEffect DEF ReadMissing
<1>8. CASE MarkMissing(p)
  <2>1. Alone(p) /\ at'[p] = "sweep" /\ scan'[p].cur = None
    BY <1>8, ReleaseEffect DEF MarkMissing
  <2>2. scan[p].cur \in Sources /\ \A s \in Sources \ {scan[p].cur} : row'[s] = row[s]
    BY <1>8, MarkEffect DEF TypeInv, TypeOK
  <2> QED
    BY <1>8, <2>1, <2>2 DEF MarkMissing
<1>9. ASSUME EndPass(p) \/ Fail(p) \/ (Sweep(p) /\ ~scan[p].complete)
      PROVE  EndScan(p) /\ UNCHANGED <<doing, row>>
  BY <1>9 DEF EndPass, Fail, Sweep
<1>10. CASE EndScan(p) /\ UNCHANGED <<doing, row>>
  BY <1>10, EndScanEffect
<1> QED
  BY <1>1, <1>2, <1>3, <1>4, <1>5, <1>6, <1>7, <1>8, <1>9, <1>10 DEF ScanStep

\* A step of an operator changes the row of its source only.
LEMMA OperatorMoves ==
  ASSUME TypeInv, NEW o \in Operators, Operate(o)
  PROVE  /\ UNCHANGED <<at, scan, known>>
         /\ \A u \in Operators \ {o} : doing'[u] = doing[u]
         /\ doing[o] # None
         /\ doing'[o] # None => doing'[o].source = doing[o].source
         /\ \A s \in Sources \ {doing[o].source} : row'[s] = row[s]
<1>1. doing'[o] # None => doing'[o].source = doing[o].source
  BY DoingNext DEF CallType
<1>2. \A s \in Sources \ {doing[o].source} : row'[s] = row[s]
  BY RowNext DEF TypeInv, TypeOK
<1> QED
  BY <1>1, <1>2, DoingNext

LEMMA RowNextInv ==
  ASSUME Patient, RowInv, [Next]_vars
  PROVE  RowInv'
<1>0. TypeInv /\ Exclusive /\ CopiesAreCurrent /\ TypeInv'
  BY TypeNext DEF RowInv
<1>1. ASSUME NEW p \in Scanners, ScanStep(p) \/ Fail(p)
      PROVE  Exclusive' /\ CopiesAreCurrent'
  <2>1. /\ Alone(p) /\ UNCHANGED doing
        /\ \/ scan'[p].cur \in {None, scan[p].cur}
           \/ scan'[p].cur \in Sources /\ Free(scan'[p].cur)
        /\ \/ UNCHANGED row
           \/ /\ scan[p].cur \in Sources /\ at'[p] \notin {"write", "mark"}
              /\ \A s \in Sources \ {scan[p].cur} : row'[s] = row[s]
        /\ at'[p] \in {"write", "mark"} => scan'[p].copy = row'[scan'[p].cur]
    BY <1>0, <1>1, ScannerMoves
  <2>2. Exclusive'
    <3>1. scan'[p].cur \in {None, scan[p].cur} \/ ~Busy(scan'[p].cur)
      BY <2>1 DEF Free
    <3>2. \A o \in Operators : doing[o] # None => doing[o].source # None
      BY <1>0, ReconcileAssumption DEF TypeInv, TypeOK, CallType
    <3> QED
      BY <1>0, <2>1, <3>1, <3>2 DEF Exclusive, Alone, Busy
  <2>3. ASSUME NEW q \in Scanners, q # p, at[q] \in {"write", "mark"}
        PROVE  scan[q].cur \in Sources /\ scan[q].cur # scan[p].cur
    <3>1. scan[q].cur # None /\ scan[q].cur \in Sources \cup {None}
      BY <1>0, <2>3, Scanner DEF Holding, ScanType
    <3> QED
      BY <1>0, <2>3, <3>1 DEF Exclusive
  <2>4. CopiesAreCurrent'
    BY <1>0, <2>1, <2>3 DEF CopiesAreCurrent, Alone
  <2> QED
    BY <2>2, <2>4
<1>2. ASSUME NEW o \in Operators, Operate(o)
      PROVE  Exclusive' /\ CopiesAreCurrent'
  <2>1. /\ UNCHANGED <<at, scan>>
        /\ \A u \in Operators \ {o} : doing'[u] = doing[u]
        /\ doing[o] # None
        /\ doing'[o] # None => doing'[o].source = doing[o].source
        /\ \A s \in Sources \ {doing[o].source} : row'[s] = row[s]
    BY <1>0, <1>2, OperatorMoves
  <2>2. \A p \in Scanners : at[p] \in {"write", "mark"} =>
          scan[p].cur \in Sources \ {doing[o].source}
    <3>1. \A p \in Scanners : at[p] \in {"write", "mark"} => scan[p].cur # None /\ scan[p] \in ScanType
      BY <1>0, Scanner DEF Holding
    <3> QED
      BY <1>0, <2>1, <3>1 DEF Exclusive, ScanType
  <2> QED
    BY <1>0, <2>1, <2>2 DEF Exclusive, CopiesAreCurrent
<1>3. ASSUME NEW o \in Operators, NEW call \in Calls, NEW s \in Sources, Call(o, call, s)
      PROVE  Exclusive' /\ CopiesAreCurrent'
  <2>1. /\ \A u \in Operators \ {o} : doing'[u] = doing[u]
        /\ doing'[o].source = s /\ ~Busy(s) /\ UNCHANGED <<at, scan, row>>
    BY <1>0, <1>3, CallEffect DEF Call, Free
  <2> QED
    BY <1>0, <2>1 DEF Busy, Exclusive, CopiesAreCurrent
<1>4. CASE UNCHANGED <<row, at, scan, doing>>
  BY <1>0, <1>4 DEF RowInv, Exclusive, CopiesAreCurrent
<1>5. ASSUME NEW s \in Sources, NEW content \in Entries, Edit(s, content)
      PROVE  UNCHANGED <<row, at, scan, doing>>
  BY <1>5 DEF Edit
<1> QED
  BY <1>0, <1>1, <1>2, <1>3, <1>4, <1>5 DEF RowInv, Next, Toggle, vars

\* With one process at a time on a source, its row is what the scanner that is about
\* to write it has read (reconcile_discovered_source, mark_missing_sources).
THEOREM CopiesStayCurrent == Patient => (Spec => []RowInv)
<1> SUFFICES ASSUME Patient
             PROVE  Spec => []RowInv
  OBVIOUS
<1>1. Init => RowInv
  BY RowInit
<1>2. RowInv /\ [Next]_vars => RowInv'
  BY RowNextInv
<1> QED
  BY <1>1, <1>2, PTL DEF Spec

-----------------------------------------------------------------------------
(***************************************************************************)
(* What a scan may do to an owned automation.                              *)
(***************************************************************************)
LEMMA ScannerAlone ==
  ASSUME TypeInv, [Next]_vars, NEW p \in Scanners, scan'[p] # scan[p]
  PROVE  ScanStep(p) \/ Fail(p)
<1>1. ASSUME NEW q \in Scanners, ScanStep(q) \/ Fail(q)
      PROVE  q = p
  BY <1>1, ScannerMoves DEF Alone
<1>2. ASSUME NEW o \in Operators, Operate(o)
      PROVE  UNCHANGED scan
  BY <1>2, DoingNext
<1> QED
  BY <1>1, <1>2 DEF Next, Edit, Toggle, Call, vars

\* Only its two writes change a row.
LEMMA ScannerWrites ==
  ASSUME NEW p \in Scanners, ScanStep(p) \/ Fail(p), ~Write(p), ~MarkMissing(p)
  PROVE  UNCHANGED row
  BY DEF ScanStep, Fail, Look, Judge, Store, Read, Sweep, ReadMissing, EndPass

LEMMA OnlyMarked ==
  ASSUME TypeInv, [Next]_vars, NEW p \in Scanners, scan'[p] # scan[p],
         NEW s \in Sources, Owned(s), ~Overtaken(p, s)
  PROVE  row'[s] \in {row[s], Marked(row[s])}
<1>1. scan[p].cur = s => scan[p].copy = row[s]
  BY DEF Overtaken
<1>2. CASE Write(p)
  <2>1. scan[p].cur = s => \A d : Reconciled(scan[p].copy, d) \in {row[s], Marked(row[s])}
    BY <1>1 DEF Reconciled, Owned
  <2> QED
    BY <1>2, <2>1, WriteEffect
<1>3. CASE MarkMissing(p)
  <2>1. row' = [row EXCEPT ![scan[p].cur] = Marked(scan[p].copy)] /\ row \in [Sources -> RowType \cup {None}]
    BY <1>3, MarkEffect DEF TypeInv, TypeOK
  <2> QED
    BY <1>1, <2>1
<1> QED
  BY <1>2, <1>3, ScannerAlone, ScannerWrites

\* Whatever overlaps and whatever fails: a scanner changes an owned automation but to
\* mark it only when somebody wrote the row between its read of that row and its write
\* (reconcile_discovered_source and mark_missing_sources, whose save_automation writes the
\* whole row from the copy that was read).
THEOREM StaleCopiesAloneDisown == Spec => OnlyStaleCopiesDisown
<1>1. TypeInv /\ [Next]_vars =>
        [\A p \in Scanners : scan'[p] # scan[p] =>
           \A s \in Sources :
             Owned(s) /\ ~Overtaken(p, s) => row'[s] \in {row[s], Marked(row[s])}]_vars
  BY OnlyMarked
<1> QED
  BY <1>1, ReconcileTypeInvariant, PTL DEF Spec, OnlyStaleCopiesDisown

-----------------------------------------------------------------------------
(***************************************************************************)
(* What a scanner sees: of each entry what the entry was, but for those    *)
(* that adoption changed or hid, for units that were only listed, and for  *)
(* a provider that was away.                                               *)
(***************************************************************************)
Altered(t, s) == s \in t.off /\ WhenOff[t.entries[s]] # t.entries[s]

Seen(p, s) ==
  \/ scan[p].found[s] = truth[p].entries[s]
  \/ Altered(truth[p], s)
  \/ s \in truth[p].listed
  \/ truth[p].away /\ scan[p].found[s] = None

SeesTruth ==
  \A p \in Scanners : at[p] # "idle" =>
    /\ \A s \in Sources : Seen(p, s)
    /\ scan[p].complete => truth[p].back

LEMMA LookSees ==
  ASSUME TypeInv, NEW p \in Scanners, Look(p), NEW s \in Sources
  PROVE  Seen(p, s)'
<1>1. PICK listed \in SUBSET Sources :
        /\ scan'[p].found = [u \in Sources |-> Shown(u, listed)]
        /\ truth' = [truth EXCEPT ![p] = Witnessed(listed)]
  BY LookEffect
<1>2. truth'[p] = Witnessed(listed)
  BY <1>1 DEF TypeInv, TypeOK
<1>3. /\ truth'[p].entries = native /\ truth'[p].off = off /\ truth'[p].listed = listed
      /\ truth'[p].away = (answers = "nothing")
  BY <1>2 DEF Witnessed
<1>4. scan'[p].found[s] = Shown(s, listed)
  BY <1>1
<1>5. CASE answers = "nothing"
  BY <1>3, <1>4, <1>5 DEF Shown, Seen
<1>6. CASE s \in off /\ native[s] # None /\ WhenOff[native[s]] # native[s]
  BY <1>3, <1>6 DEF Seen, Altered
<1>7. CASE answers # "nothing" /\ Visible(s) = native[s]
  BY <1>3, <1>4, <1>7 DEF Shown, Seen
<1> QED
  BY <1>5, <1>6, <1>7 DEF Visible

LEMMA SeesNext ==
  ASSUME TypeInv, SeesTruth, [Next]_vars
  PROVE  SeesTruth'
<1>1. ASSUME NEW p \in Scanners, Alone(p), UNCHANGED truth, at[p] # "idle",
             scan'[p].found = scan[p].found, scan'[p].complete = scan[p].complete
      PROVE  SeesTruth'
  BY <1>1 DEF SeesTruth, Seen, Alone
<1>2. ASSUME NEW p \in Scanners, Look(p)
      PROVE  SeesTruth'
  <2>1. Alone(p) /\ ~scan'[p].complete /\ \A q \in Scanners \ {p} : truth'[q] = truth[q]
    BY <1>2, LookEffect DEF TypeInv, TypeOK
  <2>2. \A s \in Sources : Seen(p, s)'
    BY <1>2, LookSees
  <2> QED
    BY <2>1, <2>2 DEF SeesTruth, Seen, Alone
<1>3. ASSUME NEW p \in Scanners, Judge(p)
      PROVE  SeesTruth'
  <2>1. /\ Alone(p) /\ scan'[p].found = scan[p].found
        /\ scan'[p].complete = (answers # "nothing") /\ at[p] = "judge"
    BY <1>3, JudgeEffect DEF Judge
  <2>2. truth' = [truth EXCEPT ![p].back = (answers # "nothing")] /\ truth \in [Scanners -> TruthType]
    BY <1>3 DEF Judge, TypeInv, TypeOK
  <2>3. /\ \A q \in Scanners \ {p} : truth'[q] = truth[q]
        /\ truth'[p].entries = truth[p].entries /\ truth'[p].off = truth[p].off
        /\ truth'[p].listed = truth[p].listed /\ truth'[p].away = truth[p].away
        /\ truth'[p].back = (answers # "nothing")
    BY <2>2 DEF TruthType
  <2> QED
    BY <2>1, <2>3 DEF SeesTruth, Seen, Altered, Alone
<1>4. ASSUME NEW p \in Scanners, NEW s \in Sources, Store(p, s)
      PROVE  SeesTruth'
  BY <1>1, <1>4, StoreEffect DEF Store
<1>5. ASSUME NEW p \in Scanners, Read(p)
      PROVE  SeesTruth'
  BY <1>1, <1>5, ReadEffect DEF Read
<1>6. ASSUME NEW p \in Scanners, Write(p) \/ MarkMissing(p)
      PROVE  SeesTruth'
  BY <1>1, <1>6, ReleaseEffect DEF Write, MarkMissing
<1>7. ASSUME NEW p \in Scanners, Sweep(p), scan[p].complete
      PROVE  SeesTruth'
  BY <1>1, <1>7, SweepEffect DEF Sweep
<1>8. ASSUME NEW p \in Scanners, NEW s \in Sources, ReadMissing(p, s)
      PROVE  SeesTruth'
  BY <1>1, <1>8, ReadMissingEffect DEF ReadMissing
<1>9. ASSUME NEW p \in Scanners, EndScan(p)
      PROVE  SeesTruth'
  BY <1>9, EndScanEffect DEF SeesTruth, Seen, Alone
<1>10. ASSUME NEW p \in Scanners, EndPass(p) \/ Fail(p) \/ (Sweep(p) /\ ~scan[p].complete)
       PROVE  EndScan(p)
  BY <1>10 DEF EndPass, Fail, Sweep
<1>11. ASSUME NEW p \in Scanners, ScanStep(p) \/ Fail(p)
       PROVE  SeesTruth'
  BY <1>2, <1>3, <1>4, <1>5, <1>6, <1>7, <1>8, <1>9, <1>10, <1>11 DEF ScanStep
<1>12. CASE UNCHANGED <<at, scan, truth>>
  BY <1>12 DEF SeesTruth, Seen
<1>13. ASSUME NEW o \in Operators, Operate(o)
       PROVE  UNCHANGED <<at, scan, truth>>
  BY <1>13, DoingNext
<1> QED
  BY <1>11, <1>12, <1>13 DEF Next, Edit, Toggle, Call, vars, worldVars

Explained(p, s) ==
  \/ Founded(truth[p], s, row'[s])
  \/ Altered(truth[p], s)
  \/ s \in truth[p].listed
  \/ truth[p].away /\ truth[p].back

\* A reconciliation marks a row whose copy expects another definition than the one that
\* was found, or the row of an observed source that cannot be run.
LEMMA ReconciledMarks ==
  ASSUME NEW copy \in RowType \cup {None}, NEW d, ~Retained(copy, d),
         Reconciled(copy, d) # None, Reconciled(copy, d).state = "needs_attention"
  PROVE  d \in Unrunnable \/ Reconciled(copy, d).expects # d
<1>1. Row("observed", "enabled", d, d).state = "enabled"
  BY DEF Row
<1>2. copy # None => Marked(copy).expects = copy.expects
  BY DEF Marked, RowType
<1> QED
  BY <1>1, <1>2 DEF Reconciled, Retained, RowType

LEMMA AlarmsExplained ==
  ASSUME TypeInv, SeesTruth, [Next]_vars, NEW p \in Scanners, scan'[p] # scan[p],
         NEW s \in Sources, Alarmed(s)
  PROVE  Explained(p, s)
<1>0. row \in [Sources -> RowType \cup {None}] /\ row'[s] # row[s]
  BY DEF TypeInv, TypeOK, Alarmed, Attended
<1>1. row'[s] # None /\ row'[s].state = "needs_attention"
  BY DEF Alarmed, Attended
<1>2. CASE Write(p)
  <2> DEFINE d == scan[p].found[s]
  <2>1. scan[p].cur = s /\ ~Retained(scan[p].copy, d) /\ row'[s] = Reconciled(scan[p].copy, d)
    BY <1>0, <1>2, WriteEffect
  <2>2. scan[p].copy \in RowType \cup {None} /\ d \in Definitions \cup {Listed}
    BY <1>2, <2>1, WriteEffect
  <2>3. d \in Unrunnable \/ row'[s].expects # d
    BY <1>1, <2>1, <2>2, ReconciledMarks
  <2>4. Seen(p, s) /\ d # None
    BY <1>2, <2>2, ReconcileAssumption DEF SeesTruth, Write
  <2>5. truth[p].entries[s] # Listed
    BY ReconcileAssumption DEF TypeInv, TypeOK, TruthType, Entries
  <2> QED
    BY <2>3, <2>4, <2>5 DEF Seen, Explained, Founded, Unrunnable
<1>3. CASE MarkMissing(p)
  <2>1. /\ scan[p].cur = s /\ scan[p].found[s] = None /\ scan[p].complete
        /\ row'[s] \in RowType
    BY <1>0, <1>3, MarkEffect
  <2>2. row'[s].expects # None
    BY <2>1, ReconcileAssumption DEF RowType
  <2>3. Seen(p, s) /\ truth[p].back
    BY <1>3, <2>1 DEF SeesTruth, MarkMissing
  <2> QED
    BY <2>1, <2>2, <2>3 DEF Seen, Explained, Founded
<1> QED
  BY <1>0, <1>2, <1>3, ScannerAlone, ScannerWrites

\* Whatever overlaps, fails or goes away: discovery marks an automation for an entry that
\* differed in truth from what its row expects or that cannot be run, or for one of three
\* reasons that the code leaves open: the entry's own adoption altered or hid it, systemd
\* listed the unit without its properties, or the provider was away when it was scanned
\* and back when it was asked for (scan_native_snapshot, mark_missing_sources).
THEOREM EveryAlarmIsExplained == Spec => AlarmsAreExplained
<1>1. Init => SeesTruth
  BY DEF Init, SeesTruth
<1>2. TypeInv /\ SeesTruth /\ [Next]_vars => SeesTruth'
  BY SeesNext
<1>3. TypeInv /\ SeesTruth /\ [Next]_vars =>
        [\A p \in Scanners : scan'[p] # scan[p] =>
           \A s \in Sources : Alarmed(s) =>
             \/ Founded(truth[p], s, row'[s])
             \/ s \in truth[p].off /\ WhenOff[truth[p].entries[s]] # truth[p].entries[s]
             \/ s \in truth[p].listed
             \/ truth[p].away /\ truth[p].back]_vars
  BY AlarmsExplained DEF Explained, Altered
<1> QED
  BY <1>1, <1>2, <1>3, ReconcileTypeInvariant, PTL DEF Spec, AlarmsAreExplained

-----------------------------------------------------------------------------
(***************************************************************************)
(* What an adoption takes over.                                            *)
(***************************************************************************)

\* A scanner reconciles a row with the definition that it stored.
StoresFirst ==
  \A p \in Scanners : at[p] \in {"read", "write"} => known[scan[p].cur] = scan[p].found[scan[p].cur]

\* The row of an observed source that can be run has the definition that was stored,
\* unless a scanner has it in hand.
RunsWhatIsKnown ==
  \A s \in Sources :
    /\ row[s] # None /\ row[s].owner = "observed" /\ row[s].state # "needs_attention"
    /\ known[s] \notin Unrunnable
    /\ \A p \in Scanners : at[p] \in {"read", "write"} => scan[p].cur # s
    => row[s].runs = known[s]

AdoptsKnown ==
  \A o \in Operators :
    doing[o] # None /\ doing[o].call = "adopt" => doing[o].copy.runs = doing[o].known

TakeoverInv == RowInv /\ StoresFirst /\ RunsWhatIsKnown /\ AdoptsKnown

LEMMA TakeoverInit == Init => TakeoverInv
<1> SUFFICES ASSUME Init
             PROVE  TakeoverInv
  OBVIOUS
<1>1. RowInv
  BY RowInit
<1>2. /\ \A p \in Scanners : at[p] = "idle"
      /\ \A s \in Sources : row[s] = None
      /\ \A o \in Operators : doing[o] = None
  BY DEF Init
<1> QED
  BY <1>1, <1>2 DEF TakeoverInv, StoresFirst, RunsWhatIsKnown, AdoptsKnown

\* What a scanner writes is the definition it found, or is marked, or is owned.
LEMMA WritesFound ==
  ASSUME TypeInv, CopiesAreCurrent, NEW p \in Scanners, Write(p),
         row'[scan[p].cur] # None, row'[scan[p].cur].owner = "observed",
         row'[scan[p].cur].state # "needs_attention",
         scan[p].found[scan[p].cur] \notin Unrunnable
  PROVE  row'[scan[p].cur].runs = scan[p].found[scan[p].cur]
<1> DEFINE d == scan[p].found[scan[p].cur]
           r == row[scan[p].cur]
<1>1. /\ scan[p].copy = r /\ r \in RowType \cup {None}
      /\ row'[scan[p].cur] = IF Retained(r, d) THEN r ELSE Reconciled(r, d)
  BY WriteEffect DEF CopiesAreCurrent, Write
<1>2. ~Retained(r, d)
  BY <1>1 DEF Retained
<1>3. r # None /\ r.owner # "observed" => r.owner = "adopted" /\ Marked(r).state = "needs_attention"
  BY <1>1 DEF RowType, Marked
<1>4. Row("observed", "enabled", d, d).runs = d
  BY DEF Row
<1> HIDE DEF d, r
<1>5. Reconciled(r, d) = IF r = None \/ r.owner = "observed" THEN Row("observed", "enabled", d, d)
                         ELSE IF r.expects # d THEN Marked(r) ELSE r
  BY DEF Reconciled, d
<1> QED
  BY <1>1, <1>2, <1>3, <1>4, <1>5 DEF d

LEMMA StoresFirstNext ==
  ASSUME Patient, RowInv, StoresFirst, [Next]_vars
  PROVE  StoresFirst'
<1>0. TypeInv /\ Exclusive
  BY DEF RowInv
<1>1. ASSUME NEW p \in Scanners, Alone(p), UNCHANGED known,
             at'[p] \in {"read", "write"} =>
               /\ at[p] \in {"read", "write"}
               /\ scan'[p].cur = scan[p].cur /\ scan'[p].found = scan[p].found
      PROVE  StoresFirst'
  BY <1>1 DEF StoresFirst, Alone
<1>2. ASSUME NEW p \in Scanners, NEW s \in Sources, Store(p, s)
      PROVE  StoresFirst'
  <2>1. /\ Alone(p) /\ at'[p] = "read" /\ scan'[p].cur = s /\ scan'[p].found = scan[p].found
        /\ known' = [known EXCEPT ![s] = scan[p].found[s]] /\ known \in [Sources -> Contents]
    BY <1>0, <1>2, StoreEffect DEF TypeInv, TypeOK
  <2>2. \A q \in Scanners : scan[q].cur # s
    BY <1>2 DEF Store, Free, Busy
  <2>3. \A q \in Scanners : at[q] \in {"read", "write"} => scan[q].cur \in Sources
    BY <1>0, Scanner DEF Holding, ScanType
  <2> QED
    BY <2>1, <2>2, <2>3 DEF StoresFirst, Alone
<1>3. ASSUME NEW p \in Scanners, ScanStep(p) \/ Fail(p), \A s \in Sources : ~Store(p, s)
      PROVE  StoresFirst'
  <2>1. CASE Look(p)
    BY <1>0, <1>1, <2>1, LookEffect DEF Look
  <2>2. CASE Judge(p)
    BY <1>0, <1>1, <2>2, JudgeEffect DEF Judge
  <2>3. CASE Read(p)
    BY <1>0, <1>1, <2>3, ReadEffect DEF Read
  <2>4. CASE Write(p) \/ MarkMissing(p)
    BY <1>0, <1>1, <2>4, ReleaseEffect DEF Write, MarkMissing
  <2>5. CASE Sweep(p) /\ scan[p].complete
    BY <1>0, <1>1, <2>5, SweepEffect DEF Sweep
  <2>6. ASSUME NEW s \in Sources, ReadMissing(p, s)
        PROVE  StoresFirst'
    BY <1>0, <1>1, <2>6, ReadMissingEffect DEF ReadMissing
  <2>7. CASE EndPass(p) \/ Fail(p) \/ (Sweep(p) /\ ~scan[p].complete)
    BY <1>0, <1>1, <2>7, EndScanEffect DEF EndPass, Fail, Sweep
  <2> QED
    BY <1>3, <2>1, <2>2, <2>3, <2>4, <2>5, <2>6, <2>7 DEF ScanStep
<1>4. CASE UNCHANGED <<known, at, scan>>
  BY <1>4 DEF StoresFirst
<1>5. ASSUME NEW o \in Operators, Operate(o)
      PROVE  UNCHANGED <<known, at, scan>>
  BY <1>0, <1>5, DoingNext
<1> QED
  BY <1>2, <1>3, <1>4, <1>5 DEF Next, Edit, Toggle, Call, vars

\* An operator saves a row that is owned or marked.
LEMMA OperatorsOwn ==
  ASSUME TypeInv, NEW o \in Operators, Operate(o), NEW s \in Sources, row'[s] # row[s]
  PROVE  row'[s].owner = "adopted" \/ row'[s].state = "needs_attention"
<1>1. /\ doing[o] \in CallType /\ doing[o].source = s
      /\ row'[s] = Staged(doing[o]) \/ row'[s] = Saved(doing[o])
  <2>1. row \in [Sources -> RowType \cup {None}]
    BY DEF TypeInv, TypeOK
  <2>2. /\ doing[o].source \in Sources
        /\ \/ row' = [row EXCEPT ![doing[o].source] = Staged(doing[o])]
           \/ row' = [row EXCEPT ![doing[o].source] = Saved(doing[o])]
    BY RowNext
  <2>3. doing[o] \in CallType
    BY DoingNext
  <2> QED
    BY <2>1, <2>2, <2>3
<1>2. Staged(doing[o]).owner = "adopted" /\ [Staged(doing[o]) EXCEPT !.state = "enabled"].owner = "adopted"
  BY DEF Staged, Row
<1>3. doing[o].copy \in RowType
  BY <1>1 DEF CallType
<1>4. doing[o].call \in {"acknowledge", "pause", "resume"} => doing[o].copy.owner = "adopted"
  BY DoingNext DEF TypeInv, CallInv
<1>5. Saved(doing[o]).owner = "adopted" \/ Saved(doing[o]).state = "needs_attention"
  <2>1. CASE doing[o].call = "adopt"
    BY <1>2, <2>1 DEF Saved
  <2>2. CASE doing[o].call = "rollback"
    BY <1>3, <2>2 DEF Saved, RowType
  <2>3. CASE doing[o].call = "acknowledge"
    BY <1>3, <1>4, <2>3 DEF Saved, RowType
  <2>4. CASE doing[o].call = "pause"
    BY <1>3, <1>4, <2>4 DEF Saved, RowType
  <2>5. CASE doing[o].call = "resume"
    BY <1>3, <1>4, <2>5 DEF Saved, RowType
  <2> QED
    BY <1>1, <2>1, <2>2, <2>3, <2>4, <2>5 DEF CallType, Calls
<1> QED
  BY <1>1, <1>2, <1>5

LEMMA RunsNext ==
  ASSUME Patient, Faults \cap {"read", "write"} = {}, RowInv, StoresFirst, RunsWhatIsKnown,
         [Next]_vars
  PROVE  RunsWhatIsKnown'
<1>0. TypeInv /\ Exclusive /\ CopiesAreCurrent
  BY DEF RowInv
<1>1. SUFFICES ASSUME NEW s \in Sources,
                      row'[s] # None, row'[s].owner = "observed", row'[s].state # "needs_attention",
                      known'[s] \notin Unrunnable,
                      \A p \in Scanners : at'[p] \in {"read", "write"} => scan'[p].cur # s
               PROVE  row'[s].runs = known'[s]
  BY DEF RunsWhatIsKnown
<1>2. ASSUME UNCHANGED <<row, known>>,
             \A p \in Scanners : at[p] \in {"read", "write"} /\ scan[p].cur = s =>
               at'[p] \in {"read", "write"} /\ scan'[p].cur = s
      PROVE  row'[s].runs = known'[s]
  BY <1>1, <1>2 DEF RunsWhatIsKnown
<1>3. ASSUME NEW p \in Scanners, NEW t \in Sources, Store(p, t)
      PROVE  row'[s].runs = known'[s]
  <2>1. /\ Alone(p) /\ at'[p] = "read" /\ scan'[p].cur = t /\ scan[p].cur = None
        /\ known' = [known EXCEPT ![t] = scan[p].found[t]] /\ UNCHANGED row
    BY <1>0, <1>3, StoreEffect DEF Store
  <2>2. s # t /\ s # None
    BY <1>1, <2>1, ReconcileAssumption
  <2>3. known'[s] = known[s]
    BY <2>1, <2>2, <1>0 DEF TypeInv, TypeOK
  <2> QED
    BY <1>1, <2>1, <2>2, <2>3 DEF RunsWhatIsKnown, Alone
<1>4. ASSUME NEW p \in Scanners, Write(p)
      PROVE  row'[s].runs = known'[s]
  <2>1. /\ Alone(p) /\ UNCHANGED known /\ scan[p].cur \in Sources
        /\ \A t \in Sources \ {scan[p].cur} : row'[t] = row[t]
    BY <1>0, <1>4, ReleaseEffect, WriteEffect DEF Write
  <2>2. CASE s = scan[p].cur
    <3>1. known[s] = scan[p].found[s]
      BY <1>4, <2>2 DEF StoresFirst, Write
    <3> QED
      BY <1>0, <1>1, <1>4, <2>1, <2>2, <3>1, WritesFound
  <2>3. CASE s # scan[p].cur
    BY <1>1, <2>1, <2>3 DEF RunsWhatIsKnown, Alone
  <2> QED
    BY <2>2, <2>3
<1>5. ASSUME NEW p \in Scanners, MarkMissing(p)
      PROVE  row'[s].runs = known'[s]
  <2>1. /\ Alone(p) /\ UNCHANGED known /\ at[p] = "mark"
        /\ row' = [row EXCEPT ![scan[p].cur] = Marked(scan[p].copy)]
        /\ row \in [Sources -> RowType \cup {None}] /\ scan[p].copy \in RowType
    BY <1>0, <1>5, ReleaseEffect, MarkEffect DEF MarkMissing, TypeInv, TypeOK
  <2>2. Marked(scan[p].copy).state = "needs_attention"
    BY <2>1 DEF Marked, RowType
  <2>3. row'[s] = row[s]
    BY <1>1, <2>1, <2>2
  <2> QED
    BY <1>1, <2>1, <2>3 DEF RunsWhatIsKnown, Alone
<1>6. ASSUME NEW p \in Scanners, ScanStep(p) \/ Fail(p), ~Write(p), ~MarkMissing(p),
             \A t \in Sources : ~Store(p, t)
      PROVE  row'[s].runs = known'[s]
  <2>1. UNCHANGED <<row, known>>
    BY <1>6 DEF ScanStep, Fail, Look, Judge, Read, Sweep, ReadMissing, EndPass
  <2>2. Alone(p)
    BY <1>0, <1>6, ScannerMoves
  <2>3. at[p] \in {"read", "write"} => Read(p)
    BY <1>6 DEF ScanStep, Fail, Look, Judge, Read, Sweep, ReadMissing, EndPass
  <2>4. Read(p) => at'[p] = "write" /\ scan'[p].cur = scan[p].cur
    BY <1>0, ReadEffect
  <2> QED
    BY <1>2, <2>1, <2>2, <2>3, <2>4 DEF Alone
<1>7. ASSUME NEW o \in Operators, Operate(o)
      PROVE  row'[s].runs = known'[s]
  <2>1. UNCHANGED <<known, at, scan>>
    BY <1>0, <1>7, DoingNext
  <2>2. row'[s] = row[s]
    BY <1>0, <1>1, <1>7, OperatorsOwn DEF RowInv
  <2> QED
    BY <1>1, <2>1, <2>2 DEF RunsWhatIsKnown
<1>8. CASE UNCHANGED <<row, known, at, scan>>
  BY <1>2, <1>8
<1> QED
  BY <1>3, <1>4, <1>5, <1>6, <1>7, <1>8 DEF Next, Edit, Toggle, Call, vars

LEMMA AdoptsNext ==
  ASSUME Patient, TypeInv, RunsWhatIsKnown, AdoptsKnown, [Next]_vars
  PROVE  AdoptsKnown'
<1>1. ASSUME NEW o \in Operators, NEW call \in Calls, NEW s \in Sources, Call(o, call, s)
      PROVE  AdoptsKnown'
  <2>1. /\ \A u \in Operators \ {o} : doing'[u] = doing[u]
        /\ doing'[o].call = call /\ doing'[o].copy = row[s] /\ doing'[o].known = known[s]
    BY <1>1, CallEffect
  <2>2. row[s] # None /\ ~Refused(call, row[s], known[s]) /\ ~Busy(s)
    BY <1>1 DEF Call, Free
  <2>3. call = "adopt" => row[s].runs = known[s]
    BY <2>2 DEF Refused, Busy, RunsWhatIsKnown
  <2> QED
    BY <2>1, <2>3 DEF AdoptsKnown
<1>2. ASSUME NEW o \in Operators, Operate(o)
      PROVE  AdoptsKnown'
  <2>1. /\ \A u \in Operators \ {o} : doing'[u] = doing[u]
        /\ doing[o] \in CallType /\ doing[o] # None
        /\ \/ doing'[o] = None
           \/ \E to \in {"first", "stage", "disable", "last"} :
                doing'[o] = [doing[o] EXCEPT !.step = to]
    BY <1>2, DoingNext
  <2>2. doing'[o] # None =>
          /\ doing'[o].call = doing[o].call /\ doing'[o].copy = doing[o].copy
          /\ doing'[o].known = doing[o].known
    BY <2>1 DEF CallType
  <2> QED
    BY <2>1, <2>2 DEF AdoptsKnown
<1>3. ASSUME NEW p \in Scanners, ScanStep(p) \/ Fail(p)
      PROVE  UNCHANGED doing
  BY <1>3, ScannerMoves
<1>4. CASE UNCHANGED doing
  BY <1>4 DEF AdoptsKnown
<1> QED
  BY <1>1, <1>2, <1>3, <1>4 DEF Next, Edit, Toggle, vars

\* What Taskrail runs in the place of an adopted entry is what that entry ran.
AdoptsWhatItDisables ==
  \A o \in Operators :
    doing[o] # None /\ doing[o].call = "adopt" /\ doing[o].step \in {"stage", "disable", "last"}
    => doing[o].copy.runs = doing[o].known

\* An adoption takes over the definition whose fingerprint it verified (adopt_source,
\* storage.rs get_source and get_automation): one process at a time works on a source,
\* and no scanner fails between storing a definition and reconciling its automation.
THEOREM AdoptionsRunTheEntry ==
  Patient /\ Faults \cap {"read", "write"} = {} => (Spec => []AdoptsWhatItDisables)
<1> SUFFICES ASSUME Patient, Faults \cap {"read", "write"} = {}
             PROVE  Spec => []AdoptsWhatItDisables
  OBVIOUS
<1>1. Init => TakeoverInv
  BY TakeoverInit
<1>2. TakeoverInv /\ [Next]_vars => TakeoverInv'
  BY RowNextInv, StoresFirstNext, RunsNext, AdoptsNext DEF TakeoverInv, RowInv
<1>3. TakeoverInv => AdoptsWhatItDisables
  BY DEF TakeoverInv, AdoptsKnown, AdoptsWhatItDisables
<1> QED
  BY <1>1, <1>2, <1>3, PTL DEF Spec
=============================================================================
