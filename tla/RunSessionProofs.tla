-------------------------- MODULE RunSessionProofs --------------------------
(***************************************************************************)
(* What RunSession establishes for every set of cancelling processes, any  *)
(* number of signals, and with or without a file system that may fail.     *)
(***************************************************************************)
EXTENDS RunSession, TLAPS

-----------------------------------------------------------------------------
(***************************************************************************)
(* The inductive invariant, part by part.                                  *)
(***************************************************************************)

\* What an update that is under way carries.
HoldsRecord ==
    \A c \in Clients :
        /\ io[c].phase \in {"hold", "open"} => io[c].rec \in TaskRecord
        /\ io[c].phase = "read" => io[c].patch \in Patches

\* Which parts of the state exist at which point of cmdRun.
Stages ==
    /\ pc \in {"context", "env", "spawn"} =>
            /\ child = "none" /\ ~activePid
            /\ timeout = "off" /\ grace = "off"
    /\ pc \in {"context", "env", "spawn", "stream"} => outcome = "none"
    /\ pc = "context" => ~listening
    /\ pc \in {"env", "spawn", "stream"} => listening
    /\ pc = "stream" => activePid /\ child # "none"
    /\ pc \notin {"context", "env", "spawn", "stream"} =>
            outcome # "none" /\ timeout # "armed" /\ forceKill # "armed"
    /\ child = "live" => pc = "stream"
    /\ activePid => child # "none"

\* A status that is a verdict is found only after cmdRun reached it, and
\* from an outcome that warrants it.
Decided == pc \in {"verdict", "returned"}

Earned(status) ==
    /\ status = "done" => Decided /\ outcome = "ok"
    /\ status = "failed" => Decided /\ outcome = "error"

Verdicts ==
    /\ outcome = "ok" => Success
    /\ outcome = "error" => ~Success
    /\ pc = "returned" => outcome = "ok"
    /\ exit = "drain" => pc = "returned"
    /\ seen => pc = "decide"
    /\ task.rec # NoRecord => Earned(task.rec.status)
    /\ \A c \in Clients :
        /\ io[c].phase \in {"hold", "open"} => Earned(io[c].rec.status)
        /\ io[c].phase = "read" => Earned(io[c].patch)

\* Where a cancellation by signal stands, and what it owes the provider.
Cancellation ==
    /\ ~handled => grace = "off" /\ ~cleanupDone /\ ~ledgerDone
    /\ grace = "armed" => ~cleanupDone
    /\ cleanupDone /\ grace # "off" => child \in Ended \/ sent = "kill"
    /\ grace # "off" => child # "none"
    /\ exit = "handler" => cleanupDone /\ ledgerDone
    /\ ~Alive /\ child = "live" => exit \in {"handler", "crash"}

\* Whoever is about to force the provider has asked it first.
AskedFirst ==
    /\ child = "live" /\ (forceKill = "armed" \/ grace = "armed")
            => sent # "none"
    /\ child = "none" => sent = "none"
    /\ timeout # "off" \/ forceKill # "off" => child # "none"

IInv ==
    /\ TypeOK
    /\ HoldsRecord
    /\ Stages
    /\ Verdicts
    /\ Cancellation
    /\ AskedFirst
-----------------------------------------------------------------------------
\* The serialized length of a record is a natural number.
LEMMA SizeType ==
    ASSUME NEW rec \in TaskRecord
    PROVE  Size(rec) \in Nat
<1> DEFINE Word == [running |-> 7, done |-> 4, failed |-> 6, cancelled |-> 9]
<1>1. Word[rec.status] \in Nat
  BY DEF TaskRecord, Status
<1>2. rec.ctx \in BOOLEAN /\ rec.env \in BOOLEAN
      /\ rec.pid \in BOOLEAN /\ rec.ended \in BOOLEAN
  BY DEF TaskRecord
<1> HIDE DEF Word
<1>3. QED
  BY <1>1, <1>2 DEF Size, Word

\* { ...record, ...patch } of a record is one.
LEMMA MergeType ==
    ASSUME NEW rec \in TaskRecord, NEW patch \in Patches
    PROVE  Merge(rec, patch) \in TaskRecord
  BY DEF Merge, TaskRecord, Patches, Final, Status

\* Whatever a write leaves behind is a file.
LEMMA OverlayType ==
    ASSUME NEW rec \in TaskRecord,
           NEW old \in [rec: TaskRecord \cup {NoRecord}, size: Nat]
    PROVE  Overlay(old, rec) \in [rec: TaskRecord \cup {NoRecord}, size: Nat]
  BY SizeType DEF Overlay

\* Taking up an update keeps the ledger well typed.
LEMMA BeginType ==
    ASSUME LedgerTypeOK, HoldsRecord, NEW c \in Clients,
           NEW patch \in Patches, Begin(c, patch), UNCHANGED task
    PROVE  LedgerTypeOK' /\ HoldsRecord'
  BY DEF LedgerTypeOK, HoldsRecord, Begin, Reading, Phases

\* A file-system step keeps the ledger well typed.
LEMMA FileStepType ==
    ASSUME LedgerTypeOK, HoldsRecord, NEW c \in Clients, FileStep(c)
    PROVE  LedgerTypeOK' /\ HoldsRecord'
<1> USE DEF LedgerTypeOK, HoldsRecord, Phases, Settle
<1>1. CASE ReadTask(c)
  <2>1. task.rec # NoRecord => Merge(task.rec, io[c].patch) \in TaskRecord
    BY <1>1, MergeType DEF ReadTask
  <2>2. QED
    BY <1>1, <2>1 DEF ReadTask
<1>2. CASE OpenTask(c)
  BY <1>2 DEF OpenTask, Empty
<1>3. CASE WriteTask(c)
  <2>1. Overlay(task, io[c].rec)
            \in [rec: TaskRecord \cup {NoRecord}, size: Nat]
    BY <1>3, OverlayType DEF WriteTask
  <2>2. QED
    BY <1>3, <2>1 DEF WriteTask
<1>4. QED
  BY <1>1, <1>2, <1>3 DEF FileStep
-----------------------------------------------------------------------------
\* The first state of a run satisfies the inductive invariant.
LEMMA InitIInv == Init => IInv
<1> SUFFICES ASSUME Init PROVE IInv
  OBVIOUS
<1>1. Created \in TaskRecord
  BY DEF Created, TaskRecord, Status
<1>2. Size(Created) \in Nat
  BY <1>1, SizeType
<1>3. TypeOK
  <2>1. task \in [rec: TaskRecord \cup {NoRecord}, size: Nat]
    BY <1>1, <1>2 DEF Init, Fresh
  <2>2. io \in [Clients -> [phase: Phases, patch: Patches \cup {"none"},
                            rec: TaskRecord \cup {NoRecord}]]
    BY DEF Init, Reading, Idle, Settle, Phases, Patches
  <2>3. canceller \in [Cancellers -> {"start", "mark", "stop"} \cup CancelExits]
    BY DEF Init
  <2>4. QED
    BY <2>1, <2>2, <2>3
    DEF Init, TypeOK, LedgerTypeOK, Points, Exits, Timer, Ended
<1>4. HoldsRecord
  BY DEF Init, HoldsRecord, Reading, Idle, Settle, Patches
<1>5. Verdicts
  BY DEF Init, Verdicts, Earned, Fresh, Created, Reading, Idle, Settle
<1>6. Stages /\ Cancellation /\ AskedFirst
  BY DEF Init, Stages, Cancellation, AskedFirst, Alive
<1>7. QED
  BY <1>3, <1>4, <1>5, <1>6 DEF IInv

\* A step that leaves the ledger alone disturbs none of its parts.
LEMMA LedgerFrame ==
    ASSUME IInv, UNCHANGED ledgerVars
    PROVE  LedgerTypeOK' /\ HoldsRecord'
  BY DEF IInv, TypeOK, LedgerTypeOK, HoldsRecord, ledgerVars

\* A step that only forgets updates, and leaves the file alone.
Drops ==
    /\ UNCHANGED task
    /\ \E C \in SUBSET Clients :
           io' = [c \in Clients |-> IF c \in C THEN Idle ELSE io[c]]

\* The end of the wrapper is such a step: only a canceller's update goes on.
LEMMA EndsDrops ==
    ASSUME NEW how, Ends(how), UNCHANGED task
    PROVE  Drops
<1> DEFINE C == Clients \ Cancellers
<1>1. io' = [c \in Clients |-> IF c \in C THEN Idle ELSE io[c]]
  BY DEF Ends
<1>2. QED
  BY <1>1 DEF Drops

\* So is the one that takes the answer of an awaited update,
LEMMA TakeDrops ==
    ASSUME LedgerTypeOK, NEW c \in Clients, Take(c), UNCHANGED task
    PROVE  Drops
<1>1. io' = [d \in Clients |-> IF d \in {c} THEN Idle ELSE io[d]]
  BY DEF LedgerTypeOK, Take
<1>2. QED
  BY <1>1 DEF Drops

\* and trivially one that leaves the ledger alone.
LEMMA KeepDrops ==
    ASSUME LedgerTypeOK, UNCHANGED ledgerVars
    PROVE  Drops
<1> DEFINE C == {}
<1>1. io' = [c \in Clients |-> IF c \in C THEN Idle ELSE io[c]]
  BY DEF LedgerTypeOK, ledgerVars
<1>2. C \in SUBSET Clients /\ UNCHANGED task
  BY DEF ledgerVars
<1> HIDE DEF C
<1>3. QED
  BY <1>1, <1>2 DEF Drops

\* What is forgotten cannot be ill typed, and brings no record with it.
LEMMA DropsFrame ==
    ASSUME LedgerTypeOK, HoldsRecord, Drops
    PROVE  /\ LedgerTypeOK' /\ HoldsRecord'
           /\ \A c \in Clients : io'[c] = io[c] \/ io'[c].phase = "idle"
<1>1. PICK C \in SUBSET Clients :
          io' = [c \in Clients |-> IF c \in C THEN Idle ELSE io[c]]
  BY DEF Drops
<1>2. \A c \in Clients : io'[c] = io[c] \/ io'[c] = Idle
  BY <1>1
<1>3. QED
  BY <1>1, <1>2 DEF Drops, LedgerTypeOK, HoldsRecord, Idle, Settle, Phases

\* A file-system step carries no verdict that is not earned into the file,
\* because the record it merges had none and its patch has none.
LEMMA FileStepEarned ==
    ASSUME LedgerTypeOK, HoldsRecord, Verdicts, NEW c \in Clients,
           FileStep(c), UNCHANGED <<pc, exit, child, timeout, outcome,
              seen>>
    PROVE  Verdicts'
<1> USE
  DEF LedgerTypeOK, HoldsRecord, Phases, Settle, Verdicts, Success, Decided
<1>1. CASE ReadTask(c)
  <2>1. task.rec # NoRecord => Earned(Merge(task.rec, io[c].patch).status)
    BY <1>1 DEF ReadTask, Earned, Merge, TaskRecord, Final, Status
  <2>2. QED
    BY <1>1, <2>1, FaultyDiskAssumption DEF ReadTask, Earned
<1>2. CASE OpenTask(c)
  BY <1>2, FaultyDiskAssumption DEF OpenTask, Empty, Earned
<1>3. CASE WriteTask(c)
  BY <1>3, FaultyDiskAssumption DEF WriteTask, Overlay, Earned
<1>4. QED
  BY <1>1, <1>2, <1>3 DEF FileStep

\* Every step keeps it: one case per action, one step per part it can disturb.
LEMMA NextIInv == IInv /\ [Next]_vars => IInv'
<1> SUFFICES ASSUME IInv, [Next]_vars PROVE IInv'
  OBVIOUS
<1> USE DEF mainVars, childVars, timerVars, handlerVars, Alive
<1>1. CASE UpdateThrows
  <2>0. Drops
    BY <1>1, EndsDrops
    DEF UpdateThrows, IInv, TypeOK
  <2>1. /\ LedgerTypeOK' /\ HoldsRecord'
        /\ \A c \in Clients : io'[c] = io[c] \/ io'[c].phase = "idle"
    BY <2>0, DropsFrame DEF IInv, TypeOK
  <2>2. TypeOK'
    BY <1>1, <2>1
    DEF UpdateThrows, Ends, IInv, TypeOK, LedgerTypeOK, Points, Exits, Timer, Ended
  <2>3. Stages'
    BY <1>1 DEF UpdateThrows, Ends, IInv, TypeOK, Stages, Ended
  <2>4. Verdicts'
    BY <1>1, <2>1
    DEF UpdateThrows, Ends, IInv, TypeOK, Stages, Verdicts, Earned, Decided, Success
  <2>5. Cancellation'
    BY <1>1 DEF UpdateThrows, Ends, IInv, TypeOK, Stages, Cancellation, Ended
  <2>6. AskedFirst'
    BY <1>1 DEF UpdateThrows, Ends, IInv, TypeOK, Stages, AskedFirst, Ended
  <2>7. QED
    BY <2>1, <2>2, <2>3, <2>4, <2>5, <2>6 DEF IInv
<1>2. CASE EnvRecorded
  <2>0. Drops
    BY <1>2, TakeDrops, ClientsAssumption
    DEF EnvRecorded, IInv, TypeOK
  <2>1. /\ LedgerTypeOK' /\ HoldsRecord'
        /\ \A c \in Clients : io'[c] = io[c] \/ io'[c].phase = "idle"
    BY <2>0, DropsFrame DEF IInv, TypeOK
  <2>2. TypeOK'
    BY <1>2, <2>1
    DEF EnvRecorded, IInv, TypeOK, LedgerTypeOK, Points, Exits, Timer, Ended
  <2>3. Stages'
    BY <1>2 DEF EnvRecorded, IInv, TypeOK, Stages, Ended
  <2>4. Verdicts'
    BY <1>2, <2>1
    DEF EnvRecorded, IInv, TypeOK, Stages, Verdicts, Earned, Decided, Success
  <2>5. Cancellation'
    BY <1>2 DEF EnvRecorded, IInv, TypeOK, Stages, Cancellation, Ended
  <2>6. AskedFirst'
    BY <1>2 DEF EnvRecorded, IInv, TypeOK, Stages, AskedFirst, Ended
  <2>7. QED
    BY <2>1, <2>2, <2>3, <2>4, <2>5, <2>6 DEF IInv
<1>3. CASE SpawnFails
  <2>1. LedgerTypeOK' /\ HoldsRecord'
    BY <1>3, LedgerFrame DEF SpawnFails, ledgerVars
  <2>2. TypeOK'
    BY <1>3, <2>1
    DEF SpawnFails, IInv, TypeOK, LedgerTypeOK, Points, Exits, Timer, Ended
  <2>3. Stages'
    BY <1>3 DEF SpawnFails, IInv, TypeOK, Stages, AskedFirst, Ended
  <2>4. Verdicts'
    BY <1>3
    DEF SpawnFails, IInv, TypeOK, Stages, Verdicts, Earned, Decided, Success
  <2>5. Cancellation'
    BY <1>3 DEF SpawnFails, IInv, TypeOK, Stages, Cancellation, Ended
  <2>6. AskedFirst'
    BY <1>3 DEF SpawnFails, IInv, TypeOK, Stages, AskedFirst, Ended
  <2>7. QED
    BY <2>1, <2>2, <2>3, <2>4, <2>5, <2>6 DEF IInv
<1>4. CASE TimeoutFires
  <2>1. LedgerTypeOK' /\ HoldsRecord'
    BY <1>4, LedgerFrame DEF TimeoutFires, ledgerVars
  <2>2. TypeOK'
    BY <1>4, <2>1
    DEF TimeoutFires, Term, IInv, TypeOK, LedgerTypeOK, Points, Exits, Timer,
        Ended
  <2>3. Stages'
    BY <1>4 DEF TimeoutFires, Term, IInv, TypeOK, Stages, Ended
  <2>4. Verdicts'
    BY <1>4
    DEF TimeoutFires, Term, IInv, TypeOK, Stages, Verdicts, Earned, Decided,
        Success
  <2>5. Cancellation'
    BY <1>4 DEF TimeoutFires, Term, IInv, TypeOK, Stages, Cancellation, Ended
  <2>6. AskedFirst'
    BY <1>4 DEF TimeoutFires, Term, IInv, TypeOK, Stages, AskedFirst, Ended
  <2>7. QED
    BY <2>1, <2>2, <2>3, <2>4, <2>5, <2>6 DEF IInv
<1>5. CASE ForceKillFires
  <2>1. LedgerTypeOK' /\ HoldsRecord'
    BY <1>5, LedgerFrame DEF ForceKillFires, ledgerVars
  <2>2. TypeOK'
    BY <1>5, <2>1
    DEF ForceKillFires, Kill, IInv, TypeOK, LedgerTypeOK, Points, Exits,
        Timer, Ended
  <2>3. Stages'
    BY <1>5 DEF ForceKillFires, Kill, IInv, TypeOK, Stages, Ended
  <2>4. Verdicts'
    BY <1>5
    DEF ForceKillFires, Kill, IInv, TypeOK, Stages, Verdicts, Earned, Decided,
        Success
  <2>5. Cancellation'
    BY <1>5
    DEF ForceKillFires, Kill, IInv, TypeOK, Stages, Cancellation, Ended
  <2>6. AskedFirst'
    BY <1>5 DEF ForceKillFires, Kill, IInv, TypeOK, Stages, AskedFirst, Ended
  <2>7. QED
    BY <2>1, <2>2, <2>3, <2>4, <2>5, <2>6 DEF IInv
<1>6. CASE Close
  <2>1. LedgerTypeOK' /\ HoldsRecord'
    BY <1>6, LedgerFrame DEF Close, ledgerVars
  <2>2. TypeOK'
    BY <1>6, <2>1
    DEF Close, CloseOutcome, IInv, TypeOK, LedgerTypeOK, Points, Exits, Timer,
        Ended
  <2>3. Stages'
    BY <1>6 DEF Close, CloseOutcome, IInv, TypeOK, Stages, Ended
  <2>4. Verdicts'
    BY <1>6
    DEF Close, CloseOutcome, IInv, TypeOK, Stages, Verdicts, Earned, Decided,
        Success
  <2>5. Cancellation'
    BY <1>6 DEF Close, CloseOutcome, IInv, TypeOK, Stages, Cancellation, Ended
  <2>6. AskedFirst'
    BY <1>6 DEF Close, CloseOutcome, IInv, TypeOK, Stages, AskedFirst, Ended
  <2>7. QED
    BY <2>1, <2>2, <2>3, <2>4, <2>5, <2>6 DEF IInv
<1>7. CASE Finish
  <2>0. Drops
    BY <1>7, EndsDrops, KeepDrops
    DEF Finish, IInv, TypeOK, ledgerVars
  <2>1. /\ LedgerTypeOK' /\ HoldsRecord'
        /\ \A c \in Clients : io'[c] = io[c] \/ io'[c].phase = "idle"
    BY <2>0, DropsFrame DEF IInv, TypeOK
  <2>2. TypeOK'
    <3>1. pc' \in Points /\ exit' \in Exits
      BY <1>7, FaultyDiskAssumption DEF Finish, Ends, IInv, TypeOK, Points, Exits
    <3>2. QED
      BY <1>7, <2>1, <3>1 DEF Finish, Ends, IInv, TypeOK
  <2>3. Stages'
    BY <1>7 DEF Finish, Ends, IInv, TypeOK, Stages, Ended
  <2>4. Verdicts'
    BY <1>7, <2>1
    DEF Finish, Ends, IInv, TypeOK, Stages, Verdicts, Earned, Decided, Success
  <2>5. Cancellation'
    BY <1>7 DEF Finish, Ends, IInv, TypeOK, Stages, Cancellation, Ended
  <2>6. AskedFirst'
    BY <1>7 DEF Finish, Ends, IInv, TypeOK, Stages, AskedFirst, Ended
  <2>7. QED
    BY <2>1, <2>2, <2>3, <2>4, <2>5, <2>6 DEF IInv
<1>8. CASE ReadLatest
  <2>1. LedgerTypeOK' /\ HoldsRecord'
    BY <1>8, LedgerFrame DEF ReadLatest, ledgerVars
  <2>2. TypeOK'
    <3>1. pc' \in Points /\ seen' \in BOOLEAN
      BY <1>8, FaultyDiskAssumption DEF ReadLatest, IInv, TypeOK, Points
    <3>2. QED
      BY <1>8, <2>1, <3>1 DEF ReadLatest, IInv, TypeOK
  <2>3. Stages'
    BY <1>8 DEF ReadLatest, IInv, TypeOK, Stages, Ended
  <2>4. Verdicts'
    BY <1>8
    DEF ReadLatest, IInv, TypeOK, Stages, Verdicts, Earned, Decided, Success
  <2>5. Cancellation'
    BY <1>8 DEF ReadLatest, IInv, TypeOK, Stages, Cancellation, Ended
  <2>6. AskedFirst'
    BY <1>8 DEF ReadLatest, IInv, TypeOK, Stages, AskedFirst, Ended
  <2>7. QED
    BY <2>1, <2>2, <2>3, <2>4, <2>5, <2>6 DEF IInv
<1>9. CASE VerdictRecorded
  <2>0. Drops
    BY <1>9, EndsDrops, TakeDrops, ClientsAssumption
    DEF VerdictRecorded, IInv, TypeOK
  <2>1. /\ LedgerTypeOK' /\ HoldsRecord'
        /\ \A c \in Clients : io'[c] = io[c] \/ io'[c].phase = "idle"
    BY <2>0, DropsFrame DEF IInv, TypeOK
  <2>2. TypeOK'
    BY <1>9, <2>1
    DEF VerdictRecorded, Ends, Verdict, IInv, TypeOK, LedgerTypeOK, Points, Exits,
        Timer, Ended
  <2>3. Stages'
    BY <1>9 DEF VerdictRecorded, Ends, Verdict, IInv, TypeOK, Stages, Ended
  <2>4. Verdicts'
    BY <1>9, <2>1
    DEF VerdictRecorded, Ends, Verdict, IInv, TypeOK, Stages, Verdicts, Earned,
        Decided, Success
  <2>5. Cancellation'
    BY <1>9
    DEF VerdictRecorded, Ends, Verdict, IInv, TypeOK, Stages,
        Cancellation, Ended
  <2>6. AskedFirst'
    BY <1>9
    DEF VerdictRecorded, Ends, Verdict, IInv, TypeOK, Stages, AskedFirst, Ended
  <2>7. QED
    BY <2>1, <2>2, <2>3, <2>4, <2>5, <2>6 DEF IInv
<1>10. CASE Drain
  <2>0. Drops
    BY <1>10, EndsDrops
    DEF Drain, IInv, TypeOK
  <2>1. /\ LedgerTypeOK' /\ HoldsRecord'
        /\ \A c \in Clients : io'[c] = io[c] \/ io'[c].phase = "idle"
    BY <2>0, DropsFrame DEF IInv, TypeOK
  <2>2. TypeOK'
    BY <1>10, <2>1
    DEF Drain, Ends, IInv, TypeOK, LedgerTypeOK, Points, Exits, Timer, Ended
  <2>3. Stages'
    BY <1>10 DEF Drain, Ends, IInv, TypeOK, Stages, Ended
  <2>4. Verdicts'
    BY <1>10, <2>1
    DEF Drain, Ends, IInv, TypeOK, Stages, Verdicts, Earned, Decided, Success
  <2>5. Cancellation'
    BY <1>10 DEF Drain, Ends, IInv, TypeOK, Stages, Cancellation, Ended
  <2>6. AskedFirst'
    BY <1>10 DEF Drain, Ends, IInv, TypeOK, Stages, AskedFirst, Ended
  <2>7. QED
    BY <2>1, <2>2, <2>3, <2>4, <2>5, <2>6 DEF IInv
<1>11. CASE SignalKills
  <2>0. Drops
    BY <1>11, EndsDrops
    DEF SignalKills, IInv, TypeOK
  <2>1. /\ LedgerTypeOK' /\ HoldsRecord'
        /\ \A c \in Clients : io'[c] = io[c] \/ io'[c].phase = "idle"
    BY <2>0, DropsFrame DEF IInv, TypeOK
  <2>2. TypeOK'
    BY <1>11, <2>1
    DEF SignalKills, Ends, IInv, TypeOK, LedgerTypeOK, Points, Exits, Timer, Ended
  <2>3. Stages'
    BY <1>11 DEF SignalKills, Ends, IInv, TypeOK, Stages, Ended
  <2>4. Verdicts'
    BY <1>11, <2>1
    DEF SignalKills, Ends, IInv, TypeOK, Stages, Verdicts, Earned, Decided, Success
  <2>5. Cancellation'
    BY <1>11 DEF SignalKills, Ends, IInv, TypeOK, Stages, Cancellation, Ended
  <2>6. AskedFirst'
    BY <1>11 DEF SignalKills, Ends, IInv, TypeOK, Stages, AskedFirst, Ended
  <2>7. QED
    BY <2>1, <2>2, <2>3, <2>4, <2>5, <2>6 DEF IInv
<1>12. CASE GraceFires
  <2>0. Drops
    BY <1>12, EndsDrops, KeepDrops
    DEF GraceFires, MaybeExit, IInv, TypeOK, ledgerVars
  <2>1. /\ LedgerTypeOK' /\ HoldsRecord'
        /\ \A c \in Clients : io'[c] = io[c] \/ io'[c].phase = "idle"
    BY <2>0, DropsFrame DEF IInv, TypeOK
  <2>2. TypeOK'
    BY <1>12, <2>1
    DEF GraceFires, Ends, Kill, MaybeExit, IInv, TypeOK, LedgerTypeOK, Points,
        Exits, Timer, Ended
  <2>3. Stages'
    BY <1>12 DEF GraceFires, Ends, Kill, MaybeExit, IInv, TypeOK, Stages, Ended
  <2>4. Verdicts'
    BY <1>12, <2>1
    DEF GraceFires, Ends, Kill, MaybeExit, IInv, TypeOK, Stages, Verdicts, Earned,
        Decided, Success
  <2>5. Cancellation'
    BY <1>12
    DEF GraceFires, Ends, Kill, MaybeExit, IInv, TypeOK, Stages,
        Cancellation, Ended
  <2>6. AskedFirst'
    BY <1>12
    DEF GraceFires, Ends, Kill, MaybeExit, IInv, TypeOK, Stages, AskedFirst, Ended
  <2>7. QED
    BY <2>1, <2>2, <2>3, <2>4, <2>5, <2>6 DEF IInv
<1>13. CASE CancelRecorded
  <2>0. Drops
    BY <1>13, EndsDrops, KeepDrops
    DEF CancelRecorded, MaybeExit, IInv, TypeOK, ledgerVars
  <2>1. /\ LedgerTypeOK' /\ HoldsRecord'
        /\ \A c \in Clients : io'[c] = io[c] \/ io'[c].phase = "idle"
    BY <2>0, DropsFrame DEF IInv, TypeOK
  <2>2. TypeOK'
    BY <1>13, <2>1
    DEF CancelRecorded, Ends, MaybeExit, IInv, TypeOK, LedgerTypeOK, Points, Exits,
        Timer, Ended
  <2>3. Stages'
    BY <1>13 DEF CancelRecorded, Ends, MaybeExit, IInv, TypeOK, Stages, Ended
  <2>4. Verdicts'
    BY <1>13, <2>1
    DEF CancelRecorded, Ends, MaybeExit, IInv, TypeOK, Stages, Verdicts, Earned,
        Decided, Success
  <2>5. Cancellation'
    BY <1>13
    DEF CancelRecorded, Ends, MaybeExit, IInv, TypeOK, Stages,
        Cancellation, Ended
  <2>6. AskedFirst'
    BY <1>13
    DEF CancelRecorded, Ends, MaybeExit, IInv, TypeOK, Stages, AskedFirst, Ended
  <2>7. QED
    BY <2>1, <2>2, <2>3, <2>4, <2>5, <2>6 DEF IInv
<1>14. CASE ChildEnds
  <2>1. LedgerTypeOK' /\ HoldsRecord'
    BY <1>14, LedgerFrame DEF ChildEnds, ledgerVars
  <2>2. TypeOK'
    BY <1>14, <2>1
    DEF ChildEnds, IInv, TypeOK, LedgerTypeOK, Points, Exits, Timer, Ended
  <2>3. Stages'
    BY <1>14 DEF ChildEnds, IInv, TypeOK, Stages, Ended
  <2>4. Verdicts'
    BY <1>14
    DEF ChildEnds, IInv, TypeOK, Stages, Verdicts, Earned, Decided, Success
  <2>5. Cancellation'
    BY <1>14 DEF ChildEnds, IInv, TypeOK, Stages, Cancellation, Ended
  <2>6. AskedFirst'
    BY <1>14 DEF ChildEnds, IInv, TypeOK, Stages, AskedFirst, Ended
  <2>7. QED
    BY <2>1, <2>2, <2>3, <2>4, <2>5, <2>6 DEF IInv
<1>15. CASE ContextRecorded
  <2>1. LedgerTypeOK' /\ HoldsRecord'
    BY <1>15, BeginType, ClientsAssumption
    DEF ContextRecorded, IInv, TypeOK, Patches, Final, Status
  <2>2. TypeOK'
    BY <1>15, <2>1
    DEF ContextRecorded, IInv, TypeOK, LedgerTypeOK, Points, Exits, Timer,
        Ended
  <2>3. Stages'
    BY <1>15 DEF ContextRecorded, IInv, TypeOK, Stages, AskedFirst, Ended
  <2>4. Verdicts'
    BY <1>15, ClientsAssumption
    DEF ContextRecorded, Begin, Reading, IInv, TypeOK, LedgerTypeOK, Stages,
        Verdicts, Earned, Decided, Success
  <2>5. Cancellation'
    BY <1>15 DEF ContextRecorded, IInv, TypeOK, Stages, Cancellation, Ended
  <2>6. AskedFirst'
    BY <1>15 DEF ContextRecorded, IInv, TypeOK, Stages, AskedFirst, Ended
  <2>7. QED
    BY <2>1, <2>2, <2>3, <2>4, <2>5, <2>6 DEF IInv
<1>16. CASE Spawn
  <2>1. LedgerTypeOK' /\ HoldsRecord'
    BY <1>16, BeginType, ClientsAssumption
    DEF Spawn, IInv, TypeOK, Patches, Final, Status
  <2>2. TypeOK'
    BY <1>16, <2>1
    DEF Spawn, IInv, TypeOK, LedgerTypeOK, Points, Exits, Timer, Ended
  <2>3. Stages'
    BY <1>16 DEF Spawn, IInv, TypeOK, Stages, AskedFirst, Ended
  <2>4. Verdicts'
    BY <1>16, ClientsAssumption
    DEF Spawn, Begin, Reading, IInv, TypeOK, LedgerTypeOK, Stages, Verdicts,
        Earned, Decided, Success
  <2>5. Cancellation'
    BY <1>16 DEF Spawn, IInv, TypeOK, Stages, Cancellation, Ended
  <2>6. AskedFirst'
    BY <1>16 DEF Spawn, IInv, TypeOK, Stages, AskedFirst, Ended
  <2>7. QED
    BY <2>1, <2>2, <2>3, <2>4, <2>5, <2>6 DEF IInv
<1>17. CASE Decide
  <2>1. LedgerTypeOK' /\ HoldsRecord'
    <3>1. CASE SeenCancelled
      <4>1. Drops
        BY <1>17, <3>1, EndsDrops DEF Decide
      <4>2. QED
        BY <4>1, DropsFrame DEF IInv, TypeOK
    <3>2. CASE ~SeenCancelled
      <4>1. Begin("main", Verdict) /\ UNCHANGED task
        BY <1>17, <3>2 DEF Decide
      <4>2. Verdict \in Patches /\ "main" \in Clients
        BY ClientsAssumption DEF Verdict, Patches, Final, Status
      <4>3. QED
        BY <4>1, <4>2, BeginType DEF IInv, TypeOK
    <3>3. QED
      BY <3>1, <3>2
  <2>2. TypeOK'
    BY <1>17, <2>1
    DEF Decide, Ends, Verdict, IInv, TypeOK, LedgerTypeOK, Points, Exits, Timer,
        Ended
  <2>3. Stages'
    BY <1>17 DEF Decide, Ends, Verdict, IInv, TypeOK, Stages, AskedFirst, Ended
  <2>4. Verdicts'
    <3>1. CASE SeenCancelled
      <4>1. Drops
        BY <1>17, <3>1, EndsDrops DEF Decide
      <4>2. \A c \in Clients : io'[c] = io[c] \/ io'[c].phase = "idle"
        BY <4>1, DropsFrame DEF IInv, TypeOK
      <4>3. QED
        BY <1>17, <3>1, <4>2
        DEF Decide, Ends, IInv, Verdicts, Earned, Decided, Success
    <3>2. CASE ~SeenCancelled
      <4>1. /\ pc = "decide" /\ pc' = "verdict"
            /\ Begin("main", Verdict)
            /\ UNCHANGED <<task, exit, child, timeout, outcome, seen>>
        BY <1>17, <3>2 DEF Decide
      <4>2. Earned(Verdict)'
        BY <4>1 DEF IInv, TypeOK, Stages, Earned, Decided, Verdict
      <4>3. task.rec # NoRecord => Earned(task.rec.status)'
        BY <4>1 DEF IInv, Verdicts, Earned, Decided
      <4>4. ASSUME NEW c \in Clients
            PROVE  /\ io'[c].phase \in {"hold", "open"}
                          => Earned(io[c].rec.status)' /\ c # "main"
                   /\ io'[c].phase = "read" /\ c # "main"
                          => Earned(io[c].patch)'
        BY <4>1 DEF Begin, Reading, IInv, TypeOK, LedgerTypeOK, Verdicts,
           Earned, Decided
      <4>5. io'["main"].patch = Verdict /\ io'["main"].phase = "read"
        BY <4>1, ClientsAssumption
        DEF Begin, Reading, IInv, TypeOK, LedgerTypeOK
      <4>6. Verdict' = Verdict
        BY <4>1 DEF Verdict
      <4>7. QED
        BY <3>2, <4>1, <4>2, <4>3, <4>4, <4>5, <4>6
        DEF IInv, TypeOK, Stages, Verdicts, SeenCancelled, Success
    <3>3. QED
      BY <3>1, <3>2
  <2>5. Cancellation'
    BY <1>17 DEF Decide, Ends, IInv, TypeOK, Stages, Cancellation
  <2>6. AskedFirst'
    BY <1>17 DEF Decide, Ends, Verdict, IInv, TypeOK, Stages, AskedFirst, Ended
  <2>7. QED
    BY <2>1, <2>2, <2>3, <2>4, <2>5, <2>6 DEF IInv
<1>18. CASE SignalTaken
  <2>1. LedgerTypeOK' /\ HoldsRecord'
    BY <1>18, BeginType, ClientsAssumption
    DEF SignalTaken, IInv, TypeOK, Patches, Final, Status
  <2>2. TypeOK'
    BY <1>18, <2>1
    DEF SignalTaken, Term, IInv, TypeOK, LedgerTypeOK, Points, Exits, Timer,
        Ended
  <2>3. Stages'
    BY <1>18 DEF SignalTaken, Term, IInv, TypeOK, Stages, AskedFirst, Ended
  <2>4. Verdicts'
    BY <1>18, ClientsAssumption
    DEF SignalTaken, Term, Begin, Reading, IInv, TypeOK, LedgerTypeOK, Stages,
        Verdicts, Earned, Decided, Success
  <2>5. Cancellation'
    BY <1>18 DEF SignalTaken, Term, IInv, TypeOK, Stages, Cancellation, Ended
  <2>6. AskedFirst'
    BY <1>18 DEF SignalTaken, Term, IInv, TypeOK, Stages, AskedFirst, Ended
  <2>7. QED
    BY <2>1, <2>2, <2>3, <2>4, <2>5, <2>6 DEF IInv
<1>19. ASSUME NEW c \in Cancellers, CancelLook(c) PROVE IInv'
  <2>1. LedgerTypeOK' /\ HoldsRecord'
    BY <1>19, BeginType, LedgerFrame, ClientsAssumption, FaultyDiskAssumption
    DEF CancelLook, IInv, TypeOK, Patches, Final, Status, ledgerVars
  <2>2. TypeOK'
    <3>1. canceller' \in [Cancellers
                             -> {"start", "mark", "stop"} \cup CancelExits]
      BY <1>19, FaultyDiskAssumption
      DEF CancelLook, IInv, TypeOK, CancelExits
    <3>2. QED
      BY <1>19, <2>1, <3>1 DEF CancelLook, IInv, TypeOK
  <2>3. Stages'
    BY <1>19 DEF CancelLook, IInv, Stages
  <2>4. Verdicts'
    BY <1>19, ClientsAssumption
    DEF CancelLook, Begin, Reading, IInv, TypeOK, LedgerTypeOK, Verdicts,
        Earned, Decided, Success
  <2>5. Cancellation'
    BY <1>19 DEF CancelLook, IInv, TypeOK, Cancellation
  <2>6. AskedFirst'
    BY <1>19 DEF CancelLook, IInv, AskedFirst
  <2>7. QED
    BY <2>1, <2>2, <2>3, <2>4, <2>5, <2>6 DEF IInv
<1>20. ASSUME NEW c \in Cancellers, CancelMarked(c) PROVE IInv'
  <2>1. LedgerTypeOK' /\ HoldsRecord'
    BY <1>20, LedgerFrame DEF CancelMarked, ledgerVars
  <2>2. TypeOK'
    BY <1>20, <2>1 DEF CancelMarked, Term, IInv, TypeOK, CancelExits
  <2>3. Stages'
    BY <1>20 DEF CancelMarked, IInv, Stages
  <2>4. Verdicts'
    BY <1>20 DEF CancelMarked, IInv, Verdicts, Earned, Decided, Success
  <2>5. Cancellation'
    BY <1>20 DEF CancelMarked, Term, IInv, TypeOK, Cancellation
  <2>6. AskedFirst'
    BY <1>20 DEF CancelMarked, Term, IInv, TypeOK, AskedFirst
  <2>7. QED
    BY <2>1, <2>2, <2>3, <2>4, <2>5, <2>6 DEF IInv
<1>21. ASSUME NEW c \in Clients, Ledger(c) PROVE IInv'
  <2>1. LedgerTypeOK' /\ HoldsRecord'
    BY <1>21, FileStepType DEF Ledger, IInv, TypeOK
  <2>2. TypeOK'
    BY <1>21, <2>1 DEF Ledger, IInv, TypeOK
  <2>3. Stages'
    BY <1>21 DEF Ledger, IInv, Stages
  <2>4. Verdicts'
    BY <1>21, FileStepEarned
    DEF Ledger, IInv, TypeOK, Verdicts, Success, Earned, Decided
  <2>5. Cancellation'
    BY <1>21 DEF Ledger, IInv, TypeOK, Cancellation
  <2>6. AskedFirst'
    BY <1>21 DEF Ledger, IInv, AskedFirst
  <2>7. QED
    BY <2>1, <2>2, <2>3, <2>4, <2>5, <2>6 DEF IInv
<1>22. CASE OutputFails
  <2>0. Drops
    BY <1>22, EndsDrops
    DEF OutputFails, IInv, TypeOK
  <2>1. /\ LedgerTypeOK' /\ HoldsRecord'
        /\ \A c \in Clients : io'[c] = io[c] \/ io'[c].phase = "idle"
    BY <2>0, DropsFrame DEF IInv, TypeOK
  <2>2. TypeOK'
    BY <1>22, <2>1
    DEF OutputFails, Ends, IInv, TypeOK, LedgerTypeOK, Points, Exits, Timer, Ended
  <2>3. Stages'
    BY <1>22 DEF OutputFails, Ends, IInv, TypeOK, Stages, Ended
  <2>4. Verdicts'
    BY <1>22, <2>1
    DEF OutputFails, Ends, IInv, TypeOK, Stages, Verdicts, Earned, Decided, Success
  <2>5. Cancellation'
    BY <1>22 DEF OutputFails, Ends, IInv, TypeOK, Stages, Cancellation, Ended
  <2>6. AskedFirst'
    BY <1>22 DEF OutputFails, Ends, IInv, TypeOK, Stages, AskedFirst, Ended
  <2>7. QED
    BY <2>1, <2>2, <2>3, <2>4, <2>5, <2>6 DEF IInv
<1>23. CASE Over \/ UNCHANGED vars
  BY <1>23
  DEF Over, vars, IInv, TypeOK, LedgerTypeOK, HoldsRecord, Stages, Verdicts,
     Earned, Decided, Success, Cancellation,
        AskedFirst
<1>24. QED
  BY <1>1, <1>2, <1>3, <1>4, <1>5, <1>6, <1>7, <1>8, <1>9, <1>10, <1>11,
     <1>12, <1>13, <1>14, <1>15, <1>16, <1>17, <1>18, <1>19, <1>20, <1>21,
     <1>22, <1>23, ClientsAssumption
  DEF Next, EventLoop, Main, Cancel
-----------------------------------------------------------------------------
\* Hence it holds of every reachable state.
LEMMA Invariance == Spec => []IInv
  BY InitIInv, NextIInv, PTL DEF Spec

\* Every variable keeps its type, for any number of `aco cancel` processes.
THEOREM TypeCorrect == Spec => []TypeOK
<1>1. IInv => TypeOK
  BY DEF IInv
<1>2. QED
  BY <1>1, Invariance, PTL

\* 'done' in task.json is always the provider's exit 0 in time, 'failed'
\* never is, whatever updates raced, and exit code 0 of the wrapper is exit
\* code 0 of the provider (cli.ts 276-292).
THEOREM VerdictsAreEarned == Spec => []VerdictIsEarned
<1>1. IInv => VerdictIsEarned
  BY DEF IInv, Stages, Verdicts, Earned, Decided, VerdictIsEarned
<1>2. QED
  BY <1>1, Invariance, PTL

\* No end of the wrapper but a crash on its broken output leaves a running
\* provider whose pid it knew and that it did not send SIGKILL
\* (provider-cancellation.ts 81-110).
THEOREM NoOrphans == Spec => []NoOrphanOncePidKnown
<1>1. IInv => NoOrphanOncePidKnown
  BY DEF IInv, TypeOK, Cancellation, NoOrphanOncePidKnown, Ended
<1>2. QED
  BY <1>1, Invariance, PTL

\* A cancellation cmdRun has read back is never overwritten by a verdict.
THEOREM SeenCancelKept == Spec => SeenCancelIsKept
<1>1. IInv /\ IInv' /\ [Next]_vars
        => [seen /\ task'.rec # NoRecord
            => task'.rec.status \notin {"done", "failed"}]_vars
  <2> SUFFICES ASSUME IInv, IInv', [Next]_vars, seen,
                      task'.rec # NoRecord
               PROVE  task'.rec.status \notin {"done", "failed"}
    OBVIOUS
  <2>1. pc = "decide"
    BY DEF IInv, Verdicts
  <2>2. pc' = "decide"
    BY <2>1 DEF Next, EventLoop, Main, ContextRecorded, UpdateThrows, EnvRecorded, Spawn,
       SpawnFails, Close, Finish, ReadLatest, Decide, SeenCancelled,
       VerdictRecorded, Drain, TimeoutFires, ForceKillFires, SignalTaken,
       SignalKills, OutputFails, GraceFires, CancelRecorded, Ledger, Cancel,
       CancelLook, CancelMarked, ChildEnds, Over, vars, mainVars
  <2>3. QED
    BY <2>2 DEF IInv, Verdicts, Earned, Decided
<1>2. QED
  BY <1>1, Invariance, PTL DEF Spec, SeenCancelIsKept

\* RunSession implements ProviderCall: however the timeout, the handler, the
\* cancelling processes and the end of the wrapper interleave, the provider
\* is asked before it is forced, started and ended once, and what the wrapper
\* makes of it in its exit code is earned.
THEOREM CallProtocolHolds == Spec => CallProtocol
<1>1. Init => Call!Init
  BY DEF Init, Call!Init, CallAnswer
<1>2. IInv /\ [Next]_vars => [Call!Next]_(Call!vars)
  <2> SUFFICES ASSUME IInv, [Next]_vars
               PROVE  Call!Next
    BY DEF Call!vars
  <2>1. Call!Process
    <3> USE DEF Call!Process, childVars
    <3>1. CASE Spawn
      BY <3>1 DEF Spawn, Alive, CallAnswer, IInv, Stages, Call!Start
    <3>2. CASE TimeoutFires \/ SignalTaken
      BY <3>2 DEF TimeoutFires, SignalTaken, Term, Call!Terminate
    <3>3. ASSUME NEW c \in Cancellers, CancelMarked(c)
          PROVE  Call!Process
      BY <3>3 DEF CancelMarked, Term, Call!Terminate
    <3>4. CASE ForceKillFires \/ GraceFires
      BY <3>4 DEF ForceKillFires, GraceFires, Kill, IInv, TypeOK, AskedFirst,
         Call!Kill
    <3>5. CASE ChildEnds
      BY <3>5 DEF ChildEnds, Ended, Call!Exit, Call!Ended
    <3>6. CASE \/ ContextRecorded \/ UpdateThrows \/ EnvRecorded \/ SpawnFails
               \/ Close \/ Finish \/ ReadLatest \/ Decide \/ VerdictRecorded
               \/ Drain \/ SignalKills \/ OutputFails \/ CancelRecorded
               \/ (\E c \in Clients : Ledger(c))
               \/ (\E c \in Cancellers : CancelLook(c))
               \/ Over \/ UNCHANGED vars
      BY <3>6 DEF ContextRecorded, UpdateThrows, EnvRecorded, SpawnFails,
         Close, Finish, ReadLatest, Decide, VerdictRecorded, Drain,
         SignalKills, OutputFails, CancelRecorded, Ledger, CancelLook, Over,
         vars
    <3>7. QED
      BY <3>1, <3>2, <3>3, <3>4, <3>5, <3>6, ClientsAssumption
      DEF Next, EventLoop, Main, Cancel
  <2>2. CASE UNCHANGED exit
    BY <2>1, <2>2 DEF Call!Next, CallAnswer
  <2>3. CASE exit' # exit
    <3>1. /\ exit = "none" /\ exit' \in Exits
          /\ exit' = "drain" => child = "zero"
          /\ exit' = "main" => child # "live"
      <4> USE DEF IInv, TypeOK, Exits, Alive
      <4>1. CASE Drain
        BY <2>3, <4>1 DEF Drain, Ends, Verdicts, Success
      <4>2. CASE UpdateThrows \/ Finish \/ Decide \/ VerdictRecorded
        BY <2>3, <4>2
        DEF UpdateThrows, Finish, Decide, VerdictRecorded, Ends, Stages
      <4>3. CASE SignalKills \/ OutputFails \/ GraceFires \/ CancelRecorded
        BY <2>3, <4>3 DEF SignalKills, OutputFails, GraceFires, CancelRecorded,
           MaybeExit, Ends
      <4>4. CASE \/ ContextRecorded \/ EnvRecorded \/ Spawn \/ SpawnFails
                 \/ Close \/ ReadLatest \/ TimeoutFires \/ ForceKillFires
                 \/ SignalTaken \/ ChildEnds
                 \/ (\E c \in Clients : Ledger(c))
                 \/ (\E c \in Cancellers : Cancel(c))
                 \/ Over \/ UNCHANGED vars
        BY <2>3, <4>4 DEF ContextRecorded, EnvRecorded, Spawn, SpawnFails,
           Close, ReadLatest, TimeoutFires, ForceKillFires, SignalTaken,
           ChildEnds, Ledger, Cancel, CancelLook, CancelMarked, Over, vars
      <4>5. QED
        BY <4>1, <4>2, <4>3, <4>4 DEF Next, EventLoop, Main
    <3>2. CallAnswer = "none"
      BY <3>1 DEF CallAnswer
    <3>3. /\ exit' = "drain" => CallAnswer' = "ok"
          /\ exit' = "main" => CallAnswer' = "failed"
          /\ exit' \notin {"drain", "main"} => CallAnswer' = "abandoned"
      BY <2>3, <3>1 DEF CallAnswer
    <3>4. QED
      BY <2>1, <3>1, <3>2, <3>3 DEF Call!Next, Call!Answer
  <2>4. QED
    BY <2>2, <2>3
<1>3. QED
  BY <1>1, <1>2, Invariance, PTL DEF Spec, CallProtocol, Call!Spec
=============================================================================
