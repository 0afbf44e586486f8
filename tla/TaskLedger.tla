----------------------------- MODULE TaskLedger -----------------------------
(***************************************************************************)
(* One session's task.json, as packages/wrapper/src/session/store.ts keeps *)
(* it: a file that is read, merged with a patch and written back by every  *)
(* update.  Nothing locks the file, and writeFile truncates before it      *)
(* writes, so an update is three separate file-system steps between which  *)
(* the updates of other promises and of other processes (`aco cancel`) may *)
(* run.                                                                    *)
(***************************************************************************)
EXTENDS Naturals

CONSTANTS
    Clients,     \* whoever may have an update of this session in flight
    NoRecord,    \* what a reader gets from a file JSON.parse rejects
    FaultyDisk   \* may the file system refuse a read or a write?

Status == {"running", "done", "failed", "cancelled"}
Final == Status \ {"running"}

\* The fields of TaskRecord an update may set; the others never change.
TaskRecord == [status: Status, ctx: BOOLEAN, env: BOOLEAN,
               pid: BOOLEAN, ended: BOOLEAN]

ASSUME NoRecordAssumption == NoRecord \notin TaskRecord
ASSUME FaultyDiskAssumption == FaultyDisk \in BOOLEAN

\* One name per patch the program passes to update().
Patches == {"ctx", "env", "pid"} \cup Final
Phases == {"idle", "read", "hold", "open", "ok", "err"}

VARIABLES
    task,  \* the file: the record it parses to, and its length
    io     \* each client's update in flight

ledgerVars == <<task, io>>

\* An update that is not under way: none yet, or its promise has settled.
Settle(phase) == [phase |-> phase, patch |-> "none", rec |-> NoRecord]
Idle == Settle("idle")
Empty == [rec |-> NoRecord, size |-> 0]

LedgerTypeOK ==
    /\ task \in [rec: TaskRecord \cup {NoRecord}, size: Nat]
    /\ io \in [Clients -> [phase: Phases, patch: Patches \cup {"none"},
                           rec: TaskRecord \cup {NoRecord}]]
-----------------------------------------------------------------------------
Created == [status |-> "running", ctx |-> FALSE, env |-> FALSE,
            pid |-> FALSE, ended |-> FALSE]

\* { ...record, ...patch }; a final status always comes with endedAt.
Merge(rec, patch) ==
    IF patch \in Final THEN [rec EXCEPT !.status = patch, !.ended = TRUE]
    ELSE IF patch = "ctx" THEN [rec EXCEPT !.ctx = TRUE]
    ELSE IF patch = "env" THEN [rec EXCEPT !.env = TRUE]
    ELSE [rec EXCEPT !.pid = TRUE]

\* Characters of the serialized record beyond what every record has: the
\* status word, and the lines of runtimeContext, envPolicy, pid and endedAt.
Size(rec) ==
    LET Line(present, n) == IF present THEN n ELSE 0
        Word == [running |-> 7, done |-> 4, failed |-> 6, cancelled |-> 9]
    IN  Word[rec.status] + Line(rec.ctx, 400) + Line(rec.env, 28)
          + Line(rec.pid, 16) + Line(rec.ended, 41)

\* Bytes written from offset 0 over whatever another writer left since this
\* one truncated the file: a shorter record leaves the tail of a longer one
\* behind its closing brace, which JSON.parse rejects.
Overlay(old, rec) ==
    IF Size(rec) >= old.size THEN [rec |-> rec, size |-> Size(rec)]
    ELSE [rec |-> NoRecord, size |-> old.size]
-----------------------------------------------------------------------------
\* The file create() writes, before anyone else knows the session's id.
Fresh == [rec |-> Created, size |-> Size(Created)]

Reading(patch) == [phase |-> "read", patch |-> patch, rec |-> NoRecord]

\* update(id, patch) is called.
Begin(c, patch) ==
    /\ io[c].phase \in {"idle", "ok", "err"}
    /\ io' = [io EXCEPT ![c] = Reading(patch)]

\* readFile and JSON.parse; an unreadable file makes the update throw.
ReadTask(c) ==
    /\ io[c].phase = "read"
    /\ \/ /\ task.rec # NoRecord
          /\ io' = [io EXCEPT ![c].phase = "hold",
                              ![c].rec = Merge(task.rec, io[c].patch)]
       \/ /\ task.rec = NoRecord \/ FaultyDisk
          /\ io' = [io EXCEPT ![c] = Settle("err")]
    /\ UNCHANGED task

\* writeFile opens the file with O_TRUNC ...
OpenTask(c) ==
    /\ io[c].phase = "hold"
    /\ \/ /\ task' = Empty
          /\ io' = [io EXCEPT ![c].phase = "open"]
       \/ /\ FaultyDisk
          /\ io' = [io EXCEPT ![c] = Settle("err")]
          /\ UNCHANGED task

\* ... and writes the record it merged when it read.
WriteTask(c) ==
    /\ io[c].phase = "open"
    /\ \/ /\ task' = Overlay(task, io[c].rec)
          /\ io' = [io EXCEPT ![c] = Settle("ok")]
       \/ /\ FaultyDisk
          /\ io' = [io EXCEPT ![c] = Settle("err")]
          /\ UNCHANGED task

FileStep(c) == ReadTask(c) \/ OpenTask(c) \/ WriteTask(c)

InFlight(c) == io[c].phase \in {"read", "hold", "open"}
Succeeded(c) == io[c].phase = "ok"
Rejected(c) == io[c].phase = "err"
Settled(c) == Succeeded(c) \/ Rejected(c)
=============================================================================
