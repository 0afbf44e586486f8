----------------------------- MODULE RunSession -----------------------------
(***************************************************************************)
(* `aco run`, from the creation of its session to the end of its process   *)
(* (packages/wrapper/src/cli.ts cmdRun), with everything that races it:    *)
(*   - the un-awaited update that records the provider's pid,              *)
(*   - the SIGINT/SIGTERM handler of runtime/provider-cancellation.ts,     *)
(*   - the execution timeout and its forced kill,                          *)
(*   - the provider process, and `aco cancel` in processes of their own.   *)
(* The event loop runs one callback at a time, so every action is one      *)
(* callback, or one step of the file system or of another process.         *)
(***************************************************************************)
EXTENDS TaskLedger

CONSTANT
    Cancellers  \* the `aco cancel` processes

ASSUME ClientsAssumption ==
    /\ Clients = {"main", "pid", "sig"} \cup Cancellers
    /\ {"main", "pid", "sig"} \cap Cancellers = {}

VARIABLES
    pc,           \* where cmdRun awaits
    exit,         \* what ended the wrapper process, "none" while it runs
    child, sent,  \* the provider process and the signals it got
    activePid,    \* cancellationState.activePid is set
    timeout,      \* the execution timeout
    forceKill,    \* the SIGKILL the timeout schedules
    outcome,      \* runResult: is its error set?
    seen,         \* cmdRun has read the session back as cancelled
    listening,    \* the cancellation handler is registered
    handled,      \* it has taken a signal
    grace,        \* the SIGKILL it schedules
    cleanupDone, ledgerDone,  \* its two conditions for exiting
    canceller     \* where each `aco cancel` is, "stop" if it read a pid

mainVars == <<pc, outcome, seen>>
childVars == <<child, sent>>
timerVars == <<timeout, forceKill>>
handlerVars == <<listening, handled, grace, cleanupDone, ledgerDone>>
vars == <<task, io, pc, exit, child, sent, activePid, timeout, forceKill,
          outcome, seen, listening, handled, grace, cleanupDone,
          ledgerDone, canceller>>

Points == {"context", "env", "spawn", "stream", "flush", "latest",
           "decide", "verdict", "returned"}
Exits == {"none", "handler", "main", "drain", "signal", "crash"}
Timer == {"off", "armed", "fired"}
Ended == {"zero", "signal"}  \* its exit code is 0, or it has another or none
CancelExits == {"cancelled", "nothing", "failed"}

TypeOK ==
    /\ LedgerTypeOK
    /\ pc \in Points
    /\ exit \in Exits
    /\ child \in {"none", "live"} \cup Ended
    /\ sent \in {"none", "term", "kill"}
    /\ activePid \in BOOLEAN
    /\ timeout \in Timer
    /\ forceKill \in Timer
    /\ outcome \in {"none", "ok", "error"}
    /\ seen \in BOOLEAN
    /\ listening \in BOOLEAN
    /\ handled \in BOOLEAN
    /\ grace \in Timer
    /\ cleanupDone \in BOOLEAN
    /\ ledgerDone \in BOOLEAN
    /\ canceller \in [Cancellers -> {"start", "mark", "stop"} \cup CancelExits]

Alive == exit = "none"
-----------------------------------------------------------------------------
\* cmdRun has created the session and begins to record its runtime context.
Init ==
    /\ task = Fresh
    /\ io = [c \in Clients |-> IF c = "main" THEN Reading("ctx") ELSE Idle]
    /\ pc = "context"
    /\ exit = "none"
    /\ child = "none" /\ sent = "none"
    /\ activePid = FALSE
    /\ timeout = "off" /\ forceKill = "off"
    /\ outcome = "none"
    /\ seen = FALSE
    /\ listening = FALSE /\ handled = FALSE
    /\ grace = "off" /\ cleanupDone = FALSE /\ ledgerDone = FALSE
    /\ canceller = [c \in Cancellers |-> "start"]

\* A file-system step of an update this process, or a canceller, has begun.
Ledger(c) ==
    /\ c \in Cancellers \/ Alive
    /\ FileStep(c)
    /\ UNCHANGED <<exit, activePid, canceller>>
    /\ UNCHANGED mainVars /\ UNCHANGED childVars
    /\ UNCHANGED timerVars /\ UNCHANGED handlerVars

\* The wrapper process ends, and with it the updates it has under way.
Ends(how) ==
    /\ exit' = how
    /\ io' = [c \in Clients |-> IF c \in Cancellers THEN io[c] ELSE Idle]

\* An awaited update is answered.
Take(c) == io' = [io EXCEPT ![c] = Idle]

\* Mutation: the raw force of SIGKILL at once.
Term_NoGrace == sent' = IF child = "live" THEN "kill" ELSE sent

\* terminateProviderProcess: the signal reaches the process while it runs.
Term == sent' = IF child = "live" /\ sent = "none" THEN "term" ELSE sent
Kill == sent' = IF child = "live" THEN "kill" ELSE sent
-----------------------------------------------------------------------------
\* cmdRun

\* The context is recorded: the handler goes in and the invocation begins.
ContextRecorded ==
    /\ Alive /\ pc = "context" /\ Succeeded("main")
    /\ listening' = TRUE
    /\ Begin("main", "env")
    /\ pc' = "env"
    /\ UNCHANGED <<task, exit, activePid, outcome, seen, handled, grace,
                   cleanupDone, ledgerDone, canceller>>
    /\ UNCHANGED childVars /\ UNCHANGED timerVars

\* A rejected context or verdict update leaves cmdRun: main().catch exits.
UpdateThrows ==
    /\ Alive /\ pc \in {"context", "verdict"} /\ Rejected("main")
    /\ Ends("main")
    /\ UNCHANGED <<task, activePid, canceller>>
    /\ UNCHANGED mainVars /\ UNCHANGED childVars
    /\ UNCHANGED timerVars /\ UNCHANGED handlerVars

\* The envPolicy update is awaited and its failure only warned about.
EnvRecorded ==
    /\ Alive /\ pc = "env" /\ Settled("main")
    /\ pc' = "spawn"
    /\ Take("main")
    /\ UNCHANGED <<task, exit, activePid, outcome, seen, canceller>>
    /\ UNCHANGED childVars /\ UNCHANGED timerVars /\ UNCHANGED handlerVars

\* spawn() succeeds: onPid publishes the pid to the handler and starts the
\* ledger update nobody awaits; the execution timeout is armed.
Spawn ==
    /\ Alive /\ pc = "spawn"
    /\ child' = "live"
    /\ activePid' = TRUE
    /\ Begin("pid", "pid")
    /\ timeout' = "armed"
    /\ pc' = "stream"
    /\ UNCHANGED <<task, exit, sent, forceKill, outcome, seen, canceller>>
    /\ UNCHANGED handlerVars

\* The binary is missing or cannot be started: there never is a pid.
SpawnFails ==
    /\ Alive /\ pc = "spawn"
    /\ outcome' = "error"
    /\ pc' = "flush"
    /\ UNCHANGED <<task, io, exit, activePid, seen, canceller>>
    /\ UNCHANGED childVars /\ UNCHANGED timerVars /\ UNCHANGED handlerVars

\* Mutation: SIGTERM without the forced kill behind it.
TimeoutFires_NoForce ==
    /\ Alive /\ timeout = "armed"
    /\ timeout' = "fired"
    /\ Term
    /\ UNCHANGED <<task, io, exit, child, activePid, forceKill, canceller>>
    /\ UNCHANGED mainVars /\ UNCHANGED handlerVars

TimeoutFires ==
    /\ Alive /\ timeout = "armed"
    /\ timeout' = "fired"
    /\ forceKill' = "armed"
    /\ Term
    /\ UNCHANGED <<task, io, exit, child, activePid, canceller>>
    /\ UNCHANGED mainVars /\ UNCHANGED handlerVars

ForceKillFires ==
    /\ Alive /\ forceKill = "armed"
    /\ forceKill' = "fired"
    /\ Kill
    /\ UNCHANGED <<task, io, exit, child, activePid, timeout, canceller>>
    /\ UNCHANGED mainVars /\ UNCHANGED handlerVars

\* Mutation: the timeout is not looked at.
CloseOutcome_NoTimeout == IF child # "zero" THEN "error" ELSE "ok"

\* What the 'close' callback makes of the end of the process.
CloseOutcome ==
    IF timeout = "fired" \/ child # "zero" THEN "error" ELSE "ok"

\* The 'close' event: timers are cleared and the invocation settles.
Close ==
    /\ Alive /\ pc = "stream" /\ child \in Ended
    /\ outcome' = CloseOutcome
    /\ timeout' = IF timeout = "armed" THEN "off" ELSE timeout
    /\ forceKill' = "off"
    /\ pc' = "flush"
    /\ UNCHANGED <<task, io, exit, activePid, seen, canceller>>
    /\ UNCHANGED childVars /\ UNCHANGED handlerVars

\* endWritable flushes output.log, then the finally block of cmdRun forgets
\* the pid and removes the handler; a failed flush propagates to main().
Finish ==
    /\ Alive /\ pc = "flush"
    /\ activePid' = FALSE
    /\ listening' = FALSE
    /\ \/ pc' = "latest" /\ UNCHANGED <<exit, io>>
       \/ FaultyDisk /\ Ends("main") /\ UNCHANGED pc
    /\ UNCHANGED <<task, outcome, seen, handled, grace, cleanupDone,
                   ledgerDone, canceller>>
    /\ UNCHANGED childVars /\ UNCHANGED timerVars

\* store.read(...).catch(() => undefined)
ReadLatest ==
    /\ Alive /\ pc = "latest"
    /\ \/ seen' = (task.rec # NoRecord /\ task.rec.status = "cancelled")
       \/ FaultyDisk /\ UNCHANGED seen
    /\ pc' = "decide"
    /\ UNCHANGED <<task, io, exit, activePid, outcome, canceller>>
    /\ UNCHANGED childVars /\ UNCHANGED timerVars /\ UNCHANGED handlerVars

\* Mutation: what was read back is not looked at.
SeenCancelled_Ignored == FALSE

SeenCancelled == seen

\* Mutation: a status of its own for the timeout.
Verdict_Timeout ==
    IF timeout = "fired" THEN "timeout"
    ELSE IF outcome = "error" THEN "failed" ELSE "done"

Verdict == IF outcome = "error" THEN "failed" ELSE "done"

\* A session seen cancelled stays so; any other gets the provider's verdict.
Decide ==
    /\ Alive /\ pc = "decide"
    /\ IF SeenCancelled
       THEN Ends("main") /\ UNCHANGED pc
       ELSE pc' = "verdict" /\ Begin("main", Verdict) /\ UNCHANGED exit
    /\ UNCHANGED <<task, activePid, outcome, seen, canceller>>
    /\ UNCHANGED childVars /\ UNCHANGED timerVars /\ UNCHANGED handlerVars

\* 'failed' ends in process.exit(1), 'done' lets cmdRun return.
VerdictRecorded ==
    /\ Alive /\ pc = "verdict" /\ Succeeded("main")
    /\ IF Verdict = "failed"
       THEN Ends("main") /\ UNCHANGED pc
       ELSE pc' = "returned" /\ Take("main") /\ UNCHANGED exit
    /\ UNCHANGED <<task, activePid, outcome, seen, canceller>>
    /\ UNCHANGED childVars /\ UNCHANGED timerVars /\ UNCHANGED handlerVars

\* With cmdRun returned the process ends by itself, with code 0, when no
\* file operation is pending; the grace timer is unref'ed and does not count.
Drain ==
    /\ Alive /\ pc = "returned"
    /\ ~InFlight("pid") /\ ~InFlight("sig")
    /\ handled => ledgerDone
    /\ Ends("drain")
    /\ UNCHANGED <<task, activePid, canceller>>
    /\ UNCHANGED mainVars /\ UNCHANGED childVars
    /\ UNCHANGED timerVars /\ UNCHANGED handlerVars

\* Nobody listens to the 'error' of the session's output: a disk that fails
\* output.log, or a reader that closes stdout, ends the process on the spot.
OutputFails ==
    /\ Alive
    /\ \/ pc \in {"stream", "flush"}
       \/ pc \in {"env", "spawn"} /\ FaultyDisk
    /\ Ends("crash")
    /\ UNCHANGED <<task, activePid, canceller>>
    /\ UNCHANGED mainVars /\ UNCHANGED childVars
    /\ UNCHANGED timerVars /\ UNCHANGED handlerVars
-----------------------------------------------------------------------------
\* SIGINT and SIGTERM

\* The first signal the registered handler gets starts the cancellation.
SignalTaken ==
    /\ Alive /\ listening /\ ~handled
    /\ handled' = TRUE
    /\ cleanupDone' = ~activePid
    /\ IF activePid
       THEN Term /\ grace' = "armed"
       ELSE UNCHANGED <<sent, grace>>
    /\ Begin("sig", "cancelled")
    /\ UNCHANGED <<task, exit, child, activePid, listening, ledgerDone,
                   canceller>>
    /\ UNCHANGED mainVars /\ UNCHANGED timerVars

\* A handler drops the later ones.  Without one, before it is installed and
\* after it is disposed, the default disposition ends the process.
SignalKills ==
    /\ Alive /\ ~listening
    /\ Ends("signal")
    /\ UNCHANGED <<task, activePid, canceller>>
    /\ UNCHANGED mainVars /\ UNCHANGED childVars
    /\ UNCHANGED timerVars /\ UNCHANGED handlerVars

\* Mutation: the ledger alone decides.
MaybeExit_LedgerOnly(cleanup, ledger) ==
    IF ledger THEN Ends("handler") ELSE UNCHANGED <<exit, io>>

\* maybeExit, with the two conditions as the calling callback leaves them.
MaybeExit(cleanup, ledger) ==
    IF cleanup /\ ledger THEN Ends("handler") ELSE UNCHANGED <<exit, io>>

\* Mutation: the grace period ends without the SIGKILL.
GraceFires_NoKill ==
    /\ Alive /\ grace = "armed"
    /\ grace' = "fired"
    /\ cleanupDone' = TRUE
    /\ MaybeExit(TRUE, ledgerDone)
    /\ UNCHANGED <<task, child, sent, activePid, listening, handled,
                   ledgerDone, canceller>>
    /\ UNCHANGED mainVars /\ UNCHANGED timerVars

GraceFires ==
    /\ Alive /\ grace = "armed"
    /\ grace' = "fired"
    /\ Kill
    /\ cleanupDone' = TRUE
    /\ MaybeExit(TRUE, ledgerDone)
    /\ UNCHANGED <<task, child, activePid, listening, handled,
                   ledgerDone, canceller>>
    /\ UNCHANGED mainVars /\ UNCHANGED timerVars

\* markCancelled(...).catch().finally()
CancelRecorded ==
    /\ Alive /\ handled /\ ~ledgerDone /\ Settled("sig")
    /\ ledgerDone' = TRUE
    /\ MaybeExit(cleanupDone, TRUE)
    /\ UNCHANGED <<task, activePid, listening, handled, grace,
                   cleanupDone, canceller>>
    /\ UNCHANGED mainVars /\ UNCHANGED childVars /\ UNCHANGED timerVars
-----------------------------------------------------------------------------
\* `aco cancel`

\* It reads the session; only a running one is worth cancelling.
CancelLook(c) ==
    /\ canceller[c] = "start"
    /\ LET found == task.rec IN
       \/ /\ found # NoRecord /\ found.status = "running"
          /\ canceller' = [canceller EXCEPT ![c] =
                              IF found.pid THEN "stop" ELSE "mark"]
          /\ Begin(c, "cancelled")
       \/ /\ found # NoRecord /\ found.status \in Final
          /\ canceller' = [canceller EXCEPT ![c] = "nothing"]
          /\ UNCHANGED io
       \/ /\ found = NoRecord \/ FaultyDisk
          /\ canceller' = [canceller EXCEPT ![c] = "failed"]
          /\ UNCHANGED io
    /\ UNCHANGED <<task, exit, activePid>>
    /\ UNCHANGED mainVars /\ UNCHANGED childVars
    /\ UNCHANGED timerVars /\ UNCHANGED handlerVars

\* markCancelled is through: SIGTERM to the pid read at the beginning.
CancelMarked(c) ==
    /\ canceller[c] \in {"mark", "stop"} /\ Settled(c)
    /\ canceller' = [canceller EXCEPT ![c] =
                         IF Succeeded(c) THEN "cancelled" ELSE "failed"]
    /\ IF Succeeded(c) /\ canceller[c] = "stop" THEN Term ELSE UNCHANGED sent
    /\ UNCHANGED <<task, io, exit, child, activePid>>
    /\ UNCHANGED mainVars /\ UNCHANGED timerVars /\ UNCHANGED handlerVars

\* The provider ends, in a way of its own unless it was sent SIGKILL.
ChildEnds ==
    /\ child = "live"
    /\ child' \in IF sent = "kill" THEN {"signal"} ELSE Ended
    /\ UNCHANGED <<task, io, exit, sent, activePid, canceller>>
    /\ UNCHANGED mainVars /\ UNCHANGED timerVars /\ UNCHANGED handlerVars

\* Nothing is left to happen.
Over ==
    /\ ~Alive /\ child # "live"
    /\ \A c \in Cancellers : canceller[c] \in CancelExits
    /\ UNCHANGED vars
-----------------------------------------------------------------------------
Main == \/ ContextRecorded \/ UpdateThrows \/ EnvRecorded
        \/ Spawn \/ SpawnFails \/ Close \/ Finish
        \/ ReadLatest \/ Decide \/ VerdictRecorded \/ Drain

\* What the wrapper's event loop has to run, and its file system to answer.
EventLoop ==
    \/ Main
    \/ TimeoutFires \/ ForceKillFires
    \/ GraceFires \/ CancelRecorded
    \/ \E c \in Clients \ Cancellers : Ledger(c)

Cancel(c) == CancelLook(c) \/ Ledger(c) \/ CancelMarked(c)

Next ==
    \/ EventLoop
    \/ OutputFails
    \/ SignalTaken \/ SignalKills
    \/ \E c \in Cancellers : Cancel(c)
    \/ ChildEnds
    \/ Over

Spec == Init /\ [][Next]_vars

(***************************************************************************)
(* The event loop goes on while there is a callback ready, a timer to      *)
(* expire or a file operation to answer, whichever it takes first; a       *)
(* process that was sent SIGKILL ends.  Nothing obliges a user to send a   *)
(* signal, `aco cancel` to be typed or to proceed, or a provider to end    *)
(* before it is killed.                                                    *)
(***************************************************************************)
Fairness ==
    /\ WF_vars(EventLoop)
    /\ WF_vars(sent = "kill" /\ ChildEnds)

FairSpec == Spec /\ Fairness
-----------------------------------------------------------------------------
(***************************************************************************)
(* Properties                                                              *)
(***************************************************************************)

\* The provider succeeded: it exited with 0 before its timeout.
Success == child = "zero" /\ timeout # "fired"

\* A verdict in task.json is the provider's: 'done' only after it exited
\* with 0 in time, 'failed' only when it did not; and so is the exit code 0
\* of the run (cli.ts 276-292).
VerdictIsEarned ==
    /\ task.rec # NoRecord =>
           /\ task.rec.status = "done" => Success
           /\ task.rec.status = "failed" => ~Success /\ child # "live"
    /\ exit = "drain" => Success

\* Once cmdRun has seen the session cancelled no verdict ever replaces it,
\* not even one still in flight (cli.ts 269-274).
SeenCancelIsKept ==
    [][seen /\ task'.rec # NoRecord
       => task'.rec.status \notin {"done", "failed"}]_vars

\* The wrapper leaves a provider running behind it in two cases only: its
\* output broke, or the signal that ended it came before the provider had a
\* pid.  It does not by its own exits, nor by a default disposition, nor by
\* exiting before the SIGKILL it owes (provider-cancellation.ts 81-110,
\* cli.ts 263-267).
NoOrphanOncePidKnown ==
    ~Alive /\ child = "live" =>
        \/ exit = "crash"
        \/ exit = "handler" /\ (sent = "kill" \/ grace = "off")

\* What the shell that started the run makes of the call.
CallAnswer ==
    CASE exit = "none" -> "none"
      [] exit = "drain" -> "ok"
      [] exit = "main" -> "failed"
      [] OTHER -> "abandoned"

\* However the timeout, the handler, the cancelling processes and the end of
\* the wrapper interleave, the run is one call of its provider.
Call == INSTANCE ProviderCall
            WITH child <- child, sent <- sent, answer <- CallAnswer
CallProtocol == Call!Spec

\* The wrapper ends: if not by a signal, then because the timeout stops
\* even a provider that ignores SIGTERM (spawn-stream.ts 195-207).
RunEnds == <>~Alive

\* A provider whose pid the handler knew ends, though the wrapper may be
\* gone by then, unless broken output ends the wrapper in the grace period
\* (provider-cancellation.ts 101-110).
CancelEndsProvider ==
    (grace = "armed") ~> (child # "live" \/ exit = "crash")

(***************************************************************************)
(* Claims of the repository's documents that the code does not keep.       *)
(***************************************************************************)

\* "The session store is the observable contract; the final status must
\* reflect the operator action" (openspec/changes/
\* add-provider-smoke-timeout-session-reliability/design.md 95): what `aco
\* cancel` has recorded should stay.  Any update that read the record before
\* it and writes after it takes it back: the runtime context's (cli.ts 232)
\* and the pid's with 'running', the verdict's (cli.ts 271-292) with 'done'
\* or 'failed'.
CancelPrevails ==
    \A c \in Cancellers :
        canceller[c] = "cancelled" /\ task.rec # NoRecord
            => task.rec.status = "cancelled"
=============================================================================
