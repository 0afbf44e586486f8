---------------------------- MODULE SpawnStream ----------------------------
(***************************************************************************)
(* One call of spawnStream (packages/wrapper/src/util/spawn-stream.ts): it *)
(* starts the provider in a process group of its own, yields its stdout,   *)
(* enforces the timeout and settles when the process is closed.  Its       *)
(* callbacks ('close', 'error', two timers, two unlink promises) interleave *)
(* with the consumer that pulls the chunks and with the life of the group. *)
(***************************************************************************)
EXTENDS Naturals

CONSTANTS
    StdinFile,   \* is the prompt passed through a temporary file?
    HasTimeout,  \* is options.timeoutMs set?
    MaxChunks    \* bound: how many chunks the provider writes

ASSUME OptionsAssumption == StdinFile \in BOOLEAN /\ HasTimeout \in BOOLEAN
ASSUME MaxChunksAssumption == MaxChunks \in Nat

VARIABLES
    gen,        \* the generator: where it awaits, or how it is over
    tmp,        \* does the temporary stdin file exist?
    child, sent,\* the provider process (the group's leader)
    worker,     \* a descendant in the group that shares the stdout pipe
    produced,   \* chunks written to the pipe
    yielded,    \* chunks handed to the consumer
    timeout, forceKill,  \* the two timers
    closing     \* closePromise: what its callbacks have come to

groupVars == <<child, sent, worker>>
timerVars == <<timeout, forceKill>>
vars == <<gen, tmp, child, sent, worker, produced, yielded, timeout,
          forceKill, closing>>

Ended == {"zero", "nonzero", "signal"}
Timer == {"off", "armed", "fired"}
Outcomes == {"ok", "timeout", "failed"}

TypeOK ==
    /\ gen \in {"start", "throwing", "nopipe", "streaming", "awaiting",
                "finished", "threw", "crashed"}
    /\ tmp \in BOOLEAN
    /\ child \in {"none", "live"} \cup Ended
    /\ sent \in {"none", "term", "kill"}
    /\ worker \in {"none", "live", "dead"}
    /\ produced \in 0..MaxChunks
    /\ yielded \in 0..produced
    /\ timeout \in Timer
    /\ forceKill \in Timer
    /\ closing \in {"open", "closed", "error"} \cup Outcomes

Init ==
    /\ gen = "start"
    /\ tmp = StdinFile
    /\ child = "none" /\ sent = "none" /\ worker = "none"
    /\ produced = 0 /\ yielded = 0
    /\ timeout = "off" /\ forceKill = "off"
    /\ closing = "open"

\* Does a process of the group still hold the write end of the pipe?
PipeHeld == child = "live" \/ worker = "live"
-----------------------------------------------------------------------------
\* openSync or spawn throws: the temporary file is removed, then rethrown.
LaunchThrows ==
    /\ gen = "start"
    /\ gen' = "throwing"
    /\ UNCHANGED <<tmp, produced, yielded, closing>>
    /\ UNCHANGED groupVars /\ UNCHANGED timerVars

Rethrow ==
    /\ gen = "throwing"
    /\ tmp' = FALSE
    /\ gen' = "threw"
    /\ UNCHANGED <<produced, yielded, closing>>
    /\ UNCHANGED groupVars /\ UNCHANGED timerVars

\* spawn returns; a binary that cannot be run has no pid, and an 'error'
\* event to come.
Launch ==
    /\ gen = "start"
    /\ gen' = "streaming"
    /\ \/ child' = "live" /\ UNCHANGED closing
       \/ closing' = "error" /\ UNCHANGED child
    /\ timeout' = IF HasTimeout THEN "armed" ELSE "off"
    /\ UNCHANGED <<tmp, sent, worker, produced, yielded, forceKill>>

\* spawn returns without a process and without pipes (no descriptor is left):
\* the generator cleans up to throw, before it listens to 'error'.
LaunchWithoutPipe ==
    /\ gen = "start"
    /\ gen' = "nopipe"
    /\ closing' = "error"
    /\ UNCHANGED <<tmp, produced, yielded>>
    /\ UNCHANGED groupVars /\ UNCHANGED timerVars

\* That event comes in the next tick, before the unlink the throw waits for,
\* and an 'error' nobody listens to ends the wrapper process.
UnheardError ==
    /\ gen = "nopipe" /\ closing = "error"
    /\ gen' = "crashed"
    /\ tmp' \in {tmp, FALSE}
    /\ UNCHANGED <<produced, yielded, closing>>
    /\ UNCHANGED groupVars /\ UNCHANGED timerVars

\* Mutation: SIGKILL without the grace period.
TimeoutFires_KillAtOnce ==
    /\ timeout = "armed" /\ closing # "error"
    /\ timeout' = "fired"
    /\ sent' = IF child = "live" THEN "kill" ELSE sent
    /\ UNCHANGED <<gen, tmp, child, worker, produced, yielded, forceKill,
                   closing>>

\* The timeout: SIGTERM to the group and the force kill behind it.  The
\* 'error' of a failed spawn comes before any timer.
TimeoutFires ==
    /\ timeout = "armed" /\ closing # "error"
    /\ timeout' = "fired"
    /\ sent' = IF child = "live" /\ sent = "none" THEN "term" ELSE sent
    /\ forceKill' = "armed"
    /\ UNCHANGED <<gen, tmp, child, worker, produced, yielded, closing>>

\* Mutation: only the leader is killed.
ForceKillFires_PidOnly ==
    /\ forceKill = "armed"
    /\ forceKill' = "fired"
    /\ sent' = IF child = "live" THEN "kill" ELSE sent
    /\ UNCHANGED <<gen, tmp, child, worker, produced, yielded, timeout,
                   closing>>

\* SIGKILL to the group: the worker is gone, the leader about to be.
ForceKillFires ==
    /\ forceKill = "armed"
    /\ forceKill' = "fired"
    /\ sent' = IF child = "live" THEN "kill" ELSE sent
    /\ worker' = IF worker = "live" THEN "dead" ELSE worker
    /\ UNCHANGED <<gen, tmp, child, produced, yielded, timeout, closing>>
-----------------------------------------------------------------------------
\* The process group

WorkerForks ==
    /\ child = "live" /\ worker = "none" /\ sent # "kill"
    /\ worker' = "live"
    /\ UNCHANGED <<gen, tmp, child, sent, produced, yielded, closing>>
    /\ UNCHANGED timerVars

Writes ==
    /\ PipeHeld /\ sent # "kill"
    /\ produced < MaxChunks /\ produced' = produced + 1
    /\ UNCHANGED <<gen, tmp, yielded, closing>>
    /\ UNCHANGED groupVars /\ UNCHANGED timerVars

LeaderEnds ==
    /\ child = "live"
    /\ child' \in IF sent = "kill" THEN {"signal"} ELSE Ended
    /\ UNCHANGED <<gen, tmp, sent, worker, produced, yielded, closing>>
    /\ UNCHANGED timerVars

WorkerEnds ==
    /\ worker = "live"
    /\ worker' = "dead"
    /\ UNCHANGED <<gen, tmp, child, sent, produced, yielded, closing>>
    /\ UNCHANGED timerVars
-----------------------------------------------------------------------------
\* The generator and its callbacks

\* The consumer pulls the next chunk of the for await loop.
Yield ==
    /\ gen = "streaming" /\ yielded < produced
    /\ yielded' = yielded + 1
    /\ UNCHANGED <<gen, tmp, produced, closing>>
    /\ UNCHANGED groupVars /\ UNCHANGED timerVars

\* Mutation: the loop is left at the exit of the leader.
EndOfOutput_AtExit ==
    /\ gen = "streaming" /\ child # "live"
    /\ gen' = "awaiting"
    /\ UNCHANGED <<tmp, produced, yielded, closing>>
    /\ UNCHANGED groupVars /\ UNCHANGED timerVars

\* The loop ends when the pipe is empty and nobody can write to it.
EndOfOutput ==
    /\ gen = "streaming" /\ yielded = produced /\ ~PipeHeld
    /\ gen' = "awaiting"
    /\ UNCHANGED <<tmp, produced, yielded, closing>>
    /\ UNCHANGED groupVars /\ UNCHANGED timerVars

\* Mutation: an armed force kill survives the end of the process.
ClearExecutionTimers_TimeoutOnly ==
    /\ timeout' = IF timeout = "armed" THEN "off" ELSE timeout
    /\ UNCHANGED forceKill

ClearExecutionTimers ==
    /\ timeout' = IF timeout = "armed" THEN "off" ELSE timeout
    /\ forceKill' = IF forceKill = "armed" THEN "off" ELSE forceKill

\* The 'close' event: the leader is gone and its stdio is closed.
OnClose ==
    /\ child \in Ended /\ ~PipeHeld /\ closing = "open"
    /\ ClearExecutionTimers
    /\ closing' = "closed"
    /\ UNCHANGED <<gen, tmp, produced, yielded>>
    /\ UNCHANGED groupVars

CloseVerdict ==
    IF timeout = "fired" THEN "timeout"
    ELSE IF child # "zero" THEN "failed" ELSE "ok"

\* The unlink it waited for is through: closePromise settles.
AfterClose ==
    /\ closing = "closed"
    /\ tmp' = FALSE
    /\ closing' = CloseVerdict
    /\ UNCHANGED <<gen, produced, yielded>>
    /\ UNCHANGED groupVars /\ UNCHANGED timerVars

\* The 'error' event of a spawn without a process, and its unlink.
OnError ==
    /\ closing = "error" /\ gen \in {"streaming", "awaiting"}
    /\ ClearExecutionTimers
    /\ tmp' = FALSE
    /\ closing' = "failed"
    /\ UNCHANGED <<gen, produced, yielded>>
    /\ UNCHANGED groupVars

\* await closePromise
Settle ==
    /\ gen = "awaiting" /\ closing \in Outcomes
    /\ gen' = IF closing = "ok" THEN "finished" ELSE "threw"
    /\ UNCHANGED <<tmp, produced, yielded, closing>>
    /\ UNCHANGED groupVars /\ UNCHANGED timerVars

Over ==
    /\ gen \in {"finished", "threw", "crashed"}
    /\ UNCHANGED vars
-----------------------------------------------------------------------------
Launches == LaunchThrows \/ Launch \/ LaunchWithoutPipe

Callback == \/ Rethrow \/ UnheardError \/ Yield \/ EndOfOutput
            \/ OnClose \/ AfterClose \/ OnError \/ Settle

Next ==
    \/ Launches
    \/ TimeoutFires \/ ForceKillFires
    \/ WorkerForks \/ Writes \/ LeaderEnds \/ WorkerEnds
    \/ Callback
    \/ Over

Spec == Init /\ [][Next]_vars
-----------------------------------------------------------------------------
(***************************************************************************)
(* Properties                                                              *)
(***************************************************************************)
IsOver == gen \in {"finished", "threw"}

\* When the consumer gets its answer, whatever it is, the temporary prompt
\* file is gone, no timer is pending, and nobody runs or holds the pipe; and
\* from the moment the end of the process is known no timer will signal its
\* pid, which may belong to another process by then
\* (spawn-stream.ts 133-173, 184-193, 240-275).
NothingLeftBehind ==
    /\ IsOver => ~tmp /\ ~PipeHeld
    /\ IsOver \/ closing \notin {"open", "error"}
           => "armed" \notin {timeout, forceKill}

\* A call that succeeds has yielded every chunk the group wrote, even when
\* the leader exited long before its worker, and the consumer sees a timeout
\* exactly when the timeout ended the process, whatever exit status the
\* process made of it (281-301, 317, 248-267).
ConsumerIsTold ==
    /\ gen = "finished" => yielded = produced
    /\ IsOver /\ child # "none"
           => (timeout = "fired" <=> closing = "timeout")

\* What the consumer makes of the call: the end of its loop, an exception,
\* or nothing, when the wrapper crashes.
CallAnswer ==
    CASE gen = "finished" -> "ok"
      [] gen = "threw" -> "failed"
      [] gen = "crashed" -> "abandoned"
      [] OTHER -> "none"

\* The generator is one call of its provider: what it tells the consumer
\* agrees with the process, and comes when nothing runs any more.
Call == INSTANCE ProviderCall
            WITH child <- child, sent <- sent, answer <- CallAnswer
CallProtocol == Call!Spec
=============================================================================
