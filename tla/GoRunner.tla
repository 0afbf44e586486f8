------------------------------ MODULE GoRunner ------------------------------
(***************************************************************************)
(* ProcessRunner.Run of the Go runtime (internal/runner/process.go): one   *)
(* blocking provider invocation.  Four goroutines share it: Run itself,    *)
(* the one in cmd.Wait, the one that forwards signals, and the AfterFunc   *)
(* of the force kill.  They meet in selects, whose choice among the ready  *)
(* cases is arbitrary.                                                     *)
(***************************************************************************)
EXTENDS Naturals

CONSTANT MaxSignals   \* bound: how many SIGINT/SIGTERM the process receives

ASSUME MaxSignalsAssumption == MaxSignals \in Nat

VARIABLES
    run,         \* where Run is
    result,      \* what it returned
    child, sent, \* the provider process (the group's leader)
    worker,      \* a descendant in the group that shares the pipes
    waitCh,      \* what cmd.Wait has sent
    ctx,         \* ctx.Err()
    done,        \* the done channel is closed
    fkt,         \* the force kill timer of the timeout path
    fwd,         \* the forwarding goroutine
    fwdTimer,    \* its own force kill timer
    sigCh,       \* a signal is buffered in its channel
    signals,     \* how many signals the process has received
    aco          \* the aco process, which a signal may end

procVars == <<child, sent, worker>>
fwdVars == <<fwd, fwdTimer, sigCh>>
vars == <<run, result, child, sent, worker, waitCh, ctx, done, fkt, fwd,
          fwdTimer, sigCh, signals, aco>>

Ended == {"zero", "nonzero", "signal"}

TypeOK ==
    /\ run \in {"start", "started", "select", "drain", "stop", "classify",
                "returned"}
    /\ result \in {"none", "ok", "timeout", "signal", "exit", "notstarted"}
    /\ child \in {"none", "live"} \cup Ended
    /\ sent \in {"none", "term", "kill"}
    /\ worker \in {"none", "live", "dead"}
    /\ waitCh \in {"none", "nil", "err"}
    /\ ctx \in {"none", "deadline", "canceled"}
    /\ done \in BOOLEAN
    /\ fkt \in {"none", "armed", "stopped", "fired", "killed"}
    /\ fwd \in {"none", "listening", "grace", "killed", "quiet"}
    /\ fwdTimer \in {"off", "armed", "expired"}
    /\ sigCh \in BOOLEAN
    /\ signals \in 0..MaxSignals
    /\ aco \in {"alive", "killed"}

Init ==
    /\ run = "start" /\ result = "none"
    /\ child = "none" /\ sent = "none" /\ worker = "none"
    /\ waitCh = "none" /\ ctx = "none" /\ done = FALSE
    /\ fkt = "none"
    /\ fwd = "none" /\ fwdTimer = "off" /\ sigCh = FALSE
    /\ signals = 0 /\ aco = "alive"

Alive == aco = "alive"
PipeHeld == child = "live" \/ worker = "live"

\* killProcessGroup: whoever of the group still runs gets the signal.
Term == sent' = IF child = "live" /\ sent = "none" THEN "term" ELSE sent
Kill == /\ sent' = IF child = "live" THEN "kill" ELSE sent
        /\ worker' = IF worker = "live" THEN "dead" ELSE worker
-----------------------------------------------------------------------------
\* The process group

WorkerForks ==
    /\ child = "live" /\ worker = "none" /\ sent # "kill"
    /\ worker' = "live"
    /\ UNCHANGED <<run, result, child, sent, waitCh, ctx, done, fkt, signals,
                   aco>>
    /\ UNCHANGED fwdVars

LeaderEnds ==
    /\ child = "live"
    /\ child' \in IF sent = "kill" THEN {"signal"} ELSE Ended
    /\ UNCHANGED <<run, result, sent, worker, waitCh, ctx, done, fkt, signals,
                   aco>>
    /\ UNCHANGED fwdVars

WorkerEnds ==
    /\ worker = "live"
    /\ worker' = "dead"
    /\ UNCHANGED <<run, result, child, sent, waitCh, ctx, done, fkt, signals,
                   aco>>
    /\ UNCHANGED fwdVars
-----------------------------------------------------------------------------
\* Run

StartFails ==
    /\ Alive /\ run = "start"
    /\ run' = "returned"
    /\ result' = "notstarted"
    /\ ctx' = IF ctx = "none" THEN "canceled" ELSE ctx
    /\ UNCHANGED <<waitCh, done, fkt, signals, aco>>
    /\ UNCHANGED procVars /\ UNCHANGED fwdVars

Start ==
    /\ Alive /\ run = "start"
    /\ run' = "started"
    /\ child' = "live"
    /\ UNCHANGED <<result, sent, worker, waitCh, ctx, done, fkt, signals, aco>>
    /\ UNCHANGED fwdVars

\* forwardSignals: from here on SIGINT and SIGTERM go to its channel.
ForwardSignals ==
    /\ Alive /\ run = "started"
    /\ run' = "select"
    /\ fwd' = "listening"
    /\ UNCHANGED <<result, waitCh, ctx, done, fkt, fwdTimer, sigCh, signals,
                   aco>>
    /\ UNCHANGED procVars

\* The deadline of context.WithTimeout passes.
DeadlinePasses ==
    /\ Alive /\ ctx = "none" /\ run # "returned"
    /\ ctx' = "deadline"
    /\ UNCHANGED <<run, result, waitCh, done, fkt, signals, aco>>
    /\ UNCHANGED procVars /\ UNCHANGED fwdVars

\* cmd.Wait returns when the leader is gone and nobody holds its pipes; a
\* failed copy of the output is an error, even behind exit code 0.
WaitReturns ==
    /\ Alive /\ child \in Ended /\ ~PipeHeld /\ waitCh = "none"
    /\ waitCh' \in {"err"} \cup IF child = "zero" THEN {"nil"} ELSE {}
    /\ UNCHANGED <<run, result, ctx, done, fkt, signals, aco>>
    /\ UNCHANGED procVars /\ UNCHANGED fwdVars

\* case waitErr = <-waitCh
SelectWait ==
    /\ Alive /\ run = "select" /\ waitCh # "none"
    /\ run' = "classify"
    /\ UNCHANGED <<result, waitCh, ctx, done, fkt, signals, aco>>
    /\ UNCHANGED procVars /\ UNCHANGED fwdVars

\* case <-ctx.Done(): terminateCommand, then wait for the process.
SelectTimeout ==
    /\ Alive /\ run = "select" /\ ctx = "deadline"
    /\ run' = "drain"
    /\ Term
    /\ fkt' = "armed"
    /\ UNCHANGED <<result, child, worker, waitCh, ctx, done, signals, aco>>
    /\ UNCHANGED fwdVars

DrainWait ==
    /\ Alive /\ run = "drain" /\ waitCh # "none"
    /\ run' = "stop"
    /\ UNCHANGED <<result, waitCh, ctx, done, fkt, signals, aco>>
    /\ UNCHANGED procVars /\ UNCHANGED fwdVars

\* Mutation: the force kill stays scheduled.
StopForceKill_Skipped ==
    /\ Alive /\ run = "stop"
    /\ run' = "classify"
    /\ UNCHANGED <<result, waitCh, ctx, done, fkt, signals, aco>>
    /\ UNCHANGED procVars /\ UNCHANGED fwdVars

\* forceKillTimer.Stop blocks while a fired AfterFunc has not killed yet.
StopForceKill ==
    /\ Alive /\ run = "stop" /\ fkt # "fired"
    /\ run' = "classify"
    /\ fkt' = IF fkt = "armed" THEN "stopped" ELSE fkt
    /\ UNCHANGED <<result, waitCh, ctx, done, signals, aco>>
    /\ UNCHANGED procVars /\ UNCHANGED fwdVars

\* The AfterFunc of terminateCommand starts, and kills.
ForceKillFires ==
    /\ Alive /\ fkt = "armed"
    /\ fkt' = "fired"
    /\ UNCHANGED <<run, result, waitCh, ctx, done, signals, aco>>
    /\ UNCHANGED procVars /\ UNCHANGED fwdVars

\* Mutation: SIGKILL to the leader only.
ForceKills_LeaderOnly ==
    /\ Alive /\ fkt = "fired"
    /\ fkt' = "killed"
    /\ sent' = IF child = "live" THEN "kill" ELSE sent
    /\ UNCHANGED <<run, result, child, worker, waitCh, ctx, done, signals,
                   aco>>
    /\ UNCHANGED fwdVars

ForceKills ==
    /\ Alive /\ fkt = "fired"
    /\ fkt' = "killed"
    /\ Kill
    /\ UNCHANGED <<run, result, child, waitCh, ctx, done, signals, aco>>
    /\ UNCHANGED fwdVars

\* Mutation: the way the process ended is passed on as it is.
ClassifyWaitError_Raw == IF waitCh = "nil" THEN "ok" ELSE child

\* Mutation: the deadline is not looked at.
ClassifyWaitError_NoDeadline ==
    IF waitCh = "nil" THEN "ok"
    ELSE IF child = "signal" THEN "signal" ELSE "exit"

\* classifyWaitError; authentication failures are one kind of "exit".
ClassifyWaitError ==
    IF waitCh = "nil" THEN "ok"
    ELSE IF ctx = "deadline" THEN "timeout"
    ELSE IF child = "signal" THEN "signal" ELSE "exit"

\* Run returns: done is closed and the context cancelled by its defers.
Return ==
    /\ Alive /\ run = "classify"
    /\ run' = "returned"
    /\ result' = ClassifyWaitError
    /\ done' = TRUE
    /\ ctx' = IF ctx = "none" THEN "canceled" ELSE ctx
    /\ UNCHANGED <<waitCh, fkt, signals, aco>>
    /\ UNCHANGED procVars /\ UNCHANGED fwdVars
-----------------------------------------------------------------------------
\* Signals and the goroutine that forwards them

Notified == fwd \in {"listening", "grace"}

\* A notified signal is buffered, or dropped when one is already; before
\* Notify and after Stop the default disposition ends the process.
SignalArrives ==
    /\ Alive /\ signals < MaxSignals /\ signals' = signals + 1
    /\ IF Notified
       THEN sigCh' = TRUE /\ UNCHANGED aco
       ELSE aco' = "killed" /\ UNCHANGED sigCh
    /\ UNCHANGED <<run, result, waitCh, ctx, done, fkt, fwd, fwdTimer>>
    /\ UNCHANGED procVars

\* Mutation: SIGKILL at once.
Forward_KillAtOnce ==
    /\ Alive /\ fwd = "listening" /\ sigCh
    /\ sigCh' = FALSE
    /\ fwd' = "grace"
    /\ fwdTimer' = "armed"
    /\ Kill
    /\ UNCHANGED <<run, result, child, waitCh, ctx, done, fkt, signals, aco>>

\* Mutation: one signal is all it captures, and nothing is scheduled.
Forward_Once ==
    /\ Alive /\ fwd = "listening" /\ sigCh
    /\ sigCh' = FALSE
    /\ fwd' = "quiet"
    /\ Term
    /\ UNCHANGED <<run, result, child, worker, waitCh, ctx, done, fkt,
                   fwdTimer, signals, aco>>

Forward ==
    /\ Alive /\ fwd = "listening" /\ sigCh
    /\ sigCh' = FALSE
    /\ fwd' = "grace"
    /\ fwdTimer' = "armed"
    /\ Term
    /\ UNCHANGED <<run, result, child, worker, waitCh, ctx, done, fkt,
                   signals, aco>>

\* case <-ctx.Done(), case <-done; the deferred signal.Stop ends Notify.
StopListening ==
    /\ Alive /\ fwd = "listening" /\ (ctx # "none" \/ done)
    /\ fwd' = "quiet"
    /\ UNCHANGED <<run, result, waitCh, ctx, done, fkt, fwdTimer, sigCh,
                   signals, aco>>
    /\ UNCHANGED procVars

GraceExpires ==
    /\ Alive /\ fwdTimer = "armed"
    /\ fwdTimer' = "expired"
    /\ UNCHANGED <<run, result, waitCh, ctx, done, fkt, fwd, sigCh, signals,
                   aco>>
    /\ UNCHANGED procVars

\* case <-t.C
ForwardKill ==
    /\ Alive /\ fwd = "grace" /\ fwdTimer = "expired"
    /\ fwd' = "killed"
    /\ Kill
    /\ UNCHANGED <<run, result, child, waitCh, ctx, done, fkt, fwdTimer,
                   sigCh, signals, aco>>

\* case <-done: the scheduled SIGKILL is cancelled.
ForwardDone ==
    /\ Alive /\ fwd = "grace" /\ done
    /\ fwd' = "quiet"
    /\ fwdTimer' = IF fwdTimer = "armed" THEN "off" ELSE fwdTimer
    /\ UNCHANGED <<run, result, waitCh, ctx, done, fkt, sigCh, signals, aco>>
    /\ UNCHANGED procVars
-----------------------------------------------------------------------------
RunStep == \/ StartFails \/ Start \/ ForwardSignals \/ SelectWait
           \/ SelectTimeout \/ DrainWait \/ StopForceKill \/ Return

Forwarder == Forward \/ StopListening \/ ForwardKill \/ ForwardDone

Next ==
    \/ RunStep
    \/ DeadlinePasses \/ WaitReturns \/ ForceKillFires \/ ForceKills
    \/ SignalArrives \/ GraceExpires \/ Forwarder
    \/ WorkerForks \/ LeaderEnds \/ WorkerEnds

Spec == Init /\ [][Next]_vars
-----------------------------------------------------------------------------
(***************************************************************************)
(* Properties                                                              *)
(***************************************************************************)

\* What Run reports is what happened: success needs exit code 0, a timeout
\* needs a passed deadline, and what the timeout path ended with anything but
\* 0 is not passed off as a plain failure or a signal.  (Of an exit with 0
\* after the deadline it says nothing: the code reports a success there, the
\* contract, process-execution-contract.md 150, a timeout.)  Nothing of the
\* group survives a report of a started provider (classifyWaitError 346-381,
\* 180-213).
ReportIsHonest ==
    run = "returned" /\ result # "notstarted" =>
        /\ result = "ok" => child = "zero"
        /\ result = "timeout" => ctx = "deadline"
        /\ fkt # "none" /\ child # "zero" => result = "timeout"
        /\ ~PipeHeld

\* A signal ends aco with the provider still running, and not yet killed, in
\* two windows only: before Notify and after the deadline (245-281).
OrphanOnlyInWindow ==
    ~Alive /\ child = "live" =>
        run = "started" \/ ctx = "deadline" \/ sent = "kill"

\* When Run has returned, the timeout's SIGKILL is not on its way any more:
\* Stop waits for the one it cannot cancel (313-323).
NoForceKillAfterReturn == [][run = "returned" => fkt' = fkt]_vars

\* What Run's caller makes of the call; a killed aco makes nothing of it.
CallAnswer ==
    CASE run = "returned" /\ result = "ok" -> "ok"
      [] run = "returned" /\ result # "ok" -> "failed"
      [] run # "returned" /\ ~Alive -> "abandoned"
      [] OTHER -> "none"

\* Run is one call of its provider, as in the node runtime, though two
\* goroutines may send either signal.
Call == INSTANCE ProviderCall
            WITH child <- child, sent <- sent, answer <- CallAnswer
CallProtocol == Call!Spec
=============================================================================
