------------------------- MODULE SpawnStreamProofs -------------------------
(***************************************************************************)
(* What SpawnStream establishes for every number of chunks, with or without *)
(* a timeout, and however the prompt is passed.                            *)
(***************************************************************************)
EXTENDS SpawnStream, TLAPS

-----------------------------------------------------------------------------
(***************************************************************************)
(* The inductive invariant, part by part.                                  *)
(***************************************************************************)

\* What has happened to the process at each stage of the generator.
Stages ==
    /\ gen \in {"start", "throwing"} => closing = "open" /\ timeout = "off"
    /\ gen \in {"start", "throwing", "nopipe", "crashed"} => child = "none"
    /\ gen \in {"nopipe", "crashed"} => closing = "error" /\ timeout = "off"
    /\ child = "none" => /\ sent = "none" /\ worker = "none"
                         /\ produced = 0 /\ forceKill = "off"
                         /\ closing \in {"open", "error", "failed"}
    /\ child # "none" => closing # "error"
    /\ child = "none" /\ timeout # "off" => closing # "open"

\* The leader and the worker are gone, and no timer will signal them.
Quiet == ~PipeHeld /\ timeout # "armed" /\ forceKill # "armed"

\* What the callbacks of closePromise have established when it settles.
Closings ==
    /\ closing \notin {"open", "error"} => Quiet
    /\ closing \in Outcomes => ~tmp
    /\ closing \in Outcomes /\ child # "none" =>
           (timeout = "fired" <=> closing = "timeout")
    /\ closing = "ok" => child = "zero"

\* What the consumer may rely on once the loop, or the call, is over.
Endings ==
    /\ gen \in {"awaiting", "finished", "threw"}
           => yielded = produced /\ ~PipeHeld
    /\ gen = "finished" => closing = "ok"
    /\ gen = "threw" => \/ closing \in {"timeout", "failed"}
                        \/ Quiet /\ ~tmp /\ child = "none"

\* The force kill is the timeout's, and follows its SIGTERM.
AskedFirst ==
    /\ forceKill # "off" => timeout = "fired"
    /\ child = "live" /\ forceKill = "armed" => sent # "none"

IInv ==
    /\ TypeOK
    /\ Stages
    /\ Closings
    /\ Endings
    /\ AskedFirst
-----------------------------------------------------------------------------
\* A call that has not spawned anything satisfies the invariant.
LEMMA InitIInv == Init => IInv
  BY OptionsAssumption, MaxChunksAssumption
  DEF Init, IInv, TypeOK, Stages, Closings, Endings, AskedFirst, Quiet,
      PipeHeld, Ended, Timer, Outcomes

\* Every callback, timer and process event preserves the invariant.
LEMMA NextIInv == IInv /\ [Next]_vars => IInv'
<1> SUFFICES ASSUME IInv, [Next]_vars PROVE IInv'
  OBVIOUS
<1> USE OptionsAssumption, MaxChunksAssumption
    DEF IInv, TypeOK, Stages, Closings, Endings, AskedFirst, Quiet, PipeHeld,
        Ended, Timer, Outcomes, groupVars, timerVars
<1>1. CASE LaunchThrows
  BY <1>1 DEF LaunchThrows
<1>2. CASE Launch
  BY <1>2 DEF Launch
<1>3. CASE LaunchWithoutPipe
  BY <1>3 DEF LaunchWithoutPipe
<1>4. CASE TimeoutFires
  <2>1. child # "none"
    BY <1>4 DEF TimeoutFires
  <2>2. QED
    BY <1>4, <2>1 DEF TimeoutFires
<1>5. CASE ForceKillFires
  BY <1>5 DEF ForceKillFires
<1>6. CASE WorkerForks
  BY <1>6 DEF WorkerForks
<1>7. CASE Writes
  BY <1>7 DEF Writes
<1>8. CASE LeaderEnds
  BY <1>8 DEF LeaderEnds
<1>9. CASE WorkerEnds
  BY <1>9 DEF WorkerEnds
<1>10. CASE Rethrow
  <2>1. child = "none" /\ produced = 0 /\ yielded = 0 /\ worker = "none"
    BY <1>10 DEF Rethrow
  <2>2. QED
    BY <1>10, <2>1 DEF Rethrow
<1>11. CASE UnheardError
  BY <1>11 DEF UnheardError
<1>12. CASE Yield
  BY <1>12 DEF Yield
<1>13. CASE EndOfOutput
  BY <1>13 DEF EndOfOutput
<1>14. CASE OnClose
  BY <1>14 DEF OnClose, ClearExecutionTimers
<1>15. CASE AfterClose
  <2>1. /\ closing = "closed" /\ tmp' = FALSE /\ closing' = CloseVerdict
        /\ UNCHANGED <<gen, child, sent, worker, produced, yielded, timeout,
                       forceKill>>
    BY <1>15 DEF AfterClose
  <2>2. /\ closing' \in Outcomes /\ (closing' = "ok" => child = "zero")
        /\ timeout = "fired" <=> closing' = "timeout"
    BY <2>1 DEF CloseVerdict
  <2>3. gen \notin {"finished", "threw"} \/ child = "none"
    BY <2>1
  <2>4. QED
    BY <2>1, <2>2, <2>3
<1>16. CASE OnError
  BY <1>16 DEF OnError, ClearExecutionTimers
<1>17. CASE Settle
  BY <1>17 DEF Settle
<1>18. CASE Over \/ UNCHANGED vars
  BY <1>18 DEF Over, vars
<1>19. QED
  BY <1>1, <1>2, <1>3, <1>4, <1>5, <1>6, <1>7, <1>8, <1>9, <1>10, <1>11,
     <1>12, <1>13, <1>14, <1>15, <1>16, <1>17, <1>18
  DEF Next, Launches, Callback

\* The invariant holds throughout.
THEOREM Invariance == Spec => []IInv
  BY InitIInv, NextIInv, PTL DEF Spec
-----------------------------------------------------------------------------
\* The state keeps its shape.
THEOREM TypeCorrect == Spec => []TypeOK
<1>1. IInv => TypeOK
  BY DEF IInv
<1>2. QED
  BY <1>1, Invariance, PTL

\* A call that is over leaves no prompt file, no timer and no process: the
\* outcome it waited for is settled only after the unlink, and the 'close'
\* behind that outcome found the pipe free.
THEOREM NothingIsLeft == Spec => []NothingLeftBehind
<1>1. IInv => NothingLeftBehind
  BY DEF IInv, TypeOK, Stages, Closings, Endings, Quiet, NothingLeftBehind,
         IsOver, PipeHeld, Outcomes
<1>2. QED
  BY <1>1, Invariance, PTL

\* A call that succeeds has yielded all the output of the group, and the
\* consumer sees a timeout exactly when the timer fired.
THEOREM ConsumersAreTold == Spec => []ConsumerIsTold
<1>1. IInv => ConsumerIsTold
  BY DEF IInv, TypeOK, Closings, Endings, ConsumerIsTold, IsOver, Outcomes
<1>2. QED
  BY <1>1, Invariance, PTL

\* A step of SpawnStream is a step of the call, or changes nothing of it.
LEMMA CallStep == IInv /\ [Next]_vars => Call!Next
<1> SUFFICES ASSUME IInv, [Next]_vars
             PROVE  Call!Next
  OBVIOUS
<1> USE DEF IInv, TypeOK, Stages, Ended, groupVars, timerVars, Call!Ended
<1>1. CASE Launch
  BY <1>1 DEF Launch, Call!Next, Call!Process, Call!Start, CallAnswer
<1>2. CASE TimeoutFires
  BY <1>2 DEF TimeoutFires, Call!Next, Call!Process, Call!Terminate,
              CallAnswer
<1>3. CASE ForceKillFires
  BY <1>3 DEF ForceKillFires, AskedFirst, Call!Next, Call!Process,
              Call!Kill, CallAnswer
<1>4. CASE LeaderEnds
  BY <1>4 DEF LeaderEnds, Call!Next, Call!Process, Call!Exit, CallAnswer
<1>5. CASE Settle
  <2>1. gen = "awaiting" /\ ~PipeHeld /\ UNCHANGED <<child, sent>>
    BY <1>5 DEF Settle, Endings
  <2>2. CASE closing = "ok"
    <3>1. child = "zero" /\ gen' = "finished"
      BY <1>5, <2>2 DEF Settle, Closings
    <3>2. QED
      BY <2>1, <3>1 DEF Call!Next, Call!Process, Call!Answer, CallAnswer
  <2>3. CASE closing # "ok"
    <3>1. child # "live" /\ gen' = "threw"
      BY <1>5, <2>1, <2>3 DEF Settle, PipeHeld
    <3>2. QED
      BY <2>1, <3>1 DEF Call!Next, Call!Process, Call!Answer, CallAnswer
  <2>4. QED
    BY <2>2, <2>3
<1>6. CASE Rethrow \/ UnheardError
  BY <1>6 DEF Rethrow, UnheardError, Call!Next, Call!Process, Call!Answer,
              CallAnswer
<1>7. CASE \/ LaunchThrows \/ LaunchWithoutPipe \/ Yield \/ EndOfOutput
           \/ OnClose \/ AfterClose \/ OnError
  BY <1>7 DEF LaunchThrows, LaunchWithoutPipe, Yield, EndOfOutput, OnClose,
              AfterClose, OnError, Call!Next, Call!Process, CallAnswer
<1>8. CASE WorkerForks \/ Writes \/ WorkerEnds \/ Over \/ UNCHANGED vars
  BY <1>8 DEF WorkerForks, Writes, WorkerEnds, Over, vars, Call!Next,
              Call!Process, CallAnswer
<1>9. QED
  BY <1>1, <1>2, <1>3, <1>4, <1>5, <1>6, <1>7, <1>8
  DEF Next, Launches, Callback

\* SpawnStream implements ProviderCall: the consumer's answer is earned, and
\* comes when nothing of the call runs any more.
THEOREM CallProtocolHolds == Spec => CallProtocol
<1>1. Init => Call!Init
  BY DEF Init, Call!Init, CallAnswer
<1>2. IInv /\ [Next]_vars => [Call!Next]_(Call!vars)
  BY CallStep
<1>3. QED
  BY <1>1, <1>2, Invariance, PTL DEF Spec, CallProtocol, Call!Spec
=============================================================================
