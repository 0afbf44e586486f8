------------------------------- MODULE GoProofs -------------------------------
(***************************************************************************)
(* What GoRunner establishes for any number of signals, and GoCommand      *)
(* around it for any formatters, agents and registry.                      *)
(***************************************************************************)
EXTENDS GoCommand, TLAPS

-----------------------------------------------------------------------------
(***************************************************************************)
(* The inductive invariant, part by part.                                  *)
(***************************************************************************)

NotStarted == run = "returned" /\ result = "notstarted"

\* What exists at each stage of Run.
Stages ==
    /\ child = "none" <=> run = "start" \/ NotStarted
    /\ fwd = "none" <=> run \in {"start", "started"} \/ NotStarted
    /\ child = "none" => worker = "none" /\ sent = "none"
    /\ run # "returned" => result = "none" /\ ~done /\ ctx # "canceled"

\* The force kill belongs to the timeout path.
ForceKill ==
    /\ run \in {"start", "started", "select"} \/ NotStarted => fkt = "none"
    /\ run \in {"drain", "stop"} => fkt # "none"
    /\ run \in {"classify", "returned"} => fkt \notin {"armed", "fired"}
    /\ fkt # "none" => ctx = "deadline"

\* What cmd.Wait has sent is true of the process for good.
Waited ==
    /\ waitCh # "none" => child \in Ended /\ ~PipeHeld
    /\ waitCh = "nil" => child = "zero"
    /\ run \in {"stop", "classify"} => waitCh # "none"

\* What Run returns.
Reported ==
    run = "returned" /\ ~NotStarted =>
        /\ waitCh # "none"
        /\ result = "ok" => waitCh = "nil"
        /\ result = "timeout" => ctx = "deadline"
        /\ fkt # "none" => result \in {"ok", "timeout"}

\* Where the forwarding goroutine may have gone.
Forwarding ==
    /\ fwd = "quiet" => ctx = "deadline" \/ run = "returned"
    /\ fwd = "killed" => child # "live" \/ sent = "kill"
    /\ OrphanOnlyInWindow

\* Whoever is about to kill the provider has asked it first.
AskedFirst ==
    child = "live" /\ (fkt \in {"armed", "fired"} \/ fwd = "grace")
        => sent # "none"

IInv ==
    /\ TypeOK
    /\ Stages
    /\ ForceKill
    /\ Waited
    /\ Reported
    /\ Forwarding
    /\ AskedFirst
-----------------------------------------------------------------------------
\* Before cmd.Start nothing is claimed.
LEMMA InitIInv == Init => IInv
<1> SUFFICES ASSUME Init PROVE IInv
  OBVIOUS
<1>1. TypeOK
  <2>1. signals \in 0..MaxSignals
    BY MaxSignalsAssumption DEF Init
  <2>2. QED
    BY <2>1 DEF Init, TypeOK
<1>2. Stages /\ ForceKill /\ Waited /\ Reported /\ Forwarding /\ AskedFirst
  BY DEF Init, NotStarted, Stages, ForceKill, Waited, Reported, Forwarding,
         OrphanOnlyInWindow, AskedFirst, Alive
<1>3. QED
  BY <1>1, <1>2 DEF IInv

\* Every step of the goroutines, the group and the users preserves it.
LEMMA NextIInv == IInv /\ [Next]_vars => IInv'
<1> SUFFICES ASSUME IInv, [Next]_vars PROVE IInv'
  OBVIOUS
<1> USE MaxSignalsAssumption
    DEF IInv, TypeOK, NotStarted, Stages, ForceKill, Waited, Reported,
        Forwarding, OrphanOnlyInWindow, AskedFirst, Alive, PipeHeld, Ended,
        procVars, fwdVars
<1>1. CASE WorkerForks \/ LeaderEnds \/ WorkerEnds
  <2>1. CASE WorkerForks
    BY <2>1 DEF WorkerForks
  <2>2. CASE LeaderEnds
    BY <2>2 DEF LeaderEnds
  <2>3. CASE WorkerEnds
    BY <2>3 DEF WorkerEnds
  <2>4. QED
    BY <1>1, <2>1, <2>2, <2>3
<1>2. CASE RunStep
  <2>1. CASE StartFails
    BY <2>1 DEF StartFails
  <2>2. CASE Start
    BY <2>2 DEF Start
  <2>3. CASE ForwardSignals
    BY <2>3 DEF ForwardSignals
  <2>4. CASE SelectWait
    BY <2>4 DEF SelectWait
  <2>5. CASE SelectTimeout
    BY <2>5 DEF SelectTimeout, Term
  <2>6. CASE DrainWait
    BY <2>6 DEF DrainWait
  <2>7. CASE StopForceKill
    BY <2>7 DEF StopForceKill
  <2>8. CASE Return
    BY <2>8 DEF Return, ClassifyWaitError
  <2>9. QED
    BY <1>2, <2>1, <2>2, <2>3, <2>4, <2>5, <2>6, <2>7, <2>8 DEF RunStep
<1>3. CASE DeadlinePasses
  BY <1>3 DEF DeadlinePasses
<1>4. CASE WaitReturns
  BY <1>4 DEF WaitReturns
<1>5. CASE ForceKillFires
  BY <1>5 DEF ForceKillFires
<1>6. CASE ForceKills
  BY <1>6 DEF ForceKills, Kill
<1>7. CASE SignalArrives
  <2>1. TypeOK'
    <3>1. (signals \in 0..MaxSignals)'
      BY <1>7 DEF SignalArrives
    <3>2. sigCh' \in BOOLEAN /\ aco' \in {"alive", "killed"}
      BY <1>7 DEF SignalArrives
    <3>3. QED
      BY <1>7, <3>1, <3>2 DEF SignalArrives
  <2>2. CASE Notified
    BY <1>7, <2>1, <2>2 DEF SignalArrives
  <2>3. CASE ~Notified
    BY <1>7, <2>1, <2>3 DEF SignalArrives, Notified
  <2>4. QED
    BY <2>2, <2>3
<1>8. CASE GraceExpires
  BY <1>8 DEF GraceExpires
<1>9. CASE Forwarder
  <2>1. CASE Forward
    <3>1. TypeOK'
      BY <2>1 DEF Forward, Term
    <3>2. QED
      BY <2>1, <3>1 DEF Forward, Term
  <2>2. CASE StopListening
    BY <2>2 DEF StopListening
  <2>3. CASE ForwardKill
    BY <2>3 DEF ForwardKill, Kill
  <2>4. CASE ForwardDone
    BY <2>4 DEF ForwardDone
  <2>5. QED
    BY <1>9, <2>1, <2>2, <2>3, <2>4 DEF Forwarder
<1>10. CASE UNCHANGED vars
  BY <1>10 DEF vars
<1>11. QED
  BY <1>1, <1>2, <1>3, <1>4, <1>5, <1>6, <1>7, <1>8, <1>9, <1>10 DEF Next

\* The invariant holds throughout.
THEOREM Invariance == Spec => []IInv
  BY InitIInv, NextIInv, PTL DEF Spec
-----------------------------------------------------------------------------
\* The state keeps its shape.
THEOREM TypeCorrect == Spec => []TypeOK
<1>1. IInv => TypeOK
  BY DEF IInv
<1>2. QED
  BY <1>1, Invariance, PTL

\* What Run reports is what happened to the provider, and nothing of its
\* group survives the report: the result rests on what cmd.Wait sent.
THEOREM ReportsAreHonest == Spec => []ReportIsHonest
<1>1. IInv => ReportIsHonest
  BY DEF IInv, Waited, Reported, NotStarted, ReportIsHonest
<1>2. QED
  BY <1>1, Invariance, PTL

\* A signal leaves an unkilled provider behind only before Notify or after
\* the deadline.
THEOREM OrphansOnlyInWindow == Spec => []OrphanOnlyInWindow
<1>1. IInv => OrphanOnlyInWindow
  BY DEF IInv, Forwarding
<1>2. QED
  BY <1>1, Invariance, PTL

\* The timeout's SIGKILL never comes after Run has returned.
THEOREM NoLateForceKill == Spec => NoForceKillAfterReturn
<1>1. IInv /\ [Next]_vars => [run = "returned" => fkt' = fkt]_vars
  <2> SUFFICES ASSUME IInv, Next, run = "returned" PROVE fkt' = fkt
    OBVIOUS
  <2>1. fkt \notin {"armed", "fired"}
    BY DEF IInv, ForceKill
  <2>2. QED
    BY <2>1 DEF Next, RunStep, Forwarder, WorkerForks, LeaderEnds,
                WorkerEnds, StartFails, Start, ForwardSignals, SelectWait,
                SelectTimeout, DrainWait, StopForceKill, Return,
                DeadlinePasses, WaitReturns, ForceKillFires, ForceKills,
                SignalArrives, GraceExpires, Forward, StopListening,
                ForwardKill, ForwardDone, vars
<1>2. QED
  BY <1>1, Invariance, PTL DEF Spec, NoForceKillAfterReturn

\* GoRunner implements ProviderCall: the two goroutines that signal the
\* provider ask it first, and what Run returns is earned.
THEOREM CallProtocolHolds == Spec => CallProtocol
<1>1. Init => Call!Init
  BY DEF Init, Call!Init, CallAnswer, Alive
<1>2. IInv /\ [Next]_vars => [Call!Next]_(Call!vars)
  <2> SUFFICES ASSUME IInv, [Next]_vars
               PROVE  Call!Next
    BY DEF Call!vars
  <2> USE DEF IInv, TypeOK, Stages, NotStarted, Ended, procVars, Alive,
              Call!Next, Call!Process, Call!Ended, CallAnswer
  <2>1. CASE Start
    BY <2>1 DEF Start, Call!Start
  <2>2. CASE SelectTimeout
    BY <2>2 DEF SelectTimeout, Term, Call!Terminate
  <2>3. CASE Forward
    BY <2>3 DEF Forward, Term, Call!Terminate
  <2>4. CASE ForceKills
    BY <2>4 DEF ForceKills, Kill, AskedFirst, Call!Kill
  <2>5. CASE ForwardKill
    BY <2>5 DEF ForwardKill, Kill, AskedFirst, Call!Kill
  <2>6. CASE LeaderEnds
    BY <2>6 DEF LeaderEnds, Call!Exit
  <2>7. CASE Return
    <3>1. /\ child \in Ended /\ UNCHANGED <<child, sent>>
          /\ result' = "ok" => child = "zero"
      BY <2>7 DEF Return, Waited, ClassifyWaitError
    <3>2. QED
      BY <2>7, <3>1 DEF Return, Call!Answer
  <2>8. CASE StartFails \/ SignalArrives
    BY <2>8 DEF StartFails, SignalArrives, Call!Answer
  <2>9. CASE \/ ForwardSignals \/ SelectWait \/ DrainWait \/ StopForceKill
             \/ DeadlinePasses \/ WaitReturns \/ ForceKillFires
             \/ GraceExpires \/ StopListening \/ ForwardDone
    BY <2>9 DEF ForwardSignals, SelectWait, DrainWait, StopForceKill,
                DeadlinePasses, WaitReturns, ForceKillFires, GraceExpires,
                StopListening, ForwardDone
  <2>10. CASE WorkerForks \/ WorkerEnds \/ UNCHANGED vars
    BY <2>10 DEF WorkerForks, WorkerEnds, vars
  <2>11. QED
    BY <2>1, <2>2, <2>3, <2>4, <2>5, <2>6, <2>7, <2>8, <2>9, <2>10
    DEF Next, RunStep, Forwarder
<1>3. QED
  BY <1>1, <1>2, Invariance, PTL DEF Spec, CallProtocol, Call!Spec
-----------------------------------------------------------------------------
(***************************************************************************)
(* The command implements the runner, so whatever holds of one run holds   *)
(* within a command.                                                       *)
(***************************************************************************)

-----------------------------------------------------------------------------
(***************************************************************************)
(* Routing                                                                 *)
(***************************************************************************)

\* A formatter that loads has a fallback with a provider and a model, so a
\* route is always found: "unable to resolve provider/model" is never said.
LEMMA ResolveFinds ==
    ASSUME NEW f, IsFormatter(f), NEW s \in AgentSpecs
    PROVE  /\ Resolve(f, s) \in Routes
           /\ Complete(f, Resolve(f, s))
           /\ Resolve(f, s) # NoRoute
<1> USE NamesAssumption
<1>1. f.fallback \in Routes /\ Complete(f, f.fallback)
  BY DEF IsFormatter, Routes, Complete
<1>2. AliasRoute(f, s) \in Routes
  BY DEF AliasRoute, AgentSpecs, IsFormatter, Routes, NoRoute
<1>3. Preferred(f, s) \in Providers \cup {No}
  BY DEF Preferred, AgentSpecs, IsFormatter
<1>4. HintedRoute(f, s) \in Routes
  <2>1. ASSUME NEW p \in Providers, NEW m \in Models \cup {No}
        PROVE  ModelFor(f, p, m) \in Models \cup {No}
    <3>1. f.providerModels[p] # <<>> => f.providerModels[p][1] \in Models
      BY DEF IsFormatter
    <3>2. f.fallback.model \in Models
      BY DEF IsFormatter
    <3>3. QED
      BY <3>1, <3>2 DEF ModelFor
  <2>2. CASE Preferred(f, s) \in {No, AliasRoute(f, s).provider}
    BY <2>2, <1>2 DEF HintedRoute
  <2>3. CASE Preferred(f, s) \notin {No, AliasRoute(f, s).provider}
    <3>1. Preferred(f, s) \in Providers
      BY <2>3, <1>3
    <3>2. AliasRoute(f, s).model \in Models \cup {No}
      BY <1>2 DEF Routes
    <3>3. HintedRoute(f, s) =
            [provider |-> Preferred(f, s),
             model |-> ModelFor(f, Preferred(f, s), AliasRoute(f, s).model)]
      BY <2>3 DEF HintedRoute
    <3>4. QED
      BY <3>1, <3>2, <3>3, <2>1 DEF Routes
  <2>4. QED
    BY <2>2, <2>3
<1>5. Resolve(f, s) \in Routes /\ Complete(f, Resolve(f, s))
  BY <1>1, <1>4 DEF Resolve
<1>6. ~Complete(f, NoRoute)
  BY DEF Complete, NoRoute
<1>7. QED
  BY <1>5, <1>6

\* What the resolved route owes to the alias and to the hint.
LEMMA ResolveFits ==
    ASSUME NEW f, IsFormatter(f), NEW s \in AgentSpecs
    PROVE  LET alias == AliasRoute(f, s)
               p == Preferred(f, s)
           IN /\ p \in {No, alias.provider} /\ Complete(f, alias) =>
                     Resolve(f, s) = alias
              /\ p \notin {No, alias.provider} =>
                     /\ Resolve(f, s).provider = p
                     /\ f.providerModels[p] # <<>> =>
                            Lists(f, p, Resolve(f, s).model)
<1> DEFINE alias == AliasRoute(f, s)
           p == Preferred(f, s)
<1>1. ASSUME p \in {No, alias.provider}, Complete(f, alias)
      PROVE  Resolve(f, s) = alias
  BY <1>1 DEF Resolve, HintedRoute
<1>2. ASSUME p \notin {No, alias.provider}
      PROVE  /\ Resolve(f, s).provider = p
             /\ f.providerModels[p] # <<>> =>
                    Lists(f, p, Resolve(f, s).model)
  <2> DEFINE m == ModelFor(f, p, alias.model)
  <2>1. HintedRoute(f, s) = [provider |-> p, model |-> m]
    BY <1>2 DEF HintedRoute
  <2>2. p \in Providers
    BY <1>2 DEF Preferred, AgentSpecs, IsFormatter
  <2>3. f.providerModels[p] \in Seq(Models)
    BY <2>2 DEF IsFormatter
  <2>4. m # No
    <3>1. f.fallback.model # No
      BY NamesAssumption DEF IsFormatter
    <3>2. f.providerModels[p] # <<>> => f.providerModels[p][1] # No
      BY <2>3, NamesAssumption
    <3>3. QED
      BY <3>1, <3>2 DEF ModelFor, SupportsModel
  <2>5. Complete(f, HintedRoute(f, s))
    BY <2>1, <2>2, <2>4, NamesAssumption DEF Complete
  <2>6. Resolve(f, s) = [provider |-> p, model |-> m]
    BY <2>1, <2>5 DEF Resolve
  <2>7. ASSUME f.providerModels[p] # <<>>
        PROVE  Lists(f, p, m)
    <3>1. CASE SupportsModel(f, p, alias.model)
      BY <2>7, <3>1 DEF ModelFor, SupportsModel
    <3>2. CASE ~SupportsModel(f, p, alias.model)
      <4>1. m = f.providerModels[p][1]
        BY <2>7, <3>2 DEF ModelFor
      <4>2. 1 \in 1..Len(f.providerModels[p])
        BY <2>3, <2>7
      <4>3. QED
        BY <4>1, <4>2 DEF Lists
    <3>3. QED
      BY <3>1, <3>2
  <2>8. QED
    BY <2>6, <2>7
<1>3. QED
  BY <1>1, <1>2
-----------------------------------------------------------------------------
(***************************************************************************)
(* The command implements the runner                                       *)
(***************************************************************************)

\* Every step of a command is a step of the run within it, or none.
LEMMA CommandStepIsRunnerStep == [CommandNext]_allVars => [Next]_vars
<1> SUFFICES ASSUME [CommandNext]_allVars PROVE [Next]_vars
  OBVIOUS
<1>1. CASE Check \/ Behind
  <2>1. UNCHANGED vars
    BY <1>1 DEF Check, Behind, CheckHolds, CheckFails, LoadFormatter,
       FormatterFails, ResolveRoute, FindProvider, UnknownProvider, Executed,
       WriteSentinel, NoMeta, SentinelFails, LeaveCommand, GoOn, GiveUp
  <2>2. QED
    BY <2>1
<1>2. CASE \/ Running(RunStep) \/ Running(DeadlinePasses)
           \/ Background(WaitReturns) \/ Background(ForceKillFires)
           \/ Background(ForceKills) \/ Background(GraceExpires)
           \/ Background(Forwarder) \/ Background(SignalArrives)
           \/ Group(WorkerForks) \/ Group(LeaderEnds) \/ Group(WorkerEnds)
  BY <1>2 DEF Running, Background, Group, Next
<1>3. CASE CommandOver \/ UNCHANGED allVars
  BY <1>3 DEF CommandOver, allVars
<1>4. QED
  BY <1>1, <1>2, <1>3 DEF CommandNext

\* `aco run` and `aco delegate` are ProcessRunner.Run with something around
\* it: all that was shown of a run holds within them.
THEOREM CommandRuns == CommandSpec => Spec
<1>1. CommandInit => Init
  BY DEF CommandInit
<1>2. QED
  BY <1>1, CommandStepIsRunnerStep, PTL DEF CommandSpec, Spec
-----------------------------------------------------------------------------
(***************************************************************************)
(* The inductive invariant of the command                                  *)
(***************************************************************************)

\* Run happens at "execute", and what comes behind it is behind its return.
Progress ==
    /\ at \notin {"execute", "meta", "leave"} => run = "start"
    /\ at \in {"meta", "leave"} => run = "returned"
    /\ exit = "zero" => at = "leave" /\ result = "ok"
    /\ at = "leave" /\ exit # "none" => (exit = "zero" <=> result = "ok")

\* The metadata is written from the result, and nothing changes either.
Metadata ==
    sentinel # NoSentinel =>
        /\ at = "leave" /\ ProviderExited
        /\ sentinel.route = route
        /\ sentinel.code = IF result = "ok" THEN "zero" ELSE "nonzero"

\* A route is what Resolve made of the formatter and the agent.
Routed ==
    cmd = "delegate" /\ route # NoRoute =>
        /\ route = Resolve(formatter, spec)
        /\ at \notin {"flags", "paths", "spec", "mode", "input", "formatter",
                      "resolve"}

CInv == CommandTypeOK /\ Progress /\ Metadata /\ Routed

\* The formatter that stands in for a missing file is one that loads.
LEMMA DefaultIsFormatter == IsFormatter(DefaultFormatter(Fallback))
  BY FormattersAssumption
  DEF IsFormatter, DefaultFormatter, FormatterFields, NoRoute, Routes

\* Before the first check nothing is claimed.
LEMMA InitCInv == CommandInit => CInv
<1> SUFFICES ASSUME CommandInit PROVE CInv
  OBVIOUS
<1>1. CommandTypeOK
  <2>1. TypeOK
    BY InitIInv DEF CommandInit, IInv
  <2>2. IsFormatter(formatter)
    BY DefaultIsFormatter, FormattersAssumption DEF CommandInit
  <2>3. spec \in AgentSpecs
    BY DEF CommandInit, AgentSpecs
  <2>4. route \in Routes /\ NoSentinel \in
            [route: Routes, code: {"none", "zero", "nonzero"}]
    BY DEF CommandInit, Routes, NoRoute, NoSentinel
  <2>5. at \in Stops
    BY DEF CommandInit, Stops, After
  <2>6. QED
    BY <2>1, <2>2, <2>3, <2>4, <2>5 DEF CommandInit, CommandTypeOK
<1>2. Progress /\ Metadata /\ Routed
  BY DEF CommandInit, Init, Progress, Metadata, Routed
<1>3. QED
  BY <1>1, <1>2 DEF CInv

Early == {"flags", "paths", "spec", "mode", "input", "formatter", "resolve"}

\* The row of steps: the run is where it is, and a route is found before it.
LEMMA NextStop ==
    ASSUME cmd \in {"run", "delegate"}, at \in DOMAIN After[cmd]
    PROVE  /\ After[cmd][at] \in Stops
           /\ at = "execute" => After[cmd][at] \in {"meta", "leave"}
           /\ at = "meta" => After[cmd][at] = "leave"
           /\ at \notin {"execute", "meta"} =>
                  After[cmd][at] \notin {"meta", "leave"}
           /\ cmd = "delegate" /\ at \notin Early \ {"resolve"} =>
                  After[cmd][at] \notin Early
<1>1. CASE cmd = "run"
  BY <1>1 DEF After, Stops, Early
<1>2. CASE cmd = "delegate"
  BY <1>2 DEF After, Stops, Early
<1>3. QED
  BY <1>1, <1>2

\* A step that gives up leaves the row where it is.
LEMMA GiveUpKeeps ==
    ASSUME CInv, GiveUp, at # "leave"
    PROVE  CInv'
<1>1. CommandTypeOK'
  <2>1. TypeOK'
    BY DEF CInv, CommandTypeOK, GiveUp, TypeOK, vars
  <2>2. QED
    BY <2>1 DEF CInv, CommandTypeOK, GiveUp, callVars, Stops
<1>2. Progress' /\ Metadata' /\ Routed'
  BY DEF CInv, Progress, Metadata, Routed, GiveUp, callVars, vars,
         ProviderExited
<1>3. QED
  BY <1>1, <1>2 DEF CInv

\* A check that holds is one step on in the row.
LEMMA CheckKeeps ==
    ASSUME CInv, CheckHolds \/ LoadFormatter \/ ResolveRoute \/ FindProvider
    PROVE  CInv'
<1> USE DEF CInv
<1>1. at \in DOMAIN After[cmd] /\ at \notin {"execute", "meta", "leave"}
  BY DEF CommandTypeOK, Stops, CheckHolds, Outside, LoadFormatter,
         ResolveRoute, FindProvider
<1>2. at' = After[cmd][at] /\ GoOn
  BY DEF CheckHolds, LoadFormatter, ResolveRoute, FindProvider, GoOn
<1>3. /\ at' \in Stops /\ at' \notin {"meta", "leave"}
      /\ cmd = "delegate" /\ at \notin Early \ {"resolve"} => at' \notin Early
  BY <1>1, <1>2, NextStop DEF CommandTypeOK
<1>4. CommandTypeOK'
  <2>1. TypeOK'
    BY <1>2 DEF CommandTypeOK, GoOn, TypeOK, vars
  <2>2. (at \in Stops)'
    BY <1>2, <1>3 DEF GoOn, callVars, Stops
  <2>3. IsFormatter(formatter')
    BY DefaultIsFormatter DEF CommandTypeOK, CheckHolds, LoadFormatter,
       ResolveRoute, FindProvider
  <2>4. route' \in Routes
    BY ResolveFinds DEF CommandTypeOK, CheckHolds, LoadFormatter,
       ResolveRoute, FindProvider
  <2>5. QED
    BY <1>2, <2>1, <2>2, <2>3, <2>4 DEF CommandTypeOK, GoOn, callVars
<1>5. Progress' /\ Metadata'
  BY <1>1, <1>2, <1>3
  DEF Progress, Metadata, GoOn, Open, callVars, vars, NoSentinel
<1>6. Routed'
  <2>1. CASE ResolveRoute
    BY <2>1, <1>2, <1>3 DEF ResolveRoute, Routed, GoOn, callVars, Early
  <2>2. CASE LoadFormatter
    BY <2>2, <1>2 DEF LoadFormatter, Routed, GoOn, callVars
  <2>3. CASE CheckHolds \/ FindProvider
    BY <2>3, <1>2, <1>3
    DEF CheckHolds, FindProvider, Routed, GoOn, callVars, Early
  <2>4. QED
    BY <2>1, <2>2, <2>3
<1>7. QED
  BY <1>4, <1>5, <1>6

\* The run, and what goes on around it, changes nothing of the command.
LEMMA RunnerKeeps ==
    ASSUME IInv, IInv', CInv, UNCHANGED cmdVars, [Next]_vars,
           at = "execute" \/ (run' = run /\ result' = result),
           at \in {"meta", "leave"} => child' = child
    PROVE  CInv'
<1>1. CommandTypeOK'
  BY DEF IInv, CInv, CommandTypeOK, cmdVars, Stops
<1>2. Progress' /\ Metadata' /\ Routed'
  BY DEF CInv, Progress, Metadata, Routed, cmdVars, ProviderExited
<1>3. QED
  BY <1>1, <1>2 DEF CInv

\* What is done behind the run.
LEMMA BehindKeeps ==
    ASSUME IInv, CInv, Behind
    PROVE  CInv'
<1> USE DEF CInv
<1>1. UNCHANGED <<vars, callVars, formatter, route>>
  BY DEF Behind, Executed, WriteSentinel, NoMeta, SentinelFails,
         LeaveCommand, GoOn, GiveUp
<1>2. /\ at \in Stops
      /\ at = "execute" => After[cmd][at] \in {"meta", "leave"}
      /\ at = "meta" => After[cmd][at] = "leave"
      /\ at # "leave" => After[cmd][at] \in Stops
      /\ cmd = "delegate" /\ at \in {"execute", "meta"} =>
             After[cmd][at] \notin Early
  BY NextStop DEF CommandTypeOK, Stops, Early
<1>3. CommandTypeOK'
  <2>1. TypeOK'
    BY <1>1 DEF CommandTypeOK, TypeOK, vars
  <2>2. at' \in Stops
    BY <1>2 DEF Behind, Executed, WriteSentinel, NoMeta, SentinelFails,
                LeaveCommand, GoOn, GiveUp
  <2>3. sentinel' \in [route: Routes, code: {"none", "zero", "nonzero"}]
    BY DEF CommandTypeOK, Behind, Executed, WriteSentinel, NoMeta,
           SentinelFails, LeaveCommand, GoOn, GiveUp
  <2>4. exit' \in {"none", "zero", "one"}
    BY DEF CommandTypeOK, Behind, Executed, WriteSentinel, NoMeta,
           SentinelFails, LeaveCommand, GoOn, GiveUp
  <2>5. QED
    BY <1>1, <2>1, <2>2, <2>3, <2>4 DEF CommandTypeOK, callVars, Stops
<1>4. Progress' /\ Metadata'
  <2>1. CASE Executed
    BY <2>1, <1>1, <1>2 DEF Executed, GoOn, Progress, Metadata, Open, vars,
                            NoSentinel
  <2>2. CASE WriteSentinel
    BY <2>2, <1>1, <1>2 DEF WriteSentinel, Progress, Metadata, Open, vars,
                            ProviderExited
  <2>3. CASE NoMeta
    BY <2>3, <1>1, <1>2 DEF NoMeta, GoOn, Progress, Metadata, Open, vars
  <2>4. CASE SentinelFails
    BY <2>4, <1>1 DEF SentinelFails, GiveUp, Progress, Metadata, Open, vars
  <2>5. CASE LeaveCommand
    BY <2>5, <1>1 DEF LeaveCommand, Progress, Metadata, Open, vars,
                      ProviderExited
  <2>6. QED
    BY <2>1, <2>2, <2>3, <2>4, <2>5 DEF Behind
<1>5. Routed'
  BY <1>1, <1>2 DEF Routed, callVars, Early, Behind, Executed, WriteSentinel,
                    NoMeta, SentinelFails, LeaveCommand, GoOn, GiveUp
<1>6. QED
  BY <1>3, <1>4, <1>5

\* Every step of the command, the run and the group preserves it.
LEMMA NextCInv == IInv /\ IInv' /\ CInv /\ [CommandNext]_allVars => CInv'
<1> SUFFICES ASSUME IInv, IInv', CInv, [CommandNext]_allVars PROVE CInv'
  OBVIOUS
<1>0. [Next]_vars
  BY CommandStepIsRunnerStep
<1>1. CASE Check
  <2>1. CASE CheckHolds \/ LoadFormatter \/ ResolveRoute \/ FindProvider
    BY <2>1, CheckKeeps
  <2>2. CASE CheckFails \/ FormatterFails \/ UnknownProvider
    <3>1. GiveUp /\ at # "leave"
      BY <2>2 DEF CheckFails, FormatterFails, UnknownProvider, Outside
    <3>2. QED
      BY <3>1, GiveUpKeeps
  <2>3. QED
    BY <1>1, <2>1, <2>2 DEF Check
<1>2. CASE Behind
  BY <1>2, BehindKeeps
<1>3. CASE Running(RunStep) \/ Running(DeadlinePasses)
  <2>1. at = "execute" /\ UNCHANGED cmdVars
    BY <1>3 DEF Running
  <2>2. QED
    BY <1>0, <2>1, RunnerKeeps
<1>4. CASE \/ Background(WaitReturns) \/ Background(ForceKillFires)
           \/ Background(ForceKills) \/ Background(GraceExpires)
           \/ Background(Forwarder) \/ Background(SignalArrives)
  <2>1. UNCHANGED <<cmdVars, run, result, child>>
    BY <1>4 DEF Background, WaitReturns, ForceKillFires, ForceKills, Kill,
       GraceExpires, Forwarder, Forward, StopListening, ForwardKill,
       ForwardDone, SignalArrives, Term, procVars
  <2>2. QED
    BY <1>0, <2>1, RunnerKeeps
<1>5. CASE Group(WorkerForks) \/ Group(LeaderEnds) \/ Group(WorkerEnds)
  <2>1. UNCHANGED <<cmdVars, run, result>>
    BY <1>5 DEF Group, WorkerForks, LeaderEnds, WorkerEnds
  <2>2. at \in {"meta", "leave"} => child # "live"
    BY DEF CInv, Progress, IInv, Stages, Reported, Waited, NotStarted, Ended
  <2>3. at \in {"meta", "leave"} => child' = child
    BY <1>5, <2>2 DEF Group, WorkerForks, LeaderEnds, WorkerEnds
  <2>4. QED
    BY <1>0, <2>1, <2>3, RunnerKeeps
<1>6. CASE CommandOver \/ UNCHANGED allVars
  <2>1. UNCHANGED <<cmdVars, run, result, child>>
    BY <1>6 DEF CommandOver, allVars, vars
  <2>2. QED
    BY <1>0, <2>1, RunnerKeeps
<1>7. QED
  BY <1>1, <1>2, <1>3, <1>4, <1>5, <1>6 DEF CommandNext

\* The invariants of the run and of the command hold throughout.
THEOREM CommandInvariance == CommandSpec => [](IInv /\ CInv)
<1>1. CommandSpec => []IInv
  BY CommandRuns, Invariance, PTL
<1>2. QED
  BY <1>1, InitCInv, NextCInv, PTL DEF CommandSpec
-----------------------------------------------------------------------------
\* The state keeps its shape.
THEOREM CommandTypeCorrect == CommandSpec => []CommandTypeOK
<1>1. CInv => CommandTypeOK
  BY DEF CInv
<1>2. QED
  BY <1>1, CommandInvariance, PTL

\* Exit code 0 and the line of metadata are true of the provider: both rest
\* on what cmd.Wait sent, which nothing can change afterwards.
THEOREM CallersAreTold == CommandSpec => []CallerIsTold
<1>1. IInv /\ CInv => CallerIsTold
  <2> SUFFICES ASSUME IInv, CInv PROVE CallerIsTold
    OBVIOUS
  <2> USE DEF IInv, CInv, Progress, Metadata, Waited, Reported, NotStarted,
              ProviderExited, Ended
  <2>1. exit = "zero" => child = "zero" /\ ~PipeHeld
    OBVIOUS
  <2>2. ASSUME sentinel # NoSentinel
        PROVE  /\ ~PipeHeld
               /\ sentinel.code = child /\ sentinel.route = route
               /\ exit # "none" => (exit = "zero" <=> sentinel.code = "zero")
    <3>1. at = "leave" /\ run = "returned" /\ result \in {"ok", "exit"}
      BY <2>2
    <3>2. waitCh # "none" /\ ~PipeHeld
      BY <3>1
    <3>3. sentinel.code = child
      BY <2>2, <3>1, <3>2
    <3>4. QED
      BY <2>2, <3>1, <3>2, <3>3
  <2>3. QED
    BY <2>1, <2>2 DEF CallerIsTold
<1>2. QED
  BY <1>1, CommandInvariance, PTL

\* Every route that `aco delegate` runs is complete, and owed to the alias
\* and to the hint.
THEOREM RoutesFit == CommandSpec => []RouteFits
<1>1. CInv => RouteFits
  <2> SUFFICES ASSUME CInv, cmd = "delegate", route # NoRoute
               PROVE  RouteFits
    BY DEF RouteFits
  <2>1. /\ route = Resolve(formatter, spec)
        /\ IsFormatter(formatter) /\ spec \in AgentSpecs
    BY DEF CInv, Routed, CommandTypeOK
  <2>2. QED
    BY <2>1, ResolveFinds, ResolveFits DEF RouteFits
<1>2. QED
  BY <1>1, CommandInvariance, PTL
=============================================================================
