----------------------------- MODULE GoCommand -----------------------------
(***************************************************************************)
(* One `aco run` or `aco delegate` of the Go runtime (cmd/aco), around     *)
(* ProcessRunner.Run: a row of checks, each of which may end the command,  *)
(* the blocking run of the provider with its goroutines (GoRunner), and    *)
(* for `aco delegate` the line of metadata behind the provider's output.   *)
(***************************************************************************)
EXTENDS GoRunner, Routing

CONSTANTS
    Registered,      \* providers of the registry
    Fallback,        \* the route of DefaultFormatter
    Formatters       \* what .aco/formatter.yaml may hold

ASSUME RegisteredAssumption == Registered \subseteq Providers
ASSUME FormattersAssumption ==
    /\ Fallback \in [provider: Providers, model: Models]
    /\ \A f \in Formatters : IsFormatter(f)

VARIABLES
    cmd, at,         \* the command, and the step it is at
    spec, formatter, \* what the agent's file and the formatter say
    route,           \* the provider and the model
    sentinel,        \* the ACO_META line on stdout
    exit             \* the exit code

callVars == <<cmd, spec>>
cmdVars == <<cmd, at, spec, formatter, route, sentinel, exit>>
allVars == <<vars, cmdVars>>

\* The order of the steps.
After ==
    [run |-> [flags |-> "profile", profile |-> "registry",
              registry |-> "available", available |-> "input",
              input |-> "prompt", prompt |-> "execute", execute |-> "leave"],
     delegate |-> [flags |-> "paths", paths |-> "spec", spec |-> "mode",
                   mode |-> "input", input |-> "formatter",
                   formatter |-> "resolve", resolve |-> "registry",
                   registry |-> "available", available |-> "prompt",
                   prompt |-> "profile", profile |-> "execute",
                   execute |-> "meta", meta |-> "leave"]]

Stops == DOMAIN After[cmd] \cup {"leave"}
Open == Alive /\ exit = "none"

NoSentinel == [route |-> NoRoute, code |-> "none"]

CommandTypeOK ==
    /\ TypeOK
    /\ cmd \in {"run", "delegate"}
    /\ at \in Stops
    /\ spec \in AgentSpecs
    /\ IsFormatter(formatter)
    /\ route \in Routes
    /\ sentinel \in [route: Routes, code: {"none", "zero", "nonzero"}]
    /\ exit \in {"none", "zero", "one"}

\* The provider of `aco run` is an argument, that of `aco delegate` is found.
CommandInit ==
    /\ Init
    /\ cmd \in {"run", "delegate"} /\ at = "flags"
    /\ spec \in IF cmd = "run" THEN {[modelAlias |-> No, roleHint |-> No]}
                ELSE AgentSpecs
    /\ formatter \in IF cmd = "run" THEN {DefaultFormatter(Fallback)}
                     ELSE Formatters
    /\ route \in IF cmd = "run" THEN [provider: Providers, model: {No}]
                 ELSE {NoRoute}
    /\ sentinel = NoSentinel
    /\ exit = "none"
-----------------------------------------------------------------------------
\* The checks before the run

\* Every way a step may fail comes to the same: a message and exit code 1.
GiveUp ==
    /\ Open
    /\ exit' = "one"
    /\ UNCHANGED <<at, formatter, route, sentinel>>
    /\ UNCHANGED callVars /\ UNCHANGED vars

GoOn == /\ Open /\ at' = After[cmd][at]
        /\ UNCHANGED <<sentinel, exit>>
        /\ UNCHANGED callVars /\ UNCHANGED vars

\* Flags, paths, the agent's file, its execution mode, standard input, the
\* prompt, the permission profile, the provider's binary: as it may be.
Outside == {"flags", "paths", "spec", "mode", "input", "prompt", "profile",
            "available"}

CheckHolds ==
    /\ at \in Outside
    /\ GoOn
    /\ UNCHANGED <<formatter, route>>

CheckFails == at \in Outside /\ GiveUp

LoadFormatter ==
    /\ at = "formatter"
    /\ formatter' \in {formatter, DefaultFormatter(Fallback)}
    /\ GoOn
    /\ UNCHANGED route

FormatterFails == at = "formatter" /\ GiveUp

ResolveRoute ==
    /\ at = "resolve" /\ Resolve(formatter, spec) # NoRoute
    /\ route' = Resolve(formatter, spec)
    /\ GoOn
    /\ UNCHANGED formatter

FindProvider ==
    /\ at = "registry" /\ route.provider \in Registered
    /\ GoOn
    /\ UNCHANGED <<formatter, route>>

UnknownProvider ==
    /\ at = "registry" /\ route.provider \notin Registered
    /\ GiveUp

Check == \/ CheckHolds \/ CheckFails \/ LoadFormatter \/ FormatterFails
         \/ ResolveRoute \/ FindProvider \/ UnknownProvider
-----------------------------------------------------------------------------
\* The run

\* The goroutines live in the process; its group goes on without it.
Running(A) ==
    /\ at = "execute" /\ exit = "none"
    /\ A
    /\ UNCHANGED cmdVars

Background(A) ==
    /\ exit = "none"
    /\ A
    /\ UNCHANGED cmdVars

Group(A) == A /\ UNCHANGED cmdVars

Executed ==
    /\ at = "execute" /\ run = "returned"
    /\ GoOn
    /\ UNCHANGED <<formatter, route>>
-----------------------------------------------------------------------------
\* Behind the run

\* Mutation: a provider that had to be stopped has exited, too.
ProviderExited_Always == result # "notstarted"

\* RunResult.ProviderExited: cmd.Wait had an exit status to report, and
\* neither the deadline nor a signal came before it.
ProviderExited == result = "ok" \/ (result = "exit" /\ child = "nonzero")

WriteSentinel ==
    /\ at = "meta" /\ ProviderExited
    /\ Open /\ at' = After[cmd][at]
    /\ sentinel' = [route |-> route,
                    code |-> IF result = "ok" THEN "zero" ELSE "nonzero"]
    /\ UNCHANGED <<formatter, route, exit>>
    /\ UNCHANGED callVars /\ UNCHANGED vars

\* --no-meta, or nothing to tell.
NoMeta ==
    /\ at = "meta"
    /\ GoOn
    /\ UNCHANGED <<formatter, route>>

\* No identifier can be made, or stdout is gone.
SentinelFails == at = "meta" /\ ProviderExited /\ GiveUp

LeaveCommand ==
    /\ at = "leave" /\ Open
    /\ exit' = IF result = "ok" THEN "zero" ELSE "one"
    /\ UNCHANGED <<at, formatter, route, sentinel>>
    /\ UNCHANGED callVars /\ UNCHANGED vars

CommandOver ==
    /\ ~Open /\ ~PipeHeld
    /\ UNCHANGED allVars
-----------------------------------------------------------------------------
Behind == \/ Executed \/ WriteSentinel \/ NoMeta \/ SentinelFails
          \/ LeaveCommand

CommandNext ==
    \/ Check \/ Behind
    \/ Running(RunStep) \/ Running(DeadlinePasses)
    \/ Background(WaitReturns) \/ Background(ForceKillFires)
    \/ Background(ForceKills) \/ Background(GraceExpires)
    \/ Background(Forwarder) \/ Background(SignalArrives)
    \/ Group(WorkerForks) \/ Group(LeaderEnds) \/ Group(WorkerEnds)
    \/ CommandOver

CommandSpec == CommandInit /\ [][CommandNext]_allVars

\* As for the run alone; the command itself goes on while it can.
CommandFairness ==
    /\ WF_allVars(Check) /\ WF_allVars(Behind)
    /\ WF_allVars(Running(RunStep)) /\ WF_allVars(Running(DeadlinePasses))
    /\ WF_allVars(Background(WaitReturns))
    /\ WF_allVars(Background(ForceKillFires))
    /\ WF_allVars(Background(ForceKills))
    /\ WF_allVars(Background(GraceExpires))
    /\ WF_allVars(Background(Forwarder))
    /\ WF_allVars(Group(sent = "kill" /\ LeaderEnds))

FairCommandSpec == CommandSpec /\ CommandFairness
-----------------------------------------------------------------------------
(***************************************************************************)
(* Properties                                                              *)
(***************************************************************************)

\* What the caller is told is true.  Exit code 0 means that the provider
\* exited with 0 and that nothing of its group is left; a line of metadata
\* stands behind the last output of the group, names the route that was run,
\* and its code agrees with the provider's and with that of aco
\* (cmd_delegate.go 189-226, cmd_run.go 149-164).
CallerIsTold ==
    /\ exit = "zero" => child = "zero" /\ ~PipeHeld
    /\ sentinel # NoSentinel =>
           /\ ~PipeHeld
           /\ sentinel.code = child /\ sentinel.route = route
           /\ exit # "none" => (exit = "zero" <=> sentinel.code = "zero")

\* A route is complete; an alias decides as long as no hint speaks against
\* it; a hint decides about the provider, unless the alias led there without
\* the model it needs, and a provider the hint has brought in gets one of the
\* models it lists (Resolve, config.go 159-200).
RouteFits ==
    cmd = "delegate" /\ route # NoRoute =>
        LET alias == AliasRoute(formatter, spec)
            p == Preferred(formatter, spec)
        IN /\ Complete(formatter, route)
           /\ p \in {No, alias.provider} /\ Complete(formatter, alias) =>
                  route = alias
           /\ p \notin {No, alias.provider} =>
                  /\ route.provider = p
                  /\ formatter.providerModels[p] # <<>> =>
                         Lists(formatter, p, route.model)

\* A command ends, whatever the provider and its workers do with SIGTERM.
CommandEnds == <>~Open
=============================================================================
