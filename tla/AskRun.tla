------------------------------- MODULE AskRun -------------------------------
(***************************************************************************)
(* `aco ask`: one prompt delegated, with consent, to several providers one *)
(* after the other (packages/wrapper/src/commands/ask.ts cmdAsk), each with *)
(* a session of its own, and one cancellation handler that follows         *)
(* whichever session is active, while an `aco cancel` (cli.ts cmdCancel)   *)
(* may strike any of the sessions from outside.                            *)
(*                                                                         *)
(* An update of a task.json reads it, merges, and writes it back           *)
(* (session/store.ts update), with nothing to order it with the others.    *)
(* One that sets the status is a step here: what it has read of the status *)
(* does not matter.  Those that set other fields, the runtimeContext of a  *)
(* session and the pid of its provider, write the status back that they    *)
(* have read, so that their read and their write are two steps.  That a    *)
(* file being written reads as cut off, and that writers who overlap may   *)
(* leave a text that does not parse, is the subject of TaskLedger and      *)
(* RunSession: here FaultyDisk lets any read fail, and status is that of   *)
(* the record written last.                                                *)
(***************************************************************************)
EXTENDS Naturals

CONSTANTS
    Providers,   \* how many providers --providers names
    Inputs,      \* what --input-file may be
    FaultyDisk   \* may a read or a write of a file fail?

ASSUME ProvidersAssumption == Providers \in Nat \ {0}
ASSUME InputsAssumption == Inputs \subseteq {"plain", "credential", "unreadable"}
ASSUME FaultyDiskAssumption == FaultyDisk \in BOOLEAN

Sessions == 1..Providers

\* What is asked for: are the options valid and the providers known to
\* support the profile, what is --input-file, and which of --allow-sensitive
\* (it matters to a credential only), --yes and --dry-run are there?
Requests ==
    {asked \in [valid: BOOLEAN, input: Inputs, allowSensitive: BOOLEAN,
                mode: {"yes", "dry", "neither"}] :
         asked.allowSensitive => asked.input = "credential"}

VARIABLES
    request,      \* the command line
    pc,           \* where cmdAsk awaits
    cur,          \* the provider it is at
    status,       \* status[i]: the status in the task.json of session i
    held,         \* held[i]: the status that an update of it will write back
    seen,         \* seen[i]: session i was read back as cancelled
    entry,        \* entry[i]: the status in the run's ledger, once there
    outcome,      \* does the current runResult carry an error?
    saved,        \* ledger.json is written
    exit,         \* what ended the process, "none" while it runs
    child, sent,  \* the provider processes and the signals they got
    timeout, forceKill,   \* the timers of the current invocation
    activePid, activeSession,  \* cancellationState; 0 is undefined
    listening, handled,   \* the handler is registered; has taken a signal
    hPid, hSession,       \* what it captured then
    grace, cleanupDone, ledgerDone,
    cancel        \* cancel[i]: where an `aco cancel` of session i stands

planVars == <<request, status, seen, entry, saved>>
mainVars == <<pc, cur, outcome>>
childVars == <<child, sent>>
timerVars == <<timeout, forceKill>>
stateVars == <<activePid, activeSession>>
handlerVars == <<listening, handled, hPid, hSession, grace, cleanupDone,
                 ledgerDone>>
runVars == <<planVars, held, mainVars, exit, childVars, timerVars, stateVars,
             handlerVars>>
vars == <<runVars, cancel>>

Verdicts == {"done", "failed", "cancelled"}
\* A provider ends with exit code 0 or not: by a signal or another code.
Ended == {"zero", "signal"}
Timer == {"off", "armed", "fired"}

TypeOK ==
    /\ request \in Requests
    /\ pc \in {"check", "consent", "prepare", "create", "contexts",
               "record", "enter", "skip", "spawn", "stream", "read",
               "verdict", "next", "ledger", "report", "returned"}
    /\ cur \in Sessions
    /\ status \in [Sessions -> {"absent", "running"} \cup Verdicts]
    /\ held \in [Sessions -> {"none", "unread", "running"} \cup Verdicts]
    /\ seen \in [Sessions -> BOOLEAN]
    /\ entry \in [Sessions -> {"none"} \cup Verdicts]
    /\ outcome \in {"ok", "error"}
    /\ saved \in BOOLEAN
    /\ exit \in {"none", "dry", "handler", "main", "drain", "signal", "crash"}
    /\ child \in [Sessions -> {"none", "live"} \cup Ended]
    /\ sent \in [Sessions -> {"none", "term", "kill"}]
    /\ timeout \in Timer /\ forceKill \in Timer
    /\ activePid \in 0..Providers /\ activeSession \in 0..Providers
    /\ listening \in BOOLEAN /\ handled \in BOOLEAN
    /\ hPid \in 0..Providers /\ hSession \in 0..Providers
    /\ grace \in Timer /\ cleanupDone \in BOOLEAN /\ ledgerDone \in BOOLEAN
    /\ cancel \in [Sessions -> {"none", "blind", "knows", "marked", "done"}]

Alive == exit = "none"

Init ==
    /\ request \in Requests
    /\ pc = "check" /\ cur = 1 /\ outcome = "ok"
    /\ status = [i \in Sessions |-> "absent"]
    /\ held = [i \in Sessions |-> "none"]
    /\ seen = [i \in Sessions |-> FALSE]
    /\ entry = [i \in Sessions |-> "none"]
    /\ saved = FALSE /\ exit = "none"
    /\ child = [i \in Sessions |-> "none"]
    /\ sent = [i \in Sessions |-> "none"]
    /\ timeout = "off" /\ forceKill = "off"
    /\ activePid = 0 /\ activeSession = 0
    /\ listening = FALSE /\ handled = FALSE
    /\ hPid = 0 /\ hSession = 0
    /\ grace = "off" /\ cleanupDone = FALSE /\ ledgerDone = FALSE
    /\ cancel = [i \in Sessions |-> "none"]

\* terminateProviderProcess on the process of provider i.
Term(i) == sent' = IF child[i] = "live" /\ sent[i] = "none"
                   THEN [sent EXCEPT ![i] = "term"] ELSE sent
Kill(i) == sent' = IF child[i] = "live"
                   THEN [sent EXCEPT ![i] = "kill"] ELSE sent

\* The process ends, and with it its timers and the updates under way.
Ends(how) ==
    /\ exit' = how
    /\ held' = [i \in Sessions |-> "none"]
    /\ timeout' = "off" /\ forceKill' = "off"

GoesOn == UNCHANGED <<exit, held, timeout, forceKill>>
-----------------------------------------------------------------------------
\* The updates of task.json that leave the status as it was read: first, of
\* all sessions at once, that of the runtimeContext, which cmdAsk awaits;
\* later that of the pid, which nobody awaits.

ReadTask(i) ==
    /\ Alive /\ held[i] = "unread"
    /\ held' = [held EXCEPT ![i] = status[i]]
    /\ UNCHANGED exit /\ UNCHANGED timerVars
    /\ UNCHANGED planVars /\ UNCHANGED mainVars /\ UNCHANGED childVars
    /\ UNCHANGED stateVars /\ UNCHANGED handlerVars

WriteTask(i) ==
    /\ Alive /\ held[i] \notin {"none", "unread"}
    /\ status' = [status EXCEPT ![i] = held[i]]
    /\ held' = [held EXCEPT ![i] = "none"]
    /\ UNCHANGED <<request, seen, entry, saved, exit>>
    /\ UNCHANGED timerVars /\ UNCHANGED mainVars /\ UNCHANGED childVars
    /\ UNCHANGED stateVars /\ UNCHANGED handlerVars

\* Without a runtimeContext the run ends; without a pid it is warned.
UpdateFails(i) ==
    /\ Alive /\ FaultyDisk /\ held[i] # "none"
    /\ IF pc = "record" THEN Ends("main")
       ELSE /\ held' = [held EXCEPT ![i] = "none"]
            /\ UNCHANGED exit /\ UNCHANGED timerVars
    /\ UNCHANGED planVars /\ UNCHANGED mainVars /\ UNCHANGED childVars
    /\ UNCHANGED stateVars /\ UNCHANGED handlerVars

Update(i) == ReadTask(i) \/ WriteTask(i) \/ UpdateFails(i)

\* Is no update of session i under way?
Settled(i) == held[i] = "none"
-----------------------------------------------------------------------------
\* cmdAsk: before anything is started

\* An input file that looks like a credential needs --allow-sensitive.
InputUsable ==
    \/ request.input = "plain"
    \/ request.input = "credential" /\ request.allowSensitive

CheckRequest ==
    /\ Alive /\ pc = "check"
    /\ IF request.valid /\ InputUsable
       THEN pc' = "consent" /\ GoesOn
       ELSE Ends("main") /\ UNCHANGED pc
    /\ UNCHANGED <<cur, outcome>>
    /\ UNCHANGED planVars /\ UNCHANGED childVars
    /\ UNCHANGED stateVars /\ UNCHANGED handlerVars

\* Mutation: a plan that nobody refused is carried out.
Consent_Implied ==
    /\ Alive /\ pc = "consent"
    /\ IF request.mode = "dry" THEN Ends("dry") /\ UNCHANGED pc
                               ELSE pc' = "prepare" /\ GoesOn
    /\ UNCHANGED <<cur, outcome>>
    /\ UNCHANGED planVars /\ UNCHANGED childVars
    /\ UNCHANGED stateVars /\ UNCHANGED handlerVars

\* --dry-run shows the plan; no provider is invoked without --yes.
Consent ==
    /\ Alive /\ pc = "consent"
    /\ CASE request.mode = "yes" -> pc' = "prepare" /\ GoesOn
         [] request.mode = "dry" -> Ends("dry") /\ UNCHANGED pc
         [] OTHER -> Ends("main") /\ UNCHANGED pc
    /\ UNCHANGED <<cur, outcome>>
    /\ UNCHANGED planVars /\ UNCHANGED childVars
    /\ UNCHANGED stateVars /\ UNCHANGED handlerVars

\* The run's directory and input.md are written and the handler goes in,
\* before there is a session.
Prepare ==
    /\ Alive /\ pc = "prepare"
    /\ listening' = TRUE
    /\ pc' = "create"
    /\ UNCHANGED <<cur, outcome, handled, hPid, hSession, grace,
                   cleanupDone, ledgerDone>>
    /\ GoesOn /\ UNCHANGED planVars /\ UNCHANGED childVars
    /\ UNCHANGED stateVars
-----------------------------------------------------------------------------
\* cmdAsk: the delegation

\* sessionStore.create and the auth check, provider by provider.
CreateSession ==
    /\ Alive /\ pc = "create"
    /\ status' = [status EXCEPT ![cur] = "running"]
    /\ IF cur < Providers THEN cur' = cur + 1 /\ UNCHANGED pc
                          ELSE cur' = 1 /\ pc' = "contexts"
    /\ UNCHANGED <<request, seen, entry, saved, outcome>>
    /\ GoesOn /\ UNCHANGED childVars
    /\ UNCHANGED stateVars /\ UNCHANGED handlerVars

\* The contexts are collected, the first session is made to represent the
\* run, and the contexts are to go into every session.
SeedPrimary ==
    /\ Alive /\ pc = "contexts"
    /\ activeSession' = 1
    /\ held' = [i \in Sessions |-> "unread"]
    /\ pc' = "record"
    /\ UNCHANGED <<cur, outcome, exit, activePid>>
    /\ UNCHANGED planVars /\ UNCHANGED childVars
    /\ UNCHANGED timerVars /\ UNCHANGED handlerVars

\* Every session has its context.
RecordContexts ==
    /\ Alive /\ pc = "record" /\ \A i \in Sessions : Settled(i)
    /\ pc' = "enter"
    /\ UNCHANGED <<cur, outcome>>
    /\ GoesOn /\ UNCHANGED planVars /\ UNCHANGED childVars
    /\ UNCHANGED stateVars /\ UNCHANGED handlerVars

\* One turn of the loop: the session becomes the active one.  Whether its
\* provider is authenticated was found out when the session was created, and
\* matters now.
EnterProvider ==
    /\ Alive /\ pc = "enter"
    /\ activeSession' = cur /\ activePid' = 0
    /\ pc' \in {"spawn", "skip"}
    /\ UNCHANGED <<cur, outcome>>
    /\ GoesOn /\ UNCHANGED planVars /\ UNCHANGED childVars
    /\ UNCHANGED handlerVars

\* An unauthenticated provider is a failed session, whatever it was before.
Skip ==
    /\ Alive /\ pc = "skip"
    /\ status' = [status EXCEPT ![cur] = "failed"]
    /\ entry' = [entry EXCEPT ![cur] = "failed"]
    /\ pc' = "next"
    /\ UNCHANGED <<cur, outcome, request, seen, saved>>
    /\ GoesOn /\ UNCHANGED childVars
    /\ UNCHANGED stateVars /\ UNCHANGED handlerVars

\* onPid makes the pid the active one and starts its update.
Spawn ==
    /\ Alive /\ pc = "spawn"
    /\ child' = [child EXCEPT ![cur] = "live"]
    /\ activePid' = cur
    /\ held' = [held EXCEPT ![cur] = "unread"]
    /\ timeout' = "armed" /\ forceKill' = "off"
    /\ pc' = "stream"
    /\ UNCHANGED <<cur, outcome, exit, sent, activeSession>>
    /\ UNCHANGED planVars /\ UNCHANGED handlerVars

SpawnFails ==
    /\ Alive /\ pc = "spawn"
    /\ outcome' = "error"
    /\ pc' = "read"
    /\ UNCHANGED cur
    /\ GoesOn /\ UNCHANGED planVars /\ UNCHANGED childVars
    /\ UNCHANGED stateVars /\ UNCHANGED handlerVars

\* Mutation: SIGTERM without the forced kill behind it.
TimeoutFires_NoForce ==
    /\ Alive /\ timeout = "armed"
    /\ timeout' = "fired"
    /\ Term(cur)
    /\ UNCHANGED <<exit, held, child, forceKill>>
    /\ UNCHANGED planVars /\ UNCHANGED mainVars
    /\ UNCHANGED stateVars /\ UNCHANGED handlerVars

TimeoutFires ==
    /\ Alive /\ timeout = "armed"
    /\ timeout' = "fired" /\ forceKill' = "armed"
    /\ Term(cur)
    /\ UNCHANGED <<exit, held, child>>
    /\ UNCHANGED planVars /\ UNCHANGED mainVars
    /\ UNCHANGED stateVars /\ UNCHANGED handlerVars

ForceKillFires ==
    /\ Alive /\ forceKill = "armed"
    /\ forceKill' = "fired"
    /\ Kill(cur)
    /\ UNCHANGED <<exit, held, child, timeout>>
    /\ UNCHANGED planVars /\ UNCHANGED mainVars
    /\ UNCHANGED stateVars /\ UNCHANGED handlerVars

\* The 'close' event of the current provider is due.
Closed == child[cur] \in Ended

\* The invocation settles, and its timers with it.  activePid still names
\* the dead provider.
Close ==
    /\ Alive /\ pc = "stream" /\ Closed
    /\ outcome' = IF timeout = "fired" \/ child[cur] # "zero"
                  THEN "error" ELSE "ok"
    /\ timeout' = "off" /\ forceKill' = "off"
    /\ pc' = "read"
    /\ UNCHANGED <<cur, exit, held>>
    /\ UNCHANGED planVars /\ UNCHANGED childVars
    /\ UNCHANGED stateVars /\ UNCHANGED handlerVars

\* The session is read back; after an error an unreadable one is ignored.
ReadLatest ==
    /\ Alive /\ pc = "read"
    /\ \/ seen' = [seen EXCEPT ![cur] = (status[cur] = "cancelled")]
       \/ FaultyDisk /\ outcome = "error" /\ UNCHANGED seen
    /\ pc' = "verdict"
    /\ UNCHANGED <<cur, outcome, request, status, entry, saved>>
    /\ GoesOn /\ UNCHANGED childVars
    /\ UNCHANGED stateVars /\ UNCHANGED handlerVars

Result == IF outcome = "error" THEN "failed" ELSE "done"

\* Mutation: the ledger takes the provider's word for a cancelled session.
EntryOf_Result(cancelled) == Result

\* The status of the session in the run's ledger.
EntryOf(cancelled) == IF cancelled THEN "cancelled" ELSE Result

\* A session seen cancelled stays so; any other gets the result.
RecordVerdict ==
    /\ Alive /\ pc = "verdict"
    /\ entry' = [entry EXCEPT ![cur] = EntryOf(seen[cur])]
    /\ status' = IF seen[cur] THEN status
                 ELSE [status EXCEPT ![cur] = Result]
    /\ pc' = "next"
    /\ UNCHANGED <<cur, outcome, request, seen, saved>>
    /\ GoesOn /\ UNCHANGED childVars
    /\ UNCHANGED stateVars /\ UNCHANGED handlerVars

\* Mutation: one turn too many.
LastTurn_OffByOne == cur > Providers

LastTurn == cur = Providers

\* The artifacts are written, the finally block forgets the pid, and the
\* turn's runResult is gone; behind the last provider the handler goes, too.
NextProvider ==
    /\ Alive /\ pc = "next"
    /\ activePid' = 0 /\ outcome' = "ok"
    /\ IF LastTurn
       THEN /\ pc' = "ledger"
            /\ activeSession' = 0 /\ listening' = FALSE
            /\ UNCHANGED cur
       ELSE /\ pc' = "enter" /\ cur' = cur + 1
            /\ UNCHANGED <<activeSession, listening>>
    /\ UNCHANGED <<handled, hPid, hSession, grace, cleanupDone, ledgerDone>>
    /\ GoesOn /\ UNCHANGED planVars /\ UNCHANGED childVars

WriteLedger ==
    /\ Alive /\ pc = "ledger"
    /\ saved' = TRUE
    /\ pc' = "report"
    /\ UNCHANGED <<cur, outcome, request, status, seen, entry>>
    /\ GoesOn /\ UNCHANGED childVars
    /\ UNCHANGED stateVars /\ UNCHANGED handlerVars

AllDone == \A i \in Sessions : entry[i] = "done"

\* Any session that is not done makes the process exit with 1.
Report ==
    /\ Alive /\ pc = "report"
    /\ IF AllDone THEN pc' = "returned" /\ GoesOn
                  ELSE Ends("main") /\ UNCHANGED pc
    /\ UNCHANGED <<cur, outcome>>
    /\ UNCHANGED planVars /\ UNCHANGED childVars
    /\ UNCHANGED stateVars /\ UNCHANGED handlerVars

\* Another file operation that is not shielded by a catch ends the run.
FileFails ==
    /\ Alive /\ FaultyDisk
    /\ pc \in {"prepare", "create", "enter", "skip", "read", "verdict",
               "next", "ledger"}
    /\ Ends("main")
    /\ UNCHANGED planVars /\ UNCHANGED mainVars /\ UNCHANGED childVars
    /\ UNCHANGED stateVars /\ UNCHANGED handlerVars

\* Nobody listens to the 'error' of output.log, nor of the stdout that
\* --output-mode full copies it to: it ends the process on the spot.
OutputFails ==
    /\ Alive /\ pc \in {"spawn", "stream", "read"}
    /\ Ends("crash")
    /\ UNCHANGED planVars /\ UNCHANGED mainVars /\ UNCHANGED childVars
    /\ UNCHANGED stateVars /\ UNCHANGED handlerVars

\* With cmdAsk returned the process ends, with code 0, once no update is
\* pending; the grace timer is unref'ed and does not count.
Drain ==
    /\ Alive /\ pc = "returned" /\ (handled => ledgerDone)
    /\ \A i \in Sessions : Settled(i)
    /\ Ends("drain")
    /\ UNCHANGED planVars /\ UNCHANGED mainVars /\ UNCHANGED childVars
    /\ UNCHANGED stateVars /\ UNCHANGED handlerVars
-----------------------------------------------------------------------------
\* SIGINT and SIGTERM (runtime/provider-cancellation.ts)

\* Mutation: the ledger alone decides.
MaybeExit_LedgerOnly(cleanup, ledger) ==
    IF ledger THEN Ends("handler") ELSE GoesOn

MaybeExit(cleanup, ledger) ==
    IF cleanup /\ ledger THEN Ends("handler") ELSE GoesOn

\* The first signal: the handler captures what is active now.
SignalTaken ==
    /\ Alive /\ listening /\ ~handled
    /\ handled' = TRUE
    /\ hPid' = activePid /\ hSession' = activeSession
    /\ cleanupDone' = (activePid = 0)
    /\ ledgerDone' = (activeSession = 0)
    /\ IF activePid = 0 THEN UNCHANGED <<sent, grace>>
       ELSE Term(activePid) /\ grace' = "armed"
    /\ MaybeExit(activePid = 0, activeSession = 0)
    /\ UNCHANGED <<child, listening>>
    /\ UNCHANGED planVars /\ UNCHANGED mainVars /\ UNCHANGED stateVars

\* Later ones are dropped while it is registered.  Without it, before and
\* afterwards, the first one kills.
SignalKills ==
    /\ Alive /\ ~listening
    /\ Ends("signal")
    /\ UNCHANGED planVars /\ UNCHANGED mainVars /\ UNCHANGED childVars
    /\ UNCHANGED stateVars /\ UNCHANGED handlerVars

\* markCancelled(hSession) lands, or fails for good.
CancelRecorded ==
    /\ Alive /\ handled /\ ~ledgerDone
    /\ \/ status' = [status EXCEPT ![hSession] = "cancelled"]
       \/ FaultyDisk /\ UNCHANGED status
    /\ ledgerDone' = TRUE
    /\ MaybeExit(cleanupDone, TRUE)
    /\ UNCHANGED <<request, seen, entry, saved, listening, handled,
                   hPid, hSession, grace, cleanupDone>>
    /\ UNCHANGED mainVars /\ UNCHANGED childVars /\ UNCHANGED stateVars

\* Mutation: SIGKILL to the provider that is active by now.
GraceFires_Active ==
    /\ Alive /\ grace = "armed"
    /\ grace' = "fired"
    /\ IF activePid = 0 THEN UNCHANGED sent ELSE Kill(activePid)
    /\ cleanupDone' = TRUE
    /\ MaybeExit(TRUE, ledgerDone)
    /\ UNCHANGED <<child, listening, handled, hPid, hSession, ledgerDone>>
    /\ UNCHANGED planVars /\ UNCHANGED mainVars /\ UNCHANGED stateVars

\* SIGKILL to the captured pid, whoever is running by now.
GraceFires ==
    /\ Alive /\ grace = "armed"
    /\ grace' = "fired"
    /\ Kill(hPid)
    /\ cleanupDone' = TRUE
    /\ MaybeExit(TRUE, ledgerDone)
    /\ UNCHANGED <<child, listening, handled, hPid, hSession, ledgerDone>>
    /\ UNCHANGED planVars /\ UNCHANGED mainVars /\ UNCHANGED stateVars

ChildEnds(i) ==
    /\ child[i] = "live"
    /\ \E way \in IF sent[i] = "kill" THEN {"signal"} ELSE Ended :
           child' = [child EXCEPT ![i] = way]
    /\ UNCHANGED <<exit, held, sent>>
    /\ UNCHANGED planVars /\ UNCHANGED mainVars /\ UNCHANGED timerVars
    /\ UNCHANGED stateVars /\ UNCHANGED handlerVars

Over ==
    /\ ~Alive /\ \A i \in Sessions : child[i] # "live"
    /\ UNCHANGED runVars
-----------------------------------------------------------------------------
\* `aco cancel`, of the session named or of the one created last.  One such
\* command finds a session of the run, while it goes on, to be running.

\* Only a session read as 'running' is cancelled.  The record has the pid of
\* its provider once that update is through, unless it failed or another has
\* overwritten it.
CancelReads(i) ==
    /\ Alive /\ status[i] = "running"
    /\ \A j \in Sessions : cancel[j] = "none"
    /\ \/ cancel' = [cancel EXCEPT ![i] = "blind"]
       \/ /\ child[i] # "none" /\ Settled(i)
          /\ cancel' = [cancel EXCEPT ![i] = "knows"]
    /\ UNCHANGED runVars

\* markCancelled, whatever was recorded in between.
CancelMarks(i) ==
    /\ cancel[i] \in {"blind", "knows"}
    /\ \/ /\ status' = [status EXCEPT ![i] = "cancelled"]
          /\ cancel' = [cancel EXCEPT ![i] =
                            IF cancel[i] = "knows" THEN "marked" ELSE "done"]
       \/ /\ FaultyDisk /\ UNCHANGED status
          /\ cancel' = [cancel EXCEPT ![i] = "done"]
    /\ UNCHANGED <<request, seen, entry, saved>>
    /\ GoesOn /\ UNCHANGED mainVars /\ UNCHANGED childVars
    /\ UNCHANGED stateVars /\ UNCHANGED handlerVars

\* SIGTERM to the pid read at the beginning.
CancelSignals(i) ==
    /\ cancel[i] = "marked"
    /\ cancel' = [cancel EXCEPT ![i] = "done"]
    /\ Term(i)
    /\ UNCHANGED child
    /\ GoesOn /\ UNCHANGED planVars /\ UNCHANGED mainVars
    /\ UNCHANGED stateVars /\ UNCHANGED handlerVars
-----------------------------------------------------------------------------
Main == \/ CheckRequest \/ Consent \/ Prepare
        \/ CreateSession \/ SeedPrimary \/ RecordContexts
        \/ EnterProvider \/ Skip \/ Spawn \/ SpawnFails \/ Close
        \/ ReadLatest \/ RecordVerdict \/ NextProvider \/ WriteLedger
        \/ Report \/ Drain

Run ==
    \/ Main \/ FileFails \/ OutputFails
    \/ TimeoutFires \/ ForceKillFires
    \/ SignalTaken \/ SignalKills \/ CancelRecorded \/ GraceFires
    \/ \E i \in Sessions : Update(i) \/ ChildEnds(i)
    \/ Over

Next ==
    \/ Run /\ UNCHANGED cancel
    \/ \E i \in Sessions : CancelReads(i) \/ CancelMarks(i) \/ CancelSignals(i)

Spec == Init /\ [][Next]_vars

(***************************************************************************)
(* Callbacks run, timers expire, the file system answers and a provider    *)
(* that was sent SIGKILL ends.  Nothing is asked of `aco cancel`.          *)
(***************************************************************************)
Fairness ==
    /\ WF_runVars(Main)
    /\ WF_runVars(TimeoutFires) /\ WF_runVars(ForceKillFires)
    /\ WF_runVars(CancelRecorded) /\ WF_runVars(GraceFires)
    /\ WF_runVars(\E i \in Sessions : Update(i))
    /\ WF_runVars(\E i \in Sessions : sent[i] = "kill" /\ ChildEnds(i))

FairSpec == Spec /\ Fairness
-----------------------------------------------------------------------------
(***************************************************************************)
(* Properties                                                              *)
(***************************************************************************)

\* Providers are run, and sessions created, only for a valid request whose
\* user has said yes and, if its input looks like a credential, has said so
\* twice (118-182).
ConsentedOnly ==
    \A i \in Sessions :
        child[i] # "none" \/ status[i] # "absent" =>
            /\ request.valid /\ request.mode = "yes"
            /\ request.input = "credential" => request.allowSensitive

\* Someone has cancelled session i: the handler, or an `aco cancel` that had
\* found it running.
Struck(i) == hSession = i \/ cancel[i] \in {"marked", "done"}

\* The ledger tells the truth about each session: 'done' only for a provider
\* that exited with 0, 'cancelled' exactly if it was read back as cancelled.
\* Its task.json, whose updates nothing orders, may still say otherwise, but
\* never with the other verdict: only 'cancelled' by a cancellation, or
\* 'running' again where there was a provider whose pid was recorded late.
\* Exit code 0 of the delegation means that every provider ran and exited
\* with 0 (370-390, 294-335, 475-510; store.ts 67-72).
LedgerIsTrue ==
    \A i \in Sessions :
        /\ entry[i] # "none" =>
               /\ entry[i] = "done" => child[i] = "zero"
               /\ entry[i] = "cancelled" <=> seen[i]
               /\ status[i] # entry[i] =>
                      \/ status[i] = "cancelled" /\ Struck(i)
                      \/ status[i] = "running" /\ child[i] # "none"
        /\ exit = "drain" => child[i] = "zero"

\* An ended `aco ask` leaves a provider running only after broken output, or
\* after a handler that has sent it SIGKILL or that captured its state before
\* this one was started (provider-cancellation.ts 81-130; ask.ts 266-268).
LeftBehind ==
    ~Alive => \A i \in Sessions :
        child[i] = "live" =>
            \/ exit = "crash"
            \/ exit = "handler" /\ (sent[i] = "kill" \/ hPid # i)

\* What the run makes of the call of provider i.
CallAnswer(i) ==
    CASE entry[i] = "done" -> "ok"
      [] entry[i] \in {"failed", "cancelled"} -> "failed"
      [] entry[i] = "none" /\ ~Alive -> "abandoned"
      [] OTHER -> "none"

\* One run is one call of each of its providers, though they share the
\* timers, the handler and its grace period: \A i \in Sessions : Call(i)!Spec.
Call(i) == INSTANCE ProviderCall
               WITH child <- child[i], sent <- sent[i], answer <- CallAnswer(i)
CallProtocol ==
    /\ \A i \in Sessions : Call(i)!Init
    /\ [][\A i \in Sessions : [Call(i)!Next]_(Call(i)!vars)]_vars

\* The run ends, whatever its providers do with SIGTERM.
AskEnds == <>~Alive

(***************************************************************************)
(* A claim of the repository that the code does not keep.                  *)
(***************************************************************************)

\* "exit only once the clean-up of the child is done; an exit before that
\* leaves an orphan" (provider-cancellation.ts 81-82): it should hold at
\* least for a signal that finds a provider at work.
NoOrphanAfterCapture ==
    exit = "handler" /\ hPid # 0 =>
        \A i \in Sessions : child[i] = "live" => sent[i] = "kill"
=============================================================================
