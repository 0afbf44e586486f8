# A TLA+ model of `aco`

`aco` hands prompts to command-line AI providers and records what became of
them; it also installs its own templates and mirrors a repository's skills and
agents for other providers. It exists twice: a Node runtime
(`packages/wrapper`, TypeScript) and a Go runtime (`cmd/aco`, `internal`).
There is no server and no lock anywhere. What can go wrong comes from
processes, signals, timers and files that meet in an order nobody wrote down.

The modules in this directory model that part of the system. TLC checks them
on small instances; the TLA+ proof system proves every invariant and every
action property that holds, and each refinement, for every value of the
constants. Liveness is left to TLC.

    tlc -workers 2 -config RunSession_faults.cfg MCRunSession.tla
    tlapm RunSessionProofs.tla

`PROJECT.json` lists the components, the runs, the source lines behind every
definition, the hazards with the properties that watch them, and a mutation of
the code for every checked property that the check of that property detects.

## 1. The system

Paths are relative to `src/`; `W` is `packages/wrapper/src`.

| component | state | operations | who it meets |
|---|---|---|---|
| session store, `W/session/store.ts` | `task.json` per session, output and error logs | create; update = read, merge, truncate, write; mark done / failed / cancelled; read | `aco run`, its signal handler, its un-awaited pid update and any `aco cancel` write the same file |
| `aco run`, `W/cli.ts` `cmdRun` | the session, `cancellationState.activePid`, a process exit code | create, record context, register handler, spawn, stream, flush, read back, verdict, dispose, exit | session store, cancellation handler, provider process |
| `aco cancel`, `W/cli.ts` `cmdCancel` | none of its own | read the session, mark it, SIGTERM the recorded pid | the same `task.json` and the same provider, from another process |
| provider cancellation, `W/runtime/provider-cancellation.ts` | `handled`, `cleanupDone`, `ledgerDone`, a grace timer | on SIGINT/SIGTERM: SIGTERM the group, mark cancelled, SIGKILL after the grace period, exit once both conditions hold | races the verdict of `aco run` and the loop of `aco ask` |
| provider process stream, `W/util/spawn-stream.ts` | temporary prompt file, two timers, `closePromise`, the process group | spawn, yield chunks, timeout (SIGTERM, then SIGKILL of the group), settle on `close` or `error`, unlink | the provider and its descendants, the consumer |
| session runner, `W/runtime/provider-session-runner.ts`, `bounded-output-capture.ts` | head, tail and length of the captured output | pull a chunk, decode it, write it to the sink, wait for drain, keep an excerpt, return or throw | the generator of the stream, whose timers go on while it waits; a sink that may break |
| `aco ask`, `W/commands/ask.ts` | one session per provider, `ledger.json`, `cancellationState` | check the request, ask for consent, create sessions, loop over providers, verdicts, ledger, report | one cancellation handler that follows the active session; an `aco cancel` of any of its sessions |
| Go process runner, `internal/runner/process.go` | four goroutines, channels, deadline, AfterFunc | start, wait, forward signals, terminate, force kill, drain, classify | the process group, signals, `select` choices |
| Go commands, `cmd/aco/*.go`, `internal/delegate/config.go` | a route, one metadata line, an exit code | flags, agent file, formatter, `Resolve`, registry, run, metadata, exit | the runner; the caller reads exit code and stdout |
| sync engine, `W/sync/sync-engine.ts`, `manifest.ts`, `skill-transform.ts`, `agent-codex-transform.ts` | `.aco/sync-manifest.json`, `.agents/skills`, `.codex/agents`, legacy targets | discover, plan, conflicts, check, write pass, manifest | the user, who edits sources, targets and configuration at any time; its own earlier, interrupted runs |
| sync policy, `W/sync/sync-config.ts`, `skill-classifier.ts`, `source-discovery.ts`, `duplicate-detector.ts` | none of its own | classify, detect duplicates, `--strict`, `--clean-duplicates`, `--force-clean` | the same directories, and `.codex/skills`, which others own |
| pack install, `W/commands/pack-install.ts` | `aco-manifest.json`, installed templates | install, `--force`, uninstall, setup | the user's files in the same places, upgrades, a checkout that moves; in a setup, the sync behind it |

Not modelled: the auth cache (`W/providers/auth-cache.ts`: every caller passes
`skipCache: true`, so it is written and never answers, and no behaviour depends
on it), provider adapters, prompt templates, usage parsing and credential
checks (argument lists and text), text transforms of sync (their output is a
content here), dashboard, context and doctor reports (read-only), the Node
`delegate` command (composes a prompt from files and prints it; it starts
nothing), Go providers and prompt loader (argument lists and text), the older
installer package (see section 7), shell scripts, templates and build tooling.

### What makes it correct

* **Sessions.** The status in `task.json` is the provider's own verdict or an
  operator's cancellation, whatever updates overlap; exit code 0 means success.
* **Processes.** A provider is started once, asked to stop before it is forced
  to, by whichever of its killers comes first; no exit of the wrapper leaves a
  provider running that it knew of; a provider that ignores SIGTERM, or whose
  worker holds the pipe, does not hang the wrapper.
* **Streams.** A consumer gets all output or an error, a timeout is told apart
  from a failure, and temporary file, timers and group are gone by then; the
  excerpt kept for the summary is the whole output or its two ends, within its
  limit.
* **Delegations.** Nothing is created or started before the user has agreed to
  it; the run's ledger, the session files and the exit code say the same.
* **Go.** What `Run` returns is what happened, the caller's exit code and
  metadata line say the same, and the route is the one the agent asked for.
* **Sync.** Generated files follow their sources; what sync removes or
  overwrites is its own work; a passed check means there is nothing to do; the
  policy decides what is there, through interrupted runs.
* **Pack.** What was installed stays recorded, other files stay untouched, a
  forced install repairs anything; a setup does not install a pack and then
  fail at its own sync for a reason it could have seen before.

### Where it is hard

Hazards are listed one by one in `PROJECT.json`. The main ones: `task.json` is
truncated and rewritten by up to four writers without a lock; the handler may
run before the provider has a pid, after the verdict was chosen, or between two
providers of `aco ask`; two timers, a handler and another process may all
signal the same group; Go's `select` may take either of two ready cases; both
manifests are written last and in place, after the files they describe; sync
plans from hashes it has read and writes from disk later.

## 2. The modules

| module | models | main correspondence |
|---|---|---|
| `TaskLedger` | one `task.json` under concurrent updates | `ReadTask`, `OpenTask` (truncates), `WriteTask` are the file operations of `SessionStore.update`. A record has a serialized size: a shorter record written over a longer one leaves text that does not parse, which `Overlay` computes. |
| `RunSession` (extends it) | `aco run` against signals, timeout, `aco cancel` | `pc` is the `await` that `cmdRun` is at; every action is one callback of the event loop or one file operation. Clients of the ledger: `main` (what `cmdRun` awaits: context, envPolicy, verdict), `pid` (the un-awaited update), `sig` (handler), each canceller. A signal is no state: the handler takes one, and without it any of them ends the process. |
| `SpawnStream` | one `spawnStream` call | `closing` is `closePromise`, `gen` the generator; `worker` is a descendant that shares the stdout pipe. |
| `ProviderSession` (extends it) | the loop over the chunks of a call | `consumer` is the `await` that `invokeProviderForSession` is at; `head`, `tail`, `total` are the capture. A byte is the number of the character it belongs to, so `Decode` can tell a character cut in two. |
| `ProviderCall` | abstract: one call of a provider | `child`, `sent` and an `answer`: started once and never behind the answer, asked before it is forced, "ok" only behind exit code 0, "failed" only with no process left. |
| `AskRun` | `aco ask` over several providers, and an `aco cancel` of one of its sessions | `cur` is the loop index. An update of a `task.json` that sets the status is one step; one that sets another field (the runtime context, the un-awaited pid) reads the status in one step and writes it back in another, with `held` in between. `cancel` is the other process. |
| `GoRunner` | `ProcessRunner.Run` | one variable per goroutine, channel or timer; a `select` with several ready cases is a disjunction. |
| `Routing` | `Resolve` over alias, hint, model lists, fallback | operators over a formatter record, without state. |
| `GoCommand` (extends both) | `aco run` and `aco delegate` of the Go binary | `cmd`, `route`, `sentinel`, `exit` around the runner's steps; each check of flags, files or text may succeed or fail. |
| `SyncEngine` | `aco sync`, `--force`, `--check` | actions for reading, planning, deciding, single file operations, saving; a hash is the content it was computed from. |
| `SkillSurfaces` | policy and duplicates: `--strict`, `--clean-duplicates`, `--force-clean` | `Eligible` is the classifier, `Exposed` / `Twins` / `Duplicates` the detector; a skill's content is its front matter. |
| `PackInstall` | `aco pack install`, `uninstall` | one action per file looked at, copied or removed; the manifest is opened (truncated) and written in two. |
| `PackSetup` (extends it) | `aco pack setup`: preflight, install, sync | `setup` is the stage; `context` what a check would say, which the user may change meanwhile. |
| `MC*` | instances for TLC | |
| `*Proofs` | inductive invariants and theorems | |

Operators whose comment begins with "Mutation" belong to no specification: each
is a definition as a plausible mistake in the code would leave it, and under it
the named property of a run must fail.

`GoCommand` composes with `GoRunner` by stepping it: a step of a command is a
step of the runner or leaves it alone. `GoProofs!CommandRuns` proves
`CommandSpec => Spec`, so every theorem of the runner holds in a command.
`ProviderSession` and `PackSetup` are composed in the same way, and
`ProviderSessionProofs!SessionCalls` and `PackProofs!SetupInstalls` are
the same theorem for them.

`ProviderCall` is what the four runtimes have in common. Each of them is shown
to implement it, by TLC and by proof: `RunSession` with the exit code of
`cmdRun` as the answer, `ProviderSession` with what its call returns,
`GoRunner` with `Run`'s result, and `AskRun` once for each of its providers
(`CallProtocol`; in `ProviderSession` the name is `SessionProtocol`). What
makes this worth saying is the number of parties: handler, timers, verdict and
other processes know little of each other, and nothing in the code counts
signals or answers.

`SyncEngine` and `SkillSurfaces` share the pipeline of `runSync` and look at it
from two sides: contents and crashes file by file in the first; which skills
exist, and where, in the second, with a directory as the unit.

## 3. The runs

| run | instance | distinct states | shows |
|---|---|---|---|
| `run` | one canceller, any number of signals, any file operation may fail, output may break, fair | 955,830 | verdicts and exit code 0 are earned; no provider with a known pid is orphaned; a cancellation that was seen is kept; the protocol of one call; the wrapper ends; a provider being cancelled ends |
| `stream` | prompt file, timeout, worker, up to three chunks, five characters of which two have two bytes, limits 0, 1, 3, 6, a sink that may break, fair | 400,902 | nothing is left behind an answer; the answer is true; sink and excerpt have what the provider wrote; the protocol of one call; the call ends |
| `go` | two signals, deadline, worker, three formatters, every agent file, fair | 429,469 | result, metadata line and exit code are honest; routes fit; orphans only in two windows; the protocol of one call; the command ends |
| `ask` | two providers, every command line (`Inputs`: an unreadable file, and one like a credential, which passes as any other with `--allow-sensitive`), any number of signals, one `aco cancel`, faulty disk, output may break, fair | 991,429 | nothing without consent; ledger and exit code agree with the providers, and how far a `task.json` may differ; which providers an ended run may leave behind; the protocol of one call, for each provider; the run ends |
| `sync` | one agent, one skill of two files, one legacy file of each sort, two texts, two edits, stops anywhere | 1,804,563 | only own work is removed or overwritten; a passed check, and a completed sync, last; targets follow sources |
| `surfaces` | two names of one OpenSpec skill and a built-in one, four policies, two edits, stops and failing removals | 3,227,906 | the policy decides what is there; what the manifest does not name stays without `--force-clean`; nothing is seen twice behind a strict check or a forced cleaning |
| `pack` | two files, two versions, two places, three edits, stops anywhere, setups with a context that may change | 1,813,582 | what was installed stays recorded; only own files; a forced install repairs; a setup does not stop half way by its own doing |
| `run_cancel_lost`, `ask_orphan`, `sync_missing`, `sync_drifted`, `surfaces_modified` | small | - | counterexamples, section 6 |

Why these bounds are enough to mean something:

* One canceller already gives four writers of one file (main, pid, handler,
  canceller); a second adds the same two steps again. The proofs do not bound
  them.
* In the Node runtime signals need no bound, as nothing counts them: the
  handler takes one and ignores the rest, and the default disposition ends the
  process. In Go `MaxSignals` is two: the second meets either a forwarder in its
  grace period or one that has gone.
* Three chunks allow output before and after the leader's exit, a chunk that
  ends in the middle of a character and one that begins there. The limits hold
  no excerpt, one that is all marker, one with a head and a tail too short for
  the output, and one that fits. One worker stands for any number: only whether
  the pipe is held is looked at.
* Two providers of `aco ask` are the least with a next one; nothing reaches
  beyond the next. One `aco cancel` is allowed in a run: it may strike before,
  during and after the work on its session, and a second one adds the same
  writes again.
* Two texts of a file tell old from new; two edits are enough to edit during a
  run and again before the next, and to undo an edit. Each category of target
  has one member, since the engine treats each target on its own; two files in
  a skill are needed because copying merges into what is there.
* `surfaces` needs two names with one canonical name, and a skill with none.
  Its four policies hold each rule of the classifier against a higher one:
  exclude against built-in, include against built-in with another kind, front
  matter alone, exclude of something that is not there.
* Two versions of the pack, of which the later drops a file, and two places for
  the checkout are what the manifest can get wrong; three edits allow install,
  upgrade, move in one history.

Deadlock is checked in all runs. Processes that are over have an explicit
final step (`Over`, `CommandOver`, `NoSources`), so a state in which a live
process waits for something that cannot come is reported.

## 4. Fairness

`RunSession`: weak fairness of `EventLoop` as a whole, and of the end of a
provider that was sent SIGKILL. As long as a promise of `cmdRun` or of the
handler has settled, a timer of the live process is armed or a file operation
is pending, the event loop goes on with one of them; nothing says with which,
and none of them can go on for ever. (The grace timer is `unref`ed, so `Drain`,
the end of the process by itself, does not wait for it; the execution timeout
is always set, to 300 s by default.) Nothing is assumed of a provider that was
not killed: it may ignore SIGTERM and run for ever. Nothing is assumed of `aco
cancel`, and whether a signal, a cancellation or a failing disk occurs is left
open.

`ProviderSession`: weak fairness of the launch, of the generator, of the events
of the process, of the loop (a sink that does not break drains), of the two
timers and of the end of a leader that was sent SIGKILL. A sink that neither
drains nor breaks is outside of what the code can promise.

`AskRun`: over the state of the run, of the awaited promise, each timer, the
two callbacks of the handler, the pending updates of `task.json`, and of the
end of a killed provider. Nothing is asked of the `aco cancel` from outside,
which may stop between any two of its steps.

`GoCommand`: of the steps before and behind the run, of `Run`'s own steps (the
scheduler runs a ready goroutine), of `DeadlinePasses` (the context has a
deadline: `cmd_run.go`, `cmd_delegate.go` set one), of `WaitReturns`, the
AfterFunc, the forwarder and its timer, and of the end of a killed leader.

No strong fairness is used, and no fairness on anything the environment may
leave undone. `SyncEngine`, `SkillSurfaces` and `PackSetup` state safety only.

## 5. What is proved

All theorems hold for every value of the constants that satisfies the named
assumptions of the modules (bounds are natural numbers, sets of clients,
contents or categories are disjoint). tlapm checks every leaf.

**`RunSessionProofs`.** None of the properties is inductive: that 'done' in
`task.json` is earned depends on the records that four clients hold in memory.
`IInv` is `TypeOK` with `HoldsRecord` (what an update under way carries is a
record or a patch), `Stages` (which parts exist at which await), `Verdicts`
(what is in the file, and what any client is about to write, was earned;
`outcome` agrees with the child), `Cancellation` (what the handler's two
conditions have established) and `AskedFirst` (whoever may send SIGKILL has
sent SIGTERM). A step that only forgets updates, by taking an answer or ending
the wrapper, cannot disturb the first two (`DropsFrame`). From it:
`TypeCorrect`, `VerdictsAreEarned`, `NoOrphans`, `SeenCancelKept` (an action
property) and `CallProtocolHolds`: the run with all
its killers implements `ProviderCall`.

**`SpawnStreamProofs`.** `IInv` adds `Stages`, `Closings` (what the callbacks
of `closePromise` have established when it settles), `Endings` (what that means
for the consumer) and `AskedFirst`. From it: `TypeCorrect`, `NothingIsLeft`,
`ConsumersAreTold`, `CallProtocolHolds`.

**`ProviderSessionProofs`.** `SessionCalls` is the refinement
`SessionSpec => Spec`, which carries the theorems of the call over
(`SessionLeavesNothing`, `SessionIsTold`). `SInv` has two parts about text.
`Sunk`: the sink has every character up to the last byte handed out that no
boundary broke, in ascending order and none from beyond that byte; the last
clause is what a further chunk needs to begin behind. `Captured`: head and tail
are the two ends of what the sink got, cut to the limit, and `total` is its
length. `DecodeKeeps` says what decoding bytes lo+1..hi on their own keeps of
the characters; with lemmas on `First`, `Last` and concatenation `SInv` is
inductive for every output, every way of cutting it into chunks and every
limit. No induction over the output is needed, as each step of the loop adds
one chunk. From it: `SessionTypeCorrect`, `ResultsAreFaithful`,
`SessionProtocolHolds`.

**`AskRunProofs`.** For any number of providers, `IInv` is `TypeOK` with
`Points` (what has been set up at which point of `cmdAsk`), `Progress` (how far
the loop is, and that providers behind it have ended and those before it have
not begun), `Statuses` (what each `task.json`, each update that holds a status
it has read, and each entry of the ledger say of the provider), `Cancellation`
(whom the handler has captured, and what its two conditions have established),
`Exits` and `AskedFirst`. It is shown separately for the steps of the run and
those of `aco cancel` (`RunIInv`, `CancelIInv`). From it: `TypeCorrect`,
`ConsentComesFirst`, `LedgersAreTrue`, `NothingElseLeftBehind`,
`CallProtocolHolds`.

**`GoProofs`.** For the runner, `IInv` adds `Stages`, `ForceKill` (the
AfterFunc belongs to the timeout path and has been stopped or awaited before
`Run` classifies), `Waited` (what `cmd.Wait` sent stays true), `Reported`,
`Forwarding` (where the forwarder may have gone; this carries the two windows)
and `AskedFirst`. From it: `TypeCorrect`, `ReportsAreHonest`,
`OrphansOnlyInWindow`, `NoLateForceKill`, `CallProtocolHolds`. For the
commands, `ResolveFinds` and `ResolveFits` are lemmas about the routing
operator for any formatter that loads. `CommandRuns` is the refinement
`CommandSpec => Spec`. With the runner's invariant carried along, `CInv`
(`CommandTypeOK`, `Progress`: how far command and runner are, `Metadata`: a
line stands only behind an exited provider, `Routed`: a route came from
`Resolve`) is inductive. From it: `CommandTypeCorrect`, `CallersAreTold`,
`RoutesFit`.

**`PackProofs`.** For the install, `IInv` adds `Stages`, `Recording` (each file
aco wrote is in the manifest, or in the list that will become it, or astray),
`Removed`, `Listed`, `Fit` (a file found missing is still missing if nobody
interfered), `Repairing` (how far a forced install has come) and
`ForceRepairs`. From it: `TypeCorrect`, `InstallsStayRecorded`,
`ForceRepairsAll`, `OwnFilesOnly`. For a setup, `SetupInstalls` is the
refinement `SetupSpec => Spec`: the theorems of the install hold in a setup
(`SetupStaysRecorded`, `SetupOwnFilesOnly`). `SetupTypeCorrect` is inductive
with `Stages` of the install beside it, and `SetupKeepsWord` rests on one
further fact: an untouched context is the one the preflight let pass.

**`SyncEngineProofs`.** For any agents, skills, legacy targets, texts and any
number of edits and stops. That a passed check or a completed sync lasts is a
matter of two moments far apart, so `IInv` follows what a run knows from one to
the other. `Reading` and `Planning`: what was read, and what was planned from
it, is current as long as `edits` has not moved. `Fitting`: then the plan's
trees are the wanted ones. `Working`: operations under way are of one output,
and nothing is copied into a directory before it is cleared. `OwnWork`: what is
still to be removed or overwritten is as it was recorded. `Dealt`: agents that
have been dealt with are as wanted. `Resting`: behind a passed check or a
completed sync the manifest is one over which the next run plans nothing
(`Quiet`), also while that run is under way. `Undisturbed`: where nobody
interferes, a target is as recorded before the write pass, as wanted behind it,
and in between file by file what the operations that are done have made of it
(`HalfDone`). From it: `TypeCorrect`, `SettledStays`, `TargetsFollow`,
`OwnWorkIsOwn`, `ChecksMeanDone`.

`PassedIsQuiet` and `QuietPlansNothing` are the heart of it: a check that
passes has found such a manifest, and over such a manifest the plan is empty.
`Quiet` asks of the targets only that no stale one is left for removal, since
what is planned otherwise depends on the manifest alone; this is what the
counterexamples of section 6 are made of. `Resting` adds that an agent is
missing or as wanted, without which it would be a conflict.

**`SkillSurfacesProofs`.** For any skills, classification and policies.
`Planning`: a plan makes what is eligible and drops recorded names that are
not. `Copies`: a directory that only completed runs have touched is as the
manifest records it, or, behind its turn in the write pass, as the plan does;
cleaned ones are gone. `Dropping`: what is to be dropped is a copy of aco's,
until somebody edits behind the plan or a removal fails halfway. `Lasts`,
`Strict`, `Forced`: what the claims that `last` keeps imply for each stage of a
later run. `Detected` and `Cleaned`: what a provider would see twice is to be
cleaned, and what is cleaned does not come back. `Ordered`: there is something
to do only in the cleaning and the write pass. From it: `TypeCorrect`,
`PolicyIsDecisive`, `NoneSeenTwice`, `ForeignStays`. The detector
counts names, so `NamesAssumption` says that they are finite, as the
directories of a repository are; `AloneIsSingle` and `SameAreTwins` turn counts
into pairs of names.

TLC has checked `SInv` and the `IInv` of the two sync modules as well, each on
the instance of its run.

**Only model-checked.** Liveness (`RunEnds`, `CancelEndsProvider`,
`SessionEnds`, `AskEnds`, `CommandEnds`) and anything with ENABLED, which this
prover does not reason about, and the five counterexamples of section 6. No
module with a theorem computes by recursion over data, so nothing is left to an
induction the prover cannot do.

## 6. Where code and documents differ

Five runs end in a counterexample to something the repository says of itself.

* `run_cancel_lost` (`CancelPrevails`). "The session store is the observable
  contract; the final status must reflect the operator action"
  (`openspec/changes/add-provider-smoke-timeout-session-reliability/design.md:95`).
  In the trace, `cmdRun`'s update of the runtime context (`W/cli.ts:232`) has
  read the session as 'running'; `aco cancel` writes 'cancelled' and reports
  success; then the update writes the record it had merged, and the session is
  'running' again, with the run going on. No verdict is reached. The pid update
  and the verdict (`W/cli.ts:271-292`) can do the same, the latter with 'done'
  or 'failed'.
* `ask_orphan` (`NoOrphanAfterCapture`). The handler exits only behind the
  child's clean-up, since an exit before would leave an orphan
  (`W/runtime/provider-cancellation.ts:81-82`). In `aco ask` the loop starts
  the next provider while the handler waits for its grace timer; the exit then
  leaves that one running and its session 'running'.
* `sync_missing` (`MissingIsRecreated`). A missing target is "recreatable
  generated output"
  (`openspec/changes/add-sync-manifest-conflict-detection/specs/context-sync-conflict-detection/spec.md:23`),
  but a deleted target whose source is unchanged is 'skipped', and `--check`
  passes (`W/sync/sync-engine.ts:505`).
* `sync_drifted` (`DriftedIsKept`). "The system SHALL stop a normal `aco sync`
  run before overwriting any drifted manifest-owned target" (spec.md:27), but
  conflicts are only looked for in files; a drifted skill directory is removed
  and copied anew when its source changes.
* `surfaces_modified` (`ModifiedIsKept`). Cleaning removes a duplicate
  "automatically only when the manifest records" it "and [its] current hash
  still matches"; a "user-modified" one "SHALL require an explicit force-clean
  option"
  (`openspec/changes/prevent-external-skill-command-duplication/design.md:84`).
  `--clean-duplicates` looks for the path in the manifest and at no hash
  (`W/sync/sync-engine.ts:576-578`): an edited copy is deleted.
  `ForeignIsKept` states what does hold of cleaning.

## 7. Also observed

Met while reading and modelling, confirmed in the code or in traces, and not
stated as a run of their own.

Sessions and processes:

* A signal between the registration of the handler and `onPid` finds no pid and
  nothing to clean up; the provider may be spawned while `markCancelled` is
  pending and survives the exit. `NoOrphanOncePidKnown` therefore speaks of
  known pids.
* A signal before the registration, or after the disposal, meets the default
  disposition and leaves the session 'running'. In `aco ask` the handler is
  registered first, but gets a session only behind the creation of all of them
  and the reading of their contexts: a Ctrl+C before that leaves what was
  created 'running', although `W/commands/ask.ts:266-268` has it recorded as
  cancelled when it comes before the loop. Sessions planned behind the
  cancelled one stay 'running' too. No property bounds which sessions those are.
* Output that breaks (a closed pipe, `EPIPE`) is an `error` event nobody hears:
  it ends the wrapper, leaves the provider to itself and the session 'running'.
* `aco cancel` without a session id takes the one created last, which in an
  `aco ask` is the last provider's, not the active one. A session that was
  cancelled before its provider started is run all the same; its verdict is
  then kept 'cancelled'.
* The un-awaited pid update merges into the record it read; overlapping a
  verdict or a cancellation it can bring 'running' back, in `aco run` and in
  `aco ask`. Both models have it; `LedgerIsTrue` says how far a `task.json` may
  then differ from the run's ledger.
* `--timeout` beyond 2^31-1 ms overflows the timer of Node, which fires at once.
* `--run latest` picks the run directory modified last, and a run writes its
  ledger at its end: while it is in progress the answer is "Run not found".
* A chunk is decoded on its own: a character that the boundary of two chunks
  divides reaches sink, excerpt and log as replacement characters
  (`SinkHasAll` excepts it).
* If the un-awaited pid update has not landed, `aco cancel` marks the session
  and signals nobody; `aco cancel` never escalates to SIGKILL.
* A run whose signal arrives after the verdict was chosen may still exit with
  0 and 'done', truthfully.
* A negative `--timeout` of the Go binary skips the environment variable and
  takes the default.

Go:

* `done` is closed by a `defer` of `Run`, not when `cmd.Wait` returns as
  `internal/runner/process.go:251-254` says: in between, the forwarder's
  SIGKILL can go to a group that was already reaped. `ReportIsHonest` and
  `CallerIsTold` hold all the same.
* After the deadline the forwarder is gone and the default disposition is back
  while `Run` still waits: the second window of `OrphanOnlyInWindow`.
* A provider that exits with 0 on the timeout's SIGTERM is reported as a
  success; `docs/contract/process-execution-contract.md:150` maps a timeout to
  exit code 1 and `*TimeoutError`. `ReportIsHonest` asserts the timeout only of
  a provider that ended otherwise.
* `Resolve` fills in the fallback's model when a role hint moves the route to a
  provider without models, although `internal/delegate/config.go:203-206` says
  such providers resolve with an empty model; with the shipped formatter, an
  agent with `roleHint: research` and no alias resolves to antigravity with the
  Codex fallback's model.
* "unable to resolve provider/model" cannot happen with a formatter that loads
  (`ResolveFinds`).

Sync:

* The targets of cleaning name every copy, so with `--force-clean` none is
  left, and the next sync creates the owned ones again; `--check` fails until
  then.
* Section 5 of the duplicate detector (same provider and name twice) never
  fires: disk and plan entries of one name share their path and are
  deduplicated first. Duplicates of `gh-*` and `superpowers-*` skills are hence
  never found. A planned skill with an `x-aco-kind` of its own is not indexed
  until it is on disk; `NoneIsSeenTwice` leaves such skills out of its claim
  about forced cleaning.
* A failed removal is a warning; the manifest written afterwards has forgotten
  the target, which then stays.
* A torn manifest reads as none: ownership of every target is forgotten.

Pack:

* An unforced install after an interrupted one skips what it finds, torn or
  not, and records nothing of it (`stray`).
* The manifest holds absolute paths: after the checkout has moved, uninstall
  skips all entries and then removes the manifest.
* "falling back to directory removal" (`W/commands/pack-install.ts:149`) is a
  message only: with an unreadable manifest just the manifest is removed.
* The older installer, `packages/installer/src/commands/pack-install.ts`, uses
  the same `aco-manifest.json`, replaces it instead of merging, and does fall
  back to removing directories.
* `aco pack setup --global` run from the home directory installs into the
  `.claude` that its sync then takes for a source.

Code that nothing reaches: the auth cache's answers (above), `updateManagedBlock`
and `getManagedBlockUpdate`, `parseGeminiUsage`, the `snapshot` of the output
buffer, the subscribers of `onSentinel`, `makeDashboardThrottleGuard` (tests
only), `readLastJsonlLine` (which would put a line together wrongly behind a
short read).

## 8. What the models leave out

* Text: prompts, flags, front matter and messages are members of small sets, or
  a choice of the environment between success and failure. Glob patterns are
  the names they match.
* A hash is the content it was computed from: no collisions.
* The planning of a sync is one step, except for the separate reading of
  sources, manifest and (in `SkillSurfaces`) duplicates; edits during it are
  edits before or after it. Directories hold two files in `SyncEngine`, and are
  one content in `SkillSurfaces`, where a removal or copy may leave something
  that is neither. An I/O error that throws is a stop.
* Partial edits of `.codex/config.toml` and `.gemini/settings.json`, symbolic
  links, `--dry-run`, Claude commands in the duplicate detector (they are never
  cleaned), two syncs or two installs at once.
* In `AskRun` an update that sets the status is one step, as the status it has
  read does not matter; updates that keep it are a read and a write. Files that
  are read while being written, and texts that do not parse, are `RunSession`'s
  matter; in `AskRun` a read may fail for no reason (`FaultyDisk`). Output
  modes, usage collection, artifacts and the text of the brief are left out.
* In `PackSetup` the context is what a check would complain about; what a sync
  makes of it, file by file, is `SyncEngine`'s matter.
* Windows branches; the reuse of a pid, which the models stand in for by
  counting what was delivered to a live process (`ProviderCall`) and by asking
  that no timer outlives a call (`NothingLeftBehind`); the text of stderr and
  its tail buffer; back-pressure, except that the loop waits for the sink.

## 9. Plan

Done in the order of what matters most: sessions and their one process, the
stream below them, the loop that consumes it, `aco ask` above, the Go runner and
its commands, sync, pack and its setup, sync policy; then the proofs of all of
these. Next:

1. An abstract specification of a session (running, then one final status),
   and `RunSession` as an implementation of it up to the lost cancellation.
2. `sync --dry-run` (a plan without a write pass) beside `--check` in
   `SyncEngine`, and two syncs at once.
3. `aco status` and `aco result` as readers of torn sessions.
4. The Go tail buffer against a reference definition (the last bytes of what
   was written), as the excerpt of the Node runtime is now.
