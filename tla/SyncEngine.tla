----------------------------- MODULE SyncEngine -----------------------------
(***************************************************************************)
(* `aco sync` (packages/wrapper/src/sync): skills under .claude/skills are *)
(* copied to .agents/skills, agents under .claude/agents are rendered to   *)
(* .codex/agents, and .aco/sync-manifest.json remembers the hash of every  *)
(* source and target.  One run at a time reads the sources, the manifest   *)
(* and the targets, plans, and then writes file by file, the manifest      *)
(* last; it may stop between any two of these steps, and the user edits    *)
(* sources, targets and the configuration whenever he likes.               *)
(*                                                                         *)
(* A hash is the content it was computed from.  A skill is a directory of  *)
(* two files, its SKILL.md ("main") and another one; an agent is one file. *)
(* Older versions wrote further files, which sync no longer produces but   *)
(* still finds in their manifests, and removes.                            *)
(***************************************************************************)
EXTENDS Naturals

CONSTANTS
    Agents, Skills,  \* the assets, each with one source and one target
    Gemini, Hooks,   \* legacy targets: GEMINI.md, .gemini/agents/*, and
                     \* .codex/hooks.json
    Texts,           \* what a file may hold
    Render,          \* the .toml text of each agent text
    None,            \* no such file
    Torn,            \* what an interrupted write leaves in a file
    NoManifest,      \* a manifest that is missing or does not parse
    Faults,          \* may a run stop, fail to remove a file, or meet an edit?
    MaxEdits         \* bound: how often the user edits something

Legacy == Gemini \cup Hooks
Assets == Agents \cup Skills \cup Legacy
Files == {"main", "extra"}

ASSUME AssetsAssumption ==
    /\ Agents \cap Skills = {} /\ Gemini \cap Hooks = {}
    /\ Legacy \cap (Agents \cup Skills) = {}
ASSUME TextsAssumption ==
    /\ Render \in [Texts -> Texts]
    /\ None # Torn /\ {None, Torn} \cap Texts = {}
ASSUME BoundsAssumption == Faults \in BOOLEAN /\ MaxEdits \in Nat

Sources == [Files -> Texts \cup {None}]
Trees == [Files -> Texts \cup {None, Torn}]
Empty == [f \in Files |-> None]

Manifests == [src: [Assets -> Texts \cup {None}], tgt: [Assets -> Sources]]
ASSUME ManifestAssumption == NoManifest \notin Manifests

VARIABLES
    source, allowed,   \* the sources; what .aco/sync.yaml lets through
    target, manifest,  \* what sync writes
    run,               \* where the run is, its mode, when it began
    seen, known,       \* the sources and the manifest as the run read them
    plan,              \* an action and a tree for each target, and when
    todo, ops,         \* outputs to write, file operations of the current one
    edits,             \* how many edits there were: the time
    settled, checked,  \* since the last sync, the last passed check, began
                       \* nothing was edited
    disturbed          \* a target was edited, or a run was interfered with

userVars == <<source, allowed, edits>>
diskVars == <<target, manifest>>
readVars == <<seen, known>>
workVars == <<todo, ops>>
historyVars == <<settled, checked, disturbed>>
vars == <<source, allowed, target, manifest, run, seen, known, plan, todo,
          ops, edits, settled, checked, disturbed>>

Modes == {"sync", "force", "check"}
Acts == {"none", "created", "updated", "skipped", "removed", "conflict"}
Operations == [t: Assets, f: Files, do: {"clear", "copy", "write"}]

NoRun == [at |-> "idle", mode |-> "sync", since |-> 0]
NothingSeen == [text |-> [t \in Assets |-> None], allowed |-> {}]
NoPlan == [act |-> [t \in Assets |-> "none"],
           tree |-> [t \in Assets |-> Empty], at |-> 0]

TypeOK ==
    /\ source \in [Assets -> Sources]
    /\ allowed \in SUBSET (Agents \cup Skills)
    /\ target \in [Assets -> Trees]
    /\ manifest \in Manifests \cup {NoManifest}
    /\ run \in [at: {"idle", "manifest", "plan", "decide", "write", "save"},
                mode: Modes, since: 0..edits]
    /\ seen \in [text: [Assets -> Texts \cup {None}], allowed: SUBSET (Agents \cup Skills)]
    /\ known \in Manifests \cup {NoManifest}
    /\ plan \in [act: [Assets -> Acts], tree: [Assets -> Sources],
                 at: 0..edits]
    /\ todo \in SUBSET Assets
    /\ ops \in SUBSET Operations
    /\ edits \in 0..MaxEdits
    /\ settled \in BOOLEAN
    /\ checked \in BOOLEAN
    /\ disturbed \in BOOLEAN

\* Any sources, and a repository that was never synced.
NewRepository ==
    /\ source \in {s \in [Assets -> Sources] :
                      /\ \A a \in Agents : s[a]["extra"] = None
                      /\ \A g \in Legacy : s[g] = Empty}
    /\ allowed \in SUBSET (Agents \cup Skills)
    /\ target = [t \in Assets |-> Empty]
    /\ manifest = NoManifest
    /\ disturbed = FALSE

File(text) == [Empty EXCEPT !["main"] = text]

\* A repository without sources in which an older version wrote a legacy
\* target, which may have been edited or removed since.
OldRepository ==
    /\ source = [t \in Assets |-> Empty] /\ allowed = {}
    /\ \E g \in Legacy, text \in Texts, now \in Texts \cup {None} :
           /\ manifest = [src |-> [t \in Assets |-> None],
                          tgt |-> [t \in Assets |->
                                      IF t = g THEN File(text) ELSE Empty]]
           /\ target = [t \in Assets |-> IF t = g THEN File(now) ELSE Empty]
           /\ disturbed = (now \notin {text, None})

Init ==
    /\ NewRepository \/ OldRepository
    /\ run = NoRun /\ seen = NothingSeen /\ known = NoManifest
    /\ plan = NoPlan /\ todo = {} /\ ops = {}
    /\ edits = 0
    /\ settled = FALSE /\ checked = FALSE
-----------------------------------------------------------------------------
\* The user

Edited(onTarget) ==
    /\ edits < MaxEdits /\ edits' = edits + 1
    /\ Faults \/ run.at = "idle"
    /\ settled' = FALSE /\ checked' = FALSE
    /\ disturbed' = (disturbed \/ onTarget \/ run.at # "idle")
    /\ UNCHANGED <<manifest, run, plan>>
    /\ UNCHANGED readVars /\ UNCHANGED workVars

HasFile(t, f) == t \in Skills \/ f = "main"

EditSource(t, f) ==
    /\ HasFile(t, f) /\ t \notin Legacy
    /\ \E text \in (Texts \cup {None}) \ {source[t][f]} :
           source' = [source EXCEPT ![t][f] = text]
    /\ Edited(FALSE)
    /\ UNCHANGED <<allowed, target>>

EditConfig(t) ==
    /\ t \notin Legacy
    /\ allowed' = IF t \in allowed THEN allowed \ {t} ELSE allowed \cup {t}
    /\ Edited(FALSE)
    /\ UNCHANGED <<source, target>>

\* A legacy file that no manifest names is nobody's concern any more.
EditTarget(t, f) ==
    /\ HasFile(t, f)
    /\ t \in Legacy => manifest # NoManifest /\ manifest.tgt[t] # Empty
    /\ \E text \in (Texts \cup {None}) \ {target[t][f]} :
           target' = [target EXCEPT ![t][f] = text]
    /\ Edited(TRUE)
    /\ UNCHANGED <<source, allowed>>
-----------------------------------------------------------------------------
\* Reading

\* The run is over, and forgets what it knew.
Leave ==
    /\ run' = NoRun /\ seen' = NothingSeen /\ known' = NoManifest
    /\ plan' = NoPlan /\ todo' = {} /\ ops' = {}

\* Configuration and sources; an excluded agent is not a source at all.
Discover(mode) ==
    /\ run.at = "idle"
    /\ run' = [at |-> "manifest", mode |-> mode, since |-> edits]
    /\ seen' = [text |-> [t \in Assets |->
                             IF t \in Agents \ allowed THEN None
                             ELSE source[t]["main"]],
                allowed |-> allowed]
    /\ UNCHANGED <<known, plan>>
    /\ UNCHANGED userVars /\ UNCHANGED diskVars
    /\ UNCHANGED workVars /\ UNCHANGED historyVars

\* No source, and no manifest that could have outlived one.
NothingToSync ==
    manifest = NoManifest /\ \A t \in Assets : seen.text[t] = None

ReadManifest ==
    /\ run.at = "manifest" /\ ~NothingToSync
    /\ known' = manifest
    /\ run' = [run EXCEPT !.at = "plan"]
    /\ UNCHANGED <<seen, plan>>
    /\ UNCHANGED userVars /\ UNCHANGED diskVars
    /\ UNCHANGED workVars /\ UNCHANGED historyVars

NoSources ==
    /\ run.at = "manifest" /\ NothingToSync
    /\ Leave
    /\ UNCHANGED userVars /\ UNCHANGED diskVars /\ UNCHANGED historyVars
-----------------------------------------------------------------------------
\* Planning

\* The assets an output is produced for, and the output.
Produced == {t \in seen.allowed : seen.text[t] # None}

Output(t) ==
    IF t \in Agents THEN File(Render[seen.text[t]])
    ELSE source[t]

\* The tree the manifest records for a target, Empty for none.
Recorded(t) == IF known = NoManifest THEN Empty ELSE known.tgt[t]
Owned(t) == Recorded(t) # Empty

\* Files, not directories, that no longer are what was last written there.
Conflicts ==
    {t \in Produced \cap Agents :
        Owned(t) /\ target[t] # Empty /\ target[t] # Recorded(t)}

\* Mutation: a stale target is removed whatever it has become.
Stale_AnyContent == {t \in Assets \ Produced : Owned(t)}

\* Targets without a source are removed if they are still as recorded; a
\* legacy target that is gone already is planned to be removed, too.
Stale ==
    {t \in Assets \ Produced :
        /\ Owned(t)
        /\ \/ target[t] = Recorded(t)
           \/ t \in Legacy /\ target[t] = Empty}

ActionOf(t) ==
    IF t \in Conflicts THEN "conflict"
    ELSE IF t \in Stale THEN "removed"
    ELSE IF t \notin Produced THEN "none"
    ELSE IF ~Owned(t) THEN "created"
    ELSE IF Recorded(t) = Output(t) THEN "skipped" ELSE "updated"

\* The source of a skill is gone when its directory is to be hashed.
Unreadable == \E t \in Produced \cap Skills : source[t] = Empty

ComputePlan ==
    /\ run.at = "plan" /\ ~Unreadable
    /\ plan' = [act |-> [t \in Assets |-> ActionOf(t)],
                tree |-> [t \in Assets |->
                             IF t \in Produced THEN Output(t) ELSE Empty],
                at |-> edits]
    /\ run' = [run EXCEPT !.at = "decide"]
    /\ UNCHANGED userVars /\ UNCHANGED diskVars /\ UNCHANGED readVars
    /\ UNCHANGED workVars /\ UNCHANGED historyVars

PlanThrows ==
    /\ run.at = "plan" /\ Unreadable
    /\ Leave
    /\ UNCHANGED userVars /\ UNCHANGED diskVars /\ UNCHANGED historyVars
-----------------------------------------------------------------------------
\* Deciding

\* Mutations: the disk is hashed; outputs that need no writing are left out.
NewManifest_Disk == [src |-> seen.text, tgt |-> target]
NewManifest_Written ==
    [src |-> seen.text,
     tgt |-> [t \in Assets |-> IF plan.act[t] = "skipped" THEN Empty
                               ELSE plan.tree[t]]]

NewManifest == [src |-> seen.text, tgt |-> plan.tree]

\* Mutation: only the hashes of the sources are compared.
Drift_SourcesOnly == known # NoManifest => known.src # NewManifest.src

\* migrateManifest: as of version 5 a manifest has no Gemini targets.
Migrated(m) ==
    IF m = NoManifest THEN m
    ELSE [m EXCEPT !.tgt = [t \in Assets |-> IF t \in Gemini THEN Empty
                                             ELSE m.tgt[t]]]

\* calculateDrift
Drift == Migrated(known) # NewManifest

Planned(act) == {t \in Assets : plan.act[t] = act}
Outdated == Drift \/ Planned("conflict") # {} \/ Planned("removed") # {}

CheckPasses ==
    /\ run.at = "decide" /\ run.mode = "check" /\ ~Outdated
    /\ checked' = (edits = run.since)
    /\ Leave
    /\ UNCHANGED <<settled, disturbed>>
    /\ UNCHANGED userVars /\ UNCHANGED diskVars

CheckFails ==
    /\ run.at = "decide" /\ run.mode = "check" /\ Outdated
    /\ Leave
    /\ UNCHANGED userVars /\ UNCHANGED diskVars /\ UNCHANGED historyVars

Refuse ==
    /\ run.at = "decide" /\ run.mode = "sync" /\ Planned("conflict") # {}
    /\ Leave
    /\ UNCHANGED userVars /\ UNCHANGED diskVars /\ UNCHANGED historyVars

Proceed ==
    /\ run.at = "decide" /\ run.mode # "check"
    /\ run.mode = "force" \/ Planned("conflict") = {}
    /\ todo' = Assets \ (Planned("none") \cup Planned("skipped"))
    /\ run' = [run EXCEPT !.at = "write"]
    /\ UNCHANGED <<plan, ops>>
    /\ UNCHANGED userVars /\ UNCHANGED diskVars
    /\ UNCHANGED readVars /\ UNCHANGED historyVars
-----------------------------------------------------------------------------
\* Writing

\* Legacy targets come first, skills before agents, stale skills before the
\* others, stale agents last.
Rank(t) ==
    IF t \in Legacy THEN 0
    ELSE IF t \in Skills THEN IF plan.act[t] = "removed" THEN 1 ELSE 2
    ELSE IF plan.act[t] = "removed" THEN 4 ELSE 3

All(t, do) == [t: {t}, f: {f \in Files : HasFile(t, f)}, do: {do}]

\* Mutation: a directory is copied over what there is.
OperationsOf_Merge(t) ==
    IF plan.act[t] = "removed" THEN All(t, "clear")
    ELSE IF t \in Agents THEN All(t, "write") ELSE All(t, "copy")

\* An updated directory is removed first, a created one is copied over
\* whatever may be there.
OperationsOf(t) ==
    IF plan.act[t] = "removed" THEN All(t, "clear")
    ELSE IF t \in Agents THEN All(t, "write")
    ELSE IF plan.act[t] = "updated" THEN All(t, "clear") \cup All(t, "copy")
    ELSE All(t, "copy")

NextOutput(t) ==
    /\ run.at = "write" /\ ops = {} /\ t \in todo
    /\ \A u \in todo : Rank(t) <= Rank(u)
    /\ todo' = todo \ {t}
    /\ ops' = OperationsOf(t)
    /\ UNCHANGED <<run, plan>>
    /\ UNCHANGED userVars /\ UNCHANGED diskVars
    /\ UNCHANGED readVars /\ UNCHANGED historyVars

\* An operation is due: a directory is cleared before it is copied.
Due(op) ==
    /\ run.at = "write" /\ op \in ops
    /\ op.do = "copy" => \A other \in ops : other.do # "clear"

Clear(op) ==
    /\ Due(op) /\ op.do = "clear"
    /\ target' = [target EXCEPT ![op.t][op.f] = None]
    /\ ops' = ops \ {op}
    /\ UNCHANGED <<manifest, run, plan, todo>>
    /\ UNCHANGED userVars /\ UNCHANGED readVars /\ UNCHANGED historyVars

\* A stale target that cannot be removed is only warned about.
ClearFails(op) ==
    /\ Faults
    /\ Due(op) /\ op.do = "clear" /\ plan.act[op.t] = "removed"
    /\ ops' = {}
    /\ disturbed' = TRUE
    /\ UNCHANGED <<run, plan, todo, settled, checked>>
    /\ UNCHANGED userVars /\ UNCHANGED diskVars /\ UNCHANGED readVars

\* cp reads the source as it is now.
Copy(op) ==
    /\ Due(op) /\ op.do = "copy" /\ source[op.t] # Empty
    /\ target' = IF source[op.t][op.f] = None THEN target
                 ELSE [target EXCEPT ![op.t][op.f] = source[op.t][op.f]]
    /\ ops' = ops \ {op}
    /\ UNCHANGED <<manifest, run, plan, todo>>
    /\ UNCHANGED userVars /\ UNCHANGED readVars /\ UNCHANGED historyVars

WriteFile(op) ==
    /\ Due(op) /\ op.do = "write"
    /\ target' = [target EXCEPT ![op.t][op.f] = plan.tree[op.t][op.f]]
    /\ ops' = ops \ {op}
    /\ UNCHANGED <<manifest, run, plan, todo>>
    /\ UNCHANGED userVars /\ UNCHANGED readVars /\ UNCHANGED historyVars

\* Behind the last output the manifest is truncated, and written.
OpenManifest ==
    /\ run.at = "write" /\ todo = {} /\ ops = {}
    /\ manifest' = NoManifest
    /\ run' = [run EXCEPT !.at = "save"]
    /\ UNCHANGED <<target, plan>>
    /\ UNCHANGED userVars /\ UNCHANGED readVars
    /\ UNCHANGED workVars /\ UNCHANGED historyVars

WriteManifest ==
    /\ run.at = "save"
    /\ manifest' = NewManifest
    /\ settled' = (edits = run.since)
    /\ Leave
    /\ UNCHANGED <<target, checked, disturbed>>
    /\ UNCHANGED userVars

\* The process is killed, or an operation throws, while it writes (a run
\* that stops before that has changed nothing): the file being written may
\* be torn, the manifest is as it is.
Stop ==
    /\ run.at \in {"write", "save"}
    /\ Faults \/ \E op \in ops : op.do = "copy" /\ source[op.t] = Empty
    /\ \/ UNCHANGED target
       \/ \E op \in ops :
              /\ Due(op) /\ op.do # "clear"
              /\ target' = [target EXCEPT ![op.t][op.f] = Torn]
    /\ settled' = FALSE /\ checked' = FALSE /\ disturbed' = TRUE
    /\ Leave
    /\ UNCHANGED manifest /\ UNCHANGED userVars
-----------------------------------------------------------------------------
User == \E t \in Assets :
            \/ EditConfig(t)
            \/ \E f \in Files : EditSource(t, f) \/ EditTarget(t, f)

Engine ==
    \/ \E mode \in Modes : Discover(mode)
    \/ ReadManifest \/ NoSources
    \/ ComputePlan \/ PlanThrows
    \/ CheckPasses \/ CheckFails \/ Refuse \/ Proceed
    \/ \E t \in todo : NextOutput(t)
    \/ \E op \in ops : Clear(op) \/ ClearFails(op) \/ Copy(op) \/ WriteFile(op)
    \/ OpenManifest \/ WriteManifest \/ Stop

Next == User \/ Engine

Spec == Init /\ [][Next]_vars
-----------------------------------------------------------------------------
(***************************************************************************)
(* Properties                                                              *)
(***************************************************************************)

\* Every file of a target that is there is as the manifest records it.
AsRecorded(t) ==
    \A f \in Files : target[t][f] \in {None, Recorded(t)[f]}

\* What a run removes as stale, and what it overwrites without --force among
\* the agents it owns, is its own work: the content that the manifest
\* recorded, not an edit, unless it was made behind the back of the plan
\* (sync-engine.ts 299-345, 474-493, skill-transform.ts 92-107).
OwnWorkOnly ==
    [][\A t \in Assets :
           /\ target'[t] # target[t]
           /\ edits' = edits /\ edits = plan.at
           /\ \/ plan.act[t] = "removed"
              \/ t \in Agents /\ run.mode = "sync" /\ Owned(t)
           => AsRecorded(t)]_vars

\* A passed check means that a sync has nothing to do, until something is
\* edited (514-554 against 649-718).
CheckedMeansDone == [][checked /\ edits' = edits => target' = target]_vars

\* Behind a completed sync no check fails and no sync is refused, whatever
\* runs were interrupted before it, until something is edited (818-826).
SettledStaysSettled ==
    settled /\ run.at = "decide" => ~Outdated /\ Planned("conflict") = {}

\* What sync promises: behind a completed one the targets are a function of
\* the sources and the configuration, if nobody ever edited a target or
\* interfered with a run.
Wanted(t) ==
    IF t \notin allowed \/ source[t]["main"] = None THEN Empty
    ELSE IF t \in Skills THEN source[t]
    ELSE File(Render[source[t]["main"]])

TargetsFollowSources ==
    settled /\ ~disturbed /\ run.at = "idle" =>
        \A t \in Assets : target[t] = Wanted(t)

(***************************************************************************)
(* Claims of the repository's documents that the code does not keep        *)
(* (the context-sync-conflict-detection specification).                    *)
(***************************************************************************)

\* "A manifest-owned target that is missing is treated as recreatable
\* generated output": it should be there after a completed sync.
MissingIsRecreated ==
    settled /\ run.at = "idle" =>
        \A t \in allowed : source[t]["main"] # None => target[t] # Empty

\* "The system SHALL stop a normal `aco sync` run before overwriting any
\* drifted manifest-owned target."
DriftedIsKept ==
    [][\A t \in Assets, f \in Files :
           /\ target'[t][f] # target[t][f]
           /\ edits' = edits /\ edits = plan.at
           /\ run.mode = "sync" /\ Owned(t)
           => target[t][f] \in {None, Recorded(t)[f]}]_vars
=============================================================================
