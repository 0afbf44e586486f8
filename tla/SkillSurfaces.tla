--------------------------- MODULE SkillSurfaces ---------------------------
(***************************************************************************)
(* Which skills `aco sync` lets through to .agents/skills, and what it does *)
(* about a skill that a provider would see twice                           *)
(* (packages/wrapper/src/sync: sync-config, skill-classifier,              *)
(* source-discovery, duplicate-detector, and the parts of sync-engine that *)
(* serve --strict, --clean-duplicates and --force-clean).                  *)
(*                                                                         *)
(* The content of a skill is what its front matter says of it; the rest of *)
(* the content, agents and legacy targets are SyncEngine's.                *)
(***************************************************************************)
EXTENDS Naturals, FiniteSets

CONSTANTS
    Names,       \* the skills
    Builtin,     \* those the classifier knows to be aco's own
    Canonical,   \* the name of an OpenSpec skill without "-change"
    Other,       \* the canonical name of every other skill
    Foreign,     \* what others may have put there before the first sync
    Policies,    \* the repositories the user may make: see Policy
    NoManifest,
    None, Own,   \* directories: not there; none of a skill's contents
    Faults,      \* may a run stop, or fail to remove a directory?
    MaxEdits     \* bound: how often the user edits something

\* The skill directories, what their front matter says (x-aco-owned, an
\* x-aco-kind other than the default), and the names the patterns match.
Policy == [sources: SUBSET Names, owned: SUBSET Names, kind: SUBSET Names,
           include: SUBSET Names, exclude: SUBSET Names]

Providers == {"agents", "codex"}
Directories == [at: Providers, name: Names]
ASSUME ForeignAssumption == Foreign \subseteq SUBSET Directories

Contents == {{}, {"owned"}, {"kind"}, {"owned", "kind"}}
Content(p, n) == {mark \in {"owned", "kind"} : n \in p[mark]}

ASSUME PolicyAssumption == Policies \subseteq Policy
ASSUME NamesAssumption ==
    IsFiniteSet(Names) /\ Builtin \subseteq Names /\ Other \notin Names
ASSUME ContentsAssumption == None # Own /\ {None, Own} \cap Contents = {}
ASSUME BoundsAssumption == Faults \in BOOLEAN /\ MaxEdits \in Nat

\* Hashes by name; a hash stands for its content.
Hashes == Names \X Contents
NamesOf(hashes) == {h[1] : h \in hashes}

Manifests == [sources: SUBSET Hashes, targets: SUBSET Hashes]
ASSUME ManifestAssumption == NoManifest \notin Manifests

VARIABLES
    policy,          \* the repository
    agents, codex,   \* the directories of .agents/skills, .codex/skills
    manifest,
    run,             \* where the run is, its option, was it disturbed?
    seen, plan,      \* the policy as read; what to make, to drop, to clean
    todo,            \* what of it is left to do
    cleaned,         \* the directories that were cleaned
    edits,           \* how many edits there were
    touched,         \* skills a user, or an unfinished run, has touched
    last             \* what has held since the last run: see Lasting

userVars == <<policy, edits>>
diskVars == <<agents, codex, manifest>>
vars == <<policy, agents, codex, manifest, run, seen, plan, todo, cleaned,
          edits, touched, last>>

Options == {"sync", "clean", "forceclean", "check", "strict"}

\* Nothing was edited since a run of this kind began that went through.
Lasting == {"sync", "strict", "forceclean"}

NoRun == [at |-> "idle", option |-> "sync", disturbed |-> "no"]
NoPlan == [make |-> {}, drop |-> {}, clean |-> {}]

TypeOK ==
    /\ policy \in Policies /\ seen \in Policies
    /\ agents \in [Names -> Contents \cup {None, Own}]
    /\ codex \in SUBSET Names
    /\ manifest \in Manifests \cup {NoManifest}
    /\ run \in [at: {"idle", "plan", "detect", "decide", "clean", "write"},
                option: Options, disturbed: {"no", "early", "late"}]
    /\ plan \in [make: SUBSET Hashes, drop: SUBSET Names,
                 clean: SUBSET Directories]
    /\ todo \in SUBSET Directories /\ cleaned \in SUBSET Directories
    /\ edits \in 0..MaxEdits
    /\ touched \in SUBSET Names
    /\ last \in SUBSET Lasting

\* A repository that was never synced, with whatever skills others put there.
Init ==
    /\ policy \in Policies /\ seen = policy
    /\ \E foreign \in Foreign :
           /\ touched = {d.name : d \in {f \in foreign : f.at = "agents"}}
           /\ codex = {d.name : d \in {f \in foreign : f.at = "codex"}}
    /\ agents = [n \in Names |-> IF n \in touched THEN Own ELSE None]
    /\ manifest = NoManifest
    /\ run = NoRun /\ plan = NoPlan /\ todo = {} /\ cleaned = {}
    /\ edits = 0 /\ last = {}
-----------------------------------------------------------------------------
\* The user

Edited ==
    /\ edits < MaxEdits /\ edits' = edits + 1
    /\ last' = {}
    /\ run' = [run EXCEPT !.disturbed =
                   CASE run.at = "idle" -> "no"
                     [] run.at = "plan" -> "early"
                     [] OTHER -> "late"]
    /\ UNCHANGED <<manifest, seen, plan, todo, cleaned>>

EditPolicy ==
    /\ policy' \in Policies \ {policy}
    /\ Edited
    /\ UNCHANGED <<agents, codex, touched>>

EditAgents(n) ==
    /\ \E directory \in {None, Own} \ {agents[n]} :
           agents' = [agents EXCEPT ![n] = directory]
    /\ touched' = touched \cup {n}
    /\ Edited
    /\ UNCHANGED <<policy, codex>>

EditCodex(n) ==
    /\ codex' = IF n \in codex THEN codex \ {n} ELSE codex \cup {n}
    /\ Edited
    /\ UNCHANGED <<policy, agents, touched>>
-----------------------------------------------------------------------------
\* Planning

Leave ==
    /\ run' = NoRun /\ plan' = NoPlan /\ seen' = policy
    /\ todo' = {} /\ cleaned' = {}

NothingToSync == policy.sources = {} /\ manifest = NoManifest

\* The run is refused.
NoSources == run.at = "idle" /\ NothingToSync /\ UNCHANGED vars

Checking(option) == option \in {"check", "strict"}

\* Configuration, sources and manifest are read.
Begin(option) ==
    /\ run.at = "idle" /\ ~NothingToSync
    /\ run' = [at |-> "plan", option |-> option, disturbed |-> "no"]
    /\ seen' = policy
    /\ last' = IF Checking(option) THEN last ELSE last \cap {"strict"}
    /\ UNCHANGED <<plan, todo, cleaned, touched>>
    /\ UNCHANGED userVars /\ UNCHANGED diskVars

\* Mutation: the list of what to include comes first.
Eligible_IncludeFirst(p) ==
    p.sources \cap (p.include \cup ((Builtin \cup p.owned) \ p.exclude))

\* classifySkill: exclude, include, the built-in names, the front matter.
Eligible(p) ==
    (p.sources \ p.exclude) \cap (p.include \cup Builtin \cup p.owned)

\* A built-in skill keeps its kind unless it is also included.
OfOtherKind(p) == (p.kind \cap Eligible(p)) \ (Builtin \ p.include)

Recorded == IF manifest = NoManifest THEN {} ELSE manifest.targets

\* What has a record but is not let through any more.
Unwanted == {h \in Recorded : h[1] \notin Eligible(seen)}

\* Mutation: the records themselves, not the names.
Stale_Records == {h \in Unwanted : agents[h[1]] = h[2]}

Stale == NamesOf({h \in Unwanted : agents[h[1]] = h[2]})

ComputePlan ==
    /\ run.at = "plan" /\ Eligible(seen) \subseteq policy.sources
    /\ plan' = [make |-> {<<n, Content(policy, n)>> : n \in Eligible(seen)},
                drop |-> Stale, clean |-> {}]
    /\ run' = [run EXCEPT !.at = "detect"]
    /\ UNCHANGED <<seen, todo, cleaned, touched, last>>
    /\ UNCHANGED userVars /\ UNCHANGED diskVars

\* A skill that is to be hashed has gone.
PlanThrows ==
    /\ run.at = "plan" /\ ~(Eligible(seen) \subseteq policy.sources)
    /\ Leave
    /\ UNCHANGED <<touched, last>>
    /\ UNCHANGED userVars /\ UNCHANGED diskVars

OnDisk(provider) ==
    IF provider = "codex" THEN codex ELSE {n \in Names : agents[n] # None}

\* Mutation: .codex/skills is not looked at.
Exposed_Shared(provider) ==
    IF provider = "codex" THEN {}
    ELSE OnDisk(provider) \cup (NamesOf(plan.make) \ OfOtherKind(seen))

\* What a provider sees, or will see.  A planned skill of another kind is
\* not counted.
Exposed(provider) ==
    OnDisk(provider) \cup
        IF provider = "codex" THEN {} ELSE NamesOf(plan.make) \ OfOtherKind(seen)

\* The skills among the names that are n under another name, n included.
Twins(names, n) ==
    {m \in names : Canonical[m] = Canonical[n] /\ Canonical[m] # Other}

Duplicates ==
    {d \in Directories : d.name \in Exposed(d.at)
                         /\ Cardinality(Twins(Exposed(d.at), d.name)) > 1}

\* detectDuplicates reads the directories once more.
Detect ==
    /\ run.at = "detect"
    /\ plan' = [plan EXCEPT !.clean = Duplicates]
    /\ run' = [run EXCEPT !.at = "decide"]
    /\ UNCHANGED <<seen, todo, cleaned, touched, last>>
    /\ UNCHANGED userVars /\ UNCHANGED diskVars
-----------------------------------------------------------------------------
\* Deciding

CleanedAgents == {d.name : d \in {c \in cleaned : c.at = "agents"}}

NewManifest ==
    [sources |-> {<<n, Content(seen, n)>> : n \in seen.sources},
     targets |-> {h \in plan.make : h[1] \notin CleanedAgents}]

Checks == Checking(run.option)

CheckFailing ==
    \/ manifest # NewManifest \/ plan.drop # {}
    \/ run.option = "strict" /\ plan.clean # {}

CheckPasses ==
    /\ run.at = "decide" /\ Checks /\ ~CheckFailing
    /\ last' = IF run.option = "strict" /\ run.disturbed = "no"
               THEN last \cup {"strict"} ELSE last
    /\ Leave
    /\ UNCHANGED touched
    /\ UNCHANGED userVars /\ UNCHANGED diskVars

CheckFails ==
    /\ run.at = "decide" /\ Checks /\ CheckFailing
    /\ Leave
    /\ UNCHANGED <<touched, last>>
    /\ UNCHANGED userVars /\ UNCHANGED diskVars

Proceed ==
    /\ run.at = "decide" /\ ~Checks
    /\ run' = [run EXCEPT !.at = "clean"]
    /\ todo' = IF run.option = "sync" THEN {} ELSE plan.clean
    /\ UNCHANGED <<seen, plan, cleaned, touched, last>>
    /\ UNCHANGED userVars /\ UNCHANGED diskVars
-----------------------------------------------------------------------------
\* Cleaning

\* Mutation: whatever is a duplicate may go.
Consented_Always(d) == TRUE

\* The manifest names no directory of .codex/skills.
Consented(d) ==
    \/ run.option = "forceclean"
    \/ d.at = "agents" /\ d.name \in NamesOf(Recorded)

\* rm of a directory of .agents/skills that fails, or stops, halfway.
Torn(n) == {agents[n], IF agents[n] = None THEN None ELSE Own}

RemovalFails(n) ==
    /\ \E rest \in Torn(n) : agents' = [agents EXCEPT ![n] = rest]
    /\ touched' = touched \cup {n}

Clean(d) ==
    /\ run.at = "clean" /\ d \in todo /\ Consented(d)
    /\ IF d.at = "codex"
       THEN codex' = codex \ {d.name} /\ UNCHANGED agents
       ELSE agents' = [agents EXCEPT ![d.name] = None] /\ UNCHANGED codex
    /\ todo' = todo \ {d} /\ cleaned' = cleaned \cup {d}
    /\ UNCHANGED <<manifest, run, seen, plan, touched, last>>
    /\ UNCHANGED userVars

\* Not aco's own: a warning.
RefuseToClean(d) ==
    /\ run.at = "clean" /\ d \in todo /\ ~Consented(d)
    /\ todo' = todo \ {d}
    /\ UNCHANGED <<run, seen, plan, cleaned, touched, last>>
    /\ UNCHANGED userVars /\ UNCHANGED diskVars

\* Also no more than a warning.
CleanFails(d) ==
    /\ Faults
    /\ run.at = "clean" /\ d \in todo /\ Consented(d)
    /\ IF d.at = "agents" THEN RemovalFails(d.name)
       ELSE UNCHANGED <<agents, touched>>
    /\ todo' = todo \ {d}
    /\ UNCHANGED <<codex, manifest, run, seen, plan, cleaned, last>>
    /\ UNCHANGED userVars

\* A skill whose hash is recorded is not copied again.
Outputs ==
    (plan.drop \cup NamesOf(plan.make \ Recorded)) \ CleanedAgents

StartWriting ==
    /\ run.at = "clean" /\ todo = {}
    /\ run' = [run EXCEPT !.at = "write"]
    /\ todo' = {[at |-> "agents", name |-> n] : n \in Outputs}
    /\ UNCHANGED <<seen, plan, cleaned, touched, last>>
    /\ UNCHANGED userVars /\ UNCHANGED diskVars
-----------------------------------------------------------------------------
\* Writing

\* Stale directories come first.
Drop(d) ==
    /\ run.at = "write" /\ d \in todo /\ d.name \in plan.drop
    /\ agents' = [agents EXCEPT ![d.name] = None]
    /\ todo' = todo \ {d}
    /\ UNCHANGED <<codex, manifest, run, seen, plan, cleaned, touched, last>>
    /\ UNCHANGED userVars

DropFails(d) ==
    /\ Faults
    /\ run.at = "write" /\ d \in todo /\ d.name \in plan.drop
    /\ RemovalFails(d.name)
    /\ todo' = todo \ {d}
    /\ UNCHANGED <<codex, manifest, run, seen, plan, cleaned, last>>
    /\ UNCHANGED userVars

\* What is recorded is removed before it is copied; otherwise cp merges
\* into a directory that is there.
Merges(n) == agents[n] = Own /\ n \notin NamesOf(Recorded)

\* What is copied may not be what was hashed.
Copy(d) ==
    /\ run.at = "write" /\ d \in todo /\ d.name \in policy.sources
    /\ \A e \in todo : e.name \notin plan.drop
    /\ LET content == Content(policy, d.name)
       IN  /\ \E copy \in {content} \cup IF Merges(d.name) THEN {Own} ELSE {} :
                  agents' = [agents EXCEPT ![d.name] = copy]
           /\ touched' = IF <<d.name, content>> \in plan.make THEN touched
                         ELSE touched \cup {d.name}
    /\ todo' = todo \ {d}
    /\ UNCHANGED <<codex, manifest, run, seen, plan, cleaned, last>>
    /\ UNCHANGED userVars

\* The claims of Lasting that the run may make.
Earned ==
    {option \in Lasting \cap {run.option} :
        /\ run.disturbed = "no"
        /\ option = "forceclean" => plan.clean \subseteq cleaned}

Save ==
    /\ run.at = "write" /\ todo = {}
    /\ manifest' = NewManifest
    /\ last' = last \cup Earned
    /\ Leave
    /\ UNCHANGED <<agents, codex, touched>>
    /\ UNCHANGED userVars

\* The directory is removed, perhaps to be copied again.
Removes(d) ==
    IF run.at = "clean" THEN Consented(d)
    ELSE d.name \in plan.drop \cup NamesOf(Recorded)

Planned == NamesOf(plan.make) \cup plan.drop \cup {d.name : d \in plan.clean}

\* The process is killed, or an operation throws: between two removals or
\* copies, within one, or while the manifest is written.
Stop ==
    /\ run.at \in {"clean", "write"}
    /\ \/ Faults
       \/ run.at = "write"
          /\ \E d \in todo : d.name \notin policy.sources \cup plan.drop
    /\ \/ UNCHANGED <<agents, manifest>> /\ touched' = touched \cup Planned
       \/ \E d \in todo, rest \in {None, Own} :
              /\ d.at = "agents"
              /\ Removes(d) \/ (run.at = "write" /\ rest = Own)
              /\ agents' = [agents EXCEPT ![d.name] = rest]
              /\ touched' = touched \cup Planned /\ UNCHANGED manifest
       \/ /\ run.at = "write" /\ todo = {} /\ Faults
          /\ manifest' = NoManifest /\ touched' = Names /\ UNCHANGED agents
    /\ last' = {}
    /\ Leave
    /\ UNCHANGED codex /\ UNCHANGED userVars
-----------------------------------------------------------------------------
User == EditPolicy \/ \E n \in Names : EditAgents(n) \/ EditCodex(n)

Engine ==
    \/ \E option \in Options : Begin(option)
    \/ NoSources \/ ComputePlan \/ PlanThrows \/ Detect
    \/ CheckPasses \/ CheckFails \/ Proceed \/ StartWriting
    \/ \E d \in todo : \/ Clean(d) \/ RefuseToClean(d) \/ CleanFails(d)
                       \/ Drop(d) \/ DropFails(d) \/ Copy(d)
    \/ Save \/ Stop

Next == User \/ Engine

Spec == Init /\ [][Next]_vars
-----------------------------------------------------------------------------
(***************************************************************************)
(* Properties                                                              *)
(***************************************************************************)

\* Behind a completed sync .agents/skills holds the skills that the policy
\* lets through, as their sources are, and nothing else: nothing that is
\* excluded, whatever else speaks for it, and of the rest what is included,
\* built in or marked (skill-classifier.ts 34-94, through plan, removal and
\* write pass).  Left aside are skills that somebody else, or an unfinished
\* run, has touched.
PolicyDecides ==
    "sync" \in last /\ run.at = "idle" =>
        \A n \in Names \ touched :
            agents[n] =
                IF /\ n \in policy.sources /\ n \notin policy.exclude
                   /\ n \in policy.include \cup policy.owned \cup Builtin
                THEN Content(policy, n) ELSE None

\* Without --force-clean nothing goes from .codex/skills, and of the
\* directories in .agents/skills that are no copy of aco's only some that the
\* manifest names: an ordinary sync drops a modified copy only to replace it,
\* never because it is stale, and --clean-duplicates refuses what is
\* unmanifested (sync-engine.ts 565-646, 704-716, skill-transform.ts 92-107).
\* Nothing is said of what came there behind the back of the plan, nor of
\* modified copies that the manifest names: see ModifiedIsKept.
ForeignIsKept ==
    [][\A n \in Names :
           edits' = edits /\ run.option # "forceclean" =>
               /\ n \in codex => n \in codex'
               /\ agents[n] = Own /\ agents'[n] = None
                  /\ run.disturbed # "late" =>
                      /\ n \in NamesOf(Recorded)
                      /\ run.option = "sync" => n \in NamesOf(plan.make)]_vars

\* No provider sees a skill under two names.
Single ==
    \A provider \in Providers, n \in Names :
        Cardinality(Twins(OnDisk(provider), n)) <= 1

\* Behind a passed strict check that is so, also during and behind the syncs
\* that follow, until something is edited or a run is interrupted; and behind
\* a completed --clean-duplicates --force-clean, counting what the run wrote
\* itself, if no skill is of a kind the detector does not know
\* (sync-engine.ts 512-646, duplicate-detector.ts 131-254).
NoneIsSeenTwice ==
    \/ "strict" \in last
    \/ "forceclean" \in last /\ OfOtherKind(policy) = {}
    => Single

(***************************************************************************)
(* A claim of the repository that the code does not keep.                  *)
(***************************************************************************)

\* Clean-up removes a duplicate "automatically only when the manifest records"
\* it "and [its] current hash still matches"; a user-modified one "SHALL
\* require an explicit force-clean option" (openspec/changes/
\* prevent-external-skill-command-duplication/design.md 84).
ModifiedIsKept ==
    [][\A n \in Names :
           /\ edits' = edits /\ run.disturbed = "no"
           /\ run.at = "clean" /\ run.option = "clean"
           => ~(agents[n] = Own /\ agents'[n] = None)]_vars
=============================================================================
