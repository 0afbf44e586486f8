-------------------------- MODULE SyncEngineProofs --------------------------
(***************************************************************************)
(* What SyncEngine establishes for any agents, skills and legacy targets,  *)
(* any texts and any number of edits.                                      *)
(***************************************************************************)
EXTENDS SyncEngine, TLAPS

-----------------------------------------------------------------------------
(***************************************************************************)
(* The inductive invariant, part by part.                                  *)
(***************************************************************************)

\* Only a skill has a second file.
OneFile == \A t \in Assets \ Skills : target[t]["extra"] = None

\* What the run has read, and when: it is current as long as there is no
\* edit, and the manifest is nobody else's.
SourceTexts ==
    [t \in Assets |-> IF t \in Agents \ allowed THEN None
                      ELSE source[t]["main"]]

HasPlan == run.at \in {"decide", "write", "save"}

Reading ==
    /\ run.at # "idle" /\ edits = run.since =>
           seen.text = SourceTexts /\ seen.allowed = allowed
    /\ run.at \in {"plan", "decide", "write"} => known = manifest
    /\ HasPlan => run.since <= plan.at
    /\ run.at # "write" => todo = {} /\ ops = {}

\* A plan is what would be planned now, until there is an edit or a write.
Planning ==
    run.at = "decide" /\ edits = plan.at =>
        \A t \in Assets :
            /\ plan.act[t] = ActionOf(t)
            /\ plan.tree[t] = IF t \in Produced THEN Output(t) ELSE Empty

\* In a run without an edit the plan's trees are the wanted ones, its
\* actions fit them, and what is not to be written is recorded like that.
Fitting ==
    HasPlan /\ edits = run.since =>
        \A t \in Assets :
            /\ plan.tree[t] = Wanted(t)
            /\ plan.act[t] \in {"none", "removed"} <=> Wanted(t) = Empty
            /\ plan.act[t] = "conflict" => t \in Agents

\* The operations under way are of one output, which was taken from the
\* list; nothing is copied into a directory before it is cleared.
Working ==
    /\ \A t \in todo : plan.act[t] \notin {"none", "skipped"}
    /\ \A op \in ops :
           /\ op \in OperationsOf(op.t) /\ op.t \notin todo
           /\ plan.act[op.t] \notin {"none", "skipped"}
           /\ \A other \in ops : other.t = op.t
           /\ op.do = "clear" /\ plan.act[op.t] # "removed" =>
                  All(op.t, "copy") \subseteq ops

Pending(t) == t \in todo \/ \E op \in ops : op.t = t

\* What is still to be removed or overwritten is as it was recorded.
OwnWork ==
    run.at = "write" /\ edits = plan.at =>
        \A t \in Assets :
            /\ Pending(t)
            /\ \/ plan.act[t] = "removed"
               \/ t \in Agents /\ run.mode = "sync" /\ Owned(t)
            => AsRecorded(t)

\* An agent that is wanted is missing or as it should be.
AgentFits(t) == Wanted(t) # Empty => target[t] \in {Empty, Wanted(t)}

\* The agents a run without an edit has dealt with, or leaves alone.
Dealt ==
    run.at \in {"write", "save"} /\ edits = run.since =>
        \A t \in Agents : Pending(t) \/ AgentFits(t)

\* A manifest over which a sync has nothing to do.
Quiet(m) ==
    /\ m \in Manifests
    /\ m.src = SourceTexts
    /\ \A t \in Assets \ Gemini : m.tgt[t] = Wanted(t)
    /\ \A t \in Gemini : m.tgt[t] # Empty => target[t] \notin {Empty, m.tgt[t]}

\* Behind a completed sync or a passed check the next run finds such a
\* manifest, plans nothing, and leaves one behind.
Resting ==
    settled \/ checked =>
        /\ run.at # "idle" => edits = run.since
        /\ run.at # "save" => Quiet(manifest)
        /\ \A t \in Agents : AgentFits(t)
        /\ HasPlan => \A t \in Assets : plan.act[t] \in {"none", "skipped"}

\* Where nobody interferes, targets are as they are recorded; legacy ones
\* may be gone.
AsManifest(t) ==
    IF manifest = NoManifest THEN target[t] = Empty
    ELSE target[t] = manifest.tgt[t] \/ (t \in Legacy /\ target[t] = Empty)

\* File by file, what the operations on t that are done have made of it.
HalfDone(t) ==
    \A f \in Files :
        /\ (\A op \in ops : op.f # f) => target[t][f] = Wanted(t)[f]
        /\ (\E op \in ops : op.f = f /\ op.do = "copy")
           /\ (\A op \in ops : op.f = f => op.do # "clear")
           => target[t][f] = None

Undisturbed ==
    ~disturbed =>
        /\ run.at # "idle" => edits = run.since
        /\ run.at \notin {"write", "save"} => \A t \in Assets : AsManifest(t)
        /\ run.at \in {"write", "save"} =>
               \A t \in Assets :
                   /\ ~Pending(t) => target[t] = Wanted(t)
                   /\ t \in todo /\ plan.act[t] = "created" => target[t] = Empty
                   /\ (\E op \in ops : op.t = t) => HalfDone(t)

IInv ==
    /\ TypeOK
    /\ OneFile
    /\ Reading
    /\ Planning
    /\ Fitting
    /\ Working
    /\ OwnWork
    /\ Dealt
    /\ Resting
    /\ Undisturbed
-----------------------------------------------------------------------------
(***************************************************************************)
(* Trees and what is wanted                                                *)
(***************************************************************************)

\* A file that stands alone.
LEMMA FileFacts ==
    ASSUME NEW text
    PROVE  /\ File(text)["main"] = text /\ File(text)["extra"] = None
           /\ text \in Texts \cup {None} => File(text) \in Sources
           /\ text # None => File(text) # Empty
<1>1. File(text) = [f \in Files |-> IF f = "main" THEN text ELSE None]
  BY DEF File, Empty, Files
<1>2. Empty["main"] = None
  BY DEF Empty, Files
<1>3. QED
  BY <1>1, <1>2 DEF Sources, Files

\* A tree without files.
LEMMA EmptyFacts ==
    Empty \in Sources /\ Empty \in Trees /\ \A f \in Files : Empty[f] = None
  BY DEF Empty, Sources, Trees

\* The trees that are wanted are sources or rendered ones.
LEMMA WantedFacts ==
    ASSUME TypeOK, NEW t \in Assets
    PROVE  /\ Wanted(t) \in Sources
           /\ t \notin Skills => Wanted(t)["extra"] = None
           /\ t \in Legacy => Wanted(t) = Empty
           /\ Wanted(t) = Empty <=> t \notin allowed \/ source[t]["main"] = None
<1>1. source[t] \in Sources /\ source[t]["main"] \in Texts \cup {None}
  BY DEF TypeOK, Sources, Files
<1>2. CASE t \notin allowed \/ source[t]["main"] = None
  BY <1>2, EmptyFacts DEF Wanted, Files
<1>3. CASE t \in allowed /\ source[t]["main"] # None /\ t \in Skills
  <2>1. Wanted(t) = source[t] /\ t \notin Legacy
    BY <1>3, AssetsAssumption DEF Wanted
  <2>2. source[t] # Empty
    BY <1>3, EmptyFacts DEF Files
  <2>3. QED
    BY <1>1, <1>3, <2>1, <2>2
<1>4. CASE t \in allowed /\ source[t]["main"] # None /\ t \notin Skills
  <2>1. t \in Agents /\ t \notin Legacy
    BY <1>4, AssetsAssumption DEF TypeOK
  <2>2. Render[source[t]["main"]] \in Texts
    BY <1>1, <1>4, TextsAssumption
  <2>3. Wanted(t) = File(Render[source[t]["main"]])
    BY <1>4 DEF Wanted
  <2>4. Render[source[t]["main"]] # None
    BY <2>2, TextsAssumption
  <2>5. QED
    BY <1>4, <2>1, <2>2, <2>3, <2>4, FileFacts
<1>5. QED
  BY <1>2, <1>3, <1>4

\* A run that has read what is there plans for what is wanted.
LEMMA ProducedFacts ==
    ASSUME TypeOK, seen.text = SourceTexts, seen.allowed = allowed,
           NEW t \in Assets
    PROVE  /\ t \in Produced <=> Wanted(t) # Empty
           /\ t \in Produced => Output(t) = Wanted(t)
<1>1. t \in allowed => SourceTexts[t] = source[t]["main"]
  BY DEF SourceTexts
<1>2. t \in Produced <=> t \in allowed /\ source[t]["main"] # None
  BY <1>1 DEF Produced
<1>3. allowed \subseteq Agents \cup Skills
  BY DEF TypeOK
<1>4. t \in Produced => Output(t) = Wanted(t)
  BY <1>1, <1>2, <1>3, AssetsAssumption DEF Output, Wanted
<1>5. QED
  BY <1>2, <1>4, WantedFacts

\* What an output is, whatever has been read.
LEMMA OutputFacts ==
    ASSUME TypeOK, NEW t \in Produced
    PROVE  t \in Agents \cup Skills /\ t \in Assets /\ Output(t) \in Sources
<1>1. t \in Agents \cup Skills /\ t \in Assets
  BY DEF Produced, TypeOK, Assets
<1>2. seen.text[t] \in Texts
  BY <1>1 DEF Produced, TypeOK
<1>3. File(Render[seen.text[t]]) \in Sources
  BY <1>2, FileFacts, TextsAssumption
<1>4. source[t] \in Sources
  BY <1>1 DEF TypeOK
<1>5. QED
  BY <1>1, <1>3, <1>4 DEF Output

\* The operations on an output are operations, on it, on files it has.
LEMMA OperationsFacts ==
    ASSUME NEW t \in Assets, NEW op \in OperationsOf(t)
    PROVE  /\ op \in Operations /\ op.t = t /\ HasFile(t, op.f)
           /\ op.do = "clear" /\ t \in Agents => plan.act[t] = "removed"
           /\ op.do = "write" => t \in Agents /\ plan.act[t] # "removed"
           /\ op.do = "copy" => t \notin Agents /\ plan.act[t] # "removed"
  BY DEF OperationsOf, All, Operations, Files
-----------------------------------------------------------------------------
(***************************************************************************)
(* Types                                                                   *)
(***************************************************************************)

\* A run that is over keeps nothing of what it read.
LEMMA LeaveTypes ==
    ASSUME Leave
    PROVE  /\ run' \in [at: {"idle"}, mode: Modes, since: {0}]
           /\ seen' = NothingSeen /\ known' = NoManifest
           /\ plan' = NoPlan /\ todo' = {} /\ ops' = {}
           /\ seen' \in [text: [Assets -> Texts \cup {None}],
                         allowed: SUBSET (Agents \cup Skills)]
           /\ plan' \in [act: [Assets -> Acts], tree: [Assets -> Sources], at: {0}]
  BY EmptyFacts DEF Leave, NoRun, NothingSeen, NoPlan, Modes, Acts

\* Files of targets change one at a time.
LEMMA TargetType ==
    ASSUME TypeOK, NEW t \in Assets, NEW f \in Files,
           NEW text \in Texts \cup {None, Torn},
           target' = [target EXCEPT ![t][f] = text]
    PROVE  target' \in [Assets -> Trees]
<1>1. target \in [Assets -> Trees] /\ target[t] \in Trees
  BY DEF TypeOK
<1>2. [target[t] EXCEPT ![f] = text] \in Trees
  BY <1>1 DEF Trees
<1>3. target' = [target EXCEPT ![t] = [target[t] EXCEPT ![f] = text]]
  OBVIOUS
<1>4. QED
  BY <1>1, <1>2, <1>3

\* Every step of the user preserves the types.
LEMMA UserTypes ==
    ASSUME TypeOK, User
    PROVE  TypeOK'
<1>1. ASSUME NEW onTarget \in BOOLEAN, Edited(onTarget)
      PROVE  /\ edits' \in 0..MaxEdits
             /\ run' \in [at: {"idle", "manifest", "plan", "decide", "write", "save"},
                          mode: Modes, since: 0..edits']
             /\ plan' \in [act: [Assets -> Acts], tree: [Assets -> Sources],
                           at: 0..edits']
             /\ manifest' \in Manifests \cup {NoManifest}
             /\ seen' \in [text: [Assets -> Texts \cup {None}],
                           allowed: SUBSET (Agents \cup Skills)]
             /\ known' \in Manifests \cup {NoManifest}
             /\ todo' \in SUBSET Assets /\ ops' \in SUBSET Operations
             /\ settled' \in BOOLEAN /\ checked' \in BOOLEAN
             /\ disturbed' \in BOOLEAN
  <2>1. /\ edits' \in 0..MaxEdits
        /\ 0..edits \subseteq 0..edits'
    BY <1>1, BoundsAssumption DEF Edited, TypeOK
  <2>2. /\ run' = run /\ plan' = plan /\ manifest' = manifest
        /\ UNCHANGED <<seen, known, todo, ops>>
        /\ settled' \in BOOLEAN /\ checked' \in BOOLEAN
    BY <1>1 DEF Edited, readVars, workVars
  <2>3. disturbed' \in BOOLEAN
    BY <1>1 DEF Edited, TypeOK
  <2>4. run' \in [at: {"idle", "manifest", "plan", "decide", "write", "save"},
                  mode: Modes, since: 0..edits']
    BY <2>1, <2>2 DEF TypeOK
  <2>5. plan' \in [act: [Assets -> Acts], tree: [Assets -> Sources], at: 0..edits']
    BY <2>1, <2>2 DEF TypeOK
  <2>6. QED
    BY <2>1, <2>2, <2>3, <2>4, <2>5 DEF TypeOK
<1>2. ASSUME NEW t \in Assets, EditConfig(t)
      PROVE  TypeOK'
  <2>1. /\ allowed' \in SUBSET (Agents \cup Skills)
        /\ source' = source /\ target' = target
    BY <1>2 DEF EditConfig, TypeOK, Assets
  <2>2. QED
    BY <2>1, <1>1, <1>2 DEF EditConfig, TypeOK
<1>3. ASSUME NEW t \in Assets, NEW f \in Files, EditSource(t, f)
      PROVE  TypeOK'
  <2>1. PICK text \in Texts \cup {None} : source' = [source EXCEPT ![t][f] = text]
    BY <1>3 DEF EditSource
  <2>2. source \in [Assets -> Sources] /\ source[t] \in Sources
    BY DEF TypeOK
  <2>3. [source[t] EXCEPT ![f] = text] \in Sources
    BY <2>2 DEF Sources
  <2>4. source' = [source EXCEPT ![t] = [source[t] EXCEPT ![f] = text]]
    BY <2>1
  <2>5. source' \in [Assets -> Sources]
    BY <2>2, <2>3, <2>4
  <2>6. QED
    BY <2>5, <1>1, <1>3 DEF EditSource, TypeOK
<1>4. ASSUME NEW t \in Assets, NEW f \in Files, EditTarget(t, f)
      PROVE  TypeOK'
  <2>1. PICK text \in Texts \cup {None} : target' = [target EXCEPT ![t][f] = text]
    BY <1>4 DEF EditTarget
  <2>2. target' \in [Assets -> Trees]
    BY <2>1, TargetType
  <2>3. QED
    BY <2>2, <1>1, <1>4 DEF EditTarget, TypeOK
<1>5. QED
  BY <1>2, <1>3, <1>4 DEF User

\* Every step of a run preserves the types.
LEMMA EngineTypes ==
    ASSUME TypeOK, Engine
    PROVE  TypeOK'
<1> USE DEF userVars, diskVars, readVars, workVars, historyVars
<1>1. ASSUME NEW mode \in Modes, Discover(mode)
      PROVE  TypeOK'
  <2>1. seen' \in [text: [Assets -> Texts \cup {None}],
                   allowed: SUBSET (Agents \cup Skills)]
    <3>1. \A t \in Assets : source[t]["main"] \in Texts \cup {None}
      BY DEF TypeOK, Sources, Files
    <3>2. QED
      BY <1>1, <3>1 DEF Discover, TypeOK
  <2>2. run' \in [at: {"manifest"}, mode: Modes, since: 0..edits]
    BY <1>1 DEF Discover, TypeOK
  <2>3. QED
    BY <1>1, <2>1, <2>2 DEF Discover, TypeOK
<1>2. CASE ReadManifest
  BY <1>2 DEF ReadManifest, TypeOK
<1>3. CASE NoSources \/ PlanThrows \/ CheckPasses \/ CheckFails \/ Refuse
  <2>1. /\ Leave
        /\ UNCHANGED <<source, allowed, edits, target, manifest>>
        /\ settled' \in BOOLEAN /\ checked' \in BOOLEAN /\ disturbed' \in BOOLEAN
    BY <1>3 DEF NoSources, PlanThrows, CheckPasses, CheckFails, Refuse, TypeOK
  <2>2. QED
    BY <2>1, LeaveTypes DEF TypeOK
<1>4. CASE ComputePlan
  <2>1. \A t \in Assets : ActionOf(t) \in Acts
    BY DEF ActionOf, Acts
  <2>2. \A t \in Assets : (IF t \in Produced THEN Output(t) ELSE Empty) \in Sources
    BY OutputFacts, EmptyFacts
  <2>3. plan' \in [act: [Assets -> Acts], tree: [Assets -> Sources], at: 0..edits]
    BY <1>4, <2>1, <2>2 DEF ComputePlan, TypeOK
  <2>4. run' \in [at: {"decide"}, mode: Modes, since: 0..edits]
    BY <1>4 DEF ComputePlan, TypeOK
  <2>5. QED
    BY <1>4, <2>3, <2>4 DEF ComputePlan, TypeOK
<1>5. CASE Proceed
  BY <1>5 DEF Proceed, TypeOK
<1>6. ASSUME NEW t \in todo, NextOutput(t)
      PROVE  TypeOK'
  <2>1. t \in Assets
    BY DEF TypeOK
  <2>2. OperationsOf(t) \in SUBSET Operations
    BY <2>1, OperationsFacts
  <2>3. QED
    BY <1>6, <2>2 DEF NextOutput, TypeOK
<1>7. ASSUME NEW op \in ops, Clear(op) \/ ClearFails(op) \/ Copy(op) \/ WriteFile(op)
      PROVE  TypeOK'
  <2>1. op.t \in Assets /\ op.f \in Files /\ op \in Operations
    BY DEF TypeOK, Operations
  <2>2. /\ source[op.t][op.f] \in Texts \cup {None}
        /\ plan.tree[op.t][op.f] \in Texts \cup {None}
    BY <2>1 DEF TypeOK, Sources
  <2>3. target' \in [Assets -> Trees]
    <3>1. CASE Clear(op)
      BY <3>1, <2>1, TargetType DEF Clear
    <3>2. CASE ClearFails(op)
      BY <3>2 DEF ClearFails, TypeOK
    <3>3. CASE Copy(op)
      BY <3>3, <2>1, <2>2, TargetType DEF Copy, TypeOK
    <3>4. CASE WriteFile(op)
      BY <3>4, <2>1, <2>2, TargetType DEF WriteFile
    <3>5. QED
      BY <1>7, <3>1, <3>2, <3>3, <3>4
  <2>4. /\ UNCHANGED <<source, allowed, edits, manifest, run, plan, seen, known, todo>>
        /\ ops' \in SUBSET Operations
        /\ settled' \in BOOLEAN /\ checked' \in BOOLEAN /\ disturbed' \in BOOLEAN
    BY <1>7 DEF Clear, ClearFails, Copy, WriteFile, TypeOK
  <2>5. QED
    BY <2>3, <2>4 DEF TypeOK
<1>8. CASE OpenManifest
  BY <1>8 DEF OpenManifest, TypeOK
<1>9. CASE WriteManifest
  <2>1. manifest' \in Manifests
    BY <1>9 DEF WriteManifest, NewManifest, Manifests, TypeOK
  <2>2. QED
    BY <1>9, <2>1, LeaveTypes DEF WriteManifest, TypeOK
<1>10. CASE Stop
  <2>1. target' \in [Assets -> Trees]
    <3>1. CASE UNCHANGED target
      BY <3>1 DEF TypeOK
    <3>2. ASSUME NEW op \in ops, target' = [target EXCEPT ![op.t][op.f] = Torn]
          PROVE  target' \in [Assets -> Trees]
      <4>1. op.t \in Assets /\ op.f \in Files
        BY DEF TypeOK, Operations
      <4>2. QED
        BY <4>1, <3>2, TargetType
    <3>3. QED
      BY <1>10, <3>1, <3>2 DEF Stop
  <2>2. /\ Leave
        /\ UNCHANGED <<source, allowed, edits, manifest>>
        /\ settled' \in BOOLEAN /\ checked' \in BOOLEAN /\ disturbed' \in BOOLEAN
    BY <1>10 DEF Stop
  <2>3. QED
    BY <2>1, <2>2, LeaveTypes DEF TypeOK
<1>11. QED
  BY <1>1, <1>2, <1>3, <1>4, <1>5, <1>6, <1>7, <1>8, <1>9, <1>10 DEF Engine
-----------------------------------------------------------------------------
(***************************************************************************)
(* The invariant is inductive                                              *)
(***************************************************************************)

\* The times a run keeps are not in the future.
LEMMA Times ==
    ASSUME TypeOK
    PROVE  /\ edits \in Nat /\ run.since \in 0..edits /\ plan.at \in 0..edits
           /\ run.since \in Nat /\ plan.at \in Nat
  BY BoundsAssumption DEF TypeOK

\* An edit outdates whatever a run knows, and is remembered.
LEMMA UserKeeps ==
    ASSUME IInv, User
    PROVE  IInv'
<1> USE DEF IInv
<1>1. TypeOK'
  BY UserTypes
<1>2. /\ edits' = edits + 1
      /\ UNCHANGED <<manifest, run, plan, seen, known, todo, ops>>
      /\ ~settled' /\ ~checked'
      /\ ~disturbed' => ~disturbed /\ run.at = "idle" /\ target' = target
  <2>1. ASSUME NEW onTarget \in BOOLEAN, Edited(onTarget)
        PROVE  /\ edits' = edits + 1
               /\ UNCHANGED <<manifest, run, plan, seen, known, todo, ops>>
               /\ ~settled' /\ ~checked'
               /\ ~disturbed' => ~disturbed /\ run.at = "idle" /\ ~onTarget
    BY <2>1 DEF Edited, readVars, workVars
  <2>2. ASSUME NEW t \in Assets, EditConfig(t)
        PROVE  Edited(FALSE) /\ target' = target
    BY <2>2 DEF EditConfig
  <2>3. ASSUME NEW t \in Assets, NEW f \in Files, EditSource(t, f)
        PROVE  Edited(FALSE) /\ target' = target
    BY <2>3 DEF EditSource
  <2>4. ASSUME NEW t \in Assets, NEW f \in Files, EditTarget(t, f)
        PROVE  Edited(TRUE)
    BY <2>4 DEF EditTarget
  <2>5. QED
    BY <2>1, <2>2, <2>3, <2>4 DEF User
<1>3. /\ edits' \in Nat /\ run'.since \in Nat /\ plan'.at \in Nat
      /\ edits' # run'.since /\ edits' # plan'.at
  BY <1>2, Times
<1>4. OneFile'
  <2>1. ASSUME NEW t \in Assets, NEW f \in Files, EditTarget(t, f)
        PROVE  OneFile'
    <3>1. PICK text \in Texts \cup {None} : target' = [target EXCEPT ![t][f] = text]
      BY <2>1 DEF EditTarget
    <3>2. t \in Skills \/ f = "main"
      BY <2>1 DEF EditTarget, HasFile
    <3>3. target \in [Assets -> Trees]
      BY DEF TypeOK
    <3>4. QED
      BY <3>1, <3>2, <3>3 DEF OneFile, Trees, Files
  <2>2. CASE target' = target
    BY <2>2 DEF OneFile
  <2>3. QED
    BY <2>1, <2>2 DEF User, EditConfig, EditSource
<1>5. Reading'
  BY <1>2, <1>3 DEF Reading, HasPlan
<1>6. Planning' /\ Fitting' /\ OwnWork' /\ Dealt'
  BY <1>3 DEF Planning, Fitting, OwnWork, Dealt
<1>7. Working'
  BY <1>2 DEF Working, OperationsOf
<1>8. Resting'
  BY <1>2 DEF Resting
<1>9. Undisturbed'
  BY <1>2 DEF Undisturbed, AsManifest
<1>10. QED
  BY <1>1, <1>4, <1>5, <1>6, <1>7, <1>8, <1>9

\* What is wanted, and what is read, depends on sources and configuration.
LEMMA SameWanted ==
    ASSUME UNCHANGED userVars
    PROVE  /\ \A t : Wanted(t)' = Wanted(t)
           /\ SourceTexts' = SourceTexts
  BY DEF userVars, Wanted, SourceTexts

\* A run that leaves before it has written anything leaves all in order, if
\* it claims no more than was known.
LEMMA LeaveKeeps ==
    ASSUME IInv, TypeOK', Leave, UNCHANGED userVars, UNCHANGED diskVars,
           UNCHANGED disturbed, run.at \notin {"write", "save"},
           settled' \/ checked' =>
               Quiet(manifest) /\ \A t \in Agents : AgentFits(t)
    PROVE  IInv'
<1> USE DEF IInv
<1>1. /\ run'.at = "idle" /\ todo' = {} /\ ops' = {}
      /\ target' = target /\ manifest' = manifest
  BY DEF Leave, NoRun, diskVars
<1>2. OneFile'
  BY <1>1 DEF OneFile
<1>3. Reading' /\ Planning' /\ Fitting' /\ Working' /\ OwnWork' /\ Dealt'
  BY <1>1 DEF Reading, Planning, Fitting, Working, OwnWork, Dealt, HasPlan
<1>4. Resting'
  <2>1. Quiet(manifest) => Quiet(manifest)'
    BY <1>1, SameWanted DEF Quiet
  <2>2. \A t \in Agents : AgentFits(t) => AgentFits(t)'
    BY <1>1, SameWanted DEF AgentFits
  <2>3. QED
    BY <1>1, <2>1, <2>2 DEF Resting, HasPlan
<1>5. Undisturbed'
  BY <1>1 DEF Undisturbed, AsManifest
<1>6. QED
  BY <1>2, <1>3, <1>4, <1>5

\* A check that passes has found a manifest over which there is nothing to do.
LEMMA PassedIsQuiet ==
    ASSUME IInv, CheckPasses, edits = run.since
    PROVE  Quiet(manifest) /\ \A t \in Agents : AgentFits(t)
<1> USE DEF IInv
<1>1. /\ run.at = "decide" /\ Migrated(known) = NewManifest
      /\ \A t \in Assets : plan.act[t] \notin {"conflict", "removed"}
      /\ known = manifest
  BY DEF CheckPasses, Outdated, Drift, Planned, Reading
<1>2. /\ edits = plan.at
      /\ seen.text = SourceTexts /\ seen.allowed = allowed
  BY <1>1, Times DEF Reading, HasPlan
<1>3. NewManifest \in Manifests /\ manifest \in Manifests
  <2>1. NewManifest \in Manifests
    BY DEF NewManifest, Manifests, TypeOK
  <2>2. known # NoManifest
    BY <1>1, <2>1, ManifestAssumption DEF Migrated
  <2>3. QED
    BY <1>1, <2>1, <2>2 DEF TypeOK
<1>4. /\ manifest.src = SourceTexts
      /\ \A t \in Assets \ Gemini : manifest.tgt[t] = Wanted(t)
  <2>1. known # NoManifest
    BY <1>1, <1>3, ManifestAssumption
  <2>2. /\ Migrated(known).src = known.src
        /\ \A t \in Assets \ Gemini : Migrated(known).tgt[t] = known.tgt[t]
    BY <2>1, <1>1, <1>3 DEF Migrated, Manifests
  <2>3. NewManifest.src = SourceTexts /\ NewManifest.tgt = plan.tree
    BY <1>2 DEF NewManifest
  <2>4. \A t \in Assets : plan.tree[t] = Wanted(t)
    BY <1>1, <1>2, Times DEF Fitting, HasPlan
  <2>5. QED
    BY <1>1, <2>2, <2>3, <2>4
<1>5. \A t \in Assets : t \notin Conflicts /\ t \notin Stale
  BY <1>1, <1>2 DEF Planning, ActionOf
<1>6. ASSUME NEW t \in Gemini, manifest.tgt[t] # Empty
      PROVE  target[t] \notin {Empty, manifest.tgt[t]}
  <2>1. t \in Assets /\ t \in Legacy
    BY DEF Assets, Legacy
  <2>2. t \notin Produced
    BY <2>1, AssetsAssumption DEF Produced, TypeOK
  <2>3. Recorded(t) = manifest.tgt[t]
    BY <1>1, <1>3, ManifestAssumption DEF Recorded
  <2>4. QED
    BY <1>5, <1>6, <2>1, <2>2, <2>3 DEF Stale, Owned
<1>7. ASSUME NEW t \in Agents, Wanted(t) # Empty
      PROVE  target[t] \in {Empty, Wanted(t)}
  <2>1. t \in Assets /\ t \notin Gemini
    BY AssetsAssumption DEF Assets, Legacy
  <2>2. Recorded(t) = Wanted(t)
    BY <1>1, <1>3, <1>4, <2>1, ManifestAssumption DEF Recorded
  <2>3. t \in Produced
    BY <1>2, <1>7, <2>1, ProducedFacts
  <2>4. QED
    BY <1>5, <1>7, <2>1, <2>2, <2>3 DEF Conflicts, Owned
<1>8. QED
  BY <1>3, <1>4, <1>6, <1>7 DEF Quiet, AgentFits

\* Reading changes nothing, and what has been read is current.
LEMMA ReadingKeeps ==
    ASSUME IInv, TypeOK', (\E mode \in Modes : Discover(mode)) \/ ReadManifest
    PROVE  IInv'
<1> USE DEF IInv
<1>1. /\ UNCHANGED userVars /\ UNCHANGED diskVars
      /\ UNCHANGED workVars /\ UNCHANGED historyVars
      /\ run.at \in {"idle", "manifest"} /\ run'.at \in {"manifest", "plan"}
      /\ run.at # "idle" => run'.since = run.since /\ seen' = seen
      /\ run.at = "idle" => /\ run'.since = edits /\ run'.at = "manifest"
                            /\ seen'.text = SourceTexts
                            /\ seen'.allowed = allowed
      /\ run'.at = "plan" => known' = manifest
  BY DEF Discover, ReadManifest, SourceTexts, TypeOK
<1>2. OneFile'
  BY <1>1 DEF OneFile, diskVars
<1>3. Reading'
  BY <1>1, SameWanted DEF Reading, HasPlan, userVars, diskVars, workVars
<1>4. Planning' /\ Fitting' /\ OwnWork' /\ Dealt'
  BY <1>1 DEF Planning, Fitting, OwnWork, Dealt, HasPlan
<1>5. Working'
  BY <1>1 DEF Working, Reading, workVars
<1>6. Resting'
  <2>1. Quiet(manifest) => Quiet(manifest)'
    BY <1>1, SameWanted DEF Quiet, diskVars
  <2>2. \A t \in Agents : AgentFits(t) => AgentFits(t)'
    BY <1>1, SameWanted DEF AgentFits, diskVars
  <2>3. QED
    BY <1>1, <2>1, <2>2 DEF Resting, HasPlan, userVars, historyVars
<1>7. Undisturbed'
  BY <1>1 DEF Undisturbed, AsManifest, userVars, diskVars, historyVars
<1>8. QED
  BY <1>2, <1>3, <1>4, <1>5, <1>6, <1>7

\* The plan of a run that nobody has disturbed says what to do about what is
\* wanted and what is not.
LEMMA ActionFacts ==
    ASSUME TypeOK, seen.text = SourceTexts, seen.allowed = allowed,
           NEW t \in Assets
    PROVE  /\ ActionOf(t) \in {"none", "removed"} <=> Wanted(t) = Empty
           /\ ActionOf(t) = "conflict" => t \in Agents
  BY ProducedFacts DEF ActionOf, Conflicts, Stale

\* Over a quiet manifest nothing is planned.
LEMMA QuietPlansNothing ==
    ASSUME TypeOK, seen.text = SourceTexts, seen.allowed = allowed,
           known = manifest, Quiet(manifest), \A t \in Agents : AgentFits(t),
           NEW t \in Assets
    PROVE  ActionOf(t) \in {"none", "skipped"}
<1>1. Recorded(t) = manifest.tgt[t]
  BY ManifestAssumption DEF Recorded, Quiet
<1>2. CASE t \in Gemini
  <2>1. t \notin Produced /\ t \in Legacy
    BY <1>2, AssetsAssumption DEF Produced, TypeOK, Legacy
  <2>2. t \notin Stale
    BY <1>1, <1>2, <2>1 DEF Quiet, Stale, Owned
  <2>3. QED
    BY <2>1, <2>2 DEF ActionOf, Conflicts
<1>3. CASE t \notin Gemini
  <2>1. Recorded(t) = Wanted(t)
    BY <1>1, <1>3 DEF Quiet
  <2>2. CASE t \in Produced
    <3>1. Output(t) = Wanted(t) /\ Wanted(t) # Empty
      BY <2>2, ProducedFacts
    <3>2. t \notin Conflicts /\ t \notin Stale
      BY <2>1, <2>2, <3>1 DEF Conflicts, Stale, Owned, AgentFits
    <3>3. QED
      BY <2>1, <2>2, <3>1, <3>2 DEF ActionOf, Owned
  <2>3. CASE t \notin Produced
    <3>1. Wanted(t) = Empty
      BY <2>3, ProducedFacts
    <3>2. t \notin Stale /\ t \notin Conflicts
      BY <2>1, <2>3, <3>1 DEF Stale, Owned, Conflicts
    <3>3. QED
      BY <2>3, <3>2 DEF ActionOf
  <2>4. QED
    BY <2>2, <2>3
<1>4. QED
  BY <1>2, <1>3

\* A plan fits what it was made from.
LEMMA PlanKeeps ==
    ASSUME IInv, TypeOK', ComputePlan
    PROVE  IInv'
<1> USE DEF IInv
<1>1. /\ UNCHANGED userVars /\ UNCHANGED diskVars /\ UNCHANGED readVars
      /\ UNCHANGED workVars /\ UNCHANGED historyVars
      /\ run.at = "plan" /\ run'.at = "decide" /\ run'.since = run.since
      /\ plan'.at = edits
      /\ \A t \in Assets :
             /\ plan'.act[t] = ActionOf(t)
             /\ plan'.tree[t] = IF t \in Produced THEN Output(t) ELSE Empty
  BY DEF ComputePlan, TypeOK
<1>2. \A t \in Assets : /\ ActionOf(t)' = ActionOf(t)
                        /\ t \in Produced' <=> t \in Produced
                        /\ Output(t)' = Output(t)
  BY <1>1 DEF ActionOf, Conflicts, Stale, Produced, Output, Owned, Recorded,
         userVars, diskVars, readVars
<1>3. OneFile'
  BY <1>1 DEF OneFile, diskVars
<1>4. Reading'
  BY <1>1, SameWanted, Times
  DEF Reading, HasPlan, userVars, diskVars, workVars, readVars
<1>5. Planning'
  BY <1>1, <1>2 DEF Planning
<1>6. Fitting'
  <2>1. SUFFICES ASSUME edits = run.since, NEW t \in Assets
                 PROVE  /\ plan'.tree[t] = Wanted(t)
                        /\ plan'.act[t] \in {"none", "removed"} <=> Wanted(t) = Empty
                        /\ plan'.act[t] = "conflict" => t \in Agents
    BY <1>1, SameWanted DEF Fitting, userVars
  <2>2. seen.text = SourceTexts /\ seen.allowed = allowed
    BY <1>1, <2>1 DEF Reading
  <2>3. QED
    BY <1>1, <2>2, ProducedFacts, ActionFacts
<1>7. OwnWork' /\ Dealt'
  BY <1>1 DEF OwnWork, Dealt
<1>8. Working'
  BY <1>1 DEF Working, Reading, workVars
<1>9. Resting'
  <2>1. Quiet(manifest) => Quiet(manifest)'
    BY <1>1, SameWanted DEF Quiet, diskVars
  <2>2. \A t \in Agents : AgentFits(t) => AgentFits(t)'
    BY <1>1, SameWanted DEF AgentFits, diskVars
  <2>3. ASSUME settled \/ checked, NEW t \in Assets
        PROVE  plan'.act[t] \in {"none", "skipped"}
    <3>1. seen.text = SourceTexts /\ seen.allowed = allowed /\ known = manifest
      BY <1>1, <2>3 DEF Resting, Reading
    <3>2. Quiet(manifest) /\ \A a \in Agents : AgentFits(a)
      BY <1>1, <2>3 DEF Resting
    <3>3. QED
      BY <1>1, <3>1, <3>2, QuietPlansNothing
  <2>4. QED
    BY <1>1, <2>1, <2>2, <2>3 DEF Resting, userVars, historyVars
<1>10. Undisturbed'
  BY <1>1 DEF Undisturbed, AsManifest, userVars, diskVars, historyVars
<1>11. QED
  BY <1>3, <1>4, <1>5, <1>6, <1>7, <1>8, <1>9, <1>10

\* What is not to be written without interference is as it should be, and
\* what is to be created is not there.
LEMMA UndisturbedPlan ==
    ASSUME IInv, ~disturbed, run.at = "decide", NEW t \in Assets
    PROVE  /\ plan.act[t] \in {"none", "skipped"} => target[t] = Wanted(t)
           /\ plan.act[t] = "created" => target[t] = Empty
<1> USE DEF IInv
<1>1. edits = run.since /\ AsManifest(t)
  BY DEF Undisturbed
<1>2. /\ edits = plan.at /\ seen.text = SourceTexts
      /\ seen.allowed = allowed /\ known = manifest
  BY <1>1, Times DEF Reading, HasPlan
<1>3. plan.act[t] = ActionOf(t)
  BY <1>2 DEF Planning
<1>4. /\ t \in Produced <=> Wanted(t) # Empty
      /\ t \in Produced => Output(t) = Wanted(t)
  BY <1>2, ProducedFacts
<1>5. target[t] = Recorded(t) \/ (t \in Legacy /\ target[t] = Empty)
  BY <1>1, <1>2 DEF AsManifest, Recorded
<1>6. CASE ActionOf(t) = "none"
  <2>1. t \notin Produced /\ t \notin Stale
    BY <1>6 DEF ActionOf
  <2>2. ~Owned(t)
    BY <1>5, <2>1 DEF Stale
  <2>3. QED
    BY <1>3, <1>4, <1>5, <1>6, <2>1, <2>2 DEF Owned
<1>7. CASE ActionOf(t) = "skipped"
  <2>1. t \in Produced /\ Recorded(t) = Output(t)
    BY <1>7 DEF ActionOf
  <2>2. t \notin Legacy
    BY <2>1, OutputFacts, AssetsAssumption
  <2>3. QED
    BY <1>3, <1>4, <1>5, <1>7, <2>1, <2>2
<1>8. CASE ActionOf(t) = "created"
  BY <1>3, <1>5, <1>8 DEF ActionOf, Owned
<1>9. QED
  BY <1>3, <1>6, <1>7, <1>8

\* Between the decision and the first write nothing has changed.
LEMMA ProceedKeeps ==
    ASSUME IInv, TypeOK', Proceed
    PROVE  IInv'
<1> USE DEF IInv
<1>1. /\ UNCHANGED userVars /\ UNCHANGED diskVars /\ UNCHANGED readVars
      /\ UNCHANGED historyVars /\ plan' = plan /\ ops' = ops /\ ops = {}
      /\ run.at = "decide" /\ run'.at = "write"
      /\ run'.since = run.since /\ run'.mode = run.mode
      /\ run.mode = "sync" => \A t \in Assets : plan.act[t] # "conflict"
      /\ todo' = {t \in Assets : plan.act[t] \notin {"none", "skipped"}}
  BY DEF Proceed, Planned, TypeOK, Reading
<1>2. \A t \in Assets : Pending(t)' <=> plan.act[t] \notin {"none", "skipped"}
  BY <1>1 DEF Pending
<1>3. OneFile'
  BY <1>1 DEF OneFile, diskVars
<1>4. Reading'
  BY <1>1, SameWanted DEF Reading, HasPlan, userVars, diskVars, readVars
<1>5. Planning'
  BY <1>1 DEF Planning
<1>6. Fitting'
  BY <1>1, SameWanted DEF Fitting, HasPlan, userVars
<1>7. Working'
  BY <1>1 DEF Working
<1>8. OwnWork'
  <2>1. SUFFICES ASSUME edits = plan.at, NEW t \in Assets,
                        plan.act[t] \notin {"none", "skipped"},
                        \/ plan.act[t] = "removed"
                        \/ t \in Agents /\ run.mode = "sync" /\ Owned(t)
                 PROVE  AsRecorded(t)
    BY <1>1, <1>2
    DEF OwnWork, AsRecorded, Owned, Recorded, userVars, diskVars, readVars
  <2>2. plan.act[t] = ActionOf(t)
    BY <1>1, <2>1 DEF Planning
  <2>3. target[t] \in {Empty, Recorded(t)}
    <3>1. CASE plan.act[t] = "removed"
      BY <2>2, <3>1 DEF ActionOf, Stale
    <3>2. CASE plan.act[t] # "removed"
      <4>1. t \in Produced \cap Agents /\ Owned(t)
        BY <2>1, <2>2, <3>2 DEF ActionOf, Conflicts
      <4>2. t \notin Conflicts
        BY <1>1, <2>1, <2>2, <3>2 DEF ActionOf
      <4>3. QED
        BY <4>1, <4>2 DEF Conflicts
    <3>3. QED
      BY <3>1, <3>2
  <2>4. QED
    BY <2>3, EmptyFacts DEF AsRecorded
<1>9. Dealt'
  <2>1. SUFFICES ASSUME edits = run.since, NEW t \in Agents,
                        plan.act[t] \in {"none", "skipped"},
                        Wanted(t) # Empty
                 PROVE  target[t] \in {Empty, Wanted(t)}
    <3>1. Agents \subseteq Assets
      BY DEF Assets
    <3>2. QED
      BY <1>1, <1>2, <3>1, SameWanted DEF Dealt, AgentFits, userVars, diskVars
  <2>2. t \in Assets
    BY DEF Assets
  <2>3. /\ edits = plan.at /\ seen.text = SourceTexts /\ seen.allowed = allowed
    BY <1>1, <2>1, Times DEF Reading, HasPlan
  <2>4. plan.act[t] = ActionOf(t) /\ t \in Produced /\ Output(t) = Wanted(t)
    BY <1>1, <2>1, <2>2, <2>3, ProducedFacts DEF Planning
  <2>5. t \notin Conflicts /\ Owned(t) /\ Recorded(t) = Wanted(t)
    BY <2>1, <2>4 DEF ActionOf, Conflicts
  <2>6. QED
    BY <2>1, <2>4, <2>5 DEF Conflicts
<1>10. Resting'
  <2>1. Quiet(manifest) => Quiet(manifest)'
    BY <1>1, SameWanted DEF Quiet, diskVars
  <2>2. \A t \in Agents : AgentFits(t) => AgentFits(t)'
    BY <1>1, SameWanted DEF AgentFits, diskVars
  <2>3. QED
    BY <1>1, <2>1, <2>2 DEF Resting, HasPlan, userVars, historyVars
<1>11. Undisturbed'
  <2>1. SUFFICES ASSUME ~disturbed
                 PROVE  Undisturbed'
    BY <1>1 DEF Undisturbed, historyVars
  <2>2. edits = run.since
    BY <1>1, <2>1 DEF Undisturbed
  <2>3. ASSUME NEW t \in Assets
        PROVE  /\ ~Pending(t)' => target[t] = Wanted(t)
               /\ t \in todo' /\ plan.act[t] = "created" => target[t] = Empty
               /\ ~\E op \in ops' : op.t = t
    BY <1>1, <1>2, <2>1, UndisturbedPlan
  <2>4. QED
    BY <1>1, <2>2, <2>3, SameWanted DEF Undisturbed, userVars, diskVars
<1>12. QED
  BY <1>3, <1>4, <1>5, <1>6, <1>7, <1>8, <1>9, <1>10, <1>11

\* An output is taken from the list, with all its operations.
LEMMA TakeKeeps ==
    ASSUME IInv, TypeOK', NEW t \in todo, NextOutput(t)
    PROVE  IInv'
<1> USE DEF IInv
<1>1. /\ UNCHANGED userVars /\ UNCHANGED diskVars /\ UNCHANGED readVars
      /\ UNCHANGED historyVars /\ UNCHANGED <<run, plan>>
      /\ run.at = "write" /\ ops = {} /\ t \in Assets
      /\ todo' = todo \ {t} /\ ops' = OperationsOf(t)
  BY DEF NextOutput, TypeOK
<1>2. \A op \in ops' : op.t = t
  BY <1>1, OperationsFacts
<1>3. \E op \in ops' : op.t = t
  <2>1. PICK do \in {"clear", "copy", "write"} : All(t, do) \subseteq OperationsOf(t)
    BY DEF OperationsOf
  <2>2. [t |-> t, f |-> "main", do |-> do] \in All(t, do)
    BY DEF All, HasFile, Files
  <2>3. QED
    BY <1>1, <2>1, <2>2
<1>4. \A u \in Assets : Pending(u)' <=> Pending(u)
  BY <1>1, <1>2, <1>3 DEF Pending
<1>5. ~settled /\ ~checked
  BY <1>1 DEF Resting, HasPlan, Working
<1>6. OneFile' /\ Planning'
  BY <1>1 DEF OneFile, Planning, diskVars
<1>7. Reading'
  BY <1>1, SameWanted DEF Reading, HasPlan, userVars, diskVars, readVars
<1>8. Fitting'
  BY <1>1, SameWanted DEF Fitting, HasPlan, userVars
<1>9. Working'
  <2>1. plan.act[t] \notin {"none", "skipped"}
    BY DEF Working
  <2>2. ASSUME NEW op \in ops', op.do = "clear", plan.act[t] # "removed"
        PROVE  All(t, "copy") \subseteq ops'
    BY <1>1, <2>2, OperationsFacts DEF OperationsOf, All
  <2>3. OperationsOf(t)' = OperationsOf(t)
    BY <1>1 DEF OperationsOf
  <2>4. \A u \in todo' : plan'.act[u] \notin {"none", "skipped"}
    BY <1>1 DEF Working
  <2>5. All(t, "copy")' = All(t, "copy")
    BY DEF All, HasFile
  <2>6. ASSUME NEW op \in ops'
        PROVE  /\ op \in OperationsOf(op.t)' /\ op.t \notin todo'
               /\ plan'.act[op.t] \notin {"none", "skipped"}
               /\ \A other \in ops' : other.t = op.t
               /\ op.do = "clear" /\ plan'.act[op.t] # "removed" =>
                      All(op.t, "copy")' \subseteq ops'
    BY <1>1, <1>2, <2>1, <2>2, <2>3, <2>5
  <2>7. QED
    BY <2>4, <2>6 DEF Working
<1>10. OwnWork'
  BY <1>1, <1>4
  DEF OwnWork, AsRecorded, Owned, Recorded, userVars, diskVars, readVars
<1>11. Dealt'
  <2>1. Agents \subseteq Assets
    BY DEF Assets
  <2>2. QED
    BY <1>1, <1>4, <2>1, SameWanted DEF Dealt, AgentFits, userVars, diskVars
<1>12. Resting'
  BY <1>1, <1>5 DEF Resting, historyVars
<1>13. Undisturbed'
  <2>1. SUFFICES ASSUME ~disturbed
                 PROVE  Undisturbed'
    BY <1>1 DEF Undisturbed, historyVars
  <2>2. edits = run.since
    BY <1>1, <2>1 DEF Undisturbed
  <2>3. ASSUME NEW f \in Files, \A op \in ops' : op.f # f
        PROVE  target[t][f] = Wanted(t)[f]
    <3>1. ~HasFile(t, f)
      <4>1. SUFFICES ASSUME HasFile(t, f) PROVE FALSE
        OBVIOUS
      <4>2. PICK do \in {"clear", "copy", "write"} :
                     All(t, do) \subseteq OperationsOf(t)
        BY DEF OperationsOf
      <4>3. [t |-> t, f |-> f, do |-> do] \in All(t, do)
        BY <4>1 DEF All
      <4>4. QED
        BY <1>1, <2>3, <4>2, <4>3
    <3>2. t \notin Skills /\ f = "extra"
      BY <3>1 DEF HasFile, Files
    <3>3. QED
      BY <1>1, <3>2, WantedFacts DEF OneFile
  <2>4. ASSUME NEW f \in Files, NEW op \in ops', op.f = f, op.do = "copy",
               \A o \in ops' : o.f = f => o.do # "clear"
        PROVE  target[t][f] = None
    <3>1. t \notin Agents /\ plan.act[t] # "removed" /\ HasFile(t, f)
      BY <1>1, <2>4, OperationsFacts
    <3>2. plan.act[t] # "updated"
      <4>1. SUFFICES ASSUME plan.act[t] = "updated" PROVE FALSE
        OBVIOUS
      <4>2. [t |-> t, f |-> f, do |-> "clear"] \in ops'
        BY <1>1, <3>1, <4>1 DEF OperationsOf, All
      <4>3. QED
        BY <2>4, <4>2
    <3>3. plan.act[t] \notin {"none", "skipped"}
      BY DEF Working
    <3>4. plan.act[t] # "conflict"
      BY <1>1, <2>2, <3>1 DEF Fitting, HasPlan
    <3>5. plan.act[t] \in Acts
      BY <1>1 DEF TypeOK
    <3>6. plan.act[t] = "created"
      BY <3>1, <3>2, <3>3, <3>4, <3>5 DEF Acts
    <3>7. target[t] = Empty
      BY <1>1, <2>1, <3>6 DEF Undisturbed
    <3>8. QED
      BY <3>7, EmptyFacts
  <2>5. HalfDone(t)'
    BY <1>1, <2>3, <2>4, SameWanted DEF HalfDone, userVars, diskVars
  <2>6. ASSUME NEW u \in Assets
        PROVE  /\ ~Pending(u)' => target[u] = Wanted(u)
               /\ u \in todo' /\ plan.act[u] = "created" => target[u] = Empty
               /\ (\E op \in ops' : op.t = u) => u = t
    BY <1>1, <1>2, <1>4, <2>1 DEF Undisturbed
  <2>7. QED
    BY <1>1, <2>2, <2>5, <2>6, SameWanted DEF Undisturbed, userVars, diskVars
<1>14. QED
  BY <1>6, <1>7, <1>8, <1>9, <1>10, <1>11, <1>12, <1>13

\* What is known of an operation under way.
LEMMA Underway ==
    ASSUME IInv, run.at = "write", NEW op \in ops
    PROVE  /\ op.t \in Assets /\ op.f \in Files /\ op.t \notin todo
           /\ op.f = "main" \/ op.t \in Skills
           /\ op \in OperationsOf(op.t)
           /\ \A other \in ops : other.t = op.t
           /\ plan.act[op.t] \notin {"none", "skipped"}
           /\ ~settled /\ ~checked
<1> USE DEF IInv
<1>1. op.t \in Assets /\ op.f \in Files
  BY DEF TypeOK, Operations
<1>2. /\ op \in OperationsOf(op.t) /\ op.t \notin todo
      /\ \A other \in ops : other.t = op.t
      /\ plan.act[op.t] \notin {"none", "skipped"}
  BY DEF Working
<1>3. op.f = "main" \/ op.t \in Skills
  BY <1>1, <1>2, OperationsFacts DEF HasFile
<1>4. ~settled /\ ~checked
  BY <1>1, <1>2 DEF Resting, HasPlan
<1>5. QED
  BY <1>1, <1>2, <1>3, <1>4

\* What every operation leaves alone: all but its target, and all that
\* only looks at what a run knows.
LEMMA OperationFrame ==
    ASSUME IInv, run.at = "write", NEW op \in ops,
           UNCHANGED userVars, UNCHANGED <<manifest, run, plan, todo>>,
           UNCHANGED readVars, settled' = settled, checked' = checked,
           ops' \subseteq ops
    PROVE  /\ Reading' /\ Planning' /\ Fitting' /\ Resting'
           /\ \A t \in Assets \ {op.t} : (Pending(t)' <=> Pending(t))
           /\ \A t : Pending(t)' => Pending(t)
           /\ \A t : Owned(t)' = Owned(t) /\ Recorded(t)' = Recorded(t)
<1> USE DEF IInv
<1>1. Reading'
  BY SameWanted DEF Reading, HasPlan, userVars, readVars
<1>2. Planning' /\ Fitting'
  BY SameWanted DEF Planning, Fitting, HasPlan, userVars
<1>3. Resting'
  BY Underway DEF Resting
<1>4. \A other \in ops : other.t = op.t
  BY Underway
<1>5. /\ \A t \in Assets \ {op.t} : (Pending(t)' <=> Pending(t))
      /\ \A t : Pending(t)' => Pending(t)
  BY <1>4 DEF Pending
<1>6. \A t : Owned(t)' = Owned(t) /\ Recorded(t)' = Recorded(t)
  BY DEF Owned, Recorded, readVars
<1>7. QED
  BY <1>1, <1>2, <1>3, <1>5, <1>6

\* A file of one target is changed, all else is as it was.
LEMMA OneTarget ==
    ASSUME TypeOK, NEW t \in Assets, NEW f \in Files, NEW text,
           target' = [target EXCEPT ![t][f] = text]
    PROVE  /\ \A u \in Assets \ {t} : target'[u] = target[u]
           /\ target'[t][f] = text
           /\ \A g \in Files \ {f} : target'[t][g] = target[t][g]
<1>1. target \in [Assets -> Trees] /\ target[t] \in Trees
  BY DEF TypeOK
<1>2. target' = [target EXCEPT ![t] = [target[t] EXCEPT ![f] = text]]
  OBVIOUS
<1>3. QED
  BY <1>1, <1>2 DEF Trees

\* Trees that agree on every file are the same.
LEMMA SameTree ==
    ASSUME TypeOK', NEW t \in Assets, NEW tree \in Sources,
           \A f \in Files : target'[t][f] = tree[f]
    PROVE  target'[t] = tree
  BY DEF TypeOK, Trees, Sources

\* Without interference an operation leaves its target half done, or done.
LEMMA HalfDoneKeeps ==
    ASSUME IInv, TypeOK', run.at = "write", NEW op \in ops, ~disturbed,
           UNCHANGED userVars, UNCHANGED <<manifest, run, plan, todo, disturbed>>,
           ops' = ops \ {op}, HalfDone(op.t)',
           \A u \in Assets \ {op.t} : target'[u] = target[u]
    PROVE  Undisturbed'
<1> USE DEF IInv
<1>1. edits' = run'.since /\ run'.at = "write"
  BY DEF Undisturbed, userVars
<1>2. op.t \in Assets /\ op.t \notin todo /\ \A other \in ops : other.t = op.t
  BY Underway
<1>3. ASSUME NEW u \in Assets \ {op.t}
      PROVE  /\ ~Pending(u)' => target'[u] = Wanted(u)'
             /\ u \in todo' /\ plan'.act[u] = "created" => target'[u] = Empty
             /\ (\E o \in ops' : o.t = u) => HalfDone(u)'
  <2>1. /\ ~Pending(u) => target[u] = Wanted(u)
        /\ u \in todo /\ plan.act[u] = "created" => target[u] = Empty
    BY DEF Undisturbed
  <2>2. (Pending(u)' <=> Pending(u)) /\ ~\E o \in ops' : o.t = u
    BY <1>2 DEF Pending
  <2>3. QED
    BY <2>1, <2>2, SameWanted
<1>4. ~Pending(op.t)' => target'[op.t] = Wanted(op.t)'
  <2>1. SUFFICES ASSUME ~Pending(op.t)' PROVE target'[op.t] = Wanted(op.t)
    BY SameWanted
  <2>2. ops' = {}
    BY <1>2, <2>1 DEF Pending
  <2>3. \A f \in Files : target'[op.t][f] = Wanted(op.t)[f]
    BY <2>2, SameWanted DEF HalfDone
  <2>4. QED
    BY <1>2, <2>3, SameTree, WantedFacts
<1>5. QED
  BY <1>1, <1>2, <1>3, <1>4 DEF Undisturbed

\* An operation keeps all in order if it does so for its own target.
LEMMA OperationKeeps ==
    ASSUME IInv, TypeOK', NEW op \in ops, Due(op),
           UNCHANGED userVars, UNCHANGED <<manifest, run, plan, todo>>,
           UNCHANGED readVars, UNCHANGED historyVars, ops' = ops \ {op},
           \A u \in Assets \ {op.t} : target'[u] = target[u],
           op.t \notin Skills => target'[op.t]["extra"] = None,
           /\ edits = plan.at /\ Pending(op.t)'
           /\ \/ plan.act[op.t] = "removed"
              \/ op.t \in Agents /\ run.mode = "sync" /\ Owned(op.t)
           => AsRecorded(op.t)',
           op.t \in Agents /\ edits = run.since => AgentFits(op.t)',
           ~disturbed => HalfDone(op.t)'
    PROVE  IInv'
<1> USE DEF IInv
<1>1. run.at = "write" /\ UNCHANGED <<settled, checked, disturbed>>
  BY DEF Due, historyVars
<1>2. /\ Reading' /\ Planning' /\ Fitting' /\ Resting'
      /\ \A t \in Assets \ {op.t} : (Pending(t)' <=> Pending(t))
      /\ \A t : Pending(t)' => Pending(t)
      /\ \A t : Owned(t)' = Owned(t) /\ Recorded(t)' = Recorded(t)
  BY <1>1, OperationFrame
<1>3. /\ op.t \in Assets /\ op \in OperationsOf(op.t)
      /\ \A other \in ops : other.t = op.t
  BY <1>1, Underway
<1>4. OneFile'
  BY <1>3 DEF OneFile
<1>5. Working'
  <2>1. \A t : OperationsOf(t)' = OperationsOf(t) /\ All(t, "copy")' = All(t, "copy")
    BY DEF OperationsOf, All, HasFile
  <2>2. ASSUME NEW other \in ops', other.do = "clear",
               plan.act[other.t] # "removed"
        PROVE  All(other.t, "copy") \subseteq ops'
    <3>1. All(other.t, "copy") \subseteq ops
      BY <2>2 DEF Working
    <3>2. other.t = op.t /\ other \in OperationsOf(op.t)
      BY <1>3, <2>2 DEF Working
    <3>3. op.do = "clear"
      <4>1. op.do # "copy"
        BY <2>2 DEF Due
      <4>2. op.do # "write"
        BY <1>3, <2>2, <3>2, OperationsFacts
      <4>3. QED
        BY <4>1, <4>2 DEF TypeOK, Operations
    <3>4. op \notin All(other.t, "copy")
      BY <3>3 DEF All
    <3>5. QED
      BY <3>1, <3>4
  <2>3. QED
    BY <2>1, <2>2 DEF Working
<1>6. OwnWork'
  <2>1. \A t \in Assets \ {op.t} : AsRecorded(t) => AsRecorded(t)'
    BY <1>2 DEF AsRecorded
  <2>2. QED
    BY <1>1, <1>2, <2>1 DEF OwnWork, userVars
<1>7. Dealt'
  <2>1. SUFFICES ASSUME edits = run.since, NEW t \in Agents, ~Pending(t)'
                 PROVE  AgentFits(t)'
    BY <1>1 DEF Dealt, userVars
  <2>2. CASE t = op.t
    BY <2>1, <2>2
  <2>3. CASE t # op.t
    <3>1. t \in Assets \ {op.t}
      BY <2>3 DEF Assets
    <3>2. ~Pending(t)
      BY <1>2, <2>1, <3>1
    <3>3. AgentFits(t)
      BY <1>1, <2>1, <3>2 DEF Dealt
    <3>4. QED
      BY <3>1, <3>3, SameWanted DEF AgentFits
  <2>4. QED
    BY <2>2, <2>3
<1>8. Undisturbed'
  <2>1. CASE disturbed
    BY <1>1, <2>1 DEF Undisturbed
  <2>2. CASE ~disturbed
    BY <1>1, <2>2, HalfDoneKeeps
  <2>3. QED
    BY <2>1, <2>2
<1>9. QED
  BY <1>2, <1>4, <1>5, <1>6, <1>7, <1>8

\* What is removed, is not wanted; what is copied, is the wanted source.
LEMMA OperationFits ==
    ASSUME IInv, NEW op \in ops, Due(op), edits = run.since
    PROVE  /\ plan.act[op.t] = "removed" => Wanted(op.t) = Empty
           /\ plan.act[op.t] # "removed" => Wanted(op.t) # Empty
           /\ op.do = "copy" => op.t \in Skills /\ Wanted(op.t) = source[op.t]
<1> USE DEF IInv
<1>1. /\ run.at = "write" /\ op.t \in Assets /\ op \in OperationsOf(op.t)
      /\ plan.act[op.t] \notin {"none", "skipped"}
  BY Underway DEF Due
<1>2. plan.act[op.t] = "removed" <=> Wanted(op.t) = Empty
  BY <1>1 DEF Fitting, HasPlan
<1>3. ASSUME op.do = "copy"
      PROVE  op.t \in Skills /\ Wanted(op.t) = source[op.t]
  <2>1. op.t \notin Agents /\ plan.act[op.t] # "removed"
    BY <1>1, <1>3, OperationsFacts
  <2>2. op.t \in Skills
    BY <1>1, <1>2, <2>1, WantedFacts DEF Assets
  <2>3. QED
    BY <1>2, <2>1, <2>2 DEF Wanted
<1>4. QED
  BY <1>2, <1>3

\* A file that is cleared is not wanted, or is about to be copied.
LEMMA ClearKeeps ==
    ASSUME IInv, TypeOK', NEW op \in ops, Clear(op)
    PROVE  IInv'
<1> USE DEF IInv
<1>1. /\ Due(op) /\ op.do = "clear" /\ run.at = "write"
      /\ UNCHANGED userVars /\ UNCHANGED <<manifest, run, plan, todo>>
      /\ UNCHANGED readVars /\ UNCHANGED historyVars /\ ops' = ops \ {op}
      /\ target' = [target EXCEPT ![op.t][op.f] = None]
  BY DEF Clear, Due
<1>2. /\ op.t \in Assets /\ op.f \in Files /\ op \in OperationsOf(op.t)
      /\ \A other \in ops : other.t = op.t
  BY <1>1, Underway
<1>3. /\ \A u \in Assets \ {op.t} : target'[u] = target[u]
      /\ target'[op.t][op.f] = None
      /\ \A g \in Files \ {op.f} : target'[op.t][g] = target[op.t][g]
  BY <1>1, <1>2, OneTarget
<1>4. op.t \notin Skills => target'[op.t]["extra"] = None
  BY <1>2, <1>3 DEF OneFile, Files
<1>5. ASSUME edits = plan.at, Pending(op.t)',
             \/ plan.act[op.t] = "removed"
             \/ op.t \in Agents /\ run.mode = "sync" /\ Owned(op.t)
      PROVE  AsRecorded(op.t)'
  <2>1. AsRecorded(op.t)
    BY <1>1, <1>2, <1>5 DEF OwnWork, Pending
  <2>2. Recorded(op.t)' = Recorded(op.t)
    BY <1>1 DEF Recorded, readVars
  <2>3. QED
    BY <1>3, <2>1, <2>2 DEF AsRecorded
<1>6. op.t \in Agents /\ edits = run.since => AgentFits(op.t)'
  <2>1. op.t \in Agents => plan.act[op.t] = "removed"
    BY <1>1, <1>2, OperationsFacts
  <2>2. QED
    BY <1>1, <2>1, OperationFits, SameWanted DEF AgentFits
<1>7. ASSUME ~disturbed
      PROVE  HalfDone(op.t)'
  <2>1. edits = run.since /\ HalfDone(op.t)
    BY <1>1, <1>2, <1>7 DEF Undisturbed
  <2>2. ASSUME \A other \in ops' : other.f # op.f
        PROVE  Wanted(op.t)[op.f] = None
    <3>1. [t |-> op.t, f |-> op.f, do |-> "copy"] \notin ops
      BY <1>1, <2>2
    <3>2. HasFile(op.t, op.f)
      BY <1>2, OperationsFacts
    <3>3. plan.act[op.t] = "removed"
      BY <1>1, <1>2, <3>1, <3>2 DEF Working, All
    <3>4. QED
      BY <1>1, <1>2, <2>1, <3>3, OperationFits, EmptyFacts
  <2>3. ASSUME NEW g \in Files \ {op.f}
        PROVE  /\ (\A o \in ops' : o.f # g) => target'[op.t][g] = Wanted(op.t)[g]
               /\ (\E o \in ops' : o.f = g /\ o.do = "copy")
                  /\ (\A o \in ops' : o.f = g => o.do # "clear")
                  => target'[op.t][g] = None
    BY <1>1, <1>3, <2>1 DEF HalfDone
  <2>4. QED
    BY <1>3, <2>2, <2>3, <1>1, SameWanted DEF HalfDone
<1>8. QED
  BY <1>1, <1>3, <1>4, <1>5, <1>6, <1>7, OperationKeeps

\* A file that is copied into a skill is the wanted one.
LEMMA CopyKeeps ==
    ASSUME IInv, TypeOK', NEW op \in ops, Copy(op)
    PROVE  IInv'
<1> USE DEF IInv
<1>1. /\ Due(op) /\ op.do = "copy" /\ run.at = "write"
      /\ UNCHANGED userVars /\ UNCHANGED <<manifest, run, plan, todo>>
      /\ UNCHANGED readVars /\ UNCHANGED historyVars /\ ops' = ops \ {op}
      /\ target' = IF source[op.t][op.f] = None THEN target
                   ELSE [target EXCEPT ![op.t][op.f] = source[op.t][op.f]]
  BY DEF Copy, Due
<1>2. /\ op.t \in Assets /\ op.f \in Files /\ op \in OperationsOf(op.t)
      /\ \A other \in ops : other.t = op.t
      /\ op.f = "main" \/ op.t \in Skills
  BY <1>1, Underway
<1>3. /\ \A u \in Assets \ {op.t} : target'[u] = target[u]
      /\ \A g \in Files \ {op.f} : target'[op.t][g] = target[op.t][g]
      /\ target'[op.t][op.f] = IF source[op.t][op.f] = None THEN target[op.t][op.f]
                               ELSE source[op.t][op.f]
  <2>1. CASE source[op.t][op.f] = None
    BY <1>1, <2>1
  <2>2. CASE source[op.t][op.f] # None
    <3>1. target \in [Assets -> Trees] /\ target[op.t] \in Trees
      BY <1>2 DEF TypeOK
    <3>2. target' = [target EXCEPT ![op.t] =
                        [target[op.t] EXCEPT ![op.f] = source[op.t][op.f]]]
      BY <1>1, <2>2
    <3>3. QED
      BY <1>2, <2>2, <3>1, <3>2 DEF Trees
  <2>3. QED
    BY <2>1, <2>2
<1>4. op.t \notin Agents /\ plan.act[op.t] # "removed"
  BY <1>1, <1>2, OperationsFacts
<1>5. op.t \notin Skills => target'[op.t]["extra"] = None
  BY <1>2, <1>3 DEF OneFile, Files
<1>6. ASSUME ~disturbed
      PROVE  HalfDone(op.t)'
  <2>1. edits = run.since /\ HalfDone(op.t)
    BY <1>1, <1>2, <1>6 DEF Undisturbed
  <2>2. \A other \in ops : other.do # "clear"
    BY <1>1 DEF Due
  <2>3. target[op.t][op.f] = None
    BY <1>1, <1>2, <2>1, <2>2 DEF HalfDone
  <2>4. target'[op.t][op.f] = Wanted(op.t)[op.f]
    BY <1>1, <1>3, <2>1, <2>3, OperationFits
  <2>5. ASSUME NEW o \in ops', o.f = op.f
        PROVE  o.do # "copy"
    <3>1. o \in Operations /\ op \in Operations /\ o # op /\ o.t = op.t
      BY <1>1, <1>2 DEF TypeOK
    <3>2. QED
      BY <1>1, <2>5, <3>1 DEF Operations
  <2>6. ASSUME NEW g \in Files \ {op.f}
        PROVE  /\ (\A o \in ops' : o.f # g) => target'[op.t][g] = Wanted(op.t)[g]
               /\ (\E o \in ops' : o.f = g /\ o.do = "copy")
                  /\ (\A o \in ops' : o.f = g => o.do # "clear")
                  => target'[op.t][g] = None
    BY <1>1, <1>3, <2>1 DEF HalfDone
  <2>7. QED
    BY <1>1, <2>4, <2>5, <2>6, SameWanted DEF HalfDone
<1>7. QED
  BY <1>1, <1>3, <1>4, <1>5, <1>6, OperationKeeps

\* A file that is written whole is the wanted one.
LEMMA WriteFileKeeps ==
    ASSUME IInv, TypeOK', NEW op \in ops, WriteFile(op)
    PROVE  IInv'
<1> USE DEF IInv
<1>1. /\ Due(op) /\ op.do = "write" /\ run.at = "write"
      /\ UNCHANGED userVars /\ UNCHANGED <<manifest, run, plan, todo>>
      /\ UNCHANGED readVars /\ UNCHANGED historyVars /\ ops' = ops \ {op}
      /\ target' = [target EXCEPT ![op.t][op.f] = plan.tree[op.t][op.f]]
  BY DEF WriteFile, Due
<1>2. /\ op.t \in Assets /\ op.f \in Files /\ op \in OperationsOf(op.t)
      /\ \A other \in ops : other.t = op.t
      /\ op.f = "main" \/ op.t \in Skills
  BY <1>1, Underway
<1>3. /\ \A u \in Assets \ {op.t} : target'[u] = target[u]
      /\ target'[op.t][op.f] = plan.tree[op.t][op.f]
      /\ \A g \in Files \ {op.f} : target'[op.t][g] = target[op.t][g]
  BY <1>1, <1>2, OneTarget
<1>4. op.t \in Agents /\ op.t \notin Skills /\ plan.act[op.t] # "removed"
  BY <1>1, <1>2, OperationsFacts, AssetsAssumption
<1>5. op.f = "main" /\ target'[op.t]["extra"] = None
  BY <1>2, <1>3, <1>4 DEF OneFile, Files
<1>6. ops' = {}
  <2>1. ASSUME NEW o \in ops
        PROVE  o = op
    <3>1. o.t = op.t /\ o \in OperationsOf(op.t) /\ o \in Operations /\ op \in Operations
      BY <1>2 DEF TypeOK, Working
    <3>2. o.do = "write" /\ HasFile(op.t, o.f)
      BY <1>2, <1>4, <3>1, OperationsFacts DEF Operations
    <3>3. o.f = op.f
      BY <1>4, <1>5, <3>2 DEF HasFile
    <3>4. QED
      BY <1>1, <3>1, <3>2, <3>3 DEF Operations
  <2>2. QED
    BY <1>1, <2>1
<1>7. ~Pending(op.t)'
  BY <1>1, <1>6, Underway DEF Pending
<1>8. edits = run.since => target'[op.t] = Wanted(op.t)
  <2>1. SUFFICES ASSUME edits = run.since PROVE target'[op.t] = Wanted(op.t)
    OBVIOUS
  <2>2. plan.tree[op.t] = Wanted(op.t)
    BY <1>1, <1>2, <2>1 DEF Fitting, HasPlan
  <2>3. \A f \in Files : target'[op.t][f] = Wanted(op.t)[f]
    BY <1>2, <1>3, <1>4, <1>5, <2>2, WantedFacts DEF Files
  <2>4. QED
    BY <1>2, <2>3, SameTree, WantedFacts
<1>9. edits = run.since => AgentFits(op.t)'
  BY <1>1, <1>8, SameWanted DEF AgentFits
<1>10. ~disturbed => HalfDone(op.t)'
  <2>1. ~disturbed => edits = run.since
    BY <1>1 DEF Undisturbed
  <2>2. QED
    BY <1>1, <1>6, <1>8, <2>1, SameWanted DEF HalfDone
<1>11. QED
  BY <1>1, <1>3, <1>5, <1>7, <1>9, <1>10, OperationKeeps

\* A stale target that stays is not wanted, and disturbs the run.
LEMMA ClearFailsKeeps ==
    ASSUME IInv, TypeOK', NEW op \in ops, ClearFails(op)
    PROVE  IInv'
<1> USE DEF IInv
<1>1. /\ Due(op) /\ run.at = "write" /\ plan.act[op.t] = "removed"
      /\ UNCHANGED userVars /\ UNCHANGED <<manifest, run, plan, todo>>
      /\ UNCHANGED readVars /\ settled' = settled /\ checked' = checked
      /\ target' = target /\ disturbed' = TRUE /\ ops' = {}
  BY DEF ClearFails, Due, diskVars
<1>2. op.t \in Assets
  BY <1>1, Underway
<1>3. /\ Reading' /\ Planning' /\ Fitting' /\ Resting'
      /\ \A t \in Assets \ {op.t} : (Pending(t)' <=> Pending(t))
      /\ \A t : Pending(t)' => Pending(t)
      /\ \A t : Owned(t)' = Owned(t) /\ Recorded(t)' = Recorded(t)
  <2>1. ops' \subseteq ops
    BY <1>1
  <2>2. QED
    BY <1>1, <2>1, OperationFrame
<1>4. OneFile' /\ Undisturbed' /\ Working'
  BY <1>1 DEF OneFile, Undisturbed, Working
<1>5. OwnWork'
  BY <1>1, <1>3 DEF OwnWork, AsRecorded, userVars
<1>6. Dealt'
  <2>1. Agents \subseteq Assets
    BY DEF Assets
  <2>2. \A t \in Agents : AgentFits(t) => AgentFits(t)'
    BY <1>1, SameWanted DEF AgentFits
  <2>3. edits = run.since => AgentFits(op.t)'
    BY <1>1, OperationFits, SameWanted DEF AgentFits
  <2>4. QED
    BY <1>1, <1>3, <2>1, <2>2, <2>3 DEF Dealt, userVars
<1>7. QED
  BY <1>3, <1>4, <1>5, <1>6

\* Behind the last output the manifest is nobody's for a while.
LEMMA OpenKeeps ==
    ASSUME IInv, TypeOK', OpenManifest
    PROVE  IInv'
<1> USE DEF IInv
<1>1. /\ run.at = "write" /\ todo = {} /\ ops = {} /\ run'.at = "save"
      /\ run'.since = run.since
      /\ target' = target /\ plan' = plan /\ todo' = {} /\ ops' = {}
      /\ UNCHANGED userVars /\ UNCHANGED readVars
      /\ UNCHANGED <<settled, checked, disturbed>> /\ edits' = edits
  BY DEF OpenManifest, TypeOK, workVars, historyVars, userVars
<1>2. \A t : ~Pending(t) /\ ~Pending(t)'
  BY <1>1 DEF Pending
<1>3. OneFile' /\ Planning' /\ OwnWork' /\ Working'
  BY <1>1 DEF OneFile, Planning, OwnWork, Working
<1>4. Reading'
  BY <1>1, SameWanted DEF Reading, HasPlan, userVars, readVars
<1>5. Fitting'
  BY <1>1, SameWanted DEF Fitting, HasPlan
<1>6. \A t \in Agents : AgentFits(t) => AgentFits(t)'
  BY <1>1, SameWanted DEF AgentFits
<1>7. Dealt'
  <2>1. edits = run.since => \A t \in Agents : AgentFits(t)
    BY <1>1, <1>2 DEF Dealt
  <2>2. QED
    BY <1>1, <1>6, <2>1 DEF Dealt
<1>8. Resting'
  BY <1>1, <1>6 DEF Resting, HasPlan
<1>9. Undisturbed'
  <2>1. ~disturbed => edits = run.since /\ \A t \in Assets : target[t] = Wanted(t)
    BY <1>1, <1>2 DEF Undisturbed
  <2>2. QED
    BY <1>1, <2>1, SameWanted DEF Undisturbed
<1>10. QED
  BY <1>3, <1>4, <1>5, <1>7, <1>8, <1>9

\* The manifest that is written records what is wanted.
LEMMA WriteManifestKeeps ==
    ASSUME IInv, TypeOK', WriteManifest
    PROVE  IInv'
<1> USE DEF IInv
<1>1. /\ run.at = "save" /\ todo = {} /\ ops = {}
      /\ run'.at = "idle" /\ todo' = {} /\ ops' = {}
      /\ manifest' = NewManifest /\ target' = target
      /\ settled' = (edits = run.since)
      /\ UNCHANGED userVars /\ checked' = checked /\ disturbed' = disturbed
  BY DEF WriteManifest, Leave, NoRun, Reading
<1>2. NewManifest \in Manifests /\ NewManifest # NoManifest
  BY ManifestAssumption DEF NewManifest, Manifests, TypeOK
<1>3. ASSUME edits = run.since
      PROVE  /\ NewManifest.src = SourceTexts
             /\ \A t \in Assets : NewManifest.tgt[t] = Wanted(t)
  BY <1>1, <1>3 DEF NewManifest, Reading, Fitting, HasPlan
<1>4. OneFile' /\ Reading' /\ Planning' /\ Fitting' /\ Working' /\ OwnWork' /\ Dealt'
  BY <1>1 DEF OneFile, Reading, Planning, Fitting, Working, OwnWork, Dealt, HasPlan
<1>5. \A t : ~Pending(t)
  BY <1>1 DEF Pending
<1>6. Resting'
  <2>1. SUFFICES ASSUME settled' \/ checked'
                 PROVE  Quiet(manifest)' /\ \A t \in Agents : AgentFits(t)'
    BY <1>1 DEF Resting, HasPlan
  <2>2. edits = run.since
    BY <1>1, <2>1 DEF Resting
  <2>3. \A t \in Agents : AgentFits(t)'
    <3>1. \A t \in Agents : AgentFits(t)
      BY <1>1, <1>5, <2>2 DEF Dealt
    <3>2. QED
      BY <1>1, <3>1, SameWanted DEF AgentFits
  <2>4. \A t \in Gemini : NewManifest.tgt[t] = Empty
    BY <1>3, <2>2, WantedFacts DEF Legacy, Assets
  <2>5. Quiet(manifest)'
    BY <1>1, <1>2, <1>3, <2>2, <2>4, SameWanted DEF Quiet
  <2>6. QED
    BY <2>3, <2>5
<1>7. Undisturbed'
  <2>1. ASSUME ~disturbed, NEW t \in Assets
        PROVE  target[t] = NewManifest.tgt[t]
    BY <1>1, <1>3, <1>5, <2>1 DEF Undisturbed
  <2>2. QED
    BY <1>1, <1>2, <2>1 DEF Undisturbed, AsManifest
<1>8. QED
  BY <1>4, <1>6, <1>7

\* A run that stops may tear the file it is writing.
LEMMA StopKeeps ==
    ASSUME IInv, TypeOK', Stop
    PROVE  IInv'
<1> USE DEF IInv
<1>1. /\ run'.at = "idle" /\ todo' = {} /\ ops' = {}
      /\ ~settled' /\ ~checked' /\ disturbed'
  BY DEF Stop, Leave, NoRun
<1>2. Reading' /\ Planning' /\ Fitting' /\ Working' /\ OwnWork' /\ Dealt'
  BY <1>1 DEF Reading, Planning, Fitting, Working, OwnWork, Dealt, HasPlan
<1>3. Resting' /\ Undisturbed'
  BY <1>1 DEF Resting, Undisturbed
<1>4. OneFile'
  <2>1. CASE UNCHANGED target
    BY <2>1 DEF OneFile
  <2>2. ASSUME NEW op \in ops, Due(op),
               target' = [target EXCEPT ![op.t][op.f] = Torn]
        PROVE  OneFile'
    <3>1. /\ op.t \in Assets /\ op.f \in Files
          /\ op.f = "main" \/ op.t \in Skills
      BY <2>2, Underway DEF Due
    <3>2. /\ \A u \in Assets \ {op.t} : target'[u] = target[u]
          /\ \A g \in Files \ {op.f} : target'[op.t][g] = target[op.t][g]
      BY <2>2, <3>1, OneTarget
    <3>3. QED
      BY <3>1, <3>2 DEF OneFile, Files
  <2>3. QED
    BY <2>1, <2>2 DEF Stop
<1>5. QED
  BY <1>2, <1>3, <1>4

\* Runs that end before they write.
LEMMA EndsKeep ==
    ASSUME IInv, TypeOK',
           NoSources \/ PlanThrows \/ CheckPasses \/ CheckFails \/ Refuse
    PROVE  IInv'
<1> USE DEF IInv
<1>1. /\ Leave /\ UNCHANGED userVars /\ UNCHANGED diskVars
      /\ UNCHANGED disturbed /\ run.at \notin {"write", "save"}
  BY DEF NoSources, PlanThrows, CheckPasses, CheckFails, Refuse, historyVars
<1>2. (settled \/ checked) /\ run.at # "save" =>
          Quiet(manifest) /\ \A t \in Agents : AgentFits(t)
  BY DEF Resting
<1>3. CASE CheckPasses
  <2>1. settled' = settled /\ checked' = (edits = run.since)
    BY <1>3 DEF CheckPasses
  <2>2. QED
    BY <1>1, <1>2, <1>3, <2>1, PassedIsQuiet, LeaveKeeps
<1>4. CASE ~CheckPasses
  <2>1. settled' = settled /\ checked' = checked
    BY <1>4 DEF NoSources, PlanThrows, CheckFails, Refuse, historyVars
  <2>2. QED
    BY <1>1, <1>2, <2>1, LeaveKeeps
<1>5. QED
  BY <1>3, <1>4

\* A new repository, and one with legacy targets, is in order.
LEMMA InitIInv ==
    Init => IInv
<1>1. SUFFICES ASSUME Init PROVE IInv
  OBVIOUS
<1>2. /\ run = NoRun /\ run.at = "idle" /\ edits = 0 /\ ops = {} /\ todo = {}
      /\ seen = NothingSeen /\ known = NoManifest /\ plan = NoPlan
      /\ ~settled /\ ~checked
  BY <1>1 DEF Init, NoRun
<1>3. \A text \in Texts \cup {None} :
          File(text) \in Sources /\ File(text) \in Trees /\ File(text)["extra"] = None
  BY FileFacts DEF Sources, Trees
<1>4. /\ source \in [Assets -> Sources] /\ allowed \in SUBSET (Agents \cup Skills)
      /\ target \in [Assets -> Trees] /\ manifest \in Manifests \cup {NoManifest}
      /\ disturbed \in BOOLEAN /\ OneFile
      /\ ~disturbed => \A t \in Assets : AsManifest(t)
  <2>1. CASE NewRepository
    BY <2>1, EmptyFacts DEF NewRepository, OneFile, AsManifest, Files
  <2>2. CASE OldRepository
    <3>1. PICK g \in Legacy, text \in Texts, now \in Texts \cup {None} :
              /\ manifest = [src |-> [t \in Assets |-> None],
                             tgt |-> [t \in Assets |->
                                         IF t = g THEN File(text) ELSE Empty]]
              /\ target = [t \in Assets |-> IF t = g THEN File(now) ELSE Empty]
              /\ disturbed = (now \notin {text, None})
      BY <2>2 DEF OldRepository
    <3>2. source \in [Assets -> Sources] /\ allowed \in SUBSET (Agents \cup Skills)
      BY <2>2, EmptyFacts DEF OldRepository
    <3>3. target \in [Assets -> Trees] /\ OneFile
      BY <1>3, <3>1, EmptyFacts DEF OneFile, Files
    <3>4. manifest \in Manifests /\ manifest # NoManifest
      BY <1>3, <3>1, EmptyFacts, ManifestAssumption DEF Manifests
    <3>5. File(None) = Empty
      BY EmptyFacts DEF File, Empty, Files
    <3>6. ~disturbed => \A t \in Assets : AsManifest(t)
      BY <3>1, <3>4, <3>5 DEF AsManifest
    <3>7. QED
      BY <3>1, <3>2, <3>3, <3>4, <3>6
  <2>3. QED
    BY <1>1, <2>1, <2>2 DEF Init
<1>5. TypeOK
  <2>1. /\ run \in [at: {"idle"}, mode: Modes, since: {0}]
        /\ plan \in [act: [Assets -> Acts], tree: [Assets -> Sources], at: {0}]
        /\ seen \in [text: [Assets -> Texts \cup {None}],
                     allowed: SUBSET (Agents \cup Skills)]
    BY <1>2, EmptyFacts DEF NoRun, NothingSeen, NoPlan, Modes, Acts
  <2>2. settled \in BOOLEAN /\ checked \in BOOLEAN
    BY <1>1 DEF Init
  <2>3. QED
    BY <1>2, <1>4, <2>1, <2>2, BoundsAssumption DEF TypeOK
<1>6. Reading /\ Planning /\ Fitting /\ Working /\ OwnWork /\ Dealt /\ Resting
  BY <1>2 DEF Reading, Planning, Fitting, Working, OwnWork, Dealt, Resting, HasPlan
<1>7. Undisturbed
  BY <1>2, <1>4 DEF Undisturbed
<1>8. QED
  BY <1>4, <1>5, <1>6, <1>7 DEF IInv

\* The invariant is about the variables alone.
LEMMA StutterKeeps ==
    ASSUME IInv, UNCHANGED vars
    PROVE  IInv'
<1>1. TypeOK'
  BY DEF vars, IInv, TypeOK
<1>2. /\ SourceTexts' = SourceTexts /\ HasPlan' = HasPlan /\ Produced' = Produced
      /\ \A t : /\ Wanted(t)' = Wanted(t) /\ Output(t)' = Output(t)
                /\ Owned(t)' = Owned(t) /\ Recorded(t)' = Recorded(t)
                /\ Pending(t)' = Pending(t)
  BY DEF vars, SourceTexts, HasPlan, Wanted, Produced, Output, Owned, Recorded,
         Pending
<1>3. Conflicts' = Conflicts /\ Stale' = Stale
  BY <1>2 DEF vars, Conflicts, Stale
<1>4. OneFile' /\ Reading'
  BY <1>2 DEF vars, IInv, OneFile, Reading
<1>5. Planning' /\ Fitting'
  BY <1>2, <1>3 DEF vars, IInv, Planning, Fitting, ActionOf
<1>6. Working'
  BY DEF vars, IInv, Working, OperationsOf
<1>7. OwnWork' /\ Dealt'
  BY <1>2 DEF vars, IInv, OwnWork, Dealt, AsRecorded, AgentFits
<1>8. Resting'
  BY <1>2 DEF vars, IInv, Resting, Quiet, AgentFits
<1>9. Undisturbed'
  BY <1>2 DEF vars, IInv, Undisturbed, AsManifest, HalfDone
<1>10. QED
  BY <1>1, <1>4, <1>5, <1>6, <1>7, <1>8, <1>9 DEF IInv

\* Every edit and every step of a run preserves the invariant.
LEMMA NextIInv ==
    IInv /\ [Next]_vars => IInv'
<1>1. SUFFICES ASSUME IInv, [Next]_vars PROVE IInv'
  OBVIOUS
<1>2. CASE User
  BY <1>1, <1>2, UserKeeps
<1>3. CASE Engine
  <2>1. TypeOK'
    BY <1>1, <1>3, EngineTypes DEF IInv
  <2>2. QED
    BY <1>1, <1>3, <2>1, ReadingKeeps, EndsKeep, PlanKeeps, ProceedKeeps,
       TakeKeeps, ClearKeeps, ClearFailsKeeps, CopyKeeps, WriteFileKeeps,
       OpenKeeps, WriteManifestKeeps, StopKeeps DEF Engine
<1>4. CASE UNCHANGED vars
  BY <1>1, <1>4, StutterKeeps
<1>5. QED
  BY <1>1, <1>2, <1>3, <1>4 DEF Next

\* Whatever the user edits and wherever a run stops, what a run knows, plans
\* and has done fits together.
LEMMA Invariance == Spec => []IInv
  BY InitIInv, NextIInv, PTL DEF Spec
-----------------------------------------------------------------------------
(***************************************************************************)
(* What sync promises                                                      *)
(***************************************************************************)

\* Sources, targets, the manifest and all a run knows are of their types.
THEOREM TypeCorrect == Spec => []TypeOK
<1>1. IInv => TypeOK
  BY DEF IInv
<1>2. QED
  BY <1>1, Invariance, PTL

\* Behind a completed sync nothing is outdated: no check fails and no sync
\* is refused, for any assets and whatever was interrupted before it
\* (sync-engine.ts 818-826).
THEOREM SettledStays == Spec => []SettledStaysSettled
<1>1. ASSUME IInv, settled, run.at = "decide"
      PROVE  ~Outdated /\ Planned("conflict") = {}
  <2> USE DEF IInv
  <2>1. /\ edits = run.since /\ Quiet(manifest) /\ known = manifest
        /\ seen.text = SourceTexts
        /\ \A t \in Assets : plan.act[t] \in {"none", "skipped"}
    BY <1>1 DEF Resting, Reading, HasPlan
  <2>2. /\ known \in Manifests /\ known # NoManifest
        /\ known.src = SourceTexts
        /\ \A t \in Assets \ Gemini : known.tgt[t] = Wanted(t)
    BY <2>1, ManifestAssumption DEF Quiet
  <2>3. \A t \in Assets : plan.tree[t] = Wanted(t)
    BY <1>1, <2>1 DEF Fitting, HasPlan
  <2>4. \A t \in Gemini : t \in Assets /\ Wanted(t) = Empty
    BY <1>1, WantedFacts DEF Assets, Legacy
  <2>5. plan.tree = [t \in Assets |-> IF t \in Gemini THEN Empty ELSE known.tgt[t]]
    <3>1. plan.tree \in [Assets -> Sources]
      BY <1>1 DEF TypeOK
    <3>2. \A t \in Assets : plan.tree[t] = IF t \in Gemini THEN Empty ELSE known.tgt[t]
      BY <2>2, <2>3, <2>4
    <3>3. QED
      BY <3>1, <3>2
  <2>6. Migrated(known) = NewManifest
    <3>1. Migrated(known) = [known EXCEPT !.tgt = plan.tree]
      BY <2>2, <2>5 DEF Migrated
    <3>2. QED
      BY <2>1, <2>2, <3>1 DEF NewManifest, Manifests
  <2>7. Planned("conflict") = {} /\ Planned("removed") = {}
    BY <2>1 DEF Planned
  <2>8. QED
    BY <2>6, <2>7 DEF Outdated, Drift
<1>2. IInv => SettledStaysSettled
  BY <1>1 DEF SettledStaysSettled
<1>3. QED
  BY <1>2, Invariance, PTL

\* Behind a completed sync that nobody interfered with, every target is the
\* function of the sources and the configuration that sync promises
\* (sync-engine.ts 556-830).
THEOREM TargetsFollow == Spec => []TargetsFollowSources
<1>1. ASSUME IInv, settled, ~disturbed, run.at = "idle", NEW t \in Assets
      PROVE  target[t] = Wanted(t)
  <2> USE DEF IInv
  <2>1. Quiet(manifest) /\ manifest # NoManifest /\ AsManifest(t)
    BY <1>1, ManifestAssumption DEF Resting, Undisturbed, Quiet
  <2>2. target[t] = manifest.tgt[t] \/ (t \in Legacy /\ target[t] = Empty)
    BY <2>1 DEF AsManifest
  <2>3. t \in Legacy => Wanted(t) = Empty
    BY <1>1, WantedFacts
  <2>4. CASE t \in Gemini
    BY <2>1, <2>2, <2>3, <2>4 DEF Quiet, Legacy
  <2>5. CASE t \notin Gemini
    BY <2>1, <2>2, <2>3, <2>5 DEF Quiet
  <2>6. QED
    BY <2>4, <2>5
<1>2. IInv => TargetsFollowSources
  BY <1>1 DEF TargetsFollowSources
<1>3. QED
  BY <1>2, Invariance, PTL

\* Without an edit a target changes only by an operation under way on it.
LEMMA OnlyOperations ==
    ASSUME IInv, [Next]_vars, edits' = edits, NEW t \in Assets,
           target'[t] # target[t]
    PROVE  run.at = "write" /\ \E op \in ops : op.t = t
<1> USE DEF IInv
<1>1. ~User
  <2>1. ASSUME NEW onTarget, Edited(onTarget) PROVE FALSE
    BY <2>1, Times DEF Edited
  <2>2. QED
    BY <2>1 DEF User, EditConfig, EditSource, EditTarget
<1>2. ASSUME NEW op \in ops, NEW text, run.at = "write",
             target' = [target EXCEPT ![op.t][op.f] = text]
      PROVE  op.t = t
  <2>1. op.t \in Assets /\ op.f \in Files
    BY <1>2, Underway
  <2>2. QED
    BY <2>1, <1>2, OneTarget
<1>3. ASSUME NEW op \in ops, Clear(op) \/ Copy(op) \/ WriteFile(op)
      PROVE  run.at = "write" /\ op.t = t
  BY <1>2, <1>3 DEF Clear, Copy, WriteFile, Due
<1>4. CASE Stop
  BY <1>2, <1>4 DEF Stop, Due
<1>5. QED
  BY <1>1, <1>3, <1>4
  DEF Next, Engine, Discover, ReadManifest, NoSources, ComputePlan, PlanThrows,
      CheckPasses, CheckFails, Refuse, Proceed, NextOutput, ClearFails,
      OpenManifest, WriteManifest, diskVars, vars

\* What a run removes as stale and what it overwrites unasked is as it was
\* recorded, whatever was edited before the plan was made and however the
\* operations follow one another (sync-engine.ts 299-345, 474-493).
THEOREM OwnWorkIsOwn == Spec => OwnWorkOnly
<1> DEFINE Kept == \A t \in Assets :
               /\ target'[t] # target[t]
               /\ edits' = edits /\ edits = plan.at
               /\ \/ plan.act[t] = "removed"
                  \/ t \in Agents /\ run.mode = "sync" /\ Owned(t)
               => AsRecorded(t)
<1>1. IInv /\ [Next]_vars => [Kept]_vars
  BY OnlyOperations DEF IInv, OwnWork, Pending
<1>2. QED
  BY <1>1, Invariance, PTL DEF Spec, OwnWorkOnly

\* Behind a passed check no target changes until something is edited: a sync
\* would have nothing to do (sync-engine.ts 514-554, 649-718).
THEOREM ChecksMeanDone == Spec => CheckedMeansDone
<1> DEFINE Kept == checked /\ edits' = edits => target' = target
<1>1. ASSUME IInv, [Next]_vars, checked, edits' = edits
      PROVE  target' = target
  <2>1. \A t \in Assets : target'[t] = target[t]
    BY <1>1, OnlyOperations, Underway
  <2>2. target' \in [Assets -> Trees] /\ target \in [Assets -> Trees]
    BY <1>1, NextIInv DEF IInv, TypeOK
  <2>3. QED
    BY <2>1, <2>2
<1>2. IInv /\ [Next]_vars => [Kept]_vars
  BY <1>1
<1>3. QED
  BY <1>2, Invariance, PTL DEF Spec, CheckedMeansDone

=============================================================================
