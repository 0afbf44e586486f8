------------------------- MODULE SkillSurfacesProofs -------------------------
(***************************************************************************)
(* What SkillSurfaces establishes for any skills, any classification of    *)
(* them, any policies and any number of edits.                             *)
(***************************************************************************)
EXTENDS SkillSurfaces, FiniteSetTheorems, TLAPS

-----------------------------------------------------------------------------
(***************************************************************************)
(* The inductive invariant, part by part.                                  *)
(***************************************************************************)

HasPlan == run.at \in {"detect", "decide", "clean", "write"}
Place(n) == [at |-> "agents", name |-> n]

\* What a policy asks for, and the one content it may have.
Made(p, names) == {<<n, Content(p, n)>> : n \in names}
Hashed(p) == Made(p, Eligible(p))
Functional(hashes) ==
    \A n \in Names, c \in Contents, d \in Contents :
        <<n, c>> \in hashes /\ <<n, d>> \in hashes => c = d

\* There is something left to do, and something done, only in the cleaning
\* and the write pass, which a check never reaches.
Ordered ==
    /\ run.at \notin {"clean", "write"} => todo = {} /\ cleaned = {}
    /\ run.at \in {"clean", "write"} => ~Checks
    /\ run.option = "sync" => cleaned = {} /\ (run.at = "clean" => todo = {})
    /\ run.at = "clean" => todo \subseteq plan.clean
    /\ run.at = "write" => todo \subseteq [at: {"agents"}, name: Outputs]
    /\ cleaned \subseteq plan.clean

\* What a run has read and planned, and what of it is current.
Planning ==
    /\ Functional(Recorded)
    /\ run.at # "idle" /\ run.disturbed = "no" => seen = policy
    /\ HasPlan =>
           /\ NamesOf(plan.make) = Eligible(seen)
           /\ Functional(plan.make)
           /\ plan.drop \subseteq NamesOf(Recorded) \ Eligible(seen)
           /\ run.disturbed = "no" => plan.make = Hashed(policy)

\* Skills that only completed runs have touched are as the manifest records
\* them, but for those that a run has cleaned or written already.
IsAs(n, hashes) ==
    IF n \in NamesOf(hashes) THEN <<n, agents[n]>> \in hashes
    ELSE agents[n] = None

Copies ==
    \A n \in Names \ touched :
        /\ agents[n] # Own
        /\ HasPlan /\ n \in NamesOf(Recorded) \ Eligible(seen) => n \in plan.drop
        /\ n \in CleanedAgents => agents[n] = None
        /\ n \notin CleanedAgents =>
               IsAs(n, IF run.at = "write" /\ Place(n) \notin todo THEN plan.make
                       ELSE Recorded)

\* What is to be dropped is a copy of aco's, as long as nobody edits it and
\* no removal fails halfway.
Dropping ==
    HasPlan /\ run.disturbed # "late" /\ run.option \notin {"clean", "forceclean"} =>
        \A n \in plan.drop :
            run.at # "write" \/ Place(n) \in todo => agents[n] # Own

\* The claims that last are dropped by edits and by the runs that write.
Wanted(n) == IF n \in Eligible(policy) THEN Content(policy, n) ELSE None

Lasts ==
    /\ last # {} /\ run.at # "idle" => run.disturbed = "no"
    /\ run.at # "idle" /\ ~Checks => last \subseteq {"strict"}
    /\ "sync" \in last => \A n \in Names \ touched : agents[n] = Wanted(n)

\* Two names of one skill.
Same(m, n) == m # n /\ Canonical[m] = Canonical[n] /\ Canonical[m] # Other
Alone(names) == \A m \in names, n \in names : ~Same(m, n)

\* Behind a passed strict check there is nothing to do for any run.
Strict ==
    "strict" \in last =>
        /\ Recorded = Hashed(policy)
        /\ Alone(OnDisk("agents") \cup (Eligible(policy) \ OfOtherKind(policy)))
        /\ Alone(OnDisk("codex"))
        /\ todo = {} /\ cleaned = {}
        /\ HasPlan => plan.drop = {}
        /\ HasPlan /\ run.at # "detect" => plan.clean = {}

\* Whatever a provider would see twice is to be cleaned; what is cleaned
\* does not come back.
Detected ==
    /\ run.at \in {"decide", "clean", "write"} /\ run.disturbed = "no"
    /\ run.at = "write" => OfOtherKind(policy) = {}
    => \A provider \in Providers :
           \A m \in Exposed(provider), n \in Exposed(provider) :
               Same(m, n) => [at |-> provider, name |-> m] \in plan.clean

Cleaned == run.disturbed = "no" => \A d \in cleaned : d.name \notin OnDisk(d.at)

Forced ==
    "forceclean" \in last /\ OfOtherKind(policy) = {} =>
        \A provider \in Providers : Alone(OnDisk(provider))

IInv ==
    /\ TypeOK
    /\ Ordered
    /\ Planning
    /\ Copies
    /\ Dropping
    /\ Lasts
    /\ Strict
    /\ Detected
    /\ Cleaned
    /\ Forced
-----------------------------------------------------------------------------
(***************************************************************************)
(* Names, contents and twins                                               *)
(***************************************************************************)

\* A copy has a content of the classifier.
LEMMA ContentFacts ==
    ASSUME NEW p, NEW n
    PROVE  Content(p, n) \in Contents
<1>1. Content(p, n) \subseteq {"owned", "kind"}
  BY DEF Content
<1>2. ASSUME NEW marks, marks \subseteq {"owned", "kind"}
      PROVE  marks \in Contents
  BY <1>2 DEF Contents
<1>3. QED
  BY <1>1, <1>2

\* What is eligible is a skill there is.
LEMMA EligibleFacts ==
    ASSUME NEW p \in Policies
    PROVE  /\ Eligible(p) \subseteq Names /\ Eligible(p) \subseteq p.sources
           /\ \A n : n \in Eligible(p) <=>
                  /\ n \in p.sources /\ n \notin p.exclude
                  /\ n \in p.include \cup p.owned \cup Builtin
  BY PolicyAssumption DEF Eligible, Policy

\* The names in a set of hashes.
LEMMA NamesOfFacts ==
    ASSUME NEW hashes \in SUBSET Hashes
    PROVE  /\ NamesOf(hashes) \subseteq Names
           /\ \A n : n \in NamesOf(hashes) <=>
                  \E c \in Contents : <<n, c>> \in hashes
<1>1. \A h \in hashes : h = <<h[1], h[2]>> /\ h[1] \in Names /\ h[2] \in Contents
  BY DEF Hashes
<1>2. QED
  BY <1>1 DEF NamesOf, Hashes

\* What is planned to be made has a name for each skill, and one content.
LEMMA MadeFacts ==
    ASSUME NEW p, NEW names \in SUBSET Names
    PROVE  /\ Made(p, names) \in SUBSET Hashes
           /\ NamesOf(Made(p, names)) = names
           /\ Functional(Made(p, names))
           /\ \A n, c : <<n, c>> \in Made(p, names)
                            <=> n \in names /\ c = Content(p, n)
<1>1. \A n, c : <<n, c>> \in Made(p, names) <=> n \in names /\ c = Content(p, n)
  BY DEF Made
<1>2. Made(p, names) \in SUBSET Hashes
  BY ContentFacts DEF Hashes, Made
<1>3. NamesOf(Made(p, names)) = names
  BY <1>1, <1>2, NamesOfFacts, ContentFacts
<1>4. Functional(Made(p, names))
  BY <1>1 DEF Functional
<1>5. QED
  BY <1>1, <1>2, <1>3, <1>4

\* Where no two names are of one skill, no name has a twin.
LEMMA AloneIsSingle ==
    ASSUME NEW names \in SUBSET Names, Alone(names), NEW n
    PROVE  Cardinality(Twins(names, n)) <= 1
<1>1. \A x, y \in Twins(names, n) : x = y
  BY DEF Alone, Same, Twins
<1>2. CASE Twins(names, n) = {}
  BY <1>2, FS_EmptySet
<1>3. CASE Twins(names, n) # {}
  <2>1. PICK x : x \in Twins(names, n)
    BY <1>3
  <2>2. Twins(names, n) = {x}
    BY <1>1, <2>1
  <2>3. QED
    BY <2>2, FS_Singleton
<1>4. QED
  BY <1>2, <1>3

\* Two names of one skill are twins, and count as more than one.
LEMMA SameAreTwins ==
    ASSUME NEW names \in SUBSET Names, NEW m \in names, NEW n \in names, Same(m, n)
    PROVE  Cardinality(Twins(names, m)) > 1
<1>1. m \in Twins(names, m) /\ n \in Twins(names, m) /\ m # n
  BY DEF Same, Twins
<1>2. IsFiniteSet(Twins(names, m))
  <2>1. Twins(names, m) \in SUBSET Names
    BY DEF Twins
  <2>2. QED
    BY <2>1, NamesAssumption, FS_Subset
<1>3. IsFiniteSet({m}) /\ Cardinality({m}) = 1
  BY FS_Singleton
<1>4. Cardinality({m} \cup {n}) = 2
  <2>1. Cardinality({m} \cup {n}) = Cardinality({m}) + 1
    <3>1. n \notin {m}
      BY <1>1
    <3>2. QED
      BY <1>3, <3>1, FS_AddElement
  <2>2. QED
    BY <1>3, <2>1
<1>5. {m} \cup {n} \in SUBSET Twins(names, m)
  BY <1>1
<1>6. Cardinality({m} \cup {n}) <= Cardinality(Twins(names, m))
  BY <1>2, <1>5, FS_Subset
<1>7. Cardinality(Twins(names, m)) \in Nat
  BY <1>2, FS_CardinalityType
<1>8. QED
  BY <1>4, <1>6, <1>7
-----------------------------------------------------------------------------
(***************************************************************************)
(* Types                                                                   *)
(***************************************************************************)

\* A run that is over keeps no plan.
LEMMA LeaveTypes ==
    ASSUME TypeOK, Leave
    PROVE  /\ run' \in [at: {"idle"}, option: Options, disturbed: {"no"}]
           /\ plan' \in [make: {{}}, drop: {{}}, clean: {{}}]
           /\ seen' \in Policies /\ todo' = {} /\ cleaned' = {}
  BY DEF Leave, NoRun, NoPlan, Options, TypeOK

\* A directory of .agents/skills becomes another one.
LEMMA AgentsType ==
    ASSUME TypeOK, NEW n, NEW directory \in Contents \cup {None, Own},
           agents' = [agents EXCEPT ![n] = directory]
    PROVE  agents' \in [Names -> Contents \cup {None, Own}]
  BY DEF TypeOK

\* What an option of the run reads and plans is of its type.
LEMMA PlanTypes ==
    ASSUME TypeOK
    PROVE  /\ Made(policy, Eligible(seen)) \in SUBSET Hashes
           /\ Recorded \in SUBSET Hashes
           /\ Stale \in SUBSET Names
           /\ Duplicates \in SUBSET Directories
           /\ NewManifest \in Manifests
<1>1. Eligible(seen) \in SUBSET Names /\ seen.sources \in SUBSET Names
  BY EligibleFacts, PolicyAssumption DEF TypeOK, Policy
<1>2. Made(policy, Eligible(seen)) \in SUBSET Hashes
  BY <1>1, MadeFacts
<1>3. Recorded \in SUBSET Hashes
  BY DEF Recorded, TypeOK, Manifests
<1>4. Stale \in SUBSET Names
  BY <1>3 DEF Stale, Unwanted, NamesOf, Hashes
<1>5. Duplicates \in SUBSET Directories
  BY DEF Duplicates
<1>6. NewManifest \in Manifests
  <2>1. {<<n, Content(seen, n)>> : n \in seen.sources} \in SUBSET Hashes
    <3>1. Made(seen, seen.sources) \in SUBSET Hashes
      BY <1>1, MadeFacts
    <3>2. QED
      BY <3>1 DEF Made
  <2>2. {h \in plan.make : h[1] \notin CleanedAgents} \in SUBSET Hashes
    BY DEF TypeOK
  <2>3. QED
    BY <2>1, <2>2 DEF NewManifest, Manifests
<1>7. QED
  BY <1>2, <1>3, <1>4, <1>5, <1>6

\* Every edit preserves the types.
LEMMA UserTypes ==
    ASSUME TypeOK, User
    PROVE  TypeOK'
<1>1. /\ edits' \in 0..MaxEdits /\ last' = {}
      /\ run' \in [at: {"idle", "plan", "detect", "decide", "clean", "write"},
                   option: Options, disturbed: {"no", "early", "late"}]
      /\ UNCHANGED <<manifest, seen, plan, todo, cleaned>>
  <2>1. Edited
    BY DEF User, EditPolicy, EditAgents, EditCodex
  <2>2. edits' \in 0..MaxEdits
    BY <2>1, BoundsAssumption DEF Edited, TypeOK
  <2>3. QED
    BY <2>1, <2>2 DEF Edited, TypeOK
<1>2. /\ policy' \in Policies /\ codex' \in SUBSET Names
      /\ touched' \in SUBSET Names
      /\ agents' \in [Names -> Contents \cup {None, Own}]
  <2>1. CASE EditPolicy
    BY <2>1 DEF EditPolicy, TypeOK
  <2>2. ASSUME NEW n \in Names, EditAgents(n) \/ EditCodex(n)
        PROVE  /\ policy' \in Policies /\ codex' \in SUBSET Names
               /\ touched' \in SUBSET Names
               /\ agents' \in [Names -> Contents \cup {None, Own}]
    BY <2>2 DEF EditAgents, EditCodex, TypeOK
  <2>3. QED
    BY <2>1, <2>2 DEF User
<1>3. QED
  BY <1>1, <1>2 DEF TypeOK

\* Every step of a run preserves the types.
LEMMA EngineTypes ==
    ASSUME TypeOK, Engine
    PROVE  TypeOK'
<1> USE DEF userVars, diskVars
<1>1. ASSUME NEW option \in Options, Begin(option)
      PROVE  TypeOK'
  BY <1>1 DEF Begin, TypeOK
<1>2. CASE NoSources
  BY <1>2 DEF NoSources, TypeOK, vars
<1>3. CASE PlanThrows \/ CheckPasses \/ CheckFails
  <2>1. /\ Leave /\ UNCHANGED <<policy, edits, agents, codex, manifest, touched>>
        /\ last' \in SUBSET Lasting
    BY <1>3 DEF PlanThrows, CheckPasses, CheckFails, TypeOK, Lasting
  <2>2. QED
    BY <2>1, LeaveTypes DEF TypeOK
<1>4. CASE ComputePlan
  <2>1. plan' \in [make: SUBSET Hashes, drop: SUBSET Names, clean: SUBSET Directories]
    BY <1>4, PlanTypes DEF ComputePlan, Made
  <2>2. QED
    BY <1>4, <2>1 DEF ComputePlan, TypeOK
<1>5. CASE Detect
  <2>1. plan' \in [make: SUBSET Hashes, drop: SUBSET Names, clean: SUBSET Directories]
    BY <1>5, PlanTypes DEF Detect, TypeOK
  <2>2. QED
    BY <1>5, <2>1 DEF Detect, TypeOK
<1>6. CASE Proceed
  BY <1>6 DEF Proceed, TypeOK
<1>7. CASE StartWriting
  <2>1. Outputs \subseteq Names
    <3>1. NamesOf(plan.make \ Recorded) \subseteq Names
      BY NamesOfFacts DEF TypeOK
    <3>2. QED
      BY <3>1 DEF Outputs, TypeOK
  <2>2. todo' \in SUBSET Directories
    BY <1>7, <2>1 DEF StartWriting, Directories, Providers
  <2>3. QED
    BY <1>7, <2>2 DEF StartWriting, TypeOK
<1>8. ASSUME NEW d \in todo, \/ Clean(d) \/ RefuseToClean(d) \/ CleanFails(d)
                             \/ Drop(d) \/ DropFails(d) \/ Copy(d)
      PROVE  TypeOK'
  <2>1. d \in Directories /\ d.name \in Names
    BY DEF TypeOK, Directories
  <2>2. agents' \in [Names -> Contents \cup {None, Own}] /\ touched' \in SUBSET Names
    <3>1. CASE Clean(d) \/ RefuseToClean(d) \/ Drop(d)
      BY <3>1, AgentsType DEF Clean, RefuseToClean, Drop, TypeOK
    <3>2. CASE CleanFails(d) \/ DropFails(d)
      <4>1. CASE UNCHANGED <<agents, touched>>
        BY <4>1 DEF TypeOK
      <4>2. CASE RemovalFails(d.name)
        <5>1. PICK rest \in Torn(d.name) : agents' = [agents EXCEPT ![d.name] = rest]
          BY <4>2 DEF RemovalFails
        <5>2. rest \in Contents \cup {None, Own}
          BY <2>1 DEF Torn, TypeOK
        <5>3. QED
          BY <2>1, <4>2, <5>1, <5>2, AgentsType DEF RemovalFails, TypeOK
      <4>3. QED
        BY <3>2, <4>1, <4>2 DEF CleanFails, DropFails
    <3>3. CASE Copy(d)
      <4>1. PICK copy \in {Content(policy, d.name), Own} :
                agents' = [agents EXCEPT ![d.name] = copy]
        BY <3>3 DEF Copy
      <4>2. copy \in Contents \cup {None, Own}
        BY ContentFacts
      <4>3. touched' \in SUBSET Names
        BY <2>1, <3>3 DEF Copy, TypeOK
      <4>4. QED
        BY <4>1, <4>2, <4>3, AgentsType
    <3>4. QED
      BY <1>8, <3>1, <3>2, <3>3
  <2>3. /\ UNCHANGED <<policy, edits, manifest, run, seen, plan, last>>
        /\ codex' \in SUBSET Names
        /\ todo' \in SUBSET Directories /\ cleaned' \in SUBSET Directories
    BY <1>8, <2>1
    DEF Clean, RefuseToClean, CleanFails, Drop, DropFails, Copy, TypeOK
  <2>4. QED
    BY <2>2, <2>3 DEF TypeOK
<1>9. CASE Save
  <2>1. manifest' \in Manifests /\ last' \in SUBSET Lasting
    BY <1>9, PlanTypes DEF Save, Earned, TypeOK
  <2>2. QED
    BY <1>9, <2>1, LeaveTypes DEF Save, TypeOK
<1>10. CASE Stop
  <2>1. Planned \subseteq Names
    BY NamesOfFacts DEF Planned, TypeOK, Directories
  <2>2. /\ agents' \in [Names -> Contents \cup {None, Own}]
        /\ touched' \in SUBSET Names /\ manifest' \in Manifests \cup {NoManifest}
    <3>1. CASE UNCHANGED <<agents, manifest>> /\ touched' = touched \cup Planned
      BY <2>1, <3>1 DEF TypeOK
    <3>2. ASSUME NEW d \in todo, NEW rest \in {None, Own},
                 agents' = [agents EXCEPT ![d.name] = rest],
                 touched' = touched \cup Planned, UNCHANGED manifest
          PROVE  /\ agents' \in [Names -> Contents \cup {None, Own}]
                 /\ touched' \in SUBSET Names
                 /\ manifest' \in Manifests \cup {NoManifest}
      BY <2>1, <3>2, AgentsType DEF TypeOK
    <3>3. CASE manifest' = NoManifest /\ touched' = Names /\ UNCHANGED agents
      BY <3>3 DEF TypeOK
    <3>4. QED
      BY <1>10, <3>1, <3>2, <3>3 DEF Stop
  <2>3. QED
    BY <1>10, <2>2, LeaveTypes DEF Stop, TypeOK
<1>11. QED
  BY <1>1, <1>2, <1>3, <1>4, <1>5, <1>6, <1>7, <1>8, <1>9, <1>10 DEF Engine
-----------------------------------------------------------------------------
(***************************************************************************)
(* The invariant is inductive                                              *)
(***************************************************************************)

\* What depends on the directories and the manifest alone.
LEMMA SameDisk ==
    ASSUME UNCHANGED diskVars
    PROVE  /\ agents' = agents /\ codex' = codex /\ manifest' = manifest
           /\ Recorded' = Recorded
           /\ \A provider : OnDisk(provider)' = OnDisk(provider)
           /\ \A n, hashes : IsAs(n, hashes)' = IsAs(n, hashes)
  BY DEF diskVars, Recorded, OnDisk, IsAs, NamesOf

\* An edit disturbs the run, and is remembered.
LEMMA UserKeeps ==
    ASSUME IInv, User
    PROVE  IInv'
<1> USE DEF IInv
<1>1. TypeOK'
  BY UserTypes
<1>2. /\ UNCHANGED <<manifest, seen, plan, todo, cleaned>> /\ last' = {}
      /\ run'.at = run.at /\ run'.option = run.option
      /\ run'.disturbed = "no" => run.at = "idle"
      /\ HasPlan => run'.disturbed = "late"
  <2>1. Edited
    BY DEF User, EditPolicy, EditAgents, EditCodex
  <2>2. QED
    BY <2>1 DEF Edited, TypeOK, HasPlan
<1>3. /\ touched \subseteq touched'
      /\ \A n \in Names \ touched' : agents'[n] = agents[n]
  BY DEF User, EditPolicy, EditAgents, EditCodex, TypeOK
<1>4. /\ Recorded' = Recorded /\ CleanedAgents' = CleanedAgents
      /\ HasPlan' = HasPlan /\ Outputs' = Outputs /\ Checks' = Checks
  BY <1>2 DEF Recorded, CleanedAgents, HasPlan, Outputs, Checks, NamesOf
<1>5. Ordered'
  BY <1>2, <1>4 DEF Ordered
<1>6. Planning'
  BY <1>2, <1>4 DEF Planning, NamesOf, Functional, Eligible
<1>7. Copies'
  <2>1. Eligible(seen)' = Eligible(seen)
    BY <1>2 DEF Eligible
  <2>2. SUFFICES ASSUME NEW n \in Names, n \notin touched'
                 PROVE  /\ agents'[n] # Own
                        /\ HasPlan /\ n \in NamesOf(Recorded) \ Eligible(seen)
                               => n \in plan.drop
                        /\ n \in CleanedAgents => agents'[n] = None
                        /\ n \notin CleanedAgents =>
                               IsAs(n, IF run.at = "write" /\ Place(n) \notin todo
                                       THEN plan.make ELSE Recorded)'
    BY <1>2, <1>4, <2>1 DEF Copies, NamesOf, Place
  <2>3. n \notin touched /\ agents'[n] = agents[n]
    BY <1>3, <2>2
  <2>4. CASE run.at = "write" /\ Place(n) \notin todo
    <3>1. n \notin CleanedAgents => IsAs(n, plan.make)
      BY <2>2, <2>3, <2>4 DEF Copies
    <3>2. n \notin CleanedAgents => IsAs(n, plan.make)'
      BY <1>2, <2>2, <3>1, <1>3 DEF IsAs, NamesOf
    <3>3. QED
      BY <1>2, <2>2, <2>3, <2>4, <3>2 DEF Copies, Place
  <2>5. CASE ~(run.at = "write" /\ Place(n) \notin todo)
    <3>1. n \notin CleanedAgents => IsAs(n, Recorded)
      BY <2>2, <2>3, <2>5 DEF Copies
    <3>2. n \notin CleanedAgents => IsAs(n, Recorded)'
      BY <1>4, <2>2, <3>1, <1>3 DEF IsAs, NamesOf
    <3>3. QED
      BY <1>2, <2>2, <2>3, <2>5, <3>2 DEF Copies, Place
  <2>6. QED
    BY <2>4, <2>5
<1>8. Dropping'
  BY <1>2, <1>4 DEF Dropping
<1>9. Lasts' /\ Strict' /\ Forced'
  BY <1>2 DEF Lasts, Strict, Forced
<1>10. Detected'
  BY <1>2 DEF Detected
<1>11. Cleaned'
  BY <1>2 DEF Cleaned, Ordered
<1>12. QED
  BY <1>1, <1>5, <1>6, <1>7, <1>8, <1>9, <1>10, <1>11

\* What depends on the policy alone.
LEMMA SamePolicy ==
    ASSUME policy' = policy
    PROVE  /\ Hashed(policy)' = Hashed(policy)
           /\ Eligible(policy)' = Eligible(policy)
           /\ OfOtherKind(policy)' = OfOtherKind(policy)
           /\ \A n : Wanted(n)' = Wanted(n)
  BY DEF Hashed, Made, Eligible, OfOtherKind, Wanted, Content

\* A run that leaves before it writes leaves all in order, if it claims no
\* more than was known.
LEMMA LeaveKeeps ==
    ASSUME IInv, TypeOK', Leave, UNCHANGED userVars, UNCHANGED diskVars,
           touched' = touched, run.at \notin {"clean", "write"},
           last' \subseteq last \cup {"strict"},
           "strict" \in last' =>
               /\ Recorded = Hashed(policy)
               /\ Alone(OnDisk("agents") \cup (Eligible(policy) \ OfOtherKind(policy)))
               /\ Alone(OnDisk("codex"))
    PROVE  IInv'
<1> USE DEF IInv
<1>1. /\ run'.at = "idle" /\ todo' = {} /\ cleaned' = {} /\ run'.option = "sync"
      /\ policy' = policy
  BY DEF Leave, NoRun, userVars
<1>2. /\ agents' = agents /\ Recorded' = Recorded
      /\ \A provider : OnDisk(provider)' = OnDisk(provider)
      /\ \A n, hashes : IsAs(n, hashes)' = IsAs(n, hashes)
  BY SameDisk
<1>3. ~HasPlan'
  BY <1>1 DEF HasPlan
<1>4. Ordered'
  BY <1>1 DEF Ordered
<1>5. Planning'
  BY <1>1, <1>2, <1>3 DEF Planning, Functional
<1>6. Copies'
  <2>1. \A n : n \notin CleanedAgents /\ n \notin CleanedAgents'
    BY <1>1 DEF Ordered, CleanedAgents
  <2>2. \A n \in Names \ touched : agents[n] # Own /\ IsAs(n, Recorded)
    BY <2>1 DEF Copies
  <2>3. \A n \in Names \ touched : IsAs(n, Recorded)'
    BY <1>2, <2>2 DEF IsAs, NamesOf
  <2>4. QED
    BY <1>1, <1>2, <1>3, <2>1, <2>2, <2>3 DEF Copies
<1>7. Dropping' /\ Detected' /\ Cleaned'
  BY <1>1, <1>3 DEF Dropping, Detected, Cleaned
<1>8. Lasts'
  BY <1>1, <1>2, SamePolicy DEF Lasts
<1>9. Strict'
  BY <1>1, <1>2, <1>3, SamePolicy DEF Strict, Alone, Same
<1>10. Forced'
  BY <1>1, <1>2, SamePolicy DEF Forced, Alone, Same
<1>11. QED
  BY <1>4, <1>5, <1>6, <1>7, <1>8, <1>9, <1>10

\* A strict check that passes undisturbed has found nothing to do.
LEMMA PassedIsStrict ==
    ASSUME IInv, CheckPasses, run.option = "strict", run.disturbed = "no"
    PROVE  /\ Recorded = Hashed(policy)
           /\ Alone(OnDisk("agents") \cup (Eligible(policy) \ OfOtherKind(policy)))
           /\ Alone(OnDisk("codex"))
<1> USE DEF IInv
<1>1. /\ run.at = "decide" /\ manifest = NewManifest /\ plan.clean = {}
      /\ cleaned = {}
  BY DEF CheckPasses, CheckFailing, Ordered
<1>2. /\ seen = policy /\ plan.make = Hashed(policy)
      /\ NamesOf(plan.make) = Eligible(policy)
  BY <1>1 DEF Planning, HasPlan
<1>3. Recorded = plan.make
  <2>1. manifest # NoManifest
    BY <1>1, PlanTypes, ManifestAssumption
  <2>2. CleanedAgents = {}
    BY <1>1 DEF CleanedAgents
  <2>3. QED
    BY <1>1, <2>1, <2>2 DEF Recorded, NewManifest
<1>4. \A provider \in Providers : Alone(Exposed(provider))
  BY <1>1 DEF Detected, Alone
<1>5. /\ Exposed("codex") = OnDisk("codex")
      /\ Exposed("agents") = OnDisk("agents") \cup (Eligible(policy) \ OfOtherKind(policy))
  BY <1>2 DEF Exposed
<1>6. QED
  BY <1>2, <1>3, <1>4, <1>5 DEF Providers

\* Runs that end before they write keep all in order.
LEMMA EndsKeep ==
    ASSUME IInv, TypeOK', PlanThrows \/ CheckPasses \/ CheckFails
    PROVE  IInv'
<1> USE DEF IInv
<1>1. /\ Leave /\ UNCHANGED userVars /\ UNCHANGED diskVars
      /\ touched' = touched /\ run.at \notin {"clean", "write"}
      /\ last' \subseteq last \cup {"strict"}
      /\ "strict" \in last' \ last =>
             CheckPasses /\ run.option = "strict" /\ run.disturbed = "no"
  BY DEF PlanThrows, CheckPasses, CheckFails
<1>2. "strict" \in last' =>
          /\ Recorded = Hashed(policy)
          /\ Alone(OnDisk("agents") \cup (Eligible(policy) \ OfOtherKind(policy)))
          /\ Alone(OnDisk("codex"))
  <2>1. CASE "strict" \in last
    BY <2>1 DEF Strict
  <2>2. CASE "strict" \notin last
    BY <1>1, <2>2, PassedIsStrict
  <2>3. QED
    BY <2>1, <2>2
<1>3. QED
  BY <1>1, <1>2, LeaveKeeps

\* What is read is current.
LEMMA BeginKeeps ==
    ASSUME IInv, TypeOK', NEW option \in Options, Begin(option)
    PROVE  IInv'
<1> USE DEF IInv
<1>1. /\ run.at = "idle" /\ run'.at = "plan" /\ run'.disturbed = "no"
      /\ seen' = policy /\ policy' = policy /\ last' \subseteq last
      /\ ~Checks' => last' \subseteq {"strict"}
      /\ todo' = {} /\ cleaned' = {} /\ touched' = touched
      /\ UNCHANGED diskVars /\ ~HasPlan /\ ~HasPlan'
  BY DEF Begin, Checks, userVars, Ordered, HasPlan
<1>2. /\ agents' = agents /\ Recorded' = Recorded
      /\ \A provider : OnDisk(provider)' = OnDisk(provider)
      /\ \A n, hashes : IsAs(n, hashes)' = IsAs(n, hashes)
  BY <1>1, SameDisk
<1>3. Ordered'
  BY <1>1 DEF Ordered
<1>4. Planning'
  BY <1>1, <1>2 DEF Planning, Functional
<1>5. Copies'
  <2>1. \A n : n \notin CleanedAgents /\ n \notin CleanedAgents'
    BY <1>1 DEF Ordered, CleanedAgents
  <2>2. \A n \in Names \ touched : agents[n] # Own /\ IsAs(n, Recorded)
    BY <1>1, <2>1 DEF Copies
  <2>3. \A n \in Names \ touched : IsAs(n, Recorded)'
    BY <1>2, <2>2 DEF IsAs, NamesOf
  <2>4. QED
    BY <1>1, <1>2, <2>1, <2>2, <2>3 DEF Copies
<1>6. Dropping' /\ Detected' /\ Cleaned'
  BY <1>1 DEF Dropping, Detected, Cleaned
<1>7. Lasts'
  BY <1>1, <1>2, SamePolicy DEF Lasts
<1>8. Strict'
  BY <1>1, <1>2, SamePolicy DEF Strict, Alone, Same
<1>9. Forced'
  BY <1>1, <1>2, SamePolicy DEF Forced, Alone, Same
<1>10. QED
  BY <1>3, <1>4, <1>5, <1>6, <1>7, <1>8, <1>9

\* The plan makes what is eligible, and drops what is not, of what nobody
\* else has touched.
LEMMA PlanKeeps ==
    ASSUME IInv, TypeOK', ComputePlan
    PROVE  IInv'
<1> USE DEF IInv
<1>1. /\ run.at = "plan" /\ run'.at = "detect" /\ run'.option = run.option
      /\ run'.disturbed = run.disturbed
      /\ seen' = seen /\ policy' = policy /\ last' = last
      /\ todo' = {} /\ cleaned' = {} /\ todo = {} /\ cleaned = {}
      /\ touched' = touched
      /\ plan'.make = Made(policy, Eligible(seen)) /\ plan'.drop = Stale
      /\ UNCHANGED diskVars
  BY DEF ComputePlan, userVars, Ordered, TypeOK, Made
<1>2. /\ agents' = agents /\ Recorded' = Recorded
      /\ \A provider : OnDisk(provider)' = OnDisk(provider)
      /\ \A n, hashes : IsAs(n, hashes)' = IsAs(n, hashes)
  BY <1>1, SameDisk
<1>3. /\ Eligible(seen)' = Eligible(seen) /\ Eligible(seen) \in SUBSET Names
      /\ NamesOf(Recorded)' = NamesOf(Recorded)
      /\ Checks' = Checks
  BY <1>1, <1>2, EligibleFacts DEF Eligible, TypeOK, NamesOf, Checks
<1>4. Ordered'
  BY <1>1, <1>3 DEF Ordered
<1>5. \A n \in Names : n \in Stale <=>
          n \notin Eligible(seen) /\ \E c \in Contents :
                                         <<n, c>> \in Recorded /\ agents[n] = c
  <2> DEFINE Gone == {h \in Unwanted : agents[h[1]] = h[2]}
  <2>1. Gone \in SUBSET Hashes /\ Stale = NamesOf(Gone)
    BY PlanTypes DEF Stale, Unwanted
  <2>2. \A n, c : <<n, c>> \in Gone <=>
                  <<n, c>> \in Recorded /\ n \notin Eligible(seen) /\ agents[n] = c
    BY DEF Unwanted
  <2> HIDE DEF Gone
  <2>3. QED
    BY <2>1, <2>2, NamesOfFacts
<1>6. Planning'
  <2>1. /\ NamesOf(plan'.make) = Eligible(seen) /\ Functional(plan'.make)
    BY <1>1, <1>3, MadeFacts
  <2>2. Stale \subseteq NamesOf(Recorded) \ Eligible(seen)
    BY <1>5, PlanTypes, NamesOfFacts
  <2>3. run.disturbed = "no" => plan'.make = Hashed(policy)
    BY <1>1 DEF Planning, Hashed
  <2>4. QED
    BY <1>1, <1>2, <1>3, <2>1, <2>2, <2>3, SamePolicy
    DEF Planning, Functional, NamesOf
<1>7. Copies'
  <2>1. \A n : n \notin CleanedAgents /\ n \notin CleanedAgents'
    BY <1>1 DEF CleanedAgents
  <2>2. \A n \in Names \ touched : agents[n] # Own /\ IsAs(n, Recorded)
    BY <1>1, <2>1 DEF Copies
  <2>3. \A n \in Names \ touched : IsAs(n, Recorded)'
    BY <1>2, <2>2 DEF IsAs, NamesOf
  <2>4. ASSUME NEW n \in Names \ touched, n \in NamesOf(Recorded) \ Eligible(seen)
        PROVE  n \in Stale
    <3>1. <<n, agents[n]>> \in Recorded
      BY <2>2, <2>4 DEF IsAs
    <3>2. agents[n] \in Contents
      BY <3>1, PlanTypes DEF Hashes
    <3>3. QED
      BY <1>5, <2>4, <3>1, <3>2
  <2>5. QED
    BY <1>1, <1>2, <1>3, <2>1, <2>2, <2>3, <2>4 DEF Copies
<1>8. Dropping'
  BY <1>1, <1>2, <1>5, ContentsAssumption, PlanTypes DEF Dropping
<1>9. Lasts'
  BY <1>1, <1>2, <1>3, SamePolicy DEF Lasts
<1>10. Strict'
  <2>1. ASSUME "strict" \in last
        PROVE  Stale = {}
    <3>1. seen = policy /\ Recorded = Hashed(policy)
      BY <1>1, <2>1 DEF Lasts, Planning, Strict
    <3>2. NamesOf(Recorded) = Eligible(seen)
      BY <1>3, <3>1, MadeFacts DEF Hashed
    <3>3. \A n \in Stale : n \in Names /\ n \in NamesOf(Recorded) /\ n \notin Eligible(seen)
      BY <1>5, PlanTypes, NamesOfFacts
    <3>4. QED
      BY <3>2, <3>3
  <2>2. QED
    BY <1>1, <1>2, <2>1, SamePolicy DEF Strict, Alone, Same
<1>11. Detected' /\ Cleaned'
  BY <1>1 DEF Detected, Cleaned
<1>12. Forced'
  BY <1>1, <1>2, SamePolicy DEF Forced, Alone, Same
<1>13. QED
  BY <1>4, <1>6, <1>7, <1>8, <1>9, <1>10, <1>11, <1>12

\* A provider is shown names, those on its disk among them.
LEMMA ExposedFacts ==
    ASSUME TypeOK, NEW provider \in Providers
    PROVE  /\ OnDisk(provider) \subseteq Names
           /\ Exposed(provider) \subseteq Names
           /\ provider = "codex" => Exposed(provider) = OnDisk(provider)
           /\ provider = "agents" => Exposed(provider) =
                  OnDisk(provider) \cup (NamesOf(plan.make) \ OfOtherKind(seen))
<1>1. NamesOf(plan.make) \subseteq Names
  BY NamesOfFacts DEF TypeOK
<1>2. QED
  BY <1>1 DEF Exposed, OnDisk, TypeOK, Providers

\* What a provider would see, as long as the plan stands.
LEMMA SameExposed ==
    ASSUME UNCHANGED diskVars, seen' = seen, plan'.make = plan.make
    PROVE  /\ \A provider : Exposed(provider)' = Exposed(provider)
           /\ Eligible(seen)' = Eligible(seen)
           /\ NamesOf(Recorded)' = NamesOf(Recorded)
           /\ NamesOf(plan.make)' = NamesOf(plan.make)
  BY SameDisk DEF Exposed, OfOtherKind, Eligible, NamesOf

\* What is seen twice is found, and nothing behind a strict check.
LEMMA DetectKeeps ==
    ASSUME IInv, TypeOK', Detect
    PROVE  IInv'
<1> USE DEF IInv
<1>1. /\ run.at = "detect" /\ run'.at = "decide" /\ run'.option = run.option
      /\ run'.disturbed = run.disturbed
      /\ seen' = seen /\ policy' = policy /\ last' = last
      /\ todo' = {} /\ cleaned' = {} /\ todo = {} /\ cleaned = {}
      /\ touched' = touched
      /\ plan'.make = plan.make /\ plan'.drop = plan.drop
      /\ plan'.clean = Duplicates
      /\ UNCHANGED diskVars
  BY DEF Detect, userVars, Ordered, TypeOK
<1>2. /\ agents' = agents /\ Recorded' = Recorded
      /\ \A provider : OnDisk(provider)' = OnDisk(provider)
      /\ \A n, hashes : IsAs(n, hashes)' = IsAs(n, hashes)
  BY <1>1, SameDisk
<1>3. /\ \A provider : Exposed(provider)' = Exposed(provider)
      /\ Eligible(seen)' = Eligible(seen)
      /\ NamesOf(Recorded)' = NamesOf(Recorded)
      /\ NamesOf(plan.make)' = NamesOf(plan.make)
  BY <1>1, SameExposed
<1>4. Ordered'
  BY <1>1 DEF Ordered, Checks
<1>5. Planning'
  BY <1>1, <1>2, <1>3, SamePolicy DEF Planning, HasPlan, Functional
<1>6. Copies'
  <2>1. \A n : n \notin CleanedAgents /\ n \notin CleanedAgents'
    BY <1>1 DEF CleanedAgents
  <2>2. \A n \in Names \ touched : agents[n] # Own /\ IsAs(n, Recorded)
    BY <1>1, <2>1 DEF Copies
  <2>3. \A n \in Names \ touched : IsAs(n, Recorded)'
    BY <1>2, <2>2 DEF IsAs, NamesOf
  <2>4. \A n \in Names \ touched :
            n \in NamesOf(Recorded) \ Eligible(seen) => n \in plan.drop
    BY <1>1 DEF Copies, HasPlan
  <2>5. QED
    BY <1>1, <1>2, <1>3, <2>1, <2>2, <2>3, <2>4 DEF Copies
<1>7. Dropping'
  BY <1>1, <1>2 DEF Dropping, HasPlan
<1>8. Lasts'
  BY <1>1, <1>2, SamePolicy DEF Lasts, Checks
<1>9. Strict'
  <2>1. ASSUME "strict" \in last
        PROVE  Duplicates = {}
    <3>1. seen = policy /\ NamesOf(plan.make) = Eligible(policy)
      BY <1>1, <2>1 DEF Lasts, Planning, HasPlan
    <3>2. \A provider \in Providers :
              Exposed(provider) \in SUBSET Names /\ Alone(Exposed(provider))
      BY <2>1, <3>1, ExposedFacts DEF Strict, Providers
    <3>3. ASSUME NEW d \in Duplicates
          PROVE  FALSE
      <4>1. d.at \in Providers
        BY DEF Duplicates, Directories
      <4>2. Cardinality(Twins(Exposed(d.at), d.name)) <= 1
        BY <3>2, <4>1, AloneIsSingle
      <4>3. Cardinality(Twins(Exposed(d.at), d.name)) > 1
        BY DEF Duplicates
      <4>4. Cardinality(Twins(Exposed(d.at), d.name)) \in Nat
        <5>1. Twins(Exposed(d.at), d.name) \in SUBSET Names
          BY <3>2, <4>1 DEF Twins
        <5>2. QED
          BY <5>1, NamesAssumption, FS_Subset, FS_CardinalityType
      <4>5. QED
        BY <4>2, <4>3, <4>4
    <3>4. QED
      BY <3>3
  <2>2. QED
    BY <1>1, <1>2, <2>1, SamePolicy DEF Strict, Alone, Same, HasPlan
<1>10. Detected'
  <2>1. ASSUME NEW provider \in Providers, NEW m \in Exposed(provider),
               NEW n \in Exposed(provider), Same(m, n)
        PROVE  [at |-> provider, name |-> m] \in Duplicates
    <3>1. Exposed(provider) \in SUBSET Names
      BY ExposedFacts
    <3>2. Cardinality(Twins(Exposed(provider), m)) > 1
      BY <2>1, <3>1, SameAreTwins
    <3>3. [at |-> provider, name |-> m] \in Directories
      BY <3>1 DEF Directories
    <3>4. QED
      BY <3>2, <3>3 DEF Duplicates
  <2>2. QED
    BY <1>1, <1>3, <2>1 DEF Detected, Same
<1>11. Cleaned'
  BY <1>1 DEF Cleaned
<1>12. Forced'
  BY <1>1, <1>2, SamePolicy DEF Forced, Alone, Same
<1>13. QED
  BY <1>4, <1>5, <1>6, <1>7, <1>8, <1>9, <1>10, <1>11, <1>12

\* The decision to go on takes over what is to be cleaned, and no more.
LEMMA ProceedKeeps ==
    ASSUME IInv, TypeOK', Proceed
    PROVE  IInv'
<1> USE DEF IInv
<1>1. /\ run.at = "decide" /\ run'.at = "clean" /\ run'.option = run.option
      /\ run'.disturbed = run.disturbed /\ ~Checks
      /\ seen' = seen /\ policy' = policy /\ last' = last /\ plan' = plan
      /\ cleaned' = {} /\ todo = {} /\ cleaned = {} /\ touched' = touched
      /\ todo' = IF run.option = "sync" THEN {} ELSE plan.clean
      /\ UNCHANGED diskVars
  BY DEF Proceed, userVars, Ordered, TypeOK
<1>2. /\ agents' = agents /\ Recorded' = Recorded
      /\ \A provider : OnDisk(provider)' = OnDisk(provider)
      /\ \A n, hashes : IsAs(n, hashes)' = IsAs(n, hashes)
  BY <1>1, SameDisk
<1>3. /\ \A provider : Exposed(provider)' = Exposed(provider)
      /\ Eligible(seen)' = Eligible(seen)
      /\ NamesOf(Recorded)' = NamesOf(Recorded)
      /\ NamesOf(plan.make)' = NamesOf(plan.make)
  BY <1>1, SameExposed
<1>4. Ordered'
  BY <1>1 DEF Ordered, Checks
<1>5. Planning'
  BY <1>1, <1>2, <1>3, SamePolicy DEF Planning, HasPlan, Functional
<1>6. Copies'
  <2>1. \A n : n \notin CleanedAgents /\ n \notin CleanedAgents'
    BY <1>1 DEF CleanedAgents
  <2>2. \A n \in Names \ touched : agents[n] # Own /\ IsAs(n, Recorded)
    BY <1>1, <2>1 DEF Copies
  <2>3. \A n \in Names \ touched : IsAs(n, Recorded)'
    BY <1>2, <2>2 DEF IsAs, NamesOf
  <2>4. \A n \in Names \ touched :
            n \in NamesOf(Recorded) \ Eligible(seen) => n \in plan.drop
    BY <1>1 DEF Copies, HasPlan
  <2>5. QED
    BY <1>1, <1>2, <1>3, <2>1, <2>2, <2>3, <2>4 DEF Copies
<1>7. Dropping'
  BY <1>1, <1>2 DEF Dropping, HasPlan
<1>8. Lasts'
  BY <1>1, <1>2, SamePolicy DEF Lasts, Checks
<1>9. Strict'
  BY <1>1, <1>2, SamePolicy DEF Strict, Alone, Same, HasPlan
<1>10. Detected'
  BY <1>1, <1>3 DEF Detected, Same
<1>11. Cleaned'
  BY <1>1 DEF Cleaned
<1>12. Forced'
  BY <1>1, <1>2, SamePolicy DEF Forced, Alone, Same
<1>13. QED
  BY <1>4, <1>5, <1>6, <1>7, <1>8, <1>9, <1>10, <1>11, <1>12

\* What is not to be written is on the disk as it is to be recorded.
LEMMA StartKeeps ==
    ASSUME IInv, TypeOK', StartWriting
    PROVE  IInv'
<1> USE DEF IInv
<1>1. /\ run.at = "clean" /\ run'.at = "write" /\ run'.option = run.option
      /\ run'.disturbed = run.disturbed /\ ~Checks
      /\ seen' = seen /\ policy' = policy /\ last' = last /\ plan' = plan
      /\ cleaned' = cleaned /\ todo = {} /\ touched' = touched
      /\ todo' = {Place(n) : n \in Outputs}
      /\ UNCHANGED diskVars
  BY DEF StartWriting, userVars, Ordered, TypeOK, Place
<1>2. /\ agents' = agents /\ Recorded' = Recorded
      /\ \A provider : OnDisk(provider)' = OnDisk(provider)
      /\ \A n, hashes : IsAs(n, hashes)' = IsAs(n, hashes)
  BY <1>1, SameDisk
<1>3. /\ \A provider : Exposed(provider)' = Exposed(provider)
      /\ Eligible(seen)' = Eligible(seen)
      /\ NamesOf(Recorded)' = NamesOf(Recorded)
      /\ NamesOf(plan.make)' = NamesOf(plan.make)
  BY <1>1, SameExposed
<1>4. CleanedAgents' = CleanedAgents /\ Outputs' = Outputs
  BY <1>1, <1>2 DEF CleanedAgents, Outputs, NamesOf
<1>5. \A n : Place(n) \in todo' <=> n \in Outputs
  BY <1>1 DEF Place
<1>6. Ordered'
  BY <1>1, <1>4 DEF Ordered, Checks, Place
<1>7. Planning'
  BY <1>1, <1>2, <1>3, SamePolicy DEF Planning, HasPlan, Functional
<1>8. Copies'
  <2>1. \A n \in Names \ touched :
            /\ agents[n] # Own
            /\ n \in NamesOf(Recorded) \ Eligible(seen) => n \in plan.drop
            /\ n \in CleanedAgents => agents[n] = None
            /\ n \notin CleanedAgents => IsAs(n, Recorded)
    BY <1>1 DEF Copies, HasPlan
  <2>2. ASSUME NEW n \in Names \ touched, n \notin CleanedAgents, n \notin Outputs
        PROVE  IsAs(n, plan.make)
    <3>1. n \notin plan.drop /\ n \notin NamesOf(plan.make \ Recorded)
      BY <2>2 DEF Outputs
    <3>2. CASE n \in NamesOf(plan.make)
      <4>1. PICK c \in Contents : <<n, c>> \in plan.make
        BY <3>2, NamesOfFacts DEF TypeOK
      <4>2. <<n, c>> \in Recorded
        <5>1. plan.make \ Recorded \in SUBSET Hashes
          BY DEF TypeOK
        <5>2. QED
          BY <3>1, <4>1, <5>1, NamesOfFacts
      <4>3. <<n, agents[n]>> \in Recorded
        BY <2>1, <2>2, <4>2, PlanTypes, NamesOfFacts DEF IsAs
      <4>4. agents[n] \in Contents
        BY <4>3, PlanTypes DEF Hashes
      <4>5. agents[n] = c
        BY <4>2, <4>3, <4>4 DEF Planning, Functional
      <4>6. QED
        BY <3>2, <4>1, <4>5 DEF IsAs
    <3>3. CASE n \notin NamesOf(plan.make)
      <4>1. n \notin NamesOf(Recorded)
        BY <1>1, <2>1, <2>2, <3>1, <3>3 DEF Planning, HasPlan
      <4>2. QED
        BY <2>1, <2>2, <3>3, <4>1 DEF IsAs
    <3>4. QED
      BY <3>2, <3>3
  <2>3. ASSUME NEW n \in Names \ touched, n \notin CleanedAgents
        PROVE  IsAs(n, IF Place(n) \notin todo' THEN plan.make ELSE Recorded)
    BY <1>5, <2>1, <2>2, <2>3
  <2>4. ASSUME NEW n \in Names \ touched', n \notin CleanedAgents'
        PROVE  IsAs(n, IF run.at = "write" /\ Place(n) \notin todo THEN plan.make
                       ELSE Recorded)'
    <3>1. CASE Place(n) \in todo'
      <4>1. IsAs(n, Recorded)'
        BY <1>1, <1>2, <1>4, <2>1, <2>4 DEF IsAs, NamesOf
      <4>2. QED
        BY <3>1, <4>1 DEF Place
    <3>2. CASE Place(n) \notin todo'
      <4>1. IsAs(n, plan.make)'
        BY <1>1, <1>2, <1>4, <2>3, <2>4, <3>2 DEF IsAs, NamesOf
      <4>2. QED
        BY <1>1, <3>2, <4>1 DEF Place
    <3>3. QED
      BY <3>1, <3>2
  <2>5. QED
    BY <1>1, <1>2, <1>3, <1>4, <2>1, <2>4 DEF Copies, HasPlan
<1>9. Dropping'
  BY <1>1, <1>2 DEF Dropping, HasPlan
<1>10. Lasts'
  BY <1>1, <1>2, SamePolicy DEF Lasts, Checks
<1>11. Strict'
  <2>1. ASSUME "strict" \in last
        PROVE  todo' = {} /\ cleaned' = {}
    <3>1. /\ plan.make = Hashed(policy) /\ Recorded = Hashed(policy)
          /\ plan.drop = {} /\ cleaned = {}
      BY <1>1, <2>1 DEF Lasts, Planning, Strict, HasPlan
    <3>2. Outputs = {}
      BY <3>1 DEF Outputs, NamesOf
    <3>3. QED
      BY <1>1, <3>1, <3>2
  <2>2. QED
    BY <1>1, <1>2, <2>1, SamePolicy DEF Strict, Alone, Same, HasPlan
<1>12. Detected'
  BY <1>1, <1>3 DEF Detected, Same
<1>13. Cleaned'
  BY <1>1, <1>2 DEF Cleaned
<1>14. Forced'
  BY <1>1, <1>2, SamePolicy DEF Forced, Alone, Same
<1>15. QED
  BY <1>6, <1>7, <1>8, <1>9, <1>10, <1>11, <1>12, <1>13, <1>14

\* A directory that is dealt with leaves the rest of the run alone.
LEMMA StepKeeps ==
    ASSUME IInv, TypeOK', run.at \in {"clean", "write"}, NEW d \in todo,
           UNCHANGED <<policy, manifest, run, seen, plan, last>>,
           todo' = todo \ {d},
           cleaned' = cleaned \/ (run.at = "clean" /\ cleaned' = cleaned \cup {d}),
           Copies', Dropping', Cleaned',
           run.disturbed = "no" /\ (run.at = "write" => OfOtherKind(policy) = {}) =>
               \A provider \in Providers :
                   Exposed(provider)' \subseteq Exposed(provider)
    PROVE  IInv'
<1> USE DEF IInv
<1>1. Checks' = Checks /\ ~Checks
  BY DEF Ordered, Checks
<1>2. last = {}
  BY <1>1 DEF Lasts, Strict
<1>3. Lasts' /\ Strict' /\ Forced'
  BY <1>2 DEF Lasts, Strict, Forced
<1>4. Ordered'
  <2>1. CASE run.at = "clean"
    <3>1. run.option # "sync"
      BY <2>1 DEF Ordered
    <3>2. QED
      BY <1>1, <2>1, <3>1 DEF Ordered
  <2>2. CASE run.at = "write"
    <3>1. cleaned' = cleaned /\ Outputs' = Outputs
      BY <2>2 DEF Outputs, CleanedAgents, NamesOf, Recorded
    <3>2. QED
      BY <1>1, <2>2, <3>1 DEF Ordered
  <2>3. QED
    BY <2>1, <2>2
<1>5. Planning'
  BY SamePolicy DEF Planning, HasPlan, Recorded, NamesOf, Functional, Eligible
<1>6. Detected'
  BY SamePolicy DEF Detected, Same
<1>7. QED
  BY <1>3, <1>4, <1>5, <1>6

\* What of the plan and the manifest a step on a directory does not change.
LEMMA StepFrame ==
    ASSUME UNCHANGED <<manifest, run, seen, plan>>
    PROVE  /\ Recorded' = Recorded /\ HasPlan' = HasPlan
           /\ NamesOf(Recorded)' = NamesOf(Recorded)
           /\ NamesOf(plan.make)' = NamesOf(plan.make)
           /\ Eligible(seen)' = Eligible(seen)
           /\ \A n, hashes : agents'[n] = agents[n] =>
                                 IsAs(n, hashes)' = IsAs(n, hashes)
  BY DEF Recorded, HasPlan, NamesOf, Eligible, IsAs

\* A directory that nobody consented to clean stays as it is.
LEMMA RefuseKeeps ==
    ASSUME IInv, TypeOK', NEW d \in todo, RefuseToClean(d)
    PROVE  IInv'
<1> USE DEF IInv
<1>1. /\ run.at = "clean" /\ todo' = todo \ {d} /\ cleaned' = cleaned
      /\ UNCHANGED <<policy, manifest, run, seen, plan, last>>
      /\ UNCHANGED diskVars /\ agents' = agents /\ touched' = touched
  BY DEF RefuseToClean, userVars, diskVars
<1>2. Copies'
  <2>1. CleanedAgents' = CleanedAgents
    BY <1>1 DEF CleanedAgents
  <2>2. \A n \in Names \ touched : n \notin CleanedAgents => IsAs(n, Recorded)
    BY <1>1 DEF Copies
  <2>3. \A n \in Names \ touched : n \notin CleanedAgents => IsAs(n, Recorded)'
    BY <1>1, <2>2, StepFrame DEF IsAs, NamesOf
  <2>4. QED
    BY <1>1, <2>1, <2>3, StepFrame DEF Copies
<1>3. Dropping' /\ Cleaned'
  BY <1>1, SameDisk DEF Dropping, Cleaned, HasPlan
<1>4. \A provider \in Providers : Exposed(provider)' = Exposed(provider)
  BY <1>1, SameExposed
<1>5. QED
  BY <1>1, <1>2, <1>3, <1>4, StepKeeps

\* Skills that a step leaves alone are as they were, the others as cleaned
\* or as written.
LEMMA CopiesKeep ==
    ASSUME IInv, UNCHANGED <<manifest, run, seen, plan>>, touched \subseteq touched',
           \A n \in Names \ touched' :
               \/ /\ agents'[n] = agents[n]
                  /\ n \in CleanedAgents' <=> n \in CleanedAgents
                  /\ Place(n) \in todo' <=> Place(n) \in todo
               \/ agents'[n] = None /\ n \in CleanedAgents'
               \/ /\ agents'[n] # Own /\ n \notin CleanedAgents'
                  /\ run.at = "write" /\ Place(n) \notin todo'
                  /\ IsAs(n, plan.make)'
    PROVE  Copies'
<1> USE DEF IInv
<1>1. SUFFICES ASSUME NEW n \in Names \ touched'
               PROVE  /\ agents'[n] # Own
                      /\ HasPlan /\ n \in NamesOf(Recorded) \ Eligible(seen)
                             => n \in plan.drop
                      /\ n \in CleanedAgents' => agents'[n] = None
                      /\ n \notin CleanedAgents' =>
                             IsAs(n, IF run.at = "write" /\ Place(n) \notin todo
                                     THEN plan.make ELSE Recorded)'
  BY StepFrame DEF Copies
<1>2. /\ agents[n] # Own
      /\ HasPlan /\ n \in NamesOf(Recorded) \ Eligible(seen) => n \in plan.drop
      /\ n \in CleanedAgents => agents[n] = None
      /\ n \notin CleanedAgents =>
             IsAs(n, IF run.at = "write" /\ Place(n) \notin todo THEN plan.make
                     ELSE Recorded)
  BY DEF Copies
<1>3. CASE /\ agents'[n] = agents[n]
           /\ n \in CleanedAgents' <=> n \in CleanedAgents
           /\ Place(n) \in todo' <=> Place(n) \in todo
  <2>1. CASE run.at = "write" /\ Place(n) \notin todo
    <3>1. n \notin CleanedAgents' => IsAs(n, plan.make)'
      BY <1>2, <1>3, <2>1, StepFrame DEF IsAs, NamesOf
    <3>2. QED
      BY <1>2, <1>3, <2>1, <3>1 DEF Place
  <2>2. CASE ~(run.at = "write" /\ Place(n) \notin todo)
    <3>1. n \notin CleanedAgents' => IsAs(n, Recorded)'
      BY <1>2, <1>3, <2>2, StepFrame DEF IsAs, NamesOf
    <3>2. QED
      BY <1>2, <1>3, <2>2, <3>1 DEF Place
  <2>3. QED
    BY <2>1, <2>2
<1>4. CASE agents'[n] = None /\ n \in CleanedAgents'
  BY <1>2, <1>4, ContentsAssumption
<1>5. CASE /\ agents'[n] # Own /\ n \notin CleanedAgents'
           /\ run.at = "write" /\ Place(n) \notin todo'
           /\ IsAs(n, plan.make)'
  BY <1>2, <1>5 DEF Place
<1>6. QED
  BY <1>1, <1>3, <1>4, <1>5

\* What a provider would see has not become more.
LEMMA FewerExposed ==
    ASSUME UNCHANGED <<seen, plan>>, NEW provider,
           OnDisk(provider)' \subseteq OnDisk(provider)
    PROVE  Exposed(provider)' \subseteq Exposed(provider)
  BY DEF Exposed, NamesOf, OfOtherKind, Eligible

\* How a change of a directory shows.
LEMMA DirectoryFacts ==
    ASSUME TypeOK, NEW m \in Names, NEW directory,
           agents' = [agents EXCEPT ![m] = directory]
    PROVE  /\ agents'[m] = directory
           /\ \A n \in Names \ {m} : agents'[n] = agents[n]
           /\ OnDisk("agents")' \subseteq OnDisk("agents") \cup {m}
           /\ directory = None => OnDisk("agents")' = OnDisk("agents") \ {m}
           /\ agents[m] = None /\ directory = None =>
                  OnDisk("agents")' \subseteq OnDisk("agents")
           /\ codex' = codex => OnDisk("codex")' = OnDisk("codex")
  BY DEF TypeOK, OnDisk

\* A removal that fails removes no name from sight, and adds none.
LEMMA FailedRemoval ==
    ASSUME TypeOK, NEW m \in Names, RemovalFails(m)
    PROVE  /\ \A n \in Names \ {m} : agents'[n] = agents[n]
           /\ touched' = touched \cup {m}
           /\ OnDisk("agents")' \subseteq OnDisk("agents")
           /\ codex' = codex => OnDisk("codex")' = OnDisk("codex")
<1>1. PICK rest \in Torn(m) : agents' = [agents EXCEPT ![m] = rest]
  BY DEF RemovalFails
<1>2. agents[m] = None => rest = None
  BY <1>1 DEF Torn
<1>3. agents[m] # None => m \in OnDisk("agents")
  BY DEF OnDisk
<1>4. QED
  BY <1>1, <1>2, <1>3, DirectoryFacts DEF RemovalFails

\* What is cleaned is gone, and does not count as made any more.
LEMMA CleanKeeps ==
    ASSUME IInv, TypeOK', NEW d \in todo, Clean(d)
    PROVE  IInv'
<1> USE DEF IInv
<1>1. /\ run.at = "clean" /\ todo' = todo \ {d} /\ cleaned' = cleaned \cup {d}
      /\ UNCHANGED <<policy, manifest, run, seen, plan, last>> /\ touched' = touched
      /\ d \in Directories /\ d.name \in Names
  BY DEF Clean, userVars, TypeOK, Directories
<1>2. run.option \in {"clean", "forceclean"}
  BY <1>1 DEF Ordered, Checks, Checking, TypeOK, Options
<1>3. \A p \in Providers : OnDisk(p)' \subseteq OnDisk(p)
  BY <1>1, DirectoryFacts DEF Clean, OnDisk, Providers
<1>4. d.name \notin OnDisk(d.at)'
  <2>1. CASE d.at = "codex"
    BY <2>1 DEF Clean, OnDisk
  <2>2. CASE d.at # "codex"
    <3>1. agents' = [agents EXCEPT ![d.name] = None] /\ d.at = "agents"
      BY <1>1, <2>2 DEF Clean, Directories, Providers
    <3>2. QED
      BY <1>1, <3>1, DirectoryFacts DEF OnDisk
  <2>3. QED
    BY <2>1, <2>2
<1>5. Copies'
  <2>1. CASE d.at = "codex"
    <3>1. agents' = agents /\ CleanedAgents' = CleanedAgents
      BY <1>1, <2>1 DEF Clean, CleanedAgents
    <3>2. \A n : Place(n) \in todo' <=> Place(n) \in todo
      BY <1>1, <2>1 DEF Place
    <3>3. QED
      BY <1>1, <3>1, <3>2, CopiesKeep
  <2>2. CASE d.at # "codex"
    <3>1. agents' = [agents EXCEPT ![d.name] = None] /\ d = Place(d.name)
      BY <1>1, <2>2 DEF Clean, Directories, Providers, Place
    <3>2. \A n \in Names \ {d.name} : /\ agents'[n] = agents[n]
                                      /\ n \in CleanedAgents' <=> n \in CleanedAgents
                                      /\ Place(n) \in todo' <=> Place(n) \in todo
      BY <1>1, <3>1, DirectoryFacts DEF CleanedAgents, Place
    <3>3. agents'[d.name] = None /\ d.name \in CleanedAgents'
      <4>1. agents'[d.name] = None
        BY <1>1, <3>1, DirectoryFacts
      <4>2. d \in cleaned' /\ d.at = "agents"
        BY <1>1, <2>2 DEF Directories, Providers
      <4>3. QED
        BY <4>1, <4>2 DEF CleanedAgents
    <3>4. QED
      BY <1>1, <3>2, <3>3, CopiesKeep
  <2>3. QED
    BY <2>1, <2>2
<1>6. Dropping'
  BY <1>1, <1>2 DEF Dropping
<1>7. Cleaned'
  <2>1. \A e \in cleaned : e.at \in Providers
    BY DEF TypeOK, Directories
  <2>2. QED
    BY <1>1, <1>3, <1>4, <2>1 DEF Cleaned
<1>8. \A p \in Providers : Exposed(p)' \subseteq Exposed(p)
  BY <1>1, <1>3, FewerExposed
<1>9. QED
  BY <1>1, <1>5, <1>6, <1>7, <1>8, StepKeeps

\* Directories whose removal fails have been touched.
LEMMA FailsKeep ==
    ASSUME IInv, TypeOK', NEW d \in todo, CleanFails(d) \/ DropFails(d)
    PROVE  IInv'
<1> USE DEF IInv
<1>1. /\ run.at \in {"clean", "write"} /\ todo' = todo \ {d} /\ cleaned' = cleaned
      /\ UNCHANGED <<policy, manifest, run, seen, plan, last>> /\ codex' = codex
      /\ d \in Directories /\ d.name \in Names
      /\ run.at = "write" => d.at = "agents" /\ RemovalFails(d.name)
      /\ \/ d.at = "agents" /\ RemovalFails(d.name)
         \/ d.at # "agents" /\ agents' = agents /\ touched' = touched
  <2>1. d \in Directories /\ d.name \in Names
    BY DEF TypeOK, Directories
  <2>2. run.at = "write" => d.at = "agents"
    BY DEF Ordered
  <2>3. QED
    BY <2>1, <2>2 DEF CleanFails, DropFails, userVars
<1>2. /\ touched \subseteq touched'
      /\ \A n \in Names \ {d.name} : agents'[n] = agents[n]
      /\ \A n \in Names \ touched' : agents'[n] = agents[n]
                                     /\ (d.at = "agents" => n # d.name)
      /\ \A p \in Providers : OnDisk(p)' \subseteq OnDisk(p)
  <2>1. CASE d.at = "agents" /\ RemovalFails(d.name)
    BY <1>1, <2>1, FailedRemoval DEF Providers
  <2>2. CASE d.at # "agents" /\ agents' = agents /\ touched' = touched
    BY <1>1, <2>2 DEF OnDisk
  <2>3. QED
    BY <1>1, <2>1, <2>2
<1>3. Copies'
  <2>1. CleanedAgents' = CleanedAgents
    BY <1>1 DEF CleanedAgents
  <2>2. \A n \in Names \ touched' : Place(n) \in todo' <=> Place(n) \in todo
    BY <1>1, <1>2 DEF Place
  <2>3. QED
    BY <1>1, <1>2, <2>1, <2>2, CopiesKeep
<1>4. Dropping'
  <2>1. CASE run.at = "clean"
    <3>1. run.option \in {"clean", "forceclean"}
      BY <2>1 DEF Ordered, Checks, Checking, TypeOK, Options
    <3>2. QED
      BY <1>1, <3>1 DEF Dropping
  <2>2. CASE run.at = "write"
    <3>1. d = Place(d.name)
      BY <1>1, <2>2 DEF Directories, Place
    <3>2. \A n : Place(n) \in todo' => Place(n) \in todo /\ n # d.name
      BY <1>1, <3>1
    <3>3. plan.drop \subseteq Names
      BY DEF TypeOK
    <3>4. QED
      BY <1>1, <1>2, <2>2, <3>2, <3>3 DEF Dropping, HasPlan, Place
  <2>3. QED
    BY <1>1, <2>1, <2>2
<1>5. Cleaned'
  <2>1. \A e \in cleaned : e.at \in Providers
    BY DEF TypeOK, Directories
  <2>2. QED
    BY <1>1, <1>2, <2>1 DEF Cleaned
<1>6. \A p \in Providers : Exposed(p)' \subseteq Exposed(p)
  BY <1>1, <1>2, FewerExposed
<1>7. QED
  BY <1>1, <1>3, <1>4, <1>5, <1>6, StepKeeps

\* What is to be written has its place in .agents/skills.
LEMMA WriteFacts ==
    ASSUME IInv, run.at = "write", NEW d \in todo
    PROVE  /\ d.name \in Names /\ d.name \in Outputs /\ d = Place(d.name)
           /\ d.name \notin CleanedAgents
           /\ d.name \notin plan.drop =>
                  d.name \in NamesOf(plan.make) /\ d.name \in Eligible(seen)
           /\ d.name \in plan.drop => d.name \notin NamesOf(plan.make)
<1> USE DEF IInv
<1>1. d \in [at: {"agents"}, name: Outputs] /\ d.name \in Names
  BY DEF Ordered, TypeOK, Directories
<1>2. d = Place(d.name) /\ d.name \in Outputs
  BY <1>1 DEF Place
<1>3. d.name \notin plan.drop => d.name \in NamesOf(plan.make)
  BY <1>2 DEF Outputs, NamesOf
<1>4. NamesOf(plan.make) = Eligible(seen) /\ plan.drop \cap Eligible(seen) = {}
  BY DEF Planning, HasPlan
<1>5. QED
  BY <1>1, <1>2, <1>3, <1>4 DEF Outputs

\* What is dropped was not eligible, and is gone.
LEMMA DropKeeps ==
    ASSUME IInv, TypeOK', NEW d \in todo, Drop(d)
    PROVE  IInv'
<1> USE DEF IInv
<1>1. /\ run.at = "write" /\ todo' = todo \ {d} /\ cleaned' = cleaned
      /\ UNCHANGED <<policy, manifest, run, seen, plan, last>>
      /\ codex' = codex /\ touched' = touched
      /\ agents' = [agents EXCEPT ![d.name] = None] /\ d.name \in plan.drop
  BY DEF Drop, userVars
<1>2. d.name \in Names /\ d = Place(d.name) /\ d.name \notin NamesOf(plan.make)
      /\ d.name \notin CleanedAgents
  BY <1>1, WriteFacts
<1>3. /\ agents'[d.name] = None
      /\ \A n \in Names \ {d.name} : agents'[n] = agents[n]
      /\ \A p \in Providers : OnDisk(p)' \subseteq OnDisk(p)
  <2>1. /\ agents'[d.name] = None
        /\ \A n \in Names \ {d.name} : agents'[n] = agents[n]
        /\ OnDisk("agents")' = OnDisk("agents") \ {d.name}
        /\ OnDisk("codex")' = OnDisk("codex")
    BY <1>1, <1>2, DirectoryFacts
  <2>2. QED
    BY <2>1 DEF Providers
<1>4. \A n : Place(n) \in todo' <=> Place(n) \in todo /\ n # d.name
  <2>1. \A n : Place(n) = d <=> n = d.name
    BY <1>2 DEF Place
  <2>2. QED
    BY <1>1, <2>1
<1>5. Copies'
  <2>1. CleanedAgents' = CleanedAgents
    BY <1>1 DEF CleanedAgents
  <2>2. \A n \in Names \ {d.name} : Place(n) \in todo' <=> Place(n) \in todo
    BY <1>4
  <2>3. /\ agents'[d.name] # Own /\ d.name \notin CleanedAgents'
        /\ Place(d.name) \notin todo' /\ IsAs(d.name, plan.make)'
    BY <1>1, <1>2, <1>3, <1>4, <2>1, StepFrame, ContentsAssumption DEF IsAs, Place
  <2>4. QED
    BY <1>1, <1>3, <2>1, <2>2, <2>3, CopiesKeep
<1>6. Dropping'
  <2>1. plan.drop \subseteq Names
    BY DEF TypeOK
  <2>2. QED
    BY <1>1, <1>3, <1>4, <2>1, ContentsAssumption DEF Dropping, HasPlan, Place
<1>7. Cleaned'
  <2>1. \A e \in cleaned : e.at \in Providers
    BY DEF TypeOK, Directories
  <2>2. QED
    BY <1>1, <1>3, <2>1 DEF Cleaned
<1>8. \A p \in Providers : Exposed(p)' \subseteq Exposed(p)
  BY <1>1, <1>3, FewerExposed
<1>9. QED
  BY <1>1, <1>5, <1>6, <1>7, <1>8, StepKeeps

\* What is copied is what was planned, or has been touched; what is cleaned
\* is not copied again.
LEMMA CopyKeeps ==
    ASSUME IInv, TypeOK', NEW d \in todo, Copy(d)
    PROVE  IInv'
<1> USE DEF IInv
<1> DEFINE content == Content(policy, d.name)
<1>1. /\ run.at = "write" /\ todo' = todo \ {d} /\ cleaned' = cleaned
      /\ UNCHANGED <<policy, manifest, run, seen, plan, last>>
      /\ codex' = codex /\ touched \subseteq touched'
      /\ <<d.name, content>> \notin plan.make => d.name \in touched'
      /\ \A e \in todo : e.name \notin plan.drop
  BY DEF Copy, userVars
<1>2. /\ d.name \in Names /\ d = Place(d.name) /\ d.name \notin CleanedAgents
      /\ d.name \in NamesOf(plan.make) /\ d.name \in Eligible(seen)
  BY <1>1, WriteFacts
<1>3. PICK copy : /\ copy = content \/ Merges(d.name)
                  /\ agents' = [agents EXCEPT ![d.name] = copy]
  BY DEF Copy
<1>4. /\ agents'[d.name] = copy
      /\ \A n \in Names \ {d.name} : agents'[n] = agents[n]
      /\ OnDisk("agents")' \subseteq OnDisk("agents") \cup {d.name}
      /\ OnDisk("codex")' = OnDisk("codex")
  BY <1>1, <1>2, <1>3, DirectoryFacts
<1>5. \A n : Place(n) \in todo' <=> Place(n) \in todo /\ n # d.name
  <2>1. \A n : Place(n) = d <=> n = d.name
    BY <1>2 DEF Place
  <2>2. QED
    BY <1>1, <2>1
<1>6. Copies'
  <2>1. CleanedAgents' = CleanedAgents
    BY <1>1 DEF CleanedAgents
  <2>2. \A n \in Names \ {d.name} : Place(n) \in todo' <=> Place(n) \in todo
    BY <1>5
  <2>3. ASSUME d.name \notin touched'
        PROVE  /\ agents'[d.name] # Own /\ d.name \notin CleanedAgents'
               /\ Place(d.name) \notin todo' /\ IsAs(d.name, plan.make)'
    <3>1. <<d.name, content>> \in plan.make /\ agents[d.name] # Own
      BY <1>1, <1>2, <2>3 DEF Copies
    <3>2. copy = content
      BY <1>3, <3>1 DEF Merges
    <3>3. content # Own
      BY ContentFacts, ContentsAssumption
    <3>4. IsAs(d.name, plan.make)'
      BY <1>1, <1>2, <1>4, <3>1, <3>2, StepFrame DEF IsAs
    <3>5. Place(d.name) \notin todo'
      BY <1>5
    <3>6. QED
      BY <1>2, <1>4, <2>1, <3>2, <3>3, <3>4, <3>5
  <2>4. QED
    BY <1>1, <1>4, <2>1, <2>2, <2>3, CopiesKeep
<1>7. Dropping'
  <2>1. ASSUME NEW n \in plan.drop, Place(n) \in todo
        PROVE  FALSE
    BY <1>1, <2>1 DEF Place
  <2>2. QED
    BY <1>1, <1>5, <2>1 DEF Dropping, Place
<1>8. Cleaned'
  <2>1. ASSUME NEW e \in cleaned, run.disturbed = "no"
        PROVE  e.name \notin OnDisk(e.at)'
    <3>1. e.at \in Providers /\ e.name \notin OnDisk(e.at)
      BY <2>1 DEF Cleaned, TypeOK, Directories
    <3>2. e.at = "agents" => e.name # d.name
      BY <1>2 DEF CleanedAgents
    <3>3. QED
      BY <1>4, <3>1, <3>2 DEF Providers
  <2>2. QED
    BY <1>1, <2>1 DEF Cleaned
<1>9. ASSUME run.disturbed = "no", OfOtherKind(policy) = {}, NEW p \in Providers
      PROVE  Exposed(p)' \subseteq Exposed(p)
  <2>1. CASE p = "codex"
    BY <1>1, <1>4, <2>1, FewerExposed
  <2>2. CASE p = "agents"
    <3>1. OfOtherKind(seen) = {} /\ OfOtherKind(seen)' = {}
      BY <1>1, <1>9, SamePolicy DEF Planning
    <3>2. Exposed(p) = OnDisk("agents") \cup NamesOf(plan.make)
      BY <2>2, <3>1 DEF Exposed
    <3>3. Exposed(p)' = OnDisk("agents")' \cup NamesOf(plan.make)
      BY <1>1, <2>2, <3>1, StepFrame DEF Exposed
    <3>4. QED
      BY <1>2, <1>4, <3>2, <3>3
  <2>3. QED
    BY <2>1, <2>2 DEF Providers
<1>10. QED
  BY <1>1, <1>6, <1>7, <1>8, <1>9, StepKeeps

\* Behind the last copy the manifest records what there is.
LEMMA SaveKeeps ==
    ASSUME IInv, TypeOK', Save
    PROVE  IInv'
<1> USE DEF IInv
<1>1. /\ run.at = "write" /\ todo = {} /\ manifest' = NewManifest
      /\ run'.at = "idle" /\ run'.option = "sync" /\ todo' = {} /\ cleaned' = {}
      /\ UNCHANGED <<policy, agents, codex, touched>>
      /\ last' = last \cup Earned /\ ~Checks
  BY DEF Save, Leave, NoRun, userVars, Ordered
<1>2. Recorded' = {h \in plan.make : h[1] \notin CleanedAgents}
  <2>1. NewManifest # NoManifest
    BY PlanTypes, ManifestAssumption
  <2>2. QED
    BY <1>1, <2>1 DEF Recorded, NewManifest
<1>3. \A n, c : <<n, c>> \in Recorded' <=> <<n, c>> \in plan.make /\ n \notin CleanedAgents
  BY <1>2
<1>4. \A n : n \in NamesOf(Recorded') <=> n \in NamesOf(plan.make) /\ n \notin CleanedAgents
  <2>1. Recorded' \in SUBSET Hashes /\ plan.make \in SUBSET Hashes
    BY <1>2 DEF TypeOK
  <2>2. QED
    BY <1>3, <2>1, NamesOfFacts
<1>5. \A p : OnDisk(p)' = OnDisk(p)
  BY <1>1 DEF OnDisk
<1>6. \A n \in Names \ touched :
          /\ agents[n] # Own
          /\ n \in CleanedAgents => agents[n] = None
          /\ n \notin CleanedAgents => IsAs(n, plan.make)
  BY <1>1 DEF Copies
<1>7. /\ run.disturbed = "no" => plan.make = Hashed(policy)
      /\ Functional(plan.make)
  BY <1>1 DEF Planning, HasPlan
<1>8. Ordered'
  BY <1>1 DEF Ordered
<1>9. Planning'
  <2>1. Functional(Recorded')
    BY <1>3, <1>7 DEF Functional
  <2>2. QED
    BY <1>1, <2>1 DEF Planning, HasPlan, Functional
<1>10. Copies'
  <2>1. \A n : n \notin CleanedAgents'
    BY <1>1 DEF CleanedAgents
  <2>2. \A n \in Names \ touched : IsAs(n, Recorded)'
    BY <1>1, <1>3, <1>4, <1>6 DEF IsAs, NamesOf
  <2>3. QED
    BY <1>1, <1>6, <2>1, <2>2 DEF Copies, HasPlan
<1>11. Dropping' /\ Detected' /\ Cleaned'
  BY <1>1 DEF Dropping, Detected, Cleaned, HasPlan
<1>12. Lasts'
  <2>1. ASSUME "sync" \in last', NEW n \in Names \ touched
        PROVE  agents[n] = Wanted(n)
    <3>1. run.option = "sync" /\ run.disturbed = "no"
      BY <1>1, <2>1 DEF Lasts, Earned
    <3>2. n \notin CleanedAgents
      BY <1>1, <3>1 DEF Ordered, CleanedAgents
    <3>3. IsAs(n, Hashed(policy))
      BY <1>6, <1>7, <3>1, <3>2
    <3>4. Eligible(policy) \in SUBSET Names
      BY EligibleFacts DEF TypeOK
    <3>5. QED
      BY <3>3, <3>4, MadeFacts DEF IsAs, Hashed, Wanted
  <2>2. QED
    BY <1>1, <2>1, SamePolicy DEF Lasts
<1>13. Strict'
  <2>1. ASSUME "strict" \in last'
        PROVE  "strict" \in last /\ Recorded' = Hashed(policy)
    <3>1. "strict" \in last
      BY <1>1, <2>1 DEF Earned, Checks, Checking
    <3>2. cleaned = {} /\ run.disturbed = "no"
      BY <1>1, <3>1 DEF Strict, Lasts
    <3>3. Recorded' = plan.make
      BY <1>2, <3>2 DEF CleanedAgents
    <3>4. QED
      BY <1>7, <3>1, <3>2, <3>3
  <2>2. QED
    BY <1>1, <1>5, <2>1, SamePolicy DEF Strict, Alone, Same, HasPlan
<1>14. Forced'
  <2>1. ASSUME "forceclean" \in last', OfOtherKind(policy) = {},
               NEW p \in Providers, NEW m \in OnDisk(p), NEW n \in OnDisk(p),
               Same(m, n)
        PROVE  FALSE
    <3>1. run.disturbed = "no" /\ plan.clean \subseteq cleaned
      BY <1>1, <2>1 DEF Lasts, Earned
    <3>2. [at |-> p, name |-> m] \in plan.clean
      BY <1>1, <2>1, <3>1 DEF Detected, Exposed
    <3>3. QED
      BY <3>1, <3>2 DEF Cleaned
  <2>2. QED
    BY <1>1, <1>5, <2>1, SamePolicy DEF Forced, Alone, Same
<1>15. QED
  BY <1>8, <1>9, <1>10, <1>11, <1>12, <1>13, <1>14

\* A run that stops has touched whatever it had planned.
LEMMA StopKeeps ==
    ASSUME IInv, TypeOK', Stop
    PROVE  IInv'
<1> USE DEF IInv
<1>1. /\ run.at \in {"clean", "write"} /\ last' = {} /\ run'.at = "idle"
      /\ run'.option = "sync" /\ todo' = {} /\ cleaned' = {}
  BY DEF Stop, Leave, NoRun
<1>2. \A d \in todo : d.name \in Planned
  <2>1. CASE run.at = "clean"
    BY <2>1 DEF Ordered, Planned
  <2>2. CASE run.at = "write"
    BY <2>2, WriteFacts DEF Planned
  <2>3. QED
    BY <1>1, <2>1, <2>2
<1>3. \/ /\ manifest' = manifest
         /\ touched \subseteq touched' /\ Planned \subseteq touched'
         /\ \A n \in Names \ touched' : agents'[n] = agents[n]
      \/ manifest' = NoManifest /\ touched' = Names
  <2>1. ASSUME NEW d \in todo, NEW rest,
               agents' = [agents EXCEPT ![d.name] = rest],
               touched' = touched \cup Planned
        PROVE  \A n \in Names \ touched' : agents'[n] = agents[n]
    <3>1. d.name \in touched' /\ d.name \in Names
      BY <1>2, <2>1 DEF TypeOK, Directories
    <3>2. QED
      BY <2>1, <3>1, DirectoryFacts
  <2>2. QED
    BY <2>1 DEF Stop
<1>4. Ordered'
  BY <1>1 DEF Ordered
<1>5. Dropping' /\ Lasts' /\ Strict' /\ Detected' /\ Cleaned' /\ Forced'
  BY <1>1 DEF Dropping, Lasts, Strict, Detected, Cleaned, Forced, HasPlan
<1>6. Planning'
  <2>1. Recorded' \in {Recorded, {}}
    BY <1>3 DEF Recorded
  <2>2. Functional(Recorded')
    BY <2>1 DEF Planning, Functional
  <2>3. QED
    BY <1>1, <2>2 DEF Planning, HasPlan, Functional
<1>7. Copies'
  <2>1. CASE manifest' = NoManifest /\ touched' = Names
    BY <2>1 DEF Copies
  <2>2. CASE /\ manifest' = manifest
             /\ touched \subseteq touched' /\ Planned \subseteq touched'
             /\ \A n \in Names \ touched' : agents'[n] = agents[n]
    <3>1. ASSUME NEW n \in Names \ touched'
          PROVE  agents[n] # Own /\ IsAs(n, Recorded)
      <4>1. /\ n \notin touched /\ n \notin NamesOf(plan.make)
            /\ n \notin plan.drop /\ n \notin {d.name : d \in plan.clean}
        BY <2>2, <3>1 DEF Planned
      <4>2. n \notin CleanedAgents
        BY <4>1 DEF CleanedAgents, Ordered
      <4>3. n \notin NamesOf(Recorded)
        BY <1>1, <4>1, <4>2 DEF Copies, Planning, HasPlan
      <4>4. QED
        BY <4>1, <4>2, <4>3 DEF Copies, IsAs
    <3>2. Recorded' = Recorded
      BY <2>2 DEF Recorded
    <3>3. \A n \in Names \ touched' : IsAs(n, Recorded)'
      BY <2>2, <3>1, <3>2 DEF IsAs, NamesOf
    <3>4. \A n : n \notin CleanedAgents'
      BY <1>1 DEF CleanedAgents
    <3>5. QED
      BY <1>1, <2>2, <3>1, <3>3, <3>4 DEF Copies, HasPlan
  <2>3. QED
    BY <1>3, <2>1, <2>2
<1>8. QED
  BY <1>4, <1>5, <1>6, <1>7

\* A repository no run has seen is in order.
LEMMA InitIInv ==
    Init => IInv
<1>1. SUFFICES ASSUME Init PROVE IInv
  OBVIOUS
<1>2. /\ run = NoRun /\ run.at = "idle" /\ run.option = "sync"
      /\ plan = NoPlan /\ todo = {} /\ cleaned = {} /\ edits = 0 /\ last = {}
      /\ manifest = NoManifest /\ Recorded = {}
      /\ agents = [n \in Names |-> IF n \in touched THEN Own ELSE None]
  BY <1>1 DEF Init, NoRun, Recorded
<1>3. touched \in SUBSET Names /\ codex \in SUBSET Names
  <2>1. PICK foreign \in Foreign :
            /\ touched = {d.name : d \in {f \in foreign : f.at = "agents"}}
            /\ codex = {d.name : d \in {f \in foreign : f.at = "codex"}}
    BY <1>1 DEF Init
  <2>2. \A d \in foreign : d.name \in Names
    BY ForeignAssumption DEF Directories
  <2>3. QED
    BY <2>1, <2>2
<1>4. TypeOK
  BY <1>1, <1>2, <1>3, BoundsAssumption
  DEF Init, TypeOK, NoRun, NoPlan, Options
<1>5. Copies
  <2>1. \A n : n \notin NamesOf({})
    BY DEF NamesOf
  <2>2. QED
    BY <1>2, <2>1, ContentsAssumption DEF Copies, IsAs, CleanedAgents, HasPlan
<1>6. Ordered /\ Planning /\ Dropping /\ Lasts /\ Strict /\ Detected /\ Cleaned
      /\ Forced
  BY <1>2
  DEF Ordered, Planning, Dropping, Lasts, Strict, Detected, Cleaned, Forced,
      HasPlan, Functional
<1>7. QED
  BY <1>4, <1>5, <1>6 DEF IInv

\* The invariant is about the variables alone.
LEMMA StutterKeeps ==
    ASSUME IInv, UNCHANGED vars
    PROVE  IInv'
<1>1. TypeOK'
  BY DEF vars, IInv, TypeOK
<1>2. /\ UNCHANGED <<policy, agents, codex, manifest, run, seen, plan, todo,
                     cleaned, touched, last>>
      /\ HasPlan' = HasPlan /\ Recorded' = Recorded
      /\ Checks' = Checks /\ Outputs' = Outputs /\ CleanedAgents' = CleanedAgents
      /\ \A at : OnDisk(at)' = OnDisk(at)
      /\ \A at : Exposed(at)' = Exposed(at)
  BY DEF vars, HasPlan, Recorded, Checks, Outputs, CleanedAgents, OnDisk,
         Exposed, NamesOf, OfOtherKind
<1>3. Ordered' /\ Planning'
  BY <1>2 DEF IInv, Ordered, Planning
<1>4. Copies'
  BY <1>2 DEF IInv, Copies, IsAs
<1>5. Dropping' /\ Lasts'
  BY <1>2 DEF IInv, Dropping, Lasts, Wanted
<1>6. Strict' /\ Detected' /\ Cleaned' /\ Forced'
  BY <1>2 DEF IInv, Strict, Detected, Cleaned, Forced
<1>7. QED
  BY <1>1, <1>3, <1>4, <1>5, <1>6 DEF IInv

\* Every edit and every step of a run preserves the invariant.
LEMMA NextIInv ==
    IInv /\ [Next]_vars => IInv'
<1>1. SUFFICES ASSUME IInv, [Next]_vars PROVE IInv'
  OBVIOUS
<1>2. CASE UNCHANGED vars
  BY <1>1, <1>2, StutterKeeps
<1>3. CASE User
  BY <1>1, <1>3, UserKeeps
<1>4. CASE Engine
  <2>1. TypeOK'
    BY <1>1, <1>4, EngineTypes DEF IInv
  <2>2. NoSources => UNCHANGED vars
    BY DEF NoSources
  <2>3. QED
    BY <1>1, <1>2, <1>4, <2>1, <2>2, BeginKeeps, EndsKeep, PlanKeeps,
       DetectKeeps, ProceedKeeps, StartKeeps, CleanKeeps, RefuseKeeps, FailsKeep,
       DropKeeps, CopyKeeps, SaveKeeps, StopKeeps DEF Engine
<1>5. QED
  BY <1>1, <1>2, <1>3, <1>4 DEF Next

\* Whatever is edited and wherever a run stops, the plan, the manifest and
\* the directories fit together.
LEMMA Invariance == Spec => []IInv
  BY InitIInv, NextIInv, PTL DEF Spec
-----------------------------------------------------------------------------
(***************************************************************************)
(* What sync promises about skills                                         *)
(***************************************************************************)

\* The policy, the directories, the manifest and the run are of their types.
THEOREM TypeCorrect == Spec => []TypeOK
<1>1. IInv => TypeOK
  BY DEF IInv
<1>2. QED
  BY <1>1, Invariance, PTL

\* Behind a completed sync .agents/skills holds what the policy lets through
\* and nothing else, for any skills and any policy, of what nobody else has
\* touched (skill-classifier.ts 34-94).
THEOREM PolicyIsDecisive == Spec => []PolicyDecides
<1>1. IInv => PolicyDecides
  BY EligibleFacts DEF IInv, TypeOK, Lasts, Wanted, PolicyDecides
<1>2. QED
  BY <1>1, Invariance, PTL

\* Behind a passed strict check, and behind a forced cleaning that went
\* through, no provider sees a skill under two names, however many names it
\* has (duplicate-detector.ts 131-254).
THEOREM NoneSeenTwice == Spec => []NoneIsSeenTwice
<1>1. ASSUME IInv, \/ "strict" \in last
                   \/ "forceclean" \in last /\ OfOtherKind(policy) = {}
      PROVE  Single
  <2>1. ASSUME NEW provider \in Providers
        PROVE  Alone(OnDisk(provider)) /\ OnDisk(provider) \in SUBSET Names
    <3>1. Alone(OnDisk(provider))
      BY <1>1, <2>1 DEF IInv, Strict, Forced, Alone, Providers
    <3>2. QED
      BY <1>1, <2>1, <3>1, ExposedFacts DEF IInv
  <2>2. QED
    BY <2>1, AloneIsSingle DEF Single
<1>2. IInv => NoneIsSeenTwice
  BY <1>1 DEF NoneIsSeenTwice
<1>3. QED
  BY <1>2, Invariance, PTL

\* Why a removal was due.
LEMMA RemovalIsDue ==
    ASSUME IInv, NEW d \in todo, run.at \in {"clean", "write"}, d.at = "agents",
           Removes(d), run.at = "write" => agents[d.name] = Own
    PROVE  \/ run.option = "forceclean"
           \/ run.option = "clean" /\ d.name \in NamesOf(Recorded)
           \/ run.at = "write" /\ d.name \in NamesOf(plan.make)
              /\ d.name \in NamesOf(Recorded)
           \/ run.disturbed = "late"
<1> USE DEF IInv
<1>1. CASE run.at = "clean"
  <2>1. run.option \in {"clean", "forceclean"}
    BY <1>1 DEF Ordered, Checks, Checking, TypeOK, Options
  <2>2. QED
    BY <1>1, <2>1 DEF Removes, Consented
<1>2. CASE run.at = "write"
  <2>1. CASE d.name \in plan.drop
    <3>1. d.name \in NamesOf(Recorded) /\ Place(d.name) \in todo
      BY <1>2, <2>1, WriteFacts DEF Planning, HasPlan
    <3>2. QED
      BY <1>2, <2>1, <3>1 DEF Dropping, HasPlan
  <2>2. CASE d.name \notin plan.drop
    BY <1>2, <2>2, WriteFacts DEF Removes
  <2>3. QED
    BY <2>1, <2>2
<1>3. QED
  BY <1>1, <1>2

\* Without --force-clean no directory goes that is neither a copy of aco's nor
\* named by the manifest, nor a modified copy for being stale, whatever is
\* edited, fails or is left by earlier runs (sync-engine.ts 565-646, 704-716).
THEOREM ForeignStays == Spec => ForeignIsKept
<1> DEFINE Due(n) == \/ run.option = "forceclean"
                     \/ run.option = "clean" /\ n \in NamesOf(Recorded)
                     \/ run.at = "write" /\ n \in NamesOf(plan.make)
                        /\ n \in NamesOf(Recorded)
                     \/ run.disturbed = "late"
           Kept == \A n \in Names :
               edits' = edits =>
                   /\ n \in codex \ codex' => run.option = "forceclean"
                   /\ agents[n] = Own /\ agents'[n] = None => Due(n)
<1>1. ASSUME IInv, [Next]_vars, edits' = edits, NEW n \in Names
      PROVE  /\ n \in codex \ codex' => run.option = "forceclean"
             /\ agents[n] = Own /\ agents'[n] = None => Due(n)
  <2> USE DEF IInv
  <2>1. ~User
    <3>1. ~Edited
      BY <1>1, BoundsAssumption DEF Edited, TypeOK
    <3>2. QED
      BY <3>1 DEF User, EditPolicy, EditAgents, EditCodex
  <2>2. ASSUME NEW d \in todo, Clean(d)
        PROVE  /\ n \in codex \ codex' => run.option = "forceclean"
               /\ agents[n] = Own /\ agents'[n] = None => Due(n)
    <3>1. d.at \in Providers /\ d.name \in Names
      BY <1>1 DEF TypeOK, Directories
    <3>2. n \in codex \ codex' => run.option = "forceclean"
      BY <2>2 DEF Clean, Consented
    <3>3. ASSUME agents[n] = Own, agents'[n] = None
          PROVE  Due(n)
      <4>1. d.at = "agents" /\ n = d.name
        BY <1>1, <2>2, <3>1, <3>3, DirectoryFacts, ContentsAssumption
        DEF Clean, Providers
      <4>2. Removes(d) /\ run.at = "clean"
        BY <2>2 DEF Clean, Removes
      <4>3. QED
        BY <1>1, <4>1, <4>2, RemovalIsDue
    <3>4. QED
      BY <3>2, <3>3
  <2>3. ASSUME NEW d \in todo, Drop(d), agents[n] = Own, agents'[n] = None
        PROVE  Due(n)
    <3>1. d.name \in Names /\ d = Place(d.name) /\ run.at = "write"
      BY <1>1, <2>3, WriteFacts DEF Drop
    <3>2. n = d.name
      BY <1>1, <2>3, <3>1, DirectoryFacts, ContentsAssumption DEF Drop
    <3>3. Removes(d) /\ d.at = "agents"
      BY <2>3, <3>1 DEF Drop, Removes, Place
    <3>4. QED
      BY <1>1, <2>3, <3>1, <3>2, <3>3, RemovalIsDue
  <2>4. ASSUME NEW d \in todo, Copy(d), agents[n] = Own
        PROVE  agents'[n] # None
    <3>1. PICK copy \in {Content(policy, d.name), Own} :
              agents' = [agents EXCEPT ![d.name] = copy]
      BY <2>4 DEF Copy
    <3>2. copy # None
      BY ContentFacts, ContentsAssumption
    <3>3. QED
      BY <1>1, <2>4, <3>1, <3>2, ContentsAssumption DEF TypeOK
  <2>5. ASSUME NEW m, RemovalFails(m), agents[n] = Own
        PROVE  agents'[n] # None
    <3>1. PICK rest \in Torn(m) : agents' = [agents EXCEPT ![m] = rest]
      BY <2>5 DEF RemovalFails
    <3>2. n = m => rest = Own
      BY <2>5, <3>1, ContentsAssumption DEF Torn
    <3>3. QED
      BY <1>1, <2>5, <3>1, <3>2, ContentsAssumption DEF TypeOK
  <2>6. ASSUME Stop, agents[n] = Own, agents'[n] = None
        PROVE  Due(n)
    <3>1. PICK d \in todo, rest \in {None, Own} :
              /\ d.at = "agents"
              /\ Removes(d) \/ (run.at = "write" /\ rest = Own)
              /\ agents' = [agents EXCEPT ![d.name] = rest]
      BY <2>6, ContentsAssumption DEF Stop
    <3>2. n = d.name /\ rest = None
      BY <1>1, <2>6, <3>1, ContentsAssumption DEF TypeOK
    <3>3. Removes(d) /\ run.at \in {"clean", "write"}
      BY <2>6, <3>1, <3>2, ContentsAssumption DEF Stop
    <3>4. QED
      BY <1>1, <2>6, <3>1, <3>2, <3>3, RemovalIsDue
  <2>7. ASSUME NEW d \in todo, \/ RefuseToClean(d) \/ CleanFails(d)
                               \/ Drop(d) \/ DropFails(d) \/ Copy(d)
        PROVE  codex' = codex
    BY <2>7 DEF RefuseToClean, CleanFails, Drop, DropFails, Copy, diskVars
  <2>8. ASSUME NEW d \in todo, RefuseToClean(d) \/ CleanFails(d) \/ DropFails(d),
               agents[n] = Own
        PROVE  agents'[n] # None
    BY <2>5, <2>8, ContentsAssumption DEF RefuseToClean, CleanFails, DropFails, diskVars
  <2>9. CASE Stop
    BY <2>6, <2>9 DEF Stop
  <2>10. CASE \/ UNCHANGED vars \/ \E option \in Options : Begin(option)
              \/ NoSources \/ ComputePlan \/ PlanThrows \/ Detect
              \/ CheckPasses \/ CheckFails \/ Proceed \/ StartWriting \/ Save
    <3>1. agents' = agents /\ codex' = codex
      BY <2>10
      DEF vars, Begin, NoSources, ComputePlan, PlanThrows, Detect, CheckPasses,
          CheckFails, Proceed, StartWriting, Save, diskVars
    <3>2. QED
      BY <3>1, ContentsAssumption
  <2>11. QED
    BY <1>1, <2>1, <2>2, <2>3, <2>4, <2>7, <2>8, <2>9, <2>10 DEF Next, Engine
<1> DEFINE Untouched == \A n \in Names :
               edits' = edits /\ run.option # "forceclean" =>
                   /\ n \in codex => n \in codex'
                   /\ agents[n] = Own /\ agents'[n] = None
                      /\ run.disturbed # "late" =>
                          /\ n \in NamesOf(Recorded)
                          /\ run.option = "sync" => n \in NamesOf(plan.make)
<1>2. IInv /\ [Next]_vars => [Kept]_vars
  BY <1>1
<1>3. Kept => Untouched
  OBVIOUS
<1>4. IInv /\ [Next]_vars => [Untouched]_vars
  BY <1>2, <1>3
<1>5. QED
  BY <1>4, Invariance, PTL DEF Spec, ForeignIsKept

=============================================================================
