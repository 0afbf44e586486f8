-------------------------- MODULE MCSkillSurfaces --------------------------
(***************************************************************************)
(* Two names of one OpenSpec skill, and one built-in skill.                *)
(***************************************************************************)
EXTENDS SkillSurfaces, TLC

CONSTANTS apply, change, kanban

MCCanonical == apply :> apply @@ change :> apply @@ kanban :> Other

Repository(sources, owned, kind, include, exclude) ==
    [sources |-> sources, owned |-> owned, kind |-> kind,
     include |-> include, exclude |-> exclude]

MCForeign ==
    {{},
     [at: {"agents"}, name: {apply, kanban}] \cup [at: {"codex"}, name: {change}]}

MCPolicies ==
    {Repository({}, {}, {}, {}, {}),
     Repository(Names, {}, {change, kanban}, Names, {}),
     Repository(Names, {apply}, {}, {kanban}, {change, kanban}),
     Repository({change, kanban}, {change}, {}, {}, {apply})}

\* A repository that lets everything through and stays as it is.
MCSteady == {Repository(Names, {}, {}, Names, {})}

\* Nothing is edited before the first sync has saved its manifest.
SpecSyncedFirst ==
    Init /\ [][Engine \/ (manifest # NoManifest /\ User)]_vars
=============================================================================
