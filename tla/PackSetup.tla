----------------------------- MODULE PackSetup -----------------------------
(***************************************************************************)
(* `aco pack setup` (packages/wrapper/src/commands/pack-install.ts), which *)
(* chains three things: a preflight, that is `aco sync --check`; the       *)
(* install of PackInstall; and `aco sync`.  The preflight is there so that *)
(* a sync that cannot be done is refused before any template is written.   *)
(* While the templates are copied and the binary is probed the user may    *)
(* edit the context the preflight looked at.                               *)
(*                                                                         *)
(* What sync makes of the context is SyncEngine's matter: here it is the   *)
(* set of things a check would complain about.  Nothing the install writes *)
(* is read by the sync as more than a source of warnings.                  *)
(***************************************************************************)
EXTENDS PackInstall

VARIABLES
    setup,    \* the stage of a running setup
    context,  \* what a check would say of the context during it
    touched   \* has the user edited the context since the preflight?

setupVars == <<setup, context, touched>>
allVars == <<vars, setupVars>>

\* Outputs that are stale and outputs the user has edited may come together;
\* without sources, or with a file that cannot be read, there is no plan.
Contexts == (SUBSET {"stale", "conflict"}) \cup {{"none"}, {"broken"}}

SetupTypeOK ==
    /\ TypeOK
    /\ setup \in {"none", "installing", "syncing"}
    /\ context \in Contexts /\ touched \in BOOLEAN
    /\ setup = "none" => context = {} /\ ~touched
    /\ setup = "syncing" => run = NoRun

SetupInit == Init /\ setup = "none" /\ context = {} /\ touched = FALSE
-----------------------------------------------------------------------------
EndSetup == setup' = "none" /\ context' = {} /\ touched' = FALSE

\* Mutation: the message is searched for stale outputs first.
Passes_StaleFirst(found) == found # {"broken"} /\ found # {"conflict"}

\* The preflight lets pass what a sync would put right; else the setup ends
\* with exit code 1 and nothing has changed.
Passes(found) == found # {"broken"} /\ "conflict" \notin found

StartSetup(force) ==
    /\ setup = "none"
    /\ \E found \in Contexts : Passes(found) /\ context' = found
    /\ StartInstall(force)
    /\ setup' = "installing" /\ UNCHANGED touched

\* A step in the midst of an install or an uninstall.
CommandStep ==
    /\ \/ \E f \in Files : Skip(f) \/ Look(f) \/ Copy(f)
       \/ OpenManifest
       \/ \E p \in Paths : Remove(p)
       \/ RemoveManifest
    /\ UNCHANGED setupVars

\* A plain install ends, a setup goes on to its sync.
InstallDone ==
    /\ NothingInstalled \/ WriteManifest
    /\ IF setup = "installing"
       THEN setup' = "syncing" /\ UNCHANGED <<context, touched>>
       ELSE EndSetup

\* What sync throws at before it writes anything.
Refused(found) == "conflict" \in found \/ found = {"broken"}

\* Sync throws: the pack is installed and the context is not what the
\* preflight saw; setup says how to uninstall, and exits with 1.
SyncRefuses ==
    /\ setup = "syncing" /\ Refused(context)
    /\ EndSetup /\ UNCHANGED vars

\* Sync writes what was stale, or is skipped without sources; or it fails
\* on the way.
SyncRuns ==
    /\ setup = "syncing" /\ ~Refused(context)
    /\ EndSetup /\ UNCHANGED vars

\* The user edits a source, an output or the sync manifest.
Touch ==
    /\ setup # "none"
    /\ context' \in Contexts \ {context} /\ touched' = TRUE
    /\ UNCHANGED <<vars, setup>>
-----------------------------------------------------------------------------
\* One command at a time.
SetupNext ==
    \/ \E force \in BOOLEAN : StartSetup(force)
    \/ /\ setup = "none"
       /\ (\E force \in BOOLEAN : StartInstall(force)) \/ StartUninstall
       /\ UNCHANGED setupVars
    \/ CommandStep \/ InstallDone
    \/ SyncRefuses \/ SyncRuns
    \/ Stop /\ EndSetup
    \/ Touch
    \/ (\E f \in Files : Edit(f)) /\ UNCHANGED setupVars
    \/ setup = "none" /\ (Upgrade \/ Move) /\ UNCHANGED setupVars

SetupSpec == SetupInit /\ [][SetupNext]_allVars
-----------------------------------------------------------------------------
(***************************************************************************)
(* Properties                                                              *)
(***************************************************************************)

\* The two promises of a setup.  A context the preflight let pass, and that
\* nobody has touched since, is one the sync will not refuse: no setup stops
\* half way, pack installed and context not, by its own doing (290-300,
\* 376-401).  And a forced one that nobody interfered with repairs whatever
\* interruptions, moves and edits left: when the install has ended, the whole
\* pack is there, up to date, and recorded.
SetupKeepsItsWord ==
    /\ setup # "none" /\ ~touched => ~Refused(context)
    /\ ForceRepairs
=============================================================================
