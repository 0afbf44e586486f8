---------------------------- MODULE PackInstall ----------------------------
(***************************************************************************)
(* `aco pack install`, `setup` and `uninstall`                             *)
(* (packages/wrapper/src/commands/pack-install.ts) over one target         *)
(* directory.  Installing copies the templates of the package one by one   *)
(* and then merges their paths into aco-manifest.json; uninstalling        *)
(* removes the files that manifest names and then the manifest.  A run may *)
(* stop between any two steps, the user edits the installed files at any   *)
(* moment, upgrades the package, and moves the checkout: the manifest      *)
(* holds absolute paths.                                                   *)
(*                                                                         *)
(* The order of the trees (commands, prompts, tasks, and with --global     *)
(* skills) makes no difference here: files are copied in any order.        *)
(***************************************************************************)
EXTENDS Naturals

CONSTANTS
    Files,      \* the places in the target directory a template may go to
    Versions,   \* versions of the package, and what their templates hold
    Pack,       \* the files each version installs here
    Bases,      \* where the target directory may be
    NoFile,
    Torn,       \* what an interrupted write leaves
    Own,        \* something the user wrote
    Faults,     \* may a run stop?
    MaxEdits    \* bound: how often the user interferes

ASSUME PackAssumption == Pack \in [Versions -> SUBSET Files]
ASSUME ContentsAssumption ==
    /\ NoFile # Torn /\ NoFile # Own /\ Torn # Own
    /\ {NoFile, Torn, Own} \cap Versions = {}
ASSUME FaultsAssumption == Faults \in BOOLEAN /\ MaxEdits \in Nat

Paths == [at: Bases, file: Files]
Contents == Versions \cup {NoFile, Torn, Own}

VARIABLES
    version, base,   \* the installed package, where the target directory is
    disk,            \* its files
    manifest,        \* aco-manifest.json: missing, cut off, or whole
    recorded,        \* the paths a whole one lists
    run,             \* what is running, with --force or not, since when
    todo,            \* install: files still to be looked at
    cur, looked,     \* install: the files found fit to be copied, and when
    installed,       \* install: what was copied
    entries,         \* what the manifest will say, what is to be removed
    edits,           \* how often the user interfered: the time
    wrote,           \* files that were ever copied
    stray,           \* files an interruption or a move left unrecorded
    current          \* a forced install was the last thing that happened

userVars == <<version, base, edits>>
manifestVars == <<manifest, recorded>>
copyVars == <<todo, cur, looked, installed>>
historyVars == <<wrote, stray, current>>
vars == <<version, base, disk, manifest, recorded, run, todo, cur, looked,
          installed, entries, edits, wrote, stray, current>>

NoRun == [at |-> "idle", force |-> FALSE, since |-> 0]

TypeOK ==
    /\ version \in Versions /\ base \in Bases
    /\ disk \in [Files -> Contents]
    /\ manifest \in {"none", "torn", "whole"}
    /\ recorded \in SUBSET Paths
    /\ run \in [at: {"idle", "copy", "save", "remove"}, force: BOOLEAN,
                since: 0..edits]
    /\ todo \in SUBSET Files /\ cur \in SUBSET Files
    /\ looked \in 0..edits
    /\ installed \in SUBSET Paths /\ entries \in SUBSET Paths
    /\ edits \in 0..MaxEdits
    /\ wrote \in SUBSET Files /\ stray \in SUBSET Files
    /\ current \in BOOLEAN

\* Any version, nothing installed, and files the user may have there.
Init ==
    /\ version \in Versions /\ base \in Bases
    /\ disk \in [Files -> {NoFile, Own}]
    /\ manifest = "none" /\ recorded = {}
    /\ run = NoRun
    /\ todo = {} /\ cur = {} /\ looked = 0 /\ installed = {} /\ entries = {}
    /\ edits = 0
    /\ wrote = {} /\ stray = {} /\ current = FALSE
-----------------------------------------------------------------------------
Entry_Source(f) == [at |-> version, file |-> f]  \* Mutation: the template
Entry(f) == [at |-> base, file |-> f]

\* Files that are there as aco wrote them, or tried to, and that uninstall
\* would not find.
Unrecorded(content, place) ==
    {f \in Files : /\ content[f] \in Versions \cup {Torn}
                   /\ [at |-> place, file |-> f] \notin recorded}

Leave ==
    /\ run' = NoRun
    /\ todo' = {} /\ cur' = {} /\ looked' = 0
    /\ installed' = {} /\ entries' = {}
-----------------------------------------------------------------------------
\* Install

\* A plain install, or that of a setup (PackSetup).
StartInstall(force) ==
    /\ run.at = "idle"
    /\ run' = [at |-> "copy", force |-> force, since |-> edits]
    /\ todo' = Pack[version]
    /\ UNCHANGED <<disk, cur, looked, installed, entries>>
    /\ UNCHANGED manifestVars
    /\ UNCHANGED userVars /\ UNCHANGED historyVars

Blocked_Always(f) == disk[f] # NoFile  \* Mutation: --force is not passed on
Blocked(f) == ~run.force /\ disk[f] # NoFile

\* Mutation: a skipped file is recorded like a copied one.
Skip_Recorded(f) ==
    /\ run.at = "copy" /\ cur = {} /\ f \in todo /\ Blocked(f)
    /\ todo' = todo \ {f}
    /\ installed' = installed \cup {Entry(f)}
    /\ UNCHANGED <<disk, run, cur, looked, entries>> /\ UNCHANGED manifestVars
    /\ UNCHANGED userVars /\ UNCHANGED historyVars

Skip(f) ==
    /\ run.at = "copy" /\ cur = {} /\ f \in todo /\ Blocked(f)
    /\ todo' = todo \ {f}
    /\ UNCHANGED <<disk, run, cur, looked, installed, entries>>
    /\ UNCHANGED manifestVars
    /\ UNCHANGED userVars /\ UNCHANGED historyVars

Look(f) ==
    /\ run.at = "copy" /\ cur = {} /\ f \in todo /\ ~Blocked(f)
    /\ todo' = todo \ {f}
    /\ cur' = {f} /\ looked' = edits
    /\ UNCHANGED <<disk, run, installed, entries>> /\ UNCHANGED manifestVars
    /\ UNCHANGED userVars /\ UNCHANGED historyVars

\* The directory was made in the meantime; the copy asks no more.
Copy(f) ==
    /\ f \in cur
    /\ disk' = [disk EXCEPT ![f] = version]
    /\ cur' = {}
    /\ installed' = installed \cup {Entry(f)}
    /\ wrote' = wrote \cup {f}
    /\ UNCHANGED <<run, todo, looked, entries, stray, current>>
    /\ UNCHANGED manifestVars
    /\ UNCHANGED userVars

Copied == run.at = "copy" /\ todo = {} /\ cur = {}

NewEntries_Fresh == installed  \* Mutation: the manifest is replaced
NewEntries == recorded \cup installed

NothingInstalled ==
    /\ Copied /\ NewEntries = {}
    /\ current' = (run.force /\ edits = run.since)
    /\ Leave
    /\ UNCHANGED <<disk, wrote, stray>> /\ UNCHANGED manifestVars
    /\ UNCHANGED userVars

OpenManifest ==
    /\ Copied /\ NewEntries # {}
    /\ entries' = NewEntries
    /\ manifest' = "torn" /\ recorded' = {}
    /\ run' = [run EXCEPT !.at = "save"]
    /\ UNCHANGED disk /\ UNCHANGED userVars
    /\ UNCHANGED copyVars /\ UNCHANGED historyVars

WriteManifest ==
    /\ run.at = "save"
    /\ manifest' = "whole" /\ recorded' = entries
    /\ stray' = {f \in stray : Entry(f) \notin installed}
    /\ current' = (run.force /\ edits = run.since)
    /\ Leave
    /\ UNCHANGED <<disk, wrote>> /\ UNCHANGED userVars
-----------------------------------------------------------------------------
\* Uninstall

\* Without a manifest there is nothing to do; one that does not parse lists
\* nothing.
StartUninstall ==
    /\ run.at = "idle" /\ manifest # "none"
    /\ run' = [at |-> "remove", force |-> FALSE, since |-> edits]
    /\ entries' = recorded
    /\ current' = FALSE
    /\ UNCHANGED <<disk, wrote, stray>> /\ UNCHANGED manifestVars
    /\ UNCHANGED userVars /\ UNCHANGED copyVars

\* An entry outside the target directory is skipped.
Remove(p) ==
    /\ run.at = "remove" /\ p \in entries
    /\ disk' = IF p.at = base THEN [disk EXCEPT ![p.file] = NoFile] ELSE disk
    /\ entries' = entries \ {p}
    /\ UNCHANGED run /\ UNCHANGED manifestVars
    /\ UNCHANGED userVars /\ UNCHANGED copyVars /\ UNCHANGED historyVars

RemoveManifest ==
    /\ run.at = "remove" /\ entries = {}
    /\ manifest' = "none" /\ recorded' = {}
    /\ Leave
    /\ UNCHANGED disk /\ UNCHANGED userVars /\ UNCHANGED historyVars
-----------------------------------------------------------------------------
\* A kill, or a file operation that throws: the file being copied may be
\* torn, the manifest is as it is.
Stop ==
    /\ Faults /\ run.at # "idle"
    /\ \/ UNCHANGED <<disk, wrote>>
       \/ \E f \in cur :
              /\ disk' = [disk EXCEPT ![f] = Torn]
              /\ wrote' = wrote \cup {f}
    /\ stray' = stray \cup Unrecorded(disk', base)
    /\ current' = FALSE
    /\ Leave
    /\ UNCHANGED manifestVars /\ UNCHANGED userVars

Interferes == edits < MaxEdits /\ edits' = edits + 1 /\ current' = FALSE

Edit(f) ==
    /\ Interferes
    /\ \E content \in {NoFile, Own} \ {disk[f]} :
           disk' = [disk EXCEPT ![f] = content]
    /\ UNCHANGED <<version, base, run, entries, wrote, stray>>
    /\ UNCHANGED manifestVars
    /\ UNCHANGED copyVars

Upgrade ==
    /\ Interferes /\ run.at = "idle"
    /\ version' \in Versions \ {version}
    /\ UNCHANGED <<base, disk, run, entries, wrote, stray>>
    /\ UNCHANGED manifestVars
    /\ UNCHANGED copyVars

Move ==
    /\ Interferes /\ run.at = "idle"
    /\ base' \in Bases \ {base}
    /\ stray' = stray \cup Unrecorded(disk, base')
    /\ UNCHANGED <<version, disk, run, entries, wrote>>
    /\ UNCHANGED manifestVars
    /\ UNCHANGED copyVars
-----------------------------------------------------------------------------
Next ==
    \/ \E force \in BOOLEAN : StartInstall(force)
    \/ \E f \in Files : Skip(f) \/ Look(f) \/ Copy(f) \/ Edit(f)
    \/ NothingInstalled \/ OpenManifest \/ WriteManifest
    \/ StartUninstall \/ (\E p \in Paths : Remove(p)) \/ RemoveManifest
    \/ Stop \/ Upgrade \/ Move

Spec == Init /\ [][Next]_vars
-----------------------------------------------------------------------------
(***************************************************************************)
(* Properties                                                              *)
(***************************************************************************)

\* Whatever aco wrote and is still there, uninstall will find, through
\* upgrades that drop templates, repeated installs and interrupted
\* uninstalls; only the files that were being installed when a run stopped,
\* or that moved with the checkout, may go astray (101-115, 154-166).
StaysRecorded ==
    run.at \in {"idle", "remove"} => Unrecorded(disk, base) \subseteq stray

\* aco neither overwrites without --force nor ever uninstalls a file at a
\* place where it never put one, unless it appeared between the look and
\* the copy (444-450, 155-164).
OnlyOwnFiles ==
    [][\A f \in Files \ wrote :
           disk[f] # NoFile /\ disk'[f] # disk[f] /\ edits' = edits =>
               run.at = "copy" /\ (run.force \/ edits # looked)]_vars

\* A completed forced install repairs whatever interruptions, moves and
\* edits left: the whole pack is there, up to date, and recorded.
ForceRepairs ==
    current /\ run.at = "idle" =>
        \A f \in Pack[version] : disk[f] = version /\ Entry(f) \in recorded
=============================================================================
