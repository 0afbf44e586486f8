------------------------------ MODULE PackProofs ------------------------------
(***************************************************************************)
(* What PackInstall establishes for any package, any number of files,      *)
(* versions and places, and any number of edits; and what PackSetup, an    *)
(* install with more state around it, makes of that.                       *)
(***************************************************************************)
EXTENDS PackSetup, TLAPS

-----------------------------------------------------------------------------
(***************************************************************************)
(* The inductive invariant, part by part.                                  *)
(***************************************************************************)

\* What a run knows at each of its stages.
Stages ==
    /\ run.at # "copy" => todo = {} /\ cur = {}
    /\ run.at \in {"idle", "remove"} => installed = {}
    /\ run.at \in {"idle", "copy"} => entries = {}
    /\ run.at = "save" => installed \subseteq entries /\ recorded = {}
    /\ \A f, g \in cur : f = g
    /\ run.at = "remove" => entries \subseteq recorded /\ ~current

\* The file is there, and not by the user.
Ours(f) == disk[f] \in Versions \cup {Torn}

\* Where the path of a file is that aco wrote.
Recording ==
    \A f \in Files \ stray :
        Ours(f) => \/ Entry(f) \in recorded
                   \/ run.at = "copy" /\ Entry(f) \in installed
                   \/ run.at = "save" /\ Entry(f) \in entries

\* What uninstall has dealt with is gone.
Removed ==
    run.at = "remove" =>
        \A p \in recorded \ entries : p.at = base => ~Ours(p.file)

\* Only paths of files that were copied are ever listed.
Listed == \A p \in recorded \cup installed \cup entries : p.file \in wrote

\* A file about to be copied is missing, or may be overwritten.
Fit ==
    \A f \in cur : ~run.force /\ edits = looked => disk[f] = NoFile

\* How far a forced install has got that nobody interfered with.
Repairing ==
    run.force /\ edits = run.since =>
        /\ run.at = "copy" =>
               \A f \in Pack[version] \ (todo \cup cur) :
                   disk[f] = version /\ Entry(f) \in installed
        /\ run.at = "save" =>
               \A f \in Pack[version] :
                   disk[f] = version /\ Entry(f) \in entries

IInv ==
    /\ TypeOK
    /\ Stages
    /\ Recording
    /\ Removed
    /\ Listed
    /\ Fit
    /\ Repairing
    /\ ForceRepairs
-----------------------------------------------------------------------------
\* Nothing is installed to begin with.
LEMMA InitIInv == Init => IInv
<1> SUFFICES ASSUME Init PROVE IInv
  OBVIOUS
<1> USE ContentsAssumption, FaultsAssumption
<1>1. TypeOK
  <2>1. disk \in [Files -> Contents]
    BY DEF Init, Contents
  <2>2. run \in [at: {"idle", "copy", "save", "remove"}, force: BOOLEAN,
                 since: 0..edits]
    BY DEF Init, NoRun
  <2>3. edits \in 0..MaxEdits /\ looked \in 0..edits
    BY DEF Init
  <2>4. QED
    BY <2>1, <2>2, <2>3 DEF Init, TypeOK
<1>2. Stages /\ Removed /\ Listed /\ Fit /\ ForceRepairs
  BY DEF Init, NoRun, Stages, Removed, Listed, Fit, ForceRepairs
<1>3. Recording
  BY DEF Init, Recording, Ours
<1>4. Repairing
  BY DEF Init, NoRun, Repairing
<1>5. QED
  BY <1>1, <1>2, <1>3, <1>4 DEF IInv

\* An edit is later than everything a run has noted.
LEMMA Later ==
    ASSUME TypeOK, Interferes
    PROVE  /\ edits' \in 0..MaxEdits
           /\ run \in [at: {"idle", "copy", "save", "remove"},
                      force: BOOLEAN, since: 0..edits']
           /\ looked \in 0..edits'
           /\ edits' # run.since /\ edits' # looked
           /\ ~current' /\ current' \in BOOLEAN
<1> USE FaultsAssumption DEF TypeOK, Interferes
<1>1. edits' \in 0..MaxEdits /\ looked \in 0..edits' /\ edits' # looked
  OBVIOUS
<1>2. run.since \in 0..edits' /\ edits' # run.since
  OBVIOUS
<1>3. run \in [at: {"idle", "copy", "save", "remove"}, force: BOOLEAN,
              since: 0..edits']
  BY <1>2
<1>4. ~current' /\ current' \in BOOLEAN
  OBVIOUS
<1>5. QED
  BY <1>1, <1>2, <1>3, <1>4

\* Every step of the two commands, the user and the machine preserves it.
LEMMA NextIInv == IInv /\ [Next]_vars => IInv'
<1> SUFFICES ASSUME IInv, [Next]_vars PROVE IInv'
  OBVIOUS
<1> USE ContentsAssumption, FaultsAssumption, PackAssumption
    DEF IInv, userVars, manifestVars, copyVars, historyVars
<1>0. TypeOK
  BY DEF IInv
<1>1. ASSUME NEW force \in BOOLEAN, StartInstall(force) PROVE IInv'
  <2>1. TypeOK'
    BY <1>1 DEF StartInstall, TypeOK
  <2>2. Stages'
    BY <1>1 DEF StartInstall, Stages
  <2>3. Recording'
    BY <1>1 DEF StartInstall, Recording, Ours, Entry
  <2>4. Removed'
    BY <1>1 DEF StartInstall, Removed
  <2>5. Listed'
    BY <1>1 DEF StartInstall, Listed
  <2>6. Fit'
    BY <1>1 DEF StartInstall, Stages, Fit
  <2>7. Repairing'
    BY <1>1 DEF StartInstall, Repairing
  <2>8. ForceRepairs'
    BY <1>1 DEF StartInstall, ForceRepairs
  <2>9. QED
    BY <2>1, <2>2, <2>3, <2>4, <2>5, <2>6, <2>7, <2>8 DEF IInv
<1>2. ASSUME NEW f \in Files, Skip(f) PROVE IInv'
  <2>1. TypeOK'
    BY <1>2 DEF Skip, Blocked, TypeOK
  <2>2. Stages'
    BY <1>2 DEF Skip, Blocked, Stages
  <2>3. Recording'
    BY <1>2 DEF Skip, Blocked, Recording, Ours, Entry
  <2>4. Removed'
    BY <1>2 DEF Skip, Blocked, Removed
  <2>5. Listed'
    BY <1>2 DEF Skip, Blocked, Listed
  <2>6. Fit'
    BY <1>2 DEF Skip, Blocked, Fit
  <2>7. Repairing'
    <3>1. ~run.force /\ run' = run
      BY <1>2 DEF Skip, Blocked
    <3>2. QED
      BY <3>1 DEF Repairing
  <2>8. ForceRepairs'
    BY <1>2 DEF Skip, Blocked, ForceRepairs
  <2>9. QED
    BY <2>1, <2>2, <2>3, <2>4, <2>5, <2>6, <2>7, <2>8 DEF IInv
<1>3. ASSUME NEW f \in Files, Look(f) PROVE IInv'
  <2>1. TypeOK'
    BY <1>3 DEF Look, Blocked, TypeOK
  <2>2. Stages'
    BY <1>3 DEF Look, Blocked, Stages
  <2>3. Recording'
    BY <1>3 DEF Look, Blocked, Recording, Ours, Entry
  <2>4. Removed'
    BY <1>3 DEF Look, Blocked, Removed
  <2>5. Listed'
    BY <1>3 DEF Look, Blocked, Listed
  <2>6. Fit'
    BY <1>3 DEF Look, Blocked, Fit
  <2>7. Repairing'
    BY <1>3 DEF Look, Blocked, Repairing, Entry
  <2>8. ForceRepairs'
    BY <1>3 DEF Look, Blocked, ForceRepairs
  <2>9. QED
    BY <2>1, <2>2, <2>3, <2>4, <2>5, <2>6, <2>7, <2>8 DEF IInv
<1>4. ASSUME NEW f \in Files, Copy(f) PROVE IInv'
  <2>1. TypeOK'
    <3>1. f \in Files /\ version \in Contents /\ Entry(f) \in Paths
      BY <1>0 DEF TypeOK, Contents, Paths, Entry
    <3>2. QED
      BY <1>4, <3>1 DEF Copy, TypeOK
  <2>2. Stages'
    BY <1>4 DEF Copy, Stages
  <2>3. Recording'
    BY <1>4 DEF Copy, Stages, Recording, Ours, Entry
  <2>4. Removed'
    BY <1>4 DEF Copy, Stages, Removed
  <2>5. Listed'
    BY <1>4 DEF Copy, Listed, Entry
  <2>6. Fit'
    BY <1>4 DEF Copy, Fit
  <2>7. Repairing'
    <3>1. cur = {f} /\ cur' = {} /\ run' = run /\ run.at = "copy"
      BY <1>4 DEF Copy, Stages
    <3>2. SUFFICES ASSUME run.force, edits = run.since,
                          NEW g \in Pack[version] \ todo
                   PROVE  disk'[g] = version /\ Entry(g) \in installed'
      BY <1>4, <3>1 DEF Copy, Repairing, Entry
    <3>3. CASE g = f
      BY <1>4, <3>3 DEF Copy, TypeOK
    <3>4. CASE g # f
      BY <1>4, <3>1, <3>2, <3>4 DEF Copy, Repairing
    <3>5. QED
      BY <3>3, <3>4
  <2>8. ForceRepairs'
    BY <1>4 DEF Copy, ForceRepairs, Entry
  <2>9. QED
    BY <2>1, <2>2, <2>3, <2>4, <2>5, <2>6, <2>7, <2>8 DEF IInv
<1>5. ASSUME NEW f \in Files, Edit(f) PROVE IInv'
  <2>1. TypeOK'
    <3>1. disk' \in [Files -> Contents]
      BY <1>5 DEF Edit, TypeOK, Contents
    <3>2. QED
      BY <1>5, <3>1, Later DEF Edit, TypeOK
  <2>2. Stages'
    BY <1>5 DEF Edit, Interferes, Stages
  <2>3. Recording'
    BY <1>5 DEF Edit, Interferes, Recording, Ours, Entry
  <2>4. Removed'
    BY <1>5 DEF Edit, Interferes, Removed, Ours
  <2>5. Listed'
    BY <1>5 DEF Edit, Interferes, Listed
  <2>6. Fit'
    <3>1. edits' # looked
      BY <1>5, Later DEF Edit
    <3>2. QED
      BY <1>5, <3>1 DEF Edit, Fit
  <2>7. Repairing'
    <3>1. edits' # run.since
      BY <1>5, Later DEF Edit
    <3>2. QED
      BY <1>5, <3>1 DEF Edit, Repairing
  <2>8. ForceRepairs'
    BY <1>5 DEF Edit, Interferes, ForceRepairs
  <2>9. QED
    BY <2>1, <2>2, <2>3, <2>4, <2>5, <2>6, <2>7, <2>8 DEF IInv
<1>6. CASE NothingInstalled
  <2>1. TypeOK'
    BY <1>6 DEF NothingInstalled, Copied, NewEntries, Leave, TypeOK, NoRun
  <2>2. Stages'
    BY <1>6 DEF NothingInstalled, Copied, NewEntries, Leave, Stages, NoRun
  <2>3. Recording'
    BY <1>6 DEF NothingInstalled, Copied, NewEntries, Recording, Ours
  <2>4. Removed'
    BY <1>6 DEF NothingInstalled, Copied, NewEntries, Removed
  <2>5. Listed'
    BY <1>6 DEF NothingInstalled, Copied, NewEntries, Leave, Listed
  <2>6. Fit'
    BY <1>6 DEF NothingInstalled, Copied, NewEntries, Leave, Fit
  <2>7. Repairing'
    BY <1>6 DEF NothingInstalled, Copied, NewEntries, Leave, Repairing, NoRun
  <2>8. ForceRepairs'
    BY <1>6 DEF NothingInstalled, Copied, NewEntries, Repairing, ForceRepairs
  <2>9. QED
    BY <2>1, <2>2, <2>3, <2>4, <2>5, <2>6, <2>7, <2>8 DEF IInv
<1>7. CASE OpenManifest
  <2>1. TypeOK'
    BY <1>7 DEF OpenManifest, Copied, NewEntries, TypeOK
  <2>2. Stages'
    BY <1>7 DEF OpenManifest, Copied, NewEntries, Stages
  <2>3. Recording'
    BY <1>7 DEF OpenManifest, Copied, NewEntries, Recording, Ours, Entry
  <2>4. Removed'
    BY <1>7 DEF OpenManifest, Copied, NewEntries, Removed
  <2>5. Listed'
    BY <1>7 DEF OpenManifest, Copied, NewEntries, Listed
  <2>6. Fit'
    BY <1>7 DEF OpenManifest, Copied, NewEntries, Fit
  <2>7. Repairing'
    BY <1>7 DEF OpenManifest, Copied, NewEntries, Repairing, Entry
  <2>8. ForceRepairs'
    BY <1>7 DEF OpenManifest, Copied, NewEntries, ForceRepairs
  <2>9. QED
    BY <2>1, <2>2, <2>3, <2>4, <2>5, <2>6, <2>7, <2>8 DEF IInv
<1>8. CASE WriteManifest
  <2>1. TypeOK'
    BY <1>8 DEF WriteManifest, Leave, TypeOK, NoRun
  <2>2. Stages'
    BY <1>8 DEF WriteManifest, Leave, Stages, NoRun
  <2>3. Recording'
    BY <1>8 DEF WriteManifest, Stages, Recording, Ours, Entry
  <2>4. Removed'
    BY <1>8 DEF WriteManifest, Leave, Removed, NoRun
  <2>5. Listed'
    BY <1>8 DEF WriteManifest, Leave, Listed
  <2>6. Fit'
    BY <1>8 DEF WriteManifest, Leave, Fit
  <2>7. Repairing'
    BY <1>8 DEF WriteManifest, Leave, Repairing, NoRun
  <2>8. ForceRepairs'
    BY <1>8 DEF WriteManifest, Repairing, ForceRepairs, Entry
  <2>9. QED
    BY <2>1, <2>2, <2>3, <2>4, <2>5, <2>6, <2>7, <2>8 DEF IInv
<1>9. CASE StartUninstall
  <2>1. TypeOK'
    <3>1. edits \in 0..edits
      BY <1>0 DEF TypeOK
    <3>2. QED
      BY <1>9, <3>1 DEF StartUninstall, TypeOK
  <2>2. Stages'
    BY <1>9 DEF StartUninstall, Stages
  <2>3. Recording'
    BY <1>9 DEF StartUninstall, Recording, Ours, Entry
  <2>4. Removed'
    BY <1>9 DEF StartUninstall, Removed
  <2>5. Listed'
    BY <1>9 DEF StartUninstall, Listed
  <2>6. Fit'
    BY <1>9 DEF StartUninstall, Stages, Fit
  <2>7. Repairing'
    BY <1>9 DEF StartUninstall, Repairing
  <2>8. ForceRepairs'
    BY <1>9 DEF StartUninstall, ForceRepairs
  <2>9. QED
    BY <2>1, <2>2, <2>3, <2>4, <2>5, <2>6, <2>7, <2>8 DEF IInv
<1>10. ASSUME NEW p \in Paths, Remove(p) PROVE IInv'
  <2>1. TypeOK'
    BY <1>10 DEF Remove, TypeOK, Contents
  <2>2. Stages'
    BY <1>10 DEF Remove, Stages
  <2>3. Recording'
    BY <1>10 DEF Remove, Recording, Ours, Entry
  <2>4. Removed'
    BY <1>10 DEF Remove, TypeOK, Paths, Stages, Removed, Ours
  <2>5. Listed'
    BY <1>10 DEF Remove, Listed
  <2>6. Fit'
    BY <1>10 DEF Remove, Fit
  <2>7. Repairing'
    BY <1>10 DEF Remove, Repairing
  <2>8. ForceRepairs'
    BY <1>10 DEF Remove, ForceRepairs
  <2>9. QED
    BY <2>1, <2>2, <2>3, <2>4, <2>5, <2>6, <2>7, <2>8 DEF IInv
<1>11. CASE RemoveManifest
  <2>1. TypeOK'
    BY <1>11 DEF RemoveManifest, Leave, TypeOK, NoRun
  <2>2. Stages'
    BY <1>11 DEF RemoveManifest, Leave, Stages
  <2>3. Recording'
    <3>1. run.at = "remove" /\ entries = {}
      BY <1>11 DEF RemoveManifest
    <3>2. ASSUME NEW f \in Files \ stray PROVE ~Ours(f)
      <4>1. Entry(f) \in recorded => ~Ours(f)
        BY <3>1 DEF Removed, Entry
      <4>2. QED
        BY <3>1, <4>1 DEF Recording
    <3>3. QED
      BY <1>11, <3>2 DEF RemoveManifest, Recording, Ours
  <2>4. Removed'
    BY <1>11 DEF RemoveManifest, Removed
  <2>5. Listed'
    BY <1>11 DEF RemoveManifest, Leave, Listed
  <2>6. Fit'
    BY <1>11 DEF RemoveManifest, Leave, Fit
  <2>7. Repairing'
    BY <1>11 DEF RemoveManifest, Leave, Repairing, NoRun
  <2>8. ForceRepairs'
    BY <1>11 DEF RemoveManifest, Stages, ForceRepairs
  <2>9. QED
    BY <2>1, <2>2, <2>3, <2>4, <2>5, <2>6, <2>7, <2>8 DEF IInv
<1>12. CASE Stop
  <2>1. TypeOK'
    <3>1. disk' \in [Files -> Contents] /\ wrote' \in SUBSET Files
      BY <1>12 DEF Stop, TypeOK, Contents
    <3>2. stray' \in SUBSET Files
      BY <1>12 DEF Stop, TypeOK, Unrecorded
    <3>3. run' \in [at: {"idle", "copy", "save", "remove"}, force: BOOLEAN,
                    since: 0..edits'] /\ looked' \in 0..edits'
      BY <1>12 DEF Stop, Leave, NoRun, TypeOK
    <3>4. QED
      BY <1>12, <3>1, <3>2, <3>3 DEF Stop, Leave, TypeOK
  <2>2. Stages'
    BY <1>12 DEF Stop, Leave, Stages, NoRun
  <2>3. Recording'
    BY <1>12 DEF Stop, Unrecorded, Recording, Ours, Entry
  <2>4. Removed'
    BY <1>12 DEF Stop, Leave, Removed, NoRun
  <2>5. Listed'
    BY <1>12 DEF Stop, Leave, Listed
  <2>6. Fit'
    BY <1>12 DEF Stop, Leave, Fit
  <2>7. Repairing'
    BY <1>12 DEF Stop, Leave, Repairing, NoRun
  <2>8. ForceRepairs'
    BY <1>12 DEF Stop, ForceRepairs
  <2>9. QED
    BY <2>1, <2>2, <2>3, <2>4, <2>5, <2>6, <2>7, <2>8 DEF IInv
<1>13. CASE Upgrade
  <2>1. TypeOK'
    BY <1>13, Later DEF Upgrade, TypeOK
  <2>2. Stages'
    BY <1>13 DEF Upgrade, Interferes, Stages
  <2>3. Recording'
    BY <1>13 DEF Upgrade, Interferes, Recording, Ours, Entry
  <2>4. Removed'
    BY <1>13 DEF Upgrade, Interferes, Removed
  <2>5. Listed'
    BY <1>13 DEF Upgrade, Interferes, Listed
  <2>6. Fit'
    BY <1>13 DEF Upgrade, Stages, Fit
  <2>7. Repairing'
    BY <1>13 DEF Upgrade, Interferes, Repairing
  <2>8. ForceRepairs'
    BY <1>13 DEF Upgrade, Interferes, ForceRepairs
  <2>9. QED
    BY <2>1, <2>2, <2>3, <2>4, <2>5, <2>6, <2>7, <2>8 DEF IInv
<1>14. CASE Move
  <2>1. TypeOK'
    <3>1. stray' \in SUBSET Files
      BY <1>14 DEF Move, Unrecorded, TypeOK
    <3>2. QED
      BY <1>14, <3>1, Later DEF Move, TypeOK
  <2>2. Stages'
    BY <1>14 DEF Move, Interferes, Stages
  <2>3. Recording'
    BY <1>14 DEF Move, Interferes, Unrecorded, Recording, Ours, Entry
  <2>4. Removed'
    BY <1>14 DEF Move, Interferes, Removed
  <2>5. Listed'
    BY <1>14 DEF Move, Interferes, Listed
  <2>6. Fit'
    BY <1>14 DEF Move, Stages, Fit
  <2>7. Repairing'
    BY <1>14 DEF Move, Repairing
  <2>8. ForceRepairs'
    BY <1>14 DEF Move, Interferes, ForceRepairs
  <2>9. QED
    BY <2>1, <2>2, <2>3, <2>4, <2>5, <2>6, <2>7, <2>8 DEF IInv
<1>15. CASE UNCHANGED vars
  <2>1. TypeOK'
    BY <1>15 DEF vars, TypeOK
  <2>2. Stages'
    BY <1>15 DEF vars, Stages
  <2>3. Recording'
    BY <1>15 DEF vars, Recording, Ours, Entry
  <2>4. Removed'
    BY <1>15 DEF vars, Removed, Ours
  <2>5. Listed'
    BY <1>15 DEF vars, Listed
  <2>6. Fit'
    BY <1>15 DEF vars, Fit
  <2>7. Repairing'
    BY <1>15 DEF vars, Repairing, Entry
  <2>8. ForceRepairs'
    BY <1>15 DEF vars, ForceRepairs, Entry
  <2>9. QED
    BY <2>1, <2>2, <2>3, <2>4, <2>5, <2>6, <2>7, <2>8 DEF IInv
<1>16. QED
  BY <1>1, <1>2, <1>3, <1>4, <1>5, <1>6, <1>7, <1>8, <1>9, <1>10, <1>11,
     <1>12, <1>13, <1>14, <1>15
     DEF Next
-----------------------------------------------------------------------------
\* The inductive invariant holds throughout.
LEMMA Invariance == Spec => []IInv
<1>1. Init => IInv
  BY InitIInv
<1>2. IInv /\ [Next]_vars => IInv'
  BY NextIInv
<1>3. QED
  BY <1>1, <1>2, PTL DEF Spec

\* Types: every variable of the installer keeps to its domain.
THEOREM TypeCorrect == Spec => []TypeOK
<1>1. IInv => TypeOK
  BY DEF IInv
<1>2. QED
  BY <1>1, Invariance, PTL

\* Uninstall finds whatever aco wrote, but for what an interruption or a
\* move left behind: Recording, where no install is under way.
THEOREM InstallsStayRecorded == Spec => []StaysRecorded
<1>1. IInv => StaysRecorded
  BY DEF IInv, Recording, Ours, StaysRecorded, Unrecorded, Entry
<1>2. QED
  BY <1>1, Invariance, PTL

\* A forced install repairs the whole pack.
THEOREM ForceRepairsAll == Spec => []ForceRepairs
<1>1. IInv => ForceRepairs
  BY DEF IInv
<1>2. QED
  BY <1>1, Invariance, PTL

\* No file at a place where aco never put one is overwritten unasked, or
\* uninstalled: what is listed was written, and what is copied was missing.
LEMMA StepIsOwn ==
    IInv /\ [Next]_vars =>
        [\A f \in Files \ wrote :
            disk[f] # NoFile /\ disk'[f] # disk[f] /\ edits' = edits =>
                run.at = "copy" /\ (run.force \/ edits # looked)]_vars
<1> SUFFICES ASSUME IInv, Next, NEW g \in Files \ wrote,
                    disk[g] # NoFile, disk'[g] # disk[g], edits' = edits
             PROVE  run.at = "copy" /\ (run.force \/ edits # looked)
  BY DEF vars
<1>1. TypeOK /\ Stages /\ Listed /\ Fit
  BY DEF IInv
<1>2. ASSUME NEW f \in Files, Copy(f)
      PROVE  run.at = "copy" /\ (run.force \/ edits # looked)
  <2>1. g = f
    BY <1>1, <1>2 DEF Copy
  <2>2. QED
    BY <1>1, <1>2, <2>1 DEF Copy, Stages, Fit
<1>3. ASSUME NEW p \in Paths, Remove(p) PROVE FALSE
  <2>1. g = p.file
    BY <1>1, <1>3 DEF Remove
  <2>2. QED
    BY <1>1, <1>3, <2>1 DEF Remove, Listed
<1>4. CASE Stop
  <2>1. PICK f \in cur : disk' = [disk EXCEPT ![f] = Torn]
    BY <1>4 DEF Stop
  <2>2. g = f
    BY <1>1, <2>1
  <2>3. QED
    BY <1>1, <2>2 DEF Stages, Fit
<1>5. ASSUME NEW f \in Files, Edit(f) PROVE FALSE
  BY <1>1, <1>5, FaultsAssumption DEF Edit, Interferes
<1>6. QED
  BY <1>2, <1>3, <1>4, <1>5
     DEF Next, StartInstall, Skip, Look, NothingInstalled, OpenManifest,
         WriteManifest, StartUninstall, RemoveManifest, Upgrade, Move

\* Install and uninstall touch no file that aco has not written, unless they
\* are forced to, or the file appeared after they had looked.
THEOREM OwnFilesOnly == Spec => OnlyOwnFiles
<1>1. IInv /\ [Next]_vars =>
        [\A f \in Files \ wrote :
            disk[f] # NoFile /\ disk'[f] # disk[f] /\ edits' = edits =>
                run.at = "copy" /\ (run.force \/ edits # looked)]_vars
  BY StepIsOwn
<1>2. QED
  BY <1>1, Invariance, PTL DEF Spec, OnlyOwnFiles
-----------------------------------------------------------------------------
(***************************************************************************)
(* The setup: what holds of every behaviour of PackInstall holds of every  *)
(* behaviour of PackSetup, and the setup's own promises rest on it.        *)
(***************************************************************************)

\* Every step of a setup is a step of the commands it is made of, or leaves
\* their state alone.
LEMMA StepInstalls == [SetupNext]_allVars => [Next]_vars
<1> SUFFICES ASSUME [SetupNext]_allVars PROVE [Next]_vars
  OBVIOUS
<1>1. ASSUME NEW force \in BOOLEAN, StartSetup(force) PROVE Next
  BY <1>1 DEF StartSetup, Next
<1>2. ASSUME (\E force \in BOOLEAN : StartInstall(force)) \/ StartUninstall
      PROVE  Next
  BY <1>2 DEF Next
<1>3. CASE CommandStep
  BY <1>3 DEF CommandStep, Next
<1>4. CASE InstallDone
  BY <1>4 DEF InstallDone, Next
<1>5. CASE SyncRefuses \/ SyncRuns \/ Touch
  BY <1>5 DEF SyncRefuses, SyncRuns, Touch, vars
<1>6. CASE Stop
  BY <1>6 DEF Next
<1>7. CASE (\E f \in Files : Edit(f)) \/ Upgrade \/ Move
  BY <1>7 DEF Next
<1>8. CASE UNCHANGED allVars
  BY <1>8 DEF allVars
<1>9. QED
  BY <1>1, <1>2, <1>3, <1>4, <1>5, <1>6, <1>7, <1>8 DEF SetupNext

\* The setup implements the install: its behaviours, seen through the
\* variables of PackInstall, are behaviours of PackInstall.
THEOREM SetupInstalls == SetupSpec => Spec
<1>1. SetupInit => Init
  BY DEF SetupInit
<1>2. [SetupNext]_allVars => [Next]_vars
  BY StepInstalls
<1>3. QED
  BY <1>1, <1>2, PTL DEF SetupSpec, Spec
-----------------------------------------------------------------------------
\* The stages of a setup; and what its preflight found still holds as long
\* as nobody touches the context.
SetupStages ==
    /\ setup \in {"none", "installing", "syncing"}
    /\ context \in Contexts /\ touched \in BOOLEAN
    /\ setup = "none" => context = {} /\ ~touched
    /\ setup = "syncing" => run = NoRun

Preflighted == setup # "none" /\ ~touched => ~Refused(context)

\* No step of a command runs while the setup syncs.
LEMMA CommandRuns ==
    ASSUME IInv, CommandStep
    PROVE  run # NoRun
<1>1. run = NoRun => cur = {}
  BY DEF IInv, Stages, NoRun
<1>2. ASSUME NEW f \in Files, Skip(f) \/ Look(f) \/ Copy(f)
      PROVE  run # NoRun
  BY <1>1, <1>2 DEF Skip, Look, Copy, NoRun
<1>3. ASSUME OpenManifest \/ RemoveManifest \/ \E p \in Paths : Remove(p)
      PROVE  run # NoRun
  BY <1>3 DEF OpenManifest, Copied, RemoveManifest, Remove, NoRun
<1>4. QED
  BY <1>2, <1>3 DEF CommandStep

\* A setup goes through its stages in order, and on the context it has checked.
LEMMA SetupStep ==
    SetupStages /\ Preflighted /\ IInv /\ [SetupNext]_allVars
        => SetupStages' /\ Preflighted'
<1> SUFFICES ASSUME SetupStages, Preflighted, IInv, [SetupNext]_allVars
             PROVE  SetupStages' /\ Preflighted'
  OBVIOUS
<1> USE DEF SetupStages, Preflighted, setupVars
<1>1. ASSUME NEW force \in BOOLEAN, StartSetup(force)
      PROVE  SetupStages' /\ Preflighted'
  <2>1. PICK found \in Contexts : Passes(found) /\ context' = found
    BY <1>1 DEF StartSetup
  <2>2. ~Refused(context')
    BY <2>1 DEF Passes, Refused
  <2>3. setup' = "installing" /\ touched' = touched
    BY <1>1 DEF StartSetup
  <2>4. QED
    BY <2>1, <2>2, <2>3
<1>2. ASSUME setup = "none", UNCHANGED setupVars
      PROVE  SetupStages' /\ Preflighted'
  BY <1>2
<1>3. CASE CommandStep
  <2>1. run # NoRun
    BY <1>3, CommandRuns
  <2>2. QED
    BY <1>3, <2>1 DEF CommandStep, Refused
<1>4. CASE InstallDone
  <2>1. run' = NoRun
    BY <1>4 DEF InstallDone, NothingInstalled, WriteManifest, Leave
  <2>2. {} \in Contexts
    BY DEF Contexts
  <2>3. QED
    BY <1>4, <2>1, <2>2 DEF InstallDone, EndSetup, Refused
<1>5. ASSUME EndSetup PROVE SetupStages' /\ Preflighted'
  <2>1. {} \in Contexts
    BY DEF Contexts
  <2>2. QED
    BY <1>5, <2>1 DEF EndSetup
<1>6. CASE Touch
  BY <1>6 DEF Touch, vars
<1>7. ASSUME NEW f \in Files, Edit(f), UNCHANGED setupVars
      PROVE  SetupStages' /\ Preflighted'
  BY <1>7 DEF Edit, Refused
<1>8. CASE UNCHANGED allVars
  BY <1>8 DEF allVars, vars, Refused
<1>9. QED
  BY <1>1, <1>2, <1>3, <1>4, <1>5, <1>6, <1>7, <1>8
     DEF SetupNext, SyncRefuses, SyncRuns

\* Both invariants hold throughout a setup.
LEMMA SetupInvariance ==
    SetupSpec => [](SetupStages /\ Preflighted /\ IInv)
<1>1. SetupInit => SetupStages /\ Preflighted
  <2>1. {} \in Contexts
    BY DEF Contexts
  <2>2. QED
    BY <2>1 DEF SetupInit, SetupStages, Preflighted
<1>2. SetupSpec => []IInv
  BY SetupInstalls, Invariance, PTL
<1>3. SetupStages /\ Preflighted /\ IInv /\ [SetupNext]_allVars
        => SetupStages' /\ Preflighted'
  BY SetupStep
<1>4. QED
  BY <1>1, <1>2, <1>3, PTL DEF SetupSpec

\* Types: install and setup keep to their domains, and a setup that syncs
\* has no install under way.
THEOREM SetupTypeCorrect == SetupSpec => []SetupTypeOK
<1>1. SetupStages /\ IInv => SetupTypeOK
  BY DEF SetupStages, IInv, SetupTypeOK
<1>2. QED
  BY <1>1, SetupInvariance, PTL

\* Uninstall finds what a setup wrote, as it finds what an install wrote.
THEOREM SetupStaysRecorded == SetupSpec => []StaysRecorded
  BY SetupInstalls, InstallsStayRecorded, PTL

\* A setup, too, overwrites nothing unasked.
THEOREM SetupOwnFilesOnly == SetupSpec => OnlyOwnFiles
  BY SetupInstalls, OwnFilesOnly, PTL

\* No setup stops between its install and its sync unless the context was
\* edited after the preflight, and a forced one repairs the whole pack.
THEOREM SetupKeepsWord == SetupSpec => []SetupKeepsItsWord
<1>1. Preflighted /\ IInv => SetupKeepsItsWord
  BY DEF Preflighted, IInv, SetupKeepsItsWord
<1>2. QED
  BY <1>1, SetupInvariance, PTL
=============================================================================
