---------------------------- MODULE AskRunProofs ----------------------------
(***************************************************************************)
(* What AskRun establishes for any number of providers and signals, with   *)
(* or without a file system that may fail, and with an `aco cancel` that   *)
(* strikes any of its sessions.                                            *)
(***************************************************************************)
EXTENDS AskRun, TLAPS

-----------------------------------------------------------------------------
(***************************************************************************)
(* The inductive invariant, part by part.                                  *)
(***************************************************************************)

Early == {"check", "consent", "prepare"}
Turn == {"enter", "skip", "spawn", "stream", "read", "verdict", "next"}
Late == {"ledger", "report", "returned"}

\* What holds of the whole run at each point of cmdAsk.
Points ==
    /\ listening <=> pc \notin Early \cup Late
    /\ pc \in Early => \A i \in Sessions : status[i] = "absent"
    /\ pc \notin {"check"} => request.valid /\ InputUsable
    /\ pc \notin {"check", "consent"} => request.mode = "yes"
    /\ pc \in Early \cup {"create", "contexts"} => activeSession = 0
    /\ pc \in Turn \ {"enter"} => activeSession = cur
    /\ pc \in Early \cup {"contexts", "record"} => cur = 1
    /\ pc \in Late => cur = Providers
    /\ saved => pc \in {"report", "returned"}
    /\ activePid # 0 =>
           /\ pc \in {"stream", "read", "verdict", "next"}
           /\ activePid = cur /\ activeSession = cur /\ child[cur] # "none"
    /\ pc = "stream" => child[cur] # "none"
    /\ timeout = "armed" \/ forceKill = "armed" => pc = "stream"

\* Where each session stands: behind the loop, in it, or still to come.
Behind(i) ==
    \/ pc \in Late
    \/ pc \in Turn /\ i < cur
    \/ pc = "next" /\ i = cur

Progress ==
    \A i \in Sessions :
        /\ (pc = "create" => i < cur) /\ pc \notin Early =>
               status[i] # "absent"
        /\ Behind(i) <=> entry[i] # "none"
        /\ child[i] = "live" => i = cur /\ pc = "stream"
        /\ child[i] # "none" =>
               Behind(i) \/ (i = cur /\ pc \in {"stream", "read", "verdict"})
        /\ child[i] = "none" => sent[i] = "none"
        /\ entry[i] = "done" => child[i] = "zero"
        /\ seen[i] => Behind(i) \/ (i = cur /\ pc = "verdict")

\* The status in a task.json, or about to be written back to it, is a verdict
\* only if it is the one of the ledger, and 'cancelled' only behind a
\* cancellation; what a session was read back as, and what it says when its
\* turn is over.
Statuses ==
    /\ pc \in {"read", "verdict"} /\ outcome = "ok" => child[cur] = "zero"
    /\ \A i \in Sessions :
        /\ held[i] # "none" => pc = "record" \/ child[i] # "none"
        /\ \A s \in {status[i], held[i]} :
               /\ s \in {"done", "failed"} => s = entry[i]
               /\ s = "cancelled" => Struck(i)
        /\ status[i] = "running" /\ (seen[i] \/ entry[i] # "none") =>
               child[i] # "none"
        /\ entry[i] # "none" => (entry[i] = "cancelled" <=> seen[i])

\* Where a cancellation stands, and what it owes to what it has captured.
Cancellation ==
    /\ ~handled => /\ hPid = 0 /\ hSession = 0 /\ grace = "off"
                   /\ ~cleanupDone /\ ~ledgerDone
    /\ grace = "off" <=> hPid = 0
    /\ hPid # 0 => child[hPid] # "none"
    /\ hPid # 0 /\ cleanupDone => grace = "fired"
    /\ grace = "fired" => child[hPid] # "live" \/ sent[hPid] = "kill"
    /\ hSession # 0 => pc \notin Early \cup {"create", "contexts"}
    /\ handled /\ ~ledgerDone => hSession # 0
    /\ \A i \in Sessions : cancel[i] # "none" => status[i] # "absent"

\* What each way to end the process rules out.
Exits ==
    /\ exit = "handler" => handled /\ cleanupDone /\ ledgerDone
    /\ exit = "drain" => AllDone /\ pc = "returned"
    /\ exit = "dry" => pc = "consent"
    /\ exit = "signal" => ~listening
    /\ exit = "main" => pc # "stream"
    /\ pc = "returned" => AllDone

\* Whoever is about to force a provider has asked it first.
AskedFirst ==
    /\ forceKill = "armed" /\ child[cur] = "live" => sent[cur] # "none"
    /\ grace = "armed" /\ child[hPid] = "live" => sent[hPid] # "none"

IInv ==
    /\ TypeOK
    /\ Points
    /\ Progress
    /\ Statuses
    /\ Cancellation
    /\ Exits
    /\ AskedFirst
-----------------------------------------------------------------------------
\* A run that has read its command line satisfies the invariant.
LEMMA InitIInv == Init => IInv
<1> SUFFICES ASSUME Init PROVE IInv
  OBVIOUS
<1> USE ProvidersAssumption DEF Init, Sessions
<1>1. TypeOK
  <2>1. 1 \in Sessions /\ 0 \in 0..Providers
    OBVIOUS
  <2> HIDE DEF Sessions
  <2>2. QED
    BY <2>1 DEF TypeOK, Timer
<1>2. Points /\ Progress /\ Statuses
  BY DEF Points, Progress, Behind, Statuses, Early, Turn, Late
<1>3. Cancellation /\ Exits /\ AskedFirst
  BY DEF Cancellation, Exits, AskedFirst
<1>4. QED
  BY <1>1, <1>2, <1>3 DEF IInv

\* Every step of the run keeps it: one case per action, one step per part.
LEMMA RunIInv ==
    IInv /\ (Run \/ UNCHANGED runVars) /\ UNCHANGED cancel => IInv'
<1> SUFFICES ASSUME IInv, Run \/ UNCHANGED runVars, UNCHANGED cancel
             PROVE  IInv'
  OBVIOUS
<1> USE ProvidersAssumption, FaultyDiskAssumption
    DEF planVars, mainVars, childVars, timerVars, stateVars, handlerVars,
        Alive, Sessions, Timer, Ended, Verdicts, GoesOn, Ends,
        Struck
<1>1. CASE CheckRequest
  <2>1. TypeOK'
    BY <1>1
    DEF CheckRequest, InputUsable, IInv, TypeOK, Points
  <2>2. Points'
    BY <1>1
    DEF CheckRequest, InputUsable, IInv, TypeOK, Points, Progress, Early,
        Turn, Late
  <2>3. Progress'
    BY <1>1
    DEF CheckRequest, InputUsable, IInv, TypeOK, Points, Progress, Behind,
        Early, Turn, Late
  <2>4. Statuses'
    BY <1>1
    DEF CheckRequest, InputUsable, IInv, TypeOK, Points, Progress, Behind,
        Statuses, Cancellation, Early, Turn, Late
  <2>5. Cancellation'
    BY <1>1
    DEF CheckRequest, InputUsable, IInv, TypeOK, Points, Progress,
        Cancellation, Early, Turn, Late
  <2>6. Exits'
    BY <1>1
    DEF CheckRequest, InputUsable, AllDone, IInv, TypeOK, Points, Exits,
        Early, Turn, Late
  <2>7. AskedFirst'
    BY <1>1
    DEF CheckRequest, InputUsable, IInv, TypeOK, Points, Progress,
        Cancellation, AskedFirst
  <2>8. QED
    BY <2>1, <2>2, <2>3, <2>4, <2>5, <2>6, <2>7 DEF IInv
<1>2. CASE Consent
  <2>1. TypeOK'
    BY <1>2
    DEF Consent, IInv, TypeOK, Points
  <2>2. Points'
    BY <1>2
    DEF Consent, InputUsable, IInv, TypeOK, Points, Progress, Early, Turn,
        Late
  <2>3. Progress'
    BY <1>2
    DEF Consent, IInv, TypeOK, Points, Progress, Behind, Early, Turn, Late
  <2>4. Statuses'
    BY <1>2
    DEF Consent, IInv, TypeOK, Points, Progress, Behind, Statuses,
        Cancellation, Early, Turn, Late
  <2>5. Cancellation'
    BY <1>2
    DEF Consent, IInv, TypeOK, Points, Progress, Cancellation, Early, Turn,
        Late
  <2>6. Exits'
    BY <1>2
    DEF Consent, AllDone, IInv, TypeOK, Points, Exits, Early, Turn, Late
  <2>7. AskedFirst'
    BY <1>2
    DEF Consent, IInv, TypeOK, Points, Progress, Cancellation, AskedFirst
  <2>8. QED
    BY <2>1, <2>2, <2>3, <2>4, <2>5, <2>6, <2>7 DEF IInv
<1>3. CASE Prepare
  <2>1. TypeOK'
    BY <1>3
    DEF Prepare, IInv, TypeOK, Points
  <2>2. Points'
    BY <1>3
    DEF Prepare, InputUsable, IInv, TypeOK, Points, Progress, Early, Turn,
        Late
  <2>3. Progress'
    BY <1>3
    DEF Prepare, IInv, TypeOK, Points, Progress, Behind, Early, Turn, Late
  <2>4. Statuses'
    BY <1>3
    DEF Prepare, IInv, TypeOK, Points, Progress, Behind, Statuses,
        Cancellation, Early, Turn, Late
  <2>5. Cancellation'
    BY <1>3
    DEF Prepare, IInv, TypeOK, Points, Progress, Cancellation, Early, Turn,
        Late
  <2>6. Exits'
    BY <1>3
    DEF Prepare, AllDone, IInv, TypeOK, Points, Exits, Early, Turn, Late
  <2>7. AskedFirst'
    BY <1>3
    DEF Prepare, IInv, TypeOK, Points, Progress, Cancellation, AskedFirst
  <2>8. QED
    BY <2>1, <2>2, <2>3, <2>4, <2>5, <2>6, <2>7 DEF IInv
<1>4. CASE CreateSession
  <2>1. TypeOK'
    BY <1>4
    DEF CreateSession, IInv, TypeOK, Points
  <2>2. Points'
    BY <1>4
    DEF CreateSession, InputUsable, IInv, TypeOK, Points, Progress, Early,
        Turn, Late
  <2>3. Progress'
    BY <1>4
    DEF CreateSession, IInv, TypeOK, Points, Progress, Behind, Early, Turn,
        Late
  <2>4. Statuses'
    BY <1>4
    DEF CreateSession, IInv, TypeOK, Points, Progress, Behind, Statuses,
        Cancellation, Early, Turn, Late
  <2>5. Cancellation'
    BY <1>4
    DEF CreateSession, IInv, TypeOK, Points, Progress, Cancellation, Early,
        Turn, Late
  <2>6. Exits'
    BY <1>4
    DEF CreateSession, AllDone, IInv, TypeOK, Points, Exits, Early, Turn, Late
  <2>7. AskedFirst'
    BY <1>4
    DEF CreateSession, IInv, TypeOK, Points, Progress, Cancellation,
        AskedFirst
  <2>8. QED
    BY <2>1, <2>2, <2>3, <2>4, <2>5, <2>6, <2>7 DEF IInv
<1>5. CASE SeedPrimary
  <2>1. TypeOK'
    BY <1>5
    DEF SeedPrimary, IInv, TypeOK, Points
  <2>2. Points'
    BY <1>5
    DEF SeedPrimary, InputUsable, IInv, TypeOK, Points, Progress, Early, Turn,
        Late
  <2>3. Progress'
    BY <1>5
    DEF SeedPrimary, IInv, TypeOK, Points, Progress, Behind, Early, Turn, Late
  <2>4. Statuses'
    BY <1>5
    DEF SeedPrimary, IInv, TypeOK, Points, Progress, Behind, Statuses,
        Cancellation, Early, Turn, Late
  <2>5. Cancellation'
    BY <1>5
    DEF SeedPrimary, IInv, TypeOK, Points, Progress, Cancellation, Early,
        Turn, Late
  <2>6. Exits'
    BY <1>5
    DEF SeedPrimary, AllDone, IInv, TypeOK, Points, Exits, Early, Turn, Late
  <2>7. AskedFirst'
    BY <1>5
    DEF SeedPrimary, IInv, TypeOK, Points, Progress, Cancellation, AskedFirst
  <2>8. QED
    BY <2>1, <2>2, <2>3, <2>4, <2>5, <2>6, <2>7 DEF IInv
<1>6. CASE RecordContexts
  <2>1. TypeOK'
    BY <1>6
    DEF RecordContexts, Settled, IInv, TypeOK, Points
  <2>2. Points'
    BY <1>6
    DEF RecordContexts, Settled, InputUsable, IInv, TypeOK, Points, Progress, Early,
        Turn, Late
  <2>3. Progress'
    BY <1>6
    DEF RecordContexts, Settled, IInv, TypeOK, Points, Progress, Behind, Early, Turn,
        Late
  <2>4. Statuses'
    BY <1>6
    DEF RecordContexts, Settled, IInv, TypeOK, Points, Progress, Behind, Statuses,
        Cancellation, Early, Turn, Late
  <2>5. Cancellation'
    BY <1>6
    DEF RecordContexts, Settled, IInv, TypeOK, Points, Progress, Cancellation, Early,
        Turn, Late
  <2>6. Exits'
    BY <1>6
    DEF RecordContexts, Settled, AllDone, IInv, TypeOK, Points, Exits, Early, Turn,
        Late
  <2>7. AskedFirst'
    BY <1>6
    DEF RecordContexts, Settled, IInv, TypeOK, Points, Progress, Cancellation,
        AskedFirst
  <2>8. QED
    BY <2>1, <2>2, <2>3, <2>4, <2>5, <2>6, <2>7 DEF IInv
<1>7. CASE EnterProvider
  <2>1. TypeOK'
    BY <1>7
    DEF EnterProvider, IInv, TypeOK, Points
  <2>2. Points'
    BY <1>7
    DEF EnterProvider, InputUsable, IInv, TypeOK, Points, Progress, Early,
        Turn, Late
  <2>3. Progress'
    BY <1>7
    DEF EnterProvider, IInv, TypeOK, Points, Progress, Behind, Early, Turn,
        Late
  <2>4. Statuses'
    BY <1>7
    DEF EnterProvider, IInv, TypeOK, Points, Progress, Behind, Statuses,
        Cancellation, Early, Turn, Late
  <2>5. Cancellation'
    BY <1>7
    DEF EnterProvider, IInv, TypeOK, Points, Progress, Cancellation, Early,
        Turn, Late
  <2>6. Exits'
    BY <1>7
    DEF EnterProvider, AllDone, IInv, TypeOK, Points, Exits, Early, Turn, Late
  <2>7. AskedFirst'
    BY <1>7
    DEF EnterProvider, IInv, TypeOK, Points, Progress, Cancellation,
        AskedFirst
  <2>8. QED
    BY <2>1, <2>2, <2>3, <2>4, <2>5, <2>6, <2>7 DEF IInv
<1>8. CASE Skip
  <2>1. TypeOK'
    BY <1>8
    DEF Skip, IInv, TypeOK, Points
  <2>2. Points'
    BY <1>8
    DEF Skip, InputUsable, IInv, TypeOK, Points, Progress, Early, Turn, Late
  <2>3. Progress'
    BY <1>8
    DEF Skip, IInv, TypeOK, Points, Progress, Behind, Early, Turn, Late
  <2>4. Statuses'
    BY <1>8
    DEF Skip, IInv, TypeOK, Points, Progress, Behind, Statuses, Cancellation,
        Early, Turn, Late
  <2>5. Cancellation'
    BY <1>8
    DEF Skip, IInv, TypeOK, Points, Progress, Cancellation, Early, Turn, Late
  <2>6. Exits'
    BY <1>8
    DEF Skip, AllDone, IInv, TypeOK, Points, Exits, Early, Turn, Late
  <2>7. AskedFirst'
    BY <1>8
    DEF Skip, IInv, TypeOK, Points, Progress, Cancellation, AskedFirst
  <2>8. QED
    BY <2>1, <2>2, <2>3, <2>4, <2>5, <2>6, <2>7 DEF IInv
<1>9. CASE Spawn
  <2>1. TypeOK'
    BY <1>9
    DEF Spawn, IInv, TypeOK, Points
  <2>2. Points'
    BY <1>9
    DEF Spawn, InputUsable, IInv, TypeOK, Points, Progress, Early, Turn, Late
  <2>3. Progress'
    BY <1>9
    DEF Spawn, IInv, TypeOK, Points, Progress, Behind, Early, Turn, Late
  <2>4. Statuses'
    BY <1>9
    DEF Spawn, IInv, TypeOK, Points, Progress, Behind, Statuses, Cancellation,
        Early, Turn, Late
  <2>5. Cancellation'
    BY <1>9
    DEF Spawn, IInv, TypeOK, Points, Progress, Behind, Early, Turn, Late,
        Cancellation
  <2>6. Exits'
    BY <1>9
    DEF Spawn, AllDone, IInv, TypeOK, Points, Exits, Early, Turn, Late
  <2>7. AskedFirst'
    BY <1>9
    DEF Spawn, IInv, TypeOK, Points, Progress, Behind, Early, Turn, Late,
        Cancellation, AskedFirst
  <2>8. QED
    BY <2>1, <2>2, <2>3, <2>4, <2>5, <2>6, <2>7 DEF IInv
<1>10. CASE SpawnFails
  <2>1. TypeOK'
    BY <1>10
    DEF SpawnFails, IInv, TypeOK, Points
  <2>2. Points'
    BY <1>10
    DEF SpawnFails, InputUsable, IInv, TypeOK, Points, Progress, Early, Turn,
        Late
  <2>3. Progress'
    BY <1>10
    DEF SpawnFails, IInv, TypeOK, Points, Progress, Behind, Early, Turn, Late
  <2>4. Statuses'
    BY <1>10
    DEF SpawnFails, IInv, TypeOK, Points, Progress, Behind, Statuses,
        Cancellation, Early, Turn, Late
  <2>5. Cancellation'
    BY <1>10
    DEF SpawnFails, IInv, TypeOK, Points, Progress, Cancellation, Early, Turn,
        Late
  <2>6. Exits'
    BY <1>10
    DEF SpawnFails, AllDone, IInv, TypeOK, Points, Exits, Early, Turn, Late
  <2>7. AskedFirst'
    BY <1>10
    DEF SpawnFails, IInv, TypeOK, Points, Progress, Cancellation, AskedFirst
  <2>8. QED
    BY <2>1, <2>2, <2>3, <2>4, <2>5, <2>6, <2>7 DEF IInv
<1>11. CASE TimeoutFires
  <2>1. TypeOK'
    BY <1>11
    DEF TimeoutFires, Term, IInv, TypeOK, Points
  <2>2. Points'
    BY <1>11
    DEF TimeoutFires, Term, InputUsable, IInv, TypeOK, Points, Progress,
        Early, Turn, Late
  <2>3. Progress'
    BY <1>11
    DEF TimeoutFires, Term, IInv, TypeOK, Points, Progress, Behind, Early,
        Turn, Late
  <2>4. Statuses'
    BY <1>11
    DEF TimeoutFires, Term, IInv, TypeOK, Points, Progress, Behind, Statuses,
        Cancellation, Early, Turn, Late
  <2>5. Cancellation'
    BY <1>11
    DEF TimeoutFires, Term, IInv, TypeOK, Points, Progress, Cancellation,
        Early, Turn, Late
  <2>6. Exits'
    BY <1>11
    DEF TimeoutFires, Term, AllDone, IInv, TypeOK, Points, Exits, Early, Turn,
        Late
  <2>7. AskedFirst'
    BY <1>11
    DEF TimeoutFires, Term, IInv, TypeOK, Points, Progress, Cancellation,
        AskedFirst
  <2>8. QED
    BY <2>1, <2>2, <2>3, <2>4, <2>5, <2>6, <2>7 DEF IInv
<1>12. CASE ForceKillFires
  <2>1. TypeOK'
    BY <1>12
    DEF ForceKillFires, Kill, IInv, TypeOK, Points
  <2>2. Points'
    BY <1>12
    DEF ForceKillFires, Kill, InputUsable, IInv, TypeOK, Points, Progress,
        Early, Turn, Late
  <2>3. Progress'
    BY <1>12
    DEF ForceKillFires, Kill, IInv, TypeOK, Points, Progress, Behind, Early,
        Turn, Late
  <2>4. Statuses'
    BY <1>12
    DEF ForceKillFires, Kill, IInv, TypeOK, Points, Progress, Behind,
        Statuses, Cancellation, Early, Turn, Late
  <2>5. Cancellation'
    BY <1>12
    DEF ForceKillFires, Kill, IInv, TypeOK, Points, Progress, Cancellation,
        Early, Turn, Late
  <2>6. Exits'
    BY <1>12
    DEF ForceKillFires, Kill, AllDone, IInv, TypeOK, Points, Exits, Early,
        Turn, Late
  <2>7. AskedFirst'
    BY <1>12
    DEF ForceKillFires, Kill, IInv, TypeOK, Points, Progress, Cancellation,
        AskedFirst
  <2>8. QED
    BY <2>1, <2>2, <2>3, <2>4, <2>5, <2>6, <2>7 DEF IInv
<1>13. CASE Close
  <2>1. TypeOK'
    BY <1>13
    DEF Close, Closed, IInv, TypeOK, Points
  <2>2. Points'
    BY <1>13
    DEF Close, Closed, InputUsable, IInv, TypeOK, Points, Progress, Early,
        Turn, Late
  <2>3. Progress'
    BY <1>13
    DEF Close, Closed, IInv, TypeOK, Points, Progress, Behind, Early, Turn,
        Late
  <2>4. Statuses'
    BY <1>13
    DEF Close, Closed, IInv, TypeOK, Points, Progress, Behind, Statuses,
        Cancellation, Early, Turn, Late
  <2>5. Cancellation'
    BY <1>13
    DEF Close, Closed, IInv, TypeOK, Points, Progress, Cancellation, Early,
        Turn, Late
  <2>6. Exits'
    BY <1>13
    DEF Close, Closed, AllDone, IInv, TypeOK, Points, Exits, Early, Turn, Late
  <2>7. AskedFirst'
    BY <1>13
    DEF Close, Closed, IInv, TypeOK, Points, Progress, Cancellation,
        AskedFirst
  <2>8. QED
    BY <2>1, <2>2, <2>3, <2>4, <2>5, <2>6, <2>7 DEF IInv
<1>14. CASE ReadLatest
  <2>1. TypeOK'
    <3>1. cur \in Sessions /\ seen' \in [Sessions -> BOOLEAN]
      <4>1. PICK b \in BOOLEAN : seen' = [seen EXCEPT ![cur] = b]
                                 \/ seen' = seen
        BY <1>14 DEF ReadLatest
      <4>2. QED
        BY <4>1 DEF IInv, TypeOK
    <3>2. QED
      BY <1>14, <3>1 DEF ReadLatest, IInv, TypeOK
  <2>2. Points'
    BY <1>14
    DEF ReadLatest, InputUsable, IInv, TypeOK, Points, Progress, Early, Turn,
        Late
  <2>3. Progress'
    BY <1>14
    DEF ReadLatest, IInv, TypeOK, Points, Progress, Behind, Early, Turn, Late
  <2>4. Statuses'
    BY <1>14
    DEF ReadLatest, IInv, TypeOK, Points, Progress, Behind, Statuses,
        Cancellation, Early, Turn, Late
  <2>5. Cancellation'
    BY <1>14
    DEF ReadLatest, IInv, TypeOK, Points, Progress, Cancellation, Early, Turn,
        Late
  <2>6. Exits'
    BY <1>14
    DEF ReadLatest, AllDone, IInv, TypeOK, Points, Exits, Early, Turn, Late
  <2>7. AskedFirst'
    BY <1>14
    DEF ReadLatest, IInv, TypeOK, Points, Progress, Cancellation, AskedFirst
  <2>8. QED
    BY <2>1, <2>2, <2>3, <2>4, <2>5, <2>6, <2>7 DEF IInv
<1>15. CASE RecordVerdict
  <2>1. TypeOK'
    BY <1>15
    DEF RecordVerdict, EntryOf, Result, IInv, TypeOK, Points
  <2>2. Points'
    BY <1>15
    DEF RecordVerdict, EntryOf, Result, InputUsable, IInv, TypeOK, Points,
        Progress, Early, Turn, Late
  <2>3. Progress'
    BY <1>15
    DEF RecordVerdict, EntryOf, Result, IInv, TypeOK, Points, Progress,
        Behind, Early, Turn, Late, Statuses
  <2>4. Statuses'
    BY <1>15
    DEF RecordVerdict, EntryOf, Result, IInv, TypeOK, Points, Progress,
        Behind, Statuses, Cancellation, Early, Turn, Late
  <2>5. Cancellation'
    BY <1>15
    DEF RecordVerdict, EntryOf, Result, IInv, TypeOK, Points, Progress,
        Cancellation, Early, Turn, Late
  <2>6. Exits'
    BY <1>15
    DEF RecordVerdict, EntryOf, Result, AllDone, IInv, TypeOK, Points, Exits,
        Early, Turn, Late
  <2>7. AskedFirst'
    BY <1>15
    DEF RecordVerdict, EntryOf, Result, IInv, TypeOK, Points, Progress,
        Cancellation, AskedFirst
  <2>8. QED
    BY <2>1, <2>2, <2>3, <2>4, <2>5, <2>6, <2>7 DEF IInv
<1>16. CASE NextProvider
  <2>1. TypeOK'
    <3>1. cur \in Sessions /\ (~LastTurn => cur + 1 \in Sessions)
      BY DEF LastTurn, IInv, TypeOK
    <3>2. cur' \in Sessions /\ 0 \in 0..Providers
      BY <1>16, <3>1 DEF NextProvider
    <3> HIDE DEF Sessions
    <3>3. /\ pc' \in {"ledger", "enter"} /\ listening' \in BOOLEAN
          /\ activeSession' \in 0..Providers /\ activePid' = 0
      BY <1>16, <3>2 DEF NextProvider, IInv, TypeOK
    <3>4. QED
      BY <1>16, <3>2, <3>3 DEF NextProvider, IInv, TypeOK
  <2>2. Points'
    BY <1>16
    DEF NextProvider, LastTurn, InputUsable, IInv, TypeOK, Points, Progress,
        Early, Turn, Late
  <2>3. Progress'
    <3>1. CASE LastTurn
      BY <1>16, <3>1
      DEF NextProvider, LastTurn, IInv, TypeOK, Points, Progress, Behind,
          Early, Turn, Late
    <3>2. CASE ~LastTurn
      <4>1. /\ pc = "next" /\ pc' = "enter" /\ cur' = cur + 1
            /\ cur \in Nat /\ UNCHANGED <<status, seen, entry, child, sent>>
        BY <1>16, <3>2 DEF NextProvider, IInv, TypeOK
      <4>2. ASSUME NEW i \in Sessions PROVE Behind(i)' <=> Behind(i)
        BY <4>1 DEF Behind, Turn, Late
      <4>3. QED
        BY <4>1, <4>2 DEF IInv, Points, Progress, Early
    <3>3. QED
      BY <3>1, <3>2
  <2>4. Statuses'
    <3>1. /\ pc' \in {"ledger", "enter"} /\ pc = "next"
          /\ UNCHANGED <<status, held, seen, entry, child, hSession, cancel>>
      BY <1>16 DEF NextProvider
    <3>2. QED
      BY <3>1 DEF IInv, Statuses
  <2>5. Cancellation'
    BY <1>16
    DEF NextProvider, LastTurn, IInv, TypeOK, Points, Progress, Cancellation,
        Early, Turn, Late
  <2>6. Exits'
    BY <1>16
    DEF NextProvider, LastTurn, AllDone, IInv, TypeOK, Points, Exits, Early,
        Turn, Late
  <2>7. AskedFirst'
    BY <1>16
    DEF NextProvider, LastTurn, IInv, TypeOK, Points, Progress, Cancellation,
        AskedFirst
  <2>8. QED
    BY <2>1, <2>2, <2>3, <2>4, <2>5, <2>6, <2>7 DEF IInv
<1>17. CASE WriteLedger
  <2>1. TypeOK'
    BY <1>17
    DEF WriteLedger, IInv, TypeOK, Points
  <2>2. Points'
    BY <1>17
    DEF WriteLedger, InputUsable, IInv, TypeOK, Points, Progress, Early, Turn,
        Late
  <2>3. Progress'
    BY <1>17
    DEF WriteLedger, IInv, TypeOK, Points, Progress, Behind, Early, Turn, Late
  <2>4. Statuses'
    BY <1>17
    DEF WriteLedger, IInv, TypeOK, Points, Progress, Behind, Statuses,
        Cancellation, Early, Turn, Late
  <2>5. Cancellation'
    BY <1>17
    DEF WriteLedger, IInv, TypeOK, Points, Progress, Cancellation, Early,
        Turn, Late
  <2>6. Exits'
    BY <1>17
    DEF WriteLedger, AllDone, IInv, TypeOK, Points, Exits, Early, Turn, Late
  <2>7. AskedFirst'
    BY <1>17
    DEF WriteLedger, IInv, TypeOK, Points, Progress, Cancellation, AskedFirst
  <2>8. QED
    BY <2>1, <2>2, <2>3, <2>4, <2>5, <2>6, <2>7 DEF IInv
<1>18. CASE Report
  <2>1. TypeOK'
    BY <1>18
    DEF Report, AllDone, IInv, TypeOK, Points
  <2>2. Points'
    BY <1>18
    DEF Report, AllDone, InputUsable, IInv, TypeOK, Points, Progress, Early,
        Turn, Late
  <2>3. Progress'
    BY <1>18
    DEF Report, AllDone, IInv, TypeOK, Points, Progress, Behind, Early, Turn,
        Late
  <2>4. Statuses'
    BY <1>18
    DEF Report, AllDone, IInv, TypeOK, Points, Progress, Behind, Statuses,
        Cancellation, Early, Turn, Late
  <2>5. Cancellation'
    BY <1>18
    DEF Report, AllDone, IInv, TypeOK, Points, Progress, Cancellation, Early,
        Turn, Late
  <2>6. Exits'
    BY <1>18
    DEF Report, AllDone, IInv, TypeOK, Points, Exits, Early, Turn, Late
  <2>7. AskedFirst'
    BY <1>18
    DEF Report, AllDone, IInv, TypeOK, Points, Progress, Cancellation,
        AskedFirst
  <2>8. QED
    BY <2>1, <2>2, <2>3, <2>4, <2>5, <2>6, <2>7 DEF IInv
<1>19. CASE FileFails
  <2>1. TypeOK'
    BY <1>19
    DEF FileFails, IInv, TypeOK, Points
  <2>2. Points'
    BY <1>19
    DEF FileFails, InputUsable, IInv, TypeOK, Points, Progress, Early, Turn,
        Late
  <2>3. Progress'
    BY <1>19
    DEF FileFails, IInv, TypeOK, Points, Progress, Behind, Early, Turn, Late
  <2>4. Statuses'
    BY <1>19
    DEF FileFails, IInv, TypeOK, Points, Progress, Behind, Statuses,
        Cancellation, Early, Turn, Late
  <2>5. Cancellation'
    BY <1>19
    DEF FileFails, IInv, TypeOK, Points, Progress, Cancellation, Early, Turn,
        Late
  <2>6. Exits'
    BY <1>19
    DEF FileFails, AllDone, IInv, TypeOK, Points, Exits, Early, Turn, Late
  <2>7. AskedFirst'
    BY <1>19
    DEF FileFails, IInv, TypeOK, Points, Progress, Cancellation, AskedFirst
  <2>8. QED
    BY <2>1, <2>2, <2>3, <2>4, <2>5, <2>6, <2>7 DEF IInv
<1>20. CASE OutputFails
  <2>1. TypeOK'
    BY <1>20
    DEF OutputFails, IInv, TypeOK, Points
  <2>2. Points'
    BY <1>20
    DEF OutputFails, InputUsable, IInv, TypeOK, Points, Progress, Early, Turn,
        Late
  <2>3. Progress'
    BY <1>20
    DEF OutputFails, IInv, TypeOK, Points, Progress, Behind, Early, Turn, Late
  <2>4. Statuses'
    BY <1>20
    DEF OutputFails, IInv, TypeOK, Points, Progress, Behind, Statuses,
        Cancellation, Early, Turn, Late
  <2>5. Cancellation'
    BY <1>20
    DEF OutputFails, IInv, TypeOK, Points, Progress, Cancellation, Early,
        Turn, Late
  <2>6. Exits'
    BY <1>20
    DEF OutputFails, AllDone, IInv, TypeOK, Points, Exits, Early, Turn, Late
  <2>7. AskedFirst'
    BY <1>20
    DEF OutputFails, IInv, TypeOK, Points, Progress, Cancellation, AskedFirst
  <2>8. QED
    BY <2>1, <2>2, <2>3, <2>4, <2>5, <2>6, <2>7 DEF IInv
<1>21. CASE Drain
  <2>1. TypeOK'
    BY <1>21
    DEF Drain, IInv, TypeOK, Points
  <2>2. Points'
    BY <1>21
    DEF Drain, InputUsable, IInv, TypeOK, Points, Progress, Early, Turn, Late
  <2>3. Progress'
    BY <1>21
    DEF Drain, IInv, TypeOK, Points, Progress, Behind, Early, Turn, Late
  <2>4. Statuses'
    BY <1>21
    DEF Drain, IInv, TypeOK, Points, Progress, Behind, Statuses, Cancellation,
        Early, Turn, Late
  <2>5. Cancellation'
    BY <1>21
    DEF Drain, IInv, TypeOK, Points, Progress, Cancellation, Early, Turn, Late
  <2>6. Exits'
    BY <1>21
    DEF Drain, AllDone, IInv, TypeOK, Points, Exits, Early, Turn, Late
  <2>7. AskedFirst'
    BY <1>21
    DEF Drain, IInv, TypeOK, Points, Progress, Cancellation, AskedFirst
  <2>8. QED
    BY <2>1, <2>2, <2>3, <2>4, <2>5, <2>6, <2>7 DEF IInv
<1>22. CASE SignalTaken
  <2>1. TypeOK'
    BY <1>22
    DEF SignalTaken, Term, MaybeExit, IInv, TypeOK, Points
  <2>2. Points'
    BY <1>22
    DEF SignalTaken, Term, MaybeExit, InputUsable, IInv, TypeOK, Points,
        Progress, Early, Turn, Late
  <2>3. Progress'
    BY <1>22
    DEF SignalTaken, Term, MaybeExit, IInv, TypeOK, Points, Progress, Behind,
        Early, Turn, Late
  <2>4. Statuses'
    BY <1>22
    DEF SignalTaken, Term, MaybeExit, IInv, TypeOK, Points, Progress, Behind,
        Statuses, Cancellation, Early, Turn, Late
  <2>5. Cancellation'
    BY <1>22
    DEF SignalTaken, Term, MaybeExit, IInv, TypeOK, Points, Progress,
        Cancellation, Early, Turn, Late
  <2>6. Exits'
    BY <1>22
    DEF SignalTaken, Term, MaybeExit, AllDone, IInv, TypeOK, Points, Exits,
        Early, Turn, Late
  <2>7. AskedFirst'
    BY <1>22
    DEF SignalTaken, Term, MaybeExit, IInv, TypeOK, Points, Progress,
        Cancellation, AskedFirst
  <2>8. QED
    BY <2>1, <2>2, <2>3, <2>4, <2>5, <2>6, <2>7 DEF IInv
<1>23. CASE SignalKills
  <2>1. TypeOK'
    BY <1>23
    DEF SignalKills, IInv, TypeOK, Points
  <2>2. Points'
    BY <1>23
    DEF SignalKills, InputUsable, IInv, TypeOK, Points, Progress, Early, Turn,
        Late
  <2>3. Progress'
    BY <1>23
    DEF SignalKills, IInv, TypeOK, Points, Progress, Behind, Early, Turn, Late
  <2>4. Statuses'
    BY <1>23
    DEF SignalKills, IInv, TypeOK, Points, Progress, Behind, Statuses,
        Cancellation, Early, Turn, Late
  <2>5. Cancellation'
    BY <1>23
    DEF SignalKills, IInv, TypeOK, Points, Progress, Cancellation, Early,
        Turn, Late
  <2>6. Exits'
    BY <1>23
    DEF SignalKills, AllDone, IInv, TypeOK, Points, Exits, Early, Turn, Late
  <2>7. AskedFirst'
    BY <1>23
    DEF SignalKills, IInv, TypeOK, Points, Progress, Cancellation, AskedFirst
  <2>8. QED
    BY <2>1, <2>2, <2>3, <2>4, <2>5, <2>6, <2>7 DEF IInv
<1>24. CASE CancelRecorded
  <2>1. TypeOK'
    BY <1>24
    DEF CancelRecorded, MaybeExit, IInv, TypeOK, Cancellation
  <2>2. Points'
    BY <1>24
    DEF CancelRecorded, MaybeExit, InputUsable, IInv, TypeOK, Points,
        Cancellation, Early, Turn, Late
  <2>3. Progress'
    BY <1>24
    DEF CancelRecorded, MaybeExit, IInv, TypeOK, Points, Progress, Behind,
        Early, Turn, Late
  <2>4. Statuses'
    BY <1>24
    DEF CancelRecorded, MaybeExit, IInv, TypeOK, Points, Progress, Behind,
        Statuses, Cancellation, Early, Turn, Late
  <2>5. Cancellation'
    BY <1>24
    DEF CancelRecorded, MaybeExit, IInv, TypeOK, Points, Progress,
        Cancellation, Early, Turn, Late
  <2>6. Exits'
    BY <1>24
    DEF CancelRecorded, MaybeExit, AllDone, IInv, TypeOK, Points, Exits,
        Early, Turn, Late
  <2>7. AskedFirst'
    BY <1>24
    DEF CancelRecorded, MaybeExit, IInv, TypeOK, Points, Progress,
        Cancellation, AskedFirst
  <2>8. QED
    BY <2>1, <2>2, <2>3, <2>4, <2>5, <2>6, <2>7 DEF IInv
<1>25. CASE GraceFires
  <2>1. TypeOK'
    BY <1>25
    DEF GraceFires, Kill, MaybeExit, IInv, TypeOK, Cancellation
  <2>2. Points'
    BY <1>25
    DEF GraceFires, Kill, MaybeExit, InputUsable, IInv, TypeOK, Points,
        Progress, Early, Turn, Late
  <2>3. Progress'
    BY <1>25
    DEF GraceFires, Kill, MaybeExit, IInv, TypeOK, Points, Progress, Behind,
        Early, Turn, Late
  <2>4. Statuses'
    BY <1>25
    DEF GraceFires, Kill, MaybeExit, IInv, TypeOK, Points, Progress, Behind,
        Statuses, Cancellation, Early, Turn, Late
  <2>5. Cancellation'
    BY <1>25
    DEF GraceFires, Kill, MaybeExit, IInv, TypeOK, Points, Progress,
        Cancellation, Early, Turn, Late
  <2>6. Exits'
    BY <1>25
    DEF GraceFires, MaybeExit, AllDone, IInv, TypeOK, Points, Cancellation,
        Exits, Early, Turn, Late
  <2>7. AskedFirst'
    BY <1>25
    DEF GraceFires, Kill, MaybeExit, IInv, TypeOK, Points, Progress,
        Cancellation, AskedFirst
  <2>8. QED
    BY <2>1, <2>2, <2>3, <2>4, <2>5, <2>6, <2>7 DEF IInv
<1>26. ASSUME NEW i \in Sessions, ChildEnds(i) PROVE IInv'
  <2>1. TypeOK'
    BY <1>26
    DEF ChildEnds, Ended, IInv, TypeOK, Points
  <2>2. Points'
    BY <1>26
    DEF ChildEnds, Ended, InputUsable, IInv, TypeOK, Points, Progress, Early,
        Turn, Late
  <2>3. Progress'
    BY <1>26
    DEF ChildEnds, Ended, IInv, TypeOK, Points, Progress, Behind, Early, Turn,
        Late
  <2>4. Statuses'
    BY <1>26
    DEF ChildEnds, Ended, IInv, TypeOK, Points, Progress, Behind, Statuses,
        Cancellation, Early, Turn, Late
  <2>5. Cancellation'
    BY <1>26
    DEF ChildEnds, Ended, IInv, TypeOK, Points, Progress, Cancellation, Early,
        Turn, Late
  <2>6. Exits'
    BY <1>26
    DEF ChildEnds, Ended, AllDone, IInv, TypeOK, Points, Exits, Early, Turn,
        Late
  <2>7. AskedFirst'
    BY <1>26
    DEF ChildEnds, Ended, IInv, TypeOK, Points, Progress, Cancellation,
        AskedFirst
  <2>8. QED
    BY <2>1, <2>2, <2>3, <2>4, <2>5, <2>6, <2>7 DEF IInv
<1>27. ASSUME NEW i \in Sessions, ReadTask(i) PROVE IInv'
  <2>1. status[i] # "absent" /\ held[i] # "none"
    BY <1>27
    DEF ReadTask, IInv, TypeOK, Points, Progress, Behind, Statuses, Early,
        Turn, Late
  <2>2. TypeOK'
    BY <1>27, <2>1 DEF ReadTask, IInv, TypeOK
  <2>3. Points'
    BY <1>27 DEF ReadTask, InputUsable, IInv, Points
  <2>4. Progress'
    BY <1>27 DEF ReadTask, IInv, Progress, Behind
  <2>5. Statuses'
    BY <1>27, <2>1 DEF ReadTask, IInv, TypeOK, Statuses
  <2>6. Cancellation' /\ Exits' /\ AskedFirst'
    BY <1>27 DEF ReadTask, AllDone, IInv, Cancellation, Exits, AskedFirst
  <2>7. QED
    BY <2>2, <2>3, <2>4, <2>5, <2>6 DEF IInv
<1>28. ASSUME NEW i \in Sessions, WriteTask(i) PROVE IInv'
  <2>1. /\ held[i] \in {"running"} \cup Verdicts /\ status[i] # "absent"
        /\ pc \notin Early
    BY <1>28
    DEF WriteTask, IInv, TypeOK, Points, Progress, Behind, Statuses, Early,
        Turn, Late
  <2>2. TypeOK'
    BY <1>28, <2>1 DEF WriteTask, IInv, TypeOK
  <2>3. Points'
    BY <1>28, <2>1 DEF WriteTask, InputUsable, IInv, Points
  <2>4. Progress'
    BY <1>28, <2>1 DEF WriteTask, IInv, TypeOK, Progress, Behind
  <2>5. Statuses'
    <3>1. seen[i] \/ entry[i] # "none" => child[i] # "none"
      BY <1>28, <2>1
      DEF WriteTask, IInv, Points, Progress, Behind, Statuses, Turn, Late
    <3>2. QED
      BY <1>28, <2>1, <3>1 DEF WriteTask, IInv, TypeOK, Statuses
  <2>6. Cancellation'
    BY <1>28, <2>1 DEF WriteTask, IInv, TypeOK, Cancellation
  <2>7. Exits' /\ AskedFirst'
    BY <1>28 DEF WriteTask, AllDone, IInv, Exits, AskedFirst
  <2>8. QED
    BY <2>2, <2>3, <2>4, <2>5, <2>6, <2>7 DEF IInv
<1>29. ASSUME NEW i \in Sessions, UpdateFails(i) PROVE IInv'
  <2>1. TypeOK'
    BY <1>29 DEF UpdateFails, IInv, TypeOK
  <2>2. Points'
    BY <1>29 DEF UpdateFails, InputUsable, IInv, Points
  <2>3. Progress'
    BY <1>29 DEF UpdateFails, IInv, Progress, Behind
  <2>4. Statuses'
    BY <1>29 DEF UpdateFails, IInv, TypeOK, Statuses
  <2>5. Cancellation'
    BY <1>29 DEF UpdateFails, IInv, Cancellation
  <2>6. Exits'
    BY <1>29 DEF UpdateFails, AllDone, IInv, Exits
  <2>7. AskedFirst'
    BY <1>29 DEF UpdateFails, IInv, AskedFirst
  <2>8. QED
    BY <2>1, <2>2, <2>3, <2>4, <2>5, <2>6, <2>7 DEF IInv
<1>30. CASE Over \/ UNCHANGED runVars
  <2> UNCHANGED runVars
    BY <1>30 DEF Over
  <2>1. TypeOK'
    BY DEF runVars, IInv, TypeOK
  <2>2. Points'
    BY DEF runVars, IInv, Points, InputUsable
  <2>3. Progress'
    BY DEF runVars, IInv, Progress, Behind
  <2>4. Statuses'
    BY DEF runVars, IInv, Statuses
  <2>5. Cancellation'
    BY DEF runVars, IInv, Cancellation
  <2>6. Exits'
    BY DEF runVars, IInv, Exits, AllDone
  <2>7. AskedFirst'
    BY DEF runVars, IInv, AskedFirst
  <2>8. QED
    BY <2>1, <2>2, <2>3, <2>4, <2>5, <2>6, <2>7 DEF IInv
<1>31. QED
  BY <1>1, <1>2, <1>3, <1>4, <1>5, <1>6, <1>7, <1>8, <1>9, <1>10, <1>11,
     <1>12, <1>13, <1>14, <1>15, <1>16, <1>17, <1>18, <1>19, <1>20, <1>21,
     <1>22, <1>23, <1>24, <1>25, <1>26, <1>27, <1>28, <1>29, <1>30
  DEF Run, Main, Update

\* So does every step of an `aco cancel`.
LEMMA CancelIInv ==
    ASSUME IInv, NEW i \in Sessions,
           CancelReads(i) \/ CancelMarks(i) \/ CancelSignals(i)
    PROVE  IInv'
<1> USE ProvidersAssumption, FaultyDiskAssumption
    DEF planVars, mainVars, childVars, timerVars, stateVars, handlerVars,
        Alive, Sessions, Timer, Ended, Verdicts, GoesOn, Ends
<1>1. CASE CancelReads(i)
  <2>1. TypeOK'
    BY <1>1 DEF CancelReads, runVars, IInv, TypeOK
  <2>2. Points'
    BY <1>1 DEF CancelReads, runVars, IInv, Points, InputUsable
  <2>3. Progress'
    BY <1>1 DEF CancelReads, runVars, IInv, Progress, Behind
  <2>4. Statuses'
    <3>1. \A j \in Sessions : Struck(j) => Struck(j)'
      BY <1>1 DEF CancelReads, runVars, IInv, TypeOK, Struck
    <3>2. QED
      BY <1>1, <3>1 DEF CancelReads, runVars, IInv, TypeOK, Statuses
  <2>5. Cancellation'
    BY <1>1 DEF CancelReads, runVars, IInv, TypeOK, Cancellation
  <2>6. Exits'
    BY <1>1 DEF CancelReads, runVars, IInv, Exits, AllDone
  <2>7. AskedFirst'
    BY <1>1 DEF CancelReads, runVars, IInv, AskedFirst
  <2>8. QED
    BY <2>1, <2>2, <2>3, <2>4, <2>5, <2>6, <2>7 DEF IInv
<1>2. CASE CancelMarks(i)
  <2>1. TypeOK'
    <3>1. /\ status' \in [Sessions -> {"absent", "running"} \cup Verdicts]
          /\ cancel' \in [Sessions -> {"none", "blind", "knows", "marked",
                                       "done"}]
      BY <1>2 DEF CancelMarks, IInv, TypeOK
    <3>2. QED
      BY <1>2, <3>1 DEF CancelMarks, IInv, TypeOK
  <2>2. status[i] # "absent"
    BY <1>2 DEF CancelMarks, IInv, Cancellation
  <2>3. Points'
    BY <1>2, <2>2 DEF CancelMarks, IInv, Points, InputUsable
  <2>4. Progress'
    BY <1>2, <2>2 DEF CancelMarks, IInv, TypeOK, Progress, Behind
  <2>5. Statuses'
    <3>1. /\ \A j \in Sessions : Struck(j) => Struck(j)'
          /\ status'[i] = "cancelled" => status[i] = "cancelled" \/ Struck(i)'
          /\ \A j \in Sessions : \/ status'[j] = status[j]
                                   \/ (j = i /\ status'[j] = "cancelled")
      BY <1>2 DEF CancelMarks, IInv, TypeOK, Struck
    <3>2. QED
      BY <1>2, <3>1 DEF CancelMarks, IInv, TypeOK, Statuses
  <2>6. Cancellation'
    BY <1>2, <2>2 DEF CancelMarks, IInv, TypeOK, Cancellation
  <2>7. Exits'
    BY <1>2 DEF CancelMarks, IInv, Exits, AllDone
  <2>8. AskedFirst'
    BY <1>2 DEF CancelMarks, IInv, AskedFirst
  <2>9. QED
    BY <2>1, <2>3, <2>4, <2>5, <2>6, <2>7, <2>8 DEF IInv
<1>3. CASE CancelSignals(i)
  <2>1. TypeOK'
    BY <1>3 DEF CancelSignals, Term, IInv, TypeOK
  <2>2. Points'
    BY <1>3 DEF CancelSignals, IInv, Points, InputUsable
  <2>3. Progress'
    BY <1>3 DEF CancelSignals, Term, IInv, TypeOK, Progress, Behind
  <2>4. Statuses'
    BY <1>3 DEF CancelSignals, IInv, TypeOK, Statuses, Struck
  <2>5. Cancellation'
    BY <1>3 DEF CancelSignals, Term, IInv, TypeOK, Cancellation
  <2>6. Exits'
    BY <1>3 DEF CancelSignals, IInv, Exits, AllDone
  <2>7. AskedFirst'
    BY <1>3 DEF CancelSignals, Term, IInv, TypeOK, AskedFirst
  <2>8. QED
    BY <2>1, <2>2, <2>3, <2>4, <2>5, <2>6, <2>7 DEF IInv
<1>4. QED
  BY <1>1, <1>2, <1>3

\* Every step, of the run or of the cancel, preserves the invariant.
LEMMA NextIInv == IInv /\ [Next]_vars => IInv'
<1>1. IInv /\ UNCHANGED vars => IInv'
  BY RunIInv DEF vars
<1>2. QED
  BY <1>1, RunIInv, CancelIInv DEF Next
-----------------------------------------------------------------------------
\* Hence it holds of every reachable state.
LEMMA Invariance == Spec => []IInv
  BY InitIInv, NextIInv, PTL DEF Spec

\* The state keeps its shape, for any number of providers.
THEOREM TypeCorrect == Spec => []TypeOK
<1>1. IInv => TypeOK
  BY DEF IInv
<1>2. QED
  BY <1>1, Invariance, PTL

\* No provider is run, and no session created, without consent (ask.ts
\* 118-182).
THEOREM ConsentComesFirst == Spec => []ConsentedOnly
<1>1. IInv => ConsentedOnly
  <2> SUFFICES ASSUME IInv, NEW i \in Sessions,
                      child[i] # "none" \/ status[i] # "absent"
               PROVE  /\ request.valid /\ request.mode = "yes"
                      /\ request.input = "credential"
                             => request.allowSensitive
    BY DEF ConsentedOnly
  <2>1. pc \notin Early
    BY DEF IInv, TypeOK, Points, Progress, Behind, Early, Turn, Late
  <2>2. QED
    BY <2>1 DEF IInv, Points, Early, InputUsable
<1>2. QED
  BY <1>1, Invariance, PTL

\* The ledger of a run and its exit code say what became of each provider,
\* whatever was cancelled, skipped, or could not be read back (ask.ts
\* 370-390, 294-335).
THEOREM LedgersAreTrue == Spec => []LedgerIsTrue
<1>1. IInv => LedgerIsTrue
  <2> SUFFICES ASSUME IInv, NEW i \in Sessions
               PROVE  /\ entry[i] # "none" =>
                             /\ entry[i] = "done" => child[i] = "zero"
                             /\ entry[i] = "cancelled" <=> seen[i]
                             /\ status[i] # entry[i] =>
                                  \/ status[i] = "cancelled" /\ Struck(i)
                                  \/ status[i] = "running"
                                     /\ child[i] # "none"
                      /\ exit = "drain" => child[i] = "zero"
    BY DEF LedgerIsTrue
  <2>1. exit = "drain" => entry[i] = "done"
    BY DEF IInv, Exits, AllDone
  <2>2. entry[i] # "none" => status[i] \in {"running"} \cup Verdicts
    BY DEF IInv, TypeOK, Points, Progress, Behind, Early, Turn, Late
  <2>3. QED
    BY <2>1, <2>2 DEF IInv, Progress, Statuses, Verdicts
<1>2. QED
  BY <1>1, Invariance, PTL

\* An ended `aco ask` has left a provider running only for broken output, or
\* with SIGKILL on its way, or because it was not the one that the handler
\* had captured (provider-cancellation.ts 81-130; ask.ts 266-268).
THEOREM NothingElseLeftBehind == Spec => []LeftBehind
<1>1. IInv => LeftBehind
  <2> SUFFICES ASSUME IInv, ~Alive, NEW i \in Sessions, child[i] = "live"
               PROVE  \/ exit = "crash"
                      \/ exit = "handler" /\ (sent[i] = "kill" \/ hPid # i)
    BY DEF LeftBehind
  <2>1. pc = "stream" /\ listening
    BY DEF IInv, Points, Progress, Early, Late
  <2>2. exit \notin {"dry", "drain", "signal", "main"}
    BY <2>1 DEF IInv, Exits
  <2>3. exit = "handler" /\ hPid = i => sent[i] = "kill"
    BY DEF IInv, TypeOK, Cancellation, Exits, Sessions
  <2>4. QED
    BY <2>2, <2>3 DEF IInv, TypeOK, Alive
<1>2. QED
  BY <1>1, Invariance, PTL

\* AskRun implements ProviderCall once for each of its providers: a step of
\* the run is, for every one of them, a step of its call or none.
LEMMA StepIsCallStep ==
    ASSUME IInv, [Next]_vars, NEW i \in Sessions
    PROVE  Call(i)!Next
<1> USE DEF planVars, mainVars, childVars, timerVars, stateVars,
            handlerVars, Alive, Ended, Verdicts, Sessions
<1>1. Call(i)!Process
  <2> USE DEF Call!Process
  <2>1. CASE Spawn
    <3>1. child[cur] = "none" /\ entry[cur] = "none"
      BY <2>1 DEF Spawn, IInv, TypeOK, Points, Progress, Behind, Turn, Late
    <3>2. child' = [child EXCEPT ![cur] = "live"] /\ UNCHANGED sent /\ Alive
      BY <2>1 DEF Spawn
    <3>3. QED
      BY <3>1, <3>2 DEF Call!Start, CallAnswer, IInv, TypeOK
  <2>2. CASE TimeoutFires
    BY <2>2 DEF TimeoutFires, Term, IInv, TypeOK, Call!Terminate
  <2>3. CASE SignalTaken
    BY <2>3 DEF SignalTaken, Term, IInv, TypeOK, Call!Terminate
  <2>4. CASE ForceKillFires
    BY <2>4 DEF ForceKillFires, Kill, IInv, TypeOK, AskedFirst, Call!Kill
  <2>5. CASE GraceFires
    <3>1. hPid \in Sessions /\ (child[hPid] = "live" => sent[hPid] # "none")
      BY <2>5 DEF GraceFires, IInv, TypeOK, Cancellation, AskedFirst
    <3>2. QED
      BY <2>5, <3>1 DEF GraceFires, Kill, IInv, TypeOK, Call!Kill
  <2>6. ASSUME NEW j \in Sessions, ChildEnds(j) PROVE Call(i)!Process
    BY <2>6 DEF ChildEnds, IInv, TypeOK, Call!Exit, Call!Ended
  <2>7. CASE \/ CheckRequest \/ Consent \/ Prepare \/ CreateSession
             \/ SeedPrimary \/ RecordContexts \/ EnterProvider \/ Skip
             \/ SpawnFails \/ Close \/ ReadLatest \/ RecordVerdict
             \/ NextProvider \/ WriteLedger \/ Report \/ Drain \/ FileFails
             \/ OutputFails \/ SignalKills \/ CancelRecorded \/ Over
             \/ UNCHANGED runVars \/ \E j \in Sessions : Update(j)
    BY <2>7 DEF Update, ReadTask, WriteTask, UpdateFails, CheckRequest, Consent, Prepare, CreateSession, SeedPrimary,
       RecordContexts, EnterProvider, Skip, SpawnFails, Close, ReadLatest,
       RecordVerdict, NextProvider, WriteLedger, Report, Drain, FileFails,
       OutputFails, SignalKills, CancelRecorded, Over, runVars
  <2>8. ASSUME NEW j \in Sessions, CancelReads(j) \/ CancelMarks(j)
        PROVE  Call(i)!Process
    BY <2>8 DEF CancelReads, CancelMarks, runVars
  <2>9. ASSUME NEW j \in Sessions, CancelSignals(j)
        PROVE  Call(i)!Process
    BY <2>9 DEF CancelSignals, Term, IInv, TypeOK, Call!Terminate
  <2>10. QED
    BY <2>1, <2>2, <2>3, <2>4, <2>5, <2>6, <2>7, <2>8, <2>9
    DEF Next, Run, Main, vars
<1>2. UNCHANGED <<entry, exit>> => UNCHANGED CallAnswer(i)
  BY DEF CallAnswer
<1>3. CASE Skip \/ RecordVerdict
  <2>1. /\ UNCHANGED <<exit, child, sent>> /\ exit = "none"
        /\ entry' = [entry EXCEPT ![cur] = entry'[cur]]
        /\ cur \in Sessions /\ entry'[cur] \in Verdicts
    <3>1. cur \in Sessions /\ entry \in [Sessions -> {"none"} \cup Verdicts]
      BY DEF IInv, TypeOK
    <3>2. \E v \in Verdicts : entry' = [entry EXCEPT ![cur] = v]
      BY <1>3 DEF Skip, RecordVerdict, EntryOf, Result
    <3>3. UNCHANGED <<exit, child, sent>> /\ exit = "none"
      BY <1>3 DEF Skip, RecordVerdict, GoesOn
    <3>4. QED
      BY <3>1, <3>2, <3>3
  <2>2. /\ entry[cur] = "none" /\ child[cur] # "live"
        /\ entry'[cur] = "done" => child[cur] = "zero"
    <3>1. pc \in {"skip", "verdict"}
          /\ (entry'[cur] = "done" => pc = "verdict" /\ outcome = "ok")
      BY <1>3, <2>1 DEF Skip, RecordVerdict, EntryOf, Result, IInv, TypeOK
    <3>2. QED
      BY <2>1, <3>1 DEF IInv, Progress, Statuses, Behind, Turn, Late
  <2>3. CASE i = cur
    BY <1>1, <2>1, <2>2, <2>3 DEF CallAnswer, Call!Next, Call!Answer
  <2>4. CASE i # cur
    <3>1. entry'[i] = entry[i]
      BY <2>1, <2>4 DEF IInv, TypeOK
    <3>2. QED
      BY <1>1, <2>1, <3>1 DEF CallAnswer, Call!Next
  <2>5. QED
    BY <2>3, <2>4
<1>4. CASE UNCHANGED entry
  <2>1. exit # "none" => exit' = exit
    BY DEF Next, Run, Main, CancelReads, CancelMarks, CancelSignals, runVars,
       Update, ReadTask, WriteTask, UpdateFails, GoesOn, Ends, MaybeExit,
       CheckRequest, Consent, Prepare, CreateSession,
       SeedPrimary, RecordContexts, EnterProvider, Skip, Spawn, SpawnFails,
       Close, ReadLatest, RecordVerdict, NextProvider, WriteLedger, Report,
       Drain, FileFails, OutputFails, TimeoutFires, ForceKillFires,
       SignalTaken, SignalKills, CancelRecorded, GraceFires, ChildEnds, Over,
       vars
  <2>2. CASE entry[i] # "none"
    BY <1>1, <1>4, <2>2 DEF CallAnswer, Call!Next, IInv, TypeOK
  <2>3. CASE entry[i] = "none" /\ exit = "none"
    <3>1. CallAnswer(i) = "none"
      BY <2>3 DEF CallAnswer
    <3>2. CallAnswer(i)' \in {"none", "abandoned"}
      BY <1>4, <2>3 DEF CallAnswer
    <3>3. QED
      BY <1>1, <3>1, <3>2 DEF Call!Next, Call!Answer
  <2>4. CASE exit # "none"
    BY <1>1, <1>2, <1>4, <2>1, <2>4 DEF Call!Next
  <2>5. QED
    BY <2>2, <2>3, <2>4
<1>5. Skip \/ RecordVerdict \/ UNCHANGED entry
  BY DEF Next, Run, Main, CancelReads, CancelMarks, CancelSignals, runVars,
       Update, ReadTask, WriteTask, UpdateFails, GoesOn, Ends, MaybeExit,
     CheckRequest, Consent, Prepare, CreateSession,
     SeedPrimary, RecordContexts, EnterProvider, Spawn, SpawnFails, Close,
     ReadLatest, NextProvider, WriteLedger, Report, Drain, FileFails,
     OutputFails, TimeoutFires, ForceKillFires, SignalTaken, SignalKills,
     CancelRecorded, GraceFires, ChildEnds, Over, vars
<1>6. QED
  BY <1>3, <1>4, <1>5

\* The calls all start out fresh.
LEMMA InitIsCallInit == Init => \A i \in Sessions : Call(i)!Init
  BY DEF Init, Call!Init, CallAnswer, Alive

\* The run is a call of each of its providers (ask.ts 282-470).
THEOREM CallProtocolHolds == Spec => CallProtocol
<1>1. IInv /\ [Next]_vars
        => [\A i \in Sessions : [Call(i)!Next]_(Call(i)!vars)]_vars
  BY StepIsCallStep
<1>2. QED
  BY <1>1, InitIsCallInit, Invariance, PTL DEF Spec, CallProtocol
=============================================================================
