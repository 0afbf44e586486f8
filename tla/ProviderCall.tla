---------------------------- MODULE ProviderCall ----------------------------
(***************************************************************************)
(* What every runtime promises of one call of a provider, whoever ends it  *)
(* (the execution timeout, a signal to the wrapper, another process):      *)
(*   - the process is started at most once, and never once the call has    *)
(*     been answered;                                                      *)
(*   - it is asked to stop with SIGTERM before it is forced to with        *)
(*     SIGKILL, and its way out is recorded once;                          *)
(*   - the call is answered once: "ok" only behind exit code 0, "failed"   *)
(*     only when no process is left running.  A caller that is gone before *)
(*     it could answer has abandoned the call, and only an abandoned call  *)
(*     may leave its process running.                                      *)
(***************************************************************************)
VARIABLES
    child,  \* the provider process, by the way it ended once it has
    sent,   \* the strongest signal delivered to it while it was running
    answer  \* what the caller has made of the call

vars == <<child, sent, answer>>

Ended == {"zero", "nonzero", "signal"}

TypeOK ==
    /\ child \in {"none", "live"} \cup Ended
    /\ sent \in {"none", "term", "kill"}
    /\ answer \in {"none", "ok", "failed", "abandoned"}

Init == child = "none" /\ sent = "none" /\ answer = "none"

Start ==
    /\ child = "none" /\ answer = "none"
    /\ child' = "live"
    /\ UNCHANGED sent

Terminate ==
    /\ child = "live" /\ sent = "none"
    /\ sent' = "term"
    /\ UNCHANGED child

Kill ==
    /\ child = "live" /\ sent = "term"
    /\ sent' = "kill"
    /\ UNCHANGED child

\* A process that got SIGTERM may still end in any way; SIGKILL leaves one.
Exit ==
    /\ child = "live"
    /\ child' \in IF sent = "kill" THEN {"signal"} ELSE Ended
    /\ UNCHANGED sent

Process == Start \/ Terminate \/ Kill \/ Exit \/ UNCHANGED <<child, sent>>

Answer ==
    /\ answer = "none"
    /\ answer' \in {"abandoned"}
                   \cup (IF child = "zero" THEN {"ok"} ELSE {})
                   \cup (IF child # "live" THEN {"failed"} ELSE {})

\* A caller may give a call up in the very step that kills its process.
Next == Process /\ (Answer \/ UNCHANGED answer)

Spec == Init /\ [][Next]_vars
=============================================================================
