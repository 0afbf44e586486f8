-------------------------- MODULE ProviderSession --------------------------
(***************************************************************************)
(* The consumer of spawnStream: invokeProviderForSession                   *)
(* (packages/wrapper/src/runtime/provider-session-runner.ts) pulls the     *)
(* provider's output chunk by chunk, decodes each, writes it to a sink     *)
(* that may be slow or break, and keeps a bounded excerpt for the summary. *)
(* While it waits for the sink, timers and the end of the process (the     *)
(* steps of SpawnStream) go on behind its back.                            *)
(*                                                                         *)
(* A character is a number, the place it has in the provider's output; a   *)
(* byte is the number of the character it belongs to.  Characters have one *)
(* or two bytes.                                                           *)
(***************************************************************************)
EXTENDS SpawnStream, Sequences

CONSTANTS
    Output,      \* the bytes the provider may write
    Limits,      \* values of maxOutputBuffer, in characters; 0: no excerpt
    MarkerSize,  \* the length of OMITTED_OUTPUT_MARKER
    Bad,         \* the replacement character of a broken UTF-8 sequence
    Mark         \* a character of the marker

ASSUME OutputAssumption ==
    /\ Output \in Seq(Nat) /\ Output # <<>> /\ Output[1] = 1
    /\ \A j, k \in 1..Len(Output) :
           j < k => /\ Output[k] \in Output[j] .. (Output[j] + (k - j))
                    /\ k - j > 1 => Output[k] > Output[j]
ASSUME LimitsAssumption == Limits \subseteq Nat /\ MarkerSize \in Nat
ASSUME CharactersAssumption == Bad # Mark /\ {Bad, Mark} \cap Nat = {}

VARIABLES
    limit,     \* maxOutputBuffer of this call
    cuts,      \* where in Output each chunk that was written ends
    consumer,  \* what the loop over the chunks awaits
    sunk,      \* the characters written to the sink
    head, tail, total,  \* the capture
    result     \* what the call resolves to

captureVars == <<head, tail, total>>
sessionVars == <<limit, cuts, consumer, sunk, head, tail, total, result>>
allVars == <<vars, sessionVars>>

Characters == Nat \cup {Bad, Mark}
NoResult == [full |-> <<>>, hasOutput |-> FALSE, error |-> FALSE]

SessionTypeOK ==
    /\ TypeOK
    /\ limit \in Limits
    /\ cuts \in Seq(1..Len(Output)) /\ Len(cuts) = produced
    /\ consumer \in {"pulling", "writing", "ending", "returned", "crashed"}
    /\ sunk \in Seq(Characters)
    /\ head \in Seq(Characters) /\ Len(head) <= limit
    /\ tail \in Seq(Characters) /\ Len(tail) <= limit
    /\ total \in Nat
    /\ result \in [full: Seq(Characters), hasOutput: BOOLEAN, error: BOOLEAN]

SessionInit ==
    /\ Init
    /\ limit \in Limits
    /\ cuts = <<>> /\ consumer = "pulling" /\ sunk = <<>>
    /\ head = <<>> /\ tail = <<>> /\ total = 0
    /\ result = NoResult
-----------------------------------------------------------------------------
\* The text of bytes lo+1..hi decoded on their own: a character of which a
\* part lies elsewhere is broken.
Decode(lo, hi) ==
    IF lo = hi THEN <<>>
    ELSE [i \in 1..(Output[hi] - Output[lo+1] + 1) |->
             LET c == Output[lo+1] + i - 1
             IN IF \E k \in (1..lo) \cup (hi+1..Len(Output)) : Output[k] = c
                THEN Bad ELSE c]

CutAt(i) == IF i = 0 THEN 0 ELSE cuts[i]
Chunk(i) == Decode(CutAt(i-1), CutAt(i))

Smaller(a, b) == IF a < b THEN a ELSE b

\* The first, the last n characters of s, or all of it.
First(s, n) == SubSeq(s, 1, Smaller(n, Len(s)))
Last(s, n) == SubSeq(s, Len(s) - Smaller(n, Len(s)) + 1, Len(s))

\* Mutation: a chunk is taken whole while the head has room.
Append_Whole(chunk) ==
    /\ total' = total + Len(chunk)
    /\ head' = IF Len(head) < limit THEN head \o chunk ELSE head
    /\ tail' = Last(tail \o chunk, limit)

\* createBoundedOutputCapture: append
Append_(chunk) ==
    /\ total' = total + Len(chunk)
    /\ head' = IF Len(head) < limit
               THEN head \o First(chunk, limit - Len(head)) ELSE head
    /\ tail' = Last(tail \o chunk, limit)

Half(n) == (n + 1) \div 2

\* Mutation: the marker comes on top of the limit.
Value_MarkerOnTop ==
    IF total <= limit THEN head
    ELSE First(head, Half(limit))
         \o [i \in 1..Smaller(MarkerSize, limit) |-> Mark]
         \o Last(tail, limit - Half(limit))

\* createBoundedOutputCapture: value
Value ==
    LET marker == Smaller(MarkerSize, limit)
        headLength == Half(limit - marker)
    IN IF total <= limit THEN head
       ELSE First(head, headLength)
            \o [i \in 1..marker |-> Mark]
            \o Last(tail, limit - marker - headLength)
-----------------------------------------------------------------------------
Running == consumer # "crashed"

\* Callbacks of the process run whatever the loop awaits.
Background(A) == Running /\ A /\ UNCHANGED sessionVars
Group(A) == A /\ UNCHANGED sessionVars

\* The generator runs while the loop waits for its next chunk.
Pulled(A) == consumer = "pulling" /\ A /\ UNCHANGED sessionVars

\* A chunk is any further part of the output.
WriteChunk ==
    /\ Writes
    /\ \E hi \in CutAt(produced)+1..Len(Output) : cuts' = cuts \o <<hi>>
    /\ UNCHANGED <<limit, consumer, sunk, result>> /\ UNCHANGED captureVars

\* The chunk goes to the sink, and the loop waits for it to drain.
Receive ==
    /\ consumer = "pulling" /\ Yield
    /\ sunk' = sunk \o Chunk(yielded')
    /\ consumer' = "writing"
    /\ UNCHANGED <<limit, cuts, result>> /\ UNCHANGED captureVars

Capture ==
    /\ consumer = "writing"
    /\ IF limit > 0 THEN Append_(Chunk(yielded)) ELSE UNCHANGED captureVars
    /\ consumer' = "pulling"
    /\ UNCHANGED <<limit, cuts, sunk, result>> /\ UNCHANGED vars

\* The generator is over, or has thrown: the sink is ended.
LeaveLoop ==
    /\ consumer = "pulling" /\ gen \in {"finished", "threw"}
    /\ consumer' = "ending"
    /\ UNCHANGED <<limit, cuts, sunk, result>>
    /\ UNCHANGED captureVars /\ UNCHANGED vars

Return ==
    /\ consumer = "ending"
    /\ consumer' = "returned"
    /\ result' = [full |-> IF limit > 0 THEN Value ELSE <<>>,
                  hasOutput |-> yielded > 0, error |-> gen = "threw"]
    /\ UNCHANGED <<limit, cuts, sunk>>
    /\ UNCHANGED captureVars /\ UNCHANGED vars

\* Nobody listens to the sink's 'error': it ends the wrapper.
SinkBreaks ==
    /\ consumer \in {"pulling", "writing", "ending"} /\ gen # "crashed"
    /\ consumer' = "crashed"
    /\ UNCHANGED <<limit, cuts, sunk, result>>
    /\ UNCHANGED captureVars /\ UNCHANGED vars

\* The wrapper is gone without an answer.
Crashed == gen = "crashed" \/ consumer = "crashed"

Finished == (consumer = "returned" \/ Crashed) /\ UNCHANGED allVars
-----------------------------------------------------------------------------
SessionLaunches == Pulled(Launches)
GeneratorStep == Pulled(Rethrow \/ EndOfOutput \/ Settle)
EventStep == Background(UnheardError \/ OnClose \/ AfterClose \/ OnError)
LoopStep == Receive \/ Capture \/ LeaveLoop \/ Return

SessionNext ==
    \/ SessionLaunches \/ GeneratorStep \/ EventStep \/ LoopStep
    \/ Background(TimeoutFires) \/ Background(ForceKillFires)
    \/ WriteChunk
    \/ Group(WorkerForks) \/ Group(LeaderEnds) \/ Group(WorkerEnds)
    \/ SinkBreaks
    \/ Finished

SessionSpec == SessionInit /\ [][SessionNext]_allVars

(***************************************************************************)
(* As in SpawnStream; a sink that does not break drains.                   *)
(***************************************************************************)
SessionFairness ==
    /\ WF_allVars(SessionLaunches) /\ WF_allVars(GeneratorStep)
    /\ WF_allVars(EventStep) /\ WF_allVars(LoopStep)
    /\ WF_allVars(Background(TimeoutFires))
    /\ WF_allVars(Background(ForceKillFires))
    /\ WF_allVars(Group(sent = "kill" /\ LeaderEnds))

FairSessionSpec == SessionSpec /\ SessionFairness
-----------------------------------------------------------------------------
(***************************************************************************)
(* Properties                                                              *)
(***************************************************************************)

\* A character is broken by the boundary of two chunks.
Broken(c) ==
    \E i \in 1..produced : /\ CutAt(i) < Len(Output)
                           /\ Output[CutAt(i)] = c /\ Output[CutAt(i)+1] = c

\* The sink got every character the group wrote, in order, but those that
\* the boundary of two chunks broke.
SinkHasAll ==
    /\ produced > 0 => \A c \in 1..Output[CutAt(produced)] :
           Broken(c) \/ \E k \in 1..Len(sunk) : sunk[k] = c
    /\ \A j, k \in 1..Len(sunk) :
           j < k /\ Bad \notin {sunk[j], sunk[k]} => sunk[j] < sunk[k]

\* The excerpt is what the sink got, if it fits the limit, or else of exactly
\* the limit's length: its beginning, the marker, its end.
ExcerptFits ==
    LET n == Len(sunk)
        m == Smaller(MarkerSize, limit)
        full == result.full
    IN /\ limit > 0 /\ n <= limit => full = sunk
       /\ limit > 0 /\ n > limit =>
              /\ Len(full) = limit
              /\ \E h \in 0..limit :
                     LET t == limit - m - h
                     IN /\ t \in {h, h - 1}
                        /\ \A k \in 1..h : full[k] = sunk[k]
                        /\ \A k \in 1..m : full[h+k] = Mark
                        /\ \A k \in 1..t : full[h+m+k] = sunk[n-t+k]

\* Once the call resolves, with an error or not, both hold, and the caller
\* knows whether there was any output (123-128, 156-187).
ResultIsFaithful ==
    consumer = "returned" => /\ SinkHasAll
                             /\ ExcerptFits
                             /\ result.hasOutput <=> produced > 0

\* What the caller learns of the call: ok or not, or nothing.
SessionAnswer ==
    CASE consumer = "returned" -> IF result.error THEN "failed" ELSE "ok"
      [] Crashed -> "abandoned"
      [] OTHER -> "none"

\* The loop behind the generator still makes one call of it: what the caller
\* is told agrees with the process.
SessionCall == INSTANCE ProviderCall
                   WITH child <- child, sent <- sent, answer <- SessionAnswer
SessionProtocol == SessionCall!Spec

\* Every call comes to an end: with a timeout neither a provider that
\* ignores SIGTERM nor a worker with the pipe in its hands prevents it.
SessionEnds == <>(consumer = "returned" \/ Crashed)
=============================================================================
