----------------------- MODULE ProviderSessionProofs -----------------------
(***************************************************************************)
(* What ProviderSession establishes for any output, however it is cut into *)
(* chunks, and any limit.  The session implements the call of spawnStream, *)
(* so whatever SpawnStreamProofs shows of one call holds behind it.        *)
(***************************************************************************)
EXTENDS ProviderSession, SpawnStreamProofs, SequenceTheorems

-----------------------------------------------------------------------------
\* A step of the session is a step of the call, or leaves it alone.
LEMMA SessionStepIsCallStep == [SessionNext]_allVars => [Next]_vars
<1> SUFFICES ASSUME SessionNext \/ UNCHANGED allVars
             PROVE  Next \/ UNCHANGED vars
  OBVIOUS
<1> USE DEF Next, Callback
<1>1. CASE SessionLaunches
  BY <1>1 DEF SessionLaunches, Pulled
<1>2. CASE GeneratorStep
  BY <1>2 DEF GeneratorStep, Pulled
<1>3. CASE EventStep
  BY <1>3 DEF EventStep, Background
<1>4. CASE LoopStep
  BY <1>4 DEF LoopStep, Receive, Capture, LeaveLoop, Return
<1>5. CASE Background(TimeoutFires) \/ Background(ForceKillFires)
  BY <1>5 DEF Background
<1>6. CASE WriteChunk
  BY <1>6 DEF WriteChunk
<1>7. CASE Group(WorkerForks) \/ Group(LeaderEnds) \/ Group(WorkerEnds)
  BY <1>7 DEF Group
<1>8. CASE SinkBreaks \/ Finished \/ UNCHANGED allVars
  BY <1>8 DEF SinkBreaks, Finished, allVars
<1>9. QED
  BY <1>1, <1>2, <1>3, <1>4, <1>5, <1>6, <1>7, <1>8 DEF SessionNext

\* The call behind the session is the call of SpawnStream.
THEOREM SessionCalls == SessionSpec => Spec
<1>1. SessionInit => Init
  BY DEF SessionInit
<1>2. QED
  BY <1>1, SessionStepIsCallStep, PTL DEF SessionSpec, Spec

\* Behind the session, too, nothing is left of a call that is over.
THEOREM SessionLeavesNothing == SessionSpec => []NothingLeftBehind
  BY SessionCalls, NothingIsLeft, PTL

\* The session is told what became of the output and of the timeout.
THEOREM SessionIsTold == SessionSpec => []ConsumerIsTold
  BY SessionCalls, ConsumersAreTold, PTL
-----------------------------------------------------------------------------
(***************************************************************************)
(* The text                                                                *)
(***************************************************************************)

\* The number of a character, counted from that of another.
LEMMA Offset == ASSUME NEW a \in Nat, NEW i \in Int, i >= 1 PROVE a + i - 1 \in Nat
  OBVIOUS

\* A chunk of bytes lo+1..hi decodes to characters.
LEMMA DecodeType ==
    ASSUME NEW lo \in 0..Len(Output), NEW hi \in lo..Len(Output)
    PROVE  Decode(lo, hi) \in Seq(Characters)
<1> USE OutputAssumption, CharactersAssumption DEF Characters
<1>1. CASE lo = hi
  BY <1>1 DEF Decode
<1>2. CASE lo # hi
  <2> DEFINE n == Output[hi] - Output[lo+1] + 1
             e(i) == LET c == Output[lo+1] + i - 1
                     IN IF \E k \in (1..lo) \cup (hi+1..Len(Output)) :
                               Output[k] = c
                        THEN Bad ELSE c
  <2>1. lo + 1 \in 1..Len(Output) /\ hi \in 1..Len(Output) /\ lo + 1 <= hi
    BY <1>2
  <2>2. Output[hi] \in Nat /\ Output[lo+1] \in Nat
    BY <2>1
  <2>3. Output[hi] >= Output[lo+1]
    BY <2>1, <2>2
  <2>4. n \in Nat
    BY <2>2, <2>3
  <2>5. ASSUME NEW i \in 1..n
        PROVE  e(i) \in Characters
    <3>1. i \in Int /\ i >= 1
      OBVIOUS
    <3>2. Output[lo+1] + i - 1 \in Nat
      BY <2>2, <3>1, Offset
    <3>3. QED
      BY <3>2
  <2> HIDE DEF n, e
  <2>6. [i \in 1..n |-> e(i)] \in [1..n -> Characters]
    BY <2>5
  <2>7. [i \in 1..n |-> e(i)] \in Seq(Characters)
    BY <2>4, <2>6, SeqDef
  <2>8. Decode(lo, hi) = [i \in 1..n |-> e(i)]
    BY <1>2 DEF Decode, n, e
  <2>9. QED
    BY <2>7, <2>8
<1>3. QED
  BY <1>1, <1>2

\* Bytes belong to ascending characters, and none is left out.
LEMMA OutputAscends ==
    /\ Len(Output) \in Nat /\ \A j \in 1..Len(Output) : Output[j] \in Nat
    /\ \A j, k \in 1..Len(Output) : j <= k => Output[j] <= Output[k]
    /\ \A j, k \in 1..Len(Output) : k = j + 1 => Output[k] <= Output[j] + 1
    /\ 1 \in 1..Len(Output) /\ Output[1] = 1
<1> USE OutputAssumption
<1>1. Len(Output) \in Nat /\ \A j \in 1..Len(Output) : Output[j] \in Nat
  OBVIOUS
<1>2. \A j, k \in 1..Len(Output) : j < k => Output[j] <= Output[k]
  BY <1>1
<1>3. \A j, k \in 1..Len(Output) : k = j + 1 => Output[k] <= Output[j] + 1
  BY <1>1
<1>4. 1 \in 1..Len(Output) /\ Output[1] = 1
  BY <1>1
<1>5. \A j, k \in 1..Len(Output) : j = k => Output[j] <= Output[k]
  BY <1>1
<1>6. QED
  BY <1>1, <1>2, <1>3, <1>4, <1>5

\* Of the characters up to the last byte of a chunk each comes before it, is
\* in it, or goes on behind it; those in it are whole, in order, and begin
\* behind what comes before.
LEMMA DecodeKeeps ==
    ASSUME NEW lo \in 0..Len(Output), NEW hi \in lo+1..Len(Output)
    PROVE  LET chunk == Decode(lo, hi)
           IN /\ \A i \in 1..Len(chunk) :
                     \/ chunk[i] = Bad
                     \/ /\ chunk[i] \in Nat /\ chunk[i] <= Output[hi]
                        /\ chunk[i] = Output[lo+1] + i - 1
                        /\ lo > 0 => Output[lo] < chunk[i]
              /\ \A c \in 1..Output[hi] :
                     \/ lo > 0 /\ c <= Output[lo]
                     \/ \E i \in 1..Len(chunk) : chunk[i] = c
                     \/ hi < Len(Output) /\ Output[hi] = c /\ Output[hi+1] = c
<1> DEFINE chunk == Decode(lo, hi)
           n == Output[hi] - Output[lo+1] + 1
           Elsewhere(c) == \E k \in (1..lo) \cup (hi+1..Len(Output)) :
                               Output[k] = c
<1>1. /\ lo \in Nat /\ hi \in Nat /\ lo < hi /\ hi <= Len(Output)
      /\ lo + 1 \in 1..Len(Output) /\ hi \in 1..Len(Output)
  BY OutputAscends
<1>2. /\ Output[hi] \in Nat /\ Output[lo+1] \in Nat /\ n \in Nat
      /\ Output[lo+1] <= Output[hi]
  BY <1>1, OutputAscends
<1>3. /\ Len(chunk) = n
      /\ \A i \in 1..n : chunk[i] = IF Elsewhere(Output[lo+1] + i - 1)
                                    THEN Bad ELSE Output[lo+1] + i - 1
  BY <1>1, <1>2 DEF Decode
<1> HIDE DEF chunk, n
<1>4. ASSUME NEW i \in 1..Len(chunk), chunk[i] # Bad
      PROVE  /\ chunk[i] \in Nat /\ chunk[i] <= Output[hi]
             /\ chunk[i] = Output[lo+1] + i - 1
             /\ lo > 0 => Output[lo] < chunk[i]
  <2> DEFINE c == Output[lo+1] + i - 1
  <2>1. chunk[i] = c /\ ~Elsewhere(c) /\ i \in 1..n
    BY <1>3, <1>4
  <2>2. c \in Nat /\ Output[lo+1] <= c /\ c <= Output[hi]
    BY <1>2, <2>1 DEF n
  <2> HIDE DEF c
  <2>3. ASSUME lo > 0
        PROVE  Output[lo] < c
    <3>1. lo \in 1..Len(Output) /\ lo \in 1..lo
      BY <1>1, <2>3, OutputAscends
    <3>2. Output[lo] # c /\ Output[lo] \in Nat
      BY <2>1, <3>1, OutputAscends
    <3>3. Output[lo] <= Output[lo+1]
      BY <1>1, <3>1, OutputAscends
    <3>4. QED
      BY <1>2, <2>2, <3>2, <3>3
  <2>4. QED
    BY <2>1, <2>2, <2>3 DEF c
<1>5. ASSUME NEW c \in 1..Output[hi], ~(lo > 0 /\ c <= Output[lo])
      PROVE  \/ \E i \in 1..Len(chunk) : chunk[i] = c
             \/ hi < Len(Output) /\ Output[hi] = c /\ Output[hi+1] = c
  <2>1. c \in Nat /\ 1 <= c /\ c <= Output[hi]
    BY <1>2
  <2>2. Output[lo+1] <= c
    <3>1. CASE lo = 0
      BY <2>1, <3>1, OutputAscends
    <3>2. CASE lo > 0
      <4>1. lo \in 1..Len(Output) /\ Output[lo] < c /\ Output[lo] \in Nat
        BY <1>1, <1>5, <2>1, <3>2, OutputAscends
      <4>2. Output[lo+1] <= Output[lo] + 1
        BY <1>1, <4>1, OutputAscends
      <4>3. QED
        BY <1>2, <2>1, <4>1, <4>2
    <3>3. QED
      BY <1>1, <3>1, <3>2
  <2> DEFINE i == c - Output[lo+1] + 1
  <2>3. i \in 1..n /\ Output[lo+1] + i - 1 = c
    BY <1>2, <2>1, <2>2 DEF n
  <2> HIDE DEF i
  <2>4. CASE ~Elsewhere(c)
    BY <1>3, <2>3, <2>4
  <2>5. CASE Elsewhere(c)
    <3>1. PICK k \in (1..lo) \cup (hi+1..Len(Output)) : Output[k] = c
      BY <2>5
    <3>2. ~(k \in 1..lo)
      <4> SUFFICES ASSUME k \in 1..lo PROVE FALSE
        OBVIOUS
      <4>1. lo > 0 /\ k \in 1..Len(Output) /\ lo \in 1..Len(Output) /\ k <= lo
        BY <1>1
      <4>2. Output[k] <= Output[lo] /\ Output[lo] \in Nat /\ Output[k] \in Nat
        BY <4>1, OutputAscends
      <4>3. QED
        BY <1>5, <3>1, <4>1, <4>2
    <3>3. k \in hi+1..Len(Output)
      BY <3>1, <3>2
    <3>4. /\ hi + 1 \in 1..Len(Output) /\ k \in 1..Len(Output)
          /\ hi < Len(Output) /\ hi <= hi + 1 /\ hi + 1 <= k
      BY <1>1, <3>3
    <3>5. Output[hi] <= Output[hi+1] /\ Output[hi+1] <= Output[k]
      BY <1>1, <3>4, OutputAscends
    <3>6. Output[hi+1] \in Nat
      BY <3>4, OutputAscends
    <3>7. QED
      BY <1>2, <2>1, <3>1, <3>4, <3>5, <3>6
  <2>6. QED
    BY <2>4, <2>5
<1>6. QED
  BY <1>4, <1>5 DEF chunk

\* Where the characters of two texts, of three, are in the text made of them.
LEMMA ConcatTwo ==
    ASSUME NEW a \in Seq(Characters), NEW b \in Seq(Characters)
    PROVE  /\ a \o b \in Seq(Characters) /\ Len(a \o b) = Len(a) + Len(b)
           /\ \A k \in 1..Len(a) : (a \o b)[k] = a[k]
           /\ \A k \in 1..Len(b) : (a \o b)[Len(a) + k] = b[k]
<1>1. Len(a) \in Nat /\ Len(b) \in Nat
  OBVIOUS
<1>2. /\ a \o b \in Seq(Characters) /\ Len(a \o b) = Len(a) + Len(b)
      /\ \A k \in 1..Len(a) + Len(b) :
             (a \o b)[k] = IF k <= Len(a) THEN a[k] ELSE b[k - Len(a)]
  BY ConcatProperties
<1>3. ASSUME NEW k \in 1..Len(b)
      PROVE  (a \o b)[Len(a) + k] = b[k]
  <2> DEFINE j == Len(a) + k
  <2>1. j \in 1..Len(a) + Len(b) /\ ~(j <= Len(a)) /\ j - Len(a) = k
    BY <1>1
  <2> HIDE DEF j
  <2>2. (a \o b)[j] = b[j - Len(a)]
    BY <2>1, <1>2
  <2>3. QED
    BY <2>1, <2>2 DEF j
<1>4. \A k \in 1..Len(a) : (a \o b)[k] = a[k]
  BY <1>1, <1>2
<1>5. QED
  BY <1>2, <1>3, <1>4

\* The same for three.
LEMMA ConcatThree ==
    ASSUME NEW a \in Seq(Characters), NEW b \in Seq(Characters),
           NEW c \in Seq(Characters), NEW whole, whole = a \o b \o c
    PROVE  /\ whole \in Seq(Characters)
           /\ Len(whole) = Len(a) + Len(b) + Len(c)
           /\ \A k \in 1..Len(a) : whole[k] = a[k]
           /\ \A k \in 1..Len(b) : whole[Len(a) + k] = b[k]
           /\ \A k \in 1..Len(c) : whole[Len(a) + Len(b) + k] = c[k]
<1> DEFINE ab == a \o b
           abc == ab \o c
<1>1. /\ ab \in Seq(Characters) /\ Len(ab) = Len(a) + Len(b)
      /\ \A k \in 1..Len(a) : ab[k] = a[k]
      /\ \A k \in 1..Len(b) : ab[Len(a) + k] = b[k]
  BY ConcatTwo
<1> HIDE DEF ab
<1>2. /\ abc \in Seq(Characters) /\ Len(abc) = Len(ab) + Len(c)
      /\ \A k \in 1..Len(ab) : abc[k] = ab[k]
      /\ \A k \in 1..Len(c) : abc[Len(ab) + k] = c[k]
  BY <1>1, ConcatTwo
<1> HIDE DEF abc
<1>3. Len(a) \in Nat /\ Len(b) \in Nat /\ Len(c) \in Nat
  OBVIOUS
<1>4. ASSUME NEW k \in 1..Len(a) PROVE abc[k] = a[k]
  <2>1. k \in 1..Len(ab)
    BY <1>1, <1>3
  <2>2. QED
    BY <2>1, <1>1, <1>2
<1>5. ASSUME NEW k \in 1..Len(b) PROVE abc[Len(a) + k] = b[k]
  <2>1. Len(a) + k \in 1..Len(ab)
    BY <1>1, <1>3
  <2>2. QED
    BY <2>1, <1>1, <1>2
<1>6. ASSUME NEW k \in 1..Len(c) PROVE abc[Len(a) + Len(b) + k] = c[k]
  BY <1>1, <1>2
<1>7. abc \in Seq(Characters) /\ Len(abc) = Len(a) + Len(b) + Len(c)
  BY <1>1, <1>2
<1>8. QED
  <2>1. whole = abc
    BY DEF abc, ab
  <2>2. QED
    BY <2>1, <1>4, <1>5, <1>6, <1>7

\* The beginning of a text.
LEMMA FirstProperties ==
    ASSUME NEW s \in Seq(Characters), NEW n \in Nat
    PROVE  /\ First(s, n) \in Seq(Characters)
           /\ Len(First(s, n)) = Smaller(n, Len(s))
           /\ \A k \in 1..Smaller(n, Len(s)) : First(s, n)[k] = s[k]
<1> DEFINE m == Smaller(n, Len(s))
<1>1. m \in Nat /\ m <= Len(s)
  BY DEF Smaller
<1>2. \A i \in 1..m : s[i] \in Characters
  BY <1>1
<1> HIDE DEF m
<1>3. /\ SubSeq(s, 1, m) \in Seq(Characters)
      /\ Len(SubSeq(s, 1, m)) = IF 1 <= m THEN m-1+1 ELSE 0
      /\ \A i \in 1 .. m-1+1 : SubSeq(s, 1, m)[i] = s[1+i-1]
  BY <1>1, <1>2, SubSeqProperties
<1>4. First(s, n) = SubSeq(s, 1, m)
  BY DEF First, m
<1>5. QED
  BY <1>1, <1>3, <1>4 DEF m

\* The end of a text.
LEMMA LastProperties ==
    ASSUME NEW s \in Seq(Characters), NEW n \in Nat
    PROVE  /\ Last(s, n) \in Seq(Characters)
           /\ Len(Last(s, n)) = Smaller(n, Len(s))
           /\ \A k \in 1..Smaller(n, Len(s)) :
                  Last(s, n)[k] = s[Len(s) - Smaller(n, Len(s)) + k]
<1> DEFINE m == Smaller(n, Len(s))
           a == Len(s) - m + 1
<1>1. m \in Nat /\ m <= Len(s) /\ a \in 1..Len(s)+1 /\ Len(s) \in Nat
  <2>1. Len(s) \in Nat
    OBVIOUS
  <2>2. m \in Nat /\ m <= Len(s)
    BY <2>1 DEF Smaller
  <2>3. QED
    BY <2>1, <2>2
<1>2. \A i \in a..Len(s) : s[i] \in Characters
  BY <1>1
<1>3. Len(s) - a + 1 = m
  BY <1>1
<1> HIDE DEF m, a
<1>4. /\ SubSeq(s, a, Len(s)) \in Seq(Characters)
      /\ Len(SubSeq(s, a, Len(s))) = IF a <= Len(s) THEN Len(s)-a+1 ELSE 0
      /\ \A i \in 1 .. Len(s)-a+1 : SubSeq(s, a, Len(s))[i] = s[a+i-1]
  BY <1>1, <1>2, SubSeqProperties
<1>5. Last(s, n) = SubSeq(s, a, Len(s))
  BY DEF Last, m, a
<1>6. Len(Last(s, n)) = m
  BY <1>1, <1>3, <1>4, <1>5
<1>7. \A k \in 1..m : Last(s, n)[k] = s[Len(s) - m + k]
  <2> SUFFICES ASSUME NEW k \in 1..m PROVE Last(s, n)[k] = s[Len(s) - m + k]
    OBVIOUS
  <2>1. k \in 1 .. Len(s)-a+1
    BY <1>3
  <2>2. a+k-1 = Len(s) - m + k
    BY <1>1 DEF a
  <2>3. QED
    BY <1>4, <1>5, <2>1, <2>2
<1>8. QED
  BY <1>4, <1>5, <1>6, <1>7 DEF m
-----------------------------------------------------------------------------
(***************************************************************************)
(* The inductive invariant: with that of the call, part by part.           *)
(***************************************************************************)

\* The types, that of the call apart.
SessionShape ==
    /\ limit \in Limits
    /\ cuts \in Seq(1..Len(Output)) /\ Len(cuts) = produced
    /\ consumer \in {"pulling", "writing", "ending", "returned", "crashed"}
    /\ sunk \in Seq(Characters)
    /\ head \in Seq(Characters) /\ Len(head) <= limit
    /\ tail \in Seq(Characters) /\ Len(tail) <= limit
    /\ total \in Nat
    /\ result \in [full: Seq(Characters), hasOutput: BOOLEAN, error: BOOLEAN]

\* A chunk is not empty.
CutsGrow == \A i \in 1..produced : CutAt(i-1) < CutAt(i)

\* Where the generator is while the loop waits.
LoopStages ==
    /\ consumer = "writing" => yielded > 0
    /\ consumer \in {"ending", "returned"} => gen \in {"finished", "threw"}
    /\ consumer = "returned" => /\ result.error <=> gen = "threw"
                                /\ result.hasOutput <=> yielded > 0

\* The capture is about the first "total" characters of the sink: all, but
\* for the chunk that is being written.
Captured ==
    limit > 0 =>
        /\ total <= Len(sunk)
        /\ Len(head) = Smaller(limit, total)
        /\ \A k \in 1..Len(head) : head[k] = sunk[k]
        /\ Len(tail) = Smaller(limit, total)
        /\ \A k \in 1..Len(tail) : tail[k] = sunk[total - Len(tail) + k]
        /\ consumer \in {"pulling", "ending", "returned"} => total = Len(sunk)
        /\ consumer = "writing" =>
               /\ Len(sunk) = total + Len(Chunk(yielded))
               /\ \A k \in 1..Len(Chunk(yielded)) :
                      sunk[total + k] = Chunk(yielded)[k]

\* The sink is about the output up to the last chunk that was handed out.
Sunk ==
    /\ yielded > 0 => \A c \in 1..Output[CutAt(yielded)] :
           Broken(c) \/ \E k \in 1..Len(sunk) : sunk[k] = c
    /\ \A k \in 1..Len(sunk) :
           \/ sunk[k] = Bad
           \/ /\ yielded > 0 /\ sunk[k] \in Nat
              /\ sunk[k] <= Output[CutAt(yielded)]
    /\ \A j, k \in 1..Len(sunk) :
           j < k /\ Bad \notin {sunk[j], sunk[k]} => sunk[j] < sunk[k]

SInv ==
    /\ IInv
    /\ SessionShape
    /\ CutsGrow
    /\ LoopStages
    /\ Sunk
    /\ Captured
    /\ consumer = "returned" => ExcerptFits
-----------------------------------------------------------------------------
\* Where the chunks that have been written lie.
LEMMA CutsLie ==
    ASSUME IInv, SessionShape, CutsGrow, NEW i \in 1..produced
    PROVE  /\ CutAt(i-1) \in 0..Len(Output)
           /\ CutAt(i) \in CutAt(i-1)+1..Len(Output)
           /\ CutAt(i) \in 1..Len(Output)
<1>1. produced \in Nat
  BY MaxChunksAssumption DEF IInv, TypeOK
<1>2. Len(Output) \in Nat
  BY OutputAssumption
<1>3. CutAt(i) \in 1..Len(Output)
  BY <1>1 DEF CutAt, SessionShape
<1>4. CutAt(i-1) \in 0..Len(Output)
  <2>1. CASE i = 1
    BY <2>1, <1>2 DEF CutAt
  <2>2. CASE i # 1
    <3>1. i-1 \in 1..Len(cuts)
      BY <2>2, <1>1 DEF SessionShape
    <3>2. QED
      BY <3>1, <2>2, <1>1, <1>2 DEF CutAt, SessionShape
  <2>3. QED
    BY <2>1, <2>2
<1>5. CutAt(i-1) < CutAt(i)
  BY DEF CutsGrow
<1>6. QED
  BY <1>2, <1>3, <1>4, <1>5

\* The chunks that have been written are texts.
LEMMA ChunkType ==
    ASSUME IInv, SessionShape, CutsGrow, NEW i \in 1..produced
    PROVE  Chunk(i) \in Seq(Characters)
<1>1. Len(Output) \in Nat
  BY OutputAssumption
<1>2. CutAt(i-1) \in 0..Len(Output) /\ CutAt(i) \in CutAt(i-1)..Len(Output)
  BY <1>1, CutsLie
<1>3. QED
  BY <1>2, DecodeType DEF Chunk

\* A call that has not begun satisfies the invariant.
LEMMA SessionInitInv == SessionInit => SInv
<1> SUFFICES ASSUME SessionInit PROVE SInv
  OBVIOUS
<1>1. IInv
  BY InitIInv DEF SessionInit
<1>2. produced = 0
  BY DEF SessionInit, Init
<1>3. SessionShape
  BY <1>2, LimitsAssumption DEF SessionInit, SessionShape, NoResult
<1>4. CutsGrow /\ LoopStages
  BY <1>2 DEF SessionInit, CutsGrow, LoopStages
<1>5. Captured
  BY <1>3, LimitsAssumption DEF SessionInit, SessionShape, Captured, Smaller
<1>6. Sunk
  BY OutputAssumption DEF SessionInit, Init, Sunk
<1>7. QED
  BY <1>1, <1>3, <1>4, <1>5, <1>6 DEF SInv, SessionInit

\* A step that leaves the session alone preserves its part, if the generator
\* stays over and hands out nothing.
LEMMA QuietStep ==
    ASSUME SInv, IInv', UNCHANGED sessionVars, produced' = produced,
           yielded' = yielded,
           consumer \in {"ending", "returned"} => gen' = gen
    PROVE  SInv'
<1> USE DEF SInv, sessionVars
<1>1. SessionShape'
  BY DEF SessionShape
<1>2. CutsGrow'
  BY DEF CutsGrow, CutAt
<1>3. LoopStages'
  BY DEF LoopStages
<1>4. Captured'
  BY DEF Captured, Chunk, CutAt
<1>5. (consumer = "returned" => ExcerptFits)'
  BY DEF ExcerptFits
<1>6. Sunk'
  BY DEF Sunk, Broken, CutAt
<1>7. QED
  BY <1>1, <1>2, <1>3, <1>4, <1>5, <1>6

\* A further chunk moves no earlier one.
LEMMA WriteChunkInv == SInv /\ IInv' /\ WriteChunk => SInv'
<1> SUFFICES ASSUME SInv, IInv', WriteChunk PROVE SInv'
  OBVIOUS
<1> USE DEF SInv
<1>1. PICK hi \in CutAt(produced)+1..Len(Output) : cuts' = cuts \o <<hi>>
  BY DEF WriteChunk
<1>2. /\ produced \in Nat /\ produced' = produced + 1 /\ Len(cuts) = produced
      /\ yielded \in 0..produced
      /\ UNCHANGED <<gen, yielded, limit, consumer, sunk, head, tail, total,
                     result>>
  BY MaxChunksAssumption
  DEF IInv, TypeOK, WriteChunk, Writes, SessionShape, captureVars
<1>3. cuts \in Seq(1..Len(Output)) /\ Len(Output) \in Nat
  BY OutputAssumption DEF SessionShape
<1>4. CutAt(produced) \in 0..Len(Output)
  BY <1>2, <1>3 DEF CutAt
<1>5. hi \in 1..Len(Output) /\ CutAt(produced) < hi
  BY <1>1, <1>3, <1>4
<1>6. /\ cuts' \in Seq(1..Len(Output)) /\ Len(cuts') = produced'
      /\ \A i \in 1..produced : cuts'[i] = cuts[i]
      /\ cuts'[produced'] = hi
  BY <1>1, <1>2, <1>3, <1>5
<1>7. \A i \in 0..produced : CutAt(i)' = CutAt(i)
  BY <1>2, <1>6 DEF CutAt
<1>8. \A j \in Nat : j = produced + 1 => CutAt(j)' = hi
  BY <1>2, <1>6 DEF CutAt
<1>9. SessionShape'
  BY <1>2, <1>6 DEF SessionShape
<1>10. CutsGrow'
  <2> SUFFICES ASSUME NEW i \in 1..produced+1 PROVE CutAt(i-1)' < CutAt(i)'
    BY <1>2 DEF CutsGrow
  <2>1. CASE i \in 1..produced
    <3>1. CutAt(i-1)' = CutAt(i-1) /\ CutAt(i)' = CutAt(i)
      BY <2>1, <1>2, <1>7
    <3>2. QED
      BY <2>1, <3>1 DEF CutsGrow
  <2>2. CASE i = produced + 1
    <3>1. CutAt(i-1)' = CutAt(produced)
      <4>1. i - 1 = produced
        BY <2>2, <1>2
      <4>2. QED
        BY <4>1, <1>2, <1>7
    <3>2. CutAt(i)' = hi
      BY <2>2, <1>2, <1>8
    <3>3. QED
      BY <3>1, <3>2, <1>5
  <2>3. QED
    BY <2>1, <2>2, <1>2
<1>11. LoopStages'
  BY <1>2 DEF LoopStages
<1>12. Captured'
  <2>1. CASE consumer = "writing"
    <3>1. yielded \in 1..produced
      BY <2>1, <1>2 DEF LoopStages
    <3>2. CutAt(yielded)' = CutAt(yielded) /\ CutAt(yielded-1)' = CutAt(yielded-1)
      BY <3>1, <1>2, <1>7
    <3>3. Chunk(yielded)' = Chunk(yielded)
      BY <3>2, <1>2 DEF Chunk
    <3>4. QED
      BY <1>2, <3>3 DEF Captured
  <2>2. CASE consumer # "writing"
    BY <2>2, <1>2 DEF Captured
  <2>3. QED
    BY <2>1, <2>2
<1>13. (consumer = "returned" => ExcerptFits)'
  <2>1. UNCHANGED <<limit, consumer, sunk, result>>
    BY <1>2
  <2>2. QED
    BY <2>1 DEF ExcerptFits
<1>14. Sunk'
  <2>1. \A c : Broken(c) => Broken(c)'
    <3> SUFFICES ASSUME NEW c, Broken(c) PROVE Broken(c)'
      OBVIOUS
    <3>1. PICK i \in 1..produced : /\ CutAt(i) < Len(Output)
                                   /\ Output[CutAt(i)] = c
                                   /\ Output[CutAt(i)+1] = c
      BY DEF Broken
    <3>2. i \in 1..produced' /\ CutAt(i)' = CutAt(i)
      BY <1>2, <1>7
    <3>3. QED
      BY <3>1, <3>2 DEF Broken
  <2>2. yielded' = yielded /\ CutAt(yielded)' = CutAt(yielded)
    BY <1>2, <1>7
  <2>3. sunk' = sunk
    BY <1>2
  <2>4. QED
    BY <2>1, <2>2, <2>3 DEF Sunk
<1>15. QED
  BY <1>9, <1>10, <1>11, <1>12, <1>13, <1>14

\* The chunk is at the end of the sink, and not yet captured.
LEMMA ReceiveInv == SInv /\ IInv' /\ Receive => SInv'
<1> SUFFICES ASSUME SInv, IInv', Receive PROVE SInv'
  OBVIOUS
<1> USE DEF SInv
<1>1. /\ produced \in Nat /\ yielded \in Nat /\ yielded < produced
      /\ yielded' = yielded + 1 /\ consumer = "pulling"
      /\ consumer' = "writing"
      /\ UNCHANGED <<gen, produced, limit, cuts, head, tail, total, result>>
  BY MaxChunksAssumption DEF IInv, TypeOK, Receive, Yield, captureVars
<1> DEFINE new == Chunk(yielded + 1)
<1>2. new \in Seq(Characters)
  <2>1. yielded + 1 \in 1..produced
    BY <1>1
  <2>2. QED
    BY <2>1, ChunkType
<1>3. Chunk(yielded)' = new
  BY <1>1 DEF Chunk, CutAt
<1>4. sunk' = sunk \o new
  BY <1>1 DEF Receive
<1> HIDE DEF new
<1>5. /\ sunk \in Seq(Characters) /\ sunk' \in Seq(Characters)
      /\ Len(sunk') = Len(sunk) + Len(new)
      /\ \A i \in 1..Len(sunk) : sunk'[i] = sunk[i]
      /\ \A i \in 1..Len(new) : sunk'[Len(sunk) + i] = new[i]
      /\ Len(sunk) \in Nat /\ Len(new) \in Nat
  BY <1>2, <1>4 DEF SessionShape
<1>6. SessionShape'
  BY <1>1, <1>5 DEF SessionShape
<1>7. CutsGrow'
  BY <1>1 DEF CutsGrow, CutAt
<1>8. LoopStages'
  BY <1>1 DEF LoopStages
<1>9. Captured'
  <2> SUFFICES ASSUME limit > 0 PROVE Captured'
    BY <1>1 DEF Captured
  <2>1. total = Len(sunk) /\ total \in Nat /\ limit \in Nat
    BY <1>1, LimitsAssumption DEF Captured, SessionShape
  <2>2. total' <= Len(sunk')
    BY <2>1, <1>1, <1>5
  <2>3. Len(head) <= total /\ Len(tail) <= total
        /\ Len(head) \in Nat /\ Len(tail) \in Nat
    BY <2>1 DEF Captured, Smaller
  <2>4. \A k \in 1..Len(head) : head[k] = sunk'[k]
    BY <2>1, <2>3, <1>5 DEF Captured
  <2>5. ASSUME NEW k \in 1..Len(tail)
        PROVE  tail[k] = sunk'[total - Len(tail) + k]
    <3>1. total - Len(tail) + k \in 1..Len(sunk)
      BY <2>1, <2>3
    <3>2. QED
      BY <3>1, <1>5 DEF Captured
  <2>6. QED
    BY <2>1, <2>2, <2>4, <2>5, <1>1, <1>3, <1>5 DEF Captured
<1>10. Sunk'
  <2> DEFINE lo == CutAt(yielded)
             hi == CutAt(yielded + 1)
  <2>1. /\ yielded + 1 \in 1..produced /\ (yielded + 1) - 1 = yielded
        /\ CutAt(yielded + 1 - 1) = lo
    BY <1>1 DEF CutAt
  <2>2. lo \in 0..Len(Output) /\ hi \in lo+1..Len(Output) /\ hi \in 1..Len(Output)
    BY <2>1, CutsLie
  <2>3. new = Decode(lo, hi)
    BY <2>1 DEF new, Chunk
  <2>4. lo > 0 <=> yielded > 0
    <3>1. CASE yielded = 0
      BY <3>1 DEF CutAt
    <3>2. CASE yielded # 0
      <4>1. yielded \in 1..produced
        BY <3>2, <1>1
      <4>2. CutAt(yielded) \in 1..Len(Output)
        BY <4>1, CutsLie
      <4>3. QED
        BY <4>1, <4>2
    <3>3. QED
      BY <3>1, <3>2
  <2>5. \A c : Broken(c)' <=> Broken(c)
    BY <1>1 DEF Broken, CutAt
  <2>6. ASSUME hi < Len(Output), NEW c, Output[hi] = c, Output[hi+1] = c
        PROVE  Broken(c)
    BY <2>1, <2>6 DEF Broken
  <2> HIDE DEF lo, hi
  <2>7. /\ \A i \in 1..Len(new) :
               \/ new[i] = Bad
               \/ /\ new[i] \in Nat /\ new[i] <= Output[hi]
                  /\ new[i] = Output[lo+1] + i - 1
                  /\ lo > 0 => Output[lo] < new[i]
        /\ \A c \in 1..Output[hi] :
               \/ lo > 0 /\ c <= Output[lo]
               \/ \E i \in 1..Len(new) : new[i] = c
               \/ hi < Len(Output) /\ Output[hi] = c /\ Output[hi+1] = c
    BY <2>2, <2>3, DecodeKeeps
  <2>8. Output[hi] \in Nat /\ (lo > 0 => Output[lo] \in Nat /\ Output[lo] <= Output[hi])
    BY <2>2, OutputAscends
  <2>9. ASSUME NEW c \in 1..Output[hi]
        PROVE  Broken(c) \/ \E k \in 1..Len(sunk') : sunk'[k] = c
    <3>1. CASE lo > 0 /\ c <= Output[lo]
      <4>1. c \in 1..Output[lo] /\ yielded > 0
        BY <3>1, <2>4, <2>8
      <4>2. Broken(c) \/ \E k \in 1..Len(sunk) : sunk[k] = c
        BY <4>1 DEF Sunk, lo
      <4>3. QED
        BY <4>2, <1>5
    <3>2. CASE \E i \in 1..Len(new) : new[i] = c
      <4>1. PICK i \in 1..Len(new) : new[i] = c
        BY <3>2
      <4>2. Len(sunk) + i \in 1..Len(sunk') /\ sunk'[Len(sunk) + i] = c
        BY <4>1, <1>5
      <4>3. QED
        BY <4>2
    <3>3. QED
      BY <2>6, <2>7, <3>1, <3>2
  <2>10. ASSUME NEW k \in 1..Len(sunk'), ~(k \in 1..Len(sunk))
         PROVE  \E i \in 1..Len(new) : k = Len(sunk) + i /\ sunk'[k] = new[i]
    <3>1. k - Len(sunk) \in 1..Len(new) /\ k = Len(sunk) + (k - Len(sunk))
      BY <2>10, <1>5
    <3>2. QED
      BY <3>1, <1>5
  <2>11. ASSUME NEW k \in 1..Len(sunk'), sunk'[k] # Bad
         PROVE  sunk'[k] \in Nat /\ sunk'[k] <= Output[hi]
    <3>1. CASE k \in 1..Len(sunk)
      <4>1. sunk'[k] = sunk[k]
        BY <3>1, <1>5
      <4>2. yielded > 0 /\ sunk[k] \in Nat /\ sunk[k] <= Output[lo]
        BY <2>11, <3>1, <4>1 DEF Sunk, lo
      <4>3. QED
        BY <4>1, <4>2, <2>4, <2>8
    <3>2. CASE ~(k \in 1..Len(sunk))
      BY <2>7, <2>10, <2>11, <3>2
    <3>3. QED
      BY <3>1, <3>2
  <2>12. ASSUME NEW j \in 1..Len(sunk'), NEW k \in 1..Len(sunk'), j < k,
                sunk'[j] # Bad, sunk'[k] # Bad
         PROVE  sunk'[j] < sunk'[k]
    <3>1. CASE k \in 1..Len(sunk)
      <4>1. j \in 1..Len(sunk) /\ sunk'[j] = sunk[j] /\ sunk'[k] = sunk[k]
        BY <2>12, <3>1, <1>5
      <4>2. QED
        BY <2>12, <3>1, <4>1 DEF Sunk
    <3>2. CASE ~(k \in 1..Len(sunk)) /\ j \in 1..Len(sunk)
      <4>1. PICK i \in 1..Len(new) : k = Len(sunk) + i /\ sunk'[k] = new[i]
        BY <2>10, <3>2
      <4>2. sunk'[j] = sunk[j]
        BY <3>2, <1>5
      <4>3. yielded > 0 /\ sunk[j] \in Nat /\ sunk[j] <= Output[lo]
        BY <2>12, <3>2, <4>2 DEF Sunk, lo
      <4>4. new[i] \in Nat /\ Output[lo] < new[i] /\ Output[lo] \in Nat
        BY <2>4, <2>7, <2>8, <2>12, <4>1, <4>3
      <4>5. QED
        BY <4>1, <4>2, <4>3, <4>4
    <3>3. CASE ~(k \in 1..Len(sunk)) /\ ~(j \in 1..Len(sunk))
      <4>1. PICK i \in 1..Len(new) : k = Len(sunk) + i /\ sunk'[k] = new[i]
        BY <2>10, <3>3
      <4>2. PICK h \in 1..Len(new) : j = Len(sunk) + h /\ sunk'[j] = new[h]
        BY <2>10, <3>3
      <4>3. h < i /\ h \in Nat /\ i \in Nat
        BY <1>5, <2>12, <4>1, <4>2
      <4>4. /\ new[i] = Output[lo+1] + i - 1 /\ new[h] = Output[lo+1] + h - 1
            /\ new[i] \in Nat /\ new[h] \in Nat
        BY <2>7, <2>12, <4>1, <4>2
      <4>5. Output[lo+1] \in Nat
        <5>1. lo + 1 \in 1..Len(Output)
          BY <2>2, OutputAscends
        <5>2. QED
          BY <5>1, OutputAscends
      <4>6. QED
        BY <4>1, <4>2, <4>3, <4>4, <4>5
    <3>4. QED
      BY <3>1, <3>2, <3>3
  <2>13. CutAt(yielded)' = hi /\ yielded' > 0
    BY <1>1 DEF CutAt, hi
  <2>14. QED
    BY <2>5, <2>9, <2>11, <2>12, <2>13 DEF Sunk
<1>11. QED
  BY <1>1, <1>6, <1>7, <1>8, <1>9, <1>10

\* The capture catches up with the sink.
LEMMA CaptureInv == SInv /\ IInv' /\ Capture => SInv'
<1> SUFFICES ASSUME SInv, IInv', Capture PROVE SInv'
  OBVIOUS
<1> USE DEF SInv
<1>1. /\ consumer = "writing" /\ consumer' = "pulling"
      /\ UNCHANGED <<gen, produced, yielded, limit, cuts, sunk, result>>
  BY DEF Capture, vars
<1>2. CutsGrow' /\ LoopStages' /\ Sunk'
  BY <1>1 DEF CutsGrow, CutAt, LoopStages, Sunk, Broken
<1>3. limit \in Nat /\ total \in Nat
  BY LimitsAssumption DEF SessionShape
<1>4. CASE limit = 0
  <2>1. UNCHANGED captureVars
    BY <1>4 DEF Capture
  <2>2. SessionShape' /\ Captured'
    BY <1>1, <1>4, <2>1 DEF SessionShape, Captured, captureVars
  <2>3. QED
    BY <1>1, <1>2, <2>2
<1>5. CASE limit # 0
  <2>1. limit > 0
    BY <1>3, <1>5
  <2> DEFINE new == Chunk(yielded)
             n == Len(sunk)
  <2>2. new \in Seq(Characters)
    <3>1. yielded \in 1..produced
      BY <1>1, MaxChunksAssumption DEF IInv, TypeOK, LoopStages
    <3>2. QED
      BY <3>1, ChunkType
  <2>3. /\ total' = total + Len(new)
        /\ head' = IF Len(head) < limit
                   THEN head \o First(new, limit - Len(head)) ELSE head
        /\ tail' = Last(tail \o new, limit)
    BY <1>1, <2>1 DEF Capture, Append_
  <2>4. /\ n = total + Len(new) /\ total' = n /\ n \in Nat
        /\ \A k \in 1..Len(new) : sunk[total + k] = new[k]
    BY <1>1, <2>1, <2>3 DEF Captured, SessionShape
  <2>5. /\ Len(head) = Smaller(limit, total)
        /\ \A k \in 1..Len(head) : head[k] = sunk[k]
        /\ Len(tail) = Smaller(limit, total)
        /\ \A k \in 1..Len(tail) : tail[k] = sunk[total - Len(tail) + k]
        /\ head \in Seq(Characters) /\ tail \in Seq(Characters)
    BY <2>1 DEF Captured, SessionShape
  <2> HIDE DEF new, n
  <2>6. /\ head' \in Seq(Characters)
        /\ Len(head') = Smaller(limit, n)
        /\ \A k \in 1..Len(head') : head'[k] = sunk[k]
    <3>1. CASE Len(head) < limit
      <4>1. Len(head) = total /\ limit - total \in Nat
        BY <3>1, <2>5, <1>3 DEF Smaller
      <4> DEFINE part == First(new, limit - total)
                 m == Smaller(limit - total, Len(new))
      <4>2. /\ part \in Seq(Characters) /\ Len(part) = m
            /\ \A k \in 1..m : part[k] = new[k]
        BY <4>1, <2>2, FirstProperties
      <4>3. head' = head \o part
        BY <3>1, <4>1, <2>3
      <4>4. m \in Nat /\ m <= Len(new) /\ total + m = Smaller(limit, n)
        BY <4>1, <2>2, <2>4, <1>3 DEF Smaller
      <4> HIDE DEF part, m
      <4>5. /\ head' \in Seq(Characters) /\ Len(head') = total + m
            /\ \A k \in 1..total + m :
                   head'[k] = IF k <= total THEN head[k] ELSE part[k - total]
        <5>1. /\ head \o part \in Seq(Characters)
              /\ Len(head \o part) = Len(head) + Len(part)
              /\ \A k \in 1..Len(head) + Len(part) :
                     (head \o part)[k] = IF k <= Len(head) THEN head[k]
                                         ELSE part[k - Len(head)]
          BY <4>2, <2>5, ConcatProperties
        <5>2. QED
          BY <5>1, <4>1, <4>2, <4>3
      <4>6. ASSUME NEW k \in 1..total + m
            PROVE  head'[k] = sunk[k]
        <5>1. CASE k <= total
          BY <5>1, <4>1, <4>5, <2>5, <1>3
        <5>2. CASE ~(k <= total)
          <6>1. k - total \in 1..m /\ total + (k - total) = k
            BY <5>2, <1>3, <4>4
          <6>2. k - total \in 1..Len(new)
            BY <6>1, <4>4, <2>2
          <6>3. QED
            BY <5>2, <6>1, <6>2, <4>2, <4>5, <2>4
        <5>3. QED
          BY <5>1, <5>2
      <4>7. QED
        BY <4>4, <4>5, <4>6
    <3>2. CASE ~(Len(head) < limit)
      <4>1. Len(head) = limit /\ limit <= total /\ head' = head
        BY <3>2, <2>3, <2>5, <1>3 DEF Smaller
      <4>2. limit = Smaller(limit, n)
        BY <4>1, <2>2, <2>4, <1>3 DEF Smaller
      <4>3. QED
        BY <4>1, <4>2, <2>5
    <3>3. QED
      BY <3>1, <3>2
  <2>7. /\ tail' \in Seq(Characters)
        /\ Len(tail') = Smaller(limit, n)
        /\ \A k \in 1..Len(tail') : tail'[k] = sunk[n - Len(tail') + k]
    <3> DEFINE both == tail \o new
               l == Len(tail)
               m == Smaller(limit, l + Len(new))
    <3>1. l \in Nat /\ l <= total /\ Len(new) \in Nat
      BY <2>2, <2>5, <1>3 DEF Smaller
    <3>2. /\ both \in Seq(Characters) /\ Len(both) = l + Len(new)
          /\ \A k \in 1..l + Len(new) :
                 both[k] = IF k <= l THEN tail[k] ELSE new[k - l]
      BY <2>2, <2>5, ConcatProperties
    <3>3. m = Smaller(limit, n) /\ m \in Nat /\ m <= l + Len(new)
      BY <3>1, <2>4, <2>5, <1>3 DEF Smaller
    <3>4. /\ tail' \in Seq(Characters) /\ Len(tail') = m
          /\ \A k \in 1..m : tail'[k] = both[l + Len(new) - m + k]
      <4>1. tail' = Last(both, limit)
        BY <2>3
      <4> HIDE DEF both
      <4>2. /\ Last(both, limit) \in Seq(Characters)
            /\ Len(Last(both, limit)) = Smaller(limit, Len(both))
            /\ \A k \in 1..Smaller(limit, Len(both)) : Last(both, limit)[k]
                   = both[Len(both) - Smaller(limit, Len(both)) + k]
        BY <3>2, <1>3, LastProperties
      <4>3. Len(both) = l + Len(new)
        BY <3>2
      <4>4. Smaller(limit, Len(both)) = m
        BY <4>3
      <4> HIDE DEF l, m
      <4>5. QED
        BY <4>1, <4>2, <4>3, <4>4, <3>1, <3>3
    <3> HIDE DEF both, l, m
    <3>5. ASSUME NEW j \in 1..l + Len(new)
          PROVE  both[j] = sunk[total - l + j]
      <4>1. CASE j <= l
        BY <4>1, <3>1, <3>2, <2>5 DEF l
      <4>2. CASE ~(j <= l)
        <5>1. j - l \in 1..Len(new) /\ total - l + j = total + (j - l)
          BY <4>2, <3>1, <1>3
        <5>2. QED
          BY <4>2, <5>1, <3>2, <2>4
      <4>3. QED
        BY <4>1, <4>2
    <3>6. ASSUME NEW k \in 1..m
          PROVE  tail'[k] = sunk[n - m + k]
      <4>1. /\ l + Len(new) - m + k \in 1..l + Len(new)
            /\ total - l + (l + Len(new) - m + k) = n - m + k
        BY <3>1, <3>3, <2>4, <1>3
      <4>2. QED
        BY <4>1, <3>4, <3>5
    <3>7. QED
      BY <3>3, <3>4, <3>6
  <2>8. SessionShape'
    <3>1. Smaller(limit, n) <= limit
      BY <2>4, <1>3 DEF Smaller
    <3>2. QED
      BY <3>1, <2>4, <2>6, <2>7, <1>1 DEF SessionShape
  <2>9. Captured'
    <3>1. total' = Len(sunk') /\ n = Len(sunk')
      BY <2>4, <1>1 DEF n
    <3>2. total' <= Len(sunk')
      BY <3>1, <2>4
    <3>3. QED
      BY <3>1, <3>2, <2>6, <2>7, <1>1 DEF Captured
  <2>10. QED
    BY <2>8, <2>9, <1>1, <1>2
<1>6. QED
  BY <1>4, <1>5

\* The larger half of a number is at most one more than the rest.
LEMMA HalfProperties ==
    ASSUME NEW w \in Nat
    PROVE  Half(w) \in Nat /\ Half(w) <= w /\ w - Half(w) \in {Half(w), Half(w) - 1}
  BY DEF Half

\* The excerpt is made of what the capture holds.
LEMMA ValueFits ==
    ASSUME SInv, consumer = "ending", limit > 0
    PROVE  LET n == Len(sunk)
               m == Smaller(MarkerSize, limit)
           IN /\ Value \in Seq(Characters)
              /\ n <= limit => Value = sunk
              /\ n > limit =>
                  /\ Len(Value) = limit
                  /\ \E h \in 0..limit :
                         LET t == limit - m - h
                         IN /\ t \in {h, h - 1}
                            /\ \A k \in 1..h : Value[k] = sunk[k]
                            /\ \A k \in 1..m : Value[h+k] = Mark
                            /\ \A k \in 1..t : Value[h+m+k] = sunk[n-t+k]
<1> DEFINE n == Len(sunk)
           m == Smaller(MarkerSize, limit)
           h == Half(limit - m)
           t == limit - m - h
<1>1. /\ limit \in Nat /\ MarkerSize \in Nat /\ n \in Nat /\ total = n
      /\ head \in Seq(Characters) /\ tail \in Seq(Characters)
      /\ sunk \in Seq(Characters)
      /\ Len(head) = Smaller(limit, n)
      /\ \A k \in 1..Len(head) : head[k] = sunk[k]
      /\ Len(tail) = Smaller(limit, n)
      /\ \A k \in 1..Len(tail) : tail[k] = sunk[n - Len(tail) + k]
  BY LimitsAssumption DEF SInv, SessionShape, Captured
<1>2. m \in Nat /\ m <= limit
  BY <1>1 DEF Smaller
<1>3. h \in Nat /\ t \in Nat /\ t \in {h, h-1} /\ h + m + t = limit
  <2>1. limit - m \in Nat
    BY <1>1, <1>2
  <2> HIDE DEF n, m
  <2>2. /\ h \in Nat /\ h <= limit - m
        /\ (limit - m) - h \in {h, h - 1}
    BY <2>1, HalfProperties
  <2>3. QED
    BY <1>1, <1>2, <2>2
<1> HIDE DEF n, m
<1>4. CASE n <= limit
  <2>1. Value = head
    BY <1>1, <1>4 DEF Value
  <2>2. Len(head) = Len(sunk)
    BY <1>1, <1>4 DEF Smaller, n
  <2>3. head = sunk
    BY <1>1, <2>2, SeqEqual
  <2>4. QED
    BY <1>1, <1>4, <2>1, <2>3 DEF n
<1>5. CASE ~(n <= limit)
  <2> DEFINE a == First(head, h)
             b == [i \in 1..m |-> Mark]
             c == Last(tail, t)
  <2>1. Len(head) = limit /\ Len(tail) = limit
    BY <1>1, <1>5 DEF Smaller
  <2>2. Value = a \o b \o c
    BY <1>1, <1>5 DEF Value, m
  <2> HIDE DEF h, t
  <2>3. h <= limit /\ t <= limit /\ Smaller(h, limit) = h /\ Smaller(t, limit) = t
    BY <1>1, <1>2, <1>3 DEF Smaller
  <2>4. /\ a \in Seq(Characters) /\ Len(a) = h
        /\ \A k \in 1..h : a[k] = head[k]
    <3>1. /\ First(head, h) \in Seq(Characters)
          /\ Len(First(head, h)) = Smaller(h, Len(head))
          /\ \A k \in 1..Smaller(h, Len(head)) : First(head, h)[k] = head[k]
      BY <1>1, <1>3, FirstProperties
    <3>2. QED
      BY <3>1, <2>1, <2>3
  <2>5. /\ c \in Seq(Characters) /\ Len(c) = t
        /\ \A k \in 1..t : c[k] = tail[limit - t + k]
    <3>1. /\ Last(tail, t) \in Seq(Characters)
          /\ Len(Last(tail, t)) = Smaller(t, Len(tail))
          /\ \A k \in 1..Smaller(t, Len(tail)) :
                 Last(tail, t)[k] = tail[Len(tail) - Smaller(t, Len(tail)) + k]
      BY <1>1, <1>3, LastProperties
    <3>2. QED
      BY <3>1, <2>1, <2>3
  <2>6. b \in Seq(Characters) /\ Len(b) = m /\ \A k \in 1..m : b[k] = Mark
    <3>1. b \in [1..m -> Characters]
      BY DEF Characters
    <3>2. b \in Seq(Characters)
      BY <3>1, <1>2, SeqDef
    <3>3. QED
      BY <3>2, <1>2
  <2> HIDE DEF a, b, c
  <2>7. /\ Value \in Seq(Characters) /\ Len(Value) = h + m + t
        /\ \A k \in 1..h : Value[k] = a[k]
        /\ \A k \in 1..m : Value[h + k] = b[k]
        /\ \A k \in 1..t : Value[h + m + k] = c[k]
    <3>1. /\ Value \in Seq(Characters)
          /\ Len(Value) = Len(a) + Len(b) + Len(c)
          /\ \A k \in 1..Len(a) : Value[k] = a[k]
          /\ \A k \in 1..Len(b) : Value[Len(a) + k] = b[k]
          /\ \A k \in 1..Len(c) : Value[Len(a) + Len(b) + k] = c[k]
      <4>1. a \in Seq(Characters) /\ b \in Seq(Characters) /\ c \in Seq(Characters)
        BY <2>4, <2>5, <2>6
      <4>2. QED
        BY ONLY <4>1, <2>2, ConcatThree
    <3>2. Len(a) = h /\ Len(b) = m /\ Len(c) = t
      BY <2>4, <2>5, <2>6
    <3>3. QED
      BY <3>1, <3>2
  <2>10. Value \in Seq(Characters) /\ Len(Value) = limit
    BY <2>7, <1>3
  <2>11. ASSUME NEW k \in 1..h
         PROVE  Value[k] = sunk[k]
    <3>1. k \in 1..Len(head)
      BY <1>1, <1>3, <2>1, <2>3
    <3>2. Value[k] = a[k] /\ a[k] = head[k]
      BY <2>4, <2>7
    <3>3. head[k] = sunk[k]
      BY <3>1, <1>1
    <3>4. QED
      BY <3>2, <3>3
  <2>12. ASSUME NEW k \in 1..m
         PROVE  Value[h+k] = Mark
    BY <2>6, <2>7
  <2>13. ASSUME NEW k \in 1..t
         PROVE  Value[h+m+k] = sunk[n-t+k]
    <3>1. /\ limit - t + k \in 1..limit
          /\ n - limit + (limit - t + k) = n - t + k
      <4>1. k \in Nat /\ k >= 1 /\ k <= t /\ n \in Nat /\ limit \in Nat
        BY <1>1, <1>3
      <4>2. QED
        BY <4>1, <1>3, <2>3
    <3>2. Value[h+m+k] = c[k] /\ c[k] = tail[limit - t + k]
      BY <2>5, <2>7
    <3>3. tail[limit - t + k] = sunk[n - limit + (limit - t + k)]
      BY <3>1, <2>1, <1>1
    <3>4. QED
      BY <3>1, <3>2, <3>3
  <2>14. h \in 0..limit /\ limit - m - h = t
    BY <1>1, <1>2, <1>3, <2>3
  <2>15. QED
    BY <1>5, <2>10, <2>11, <2>12, <2>13, <2>14, <1>3 DEF n, m
<1>6. QED
  BY <1>4, <1>5

\* What the call resolves to.
LEMMA ReturnInv == SInv /\ IInv' /\ Return => SInv'
<1> SUFFICES ASSUME SInv, IInv', Return PROVE SInv'
  OBVIOUS
<1>1. /\ consumer = "ending" /\ consumer' = "returned"
      /\ UNCHANGED <<gen, produced, yielded, limit, cuts, sunk, head, tail, total>>
      /\ yielded \in Nat /\ limit \in Nat
  BY LimitsAssumption, MaxChunksAssumption
  DEF SInv, IInv, TypeOK, SessionShape, Return, captureVars, vars
<1>2. result' = [full |-> IF limit > 0 THEN Value ELSE <<>>,
                 hasOutput |-> yielded > 0, error |-> gen = "threw"]
  BY DEF Return
<1>3. limit > 0 => Value \in Seq(Characters)
  BY <1>1, ValueFits
<1>4. result' \in [full: Seq(Characters), hasOutput: BOOLEAN, error: BOOLEAN]
  <2>1. (IF limit > 0 THEN Value ELSE <<>>) \in Seq(Characters)
    BY <1>3
  <2>2. QED
    BY <1>2, <2>1
<1>5. SessionShape'
  BY <1>1, <1>4 DEF SInv, SessionShape
<1>6. CutsGrow'
  BY <1>1 DEF SInv, CutsGrow, CutAt
<1>7. LoopStages'
  <2>1. /\ result'.error <=> gen = "threw"
        /\ result'.hasOutput <=> yielded > 0
    BY <1>2
  <2>2. QED
    BY <1>1, <2>1 DEF SInv, LoopStages
<1>8. Captured'
  BY <1>1 DEF SInv, Captured, Chunk, CutAt
<1>9. ExcerptFits'
  <2>1. CASE limit > 0
    <3>1. result'.full = Value
      BY <2>1, <1>2
    <3>2. QED
      BY <1>1, <2>1, <3>1, ValueFits DEF ExcerptFits
  <2>2. CASE ~(limit > 0)
    BY <1>1, <2>2 DEF ExcerptFits
  <2>3. QED
    BY <2>1, <2>2
<1>10. Sunk'
  BY <1>1 DEF SInv, Sunk, Broken, CutAt
<1>11. QED
  BY <1>5, <1>6, <1>7, <1>8, <1>9, <1>10 DEF SInv

\* Steps of the loop that touch neither text nor capture.
LEMMA LeaveInv == SInv /\ IInv' /\ (LeaveLoop \/ SinkBreaks) => SInv'
<1> SUFFICES ASSUME SInv, IInv', LeaveLoop \/ SinkBreaks PROVE SInv'
  OBVIOUS
<1>1. /\ UNCHANGED <<gen, produced, yielded, limit, cuts, sunk, head, tail,
                     total, result>>
      /\ \/ consumer = "pulling" /\ consumer' = "ending"
            /\ gen \in {"finished", "threw"}
         \/ consumer' = "crashed"
  BY DEF LeaveLoop, SinkBreaks, captureVars, vars
<1>2. SessionShape'
  BY <1>1 DEF SInv, SessionShape
<1>3. CutsGrow'
  BY <1>1 DEF SInv, CutsGrow, CutAt
<1>4. LoopStages'
  BY <1>1 DEF SInv, LoopStages
<1>5. Captured'
  BY <1>1 DEF SInv, Captured, Chunk, CutAt
<1>6. Sunk'
  BY <1>1 DEF SInv, Sunk, Broken, CutAt
<1>7. QED
  BY <1>1, <1>2, <1>3, <1>4, <1>5, <1>6 DEF SInv

\* Every step preserves the invariant.
LEMMA SessionNextInv == SInv /\ [SessionNext]_allVars => SInv'
<1> SUFFICES ASSUME SInv, [SessionNext]_allVars PROVE SInv'
  OBVIOUS
<1>1. IInv'
  BY SessionStepIsCallStep, NextIInv DEF SInv
<1> USE <1>1
<1>2. CASE SessionLaunches \/ GeneratorStep
  <2>1. consumer = "pulling" /\ UNCHANGED sessionVars
    BY <1>2 DEF SessionLaunches, GeneratorStep, Pulled
  <2>2. UNCHANGED <<produced, yielded>>
    BY <1>2 DEF SessionLaunches, GeneratorStep, Pulled, Launches, LaunchThrows,
                Launch, LaunchWithoutPipe, Rethrow, EndOfOutput, Settle
  <2>3. QED
    BY <2>1, <2>2, QuietStep
<1>3. CASE EventStep
  <2>1. /\ UNCHANGED sessionVars /\ UNCHANGED <<produced, yielded>>
        /\ gen' = gen \/ gen = "nopipe"
    BY <1>3 DEF EventStep, Background, UnheardError, OnClose, AfterClose,
                OnError
  <2>2. consumer \in {"ending", "returned"} => gen' = gen
    BY <2>1 DEF SInv, LoopStages
  <2>3. QED
    BY <2>1, <2>2, QuietStep
<1>4. CASE LoopStep
  BY <1>4, ReceiveInv, CaptureInv, LeaveInv, ReturnInv DEF LoopStep
<1>5. CASE Background(TimeoutFires) \/ Background(ForceKillFires)
  <2>1. UNCHANGED sessionVars /\ UNCHANGED <<gen, produced, yielded>>
    BY <1>5 DEF Background, TimeoutFires, ForceKillFires
  <2>2. QED
    BY <2>1, QuietStep
<1>6. CASE WriteChunk
  BY <1>6, WriteChunkInv
<1>7. CASE Group(WorkerForks) \/ Group(LeaderEnds) \/ Group(WorkerEnds)
  <2>1. UNCHANGED sessionVars /\ UNCHANGED <<gen, produced, yielded>>
    BY <1>7 DEF Group, WorkerForks, LeaderEnds, WorkerEnds
  <2>2. QED
    BY <2>1, QuietStep
<1>8. CASE SinkBreaks
  BY <1>8, LeaveInv
<1>9. CASE Finished \/ UNCHANGED allVars
  <2>1. UNCHANGED sessionVars /\ UNCHANGED <<gen, produced, yielded>>
    BY <1>9 DEF Finished, allVars, vars
  <2>2. QED
    BY <2>1, QuietStep
<1>10. QED
  BY <1>2, <1>3, <1>4, <1>5, <1>6, <1>7, <1>8, <1>9 DEF SessionNext

\* The invariant holds throughout.
THEOREM SessionInvariance == SessionSpec => []SInv
  BY SessionInitInv, SessionNextInv, PTL DEF SessionSpec
-----------------------------------------------------------------------------
\* The state keeps its shape: the capture never outgrows its limit.
THEOREM SessionTypeCorrect == SessionSpec => []SessionTypeOK
<1>1. SInv => SessionTypeOK
  BY DEF SInv, IInv, SessionShape, SessionTypeOK
<1>2. QED
  BY <1>1, SessionInvariance, PTL

\* A call that resolves, with an error or not, has brought the sink every
\* character but those the chunks broke, in order; its excerpt is the text of
\* the sink, or its beginning and its end around the marker in exactly the
\* limit's length; and the caller knows whether there was any output: a
\* generator that is over has handed out every chunk.
THEOREM ResultsAreFaithful == SessionSpec => []ResultIsFaithful
<1>1. SInv => ResultIsFaithful
  <2> SUFFICES ASSUME SInv, consumer = "returned" PROVE ResultIsFaithful
    BY DEF ResultIsFaithful
  <2>1. yielded = produced
    BY DEF SInv, LoopStages, IInv, Endings
  <2>2. SinkHasAll
    BY <2>1 DEF SInv, Sunk, SinkHasAll
  <2>3. result.hasOutput <=> produced > 0
    BY <2>1 DEF SInv, LoopStages
  <2>4. QED
    BY <2>2, <2>3 DEF SInv, ResultIsFaithful
<1>2. QED
  BY <1>1, SessionInvariance, PTL

\* The session implements ProviderCall: what the caller is told is earned,
\* and comes when nothing of the call runs any more.
THEOREM SessionProtocolHolds == SessionSpec => SessionProtocol
<1>1. SessionInit => SessionCall!Init
  BY DEF SessionInit, Init, SessionCall!Init, SessionAnswer, Crashed
<1>2. SInv /\ [SessionNext]_allVars => [SessionCall!Next]_(SessionCall!vars)
  <2> SUFFICES ASSUME SInv, [SessionNext]_allVars
               PROVE  SessionCall!Next
    BY DEF SessionCall!vars
  <2>1. CASE Return
    <3>1. /\ consumer = "ending" /\ consumer' = "returned"
          /\ UNCHANGED <<child, sent, gen>>
      BY <2>1 DEF Return, vars
    <3>2. result'.error = (gen = "threw")
      BY <2>1 DEF Return
    <3>3. gen = "finished" => child = "zero"
      BY DEF SInv, IInv, Endings, Closings
    <3>4. gen \in {"finished", "threw"} => child # "live"
      BY DEF SInv, IInv, TypeOK, Stages, Closings, Endings, Quiet, PipeHeld,
             Outcomes
    <3>5. gen \in {"finished", "threw"}
      BY <3>1 DEF SInv, LoopStages
    <3>6. SessionAnswer = "none"
      BY <3>1, <3>5 DEF SessionAnswer, Crashed
    <3>7. SessionAnswer' = IF gen = "threw" THEN "failed" ELSE "ok"
      <4>1. SessionAnswer' = IF result'.error THEN "failed" ELSE "ok"
        BY <3>1, <3>5 DEF SessionAnswer, Crashed
      <4>2. CASE gen = "threw"
        BY <4>1, <4>2, <3>2
      <4>3. CASE gen # "threw"
        BY <4>1, <4>3, <3>2
      <4>4. QED
        BY <4>2, <4>3
    <3>8. QED
      BY <3>1, <3>3, <3>4, <3>5, <3>6, <3>7
      DEF SessionCall!Next, SessionCall!Process, SessionCall!Answer
  <2>2. CASE SinkBreaks \/ (UnheardError /\ UNCHANGED sessionVars)
    BY <2>2 DEF SinkBreaks, UnheardError, sessionVars, groupVars, vars, SessionAnswer,
                Crashed, SInv, LoopStages, SessionCall!Next, SessionCall!Process,
                SessionCall!Answer
  <2>3. CASE SessionAnswer' = SessionAnswer
    <3>1. Call!Process
      BY SessionStepIsCallStep, CallStep DEF SInv, Call!Next
    <3>2. ASSUME Call!Start
          PROVE  SessionAnswer = "none"
      <4>1. child = "none" /\ child' # child /\ CallAnswer = "none"
        BY <3>2 DEF Call!Start
      <4>2. gen \notin {"finished", "threw", "crashed"}
        BY <4>1 DEF CallAnswer
      <4>3. consumer # "returned"
        BY <4>2 DEF SInv, LoopStages
      <4>4. consumer # "crashed"
        BY <4>1
        DEF SessionNext, SessionLaunches, GeneratorStep, EventStep, LoopStep,
            Pulled, Background, Running, Group, Receive, Capture, LeaveLoop,
            Return, WriteChunk, Writes, WorkerForks, LeaderEnds, WorkerEnds,
            SinkBreaks, Finished, allVars, vars, groupVars
      <4>5. QED
        BY <4>2, <4>3, <4>4 DEF SessionAnswer, Crashed
    <3>3. QED
      BY <2>3, <3>1, <3>2
      DEF Call!Process, Call!Start, Call!Terminate, Call!Kill, Call!Exit,
          Call!Ended, SessionCall!Next, SessionCall!Process, SessionCall!Start,
          SessionCall!Terminate, SessionCall!Kill, SessionCall!Exit,
          SessionCall!Ended
  <2>4. CASE \/ SessionLaunches \/ GeneratorStep
             \/ EventStep /\ ~UnheardError
             \/ Background(TimeoutFires) \/ Background(ForceKillFires)
             \/ WriteChunk \/ Group(WorkerForks) \/ Group(LeaderEnds)
             \/ Group(WorkerEnds) \/ Finished \/ UNCHANGED allVars
    <3>1. UNCHANGED <<consumer, result>>
      BY <2>4 DEF SessionLaunches, GeneratorStep, EventStep, Pulled, Background,
                  WriteChunk, Group, Finished, allVars, sessionVars
    <3>2. gen' = "crashed" <=> gen = "crashed"
      BY <2>4
      DEF SessionLaunches, GeneratorStep, EventStep, Pulled, Background,
          WriteChunk, Group, Finished, allVars, vars, Launches, LaunchThrows,
          Launch, LaunchWithoutPipe, Rethrow, EndOfOutput, Settle, OnClose,
          AfterClose, OnError, TimeoutFires, ForceKillFires, Writes,
          WorkerForks, LeaderEnds, WorkerEnds
    <3>3. QED
      BY <3>1, <3>2, <2>3 DEF SessionAnswer, Crashed
  <2>5. CASE Receive \/ Capture \/ LeaveLoop
    <3>1. /\ gen' = gen /\ consumer \in {"pulling", "writing"}
          /\ consumer' \in {"pulling", "writing", "ending"}
      BY <2>5 DEF Receive, Yield, Capture, LeaveLoop, vars
    <3>2. QED
      BY <3>1, <2>3 DEF SessionAnswer, Crashed
  <2>6. CASE EventStep /\ UnheardError
    BY <2>6, <2>2 DEF EventStep, Background
  <2>7. QED
    BY <2>1, <2>2, <2>4, <2>5, <2>6 DEF SessionNext, LoopStep
<1>3. QED
  BY <1>1, <1>2, SessionInvariance, PTL
  DEF SessionSpec, SessionProtocol, SessionCall!Spec
=============================================================================
