-------------------------- MODULE JobAnswerProofs --------------------------
(***************************************************************************)
(* JobAnswer keeps its promise for every set of jobs and every limit.      *)
(***************************************************************************)
EXTENDS JobAnswer, TLAPS

\* What is assumed of the constants; PullLoop has assumptions of its own that
\* imply it.
Sizes == NoJob \notin Jobs /\ MaxJobOutput \in Nat /\ DeltaSizes \subseteq Nat

AllChunks(s) == \A i \in 1..Len(s) : s[i] = "chunk"

\* The answer of the job in service, by the stage it has reached.
StageInv ==
  /\ stage = "none" <=> current = NoJob
  /\ current # NoJob => current \in taken
  /\ stage = "streaming" => AllChunks(answer[current])
  /\ stage = "ended" =>
       LET s == answer[current] IN
         /\ Len(s) > 0 /\ s[Len(s)] \in Terminal
         /\ \A i \in 1..Len(s) : i < Len(s) => s[i] = "chunk"
  /\ stage = "overruled" => HasTerminal(answer[current])

Inv == TypeOK /\ StageInv /\ AnswersInTurn

LEMMA ChunkIsNotTerminal == "chunk" \notin Terminal
BY DEF Terminal

LEMMA AppendedAnswer ==
  ASSUME NEW s \in Seq(FrameKinds), NEW f \in FrameKinds
  PROVE  /\ Append(s, f) \in Seq(FrameKinds)
         /\ Len(Append(s, f)) = Len(s) + 1
         /\ Append(s, f)[Len(s) + 1] = f
         /\ \A i \in 1..Len(s) : Append(s, f)[i] = s[i]
         /\ Len(s) \in Nat
OBVIOUS

LEMMA InitInv == Sizes /\ Init => Inv
BY DEF Sizes, Init, Inv, TypeOK, StageInv, AnswersInTurn, Orderly, HasTerminal

LEMMA TakeInv == ASSUME Sizes, Inv, NEW j \in Jobs, Take(j) PROVE Inv'
BY DEF Sizes, Take, Inv, TypeOK, StageInv, AnswersInTurn, Orderly, HasTerminal,
       AllChunks

LEMMA ChunkInv == ASSUME Sizes, Inv, NEW n \in DeltaSizes, Chunk(n) PROVE Inv'
<1> DEFINE s == answer[current]
           t == answer'[current]
<1>1. /\ current \in Jobs /\ current \in taken
      /\ s \in Seq(FrameKinds) /\ AllChunks(s)
      /\ t = Append(s, "chunk") /\ "chunk" \in FrameKinds
      /\ \A k \in Jobs \ {current} : answer'[k] = answer[k]
  BY DEF Sizes, Chunk, Queue, Inv, TypeOK, StageInv, FrameKinds
<1>2. AllChunks(t) /\ t \in Seq(FrameKinds)
  BY <1>1, AppendedAnswer DEF AllChunks
<1>3. Orderly(t)
  BY <1>2, ChunkIsNotTerminal DEF AllChunks, Orderly
<1>4. TypeOK'
  BY <1>1, <1>2 DEF Sizes, Chunk, Queue, Inv, TypeOK
<1>5. StageInv'
  BY <1>1, <1>2 DEF Chunk, Inv, StageInv
<1>6. AnswersInTurn'
  BY <1>1, <1>3 DEF Sizes, Chunk, Inv, TypeOK, AnswersInTurn
<1> QED
  BY <1>4, <1>5, <1>6 DEF Inv

LEMMA EndInv == ASSUME Sizes, Inv, NEW f \in Terminal, End(f) PROVE Inv'
<1> DEFINE s == answer[current]
           t == answer'[current]
<1>1. /\ current \in Jobs /\ current \in taken
      /\ s \in Seq(FrameKinds) /\ AllChunks(s)
      /\ t = Append(s, f) /\ f \in FrameKinds
      /\ \A k \in Jobs \ {current} : answer'[k] = answer[k]
  BY DEF Sizes, End, Queue, Inv, TypeOK, StageInv, FrameKinds
<1>2. /\ t \in Seq(FrameKinds) /\ Len(t) > 0 /\ t[Len(t)] \in Terminal
      /\ \A i \in 1..Len(t) : i < Len(t) => t[i] = "chunk"
  BY <1>1, AppendedAnswer DEF AllChunks
<1>3. Orderly(t)
  BY <1>2, ChunkIsNotTerminal DEF Orderly
<1>4. TypeOK'
  BY <1>1, <1>2 DEF End, Queue, Inv, TypeOK
<1>5. StageInv'
  BY <1>1, <1>2 DEF End, Inv, StageInv
<1>6. AnswersInTurn'
  BY <1>1, <1>3 DEF End, Inv, TypeOK, AnswersInTurn
<1> QED
  BY <1>4, <1>5, <1>6 DEF Inv

LEMMA OverruleInv == ASSUME Sizes, Inv, Overrule PROVE Inv'
<1> DEFINE s == answer[current]
           t == answer'[current]
<1>1. /\ current \in Jobs /\ current \in taken
      /\ s \in Seq(FrameKinds)
      /\ \A i \in 1..Len(s) : i < Len(s) => s[i] = "chunk"
      /\ t = Append(s, "job_error") /\ "job_error" \in FrameKinds
      /\ \A k \in Jobs \ {current} : answer'[k] = answer[k]
  BY DEF Sizes, Overrule, Queue, Inv, TypeOK, StageInv, FrameKinds, Terminal, AllChunks
<1>2. /\ t \in Seq(FrameKinds) /\ Len(t) = Len(s) + 1
      /\ t[Len(t)] = "job_error"
      /\ \A i \in 1..Len(t) : i < Len(t) - 1 => t[i] = "chunk"
  BY <1>1, AppendedAnswer
<1>3. Orderly(t) /\ HasTerminal(t)
  BY <1>2, ChunkIsNotTerminal DEF Orderly, HasTerminal, Terminal
<1>4. TypeOK'
  BY <1>1, <1>2 DEF Overrule, Queue, Inv, TypeOK
<1>5. StageInv'
  BY <1>1, <1>3 DEF Overrule, Inv, StageInv
<1>6. AnswersInTurn'
  BY <1>1, <1>3 DEF Overrule, Inv, TypeOK, AnswersInTurn
<1> QED
  BY <1>4, <1>5, <1>6 DEF Inv

LEMMA ReleaseInv == ASSUME Sizes, Inv, Release PROVE Inv'
<1>1. HasTerminal(answer[current])
  BY DEF Release, Inv, StageInv, HasTerminal, TypeOK
<1> QED
  BY <1>1 DEF Release, Inv, TypeOK, StageInv, AnswersInTurn

LEMMA DropInv == ASSUME Sizes, Inv, Drop PROVE Inv'
BY DEF Sizes, Drop, Inv, TypeOK, StageInv, AnswersInTurn, Orderly, HasTerminal

(***************************************************************************)
(* In every behaviour: jobs answered in turn, in good order, within the    *)
(* limit.                                                                  *)
(***************************************************************************)
THEOREM AnswersAlwaysInTurn ==
  ASSUME Sizes PROVE Spec => [](TypeOK /\ AnswersInTurn)
<1>1. Init => Inv
  BY InitInv
<1>2. Inv /\ [Next]_vars => Inv'
  <2> SUFFICES ASSUME Inv, [Next]_vars PROVE Inv'
    OBVIOUS
  <2>1. CASE \E j \in Jobs : Take(j)
    BY <2>1, TakeInv
  <2>2. CASE \E n \in DeltaSizes : Chunk(n)
    BY <2>2, ChunkInv
  <2>3. CASE \E f \in Terminal : End(f)
    BY <2>3, EndInv
  <2>4. CASE Overrule
    BY <2>4, OverruleInv
  <2>5. CASE Release
    BY <2>5, ReleaseInv
  <2>6. CASE Drop
    BY <2>6, DropInv
  <2>7. CASE UNCHANGED vars
    BY <2>7 DEF vars, Inv, TypeOK, StageInv, AnswersInTurn
  <2> QED
    BY <2>1, <2>2, <2>3, <2>4, <2>5, <2>6, <2>7 DEF Next
<1>3. Inv => TypeOK /\ AnswersInTurn
  BY DEF Inv
<1> QED
  BY <1>1, <1>2, <1>3, PTL DEF Spec
=============================================================================
