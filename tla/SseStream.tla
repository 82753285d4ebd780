----------------------------- MODULE SseStream -----------------------------
(***************************************************************************)
(* The body of stream_job (src/src/run.rs 305-367): the upstream's         *)
(* response arrives in network chunks that know nothing of lines or        *)
(* characters; stream_job decodes each chunk, collects it in `buf`, drains *)
(* the complete lines and turns them into chunk frames and a verdict.      *)
(* PullLoop has the same job as a single await; sends always succeed here. *)
(*                                                                         *)
(* A byte is a member of a small alphabet:                                 *)
(*   "nl" "cr"       line feed, carriage return                            *)
(*   "a" "b"         one-byte characters of a delta's content              *)
(*   "x1" "x2"       the two bytes of the two-byte character "x"           *)
(*   "?"             U+FFFD, three bytes, which only decoding produces     *)
(* and a line starts with a byte that stands for its framing:              *)
(*   "D"  `data:` with choices[0].delta.content, the text that follows     *)
(*   "B1" the same, and a `usage` (number 1) next to `choices`             *)
(*   "U1" "U2"  `data:` with a usage and no content                        *)
(*   "F"  `data: [DONE]`                                                   *)
(*   "O"  `data:` with anything else;  "C" a line without `data:`          *)
(***************************************************************************)
EXTENDS Integers, Sequences, SequencesExt

CONSTANTS
  Streams,       \* the response bodies considered
  MaxChunk,      \* longest network chunk (a bound of the model)
  MaxSseBuffer,  \* limits::MAX_SSE_BUFFER_BYTES
  MaxJobOutput,  \* limits::MAX_JOB_OUTPUT_BYTES
  NoUsage        \* `{}`

ASSUME SseAssumption ==
  MaxChunk \in Nat \ {0} /\ MaxSseBuffer \in Nat /\ MaxJobOutput \in Nat

Bytes == {"nl", "cr", "a", "b", "x1", "x2", "D", "B1", "U1", "U2", "F", "O", "C"}
Chars == (Bytes \ {"x1", "x2"}) \union {"x", "?"}

ASSUME StreamsAssumption == Streams \subseteq Seq(Bytes)

VARIABLES
  pc,       \* "read": awaiting the next chunk, "drain", or "ended"
  stream,   \* the whole response body
  arrived,  \* how many of its bytes were received
  buf,      \* decoded text without a line feed yet
  total,    \* total_out
  usage,    \* final_usage, NoUsage for None
  chunks,   \* deltas of the chunk frames sent
  verdict   \* "none", "done", or why the job_error was sent

vars == <<pc, stream, arrived, buf, total, usage, chunks, verdict>>

-----------------------------------------------------------------------------
\* The sum of a sequence of numbers.
Total(ns) ==
  LET upTo[i \in 0..Len(ns)] == IF i = 0 THEN 0 ELSE upTo[i - 1] + ns[i]
  IN  upTo[Len(ns)]

\* The elements of S among 1..n, in order.
InOrder(S, n) ==
  LET upTo[i \in 0..n] == IF i = 0 THEN << >>
                          ELSE IF i \in S THEN Append(upTo[i - 1], i)
                          ELSE upTo[i - 1]
  IN  upTo[n]

Width(c) == CASE c = "x" -> 2 [] c = "?" -> 3 [] OTHER -> 1
ByteLen(text) == Total([i \in 1..Len(text) |-> Width(text[i])])
ByteLens(texts) == Total([i \in 1..Len(texts) |-> ByteLen(texts[i])])

\* String::from_utf8_lossy of a slice: a character cut at its edge is lost.
from_utf8_lossy(bytes) ==
  LET First(i) == bytes[i] = "x1" /\ i < Len(bytes) /\ bytes[i + 1] = "x2"
      starts == {i \in 1..Len(bytes) : ~ (i > 1 /\ First(i - 1))}
      at == InOrder(starts, Len(bytes))
  IN  [k \in 1..Len(at) |-> IF First(at[k]) THEN "x"
                            ELSE IF bytes[at[k]] \in {"x1", "x2"} THEN "?"
                            ELSE bytes[at[k]]]

\* trim_end_matches(['\r', '\n'])
TrimEnd(line) ==
  SubSeq(line, 1, Max({0} \union {i \in 1..Len(line) : line[i] # "cr"}))

\* parse_sse_line: content is looked at before usage.
parse_sse_line(line) ==
  CASE line[1] \in {"D", "B1"} -> [kind |-> "Delta", text |-> Tail(line)]
    [] line[1] \in {"U1", "U2"} -> [kind |-> "Usage", usage |-> line[1]]
    [] line = <<"F">>           -> [kind |-> "Done"]
    [] OTHER                    -> [kind |-> "Other"]

TypeOK ==
  /\ pc \in {"read", "drain", "ended"}
  /\ stream \in Seq(Bytes) /\ arrived \in 0..Len(stream)
  /\ buf \in Seq(Chars)
  /\ total \in Nat
  /\ usage \in {NoUsage, "B1", "U1", "U2"}
  /\ chunks \in Seq(Seq(Chars) \ {<< >>})
  /\ verdict \in {"none", "done", "upstream stream error",
                  "upstream produced an oversized line",
                  "job exceeded output size limit"}
  /\ verdict # "none" <=> pc = "ended"

Init ==
  /\ pc = "read"
  /\ stream \in Streams
  /\ arrived = 0
  /\ buf = << >>
  /\ total = 0
  /\ usage = NoUsage
  /\ chunks = << >>
  /\ verdict = "none"

End(v) == pc' = "ended" /\ verdict' = v

\* Mutants of ReadChunk: what was left in the buffer is lost; the buffer has
\* no limit.
ReadChunkAnew ==
  /\ pc = "read"
  /\ \E n \in 1..MaxChunk :
       /\ arrived + n <= Len(stream)
       /\ arrived' = arrived + n
       /\ buf' = from_utf8_lossy(SubSeq(stream, arrived + 1, arrived + n))
  /\ pc' = "drain"
  /\ UNCHANGED <<stream, total, usage, chunks, verdict>>

ReadChunkUnlimited ==
  /\ pc = "read"
  /\ \E n \in 1..MaxChunk :
       /\ arrived + n <= Len(stream)
       /\ arrived' = arrived + n
       /\ buf' = buf \o from_utf8_lossy(SubSeq(stream, arrived + 1, arrived + n))
  /\ pc' = "drain"
  /\ UNCHANGED <<stream, total, usage, chunks, verdict>>

\* stream.next() yields bytes; the buffer is checked before it is drained.
ReadChunk ==
  /\ pc = "read"
  /\ \E n \in 1..MaxChunk :
       /\ arrived + n <= Len(stream)
       /\ arrived' = arrived + n
       /\ buf' = buf \o from_utf8_lossy(SubSeq(stream, arrived + 1, arrived + n))
  /\ IF ByteLen(buf') > MaxSseBuffer
     THEN End("upstream produced an oversized line")
     ELSE pc' = "drain" /\ UNCHANGED verdict
  /\ UNCHANGED <<stream, total, usage, chunks>>

ReadFails ==
  /\ pc = "read"
  /\ End("upstream stream error")
  /\ UNCHANGED <<stream, arrived, buf, total, usage, chunks>>

\* The stream ends without [DONE]: an unfinished line in buf is dropped.
ReadEnds ==
  /\ pc = "read"
  /\ arrived = Len(stream)
  /\ End("done")
  /\ UNCHANGED <<stream, arrived, buf, total, usage, chunks>>

HasLine == \E i \in 1..Len(buf) : buf[i] = "nl"
LineEnd == Min({i \in 1..Len(buf) : buf[i] = "nl"})
Line == TrimEnd(SubSeq(buf, 1, LineEnd - 1))

\* One turn of the drain loop takes a line off the buffer.
TakeLine ==
  /\ pc = "drain"
  /\ HasLine
  /\ buf' = SubSeq(buf, LineEnd + 1, Len(buf))
  /\ UNCHANGED <<stream, arrived>>

\* A line that produces nothing: empty, Other, None or an empty delta.
SkipLine ==
  /\ TakeLine
  /\ \/ Line = << >>
     \/ /\ Line # << >>
        /\ \/ parse_sse_line(Line).kind = "Other"
           \/ /\ parse_sse_line(Line).kind = "Delta"
              /\ parse_sse_line(Line).text = << >>
  /\ UNCHANGED <<pc, total, usage, chunks, verdict>>

\* Mutants of DeltaLine: empty deltas are sent; the line is counted instead of
\* its content.
SendsEmptyDeltas ==
  /\ TakeLine
  /\ Line # << >> /\ parse_sse_line(Line).kind = "Delta"
  /\ chunks' = Append(chunks, parse_sse_line(Line).text)
  /\ UNCHANGED <<pc, total, usage, verdict>>

CountsWholeLines ==
  /\ TakeLine
  /\ Line # << >>
  /\ LET e == parse_sse_line(Line)
     IN  /\ e.kind = "Delta" /\ e.text # << >>
         /\ total' = total + ByteLen(Line)
         /\ IF total' > MaxJobOutput
            THEN End("job exceeded output size limit") /\ UNCHANGED chunks
            ELSE chunks' = Append(chunks, e.text) /\ UNCHANGED <<pc, verdict>>
  /\ UNCHANGED usage

DeltaLine ==
  /\ TakeLine
  /\ Line # << >>
  /\ LET e == parse_sse_line(Line)
     IN  /\ e.kind = "Delta" /\ e.text # << >>
         /\ total' = total + ByteLen(e.text)
         /\ IF total' > MaxJobOutput
            THEN End("job exceeded output size limit") /\ UNCHANGED chunks
            ELSE chunks' = Append(chunks, e.text) /\ UNCHANGED <<pc, verdict>>
  /\ UNCHANGED usage

\* Mutant of UsageLine: the first usage wins.
KeepsFirstUsage ==
  /\ TakeLine
  /\ Line # << >>
  /\ parse_sse_line(Line).kind = "Usage"
  /\ usage' = IF usage = NoUsage THEN parse_sse_line(Line).usage ELSE usage
  /\ UNCHANGED <<pc, total, chunks, verdict>>

UsageLine ==
  /\ TakeLine
  /\ Line # << >>
  /\ parse_sse_line(Line).kind = "Usage"
  /\ usage' = parse_sse_line(Line).usage
  /\ UNCHANGED <<pc, total, chunks, verdict>>

DoneLine ==
  /\ TakeLine
  /\ Line # << >>
  /\ parse_sse_line(Line).kind = "Done"
  /\ End("done")
  /\ UNCHANGED <<total, usage, chunks>>

NoMoreLines ==
  /\ pc = "drain"
  /\ ~ HasLine
  /\ pc' = "read"
  /\ UNCHANGED <<stream, arrived, buf, total, usage, chunks, verdict>>

Next ==
  \/ ReadChunk \/ ReadFails \/ ReadEnds
  \/ SkipLine \/ DeltaLine \/ UsageLine \/ DoneLine \/ NoMoreLines

Spec == Init /\ [][Next]_vars

-----------------------------------------------------------------------------
\* What the response means, whatever the chunk boundaries: the lines that end
\* at a line feed, up to [DONE], and what they carry.
LineAt(text, n) ==
  LET from == Max({0} \union {m \in 1..n - 1 : text[m] = "nl"})
  IN  TrimEnd(SubSeq(text, from + 1, n - 1))

Ends(text) == {n \in 1..Len(text) : text[n] = "nl"}
LiveEnds(text) ==
  {n \in Ends(text) : \A m \in Ends(text) : m <= n => LineAt(text, m) # <<"F">>}
DeltaEnds(text) ==
  {n \in LiveEnds(text) : Len(LineAt(text, n)) > 1 /\ LineAt(text, n)[1] \in {"D", "B1"}}
UsageEnds(text) ==
  {n \in LiveEnds(text) : LineAt(text, n) # << >> /\ LineAt(text, n)[1] \in {"B1", "U1", "U2"}}

DeltasUpTo(text, n) ==
  LET at == InOrder(DeltaEnds(text), n)
  IN  [k \in 1..Len(at) |-> Tail(LineAt(text, at[k]))]
UsageUpTo(text, n) ==
  LET at == InOrder(UsageEnds(text), n)
  IN  IF at = << >> THEN NoUsage ELSE LineAt(text, Last(at))[1]

\* An unfinished last line is a line of the response too.
Finished(text) == text = << >> \/ text[Len(text)] = "nl"
Closed(text) == IF Finished(text) THEN text ELSE Append(text, "nl")

Response == from_utf8_lossy(stream)
Deltas == LET text == Closed(Response) IN DeltasUpTo(text, Len(text))
LastUsage == LET text == Closed(Response) IN UsageUpTo(text, Len(text))
HasDone == LET text == Response IN \E n \in Ends(text) : LineAt(text, n) = <<"F">>

(***************************************************************************)
(* However the network cuts the response, the chunk frames are the deltas  *)
(* of the response in order, without a gap, a repetition or a piece of a   *)
(* line (run.rs 305-307, 331-353).                                         *)
(***************************************************************************)
ChunksFollowTheResponse == IsPrefix(chunks, Deltas)

(***************************************************************************)
(* What `done` means (run.rs 355-367).  A response that has [DONE] or ends *)
(* with its last line finished was sent completely, and the usage reported *)
(* is its last one, unless that one came beside a content, which is where  *)
(* parse_sse_line does not look for it (protocol.rs 131-139).  A response  *)
(* that breaks off in a line has lost at most the delta of that line.      *)
(***************************************************************************)
DoneIsComplete ==
  verdict = "done" =>
    /\ Finished(Response) \/ HasDone =>
         chunks = Deltas /\ (LastUsage # "B1" => usage = LastUsage)
    /\ Len(Deltas) <= Len(chunks) + 1

(***************************************************************************)
(* NX-4: between two reads the buffer holds at most the limit and no       *)
(* complete line, during the drain never more than one network chunk above *)
(* it; and what was sent stays within the output limit (limits.rs 55-62).  *)
(***************************************************************************)
MemoryIsBounded ==
  /\ ByteLen(buf) <= MaxSseBuffer + 3 * MaxChunk
  /\ pc = "read" => ByteLen(buf) <= MaxSseBuffer /\ ~ HasLine
  /\ ByteLens(chunks) <= MaxJobOutput

\* The part of the buffer that was there before the chunk that overran it.
Stretch == MaxSseBuffer + 1 - MaxChunk

(***************************************************************************)
(* A response is only given up for a reason that is in it: the output      *)
(* limit error means that the deltas really exceed the limit, the oversize *)
(* error that some line does not fit beside one network chunk.             *)
(***************************************************************************)
NoSpuriousAbort ==
  /\ verdict = "job exceeded output size limit" =>
       ByteLens(Deltas) > MaxJobOutput
  /\ verdict = "upstream produced an oversized line" =>
       \E i \in 0..(arrived - Stretch) :
         \A k \in i+1..i+Stretch : stream[k] # "nl"

(***************************************************************************)
(* tests/loop_test.rs 226: "chunk deltas must reassemble the upstream      *)
(* content".  The same statement as ChunksFollowTheResponse, checked where *)
(* the content is not ASCII.                                               *)
(***************************************************************************)
DeltasReassemble == ChunksFollowTheResponse
=============================================================================
