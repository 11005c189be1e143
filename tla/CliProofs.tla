----------------------------- MODULE CliProofs -----------------------------
(***************************************************************************)
(* Proofs about module Cli, for buffers and pipes of every size and texts  *)
(* of every length: the exit status tells what was delivered, results and  *)
(* diagnostics keep to their streams, and the form follows the flag.       *)
(***************************************************************************)
EXTENDS Cli, SequenceTheorems, TLAPS

-----------------------------------------------------------------------------
\* Documents.

IsDocument(doc) ==
  /\ doc.stream \in Streams
  /\ doc.status \in {Success, 2}
  /\ doc.chunks \in Seq({"text", "line"})
  /\ Len(doc.chunks) > 0 /\ doc.chunks[Len(doc.chunks)] = "line"
  /\ doc.stream = "stdout" => doc.form = "json" \/ doc.status = Success
  /\ doc.stream = "stderr" => doc.form = "human" /\ doc.status = 2

\* Chunks in either form are a sequence that ends with a newline.
LEMMA ChunksEndWithLine ==
  ASSUME NEW form, NEW n \in Nat
  PROVE  /\ Chunks(form, n) \in Seq({"text", "line"})
         /\ Len(Chunks(form, n)) > 0
         /\ Chunks(form, n)[Len(Chunks(form, n))] = "line"
<1> DEFINE Chunk == {"text", "line"}
<1>1. Texts(n) \in Seq(Chunk) /\ Len(Texts(n)) = n
  BY DEF Texts
<1>2. /\ JsonChunks(n) \in Seq(Chunk) /\ Len(JsonChunks(n)) = n + 1
      /\ JsonChunks(n)[n + 1] = "line"
  BY <1>1, AppendProperties DEF JsonChunks
<1>3. /\ HumanChunks(n) \in Seq(Chunk) /\ Len(HumanChunks(n)) = n + 3
      /\ HumanChunks(n)[n + 3] = "line"
  <2> DEFINE line == <<"line">>
  <2>1. line \in Seq(Chunk) /\ Len(line) = 1 /\ line[1] = "line"
    OBVIOUS
  <2>2. HumanChunks(n) = (line \o JsonChunks(n)) \o line
    BY DEF HumanChunks
  <2> HIDE DEF line
  <2>3. line \o JsonChunks(n) \in Seq(Chunk) /\ Len(line \o JsonChunks(n)) = n + 2
    BY <1>2, <2>1, ConcatProperties
  <2> DEFINE start == line \o JsonChunks(n)
  <2> HIDE DEF start
  <2>4. start \o line \in Seq(Chunk) /\ Len(start \o line) = n + 3 /\ (start \o line)[n + 3] = line[1]
    BY <2>1, <2>3, ConcatProperties DEF start
  <2> QED BY <2>1, <2>2, <2>4 DEF start
<1> QED BY <1>2, <1>3 DEF Chunks

\* Every document goes to one of the streams, in the form that stream is for,
\* and ends with a newline.
LEMMA DocumentsAreDocuments ==
  ASSUME NEW doc \in Documents, doc # NoDocument
  PROVE  IsDocument(doc)
<1>1. CASE doc = Display
  <2>1. /\ HelpChunks \in Seq({"text", "line"}) /\ Len(HelpChunks) > 0
        /\ HelpChunks[Len(HelpChunks)] = "line"
    BY DEF HelpChunks
  <2>2. doc.chunks = HelpChunks /\ doc.stream = "stdout" /\ doc.status = Success
    BY <1>1 DEF Display
  <2> QED BY <2>1, <2>2 DEF IsDocument, Streams
<1>2. ASSUME NEW a \in Argv, NEW json \in BOOLEAN, doc = Report(a, json)
      PROVE  IsDocument(doc)
  <2>1. a.size \in Nat
    BY CliAssumption DEF Argv
  <2>2. doc.chunks = Chunks(Form(json), a.size) /\ doc.stream = "stdout" /\ doc.status = Success
    BY <1>2 DEF Report
  <2> QED BY <2>1, <2>2, ChunksEndWithLine DEF IsDocument, Streams
<1>3. ASSUME NEW a \in Argv, NEW json \in BOOLEAN, doc = Diagnostic(a, json)
      PROVE  IsDocument(doc)
  <2>1. a.size \in Nat
    BY CliAssumption DEF Argv
  <2>2. /\ doc.chunks = Chunks(Form(json), a.size) /\ doc.status = 2 /\ doc.form = Form(json)
        /\ doc.stream = IF json THEN "stdout" ELSE "stderr"
    BY <1>3 DEF Diagnostic
  <2> QED BY <2>1, <2>2, ChunksEndWithLine DEF IsDocument, Streams, Form
<1> QED BY <1>1, <1>2, <1>3 DEF Documents

-----------------------------------------------------------------------------
\* The inductive invariant.

\* Before there is a document nothing has been written.
BeforeWriting ==
  pc \in {"parse", "execute"} =>
    /\ document = NoDocument
    /\ next = 1 /\ buffer = 0
    /\ \A s \in Streams : sent[s] = 0

AfterParsing ==
  pc \notin {"parse", "execute"} => IsDocument(document)

\* While it is written every chunk that was taken has left or is in the buffer.
WhileWriting ==
  pc \in {"write", "spill", "flush"} =>
    /\ next \in 1 .. Len(document.chunks) + 1
    /\ sent[document.stream] + buffer = next - 1
    /\ document.stream = "stdout" => sent["stderr"] = 0

\* A flush goes on until the buffer is empty, so nothing waits behind a newline.
FlushesAreWhole ==
  /\ pc = "spill" => next =< Len(document.chunks)
  /\ pc \in {"spill", "flush"} => document.stream = "stdout" /\ buffer > 0
  /\ pc = "flush" => next > 1
  /\ pc = "write" /\ next > 1 /\ document.chunks[next - 1] = "line" => buffer = 0

\* Standard error has no buffer, and nothing of its documents goes elsewhere.
StderrIsDirect ==
  document.stream = "stderr" => buffer = 0 /\ sent["stdout"] = 0

\* The complaint is for a document whose stream broke.
ComplaintIsDue ==
  pc = "complain" =>
    /\ Broken(document.stream)
    /\ document.stream = "stdout" => sent["stderr"] = 0

\* What the status says holds from then on, because the buffer is empty, or
\* because a stream that broke stays broken.
Verdict ==
  IF pc \in {"cleanup", "exited"}
  THEN /\ \/ status = document.status /\ IsDelivered(document) /\ buffer = 0
          \/ status = Success /\ sink[document.stream] = "closed"
          \/ status = Failure /\ Broken(document.stream)
       /\ document.stream = "stdout" /\ sent["stderr"] > 0 =>
            status = Failure /\ sent["stderr"] = 1
  ELSE status = NoStatus

CliInv ==
  /\ TypeOK /\ FormFollowsFlag
  /\ BeforeWriting /\ AfterParsing /\ WhileWriting
  /\ FlushesAreWhole /\ StderrIsDirect /\ ComplaintIsDue /\ Verdict

\* A process starts with nothing written.
LEMMA InitInv == Init => CliInv
<1> SUFFICES ASSUME Init PROVE CliInv
  OBVIOUS
<1>1. TypeOK
  BY CliAssumption DEF Init, TypeOK, Places, Documents, SinkStates, Streams, NoStatus
<1>2. FormFollowsFlag /\ StderrIsDirect
  BY DEF Init, FormFollowsFlag, StderrIsDirect, NoDocument
<1>3. BeforeWriting /\ AfterParsing /\ WhileWriting
  BY DEF Init, BeforeWriting, AfterParsing, WhileWriting
<1>4. FlushesAreWhole /\ ComplaintIsDue /\ Verdict
  BY DEF Init, FlushesAreWhole, ComplaintIsDue, Verdict
<1> QED BY <1>1, <1>2, <1>3, <1>4 DEF CliInv

\* A document that is chosen is written from its first chunk on.
LEMMA StartWritingInv ==
  ASSUME CliInv, pc \in {"parse", "execute"}, NEW doc \in Documents, doc # NoDocument,
         StartWriting(doc),
         doc.form \in {"json", "human"} =>
           (argv.json = "flag" => doc.form = "json") /\ (argv.json = "absent" => doc.form = "human")
  PROVE  CliInv'
<1>1. TypeOK'
  BY DEF CliInv, TypeOK, StartWriting, environment, Places
<1>2. FormFollowsFlag'
  BY DEF StartWriting, environment, FormFollowsFlag
<1>3. IsDocument(doc)
  BY DocumentsAreDocuments
<1>4. BeforeWriting' /\ AfterParsing'
  BY <1>3 DEF StartWriting, BeforeWriting, AfterParsing
<1>5. next = 1 /\ buffer = 0 /\ sent["stdout"] = 0 /\ sent["stderr"] = 0
  BY DEF CliInv, BeforeWriting, Streams
<1>6. WhileWriting'
  <2>1. Len(doc.chunks) \in Nat /\ doc.stream \in {"stdout", "stderr"}
    BY <1>3 DEF IsDocument, Streams
  <2> QED BY <1>5, <2>1 DEF StartWriting, WhileWriting
<1>7. FlushesAreWhole' /\ StderrIsDirect' /\ ComplaintIsDue'
  BY <1>5 DEF StartWriting, FlushesAreWhole, StderrIsDirect, ComplaintIsDue
<1>8. Verdict'
  BY DEF CliInv, StartWriting, Verdict
<1> QED BY <1>1, <1>2, <1>4, <1>6, <1>7, <1>8 DEF CliInv

\* The steps before the first write keep the invariant,
LEMMA ParseInv ==
  ASSUME CliInv, ParseDisplay \/ ParseUsageError \/ ParseMatches \/ Execute
  PROVE  CliInv'
<1>0. argv \in Argv /\ WantsJson(argv) \in BOOLEAN /\ JsonFlag(argv) \in BOOLEAN
  BY DEF CliInv, TypeOK, WantsJson, JsonFlag
<1>1. CASE ParseDisplay
  <2>1. Display \in Documents /\ Display.form = "plain" /\ NoDocument.form = "none"
    BY DEF Documents, Display, NoDocument
  <2> QED BY <1>1, <2>1, StartWritingInv DEF ParseDisplay
<1>2. CASE ParseUsageError
  <2> DEFINE doc == Diagnostic(argv, WantsJson(argv))
  <2>1. doc \in Documents /\ doc.form = Form(WantsJson(argv))
    BY <1>0 DEF Documents, Diagnostic
  <2>2. doc # NoDocument
    BY <2>1 DEF Form, NoDocument
  <2> HIDE DEF doc
  <2> QED BY <1>2, <2>1, <2>2, StartWritingInv DEF ParseUsageError, doc, Form, WantsJson
<1>3. CASE ParseMatches
  BY <1>3 DEF CliInv, ParseMatches, environment, TypeOK, Places, FormFollowsFlag, BeforeWriting,
              AfterParsing, WhileWriting, FlushesAreWhole, StderrIsDirect, ComplaintIsDue,
              Verdict
<1>4. CASE Execute
  <2> DEFINE json == JsonFlag(argv)
             doc  == IF IsInvalid(argv) THEN Diagnostic(argv, json) ELSE Report(argv, json)
  <2>1. doc \in Documents /\ doc.form = Form(json)
    BY <1>0 DEF Documents, Diagnostic, Report
  <2>2. doc # NoDocument
    BY <2>1 DEF Form, NoDocument
  <2> HIDE DEF doc
  <2> QED BY <1>4, <2>1, <2>2, StartWritingInv DEF Execute, doc, Form, JsonFlag
<1> QED BY <1>1, <1>2, <1>3, <1>4

\* What the invariant says of a process that writes.
LEMMA WritingFacts ==
  ASSUME CliInv, pc \in {"write", "spill", "flush"}
  PROVE  /\ IsDocument(document) /\ document.stream \in {"stdout", "stderr"}
         /\ Len(document.chunks) \in Nat
         /\ next \in 1 .. Len(document.chunks) + 1
         /\ buffer \in 0 .. BufferSize /\ BufferSize \in Nat
         /\ sent \in [Streams -> Nat] /\ sent["stdout"] \in Nat /\ sent["stderr"] \in Nat
         /\ sent[document.stream] + buffer = next - 1
         /\ document.stream = "stdout" => sent["stderr"] = 0
         /\ document.stream = "stderr" => buffer = 0 /\ sent["stdout"] = 0
         /\ status = NoStatus
BY CliAssumption DEF CliInv, AfterParsing, IsDocument, Streams, TypeOK, WhileWriting, StderrIsDirect,
                     Verdict

\* and so does a chunk that fits into the buffer,
LEMMA BufferInv == CliInv /\ Buffer => CliInv'
<1> SUFFICES ASSUME CliInv, Buffer PROVE CliInv'
  OBVIOUS
<1>1. pc = "write" /\ document.stream = "stdout" /\ next =< Len(document.chunks)
  BY DEF Buffer, Writing
<1>2. /\ pc' = (IF document.chunks[next] = "line" THEN "flush" ELSE "write")
      /\ buffer' = buffer + 1 /\ next' = next + 1 /\ buffer < BufferSize
      /\ UNCHANGED <<document, sent, status, argv, read, sink>>
  BY DEF Buffer, environment
<1>3. TypeOK'
  BY <1>1, <1>2, WritingFacts DEF CliInv, TypeOK, Places
<1>4. WhileWriting'
  <2>1. next' \in 1 .. Len(document'.chunks) + 1
    BY <1>1, <1>2, WritingFacts
  <2>2. sent'[document'.stream] + buffer' = next' - 1
    <3>1. sent["stdout"] + buffer = next - 1
      BY <1>1, WritingFacts
    <3>2. sent'[document'.stream] = sent["stdout"]
      BY <1>1, <1>2
    <3>3. buffer \in Nat /\ next \in Nat /\ sent["stdout"] \in Nat
      BY <1>1, WritingFacts
    <3> QED BY <1>2, <3>1, <3>2, <3>3
  <2> QED BY <1>1, <1>2, <2>1, <2>2, WritingFacts DEF WhileWriting
<1>5. FlushesAreWhole'
  BY <1>1, <1>2, WritingFacts DEF FlushesAreWhole
<1>6. FormFollowsFlag' /\ BeforeWriting' /\ AfterParsing' /\ StderrIsDirect' /\ ComplaintIsDue'
  BY <1>1, <1>2, WritingFacts DEF CliInv, FormFollowsFlag, BeforeWriting, AfterParsing,
                                  StderrIsDirect, ComplaintIsDue
<1>7. Verdict'
  BY <1>1, <1>2, WritingFacts DEF Verdict
<1> QED BY <1>3, <1>4, <1>5, <1>6, <1>7 DEF CliInv

\* the write that makes room for one,
LEMMA MakeRoomInv == CliInv /\ MakeRoom => CliInv'
<1> SUFFICES ASSUME CliInv, MakeRoom PROVE CliInv'
  OBVIOUS
<1>1. /\ pc = "write" /\ document.stream = "stdout" /\ next =< Len(document.chunks)
      /\ buffer = BufferSize /\ pc' = "spill"
      /\ UNCHANGED <<document, next, buffer, sent, status, argv, read, sink>>
  BY DEF MakeRoom, Writing, environment
<1>2. TypeOK'
  BY <1>1 DEF CliInv, TypeOK, Places
<1>3. WhileWriting' /\ StderrIsDirect' /\ ComplaintIsDue' /\ Verdict'
  BY <1>1, WritingFacts DEF WhileWriting, StderrIsDirect, ComplaintIsDue, Verdict
<1>4. FlushesAreWhole'
  BY <1>1, CliAssumption DEF FlushesAreWhole
<1>5. FormFollowsFlag' /\ BeforeWriting' /\ AfterParsing'
  BY <1>1, WritingFacts DEF CliInv, FormFollowsFlag, BeforeWriting, AfterParsing
<1> QED BY <1>2, <1>3, <1>4, <1>5 DEF CliInv

\* the flush of a line,
LEMMA FlushInv == CliInv /\ Flush => CliInv'
<1> SUFFICES ASSUME CliInv, Flush PROVE CliInv'
  OBVIOUS
<1>1. pc \in {"spill", "flush"} /\ document.stream = "stdout" /\ buffer > 0
  BY DEF Flush, CliInv, FlushesAreWhole
<1>2. /\ pc' = (IF buffer = 1 THEN "write" ELSE pc) /\ buffer' = buffer - 1
      /\ sent' = [sent EXCEPT !["stdout"] = @ + 1]
      /\ UNCHANGED <<document, next, status, argv, read, sink>>
  BY DEF Flush, Send, environment
<1>3. sent' \in [Streams -> Nat] /\ sent'["stdout"] = sent["stdout"] + 1 /\ sent'["stderr"] = 0
  BY <1>1, <1>2, WritingFacts DEF Streams
<1>4. TypeOK'
  BY <1>1, <1>2, <1>3, WritingFacts DEF CliInv, TypeOK, Places
<1>5. WhileWriting'
  BY <1>1, <1>2, <1>3, WritingFacts DEF WhileWriting
<1>6. FlushesAreWhole'
  BY <1>1, <1>2, WritingFacts DEF CliInv, FlushesAreWhole
<1>7. FormFollowsFlag' /\ BeforeWriting' /\ AfterParsing' /\ StderrIsDirect' /\ ComplaintIsDue'
  BY <1>1, <1>2, WritingFacts DEF CliInv, FormFollowsFlag, BeforeWriting, AfterParsing,
                                  StderrIsDirect, ComplaintIsDue
<1>8. Verdict'
  BY <1>1, <1>2, WritingFacts DEF Verdict
<1> QED BY <1>4, <1>5, <1>6, <1>7, <1>8 DEF CliInv

\* a chunk that goes to stderr,
LEMMA SendToStderrInv == CliInv /\ SendToStderr => CliInv'
<1> SUFFICES ASSUME CliInv, SendToStderr PROVE CliInv'
  OBVIOUS
<1>1. pc = "write" /\ document.stream = "stderr" /\ next =< Len(document.chunks)
  BY DEF SendToStderr, Writing
<1>2. /\ pc' = pc /\ next' = next + 1
      /\ sent' = [sent EXCEPT !["stderr"] = @ + 1]
      /\ UNCHANGED <<document, buffer, status, argv, read, sink>>
  BY DEF SendToStderr, Send, environment
<1>3. /\ sent' \in [Streams -> Nat] /\ sent'["stderr"] = sent["stderr"] + 1
      /\ sent'["stdout"] = sent["stdout"]
  BY <1>1, <1>2, WritingFacts DEF Streams
<1>4. TypeOK'
  BY <1>1, <1>2, <1>3, WritingFacts DEF CliInv, TypeOK, Places
<1>5. WhileWriting' /\ StderrIsDirect' /\ FlushesAreWhole'
  BY <1>1, <1>2, <1>3, WritingFacts DEF WhileWriting, StderrIsDirect, FlushesAreWhole
<1>6. FormFollowsFlag' /\ BeforeWriting' /\ AfterParsing' /\ ComplaintIsDue' /\ Verdict'
  BY <1>1, <1>2, WritingFacts DEF CliInv, FormFollowsFlag, BeforeWriting, AfterParsing,
                                  ComplaintIsDue, Verdict
<1> QED BY <1>4, <1>5, <1>6 DEF CliInv

\* The end of a document was flushed with its last newline.
LEMMA FinishOkInv == CliInv /\ FinishOk => CliInv'
<1> SUFFICES ASSUME CliInv, FinishOk PROVE CliInv'
  OBVIOUS
<1>1. /\ pc = "write" /\ next > Len(document.chunks)
      /\ pc' = "cleanup" /\ status' = document.status
      /\ UNCHANGED <<document, next, buffer, sent, argv, read, sink>>
  BY DEF FinishOk, Exit, environment
<1>2. next = Len(document.chunks) + 1 /\ next > 1 /\ document.chunks[next - 1] = "line"
  BY <1>1, WritingFacts DEF IsDocument
<1>3. buffer = 0
  BY <1>1, <1>2 DEF CliInv, FlushesAreWhole
<1>4. TypeOK'
  BY <1>1, WritingFacts DEF CliInv, TypeOK, Places, IsDocument
<1>5. Verdict'
  <2>1. sent[document.stream] = Len(document.chunks)
    BY <1>1, <1>2, <1>3, WritingFacts DEF Streams
  <2>2. document.stream = "stdout" => ~ (sent["stderr"] > 0)
    BY <1>1, WritingFacts
  <2> QED BY <1>1, <1>3, <2>1, <2>2 DEF Verdict, IsDelivered
<1>6. FormFollowsFlag' /\ BeforeWriting' /\ AfterParsing' /\ WhileWriting' /\ FlushesAreWhole'
      /\ StderrIsDirect' /\ ComplaintIsDue'
  BY <1>1, WritingFacts DEF CliInv, FormFollowsFlag, BeforeWriting, AfterParsing, WhileWriting,
                            FlushesAreWhole, StderrIsDirect, ComplaintIsDue
<1> QED BY <1>4, <1>5, <1>6 DEF CliInv

\* The write that failed was to the document's own stream.
LEMMA OwnStreamBroke ==
  ASSUME CliInv, WriteFails
  PROVE  /\ pc \in {"write", "spill", "flush"}
         /\ Broken(document.stream)
         /\ ErrorKind = "BrokenPipe" => sink[document.stream] = "closed"
BY DEF CliInv, WriteFails, FlushesAreWhole, Writing, ErrorKind

\* the end on a broken pipe,
LEMMA FinishBrokenPipeInv == CliInv /\ FinishBrokenPipe => CliInv'
<1> SUFFICES ASSUME CliInv, FinishBrokenPipe PROVE CliInv'
  OBVIOUS
<1>1. /\ WriteFails /\ ErrorKind = "BrokenPipe"
      /\ pc' = "cleanup" /\ status' = Success
      /\ UNCHANGED <<document, next, buffer, sent, argv, read, sink>>
  BY DEF FinishBrokenPipe, Exit, environment
<1>2. pc \in {"write", "spill", "flush"} /\ sink[document.stream] = "closed"
  BY <1>1, OwnStreamBroke
<1>3. TypeOK'
  BY <1>1 DEF CliInv, TypeOK, Places
<1>4. Verdict'
  BY <1>1, <1>2, WritingFacts DEF Verdict
<1>5. FormFollowsFlag' /\ BeforeWriting' /\ AfterParsing' /\ WhileWriting' /\ FlushesAreWhole'
      /\ StderrIsDirect' /\ ComplaintIsDue'
  BY <1>1, <1>2, WritingFacts DEF CliInv, FormFollowsFlag, BeforeWriting, AfterParsing,
                                  WhileWriting, FlushesAreWhole, StderrIsDirect, ComplaintIsDue
<1> QED BY <1>3, <1>4, <1>5 DEF CliInv

\* the end on another error,
LEMMA FinishErrorInv == CliInv /\ FinishError => CliInv'
<1> SUFFICES ASSUME CliInv, FinishError PROVE CliInv'
  OBVIOUS
<1>1. /\ WriteFails
      /\ pc' = "complain"
      /\ UNCHANGED <<document, next, buffer, sent, status, argv, read, sink>>
  BY DEF FinishError, environment
<1>2. pc \in {"write", "spill", "flush"} /\ Broken(document.stream)
  BY <1>1, OwnStreamBroke
<1>3. TypeOK'
  BY <1>1 DEF CliInv, TypeOK, Places
<1>4. ComplaintIsDue'
  BY <1>1, <1>2, WritingFacts DEF ComplaintIsDue, Broken
<1>5. FormFollowsFlag' /\ BeforeWriting' /\ AfterParsing' /\ WhileWriting' /\ FlushesAreWhole'
      /\ StderrIsDirect' /\ Verdict'
  BY <1>1, <1>2, WritingFacts DEF CliInv, FormFollowsFlag, BeforeWriting, AfterParsing,
                                  WhileWriting, FlushesAreWhole, StderrIsDirect, Verdict
<1> QED BY <1>3, <1>4, <1>5 DEF CliInv

\* and the complaint about it.
LEMMA ComplainInv == CliInv /\ Complain => CliInv'
<1> SUFFICES ASSUME CliInv, Complain PROVE CliInv'
  OBVIOUS
<1>1. /\ pc = "complain" /\ pc' = "cleanup" /\ status' = Failure
      /\ \/ sink["stderr"] = "open" /\ sent' = [sent EXCEPT !["stderr"] = @ + 1]
         \/ UNCHANGED sent
      /\ UNCHANGED <<document, next, buffer, argv, read, sink>>
  BY DEF Complain, Exit, Accepts, Send, environment
<1>2. /\ IsDocument(document) /\ document.stream \in {"stdout", "stderr"}
      /\ Broken(document.stream)
      /\ document.stream = "stdout" => sent["stderr"] = 0
  BY <1>1 DEF CliInv, AfterParsing, IsDocument, Streams, ComplaintIsDue
<1>3. /\ sent' \in [Streams -> Nat] /\ sent'["stdout"] = sent["stdout"]
      /\ sent'["stderr"] \in {sent["stderr"], sent["stderr"] + 1}
  BY <1>1 DEF CliInv, TypeOK, Streams
<1>4. TypeOK'
  BY <1>1, <1>3 DEF CliInv, TypeOK, Places
<1>5. StderrIsDirect'
  BY <1>1, <1>3 DEF CliInv, StderrIsDirect
<1>6. Verdict'
  <2>1. Broken(document.stream)'
    BY <1>1, <1>2 DEF Broken
  <2>2. document.stream = "stdout" => sent'["stderr"] \in {0, 1}
    BY <1>2, <1>3
  <2> QED BY <1>1, <2>1, <2>2 DEF Verdict
<1>7. FormFollowsFlag' /\ BeforeWriting' /\ AfterParsing' /\ WhileWriting' /\ FlushesAreWhole'
      /\ ComplaintIsDue'
  BY <1>1, <1>2 DEF CliInv, FormFollowsFlag, BeforeWriting, AfterParsing, WhileWriting,
                    FlushesAreWhole, ComplaintIsDue
<1> QED BY <1>4, <1>5, <1>6, <1>7 DEF CliInv

\* What the runtime still writes on exit is not part of a document that counts
\* as delivered.
LEMMA CleanupInv == CliInv /\ Cleanup => CliInv'
<1> SUFFICES ASSUME CliInv, Cleanup PROVE CliInv'
  OBVIOUS
<1>1. pc = "cleanup" /\ UNCHANGED <<document, next, status, argv, read, sink>>
  BY DEF Cleanup, environment
<1>2. IsDocument(document) /\ document.stream \in {"stdout", "stderr"} /\ buffer \in 0 .. BufferSize
  BY <1>1 DEF CliInv, AfterParsing, IsDocument, Streams, TypeOK
<1>3. CASE /\ buffer > 0 /\ sent' = [sent EXCEPT !["stdout"] = @ + 1]
           /\ buffer' = buffer - 1 /\ pc' = pc
  <2>1. document.stream = "stdout"
    BY <1>2, <1>3 DEF CliInv, StderrIsDirect
  <2>2. sent' \in [Streams -> Nat] /\ sent'["stderr"] = sent["stderr"]
    BY <1>3 DEF CliInv, TypeOK, Streams
  <2>3. buffer' \in 0 .. BufferSize /\ BufferSize \in Nat
    BY <1>2, <1>3, CliAssumption
  <2>4. TypeOK'
    BY <1>1, <1>3, <2>2, <2>3 DEF CliInv, TypeOK, Places
  <2>5. Verdict'
    <3>1. \/ status = Success /\ sink[document.stream] = "closed"
          \/ status = Failure /\ Broken(document.stream)
      BY <1>1, <1>3 DEF CliInv, Verdict
    <3>2. document.stream = "stdout" /\ sent["stderr"] > 0 => status = Failure /\ sent["stderr"] = 1
      BY <1>1 DEF CliInv, Verdict
    <3> QED BY <1>1, <1>3, <2>2, <3>1, <3>2 DEF Verdict, Broken
  <2> QED BY <1>1, <1>3, <2>1, <2>4, <2>5
          DEF CliInv, FormFollowsFlag, BeforeWriting, AfterParsing, WhileWriting,
              FlushesAreWhole, StderrIsDirect, ComplaintIsDue
<1>4. CASE buffer' = 0 /\ pc' = "exited" /\ UNCHANGED sent
  <2>1. TypeOK'
    BY <1>1, <1>4, CliAssumption DEF CliInv, TypeOK, Places
  <2>2. Verdict'
    BY <1>1, <1>4 DEF CliInv, Verdict, IsDelivered, Broken
  <2> QED BY <1>1, <1>4, <2>1, <2>2
          DEF CliInv, FormFollowsFlag, BeforeWriting, AfterParsing, WhileWriting,
              FlushesAreWhole, StderrIsDirect, ComplaintIsDue
<1> QED BY <1>3, <1>4 DEF Cleanup, Send

\* A reader that takes a chunk changes nothing the process has said.
LEMMA ReadInv ==
  ASSUME CliInv, NEW s \in Streams, Read(s)
  PROVE  CliInv'
<1>1. /\ read' = [read EXCEPT ![s] = @ + 1]
      /\ UNCHANGED <<pc, argv, document, next, buffer, sent, sink, status>>
  BY DEF Read
<1>2. TypeOK'
  BY <1>1 DEF CliInv, TypeOK
<1> QED BY <1>1, <1>2
        DEF CliInv, FormFollowsFlag, BeforeWriting, AfterParsing, WhileWriting,
            FlushesAreWhole, StderrIsDirect, ComplaintIsDue, Verdict, Broken, IsDelivered

\* An end that breaks does so once: no other stream mends or changes.
LEMMA BreakInv ==
  ASSUME CliInv, NEW s \in Streams, Break(s)
  PROVE  CliInv'
<1>1. /\ sink[s] = "open"
      /\ \E state \in {"closed", "failed"} : sink' = [sink EXCEPT ![s] = state]
      /\ UNCHANGED <<pc, argv, document, next, buffer, sent, read, status>>
  BY DEF Break
<1>2. TypeOK'
  BY <1>1 DEF CliInv, TypeOK, SinkStates
<1>3. \A t \in Streams : sink[t] # "open" => sink'[t] = sink[t]
  BY <1>1 DEF CliInv, TypeOK
<1>4. pc \notin {"parse", "execute"} => document.stream \in Streams
  BY DEF CliInv, AfterParsing, IsDocument
<1>5. ComplaintIsDue'
  BY <1>1, <1>3, <1>4 DEF CliInv, ComplaintIsDue, Broken
<1>6. Verdict'
  BY <1>1, <1>3, <1>4 DEF CliInv, Verdict, Broken, IsDelivered
<1> QED BY <1>1, <1>2, <1>5, <1>6
        DEF CliInv, FormFollowsFlag, BeforeWriting, AfterParsing, WhileWriting,
            FlushesAreWhole, StderrIsDirect

\* So every step keeps it.
LEMMA StepInv == CliInv /\ [Next]_vars => CliInv'
<1>1. CliInv /\ UNCHANGED vars => CliInv'
  BY DEF vars, CliInv, TypeOK, FormFollowsFlag, BeforeWriting, AfterParsing, WhileWriting,
         FlushesAreWhole, StderrIsDirect, ComplaintIsDue, Verdict, Broken, IsDelivered
<1> QED BY <1>1, ParseInv, BufferInv, MakeRoomInv, FlushInv, SendToStderrInv, FinishOkInv,
           FinishBrokenPipeInv, FinishErrorInv, ComplainInv, CleanupInv, ReadInv, BreakInv
        DEF Next, Process

-----------------------------------------------------------------------------
\* What the invariant says to the caller.

\* The types of the process are kept, for documents of every length.
THEOREM TypeCorrect == Spec => []TypeOK
<1>1. CliInv => TypeOK
  BY DEF CliInv
<1> QED BY <1>1, InitInv, StepInv, PTL DEF Spec

\* Unless the other end broke, the exit status is the document's own and the
\* whole document has left the process when the status is decided, whatever the
\* sizes of buffer and pipe and whenever a reader leaves or a device fails.
THEOREM StatusIsTrue == Spec => []StatusTellsDelivery
<1>1. CliInv => StatusTellsDelivery
  BY DEF CliInv, Verdict, StatusTellsDelivery
<1> QED BY <1>1, InitInv, StepInv, PTL DEF Spec

\* No diagnostic for people is ever on standard output, and next to a result or
\* to JSON standard error has at most the one line of a failed write.
THEOREM StreamsStayApart == Spec => []StreamsAreApart
<1>1. CliInv => StreamsAreApart
  <2> SUFFICES ASSUME CliInv PROVE StreamsAreApart
    OBVIOUS
  <2>1. CASE pc \in {"parse", "execute"}
    BY <2>1 DEF CliInv, BeforeWriting, StreamsAreApart, Streams
  <2>2. CASE pc \notin {"parse", "execute"}
    <3>1. IsDocument(document) /\ document.stream \in {"stdout", "stderr"}
      BY <2>2 DEF CliInv, AfterParsing, IsDocument, Streams
    <3>2. CASE document.stream = "stderr"
      BY <3>1, <3>2 DEF CliInv, StderrIsDirect, IsDocument, StreamsAreApart
    <3>3. CASE document.stream = "stdout"
      <4>1. pc \in {"write", "spill", "flush", "complain"} => sent["stderr"] = 0
        BY <3>3 DEF CliInv, WhileWriting, ComplaintIsDue
      <4>2. pc \in {"cleanup", "exited"} =>
              (sent["stderr"] > 0 => status = Failure /\ sent["stderr"] = 1)
        BY <3>3 DEF CliInv, Verdict
      <4>3. pc \in {"write", "spill", "flush", "complain", "cleanup", "exited"}
        BY <2>2 DEF CliInv, TypeOK, Places
      <4> QED BY <3>1, <3>3, <4>1, <4>2, <4>3 DEF IsDocument, StreamsAreApart
    <3> QED BY <3>1, <3>2, <3>3
  <2> QED BY <2>1, <2>2
<1> QED BY <1>1, InitInv, StepInv, PTL DEF Spec

\* Usage errors and the actions agree on what --json asks for.
THEOREM FormIsAsked == Spec => []FormFollowsFlag
<1>1. CliInv => FormFollowsFlag
  BY DEF CliInv
<1> QED BY <1>1, InitInv, StepInv, PTL DEF Spec
=============================================================================
