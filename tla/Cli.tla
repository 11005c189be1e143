-------------------------------- MODULE Cli --------------------------------
(***************************************************************************)
(* One run of the remap process (crates/remap/src): parse the arguments,   *)
(* execute the action, write one document to one stream, exit.             *)
(*                                                                         *)
(* What a run tells its caller is the exit status and what has left the    *)
(* process on its two streams.  Standard output is a LineWriter: text      *)
(* stays in a buffer until a newline or until the buffer has no room.      *)
(* Standard error is unbuffered.  Behind each stream is a pipe of bounded  *)
(* size; its reader may close it, and a device may fail, at any moment.    *)
(*                                                                         *)
(* A document is a sequence of chunks: "text", and "line" for text that    *)
(* ends with a newline.  clap, serde_json and the standard library are     *)
(* external and modelled by what this code relies on.                      *)
(***************************************************************************)
EXTENDS Integers, Sequences

CONSTANTS
  BufferSize,   \* chunks that fit in the buffer of standard output
  PipeSize,     \* chunks that fit in a pipe
  Sizes         \* how many text chunks the caller's own text takes

ASSUME CliAssumption ==
  /\ BufferSize \in Nat \ {0}
  /\ PipeSize \in Nat \ {0}
  /\ Sizes \subseteq Nat \ {0}

VARIABLES
  pc,         \* where the process is
  argv,       \* its arguments
  document,   \* what it has to write, once known
  next,       \* the chunk being written
  buffer,     \* how many chunks standard output's buffer holds
  sent,       \* how many chunks have left the process on each stream
  read,       \* how many of them the reader has taken
  sink,       \* the state of each stream's other end
  status      \* the exit status, once decided

vars == <<pc, argv, document, next, buffer, sent, read, sink, status>>
environment == <<argv, read, sink>>

Streams    == {"stdout", "stderr"}
SinkStates == {"open", "closed", "failed"}
NoStatus   == -1
Success    == 0
Failure    == 1

-----------------------------------------------------------------------------
\* The arguments, classified by what the program tells apart.  --json is
\* absent, given as the flag, or a plain word after "--".

Argv ==
  {a \in [ask     : {"help", "nonsense", "doctor", "validate"},
          json    : {"absent", "flag", "word"},
          pattern : {"valid", "invalid"},
          target  : {"valid", "invalid"},
          size    : Sizes] :
     \* Only validate takes a name and a target, and the word is one of them.
     /\ a.ask # "validate" => a.pattern = "valid" /\ a.target = "valid"
     /\ a.ask = "validate" /\ a.json = "word" => "invalid" \in {a.pattern, a.target}}

\* clap: help and version are displayed; doctor takes no word.
ClapAnswer(a) ==
  CASE a.ask = "help"                        -> "display"
    [] a.ask = "nonsense"                    -> "error"
    [] a.ask = "doctor" /\ a.json = "word"   -> "error"
    [] OTHER                                 -> "matches"

WantsJson(a) == a.json # "absent"
JsonFlag(a)  == a.json = "flag"

-----------------------------------------------------------------------------
\* Documents.

Texts(n) == [i \in 1 .. n |-> "text"]

\* Variant of JsonChunks: the newline after the document is forgotten.
JsonChunksNoNewline(n) == Texts(n)

JsonChunks(n)  == Append(Texts(n), "line")
HumanChunks(n) == <<"line">> \o JsonChunks(n) \o <<"line">>
HelpChunks     == <<"line", "line">>

Form(json) == IF json THEN "json" ELSE "human"

Chunks(form, n) == IF form = "json" THEN JsonChunks(n) ELSE HumanChunks(n)

Display ==
  [stream |-> "stdout", form |-> "plain", status |-> Success, chunks |-> HelpChunks]

Report(a, json) ==
  [stream |-> "stdout", form |-> Form(json), status |-> Success,
   chunks |-> Chunks(Form(json), a.size)]

\* Variant of Diagnostic: JSON diagnostics go to standard error as well.
DiagnosticOnStderr(a, json) ==
  [stream |-> "stderr", form |-> Form(json), status |-> 2,
   chunks |-> Chunks(Form(json), a.size)]

\* Usage errors, invalid names and invalid targets have the same status.
Diagnostic(a, json) ==
  [stream |-> IF json THEN "stdout" ELSE "stderr", form |-> Form(json), status |-> 2,
   chunks |-> Chunks(Form(json), a.size)]

NoDocument == [stream |-> "stdout", form |-> "none", status |-> NoStatus, chunks |-> <<>>]

-----------------------------------------------------------------------------
Init ==
  /\ pc = "parse"
  /\ argv \in Argv
  /\ document = NoDocument
  /\ next = 1
  /\ buffer = 0
  /\ sent = [s \in Streams |-> 0]
  /\ read = [s \in Streams |-> 0]
  /\ sink = [s \in Streams |-> "open"]
  /\ status = NoStatus

StartWriting(doc) ==
  /\ pc' = "write"
  /\ document' = doc
  /\ UNCHANGED <<next, buffer, sent, status, environment>>

\* cli::parse returns Display or Failure, or an action to run.
ParseDisplay ==
  pc = "parse" /\ ClapAnswer(argv) = "display" /\ StartWriting(Display)

\* Variant of ParseUsageError: the words are not looked at for --json.
ParseUsageErrorHuman ==
  /\ pc = "parse"
  /\ ClapAnswer(argv) = "error"
  /\ StartWriting(Diagnostic(argv, FALSE))

ParseUsageError ==
  /\ pc = "parse"
  /\ ClapAnswer(argv) = "error"
  /\ StartWriting(Diagnostic(argv, WantsJson(argv)))

ParseMatches ==
  /\ pc = "parse"
  /\ ClapAnswer(argv) = "matches"
  /\ pc' = "execute"
  /\ UNCHANGED <<document, next, buffer, sent, status, environment>>

\* app::execute: the name is validated, then the target.
IsInvalid(a) == a.ask = "validate" /\ "invalid" \in {a.pattern, a.target}

Execute ==
  /\ pc = "execute"
  /\ StartWriting(IF IsInvalid(argv) THEN Diagnostic(argv, JsonFlag(argv))
                                     ELSE Report(argv, JsonFlag(argv)))

-----------------------------------------------------------------------------
\* The streams.

\* Variant of Broken: an error of the device is retried.
BrokenIfClosed(s) == sink[s] = "closed"

Broken(s)  == sink[s] # "open"
HasRoom(s) == sent[s] - read[s] < PipeSize
Accepts(s) == sink[s] = "open" /\ HasRoom(s)
Send(s)    == sent' = [sent EXCEPT ![s] = @ + 1]

Writing(s) == pc = "write" /\ document.stream = s /\ next =< Len(document.chunks)

\* Variant of Buffer: a chunk is taken whether there is room or not.
BufferAlways ==
  /\ Writing("stdout")
  /\ buffer' = buffer + 1
  /\ next' = next + 1
  /\ pc' = IF document.chunks[next] = "line" THEN "flush" ELSE "write"
  /\ UNCHANGED <<document, sent, status, environment>>

\* Standard output takes a chunk into its buffer, and flushes after a line.
Buffer ==
  /\ Writing("stdout")
  /\ buffer < BufferSize
  /\ buffer' = buffer + 1
  /\ next' = next + 1
  /\ pc' = IF document.chunks[next] = "line" THEN "flush" ELSE "write"
  /\ UNCHANGED <<document, sent, status, environment>>

\* Without room it flushes before it takes the chunk.
MakeRoom ==
  /\ Writing("stdout")
  /\ buffer = BufferSize
  /\ pc' = "spill"
  /\ UNCHANGED <<document, next, buffer, sent, status, environment>>

Flush ==
  /\ pc \in {"spill", "flush"}
  /\ Accepts("stdout")
  /\ Send("stdout")
  /\ buffer' = buffer - 1
  /\ pc' = IF buffer = 1 THEN "write" ELSE pc
  /\ UNCHANGED <<document, next, status, environment>>

SendToStderr ==
  /\ Writing("stderr")
  /\ Accepts("stderr")
  /\ Send("stderr")
  /\ next' = next + 1
  /\ UNCHANGED <<pc, document, buffer, status, environment>>

\* The kind of the error that finish_write sees: serde_json's writer wraps an
\* error of the stream, and io::Error::other gives the wrapped error its kind.
InSerializer == document.form = "json" /\ pc = "spill" /\ document.chunks[next] = "text"

ErrorKind ==
  IF InSerializer THEN "Other"
  ELSE IF sink[document.stream] = "closed" THEN "BrokenPipe" ELSE "StorageFull"

Exit(code) == status' = code /\ pc' = "cleanup"

\* finish_write.
FinishOk ==
  /\ pc = "write"
  /\ next > Len(document.chunks)
  /\ Exit(document.status)
  /\ UNCHANGED <<document, next, buffer, sent, environment>>

WriteFails ==
  \/ pc \in {"spill", "flush"} /\ Broken("stdout")
  \/ Writing("stderr") /\ Broken("stderr")

FinishBrokenPipe ==
  /\ WriteFails
  /\ ErrorKind = "BrokenPipe"
  /\ Exit(Success)
  /\ UNCHANGED <<document, next, buffer, sent, environment>>

FinishError ==
  /\ WriteFails
  /\ ErrorKind # "BrokenPipe"
  /\ pc' = "complain"
  /\ UNCHANGED <<document, next, buffer, sent, status, environment>>

\* One line on standard error; whether it is written does not matter.
Complain ==
  /\ pc = "complain"
  /\ \/ Accepts("stderr") /\ Send("stderr")
     \/ Broken("stderr") /\ UNCHANGED sent
  /\ Exit(Failure)
  /\ UNCHANGED <<document, next, buffer, environment>>

\* The runtime flushes standard output as the process exits, and ignores errors.
Cleanup ==
  /\ pc = "cleanup"
  /\ \/ /\ buffer > 0
        /\ Accepts("stdout")
        /\ Send("stdout")
        /\ buffer' = buffer - 1
        /\ pc' = pc
     \/ /\ buffer = 0 \/ Broken("stdout")
        /\ buffer' = 0
        /\ pc' = "exited"
        /\ UNCHANGED sent
  /\ UNCHANGED <<document, next, status, environment>>

-----------------------------------------------------------------------------
\* The other ends.

Read(s) ==
  /\ sink[s] = "open"
  /\ read[s] < sent[s]
  /\ read' = [read EXCEPT ![s] = @ + 1]
  /\ UNCHANGED <<pc, argv, document, next, buffer, sent, sink, status>>

Break(s) ==
  /\ sink[s] = "open"
  /\ \E state \in {"closed", "failed"} : sink' = [sink EXCEPT ![s] = state]
  /\ UNCHANGED <<pc, argv, document, next, buffer, sent, read, status>>

Process ==
  \/ ParseDisplay \/ ParseUsageError \/ ParseMatches \/ Execute
  \/ Buffer \/ MakeRoom \/ Flush \/ SendToStderr
  \/ FinishOk \/ FinishBrokenPipe \/ FinishError \/ Complain \/ Cleanup

Next == Process \/ \E s \in Streams : Read(s) \/ Break(s)

\* The process is scheduled, and a reader goes on reading or gives up: nothing
\* in the code bounds the time a write may block.
Fairness == WF_vars(Process) /\ \A s \in Streams : WF_vars(Read(s) \/ Break(s))

Spec == Init /\ [][Next]_vars /\ Fairness

-----------------------------------------------------------------------------
Places == {"parse", "execute", "write", "spill", "flush", "complain", "cleanup", "exited"}

Documents ==
  {NoDocument, Display} \cup {Report(a, json) : a \in Argv, json \in BOOLEAN}
    \cup {Diagnostic(a, json) : a \in Argv, json \in BOOLEAN}

TypeOK ==
  /\ pc \in Places
  /\ argv \in Argv
  /\ document \in Documents
  /\ next \in Nat \ {0}
  /\ buffer \in 0 .. BufferSize
  /\ sent \in [Streams -> Nat]
  /\ read \in [Streams -> Nat]
  /\ sink \in [Streams -> SinkStates]
  /\ status \in {NoStatus, Success, Failure, 2}

IsDelivered(doc) == sent[doc.stream] = Len(doc.chunks)

\* The exit status tells the truth about delivery, from the moment main decides
\* it: unless the other end broke, the status is the document's own and every
\* chunk of the document has left the process, none waiting for the runtime.
StatusTellsDelivery ==
  status # NoStatus =>
    \/ status = document.status /\ IsDelivered(document)
    \/ status = Success /\ sink[document.stream] = "closed"
    \/ status = Failure /\ Broken(document.stream)

\* Standard output carries results and JSON only; standard error carries human
\* diagnostics, and next to a result or to JSON only the line that says that the
\* output could not be written.
StreamsAreApart ==
  /\ sent["stdout"] + buffer > 0 => document.form = "json" \/ document.status = Success
  /\ sent["stderr"] > 0 =>
       \/ document.form = "human" /\ document.status = 2
       \/ status = Failure /\ sent["stderr"] = 1

\* The form follows the flag on every path that writes a result or a diagnostic,
\* although usage errors look at the raw words and the rest at clap's matches.
FormFollowsFlag ==
  document.form \in {"json", "human"} =>
    /\ argv.json = "flag" => document.form = "json"
    /\ argv.json = "absent" => document.form = "human"

\* The process exits, whatever becomes of its readers.
Exits == <>(pc = "exited")

\* What docs/cli/remap.md says.

\* Broken pipes terminate cleanly.
BrokenPipeIsClean ==
  status # NoStatus /\ sink[document.stream] = "closed" => status # Failure

\* The exit statuses of a run are those of the table.
StatusIsListed == status \in {NoStatus, 0, 2, 70}

\* The CLI emits a JSON envelope when --json is present.
EnvelopeWhenAsked == argv.json = "flag" => document.form \in {"none", "json"}
=============================================================================
