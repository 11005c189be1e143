# Formal model of Remap

This directory holds TLA+ specifications of the Remap repository, the TLC
configurations that check them on small instances, and TLAPS proofs of their
main properties. `src/...` below are paths of the repository.

## Inventory

Remap is at milestone M0: a library of names, targets and registry snapshots,
an offline command line tool, and a source quality gate. The daemon, DNS and
gateway that the architecture documents describe do not exist yet.

| Component | Source | State it keeps | Operations | What makes it correct |
|---|---|---|---|---|
| Names and patterns | `crates/remap-core/src/name.rs` | none (values) | `RemapName::parse`, `NamePattern::parse`, `matches`, `resolution_rank`, display, derived order | one canonical form per name, limits on that form, matching at label boundaries, display reads back |
| Mapping targets | `crates/remap-core/src/target.rs` | none (values) | parse an address, a DNS alias or an HTTP(S) upstream; display | one canonical form per target, display reads back, ports and hosts in range |
| Registry snapshots | `crates/remap-core/src/mapping.rs` | an immutable revision: number and ordered mappings | `RegistrySnapshot::new`, `resolve`, `mappings`; `Mapping::new`, `with_enabled` | no pattern twice, an order independent of the caller's, every lookup follows the precedence policy, a refused list changes nothing |
| Command line process | `crates/remap/src/` | one run: arguments, document, buffered output, exit status | parse, execute, write one document, exit | status tells what was delivered, streams are kept apart, JSON on every path that promises it, the process exits |
| Quality gate: workspace and pins | `crates/remap-quality/src/` `discover.rs`, `toolchain.rs` | none (reads files) | climb to the workspace manifest, compare three pinned versions | passes exactly for one version, of the nearest workspace |
| Quality gate: discovery and scan | `discover.rs`, `scan.rs`, `main.rs` | the paths collected, the violations found | walk, sort, read and measure, sort, report, exit | the report is true of the tree, success is earned, the same tree gives the same answer, the run ends |
| Quality gate: Rust metrics | `rust_metrics.rs`, `limits.rs`, `model.rs` | counters of one function, violations of one file | visit a syntax tree | every function and type measured, once, with its own counters |

Interactions are direct calls: `main` calls `cli::parse`, then `app::execute`,
which calls the parsers of the core library, then one writer of `output`. The
registry is a library that the future daemon will call; in this repository only
tests do. The quality gate is a second program: `run_check` finds the workspace,
compares the pins, walks, and hands each Rust file to the analyzer. Nothing is
concurrent inside either process. The hard behaviour lies at their edges
(buffered output to readers that leave, devices that fail, blocked writes, trees
that are edited while they are walked, directories listed in any order) and in
the order of entries and rules (precedence, ties, canonical forms, length
limits, first error of several, nested syntax).

`PROJECT.json` lists every hazard at its line, with the properties that cover it.

## Modules

| Module | Models | Kind |
|---|---|---|
| `Names` | `name.rs`: parsing with the order of its errors, canonical form, matching, rank | operators |
| `Precedence` | the record `Mapping`, and the resolution policy stated over sets: `Owns`, `Outranks`, `IsBest` | reference definitions |
| `Resolution` | what a registry promises, as a request/response machine over a set of mappings | abstract specification |
| `Registry` | `mapping.rs`, one loop iteration per step, and a caller | detailed specification |
| `Cli` | one run of `remap`: `main.rs`, `cli.rs`, `app.rs`, `output.rs`, `diagnostic.rs` | specification |
| `Targets` | `target.rs`: inference of addresses, aliases and upstream URLs, with the order of their errors, and display | operators |
| `Validate` | `remap validate`: `cli.rs`, `app.rs` and `diagnostic.rs` around the parsers of `Names` and `Targets` | specification, composes both |
| `Metrics` | `rust_metrics.rs`: two nested visitors, node by node | specification |
| `Workspace` | `discover::workspace_root` and `toolchain.rs` over files written line by line | operators and a harness |
| `Gate` | a run of `remap-quality check`, from the walk to the exit status, while the tree is edited; a second run | specification |
| `NameEntry` | every text over an alphabet, typed byte by byte, as input of `Names` | harness |
| `TargetEntry` | every text made of fragments of a vocabulary, as input of `Targets` | harness |
| `MCRegistry`, `MCNameEntry`, `MCTargetEntry`, `MCCli`, `MCValidate`, `MCWorkspace`, `MCGate` | values of the constants for TLC | model checking |
| `NameProofs` | names and patterns as `Names` and `Precedence` define them: the order of texts, accepted names, reading back, matching and ranks | proofs |
| `NameEntryProofs` | `NameEntry` | proofs |
| `RegistryProofs` | `Registry`, and that it implements `Resolution` | proofs |
| `TargetProofs` | `Targets`, `TargetEntry` and `Validate` | proofs |
| `CliProofs` | `Cli` | proofs |
| `WorkspaceProofs` | `Workspace` | proofs |
| `GateProofs` | `Gate` | proofs |
| `MetricsProofs` | `Metrics` | proofs |

`Registry` and `Resolution` extend `Precedence`, which extends `Names`.
`Targets` extends `Names`: aliases and upstream hosts are names. `Validate`
extends `TargetEntry`. `Gate` takes what `Metrics` finds in a content, and whether
`Workspace` passes, as given: a constant and a boolean.
`Registry` instantiates `Resolution` with a refinement mapping (`Abstract`).

### Names

A text is the sequence of its bytes, so lengths, suffixes and the order of texts
are those of a Rust `String`; a multi-byte character is several bytes above 127,
which the label rule refuses as it refuses the character. `RemapNameParse`
follows the early returns of `RemapName::parse`: empty, empty after one root
dot, address literal, too long, then the first faulty label and the first rule
it breaks. The limits are constants (253 and 63 in the code), as are the largest
`usize` and the set of texts that `IpAddr` accepts, which is the standard
library's. Errors are their variants; offending texts and wording are left out.

Definitions introduced as a *variant* are plausible mistakes in the definition
they precede, named in `PROJECT.json` under "mutants": TLC finds the property
listed there violated when the variant takes the definition's place. No
specification uses them.

### Targets

`HttpUpstreamParse`, `ParseAuthority` and `ParseWithHttpPolicy` follow the
successive splits and the early returns of `target.rs`; `HttpUpstreamDisplay`
and `MappingTargetDisplay` are its `Display`. What `IpAddr` and `Ipv6Addr` parse
and print is the standard library's: two constant sets of texts, and a function
from a literal to the text of its address, which stands for the address.
`TargetsAssumption` says what the code relies on: the bytes of a literal, that
printing gives a literal of the same address and family, and that case does not
matter. How `NonZeroU16` reads a number (a sign, leading zeros, 1 to `MaxPort`) and
prints one is external too, and modelled digit by digit by two recursive
functions, `Number` and `Decimal`. An error is the sequence of its nested
variants. The header policy is a value that is carried along.

### Registry

| State | In the code |
|---|---|
| `draft` | the list the caller assembles |
| `mappings`, `revision` | the arguments of `RegistrySnapshot::new` |
| `patterns` | its `BTreeSet` |
| `cursor` | the position of the loop in `new`, or of `find` in `resolve` |
| `query` | the argument of `resolve` |
| `snapshot` | the snapshot the caller holds |
| `outcome` | what the last call returned |
| `pc` | in the caller, in `new` or in `resolve` |

`InsertPattern`, `RejectDuplicate` and `SortMappings` are the loop of `new`, its
early return, and the sort with the `Ok`. The sort is a nondeterministic choice
among the permutations that the comparator allows (`Sortings`), so nothing rests
on which sort the library uses. `FindNext`, `FindHit` and `FindEnd` are `find`.
The caller (`AddMapping`, `SetEnabled`, `Checkout`, `CallNew`, `CallResolve`)
may do anything the public interface allows, in any order; it keeps the old
snapshot when `new` fails, as a `Result` makes it do. `Targets` are opaque,
since neither function looks at them. Text outside of `mapping.rs` that decides
precedence (`resolution_rank`, `matches`, `Ord`) comes from `Names`.

The abstract machine `Resolution` knows no order and no loop: `Accept` makes a
list without a repeated pattern the whole registry, `Refuse` rejects one that has
a repeated pattern, `Answer` returns the mapping that `IsBest` selects.

### Command line process

`Cli` follows `main`: `ParseDisplay`, `ParseUsageError` and `ParseMatches` are
the ways `cli::parse` returns, `Execute` is `app::execute` with its validation,
then a document goes out chunk by chunk. A chunk is text, or text that ends with
a newline. `Buffer`, `MakeRoom` and `Flush` are the `LineWriter` behind standard
output: text waits until a newline, or until the buffer (1024 bytes in the
standard library) has no room. `SendToStderr` writes unbuffered. A pipe holds
`PipeSize` chunks; `Read` and `Break` are the other end, which may take a chunk,
leave (`closed`, a broken pipe) or fail (`failed`, any other error) at any time.
`FinishOk`, `FinishBrokenPipe`, `FinishError` and `Complain` are `finish_write`,
and `Cleanup` is the flush at exit whose errors the runtime ignores. `InSerializer`
says where an error passes through `serde_json` and `io::Error::other`.

Arguments are classified by what the program tells apart: the request, whether
`--json` is absent, a flag or a word after `--`, and whether name and target are
valid. What clap answers (`ClapAnswer`) is external. The internal error (status
70) is in `Validate`, whose `AnswersAreExpected` says that no words lead to it.

### Validate

The target is what `TargetEntry` types; somebody then types a name fragment by
fragment (`pattern`) and chooses the value of `--host-header`, `argument` (none,
one that clap accepts, another). `Submit` is `parse_validate`, then
`app::validate`, and sets `answer` to a report or a diagnostic (code, the nested
error, exit status). Two lists of policies are kept apart as the code keeps them:
those clap accepts (`AcceptedPolicies`) and the arms of the match
(`PolicyNames`). `Resubmit` is a script that passes a report's texts back to the
command. Every step of `ValidateSpec` is one of `TargetEntry` or leaves its
variables alone, so what is proved of `TargetEntry` holds here. Words that begin
with a hyphen, which clap takes for options, and empty names are not submitted.

### Metrics

| State | In the code |
|---|---|
| `source` | the tree that `syn::parse_file` returns: nodes in the order of the visit, each with its parent |
| `next`, `open` | where `RustAnalyzer` is in it |
| `flowNext`, `flowOpen` | where `FlowMetrics` is, while `check_function` runs |
| `complexity`, `currentNesting`, `maximumNesting` | the fields of `FlowMetrics` |
| `violations` | the field of `RustAnalyzer` |

The file is written first, node by node, in any shape that the grammar allows
(`MayContain`): a `let` only as part of a condition, an `else if` last in its
`if`, two operands that hold nodes at most for `&&`. `VisitFunction`,
`VisitSignature` and `VisitType` are the overridden methods of the analyzer,
`VisitOther` and `Return` the default ones; `FlowEnter` and `FlowLeave` are the
two halves of each method of `FlowMetrics`, `FlowEnd` the rest of
`check_function`. `Expected` states each measure over the tree, without a visitor
or a counter.

### Workspace

A line is what the line searches tell apart: a word, or an assignment of a
version in quotes, bare, or followed by a comment. `manifests` is the
`Cargo.toml` of the current directory and of those above it; each may be
missing, unreadable or a file. `WorkspaceRoot`, `Verify` and `Setup` are the
functions of the code, and `WorkspaceRoot` is the climb; the actions are somebody
who writes lines and adds directories above (`AddDirectory`), so that the properties can
compare a verdict with that of a longer file.

### Gate

| State | In the code |
|---|---|
| `roots`, `isDir`, `stack` | the loop of `source_files`, whether `is_dir` was true of the root that is opened next, and the calls of `collect_directory` with what is left of each listing |
| `files` | the paths collected, later those still to be read |
| `violations` | the vector of `scan::workspace` |
| `outcome`, `status` | the `Result` in `run_check`, the exit status |
| `tree` | what every path is now |
| `seen`, `previous` | what every path has been since the run began, the outcome of the run before: kept for the properties |

A source root is looked at (`FindRoot` and `PassRoot`, `discover.rs:32`) before it is
opened (`EnterRoot` and `RootFails`, `discover.rs:41`), and may be gone in between: a
missing root is passed over, one that was there a moment ago is an error. A listing
yields its entries in any order, with the types it saw; an entry may have changed when
it is opened or read. `Fail` is the `?` of any of the calls.
`Edit` is somebody who creates, deletes or rewrites entries during the run, up to
`MaxEdited` of them, as often as they like; `CheckAgain` runs the gate again on a
tree that nobody edited. Simplifications: a directory is listed in one step;
links are there from the start or not at all, and a source root is none;
printing is one step, which succeeds or panics (status 101); limits other than
the file length are those of `Metrics`. `SourceRoots` is the constant array of the code.
The sorts are the standard library's stable ones (`StableSort`): an element comes
behind those that are less and those that are equal and were before it. What the
report says is compared with what an entry was and could be read as (`Sound`): a
directory that could not be read in a part of the run may have been read in the
rest.

## Runs

| Run | Asks | Bounds, and why they are enough |
|---|---|---|
| `registry` | types, strict order, loop invariants, best answer, refinement of `Resolution`, calls return | 4 patterns (2 exact, a wildcard inside a wildcard), 3 names of which one ends with a suffix without its labels, lists of up to 3, each entry enabled or not: ties in rank, duplicates of every kind, a disabled entry before a broader one all occur |
| `names` | accepted texts, the first faulty label is blamed, canonical form, read back, limits; match by labels, ties never decide, wildcards nest by specificity | every pattern of up to 6 bytes over `A a - . * :`, and every pattern of up to 6 bytes over `* . a` with every name of up to 6 over `a b .`; limits of 5 and 3 bytes, so that texts run past both, with root dots, wildcards, names of three labels and suffixes inside a label |
| `validate` | accepted URLs, canonical form, read back, names and addresses; reports are fixed points, the internal error is out of reach | every concatenation of up to 5 fragments from four vocabularies: ports around 65535 with zeros and signs; schemes, an IPv4 address, root dots, user information, paths that hold `://` and `@`; brackets with IPv6 addresses and other texts, queries, fragments; and one with which a name is typed too and submitted with every policy. A URL with a scheme, a host, a port and a path has 5 fragments |
| `target_literals` | finds `AddressLiteralIsAnAddress` violated | as `validate`, without names |
| `cli` | status, streams, form, exit | every request; a buffer of 2 chunks with caller's texts of 1, 2 and 3, so that a document fits, fills it or does not; pipes of 2 chunks, shorter than any diagnostic, so that writes block |
| `cli_broken_pipe` | finds `BrokenPipeIsClean` violated | as `cli` |
| `cli_status` | finds `StatusIsListed` violated | as `cli` |
| `cli_envelope` | finds `EnvelopeWhenAsked` violated | as `cli` |
| `metrics` | every measure is exact, nesting balanced | every tree of up to 4 nodes of all 11 kinds, limits of 2 lines, 1 parameter, complexity 2 and nesting 1: a function in a control flow expression in a function, a chain of two `else if`, an `if let` with `&&`, each limit reached and passed |
| `gate` | the report was true, success is earned, errors have a cause, two runs agree, the run ends | 7 entries in two source roots, two of them edited at any step and any number of times: a directory in a directory, two kinds of faulty files, directories that cannot be opened or that fail part way, a link, a file without a source name |
| `gate_diagnostics` | finds `DiagnosticsAreDeterministic` violated | as `gate` |
| `workspace` | passes exactly for one version | two manifests and two files of 5 lines together: the four lines that pass and one more anywhere, before or after them |

Fairness. `Gate` assumes that its process is scheduled, and what it prints is taken to
be read. Nobody has to edit, or to stop editing. `Registry` assumes that a call that has begun runs (weak fairness of
the steps of `new` and `resolve`): they are loops over a list that never block.
`Cli` assumes that the process is scheduled and that the other end of each
stream goes on reading, or leaves: writes have no timeout in the code, so with a
reader that does neither the process waits for ever. No fairness is assumed of
the caller, and none that would make a reader stay.

`CHECK_DEADLOCK FALSE` stands where the system ends: a process that has exited
and whose streams are drained, and an input at its largest length.

## Findings

- A JSON document larger than the buffer of standard output, whose reader has
  left, ends in status 1 and a complaint: `output.rs:123` wraps the error and
  loses its kind, and `main.rs:54` looks for that kind. `docs/cli/remap.md:69`
  says that broken pipes terminate cleanly. Smaller documents fail at the
  newline, outside of the serializer, and do end cleanly: a test with a short
  mapping would not notice.
- Status 1 (`main.rs:61`) is not in the table of `docs/cli/remap.md:74-78`.
- `remap --json --help` writes plain text (`cli.rs:45`), while
  `docs/cli/remap.md:5-6` promises an envelope when `--json` is present.
- Which of two faulty directories the gate reports depends on the order of the
  listing (`discover.rs:43`), while `main.rs:31` calls diagnostics deterministic.
  Faults of files do not: `RunsAgree` holds, because files are sorted first.
- `http://[]` is refused as an address literal (`target.rs:237`), with the words
  "'' is an address literal, not a DNS name that Remap can override"
  (`name.rs:66`): any text in brackets that is no IPv6 address is.

Noticed while modelling, without a run of their own:
- `RegistrySnapshot::new` takes any revision (`mapping.rs:88`), although
  `mapping.rs:105` calls it monotonic: keeping the order is left to the caller.
- `if let` and `while let` count as two decisions (`rust_metrics.rs:189` and
  `rust_metrics.rs:231`), and each `else if` of a flat chain is one level deeper
  (`rust_metrics.rs:192`), so a chain of nine branches breaks the limit on nesting.
  `Metrics` states the measures as the code takes them.
- A version with a comment behind it, which TOML allows, is skipped
  (`toolchain.rs:38`) and reported as missing (`toolchain.rs:13`).
- A port may be written `+80` (`NonZeroU16::from_str` takes a sign), which is then
  printed as `80`.

## Proofs

Every result holds for every value of the constants that satisfies the named
assumptions, and so for texts, lists, files and trees of every size:

| Assumption | Says |
|---|---|
| `NamesAssumption` | the limits are positive and `usize` can count the bytes of a name; an address has a colon, or is digits and dots; it stays an address in other letter cases |
| `RegistryAssumption` | patterns are parsed ones, queries are texts and there is one, revisions are naturals |
| `TargetsAssumption` | an address is digits, letters and dots, one of version 6 has colons too, and does not end with a dot; printing gives a literal of the same address and family, in any letter case; the largest port is positive |
| `TargetEntryAssumption`, `ValidateAssumption` | what is typed are texts |
| `NameEntryAssumption` | what is typed are texts, and an alphabet has a letter, so that there is a name that is no address |
| `CliAssumption` | buffer and pipe hold something, a text has at least one line |
| `WorkspaceAssumption` | what is written is lines, and the bounds are naturals |
| `GateAssumption` | entries are numbered so that a directory comes before what is in it; `SourceRoots` lists the entries at the top, each once, which are no links and have no source name; a Rust file has a source name; contents are apart from the other kinds of nodes; an analysis is a sequence of findings |
| `MetricsAssumption` | kinds of nodes are those of the grammar; counts and limits are naturals |

`NameProofs`, lemmas and theorems about operators:
- `TextLessIrreflexive`, `TextLessTotal`: the order of texts is strict and total,
  by the least place where two texts differ.
- `NamesNotAddresses`: no accepted name is an address literal. The input without
  its root dot was not one, but the canonical name is that text in lower case.
  Every byte of the name lies in a label that was checked (`ByteIsInLabel`), so
  it has no colon; an address without a colon is digits and dots, which case
  folding does not touch.
- `NameIsReadBack`, `NameSpelling`, `PatternIsReadBack`, `PatternSpelling`: what is
  accepted is accepted again as it is, and neither case nor a root dot shows. For
  patterns this goes by the name behind `*.` (`PatternByStem`).
- `MatchesIsOwns`: the byte comparison of `matches` is ownership at a dot.
- `OneOwnerPerLabelCount`, `OneOwnerPerRank`, `OwnersAreNested`, `RankIsInRange`: of
  the tails of one name, a later one has fewer dots (an injection of its dots into
  the other's that misses one), so two wildcards that own a name and have equally
  many labels are the same, the one with more is inside the other, and the rank
  is a subtraction that does not underflow.

`NameEntryProofs`, over all alphabets, every invariant of `NameEntry`. `EntryInv` is the
type of the two inputs; `DisplayIsReadBack`, `SpellingIsInvisible`, `RankDecides` and
`SpecificityNests` follow from `NameProofs`. `AcceptsHostnames`, `MatchesByLabels` and
`MatchesSomeNameIfRoom` compare the code with definitions by labels, `LabelsOf` (a text
taken apart) and `Join` (labels put together), `FirstFaultIsBlamed` a text with its halves:
- Both are recursive functions from the end to the front. That a solution exists
  (`RunExists`), that there is one (`RunsAgree`) and so what one more byte or label in
  front does (`LabelsOfLonger`, `JoinOfLonger`) is shown by least numbers; what holds
  of the empty sequence and is kept by one more element in front holds of all
  (`FrontInduction`, for a set instead of an operator).
- `JoinOfLabels`: a text is its labels joined. So texts with equal labels are equal.
- `MatchesIsByLabels`: the proper ends of a text's labels are the labels of what follows
  its dots (`EndsOfLabels`); ownership at a dot is therefore a proper suffix of labels.
- `HostnameIs`: the scan looks at the spans between dots (`LabelSpans`), which are the
  labels that were joined (`SpansOfJoin`: a label in front adds its span and moves the
  others, `SpansBehindLabel`). A text without a fault is thus a join of labels of the
  grammar and the other way round. That the grammar may stop at half of `MaxName` labels
  is `JoinOfGrammar`: each label has a byte and a dot but for the last.
- `DescendantIfRoom`: a letter and a dot in front of an accepted suffix are a name, no
  address because of the letter; a descendant has two bytes more at least, since no
  name begins with a dot.
- `FirstFaultIsTold`: a dot splits the labels in two (`SpanSides`), and what is checked
  of a label in a half is checked of it in the whole (`PartFault`). So a fault before the
  dot comes first (`HeadIsBlamed`), and one behind it when there is none before
  (`RestIsBlamed`); lower case and a root dot change neither half.

`RegistryProofs`:
- `TypeCorrect`: `Spec => []TypeOK`.
- `RegistryCorrect`: `StrictlyOrdered`, `LoopsSoFar` (`InsertedSoFar` and
  `SkippedSoFar`) and `AnswerIsBest` always hold. `AnswerIsBest` alone is not
  inductive. The first hit is the best because entries before the cursor do not
  answer (`SkippedSoFar`), entries after it come later in the order
  (`StrictlyOrdered`), and of two patterns that own a name the earlier one is
  preferred (`PrecedesIsPreference`). The order is strict because the loop of `new`
  has seen every pattern once (`InsertedSoFar`) and the comparator is total
  (`PrecedesTotal`). `RegistryInv` is the conjunction, which the run `registry`
  checks conjunct by conjunct.
- `RegistryRefines`: `Spec => ImplementsResolution`. The interesting step is the
  sort: an injective choice of indices is onto, so no entry is lost
  (`SortKeepsEntries`).

`TargetProofs`, from digits to the command:
- A port that is printed is read as that port, with a zero before it too
  (`PortIsRead`). `Number` and `Decimal` are recursive functions; that one exists,
  and that its equation holds, is shown by the least argument without
  (`CountExists`, `DecimalExists`).
- `AssembledUrl`: the successive splits of `parse_with_policy` find scheme,
  authority and path again in a URL made of them; `NamedAuthority` and
  `BracketedAuthority` say the same of host and port.
- `TargetAnswers`: every text is answered with an error, or with a target *as it is
  kept* (`IsKept`): a name that is read as itself, an address that is printed as
  itself, a port in range, a path that begins with a slash and has neither `?` nor
  `#`. This is stronger than the type and is what reading back needs.
- `KeptIsRead`: what is printed for such a target is read as the target, and so is
  its other spelling.
- `UrlIsOfGrammar`: a text is accepted as an upstream exactly if the grammar of URLs has
  a way to cut it (`AcceptsUpstreamUrls`). The parser looks for the first separator, the
  first slash, the first colon or the closing bracket; the grammar tries every slash and
  every colon. They agree because no scheme has a colon and no host or port a slash
  (`HostPortIsRead`, `AuthorityIsCut`), and because a host without brackets has no colon
  (`AcceptedTextLacks`, and an address with a colon is one of version 6). A port is
  bounded as a number by the parser and as a text by the grammar: of two texts without
  leading zeros the longer is the larger number, and of two as long the one that comes
  later is (`NumbersAsTexts`, by the running counts of `Number` on both: `SameDigitsCount`,
  `LessDigit`, `BehindStays`).
- Hence `TypeOK`, `AcceptsUpstreamUrls`, `NamesAreNotAddresses`, `TargetIsReadBack` and
  `TargetSpellingIsInvisible` of `TargetEntry`; and, since `ValidateSpec` implies
  `Spec` (`ValidateTypesTargets`), of the command.
- `AnswersExpected` and `ReportsStay`: the internal error is out of reach, and a
  report that is submitted again is its own answer (the action property
  `ReportsAreFixed`). The inductive invariant says that a report is that of an
  accepted pattern and a kept target (`IsReport`); the type of the answer is not
  enough to know what becomes of it.

`CliProofs`: `StatusTellsDelivery`, `StreamsAreApart`, `FormFollowsFlag` and `TypeOK`.
The status is decided after the last write, so the invariant `CliInv` says what is
true before: nothing is written before the arguments are parsed
(`BeforeWriting`), while a document is written, exactly the chunks before the
next one are sent or in the buffer (`WhileWriting`), a flush goes on until the
buffer is empty (`FlushesAreWhole`), stderr is not buffered (`StderrIsDirect`), and
a complaint is made only about a stream that broke (`ComplaintIsDue`). From the
decision on, `Verdict` says what the status stands for; a stream that broke stays
broken.

`WorkspaceProofs`: `PassMeansOneVersion`, `SinglePinsAreCompared`, the action property
`VerdictSettles`, and `TypeOK`. A pass rests on one line of each of three files
(`PassRestsOn`); lines are only added at the end, where the first match of a
search is not changed. That the pinned line of the root is one a `Cargo.toml` can
hold needs an invariant of its own (`CargoHasItsLines`).

`GateProofs`: `SuccessIsEarned`, `ErrorHasCause`, `ReportWasTrue`, `RunsAgree` and
`TypeOK`; all but `RunsAgree`, which is about a tree at rest, under any edits. The heart
of `GateInv` is `NothingIsLost`: while nothing has been found,
the walk has yet to come to every entry or to a directory above it, or has it
collected, or it was sound in a state it was seen in; and when a run ends clean
the last is so of all of them. What was seen only grows. A listing that is in use is true
of what was seen (`ListingsAreTrue`), a root that is about to be opened was a directory
when it was looked at (`RootIsTrue`), and an error that is carried has its cause
(`ErrorHasCause`). Sorting a sequence keeps its elements (`SortFilesSorts`).
That a report says everything once needs a second invariant, `RunInv`:
- `Once`: no entry is listed or collected twice, since one that was met waits no
  more, nor does a directory above it. It rests on every entry having one parent
  and `SourceRoots` naming none twice, in a tree that is edited too.
- `ReadsInOrder`: the sorted list grows strictly, nothing was found yet in a file
  that is still on it, and every other entry is settled (`Settled`): its violations
  are, violation by violation, as many as are due for a sound node. A sort keeps how often
  each occurs (`ReorderingKeepsTimes`).
- `Told`: what an outcome says, this run's and the last one's. A report is ordered
  and settles every entry. In a tree that nobody edited, an error of the scan names
  the first faulty entry and comes only when no directory is broken, an error of the
  walk a broken directory.

`RunsAgree` follows: a report and an error exclude each other, the first fault is one, and
two reports in which every violation occurs as often are the same, because violations
are totally ordered and an ordered sequence is determined by that (`OrderedIsUnique`,
by the least place where two of them differ).

`MetricsProofs`: `NestingIsDepth`, `ReportIsExact` and `TypeOK`, for trees of every size.
The counter is the depth of the open node because that node stands in the function
that is measured (`FlowIsInside`): leaving a node goes to its parent, whose depth is
one less exactly if the node is an expression of control flow (`PathSplits`).
`ReportIsExact` is about the end of the visit only; what is true on the way is
`ReportInv`, which TLC checked on the instance of `metrics` first:
- `PlacesKept`: what a visitor has yet to visit stands in its open node, in one around
  that, or in what is yet to come (`IsPlace`). The grammar's order of nodes makes this so
  (`IsNested`, kept by every `Write`), and it is what makes leaving right: if the next
  node is no child of the open one, nothing that stands in the open one is left
  (`NothingLeft`, `PlaceAround`).
- `Measured`: the complexity is that of the nodes visited so far, the greatest nesting
  the depth of one of them and of none surpassed. At the end of a function the nodes
  after the last one visited stand outside of it and add nothing (`DecisionsOutside`).
- `ReportedSoFar`: the violations are, each once, what is to be found at the nodes
  before the next one, of a function being measured what its signature tells. Findings
  at two nodes differ in their line, those at one node in their rule
  (`FindingsHaveLines`).

What the proofs changed in the model. `Gate` compared the report with what an entry
had been *and was not faulty as*: an entry that was flawed when it was listed and
read as a directory all the same has no such state, so `Sound` has its own case.
It compared them as sequences, too; it now counts each violation (`Times`), which
together with the order says the same and can be proved without a fold.
`SourceRoots` became a constant array, since the order of the walk is that of the
code and not of the numbering; `StableSort` became a definition by places (the
place of an element is the number of those before it in the order, or equal and
not behind it), of which it can be proved that it keeps and orders the elements.
`Number` and
`Decimal` were a fold and a choice of powers of ten, of which nothing could be
proved. The reference for complexity in `Metrics` was a fold over the set of nodes in a
function; it is now a sum node by node (`DecisionsIn`), a recursive function of which
existence and the step are proved (`SumExists`, `DecisionsStep`).
`LabelsOf` and `Join` in `NameEntry` were folds, and are recursive functions for the same
reason. `Hostnames` had the addresses that are written like names in it, such as those of
version 4, which `RemapName::parse` refuses; the bounds of the run have none, the proof
needed them out (`AcceptsHostnames`). With digits alone a wildcard may have only addresses
below it, hence the letter in `NameEntryAssumption` (`MatchesSomeNameIfRoom`).

Only model-checked:
- `CallsReturn`, `Exits` and `RunsEnd`: liveness under fairness, which needs
  `ENABLED`. The type invariants and the safety properties of all components are proved.
- The five runs that expect a violation: TLC shows the behaviour that refutes the text.

## Not modelled

- Wording and layout of messages, help and reports; only the form, the stream
  and the number of chunks.
- clap's grammar, `serde_json`, the standard library: external, by what the code
  relies on.
- `lib.rs`: re-exports. Tests: read as intent. `platforms/`, `docs/`: no code.
- Attributes and doc comments in `Metrics`: they move the line of one finding of a
  function, and the report is sorted by line in `Gate`.
- A listing that is read in parts while entries come and go in that directory: the
  platform promises nothing about it.
- The daemon, DNS, gateway and platform integrations: not written yet.

## Plan

Done: all code that has behaviour is modelled, and the type invariants and the safety
properties of every component are proved.

Next: decreasing measures for the loops behind the liveness properties, stated as action
properties, which can be proved; the components that are not written yet, when they are.
