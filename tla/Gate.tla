-------------------------------- MODULE Gate --------------------------------
(***************************************************************************)
(* Runs of `remap-quality check` (main.rs, discover.rs, scan.rs): walk the *)
(* source directories, sort the files, read and measure each, report.      *)
(* While a run is under way somebody else may edit the tree.               *)
(*                                                                         *)
(* An entry of the tree is a number; the order of the numbers is the order *)
(* of the paths, and Parent is the directory an entry's path names.  What  *)
(* an entry is at a moment is its node: "absent", a directory, a symbolic  *)
(* link, or a file with one of the contents in Contents.  What the Rust    *)
(* analyzer finds in a content is module Metrics' business, and here a     *)
(* constant.  Finding the workspace and comparing the toolchain pins, the  *)
(* business of module Workspace, is one step that passes or fails.  A      *)
(* directory is listed in one go, types included.                          *)
(***************************************************************************)
EXTENDS Integers, Sequences, FiniteSets, SequencesExt

CONSTANTS
  Size,          \* how many entries there are
  Parent,        \* the directory of an entry; 0 is the workspace root
  SourceRoots,   \* the entries of SOURCE_ROOTS, in its order
  Possible,      \* the nodes each entry may be
  SourceNamed,   \* the entries whose name has a source extension
  RustNamed,     \* those that end in .rs
  TooLong,       \* the contents of more than MAX_FILE_LINES lines
  Analysis,      \* what the analyzer finds in a content it can parse
  Unparsed,      \* contents that are no Rust
  MaxEdited      \* bound on the entries edited during a run

\* "sealed" directories cannot be opened; reading "flawed" ones fails part way.
Directories == {"directory", "sealed", "flawed"}
Contents    == DOMAIN Analysis \cup Unparsed
Files       == Contents \cup {"undecodable"}        \* a file that is not UTF-8
Nodes       == {"absent", "link"} \cup Directories \cup Files

Entries == 1 .. Size
Rule    == 1 .. 6        \* in the order of the enum Rule; the first is FileLines

Children(n) == {c \in Entries : Parent[c] = n}

ASSUME GateAssumption ==
  /\ Size \in Nat
  /\ Parent \in [Entries -> Entries \cup {0}]
  /\ \A n \in Entries : Parent[n] < n
  /\ Possible \in [Entries -> SUBSET Nodes]
  /\ SourceRoots \in Seq(Entries)
  /\ {SourceRoots[i] : i \in DOMAIN SourceRoots} = Children(0)
  /\ IsInjective(SourceRoots)
  /\ \A n \in Children(0) : "link" \notin Possible[n] /\ n \notin SourceNamed
  /\ RustNamed \subseteq SourceNamed /\ SourceNamed \subseteq Entries
  /\ Contents \cap ({"absent", "link", "undecodable"} \cup Directories) = {}
  /\ TooLong \subseteq Contents
  /\ Analysis \in [DOMAIN Analysis -> Seq([line : Nat, rule : Rule])]
  /\ MaxEdited \in Nat

VARIABLES
  pc,          \* "setup", "walk", "scan", "render", "exited"
  tree,        \* what every entry is now
  prepared,    \* the workspace is found and its pins agree
  roots,       \* the source roots still to be walked
  isDir,       \* the is_dir of the first of them was true
  stack,       \* the calls of collect_directory, each with the entries still to come
  files,       \* the paths collected
  violations,
  outcome,     \* the Result of the run
  status,      \* its exit status
  seen,        \* what every entry has been since it began
  previous     \* the outcome of the run before, on the same tree

walking == <<roots, isDir, stack>>
process == <<pc, walking, files, violations, outcome, status>>
world   == <<tree, prepared, seen, previous>>
vars    == <<process, world>>

NoOutcome == [kind |-> "none"]
Report(s) == [kind |-> "report", violations |-> s]
Error(phase, n) == [kind |-> "error", phase |-> phase, entry |-> n]

NoStatus == -1
Success  == 0
Failure  == 1
Panic    == 101

\* Vec::sort and sort_by: elements of which neither is before the other stay in
\* the order they are in.
StableSort(s, IsBefore(_, _)) ==
  LET place(i) ==
        Cardinality({j \in DOMAIN s : IsBefore(s[j], s[i])
                                        \/ (j =< i /\ ~ IsBefore(s[i], s[j]))})
  IN  [k \in DOMAIN s |-> s[CHOOSE i \in DOMAIN s : place(i) = k]]

\* An entry is there only if its directory is.
IsTree(t) ==
  /\ DOMAIN t = Entries
  /\ \A n \in Entries :
       t[n] \in Possible[n] /\ (t[n] # "absent" /\ Parent[n] # 0 => t[Parent[n]] \in Directories)

Trees ==
  LET upTo[k \in 0 .. Size] ==
        IF k = 0 THEN {<<>>} ELSE {Append(t, node) : t \in upTo[k - 1], node \in Possible[k]}
  IN  {t \in upTo[Size] : IsTree(t)}

-----------------------------------------------------------------------------
Init ==
  /\ pc = "setup"
  /\ roots = <<>> /\ isDir = FALSE /\ stack = <<>> /\ files = <<>> /\ violations = <<>>
  /\ outcome = NoOutcome /\ status = NoStatus
  /\ tree \in Trees /\ prepared \in BOOLEAN
  /\ seen = [n \in Entries |-> {tree[n]}]
  /\ previous = NoOutcome

\* The first error ends the run: what was collected and found is dropped.
Fail(phase, n) ==
  /\ outcome' = Error(phase, n)
  /\ pc' = "render"
  /\ roots' = <<>> /\ isDir' = FALSE /\ stack' = <<>> /\ files' = <<>> /\ violations' = <<>>
  /\ UNCHANGED <<status, world>>

SetupFails == pc = "setup" /\ ~ prepared /\ Fail("setup", 0)

SetupPasses ==
  /\ pc = "setup"
  /\ prepared
  /\ pc' = "walk"
  /\ roots' = SourceRoots
  /\ UNCHANGED <<isDir, stack, files, violations, outcome, status, world>>

-----------------------------------------------------------------------------
\* discover::source_files.

CanOpen(d) == tree[d] \in {"directory", "flawed"}

\* What a directory lists, with the types the listing gives.
Listing(d) == {[entry |-> n, node |-> tree[n]] : n \in {c \in Children(d) : tree[c] # "absent"}}

\* A call of collect_directory.
Opened(d) == [directory |-> d, left |-> Listing(d)]

Walk == pc = "walk" /\ UNCHANGED <<pc, violations, outcome, status, world>>

\* The loop is at the first of the roots that are left.
AtRoot == stack = <<>> /\ roots # <<>>

\* A root that is no directory is passed over.
PassRoot ==
  /\ Walk /\ AtRoot /\ ~ isDir
  /\ tree[Head(roots)] \notin Directories
  /\ roots' = Tail(roots)
  /\ UNCHANGED <<isDir, stack, files>>

\* One that is a directory is opened later: somebody may remove it before.
FindRoot ==
  /\ Walk /\ AtRoot /\ ~ isDir
  /\ tree[Head(roots)] \in Directories
  /\ isDir' = TRUE
  /\ UNCHANGED <<roots, stack, files>>

EnterRoot ==
  /\ Walk /\ AtRoot /\ isDir
  /\ CanOpen(Head(roots))
  /\ roots' = Tail(roots)
  /\ isDir' = FALSE
  /\ stack' = <<Opened(Head(roots))>>
  /\ UNCHANGED files

RootFails ==
  /\ pc = "walk" /\ AtRoot /\ isDir
  /\ ~ CanOpen(Head(roots))
  /\ Fail("walk", Head(roots))

\* The listing yields its entries in any order.
Pending == IF stack = <<>> THEN {} ELSE Last(stack).left

\* Variant of Yielded: the entry is not taken from the listing.
YieldedAgain(e) == stack

Yielded(e) == [stack EXCEPT ![Len(stack)].left = @ \ {e}]

\* Variant of IsDirectory: links are followed.
IsDirectoryOrLink(e) == e.node \in Directories \cup {"link"}

\* file_type does not follow links, so a link is neither directory nor file.
IsDirectory(e) == e.node \in Directories

EnterDirectory(e) ==
  /\ Walk
  /\ IsDirectory(e)
  /\ CanOpen(e.entry)
  /\ stack' = Append(Yielded(e), Opened(e.entry))
  /\ UNCHANGED <<roots, isDir, files>>

EnterFails(e) ==
  /\ pc = "walk"
  /\ IsDirectory(e)
  /\ ~ CanOpen(e.entry)
  /\ Fail("walk", e.entry)

\* Variant of IsSourceFile: the name is not looked at.
IsSourceFileAny(e) == e.node \in Files

IsSourceFile(e) == e.node \in Files /\ e.entry \in SourceNamed

CollectFile(e) ==
  /\ Walk
  /\ IsSourceFile(e)
  /\ files' = Append(files, e.entry)
  /\ stack' = Yielded(e)
  /\ UNCHANGED <<roots, isDir>>

PassEntry(e) ==
  /\ Walk
  /\ ~ IsDirectory(e) /\ ~ IsSourceFile(e)
  /\ stack' = Yielded(e)
  /\ UNCHANGED <<roots, isDir, files>>

IsFlawed(d) == tree[d] = "flawed"

EntryFails ==
  /\ pc = "walk" /\ stack # <<>>
  /\ IsFlawed(Last(stack).directory)
  /\ Fail("walk", Last(stack).directory)

LeaveDirectory ==
  /\ Walk /\ stack # <<>>
  /\ Pending = {} /\ ~ IsFlawed(Last(stack).directory)
  /\ stack' = Front(stack)
  /\ UNCHANGED <<roots, isDir, files>>

\* Variant of SortFiles: the files stay in the order of the walk.
SortFilesForgotten ==
  /\ pc = "walk" /\ stack = <<>> /\ roots = <<>>
  /\ pc' = "scan"
  /\ UNCHANGED <<walking, files, violations, outcome, status, world>>

SortFiles ==
  /\ pc = "walk" /\ stack = <<>> /\ roots = <<>>
  /\ files' = StableSort(files, <)
  /\ pc' = "scan"
  /\ UNCHANGED <<walking, violations, outcome, status, world>>

-----------------------------------------------------------------------------
\* scan::workspace.

CheckFileLength(n, content) ==
  IF content \in TooLong THEN <<[path |-> n, line |-> 1, rule |-> 1]>> ELSE <<>>

Analyze(n, content) ==
  IF n \in RustNamed
  THEN [i \in DOMAIN Analysis[content] |->
          [path |-> n, line |-> Analysis[content][i].line, rule |-> Analysis[content][i].rule]]
  ELSE <<>>

Measure(n, content) == CheckFileLength(n, content) \o Analyze(n, content)

IsReadable(n, node) == node \in Contents /\ (n \in RustNamed => node \notin Unparsed)

\* Variant of ReadFile: the violations of the files before are dropped.
ReadFileAlone ==
  /\ pc = "scan" /\ files # <<>>
  /\ IsReadable(Head(files), tree[Head(files)])
  /\ violations' = Measure(Head(files), tree[Head(files)])
  /\ files' = Tail(files)
  /\ UNCHANGED <<pc, walking, outcome, status, world>>

ReadFile ==
  /\ pc = "scan" /\ files # <<>>
  /\ IsReadable(Head(files), tree[Head(files)])
  /\ violations' = violations \o Measure(Head(files), tree[Head(files)])
  /\ files' = Tail(files)
  /\ UNCHANGED <<pc, walking, outcome, status, world>>

ReadFails ==
  /\ pc = "scan" /\ files # <<>>
  /\ ~ IsReadable(Head(files), tree[Head(files)])
  /\ Fail("scan", Head(files))

Before(v, w) ==
  \/ v.path < w.path
  \/ v.path = w.path /\ v.line < w.line
  \/ v.path = w.path /\ v.line = w.line /\ v.rule < w.rule

SortViolations(found) == StableSort(found, Before)

FinishScan ==
  /\ pc = "scan" /\ files = <<>>
  /\ outcome' = Report(SortViolations(violations))
  /\ violations' = <<>>
  /\ pc' = "render"
  /\ UNCHANGED <<walking, files, status, world>>

-----------------------------------------------------------------------------
\* run_check.  Printing to a stream that is gone panics.

IsClean(result) == result.kind = "report" /\ result.violations = <<>>

\* Variant of StatusOf: findings are only printed.
StatusOfReport(result) == IF result.kind = "report" THEN Success ELSE Failure

StatusOf(result) == IF IsClean(result) THEN Success ELSE Failure

Render ==
  /\ pc = "render"
  /\ status' \in {StatusOf(outcome), Panic}
  /\ pc' = "exited"
  /\ UNCHANGED <<walking, files, violations, outcome, world>>

Walker ==
  \/ PassRoot \/ FindRoot \/ EnterRoot \/ RootFails \/ EntryFails \/ LeaveDirectory \/ SortFiles
  \/ \E e \in Pending : EnterDirectory(e) \/ EnterFails(e) \/ CollectFile(e) \/ PassEntry(e)

Process == SetupFails \/ SetupPasses \/ Walker \/ ReadFile \/ ReadFails \/ FinishScan \/ Render

Edited == {n \in Entries : seen[n] # {tree[n]}}

\* Somebody creates, deletes or rewrites an entry.
Edit(n, node) ==
  /\ pc \notin {"render", "exited"}
  /\ Cardinality(Edited \cup {n}) =< MaxEdited
  /\ node # "link" /\ tree[n] \notin {node, "link"}
  /\ tree' = [tree EXCEPT ![n] = node]
  /\ IsTree(tree')
  /\ seen' = [seen EXCEPT ![n] = @ \cup {node}]
  /\ UNCHANGED <<process, prepared, previous>>

\* The tree that nobody touched is checked a second time.
CheckAgain ==
  /\ pc = "exited"
  /\ Edited = {} /\ previous = NoOutcome
  /\ previous' = outcome
  /\ pc' = "setup" /\ outcome' = NoOutcome /\ status' = NoStatus
  /\ UNCHANGED <<walking, files, violations, tree, prepared, seen>>

Next == Process \/ CheckAgain \/ \E n \in Entries : \E node \in Possible[n] : Edit(n, node)

\* The process is scheduled; nobody has to edit anything.
Spec == Init /\ [][Next]_vars /\ WF_vars(Process)

-----------------------------------------------------------------------------
Violation == [path : SourceNamed, line : Nat, rule : Rule]

Outcome ==
  {NoOutcome} \cup {Error(p, n) : p \in {"setup", "walk", "scan"}, n \in Entries \cup {0}}
    \cup [kind : {"report"}, violations : Seq(Violation)]

TypeOK ==
  /\ pc \in {"setup", "walk", "scan", "render", "exited"}
  /\ IsTree(tree)
  /\ prepared \in BOOLEAN
  /\ roots \in Seq(Children(0)) /\ isDir \in BOOLEAN
  /\ \A i \in DOMAIN stack :
       /\ stack[i].directory \in Entries
       /\ \A e \in stack[i].left : Parent[e.entry] = stack[i].directory /\ e.node \in Nodes
  /\ files \in Seq(SourceNamed)
  /\ violations \in Seq(Violation)
  /\ {outcome, previous} \subseteq Outcome
  /\ status \in {NoStatus, Success, Failure, Panic}
  /\ seen \in [Entries -> SUBSET Nodes] /\ \A n \in Entries : tree[n] \in seen[n]

\* A node that makes the run fail, and what the limits say of one that does not.
IsFaulty(n, node) ==
  \/ node \in {"sealed", "flawed"}
  \/ node \in Files /\ n \in SourceNamed /\ ~ IsReadable(n, node)

Due(n, node) == IF node \in Files /\ n \in SourceNamed THEN Measure(n, node) ELSE <<>>

\* What an entry was, at some moment of the run, and could be read as: a directory
\* that was flawed for a part of the run may have been read in the rest of it.
Sound(n) ==
  {node \in seen[n] : ~ IsFaulty(n, node)}
    \cup {node \in {"directory"} : "flawed" \in seen[n] /\ seen[n] # {"flawed"}}

\* Violations are reported in the order of path, line and rule.
ReportIsOrdered ==
  outcome.kind = "report" =>
    \A i, j \in DOMAIN outcome.violations :
      i < j => ~ Before(outcome.violations[j], outcome.violations[i])

Times(s, v) == Cardinality({i \in DOMAIN s : s[i] = v})

\* A report leaves nothing out, makes nothing up and says nothing twice, whatever
\* is edited under the walk: what it says of an entry is what the limits say of
\* something that the entry was during the run, as often and in order.
ReportWasTrue ==
  /\ ReportIsOrdered
  /\ outcome.kind = "report" =>
       \A n \in Entries : \E node \in Sound(n) :
         \A v \in ToSet(outcome.violations) \cup ToSet(Due(n, node)) :
           v.path = n => Times(outcome.violations, v) = Times(Due(n, node), v)

\* The exit status is success only if every entry was, at some moment of the run,
\* something to be read that has no finding.
SuccessIsEarned ==
  status = Success => \A n \in Entries : \E node \in Sound(n) : Due(n, node) = <<>>

\* The gate fails only for a fault that was there during the run, or for an entry
\* that was edited under it.
ErrorHasCause ==
  outcome.kind = "error" =>
    IF outcome.phase = "setup" THEN ~ prepared
    ELSE outcome.entry \in Edited \/ IsFaulty(outcome.entry, tree[outcome.entry])

\* Two runs over one tree agree, whatever the order in which directories list
\* their entries: in the report, and in the error if it comes from a file.
RunsAgree ==
  previous # NoOutcome /\ outcome # NoOutcome /\ Edited = {} =>
    \/ outcome = previous
    \/ \A o \in {outcome, previous} : o.kind = "error" /\ o.phase = "walk"

\* Every run ends.
RunsEnd == pc = "setup" ~> pc = "exited"

\* What main.rs says of the command: diagnostics are deterministic.
DiagnosticsAreDeterministic ==
  previous # NoOutcome /\ outcome # NoOutcome /\ Edited = {} => outcome = previous
=============================================================================
