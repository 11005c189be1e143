----------------------------- MODULE Workspace -----------------------------
(***************************************************************************)
(* What `remap-quality check` does before it walks the sources: climb from *)
(* the current directory to the workspace (discover.rs), and compare the   *)
(* versions that three files pin (toolchain.rs).                           *)
(*                                                                         *)
(* The directories and files are those of a caller who writes them line by *)
(* line.  A line is [key, form, version]: a word alone has form "word", an *)
(* assignment has the form of its value, which is in quotes, bare, or      *)
(* followed by a comment.                                                  *)
(***************************************************************************)
EXTENDS Integers, Sequences, FiniteSets, FiniteSetsExt, Functions

CONSTANTS
  CargoLines, MakeLines, MiseLines,   \* lines the files may have
  MaxLines,                           \* bound on the lines of all files together
  MaxDepth                            \* bound on the directories above the current one

WorkspaceHeader == "[workspace]"
Forms == {"word", "quoted", "bare", "commented"}
Line  == [key : STRING, form : Forms, version : STRING]

ASSUME WorkspaceAssumption ==
  /\ CargoLines \cup MakeLines \cup MiseLines \subseteq Line
  /\ {MaxLines, MaxDepth} \subseteq Nat

VARIABLES
  manifests,   \* Cargo.toml of the current directory, then of those above it
  makefile, mise   \* the other two files, of the workspace

vars == <<manifests, makefile, mise>>

\* No regular file of that name, one that cannot be read, or one with lines.
Manifest ==
  [node : {"missing", "unreadable"}, lines : {<<>>}]
    \cup [node : {"file"}, lines : Seq(Line)]

Ok(v)  == [ok |-> TRUE, value |-> v]
Err(e) == [ok |-> FALSE, error |-> e]

-----------------------------------------------------------------------------
\* discover::workspace_root: the place of the root among the manifests.

Declares(m) == \E i \in DOMAIN m.lines : m.lines[i].key = WorkspaceHeader

\* Variant of Ends: a manifest that cannot be read is passed over.
EndsIfDeclared(m) == Declares(m)

\* The climb does not go on above m.
Ends(m) == m.node = "unreadable" \/ Declares(m)

WorkspaceRoot ==
  LET ends == {i \in DOMAIN manifests : Ends(manifests[i])}
  IN  IF ends = {} THEN Err("NoWorkspace")
      ELSE IF manifests[Min(ends)].node = "unreadable" THEN Err("Unreadable")
      ELSE Ok(Min(ends))

-----------------------------------------------------------------------------
\* toolchain::verify.

\* The text of a value, without the quotes that were taken off.
Value(version, form) == [version |-> version, form |-> form]

\* Variant of FirstOf: a version that is not there is the empty text.
FirstOrEmpty(lines, found) ==
  IF found = {} THEN Ok([version |-> "", form |-> "bare"]) ELSE Ok(lines[Min(found)])

\* Variant of FirstOf: the last line counts.
LastOf(lines, found) ==
  IF found = {} THEN Err("Missing") ELSE Ok(lines[Max(found)])

FirstOf(lines, found) ==
  IF found = {} THEN Err("Missing") ELSE Ok(lines[Min(found)])

\* Variant of TomlPins: another assignment before the pin ends the search.
TomlPinsAtTop(lines, key) ==
  {i \in DOMAIN lines : /\ lines[i].key = key /\ lines[i].form = "quoted"
                        /\ \A j \in 1 .. i - 1 : lines[j].form = "word"}

\* A value that is not in quotes up to its end is passed over.
TomlPins(lines, key) == {i \in DOMAIN lines : lines[i].key = key /\ lines[i].form = "quoted"}

MakePins(lines, key) == {i \in DOMAIN lines : lines[i].key = key /\ lines[i].form # "word"}

TomlValue(lines, key) ==
  LET pin == FirstOf(lines, TomlPins(lines, key))
  IN  IF pin.ok THEN Ok(Value(pin.value.version, "bare")) ELSE pin

MakeValue(lines, key) ==
  LET pin == FirstOf(lines, MakePins(lines, key))
  IN  IF pin.ok THEN Ok(Value(pin.value.version, pin.value.form)) ELSE pin

\* All three files are read before anything is looked up.
Verify(cargo) ==
  LET rust == TomlValue(cargo, "rust-version")
      tool == TomlValue(mise.lines, "rust")
      make == MakeValue(makefile.lines, "RUST_TOOLCHAIN")
  IN  IF makefile.node # "file"  THEN Err("MakeUnread")
      ELSE IF mise.node # "file" THEN Err("MiseUnread")
      ELSE IF ~ rust.ok          THEN Err("CargoMissing")
      ELSE IF ~ tool.ok          THEN Err("MiseMissing")
      ELSE IF ~ make.ok          THEN Err("MakeMissing")
      ELSE IF rust.value = tool.value /\ tool.value = make.value THEN Ok(rust.value)
      ELSE Err("PinsDisagree")

Setup ==
  IF WorkspaceRoot.ok THEN Verify(manifests[WorkspaceRoot.value].lines) ELSE WorkspaceRoot

-----------------------------------------------------------------------------
Blank(node) == [node |-> node, lines |-> <<>>]

Init ==
  /\ manifests = <<>>
  /\ makefile \in {Blank("missing"), Blank("file")}
  /\ mise \in {Blank("missing"), Blank("file")}

Written ==
  FoldFunction(+, Len(makefile.lines) + Len(mise.lines),
               [i \in DOMAIN manifests |-> Len(manifests[i].lines)])

\* One more directory above those there are, which WorkspaceRoot may climb to.
AddDirectory(m) ==
  /\ Len(manifests) < MaxDepth
  /\ manifests' = Append(manifests, m)
  /\ UNCHANGED <<makefile, mise>>

CanWrite(file) == file.node = "file" /\ Written < MaxLines

WriteCargo(line) ==
  LET top == Len(manifests)
  IN  /\ top > 0 /\ CanWrite(manifests[top])
      /\ manifests' = [manifests EXCEPT ![top].lines = Append(@, line)]
      /\ UNCHANGED <<makefile, mise>>

WriteMake(line) ==
  /\ CanWrite(makefile)
  /\ makefile' = [makefile EXCEPT !.lines = Append(@, line)]
  /\ UNCHANGED <<manifests, mise>>

WriteMise(line) ==
  /\ CanWrite(mise)
  /\ mise' = [mise EXCEPT !.lines = Append(@, line)]
  /\ UNCHANGED <<manifests, makefile>>

Next ==
  \/ \E node \in {"missing", "unreadable", "file"} : AddDirectory(Blank(node))
  \/ \E line \in CargoLines : WriteCargo(line)
  \/ \E line \in MakeLines : WriteMake(line)
  \/ \E line \in MiseLines : WriteMise(line)

Spec == Init /\ [][Next]_vars

-----------------------------------------------------------------------------
Errors == {"NoWorkspace", "Unreadable", "MakeUnread", "MiseUnread", "CargoMissing",
           "MiseMissing", "MakeMissing", "PinsDisagree"}

TypeOK ==
  /\ manifests \in Seq(Manifest)
  /\ {makefile, mise} \subseteq Manifest
  /\ Setup \in {Ok(Value(l.version, "bare")) : l \in CargoLines} \cup {Err(e) : e \in Errors}

Assigns(lines, key, form, version) ==
  \E i \in DOMAIN lines : lines[i] = [key |-> key, form |-> form, version |-> version]

Assignments(lines, key) == {i \in DOMAIN lines : lines[i].key = key}

\* Nothing is checked against a file that does not declare the version: the gate
\* passes only if the nearest workspace, the tool configuration and the Makefile
\* each assign the one version it compared.
PassMeansOneVersion ==
  Setup.ok =>
    \E version \in {l.version : l \in CargoLines}, i \in DOMAIN manifests :
      /\ Declares(manifests[i])
      /\ \A j \in 1 .. i - 1 : manifests[j].node # "unreadable" /\ ~ Declares(manifests[j])
      /\ Assigns(manifests[i].lines, "rust-version", "quoted", version)
      /\ Assigns(mise.lines, "rust", "quoted", version)
      /\ Assigns(makefile.lines, "RUST_TOOLCHAIN", "bare", version)

\* Files that each assign their key once, in the form of their format, are
\* compared and nothing else: whatever other lines say, and in any order.
SinglePinsAreCompared ==
  \A v, w, x \in {l.version : l \in CargoLines} :
    /\ Len(manifests) = 1 /\ Declares(manifests[1])
    /\ Cardinality(Assignments(manifests[1].lines, "rust-version")) = 1
    /\ Cardinality(Assignments(mise.lines, "rust")) = 1
    /\ Cardinality(Assignments(makefile.lines, "RUST_TOOLCHAIN")) = 1
    /\ Assigns(manifests[1].lines, "rust-version", "quoted", v)
    /\ Assigns(mise.lines, "rust", "quoted", w)
    /\ Assigns(makefile.lines, "RUST_TOOLCHAIN", "bare", x)
    => (Setup.ok <=> v = w /\ w = x)

\* A verdict that passes is not undone by lines below the pins it rests on, nor
\* by what lies above the workspace.
VerdictSettles == [][Setup.ok => Setup' = Setup]_vars
=============================================================================
