-------------------------- MODULE WorkspaceProofs --------------------------
(***************************************************************************)
(* Proofs about module Workspace, for files of every length and any number *)
(* of directories: the gate passes for one version only, that of the       *)
(* nearest workspace, and lines below the pins do not change the verdict.  *)
(***************************************************************************)
EXTENDS Workspace, FiniteSetTheorems, WellFoundedInduction, SequenceTheorems, TLAPS

-----------------------------------------------------------------------------
\* The first of several places.

\* A set of places that is not empty has a first one.
LEMMA FirstPlace ==
  ASSUME NEW S \in SUBSET Nat, S # {}
  PROVE  Min(S) \in S /\ \A j \in S : Min(S) =< j
<1> DEFINE R == OpToRel(<, Nat)
<1>1. IsWellFoundedOn(R, Nat)
  BY NatLessThanWellFounded
<1>2. PICK k \in S : \A j \in S : <<j, k>> \notin R
  <2> HIDE DEF R
  <2> QED BY <1>1, WFMin
<1>3. \A j \in S : ~ (j < k)
  BY <1>2 DEF OpToRel
<1>4. \A j \in S : k =< j
  BY <1>3
<1> QED BY <1>4 DEF Min

\* What is least in a set is its minimum.
LEMMA FirstPlaceIsUnique ==
  ASSUME NEW S \in SUBSET Nat, NEW k \in S, \A j \in S : k =< j
  PROVE  Min(S) = k
<1> DEFINE m == Min(S)
<1>1. m \in S /\ m =< k /\ k =< m
  BY FirstPlace
<1>2. m \in Nat /\ k \in Nat
  BY <1>1
<1> HIDE DEF m
<1>3. m = k
  BY <1>1, <1>2
<1> QED BY <1>3 DEF m

\* Places that are added behind the others leave the first one the first.
LEMMA FirstPlaceStays ==
  ASSUME NEW S \in SUBSET Nat, S # {}, NEW T \in SUBSET Nat,
         S \subseteq T, \A j \in T \ S : Min(S) =< j
  PROVE  Min(T) = Min(S)
<1>1. Min(S) \in T /\ \A j \in T : Min(S) =< j
  BY FirstPlace
<1> HIDE DEF Min
<1> QED BY <1>1, FirstPlaceIsUnique

-----------------------------------------------------------------------------
\* The pins of a file.

\* The line a search stops at is one it looks for.
LEMMA FoundLine ==
  ASSUME NEW lines \in Seq(Line), NEW found \in SUBSET DOMAIN lines, FirstOf(lines, found).ok
  PROVE  /\ Min(found) \in found /\ Min(found) \in DOMAIN lines
         /\ FirstOf(lines, found).value = lines[Min(found)]
         /\ lines[Min(found)] \in Line
<1>1. found # {} /\ FirstOf(lines, found).value = lines[Min(found)]
  BY DEF FirstOf, Ok, Err
<1>2. found \in SUBSET Nat /\ DOMAIN lines = 1 .. Len(lines)
  OBVIOUS
<1>3. Min(found) \in found
  BY <1>1, <1>2, FirstPlace
<1> QED BY <1>1, <1>2, <1>3, ElementOfSeq

\* A pin that a TOML file has is a line that assigns the key a version in quotes.
LEMMA TomlPinIsAssigned ==
  ASSUME NEW lines \in Seq(Line), NEW key, TomlValue(lines, key).ok
  PROVE  \E i \in DOMAIN lines :
           /\ lines[i] = [key |-> key, form |-> "quoted", version |-> lines[i].version]
           /\ TomlValue(lines, key).value = Value(lines[i].version, "bare")
<1> DEFINE found == TomlPins(lines, key)
           i     == Min(found)
<1>1. FirstOf(lines, found).ok
  BY DEF TomlValue, FirstOf, Ok, Err
<1>2. found \in SUBSET DOMAIN lines
  BY DEF TomlPins
<1>3. /\ i \in found /\ i \in DOMAIN lines
      /\ FirstOf(lines, found).value = lines[i] /\ lines[i] \in Line
  <2> HIDE DEF found
  <2> QED BY <1>1, <1>2, FoundLine
<1>4. lines[i].key = key /\ lines[i].form = "quoted"
  <2> HIDE DEF i
  <2> QED BY <1>3 DEF TomlPins
<1>5. TomlValue(lines, key).value = Value(lines[i].version, "bare")
  <2> HIDE DEF i
  <2> QED BY <1>1, <1>3 DEF TomlValue, Ok
<1> HIDE DEF i
<1> QED BY <1>3, <1>4, <1>5 DEF Line

\* A pin that a Makefile has is a line that assigns the key, in any form.
LEMMA MakePinIsAssigned ==
  ASSUME NEW lines \in Seq(Line), NEW key, MakeValue(lines, key).ok
  PROVE  \E i \in DOMAIN lines :
           /\ lines[i] = [key |-> key, form |-> lines[i].form, version |-> lines[i].version]
           /\ lines[i].form # "word"
           /\ MakeValue(lines, key).value = Value(lines[i].version, lines[i].form)
<1> DEFINE found == MakePins(lines, key)
           i     == Min(found)
<1>1. FirstOf(lines, found).ok
  BY DEF MakeValue, FirstOf, Ok, Err
<1>2. found \in SUBSET DOMAIN lines
  BY DEF MakePins
<1>3. /\ i \in found /\ i \in DOMAIN lines
      /\ FirstOf(lines, found).value = lines[i] /\ lines[i] \in Line
  <2> HIDE DEF found
  <2> QED BY <1>1, <1>2, FoundLine
<1>4. lines[i].key = key /\ lines[i].form # "word"
  <2> HIDE DEF i
  <2> QED BY <1>3 DEF MakePins
<1>5. MakeValue(lines, key).value = Value(lines[i].version, lines[i].form)
  <2> HIDE DEF i
  <2> QED BY <1>1, <1>3 DEF MakeValue, Ok
<1> HIDE DEF i
<1> QED BY <1>3, <1>4, <1>5 DEF Line

\* A pin that was found is found whatever is written below it.
LEMMA TomlPinStays ==
  ASSUME NEW lines \in Seq(Line), NEW key, NEW line \in Line, TomlValue(lines, key).ok
  PROVE  TomlValue(Append(lines, line), key) = TomlValue(lines, key)
<1> DEFINE longer == Append(lines, line)
           found  == TomlPins(lines, key)
           more   == TomlPins(longer, key)
<1>1. /\ longer \in Seq(Line) /\ Len(longer) = Len(lines) + 1 /\ Len(lines) \in Nat
      /\ DOMAIN longer = 1 .. Len(lines) + 1 /\ DOMAIN lines = 1 .. Len(lines)
      /\ \A i \in DOMAIN lines : longer[i] = lines[i]
  BY AppendProperties
<1>2. found # {} /\ found \in SUBSET Nat /\ found \subseteq DOMAIN lines
  BY <1>1 DEF TomlValue, FirstOf, Ok, Err, TomlPins
<1>3. more \in SUBSET Nat /\ found \subseteq more /\ more \ found \subseteq {Len(lines) + 1}
  <2> HIDE DEF longer
  <2>1. more \subseteq DOMAIN longer
    BY DEF TomlPins
  <2>2. ASSUME NEW i \in DOMAIN lines
        PROVE  i \in DOMAIN longer /\ (i \in more <=> i \in found)
    <3>1. i \in DOMAIN longer /\ longer[i] = lines[i]
      BY <1>1
    <3> QED BY <3>1 DEF TomlPins
  <2> HIDE DEF found, more
  <2>3. found \subseteq more
    BY <1>2, <2>2
  <2>4. more \in SUBSET Nat
    BY <1>1, <2>1
  <2>5. \A i \in more \ found : i \in DOMAIN longer /\ i \notin DOMAIN lines
    BY <2>1, <2>2
  <2>6. \A i \in more \ found : i = Len(lines) + 1
    BY <1>1, <2>5
  <2>7. more \ found \subseteq {Len(lines) + 1}
    BY <2>6
  <2> QED BY <2>3, <2>4, <2>7
<1>4. Min(found) \in DOMAIN lines
  <2> HIDE DEF found
  <2> QED BY <1>2, FirstPlace
<1>5. Min(more) = Min(found)
  <2> HIDE DEF found, more, longer
  <2>1. \A j \in more \ found : Min(found) =< j
    BY <1>1, <1>3, <1>4
  <2> QED BY <1>2, <1>3, <2>1, FirstPlaceStays
<1>6. longer[Min(more)] = lines[Min(found)]
  <2> HIDE DEF found, more, longer
  <2> QED BY <1>1, <1>4, <1>5
<1>7. FirstOf(longer, more) = FirstOf(lines, found)
  <2>1. more # {}
    BY <1>2, <1>3
  <2> HIDE DEF found, more, longer
  <2> QED BY <1>2, <1>6, <2>1 DEF FirstOf
<1>8. TomlValue(longer, key) = TomlValue(lines, key)
  <2> HIDE DEF longer
  <2> QED BY <1>7 DEF TomlValue
<1> QED BY <1>8

\* A line at the end does not change a Make variable that was found.
LEMMA MakePinStays ==
  ASSUME NEW lines \in Seq(Line), NEW key, NEW line \in Line, MakeValue(lines, key).ok
  PROVE  MakeValue(Append(lines, line), key) = MakeValue(lines, key)
<1> DEFINE longer == Append(lines, line)
           found  == MakePins(lines, key)
           more   == MakePins(longer, key)
<1>1. /\ longer \in Seq(Line) /\ Len(longer) = Len(lines) + 1 /\ Len(lines) \in Nat
      /\ DOMAIN longer = 1 .. Len(lines) + 1 /\ DOMAIN lines = 1 .. Len(lines)
      /\ \A i \in DOMAIN lines : longer[i] = lines[i]
  BY AppendProperties
<1>2. found # {} /\ found \in SUBSET Nat /\ found \subseteq DOMAIN lines
  BY <1>1 DEF MakeValue, FirstOf, Ok, Err, MakePins
<1>3. more \in SUBSET Nat /\ found \subseteq more /\ more \ found \subseteq {Len(lines) + 1}
  <2> HIDE DEF longer
  <2>1. more \subseteq DOMAIN longer
    BY DEF MakePins
  <2>2. ASSUME NEW i \in DOMAIN lines
        PROVE  i \in DOMAIN longer /\ (i \in more <=> i \in found)
    <3>1. i \in DOMAIN longer /\ longer[i] = lines[i]
      BY <1>1
    <3> QED BY <3>1 DEF MakePins
  <2> HIDE DEF found, more
  <2>3. found \subseteq more
    BY <1>2, <2>2
  <2>4. more \in SUBSET Nat
    BY <1>1, <2>1
  <2>5. \A i \in more \ found : i \in DOMAIN longer /\ i \notin DOMAIN lines
    BY <2>1, <2>2
  <2>6. \A i \in more \ found : i = Len(lines) + 1
    BY <1>1, <2>5
  <2>7. more \ found \subseteq {Len(lines) + 1}
    BY <2>6
  <2> QED BY <2>3, <2>4, <2>7
<1>4. Min(found) \in DOMAIN lines
  <2> HIDE DEF found
  <2> QED BY <1>2, FirstPlace
<1>5. Min(more) = Min(found)
  <2> HIDE DEF found, more, longer
  <2>1. \A j \in more \ found : Min(found) =< j
    BY <1>1, <1>3, <1>4
  <2> QED BY <1>2, <1>3, <2>1, FirstPlaceStays
<1>6. longer[Min(more)] = lines[Min(found)]
  <2> HIDE DEF found, more, longer
  <2> QED BY <1>1, <1>4, <1>5
<1>7. FirstOf(longer, more) = FirstOf(lines, found)
  <2>1. more # {}
    BY <1>2, <1>3
  <2> HIDE DEF found, more, longer
  <2> QED BY <1>2, <1>6, <2>1 DEF FirstOf
<1>8. MakeValue(longer, key) = MakeValue(lines, key)
  <2> HIDE DEF longer
  <2> QED BY <1>7 DEF MakeValue
<1> QED BY <1>8

-----------------------------------------------------------------------------
\* The workspace that is found.

\* The root is the nearest directory whose Cargo.toml declares a workspace, and
\* every Cargo.toml below it could be read.
LEMMA RootIsNearest ==
  ASSUME manifests \in Seq(Manifest), WorkspaceRoot.ok
  PROVE  /\ WorkspaceRoot.value \in DOMAIN manifests
         /\ manifests[WorkspaceRoot.value].node # "unreadable"
         /\ Declares(manifests[WorkspaceRoot.value])
         /\ \A j \in DOMAIN manifests :
              Ends(manifests[j]) => WorkspaceRoot.value =< j
<1> DEFINE ends == {i \in DOMAIN manifests : Ends(manifests[i])}
           root == Min(ends)
<1>1. /\ ends # {} /\ manifests[root].node # "unreadable"
      /\ WorkspaceRoot = Ok(root)
  <2> HIDE DEF ends
  <2>1. WorkspaceRoot = IF ends = {} THEN Err("NoWorkspace")
                        ELSE IF manifests[Min(ends)].node = "unreadable" THEN Err("Unreadable")
                        ELSE Ok(Min(ends))
    BY DEF WorkspaceRoot, ends
  <2> QED BY <2>1 DEF Err, Ok
<1>2. WorkspaceRoot.value = root
  BY <1>1 DEF Ok
<1>3. ends \in SUBSET Nat
  <2>1. DOMAIN manifests = 1 .. Len(manifests)
    OBVIOUS
  <2> QED BY <2>1
<1>4. root \in ends /\ \A j \in ends : root =< j
  <2> HIDE DEF ends
  <2> QED BY <1>1, <1>3, FirstPlace
<1> HIDE DEF root
<1> QED BY <1>1, <1>2, <1>4 DEF Ends

\* What is written does not move the root: a directory at which the climb ended
\* goes on to end it, and the climb ends at no other below the root.
LEMMA RootStays ==
  ASSUME manifests \in Seq(Manifest), manifests' \in Seq(Manifest), WorkspaceRoot.ok,
         \A i \in DOMAIN manifests :
           Ends(manifests[i]) => /\ i \in DOMAIN manifests' /\ Ends(manifests'[i])
                                 /\ manifests'[i].node = manifests[i].node,
         \A j \in DOMAIN manifests' :
           /\ Ends(manifests'[j])
           /\ ~ (j \in DOMAIN manifests /\ Ends(manifests[j]))
           => WorkspaceRoot.value =< j
  PROVE  WorkspaceRoot' = WorkspaceRoot
<1> DEFINE ends == {i \in DOMAIN manifests : Ends(manifests[i])}
           more == {i \in DOMAIN manifests' : Ends(manifests'[i])}
           root == Min(ends)
<1>1. ends # {} /\ manifests[root].node # "unreadable" /\ WorkspaceRoot = Ok(root)
  <2> HIDE DEF ends
  <2>1. WorkspaceRoot = IF ends = {} THEN Err("NoWorkspace")
                        ELSE IF manifests[Min(ends)].node = "unreadable" THEN Err("Unreadable")
                        ELSE Ok(Min(ends))
    BY DEF WorkspaceRoot, ends
  <2> QED BY <2>1 DEF Err, Ok
<1>2. WorkspaceRoot.value = root
  BY <1>1 DEF Ok
<1>3. ends \in SUBSET Nat /\ more \in SUBSET Nat
  <2>1. DOMAIN manifests = 1 .. Len(manifests) /\ DOMAIN manifests' = 1 .. Len(manifests')
    OBVIOUS
  <2> QED BY <2>1
<1>4. ends \subseteq more
  OBVIOUS
<1>5. root \in ends
  <2> HIDE DEF ends
  <2> QED BY <1>1, <1>3, FirstPlace
<1>6. \A j \in more \ ends : root =< j
  <2> HIDE DEF root
  <2> QED BY <1>2
<1>7. Min(more) = root
  <2> HIDE DEF ends, more
  <2> QED BY <1>1, <1>3, <1>4, <1>6, FirstPlaceStays
<1>8. manifests'[root].node = manifests[root].node
  <2> HIDE DEF root
  <2> QED BY <1>5
<1>9. WorkspaceRoot' = IF more = {} THEN Err("NoWorkspace")
                       ELSE IF manifests'[Min(more)].node = "unreadable" THEN Err("Unreadable")
                       ELSE Ok(Min(more))
  BY DEF WorkspaceRoot
<1> HIDE DEF ends, more
<1> QED BY <1>1, <1>4, <1>7, <1>8, <1>9

-----------------------------------------------------------------------------
\* The verdict on the pins.

\* The gate passes only with three pins whose values are one.
LEMMA PassNeedsThePins ==
  ASSUME NEW cargo, Verify(cargo).ok
  PROVE  /\ makefile.node = "file" /\ mise.node = "file"
         /\ TomlValue(cargo, "rust-version").ok
         /\ TomlValue(mise.lines, "rust").ok
         /\ MakeValue(makefile.lines, "RUST_TOOLCHAIN").ok
         /\ TomlValue(cargo, "rust-version").value = TomlValue(mise.lines, "rust").value
         /\ TomlValue(mise.lines, "rust").value
              = MakeValue(makefile.lines, "RUST_TOOLCHAIN").value
         /\ Verify(cargo) = Ok(TomlValue(cargo, "rust-version").value)
<1> DEFINE rust == TomlValue(cargo, "rust-version")
           tool == TomlValue(mise.lines, "rust")
           make == MakeValue(makefile.lines, "RUST_TOOLCHAIN")
<1>1. Verify(cargo) =
        IF makefile.node # "file"  THEN Err("MakeUnread")
        ELSE IF mise.node # "file" THEN Err("MiseUnread")
        ELSE IF ~ rust.ok          THEN Err("CargoMissing")
        ELSE IF ~ tool.ok          THEN Err("MiseMissing")
        ELSE IF ~ make.ok          THEN Err("MakeMissing")
        ELSE IF rust.value = tool.value /\ tool.value = make.value THEN Ok(rust.value)
        ELSE Err("PinsDisagree")
  BY DEF Verify
<1>2. \A e : ~ Err(e).ok
  BY DEF Err
<1> HIDE DEF rust, tool, make
<1>3. /\ makefile.node = "file" /\ mise.node = "file" /\ rust.ok /\ tool.ok /\ make.ok
      /\ rust.value = tool.value /\ tool.value = make.value
      /\ Verify(cargo) = Ok(rust.value)
  BY <1>1, <1>2
<1> QED BY <1>3 DEF rust, tool, make

\* A setup that passes found the workspace and verified its pins.
LEMMA PassNeedsARoot ==
  ASSUME Setup.ok
  PROVE  /\ WorkspaceRoot.ok
         /\ Setup = Verify(manifests[WorkspaceRoot.value].lines)
<1>1. CASE WorkspaceRoot.ok
  BY <1>1 DEF Setup
<1>2. CASE ~ WorkspaceRoot.ok
  <2>1. Setup = WorkspaceRoot
    BY <1>2 DEF Setup
  <2> QED BY <1>2, <2>1
<1> QED BY <1>1, <1>2

-----------------------------------------------------------------------------
\* What is in the files: nothing but a regular file that was read has lines.

FilesAreTyped ==
  /\ manifests \in Seq(Manifest)
  /\ makefile \in Manifest
  /\ mise \in Manifest

CargoHasItsLines == \A i \in DOMAIN manifests : manifests[i].lines \in Seq(CargoLines)

WorkspaceInv == FilesAreTyped /\ CargoHasItsLines

\* A file that was not written yet is a file without lines,
LEMMA BlankIsManifest ==
  ASSUME NEW node \in {"missing", "unreadable", "file"}
  PROVE  Blank(node) \in Manifest /\ Blank(node).lines = <<>>
BY DEF Blank, Manifest

\* and every file has lines.
LEMMA ManifestHasLines ==
  ASSUME NEW m \in Manifest
  PROVE  m.lines \in Seq(Line) /\ m.node \in {"missing", "unreadable", "file"}
<1>1. CASE m \in [node : {"missing", "unreadable"}, lines : {<<>>}]
  <2>1. m.lines = <<>> /\ m.node \in {"missing", "unreadable"}
    BY <1>1
  <2> QED BY <2>1
<1>2. CASE m \in [node : {"file"}, lines : Seq(Line)]
  BY <1>2
<1> QED BY <1>1, <1>2 DEF Manifest

\* A line more leaves a file a file.
LEMMA WrittenFile ==
  ASSUME NEW m \in Manifest, m.node = "file", NEW line \in Line
  PROVE  [m EXCEPT !.lines = Append(@, line)] \in Manifest
<1>1. m \in [node : {"file"}, lines : Seq(Line)] \/ m \in [node : {"file"}, lines : {<<>>}]
  BY DEF Manifest
<1>2. Append(m.lines, line) \in Seq(Line)
  BY ManifestHasLines, AppendProperties
<1> QED BY <1>1, <1>2 DEF Manifest

\* The files start in the invariant,
LEMMA WorkspaceInvInit == Init => WorkspaceInv
<1> SUFFICES ASSUME Init
             PROVE  WorkspaceInv
  OBVIOUS
<1>1. manifests \in Seq(Manifest) /\ manifests \in Seq({}) /\ DOMAIN manifests = {}
  BY DEF Init
<1>2. makefile \in Manifest /\ mise \in Manifest
  BY BlankIsManifest DEF Init
<1> QED BY <1>1, <1>2 DEF WorkspaceInv, FilesAreTyped, CargoHasItsLines

\* What each action does to the manifests.
LEMMA AddDirectoryAdds ==
  ASSUME WorkspaceInv, NEW node \in {"missing", "unreadable", "file"}, AddDirectory(Blank(node))
  PROVE  /\ manifests' \in Seq(Manifest) /\ Len(manifests') = Len(manifests) + 1
         /\ DOMAIN manifests' = 1 .. Len(manifests) + 1
         /\ DOMAIN manifests = 1 .. Len(manifests) /\ Len(manifests) \in Nat
         /\ \A i \in DOMAIN manifests : manifests'[i] = manifests[i]
         /\ manifests'[Len(manifests) + 1] = Blank(node)
<1>1. manifests \in Seq(Manifest) /\ Blank(node) \in Manifest
  BY BlankIsManifest DEF WorkspaceInv, FilesAreTyped
<1>2. manifests' = Append(manifests, Blank(node))
  BY DEF AddDirectory
<1> HIDE DEF Manifest
<1> QED BY <1>1, <1>2, AppendProperties

\* A line of a Cargo.toml is added to the last of them, and to no other.
LEMMA WriteCargoAdds ==
  ASSUME WorkspaceInv, NEW line \in CargoLines, WriteCargo(line)
  PROVE  LET top == Len(manifests)
         IN  /\ top \in DOMAIN manifests /\ DOMAIN manifests = 1 .. top /\ top \in Nat
             /\ manifests[top].node = "file"
             /\ manifests' \in Seq(Manifest) /\ DOMAIN manifests' = DOMAIN manifests
             /\ \A i \in DOMAIN manifests : i # top => manifests'[i] = manifests[i]
             /\ manifests'[top].node = manifests[top].node
             /\ manifests'[top].lines = Append(manifests[top].lines, line)
<1> DEFINE top  == Len(manifests)
           file == [manifests[top] EXCEPT !.lines = Append(@, line)]
<1>1. manifests \in Seq(Manifest) /\ line \in Line
  BY WorkspaceAssumption DEF WorkspaceInv, FilesAreTyped
<1>2. top \in Nat /\ DOMAIN manifests = 1 .. top /\ top > 0
  BY <1>1 DEF WriteCargo
<1>3. top \in DOMAIN manifests
  <2> HIDE DEF top
  <2> QED BY <1>2
<1>4. manifests[top].node = "file" /\ manifests' = [manifests EXCEPT ![top] = file]
  BY DEF WriteCargo, CanWrite
<1>5. manifests[top] \in Manifest
  BY <1>1, <1>3, ElementOfSeq
<1>6. file \in Manifest
  BY <1>1, <1>4, <1>5, WrittenFile
<1>7. /\ file.node = manifests[top].node
      /\ file.lines = Append(manifests[top].lines, line)
  BY <1>5 DEF Manifest
<1> HIDE DEF file, top
<1>8. manifests' \in Seq(Manifest) /\ DOMAIN manifests' = DOMAIN manifests
  BY <1>1, <1>3, <1>4, <1>6, ExceptSeq
<1>9. /\ manifests'[top] = file
      /\ \A i \in DOMAIN manifests : i # top => manifests'[i] = manifests[i]
  BY <1>3, <1>4
<1> QED BY <1>2, <1>3, <1>4, <1>7, <1>8, <1>9 DEF top

\* and every step keeps it.
LEMMA WorkspaceInvStep == WorkspaceInv /\ [Next]_vars => WorkspaceInv'
<1> SUFFICES ASSUME WorkspaceInv, [Next]_vars
             PROVE  WorkspaceInv'
  OBVIOUS
<1>1. ASSUME NEW node \in {"missing", "unreadable", "file"}, AddDirectory(Blank(node))
      PROVE  WorkspaceInv'
  <2> DEFINE n == Len(manifests)
  <2>1. /\ manifests' \in Seq(Manifest) /\ DOMAIN manifests' = 1 .. n + 1
        /\ DOMAIN manifests = 1 .. n /\ n \in Nat
        /\ \A i \in DOMAIN manifests : manifests'[i] = manifests[i]
        /\ manifests'[n + 1] = Blank(node)
    BY <1>1, AddDirectoryAdds
  <2> HIDE DEF n
  <2>2. ASSUME NEW i \in DOMAIN manifests'
        PROVE  manifests'[i].lines \in Seq(CargoLines)
    <3>1. CASE i \in DOMAIN manifests
      BY <2>1, <3>1 DEF WorkspaceInv, CargoHasItsLines
    <3>2. CASE i = n + 1
      <4>1. manifests'[i].lines = <<>>
        BY <2>1, <3>2, BlankIsManifest
      <4> QED BY <4>1
    <3> QED BY <2>1, <3>1, <3>2
  <2>3. makefile' \in Manifest /\ mise' \in Manifest
    BY <1>1 DEF AddDirectory, WorkspaceInv, FilesAreTyped
  <2> QED BY <2>1, <2>2, <2>3 DEF WorkspaceInv, FilesAreTyped, CargoHasItsLines
<1>2. ASSUME NEW line \in CargoLines, WriteCargo(line)
      PROVE  WorkspaceInv'
  <2> DEFINE top == Len(manifests)
  <2>1. /\ top \in DOMAIN manifests
        /\ manifests' \in Seq(Manifest) /\ DOMAIN manifests' = DOMAIN manifests
        /\ \A i \in DOMAIN manifests : i # top => manifests'[i] = manifests[i]
        /\ manifests'[top].lines = Append(manifests[top].lines, line)
    BY <1>2, WriteCargoAdds
  <2> HIDE DEF top
  <2>2. ASSUME NEW i \in DOMAIN manifests'
        PROVE  manifests'[i].lines \in Seq(CargoLines)
    <3>1. manifests[i].lines \in Seq(CargoLines)
      BY <2>1 DEF WorkspaceInv, CargoHasItsLines
    <3>2. Append(manifests[i].lines, line) \in Seq(CargoLines)
      BY <1>2, <3>1, AppendProperties
    <3> QED BY <2>1, <3>1, <3>2
  <2>3. makefile' \in Manifest /\ mise' \in Manifest
    BY <1>2 DEF WriteCargo, WorkspaceInv, FilesAreTyped
  <2> QED BY <2>1, <2>2, <2>3 DEF WorkspaceInv, FilesAreTyped, CargoHasItsLines
<1>3. ASSUME NEW line \in MakeLines, WriteMake(line)
      PROVE  WorkspaceInv'
  <2>1. makefile' \in Manifest
    <3>1. makefile' = [makefile EXCEPT !.lines = Append(@, line)] /\ makefile.node = "file"
      BY <1>3 DEF WriteMake, CanWrite
    <3> QED BY <1>3, <3>1, WrittenFile, WorkspaceAssumption DEF WorkspaceInv, FilesAreTyped
  <2> QED BY <1>3, <2>1 DEF WriteMake, WorkspaceInv, FilesAreTyped, CargoHasItsLines
<1>4. ASSUME NEW line \in MiseLines, WriteMise(line)
      PROVE  WorkspaceInv'
  <2>1. mise' \in Manifest
    <3>1. mise' = [mise EXCEPT !.lines = Append(@, line)] /\ mise.node = "file"
      BY <1>4 DEF WriteMise, CanWrite
    <3> QED BY <1>4, <3>1, WrittenFile, WorkspaceAssumption DEF WorkspaceInv, FilesAreTyped
  <2> QED BY <1>4, <2>1 DEF WriteMise, WorkspaceInv, FilesAreTyped, CargoHasItsLines
<1>5. CASE UNCHANGED vars
  BY <1>5 DEF vars, WorkspaceInv, FilesAreTyped, CargoHasItsLines
<1> QED BY <1>1, <1>2, <1>3, <1>4, <1>5 DEF Next

\* So the invariant of the files holds.
LEMMA WorkspaceInvHolds == Spec => []WorkspaceInv
BY WorkspaceInvInit, WorkspaceInvStep, PTL DEF Spec

-----------------------------------------------------------------------------
\* What a passing gate rests on: the root and the three lines that are compared.

\* What a setup that passes rests on: one line of each of three files, with one
\* version.
LEMMA PassRestsOn ==
  ASSUME WorkspaceInv, Setup.ok
  PROVE  \E root \in DOMAIN manifests : \E r \in DOMAIN manifests[root].lines,
            t \in DOMAIN mise.lines, k \in DOMAIN makefile.lines :
           LET version == manifests[root].lines[r].version
           IN  /\ Declares(manifests[root])
               /\ \A j \in DOMAIN manifests : Ends(manifests[j]) => root =< j
               /\ manifests[root].lines \in Seq(CargoLines)
               /\ manifests[root].lines[r]
                    = [key |-> "rust-version", form |-> "quoted", version |-> version]
               /\ mise.lines[t] = [key |-> "rust", form |-> "quoted", version |-> version]
               /\ makefile.lines[k]
                    = [key |-> "RUST_TOOLCHAIN", form |-> "bare", version |-> version]
               /\ Setup = Ok(Value(version, "bare"))
<1> DEFINE root == WorkspaceRoot.value
           cargo == manifests[root].lines
<1>1. /\ WorkspaceRoot.ok /\ Setup = Verify(cargo) /\ Verify(cargo).ok
  BY PassNeedsARoot
<1>2. /\ root \in DOMAIN manifests /\ Declares(manifests[root])
      /\ \A j \in DOMAIN manifests : Ends(manifests[j]) => root =< j
  BY <1>1, RootIsNearest DEF WorkspaceInv, FilesAreTyped
<1>3. cargo \in Seq(CargoLines) /\ cargo \in Seq(Line)
  <2>1. cargo \in Seq(CargoLines)
    BY <1>2 DEF WorkspaceInv, CargoHasItsLines
  <2>2. manifests[root] \in Manifest
    BY <1>2, ElementOfSeq DEF WorkspaceInv, FilesAreTyped
  <2> QED BY <2>1, <2>2, ManifestHasLines
<1>4. mise.lines \in Seq(Line) /\ makefile.lines \in Seq(Line)
  BY ManifestHasLines DEF WorkspaceInv, FilesAreTyped
<1> HIDE DEF root, cargo
<1> DEFINE rust == TomlValue(cargo, "rust-version")
           tool == TomlValue(mise.lines, "rust")
           make == MakeValue(makefile.lines, "RUST_TOOLCHAIN")
<1>5. /\ rust.ok /\ tool.ok /\ make.ok
      /\ rust.value = tool.value /\ tool.value = make.value
      /\ Verify(cargo) = Ok(rust.value)
  BY <1>1, PassNeedsThePins
<1>6. PICK r \in DOMAIN cargo :
        /\ cargo[r] = [key |-> "rust-version", form |-> "quoted", version |-> cargo[r].version]
        /\ rust.value = Value(cargo[r].version, "bare")
  BY <1>3, <1>5, TomlPinIsAssigned
<1>7. PICK t \in DOMAIN mise.lines :
        /\ mise.lines[t] = [key |-> "rust", form |-> "quoted", version |-> mise.lines[t].version]
        /\ tool.value = Value(mise.lines[t].version, "bare")
  BY <1>4, <1>5, TomlPinIsAssigned
<1>8. PICK k \in DOMAIN makefile.lines :
        /\ makefile.lines[k] = [key |-> "RUST_TOOLCHAIN", form |-> makefile.lines[k].form,
                                version |-> makefile.lines[k].version]
        /\ make.value = Value(makefile.lines[k].version, makefile.lines[k].form)
  BY <1>4, <1>5, MakePinIsAssigned
<1>9. /\ cargo[r].version = mise.lines[t].version
      /\ cargo[r].version = makefile.lines[k].version
      /\ makefile.lines[k].form = "bare"
  <2> HIDE DEF rust, tool, make
  <2>1. /\ Value(cargo[r].version, "bare") = Value(mise.lines[t].version, "bare")
        /\ Value(cargo[r].version, "bare")
             = Value(makefile.lines[k].version, makefile.lines[k].form)
    BY <1>5, <1>6, <1>7, <1>8
  <2>2. ASSUME NEW v, NEW w, NEW f, NEW g, Value(v, f) = Value(w, g)
        PROVE  v = w /\ f = g
    <3>1. Value(v, f).version = v /\ Value(v, f).form = f
      BY DEF Value
    <3>2. Value(w, g).version = w /\ Value(w, g).form = g
      BY DEF Value
    <3> QED BY <2>2, <3>1, <3>2
  <2> QED BY <2>1, <2>2
<1>10. Setup = Ok(Value(cargo[r].version, "bare"))
  BY <1>1, <1>5, <1>6
<1> DEFINE version == cargo[r].version
<1>11. /\ Declares(manifests[root])
       /\ \A j \in DOMAIN manifests : Ends(manifests[j]) => root =< j
       /\ cargo \in Seq(CargoLines)
       /\ cargo[r] = [key |-> "rust-version", form |-> "quoted", version |-> version]
       /\ mise.lines[t] = [key |-> "rust", form |-> "quoted", version |-> version]
       /\ makefile.lines[k] = [key |-> "RUST_TOOLCHAIN", form |-> "bare", version |-> version]
       /\ Setup = Ok(Value(version, "bare"))
  BY <1>2, <1>3, <1>6, <1>7, <1>8, <1>9, <1>10
<1> QED BY <1>2, <1>11 DEF cargo

-----------------------------------------------------------------------------
\* A verdict that does not pass is one of the errors.
LEMMA FailureIsAnError ==
  ASSUME ~ Setup.ok
  PROVE  Setup \in {Err(e) : e \in Errors}
<1>1. \A v : Ok(v).ok
  BY DEF Ok
<1>2. CASE WorkspaceRoot.ok
  <2> DEFINE cargo == manifests[WorkspaceRoot.value].lines
             rust == TomlValue(cargo, "rust-version")
             tool == TomlValue(mise.lines, "rust")
             make == MakeValue(makefile.lines, "RUST_TOOLCHAIN")
  <2>1. Setup =
          IF makefile.node # "file"  THEN Err("MakeUnread")
          ELSE IF mise.node # "file" THEN Err("MiseUnread")
          ELSE IF ~ rust.ok          THEN Err("CargoMissing")
          ELSE IF ~ tool.ok          THEN Err("MiseMissing")
          ELSE IF ~ make.ok          THEN Err("MakeMissing")
          ELSE IF rust.value = tool.value /\ tool.value = make.value THEN Ok(rust.value)
          ELSE Err("PinsDisagree")
    BY <1>2 DEF Setup, Verify
  <2> HIDE DEF rust, tool, make
  <2> QED BY <1>1, <2>1 DEF Errors
<1>3. CASE ~ WorkspaceRoot.ok
  <2> DEFINE ends == {i \in DOMAIN manifests : Ends(manifests[i])}
  <2>1. /\ Setup = WorkspaceRoot
        /\ WorkspaceRoot = IF ends = {} THEN Err("NoWorkspace")
                           ELSE IF manifests[Min(ends)].node = "unreadable" THEN Err("Unreadable")
                           ELSE Ok(Min(ends))
    BY <1>3 DEF Setup, WorkspaceRoot
  <2> HIDE DEF ends
  <2> QED BY <1>1, <1>3, <2>1 DEF Errors
<1> QED BY <1>2, <1>3

\* The files hold lines only if they could be read, and the verdict names a
\* version of the manifest or one of the errors of discover.rs and toolchain.rs.
THEOREM TypeCorrect == Spec => []TypeOK
<1>1. ASSUME WorkspaceInv
      PROVE  TypeOK
  <2>1. CASE Setup.ok
    <3>1. PICK root \in DOMAIN manifests : \E r \in DOMAIN manifests[root].lines :
            /\ manifests[root].lines \in Seq(CargoLines)
            /\ Setup = Ok(Value(manifests[root].lines[r].version, "bare"))
      BY <1>1, <2>1, PassRestsOn
    <3>2. PICK r \in DOMAIN manifests[root].lines :
            Setup = Ok(Value(manifests[root].lines[r].version, "bare"))
      BY <3>1
    <3>3. manifests[root].lines[r] \in CargoLines
      BY <3>1, <3>2, ElementOfSeq
    <3> QED BY <1>1, <3>2, <3>3 DEF TypeOK, WorkspaceInv, FilesAreTyped
  <2>2. CASE ~ Setup.ok
    BY <1>1, <2>2, FailureIsAnError DEF TypeOK, WorkspaceInv, FilesAreTyped
  <2> QED BY <2>1, <2>2
<1> QED BY <1>1, WorkspaceInvHolds, PTL

\* toolchain::verify passes only for a workspace that is the nearest one and
\* three files that each assign the one version: a pin that is missing, out of
\* form or different never passes, whatever else the files say.
THEOREM OneVersionPasses == Spec => []PassMeansOneVersion
<1>1. ASSUME WorkspaceInv
      PROVE  PassMeansOneVersion
  <2> SUFFICES ASSUME Setup.ok
               PROVE  \E version \in {l.version : l \in CargoLines}, i \in DOMAIN manifests :
                        /\ Declares(manifests[i])
                        /\ \A j \in 1 .. i - 1 :
                             manifests[j].node # "unreadable" /\ ~ Declares(manifests[j])
                        /\ Assigns(manifests[i].lines, "rust-version", "quoted", version)
                        /\ Assigns(mise.lines, "rust", "quoted", version)
                        /\ Assigns(makefile.lines, "RUST_TOOLCHAIN", "bare", version)
    BY DEF PassMeansOneVersion
  <2>1. PICK i \in DOMAIN manifests : \E r \in DOMAIN manifests[i].lines,
            t \in DOMAIN mise.lines, k \in DOMAIN makefile.lines :
           LET version == manifests[i].lines[r].version
           IN  /\ Declares(manifests[i])
               /\ \A j \in DOMAIN manifests : Ends(manifests[j]) => i =< j
               /\ manifests[i].lines \in Seq(CargoLines)
               /\ manifests[i].lines[r]
                    = [key |-> "rust-version", form |-> "quoted", version |-> version]
               /\ mise.lines[t] = [key |-> "rust", form |-> "quoted", version |-> version]
               /\ makefile.lines[k]
                    = [key |-> "RUST_TOOLCHAIN", form |-> "bare", version |-> version]
    BY <1>1, PassRestsOn
  <2>2. PICK r \in DOMAIN manifests[i].lines,
            t \in DOMAIN mise.lines, k \in DOMAIN makefile.lines :
           LET version == manifests[i].lines[r].version
           IN  /\ Declares(manifests[i])
               /\ \A j \in DOMAIN manifests : Ends(manifests[j]) => i =< j
               /\ manifests[i].lines \in Seq(CargoLines)
               /\ manifests[i].lines[r]
                    = [key |-> "rust-version", form |-> "quoted", version |-> version]
               /\ mise.lines[t] = [key |-> "rust", form |-> "quoted", version |-> version]
               /\ makefile.lines[k]
                    = [key |-> "RUST_TOOLCHAIN", form |-> "bare", version |-> version]
    BY <2>1
  <2> DEFINE version == manifests[i].lines[r].version
  <2>3. version \in {l.version : l \in CargoLines}
    <3>1. manifests[i].lines[r] \in CargoLines
      BY <2>2, ElementOfSeq
    <3> QED BY <3>1
  <2>4. ASSUME NEW j \in 1 .. i - 1
        PROVE  manifests[j].node # "unreadable" /\ ~ Declares(manifests[j])
    <3>1. DOMAIN manifests = 1 .. Len(manifests) /\ Len(manifests) \in Nat
      BY <1>1 DEF WorkspaceInv, FilesAreTyped
    <3>2. j \in DOMAIN manifests /\ ~ (i =< j)
      BY <3>1
    <3> QED BY <2>2, <3>2 DEF Ends
  <2>5. /\ Assigns(manifests[i].lines, "rust-version", "quoted", version)
        /\ Assigns(mise.lines, "rust", "quoted", version)
        /\ Assigns(makefile.lines, "RUST_TOOLCHAIN", "bare", version)
    BY <2>2 DEF Assigns
  <2> HIDE DEF version
  <2> QED BY <2>2, <2>3, <2>4, <2>5
<1> QED BY <1>1, WorkspaceInvHolds, PTL

-----------------------------------------------------------------------------
\* Files that assign their key once.

\* The only assignment to a key is the first one.
LEMMA OnlyAssignment ==
  ASSUME NEW lines \in Seq(Line), NEW key, NEW i \in DOMAIN lines, lines[i].key = key,
         Cardinality(Assignments(lines, key)) = 1
  PROVE  Assignments(lines, key) = {i} /\ Min({i}) = i
<1>1. i \in Assignments(lines, key)
  BY DEF Assignments
<1>2. DOMAIN lines = 1 .. Len(lines) /\ Len(lines) \in Nat /\ i \in Nat
  OBVIOUS
<1>3. IsFiniteSet(Assignments(lines, key))
  <2>1. IsFiniteSet(DOMAIN lines)
    BY <1>2, FS_Interval
  <2>2. Assignments(lines, key) \subseteq DOMAIN lines
    BY DEF Assignments
  <2> QED BY <2>1, <2>2, FS_Subset
<1>4. Assignments(lines, key) = {i}
  BY <1>1, <1>3, FS_Singleton
<1>5. Min({i}) = i
  BY <1>2, FirstPlaceIsUnique
<1> QED BY <1>4, <1>5

\* So the only quoted assignment is the pin of a TOML file,
LEMMA OnlyTomlPin ==
  ASSUME NEW lines \in Seq(Line), NEW key, NEW version,
         Cardinality(Assignments(lines, key)) = 1, Assigns(lines, key, "quoted", version)
  PROVE  lines # <<>> /\ TomlValue(lines, key) = Ok(Value(version, "bare"))
<1>0. PICK i \in DOMAIN lines :
        lines[i] = [key |-> key, form |-> "quoted", version |-> version]
  BY DEF Assigns
<1>1. Assignments(lines, key) = {i} /\ Min({i}) = i
  <2>1. lines[i].key = key
    BY <1>0
  <2> QED BY <2>1, OnlyAssignment
<1>2. TomlPins(lines, key) = {i}
  <2>1. lines[i].key = key /\ lines[i].form = "quoted"
    BY <1>0
  <2>2. \A j \in DOMAIN lines : lines[j].key = key => j = i
    BY <1>1 DEF Assignments
  <2>3. i \in TomlPins(lines, key)
    BY <2>1 DEF TomlPins
  <2>4. TomlPins(lines, key) \subseteq {i}
    BY <2>2 DEF TomlPins
  <2> QED BY <2>3, <2>4
<1>3. FirstOf(lines, {i}) = Ok(lines[i])
  BY <1>0, <1>1 DEF FirstOf
<1>4. Ok(lines[i]).ok /\ Ok(lines[i]).value.version = version
  BY <1>0, <1>1 DEF Ok
<1>5. TomlValue(lines, key) = Ok(Value(version, "bare"))
  BY <1>2, <1>3, <1>4 DEF TomlValue
<1> QED BY <1>1, <1>5

\* and the only bare one is the pin of a Makefile.
LEMMA OnlyMakePin ==
  ASSUME NEW lines \in Seq(Line), NEW key, NEW version,
         Cardinality(Assignments(lines, key)) = 1, Assigns(lines, key, "bare", version)
  PROVE  lines # <<>> /\ MakeValue(lines, key) = Ok(Value(version, "bare"))
<1>0. PICK i \in DOMAIN lines :
        lines[i] = [key |-> key, form |-> "bare", version |-> version]
  BY DEF Assigns
<1>1. Assignments(lines, key) = {i} /\ Min({i}) = i
  <2>1. lines[i].key = key
    BY <1>0
  <2> QED BY <2>1, OnlyAssignment
<1>2. MakePins(lines, key) = {i}
  <2>1. lines[i].key = key /\ lines[i].form = "bare"
    BY <1>0
  <2>2. \A j \in DOMAIN lines : lines[j].key = key => j = i
    BY <1>1 DEF Assignments
  <2>3. i \in MakePins(lines, key)
    BY <2>1 DEF MakePins
  <2>4. MakePins(lines, key) \subseteq {i}
    BY <2>2 DEF MakePins
  <2> QED BY <2>3, <2>4
<1>3. FirstOf(lines, {i}) = Ok(lines[i])
  BY <1>0, <1>1 DEF FirstOf
<1>4. Ok(lines[i]).ok /\ Ok(lines[i]).value.version = version /\ Ok(lines[i]).value.form = "bare"
  BY <1>0, <1>1 DEF Ok
<1>5. MakeValue(lines, key) = Ok(Value(version, "bare"))
  BY <1>2, <1>3, <1>4 DEF MakeValue
<1> QED BY <1>1, <1>5

\* The only manifest that declares a workspace is the root.
LEMMA OnlyRoot ==
  ASSUME manifests \in Seq(Manifest), Len(manifests) = 1, Declares(manifests[1])
  PROVE  WorkspaceRoot = Ok(1)
<1> DEFINE ends == {i \in DOMAIN manifests : Ends(manifests[i])}
<1>1. DOMAIN manifests = {1} /\ manifests[1] \in Manifest
  OBVIOUS
<1>2. manifests[1].node # "unreadable"
  BY <1>1 DEF Declares, Manifest
<1>3. ends = {1}
  BY <1>1 DEF Ends
<1>4. Min({1}) = 1
  BY FirstPlaceIsUnique
<1>5. WorkspaceRoot = IF ends = {} THEN Err("NoWorkspace")
                      ELSE IF manifests[Min(ends)].node = "unreadable" THEN Err("Unreadable")
                      ELSE Ok(Min(ends))
  BY DEF WorkspaceRoot
<1> HIDE DEF ends
<1> QED BY <1>2, <1>3, <1>4, <1>5

\* Three files that each assign their key once, in the form of their format, are
\* compared by those assignments and nothing else.
THEOREM OnlyPinsCount == Spec => []SinglePinsAreCompared
<1>1. ASSUME WorkspaceInv
      PROVE  SinglePinsAreCompared
  <2> SUFFICES ASSUME NEW v \in {l.version : l \in CargoLines},
                      NEW w \in {l.version : l \in CargoLines},
                      NEW x \in {l.version : l \in CargoLines},
                      Len(manifests) = 1, Declares(manifests[1]),
                      Cardinality(Assignments(manifests[1].lines, "rust-version")) = 1,
                      Cardinality(Assignments(mise.lines, "rust")) = 1,
                      Cardinality(Assignments(makefile.lines, "RUST_TOOLCHAIN")) = 1,
                      Assigns(manifests[1].lines, "rust-version", "quoted", v),
                      Assigns(mise.lines, "rust", "quoted", w),
                      Assigns(makefile.lines, "RUST_TOOLCHAIN", "bare", x)
               PROVE  Setup.ok <=> v = w /\ w = x
    BY DEF SinglePinsAreCompared
  <2> DEFINE cargo == manifests[1].lines
  <2>1. WorkspaceRoot = Ok(1)
    BY <1>1, OnlyRoot DEF WorkspaceInv, FilesAreTyped
  <2>2. Setup = Verify(cargo)
    BY <2>1 DEF Setup, Ok
  <2>3. cargo \in Seq(Line) /\ mise.lines \in Seq(Line) /\ makefile.lines \in Seq(Line)
    <3>1. manifests[1] \in Manifest
      <4>1. manifests \in Seq(Manifest)
        BY <1>1 DEF WorkspaceInv, FilesAreTyped
      <4>2. 1 \in 1 .. Len(manifests)
        OBVIOUS
      <4> QED BY <4>1, <4>2, ElementOfSeq
    <3>2. mise \in Manifest /\ makefile \in Manifest
      BY <1>1 DEF WorkspaceInv, FilesAreTyped
    <3> QED BY <3>1, <3>2, ManifestHasLines
  <2>4. /\ TomlValue(cargo, "rust-version") = Ok(Value(v, "bare"))
        /\ TomlValue(mise.lines, "rust") = Ok(Value(w, "bare"))
        /\ MakeValue(makefile.lines, "RUST_TOOLCHAIN") = Ok(Value(x, "bare"))
        /\ mise.lines # <<>> /\ makefile.lines # <<>>
    BY <2>3, OnlyTomlPin, OnlyMakePin
  <2>5. makefile.node = "file" /\ mise.node = "file"
    BY <1>1, <2>4 DEF WorkspaceInv, FilesAreTyped, Manifest
  <2>6. /\ \A u : Ok(u).ok /\ Ok(u).value = u
        /\ \A e : ~ Err(e).ok
    BY DEF Ok, Err
  <2>7. \A p, q : Value(p, "bare") = Value(q, "bare") <=> p = q
    <3>1. \A p : Value(p, "bare").version = p
      BY DEF Value
    <3> QED BY <3>1
  <2> HIDE DEF cargo
  <2>8. Verify(cargo) = IF v = w /\ w = x THEN Ok(Value(v, "bare")) ELSE Err("PinsDisagree")
    BY <2>4, <2>5, <2>6, <2>7 DEF Verify
  <2> QED BY <2>2, <2>6, <2>8
<1> QED BY <1>1, WorkspaceInvHolds, PTL

-----------------------------------------------------------------------------
\* Lines below the pins.

\* A verdict depends on the root, the three pins and which files could be read.
LEMMA SameRootSamePins ==
  ASSUME Setup.ok, WorkspaceRoot' = WorkspaceRoot,
         makefile'.node = makefile.node, mise'.node = mise.node,
         TomlValue(manifests'[WorkspaceRoot.value].lines, "rust-version")
           = TomlValue(manifests[WorkspaceRoot.value].lines, "rust-version"),
         TomlValue(mise'.lines, "rust") = TomlValue(mise.lines, "rust"),
         MakeValue(makefile'.lines, "RUST_TOOLCHAIN")
           = MakeValue(makefile.lines, "RUST_TOOLCHAIN")
  PROVE  Setup' = Setup
<1> DEFINE cargo == manifests[WorkspaceRoot.value].lines
           rust  == TomlValue(cargo, "rust-version")
           tool  == TomlValue(mise.lines, "rust")
           make  == MakeValue(makefile.lines, "RUST_TOOLCHAIN")
<1>1. WorkspaceRoot.ok /\ Setup = Verify(cargo)
  BY PassNeedsARoot
<1>2. Setup' =
        IF makefile.node # "file"  THEN Err("MakeUnread")
        ELSE IF mise.node # "file" THEN Err("MiseUnread")
        ELSE IF ~ rust.ok          THEN Err("CargoMissing")
        ELSE IF ~ tool.ok          THEN Err("MiseMissing")
        ELSE IF ~ make.ok          THEN Err("MakeMissing")
        ELSE IF rust.value = tool.value /\ tool.value = make.value THEN Ok(rust.value)
        ELSE Err("PinsDisagree")
  <2>1. Setup' = IF WorkspaceRoot'.ok
                 THEN Verify(manifests[WorkspaceRoot.value].lines)'
                 ELSE WorkspaceRoot'
    BY DEF Setup
  <2>2. Verify(manifests[WorkspaceRoot.value].lines)' =
          LET aRust == TomlValue(manifests'[WorkspaceRoot'.value].lines, "rust-version")
              aTool == TomlValue(mise'.lines, "rust")
              aMake == MakeValue(makefile'.lines, "RUST_TOOLCHAIN")
          IN  IF makefile'.node # "file"  THEN Err("MakeUnread")
              ELSE IF mise'.node # "file" THEN Err("MiseUnread")
              ELSE IF ~ aRust.ok          THEN Err("CargoMissing")
              ELSE IF ~ aTool.ok          THEN Err("MiseMissing")
              ELSE IF ~ aMake.ok          THEN Err("MakeMissing")
              ELSE IF aRust.value = aTool.value /\ aTool.value = aMake.value
                THEN Ok(aRust.value)
              ELSE Err("PinsDisagree")
    BY DEF Verify
  <2>3. /\ TomlValue(manifests'[WorkspaceRoot'.value].lines, "rust-version") = rust
        /\ TomlValue(mise'.lines, "rust") = tool
        /\ MakeValue(makefile'.lines, "RUST_TOOLCHAIN") = make
    OBVIOUS
  <2> HIDE DEF rust, tool, make
  <2>4. WorkspaceRoot'.ok
    BY <1>1
  <2> QED BY <2>1, <2>2, <2>3, <2>4
<1>3. /\ makefile.node = "file" /\ mise.node = "file" /\ rust.ok /\ tool.ok /\ make.ok
      /\ rust.value = tool.value /\ tool.value = make.value
      /\ Setup = Ok(rust.value)
  BY <1>1, PassNeedsThePins
<1> HIDE DEF rust, tool, make
<1> QED BY <1>2, <1>3

\* A line below the lines of a file does not change a verdict that passes, nor
\* does a directory above the ones that were searched.
LEMMA VerdictStays == WorkspaceInv /\ Setup.ok /\ [Next]_vars => Setup' = Setup
<1> SUFFICES ASSUME WorkspaceInv, Setup.ok, [Next]_vars
             PROVE  Setup' = Setup
  OBVIOUS
<1> DEFINE root  == WorkspaceRoot.value
           cargo == manifests[root].lines
<1>1. /\ TomlValue(cargo, "rust-version").ok
      /\ TomlValue(mise.lines, "rust").ok
      /\ MakeValue(makefile.lines, "RUST_TOOLCHAIN").ok
      /\ WorkspaceRoot.ok
  <2>1. WorkspaceRoot.ok /\ Verify(cargo).ok
    BY PassNeedsARoot
  <2> QED BY <2>1, PassNeedsThePins
<1>2. /\ manifests \in Seq(Manifest) /\ mise.lines \in Seq(Line)
      /\ makefile \in Manifest /\ mise \in Manifest /\ makefile.lines \in Seq(Line)
  BY ManifestHasLines DEF WorkspaceInv, FilesAreTyped
<1>3. /\ root \in DOMAIN manifests /\ Declares(manifests[root])
      /\ manifests[root] \in Manifest /\ cargo \in Seq(Line)
      /\ \A j \in DOMAIN manifests : Ends(manifests[j]) => root =< j
  <2>1. /\ root \in DOMAIN manifests /\ Declares(manifests[root])
        /\ \A j \in DOMAIN manifests : Ends(manifests[j]) => root =< j
    BY <1>1, <1>2, RootIsNearest
  <2>2. manifests[root] \in Manifest
    BY <1>2, <2>1, ElementOfSeq
  <2> QED BY <2>1, <2>2, ManifestHasLines
<1>4. ASSUME NEW node \in {"missing", "unreadable", "file"}, AddDirectory(Blank(node))
      PROVE  Setup' = Setup
  <2> DEFINE n == Len(manifests)
  <2>1. /\ manifests' \in Seq(Manifest) /\ DOMAIN manifests' = 1 .. n + 1
        /\ DOMAIN manifests = 1 .. n /\ n \in Nat
        /\ \A i \in DOMAIN manifests : manifests'[i] = manifests[i]
    BY <1>4, AddDirectoryAdds
  <2> HIDE DEF n, root, cargo
  <2>2. root \in Nat /\ root =< n
    BY <1>3, <2>1
  <2>3. \A i \in DOMAIN manifests : i \in DOMAIN manifests' /\ manifests'[i] = manifests[i]
    BY <2>1
  <2>4. ASSUME NEW j \in DOMAIN manifests', j \notin DOMAIN manifests
        PROVE  root =< j
    BY <2>1, <2>2, <2>4
  <2>5. ASSUME NEW j \in DOMAIN manifests', Ends(manifests'[j]),
               ~ (j \in DOMAIN manifests /\ Ends(manifests[j]))
        PROVE  root =< j
    BY <2>3, <2>4, <2>5
  <2>6. WorkspaceRoot' = WorkspaceRoot
    BY <1>1, <1>2, <2>1, <2>3, <2>5, RootStays DEF root
  <2>7. manifests'[root] = manifests[root] /\ makefile' = makefile /\ mise' = mise
    BY <1>3, <1>4, <2>3 DEF AddDirectory
  <2> QED BY <2>6, <2>7, SameRootSamePins DEF root
<1>5. ASSUME NEW line \in CargoLines, WriteCargo(line)
      PROVE  Setup' = Setup
  <2> DEFINE top == Len(manifests)
  <2>1. /\ top \in DOMAIN manifests /\ DOMAIN manifests = 1 .. top /\ top \in Nat
        /\ manifests' \in Seq(Manifest) /\ DOMAIN manifests' = DOMAIN manifests
        /\ \A i \in DOMAIN manifests : i # top => manifests'[i] = manifests[i]
        /\ manifests'[top].node = manifests[top].node
        /\ manifests'[top].lines = Append(manifests[top].lines, line)
    BY <1>5, WriteCargoAdds
  <2>2. line \in Line
    BY WorkspaceAssumption
  <2> HIDE DEF top, root, cargo
  <2>3. Ends(manifests[top]) => Ends(manifests'[top])
    <3>1. manifests[top].lines \in Seq(Line)
      BY <1>2, <2>1, ElementOfSeq, ManifestHasLines
    <3>2. \A i \in DOMAIN manifests[top].lines :
            /\ i \in DOMAIN manifests'[top].lines
            /\ manifests'[top].lines[i] = manifests[top].lines[i]
      BY <2>1, <2>2, <3>1, AppendProperties
    <3>3. Declares(manifests[top]) => Declares(manifests'[top])
      BY <3>2 DEF Declares
    <3> QED BY <2>1, <3>3 DEF Ends
  <2>4. \A i \in DOMAIN manifests :
          Ends(manifests[i]) => /\ i \in DOMAIN manifests' /\ Ends(manifests'[i])
                                /\ manifests'[i].node = manifests[i].node
    <3> SUFFICES ASSUME NEW i \in DOMAIN manifests, Ends(manifests[i])
                 PROVE  /\ i \in DOMAIN manifests' /\ Ends(manifests'[i])
                        /\ manifests'[i].node = manifests[i].node
      OBVIOUS
    <3>1. CASE i = top
      BY <2>1, <2>3, <3>1
    <3>2. CASE i # top
      <4>1. manifests'[i] = manifests[i]
        BY <2>1, <3>2
      <4> QED BY <2>1, <4>1
    <3> QED BY <3>1, <3>2
  <2>5. \A j \in DOMAIN manifests' : root =< j \/ (j # top /\ j \in DOMAIN manifests)
    BY <1>3, <2>1
  <2>6. ASSUME NEW j \in DOMAIN manifests', Ends(manifests'[j]),
               ~ (j \in DOMAIN manifests /\ Ends(manifests[j]))
        PROVE  root =< j
    <3> SUFFICES ASSUME j # top, j \in DOMAIN manifests
                 PROVE  FALSE
      BY <2>5
    <3>1. manifests'[j] = manifests[j]
      BY <2>1
    <3> QED BY <2>6, <3>1
  <2>7. WorkspaceRoot' = WorkspaceRoot
    BY <1>1, <1>2, <2>1, <2>4, <2>6, RootStays DEF root
  <2>8. TomlValue(manifests'[root].lines, "rust-version")
          = TomlValue(manifests[root].lines, "rust-version")
    <3>1. CASE root = top
      <4>1. manifests'[root].lines = Append(cargo, line)
        BY <2>1, <3>1 DEF cargo
      <4>2. TomlValue(Append(cargo, line), "rust-version") = TomlValue(cargo, "rust-version")
        BY <1>1, <1>3, <2>2, TomlPinStays
      <4> QED BY <4>1, <4>2 DEF cargo
    <3>2. CASE root # top
      <4>1. manifests'[root] = manifests[root]
        BY <1>3, <2>1, <3>2
      <4> QED BY <4>1
    <3> QED BY <3>1, <3>2
  <2>9. makefile' = makefile /\ mise' = mise
    BY <1>5 DEF WriteCargo
  <2> QED BY <2>7, <2>8, <2>9, SameRootSamePins DEF root
<1>6. ASSUME NEW line \in MakeLines, WriteMake(line)
      PROVE  Setup' = Setup
  <2>1. /\ makefile' = [makefile EXCEPT !.lines = Append(@, line)]
        /\ manifests' = manifests /\ mise' = mise
    BY <1>6 DEF WriteMake
  <2>2. /\ makefile'.lines = Append(makefile.lines, line)
        /\ makefile'.node = makefile.node
    BY <1>2, <2>1 DEF Manifest
  <2>3. MakeValue(makefile'.lines, "RUST_TOOLCHAIN") = MakeValue(makefile.lines, "RUST_TOOLCHAIN")
    <3>1. line \in Line
      BY WorkspaceAssumption
    <3> QED BY <1>1, <1>2, <2>2, <3>1, MakePinStays
  <2>4. WorkspaceRoot' = WorkspaceRoot
    BY <2>1 DEF WorkspaceRoot
  <2> QED BY <2>1, <2>2, <2>3, <2>4, SameRootSamePins
<1>7. ASSUME NEW line \in MiseLines, WriteMise(line)
      PROVE  Setup' = Setup
  <2>1. /\ mise' = [mise EXCEPT !.lines = Append(@, line)]
        /\ manifests' = manifests /\ makefile' = makefile
    BY <1>7 DEF WriteMise
  <2>2. mise'.lines = Append(mise.lines, line) /\ mise'.node = mise.node
    BY <1>2, <2>1 DEF Manifest
  <2>3. TomlValue(mise'.lines, "rust") = TomlValue(mise.lines, "rust")
    <3>1. line \in Line
      BY WorkspaceAssumption
    <3> QED BY <1>1, <1>2, <2>2, <3>1, TomlPinStays
  <2>4. WorkspaceRoot' = WorkspaceRoot
    BY <2>1 DEF WorkspaceRoot
  <2> QED BY <2>1, <2>2, <2>3, <2>4, SameRootSamePins
<1>8. CASE UNCHANGED vars
  BY <1>8 DEF vars, Setup, WorkspaceRoot, Verify
<1> QED BY <1>4, <1>5, <1>6, <1>7, <1>8 DEF Next

\* A gate that passes goes on to pass with the same version, whatever is written
\* below the pins it compared and whatever lies above the workspace: the first
\* pin of a file counts, and the climb ends at the first workspace.
THEOREM SettledVerdict == Spec => VerdictSettles
<1>1. WorkspaceInv /\ [Next]_vars => [Setup.ok => Setup' = Setup]_vars
  BY VerdictStays
<1> QED BY <1>1, WorkspaceInvHolds, PTL DEF Spec, VerdictSettles
=============================================================================
