------------------------------- MODULE MCGate -------------------------------
(***************************************************************************)
(* Values of the constants of module Gate for TLC: two source roots, the   *)
(* first with a directory of one file, an entry that may be a directory or *)
(* a file without a source name, and a Rust file of its own; a file that   *)
(* is not Rust in the second root.                                         *)
(***************************************************************************)
EXTENDS Gate

Crates == 1  Dir == 2  FileInDir == 3  Second == 4  FileInCrates == 5  Platforms == 6  Header == 7

MCParent ==
  <<0, Crates, Dir, Crates, Crates, 0, Platforms>>

MCSourceRoots == <<Crates, Platforms>>

MCPossible ==
  <<{"directory"}, {"directory", "absent", "flawed", "link"},
    {"absent", "knotted", "garbled"}, {"flawed", "undecodable"}, {"clean", "garbled"},
    {"absent", "directory", "sealed"}, {"absent", "long"}>>

MCSourceNamed == {FileInDir, FileInCrates, Header}
MCRustNamed   == {FileInDir, FileInCrates}

\* Two functions on one line, one too deep and one too long.
MCAnalysis ==
  [clean   |-> <<>>,
   long    |-> <<>>,
   knotted |-> <<[line |-> 3, rule |-> 6], [line |-> 3, rule |-> 2]>>]
=============================================================================
