---------------------------- MODULE MCWorkspace ----------------------------
(***************************************************************************)
(* Values of the constants of module Workspace for TLC: two versions, pins *)
(* in and out of form, and in each file a line that is no pin.             *)
(***************************************************************************)
EXTENDS Workspace

Assignment(key, form, version) == [key |-> key, form |-> form, version |-> version]

MCCargoLines ==
  {Assignment(WorkspaceHeader, "word", "old"), Assignment("rust-version", "quoted", "old"),
   Assignment("rust-version", "quoted", "new"), Assignment("rust-version", "commented", "old"),
   Assignment("version", "quoted", "new")}

MCMakeLines ==
  {Assignment("RUST_TOOLCHAIN", "bare", "old"), Assignment("RUST_TOOLCHAIN", "bare", "new"),
   Assignment("RUST_TOOLCHAIN", "commented", "old"), Assignment("RUST_TOOLCHAIN", "quoted", "old")}

MCMiseLines ==
  {Assignment("rust", "quoted", "old"), Assignment("rust", "quoted", "new"),
   Assignment("node", "quoted", "new")}
=============================================================================
