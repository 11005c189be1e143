------------------------------- MODULE MCCli -------------------------------
(* Values of the constants of module Cli for TLC: a caller's text that fits   *)
(* in the buffer of standard output, one that fills it, and one that does not *)
(* fit; pipes that block after one or two chunks.                             *)
EXTENDS Cli

MCSizes == {1, 2, 3}
=============================================================================
