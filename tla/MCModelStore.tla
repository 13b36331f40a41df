---------------------------- MODULE MCModelStore ----------------------------
(* ModelStore for TLC: a model of two files.                               *)
EXTENDS ModelStore

TwoFiles == {"encoder", "decoder"}
=============================================================================
