------------------------------- MODULE MCPanel -------------------------------
(* A small instance of Panel for TLC: its constants are in the .cfg file.      *)
EXTENDS Panel
==============================================================================
