------------------------------ MODULE MCAppMain ------------------------------
(* A small instance of AppMain for TLC: its constants are in the .cfg files. *)
EXTENDS AppMain
==============================================================================
