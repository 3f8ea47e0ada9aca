------------------------------- MODULE MCAudio -------------------------------
(* A small instance of Audio for TLC: three tasks, as in the firmware (main,   *)
(* recorder, receiver).                                                        *)
EXTENDS Audio, TLC

Symmetry == Permutations(Tasks)
==============================================================================
