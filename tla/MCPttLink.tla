------------------------------ MODULE MCPttLink ------------------------------
(* A small instance of PttLink for TLC: its constants are in the .cfg file.    *)
EXTENDS PttLink

\* Bound: the second call has two packets at most, the first one MaxPackets + 1.
ShortSecondCall == stream = 2 => number <= 2

\* What states are told apart by: everything but the history of the sender's reports,
\* which no action reads and of which the run's properties say the type only.
LinkView == <<call, signal, place, radio, rx, heard, refused, clean>>
==============================================================================
