------------------------------ MODULE MCEspNowTx ------------------------------
(* A small instance of EspNowTx for TLC: its constants are in the .cfg file.    *)
EXTENDS EspNowTx
==============================================================================
