------------------------------ MODULE MCEspNowRx ------------------------------
(* EspNowRx with its clock for TLC: any packet may arrive at any time.          *)
EXTENDS EspNowRxTimed
==============================================================================
