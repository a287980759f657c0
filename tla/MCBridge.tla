------------------------------ MODULE MCBridge ------------------------------
(* Instances of Bridge: a guest asks the host (ask), the host has a guest   *)
(* execute (run).                                                           *)
EXTENDS Bridge, TLC

CONSTANTS host, guest, ask, run

Askers == [q \in Calls |-> IF q = run THEN host ELSE guest]
BothReturn == [d \in Devices |-> 2]
Workers == [q \in Calls |-> IF q = run THEN guest ELSE host]
=============================================================================
