----------------------------- MODULE MCRunEvents -----------------------------
(* A reader at the host's own service and one on another device.            *)
EXTENDS RunEvents
===============================================================================
