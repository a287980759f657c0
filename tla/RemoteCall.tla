---------------------------- MODULE RemoteCall ------------------------------
(* What the bridge promises of an operation one device asks of another      *)
(* (docs/workspaces.md, Transport and interruptions): it is carried out at  *)
(* most once, however often it is asked for; work cut short by a restart is *)
(* never begun again; and the asker is told only what became of the work.   *)
EXTENDS Naturals

CONSTANT Calls

VARIABLES
  work, \* what the receiving device has done of each call
  told  \* what the asking device knows of it

Init ==
  /\ work = [q \in Calls |-> "none"]
  /\ told = [q \in Calls |-> "nothing"]

Begin(q) ==
  /\ work[q] = "none"
  /\ work' = [work EXCEPT ![q] = "running"]
  /\ UNCHANGED told

Complete(q) ==
  /\ work[q] = "running"
  /\ work' = [work EXCEPT ![q] = "complete"]
  /\ UNCHANGED told

(* A restart of the receiving device interrupts all it was at.              *)
Interrupt ==
  /\ \E d \in SUBSET {q \in Calls : work[q] = "running"} :
       d # {} /\ work' = [q \in Calls |-> IF q \in d THEN "interrupted" ELSE work[q]]
  /\ UNCHANGED told

Tell(q) ==
  /\ work[q] \in {"complete", "interrupted"}
  /\ told' = [told EXCEPT ![q] = work[q]]
  /\ UNCHANGED work

Next == Interrupt \/ \E q \in Calls : Begin(q) \/ Complete(q) \/ Tell(q)

Spec == Init /\ [][Next]_<<work, told>>
=============================================================================
