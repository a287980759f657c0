---------------------------- MODULE SessionWork ----------------------------
(***************************************************************************)
(* What session reservations promise about running work, without tables,   *)
(* clocks or renewals: a session has at most one process working in it,    *)
(* work begins only in a session where none runs, and it stops when it     *)
(* ends or when its process does.                                          *)
(***************************************************************************)
CONSTANTS Proc, Session, None

VARIABLE worker     \* session -> the process working in it, or None

Init == worker = [s \in Session |-> None]

Begin(p, s) ==
    /\ worker[s] = None
    /\ worker' = [worker EXCEPT ![s] = p]

End(p, s) ==
    /\ worker[s] = p
    /\ worker' = [worker EXCEPT ![s] = None]

\* The process shuts down or crashes: its work stops in every session.
Stop(p) ==
    worker' = [s \in Session |-> IF worker[s] = p THEN None ELSE worker[s]]

Next ==
    \/ \E p \in Proc, s \in Session : Begin(p, s) \/ End(p, s)
    \/ \E p \in Proc : Stop(p)

Spec == Init /\ [][Next]_worker
=============================================================================
