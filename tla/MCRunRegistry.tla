--------------------------- MODULE MCRunRegistry ---------------------------
(* Small instances of RunRegistry: `read' is an ordinary read, `shell' a    *)
(* sandboxed command that asks to write a folder, `startup' a write of      *)
(* login configuration in that folder, which is approved singly, and        *)
(* `delegate' hands a task over.                                            *)
EXTENDS RunRegistry, TLC

CONSTANTS first, read, shell, startup, work, autostart

KindOf ==
  [c \in Calls |-> CASE c = Delegate -> "delegate" [] c = read -> "read"
                     [] c = shell -> "shell" [] c = startup -> "write"]

Ordinary == [blocked |-> FALSE, escalate |-> FALSE, trusted |-> FALSE, routine |-> FALSE,
             persistable |-> TRUE, root |-> NoRoot, path |-> Nowhere, folder |-> Nowhere]

Single == [Ordinary EXCEPT !.escalate = TRUE, !.persistable = FALSE]

RiskOf ==
  [c \in Calls |-> CASE c = Delegate -> Single
                     [] c = read -> Ordinary
                     [] c = shell -> [Ordinary EXCEPT !.escalate = TRUE, !.path = work, !.folder = work]
                     [] c = startup -> [Single EXCEPT !.path = autostart]]

InWork == {<<work, work>>, <<autostart, work>>}

Allowing(kinds) ==
  [mode |-> [k \in Kinds |-> IF k \in kinds THEN "allow" ELSE "ask"], roots |-> {}]

Defaults == {Allowing({"read", "delegate"})}

FirstTwoCalls == [r \in Runs |-> IF r = first THEN 2 ELSE 0]
OneCall == [r \in Runs |-> 1]

Ids == Permutations(Runs)
===========================================================================
