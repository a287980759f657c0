--------------------------- MODULE MCPromptQueue ---------------------------
(* Instances of PromptQueue: `first' and `again' have the same words, and   *)
(* nothing tells one from the other.                                        *)
EXTENDS PromptQueue, TLC

CONSTANTS first, again, other

Alike == Permutations(Runs) \cup Permutations({first, again})

Words == [p \in Prompts |-> IF p = other THEN "other words" ELSE "words"]
===========================================================================
