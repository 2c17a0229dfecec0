---------------------------- MODULE MCTaskFiles -----------------------------
(* Small instances of TaskFiles for TLC. *)
EXTENDS TaskFiles, TLC

CONSTANTS p1, t1, a1, a2, ra, rb

OneProject == [t \in Tasks |-> p1]
OneTask == [a \in Attachments |-> t1]

Symmetric == Permutations(Attachments) \union Permutations(Reqs)
=============================================================================
