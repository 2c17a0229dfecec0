--------------------------- MODULE MCAuthSessions ---------------------------
(* Small instances of AuthSessions for TLC. *)
EXTENDS AuthSessions, TLC

CONSTANTS laptop, phone, alice, t1, t2, t3, ra, rb

Symmetric == Permutations(Tokens) \union Permutations(Reqs) \union Permutations(Clients)
=============================================================================
