----------------------------- MODULE MCListings -----------------------------
(* A small instance of Listings for TLC: the second and third rows were    *)
(* inserted in the same instant.                                           *)
EXTENDS Listings

CONSTANTS x1, x2, x3, g1

Times == x1 :> 1 @@ x2 :> 2 @@ x3 :> 2
Ids == x1 :> 3 @@ x2 :> 1 @@ x3 :> 2
AllKinds == {"projects", "tasks", "groups", "members", "invites"}
=============================================================================
