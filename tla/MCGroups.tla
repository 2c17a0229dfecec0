------------------------------ MODULE MCGroups ------------------------------
(* Small instances of Groups for TLC. *)
EXTENDS Groups, TLC

CONSTANTS g1, g2, alice, bob, carol, i1, i2, i3, p1, ra, rb

OneHome == [i \in Invites |-> g1]
AliceOwnsAll == [p \in Projects |-> alice]

AllOps == {"create", "rename", "delete", "create_invite", "accept_invite",
           "revoke_invite", "remove_member", "leave", "transfer_ownership",
           "link_project", "unlink_project"}
MemberOps == {"create", "create_invite", "accept_invite",
              "remove_member", "leave", "transfer_ownership"}
InviteOps == {"create", "create_invite", "accept_invite", "revoke_invite"}
LifeOps == {"create", "delete", "create_invite", "accept_invite", "transfer_ownership",
            "link_project", "unlink_project", "create_project", "delete_project"}

Symmetric == Permutations(Users) \union Permutations(Invites) \union Permutations(Reqs)
InviteSymmetry == Permutations(Invites) \union Permutations(Reqs)
=============================================================================
