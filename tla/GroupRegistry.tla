---------------------------- MODULE GroupRegistry ----------------------------
(***************************************************************************)
(* What the groups promise to their clients: every operation happens at    *)
(* once.  There are no requests here, no transactions, no locks and no     *)
(* statements, only the groups with their members, invites and linked      *)
(* projects, and what one committed operation makes of them.  Groups is    *)
(* shown to implement this module.                                         *)
(*                                                                         *)
(* Where overlapping calls of the service act on what they read before,    *)
(* the promise is weaker than the method it is about: an invite may admit  *)
(* more than one user, a link may be overwritten, and a transfer to        *)
(* someone who is no longer there leaves a group without an owner.         *)
(***************************************************************************)
CONSTANTS Groups, Users, Invites, Projects,
          InviteGroup     \* the group an invite is generated for

VARIABLES groups,         \* the groups there are
          role,           \* the role of every user in every group
          issued,         \* the invites there are,
          spent,          \* those of them somebody has accepted,
          withdrawn,      \* and those the owner has revoked
          link            \* the group of every project

registry == <<groups, role, issued, spent, withdrawn, link>>

Absent == "absent"
Unlinked == "unlinked"

InvitesOf(g) == {i \in Invites : InviteGroup[i] = g}

Init ==
  /\ groups = {}
  /\ role = [g \in Groups |-> [u \in Users |-> Absent]]
  /\ issued = {} /\ spent = {} /\ withdrawn = {}
  /\ link = [p \in Projects |-> Unlinked]

-----------------------------------------------------------------------------
(* A group comes with its owner, and goes with its members and invites as  *)
(* soon as no project is linked to it.                                     *)

Create(g, u) ==
  /\ g \notin groups
  /\ groups' = groups \union {g}
  /\ role' = [role EXCEPT ![g] = [v \in Users |-> IF v = u THEN "owner" ELSE Absent]]
  /\ UNCHANGED <<issued, spent, withdrawn, link>>

Delete(g) ==
  /\ g \in groups
  /\ \A p \in Projects : link[p] # g
  /\ groups' = groups \ {g}
  /\ role' = [role EXCEPT ![g] = [v \in Users |-> Absent]]
  /\ issued' = issued \ InvitesOf(g)
  /\ spent' = spent \ InvitesOf(g)
  /\ withdrawn' = withdrawn \ InvitesOf(g)
  /\ UNCHANGED link

(* Invites.                                                                *)

Offer(i) ==
  /\ InviteGroup[i] \in groups
  /\ i \notin issued
  /\ issued' = issued \union {i}
  /\ UNCHANGED <<groups, role, spent, withdrawn, link>>

Withdraw(i) ==
  /\ i \in issued
  /\ withdrawn' = withdrawn \union {i}
  /\ UNCHANGED <<groups, role, issued, spent, link>>

Join(i, u) ==
  LET g == InviteGroup[i] IN
  /\ i \in issued
  /\ role[g][u] = Absent
  /\ role' = [role EXCEPT ![g][u] = "member"]
  /\ spent' = spent \union {i}
  /\ UNCHANGED <<groups, issued, withdrawn, link>>

(* Members.                                                                *)

Depart(g, u) ==
  /\ role[g][u] # Absent
  /\ role' = [role EXCEPT ![g][u] = Absent]
  /\ UNCHANGED <<groups, issued, spent, withdrawn, link>>

StepDown(g) == [u \in Users |-> IF role[g][u] = "owner" THEN "member" ELSE role[g][u]]

Transfer(g, v) ==
  /\ role[g][v] # Absent
  /\ role' = [role EXCEPT ![g] = [StepDown(g) EXCEPT ![v] = "owner"]]
  /\ UNCHANGED <<groups, issued, spent, withdrawn, link>>

(* A transfer whose new owner left before it reached him, even if he came  *)
(* back since.                                                             *)
Lapse(g) ==
  /\ role' = [role EXCEPT ![g] = StepDown(g)]
  /\ UNCHANGED <<groups, issued, spent, withdrawn, link>>

(* Projects.                                                               *)

Link(p, g) ==
  /\ g \in groups
  /\ link[p] # Absent
  /\ link' = [link EXCEPT ![p] = g]
  /\ UNCHANGED <<groups, role, issued, spent, withdrawn>>

Unlink(p) ==
  /\ link[p] # Absent
  /\ link' = [link EXCEPT ![p] = Unlinked]
  /\ UNCHANGED <<groups, role, issued, spent, withdrawn>>

CreateProject(p) ==
  /\ link[p] = Absent
  /\ link' = [link EXCEPT ![p] = Unlinked]
  /\ UNCHANGED <<groups, role, issued, spent, withdrawn>>

DropProject(p) ==
  /\ link' = [link EXCEPT ![p] = Absent]
  /\ UNCHANGED <<groups, role, issued, spent, withdrawn>>

-----------------------------------------------------------------------------

Next ==
  \/ \E g \in Groups, u \in Users : Create(g, u) \/ Depart(g, u) \/ Transfer(g, u)
  \/ \E g \in Groups : Delete(g) \/ Lapse(g)
  \/ \E i \in Invites : Offer(i) \/ Withdraw(i) \/ \E u \in Users : Join(i, u)
  \/ \E p \in Projects : \/ CreateProject(p) \/ DropProject(p) \/ Unlink(p)
                         \/ \E g \in Groups : Link(p, g)

Spec == Init /\ [][Next]_registry
=============================================================================
