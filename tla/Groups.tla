------------------------------- MODULE Groups -------------------------------
(***************************************************************************)
(* Groups, their memberships and invites, and the links from projects to   *)
(* groups: GroupService with its repositories, the constraints of the      *)
(* tables it writes, and the status its router answers with.               *)
(*                                                                         *)
(* A request is one call of a service method.  It runs statement by        *)
(* statement, and the event loop and the database let other requests run   *)
(* between any two of its statements.  The steps of a request are named    *)
(* for the statement that comes next.  The statement that starts a request *)
(* is always a SELECT (or the INSERT of create), so a request begins with  *)
(* it.                                                                     *)
(***************************************************************************)
EXTENDS Naturals, FiniteSets, RowStore

CONSTANTS Groups, Users, Invites, Projects,
          InviteGroup,    \* the group an invite is generated for
          ProjectOwner,   \* Project.user_id, which nothing updates
          InviteMax,      \* _INVITE_RATE_LIMIT_MAX
          Ops,            \* the service methods the clients call
          None            \* no user, no group, no argument

Unlinked == "unlinked"    \* no group, in Project.group_id

ASSUME GroupsAssumption ==
  /\ InviteGroup \in [Invites -> Groups]
  /\ ProjectOwner \in [Projects -> Users]
  /\ InviteMax \in Nat
  /\ {Absent, Unlinked} \intersect Groups = {}
  /\ Ops \subseteq {"create", "rename", "delete", "create_invite", "accept_invite",
                   "revoke_invite", "remove_member", "leave", "transfer_ownership",
                   "link_project", "unlink_project", "create_project", "delete_project"}

VARIABLES req,            \* the request each of Reqs works on
          attempts,       \* invites a user generated for a group, in the window
          expired         \* the invites whose expires_at is in the past

vars == <<db, latest, lock, share, req, attempts, expired>>

-----------------------------------------------------------------------------
(* The rows of the four tables, and their values.                          *)

GroupRow(g) == <<"group", g>>
Member(g, u) == <<"member", g, u>>
Invite(i) == <<"invite", i>>
Project(p) == <<"project", p>>

GroupRows == {GroupRow(g) : g \in Groups}
MemberRows == {Member(g, u) : g \in Groups, u \in Users}
InviteRows == {Invite(i) : i \in Invites}
ProjectRows == {Project(p) : p \in Projects}
Rows == GroupRows \union MemberRows \union InviteRows \union ProjectRows

Live == "live"
Roles == {"owner", "member"}
Marks == {"pending", "consumed", "revoked", "consumed and revoked"}
Values == {Absent, Live, Unlinked} \union Roles \union Marks \union Groups

Consumed(v) == v \in {"consumed", "consumed and revoked"}
Revoked(v) == v \in {"revoked", "consumed and revoked"}

(* Mutant: the two columns are one, and the last writer has it.            *)
MarkOverwrites(v, m) == m

(* Setting one of consumed_at and revoked_at leaves the other as it is.    *)
Mark(v, m) == IF v \in {"pending", m} THEN m ELSE "consumed and revoked"

(* The rows whose foreign key deletes them with group g.                   *)
Children(g) == {Member(g, u) : u \in Users}
                 \union {Invite(i) : i \in {j \in Invites : InviteGroup[j] = g}}

LinkedProjects(g) == {p \in Projects : db[Project(p)] = g}

-----------------------------------------------------------------------------
(* Requests.                                                               *)

Statements == {"update group", "count projects", "delete group", "cascade",
               "check limit", "insert invite", "record", "select member",
               "insert member", "reference", "mark consumed",
               "select invite", "mark revoked", "delete member",
               "demote", "promote", "one owner",
               "select project", "set group", "clear group", "commit"}

Success == 200
ServerError == 500
Statuses == {Success, 403, 404, 409, 410, 429, ServerError}

(* A call that is under way.  arg is the member, invite or project it is   *)
(* about; seen and seenArg are the roles it read of its caller and of that *)
(* member.                                                                 *)
ArgOf(o) == CASE o \in {"remove_member", "leave", "transfer_ownership"} -> Users
              [] o \in {"create_invite", "accept_invite", "revoke_invite"} -> Invites
              [] o \in {"link_project", "unlink_project"} -> Projects
              [] OTHER -> {None}

Calls == {c \in [op : Ops, group : Groups, user : Users,
                 arg : Users \union Invites \union Projects \union {None},
                 pc : Statements, seen : Values, seenArg : Values, status : {0}] :
            c.arg \in ArgOf(c.op)}

Call(o, g, u, a, next, role) ==
  [op |-> o, group |-> g, user |-> u, arg |-> a, pc |-> next,
   seen |-> role, seenArg |-> Absent, status |-> 0]

(* No request, and an answer on its way to the client.                     *)
Blank(p, s) == [op |-> None, group |-> None, user |-> None, arg |-> None, pc |-> p,
                seen |-> Absent, seenArg |-> Absent, status |-> s]
Idle == Blank("idle", 0)

Requests == {Idle} \union Calls \union {Blank("done", s) : s \in Statuses}

Begin(r, o, g, u, a, next) ==
  req' = [req EXCEPT ![r] = Call(o, g, u, a, next, db[Member(g, u)])]

Goto(r, next) == req' = [req EXCEPT ![r].pc = next]

Reply(r, s) == req' = [req EXCEPT ![r] = Blank("done", s)]

(* Mutant: the session is not closed after the exception.                  *)
FailKeepsLocks(r) == Reply(r, ServerError) /\ UNCHANGED <<store, attempts, expired>>

(* An exception no handler expects: the session closes without a commit.   *)
Fail(r) == Rollback(r) /\ Reply(r, ServerError) /\ UNCHANGED <<attempts, expired>>

AtStatement(r, s) == req[r].pc = s

(* The client has its answer, and the server is free for another request.  *)
Respond(r) ==
  /\ req[r].pc = "done"
  /\ req' = [req EXCEPT ![r] = Idle]
  /\ UNCHANGED <<store, attempts, expired>>

(* _require_owner, the first statement of every owner's method.            *)
RequireOwner(r, o, g, u, a, next) ==
  /\ o \in Ops
  /\ req[r].pc = "idle"
  /\ \/ db[Member(g, u)] = Absent /\ Reply(r, 404)
     \/ db[Member(g, u)] = "member" /\ Reply(r, 403)
     \/ db[Member(g, u)] = "owner" /\ Begin(r, o, g, u, a, next)
  /\ UNCHANGED <<store, attempts, expired>>

-----------------------------------------------------------------------------
(* Whom a request waits for before its next statement.                     *)

(* The partial unique index: another transaction that takes the owner's    *)
(* role away from a row, or gives it to one, has to end before a second    *)
(* owner's row can be refused or let in.                                   *)
OwnerRivals(r, g, u) ==
  UNION {Writers(r, Member(g, v)) :
           v \in {w \in Users \ {u} : "owner" \in {db[Member(g, w)], latest[Member(g, w)]}}}

CascadeRows(r, g) == {x \in Children(g) : Found(r, x) # Absent}

CascadeBlockers(r, g) ==
  IF \E x \in CascadeRows(r, g) : Writers(r, x) = {} THEN {}
  ELSE UNION {Writers(r, x) : x \in CascadeRows(r, g)}

Blockers(r) ==
  LET g == req[r].group
      a == req[r].arg
  IN CASE req[r].pc = "update group"  -> Writers(r, GroupRow(g))
       [] req[r].pc = "delete group"  -> Holders(r, GroupRow(g))
       [] req[r].pc = "cascade"       -> CascadeBlockers(r, g)
       [] req[r].pc = "reference"     -> Deleters(r, GroupRow(g))
       [] req[r].pc = "insert member" -> Writers(r, Member(g, req[r].user))
       [] req[r].pc = "demote"        -> Writers(r, Member(g, req[r].user))
       [] req[r].pc = "promote"       -> Writers(r, Member(g, a))
       [] req[r].pc = "delete member" -> Writers(r, Member(g, a))
       [] req[r].pc = "one owner"     -> OwnerRivals(r, g, a)
       [] req[r].pc \in {"mark consumed", "mark revoked"} -> Writers(r, Invite(a))
       [] req[r].pc \in {"set group", "clear group"}      -> Writers(r, Project(a))
       [] OTHER -> {}

Ready(r, s) == AtStatement(r, s) /\ Blockers(r) = {}

(* Requests that wait for each other: the database breaks the circle by    *)
(* failing one of them.                                                    *)
Deadlocked(r) ==
  \E S \in SUBSET Reqs : r \in S /\ \A s \in S : Blockers(s) \intersect S # {}

DeadlockVictim(r) == Deadlocked(r) /\ Fail(r)

-----------------------------------------------------------------------------
(* create, rename and delete.                                              *)

(* A new group has a new id: the model uses an id again only when nothing  *)
(* is left of the group that had it and no request knows it.               *)
Create(r, g, u) ==
  /\ "create" \in Ops
  /\ req[r].pc = "idle"
  /\ \A s \in Reqs : req[s].group # g
  /\ \A x \in Children(g) \union {GroupRow(g)} : db[x] = Absent /\ lock[x] = NoReq
  /\ WriteAll(r, {GroupRow(g), Member(g, u)},
              [x \in {GroupRow(g), Member(g, u)} |->
                 IF x = GroupRow(g) THEN Live ELSE "owner"])
  /\ UNCHANGED share
  /\ Begin(r, "create", g, u, None, "commit")
  /\ attempts' = [attempts EXCEPT ![g] = [v \in Users |-> 0]]
  /\ expired' = {i \in expired : InviteGroup[i] # g}

BeginRename(r, g, u) == RequireOwner(r, "rename", g, u, None, "update group")

(* The UPDATE, and the SELECT after it that expects the group to be there. *)
UpdateGroup(r) ==
  /\ Ready(r, "update group")
  /\ \/ /\ Found(r, GroupRow(req[r].group)) = Absent
        /\ Fail(r)
     \/ /\ Found(r, GroupRow(req[r].group)) # Absent
        /\ Write(r, GroupRow(req[r].group), Live)
        /\ Goto(r, "commit")
        /\ UNCHANGED <<share, attempts, expired>>

BeginDelete(r, g, u) == RequireOwner(r, "delete", g, u, None, "count projects")

CountLinkedProjects(r) ==
  /\ AtStatement(r, "count projects")
  /\ \/ LinkedProjects(req[r].group) # {} /\ Reply(r, 409)
     \/ LinkedProjects(req[r].group) = {} /\ Goto(r, "delete group")
  /\ UNCHANGED <<store, attempts, expired>>

(* Mutant: the foreign key of the projects does not restrict the deletion. *)
DeleteUnrestricted(r) ==
  LET g == req[r].group IN
  /\ Ready(r, "delete group")
  /\ Update(r, GroupRow(g), Absent)
  /\ Goto(r, IF db[GroupRow(g)] = Absent THEN "commit" ELSE "cascade")
  /\ UNCHANGED <<share, attempts, expired>>

(* The row itself: its linked projects restrict the deletion.  A group     *)
(* that is already gone leaves nothing to delete.                          *)
DeleteGroup(r) ==
  LET g == req[r].group IN
  /\ Ready(r, "delete group")
  /\ \/ /\ LinkedProjects(g) # {}
        /\ Fail(r)
     \/ /\ LinkedProjects(g) = {}
        /\ Update(r, GroupRow(g), Absent)
        /\ Goto(r, IF db[GroupRow(g)] = Absent THEN "commit" ELSE "cascade")
        /\ UNCHANGED <<share, attempts, expired>>

(* ON DELETE CASCADE takes the memberships and invites one by one.         *)
CascadeRow(r, x) ==
  /\ AtStatement(r, "cascade")
  /\ x \in CascadeRows(r, req[r].group)
  /\ Writers(r, x) = {}
  /\ Write(r, x, Absent)
  /\ UNCHANGED <<share, req, attempts, expired>>

(* Mutant: the members and invites of a deleted group stay.                *)
CascadeSkipped(r) ==
  /\ AtStatement(r, "cascade")
  /\ Goto(r, "commit")
  /\ UNCHANGED <<store, attempts, expired>>

CascadeDone(r) ==
  /\ AtStatement(r, "cascade")
  /\ CascadeRows(r, req[r].group) = {}
  /\ Goto(r, "commit")
  /\ UNCHANGED <<store, attempts, expired>>

-----------------------------------------------------------------------------
(* Invites.                                                                *)

(* The invite the request will insert: its token is one nobody has seen.   *)
(* There are as many as Invites, which bounds how often this method is     *)
(* called.                                                                 *)
Fresh(g, i) ==
  /\ InviteGroup[i] = g
  /\ db[Invite(i)] = Absent /\ lock[Invite(i)] = NoReq
  /\ i \notin expired
  /\ \A r \in Reqs : req[r].arg # i

BeginCreateInvite(r, g, u, i) ==
  Fresh(g, i) /\ RequireOwner(r, "create_invite", g, u, i, "check limit")

(* Mutant: generating an invite does not look at the attempts.             *)
LimitUnchecked(r) ==
  /\ AtStatement(r, "check limit")
  /\ Goto(r, "insert invite")
  /\ UNCHANGED <<store, attempts, expired>>

CheckInviteRateLimit(r) ==
  /\ AtStatement(r, "check limit")
  /\ \/ attempts[req[r].group][req[r].user] >= InviteMax /\ Reply(r, 429)
     \/ attempts[req[r].group][req[r].user] < InviteMax /\ Goto(r, "insert invite")
  /\ UNCHANGED <<store, attempts, expired>>

InsertInvite(r) ==
  /\ AtStatement(r, "insert invite")
  /\ Write(r, Invite(req[r].arg), "pending")
  /\ Goto(r, "reference")
  /\ UNCHANGED <<share, attempts, expired>>

RecordInviteAttempt(r) ==
  /\ AtStatement(r, "record")
  /\ attempts' = [attempts EXCEPT ![req[r].group][req[r].user] = @ + 1]
  /\ Goto(r, "commit")
  /\ UNCHANGED <<store, expired>>

(* Mutant: a consumed invite is accepted.                                  *)
AcceptConsumed(r, u, i) ==
  LET v == db[Invite(i)] IN
  /\ "accept_invite" \in Ops
  /\ req[r].pc = "idle"
  /\ v # Absent /\ ~Revoked(v) /\ i \notin expired
  /\ req' = [req EXCEPT ![r] = Call("accept_invite", InviteGroup[i], u, i,
                                    "select member", Absent)]
  /\ UNCHANGED <<store, attempts, expired>>

(* The checks accept_invite makes of the invite it finds by its token.     *)
BeginAcceptInvite(r, u, i) ==
  LET v == db[Invite(i)] IN
  /\ "accept_invite" \in Ops
  /\ req[r].pc = "idle"
  /\ \/ (v = Absent \/ Revoked(v)) /\ Reply(r, 404)
     \/ v # Absent /\ ~Revoked(v) /\ i \in expired /\ Reply(r, 410)
     \/ v # Absent /\ ~Revoked(v) /\ i \notin expired /\ Consumed(v) /\ Reply(r, 409)
     \/ /\ v = "pending" /\ i \notin expired
        /\ req' = [req EXCEPT ![r] = Call("accept_invite", InviteGroup[i], u, i,
                                          "select member", Absent)]
  /\ UNCHANGED <<store, attempts, expired>>

(* Mutant: an accept by a member is taken for a success and spends the     *)
(* invite.                                                                 *)
AcceptAsMember(r) ==
  LET role == db[Member(req[r].group, req[r].user)] IN
  /\ AtStatement(r, "select member")
  /\ req[r].op = "accept_invite"
  /\ Goto(r, IF role # Absent THEN "mark consumed" ELSE "insert member")
  /\ UNCHANGED <<store, attempts, expired>>

SelectOwnMembership(r) ==
  LET role == db[Member(req[r].group, req[r].user)] IN
  /\ AtStatement(r, "select member")
  /\ req[r].op = "accept_invite"
  /\ \/ role # Absent /\ Reply(r, 409)
     \/ role = Absent /\ Goto(r, "insert member")
  /\ UNCHANGED <<store, attempts, expired>>

(* Mutant: no unique constraint, the insertion replaces the row.           *)
InsertReplaces(r) ==
  /\ Ready(r, "insert member")
  /\ Write(r, Member(req[r].group, req[r].user), "member")
  /\ Goto(r, "reference")
  /\ UNCHANGED <<share, attempts, expired>>

(* One membership per group and user.                                      *)
InsertMember(r) ==
  LET row == Member(req[r].group, req[r].user) IN
  /\ Ready(r, "insert member")
  /\ \/ Found(r, row) # Absent /\ Fail(r)
     \/ /\ Found(r, row) = Absent
        /\ Write(r, row, "member")
        /\ Goto(r, "reference")
        /\ UNCHANGED <<share, attempts, expired>>

(* The foreign key of the row just written: its group has to be there, and *)
(* stays until the transaction ends.                                       *)
AfterReference(o) ==
  CASE o = "create_invite" -> "record"
    [] o = "accept_invite" -> "mark consumed"
    [] OTHER               -> "commit"

CheckReference(r) ==
  LET row == GroupRow(req[r].group) IN
  /\ Ready(r, "reference")
  /\ \/ Found(r, row) = Absent /\ Fail(r)
     \/ /\ Found(r, row) # Absent
        /\ KeyShare(r, row)
        /\ Goto(r, AfterReference(req[r].op))
        /\ UNCHANGED <<db, latest, lock, attempts, expired>>

(* Mutant: the accept forgets mark_consumed.                               *)
MarkForgotten(r) ==
  /\ Ready(r, "mark consumed")
  /\ Goto(r, "commit")
  /\ UNCHANGED <<store, attempts, expired>>

MarkConsumed(r) ==
  LET row == Invite(req[r].arg) IN
  /\ Ready(r, "mark consumed")
  /\ Update(r, row, Mark(Found(r, row), "consumed"))
  /\ Goto(r, "commit")
  /\ UNCHANGED <<share, attempts, expired>>

BeginRevokeInvite(r, g, u, i) == RequireOwner(r, "revoke_invite", g, u, i, "select invite")

SelectInvite(r) ==
  LET i == req[r].arg
      ours == db[Invite(i)] # Absent /\ InviteGroup[i] = req[r].group
  IN
  /\ AtStatement(r, "select invite")
  /\ \/ ~ours /\ Reply(r, 404)
     \/ ours /\ Goto(r, "mark revoked")
  /\ UNCHANGED <<store, attempts, expired>>

MarkRevoked(r) ==
  LET row == Invite(req[r].arg) IN
  /\ Ready(r, "mark revoked")
  /\ Update(r, row, Mark(Found(r, row), "revoked"))
  /\ Goto(r, "commit")
  /\ UNCHANGED <<share, attempts, expired>>

-----------------------------------------------------------------------------
(* Members.                                                                *)

BeginRemoveMember(r, g, u, v) == RequireOwner(r, "remove_member", g, u, v, "delete member")

(* Mutant: the owner may leave.                                            *)
OwnerLeaves(r, g, u) ==
  /\ "leave" \in Ops
  /\ req[r].pc = "idle"
  /\ db[Member(g, u)] # Absent
  /\ Begin(r, "leave", g, u, u, "delete member")
  /\ UNCHANGED <<store, attempts, expired>>

BeginLeave(r, g, u) ==
  LET role == db[Member(g, u)] IN
  /\ "leave" \in Ops
  /\ req[r].pc = "idle"
  /\ \/ role = Absent /\ Reply(r, 404)
     \/ role = "owner" /\ Reply(r, 409)
     \/ role = "member" /\ Begin(r, "leave", g, u, u, "delete member")
  /\ UNCHANGED <<store, attempts, expired>>

DeleteMember(r) ==
  /\ Ready(r, "delete member")
  /\ Update(r, Member(req[r].group, req[r].arg), Absent)
  /\ Goto(r, "commit")
  /\ UNCHANGED <<share, attempts, expired>>

BeginTransfer(r, g, u, v) == RequireOwner(r, "transfer_ownership", g, u, v, "select member")

(* Mutant: the new owner is promoted before the old one is demoted.        *)
PromoteFirst(c, role) == [op |-> c.op, group |-> c.group, user |-> c.user, arg |-> c.arg,
                          pc |-> "promote", seen |-> c.seen, seenArg |-> role,
                          status |-> c.status]

Confirm(c, role) == [op |-> c.op, group |-> c.group, user |-> c.user, arg |-> c.arg,
                     pc |-> "demote", seen |-> c.seen, seenArg |-> role,
                     status |-> c.status]

SelectNewOwner(r) ==
  LET role == db[Member(req[r].group, req[r].arg)] IN
  /\ AtStatement(r, "select member")
  /\ req[r].op = "transfer_ownership"
  /\ \/ role = Absent /\ Reply(r, 404)
     \/ role # Absent /\ req' = [req EXCEPT ![r] = Confirm(@, role)]
  /\ UNCHANGED <<store, attempts, expired>>

Demote(r) ==
  /\ Ready(r, "demote")
  /\ Update(r, Member(req[r].group, req[r].user), "member")
  /\ Goto(r, "promote")
  /\ UNCHANGED <<share, attempts, expired>>

(* The UPDATE of the new owner's row first locks it ...                    *)
Promote(r) ==
  LET row == Member(req[r].group, req[r].arg) IN
  /\ Ready(r, "promote")
  /\ Update(r, row, Found(r, row))
  /\ Goto(r, IF Found(r, row) = Absent THEN "commit" ELSE "one owner")
  /\ UNCHANGED <<share, attempts, expired>>

(* Mutant: the index on the owners is missing.                             *)
OwnerUnindexed(r) ==
  /\ Ready(r, "one owner")
  /\ Write(r, Member(req[r].group, req[r].arg), "owner")
  /\ Goto(r, "commit")
  /\ UNCHANGED <<share, attempts, expired>>

(* ... and then enters its new version in the index of the owners.         *)
OneOwner(r) ==
  LET g == req[r].group
      taken == \E v \in Users \ {req[r].arg} : Found(r, Member(g, v)) = "owner"
  IN
  /\ Ready(r, "one owner")
  /\ \/ taken /\ Fail(r)
     \/ /\ ~taken
        /\ Write(r, Member(g, req[r].arg), "owner")
        /\ Goto(r, "commit")
        /\ UNCHANGED <<share, attempts, expired>>

-----------------------------------------------------------------------------
(* Links from projects to groups.                                          *)

BeginLinkProject(r, g, u, p) == RequireOwner(r, "link_project", g, u, p, "select project")

(* Mutant: a project that is linked is linked again.                       *)
LinkAgain(r) ==
  LET ours == ProjectOwner[req[r].arg] = req[r].user /\ db[Project(req[r].arg)] # Absent IN
  /\ AtStatement(r, "select project")
  /\ req[r].op = "link_project"
  /\ \/ ~ours /\ Reply(r, 404)
     \/ ours /\ Goto(r, "set group")
  /\ UNCHANGED <<store, attempts, expired>>

SelectProjectToLink(r) ==
  LET p == req[r].arg
      ours == ProjectOwner[p] = req[r].user /\ db[Project(p)] # Absent
  IN
  /\ AtStatement(r, "select project")
  /\ req[r].op = "link_project"
  /\ \/ ~ours /\ Reply(r, 404)
     \/ ours /\ db[Project(p)] # Unlinked /\ Reply(r, 409)
     \/ ours /\ db[Project(p)] = Unlinked /\ Goto(r, "set group")
  /\ UNCHANGED <<store, attempts, expired>>

(* Mutant: an UPDATE that finds no project counts as a success.            *)
SetGroupBlindly(r) ==
  /\ Ready(r, "set group")
  /\ Update(r, Project(req[r].arg), req[r].group)
  /\ Goto(r, "reference")
  /\ UNCHANGED <<share, attempts, expired>>

(* The UPDATE, and the SELECT after it that expects the project to be      *)
(* there.                                                                  *)
SetGroup(r) ==
  /\ Ready(r, "set group")
  /\ \/ Found(r, Project(req[r].arg)) = Absent /\ Fail(r)
     \/ /\ Found(r, Project(req[r].arg)) # Absent
        /\ Write(r, Project(req[r].arg), req[r].group)
        /\ Goto(r, "reference")
        /\ UNCHANGED <<share, attempts, expired>>

BeginUnlinkProject(r, g, u, p) == RequireOwner(r, "unlink_project", g, u, p, "select project")

SelectProjectToUnlink(r) ==
  LET p == req[r].arg IN
  /\ AtStatement(r, "select project")
  /\ req[r].op = "unlink_project"
  /\ \/ db[Project(p)] # req[r].group /\ Reply(r, 404)
     \/ db[Project(p)] = req[r].group /\ Goto(r, "clear group")
  /\ UNCHANGED <<store, attempts, expired>>

ClearGroup(r) ==
  /\ Ready(r, "clear group")
  /\ \/ Found(r, Project(req[r].arg)) = Absent /\ Fail(r)
     \/ /\ Found(r, Project(req[r].arg)) # Absent
        /\ Write(r, Project(req[r].arg), Unlinked)
        /\ Goto(r, "commit")
        /\ UNCHANGED <<share, attempts, expired>>

(* ProjectService, seen from here: it creates and deletes the rows this    *)
(* module links.  Its transactions hold the project's row only and wait    *)
(* for nothing else, so that one step stands for each of them.  A project  *)
(* with tasks is not deleted: whether it has some is not known here.       *)
CreateProject(p) ==
  /\ "create_project" \in Ops
  /\ db[Project(p)] = Absent
  /\ \A r \in Reqs : req[r].arg # p
  /\ Replace(Project(p), Unlinked)
  /\ UNCHANGED <<req, attempts, expired>>

DeleteProject(p) ==
  /\ "delete_project" \in Ops
  /\ db[Project(p)] # Absent
  /\ Replace(Project(p), Absent)
  /\ UNCHANGED <<req, attempts, expired>>

-----------------------------------------------------------------------------
(* What ends a request, and what happens around the requests.              *)

CommitRequest(r) ==
  /\ AtStatement(r, "commit")
  /\ Commit(r)
  /\ Reply(r, Success)
  /\ UNCHANGED <<attempts, expired>>

(* Mutant: an attempt that is not there leaves the hour.                   *)
AgesTooFar(g, u) ==
  /\ attempts' = [attempts EXCEPT ![g][u] = @ - 1]
  /\ UNCHANGED <<store, req, expired>>

(* An attempt leaves the rolling hour; an invite gets past its expires_at. *)
AttemptAges(g, u) ==
  /\ attempts[g][u] > 0
  /\ attempts' = [attempts EXCEPT ![g][u] = @ - 1]
  /\ UNCHANGED <<store, req, expired>>

InviteExpires(i) ==
  /\ db[Invite(i)] # Absent
  /\ i \notin expired
  /\ expired' = expired \union {i}
  /\ UNCHANGED <<store, req, attempts>>

(* The server process stops and starts again with an empty limiter.        *)
Restart ==
  /\ RollbackAll
  /\ req' = [r \in Reqs |-> Idle]
  /\ attempts' = [g \in Groups |-> [u \in Users |-> 0]]
  /\ UNCHANGED expired

-----------------------------------------------------------------------------

Init ==
  /\ db = [x \in Rows |-> IF x \in ProjectRows THEN Unlinked ELSE Absent]
  /\ latest = db
  /\ lock = [x \in Rows |-> NoReq]
  /\ share = [x \in Rows |-> {}]
  /\ req = [r \in Reqs |-> Idle]
  /\ attempts = [g \in Groups |-> [u \in Users |-> 0]]
  /\ expired = {}

Arrive(r) ==
  \/ \E g \in Groups, u \in Users :
       \/ Create(r, g, u)
       \/ BeginRename(r, g, u)
       \/ BeginDelete(r, g, u)
       \/ BeginLeave(r, g, u)
       \/ \E v \in Users : BeginRemoveMember(r, g, u, v) \/ BeginTransfer(r, g, u, v)
       \/ \E i \in Invites : BeginCreateInvite(r, g, u, i) \/ BeginRevokeInvite(r, g, u, i)
       \/ \E p \in Projects : BeginLinkProject(r, g, u, p) \/ BeginUnlinkProject(r, g, u, p)
  \/ \E u \in Users, i \in Invites : BeginAcceptInvite(r, u, i)

Proceed(r) ==
  \/ UpdateGroup(r) \/ CountLinkedProjects(r) \/ DeleteGroup(r)
  \/ \E x \in Rows : CascadeRow(r, x)
  \/ CascadeDone(r)
  \/ CheckInviteRateLimit(r)
  \/ InsertInvite(r) \/ RecordInviteAttempt(r) \/ SelectOwnMembership(r) \/ InsertMember(r)
  \/ CheckReference(r) \/ MarkConsumed(r) \/ SelectInvite(r) \/ MarkRevoked(r)
  \/ DeleteMember(r) \/ SelectNewOwner(r) \/ Demote(r) \/ Promote(r) \/ OneOwner(r)
  \/ SelectProjectToLink(r) \/ SetGroup(r) \/ SelectProjectToUnlink(r) \/ ClearGroup(r)
  \/ CommitRequest(r) \/ DeadlockVictim(r) \/ Respond(r)

Tick == \/ \E g \in Groups, u \in Users : AttemptAges(g, u)
        \/ \E i \in Invites : InviteExpires(i)

ProjectStep == \E p \in Projects : CreateProject(p) \/ DeleteProject(p)

Next == \/ \E r \in Reqs : Arrive(r) \/ Proceed(r)
        \/ Tick
        \/ ProjectStep
        \/ Restart

Spec == Init /\ [][Next]_vars

(* Every request that can go on does, and the queue of a row's lock lets    *)
(* none wait for ever while others overtake it.                            *)
FairSpec == Spec /\ \A r \in Reqs : SF_vars(Proceed(r))

-----------------------------------------------------------------------------
(* Properties.                                                             *)

(* Every variable stays in its type: rows, requests, attempts and expiries. *)
TypeOK ==
  /\ StoreType(Rows, Values)
  /\ req \in [Reqs -> Requests]
  /\ attempts \in [Groups -> [Users -> Nat]]
  /\ expired \in SUBSET Invites

(* No committed state shows two owners of one group, whatever transfers,   *)
(* removals and accepts overlap: transfer_ownership demotes before it      *)
(* promotes, and the partial unique index decides between two of them.     *)
AtMostOneOwner ==
  \A g \in Groups : \A u, v \in Users :
    db[Member(g, u)] = "owner" /\ db[Member(g, v)] = "owner" => u = v

(* A group that is gone leaves no membership, no invite and no link from a *)
(* project behind, also when an accept, a new invite or a link overlaps    *)
(* its deletion.                                                           *)
NothingOutlivesItsGroup ==
  \A g \in Groups :
    db[GroupRow(g)] = Absent =>
      /\ \A x \in Children(g) : db[x] = Absent
      /\ LinkedProjects(g) = {}

HasOwner(g) == \E u \in Users : db[Member(g, u)] = "owner"

Committing(r) == req[r].pc = "commit" /\ req'[r].status = Success

(* A group loses its only owner in just these ways: the owner removes      *)
(* himself as a member; or a request acts on a role it read before another *)
(* request changed it (a caller demoted before his remove_member took      *)
(* effect, a member promoted before his leave did, a new owner gone before *)
(* the transfer reached his row).                                          *)
LosesOwner(r, g) ==
  LET c == req[r] IN
  /\ Committing(r)
  /\ c.group = g
  /\ \/ c.op = "remove_member" /\ (c.arg = c.user \/ db[Member(g, c.user)] # "owner")
     \/ c.op = "leave" /\ c.seen = "member"
     \/ /\ c.op = "transfer_ownership"
        /\ c.seenArg # Absent
        /\ lock[Member(g, c.arg)] # r

OwnerLossIsExplained ==
  [][\A g \in Groups :
       HasOwner(g) /\ db'[GroupRow(g)] # Absent /\ ~HasOwner(g)'
         => \E r \in Reqs : LosesOwner(r, g)]_vars

(* A user becomes a member by accepting an invite of that group, which is  *)
(* spent in the same commit; only the creator of a group is in it without. *)
JoinSpendsAnInvite ==
  [][\A g \in Groups, u \in Users :
       db[Member(g, u)] = Absent /\ db'[Member(g, u)] # Absent =>
         \/ db[GroupRow(g)] = Absent /\ db'[Member(g, u)] = "owner"
         \/ /\ db'[Member(g, u)] = "member"
            /\ \E r \in Reqs : /\ Committing(r)
                              /\ req[r].op = "accept_invite" /\ req[r].user = u
                              /\ InviteGroup[req[r].arg] = g
                              /\ Consumed(db'[Invite(req[r].arg)])]_vars

(* An invite is not spent for nothing: when it becomes consumed, a user    *)
(* becomes a member in the same commit.                                    *)
SpentInviteAdmits ==
  [][\A i \in Invites :
       ~Consumed(db[Invite(i)]) /\ Consumed(db'[Invite(i)]) =>
         \E u \in Users : /\ db[Member(InviteGroup[i], u)] = Absent
                          /\ db'[Member(InviteGroup[i], u)] = "member"]_vars

(* Only a transfer changes the role of someone who is in the group: a      *)
(* second accept of a user who has become the owner meanwhile does not     *)
(* turn him into a member again.                                           *)
RolesChangeByTransfer ==
  [][\A g \in Groups, u \in Users :
       /\ db[Member(g, u)] # Absent
       /\ db'[Member(g, u)] \notin {Absent, db[Member(g, u)]}
       => \E r \in Reqs : Committing(r) /\ req[r].op = "transfer_ownership"]_vars

(* A consumed or revoked invite stays so, when an accept and a revocation  *)
(* of it overlap: neither write undoes the other's.                        *)
MarksStay ==
  [][\A i \in Invites :
       db'[Invite(i)] # Absent =>
         /\ Consumed(db[Invite(i)]) => Consumed(db'[Invite(i)])
         /\ Revoked(db[Invite(i)]) => Revoked(db'[Invite(i)])]_vars

(* Requests that check the limit before any of them has recorded its       *)
(* attempt get past it together, but never by more than the others in      *)
(* flight at that time.                                                    *)
InviteBurstBound ==
  \A g \in Groups, u \in Users :
    attempts[g][u] < InviteMax + Cardinality(Reqs)

(* What a success tells the client is so at its commit, whatever else has  *)
(* been committed since the checks of its method: an admitted user is in a *)
(* group that is there, a revoked invite admits nobody, a deleted group    *)
(* is gone, and a project is linked or unlinked and not deleted meanwhile. *)
TookEffect(c) ==
  CASE c.op = "accept_invite" ->
         db'[GroupRow(c.group)] # Absent /\ db'[Member(c.group, c.user)] # Absent
    [] c.op = "create_invite" -> db'[GroupRow(c.group)] # Absent
    [] c.op = "revoke_invite" -> db'[Invite(c.arg)] # Absent => Revoked(db'[Invite(c.arg)])
    [] c.op = "rename" -> db'[GroupRow(c.group)] # Absent
    [] c.op = "delete" -> db'[GroupRow(c.group)] = Absent
    [] c.op = "link_project" -> db'[Project(c.arg)] = c.group
    [] c.op = "unlink_project" -> db'[Project(c.arg)] = Unlinked
    [] OTHER -> TRUE

SuccessTakesEffect ==
  [][\A r \in Reqs : Committing(r) => TookEffect(req[r])]_vars

(* What the clients see of the committed rows is the sequential registry:  *)
(* every request takes effect in one step, its commit, or not at all.      *)
Registry == INSTANCE GroupRegistry WITH
  groups    <- {g \in Groups : db[GroupRow(g)] # Absent},
  role      <- [g \in Groups |-> [u \in Users |-> db[Member(g, u)]]],
  issued    <- {i \in Invites : db[Invite(i)] # Absent},
  spent     <- {i \in Invites : Consumed(db[Invite(i)])},
  withdrawn <- {i \in Invites : Revoked(db[Invite(i)])},
  link      <- [p \in Projects |-> db[Project(p)]]

ImplementsRegistry == Registry!Spec

(* Whatever waits for whatever, every request is answered.                 *)
EveryRequestEnds == \A r \in Reqs : req[r].pc # "idle" ~> req[r].pc \in {"done", "idle"}

(* One request at a time never meets a constraint of the database: the     *)
(* checks of the service come first, and a transfer demotes before it      *)
(* promotes because the index is checked statement by statement.           *)
NoServerError == \A r \in Reqs : req[r].status # ServerError

(* An invite admits one user: no accept commits with an invite that is     *)
(* already consumed ("single-use").                                        *)
InviteAdmitsOne ==
  [][\A r \in Reqs : Committing(r) /\ req[r].op = "accept_invite"
                       => ~Consumed(db[Invite(req[r].arg)])]_vars

(* "A group can never end up without an Owner."                            *)
NeverWithoutOwner == \A g \in Groups : db[GroupRow(g)] # Absent => HasOwner(g)

(* A project that has a group gets another one only after an unlink: that  *)
(* is what ProjectAlreadyLinkedError is raised for.                        *)
LinkedProjectStays ==
  [][\A p \in Projects :
       db[Project(p)] # Unlinked =>
         db'[Project(p)] \in {db[Project(p)], Unlinked, Absent}]_vars
=============================================================================
