---------------------------- MODULE GroupsProofs ----------------------------
(***************************************************************************)
(* What holds of Groups for any number of groups, users, invites, projects *)
(* and overlapping requests.                                               *)
(***************************************************************************)
EXTENDS Groups, RowStoreProofs

(* The rows of the four tables are rows of the store.                      *)
LEMMA RowTypes ==
  /\ \A g \in Groups : GroupRow(g) \in Rows
  /\ \A g \in Groups, u \in Users : Member(g, u) \in Rows
  /\ \A i \in Invites : Invite(i) \in Rows
  /\ \A p \in Projects : Project(p) \in Rows
BY DEF Rows, GroupRows, MemberRows, InviteRows, ProjectRows

(* A row that is not there has a value of the store too.                   *)
LEMMA AbsentIsAValue == Absent \in Values
BY DEF Values

-----------------------------------------------------------------------------
(* Requests keep their type.                                               *)

(* A slot without a request is well typed.                                 *)
LEMMA IdleType == Idle \in Requests
BY DEF Requests

(* The statuses the actions answer with are statuses.                      *)
LEMMA StatusTypes ==
  /\ Success \in Statuses /\ ServerError \in Statuses
  /\ 403 \in Statuses /\ 404 \in Statuses /\ 409 \in Statuses
  /\ 410 \in Statuses /\ 429 \in Statuses
BY DEF Statuses

(* A request that is about to run a statement is a call.                   *)
LEMMA CallAtStatement ==
  ASSUME TypeOK, NEW r \in Reqs, req[r].pc \in Statements
  PROVE  req[r] \in Calls
<1>1. req[r] \in Requests
  BY DEF TypeOK
<1>2. \A s : Blank("idle", s).pc = "idle" /\ Blank("done", s).pc = "done"
  BY DEF Blank
<1>3. "idle" \notin Statements /\ "done" \notin Statements
  BY DEF Statements
<1>4. req[r] # Idle
  BY <1>2, <1>3 DEF Idle
<1>5. req[r] \notin {Blank("done", s) : s \in Statuses}
  BY <1>2, <1>3
<1> QED
  BY <1>1, <1>4, <1>5 DEF Requests

(* An answer keeps the requests well typed.                                *)
LEMMA ReplyType ==
  ASSUME TypeOK, NEW r \in Reqs, NEW s \in Statuses, Reply(r, s)
  PROVE  req' \in [Reqs -> Requests]
<1>1. Blank("done", s) \in Requests
  BY DEF Requests
<1> QED
  BY <1>1 DEF TypeOK, Reply

(* So does going on to the next statement.                                 *)
LEMMA GotoType ==
  ASSUME TypeOK, NEW r \in Reqs, req[r].pc \in Statements,
         NEW next \in Statements, Goto(r, next)
  PROVE  req' \in [Reqs -> Requests]
<1>1. req[r] \in Calls
  BY CallAtStatement
<1>2. [req[r] EXCEPT !.pc = next] \in Calls
  BY <1>1 DEF Calls
<1>3. [req[r] EXCEPT !.pc = next] \in Requests
  BY <1>2 DEF Requests
<1> QED
  BY <1>3 DEF TypeOK, Goto

(* The record of a new call is a call.                                     *)
LEMMA CallType ==
  ASSUME NEW o \in Ops, NEW g \in Groups, NEW u \in Users, NEW a \in ArgOf(o),
         NEW next \in Statements, NEW v \in Values
  PROVE  Call(o, g, u, a, next, v) \in Requests
<1>1. Call(o, g, u, a, next, v) \in Calls
  BY AbsentIsAValue DEF Call, Calls, ArgOf
<1> QED
  BY <1>1 DEF Requests

(* Starting a request keeps the requests well typed.                       *)
LEMMA BeginType ==
  ASSUME TypeOK, NEW r \in Reqs, NEW o \in Ops, NEW g \in Groups, NEW u \in Users,
         NEW a \in ArgOf(o), NEW next \in Statements, Begin(r, o, g, u, a, next)
  PROVE  req' \in [Reqs -> Requests]
<1>1. db[Member(g, u)] \in Values
  BY RowTypes DEF TypeOK, StoreType
<1>2. Call(o, g, u, a, next, db[Member(g, u)]) \in Requests
  BY <1>1, CallType
<1> QED
  BY <1>2 DEF TypeOK, Begin

(* The owner's methods start well typed, refused or not.                   *)
LEMMA RequireOwnerType ==
  ASSUME TypeOK, NEW r \in Reqs, NEW o, NEW g \in Groups, NEW u \in Users,
         NEW a \in ArgOf(o), NEW next \in Statements, RequireOwner(r, o, g, u, a, next)
  PROVE  TypeOK'
<1>1. StoreType(Rows, Values)'
  BY StoreUnchanged DEF TypeOK, RequireOwner
<1>2. req' \in [Reqs -> Requests]
  BY ReplyType, BeginType DEF RequireOwner, Statuses
<1> QED
  BY <1>1, <1>2 DEF TypeOK, RequireOwner

(* A request that fails leaves every variable well typed.                  *)
LEMMA FailType ==
  ASSUME TypeOK, NEW r \in Reqs, Fail(r)
  PROVE  TypeOK'
<1>1. StoreType(Rows, Values)'
  BY RollbackType DEF TypeOK, Fail
<1>2. req' \in [Reqs -> Requests]
  BY ReplyType DEF Fail, Statuses, ServerError
<1> QED
  BY <1>1, <1>2 DEF TypeOK, Fail

-----------------------------------------------------------------------------
(* The shapes most steps have: a SELECT that goes on or answers, and a     *)
(* statement that writes one row and goes on.                              *)

(* The fields of a call have the types the statements rely on.             *)
LEMMA CallFields ==
  ASSUME TypeOK, NEW r \in Reqs, req[r].pc \in Statements
  PROVE  /\ req[r].group \in Groups
         /\ req[r].user \in Users
         /\ req[r].arg \in ArgOf(req[r].op)
         /\ req[r].op \in Ops
BY CallAtStatement DEF Calls

(* A statement that only reads keeps every type.                           *)
LEMMA SelectType ==
  ASSUME TypeOK, NEW r \in Reqs, req[r].pc \in Statements,
         \/ \E s \in Statuses : Reply(r, s)
         \/ \E next \in Statements : Goto(r, next),
         UNCHANGED <<store, attempts, expired>>
  PROVE  TypeOK'
<1>1. req' \in [Reqs -> Requests]
  BY ReplyType, GotoType
<1>2. StoreType(Rows, Values)'
  BY StoreUnchanged DEF TypeOK
<1> QED
  BY <1>1, <1>2 DEF TypeOK

(* A statement that writes one row keeps every type.                       *)
LEMMA WriteStepType ==
  ASSUME TypeOK, NEW r \in Reqs, req[r].pc \in Statements,
         NEW x, NEW v \in Values, NEW next \in Statements,
         Write(r, x, v) \/ Update(r, x, v), Goto(r, next),
         UNCHANGED <<share, attempts, expired>>
  PROVE  TypeOK'
<1>1. req' \in [Reqs -> Requests]
  BY GotoType
<1>2. StoreType(Rows, Values)'
  BY WriteType, UpdateType DEF TypeOK
<1> QED
  BY <1>1, <1>2 DEF TypeOK

(* The values the statements write are values of the store.                *)
LEMMA LiteralValues ==
  /\ {Live, Unlinked, "owner", "member", "pending"} \subseteq Values
  /\ Groups \subseteq Values
  /\ \A v \in Values, m \in Marks : Mark(v, m) \in Values
BY DEF Values, Roles, Marks, Mark

-----------------------------------------------------------------------------
(* Every action keeps the types.                                           *)

(* Every way a request arrives keeps the types.                            *)
LEMMA ArriveType ==
  ASSUME TypeOK, NEW r \in Reqs, Arrive(r)
  PROVE  TypeOK'
<1> USE DEF ArgOf
<1> DEFINE First == {"update group", "count projects", "check limit", "select invite",
                     "delete member", "select member", "select project", "commit"}
<1>0. First \subseteq Statements
  BY DEF Statements
<1>1. ASSUME NEW g \in Groups, NEW u \in Users, Create(r, g, u)
      PROVE  TypeOK'
  <2>1. "create" \in Ops
    BY <1>1 DEF Create
  <2>2. req' \in [Reqs -> Requests]
    BY <1>0, <1>1, <2>1, BeginType DEF Create
  <2>3. StoreType(Rows, Values)'
    <3> DEFINE X == {GroupRow(g), Member(g, u)}
               f == [x \in X |-> IF x = GroupRow(g) THEN Live ELSE "owner"]
    <3>1. \A x \in X : f[x] \in Values
      BY LiteralValues
    <3>2. WriteAll(r, X, f) /\ share' = share
      BY <1>1 DEF Create
    <3> HIDE DEF X, f
    <3> QED
      BY <3>1, <3>2, WriteAllType DEF TypeOK
  <2>4. attempts' \in [Groups -> [Users -> Nat]] /\ expired' \in SUBSET Invites
    BY <1>1 DEF Create, TypeOK
  <2> QED
    BY <2>2, <2>3, <2>4 DEF TypeOK
<1>2. ASSUME NEW g \in Groups, NEW u \in Users, BeginRename(r, g, u)
      PROVE  TypeOK'
  BY <1>0, <1>2, RequireOwnerType DEF BeginRename
<1>3. ASSUME NEW g \in Groups, NEW u \in Users, BeginDelete(r, g, u)
      PROVE  TypeOK'
  BY <1>0, <1>3, RequireOwnerType DEF BeginDelete
<1>4. ASSUME NEW g \in Groups, NEW u \in Users, BeginLeave(r, g, u)
      PROVE  TypeOK'
  <2>1. req' \in [Reqs -> Requests]
    <3>1. \/ Reply(r, 404) \/ Reply(r, 409)
          \/ "leave" \in Ops /\ Begin(r, "leave", g, u, u, "delete member")
      BY <1>4 DEF BeginLeave
    <3>2. CASE Reply(r, 404) \/ Reply(r, 409)
      BY <3>2, ReplyType, StatusTypes
    <3>3. CASE "leave" \in Ops /\ Begin(r, "leave", g, u, u, "delete member")
      BY <1>0, <3>3, BeginType
    <3> QED
      BY <3>1, <3>2, <3>3
  <2>2. StoreType(Rows, Values)'
    BY <1>4, StoreUnchanged DEF BeginLeave, TypeOK
  <2> QED
    BY <1>4, <2>1, <2>2 DEF BeginLeave, TypeOK
<1>5. ASSUME NEW g \in Groups, NEW u \in Users, NEW v \in Users, BeginRemoveMember(r, g, u, v)
      PROVE  TypeOK'
  BY <1>0, <1>5, RequireOwnerType DEF BeginRemoveMember
<1>6. ASSUME NEW g \in Groups, NEW u \in Users, NEW v \in Users, BeginTransfer(r, g, u, v)
      PROVE  TypeOK'
  BY <1>0, <1>6, RequireOwnerType DEF BeginTransfer
<1>7. ASSUME NEW g \in Groups, NEW u \in Users, NEW i \in Invites, BeginCreateInvite(r, g, u, i)
      PROVE  TypeOK'
  BY <1>0, <1>7, RequireOwnerType DEF BeginCreateInvite
<1>8. ASSUME NEW g \in Groups, NEW u \in Users, NEW i \in Invites, BeginRevokeInvite(r, g, u, i)
      PROVE  TypeOK'
  BY <1>0, <1>8, RequireOwnerType DEF BeginRevokeInvite
<1>9. ASSUME NEW g \in Groups, NEW u \in Users, NEW p \in Projects, BeginLinkProject(r, g, u, p)
      PROVE  TypeOK'
  BY <1>0, <1>9, RequireOwnerType DEF BeginLinkProject
<1>10. ASSUME NEW g \in Groups, NEW u \in Users, NEW p \in Projects, BeginUnlinkProject(r, g, u, p)
       PROVE  TypeOK'
  BY <1>0, <1>10, RequireOwnerType DEF BeginUnlinkProject
<1>11. ASSUME NEW u \in Users, NEW i \in Invites, BeginAcceptInvite(r, u, i)
       PROVE  TypeOK'
  <2>1. InviteGroup[i] \in Groups /\ "accept_invite" \in Ops
    BY <1>11, GroupsAssumption DEF BeginAcceptInvite
  <2>2. Call("accept_invite", InviteGroup[i], u, i, "select member", Absent) \in Requests
    BY <1>0, <2>1, CallType, AbsentIsAValue
  <2>3. req' \in [Reqs -> Requests]
    <3>1. \/ \E s \in {404, 409, 410} : Reply(r, s)
          \/ req' = [req EXCEPT ![r] = Call("accept_invite", InviteGroup[i], u, i,
                                            "select member", Absent)]
      BY <1>11 DEF BeginAcceptInvite
    <3>2. CASE \E s \in {404, 409, 410} : Reply(r, s)
      BY <3>2, ReplyType, StatusTypes
    <3>3. CASE req' = [req EXCEPT ![r] = Call("accept_invite", InviteGroup[i], u, i,
                                              "select member", Absent)]
      BY <2>2, <3>3 DEF TypeOK
    <3> QED
      BY <3>1, <3>2, <3>3
  <2>4. StoreType(Rows, Values)'
    BY <1>11, StoreUnchanged DEF BeginAcceptInvite, TypeOK
  <2> QED
    BY <1>11, <2>3, <2>4 DEF BeginAcceptInvite, TypeOK
<1> QED
  BY <1>1, <1>2, <1>3, <1>4, <1>5, <1>6, <1>7, <1>8, <1>9, <1>10, <1>11 DEF Arrive

(* Every way a request goes on keeps the types.                            *)
LEMMA ProceedType ==
  ASSUME TypeOK, NEW r \in Reqs, Proceed(r)
  PROVE  TypeOK'
<1> DEFINE g == req[r].group
           me == Member(g, req[r].user)
           it == Member(g, req[r].arg)
           invite == Invite(req[r].arg)
           project == Project(req[r].arg)
<1> USE DEF AtStatement, Ready
<1>0. /\ {"commit", "delete group", "cascade", "insert invite", "reference", "record",
          "insert member", "mark consumed", "mark revoked", "delete member", "demote",
          "promote", "one owner", "set group", "clear group", "update group",
          "count projects", "check limit", "select member", "select invite",
          "select project"} \subseteq Statements
  BY DEF Statements
<1>1. CASE UpdateGroup(r)
  <2>1. CASE Fail(r)
    BY <2>1, FailType
  <2>2. CASE Write(r, GroupRow(g), Live) /\ Goto(r, "commit")
             /\ UNCHANGED <<share, attempts, expired>>
    BY <1>0, <1>1, <2>2, WriteStepType, LiteralValues DEF UpdateGroup
  <2> QED
    BY <1>1, <2>1, <2>2 DEF UpdateGroup
<1>2. CASE CountLinkedProjects(r)
  <2>1. /\ Reply(r, 409) \/ Goto(r, "delete group")
        /\ req[r].pc = "count projects" /\ UNCHANGED <<store, attempts, expired>>
    BY <1>2 DEF CountLinkedProjects
  <2> QED
    BY <1>0, <2>1, SelectType, StatusTypes
<1>3. CASE DeleteGroup(r)
  <2>1. CASE Fail(r)
    BY <2>1, FailType
  <2>2. CASE ~Fail(r)
    <3>1. \E next \in {"commit", "cascade"} : Goto(r, next)
      BY <1>3, <2>2 DEF DeleteGroup
    <3>2. Update(r, GroupRow(g), Absent) /\ UNCHANGED <<share, attempts, expired>>
      BY <1>3, <2>2 DEF DeleteGroup
    <3>3. req[r].pc \in Statements
      BY <1>0, <1>3 DEF DeleteGroup
    <3> QED
      BY <1>0, <3>1, <3>2, <3>3, WriteStepType, AbsentIsAValue
  <2> QED
    BY <2>1, <2>2
<1>4. ASSUME NEW x \in Rows, CascadeRow(r, x)
      PROVE  TypeOK'
  <2>1. StoreType(Rows, Values)'
    BY <1>4, WriteType, AbsentIsAValue DEF CascadeRow, TypeOK
  <2> QED
    BY <1>4, <2>1 DEF CascadeRow, TypeOK
<1>5. CASE CascadeDone(r)
  BY <1>0, <1>5, SelectType, StatusTypes DEF CascadeDone
<1>6. CASE CheckInviteRateLimit(r)
  <2>1. /\ Reply(r, 429) \/ Goto(r, "insert invite")
        /\ req[r].pc = "check limit" /\ UNCHANGED <<store, attempts, expired>>
    BY <1>6 DEF CheckInviteRateLimit
  <2> QED
    BY <1>0, <2>1, SelectType, StatusTypes
<1>7. CASE InsertInvite(r)
  BY <1>0, <1>7, WriteStepType, LiteralValues DEF InsertInvite
<1>8. CASE RecordInviteAttempt(r)
  <2>1. req' \in [Reqs -> Requests]
    BY <1>0, <1>8, GotoType DEF RecordInviteAttempt
  <2>2. StoreType(Rows, Values)'
    BY <1>8, StoreUnchanged DEF RecordInviteAttempt, TypeOK
  <2>3. g \in Groups /\ req[r].user \in Users
    BY <1>0, <1>8, CallFields DEF RecordInviteAttempt
  <2>4. attempts' \in [Groups -> [Users -> Nat]]
    BY <1>8, <2>3 DEF RecordInviteAttempt, TypeOK
  <2> QED
    BY <1>8, <2>1, <2>2, <2>4 DEF RecordInviteAttempt, TypeOK
<1>9. CASE SelectOwnMembership(r)
  <2>1. /\ Reply(r, 409) \/ Goto(r, "insert member")
        /\ req[r].pc = "select member" /\ UNCHANGED <<store, attempts, expired>>
    BY <1>9 DEF SelectOwnMembership
  <2> QED
    BY <1>0, <2>1, SelectType, StatusTypes
<1>10. CASE InsertMember(r)
  <2>1. CASE Fail(r)
    BY <2>1, FailType
  <2>2. CASE Write(r, me, "member") /\ Goto(r, "reference")
             /\ UNCHANGED <<share, attempts, expired>>
    BY <1>0, <1>10, <2>2, WriteStepType, LiteralValues DEF InsertMember
  <2> QED
    BY <1>10, <2>1, <2>2 DEF InsertMember
<1>11. CASE CheckReference(r)
  <2>1. CASE Fail(r)
    BY <2>1, FailType
  <2>2. CASE ~Fail(r)
    <3>1. AfterReference(req[r].op) \in Statements
      BY <1>0 DEF AfterReference
    <3>2. req' \in [Reqs -> Requests]
      BY <1>0, <1>11, <2>2, <3>1, GotoType DEF CheckReference
    <3>3. StoreType(Rows, Values)'
      BY <1>11, <2>2, KeyShareType DEF CheckReference, TypeOK
    <3> QED
      BY <1>11, <2>2, <3>2, <3>3 DEF CheckReference, TypeOK
  <2> QED
    BY <2>1, <2>2
<1>12. CASE MarkConsumed(r) \/ MarkRevoked(r)
  <2>1. invite \in Rows => Found(r, invite) \in Values
    BY FoundType DEF TypeOK
  <2>2. req[r].pc \in Statements
    BY <1>0, <1>12 DEF MarkConsumed, MarkRevoked
  <2>3. \E m \in {"consumed", "revoked"} :
          /\ Update(r, invite, Mark(Found(r, invite), m))
          /\ Goto(r, "commit")
          /\ UNCHANGED <<share, attempts, expired>>
    BY <1>12 DEF MarkConsumed, MarkRevoked
  <2>4. \A m \in {"consumed", "revoked"} : Mark(Found(r, invite), m) \in Values
    BY DEF Mark, Values, Marks
  <2> QED
    BY <1>0, <2>2, <2>3, <2>4, WriteStepType
<1>13. CASE SelectInvite(r)
  <2>1. /\ Reply(r, 404) \/ Goto(r, "mark revoked")
        /\ req[r].pc = "select invite" /\ UNCHANGED <<store, attempts, expired>>
    BY <1>13 DEF SelectInvite
  <2> QED
    BY <1>0, <2>1, SelectType, StatusTypes
<1>14. CASE DeleteMember(r)
  BY <1>0, <1>14, WriteStepType, AbsentIsAValue DEF DeleteMember
<1>15. CASE SelectNewOwner(r)
  <2>1. StoreType(Rows, Values)'
    BY <1>15, StoreUnchanged DEF SelectNewOwner, TypeOK
  <2>2. req[r] \in Calls
    BY <1>0, <1>15, CallAtStatement DEF SelectNewOwner
  <2>3. req' \in [Reqs -> Requests]
    <3>1. CASE Reply(r, 404)
      BY <3>1, ReplyType, StatusTypes
    <3>2. CASE ~Reply(r, 404)
      <4>1. req' = [req EXCEPT ![r] = Confirm(req[r], db[it])]
        BY <1>15, <3>2 DEF SelectNewOwner
      <4>2. db[it] \in Values
        BY <1>15, <2>2, RowTypes DEF SelectNewOwner, Calls, ArgOf, TypeOK, StoreType
      <4>3. Confirm(req[r], db[it]) \in Calls
        BY <1>0, <2>2, <4>2 DEF Confirm, Calls, ArgOf
      <4> QED
        BY <4>1, <4>3 DEF TypeOK, Requests
    <3> QED
      BY <3>1, <3>2
  <2> QED
    BY <1>15, <2>1, <2>3 DEF SelectNewOwner, TypeOK
<1>16. CASE Demote(r)
  BY <1>0, <1>16, WriteStepType, LiteralValues DEF Demote
<1>17. CASE Promote(r)
  <2>1. /\ Update(r, it, Found(r, it))
        /\ \E next \in {"commit", "one owner"} : Goto(r, next)
        /\ req[r].pc = "promote" /\ UNCHANGED <<share, attempts, expired>>
    BY <1>17 DEF Promote
  <2>2. CASE it \in Rows
    <3>1. Found(r, it) \in Values
      BY <2>2, FoundType DEF TypeOK
    <3> QED
      BY <1>0, <2>1, <3>1, WriteStepType
  <2>3. CASE it \notin Rows
    BY <1>0, <2>1, <2>3, GotoType DEF Update, Write, TypeOK, StoreType
  <2> QED
    BY <2>2, <2>3
<1>18. CASE OneOwner(r)
  <2>1. CASE Fail(r)
    BY <2>1, FailType
  <2>2. CASE Write(r, it, "owner") /\ Goto(r, "commit")
             /\ UNCHANGED <<share, attempts, expired>>
    BY <1>0, <1>18, <2>2, WriteStepType, LiteralValues DEF OneOwner
  <2> QED
    BY <1>18, <2>1, <2>2 DEF OneOwner
<1>19. CASE SelectProjectToLink(r)
  <2>1. /\ Reply(r, 404) \/ Reply(r, 409) \/ Goto(r, "set group")
        /\ req[r].pc = "select project" /\ UNCHANGED <<store, attempts, expired>>
    BY <1>19 DEF SelectProjectToLink
  <2> QED
    BY <1>0, <2>1, SelectType, StatusTypes
<1>20. CASE SetGroup(r)
  <2>1. g \in Values
    BY <1>0, <1>20, CallFields, LiteralValues DEF SetGroup
  <2>2. CASE Fail(r)
    BY <2>2, FailType
  <2>3. CASE Write(r, project, g) /\ Goto(r, "reference")
             /\ UNCHANGED <<share, attempts, expired>>
    BY <1>0, <1>20, <2>1, <2>3, WriteStepType DEF SetGroup
  <2> QED
    BY <1>20, <2>2, <2>3 DEF SetGroup
<1>21. CASE SelectProjectToUnlink(r)
  <2>1. /\ Reply(r, 404) \/ Goto(r, "clear group")
        /\ req[r].pc = "select project" /\ UNCHANGED <<store, attempts, expired>>
    BY <1>21 DEF SelectProjectToUnlink
  <2> QED
    BY <1>0, <2>1, SelectType, StatusTypes
<1>22. CASE ClearGroup(r)
  <2>1. CASE Fail(r)
    BY <2>1, FailType
  <2>2. CASE Write(r, project, Unlinked) /\ Goto(r, "commit")
             /\ UNCHANGED <<share, attempts, expired>>
    BY <1>0, <1>22, <2>2, WriteStepType, LiteralValues DEF ClearGroup
  <2> QED
    BY <1>22, <2>1, <2>2 DEF ClearGroup
<1>23. CASE CommitRequest(r)
  <2>1. StoreType(Rows, Values)'
    BY <1>23, CommitType DEF CommitRequest, TypeOK
  <2>2. req' \in [Reqs -> Requests]
    BY <1>23, ReplyType, StatusTypes DEF CommitRequest
  <2> QED
    BY <1>23, <2>1, <2>2 DEF CommitRequest, TypeOK
<1>24. CASE DeadlockVictim(r)
  BY <1>24, FailType DEF DeadlockVictim
<1>25. CASE Respond(r)
  <2>1. StoreType(Rows, Values)'
    BY <1>25, StoreUnchanged DEF Respond, TypeOK
  <2> QED
    BY <1>25, <2>1, IdleType DEF Respond, TypeOK
<1> QED
  BY <1>1, <1>2, <1>3, <1>4, <1>5, <1>6, <1>7, <1>8, <1>9, <1>10, <1>11, <1>12, <1>13,
     <1>14, <1>15, <1>16, <1>17, <1>18, <1>19, <1>20, <1>21, <1>22, <1>23, <1>24, <1>25
     DEF Proceed

(* The initial state is well typed.                                        *)
LEMMA TypeInit == Init => TypeOK
<1> SUFFICES ASSUME Init PROVE TypeOK
  OBVIOUS
<1>1. db \in [Rows -> Values]
  BY LiteralValues, AbsentIsAValue DEF Init
<1>2. StoreType(Rows, Values)
  BY <1>1 DEF Init, StoreType
<1>3. req \in [Reqs -> Requests]
  BY IdleType DEF Init
<1> QED
  BY <1>2, <1>3 DEF Init, TypeOK

(* Every step keeps the types.                                             *)
LEMMA TypeStep ==
  ASSUME TypeOK, [Next]_vars
  PROVE  TypeOK'
<1>1. ASSUME NEW r \in Reqs, Arrive(r)
      PROVE  TypeOK'
  BY <1>1, ArriveType
<1>2. ASSUME NEW r \in Reqs, Proceed(r)
      PROVE  TypeOK'
  BY <1>2, ProceedType
<1>3. ASSUME NEW g \in Groups, NEW u \in Users, AttemptAges(g, u)
      PROVE  TypeOK'
  <2>1. StoreType(Rows, Values)'
    BY <1>3, StoreUnchanged DEF AttemptAges, TypeOK
  <2>2. attempts[g][u] \in Nat /\ attempts[g][u] > 0
    BY <1>3 DEF AttemptAges, TypeOK
  <2>3. attempts[g][u] - 1 \in Nat
    BY <2>2
  <2>4. attempts' \in [Groups -> [Users -> Nat]]
    BY <1>3, <2>3 DEF AttemptAges, TypeOK
  <2> QED
    BY <1>3, <2>1, <2>4 DEF AttemptAges, TypeOK
<1>4. ASSUME NEW i \in Invites, InviteExpires(i)
      PROVE  TypeOK'
  <2>1. StoreType(Rows, Values)'
    BY <1>4, StoreUnchanged DEF InviteExpires, TypeOK
  <2> QED
    BY <1>4, <2>1 DEF InviteExpires, TypeOK
<1>5. CASE Restart
  <2>1. StoreType(Rows, Values)'
    BY <1>5, RollbackAllType DEF Restart, TypeOK
  <2> QED
    BY <1>5, <2>1, IdleType DEF Restart, TypeOK
<1>6. ASSUME NEW p \in Projects, CreateProject(p) \/ DeleteProject(p)
      PROVE  TypeOK'
  <2>1. StoreType(Rows, Values)'
    BY <1>6, ReplaceType, LiteralValues, AbsentIsAValue
       DEF CreateProject, DeleteProject, TypeOK
  <2> QED
    BY <1>6, <2>1 DEF CreateProject, DeleteProject, TypeOK
<1>7. CASE UNCHANGED vars
  BY <1>7 DEF vars, TypeOK, StoreType
<1> QED
  BY <1>1, <1>2, <1>3, <1>4, <1>5, <1>6, <1>7 DEF Next, Tick, ProjectStep

(* Whatever requests overlap, every row, every request and the limiter     *)
(* stay within their types: the statements of GroupService and its         *)
(* repositories never write a value that no column holds, and a request    *)
(* always carries the arguments its method takes.                          *)
THEOREM TypesHold == Spec => []TypeOK
<1>1. TypeOK /\ [Next]_vars => TypeOK'
  BY TypeStep
<1> QED
  BY TypeInit, <1>1, PTL DEF Spec

-----------------------------------------------------------------------------
(* One owner per group.  AtMostOneOwner speaks of committed rows only; what *)
(* keeps it is what the rows that are not committed yet may hold.  Two rows *)
(* of a group are both an owner's only while one transaction holds both and *)
(* takes the role from the one it gives to the other.                      *)

OwnersApart(g, u, v) ==
  /\ ~(db[Member(g, u)] = "owner" /\ db[Member(g, v)] = "owner")
  /\ ~(latest[Member(g, u)] = "owner" /\ latest[Member(g, v)] = "owner")
  /\ db[Member(g, u)] = "owner" /\ latest[Member(g, v)] = "owner" =>
       lock[Member(g, u)] = lock[Member(g, v)] /\ lock[Member(g, u)] # NoReq

OneOwnerInv ==
  /\ Clean
  /\ \A g \in Groups : \A u, v \in Users : u # v => OwnersApart(g, u, v)

(* The row a statement writes is a member's row or it is not.              *)
LEMMA MemberRowsDiffer ==
  ASSUME NEW g, NEW h, NEW u, NEW v
  PROVE  /\ Member(g, u) = Member(h, v) => g = h /\ u = v
         /\ Member(g, u) # GroupRow(h)
         /\ Member(g, u) # Invite(v)
         /\ Member(g, u) # Project(v)
BY DEF Member, GroupRow, Invite, Project

(* A write that does not make an owner cannot make a second one.           *)
LEMMA PlainWriteKeepsOneOwner ==
  ASSUME TypeOK, OneOwnerInv, NEW r \in Reqs, NEW x, NEW w,
         x \in MemberRows => (w # "owner" \/ w = latest[x]) /\ Writers(r, x) = {},
         Write(r, x, w)
  PROVE  OneOwnerInv'
<1>1. Clean'
  BY WriteClean DEF TypeOK, OneOwnerInv
<1>2. ASSUME NEW g \in Groups, NEW u \in Users, NEW v \in Users, u # v
      PROVE  OwnersApart(g, u, v)'
  <2> DEFINE a == Member(g, u)
             b == Member(g, v)
  <2>1. a \in MemberRows /\ b \in MemberRows /\ a \in Rows /\ b \in Rows /\ a # b
    BY <1>2, RowTypes, MemberRowsDiffer DEF MemberRows
  <2>2. OwnersApart(g, u, v)
    BY <1>2 DEF OneOwnerInv
  <2>3. /\ db' = db
        /\ x # a => latest'[a] = latest[a] /\ lock'[a] = lock[a]
        /\ x # b => latest'[b] = latest[b] /\ lock'[b] = lock[b]
        /\ x = a => latest'[a] = w /\ lock'[a] = r /\ lock[a] \in {r, NoReq}
        /\ x = b => latest'[b] = w /\ lock'[b] = r /\ lock[b] \in {r, NoReq}
    BY <2>1 DEF Write, TypeOK, StoreType, Writers
  <2>4. r # NoReq
    BY RowStoreAssumption
  <2> HIDE DEF a, b
  <2>5. OwnersApart(g, u, v) => OwnersApart(g, u, v)'
    BY <2>1, <2>3, <2>4 DEF OwnersApart, a, b
  <2> QED
    BY <2>2, <2>5
<1> QED
  BY <1>1, <1>2 DEF OneOwnerInv

(* An UPDATE that makes nobody an owner keeps the owners apart.            *)
LEMMA UpdateKeepsOneOwner ==
  ASSUME TypeOK, OneOwnerInv, NEW r \in Reqs, NEW x, NEW w,
         x \in MemberRows => (w # "owner" \/ w = latest[x]) /\ Writers(r, x) = {},
         Update(r, x, w)
  PROVE  OneOwnerInv'
<1>1. CASE Found(r, x) = Absent
  BY <1>1 DEF Update, OneOwnerInv, OwnersApart, Clean
<1>2. CASE Found(r, x) # Absent
  BY <1>2, PlainWriteKeepsOneOwner DEF Update
<1> QED
  BY <1>1, <1>2

(* So does a step that leaves the rows alone.                              *)
LEMMA UnchangedKeepsOneOwner ==
  ASSUME OneOwnerInv, UNCHANGED <<db, latest, lock>>
  PROVE  OneOwnerInv'
BY DEF OneOwnerInv, OwnersApart, Clean

(* Ending a transaction makes its rows the committed ones, or the others.  *)
LEMMA CommitKeepsOneOwner ==
  ASSUME TypeOK, OneOwnerInv, NEW r \in Reqs, Commit(r)
  PROVE  OneOwnerInv'
<1>1. Clean'
  BY CommitClean DEF TypeOK, OneOwnerInv
<1>2. ASSUME NEW g \in Groups, NEW u \in Users, NEW v \in Users, u # v
      PROVE  OwnersApart(g, u, v)'
  <2> DEFINE a == Member(g, u)
             b == Member(g, v)
  <2>1. a \in Rows /\ b \in Rows
    BY RowTypes
  <2>2. OwnersApart(g, u, v) /\ OwnersApart(g, v, u)
    BY <1>2 DEF OneOwnerInv
  <2>3. /\ latest' = latest
        /\ db'[a] = IF lock[a] = r THEN latest[a] ELSE db[a]
        /\ db'[b] = IF lock[b] = r THEN latest[b] ELSE db[b]
        /\ lock'[a] = IF lock[a] = r THEN NoReq ELSE lock[a]
        /\ lock'[b] = IF lock[b] = r THEN NoReq ELSE lock[b]
    BY <2>1 DEF Commit, Release, Found, TypeOK, StoreType
  <2> HIDE DEF a, b
  <2> QED
    BY <2>2, <2>3 DEF OwnersApart, a, b
<1> QED
  BY <1>1, <1>2 DEF OneOwnerInv

(* Undoing a transaction keeps the owners apart.                           *)
LEMMA RollbackKeepsOneOwner ==
  ASSUME TypeOK, OneOwnerInv, NEW r \in Reqs, Rollback(r)
  PROVE  OneOwnerInv'
<1>1. Clean'
  BY RollbackClean DEF TypeOK, OneOwnerInv
<1>2. ASSUME NEW g \in Groups, NEW u \in Users, NEW v \in Users, u # v
      PROVE  OwnersApart(g, u, v)'
  <2> DEFINE a == Member(g, u)
             b == Member(g, v)
  <2>1. a \in Rows /\ b \in Rows
    BY RowTypes
  <2>2. OwnersApart(g, u, v) /\ OwnersApart(g, v, u)
    BY <1>2 DEF OneOwnerInv
  <2>3. /\ db' = db
        /\ latest'[a] = IF lock[a] = r THEN db[a] ELSE latest[a]
        /\ latest'[b] = IF lock[b] = r THEN db[b] ELSE latest[b]
        /\ lock'[a] = IF lock[a] = r THEN NoReq ELSE lock[a]
        /\ lock'[b] = IF lock[b] = r THEN NoReq ELSE lock[b]
    BY <2>1 DEF Rollback, Release, TypeOK, StoreType
  <2> HIDE DEF a, b
  <2> QED
    BY <2>2, <2>3 DEF OwnersApart, a, b
<1> QED
  BY <1>1, <1>2 DEF OneOwnerInv

(* So does undoing all of them.                                            *)
LEMMA RollbackAllKeepsOneOwner ==
  ASSUME TypeOK, OneOwnerInv, RollbackAll
  PROVE  OneOwnerInv'
<1>1. Clean'
  BY RollbackAllClean DEF TypeOK
<1>2. ASSUME NEW g \in Groups, NEW u \in Users, NEW v \in Users, u # v
      PROVE  OwnersApart(g, u, v)'
  BY <1>2 DEF RollbackAll, OneOwnerInv, OwnersApart
<1> QED
  BY <1>1, <1>2 DEF OneOwnerInv

(* The index of the owners: no other row can become, or still be, the      *)
(* owner's unless the transaction that promotes holds it too.              *)
LEMMA PromotionKeepsOneOwner ==
  ASSUME TypeOK, OneOwnerInv, NEW r \in Reqs, NEW h \in Groups, NEW n \in Users,
         OwnerRivals(r, h, n) = {},
         \A v \in Users \ {n} : Found(r, Member(h, v)) # "owner",
         Write(r, Member(h, n), "owner")
  PROVE  OneOwnerInv'
<1>1. Clean'
  BY WriteClean DEF TypeOK, OneOwnerInv
<1>2. ASSUME NEW w \in Users, w # n
      PROVE  /\ latest[Member(h, w)] # "owner"
             /\ db[Member(h, w)] = "owner" => lock[Member(h, w)] = r
  <2> DEFINE b == Member(h, w)
  <2>1. b \in Rows
    BY RowTypes
  <2>2. "owner" \in {db[b], latest[b]} => Writers(r, b) = {}
    BY <1>2 DEF OwnerRivals
  <2>3. Found(r, b) # "owner"
    BY <1>2
  <2>4. lock[b] = NoReq => latest[b] = db[b]
    BY <2>1 DEF OneOwnerInv, Clean, TypeOK, StoreType
  <2> HIDE DEF b
  <2> QED
    BY <2>2, <2>3, <2>4 DEF Writers, Found, b
<1>3. ASSUME NEW g \in Groups, NEW u \in Users, NEW v \in Users, u # v
      PROVE  OwnersApart(g, u, v)'
  <2> DEFINE a == Member(g, u)
             b == Member(g, v)
             x == Member(h, n)
  <2>1. a \in Rows /\ b \in Rows /\ a # b
    BY <1>3, RowTypes, MemberRowsDiffer
  <2>2. OwnersApart(g, u, v)
    BY <1>3 DEF OneOwnerInv
  <2>3. /\ db' = db
        /\ x # a => latest'[a] = latest[a] /\ lock'[a] = lock[a]
        /\ x # b => latest'[b] = latest[b] /\ lock'[b] = lock[b]
        /\ x = a => latest'[a] = "owner" /\ lock'[a] = r
        /\ x = b => latest'[b] = "owner" /\ lock'[b] = r
    BY <2>1 DEF Write, TypeOK, StoreType
  <2>4. r # NoReq
    BY RowStoreAssumption
  <2>5. CASE x = a
    <3>1. g = h /\ u = n /\ v # n
      BY <1>3, <2>5, MemberRowsDiffer
    <3>2. latest[b] # "owner" /\ (db[b] = "owner" => lock[b] = r)
      BY <1>2, <3>1
    <3> HIDE DEF a, b, x
    <3> QED
      BY <2>1, <2>2, <2>3, <2>4, <2>5, <3>2 DEF OwnersApart, a, b
  <2>6. CASE x = b
    <3>1. g = h /\ v = n /\ u # n
      BY <1>3, <2>6, MemberRowsDiffer
    <3>2. latest[a] # "owner" /\ (db[a] = "owner" => lock[a] = r)
      BY <1>2, <3>1
    <3> HIDE DEF a, b, x
    <3> QED
      BY <2>1, <2>2, <2>3, <2>4, <2>6, <3>2 DEF OwnersApart, a, b
  <2>7. CASE x # a /\ x # b
    <3> HIDE DEF a, b, x
    <3> QED
      BY <2>2, <2>3, <2>7 DEF OwnersApart, a, b
  <2> QED
    BY <2>5, <2>6, <2>7
<1> QED
  BY <1>1, <1>3 DEF OneOwnerInv

(* A new group has one owner, its creator.                                 *)
LEMMA CreateKeepsOneOwner ==
  ASSUME TypeOK, OneOwnerInv, NEW r \in Reqs, NEW h \in Groups, NEW n \in Users,
         Create(r, h, n)
  PROVE  OneOwnerInv'
<1> DEFINE X == {GroupRow(h), Member(h, n)}
           f == [x \in X |-> IF x = GroupRow(h) THEN Live ELSE "owner"]
<1>1. WriteAll(r, X, f)
  BY DEF Create
<1>2. Clean'
  <2> HIDE DEF X, f
  <2> QED
    BY <1>1, WriteAllClean DEF TypeOK, OneOwnerInv
<1>3. ASSUME NEW w \in Users
      PROVE  db[Member(h, w)] = Absent /\ latest[Member(h, w)] = Absent
  <2>1. db[Member(h, w)] = Absent /\ lock[Member(h, w)] = NoReq
    BY <1>3 DEF Create, Children
  <2> QED
    BY <2>1, RowTypes DEF OneOwnerInv, Clean, TypeOK, StoreType
<1>4. ASSUME NEW g \in Groups, NEW u \in Users, NEW v \in Users, u # v
      PROVE  OwnersApart(g, u, v)'
  <2> DEFINE a == Member(g, u)
             b == Member(g, v)
  <2>1. a \in Rows /\ b \in Rows /\ a # b
    BY <1>4, RowTypes, MemberRowsDiffer
  <2>2. OwnersApart(g, u, v)
    BY <1>4 DEF OneOwnerInv
  <2>3. db' = db
    BY <1>1 DEF WriteAll
  <2>4. CASE g # h
    <3>1. a \notin X /\ b \notin X
      BY <2>4, MemberRowsDiffer
    <3>2. /\ latest'[a] = latest[a] /\ lock'[a] = lock[a]
          /\ latest'[b] = latest[b] /\ lock'[b] = lock[b]
      BY <1>1, <2>1, <3>1 DEF WriteAll, TypeOK, StoreType
    <3> QED
      BY <2>2, <2>3, <3>2 DEF OwnersApart
  <2>5. CASE g = h
    <3>1. db[a] = Absent /\ latest[a] = Absent /\ db[b] = Absent /\ latest[b] = Absent
      BY <1>3, <2>5
    <3>2. a \in X => b \notin X
      BY <2>1, MemberRowsDiffer
    <3>3. /\ a \notin X => latest'[a] = latest[a]
          /\ b \notin X => latest'[b] = latest[b]
      BY <1>1, <2>1 DEF WriteAll, TypeOK, StoreType
    <3>4. Absent # "owner"
      BY DEF Absent
    <3> QED
      BY <2>3, <3>1, <3>2, <3>3, <3>4 DEF OwnersApart
  <2> QED
    BY <2>4, <2>5
<1> QED
  BY <1>2, <1>4 DEF OneOwnerInv

(* Groups, invites and projects are not rows of members.                   *)
LEMMA OtherRows ==
  /\ \A g : GroupRow(g) \notin MemberRows
  /\ \A i : Invite(i) \notin MemberRows
  /\ \A q : Project(q) \notin MemberRows
BY MemberRowsDiffer DEF MemberRows

(* Neither a deleted row nor a group's row is an owner's.                  *)
LEMMA NotTheOwner == Absent # "owner" /\ Live # "owner"
BY DEF Absent, Live

(* A request that fails keeps the owners apart.                            *)
LEMMA FailKeepsOneOwner ==
  ASSUME TypeOK, OneOwnerInv, NEW r \in Reqs, Fail(r)
  PROVE  OneOwnerInv'
BY RollbackKeepsOneOwner DEF Fail

(* Every way a request arrives keeps the owners apart.                     *)
LEMMA OneOwnerArrive ==
  ASSUME TypeOK, OneOwnerInv, NEW r \in Reqs, Arrive(r)
  PROVE  OneOwnerInv'
<1>1. CASE \E g \in Groups, u \in Users : Create(r, g, u)
  BY <1>1, CreateKeepsOneOwner
<1>2. CASE ~\E g \in Groups, u \in Users : Create(r, g, u)
  <2>1. \A o, g, u, a, next : RequireOwner(r, o, g, u, a, next) => UNCHANGED store
    BY DEF RequireOwner, store
  <2>2. \A g, u, i : BeginLeave(r, g, u) \/ BeginAcceptInvite(r, u, i) => UNCHANGED store
    BY DEF BeginLeave, BeginAcceptInvite, store
  <2>3. UNCHANGED store
    BY <1>2, <2>1, <2>2
       DEF Arrive, BeginRename, BeginDelete, BeginCreateInvite, BeginRemoveMember,
           BeginTransfer, BeginRevokeInvite, BeginLinkProject, BeginUnlinkProject
  <2> QED
    BY <2>3, UnchangedKeepsOneOwner DEF store
<1> QED
  BY <1>1, <1>2

(* A statement on a member's row, or on any other row, that makes no owner. *)
LEMMA OneOwnerProceed ==
  ASSUME TypeOK, OneOwnerInv, NEW r \in Reqs, Proceed(r)
  PROVE  OneOwnerInv'
<1> DEFINE g == req[r].group
           me == Member(g, req[r].user)
           it == Member(g, req[r].arg)
<1> USE NotTheOwner, OtherRows
<1>1. CASE UpdateGroup(r)
  BY <1>1, FailKeepsOneOwner, PlainWriteKeepsOneOwner DEF UpdateGroup
<1>2. CASE CountLinkedProjects(r) \/ CascadeDone(r) \/ CheckInviteRateLimit(r)
             \/ RecordInviteAttempt(r) \/ SelectOwnMembership(r) \/ SelectInvite(r)
             \/ SelectNewOwner(r) \/ SelectProjectToLink(r) \/ SelectProjectToUnlink(r)
             \/ Respond(r)
  <2>1. UNCHANGED <<db, latest, lock>>
    BY <1>2 DEF CountLinkedProjects, CascadeDone, CheckInviteRateLimit, RecordInviteAttempt,
                SelectOwnMembership, SelectInvite, SelectNewOwner, SelectProjectToLink,
                SelectProjectToUnlink, Respond, store
  <2> QED
    BY <2>1, UnchangedKeepsOneOwner
<1>3. CASE DeleteGroup(r)
  BY <1>3, FailKeepsOneOwner, UpdateKeepsOneOwner DEF DeleteGroup
<1>4. ASSUME NEW x \in Rows, CascadeRow(r, x)
      PROVE  OneOwnerInv'
  BY <1>4, PlainWriteKeepsOneOwner DEF CascadeRow
<1>5. CASE InsertInvite(r)
  BY <1>5, PlainWriteKeepsOneOwner DEF InsertInvite
<1>6. CASE InsertMember(r)
  <2>1. Blockers(r) = Writers(r, me)
    BY <1>6 DEF InsertMember, Ready, AtStatement, Blockers
  <2> QED
    BY <1>6, <2>1, FailKeepsOneOwner, PlainWriteKeepsOneOwner DEF InsertMember, Ready
<1>7. CASE CheckReference(r)
  BY <1>7, FailKeepsOneOwner, UnchangedKeepsOneOwner DEF CheckReference
<1>8. CASE MarkConsumed(r)
  BY <1>8, UpdateKeepsOneOwner DEF MarkConsumed
<1>9. CASE MarkRevoked(r)
  BY <1>9, UpdateKeepsOneOwner DEF MarkRevoked
<1>10. CASE DeleteMember(r)
  <2>1. Blockers(r) = Writers(r, it)
    BY <1>10 DEF DeleteMember, Ready, AtStatement, Blockers
  <2> QED
    BY <1>10, <2>1, UpdateKeepsOneOwner DEF DeleteMember, Ready
<1>11. CASE Demote(r)
  <2>1. Blockers(r) = Writers(r, me)
    BY <1>11 DEF Demote, Ready, AtStatement, Blockers
  <2> QED
    BY <1>11, <2>1, UpdateKeepsOneOwner DEF Demote, Ready
<1>12. CASE Promote(r)
  <2>1. Writers(r, it) = {}
    BY <1>12 DEF Promote, Ready, AtStatement, Blockers
  <2>2. it \in Rows => Found(r, it) = latest[it]
    BY <2>1, FoundIsLatest DEF TypeOK, OneOwnerInv
  <2>3. it \in MemberRows => it \in Rows
    BY DEF Rows
  <2> QED
    BY <1>12, <2>1, <2>2, <2>3, UpdateKeepsOneOwner DEF Promote
<1>13. CASE OneOwner(r)
  <2>1. CASE Fail(r)
    BY <2>1, FailKeepsOneOwner
  <2>2. CASE ~Fail(r)
    <3>1. /\ Write(r, it, "owner")
          /\ \A v \in Users \ {req[r].arg} : Found(r, Member(g, v)) # "owner"
      BY <1>13, <2>2 DEF OneOwner
    <3>2. OwnerRivals(r, g, req[r].arg) = {}
      BY <1>13 DEF OneOwner, Ready, AtStatement, Blockers
    <3>3. g \in Groups
      BY <1>13, CallFields DEF OneOwner, Ready, AtStatement, Statements
    <3>4. CASE req[r].arg \in Users
      BY <3>1, <3>2, <3>3, <3>4, PromotionKeepsOneOwner
    <3>5. CASE it \notin MemberRows
      BY <3>1, <3>5, PlainWriteKeepsOneOwner
    <3> QED
      BY <3>4, <3>5, MemberRowsDiffer DEF MemberRows
  <2> QED
    BY <2>1, <2>2
<1>14. CASE SetGroup(r) \/ ClearGroup(r)
  BY <1>14, FailKeepsOneOwner, PlainWriteKeepsOneOwner DEF SetGroup, ClearGroup
<1>15. CASE CommitRequest(r)
  BY <1>15, CommitKeepsOneOwner DEF CommitRequest
<1>16. CASE DeadlockVictim(r)
  BY <1>16, FailKeepsOneOwner DEF DeadlockVictim
<1> QED
  BY <1>1, <1>2, <1>3, <1>4, <1>5, <1>6, <1>7, <1>8, <1>9, <1>10, <1>11, <1>12, <1>13,
     <1>14, <1>15, <1>16 DEF Proceed

(* At first nobody owns anything.                                          *)
LEMMA OneOwnerInit == Init => OneOwnerInv
<1> SUFFICES ASSUME Init PROVE OneOwnerInv
  OBVIOUS
<1>1. Clean
  BY DEF Init, Clean
<1>2. \A x \in MemberRows : db[x] = Absent /\ latest[x] = Absent
  BY OtherRows DEF Init, Rows, ProjectRows
<1>3. \A g \in Groups, u \in Users : Member(g, u) \in MemberRows
  BY DEF MemberRows
<1> QED
  BY <1>1, <1>2, <1>3, NotTheOwner DEF OneOwnerInv, OwnersApart

(* Every step keeps the owners apart.                                      *)
LEMMA OneOwnerStep ==
  ASSUME TypeOK, OneOwnerInv, [Next]_vars
  PROVE  OneOwnerInv'
<1>1. CASE \E r \in Reqs : Arrive(r)
  BY <1>1, OneOwnerArrive
<1>2. CASE \E r \in Reqs : Proceed(r)
  BY <1>2, OneOwnerProceed
<1>3. CASE Tick \/ UNCHANGED vars
  BY <1>3, UnchangedKeepsOneOwner DEF Tick, AttemptAges, InviteExpires, store, vars
<1>4. CASE Restart
  BY <1>4, RollbackAllKeepsOneOwner DEF Restart
<1>5. ASSUME NEW p \in Projects, CreateProject(p) \/ DeleteProject(p)
      PROVE  OneOwnerInv'
  <2>1. Clean'
    BY <1>5, ReplaceClean DEF CreateProject, DeleteProject, TypeOK, OneOwnerInv
  <2>2. PICK v : Replace(Project(p), v)
    BY <1>5 DEF CreateProject, DeleteProject
  <2>3. \A g \in Groups, u \in Users : Member(g, u) \in Rows /\ Member(g, u) # Project(p)
    BY RowTypes, MemberRowsDiffer
  <2>4. /\ lock' = lock
        /\ \A g \in Groups, u \in Users : /\ db'[Member(g, u)] = db[Member(g, u)]
                                         /\ latest'[Member(g, u)] = latest[Member(g, u)]
    BY <2>2, <2>3 DEF Replace, TypeOK, StoreType
  <2> QED
    BY <2>1, <2>4 DEF OneOwnerInv, OwnersApart
<1> QED
  BY <1>1, <1>2, <1>3, <1>4, <1>5 DEF Next, ProjectStep

(* At most one committed owner per group, for any number of members and of *)
(* overlapping transfers, removals, leaves, accepts and deletions, across  *)
(* rollbacks and restarts: the order of the two updates in                 *)
(* transfer_ownership and the partial unique index are enough for it.      *)
THEOREM OneOwnerHolds == Spec => []AtMostOneOwner
<1>1. Init => TypeOK /\ OneOwnerInv
  BY TypeInit, OneOwnerInit
<1>2. TypeOK /\ OneOwnerInv /\ [Next]_vars => (TypeOK /\ OneOwnerInv)'
  BY TypeStep, OneOwnerStep
<1>3. OneOwnerInv => AtMostOneOwner
  BY DEF OneOwnerInv, OwnersApart, AtMostOneOwner
<1> QED
  BY <1>1, <1>2, <1>3, PTL DEF Spec
=============================================================================
