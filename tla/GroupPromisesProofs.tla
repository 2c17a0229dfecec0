------------------------- MODULE GroupPromisesProofs -------------------------
(***************************************************************************)
(* What the groups promise, proved from what every transaction knows and   *)
(* holds (TransactionInv): the safety properties of Groups, and that       *)
(* Groups implements GroupRegistry.                                        *)
(***************************************************************************)
EXTENDS GroupTransactionsProofs, FiniteSetTheorems

(* A group that is gone leaves no membership, no invite and no link from a *)
(* project behind, whatever accepts, new invites and links overlap its     *)
(* deletion: the cascade, the foreign keys and the locks a new reference   *)
(* takes on its group are enough for it.                                   *)
THEOREM NothingOutlives == Spec => []NothingOutlivesItsGroup
<1>1. TransactionInv => NothingOutlivesItsGroup
  <2> SUFFICES ASSUME TransactionInv, NEW g \in Groups, db[GroupRow(g)] = Absent
               PROVE  (\A x \in Children(g) : db[x] = Absent) /\ LinkedProjects(g) = {}
    BY DEF NothingOutlivesItsGroup
  <2>1. \A x \in Rows : ~Refers(g, x, db[x])
    BY DEF TransactionInv, KnownGroup
  <2>2. \A x \in Children(g) : db[x] = Absent
    BY <2>1, ChildRows DEF Refers
  <2>3. \A p \in Projects : Project(p) \in ProjectRows /\ Project(p) \in Rows
    BY RowTypes DEF ProjectRows
  <2>4. LinkedProjects(g) = {}
    BY <2>1, <2>3 DEF Refers, LinkedProjects
  <2> QED
    BY <2>2, <2>4
<1> QED
  BY <1>1, TransactionsHold, PTL

-----------------------------------------------------------------------------
(* Who changes the committed rows, and who answers with a success.         *)

(* A step of one request leaves the calls of the others alone.             *)
LEMMA OthersAreLeftAlone ==
  ASSUME TypeOK, NEW r \in Reqs, Arrive(r) \/ Proceed(r)
  PROVE  OthersStay(r)
<1>1. ASSUME NEW s, Reply(r, s) PROVE OthersStay(r)
  BY <1>1 DEF Reply, TypeOK, OthersStay
<1>2. ASSUME NEW next, Goto(r, next) PROVE OthersStay(r)
  BY <1>2 DEF Goto, TypeOK, OthersStay
<1>3. ASSUME NEW c, req' = [req EXCEPT ![r] = c] PROVE OthersStay(r)
  BY <1>3 DEF TypeOK, OthersStay
<1>4. ASSUME NEW o, NEW g, NEW u, NEW a, NEW next, Begin(r, o, g, u, a, next)
      PROVE  OthersStay(r)
  BY <1>3, <1>4 DEF Begin
<1>5. ASSUME NEW o, NEW g, NEW u, NEW a, NEW next, RequireOwner(r, o, g, u, a, next)
      PROVE  OthersStay(r)
  BY <1>1, <1>4, <1>5 DEF RequireOwner
<1>6. CASE Arrive(r)
  BY <1>1, <1>3, <1>4, <1>5, <1>6
     DEF Arrive, Create, BeginRename, BeginDelete, BeginLeave, BeginRemoveMember,
         BeginTransfer, BeginCreateInvite, BeginRevokeInvite, BeginLinkProject,
         BeginUnlinkProject, BeginAcceptInvite
<1>7. ASSUME Fail(r) PROVE OthersStay(r)
  BY <1>1, <1>7 DEF Fail
<1>8. CASE Proceed(r)
  <2>1. CASE \/ UpdateGroup(r) \/ CountLinkedProjects(r) \/ DeleteGroup(r) \/ CascadeDone(r)
             \/ CheckInviteRateLimit(r) \/ InsertInvite(r) \/ RecordInviteAttempt(r)
             \/ SelectOwnMembership(r) \/ InsertMember(r) \/ CheckReference(r)
    BY <1>1, <1>2, <1>7, <2>1
       DEF UpdateGroup, CountLinkedProjects, DeleteGroup, CascadeDone, CheckInviteRateLimit,
           InsertInvite, RecordInviteAttempt, SelectOwnMembership, InsertMember, CheckReference
  <2>2. CASE \/ MarkConsumed(r) \/ SelectInvite(r) \/ MarkRevoked(r) \/ DeleteMember(r)
             \/ SelectNewOwner(r) \/ Demote(r) \/ Promote(r) \/ OneOwner(r)
    BY <1>1, <1>2, <1>3, <1>7, <2>2
       DEF MarkConsumed, SelectInvite, MarkRevoked, DeleteMember, SelectNewOwner, Demote,
           Promote, OneOwner
  <2>3. CASE \/ SelectProjectToLink(r) \/ SetGroup(r) \/ SelectProjectToUnlink(r)
             \/ ClearGroup(r) \/ CommitRequest(r) \/ DeadlockVictim(r) \/ Respond(r)
    BY <1>1, <1>2, <1>3, <1>7, <2>3
       DEF SelectProjectToLink, SetGroup, SelectProjectToUnlink, ClearGroup, CommitRequest,
           DeadlockVictim, Respond
  <2>4. CASE \E x \in Rows : CascadeRow(r, x)
    BY <2>4 DEF CascadeRow, OthersStay
  <2> QED
    BY <1>8, <2>1, <2>2, <2>3, <2>4 DEF Proceed
<1> QED
  BY <1>6, <1>8

(* The committed rows change by a commit, or by a transaction on one       *)
(* project's row.                                                          *)
LEMMA WhoChangesRows ==
  ASSUME [Next]_vars
  PROVE  db' = db \/ (\E r \in Reqs : CommitRequest(r)) \/ ProjectStep
<1>1. ASSUME UNCHANGED store PROVE db' = db
  BY <1>1 DEF store
<1>2. \A r, x, v : Write(r, x, v) \/ Update(r, x, v) \/ Rollback(r) => db' = db
  BY DEF Write, Update, Rollback
<1>3. \A r : Fail(r) => db' = db
  BY <1>2 DEF Fail
<1>4. ASSUME NEW r \in Reqs, Arrive(r) PROVE db' = db
  <2>1. \A o, g, u, a, next : RequireOwner(r, o, g, u, a, next) => db' = db
    BY DEF RequireOwner, store
  <2>2. \A g, u : Create(r, g, u) \/ BeginLeave(r, g, u) \/ BeginAcceptInvite(r, g, u) => db' = db
    BY DEF Create, WriteAll, BeginLeave, BeginAcceptInvite, store
  <2> QED
    BY <1>4, <2>1, <2>2
       DEF Arrive, BeginRename, BeginDelete, BeginRemoveMember, BeginTransfer,
           BeginCreateInvite, BeginRevokeInvite, BeginLinkProject, BeginUnlinkProject
<1>5. ASSUME NEW r \in Reqs, Proceed(r), ~CommitRequest(r) PROVE db' = db
  <2>1. CASE \/ UpdateGroup(r) \/ DeleteGroup(r) \/ InsertInvite(r) \/ InsertMember(r)
             \/ CheckReference(r) \/ (\E x \in Rows : CascadeRow(r, x))
    BY <1>2, <1>3, <2>1
       DEF UpdateGroup, DeleteGroup, InsertInvite, InsertMember, CheckReference, CascadeRow
  <2>2. CASE \/ MarkConsumed(r) \/ MarkRevoked(r) \/ DeleteMember(r) \/ Demote(r)
             \/ Promote(r) \/ OneOwner(r) \/ SetGroup(r) \/ ClearGroup(r) \/ DeadlockVictim(r)
    BY <1>2, <1>3, <2>2
       DEF MarkConsumed, MarkRevoked, DeleteMember, Demote, Promote, OneOwner, SetGroup,
           ClearGroup, DeadlockVictim
  <2>3. CASE \/ CountLinkedProjects(r) \/ CascadeDone(r) \/ CheckInviteRateLimit(r)
             \/ RecordInviteAttempt(r) \/ SelectOwnMembership(r) \/ SelectInvite(r)
             \/ SelectNewOwner(r) \/ SelectProjectToLink(r) \/ SelectProjectToUnlink(r)
             \/ Respond(r)
    BY <1>1, <2>3
       DEF CountLinkedProjects, CascadeDone, CheckInviteRateLimit, RecordInviteAttempt,
           SelectOwnMembership, SelectInvite, SelectNewOwner, SelectProjectToLink,
           SelectProjectToUnlink, Respond
  <2> QED
    BY <1>5, <2>1, <2>2, <2>3 DEF Proceed
<1>6. CASE Tick \/ UNCHANGED vars \/ Restart
  BY <1>6 DEF Tick, AttemptAges, InviteExpires, Restart, RollbackAll, vars, store
<1> QED
  BY <1>4, <1>5, <1>6 DEF Next

(* A request at its commit that answers with a success has committed.      *)
LEMMA CommittingCommits ==
  ASSUME TransactionInv, [Next]_vars, NEW r \in Reqs, Committing(r)
  PROVE  CommitRequest(r)
<1>1. req[r].pc = "commit" /\ req'[r].status = Success /\ TypeOK
  BY DEF Committing, TransactionInv
<1>2. req[r].status # Success
  <2>1. req[r].pc \in Statements
    BY <1>1 DEF Statements
  <2> QED
    BY <2>1, AtItsStatement DEF Calls, Success
<1>3. req'[r] # req[r]
  BY <1>1, <1>2
<1>4. PICK q \in Reqs : Arrive(q) \/ Proceed(q)
  <2>1. ~UNCHANGED vars /\ ~Tick /\ ~ProjectStep
    BY <1>3 DEF vars, Tick, AttemptAges, InviteExpires, ProjectStep, CreateProject,
                DeleteProject
  <2>2. ~Restart
    BY <1>1 DEF Restart, Idle, Blank, Success
  <2> QED
    BY <2>1, <2>2 DEF Next
<1>5. q = r
  BY <1>1, <1>3, <1>4, OthersAreLeftAlone DEF OthersStay
<1>6. ~Arrive(r)
  BY <1>1 DEF Arrive, Create, BeginRename, BeginDelete, BeginLeave, BeginRemoveMember,
              BeginTransfer, BeginCreateInvite, BeginRevokeInvite, BeginLinkProject,
              BeginUnlinkProject, BeginAcceptInvite, RequireOwner
<1>7. ~Fail(r)
  BY <1>1, ReplyMoves DEF Fail, ServerError, Success
<1>8. CommitRequest(r)
  <2>1. ~(\/ UpdateGroup(r) \/ CountLinkedProjects(r) \/ DeleteGroup(r) \/ CascadeDone(r)
          \/ CheckInviteRateLimit(r) \/ InsertInvite(r) \/ RecordInviteAttempt(r)
          \/ SelectOwnMembership(r) \/ InsertMember(r) \/ CheckReference(r)
          \/ \E x \in Rows : CascadeRow(r, x))
    BY <1>1
       DEF UpdateGroup, CountLinkedProjects, DeleteGroup, CascadeDone, CheckInviteRateLimit,
           InsertInvite, RecordInviteAttempt, SelectOwnMembership, InsertMember,
           CheckReference, CascadeRow, Ready, AtStatement
  <2>2. ~(\/ MarkConsumed(r) \/ SelectInvite(r) \/ MarkRevoked(r) \/ DeleteMember(r)
          \/ SelectNewOwner(r) \/ Demote(r) \/ Promote(r) \/ OneOwner(r)
          \/ SelectProjectToLink(r) \/ SetGroup(r) \/ SelectProjectToUnlink(r)
          \/ ClearGroup(r) \/ Respond(r))
    BY <1>1
       DEF MarkConsumed, SelectInvite, MarkRevoked, DeleteMember, SelectNewOwner, Demote,
           Promote, OneOwner, SelectProjectToLink, SetGroup, SelectProjectToUnlink,
           ClearGroup, Respond, Ready, AtStatement
  <2> QED
    BY <1>4, <1>5, <1>6, <1>7, <2>1, <2>2 DEF Proceed, DeadlockVictim
<1> QED
  BY <1>8

(* A membership that changes does so by the commit of the request that     *)
(* holds it.                                                               *)
LEMMA WhoChangesMembers ==
  ASSUME TransactionInv, [Next]_vars, NEW g \in Groups, NEW u \in Users,
         db'[Member(g, u)] # db[Member(g, u)]
  PROVE  \E r \in Reqs : /\ CommitRequest(r) /\ Committing(r) /\ lock[Member(g, u)] = r
                         /\ db'[Member(g, u)] = latest[Member(g, u)]
<1>1. Member(g, u) \in Rows
  BY RowTypes
<1>2. ~ProjectStep
  <2>1. \A p \in Projects : Member(g, u) # Project(p)
    BY RowsApart
  <2> QED
    BY <1>1, <2>1 DEF ProjectStep, CreateProject, DeleteProject, Replace, TransactionInv,
                      TypeOK, StoreType
<1>3. PICK r \in Reqs : CommitRequest(r)
  BY <1>2, WhoChangesRows
<1> QED
  BY <1>1, <1>3, CommitMoves DEF Committing

(* So does an invite.                                                      *)
LEMMA WhoChangesInvites ==
  ASSUME TransactionInv, [Next]_vars, NEW i \in Invites, db'[Invite(i)] # db[Invite(i)]
  PROVE  \E r \in Reqs : /\ CommitRequest(r) /\ Committing(r) /\ lock[Invite(i)] = r
                         /\ db'[Invite(i)] = latest[Invite(i)]
<1>1. Invite(i) \in Rows
  BY RowTypes
<1>2. ~ProjectStep
  <2>1. \A p \in Projects : Invite(i) # Project(p)
    BY RowsApart
  <2> QED
    BY <1>1, <2>1 DEF ProjectStep, CreateProject, DeleteProject, Replace, TransactionInv,
                      TypeOK, StoreType
<1>3. PICK r \in Reqs : CommitRequest(r)
  BY <1>2, WhoChangesRows
<1> QED
  BY <1>1, <1>3, CommitMoves DEF Committing

(* An accept at its commit holds the membership it inserted and the invite *)
(* it marked.                                                              *)
LEMMA AcceptCommits ==
  ASSUME TransactionInv, NEW r \in Reqs, CommitRequest(r), req[r].op = "accept_invite"
  PROVE  LET c == req[r] IN
         /\ c.arg \in Invites /\ InviteGroup[c.arg] = c.group
         /\ c.group \in Groups /\ c.user \in Users
         /\ lock[Member(c.group, c.user)] = r /\ lock[Invite(c.arg)] = r
         /\ db[Member(c.group, c.user)] = Absent /\ db'[Member(c.group, c.user)] = "member"
         /\ db[Invite(c.arg)] \in Marks
         /\ db'[Invite(c.arg)] = Mark(db[Invite(c.arg)], "consumed")
<1>1. req[r].pc = "commit" /\ Fits(req[r]) /\ Due(r, req[r])
  BY CommitMoves, AtItsStatement
<1>2. /\ req[r].arg \in Invites /\ InviteGroup[req[r].arg] = req[r].group
      /\ req[r].group \in Groups /\ req[r].user \in Users
  BY <1>1, CommitMoves, AtItsStatement DEF ArgOf, Fits
<1>3. lock[Member(req[r].group, req[r].user)] = r /\ lock[Invite(req[r].arg)] = r
  BY <1>1 DEF Due, AcceptDue, Mine
<1>4. /\ db[Member(req[r].group, req[r].user)] = Absent
      /\ latest[Member(req[r].group, req[r].user)] = "member"
  <2>1. MemberHeld(req[r], req[r].user, db[Member(req[r].group, req[r].user)],
                   latest[Member(req[r].group, req[r].user)])
    BY <1>2, <1>3, MemberHolder
  <2> QED
    BY <2>1 DEF MemberHeld
<1>5. /\ db[Invite(req[r].arg)] \in Marks
      /\ latest[Invite(req[r].arg)] = Mark(db[Invite(req[r].arg)], "consumed")
  BY <1>2, <1>3, InviteHolder DEF InviteHeld
<1>6. Member(req[r].group, req[r].user) \in Rows /\ Invite(req[r].arg) \in Rows
  BY <1>2, RowTypes
<1> QED
  BY <1>2, <1>3, <1>4, <1>5, <1>6, CommitMoves

-----------------------------------------------------------------------------
(* Members and invites.                                                    *)

(* Nobody becomes a member but by accepting an invite of that group, which *)
(* is spent in the same commit, or by creating the group; an accept that   *)
(* overlaps a revocation, another accept or the deletion of the group is   *)
(* no exception.                                                           *)
THEOREM JoiningSpends == Spec => JoinSpendsAnInvite
<1>1. TransactionInv /\ [Next]_vars =>
        [\A g \in Groups, u \in Users :
           db[Member(g, u)] = Absent /\ db'[Member(g, u)] # Absent =>
             \/ db[GroupRow(g)] = Absent /\ db'[Member(g, u)] = "owner"
             \/ /\ db'[Member(g, u)] = "member"
                /\ \E r \in Reqs : /\ Committing(r)
                                  /\ req[r].op = "accept_invite" /\ req[r].user = u
                                  /\ InviteGroup[req[r].arg] = g
                                  /\ Consumed(db'[Invite(req[r].arg)])]_vars
  <2> SUFFICES ASSUME TransactionInv, [Next]_vars, NEW g \in Groups, NEW u \in Users,
                      db[Member(g, u)] = Absent, db'[Member(g, u)] # Absent
               PROVE  \/ db[GroupRow(g)] = Absent /\ db'[Member(g, u)] = "owner"
                      \/ /\ db'[Member(g, u)] = "member"
                         /\ \E r \in Reqs : /\ Committing(r)
                                           /\ req[r].op = "accept_invite"
                                           /\ req[r].user = u
                                           /\ InviteGroup[req[r].arg] = g
                                           /\ Consumed(db'[Invite(req[r].arg)])
    OBVIOUS
  <2>1. PICK r \in Reqs : /\ CommitRequest(r) /\ Committing(r) /\ lock[Member(g, u)] = r
                          /\ db'[Member(g, u)] = latest[Member(g, u)]
    BY WhoChangesMembers
  <2>2. /\ req[r].group = g /\ Under(req[r])
        /\ MemberHeld(req[r], u, db[Member(g, u)], db'[Member(g, u)])
    BY <2>1, MemberHolder
  <2>3. \/ req[r].op = "create" /\ db'[Member(g, u)] = "owner"
        \/ req[r].op = "accept_invite" /\ req[r].user = u /\ db'[Member(g, u)] = "member"
    BY <2>2 DEF MemberHeld
  <2>4. CASE req[r].op = "create"
    BY <2>2, <2>3, <2>4, NewRows
  <2>5. CASE req[r].op = "accept_invite"
    BY <2>1, <2>2, <2>3, <2>5, AcceptCommits, MarkAdds
  <2> QED
    BY <2>3, <2>4, <2>5
<1> QED
  BY <1>1, TransactionsHold, PTL DEF Spec, JoinSpendsAnInvite

(* No invite is spent for nothing: in the commit that marks it consumed a  *)
(* user joins its group.                                                   *)
THEOREM SpendingAdmits == Spec => SpentInviteAdmits
<1>1. TransactionInv /\ [Next]_vars =>
        [\A i \in Invites :
           ~Consumed(db[Invite(i)]) /\ Consumed(db'[Invite(i)]) =>
             \E u \in Users : /\ db[Member(InviteGroup[i], u)] = Absent
                              /\ db'[Member(InviteGroup[i], u)] = "member"]_vars
  <2> SUFFICES ASSUME TransactionInv, [Next]_vars, NEW i \in Invites,
                      ~Consumed(db[Invite(i)]), Consumed(db'[Invite(i)])
               PROVE  \E u \in Users : /\ db[Member(InviteGroup[i], u)] = Absent
                                       /\ db'[Member(InviteGroup[i], u)] = "member"
    OBVIOUS
  <2>1. PICK r \in Reqs : /\ CommitRequest(r) /\ lock[Invite(i)] = r
                          /\ db'[Invite(i)] = latest[Invite(i)]
    BY WhoChangesInvites
  <2>2. req[r].op = "accept_invite" /\ req[r].arg = i
    BY <2>1, InviteHolder, MarkAdds, NoMark DEF InviteHeld
  <2> QED
    BY <2>1, <2>2, AcceptCommits
<1> QED
  BY <1>1, TransactionsHold, PTL DEF Spec, SpentInviteAdmits

(* Only transfer_ownership changes the role of someone who is in a group:  *)
(* an accept inserts and never overwrites, and nothing else writes roles.  *)
THEOREM RolesByTransfer == Spec => RolesChangeByTransfer
<1>1. TransactionInv /\ [Next]_vars =>
        [\A g \in Groups, u \in Users :
           /\ db[Member(g, u)] # Absent
           /\ db'[Member(g, u)] \notin {Absent, db[Member(g, u)]}
           => \E r \in Reqs : Committing(r) /\ req[r].op = "transfer_ownership"]_vars
  <2> SUFFICES ASSUME TransactionInv, [Next]_vars, NEW g \in Groups, NEW u \in Users,
                      db[Member(g, u)] # Absent,
                      db'[Member(g, u)] \notin {Absent, db[Member(g, u)]}
               PROVE  \E r \in Reqs : Committing(r) /\ req[r].op = "transfer_ownership"
    OBVIOUS
  <2>1. PICK r \in Reqs : /\ Committing(r) /\ lock[Member(g, u)] = r
                          /\ db'[Member(g, u)] = latest[Member(g, u)]
    BY WhoChangesMembers
  <2>2. MemberHeld(req[r], u, db[Member(g, u)], db'[Member(g, u)])
    BY <2>1, MemberHolder
  <2>3. req[r].op = "transfer_ownership"
    BY <2>2 DEF MemberHeld
  <2> QED
    BY <2>1, <2>3
<1> QED
  BY <1>1, TransactionsHold, PTL DEF Spec, RolesChangeByTransfer

(* While an invite is there no mark of it is lost: an accept and a         *)
(* revocation of one invite that overlap each add theirs to what they find *)
(* when they hold the row.                                                 *)
THEOREM MarksAreKept == Spec => MarksStay
<1>1. TransactionInv /\ [Next]_vars =>
        [\A i \in Invites :
           db'[Invite(i)] # Absent =>
             /\ Consumed(db[Invite(i)]) => Consumed(db'[Invite(i)])
             /\ Revoked(db[Invite(i)]) => Revoked(db'[Invite(i)])]_vars
  <2> SUFFICES ASSUME TransactionInv, [Next]_vars, NEW i \in Invites,
                      db'[Invite(i)] # Absent, db'[Invite(i)] # db[Invite(i)]
               PROVE  /\ Consumed(db[Invite(i)]) => Consumed(db'[Invite(i)])
                      /\ Revoked(db[Invite(i)]) => Revoked(db'[Invite(i)])
    OBVIOUS
  <2>1. PICK r \in Reqs : lock[Invite(i)] = r /\ db'[Invite(i)] = latest[Invite(i)]
    BY WhoChangesInvites
  <2>2. InviteHeld(req[r], i, db[Invite(i)], db'[Invite(i)])
    BY <2>1, InviteHolder
  <2> QED
    BY <2>2, MarkAdds, NoMark DEF InviteHeld
<1> QED
  BY <1>1, TransactionsHold, PTL DEF Spec, MarksStay

-----------------------------------------------------------------------------
(* Success and the loss of an owner.                                       *)

(* What a commit leaves behind.                                            *)
LEMMA CommitTakesEffect ==
  ASSUME TransactionInv, NEW r \in Reqs, CommitRequest(r)
  PROVE  TookEffect(req[r])
<1>1. PICK c : c = req[r]
  OBVIOUS
<1>2. /\ c.pc = "commit" /\ Fits(c) /\ Due(r, c) /\ c.group \in Groups
      /\ c.arg \in ArgOf(c.op) /\ GroupRow(c.group) \in Rows
  BY <1>1, CommitMoves, AtItsStatement
<1>3. Sharing(c) => db'[GroupRow(c.group)] # Absent
  <2>1. Sharing(c) => /\ db[GroupRow(c.group)] # Absent
                      /\ latest[GroupRow(c.group)] # Absent
    BY <1>2 DEF Due, ShareDue, TransactionInv, KnownGroup
  <2> QED
    BY <1>2, <2>1, CommitMoves
<1>4. ASSUME c.op = "accept_invite" PROVE TookEffect(c)
  <2>1. db'[Member(c.group, c.user)] = "member" /\ "member" # Absent
    BY <1>1, <1>4, AcceptCommits DEF Absent
  <2> QED
    BY <1>2, <1>3, <1>4, <2>1 DEF TookEffect, Sharing
<1>5. ASSUME c.op = "create_invite" PROVE TookEffect(c)
  BY <1>2, <1>3, <1>5 DEF TookEffect, Sharing
<1>6. ASSUME c.op = "revoke_invite" PROVE TookEffect(c)
  <2>1. c.arg \in Invites /\ Invite(c.arg) \in Rows
    BY <1>2, <1>6, RowTypes DEF ArgOf
  <2>2. CASE lock[Invite(c.arg)] = r
    BY <1>1, <1>6, <2>1, <2>2, InviteHolder, MarkAdds, NoMark, CommitMoves
       DEF InviteHeld, TookEffect
  <2>3. CASE lock[Invite(c.arg)] # r
    <3>1. db'[Invite(c.arg)] = Absent
      BY <1>2, <1>6, <2>1, <2>3, CommitMoves DEF Due, RevokeDue, Mine
    <3> QED
      BY <1>6, <3>1 DEF TookEffect
  <2> QED
    BY <2>2, <2>3
<1>7. ASSUME c.op = "rename" PROVE TookEffect(c)
  <2>1. lock[GroupRow(c.group)] = r
    BY <1>2, <1>7 DEF Due, RenameDue, Mine
  <2>2. latest[GroupRow(c.group)] # Absent
    BY <1>1, <1>2, <1>7, <2>1, GroupHolder
  <2> QED
    BY <1>2, <1>7, <2>1, <2>2, CommitMoves DEF TookEffect
<1>8. ASSUME c.op = "delete" PROVE TookEffect(c)
  BY <1>1, <1>2, <1>8, CommittedGroup DEF TookEffect
<1>9. ASSUME c.op \in {"link_project", "unlink_project"} PROVE TookEffect(c)
  <2>1. lock[Project(c.arg)] = r /\ c.arg \in Projects /\ Project(c.arg) \in Rows
    BY <1>2, <1>9, RowTypes DEF Due, LinkDue, Mine, ArgOf
  <2>2. \/ c.op = "link_project" /\ latest[Project(c.arg)] = c.group
        \/ c.op = "unlink_project" /\ latest[Project(c.arg)] = Unlinked
    BY <1>1, <2>1, ProjectHolder
  <2> QED
    BY <1>9, <2>1, <2>2, CommitMoves DEF TookEffect
<1>10. ASSUME c.op \notin {"accept_invite", "create_invite", "revoke_invite", "rename",
                            "delete", "link_project", "unlink_project"}
       PROVE  TookEffect(c)
  BY <1>10 DEF TookEffect
<1> QED
  BY <1>1, <1>4, <1>5, <1>6, <1>7, <1>8, <1>9, <1>10

(* Whatever a request read before others committed, what its success tells *)
(* the client is so at its commit.                                         *)
THEOREM SuccessIsTrue == Spec => SuccessTakesEffect
<1>1. TransactionInv /\ [Next]_vars =>
        [\A r \in Reqs : Committing(r) => TookEffect(req[r])]_vars
  BY CommittingCommits, CommitTakesEffect
<1> QED
  BY <1>1, TransactionsHold, PTL DEF Spec, SuccessTakesEffect

(* The only ways in which a group that stays loses its owner.              *)
LEMMA OwnerIsLost ==
  ASSUME TransactionInv, OneOwnerInv, [Next]_vars, NEW g \in Groups,
         HasOwner(g), db'[GroupRow(g)] # Absent, ~HasOwner(g)'
  PROVE  \E r \in Reqs : LosesOwner(r, g)
<1>1. PICK u \in Users : db[Member(g, u)] = "owner"
  BY DEF HasOwner
<1>2. \A v \in Users : /\ db'[Member(g, v)] # "owner"
                       /\ db[Member(g, v)] = "owner" => v = u
  BY <1>1 DEF HasOwner, OneOwnerInv, OwnersApart
<1>3. PICK r \in Reqs : /\ CommitRequest(r) /\ Committing(r) /\ lock[Member(g, u)] = r
                        /\ db'[Member(g, u)] = latest[Member(g, u)]
  BY <1>1, <1>2, WhoChangesMembers
<1>4. PICK c : c = req[r]
  OBVIOUS
<1>5. c.group = g /\ MemberHeld(c, u, db[Member(g, u)], db'[Member(g, u)])
  BY <1>3, <1>4, MemberHolder
<1>6. c.pc = "commit" /\ Fits(c) /\ c.user \in Users /\ c.arg \in ArgOf(c.op)
  BY <1>3, <1>4, CommitMoves, AtItsStatement
<1>7. c.op # "delete"
  BY <1>3, <1>4, <1>5, CommittedGroup
<1>8. CASE c.op = "remove_member" /\ c.arg = u
  BY <1>2, <1>3, <1>4, <1>5, <1>6, <1>8 DEF LosesOwner
<1>9. CASE c.op = "leave"
  BY <1>3, <1>4, <1>5, <1>6, <1>9 DEF LosesOwner, Fits
<1>10. CASE c.op = "transfer_ownership" /\ c.user # c.arg
  <2>1. c.seenArg # Absent /\ c.arg \in Users
    BY <1>6, <1>10 DEF Fits, ArgOf
  <2>2. lock[Member(g, c.arg)] # r
    <3> SUFFICES ASSUME lock[Member(g, c.arg)] = r PROVE FALSE
      OBVIOUS
    <3>1. MemberHeld(c, c.arg, db[Member(g, c.arg)], latest[Member(g, c.arg)])
      BY <1>4, <2>1, MemberHolder
    <3>2. latest[Member(g, c.arg)] = "owner"
      BY <1>6, <1>10, <3>1 DEF MemberHeld
    <3>3. Member(g, c.arg) \in Rows
      BY <2>1, RowTypes
    <3> QED
      BY <1>2, <1>3, <2>1, <3>2, <3>3, CommitMoves
  <2> QED
    BY <1>3, <1>4, <1>5, <1>10, <2>1, <2>2 DEF LosesOwner
<1>11. \/ c.op = "remove_member" /\ c.arg = u
       \/ c.op = "leave"
       \/ c.op = "transfer_ownership" /\ c.user # c.arg
  <2>1. db[Member(g, u)] # Absent /\ db'[Member(g, u)] # "owner"
    BY <1>1, <1>2, NotTheOwner
  <2> QED
    BY <1>5, <1>6, <1>7, <2>1 DEF MemberHeld
<1> QED
  BY <1>8, <1>9, <1>10, <1>11

(* A group that stays loses its owner only when the owner removes himself, *)
(* or when a request acts on a role that another request has changed since *)
(* it was read; every other removal, leave or transfer leaves the owner in *)
(* place or puts another one there.                                        *)
THEOREM OwnerLossExplained == Spec => OwnerLossIsExplained
<1>1. Init => TransactionInv /\ OneOwnerInv
  BY TransactionInit, OneOwnerInit
<1>2. TransactionInv /\ OneOwnerInv /\ [Next]_vars => (TransactionInv /\ OneOwnerInv)'
  BY TransactionStep, OneOwnerStep DEF TransactionInv
<1>3. TransactionInv /\ OneOwnerInv /\ [Next]_vars =>
        [\A g \in Groups :
           HasOwner(g) /\ db'[GroupRow(g)] # Absent /\ ~HasOwner(g)'
             => \E r \in Reqs : LosesOwner(r, g)]_vars
  BY OwnerIsLost
<1> QED
  BY <1>1, <1>2, <1>3, PTL DEF Spec, OwnerLossIsExplained

-----------------------------------------------------------------------------
(* The registry.                                                           *)

(* A membership is an owner's or a member's, or is not there.              *)
RolesInv == \A g \in Groups, u \in Users : db[Member(g, u)] \in Roles \union {Absent}

(* There are no memberships at the start.                                  *)
LEMMA RolesInit == Init => RolesInv
<1> SUFFICES ASSUME Init, NEW g \in Groups, NEW u \in Users PROVE db[Member(g, u)] = Absent
  BY DEF RolesInv
<1>1. Member(g, u) \in Rows /\ Member(g, u) \notin ProjectRows
  BY RowTypes, RowsApart DEF ProjectRows
<1> QED
  BY <1>1 DEF Init

(* What is committed to a membership is one of the two roles.              *)
LEMMA RolesStep ==
  ASSUME TransactionInv, RolesInv, [Next]_vars
  PROVE  RolesInv'
<1> SUFFICES ASSUME NEW g \in Groups, NEW u \in Users, db'[Member(g, u)] # db[Member(g, u)]
             PROVE  db'[Member(g, u)] \in Roles \union {Absent}
  BY DEF RolesInv
<1>1. PICK r \in Reqs : lock[Member(g, u)] = r /\ db'[Member(g, u)] = latest[Member(g, u)]
  BY WhoChangesMembers
<1>2. MemberHeld(req[r], u, db[Member(g, u)], db'[Member(g, u)])
  BY <1>1, MemberHolder
<1> QED
  BY <1>2 DEF MemberHeld, Roles, RolesInv

(* What the registry sees, table by table, when a request commits: rows    *)
(* change only where the request says.                                     *)
LEMMA CommittedRows ==
  ASSUME TransactionInv, NEW r \in Reqs, CommitRequest(r)
  PROVE  /\ \A g \in Groups :
              db'[GroupRow(g)] # db[GroupRow(g)] =>
                req[r].group = g /\ req[r].op \in {"create", "rename", "delete"}
         /\ \A g \in Groups, u \in Users :
              db'[Member(g, u)] # db[Member(g, u)] =>
                req[r].group = g /\ MemberHeld(req[r], u, db[Member(g, u)], db'[Member(g, u)])
         /\ \A i \in Invites :
              db'[Invite(i)] # db[Invite(i)] =>
                InviteHeld(req[r], i, db[Invite(i)], db'[Invite(i)])
         /\ \A p \in Projects :
              db'[Project(p)] # db[Project(p)] =>
                req[r].arg = p /\ req[r].op \in {"link_project", "unlink_project"}
<1>1. \A x \in Rows : db'[x] # db[x] => lock[x] = r /\ db'[x] = latest[x]
  BY CommitMoves
<1>2. ASSUME NEW g \in Groups, db'[GroupRow(g)] # db[GroupRow(g)]
      PROVE  req[r].group = g /\ req[r].op \in {"create", "rename", "delete"}
  BY <1>1, <1>2, GroupHolder, RowTypes
<1>3. ASSUME NEW g \in Groups, NEW u \in Users, db'[Member(g, u)] # db[Member(g, u)]
      PROVE  req[r].group = g /\ MemberHeld(req[r], u, db[Member(g, u)], db'[Member(g, u)])
  <2>1. lock[Member(g, u)] = r /\ db'[Member(g, u)] = latest[Member(g, u)]
    BY <1>1, <1>3, RowTypes
  <2> QED
    BY <2>1, MemberHolder
<1>4. ASSUME NEW i \in Invites, db'[Invite(i)] # db[Invite(i)]
      PROVE  InviteHeld(req[r], i, db[Invite(i)], db'[Invite(i)])
  <2>1. lock[Invite(i)] = r /\ db'[Invite(i)] = latest[Invite(i)]
    BY <1>1, <1>4, RowTypes
  <2> QED
    BY <2>1, InviteHolder
<1>5. ASSUME NEW p \in Projects, db'[Project(p)] # db[Project(p)]
      PROVE  req[r].arg = p /\ req[r].op \in {"link_project", "unlink_project"}
  BY <1>1, <1>5, ProjectHolder, RowTypes
<1> QED
  BY <1>2, <1>3, <1>4, <1>5

(* What each method makes of a membership it holds.                        *)
LEMMA HeldMembers ==
  ASSUME NEW c, NEW u, NEW old, NEW new, MemberHeld(c, u, old, new)
  PROVE  /\ c.op \in {"create", "accept_invite", "delete", "remove_member", "leave",
                      "transfer_ownership"}
         /\ c.op \in {"create", "accept_invite"} => c.user = u
         /\ c.op = "delete" => new = Absent
         /\ c.op \in {"remove_member", "leave"} => c.arg = u /\ old # Absent /\ new = Absent
BY DEF MemberHeld

(* Parts of the registry that a commit leaves alone.                       *)
SameGroups == \A g \in Groups : db'[GroupRow(g)] = Absent <=> db[GroupRow(g)] = Absent
SameRoles == \A g \in Groups, u \in Users : db'[Member(g, u)] = db[Member(g, u)]
SameInvites == \A i \in Invites : db'[Invite(i)] = db[Invite(i)]
SameLinks == \A p \in Projects : db'[Project(p)] = db[Project(p)]

(* They are the registry's variables.                                      *)
LEMMA SameRegistry ==
  /\ SameGroups => {g \in Groups : db[GroupRow(g)] # Absent}'
                     = {g \in Groups : db[GroupRow(g)] # Absent}
  /\ SameRoles => [g \in Groups |-> [u \in Users |-> db[Member(g, u)]]]'
                    = [g \in Groups |-> [u \in Users |-> db[Member(g, u)]]]
  /\ SameInvites => /\ {i \in Invites : db[Invite(i)] # Absent}'
                         = {i \in Invites : db[Invite(i)] # Absent}
                    /\ {i \in Invites : Consumed(db[Invite(i)])}'
                         = {i \in Invites : Consumed(db[Invite(i)])}
                    /\ {i \in Invites : Revoked(db[Invite(i)])}'
                         = {i \in Invites : Revoked(db[Invite(i)])}
  /\ SameLinks => [p \in Projects |-> db[Project(p)]]' = [p \in Projects |-> db[Project(p)]]
BY DEF SameGroups, SameRoles, SameInvites, SameLinks

(* create.                                                                 *)
LEMMA CreateRegisters ==
  ASSUME TransactionInv, NEW r \in Reqs, CommitRequest(r), req[r].op = "create"
  PROVE  Registry!Create(req[r].group, req[r].user)
<1>1. PICK g \in Groups, u \in Users : g = req[r].group /\ u = req[r].user
  BY CommitMoves, AtItsStatement
<1>2. db[GroupRow(g)] = Absent /\ db'[GroupRow(g)] # Absent
  BY <1>1, CommitMoves, AtItsStatement, NewRows, CommittedGroup
<1>3. \A h \in Groups \ {g} : db'[GroupRow(h)] = db[GroupRow(h)]
  BY <1>1, CommittedRows
<1>4. \A v \in Users : db[Member(g, v)] = Absent
  BY <1>1, CommitMoves, AtItsStatement, NewRows
<1>5. db'[Member(g, u)] = "owner"
  <2>1. lock[Member(g, u)] = r
    BY <1>1, CommitMoves, AtItsStatement DEF Due, CreateDue, Mine
  <2>2. db'[Member(g, u)] = latest[Member(g, u)]
    BY <2>1, RowTypes, CommitMoves
  <2>3. MemberHeld(req[r], u, db[Member(g, u)], latest[Member(g, u)])
    BY <2>1, MemberHolder
  <2> QED
    BY <2>2, <2>3 DEF MemberHeld
<1>6. ASSUME NEW v \in Users \ {u} PROVE db'[Member(g, v)] = Absent
  <2>1. ~MemberHeld(req[r], v, db[Member(g, v)], db'[Member(g, v)])
    BY <1>1 DEF MemberHeld
  <2> QED
    BY <1>4, <2>1, CommittedRows
<1>7. \A h \in Groups \ {g}, v \in Users : db'[Member(h, v)] = db[Member(h, v)]
  BY <1>1, CommittedRows
<1>8. SameInvites /\ SameLinks
  BY CommittedRows DEF SameInvites, SameLinks, InviteHeld
<1>9. {h \in Groups : db[GroupRow(h)] # Absent}'
        = {h \in Groups : db[GroupRow(h)] # Absent} \union {g}
  BY <1>2, <1>3
<1>10. [h \in Groups |-> [v \in Users |-> db[Member(h, v)]]]'
         = [[h \in Groups |-> [v \in Users |-> db[Member(h, v)]]] EXCEPT
              ![g] = [v \in Users |-> IF v = u THEN "owner" ELSE Absent]]
  BY <1>5, <1>6, <1>7
<1> QED
  BY <1>1, <1>2, <1>8, <1>9, <1>10, SameRegistry DEF Registry!Create, Registry!Absent, Absent

(* delete: the group with everything that refers to it, or nothing when    *)
(* another request has deleted it first.                                   *)
LEMMA DeleteRegisters ==
  ASSUME TransactionInv, NEW r \in Reqs, CommitRequest(r), req[r].op = "delete"
  PROVE  Registry!Delete(req[r].group) \/ UNCHANGED Registry!registry
<1>1. PICK g \in Groups : g = req[r].group
  BY CommitMoves, AtItsStatement
<1>2. DeleteDue(r, req[r]) /\ req[r].pc = "commit"
  BY CommitMoves, AtItsStatement DEF Due
<1>3. SameLinks /\ \A h \in Groups \ {g} : db'[GroupRow(h)] = db[GroupRow(h)]
  BY <1>1, CommittedRows DEF SameLinks
<1>4. ASSUME NEW h \in Groups, NEW v \in Users
      PROVE  db'[Member(h, v)] = IF h = g THEN Absent ELSE db[Member(h, v)]
  <2>1. db'[Member(h, v)] # db[Member(h, v)] => h = g /\ db'[Member(h, v)] = Absent
    BY <1>1, CommittedRows, HeldMembers
  <2>2. CASE h = g /\ db[Member(g, v)] # Absent
    <3>1. lock[Member(g, v)] = r
      BY <1>1, <1>2, <2>2, ChildRows DEF DeleteDue, Mine
    <3>2. db'[Member(g, v)] = latest[Member(g, v)]
      BY <3>1, RowTypes, CommitMoves
    <3>3. MemberHeld(req[r], v, db[Member(g, v)], db'[Member(g, v)])
      BY <3>1, <3>2, MemberHolder
    <3> QED
      BY <2>2, <3>3 DEF MemberHeld
  <2> QED
    BY <2>1, <2>2
<1>5. ASSUME NEW i \in Invites
      PROVE  db'[Invite(i)] = IF InviteGroup[i] = g THEN Absent ELSE db[Invite(i)]
  <2>1. db'[Invite(i)] # db[Invite(i)] => InviteGroup[i] = g /\ db'[Invite(i)] = Absent
    BY <1>1, CommittedRows DEF InviteHeld
  <2>2. CASE InviteGroup[i] = g /\ db[Invite(i)] # Absent
    <3>1. lock[Invite(i)] = r
      BY <1>1, <1>2, <2>2, ChildRows DEF DeleteDue, Mine
    <3>2. db'[Invite(i)] = latest[Invite(i)]
      BY <3>1, RowTypes, CommitMoves
    <3>3. InviteHeld(req[r], i, db[Invite(i)], db'[Invite(i)])
      BY <3>1, <3>2, InviteHolder
    <3> QED
      BY <2>2, <3>3 DEF InviteHeld
  <2> QED
    BY <2>1, <2>2
<1>6. db'[GroupRow(g)] = Absent
  BY <1>1, CommittedGroup
<1>7. CASE db[GroupRow(g)] = Absent
  <2>1. \A x \in Children(g) : db[x] = Absent
    <3>1. KnownGroup(g)
      BY DEF TransactionInv
    <3> QED
      BY <1>7, <3>1, ChildRows DEF KnownGroup, Refers
  <2>2. SameGroups
    BY <1>3, <1>6, <1>7 DEF SameGroups
  <2>3. SameRoles
    BY <1>4, <2>1, ChildRows DEF SameRoles
  <2>4. SameInvites
    BY <1>5, <2>1, ChildRows DEF SameInvites
  <2> QED
    BY <1>3, <2>2, <2>3, <2>4, SameRegistry DEF Registry!registry
<1>8. CASE db[GroupRow(g)] # Absent
  <2>1. \A p \in Projects : [q \in Projects |-> db[Project(q)]][p] # g
    BY <1>1, <1>2 DEF DeleteDue, LinkedProjects
  <2>2. {h \in Groups : db[GroupRow(h)] # Absent}'
          = {h \in Groups : db[GroupRow(h)] # Absent} \ {g}
    BY <1>3, <1>6
  <2>3. [h \in Groups |-> [v \in Users |-> db[Member(h, v)]]]'
          = [[h \in Groups |-> [v \in Users |-> db[Member(h, v)]]] EXCEPT
               ![g] = [v \in Users |-> Absent]]
    BY <1>4
  <2>4. /\ {i \in Invites : db[Invite(i)] # Absent}'
             = {i \in Invites : db[Invite(i)] # Absent} \ {i \in Invites : InviteGroup[i] = g}
        /\ {i \in Invites : Consumed(db[Invite(i)])}'
             = {i \in Invites : Consumed(db[Invite(i)])} \ {i \in Invites : InviteGroup[i] = g}
        /\ {i \in Invites : Revoked(db[Invite(i)])}'
             = {i \in Invites : Revoked(db[Invite(i)])} \ {i \in Invites : InviteGroup[i] = g}
    BY <1>5, NoMark
  <2> QED
    BY <1>1, <1>3, <1>8, <2>1, <2>2, <2>3, <2>4, SameRegistry
       DEF Registry!Delete, Registry!InvitesOf, Registry!Absent, Absent
<1> QED
  BY <1>7, <1>8

(* A shared group is there, also when the row that refers to it commits.   *)
LEMMA SharedIsThere ==
  ASSUME TransactionInv, NEW r \in Reqs, req[r].pc = "commit",
         req[r].op \in {"create_invite", "accept_invite", "link_project"}
  PROVE  req[r].group \in Groups /\ db[GroupRow(req[r].group)] # Absent
<1>1. req[r].pc \in Statements
  BY DEF Statements
<1>2. Due(r, req[r]) /\ req[r].group \in Groups
  BY <1>1, AtItsStatement
<1>3. r \in share[GroupRow(req[r].group)]
  BY <1>2 DEF Due, ShareDue, Sharing
<1> QED
  BY <1>2, <1>3 DEF TransactionInv, KnownGroup

(* create_invite.                                                          *)
LEMMA InviteRegisters ==
  ASSUME TransactionInv, NEW r \in Reqs, CommitRequest(r), req[r].op = "create_invite"
  PROVE  Registry!Offer(req[r].arg)
<1>1. /\ req[r].pc = "commit" /\ Due(r, req[r]) /\ Fits(req[r])
      /\ req[r].arg \in ArgOf(req[r].op) /\ req[r].group \in Groups
  BY CommitMoves, AtItsStatement
<1>2. PICK i \in Invites : i = req[r].arg
  BY <1>1 DEF ArgOf
<1>3. InviteGroup[i] \in {g \in Groups : db[GroupRow(g)] # Absent}
  BY <1>1, <1>2, SharedIsThere DEF Fits
<1>4. lock[Invite(i)] = r
  BY <1>1, <1>2 DEF Due, CreateInviteDue, Mine
<1>5. db[Invite(i)] = Absent /\ db'[Invite(i)] = "pending"
  <2>1. db'[Invite(i)] = latest[Invite(i)]
    BY <1>4, RowTypes, CommitMoves
  <2>2. InviteHeld(req[r], i, db[Invite(i)], db'[Invite(i)])
    BY <1>4, <2>1, InviteHolder
  <2> QED
    BY <2>2 DEF InviteHeld
<1>6. \A j \in Invites \ {i} : db'[Invite(j)] = db[Invite(j)]
  BY <1>2, CommittedRows DEF InviteHeld
<1>7. SameGroups /\ SameRoles /\ SameLinks
  BY CommittedRows, HeldMembers DEF SameGroups, SameRoles, SameLinks
<1>8. {j \in Invites : db[Invite(j)] # Absent}'
        = {j \in Invites : db[Invite(j)] # Absent} \union {i}
  BY <1>5, <1>6, NoMark
<1>9. /\ {j \in Invites : Consumed(db[Invite(j)])}' = {j \in Invites : Consumed(db[Invite(j)])}
      /\ {j \in Invites : Revoked(db[Invite(j)])}' = {j \in Invites : Revoked(db[Invite(j)])}
  BY <1>5, <1>6, NoMark
<1> QED
  BY <1>2, <1>3, <1>5, <1>7, <1>8, <1>9, SameRegistry DEF Registry!Offer

(* revoke_invite: nothing when the invite has gone with its group.         *)
LEMMA RevokeRegisters ==
  ASSUME TransactionInv, NEW r \in Reqs, CommitRequest(r), req[r].op = "revoke_invite"
  PROVE  Registry!Withdraw(req[r].arg) \/ UNCHANGED Registry!registry
<1>1. req[r].arg \in ArgOf(req[r].op)
  BY CommitMoves, AtItsStatement
<1>2. PICK i \in Invites : i = req[r].arg
  BY <1>1 DEF ArgOf
<1>3. \A j \in Invites \ {i} : db'[Invite(j)] = db[Invite(j)]
  BY <1>2, CommittedRows DEF InviteHeld
<1>4. SameGroups /\ SameRoles /\ SameLinks
  BY CommittedRows, HeldMembers DEF SameGroups, SameRoles, SameLinks
<1>5. CASE db'[Invite(i)] = db[Invite(i)]
  BY <1>3, <1>4, <1>5, SameRegistry DEF SameInvites, Registry!registry
<1>6. CASE db'[Invite(i)] # db[Invite(i)]
  <2>1. InviteHeld(req[r], i, db[Invite(i)], db'[Invite(i)])
    BY <1>6, CommittedRows
  <2>2. db[Invite(i)] \in Marks /\ db'[Invite(i)] = Mark(db[Invite(i)], "revoked")
    BY <2>1 DEF InviteHeld
  <2>3. /\ db[Invite(i)] # Absent /\ db'[Invite(i)] # Absent /\ Revoked(db'[Invite(i)])
        /\ Consumed(db'[Invite(i)]) <=> Consumed(db[Invite(i)])
    BY <2>2, MarkAdds
  <2>4. /\ {j \in Invites : db[Invite(j)] # Absent}' = {j \in Invites : db[Invite(j)] # Absent}
        /\ {j \in Invites : Consumed(db[Invite(j)])}' = {j \in Invites : Consumed(db[Invite(j)])}
    BY <1>3, <2>3
  <2>5. {j \in Invites : Revoked(db[Invite(j)])}'
          = {j \in Invites : Revoked(db[Invite(j)])} \union {i}
    BY <1>3, <2>3
  <2> QED
    BY <1>2, <1>4, <2>3, <2>4, <2>5, SameRegistry DEF Registry!Withdraw
<1> QED
  BY <1>5, <1>6

(* accept_invite.                                                          *)
LEMMA AcceptRegisters ==
  ASSUME TransactionInv, NEW r \in Reqs, CommitRequest(r), req[r].op = "accept_invite"
  PROVE  Registry!Join(req[r].arg, req[r].user)
<1>1. PICK i \in Invites, g \in Groups, u \in Users :
        i = req[r].arg /\ g = req[r].group /\ u = req[r].user /\ InviteGroup[i] = g
  BY AcceptCommits
<1>2. /\ db[Member(g, u)] = Absent /\ db'[Member(g, u)] = "member"
      /\ db[Invite(i)] \in Marks /\ db'[Invite(i)] = Mark(db[Invite(i)], "consumed")
  BY <1>1, AcceptCommits
<1>3. /\ db[Invite(i)] # Absent /\ db'[Invite(i)] # Absent /\ Consumed(db'[Invite(i)])
      /\ Revoked(db'[Invite(i)]) <=> Revoked(db[Invite(i)])
  BY <1>2, MarkAdds
<1>4. \A j \in Invites \ {i} : db'[Invite(j)] = db[Invite(j)]
  BY <1>1, CommittedRows DEF InviteHeld
<1>5. \A h \in Groups, v \in Users : h # g \/ v # u => db'[Member(h, v)] = db[Member(h, v)]
  BY <1>1, CommittedRows, HeldMembers
<1>6. SameGroups /\ SameLinks
  BY CommittedRows DEF SameGroups, SameLinks
<1>7. /\ {j \in Invites : db[Invite(j)] # Absent}' = {j \in Invites : db[Invite(j)] # Absent}
      /\ {j \in Invites : Revoked(db[Invite(j)])}' = {j \in Invites : Revoked(db[Invite(j)])}
  BY <1>3, <1>4
<1>8. {j \in Invites : Consumed(db[Invite(j)])}'
        = {j \in Invites : Consumed(db[Invite(j)])} \union {i}
  BY <1>3, <1>4
<1>9. [h \in Groups |-> [v \in Users |-> db[Member(h, v)]]]'
        = [[h \in Groups |-> [v \in Users |-> db[Member(h, v)]]] EXCEPT ![g][u] = "member"]
  BY <1>2, <1>5
<1> QED
  BY <1>1, <1>2, <1>3, <1>6, <1>7, <1>8, <1>9, SameRegistry
     DEF Registry!Join, Registry!Absent, Absent

(* rename changes nothing a client of the registry sees.                   *)
LEMMA RenameRegisters ==
  ASSUME TransactionInv, NEW r \in Reqs, CommitRequest(r), req[r].op = "rename"
  PROVE  UNCHANGED Registry!registry
<1>1. SameRoles /\ SameInvites /\ SameLinks
  BY CommittedRows, HeldMembers DEF SameRoles, SameInvites, SameLinks, InviteHeld
<1>2. SameGroups
  BY CommittedGroup DEF SameGroups
<1> QED
  BY <1>1, <1>2, SameRegistry DEF Registry!registry

(* remove_member and leave: nothing when the membership has gone before.   *)
LEMMA DepartRegisters ==
  ASSUME TransactionInv, NEW r \in Reqs, CommitRequest(r),
         req[r].op \in {"remove_member", "leave"}
  PROVE  Registry!Depart(req[r].group, req[r].arg) \/ UNCHANGED Registry!registry
<1>1. req[r].arg \in ArgOf(req[r].op) /\ req[r].group \in Groups
  BY CommitMoves, AtItsStatement
<1>2. PICK g \in Groups, u \in Users : g = req[r].group /\ u = req[r].arg
  BY <1>1 DEF ArgOf
<1>3. SameGroups /\ SameInvites /\ SameLinks
  BY CommittedRows DEF SameGroups, SameInvites, SameLinks, InviteHeld
<1>4. \A h \in Groups, v \in Users : h # g \/ v # u => db'[Member(h, v)] = db[Member(h, v)]
  BY <1>2, CommittedRows, HeldMembers
<1>5. CASE db'[Member(g, u)] = db[Member(g, u)]
  BY <1>3, <1>4, <1>5, SameRegistry DEF SameRoles, Registry!registry
<1>6. CASE db'[Member(g, u)] # db[Member(g, u)]
  <2>1. db[Member(g, u)] # Absent /\ db'[Member(g, u)] = Absent
    BY <1>6, CommittedRows, HeldMembers
  <2>2. [h \in Groups |-> [v \in Users |-> db[Member(h, v)]]]'
          = [[h \in Groups |-> [v \in Users |-> db[Member(h, v)]]] EXCEPT ![g][u] = Absent]
    BY <1>4, <2>1
  <2> QED
    BY <1>2, <1>3, <2>1, <2>2, SameRegistry DEF Registry!Depart, Registry!Absent, Absent
<1> QED
  BY <1>5, <1>6

(* transfer_ownership: a lapse when the new owner's row has gone, and      *)
(* nothing when the caller is not the owner any more, either.              *)
LEMMA TransferRegisters ==
  ASSUME TransactionInv, RolesInv, AtMostOneOwner, AtMostOneOwner',
         NEW r \in Reqs, CommitRequest(r), req[r].op = "transfer_ownership"
  PROVE  \/ Registry!Transfer(req[r].group, req[r].arg)
         \/ Registry!Lapse(req[r].group)
         \/ UNCHANGED Registry!registry
<1>1. /\ req[r].arg \in ArgOf(req[r].op) /\ req[r].group \in Groups /\ req[r].user \in Users
      /\ req[r].pc = "commit"
  BY CommitMoves, AtItsStatement
<1>2. PICK g \in Groups, u \in Users, n \in Users :
        g = req[r].group /\ u = req[r].user /\ n = req[r].arg
  BY <1>1 DEF ArgOf
<1>3. SameGroups /\ SameInvites /\ SameLinks
  BY CommittedRows DEF SameGroups, SameInvites, SameLinks, InviteHeld
<1>4. ASSUME NEW h \in Groups, NEW v \in Users, db'[Member(h, v)] # db[Member(h, v)]
      PROVE  /\ h = g /\ db[Member(h, v)] # Absent
             /\ \/ v = u /\ u # n /\ db'[Member(h, v)] = "member"
                \/ v = n /\ db'[Member(h, v)] = "owner"
  <2>1. h = g /\ MemberHeld(req[r], v, db[Member(h, v)], db'[Member(h, v)])
    BY <1>2, <1>4, CommittedRows
  <2> QED
    BY <1>1, <1>2, <2>1 DEF MemberHeld
<1>5. \A h \in Groups \ {g}, v \in Users : db'[Member(h, v)] = db[Member(h, v)]
  BY <1>4
<1>6. \A v \in Users : db[Member(g, v)] \in {"owner", "member", Absent}
  BY DEF RolesInv, Roles
<1> DEFINE down == [v \in Users |-> IF db[Member(g, v)] = "owner" THEN "member"
                                    ELSE db[Member(g, v)]]
<1>7. CASE SameRoles
  BY <1>3, <1>7, SameRegistry DEF Registry!registry
<1>8. CASE db'[Member(g, n)] # db[Member(g, n)]
  <2>1. db[Member(g, n)] # Absent /\ db'[Member(g, n)] = "owner"
    BY <1>4, <1>8
  <2>2. ASSUME NEW v \in Users \ {n}
        PROVE  db'[Member(g, v)] = IF db[Member(g, v)] = "owner" THEN "member"
                                   ELSE db[Member(g, v)]
    <3>1. db'[Member(g, v)] # "owner"
      BY <2>1 DEF AtMostOneOwner
    <3> QED
      BY <1>4, <1>6, <3>1
  <2>3. [h \in Groups |-> [v \in Users |-> db[Member(h, v)]]]'
          = [[h \in Groups |-> [v \in Users |-> db[Member(h, v)]]] EXCEPT
               ![g] = [down EXCEPT ![n] = "owner"]]
    BY <1>5, <2>1, <2>2
  <2>4. Registry!StepDown(g) = down
    BY DEF Registry!StepDown
  <2> HIDE DEF down
  <2>5. Registry!Transfer(g, n)
    BY <1>3, <2>1, <2>3, <2>4, SameRegistry DEF Registry!Transfer, Registry!Absent, Absent
  <2> QED
    BY <1>2, <2>5
<1>9. CASE db'[Member(g, n)] = db[Member(g, n)] /\ ~SameRoles
  <2>1. PICK h \in Groups, v \in Users : db'[Member(h, v)] # db[Member(h, v)]
    BY <1>9 DEF SameRoles
  <2>2. h = g /\ v = u /\ u # n /\ db'[Member(g, u)] = "member" /\ db[Member(g, u)] = "owner"
    BY <1>4, <1>6, <1>9, <2>1
  <2>3. ASSUME NEW w \in Users
        PROVE  db'[Member(g, w)] = IF db[Member(g, w)] = "owner" THEN "member"
                                   ELSE db[Member(g, w)]
    <3>1. CASE w = u
      BY <2>2, <3>1
    <3>2. CASE w # u
      <4>1. db[Member(g, w)] # "owner"
        BY <2>2, <3>2 DEF AtMostOneOwner
      <4>2. db'[Member(g, w)] = db[Member(g, w)]
        BY <1>4, <1>9, <3>2
      <4> QED
        BY <4>1, <4>2
    <3> QED
      BY <3>1, <3>2
  <2>4. [k \in Groups |-> [w \in Users |-> db[Member(k, w)]]]'
          = [[k \in Groups |-> [w \in Users |-> db[Member(k, w)]]] EXCEPT ![g] = down]
    BY <1>5, <2>3
  <2>5. Registry!StepDown(g) = down
    BY DEF Registry!StepDown
  <2> HIDE DEF down
  <2>6. Registry!Lapse(g)
    BY <1>3, <2>4, <2>5, SameRegistry DEF Registry!Lapse
  <2> QED
    BY <1>2, <2>6
<1> QED
  BY <1>7, <1>8, <1>9

(* link_project and unlink_project.                                        *)
LEMMA LinkRegisters ==
  ASSUME TransactionInv, NEW r \in Reqs, CommitRequest(r),
         req[r].op \in {"link_project", "unlink_project"}
  PROVE  \/ Registry!Link(req[r].arg, req[r].group)
         \/ Registry!Unlink(req[r].arg)
<1>1. /\ req[r].arg \in ArgOf(req[r].op) /\ req[r].group \in Groups
      /\ Due(r, req[r]) /\ req[r].pc = "commit"
  BY CommitMoves, AtItsStatement
<1>2. PICK p \in Projects, g \in Groups : p = req[r].arg /\ g = req[r].group
  BY <1>1 DEF ArgOf
<1>3. SameGroups /\ SameRoles /\ SameInvites
  BY CommittedRows, HeldMembers DEF SameGroups, SameRoles, SameInvites, InviteHeld
<1>4. lock[Project(p)] = r
  BY <1>1, <1>2 DEF Due, LinkDue, Mine
<1>5. /\ db[Project(p)] # Absent
      /\ \/ req[r].op = "link_project" /\ db'[Project(p)] = g
         \/ req[r].op = "unlink_project" /\ db'[Project(p)] = Unlinked
  BY <1>2, <1>4, ProjectHolder, CommitMoves, RowTypes
<1>6. \A q \in Projects \ {p} : db'[Project(q)] = db[Project(q)]
  BY <1>2, CommittedRows
<1>7. CASE req[r].op = "link_project"
  <2>1. [q \in Projects |-> db[Project(q)]]'
          = [[q \in Projects |-> db[Project(q)]] EXCEPT ![p] = g]
    BY <1>5, <1>6, <1>7
  <2>2. g \in {h \in Groups : db[GroupRow(h)] # Absent}
    BY <1>1, <1>2, <1>7, SharedIsThere
  <2> QED
    BY <1>2, <1>3, <1>5, <2>1, <2>2, SameRegistry DEF Registry!Link, Registry!Absent, Absent
<1>8. CASE req[r].op = "unlink_project"
  <2>1. [q \in Projects |-> db[Project(q)]]'
          = [[q \in Projects |-> db[Project(q)]] EXCEPT ![p] = Unlinked]
    BY <1>5, <1>6, <1>8
  <2> QED
    BY <1>2, <1>3, <1>5, <2>1, SameRegistry
       DEF Registry!Unlink, Registry!Absent, Absent, Registry!Unlinked, Unlinked
<1> QED
  BY <1>7, <1>8

(* A project that comes or goes.                                           *)
LEMMA ProjectRegisters ==
  ASSUME TransactionInv, NEW p \in Projects, CreateProject(p) \/ DeleteProject(p)
  PROVE  Registry!CreateProject(p) \/ Registry!DropProject(p)
<1>1. PICK v : /\ Replace(Project(p), v)
               /\ \/ v = Unlinked /\ db[Project(p)] = Absent
                  \/ v = Absent
  BY DEF CreateProject, DeleteProject
<1>2. /\ db'[Project(p)] = v
      /\ \A x \in Rows \ {Project(p)} : db'[x] = db[x]
  BY <1>1, RowTypes DEF Replace, TransactionInv, TypeOK, StoreType
<1>3. SameGroups /\ SameRoles /\ SameInvites
  BY <1>2, RowTypes, RowsApart DEF SameGroups, SameRoles, SameInvites
<1>4. \A q \in Projects \ {p} : db'[Project(q)] = db[Project(q)]
  BY <1>2, RowTypes, RowsApart
<1>5. [q \in Projects |-> db[Project(q)]]'
        = [[q \in Projects |-> db[Project(q)]] EXCEPT ![p] = v]
  BY <1>2, <1>4
<1> QED
  BY <1>1, <1>3, <1>5, SameRegistry
     DEF Registry!CreateProject, Registry!DropProject, Registry!Absent, Absent,
         Registry!Unlinked, Unlinked

(* A commit is an operation of the registry, or changes nothing in it.     *)
LEMMA CommitRegisters ==
  ASSUME TransactionInv, RolesInv, AtMostOneOwner, AtMostOneOwner',
         NEW r \in Reqs, CommitRequest(r)
  PROVE  Registry!Next \/ UNCHANGED Registry!registry
<1>1. PICK c : c = req[r]
  OBVIOUS
<1>2. /\ c.group \in Groups /\ c.user \in Users /\ c.arg \in ArgOf(c.op) /\ c.pc = "commit"
      /\ Fits(c)
  BY <1>1, CommitMoves, AtItsStatement
<1>3. /\ c.op \in {"remove_member", "leave", "transfer_ownership"} => c.arg \in Users
      /\ c.op \in {"create_invite", "accept_invite", "revoke_invite"} => c.arg \in Invites
      /\ c.op \in {"link_project", "unlink_project"} => c.arg \in Projects
  BY <1>2 DEF ArgOf
<1>4. CASE c.op \in {"create", "rename", "delete"}
  BY <1>1, <1>2, <1>4, CreateRegisters, RenameRegisters, DeleteRegisters DEF Registry!Next
<1>5. CASE c.op \in {"create_invite", "accept_invite", "revoke_invite"}
  BY <1>1, <1>2, <1>3, <1>5, InviteRegisters, AcceptRegisters, RevokeRegisters
     DEF Registry!Next
<1>6. CASE c.op \in {"remove_member", "leave", "transfer_ownership"}
  BY <1>1, <1>2, <1>3, <1>6, DepartRegisters, TransferRegisters DEF Registry!Next
<1>7. CASE c.op \in {"link_project", "unlink_project"}
  BY <1>1, <1>2, <1>3, <1>7, LinkRegisters DEF Registry!Next
<1>8. c.op \in {"create", "rename", "delete", "create_invite", "accept_invite",
                "revoke_invite", "remove_member", "leave", "transfer_ownership",
                "link_project", "unlink_project"}
  BY <1>2 DEF Fits, Course
<1> QED
  BY <1>4, <1>5, <1>6, <1>7, <1>8

(* The clients cannot tell the overlapping, failing and restarted          *)
(* transactions of GroupService from the registry, where every operation   *)
(* happens at once: each commit is one of its operations, and no other     *)
(* step is seen.                                                           *)
THEOREM RegistryImplemented == Spec => ImplementsRegistry
<1> DEFINE Inv == TransactionInv /\ RolesInv /\ OneOwnerInv
<1>1. Init => Inv
  BY TransactionInit, RolesInit, OneOwnerInit
<1>2. Inv /\ [Next]_vars => Inv'
  BY TransactionStep, RolesStep, OneOwnerStep DEF TransactionInv
<1>3. OneOwnerInv => AtMostOneOwner
  BY DEF OneOwnerInv, OwnersApart, AtMostOneOwner
<1>4. Init => Registry!Init
  <2> SUFFICES ASSUME Init PROVE Registry!Init
    OBVIOUS
  <2>1. /\ \A g \in Groups : GroupRow(g) \in Rows /\ GroupRow(g) \notin ProjectRows
        /\ \A g \in Groups, u \in Users : Member(g, u) \in Rows /\ Member(g, u) \notin ProjectRows
        /\ \A i \in Invites : Invite(i) \in Rows /\ Invite(i) \notin ProjectRows
        /\ \A p \in Projects : Project(p) \in Rows /\ Project(p) \in ProjectRows
    BY RowTypes, RowsApart DEF ProjectRows
  <2>2. /\ \A g \in Groups : db[GroupRow(g)] = Absent
        /\ \A g \in Groups, u \in Users : db[Member(g, u)] = Absent
        /\ \A i \in Invites : db[Invite(i)] = Absent
        /\ \A p \in Projects : db[Project(p)] = Unlinked
    BY <2>1 DEF Init
  <2> QED
    BY <2>2, NoMark DEF Registry!Init, Registry!Absent, Absent, Registry!Unlinked, Unlinked
<1>5. Inv /\ [Next]_vars /\ AtMostOneOwner' => [Registry!Next]_(Registry!registry)
  <2> SUFFICES ASSUME Inv, [Next]_vars, AtMostOneOwner'
               PROVE  Registry!Next \/ UNCHANGED Registry!registry
    OBVIOUS
  <2>1. CASE db' = db
    BY <2>1 DEF Registry!registry
  <2>2. CASE \E r \in Reqs : CommitRequest(r)
    BY <1>3, <2>2, CommitRegisters
  <2>3. CASE ProjectStep
    BY <2>3, ProjectRegisters DEF ProjectStep, Registry!Next
  <2> QED
    BY <2>1, <2>2, <2>3, WhoChangesRows
<1> HIDE DEF Inv
<1> QED
  BY <1>1, <1>2, <1>3, <1>4, <1>5, PTL DEF Spec, ImplementsRegistry, Registry!Spec, Inv

-----------------------------------------------------------------------------
(* The limit on new invites.                                               *)

(* A call that is past the check of the limit and has not recorded its     *)
(* attempt yet.                                                            *)
Past(c, g, u) == /\ c.op = "create_invite" /\ c.group = g /\ c.user = u
                 /\ c.pc \in {"insert invite", "reference", "record"}

PastCheck(g, u) == {r \in Reqs : Past(req[r], g, u)}

(* The recorded attempts, and those that will be, stay below the bound.    *)
BurstInv ==
  \A g \in Groups, u \in Users :
    attempts[g][u] + Cardinality(PastCheck(g, u)) < InviteMax + Cardinality(Reqs)

(* There are finitely many of them.                                        *)
LEMMA CountedPast ==
  ASSUME NEW g, NEW u
  PROVE  /\ Cardinality(Reqs) \in Nat /\ Cardinality(Reqs) > 0 /\ InviteMax \in Nat
         /\ IsFiniteSet(PastCheck(g, u)) /\ Cardinality(PastCheck(g, u)) \in Nat
         /\ Cardinality(PastCheck(g, u)) <= Cardinality(Reqs)
         /\ IsFiniteSet(PastCheck(g, u)') /\ Cardinality(PastCheck(g, u)') \in Nat
         /\ Cardinality(PastCheck(g, u)') <= Cardinality(Reqs)
<1>1. Cardinality(Reqs) \in Nat /\ Cardinality(Reqs) # 0
  BY RequestsAssumption, FS_CardinalityType, FS_EmptySet
<1>2. PastCheck(g, u) \in SUBSET Reqs /\ PastCheck(g, u)' \in SUBSET Reqs
  BY DEF PastCheck
<1>3. /\ IsFiniteSet(PastCheck(g, u)) /\ Cardinality(PastCheck(g, u)) <= Cardinality(Reqs)
      /\ IsFiniteSet(PastCheck(g, u)') /\ Cardinality(PastCheck(g, u)') <= Cardinality(Reqs)
  BY <1>2, RequestsAssumption, FS_Subset
<1>4. Cardinality(PastCheck(g, u)) \in Nat /\ Cardinality(PastCheck(g, u)') \in Nat
  BY <1>3, FS_CardinalityType
<1> QED
  BY <1>1, <1>3, <1>4, GroupsAssumption

(* At the start there is none.                                             *)
LEMMA BurstInit == Init => BurstInv
<1> SUFFICES ASSUME Init, NEW g \in Groups, NEW u \in Users
             PROVE  attempts[g][u] + Cardinality(PastCheck(g, u))
                      < InviteMax + Cardinality(Reqs)
  BY DEF BurstInv
<1>1. attempts[g][u] = 0
  BY DEF Init
<1>2. PastCheck(g, u) = {}
  BY DEF Init, PastCheck, Past, Idle, Blank
<1> QED
  BY <1>1, <1>2, CountedPast, FS_EmptySet

(* A step after which no more attempts are recorded and no other call is   *)
(* past the check.                                                         *)
LEMMA NoMoreAttempts ==
  ASSUME TypeOK, TypeOK', BurstInv, NEW g \in Groups, NEW u \in Users,
         attempts'[g][u] <= attempts[g][u],
         \A q \in Reqs : Past(req'[q], g, u) => Past(req[q], g, u)
  PROVE  attempts'[g][u] + Cardinality(PastCheck(g, u)') < InviteMax + Cardinality(Reqs)
<1>1. PastCheck(g, u)' \in SUBSET PastCheck(g, u)
  BY DEF PastCheck
<1>2. Cardinality(PastCheck(g, u)') <= Cardinality(PastCheck(g, u))
  BY <1>1, CountedPast, FS_Subset
<1>3. attempts[g][u] \in Nat /\ attempts'[g][u] \in Nat
  BY DEF TypeOK
<1>4. attempts[g][u] + Cardinality(PastCheck(g, u)) < InviteMax + Cardinality(Reqs)
  BY DEF BurstInv
<1> QED
  BY <1>2, <1>3, <1>4, CountedPast

(* Only the check of the limit lets a call past it.                        *)
LEMMA WhoGetsPast ==
  ASSUME TransactionInv, NEW r \in Reqs, Arrive(r) \/ Proceed(r), ~CheckInviteRateLimit(r),
         NEW g \in Groups, NEW u \in Users, Past(req'[r], g, u)
  PROVE  Past(req[r], g, u)
<1>0. TypeOK
  BY DEF TransactionInv
<1>01. /\ req'[r].op = "create_invite"
       /\ req'[r].pc \in {"insert invite", "reference", "record"}
  BY DEF Past
<1>02. ASSUME NEW c, req' = [req EXCEPT ![r] = c] PROVE req'[r] = c
  BY <1>0, <1>02 DEF TypeOK
<1>03. req' # [req EXCEPT ![r] = Idle]
  <2>1. Idle.pc = "idle"
    BY DEF Idle, Blank
  <2> QED
    BY <1>01, <1>02, <2>1
<1>1. \A s : ~Reply(r, s) /\ ~Fail(r)
  BY <1>0, ReplyMoves DEF Fail, Past, Under, Statements
<1>2. ASSUME NEW o, NEW h, NEW v, NEW a, NEW next, Begin(r, o, h, v, a, next)
      PROVE  next \in {"insert invite", "reference", "record"} /\ o = "create_invite"
  <2>1. req'[r] = Call(o, h, v, a, next, db[Member(h, v)])
    BY <1>02, <1>2 DEF Begin
  <2>2. /\ Call(o, h, v, a, next, db[Member(h, v)]).op = o
        /\ Call(o, h, v, a, next, db[Member(h, v)]).pc = next
    BY DEF Call
  <2> QED
    BY <1>01, <2>1, <2>2
<1>3. ASSUME NEW next, Goto(r, next), req[r].pc \in Statements
      PROVE  /\ next \in {"insert invite", "reference", "record"}
             /\ req[r].op = "create_invite" /\ req[r].group = g /\ req[r].user = u
  BY <1>0, <1>3, GotoMoves DEF Past
<1>4. ASSUME Arrive(r) PROVE FALSE
  <2>2. \A o, h, v, a, next : RequireOwner(r, o, h, v, a, next) =>
          next \in {"insert invite", "reference", "record"}
    BY <1>1, <1>2 DEF RequireOwner
  <2>3. \A h, v : ~Create(r, h, v) /\ ~BeginLeave(r, h, v)
    BY <1>1, <1>2 DEF Create, BeginLeave
  <2>4. \A v, i : ~BeginAcceptInvite(r, v, i)
    <3>1. \A h, v, i : Call("accept_invite", h, v, i, "select member", Absent).op
                         = "accept_invite"
      BY DEF Call
    <3>2. \A h, v, i : req' # [req EXCEPT ![r] = Call("accept_invite", h, v, i,
                                                     "select member", Absent)]
      BY <1>01, <1>02, <3>1
    <3> QED
      BY <1>1, <3>2 DEF BeginAcceptInvite
  <2>5. \A next \in {"update group", "count projects", "delete member", "select member",
                     "check limit", "select invite", "select project"} :
          \A o, h, v, a : ~RequireOwner(r, o, h, v, a, next)
    BY <2>2
  <2> QED
    BY <1>4, <2>3, <2>4, <2>5
       DEF Arrive, BeginRename, BeginDelete, BeginRemoveMember, BeginTransfer,
           BeginCreateInvite, BeginRevokeInvite, BeginLinkProject, BeginUnlinkProject
<1>5. CASE Proceed(r)
  <2>1. req[r].pc \in Statements
    <3>1. ~Respond(r)
      BY <1>03 DEF Respond
    <3>2. req[r].pc \notin Statements => ~DeadlockVictim(r)
      BY <1>1 DEF DeadlockVictim
    <3>3. {"commit", "delete group", "cascade", "insert invite", "reference", "record",
           "insert member", "mark consumed", "mark revoked", "delete member", "demote",
           "promote", "one owner", "set group", "clear group", "update group",
           "count projects", "check limit", "select member", "select invite",
           "select project"} \subseteq Statements
      BY DEF Statements
    <3>4. CASE \/ UpdateGroup(r) \/ CountLinkedProjects(r) \/ DeleteGroup(r) \/ CascadeDone(r)
               \/ CheckInviteRateLimit(r) \/ InsertInvite(r) \/ RecordInviteAttempt(r)
               \/ SelectOwnMembership(r) \/ InsertMember(r) \/ CheckReference(r)
               \/ \E x \in Rows : CascadeRow(r, x)
      BY <3>3, <3>4
         DEF UpdateGroup, CountLinkedProjects, DeleteGroup, CascadeDone,
             CheckInviteRateLimit, InsertInvite, RecordInviteAttempt, SelectOwnMembership,
             InsertMember, CheckReference, CascadeRow, Ready, AtStatement
    <3>5. CASE \/ MarkConsumed(r) \/ SelectInvite(r) \/ MarkRevoked(r) \/ DeleteMember(r)
               \/ SelectNewOwner(r) \/ Demote(r) \/ Promote(r) \/ OneOwner(r)
               \/ SelectProjectToLink(r) \/ SetGroup(r) \/ SelectProjectToUnlink(r)
               \/ ClearGroup(r) \/ CommitRequest(r)
      BY <3>3, <3>5
         DEF MarkConsumed, SelectInvite, MarkRevoked, DeleteMember, SelectNewOwner, Demote,
             Promote, OneOwner, SelectProjectToLink, SetGroup, SelectProjectToUnlink,
             ClearGroup, CommitRequest, Ready, AtStatement
    <3> QED
      BY <1>5, <3>1, <3>2, <3>4, <3>5 DEF Proceed
  <2>2. Fits(req[r])
    BY <2>1, AtItsStatement
  <2>3. CASE InsertInvite(r) \/ CheckReference(r)
    <3>1. req[r].pc \in {"insert invite", "reference"}
      BY <2>3 DEF InsertInvite, CheckReference, Ready, AtStatement
    <3>2. \E next : Goto(r, next)
      BY <1>1, <2>3 DEF InsertInvite, CheckReference
    <3> QED
      BY <1>3, <2>1, <3>1, <3>2 DEF Past
  <2>4. CASE \E x \in Rows : CascadeRow(r, x)
    BY <2>4 DEF CascadeRow
  <2>5. ~InsertMember(r) /\ ~SetGroup(r)
    <3>1. InsertMember(r) => req[r].op = "accept_invite" /\ Goto(r, "reference")
      BY <1>1, <2>2, StatementOf DEF InsertMember, Ready, AtStatement
    <3>2. SetGroup(r) => req[r].op = "link_project" /\ Goto(r, "reference")
      BY <1>1, <2>2, StatementOf DEF SetGroup, Ready, AtStatement
    <3> QED
      BY <1>3, <2>1, <3>1, <3>2
  <2>6. ~SelectNewOwner(r)
    <3>1. \A role : req' # [req EXCEPT ![r] = Confirm(@, role)]
      <4>1. \A role : Confirm(req[r], role).pc = "demote"
        BY DEF Confirm
      <4> QED
        BY <1>01, <1>02, <4>1
    <3> QED
      BY <1>1, <3>1 DEF SelectNewOwner
  <2>7. \A next \in {"commit", "delete group", "cascade", "insert member", "mark revoked",
                     "promote", "one owner", "set group", "clear group"} : ~Goto(r, next)
    BY <1>3, <2>1
  <2>8. ~(\/ UpdateGroup(r) \/ CountLinkedProjects(r) \/ DeleteGroup(r) \/ CascadeDone(r)
          \/ RecordInviteAttempt(r) \/ SelectOwnMembership(r) \/ MarkConsumed(r)
          \/ SelectInvite(r) \/ MarkRevoked(r))
    BY <1>1, <2>7
       DEF UpdateGroup, CountLinkedProjects, DeleteGroup, CascadeDone, RecordInviteAttempt,
           SelectOwnMembership, MarkConsumed, SelectInvite, MarkRevoked
  <2>9. ~(\/ DeleteMember(r) \/ Demote(r) \/ Promote(r) \/ OneOwner(r)
          \/ SelectProjectToLink(r) \/ SelectProjectToUnlink(r) \/ ClearGroup(r)
          \/ CommitRequest(r) \/ DeadlockVictim(r))
    BY <1>1, <2>7
       DEF DeleteMember, Demote, Promote, OneOwner, SelectProjectToLink,
           SelectProjectToUnlink, ClearGroup, CommitRequest, DeadlockVictim
  <2>10. ~Respond(r)
    BY <1>03 DEF Respond
  <2> QED
    BY <1>5, <2>3, <2>4, <2>5, <2>6, <2>8, <2>9, <2>10 DEF Proceed
<1> QED
  BY <1>4, <1>5

(* A call gets past the check while fewer attempts than the limit are      *)
(* recorded.                                                               *)
LEMMA CheckedBurst ==
  ASSUME TransactionInv, TypeOK', BurstInv, NEW r \in Reqs, CheckInviteRateLimit(r),
         NEW g \in Groups, NEW u \in Users
  PROVE  attempts'[g][u] + Cardinality(PastCheck(g, u)') < InviteMax + Cardinality(Reqs)
<1>1. attempts' = attempts /\ req[r].pc = "check limit" /\ TypeOK
  BY DEF CheckInviteRateLimit, AtStatement, TransactionInv
<1>2. req[r].pc \in Statements
  BY <1>1 DEF Statements
<1>3. PICK n \in Nat : n = attempts[g][u] /\ n = attempts'[g][u]
  BY <1>1 DEF TypeOK
<1>4. OthersStay(r)
  BY <1>1, OthersAreLeftAlone DEF Proceed
<1>5. CASE Past(req'[r], g, u)
  <2>1. Goto(r, "insert invite") /\ attempts[req[r].group][req[r].user] < InviteMax
    BY <1>1, <1>5, ReplyMoves DEF CheckInviteRateLimit, Past
  <2>2. req[r].group = g /\ req[r].user = u
    BY <1>1, <1>2, <1>5, <2>1, GotoMoves DEF Past
  <2>3. n < InviteMax
    BY <1>3, <2>1, <2>2
  <2> QED
    BY <1>3, <2>3, CountedPast
<1>6. CASE ~Past(req'[r], g, u)
  <2>1. \A q \in Reqs : Past(req'[q], g, u) => Past(req[q], g, u)
    BY <1>4, <1>6 DEF OthersStay
  <2>2. attempts'[g][u] <= attempts[g][u]
    BY <1>3
  <2> QED
    BY <1>1, <2>1, <2>2, NoMoreAttempts
<1> QED
  BY <1>5, <1>6

(* Recording an attempt takes one call from those past the check.          *)
LEMMA RecordedBurst ==
  ASSUME TransactionInv, TypeOK', BurstInv, NEW r \in Reqs, RecordInviteAttempt(r),
         NEW g \in Groups, NEW u \in Users
  PROVE  attempts'[g][u] + Cardinality(PastCheck(g, u)') < InviteMax + Cardinality(Reqs)
<1>1. /\ req[r].pc = "record" /\ Goto(r, "commit") /\ TypeOK
      /\ attempts' = [attempts EXCEPT ![req[r].group][req[r].user] = @ + 1]
  BY DEF RecordInviteAttempt, AtStatement, TransactionInv
<1>2. req[r].pc \in Statements
  BY <1>1 DEF Statements
<1>3. req[r].op = "create_invite" /\ req[r].group \in Groups /\ req[r].user \in Users
  BY <1>1, <1>2, AtItsStatement, StatementOf
<1>4. OthersStay(r) /\ req'[r].pc = "commit"
  BY <1>1, <1>2, GotoMoves DEF OthersStay
<1>5. PICK n \in Nat : n = attempts[g][u]
  BY <1>1 DEF TypeOK
<1>6. CASE req[r].group = g /\ req[r].user = u
  <2>1. r \in PastCheck(g, u)
    BY <1>1, <1>3, <1>6 DEF PastCheck, Past
  <2>2. PastCheck(g, u)' = PastCheck(g, u) \ {r}
    BY <1>4 DEF PastCheck, Past, OthersStay
  <2>3. Cardinality(PastCheck(g, u)') = Cardinality(PastCheck(g, u)) - 1
    BY <2>1, <2>2, CountedPast, FS_RemoveElement
  <2>4. attempts'[g][u] = n + 1
    BY <1>1, <1>5, <1>6 DEF TypeOK
  <2>5. n + Cardinality(PastCheck(g, u)) < InviteMax + Cardinality(Reqs)
    BY <1>5 DEF BurstInv
  <2> QED
    BY <2>3, <2>4, <2>5, CountedPast
<1>7. CASE ~(req[r].group = g /\ req[r].user = u)
  <2>1. attempts'[g][u] = attempts[g][u]
    BY <1>1, <1>3, <1>7 DEF TypeOK
  <2>2. \A q \in Reqs : Past(req'[q], g, u) => Past(req[q], g, u)
    BY <1>4 DEF OthersStay, Past
  <2> QED
    BY <1>1, <1>5, <2>1, <2>2, NoMoreAttempts
<1> QED
  BY <1>6, <1>7

(* Every other step records no attempt.                                    *)
LEMMA WhoRecords ==
  ASSUME TypeOK, NEW r \in Reqs, Arrive(r) \/ Proceed(r), ~RecordInviteAttempt(r),
         NEW g \in Groups, NEW u \in Users
  PROVE  attempts'[g][u] <= attempts[g][u]
<1>1. attempts[g][u] \in Nat
  BY DEF TypeOK
<1>2. ASSUME attempts' = attempts PROVE attempts'[g][u] <= attempts[g][u]
  BY <1>1, <1>2
<1>3. \A s : Fail(s) => attempts' = attempts
  BY DEF Fail
<1>4. CASE Arrive(r)
  <2>1. \A o, h, v, a, next : RequireOwner(r, o, h, v, a, next) => attempts' = attempts
    BY DEF RequireOwner
  <2>2. ASSUME NEW h \in Groups, NEW v \in Users, Create(r, h, v)
        PROVE  attempts'[g][u] <= attempts[g][u]
    <3>1. attempts' = [attempts EXCEPT ![h] = [w \in Users |-> 0]]
      BY <2>2 DEF Create
    <3>2. attempts'[g][u] \in {0, attempts[g][u]}
      BY <3>1 DEF TypeOK
    <3> QED
      BY <1>1, <3>2
  <2>3. \A h, v : BeginLeave(r, h, v) \/ BeginAcceptInvite(r, h, v) => attempts' = attempts
    BY DEF BeginLeave, BeginAcceptInvite
  <2> QED
    BY <1>2, <1>4, <2>1, <2>2, <2>3
       DEF Arrive, BeginRename, BeginDelete, BeginRemoveMember, BeginTransfer,
           BeginCreateInvite, BeginRevokeInvite, BeginLinkProject, BeginUnlinkProject
<1>5. CASE Proceed(r)
  <2>1. CASE \/ UpdateGroup(r) \/ CountLinkedProjects(r) \/ DeleteGroup(r) \/ CascadeDone(r)
             \/ CheckInviteRateLimit(r) \/ InsertInvite(r)
             \/ SelectOwnMembership(r) \/ InsertMember(r) \/ CheckReference(r)
             \/ \E x \in Rows : CascadeRow(r, x)
    BY <1>2, <1>3, <2>1
       DEF UpdateGroup, CountLinkedProjects, DeleteGroup, CascadeDone, CheckInviteRateLimit,
           InsertInvite, SelectOwnMembership, InsertMember, CheckReference, CascadeRow
  <2>2. CASE \/ MarkConsumed(r) \/ SelectInvite(r) \/ MarkRevoked(r) \/ DeleteMember(r)
             \/ SelectNewOwner(r) \/ Demote(r) \/ Promote(r) \/ OneOwner(r)
    BY <1>2, <1>3, <2>2
       DEF MarkConsumed, SelectInvite, MarkRevoked, DeleteMember, SelectNewOwner, Demote,
           Promote, OneOwner
  <2>3. CASE \/ SelectProjectToLink(r) \/ SetGroup(r) \/ SelectProjectToUnlink(r)
             \/ ClearGroup(r) \/ CommitRequest(r) \/ DeadlockVictim(r) \/ Respond(r)
    BY <1>2, <1>3, <2>3
       DEF SelectProjectToLink, SetGroup, SelectProjectToUnlink, ClearGroup, CommitRequest,
           DeadlockVictim, Respond
  <2> QED
    BY <1>5, <2>1, <2>2, <2>3 DEF Proceed
<1> QED
  BY <1>4, <1>5

(* Every step keeps the attempts below the bound.                          *)
LEMMA BurstStep ==
  ASSUME TransactionInv, BurstInv, [Next]_vars
  PROVE  BurstInv'
<1>0. TypeOK /\ TypeOK'
  BY TypeStep DEF TransactionInv
<1> SUFFICES ASSUME NEW g \in Groups, NEW u \in Users
             PROVE  attempts'[g][u] + Cardinality(PastCheck(g, u)')
                      < InviteMax + Cardinality(Reqs)
  BY DEF BurstInv
<1>1. attempts[g][u] \in Nat
  BY <1>0 DEF TypeOK
<1>2. ASSUME attempts'[g][u] <= attempts[g][u],
             \A q \in Reqs : Past(req'[q], g, u) => Past(req[q], g, u)
      PROVE  attempts'[g][u] + Cardinality(PastCheck(g, u)') < InviteMax + Cardinality(Reqs)
  BY <1>0, <1>2, NoMoreAttempts
<1>3. ASSUME NEW r \in Reqs, Arrive(r) \/ Proceed(r)
      PROVE  attempts'[g][u] + Cardinality(PastCheck(g, u)') < InviteMax + Cardinality(Reqs)
  <2>1. CASE CheckInviteRateLimit(r)
    BY <1>0, <2>1, CheckedBurst
  <2>2. CASE RecordInviteAttempt(r)
    BY <1>0, <2>2, RecordedBurst
  <2>3. CASE ~CheckInviteRateLimit(r) /\ ~RecordInviteAttempt(r)
    <3>1. attempts'[g][u] <= attempts[g][u]
      BY <1>0, <1>3, <2>3, WhoRecords
    <3>2. Past(req'[r], g, u) => Past(req[r], g, u)
      BY <1>3, <2>3, WhoGetsPast
    <3>3. OthersStay(r)
      BY <1>0, <1>3, OthersAreLeftAlone
    <3> QED
      BY <1>2, <3>1, <3>2, <3>3 DEF OthersStay
  <2> QED
    BY <2>1, <2>2, <2>3
<1>4. ASSUME NEW h \in Groups, NEW v \in Users, AttemptAges(h, v)
      PROVE  attempts'[g][u] + Cardinality(PastCheck(g, u)') < InviteMax + Cardinality(Reqs)
  <2>1. attempts' = [attempts EXCEPT ![h][v] = @ - 1] /\ req' = req
    BY <1>4 DEF AttemptAges
  <2>2. attempts'[g][u] \in {attempts[g][u], attempts[g][u] - 1}
    BY <1>0, <2>1 DEF TypeOK
  <2> QED
    BY <1>1, <1>2, <2>1, <2>2
<1>5. CASE Restart
  <2>1. attempts'[g][u] = 0 /\ \A q \in Reqs : req'[q] = Idle
    BY <1>5 DEF Restart
  <2>2. Idle.pc = "idle"
    BY DEF Idle, Blank
  <2>3. \A q \in Reqs : ~Past(req'[q], g, u)
    BY <2>1, <2>2 DEF Past
  <2> QED
    BY <1>1, <1>2, <2>1, <2>3
<1>6. CASE (\E i \in Invites : InviteExpires(i)) \/ ProjectStep \/ UNCHANGED vars
  <2>1. attempts' = attempts /\ req' = req
    BY <1>6 DEF InviteExpires, ProjectStep, CreateProject, DeleteProject, vars
  <2> QED
    BY <1>1, <1>2, <2>1
<1> QED
  BY <1>3, <1>4, <1>5, <1>6 DEF Next, Tick

(* Calls that check the limit before any of them has recorded its attempt  *)
(* get past it together, but the recorded attempts of a user for a group   *)
(* never reach the limit plus the number of calls the server works on at   *)
(* the same time.                                                          *)
THEOREM InviteBurstIsBounded == Spec => []InviteBurstBound
<1>1. Init => TransactionInv /\ BurstInv
  BY TransactionInit, BurstInit
<1>2. TransactionInv /\ BurstInv /\ [Next]_vars => (TransactionInv /\ BurstInv)'
  BY TransactionStep, BurstStep
<1>3. TransactionInv /\ BurstInv => InviteBurstBound
  <2> SUFFICES ASSUME TransactionInv, BurstInv, NEW g \in Groups, NEW u \in Users
               PROVE  attempts[g][u] < InviteMax + Cardinality(Reqs)
    BY DEF InviteBurstBound
  <2>1. attempts[g][u] \in Nat
    BY DEF TransactionInv, TypeOK
  <2>2. attempts[g][u] + Cardinality(PastCheck(g, u)) < InviteMax + Cardinality(Reqs)
    BY DEF BurstInv
  <2> QED
    BY <2>1, <2>2, CountedPast
<1> QED
  BY <1>1, <1>2, <1>3, PTL DEF Spec

-----------------------------------------------------------------------------
(* One request at a time.  What holds only when nothing overlaps: the      *)
(* checks of a method are then still true when its statements run.         *)

(* The server works on one request, and projects with links are not        *)
(* deleted under it.                                                       *)
Serial == (\A r, s \in Reqs : r = s) /\ "delete_project" \notin Ops

OwnersMethods == {"rename", "delete", "create_invite", "revoke_invite", "remove_member",
                  "transfer_ownership", "link_project", "unlink_project"}

(* What a lone call r has checked is so until it ends.                     *)
Sure(r, c) ==
  /\ c.op \in OwnersMethods => db[Member(c.group, c.user)] = "owner"
  /\ c.op = "accept_invite" =>
       /\ db[Invite(c.arg)] = "pending"
       /\ c.pc # "select member" => db[Member(c.group, c.user)] = Absent
  /\ c.op = "delete" /\ c.pc # "count projects" => LinkedProjects(c.group) = {}
  /\ c.op = "link_project" /\ c.pc # "select project" => db[Project(c.arg)] = Unlinked
  /\ c.op = "unlink_project" /\ c.pc # "select project" => db[Project(c.arg)] = c.group
  /\ c.op = "transfer_ownership" /\ c.pc \in {"promote", "one owner"} =>
       Mine(r, Member(c.group, c.user))

KnownSure(r) == Under(req[r]) => Sure(r, req[r])

SerialInv == /\ Serial /\ TransactionInv /\ OneOwnerInv /\ NoServerError
             /\ \A r \in Reqs : KnownSure(r)

(* A lone request waits for nobody.                                        *)
LEMMA Alone ==
  ASSUME SerialInv, NEW r \in Reqs, NEW x \in Rows
  PROVE  /\ lock[x] \in {r, NoReq} /\ Writers(r, x) = {} /\ Holders(r, x) = {}
         /\ Deleters(r, x) = {}
<1>1. lock[x] \in Reqs \union {NoReq} /\ share[x] \in SUBSET Reqs
  BY DEF SerialInv, TransactionInv, TypeOK, StoreType
<1>2. lock[x] \in {r, NoReq} /\ share[x] \subseteq {r}
  BY <1>1 DEF SerialInv, Serial
<1> QED
  BY <1>2 DEF Writers, Holders, Deleters

(* So it is no victim of a deadlock.                                       *)
LEMMA NoDeadlock ==
  ASSUME SerialInv, NEW r \in Reqs
  PROVE  ~DeadlockVictim(r)
<1> SUFFICES Blockers(r) = {}
  BY DEF DeadlockVictim, Deadlocked
<1>1. CASE req[r].pc \notin Statements
  BY <1>1 DEF Blockers, Statements
<1>2. CASE req[r].pc \in Statements
  <2> DEFINE g == req[r].group
             u == req[r].user
             a == req[r].arg
  <2>1. /\ Fits(req[r]) /\ g \in Groups /\ u \in Users /\ a \in ArgOf(req[r].op)
        /\ GroupRow(g) \in Rows /\ Member(g, u) \in Rows
    BY <1>2, AtItsStatement DEF SerialInv
  <2>2. /\ Writers(r, GroupRow(g)) = {} /\ Holders(r, GroupRow(g)) = {}
        /\ Deleters(r, GroupRow(g)) = {} /\ Writers(r, Member(g, u)) = {}
    BY <2>1, Alone
  <2>3. /\ req[r].pc \in {"promote", "delete member", "one owner"} => a \in Users
        /\ req[r].pc \in {"mark consumed", "mark revoked"} => a \in Invites
        /\ req[r].pc \in {"set group", "clear group"} => a \in Projects
    BY <2>1, StatementOf DEF ArgOf
  <2>4. /\ req[r].pc \in {"promote", "delete member"} => Writers(r, Member(g, a)) = {}
        /\ req[r].pc \in {"mark consumed", "mark revoked"} => Writers(r, Invite(a)) = {}
        /\ req[r].pc \in {"set group", "clear group"} => Writers(r, Project(a)) = {}
    BY <2>1, <2>3, RowTypes, Alone
  <2>5. CascadeBlockers(r, g) = {}
    <3>1. \A x \in CascadeRows(r, g) : Writers(r, x) = {}
      BY <2>1, ChildRows, Alone DEF CascadeRows
    <3> QED
      BY <3>1 DEF CascadeBlockers
  <2>6. OwnerRivals(r, g, a) = {}
    <3>1. \A v \in Users : Writers(r, Member(g, v)) = {}
      BY <2>1, RowTypes, Alone
    <3> QED
      BY <3>1 DEF OwnerRivals
  <2> HIDE DEF g, u, a
  <2>7. Blockers(r) \in {Writers(r, GroupRow(g)), Holders(r, GroupRow(g)),
                         CascadeBlockers(r, g), Deleters(r, GroupRow(g)),
                         Writers(r, Member(g, u)), OwnerRivals(r, g, a), {}}
                        \/ req[r].pc \in {"promote", "delete member", "mark consumed",
                                          "mark revoked", "set group", "clear group"}
    BY DEF Blockers, g, u, a
  <2>8. req[r].pc \in {"promote", "delete member", "mark consumed", "mark revoked",
                       "set group", "clear group"} => Blockers(r) = {}
    BY <2>4 DEF Blockers, g, a
  <2> QED
    BY <2>2, <2>5, <2>6, <2>7, <2>8
<1> QED
  BY <1>1, <1>2

(* Its group is there.                                                     *)
LEMMA GroupIsThere ==
  ASSUME SerialInv, NEW r \in Reqs, req[r].pc \in Statements,
         req[r].op \in OwnersMethods \union {"accept_invite"}
  PROVE  db[GroupRow(req[r].group)] # Absent
<1>1. /\ req[r].group \in Groups /\ req[r].user \in Users /\ req[r].arg \in ArgOf(req[r].op)
      /\ Fits(req[r])
  BY AtItsStatement DEF SerialInv
<1>2. Sure(r, req[r])
  BY DEF SerialInv, KnownSure, Under
<1>3. KnownGroup(req[r].group)
  BY <1>1 DEF SerialInv, TransactionInv
<1>4. CASE req[r].op \in OwnersMethods
  <2>1. Member(req[r].group, req[r].user) \in Rows
        /\ Member(req[r].group, req[r].user) \in Children(req[r].group)
    BY <1>1, RowTypes, ChildRows
  <2>2. db[Member(req[r].group, req[r].user)] # Absent
    BY <1>2, <1>4 DEF Sure, Absent
  <2> QED
    BY <1>3, <2>1, <2>2 DEF KnownGroup, Refers
<1>5. CASE req[r].op = "accept_invite"
  <2>1. req[r].arg \in Invites /\ InviteGroup[req[r].arg] = req[r].group
    BY <1>1, <1>5 DEF ArgOf, Fits
  <2>2. Invite(req[r].arg) \in Rows /\ Invite(req[r].arg) \in Children(req[r].group)
    BY <1>1, <2>1, RowTypes, ChildRows
  <2>3. db[Invite(req[r].arg)] # Absent
    BY <1>2, <1>5 DEF Sure, Absent
  <2> QED
    BY <1>3, <2>2, <2>3 DEF KnownGroup, Refers
<1> QED
  BY <1>4, <1>5

(* The statements on which a method decides how it goes on.                *)
Deciding == {"select member", "count projects", "select project"}

GoesOn(r) ==
  /\ req[r].pc \in Statements \ Deciding /\ db' = db
  /\ \E next \in Statements \ {"promote", "one owner"} : Goto(r, next)

Answers(r) == \E s \in Statuses \ {ServerError} : Reply(r, s)

(* The row of an early statement is found as it is committed.              *)
LEMMA FindsItsRow ==
  ASSUME SerialInv, NEW r \in Reqs
  PROVE  /\ req[r].pc = "update group" => Found(r, GroupRow(req[r].group)) # Absent
         /\ req[r].pc = "reference" => Found(r, GroupRow(req[r].group)) # Absent
         /\ req[r].pc = "delete group" => LinkedProjects(req[r].group) = {}
         /\ req[r].pc = "insert member" =>
              Found(r, Member(req[r].group, req[r].user)) = Absent
         /\ req[r].pc \in {"set group", "clear group"} =>
              Found(r, Project(req[r].arg)) # Absent
<1> SUFFICES ASSUME req[r].pc \in {"update group", "reference", "delete group",
                                   "insert member", "set group", "clear group"}
             PROVE  /\ req[r].pc = "update group" => Found(r, GroupRow(req[r].group)) # Absent
                    /\ req[r].pc = "reference" => Found(r, GroupRow(req[r].group)) # Absent
                    /\ req[r].pc = "delete group" => LinkedProjects(req[r].group) = {}
                    /\ req[r].pc = "insert member" =>
                         Found(r, Member(req[r].group, req[r].user)) = Absent
                    /\ req[r].pc \in {"set group", "clear group"} =>
                         Found(r, Project(req[r].arg)) # Absent
  OBVIOUS
<1>1. req[r].pc \in Statements /\ TransactionInv
  BY DEF Statements, SerialInv
<1>2. /\ Fits(req[r]) /\ req[r].group \in Groups /\ req[r].arg \in ArgOf(req[r].op)
      /\ GroupRow(req[r].group) \in Rows /\ Member(req[r].group, req[r].user) \in Rows
  BY <1>1, AtItsStatement
<1>3. Sure(r, req[r])
  BY <1>1 DEF SerialInv, KnownSure, Under
<1>4. CASE req[r].pc = "update group"
  <2>1. req[r].op = "rename" /\ req[r].pc \in Early
    BY <1>2, <1>4, StatementOf DEF Early
  <2>2. db[GroupRow(req[r].group)] # Absent
    BY <1>1, <2>1, GroupIsThere DEF OwnersMethods
  <2> QED
    BY <1>1, <1>2, <1>4, <2>1, <2>2, EarlyFound
<1>5. CASE req[r].pc = "reference"
  <2>1. req[r].op \in {"create_invite", "accept_invite", "link_project"}
    BY <1>2, <1>5, StatementOf
  <2>2. db[GroupRow(req[r].group)] # Absent
    BY <1>1, <2>1, GroupIsThere DEF OwnersMethods
  <2>3. lock[GroupRow(req[r].group)] # r
    BY <1>1, <1>2, <2>1, GroupHolder
  <2> QED
    BY <1>5, <2>2, <2>3 DEF Found
<1>6. CASE req[r].pc = "delete group"
  BY <1>2, <1>3, <1>6, StatementOf DEF Sure
<1>7. CASE req[r].pc = "insert member"
  <2>1. req[r].op = "accept_invite" /\ req[r].pc \in Early
    BY <1>2, <1>7, StatementOf DEF Early
  <2> QED
    BY <1>1, <1>2, <1>3, <1>7, <2>1, EarlyFound DEF Sure
<1>8. CASE req[r].pc \in {"set group", "clear group"}
  <2>1. /\ req[r].op \in {"link_project", "unlink_project"} /\ req[r].pc \in Early
        /\ req[r].pc = "set group" => req[r].op = "link_project"
        /\ req[r].pc = "clear group" => req[r].op = "unlink_project"
    BY <1>2, <1>8, StatementOf DEF Early
  <2>2. Project(req[r].arg) \in Rows
    BY <1>2, <2>1, RowTypes DEF ArgOf
  <2>3. db[Project(req[r].arg)] # Absent
    <3>1. Unlinked # Absent /\ Absent \notin Groups
      BY GroupsAssumption DEF Unlinked, Absent
    <3> QED
      BY <1>2, <1>3, <1>8, <2>1, <3>1 DEF Sure
  <2> QED
    BY <1>1, <1>8, <2>1, <2>2, <2>3, EarlyFound
<1> QED
  BY <1>4, <1>5, <1>6, <1>7, <1>8

(* The statements whose error path a lone request does not take.           *)
LEMMA PlainStatements ==
  ASSUME SerialInv, NEW r \in Reqs,
         \/ UpdateGroup(r) \/ DeleteGroup(r) \/ InsertInvite(r) \/ InsertMember(r)
         \/ CheckReference(r) \/ MarkConsumed(r) \/ MarkRevoked(r) \/ DeleteMember(r)
         \/ SetGroup(r) \/ ClearGroup(r) \/ CascadeDone(r) \/ CheckInviteRateLimit(r)
         \/ RecordInviteAttempt(r) \/ SelectInvite(r)
  PROVE  GoesOn(r) \/ Answers(r)
<1>1. \A x, v : Write(r, x, v) \/ Update(r, x, v) => db' = db
  BY DEF Write, Update
<1>2. UNCHANGED store => db' = db
  BY DEF store
<1>3. 404 \in Statuses \ {ServerError} /\ 429 \in Statuses \ {ServerError}
  BY DEF Statuses, ServerError
<1>4. CASE \/ UpdateGroup(r) \/ DeleteGroup(r) \/ InsertMember(r) \/ SetGroup(r)
           \/ ClearGroup(r)
  BY <1>1, <1>4, FindsItsRow
     DEF UpdateGroup, DeleteGroup, InsertMember, SetGroup, ClearGroup, Ready, AtStatement,
         GoesOn, Statements, Deciding
<1>5. CASE CheckReference(r)
  <2>1. AfterReference(req[r].op) \in {"record", "mark consumed", "commit"}
    BY DEF AfterReference
  <2> QED
    BY <1>5, <2>1, FindsItsRow
       DEF CheckReference, Ready, AtStatement, GoesOn, Statements, Deciding
<1>6. CASE InsertInvite(r) \/ MarkConsumed(r) \/ MarkRevoked(r) \/ DeleteMember(r)
  BY <1>1, <1>6
     DEF InsertInvite, MarkConsumed, MarkRevoked, DeleteMember, Ready, AtStatement,
         GoesOn, Statements, Deciding
<1>7. CASE CascadeDone(r) \/ RecordInviteAttempt(r)
  BY <1>2, <1>7
     DEF CascadeDone, RecordInviteAttempt, AtStatement, GoesOn, Statements, Deciding
<1>8. CASE CheckInviteRateLimit(r) \/ SelectInvite(r)
  BY <1>2, <1>3, <1>8
     DEF CheckInviteRateLimit, SelectInvite, AtStatement, GoesOn, Answers, Statements, Deciding
<1> QED
  BY <1>4, <1>5, <1>6, <1>7, <1>8

(* What is left of a step of r: a call that is sure of its checks, or an   *)
(* answer that is no error.                                                *)
Outcome(r) == \/ Under(req'[r]) /\ Sure(r, req[r])'
              \/ ~Under(req'[r]) /\ req'[r].status # ServerError

(* A call that goes on is as sure as it was, if the statement it leaves    *)
(* checked what the next ones rely on.                                     *)
LEMMA SureStays ==
  ASSUME SerialInv, NEW r \in Reqs, req[r].pc \in Statements, NEW next \in Statements,
         Goto(r, next), db' = db,
         req[r].op = "accept_invite" /\ req[r].pc = "select member" =>
           db[Member(req[r].group, req[r].user)] = Absent,
         req[r].op = "delete" /\ req[r].pc = "count projects" =>
           LinkedProjects(req[r].group) = {},
         req[r].op = "link_project" /\ req[r].pc = "select project" =>
           db[Project(req[r].arg)] = Unlinked,
         req[r].op = "unlink_project" /\ req[r].pc = "select project" =>
           db[Project(req[r].arg)] = req[r].group,
         next \in {"promote", "one owner"} => Mine(r, Member(req[r].group, req[r].user))'
  PROVE  Outcome(r)
<1> DEFINE c == req[r]
<1>1. Sure(r, c)
  BY DEF SerialInv, KnownSure, Under
<1>2. TypeOK
  BY DEF SerialInv, TransactionInv
<1>3. PICK d : d = req'[r]
  OBVIOUS
<1>4. d.op = c.op /\ d.group = c.group /\ d.user = c.user /\ d.arg = c.arg /\ d.pc = next
  BY <1>2, <1>3, GotoMoves
<1>5. LinkedProjects(c.group)' = LinkedProjects(c.group) \/ c.op # "delete"
  <2>1. {p \in Projects : db'[Project(p)] = d.group} = {p \in Projects : db[Project(p)] = c.group}
    BY <1>4
  <2> QED
    BY <1>3, <2>1 DEF LinkedProjects
<1> QED
  BY <1>1, <1>3, <1>4, <1>5 DEF Outcome, Under, Sure

(* The plain statements keep a call sure.                                  *)
LEMMA GoingOnIsSure ==
  ASSUME SerialInv, NEW r \in Reqs, GoesOn(r)
  PROVE  Outcome(r)
<1>1. PICK next \in Statements \ {"promote", "one owner"} : Goto(r, next)
  BY DEF GoesOn
<1>2. req[r].pc \in Statements \ Deciding /\ db' = db
  BY DEF GoesOn
<1> QED
  BY <1>1, <1>2, SureStays DEF Deciding

(* An answer is no error.                                                  *)
LEMMA AnswerIsFine ==
  ASSUME SerialInv, NEW r \in Reqs, NEW s \in Statuses \ {ServerError}, Reply(r, s)
  PROVE  Outcome(r)
BY ReplyMoves DEF SerialInv, TransactionInv, Outcome

(* The statements a method decides on.                                     *)
LEMMA DecidingStatements ==
  ASSUME SerialInv, NEW r \in Reqs,
         \/ CountLinkedProjects(r) \/ SelectOwnMembership(r) \/ SelectNewOwner(r)
         \/ SelectProjectToLink(r) \/ SelectProjectToUnlink(r)
  PROVE  Outcome(r)
<1>1. 404 \in Statuses \ {ServerError} /\ 409 \in Statuses \ {ServerError}
  BY DEF Statuses, ServerError
<1>2. SUFFICES ASSUME \A s \in {404, 409} : ~Reply(r, s)
               PROVE  Outcome(r)
  BY <1>1, AnswerIsFine
<1>3. db' = db /\ req[r].pc \in Statements
  BY DEF CountLinkedProjects, SelectOwnMembership, SelectNewOwner, SelectProjectToLink,
         SelectProjectToUnlink, store, AtStatement, Statements
<1>4. Fits(req[r])
  BY <1>3, AtItsStatement DEF SerialInv
<1>5. CASE CountLinkedProjects(r)
  <2>1. /\ req[r].pc = "count projects" /\ Goto(r, "delete group")
        /\ LinkedProjects(req[r].group) = {} /\ "delete group" \in Statements
    BY <1>2, <1>5 DEF CountLinkedProjects, AtStatement, Statements
  <2> QED
    BY <1>3, <2>1, SureStays
<1>6. CASE SelectOwnMembership(r)
  <2>1. /\ req[r].pc = "select member" /\ Goto(r, "insert member")
        /\ db[Member(req[r].group, req[r].user)] = Absent /\ "insert member" \in Statements
    BY <1>2, <1>6 DEF SelectOwnMembership, AtStatement, Statements
  <2> QED
    BY <1>3, <2>1, SureStays
<1>7. CASE SelectProjectToLink(r)
  <2>1. /\ req[r].pc = "select project" /\ req[r].op = "link_project" /\ Goto(r, "set group")
        /\ db[Project(req[r].arg)] = Unlinked /\ "set group" \in Statements
    BY <1>2, <1>7 DEF SelectProjectToLink, AtStatement, Statements
  <2> QED
    BY <1>3, <2>1, SureStays
<1>8. CASE SelectProjectToUnlink(r)
  <2>1. /\ req[r].pc = "select project" /\ req[r].op = "unlink_project"
        /\ Goto(r, "clear group")
        /\ db[Project(req[r].arg)] = req[r].group /\ "clear group" \in Statements
    BY <1>2, <1>8 DEF SelectProjectToUnlink, AtStatement, Statements
  <2> QED
    BY <1>3, <2>1, SureStays
<1>9. CASE SelectNewOwner(r)
  <2>1. /\ req[r].op = "transfer_ownership"
        /\ req' = [req EXCEPT ![r] = Confirm(@, db[Member(req[r].group, req[r].arg)])]
    BY <1>2, <1>9 DEF SelectNewOwner
  <2>2. req'[r] = Confirm(req[r], db[Member(req[r].group, req[r].arg)])
    BY <2>1 DEF SerialInv, TransactionInv, TypeOK
  <2>3. /\ req'[r].op = "transfer_ownership" /\ req'[r].group = req[r].group
        /\ req'[r].user = req[r].user /\ req'[r].pc = "demote"
    BY <2>1, <2>2 DEF Confirm
  <2>4. db[Member(req[r].group, req[r].user)] = "owner"
    BY <1>3, <2>1 DEF SerialInv, KnownSure, Under, Sure, OwnersMethods
  <2> QED
    BY <1>3, <2>3, <2>4 DEF Outcome, Under, Statements, Sure, OwnersMethods
<1> QED
  BY <1>5, <1>6, <1>7, <1>8, <1>9

(* A transfer's demotion finds the owner's row.                            *)
LEMMA DemoteIsSure ==
  ASSUME SerialInv, NEW r \in Reqs, Demote(r)
  PROVE  Outcome(r)
<1> DEFINE x == Member(req[r].group, req[r].user)
<1>1. /\ req[r].pc = "demote" /\ req[r].pc \in Statements /\ req[r].pc \in Early
      /\ Update(r, x, "member") /\ Goto(r, "promote") /\ "promote" \in Statements
  BY DEF Demote, Ready, AtStatement, Statements, Early
<1>2. x \in Rows /\ Fits(req[r]) /\ TypeOK /\ TransactionInv
  BY <1>1, AtItsStatement DEF SerialInv
<1>3. req[r].op = "transfer_ownership"
  BY <1>1, <1>2, StatementOf
<1>4. db[x] = "owner"
  BY <1>1, <1>3 DEF SerialInv, KnownSure, Under, Sure, OwnersMethods
<1>5. Found(r, x) # Absent
  BY <1>1, <1>2, <1>4, EarlyFound DEF Absent
<1>6. Write(r, x, "member")
  BY <1>1, <1>5 DEF Update
<1>7. lock'[x] = r /\ db' = db
  BY <1>2, <1>6 DEF Write, TypeOK, StoreType
<1>8. req'[r].group = req[r].group /\ req'[r].user = req[r].user
  BY <1>1, <1>2, GotoMoves
<1>9. Mine(r, x)'
  BY <1>7, <1>8 DEF Mine
<1> QED
  BY <1>1, <1>3, <1>7, <1>9, SureStays

(* Its promotion still holds that row.                                     *)
LEMMA PromoteIsSure ==
  ASSUME SerialInv, NEW r \in Reqs, Promote(r)
  PROVE  Outcome(r)
<1> DEFINE x == Member(req[r].group, req[r].user)
           y == Member(req[r].group, req[r].arg)
<1>1. PICK next \in {"commit", "one owner"} : Goto(r, next)
  BY DEF Promote
<1>2. /\ req[r].pc = "promote" /\ req[r].pc \in Statements /\ next \in Statements
      /\ Update(r, y, Found(r, y))
  BY <1>1 DEF Promote, Ready, AtStatement, Statements
<1>3. x \in Rows /\ Fits(req[r]) /\ TypeOK
  BY <1>2, AtItsStatement DEF SerialInv
<1>4. req[r].op = "transfer_ownership"
  BY <1>2, <1>3, StatementOf
<1>5. lock[x] = r
  BY <1>2, <1>4 DEF SerialInv, KnownSure, Under, Sure, Mine
<1>6. lock'[x] = r /\ db' = db
  BY <1>2, <1>3, <1>5 DEF Update, Write, TypeOK, StoreType
<1>7. req'[r].group = req[r].group /\ req'[r].user = req[r].user
  BY <1>1, <1>2, <1>3, GotoMoves
<1>8. Mine(r, x)'
  BY <1>6, <1>7 DEF Mine
<1> QED
  BY <1>1, <1>2, <1>4, <1>6, <1>8, SureStays

(* The index of the owners then lets it pass.                              *)
LEMMA OneOwnerIsSure ==
  ASSUME SerialInv, NEW r \in Reqs, OneOwner(r)
  PROVE  Outcome(r)
<1> DEFINE g == req[r].group
           u == req[r].user
           a == req[r].arg
<1>1. req[r].pc = "one owner" /\ req[r].pc \in Statements /\ "commit" \in Statements
  BY DEF OneOwner, Ready, AtStatement, Statements
<1>2. Fits(req[r]) /\ TransactionInv /\ g \in Groups /\ u \in Users /\ a \in ArgOf(req[r].op)
  BY <1>1, AtItsStatement DEF SerialInv
<1>3. req[r].op = "transfer_ownership"
  BY <1>1, <1>2, StatementOf
<1>4. a \in Users
  BY <1>2, <1>3 DEF ArgOf
<1>5. db[Member(g, u)] = "owner" /\ lock[Member(g, u)] = r
  BY <1>1, <1>3 DEF SerialInv, KnownSure, Under, Sure, Mine, OwnersMethods
<1>6. ASSUME NEW v \in Users \ {a}, Found(r, Member(g, v)) = "owner"
      PROVE  FALSE
  <2>1. CASE lock[Member(g, v)] = r
    <3>1. MemberHeld(req[r], v, db[Member(g, v)], latest[Member(g, v)])
      BY <1>2, <2>1, MemberHolder
    <3> QED
      BY <1>3, <1>6, <2>1, <3>1 DEF MemberHeld, Found
  <2>2. CASE lock[Member(g, v)] # r
    <3>1. db[Member(g, v)] = "owner" /\ v # u
      BY <1>5, <1>6, <2>2 DEF Found
    <3> QED
      BY <1>2, <1>5, <3>1 DEF SerialInv, OneOwnerInv, OwnersApart
  <2> QED
    BY <2>1, <2>2
<1>7. Write(r, Member(g, a), "owner") /\ Goto(r, "commit")
  BY <1>6 DEF OneOwner
<1>8. db' = db
  BY <1>7 DEF Write
<1> QED
  BY <1>1, <1>3, <1>7, <1>8, SureStays

(* A statement of a lone request ends well.                                *)
LEMMA ProceedIsSure ==
  ASSUME SerialInv, NEW r \in Reqs, Proceed(r)
  PROVE  Outcome(r)
<1>1. CASE DeadlockVictim(r)
  BY <1>1, NoDeadlock
<1>2. CASE \E x \in Rows : CascadeRow(r, x)
  <2>1. req[r].pc = "cascade" /\ req[r].pc \in Statements /\ db' = db /\ req' = req
    BY <1>2 DEF CascadeRow, AtStatement, Statements, Write
  <2>2. req[r].op = "delete" /\ Sure(r, req[r])
    BY <2>1, AtItsStatement, StatementOf DEF SerialInv, KnownSure, Under
  <2>3. LinkedProjects(req[r].group)' = LinkedProjects(req[r].group)
    BY <2>1 DEF LinkedProjects
  <2> QED
    BY <2>1, <2>2, <2>3 DEF Outcome, Under, Sure
<1>3. CASE CommitRequest(r)
  <2>1. Success \in Statuses \ {ServerError}
    BY DEF Success, ServerError, Statuses
  <2> QED
    BY <1>3, <2>1, AnswerIsFine DEF CommitRequest
<1>4. CASE Respond(r)
  <2>1. req'[r] = Idle
    BY <1>4 DEF Respond, SerialInv, TransactionInv, TypeOK
  <2> QED
    BY <2>1 DEF Outcome, Idle, Blank, Under, Statements, ServerError
<1>5. CASE \/ UpdateGroup(r) \/ DeleteGroup(r) \/ InsertInvite(r) \/ InsertMember(r)
           \/ CheckReference(r) \/ MarkConsumed(r) \/ MarkRevoked(r) \/ DeleteMember(r)
           \/ SetGroup(r) \/ ClearGroup(r) \/ CascadeDone(r) \/ CheckInviteRateLimit(r)
           \/ RecordInviteAttempt(r) \/ SelectInvite(r)
  BY <1>5, PlainStatements, GoingOnIsSure, AnswerIsFine DEF Answers
<1>6. CASE \/ CountLinkedProjects(r) \/ SelectOwnMembership(r) \/ SelectNewOwner(r)
           \/ SelectProjectToLink(r) \/ SelectProjectToUnlink(r)
  BY <1>6, DecidingStatements
<1>7. CASE Demote(r) \/ Promote(r) \/ OneOwner(r)
  BY <1>7, DemoteIsSure, PromoteIsSure, OneOwnerIsSure
<1> QED
  BY <1>1, <1>2, <1>3, <1>4, <1>5, <1>6, <1>7 DEF Proceed

(* A call begins sure of what its first SELECT found.                      *)
LEMMA BeginningIsSure ==
  ASSUME SerialInv, NEW r \in Reqs, NEW o, NEW g, NEW u, NEW a, NEW next \in Statements, NEW v,
         req' = [req EXCEPT ![r] = Call(o, g, u, a, next, v)], db' = db,
         o \in OwnersMethods => db[Member(g, u)] = "owner",
         o = "accept_invite" => db[Invite(a)] = "pending" /\ next = "select member",
         o = "delete" => next = "count projects",
         o \in {"link_project", "unlink_project"} => next = "select project",
         o = "transfer_ownership" => next = "select member"
  PROVE  Outcome(r)
<1>1. req'[r] = Call(o, g, u, a, next, v)
  BY DEF SerialInv, TransactionInv, TypeOK
<1>2. PICK d : d = req'[r]
  OBVIOUS
<1>3. d.op = o /\ d.group = g /\ d.user = u /\ d.arg = a /\ d.pc = next
  <2>1. d = Call(o, g, u, a, next, v)
    BY <1>1, <1>2
  <2> QED
    BY <2>1, Zenon DEF Call
<1>4. Under(d)
  BY <1>3 DEF Under
<1>5. Sure(r, req[r])'
  BY <1>2, <1>3 DEF Sure
<1> QED
  BY <1>2, <1>4, <1>5 DEF Outcome

(* A refusal is no error.                                                  *)
LEMMA RefusalIsFine ==
  ASSUME SerialInv, NEW r \in Reqs, NEW s \in {403, 404, 409, 410}, Reply(r, s)
  PROVE  Outcome(r)
<1>1. s \in Statuses \ {ServerError}
  BY StatusTypes DEF ServerError
<1> QED
  BY <1>1, AnswerIsFine

(* So do the owner's methods, or they are refused.                         *)
LEMMA RequiringIsSure ==
  ASSUME SerialInv, NEW r \in Reqs, NEW o, NEW g, NEW u, NEW a, NEW next \in Statements,
         RequireOwner(r, o, g, u, a, next), o # "accept_invite",
         o = "delete" => next = "count projects",
         o \in {"link_project", "unlink_project"} => next = "select project",
         o = "transfer_ownership" => next = "select member"
  PROVE  Outcome(r)
<1>2. CASE Reply(r, 404) \/ Reply(r, 403)
  BY <1>2, RefusalIsFine
<1>1. CASE db[Member(g, u)] = "owner" /\ Begin(r, o, g, u, a, next)
  <2>1. db' = db /\ req' = [req EXCEPT ![r] = Call(o, g, u, a, next, db[Member(g, u)])]
    BY <1>1 DEF RequireOwner, Begin, store
  <2> QED
    BY <1>1, <2>1, BeginningIsSure
<1> QED
  BY <1>1, <1>2 DEF RequireOwner

(* However a lone request arrives, it is sure of its checks.               *)
LEMMA ArriveIsSure ==
  ASSUME SerialInv, NEW r \in Reqs, Arrive(r)
  PROVE  Outcome(r)
<1>2. /\ {"update group", "count projects", "check limit", "select member", "select invite",
          "delete member", "select project", "commit"} \subseteq Statements
      /\ "commit" \in Statements /\ "delete member" \in Statements
      /\ "select member" \in Statements
      /\ "create" \notin OwnersMethods /\ "leave" \notin OwnersMethods
      /\ "accept_invite" \notin OwnersMethods
  BY DEF Statements, OwnersMethods
<1>3. ASSUME NEW g \in Groups, NEW u \in Users, Create(r, g, u)
      PROVE  Outcome(r)
  <2>1. /\ req' = [req EXCEPT ![r] = Call("create", g, u, None, "commit", db[Member(g, u)])]
        /\ db' = db
    BY <1>3 DEF Create, Begin, WriteAll
  <2> QED
    BY <1>2, <2>1, BeginningIsSure DEF OwnersMethods
<1>4. ASSUME NEW g \in Groups, NEW u \in Users, BeginLeave(r, g, u)
      PROVE  Outcome(r)
  <2>1. CASE Reply(r, 404) \/ Reply(r, 409)
    BY <2>1, RefusalIsFine
  <2>2. CASE Begin(r, "leave", g, u, u, "delete member")
    <3>1. /\ req' = [req EXCEPT ![r] = Call("leave", g, u, u, "delete member",
                                            db[Member(g, u)])]
          /\ db' = db
      BY <1>4, <2>2 DEF BeginLeave, Begin, store
    <3> QED
      BY <1>2, <3>1, BeginningIsSure DEF OwnersMethods
  <2> QED
    BY <1>4, <2>1, <2>2 DEF BeginLeave
<1>5. ASSUME NEW u \in Users, NEW i \in Invites, BeginAcceptInvite(r, u, i)
      PROVE  Outcome(r)
  <2>1. CASE Reply(r, 404) \/ Reply(r, 409) \/ Reply(r, 410)
    BY <2>1, RefusalIsFine
  <2>2. CASE /\ db[Invite(i)] = "pending"
             /\ req' = [req EXCEPT ![r] = Call("accept_invite", InviteGroup[i], u, i,
                                               "select member", Absent)]
    <3>1. db' = db
      BY <1>5 DEF BeginAcceptInvite, store
    <3> QED
      BY <1>2, <2>2, <3>1, BeginningIsSure DEF OwnersMethods
  <2> QED
    BY <1>5, <2>1, <2>2 DEF BeginAcceptInvite
<1>6. ASSUME NEW g \in Groups, NEW u \in Users,
             BeginRename(r, g, u) \/ BeginDelete(r, g, u)
      PROVE  Outcome(r)
  BY <1>2, <1>6, RequiringIsSure DEF BeginRename, BeginDelete
<1>7. ASSUME NEW g \in Groups, NEW u \in Users, NEW v \in Users,
             BeginRemoveMember(r, g, u, v) \/ BeginTransfer(r, g, u, v)
      PROVE  Outcome(r)
  BY <1>2, <1>7, RequiringIsSure DEF BeginRemoveMember, BeginTransfer
<1>8. ASSUME NEW g \in Groups, NEW u \in Users, NEW i \in Invites,
             BeginCreateInvite(r, g, u, i) \/ BeginRevokeInvite(r, g, u, i)
      PROVE  Outcome(r)
  BY <1>2, <1>8, RequiringIsSure DEF BeginCreateInvite, BeginRevokeInvite
<1>9. ASSUME NEW g \in Groups, NEW u \in Users, NEW p \in Projects,
             BeginLinkProject(r, g, u, p) \/ BeginUnlinkProject(r, g, u, p)
      PROVE  Outcome(r)
  BY <1>2, <1>9, RequiringIsSure DEF BeginLinkProject, BeginUnlinkProject
<1> QED
  BY <1>3, <1>4, <1>5, <1>6, <1>7, <1>8, <1>9 DEF Arrive

(* Nothing is going on at first.                                           *)
LEMMA SerialInit == Serial /\ Init => SerialInv
<1> SUFFICES ASSUME Serial, Init PROVE SerialInv
  OBVIOUS
<1>1. \A r \in Reqs : req[r].pc = "idle" /\ req[r].status = 0
  BY DEF Init, Idle, Blank
<1>2. \A r \in Reqs : ~Under(req[r])
  BY <1>1 DEF Under, Statements
<1>3. \A r \in Reqs : req[r].status # ServerError
  BY <1>1 DEF ServerError
<1> QED
  BY <1>2, <1>3, TransactionInit, OneOwnerInit DEF SerialInv, KnownSure, NoServerError

(* A call that is under way has no status yet.                             *)
LEMMA NoStatusYet ==
  ASSUME NEW c \in Requests, Under(c)
  PROVE  c.status # ServerError
<1>1. \A p, s : Blank(p, s).pc = p
  BY DEF Blank
<1>2. c \in Calls \/ c.pc \in {"idle", "done"}
  BY <1>1 DEF Requests, Idle
<1>3. c \in Calls
  BY <1>2 DEF Under, Statements
<1> QED
  BY <1>3 DEF Calls, ServerError

(* A row of a project is created while no request is about it.             *)
LEMMA ProjectsAreApart ==
  ASSUME SerialInv, NEW p \in Projects, CreateProject(p), NEW r \in Reqs
  PROVE  KnownSure(r)'
<1> SUFFICES ASSUME Under(req[r]) PROVE Sure(r, req[r])'
  BY DEF KnownSure, CreateProject, Under
<1>1. req' = req /\ lock' = lock /\ req[r].arg # p
  BY DEF CreateProject, Replace
<1>2. Sure(r, req[r])
  BY DEF SerialInv, KnownSure
<1>3. Fits(req[r]) /\ req[r].group \in Groups /\ req[r].arg \in ArgOf(req[r].op) /\ TypeOK
  BY AtItsStatement DEF SerialInv, Under
<1>4. \A g, u, i : Member(g, u) # Project(p) /\ Invite(i) # Project(p)
  BY RowsApart
<1>5. \A q : q # p => Project(q) # Project(p)
  BY RowsApart
<1>6. \A x \in Rows : x # Project(p) => db'[x] = db[x]
  BY <1>3 DEF CreateProject, Replace, TypeOK, StoreType
<1>7. db' = [db EXCEPT ![Project(p)] = Unlinked] /\ Project(p) \in Rows
  BY RowTypes DEF CreateProject, Replace
<1>8. \A x : x # Project(p) => db'[x] = db[x]
  BY <1>7
<1>9. LinkedProjects(req[r].group)' \subseteq LinkedProjects(req[r].group)
  <2>1. db'[Project(p)] = Unlinked
    BY <1>3, <1>7 DEF TypeOK, StoreType
  <2>2. req[r].group # Unlinked
    BY <1>3, GroupsAssumption
  <2> QED
    BY <1>1, <1>5, <1>8, <2>1, <2>2 DEF LinkedProjects
<1> QED
  BY <1>1, <1>2, <1>4, <1>5, <1>8, <1>9 DEF Sure, Mine

(* One request at a time, every step keeps it all.                         *)
LEMMA SerialStep ==
  ASSUME SerialInv, [Next]_vars
  PROVE  SerialInv'
<1>1. TransactionInv' /\ OneOwnerInv' /\ Serial'
  BY TransactionStep, OneOwnerStep DEF SerialInv, TransactionInv, Serial
<1>2. SUFFICES \A r \in Reqs : KnownSure(r)' /\ req'[r].status # ServerError
  BY <1>1 DEF SerialInv, NoServerError
<1>3. ASSUME NEW q \in Reqs, Arrive(q) \/ Proceed(q)
      PROVE  \A r \in Reqs : KnownSure(r)' /\ req'[r].status # ServerError
  <2>1. Outcome(q)
    BY <1>3, ArriveIsSure, ProceedIsSure
  <2>2. req'[q] \in Requests
    BY <1>1 DEF TransactionInv, TypeOK
  <2>3. Under(req'[q]) => req'[q].status # ServerError
    BY <2>2, NoStatusYet
  <2>4. KnownSure(q)' /\ req'[q].status # ServerError
    BY <2>1, <2>3 DEF Outcome, KnownSure
  <2> QED
    BY <2>4 DEF SerialInv, Serial
<1>4. CASE UNCHANGED <<db, lock, req>>
  <2>1. \A r \in Reqs : KnownSure(r) /\ req[r].status # ServerError
    BY DEF SerialInv, NoServerError
  <2> QED
    BY <1>4, <2>1 DEF KnownSure, Sure, Mine, LinkedProjects, Under
<1>5. CASE ProjectStep
  <2>1. PICK p \in Projects : CreateProject(p)
    BY <1>5 DEF ProjectStep, DeleteProject, SerialInv, Serial
  <2> QED
    BY <2>1, ProjectsAreApart DEF CreateProject, SerialInv, NoServerError
<1>6. CASE Restart
  <2>1. \A r \in Reqs : req'[r] = Idle
    BY <1>6 DEF Restart
  <2>2. Idle.pc = "idle" /\ Idle.status = 0
    BY DEF Idle, Blank
  <2>3. \A r \in Reqs : ~Under(req'[r])
    BY <2>1, <2>2 DEF Under, Statements
  <2>4. \A r \in Reqs : req'[r].status # ServerError
    BY <2>1, <2>2 DEF ServerError
  <2> QED
    BY <2>3, <2>4 DEF KnownSure
<1> QED
  BY <1>3, <1>4, <1>5, <1>6
     DEF Next, Tick, AttemptAges, InviteExpires, store, vars

(* One request at a time is never answered with a server error: what the   *)
(* service checks first leaves no constraint of the database to be broken, *)
(* and demoting before promoting leaves room in the index of the owners.   *)
(* No project is deleted meanwhile.                                        *)
THEOREM NoErrorAlone == Serial => (Spec => []NoServerError)
<1>1. SerialInv /\ [Next]_vars => SerialInv'
  BY SerialStep
<1>2. SerialInv => NoServerError
  BY DEF SerialInv
<1>3. ASSUME Serial PROVE Spec => []NoServerError
  <2>1. Init => SerialInv
    BY <1>3, SerialInit
  <2> QED
    BY <1>1, <1>2, <2>1, PTL DEF Spec
<1> QED
  BY <1>3

(* One request at a time, an invite admits one user: the check of          *)
(* accept_invite still holds at its commit.                                *)
THEOREM InviteAdmitsOneAlone == Serial => (Spec => InviteAdmitsOne)
<1>1. SerialInv /\ [Next]_vars => SerialInv'
  BY SerialStep
<1>2. SerialInv /\ [Next]_vars =>
        [\A r \in Reqs : Committing(r) /\ req[r].op = "accept_invite"
                           => ~Consumed(db[Invite(req[r].arg)])]_vars
  <2> SUFFICES ASSUME SerialInv, [Next]_vars, NEW r \in Reqs, Committing(r),
                      req[r].op = "accept_invite"
               PROVE  ~Consumed(db[Invite(req[r].arg)])
    OBVIOUS
  <2>1. Under(req[r])
    BY DEF Committing, Under, Statements
  <2>2. db[Invite(req[r].arg)] = "pending"
    BY <2>1 DEF SerialInv, KnownSure, Sure
  <2> QED
    BY <2>2, NoMark
<1>3. ASSUME Serial PROVE Spec => InviteAdmitsOne
  <2>1. Init => SerialInv
    BY <1>3, SerialInit
  <2> QED
    BY <1>1, <1>2, <2>1, PTL DEF Spec, InviteAdmitsOne
<1> QED
  BY <1>3

(* One request at a time, a project that has a group keeps it until an     *)
(* unlink: the check of link_project still holds at its commit.            *)
THEOREM LinksStayAlone == Serial => (Spec => LinkedProjectStays)
<1>1. SerialInv /\ [Next]_vars => SerialInv'
  BY SerialStep
<1>2. SerialInv /\ [Next]_vars =>
        [\A p \in Projects : db[Project(p)] # Unlinked =>
           db'[Project(p)] \in {db[Project(p)], Unlinked, Absent}]_vars
  <2> SUFFICES ASSUME SerialInv, [Next]_vars, NEW p \in Projects, db[Project(p)] # Unlinked
               PROVE  db'[Project(p)] \in {db[Project(p)], Unlinked, Absent}
    OBVIOUS
  <2>1. TransactionInv /\ TypeOK /\ Project(p) \in Rows
    BY RowTypes DEF SerialInv, TransactionInv
  <2>2. ASSUME NEW r \in Reqs, CommitRequest(r)
        PROVE  db'[Project(p)] \in {db[Project(p)], Unlinked, Absent}
    <3>1. db'[Project(p)] = IF lock[Project(p)] = r THEN latest[Project(p)]
                            ELSE db[Project(p)]
      BY <2>1, <2>2, CommitMoves
    <3>2. CASE lock[Project(p)] = r
      <4>1. /\ Under(req[r]) /\ req[r].arg = p
            /\ \/ req[r].op = "link_project"
               \/ latest[Project(p)] = Unlinked
        BY <2>1, <3>2, ProjectHolder
      <4>2. req[r].pc = "commit"
        BY <2>2 DEF CommitRequest, AtStatement
      <4>3. req[r].op # "link_project"
        BY <4>1, <4>2 DEF SerialInv, KnownSure, Sure
      <4> QED
        BY <3>1, <3>2, <4>1, <4>3
    <3> QED
      BY <3>1, <3>2
  <2>3. ASSUME NEW q \in Projects, CreateProject(q) \/ DeleteProject(q)
        PROVE  db'[Project(p)] \in {db[Project(p)], Unlinked, Absent}
    <3>1. Project(q) \in Rows
      BY RowTypes
    <3>2. \E v \in {Unlinked, Absent} : db' = [db EXCEPT ![Project(q)] = v]
      BY <2>3 DEF CreateProject, DeleteProject, Replace
    <3> QED
      BY <2>1, <3>1, <3>2 DEF TypeOK, StoreType
  <2> QED
    BY <2>2, <2>3, WhoChangesRows DEF ProjectStep
<1>3. ASSUME Serial PROVE Spec => LinkedProjectStays
  <2>1. Init => SerialInv
    BY <1>3, SerialInit
  <2> QED
    BY <1>1, <1>2, <2>1, PTL DEF Spec, LinkedProjectStays
<1> QED
  BY <1>3
==============================================================================
