----------------------- MODULE GroupTransactionsProofs -----------------------
(***************************************************************************)
(* What every transaction of Groups knows and holds at each of its         *)
(* statements, for any number of overlapping requests: the inductive       *)
(* invariant from which the promises of the groups follow.                 *)
(***************************************************************************)
EXTENDS GroupsProofs

(* The statements each method runs, in the order they come.                *)
Course(o) ==
  CASE o = "create"             -> {"commit"}
    [] o = "rename"             -> {"update group", "commit"}
    [] o = "delete"             -> {"count projects", "delete group", "cascade", "commit"}
    [] o = "create_invite"      -> {"check limit", "insert invite", "reference", "record",
                                    "commit"}
    [] o = "accept_invite"      -> {"select member", "insert member", "reference",
                                    "mark consumed", "commit"}
    [] o = "revoke_invite"      -> {"select invite", "mark revoked", "commit"}
    [] o \in {"remove_member", "leave"} -> {"delete member", "commit"}
    [] o = "transfer_ownership" -> {"select member", "demote", "promote", "one owner",
                                    "commit"}
    [] o = "link_project"       -> {"select project", "set group", "reference", "commit"}
    [] o = "unlink_project"     -> {"select project", "clear group", "commit"}
    [] OTHER                    -> {}

Under(c) == c.pc \in Statements

(* What a call says of itself.                                             *)
Fits(c) ==
  /\ c.pc \in Course(c.op)
  /\ c.op \in {"create_invite", "accept_invite"} => InviteGroup[c.arg] = c.group
  /\ c.op = "leave" => c.seen = "member"
  /\ c.op = "transfer_ownership" /\ c.pc # "select member" => c.seenArg # Absent

(* A row that call c has written and not committed: which one it is, what  *)
(* it was before (old) and what it will be (new).                          *)
Held(c, x, old, new) ==
  \/ /\ c.op = "create" /\ c.pc = "commit" /\ old = Absent
     /\ \/ x = GroupRow(c.group) /\ new = Live
        \/ x = Member(c.group, c.user) /\ new = "owner"
  \/ /\ c.op = "rename" /\ c.pc = "commit" /\ old # Absent
     /\ x = GroupRow(c.group) /\ new = Live
  \/ /\ c.op = "delete" /\ c.pc \in {"cascade", "commit"} /\ old # Absent
     /\ x \in {GroupRow(c.group)} \union Children(c.group) /\ new = Absent
  \/ /\ c.op = "create_invite" /\ c.pc \in {"reference", "record", "commit"} /\ old = Absent
     /\ x = Invite(c.arg) /\ new = "pending"
  \/ /\ c.op = "accept_invite" /\ c.pc \in {"reference", "mark consumed", "commit"}
     /\ old = Absent /\ x = Member(c.group, c.user) /\ new = "member"
  \/ /\ c.op = "accept_invite" /\ c.pc = "commit" /\ old # Absent
     /\ x = Invite(c.arg) /\ new = Mark(old, "consumed")
  \/ /\ c.op = "revoke_invite" /\ c.pc = "commit" /\ old # Absent
     /\ x = Invite(c.arg) /\ new = Mark(old, "revoked")
  \/ /\ c.op \in {"remove_member", "leave"} /\ c.pc = "commit" /\ old # Absent
     /\ x = Member(c.group, c.arg) /\ new = Absent
  \/ /\ c.op = "transfer_ownership" /\ old # Absent
     /\ \/ /\ x = Member(c.group, c.user) /\ new = "member"
           /\ \/ c.pc \in {"promote", "one owner"}
              \/ c.pc = "commit" /\ c.user # c.arg
        \/ x = Member(c.group, c.arg) /\ c.pc = "one owner" /\ new = old
        \/ x = Member(c.group, c.arg) /\ c.pc = "commit" /\ new = "owner"
  \/ /\ c.op = "link_project" /\ c.pc \in {"reference", "commit"} /\ old # Absent
     /\ x = Project(c.arg) /\ new = c.group
  \/ /\ c.op = "unlink_project" /\ c.pc = "commit" /\ old # Absent
     /\ x = Project(c.arg) /\ new = Unlinked

HeldRow(x) == lock[x] # NoReq => Held(req[lock[x]], x, db[x], latest[x])

(* The methods whose insertion refers to a group, once it was found.       *)
Sharing(c) == /\ c.op \in {"create_invite", "accept_invite", "link_project"}
              /\ c.pc \in {"record", "mark consumed", "commit"}

(* The rows a call holds for certain, and what it relies on of others.     *)
Mine(r, x) == lock[x] = r

CreateDue(r, c) ==
  c.op = "create" => Mine(r, GroupRow(c.group)) /\ Mine(r, Member(c.group, c.user))

RenameDue(r, c) ==
  c.op = "rename" /\ c.pc = "commit" => Mine(r, GroupRow(c.group))

DeleteDue(r, c) ==
  c.op = "delete" /\ c.pc \in {"cascade", "commit"} =>
    /\ LinkedProjects(c.group) = {}
    /\ Mine(r, GroupRow(c.group)) \/ (db[GroupRow(c.group)] = Absent /\ c.pc = "commit")
    /\ c.pc = "commit" => \A x \in Children(c.group) : db[x] # Absent => Mine(r, x)

CreateInviteDue(r, c) ==
  c.op = "create_invite" =>
    IF c.pc \in {"check limit", "insert invite"}
    THEN db[Invite(c.arg)] = Absent /\ lock[Invite(c.arg)] = NoReq
    ELSE Mine(r, Invite(c.arg))

AcceptDue(r, c) ==
  c.op = "accept_invite" =>
    /\ db[GroupRow(c.group)] # Absent => db[Invite(c.arg)] # Absent
    /\ c.pc \notin {"select member", "insert member"} => Mine(r, Member(c.group, c.user))
    /\ c.pc = "commit" => Mine(r, Invite(c.arg))

RevokeDue(r, c) ==
  c.op = "revoke_invite" /\ c.pc = "commit" =>
    Mine(r, Invite(c.arg)) \/ db[Invite(c.arg)] = Absent

TransferDue(r, c) ==
  c.op = "transfer_ownership" /\ c.pc = "one owner" => Mine(r, Member(c.group, c.arg))

LinkDue(r, c) ==
  /\ c.op = "link_project" /\ c.pc \in {"reference", "commit"} => Mine(r, Project(c.arg))
  /\ c.op = "unlink_project" /\ c.pc = "commit" => Mine(r, Project(c.arg))

ShareDue(r, c) ==
  /\ Sharing(c) => r \in share[GroupRow(c.group)]
  /\ \A x \in Rows : r \in share[x] => Sharing(c) /\ x = GroupRow(c.group)

Due(r, c) == /\ CreateDue(r, c) /\ RenameDue(r, c) /\ DeleteDue(r, c)
             /\ CreateInviteDue(r, c) /\ AcceptDue(r, c) /\ RevokeDue(r, c)
             /\ TransferDue(r, c) /\ LinkDue(r, c) /\ ShareDue(r, c)

(* A group being created is known to nobody else; a new invite is inserted *)
(* by one request, and revoked by none.                                    *)
Apart(c, d) ==
  /\ c.op = "create" => d.group # c.group
  /\ c.op = "create_invite" =>
       /\ d.op = "create_invite" => d.arg # c.arg
       /\ d.op = "revoke_invite" /\ d.pc # "select invite" => d.arg # c.arg

KnownRequest(r) ==
  LET c == req[r] IN
  /\ Under(c) => Fits(c) /\ Due(r, c)
  /\ ~Under(c) => \A x \in Rows : r \notin share[x]
  /\ \A q \in Reqs \ {r} : Under(c) /\ Under(req[q]) => Apart(c, req[q])

(* A reference to a group: its members and invites, and its projects.      *)
Refers(g, x, v) == \/ x \in Children(g) /\ v # Absent
                   \/ x \in ProjectRows /\ v = g

KnownGroup(g) ==
  /\ \A x \in Rows : Refers(g, x, db[x]) => db[GroupRow(g)] # Absent
  /\ share[GroupRow(g)] # {} => db[GroupRow(g)] # Absent /\ latest[GroupRow(g)] # Absent

KnownInvite(i) == db[Invite(i)] \in Marks \union {Absent}

TransactionInv ==
  /\ TypeOK /\ Clean
  /\ \A x \in Rows : HeldRow(x)
  /\ \A r \in Reqs : KnownRequest(r)
  /\ \A g \in Groups : KnownGroup(g)
  /\ \A i \in Invites : KnownInvite(i)

-----------------------------------------------------------------------------
(* Rows and calls.                                                         *)

(* Rows of different tables, or with different keys, are different rows.   *)
LEMMA RowsApart ==
  ASSUME NEW g, NEW h, NEW u, NEW v
  PROVE  /\ GroupRow(g) = GroupRow(h) => g = h
         /\ Invite(g) = Invite(h) => g = h
         /\ Project(g) = Project(h) => g = h
         /\ Member(g, u) = Member(h, v) => g = h /\ u = v
         /\ GroupRow(g) # Invite(h) /\ GroupRow(g) # Project(h) /\ Invite(g) # Project(h)
         /\ Member(g, u) \notin {GroupRow(h), Invite(h), Project(h)}
BY DEF GroupRow, Invite, Project, Member

(* The rows that go with a group.                                          *)
LEMMA ChildRows ==
  ASSUME NEW g \in Groups
  PROVE  /\ Children(g) \subseteq Rows
         /\ \A h : GroupRow(h) \notin Children(g) /\ Project(h) \notin Children(g)
         /\ \A h, u : Member(h, u) \in Children(g) <=> h = g /\ u \in Users
         /\ \A i : Invite(i) \in Children(g) <=> i \in Invites /\ InviteGroup[i] = g
<1>1. Children(g) \subseteq Rows
  BY RowTypes DEF Children
<1>2. \A h : GroupRow(h) \notin Children(g) /\ Project(h) \notin Children(g)
  BY RowsApart DEF Children
<1>3. \A h, u : Member(h, u) \in Children(g) <=> h = g /\ u \in Users
  BY RowsApart DEF Children
<1>4. \A i : Invite(i) \in Children(g) <=> i \in Invites /\ InviteGroup[i] = g
  BY RowsApart DEF Children
<1> QED
  BY <1>1, <1>2, <1>3, <1>4

(* A statement that goes on changes nothing else of its call.              *)
LEMMA GotoMoves ==
  ASSUME TypeOK, NEW r \in Reqs, req[r].pc \in Statements, NEW next, Goto(r, next)
  PROVE  /\ req'[r].op = req[r].op /\ req'[r].group = req[r].group
         /\ req'[r].user = req[r].user /\ req'[r].arg = req[r].arg
         /\ req'[r].seen = req[r].seen /\ req'[r].seenArg = req[r].seenArg
         /\ req'[r].pc = next
         /\ \A q \in Reqs \ {r} : req'[q] = req[q]
<1>1. req[r] \in Calls
  BY CallAtStatement
<1>2. req'[r] = [req[r] EXCEPT !.pc = next] /\ \A q \in Reqs \ {r} : req'[q] = req[q]
  BY DEF Goto, TypeOK
<1> QED
  BY <1>1, <1>2 DEF Calls

(* An answer ends the call.                                                *)
LEMMA ReplyMoves ==
  ASSUME TypeOK, NEW r \in Reqs, NEW s, Reply(r, s)
  PROVE  /\ ~Under(req'[r]) /\ req'[r].pc = "done" /\ req'[r].status = s
         /\ \A q \in Reqs \ {r} : req'[q] = req[q]
<1>1. req'[r] = Blank("done", s) /\ \A q \in Reqs \ {r} : req'[q] = req[q]
  BY DEF Reply, TypeOK
<1> QED
  BY <1>1 DEF Blank, Under, Statements

(* The methods that run a statement.                                       *)
LEMMA StatementOf ==
  ASSUME NEW c, Fits(c)
  PROVE  /\ c.pc = "update group" => c.op = "rename"
         /\ c.pc \in {"count projects", "delete group", "cascade"} => c.op = "delete"
         /\ c.pc \in {"check limit", "insert invite", "record"} => c.op = "create_invite"
         /\ c.pc \in {"insert member", "mark consumed"} => c.op = "accept_invite"
         /\ c.pc \in {"select invite", "mark revoked"} => c.op = "revoke_invite"
         /\ c.pc = "delete member" => c.op \in {"remove_member", "leave"}
         /\ c.pc \in {"demote", "promote", "one owner"} => c.op = "transfer_ownership"
         /\ c.pc = "set group" => c.op = "link_project"
         /\ c.pc = "clear group" => c.op = "unlink_project"
         /\ c.pc = "reference" => c.op \in {"create_invite", "accept_invite", "link_project"}
         /\ c.op = "create" => c.pc = "commit"
BY DEF Fits, Course

(* Before its first write a request holds no row.                          *)
Early == {"update group", "count projects", "delete group", "check limit", "insert invite",
          "select member", "insert member", "select invite", "mark revoked",
          "delete member", "demote", "select project", "set group", "clear group"}

(* Which requests hold rows at all.                                        *)
LEMMA HeldIsLate ==
  ASSUME NEW c, NEW x, NEW old, NEW new, Held(c, x, old, new)
  PROVE  c.pc \in Statements /\ c.pc \notin Early
BY DEF Held, Early, Statements

(* What the holder of a row says of it.                                    *)
LEMMA HolderKnows ==
  ASSUME TransactionInv, NEW x \in Rows, NEW r \in Reqs, lock[x] = r
  PROVE  Held(req[r], x, db[x], latest[x]) /\ Under(req[r])
<1>1. Held(req[r], x, db[x], latest[x])
  BY RowStoreAssumption DEF TransactionInv, HeldRow
<1> QED
  BY <1>1, HeldIsLate DEF Under

(* A step of r that writes the rows X, none of them held by another.       *)
Writes(r, X) ==
  /\ db' = db /\ share' = share
  /\ \A x \in Rows \ X : latest'[x] = latest[x] /\ lock'[x] = lock[x]
  /\ \A x \in X : lock[x] \in {r, NoReq} /\ lock'[x] = r

OthersStay(r) == \A q \in Reqs \ {r} : req'[q] = req[q]

(* The other requests keep what is due to them.                            *)
LEMMA OthersKeepDue ==
  ASSUME NEW r \in Reqs, NEW q \in Reqs \ {r}, NEW X \in SUBSET Rows, Writes(r, X), TypeOK,
         NEW c \in Calls, Fits(c), Due(q, c),
         c.op = "create_invite" => Invite(c.arg) \notin X
  PROVE  Due(q, c)'
<1>1. \A x \in Rows : Mine(q, x) => Mine(q, x)'
  BY RowStoreAssumption DEF Mine, Writes
<1>2. db' = db /\ share' = share
  BY DEF Writes
<1>3. c.group \in Groups /\ c.user \in Users /\ c.arg \in ArgOf(c.op)
  BY DEF Calls
<1>4. /\ GroupRow(c.group) \in Rows /\ Member(c.group, c.user) \in Rows
      /\ Children(c.group) \subseteq Rows
  BY <1>3, RowTypes, ChildRows
<1>5. /\ c.op \in {"create_invite", "accept_invite", "revoke_invite"} =>
           Invite(c.arg) \in Rows
      /\ c.op = "transfer_ownership" => Member(c.group, c.arg) \in Rows
      /\ c.op \in {"link_project", "unlink_project"} => Project(c.arg) \in Rows
  BY <1>3, RowTypes DEF ArgOf
<1>6. CreateDue(q, c)' /\ RenameDue(q, c)' /\ TransferDue(q, c)' /\ LinkDue(q, c)'
  BY <1>1, <1>4, <1>5 DEF Due, CreateDue, RenameDue, TransferDue, LinkDue
<1>7. DeleteDue(q, c)'
  BY <1>1, <1>2, <1>4 DEF Due, DeleteDue, LinkedProjects
<1>8. CreateInviteDue(q, c)'
  BY <1>1, <1>2, <1>5 DEF Due, CreateInviteDue, Writes
<1>9. AcceptDue(q, c)' /\ RevokeDue(q, c)'
  BY <1>1, <1>2, <1>4, <1>5 DEF Due, AcceptDue, RevokeDue
<1>10. ShareDue(q, c)'
  BY <1>2 DEF Due, ShareDue
<1> QED
  BY <1>6, <1>7, <1>8, <1>9, <1>10 DEF Due

(* What r may do to the rows X, and what the others rely on.               *)
Allowed(r, X) ==
  /\ \A x \in X : Held(req'[r], x, db[x], latest'[x])
  /\ \A x \in Rows \ X : lock[x] = r => Held(req'[r], x, db[x], latest[x])
  /\ \A q \in Reqs \ {r} : Under(req[q]) /\ req[q].op = "create_invite" =>
       Invite(req[q].arg) \notin X
  /\ \A g \in Groups : GroupRow(g) \in X /\ share[GroupRow(g)] # {} =>
       latest'[GroupRow(g)] # Absent

(* The invariant after a step that writes rows, or none.                   *)
LEMMA WriteKeeps ==
  ASSUME TransactionInv, TypeOK', NEW r \in Reqs, NEW X \in SUBSET Rows, Writes(r, X),
         OthersStay(r), Allowed(r, X), KnownRequest(r)',
         \A q \in Reqs \ {r} : Under(req[q]) /\ Under(req'[r]) => Apart(req[q], req'[r])
  PROVE  TransactionInv'
<1>1. DOMAIN lock = Rows /\ DOMAIN lock' = Rows /\ lock \in [Rows -> Reqs \union {NoReq}]
  BY DEF TransactionInv, TypeOK, StoreType
<1>2. Clean'
  BY <1>1, RowStoreAssumption DEF TransactionInv, Clean, Writes
<1>3. ASSUME NEW x \in Rows PROVE HeldRow(x)'
  <2> SUFFICES ASSUME lock'[x] # NoReq
               PROVE  Held(req'[lock'[x]], x, db[x], latest'[x])
    BY DEF HeldRow, Writes
  <2>1. CASE x \in X
    BY <2>1 DEF Writes, Allowed
  <2>2. CASE x \notin X
    <3>1. latest'[x] = latest[x] /\ lock'[x] = lock[x] /\ lock[x] \in Reqs
      BY <1>1, <2>2 DEF Writes
    <3>2. CASE lock[x] = r
      BY <2>2, <3>1, <3>2 DEF Allowed
    <3>3. CASE lock[x] # r
      BY <3>1, <3>3, HolderKnows DEF OthersStay
    <3> QED
      BY <3>2, <3>3
  <2> QED
    BY <2>1, <2>2
<1>4. ASSUME NEW q \in Reqs \ {r} PROVE KnownRequest(q)'
  <2>0. PICK c : c = req[q]
    OBVIOUS
  <2>1. req'[q] = c /\ req[q] = c /\ KnownRequest(q)
    BY <2>0 DEF OthersStay, TransactionInv
  <2>2. ASSUME Under(c) PROVE Fits(c) /\ Due(q, c)'
    <3>1. c \in Calls /\ Fits(c) /\ Due(q, c)
      BY <2>1, <2>2, CallAtStatement DEF Under, TransactionInv, KnownRequest
    <3>2. c.op = "create_invite" => Invite(c.arg) \notin X
      BY <2>1, <2>2 DEF Allowed
    <3> QED
      BY <3>1, <3>2, OthersKeepDue DEF TransactionInv
  <2>3. ~Under(c) => \A x \in Rows : q \notin share'[x]
    BY <2>1 DEF KnownRequest, Writes
  <2>4. ASSUME NEW s \in Reqs \ {q}, Under(c), Under(req'[s])
        PROVE  Apart(c, req'[s])
    <3>1. CASE s = r
      BY <2>1, <2>4, <3>1
    <3>2. CASE s # r
      <4>1. req'[s] = req[s]
        BY <3>2 DEF OthersStay
      <4> QED
        BY <2>1, <2>4, <4>1 DEF KnownRequest
    <3> QED
      BY <3>1, <3>2
  <2>5. KnownRequest(q)' <=>
          /\ Under(req'[q]) => Fits(req'[q]) /\ Due(q, c)'
          /\ ~Under(req'[q]) => \A x \in Rows : q \notin share'[x]
          /\ \A s \in Reqs \ {q} : Under(req'[q]) /\ Under(req'[s]) => Apart(req'[q], req'[s])
    BY <2>1 DEF KnownRequest
  <2> QED
    BY <2>1, <2>2, <2>3, <2>4, <2>5
<1>5. ASSUME NEW g \in Groups PROVE KnownGroup(g)'
  <2>1. KnownGroup(g) /\ GroupRow(g) \in Rows
    BY RowTypes DEF TransactionInv
  <2>2. db' = db /\ share' = share
    BY DEF Writes
  <2>3. share[GroupRow(g)] # {} => latest'[GroupRow(g)] # Absent
    BY <2>1 DEF KnownGroup, Allowed, Writes
  <2> QED
    BY <2>1, <2>2, <2>3 DEF KnownGroup, Refers
<1>6. \A i \in Invites : KnownInvite(i)'
  BY DEF TransactionInv, KnownInvite, Writes
<1> QED
  BY <1>2, <1>3, <1>4, <1>5, <1>6 DEF TransactionInv

-----------------------------------------------------------------------------
(* Steps that write nothing, of a request that holds nothing.              *)

(* A request before its first write holds no row and shares none.          *)
LEMMA EarlyHoldsNothing ==
  ASSUME TransactionInv, NEW r \in Reqs, req[r].pc \in Early \union {"idle", "done"},
         NEW x \in Rows
  PROVE  lock[x] # r /\ r \notin share[x]
<1>1. lock[x] # r
  <2>1. lock[x] = r => Held(req[r], x, db[x], latest[x])
    BY HolderKnows
  <2>2. Held(req[r], x, db[x], latest[x]) => req[r].pc \in Statements /\ req[r].pc \notin Early
    BY HeldIsLate
  <2>3. "idle" \notin Statements /\ "done" \notin Statements
    BY DEF Statements
  <2> QED
    BY <2>1, <2>2, <2>3
<1>2. r \notin share[x]
  BY DEF TransactionInv, KnownRequest, Due, ShareDue, Sharing, Early
<1> QED
  BY <1>1, <1>2

(* An answer, or the first statements of a method.                         *)
LEMMA EarlyKeeps ==
  ASSUME TransactionInv, TypeOK', NEW r \in Reqs, UNCHANGED store, OthersStay(r),
         req[r].pc \in Early \union {"idle", "done"},
         NEW d, req'[r] = d,
         Under(d) => /\ d.pc \in Early /\ Fits(d) /\ CreateInviteDue(r, d) /\ AcceptDue(r, d)
                     /\ \A q \in Reqs \ {r} : Under(req[q]) =>
                          Apart(req[q], d) /\ Apart(d, req[q])
  PROVE  TransactionInv'
<1>1. Writes(r, {}) /\ {} \in SUBSET Rows
  BY DEF Writes, store
<1>2. \A x \in Rows : lock[x] # r /\ r \notin share[x]
  BY EarlyHoldsNothing
<1>3. Allowed(r, {})
  BY <1>2 DEF Allowed
<1>4. Under(d) => Due(r, d)'
  <2> SUFFICES ASSUME Under(d) PROVE Due(r, d)'
    OBVIOUS
  <2>1. d.pc \in Early /\ Fits(d)
    OBVIOUS
  <2>2. CreateDue(r, d)' /\ RenameDue(r, d)' /\ DeleteDue(r, d)' /\ RevokeDue(r, d)'
        /\ TransferDue(r, d)' /\ LinkDue(r, d)'
    BY <2>1, StatementOf
       DEF Early, CreateDue, RenameDue, DeleteDue, RevokeDue, TransferDue, LinkDue
  <2>3. CreateInviteDue(r, d)'
    BY DEF CreateInviteDue, Mine, store
  <2>4. AcceptDue(r, d)'
    BY DEF AcceptDue, Mine, store
  <2>5. ShareDue(r, d)'
    BY <1>2, <2>1 DEF ShareDue, Sharing, Early, store
  <2> QED
    BY <2>2, <2>3, <2>4, <2>5 DEF Due
<1>5. KnownRequest(r)'
  <2>1. ~Under(d) => \A x \in Rows : r \notin share'[x]
    BY <1>2 DEF store
  <2>2. \A q \in Reqs \ {r} : Under(d) /\ Under(req'[q]) => Apart(d, req'[q])
    BY DEF OthersStay
  <2> QED
    BY <1>4, <2>1, <2>2 DEF KnownRequest
<1>6. \A q \in Reqs \ {r} : Under(req[q]) /\ Under(req'[r]) => Apart(req[q], req'[r])
  OBVIOUS
<1> QED
  BY <1>1, <1>3, <1>5, <1>6, WriteKeeps

(* A SELECT that ends in an answer.                                        *)
LEMMA AnswerKeeps ==
  ASSUME TransactionInv, TypeOK', NEW r \in Reqs, UNCHANGED store,
         req[r].pc \in Early \union {"idle", "done"}, NEW s, Reply(r, s)
  PROVE  TransactionInv'
<1>1. ~Under(req'[r]) /\ OthersStay(r)
  BY ReplyMoves DEF TransactionInv, OthersStay
<1>2. PICK d : req'[r] = d
  OBVIOUS
<1> QED
  BY <1>1, <1>2, EarlyKeeps

(* A group that is being created, and an invite, are not committed yet.    *)
LEMMA NewRows ==
  ASSUME TransactionInv, NEW q \in Reqs, Under(req[q])
  PROVE  /\ req[q].op = "create" =>
              /\ db[GroupRow(req[q].group)] = Absent
              /\ lock[GroupRow(req[q].group)] = q
              /\ \A u \in Users : db[Member(req[q].group, u)] = Absent
              /\ \A i \in Invites : InviteGroup[i] = req[q].group => db[Invite(i)] = Absent
         /\ req[q].op = "create_invite" =>
              db[Invite(req[q].arg)] = Absent /\ lock[Invite(req[q].arg)] \in {q, NoReq}
<1>1. req[q] \in Calls /\ Fits(req[q]) /\ Due(q, req[q])
  BY CallAtStatement DEF TransactionInv, KnownRequest, Under
<1>2. CASE req[q].op = "create"
  <2>1. req[q].group \in Groups /\ GroupRow(req[q].group) \in Rows
    BY <1>1, RowTypes DEF Calls
  <2>2. lock[GroupRow(req[q].group)] = q
    BY <1>1, <1>2 DEF Due, CreateDue, Mine
  <2>3. db[GroupRow(req[q].group)] = Absent
    BY <1>2, <2>1, <2>2, HolderKnows DEF Held
  <2>4. \A x \in Children(req[q].group) : db[x] = Absent
    BY <2>1, <2>3, ChildRows DEF TransactionInv, KnownGroup, Refers
  <2> QED
    BY <1>2, <2>1, <2>2, <2>3, <2>4, ChildRows
<1>3. CASE req[q].op = "create_invite"
  <2>1. Invite(req[q].arg) \in Rows
    BY <1>1, <1>3, RowTypes DEF Calls, ArgOf
  <2>2. CASE req[q].pc \in {"check limit", "insert invite"}
    BY <1>1, <1>3, <2>2 DEF Due, CreateInviteDue
  <2>3. CASE req[q].pc \notin {"check limit", "insert invite"}
    <3>1. lock[Invite(req[q].arg)] = q
      BY <1>1, <1>3, <2>3 DEF Due, CreateInviteDue, Mine
    <3>2. db[Invite(req[q].arg)] = Absent
      BY <1>3, <2>1, <3>1, HolderKnows DEF Held
    <3> QED
      BY <1>3, <3>1, <3>2
  <2> QED
    BY <1>3, <2>2, <2>3
<1> QED
  BY <1>2, <1>3

(* A request that goes on with the same call stays apart from the others.  *)
LEMMA GoingOnStaysApart ==
  ASSUME TransactionInv, NEW r \in Reqs, NEW q \in Reqs \ {r}, Under(req[r]), Under(req[q]),
         NEW d, d.op = req[r].op, d.group = req[r].group, d.arg = req[r].arg,
         req[r].op = "revoke_invite" =>
           req[r].pc # "select invite" \/ d.pc = "select invite" \/ db[Invite(req[r].arg)] # Absent
  PROVE  Apart(req[q], d) /\ Apart(d, req[q])
<1>1. Apart(req[q], req[r]) /\ Apart(req[r], req[q])
  BY DEF TransactionInv, KnownRequest
<1>2. req[q].op = "create_invite" => db[Invite(req[q].arg)] = Absent
  BY NewRows
<1> QED
  BY <1>1, <1>2 DEF Apart

(* A SELECT that goes on, still before the first write.                    *)
LEMMA SelectKeeps ==
  ASSUME TransactionInv, TypeOK', NEW r \in Reqs, UNCHANGED store,
         req[r].pc \in Early, NEW next \in Early, Goto(r, next), next \in Course(req[r].op),
         req[r].op # "transfer_ownership",
         req[r].op = "create_invite" => next \in {"check limit", "insert invite"},
         req[r].op = "revoke_invite" => db[Invite(req[r].arg)] # Absent
  PROVE  TransactionInv'
<1>1. req[r].pc \in Statements /\ Under(req[r])
  BY DEF Early, Statements, Under
<1>2. PICK d : d = req'[r]
  OBVIOUS
<1>3. /\ d.op = req[r].op /\ d.group = req[r].group /\ d.arg = req[r].arg /\ d.pc = next
      /\ d.seen = req[r].seen /\ d.user = req[r].user /\ OthersStay(r)
  BY <1>1, <1>2, GotoMoves DEF TransactionInv, OthersStay
<1>4. Fits(req[r]) /\ Due(r, req[r])
  BY <1>1 DEF TransactionInv, KnownRequest
<1>5. Fits(d)
  BY <1>3, <1>4 DEF Fits
<1>6. CreateInviteDue(r, d)
  BY <1>3, <1>4, StatementOf DEF Due, CreateInviteDue, Early, Fits, Course
<1>7. AcceptDue(r, d)
  BY <1>3, <1>4 DEF Due, AcceptDue, Early, Course
<1>8. \A q \in Reqs \ {r} : Under(req[q]) => Apart(req[q], d) /\ Apart(d, req[q])
  BY <1>1, <1>3, GoingOnStaysApart
<1> QED
  BY <1>2, <1>3, <1>5, <1>6, <1>7, <1>8, EarlyKeeps

(* A new call of a member, who may do nothing in a group that is not there *)
(* yet.                                                                    *)
LEMMA BeginKeeps ==
  ASSUME TransactionInv, TypeOK', NEW r \in Reqs, UNCHANGED store, req[r].pc = "idle",
         NEW o \in Ops \ {"create", "create_invite", "accept_invite"},
         NEW g \in Groups, NEW u \in Users, NEW a, NEW next \in Early \intersect Course(o),
         db[Member(g, u)] # Absent, o = "leave" => db[Member(g, u)] = "member",
         o = "transfer_ownership" => next = "select member",
         o = "revoke_invite" => next = "select invite",
         Begin(r, o, g, u, a, next)
  PROVE  TransactionInv'
<1>1. PICK d : d = Call(o, g, u, a, next, db[Member(g, u)])
  OBVIOUS
<1>2. /\ d.op = o /\ d.group = g /\ d.arg = a /\ d.pc = next /\ d.seen = db[Member(g, u)]
  BY <1>1 DEF Call
<1>3. req'[r] = d /\ OthersStay(r)
  BY <1>1 DEF Begin, TransactionInv, TypeOK, OthersStay
<1>4. Fits(d) /\ d.pc \in Early
  BY <1>2 DEF Fits
<1>5. CreateInviteDue(r, d) /\ AcceptDue(r, d)
  BY <1>2 DEF CreateInviteDue, AcceptDue
<1>6. ASSUME NEW q \in Reqs \ {r}, Under(req[q])
      PROVE  Apart(req[q], d) /\ Apart(d, req[q])
  <2>1. req[q].op = "create" => db[Member(req[q].group, u)] = Absent
    BY <1>6, NewRows
  <2> QED
    BY <1>2, <2>1 DEF Apart
<1> QED
  BY <1>3, <1>4, <1>5, <1>6, EarlyKeeps

(* The first statement of an owner's method.                               *)
LEMMA OwnersMethodKeeps ==
  ASSUME TransactionInv, TypeOK', NEW r \in Reqs,
         NEW o \in Ops \ {"create", "create_invite", "accept_invite", "leave"},
         NEW g \in Groups, NEW u \in Users, NEW a, NEW next \in Early \intersect Course(o),
         o = "transfer_ownership" => next = "select member",
         o = "revoke_invite" => next = "select invite",
         RequireOwner(r, o, g, u, a, next)
  PROVE  TransactionInv'
<1>1. UNCHANGED store /\ req[r].pc = "idle"
  BY DEF RequireOwner
<1>2. CASE Reply(r, 404)
  BY <1>1, <1>2, AnswerKeeps
<1>3. CASE Reply(r, 403)
  BY <1>1, <1>3, AnswerKeeps
<1>4. CASE db[Member(g, u)] = "owner" /\ Begin(r, o, g, u, a, next)
  <2>1. db[Member(g, u)] # Absent
    BY <1>4, NotTheOwner
  <2> QED
    BY <1>1, <1>4, <2>1, BeginKeeps
<1> QED
  BY <1>2, <1>3, <1>4 DEF RequireOwner

(* A new invite: its id is one that no request and no row knows.           *)
LEMMA BeginCreateInviteKeeps ==
  ASSUME TransactionInv, TypeOK', NEW r \in Reqs, NEW g \in Groups, NEW u \in Users,
         NEW i \in Invites, BeginCreateInvite(r, g, u, i)
  PROVE  TransactionInv'
<1>1. /\ UNCHANGED store /\ req[r].pc = "idle" /\ Fresh(g, i)
      /\ RequireOwner(r, "create_invite", g, u, i, "check limit")
  BY DEF BeginCreateInvite, RequireOwner
<1>2. CASE Reply(r, 404)
  BY <1>1, <1>2, AnswerKeeps
<1>3. CASE Reply(r, 403)
  BY <1>1, <1>3, AnswerKeeps
<1>4. CASE db[Member(g, u)] = "owner" /\ Begin(r, "create_invite", g, u, i, "check limit")
  <2>1. PICK d : d = Call("create_invite", g, u, i, "check limit", db[Member(g, u)])
    OBVIOUS
  <2>2. /\ d.op = "create_invite" /\ d.group = g /\ d.arg = i /\ d.pc = "check limit"
    BY <2>1 DEF Call
  <2>3. req'[r] = d /\ OthersStay(r)
    BY <1>4, <2>1 DEF Begin, TransactionInv, TypeOK, OthersStay
  <2>4. Fits(d) /\ d.pc \in Early
    BY <1>1, <2>2 DEF Fits, Fresh, Course, Early
  <2>5. CreateInviteDue(r, d) /\ AcceptDue(r, d)
    BY <1>1, <2>2 DEF CreateInviteDue, AcceptDue, Fresh
  <2>6. ASSUME NEW q \in Reqs \ {r}, Under(req[q])
        PROVE  Apart(req[q], d) /\ Apart(d, req[q])
    <3>1. req[q].op = "create" => db[Member(req[q].group, u)] = Absent
      BY <2>6, NewRows
    <3>2. req[q].arg # i
      BY <1>1 DEF Fresh
    <3> QED
      BY <1>4, <2>2, <3>1, <3>2, NotTheOwner DEF Apart
  <2> QED
    BY <1>1, <2>3, <2>4, <2>5, <2>6, EarlyKeeps
<1> QED
  BY <1>1, <1>2, <1>3, <1>4 DEF RequireOwner

(* An accept starts with an invite that is there, of a group that is.      *)
LEMMA BeginAcceptKeeps ==
  ASSUME TransactionInv, TypeOK', NEW r \in Reqs, NEW u \in Users, NEW i \in Invites,
         BeginAcceptInvite(r, u, i)
  PROVE  TransactionInv'
<1>1. UNCHANGED store /\ req[r].pc = "idle"
  BY DEF BeginAcceptInvite
<1>2. CASE Reply(r, 404)
  BY <1>1, <1>2, AnswerKeeps
<1>3. CASE Reply(r, 410)
  BY <1>1, <1>3, AnswerKeeps
<1>4. CASE Reply(r, 409)
  BY <1>1, <1>4, AnswerKeeps
<1>5. CASE /\ db[Invite(i)] = "pending"
           /\ req' = [req EXCEPT ![r] = Call("accept_invite", InviteGroup[i], u, i,
                                             "select member", Absent)]
  <2>1. PICK d : d = Call("accept_invite", InviteGroup[i], u, i, "select member", Absent)
    OBVIOUS
  <2>2. /\ d.op = "accept_invite" /\ d.group = InviteGroup[i] /\ d.arg = i
        /\ d.pc = "select member"
    BY <2>1 DEF Call
  <2>3. req'[r] = d /\ OthersStay(r)
    BY <1>5, <2>1 DEF TransactionInv, TypeOK, OthersStay
  <2>4. Fits(d) /\ d.pc \in Early
    BY <2>2 DEF Fits, Course, Early
  <2>5. db[Invite(i)] # Absent
    BY <1>5 DEF Absent
  <2>6. CreateInviteDue(r, d) /\ AcceptDue(r, d)
    BY <2>2, <2>5 DEF CreateInviteDue, AcceptDue
  <2>7. ASSUME NEW q \in Reqs \ {r}, Under(req[q])
        PROVE  Apart(req[q], d) /\ Apart(d, req[q])
    <3>1. req[q].op = "create" => req[q].group # InviteGroup[i]
      BY <2>5, <2>7, NewRows
    <3> QED
      BY <2>2, <3>1 DEF Apart
  <2> QED
    BY <1>1, <2>3, <2>4, <2>6, <2>7, EarlyKeeps
<1> QED
  BY <1>2, <1>3, <1>4, <1>5 DEF BeginAcceptInvite

(* A new group: nothing is left of the one that had its id, and no request *)
(* knows it.                                                               *)
LEMMA CreateKeeps ==
  ASSUME TransactionInv, TypeOK', NEW r \in Reqs, NEW g \in Groups, NEW u \in Users,
         Create(r, g, u)
  PROVE  TransactionInv'
<1> DEFINE X == {GroupRow(g), Member(g, u)}
           f == [x \in X |-> IF x = GroupRow(g) THEN Live ELSE "owner"]
<1>1. /\ WriteAll(r, X, f) /\ share' = share /\ req[r].pc = "idle"
      /\ Begin(r, "create", g, u, None, "commit")
      /\ \A s \in Reqs : req[s].group # g
      /\ \A x \in Children(g) \union {GroupRow(g)} : db[x] = Absent /\ lock[x] = NoReq
  BY DEF Create
<1>2. PICK d : d = Call("create", g, u, None, "commit", db[Member(g, u)])
  OBVIOUS
<1>3. /\ d.op = "create" /\ d.group = g /\ d.user = u /\ d.pc = "commit"
  BY <1>2 DEF Call
<1>4. req'[r] = d /\ OthersStay(r)
  BY <1>1, <1>2 DEF Begin, TransactionInv, TypeOK, OthersStay
<1>5. X \subseteq Rows /\ Member(g, u) \in Children(g) /\ Member(g, u) # GroupRow(g)
  BY RowTypes, ChildRows, RowsApart
<1>6. \A x \in X : db[x] = Absent /\ lock[x] = NoReq
  BY <1>1, <1>5
<1>7. /\ \A x \in X : latest'[x] = f[x] /\ lock'[x] = r
      /\ \A x \in Rows \ X : latest'[x] = latest[x] /\ lock'[x] = lock[x]
      /\ db' = db
  BY <1>1, <1>5 DEF WriteAll, TransactionInv, TypeOK, StoreType
<1>8. latest'[GroupRow(g)] = Live /\ latest'[Member(g, u)] = "owner"
  BY <1>5, <1>7
<1>9. /\ GroupRow(g) \in X /\ Member(g, u) \in X
      /\ \A x \in X : x = GroupRow(g) \/ x = Member(g, u)
      /\ \A i : Invite(i) \notin X /\ \A h : GroupRow(h) \in X => h = g
  BY RowsApart
<1> HIDE DEF X, f
<1>10. Writes(r, X)
  BY <1>1, <1>6, <1>7 DEF Writes
<1>11. Allowed(r, X)
  <2>1. \A x \in X : Held(d, x, db[x], latest'[x])
    BY <1>3, <1>6, <1>8, <1>9 DEF Held
  <2>2. \A x \in Rows : lock[x] # r
    BY <1>1, EarlyHoldsNothing
  <2>3. latest'[GroupRow(g)] # Absent
    BY <1>8 DEF Live, Absent
  <2> QED
    BY <1>4, <1>9, <2>1, <2>2, <2>3 DEF Allowed
<1>12. KnownRequest(r)'
  <2>1. Fits(d)
    BY <1>3 DEF Fits, Course
  <2>2. Mine(r, GroupRow(g))' /\ Mine(r, Member(g, u))'
    BY <1>7, <1>9 DEF Mine
  <2>3. \A x \in Rows : r \notin share'[x]
    BY <1>1, EarlyHoldsNothing
  <2>4. Due(r, d)'
    BY <1>3, <2>2, <2>3 DEF Due, CreateDue, RenameDue, DeleteDue, CreateInviteDue, AcceptDue,
                            RevokeDue, TransferDue, LinkDue, ShareDue, Sharing
  <2>5. \A q \in Reqs \ {r} : Apart(d, req'[q])
    BY <1>1, <1>3, <1>4 DEF Apart, OthersStay
  <2> QED
    BY <1>4, <2>1, <2>3, <2>4, <2>5 DEF KnownRequest
<1>13. ASSUME NEW q \in Reqs \ {r}, Under(req[q]) PROVE Apart(req[q], d)
  BY <1>1, <1>3 DEF Apart
<1> QED
  BY <1>4, <1>5, <1>10, <1>11, <1>12, <1>13, WriteKeeps DEF X

(* Every way a request arrives keeps what is known.                        *)
LEMMA ArriveKeeps ==
  ASSUME TransactionInv, TypeOK', NEW r \in Reqs, Arrive(r)
  PROVE  TransactionInv'
<1>0. \A o, g, u, a, next : RequireOwner(r, o, g, u, a, next) => o \in Ops
  BY DEF RequireOwner
<1>00. /\ "update group" \in Early \intersect Course("rename")
       /\ "count projects" \in Early \intersect Course("delete")
       /\ "delete member" \in Early \intersect Course("leave")
       /\ "delete member" \in Early \intersect Course("remove_member")
       /\ "select member" \in Early \intersect Course("transfer_ownership")
       /\ "select invite" \in Early \intersect Course("revoke_invite")
       /\ "select project" \in Early \intersect Course("link_project")
       /\ "select project" \in Early \intersect Course("unlink_project")
  BY DEF Early, Course
<1>1. ASSUME NEW g \in Groups, NEW u \in Users, Create(r, g, u)
      PROVE  TransactionInv'
  BY <1>1, CreateKeeps
<1>2. ASSUME NEW g \in Groups, NEW u \in Users, BeginRename(r, g, u)
      PROVE  TransactionInv'
  <2>1. "rename" \in Ops \ {"create", "create_invite", "accept_invite", "leave"}
    BY <1>0, <1>2 DEF BeginRename
  <2> QED
    BY <1>00, <1>2, <2>1, OwnersMethodKeeps DEF BeginRename
<1>3. ASSUME NEW g \in Groups, NEW u \in Users, BeginDelete(r, g, u)
      PROVE  TransactionInv'
  <2>1. "delete" \in Ops \ {"create", "create_invite", "accept_invite", "leave"}
    BY <1>0, <1>3 DEF BeginDelete
  <2> QED
    BY <1>00, <1>3, <2>1, OwnersMethodKeeps DEF BeginDelete
<1>4. ASSUME NEW g \in Groups, NEW u \in Users, BeginLeave(r, g, u)
      PROVE  TransactionInv'
  <2>1. UNCHANGED store /\ req[r].pc = "idle" /\ "leave" \in Ops
    BY <1>4 DEF BeginLeave
  <2>2. CASE Reply(r, 404)
    BY <2>1, <2>2, AnswerKeeps
  <2>3. CASE Reply(r, 409)
    BY <2>1, <2>3, AnswerKeeps
  <2>4. CASE db[Member(g, u)] = "member" /\ Begin(r, "leave", g, u, u, "delete member")
    <3>1. db[Member(g, u)] # Absent
      BY <2>4 DEF Absent
    <3> QED
      BY <1>00, <2>1, <2>4, <3>1, BeginKeeps
  <2> QED
    BY <1>4, <2>2, <2>3, <2>4 DEF BeginLeave
<1>5. ASSUME NEW g \in Groups, NEW u \in Users, NEW v \in Users, BeginRemoveMember(r, g, u, v)
      PROVE  TransactionInv'
  <2>1. "remove_member" \in Ops \ {"create", "create_invite", "accept_invite", "leave"}
    BY <1>0, <1>5 DEF BeginRemoveMember
  <2> QED
    BY <1>00, <1>5, <2>1, OwnersMethodKeeps DEF BeginRemoveMember
<1>6. ASSUME NEW g \in Groups, NEW u \in Users, NEW v \in Users, BeginTransfer(r, g, u, v)
      PROVE  TransactionInv'
  <2>1. "transfer_ownership" \in Ops \ {"create", "create_invite", "accept_invite", "leave"}
    BY <1>0, <1>6 DEF BeginTransfer
  <2> QED
    BY <1>00, <1>6, <2>1, OwnersMethodKeeps DEF BeginTransfer
<1>7. ASSUME NEW g \in Groups, NEW u \in Users, NEW i \in Invites, BeginCreateInvite(r, g, u, i)
      PROVE  TransactionInv'
  BY <1>7, BeginCreateInviteKeeps
<1>8. ASSUME NEW g \in Groups, NEW u \in Users, NEW i \in Invites, BeginRevokeInvite(r, g, u, i)
      PROVE  TransactionInv'
  <2>1. "revoke_invite" \in Ops \ {"create", "create_invite", "accept_invite", "leave"}
    BY <1>0, <1>8 DEF BeginRevokeInvite
  <2> QED
    BY <1>00, <1>8, <2>1, OwnersMethodKeeps DEF BeginRevokeInvite
<1>9. ASSUME NEW g \in Groups, NEW u \in Users, NEW p \in Projects, BeginLinkProject(r, g, u, p)
      PROVE  TransactionInv'
  <2>1. "link_project" \in Ops \ {"create", "create_invite", "accept_invite", "leave"}
    BY <1>0, <1>9 DEF BeginLinkProject
  <2> QED
    BY <1>00, <1>9, <2>1, OwnersMethodKeeps DEF BeginLinkProject
<1>10. ASSUME NEW g \in Groups, NEW u \in Users, NEW p \in Projects, BeginUnlinkProject(r, g, u, p)
       PROVE  TransactionInv'
  <2>1. "unlink_project" \in Ops \ {"create", "create_invite", "accept_invite", "leave"}
    BY <1>0, <1>10 DEF BeginUnlinkProject
  <2> QED
    BY <1>00, <1>10, <2>1, OwnersMethodKeeps DEF BeginUnlinkProject
<1>11. ASSUME NEW u \in Users, NEW i \in Invites, BeginAcceptInvite(r, u, i)
       PROVE  TransactionInv'
  BY <1>11, BeginAcceptKeeps
<1> QED
  BY <1>1, <1>2, <1>3, <1>4, <1>5, <1>6, <1>7, <1>8, <1>9, <1>10, <1>11 DEF Arrive

-----------------------------------------------------------------------------
(* Statements that write.                                                  *)

(* A request that goes on to its next statement, having written X.         *)
LEMMA StatementKeeps ==
  ASSUME TransactionInv, TypeOK', NEW r \in Reqs, req[r].pc \in Statements,
         NEW next \in Statements, Goto(r, next), next \in Course(req[r].op),
         req[r].op = "transfer_ownership" => req[r].pc # "select member",
         req[r].op = "revoke_invite" => req[r].pc # "select invite",
         NEW X \in SUBSET Rows, Writes(r, X), Allowed(r, X), NEW d, d = req'[r], Due(r, d)'
  PROVE  TransactionInv'
<1>1. /\ d.op = req[r].op /\ d.group = req[r].group /\ d.arg = req[r].arg /\ d.pc = next
      /\ d.seen = req[r].seen /\ d.seenArg = req[r].seenArg /\ OthersStay(r)
  BY GotoMoves DEF TransactionInv, OthersStay
<1>2. Fits(req[r])
  BY DEF TransactionInv, KnownRequest, Under
<1>3. Fits(d) /\ Under(d) /\ Under(req[r])
  BY <1>1, <1>2 DEF Fits, Under
<1>4. \A q \in Reqs \ {r} : Under(req[q]) => Apart(req[q], d) /\ Apart(d, req[q])
  BY <1>1, <1>3, GoingOnStaysApart
<1>5. KnownRequest(r)'
  <2>1. \A q \in Reqs \ {r} : Under(req'[q]) => Apart(d, req'[q])
    BY <1>1, <1>4 DEF OthersStay
  <2> QED
    BY <1>3, <2>1 DEF KnownRequest
<1> QED
  BY <1>1, <1>3, <1>4, <1>5, WriteKeeps

(* Nobody waits for a row that is free, or held by the request itself.     *)
LEMMA WritersOf ==
  ASSUME NEW r, NEW x, Writers(r, x) = {}
  PROVE  lock[x] \in {r, NoReq}
BY DEF Writers

(* Writing one row that nobody else holds.                                 *)
LEMMA WriteIsWrites ==
  ASSUME TypeOK, NEW r \in Reqs, NEW x \in Rows, NEW v, Write(r, x, v), share' = share,
         lock[x] \in {r, NoReq}
  PROVE  Writes(r, {x}) /\ latest'[x] = v /\ {x} \in SUBSET Rows
BY DEF TypeOK, StoreType, Write, Writes

(* The one row of a request that had none: it has to be the right one, and *)
(* not one that another request is about to insert.                        *)
LEMMA FirstWriteKeeps ==
  ASSUME TransactionInv, TypeOK', NEW r \in Reqs, req[r].pc \in Early,
         NEW next \in Statements, Goto(r, next), next \in Course(req[r].op),
         req[r].op = "transfer_ownership" => req[r].pc # "select member",
         req[r].op = "revoke_invite" => req[r].pc # "select invite",
         NEW x \in Rows, NEW v, Write(r, x, v), share' = share, lock[x] \in {r, NoReq},
         NEW d, d = req'[r], Held(d, x, db[x], v),
         db[x] # Absent \/ (\A i : x # Invite(i)) \/ req[r].op = "create_invite",
         req[r].op = "create_invite" => x = Invite(req[r].arg),
         \A g \in Groups : x = GroupRow(g) => v # Absent \/ share[x] = {},
         Due(r, d)'
  PROVE  TransactionInv'
<1>1. Writes(r, {x}) /\ latest'[x] = v /\ {x} \in SUBSET Rows
  BY WriteIsWrites DEF TransactionInv
<1>2. req[r].pc \in Statements
  BY DEF Early, Statements
<1>3. Allowed(r, {x})
  <2>1. \A y \in Rows : lock[y] # r
    BY EarlyHoldsNothing
  <2>2. ASSUME NEW q \in Reqs \ {r}, Under(req[q]), req[q].op = "create_invite"
        PROVE  Invite(req[q].arg) # x
    <3>1. db[Invite(req[q].arg)] = Absent
      BY <2>2, NewRows
    <3>2. req[r].op = "create_invite" => req[q].arg # req[r].arg
      BY <1>2, <2>2 DEF TransactionInv, KnownRequest, Apart, Under
    <3> QED
      BY <3>1, <3>2, RowsApart
  <2> QED
    BY <1>1, <2>1, <2>2 DEF Allowed
<1> QED
  BY <1>1, <1>2, <1>3, StatementKeeps

(* A request before its first write finds what is committed.               *)
LEMMA EarlyFound ==
  ASSUME TransactionInv, NEW r \in Reqs, req[r].pc \in Early, NEW x \in Rows
  PROVE  Found(r, x) = db[x]
BY EarlyHoldsNothing DEF Found

(* A statement that finds no row to write.                                 *)
LEMMA NoWriteKeeps ==
  ASSUME TransactionInv, TypeOK', NEW r \in Reqs, req[r].pc \in Early,
         NEW next \in Statements, Goto(r, next), next \in Course(req[r].op),
         req[r].op = "transfer_ownership" => req[r].pc # "select member",
         req[r].op = "revoke_invite" => req[r].pc # "select invite",
         UNCHANGED store, NEW d, d = req'[r], Due(r, d)'
  PROVE  TransactionInv'
<1>1. Writes(r, {}) /\ {} \in SUBSET Rows
  BY DEF Writes, store
<1>2. Allowed(r, {})
  BY EarlyHoldsNothing DEF Allowed
<1>3. req[r].pc \in Statements
  BY DEF Early, Statements
<1> QED
  BY <1>1, <1>2, <1>3, StatementKeeps

(* What a request at a statement is.                                       *)
LEMMA AtItsStatement ==
  ASSUME TransactionInv, NEW r \in Reqs, req[r].pc \in Statements
  PROVE  /\ req[r] \in Calls /\ Fits(req[r]) /\ Due(r, req[r]) /\ Under(req[r]) /\ TypeOK
         /\ req[r].group \in Groups /\ req[r].user \in Users
         /\ req[r].arg \in ArgOf(req[r].op) /\ req[r].op \in Ops
         /\ GroupRow(req[r].group) \in Rows /\ Member(req[r].group, req[r].user) \in Rows
<1>1. req[r] \in Calls /\ TypeOK /\ Fits(req[r]) /\ Due(r, req[r]) /\ Under(req[r])
  BY CallAtStatement DEF TransactionInv, KnownRequest, Under
<1>2. /\ req[r].group \in Groups /\ req[r].user \in Users
      /\ req[r].arg \in ArgOf(req[r].op) /\ req[r].op \in Ops
  BY <1>1 DEF Calls
<1> QED
  BY <1>1, <1>2, RowTypes

(* The only thing due to a request right after its first write, or after   *)
(* it found nothing to write.                                              *)
LEMMA FirstDue ==
  ASSUME TransactionInv, NEW r \in Reqs, req[r].pc \in Early, share' = share,
         NEW d, ~Sharing(d),
         CreateDue(r, d)', RenameDue(r, d)', DeleteDue(r, d)', CreateInviteDue(r, d)',
         AcceptDue(r, d)', RevokeDue(r, d)', TransferDue(r, d)', LinkDue(r, d)'
  PROVE  Due(r, d)'
<1>1. \A x \in Rows : r \notin share[x]
  BY EarlyHoldsNothing
<1> QED
  BY <1>1 DEF Due, ShareDue

(* rename.                                                                 *)
LEMMA UpdateGroupKeeps ==
  ASSUME TransactionInv, TypeOK', NEW r \in Reqs, UpdateGroup(r), ~Fail(r)
  PROVE  TransactionInv'
<1> DEFINE x == GroupRow(req[r].group)
<1>1. /\ req[r].pc = "update group" /\ Found(r, x) # Absent /\ Write(r, x, Live)
      /\ Goto(r, "commit") /\ share' = share /\ Writers(r, x) = {}
  BY DEF UpdateGroup, Ready, AtStatement, Blockers
<1>2. req[r].pc \in Early /\ req[r].pc \in Statements /\ "commit" \in Statements
  BY <1>1 DEF Early, Statements
<1>3. req[r].op = "rename" /\ x \in Rows /\ "commit" \in Course(req[r].op)
  BY <1>1, <1>2, AtItsStatement, StatementOf DEF Course
<1>4. lock[x] \in {r, NoReq} /\ db[x] # Absent
  BY <1>1, <1>2, <1>3, WritersOf, EarlyFound
<1>5. PICK d : d = req'[r]
  OBVIOUS
<1>6. d.op = "rename" /\ d.group = req[r].group /\ d.pc = "commit"
  BY <1>1, <1>2, <1>3, <1>5, GotoMoves DEF TransactionInv
<1>7. Held(d, x, db[x], Live)
  BY <1>4, <1>6 DEF Held
<1>8. lock'[x] = r
  BY <1>1, <1>3 DEF Write, TransactionInv, TypeOK, StoreType
<1>9. Due(r, d)'
  <2>1. RenameDue(r, d)'
    BY <1>6, <1>8 DEF RenameDue, Mine
  <2>2. /\ CreateDue(r, d)' /\ DeleteDue(r, d)' /\ CreateInviteDue(r, d)'
        /\ AcceptDue(r, d)' /\ RevokeDue(r, d)' /\ TransferDue(r, d)' /\ LinkDue(r, d)'
        /\ ~Sharing(d)
    BY <1>6 DEF CreateDue, DeleteDue, CreateInviteDue, AcceptDue, RevokeDue, TransferDue,
                LinkDue, Sharing
  <2> QED
    BY <1>1, <1>2, <2>1, <2>2, FirstDue
<1>10. (\A i : x # Invite(i)) /\ Live # Absent
  BY RowsApart DEF Live, Absent
<1> HIDE DEF x
<1> QED
  BY <1>1, <1>2, <1>3, <1>4, <1>5, <1>7, <1>9, <1>10, FirstWriteKeeps

(* create_invite: the new row.                                             *)
LEMMA InsertInviteKeeps ==
  ASSUME TransactionInv, TypeOK', NEW r \in Reqs, InsertInvite(r)
  PROVE  TransactionInv'
<1> DEFINE x == Invite(req[r].arg)
<1>1. /\ req[r].pc = "insert invite" /\ Write(r, x, "pending")
      /\ Goto(r, "reference") /\ share' = share
  BY DEF InsertInvite, AtStatement
<1>2. req[r].pc \in Early /\ req[r].pc \in Statements /\ "reference" \in Statements
  BY <1>1 DEF Early, Statements
<1>3. req[r].op = "create_invite" /\ "reference" \in Course(req[r].op)
  BY <1>1, <1>2, AtItsStatement, StatementOf DEF Course
<1>4. x \in Rows
  BY <1>2, <1>3, AtItsStatement, RowTypes DEF ArgOf
<1>5. db[x] = Absent /\ lock[x] = NoReq
  BY <1>1, <1>2, <1>3, AtItsStatement DEF Due, CreateInviteDue
<1>6. PICK d : d = req'[r]
  OBVIOUS
<1>7. d.op = "create_invite" /\ d.arg = req[r].arg /\ d.pc = "reference"
  BY <1>1, <1>2, <1>3, <1>6, GotoMoves DEF TransactionInv
<1>8. Held(d, x, db[x], "pending")
  BY <1>5, <1>7 DEF Held
<1>9. lock'[x] = r
  BY <1>1, <1>4 DEF Write, TransactionInv, TypeOK, StoreType
<1>10. Due(r, d)'
  <2>1. CreateInviteDue(r, d)'
    BY <1>7, <1>9 DEF CreateInviteDue, Mine
  <2>2. /\ CreateDue(r, d)' /\ RenameDue(r, d)' /\ DeleteDue(r, d)'
        /\ AcceptDue(r, d)' /\ RevokeDue(r, d)' /\ TransferDue(r, d)' /\ LinkDue(r, d)'
        /\ ~Sharing(d)
    BY <1>7 DEF CreateDue, RenameDue, DeleteDue, AcceptDue, RevokeDue, TransferDue,
                LinkDue, Sharing
  <2> QED
    BY <1>1, <1>2, <2>1, <2>2, FirstDue
<1>11. \A g \in Groups : x # GroupRow(g)
  BY RowsApart
<1>12. x = Invite(req[r].arg)
  OBVIOUS
<1> HIDE DEF x
<1> QED
  BY <1>1, <1>2, <1>3, <1>4, <1>5, <1>6, <1>8, <1>10, <1>11, <1>12, FirstWriteKeeps

(* accept_invite: the membership.                                          *)
LEMMA InsertMemberKeeps ==
  ASSUME TransactionInv, TypeOK', NEW r \in Reqs, InsertMember(r), ~Fail(r)
  PROVE  TransactionInv'
<1> DEFINE x == Member(req[r].group, req[r].user)
<1>1. /\ req[r].pc = "insert member" /\ Found(r, x) = Absent /\ Write(r, x, "member")
      /\ Goto(r, "reference") /\ share' = share /\ Writers(r, x) = {}
  BY DEF InsertMember, Ready, AtStatement, Blockers
<1>2. req[r].pc \in Early /\ req[r].pc \in Statements /\ "reference" \in Statements
  BY <1>1 DEF Early, Statements
<1>3. req[r].op = "accept_invite" /\ x \in Rows /\ "reference" \in Course(req[r].op)
  BY <1>1, <1>2, AtItsStatement, StatementOf DEF Course
<1>4. lock[x] \in {r, NoReq} /\ db[x] = Absent
  BY <1>1, <1>2, <1>3, WritersOf, EarlyFound
<1>5. PICK d : d = req'[r]
  OBVIOUS
<1>6. /\ d.op = "accept_invite" /\ d.group = req[r].group /\ d.user = req[r].user
      /\ d.arg = req[r].arg /\ d.pc = "reference"
  BY <1>1, <1>2, <1>3, <1>5, GotoMoves DEF TransactionInv
<1>7. Held(d, x, db[x], "member")
  BY <1>4, <1>6 DEF Held
<1>8. lock'[x] = r /\ db' = db
  BY <1>1, <1>3 DEF Write, TransactionInv, TypeOK, StoreType
<1>9. Due(r, d)'
  <2>1. AcceptDue(r, req[r])
    BY <1>2, AtItsStatement DEF Due
  <2>2. AcceptDue(r, d)'
    BY <1>3, <1>6, <1>8, <2>1 DEF AcceptDue, Mine
  <2>3. /\ CreateDue(r, d)' /\ RenameDue(r, d)' /\ DeleteDue(r, d)' /\ CreateInviteDue(r, d)'
        /\ RevokeDue(r, d)' /\ TransferDue(r, d)' /\ LinkDue(r, d)' /\ ~Sharing(d)
    BY <1>6 DEF CreateDue, RenameDue, DeleteDue, CreateInviteDue, RevokeDue, TransferDue,
                LinkDue, Sharing
  <2> QED
    BY <1>1, <1>2, <2>2, <2>3, FirstDue
<1>10. (\A i : x # Invite(i)) /\ \A g \in Groups : x # GroupRow(g)
  BY RowsApart
<1> HIDE DEF x
<1> QED
  BY <1>1, <1>2, <1>3, <1>4, <1>5, <1>7, <1>9, <1>10, FirstWriteKeeps

(* delete: the group's row, once nobody holds it or refers to it.          *)
LEMMA DeleteGroupKeeps ==
  ASSUME TransactionInv, TypeOK', NEW r \in Reqs, DeleteGroup(r), ~Fail(r)
  PROVE  TransactionInv'
<1> DEFINE x == GroupRow(req[r].group)
<1>1. PICK next : next = IF db[x] = Absent THEN "commit" ELSE "cascade"
  OBVIOUS
<1>2. /\ req[r].pc = "delete group" /\ LinkedProjects(req[r].group) = {}
      /\ Update(r, x, Absent) /\ Goto(r, next) /\ share' = share /\ Holders(r, x) = {}
  BY <1>1 DEF DeleteGroup, Ready, AtStatement, Blockers
<1>3. /\ req[r].pc \in Early /\ req[r].pc \in Statements
      /\ "commit" \in Statements /\ "cascade" \in Statements
  BY <1>2 DEF Early, Statements
<1>4. /\ req[r].op = "delete" /\ x \in Rows /\ req[r].group \in Groups
      /\ "commit" \in Course(req[r].op) /\ "cascade" \in Course(req[r].op)
  BY <1>2, <1>3, AtItsStatement, StatementOf DEF Course
<1>5. lock[x] \in {r, NoReq} /\ Found(r, x) = db[x] /\ share[x] = {}
  <2>1. Writers(r, x) = {} /\ share[x] \ {r} = {}
    BY <1>2 DEF Holders
  <2>2. r \notin share[x]
    BY <1>3, <1>4, EarlyHoldsNothing
  <2> QED
    BY <1>3, <1>4, <2>1, <2>2, WritersOf, EarlyFound
<1>6. PICK d : d = req'[r]
  OBVIOUS
<1>7. d.op = "delete" /\ d.group = req[r].group /\ d.pc = next
  BY <1>2, <1>3, <1>4, <1>6, GotoMoves DEF TransactionInv
<1>8. /\ CreateDue(r, d)' /\ RenameDue(r, d)' /\ CreateInviteDue(r, d)'
      /\ AcceptDue(r, d)' /\ RevokeDue(r, d)' /\ TransferDue(r, d)' /\ LinkDue(r, d)'
      /\ ~Sharing(d)
  BY <1>7 DEF CreateDue, RenameDue, CreateInviteDue, AcceptDue, RevokeDue, TransferDue,
              LinkDue, Sharing
<1>9. db' = db
  BY <1>2 DEF Update, Write
<1>10. CASE db[x] = Absent
  <2>1. UNCHANGED store
    BY <1>2, <1>5, <1>10 DEF Update, store
  <2>2. DeleteDue(r, d)'
    <3>1. \A y \in Children(req[r].group) : db[y] = Absent
      BY <1>4, <1>10, ChildRows DEF TransactionInv, KnownGroup, Refers
    <3> QED
      BY <1>1, <1>2, <1>4, <1>7, <1>9, <1>10, <3>1 DEF DeleteDue, LinkedProjects
  <2>3. Due(r, d)'
    BY <1>2, <1>3, <1>8, <2>2, FirstDue
  <2>4. next \in Statements /\ next \in Course(req[r].op)
    BY <1>1, <1>3, <1>4
  <2> QED
    BY <1>2, <1>3, <1>4, <1>6, <2>1, <2>3, <2>4, NoWriteKeeps
<1>11. CASE db[x] # Absent
  <2>1. Write(r, x, Absent) /\ next = "cascade"
    BY <1>1, <1>2, <1>5, <1>11 DEF Update
  <2>2. lock'[x] = r
    BY <1>4, <2>1 DEF Write, TransactionInv, TypeOK, StoreType
  <2>3. DeleteDue(r, d)'
    BY <1>2, <1>7, <1>9, <2>1, <2>2 DEF DeleteDue, LinkedProjects, Mine
  <2>4. Due(r, d)'
    BY <1>2, <1>3, <1>8, <2>3, FirstDue
  <2>5. Held(d, x, db[x], Absent)
    BY <1>7, <1>11, <2>1 DEF Held
  <2>6. \A i : x # Invite(i)
    BY RowsApart
  <2>7. next \in Statements /\ next \in Course(req[r].op)
    BY <1>3, <1>4, <2>1
  <2> HIDE DEF x
  <2> QED
    BY <1>2, <1>3, <1>4, <1>5, <1>6, <1>11, <2>1, <2>4, <2>5, <2>6, <2>7, FirstWriteKeeps
<1> QED
  BY <1>10, <1>11

(* revoke_invite: the mark, if the invite is still there.                   *)
LEMMA MarkRevokedKeeps ==
  ASSUME TransactionInv, TypeOK', NEW r \in Reqs, MarkRevoked(r)
  PROVE  TransactionInv'
<1> DEFINE x == Invite(req[r].arg)
<1>1. /\ req[r].pc = "mark revoked" /\ Update(r, x, Mark(Found(r, x), "revoked"))
      /\ Goto(r, "commit") /\ share' = share /\ Writers(r, x) = {}
  BY DEF MarkRevoked, Ready, AtStatement, Blockers
<1>2. req[r].pc \in Early /\ req[r].pc \in Statements /\ "commit" \in Statements
  BY <1>1 DEF Early, Statements
<1>3. req[r].op = "revoke_invite" /\ "commit" \in Course(req[r].op)
  BY <1>1, <1>2, AtItsStatement, StatementOf DEF Course
<1>4. x \in Rows
  BY <1>2, <1>3, AtItsStatement, RowTypes DEF ArgOf
<1>5. lock[x] \in {r, NoReq} /\ Found(r, x) = db[x]
  BY <1>1, <1>2, <1>4, WritersOf, EarlyFound
<1>6. PICK d : d = req'[r]
  OBVIOUS
<1>7. /\ d.op = "revoke_invite" /\ d.group = req[r].group /\ d.user = req[r].user
      /\ d.arg = req[r].arg /\ d.pc = "commit"
  BY <1>1, <1>2, <1>3, <1>6, GotoMoves DEF TransactionInv
<1>8. /\ CreateDue(r, d)' /\ RenameDue(r, d)' /\ DeleteDue(r, d)'
      /\ CreateInviteDue(r, d)' /\ AcceptDue(r, d)' /\ TransferDue(r, d)' /\ LinkDue(r, d)'
      /\ ~Sharing(d)
  BY <1>7 DEF CreateDue, RenameDue, DeleteDue, CreateInviteDue, AcceptDue, TransferDue,
              LinkDue, Sharing
<1>9. \A g : x # GroupRow(g)
  BY RowsApart
<1>10. CASE db[x] = Absent
  <2>1. UNCHANGED store
    BY <1>1, <1>5, <1>10 DEF Update, store
  <2>2. RevokeDue(r, d)'
    BY <1>7, <1>10, <2>1 DEF RevokeDue, store
  <2>3. Due(r, d)'
    BY <1>1, <1>2, <1>8, <2>2, FirstDue
  <2> HIDE DEF x
  <2> QED
    BY <1>1, <1>2, <1>3, <1>6, <2>1, <2>3, NoWriteKeeps
<1>11. CASE db[x] # Absent
  <2>1. Write(r, x, Mark(Found(r, x), "revoked"))
    BY <1>1, <1>5, <1>11 DEF Update
  <2>2. lock'[x] = r
    BY <1>4, <2>1 DEF Write, TransactionInv, TypeOK, StoreType
  <2>3. RevokeDue(r, d)'
    BY <1>7, <2>2 DEF RevokeDue, Mine
  <2>4. Due(r, d)'
    BY <1>1, <1>2, <1>8, <2>3, FirstDue
  <2>5. Held(d, x, db[x], Mark(Found(r, x), "revoked"))
    BY <1>5, <1>7, <1>11 DEF Held
  <2> HIDE DEF x
  <2> QED
    BY <1>1, <1>2, <1>3, <1>4, <1>5, <1>6, <1>9, <1>11, <2>1, <2>4, <2>5, FirstWriteKeeps
<1> QED
  BY <1>10, <1>11

(* remove_member and leave: the membership, if it is still there.           *)
LEMMA DeleteMemberKeeps ==
  ASSUME TransactionInv, TypeOK', NEW r \in Reqs, DeleteMember(r)
  PROVE  TransactionInv'
<1> DEFINE x == Member(req[r].group, req[r].arg)
<1>1. /\ req[r].pc = "delete member" /\ Update(r, x, Absent)
      /\ Goto(r, "commit") /\ share' = share /\ Writers(r, x) = {}
  BY DEF DeleteMember, Ready, AtStatement, Blockers
<1>2. req[r].pc \in Early /\ req[r].pc \in Statements /\ "commit" \in Statements
  BY <1>1 DEF Early, Statements
<1>3. req[r].op \in {"remove_member", "leave"} /\ "commit" \in Course(req[r].op)
  BY <1>1, <1>2, AtItsStatement, StatementOf DEF Course
<1>4. x \in Rows
  BY <1>2, <1>3, AtItsStatement, RowTypes DEF ArgOf
<1>5. lock[x] \in {r, NoReq} /\ Found(r, x) = db[x]
  BY <1>1, <1>2, <1>4, WritersOf, EarlyFound
<1>6. PICK d : d = req'[r]
  OBVIOUS
<1>7. /\ d.op \in {"remove_member", "leave"} /\ d.group = req[r].group /\ d.user = req[r].user
      /\ d.arg = req[r].arg /\ d.pc = "commit"
  BY <1>1, <1>2, <1>3, <1>6, GotoMoves DEF TransactionInv
<1>8. /\ CreateDue(r, d)' /\ RenameDue(r, d)' /\ DeleteDue(r, d)'
      /\ CreateInviteDue(r, d)' /\ AcceptDue(r, d)' /\ RevokeDue(r, d)'
      /\ TransferDue(r, d)' /\ LinkDue(r, d)'
      /\ ~Sharing(d)
  BY <1>7 DEF CreateDue, RenameDue, DeleteDue, CreateInviteDue, AcceptDue, RevokeDue,
              TransferDue, LinkDue, Sharing
<1>9. \A g : x # GroupRow(g)
  BY RowsApart
<1>10. CASE db[x] = Absent
  <2>1. UNCHANGED store
    BY <1>1, <1>5, <1>10 DEF Update, store
  <2>3. Due(r, d)'
    BY <1>1, <1>2, <1>8, FirstDue
  <2> HIDE DEF x
  <2> QED
    BY <1>1, <1>2, <1>3, <1>6, <2>1, <2>3, NoWriteKeeps
<1>11. CASE db[x] # Absent
  <2>1. Write(r, x, Absent)
    BY <1>1, <1>5, <1>11 DEF Update
  <2>2. lock'[x] = r
    BY <1>4, <2>1 DEF Write, TransactionInv, TypeOK, StoreType
  <2>4. Due(r, d)'
    BY <1>1, <1>2, <1>8, FirstDue
  <2>5. Held(d, x, db[x], Absent)
    BY <1>5, <1>7, <1>11 DEF Held
  <2> HIDE DEF x
  <2> QED
    BY <1>1, <1>2, <1>3, <1>4, <1>5, <1>6, <1>9, <1>11, <2>1, <2>4, <2>5, FirstWriteKeeps
<1> QED
  BY <1>10, <1>11

(* transfer_ownership: the caller is demoted, if he is still there.         *)
LEMMA DemoteKeeps ==
  ASSUME TransactionInv, TypeOK', NEW r \in Reqs, Demote(r)
  PROVE  TransactionInv'
<1> DEFINE x == Member(req[r].group, req[r].user)
<1>1. /\ req[r].pc = "demote" /\ Update(r, x, "member")
      /\ Goto(r, "promote") /\ share' = share /\ Writers(r, x) = {}
  BY DEF Demote, Ready, AtStatement, Blockers
<1>2. req[r].pc \in Early /\ req[r].pc \in Statements /\ "promote" \in Statements
  BY <1>1 DEF Early, Statements
<1>3. req[r].op = "transfer_ownership" /\ "promote" \in Course(req[r].op)
  BY <1>1, <1>2, AtItsStatement, StatementOf DEF Course
<1>4. x \in Rows
  BY <1>2, <1>3, AtItsStatement, RowTypes DEF ArgOf
<1>5. lock[x] \in {r, NoReq} /\ Found(r, x) = db[x]
  BY <1>1, <1>2, <1>4, WritersOf, EarlyFound
<1>6. PICK d : d = req'[r]
  OBVIOUS
<1>7. /\ d.op = "transfer_ownership" /\ d.group = req[r].group /\ d.user = req[r].user
      /\ d.arg = req[r].arg /\ d.pc = "promote"
  BY <1>1, <1>2, <1>3, <1>6, GotoMoves DEF TransactionInv
<1>8. /\ CreateDue(r, d)' /\ RenameDue(r, d)' /\ DeleteDue(r, d)'
      /\ CreateInviteDue(r, d)' /\ AcceptDue(r, d)' /\ RevokeDue(r, d)'
      /\ TransferDue(r, d)' /\ LinkDue(r, d)'
      /\ ~Sharing(d)
  BY <1>7 DEF CreateDue, RenameDue, DeleteDue, CreateInviteDue, AcceptDue, RevokeDue,
              TransferDue, LinkDue, Sharing
<1>9. \A g : x # GroupRow(g)
  BY RowsApart
<1>10. CASE db[x] = Absent
  <2>1. UNCHANGED store
    BY <1>1, <1>5, <1>10 DEF Update, store
  <2>3. Due(r, d)'
    BY <1>1, <1>2, <1>8, FirstDue
  <2> HIDE DEF x
  <2> QED
    BY <1>1, <1>2, <1>3, <1>6, <2>1, <2>3, NoWriteKeeps
<1>11. CASE db[x] # Absent
  <2>1. Write(r, x, "member")
    BY <1>1, <1>5, <1>11 DEF Update
  <2>2. lock'[x] = r
    BY <1>4, <2>1 DEF Write, TransactionInv, TypeOK, StoreType
  <2>4. Due(r, d)'
    BY <1>1, <1>2, <1>8, FirstDue
  <2>5. Held(d, x, db[x], "member")
    BY <1>5, <1>7, <1>11 DEF Held
  <2> HIDE DEF x
  <2> QED
    BY <1>1, <1>2, <1>3, <1>4, <1>5, <1>6, <1>9, <1>11, <2>1, <2>4, <2>5, FirstWriteKeeps
<1> QED
  BY <1>10, <1>11

(* link_project: the project gets its group.                                *)
LEMMA SetGroupKeeps ==
  ASSUME TransactionInv, TypeOK', NEW r \in Reqs, SetGroup(r), ~Fail(r)
  PROVE  TransactionInv'
<1> DEFINE x == Project(req[r].arg)
<1>1. /\ req[r].pc = "set group" /\ Found(r, x) # Absent /\ Write(r, x, req[r].group)
      /\ Goto(r, "reference") /\ share' = share /\ Writers(r, x) = {}
  BY DEF SetGroup, Ready, AtStatement, Blockers
<1>2. req[r].pc \in Early /\ req[r].pc \in Statements /\ "reference" \in Statements
  BY <1>1 DEF Early, Statements
<1>3. req[r].op = "link_project" /\ "reference" \in Course(req[r].op)
  BY <1>1, <1>2, AtItsStatement, StatementOf DEF Course
<1>4. x \in Rows
  BY <1>2, <1>3, AtItsStatement, RowTypes DEF ArgOf
<1>5. lock[x] \in {r, NoReq} /\ Found(r, x) = db[x]
  BY <1>1, <1>2, <1>4, WritersOf, EarlyFound
<1>6. PICK d : d = req'[r]
  OBVIOUS
<1>7. /\ d.op = "link_project" /\ d.group = req[r].group /\ d.user = req[r].user
      /\ d.arg = req[r].arg /\ d.pc = "reference"
  BY <1>1, <1>2, <1>3, <1>6, GotoMoves DEF TransactionInv
<1>8. /\ CreateDue(r, d)' /\ RenameDue(r, d)' /\ DeleteDue(r, d)'
      /\ CreateInviteDue(r, d)' /\ AcceptDue(r, d)' /\ RevokeDue(r, d)' /\ TransferDue(r, d)'
      /\ ~Sharing(d)
  BY <1>7 DEF CreateDue, RenameDue, DeleteDue, CreateInviteDue, AcceptDue, RevokeDue,
              TransferDue, Sharing
<1>9. \A g : x # GroupRow(g)
  BY RowsApart
<1>11. db[x] # Absent
  BY <1>1, <1>5
<1>12. TransactionInv'
  <2>1. Write(r, x, req[r].group)
    BY <1>1
  <2>2. lock'[x] = r
    BY <1>4, <2>1 DEF Write, TransactionInv, TypeOK, StoreType
  <2>3. LinkDue(r, d)'
    BY <1>7, <2>2 DEF LinkDue, Mine
  <2>4. Due(r, d)'
    BY <1>1, <1>2, <1>8, <2>3, FirstDue
  <2>5. Held(d, x, db[x], req[r].group)
    BY <1>5, <1>7, <1>11 DEF Held
  <2> HIDE DEF x
  <2> QED
    BY <1>1, <1>2, <1>3, <1>4, <1>5, <1>6, <1>9, <1>11, <2>1, <2>4, <2>5, FirstWriteKeeps
<1> QED
  BY <1>12

(* unlink_project: the project loses it.                                    *)
LEMMA ClearGroupKeeps ==
  ASSUME TransactionInv, TypeOK', NEW r \in Reqs, ClearGroup(r), ~Fail(r)
  PROVE  TransactionInv'
<1> DEFINE x == Project(req[r].arg)
<1>1. /\ req[r].pc = "clear group" /\ Found(r, x) # Absent /\ Write(r, x, Unlinked)
      /\ Goto(r, "commit") /\ share' = share /\ Writers(r, x) = {}
  BY DEF ClearGroup, Ready, AtStatement, Blockers
<1>2. req[r].pc \in Early /\ req[r].pc \in Statements /\ "commit" \in Statements
  BY <1>1 DEF Early, Statements
<1>3. req[r].op = "unlink_project" /\ "commit" \in Course(req[r].op)
  BY <1>1, <1>2, AtItsStatement, StatementOf DEF Course
<1>4. x \in Rows
  BY <1>2, <1>3, AtItsStatement, RowTypes DEF ArgOf
<1>5. lock[x] \in {r, NoReq} /\ Found(r, x) = db[x]
  BY <1>1, <1>2, <1>4, WritersOf, EarlyFound
<1>6. PICK d : d = req'[r]
  OBVIOUS
<1>7. /\ d.op = "unlink_project" /\ d.group = req[r].group /\ d.user = req[r].user
      /\ d.arg = req[r].arg /\ d.pc = "commit"
  BY <1>1, <1>2, <1>3, <1>6, GotoMoves DEF TransactionInv
<1>8. /\ CreateDue(r, d)' /\ RenameDue(r, d)' /\ DeleteDue(r, d)'
      /\ CreateInviteDue(r, d)' /\ AcceptDue(r, d)' /\ RevokeDue(r, d)' /\ TransferDue(r, d)'
      /\ ~Sharing(d)
  BY <1>7 DEF CreateDue, RenameDue, DeleteDue, CreateInviteDue, AcceptDue, RevokeDue,
              TransferDue, Sharing
<1>9. \A g : x # GroupRow(g)
  BY RowsApart
<1>11. db[x] # Absent
  BY <1>1, <1>5
<1>12. TransactionInv'
  <2>1. Write(r, x, Unlinked)
    BY <1>1
  <2>2. lock'[x] = r
    BY <1>4, <2>1 DEF Write, TransactionInv, TypeOK, StoreType
  <2>3. LinkDue(r, d)'
    BY <1>7, <2>2 DEF LinkDue, Mine
  <2>4. Due(r, d)'
    BY <1>1, <1>2, <1>8, <2>3, FirstDue
  <2>5. Held(d, x, db[x], Unlinked)
    BY <1>5, <1>7, <1>11 DEF Held
  <2> HIDE DEF x
  <2> QED
    BY <1>1, <1>2, <1>3, <1>4, <1>5, <1>6, <1>9, <1>11, <2>1, <2>4, <2>5, FirstWriteKeeps
<1> QED
  BY <1>12

-----------------------------------------------------------------------------
(* Statements of a request that holds rows already.                        *)

(* The cascade takes one more child, and stays at its statement.           *)
LEMMA CascadeRowKeeps ==
  ASSUME TransactionInv, TypeOK', NEW r \in Reqs, NEW x \in Rows, CascadeRow(r, x)
  PROVE  TransactionInv'
<1>1. /\ req[r].pc = "cascade" /\ x \in Children(req[r].group) /\ Found(r, x) # Absent
      /\ Writers(r, x) = {} /\ Write(r, x, Absent) /\ share' = share /\ req' = req
  BY DEF CascadeRow, AtStatement, CascadeRows
<1>2. req[r].pc \in Statements
  BY <1>1 DEF Statements
<1>3. req[r].op = "delete" /\ req[r].group \in Groups
  BY <1>1, <1>2, AtItsStatement, StatementOf
<1>4. lock[x] = NoReq /\ db[x] # Absent
  <2>1. lock[x] # r
    <3>1. lock[x] = r => latest[x] = Absent
      BY <1>3, HolderKnows DEF Held
    <3> QED
      BY <1>1, <3>1 DEF Found
  <2> QED
    BY <1>1, <2>1, WritersOf DEF Found
<1>5. Writes(r, {x}) /\ latest'[x] = Absent /\ {x} \in SUBSET Rows
  BY <1>1, <1>4, WriteIsWrites DEF TransactionInv
<1>6. Allowed(r, {x})
  <2>1. Held(req'[r], x, db[x], latest'[x])
    BY <1>1, <1>3, <1>4, <1>5 DEF Held
  <2>2. \A y \in Rows : lock[y] = r => Held(req'[r], y, db[y], latest[y])
    BY <1>1, HolderKnows
  <2>3. \A q \in Reqs \ {r} : Under(req[q]) /\ req[q].op = "create_invite" =>
          Invite(req[q].arg) # x
    BY <1>4, NewRows
  <2>4. \A g \in Groups : GroupRow(g) # x
    BY <1>1, <1>3, ChildRows
  <2> QED
    BY <2>1, <2>2, <2>3, <2>4 DEF Allowed
<1>7. PICK d : d = req[r]
  OBVIOUS
<1>8. Fits(d) /\ Due(r, d) /\ Under(d) /\ req'[r] = d
  BY <1>1, <1>2, <1>7, AtItsStatement
<1>9. Due(r, d)'
  <2>1. GroupRow(d.group) \in Rows /\ GroupRow(d.group) # x
    BY <1>1, <1>3, <1>7, ChildRows, RowTypes
  <2>2. DeleteDue(r, d)'
    BY <1>1, <1>3, <1>5, <1>7, <1>8, <2>1 DEF Due, DeleteDue, LinkedProjects, Mine, Writes
  <2>3. ShareDue(r, d)'
    BY <1>1, <1>8 DEF Due, ShareDue
  <2>4. /\ CreateDue(r, d)' /\ RenameDue(r, d)' /\ CreateInviteDue(r, d)'
        /\ AcceptDue(r, d)' /\ RevokeDue(r, d)' /\ TransferDue(r, d)' /\ LinkDue(r, d)'
        /\ ~Sharing(d)
    BY <1>3, <1>7 DEF CreateDue, RenameDue, CreateInviteDue, AcceptDue, RevokeDue, TransferDue,
                LinkDue, Sharing
  <2> QED
    BY <2>2, <2>3, <2>4 DEF Due
<1>10. KnownRequest(r)'
  BY <1>1, <1>8, <1>9 DEF KnownRequest, TransactionInv
<1>11. \A q \in Reqs \ {r} : Under(req[q]) /\ Under(req'[r]) => Apart(req[q], req'[r])
  BY <1>1 DEF KnownRequest, TransactionInv
<1>12. OthersStay(r)
  BY <1>1 DEF OthersStay
<1> QED
  BY <1>5, <1>6, <1>10, <1>11, <1>12, WriteKeeps

(* The cascade is done when every child that is there has been taken.      *)
LEMMA CascadeDoneKeeps ==
  ASSUME TransactionInv, TypeOK', NEW r \in Reqs, CascadeDone(r)
  PROVE  TransactionInv'
<1>1. /\ req[r].pc = "cascade" /\ CascadeRows(r, req[r].group) = {}
      /\ Goto(r, "commit") /\ UNCHANGED store
  BY DEF CascadeDone, AtStatement
<1>2. req[r].pc \in Statements /\ "commit" \in Statements
  BY <1>1 DEF Statements
<1>3. req[r].op = "delete" /\ "commit" \in Course(req[r].op) /\ req[r].group \in Groups
  BY <1>1, <1>2, AtItsStatement, StatementOf DEF Course
<1>4. PICK d : d = req'[r]
  OBVIOUS
<1>5. d.op = "delete" /\ d.group = req[r].group /\ d.pc = "commit"
  BY <1>1, <1>2, <1>3, <1>4, GotoMoves DEF TransactionInv
<1>6. Writes(r, {}) /\ {} \in SUBSET Rows
  BY <1>1 DEF Writes, store
<1>7. Allowed(r, {})
  <2>1. \A y \in Rows : lock[y] = r => Held(req[r], y, db[y], latest[y])
    BY HolderKnows
  <2>2. \A y \in Rows : lock[y] = r => Held(d, y, db[y], latest[y])
    BY <1>1, <1>3, <1>5, <2>1 DEF Held
  <2> QED
    BY <1>4, <2>2 DEF Allowed
<1>8. Due(r, d)'
  <2>1. Due(r, req[r])
    BY <1>2, AtItsStatement
  <2>2. \A x \in Children(req[r].group) : db[x] # Absent => lock[x] = r
    BY <1>1 DEF CascadeRows, Found
  <2>3. DeleteDue(r, d)'
    BY <1>1, <1>3, <1>5, <2>1, <2>2 DEF Due, DeleteDue, LinkedProjects, Mine, store
  <2>4. ShareDue(r, d)'
    BY <1>1, <1>3, <1>5, <2>1 DEF Due, ShareDue, Sharing, store
  <2>5. /\ CreateDue(r, d)' /\ RenameDue(r, d)' /\ CreateInviteDue(r, d)'
        /\ AcceptDue(r, d)' /\ RevokeDue(r, d)' /\ TransferDue(r, d)' /\ LinkDue(r, d)'
        /\ ~Sharing(d)
    BY <1>5 DEF CreateDue, RenameDue, CreateInviteDue, AcceptDue, RevokeDue, TransferDue,
                LinkDue, Sharing
  <2> QED
    BY <2>3, <2>4, <2>5 DEF Due
<1> QED
  BY <1>1, <1>2, <1>3, <1>4, <1>6, <1>7, <1>8, StatementKeeps

(* create_invite: the attempt is recorded, the row stays its own.          *)
LEMMA RecordKeeps ==
  ASSUME TransactionInv, TypeOK', NEW r \in Reqs, RecordInviteAttempt(r)
  PROVE  TransactionInv'
<1>1. req[r].pc = "record" /\ Goto(r, "commit") /\ UNCHANGED store
  BY DEF RecordInviteAttempt, AtStatement
<1>2. req[r].pc \in Statements /\ "commit" \in Statements
  BY <1>1 DEF Statements
<1>3. req[r].op = "create_invite" /\ "commit" \in Course(req[r].op)
  BY <1>1, <1>2, AtItsStatement, StatementOf DEF Course
<1>4. PICK d : d = req'[r]
  OBVIOUS
<1>5. d.op = "create_invite" /\ d.group = req[r].group /\ d.arg = req[r].arg /\ d.pc = "commit"
  BY <1>1, <1>2, <1>3, <1>4, GotoMoves DEF TransactionInv
<1>6. Writes(r, {}) /\ {} \in SUBSET Rows
  BY <1>1 DEF Writes, store
<1>7. Allowed(r, {})
  <2>1. \A y \in Rows : lock[y] = r => Held(req[r], y, db[y], latest[y])
    BY HolderKnows
  <2>2. \A y \in Rows : lock[y] = r => Held(d, y, db[y], latest[y])
    BY <1>1, <1>3, <1>5, <2>1 DEF Held
  <2> QED
    BY <1>4, <2>2 DEF Allowed
<1>8. Due(r, d)'
  <2>1. Due(r, req[r])
    BY <1>2, AtItsStatement
  <2>2. CreateInviteDue(r, d)'
    BY <1>1, <1>3, <1>5, <2>1 DEF Due, CreateInviteDue, Mine, store
  <2>3. ShareDue(r, d)'
    BY <1>1, <1>3, <1>5, <2>1 DEF Due, ShareDue, Sharing, store
  <2>4. /\ CreateDue(r, d)' /\ RenameDue(r, d)' /\ DeleteDue(r, d)' /\ AcceptDue(r, d)'
        /\ RevokeDue(r, d)' /\ TransferDue(r, d)' /\ LinkDue(r, d)'
    BY <1>5 DEF CreateDue, RenameDue, DeleteDue, AcceptDue, RevokeDue, TransferDue, LinkDue, Sharing
  <2> QED
    BY <2>2, <2>3, <2>4 DEF Due
<1> QED
  BY <1>1, <1>2, <1>3, <1>4, <1>6, <1>7, <1>8, StatementKeeps

(* accept_invite: the invite is there as long as its group is, and the     *)
(* group is held.                                                          *)
LEMMA MarkConsumedKeeps ==
  ASSUME TransactionInv, TypeOK', NEW r \in Reqs, MarkConsumed(r)
  PROVE  TransactionInv'
<1> DEFINE x == Invite(req[r].arg)
           m == Member(req[r].group, req[r].user)
<1>1. /\ req[r].pc = "mark consumed" /\ Update(r, x, Mark(Found(r, x), "consumed"))
      /\ Goto(r, "commit") /\ share' = share /\ Writers(r, x) = {}
  BY DEF MarkConsumed, Ready, AtStatement, Blockers
<1>2. req[r].pc \in Statements /\ "commit" \in Statements
  BY <1>1 DEF Statements
<1>3. /\ req[r].op = "accept_invite" /\ "commit" \in Course(req[r].op)
      /\ req[r].group \in Groups /\ m \in Rows /\ Due(r, req[r])
  BY <1>1, <1>2, AtItsStatement, StatementOf DEF Course
<1>4. x \in Rows /\ x # m /\ \A g : x # GroupRow(g)
  <2>1. x \in Rows
    BY <1>2, <1>3, AtItsStatement, RowTypes DEF ArgOf
  <2>2. x # m /\ \A g : x # GroupRow(g)
    BY RowsApart
  <2> QED
    BY <2>1, <2>2
<1>5. lock[x] = NoReq /\ db[x] # Absent
  <2>1. lock[x] # r
    BY <1>1, <1>3, <1>4, HolderKnows DEF Held
  <2>2. share[GroupRow(req[r].group)] # {}
    BY <1>1, <1>3 DEF Due, ShareDue, Sharing
  <2>3. db[GroupRow(req[r].group)] # Absent
    BY <1>3, <2>2 DEF TransactionInv, KnownGroup
  <2>4. db[x] # Absent
    BY <1>3, <2>3 DEF Due, AcceptDue
  <2> QED
    BY <1>1, <2>1, <2>4, WritersOf
<1>6. Write(r, x, Mark(db[x], "consumed"))
  <2>1. Found(r, x) = db[x]
    BY <1>5, RowStoreAssumption DEF Found
  <2> QED
    BY <1>1, <1>5, <2>1 DEF Update
<1>7. Writes(r, {x}) /\ latest'[x] = Mark(db[x], "consumed") /\ {x} \in SUBSET Rows
  BY <1>1, <1>4, <1>5, <1>6, WriteIsWrites DEF TransactionInv
<1>8. PICK d : d = req'[r]
  OBVIOUS
<1>9. /\ d.op = "accept_invite" /\ d.group = req[r].group /\ d.user = req[r].user
      /\ d.arg = req[r].arg /\ d.pc = "commit"
  BY <1>1, <1>2, <1>3, <1>8, GotoMoves DEF TransactionInv
<1>10. Allowed(r, {x})
  <2>1. Held(d, x, db[x], latest'[x])
    BY <1>5, <1>7, <1>9 DEF Held
  <2>2. \A y \in Rows : lock[y] = r => Held(req[r], y, db[y], latest[y])
    BY HolderKnows
  <2>3. \A y \in Rows : lock[y] = r => Held(d, y, db[y], latest[y])
    BY <1>1, <1>3, <1>9, <2>2 DEF Held
  <2>4. \A q \in Reqs \ {r} : Under(req[q]) /\ req[q].op = "create_invite" =>
          Invite(req[q].arg) # x
    BY <1>5, NewRows
  <2> HIDE DEF x
  <2> QED
    BY <1>4, <1>8, <2>1, <2>3, <2>4 DEF Allowed
<1>11. Due(r, d)'
  <2>1. lock'[m] = r /\ lock'[x] = r
    <3>1. lock[m] = r
      BY <1>1, <1>3 DEF Due, AcceptDue, Mine
    <3> HIDE DEF m, x
    <3> QED
      BY <1>3, <1>4, <1>7, <3>1 DEF Writes
  <2>2. AcceptDue(r, d)'
    BY <1>3, <1>7, <1>9, <2>1 DEF Due, AcceptDue, Mine, Writes
  <2>3. ShareDue(r, d)'
    BY <1>1, <1>3, <1>9 DEF Due, ShareDue, Sharing
  <2>4. /\ CreateDue(r, d)' /\ RenameDue(r, d)' /\ DeleteDue(r, d)'
        /\ CreateInviteDue(r, d)' /\ RevokeDue(r, d)' /\ TransferDue(r, d)' /\ LinkDue(r, d)'
    BY <1>9 DEF CreateDue, RenameDue, DeleteDue, CreateInviteDue, RevokeDue, TransferDue,
                LinkDue, Sharing
  <2> QED
    BY <2>2, <2>3, <2>4 DEF Due
<1> HIDE DEF x, m
<1> QED
  BY <1>1, <1>2, <1>3, <1>7, <1>8, <1>10, <1>11, StatementKeeps

(* transfer_ownership: the new owner's row is locked, if it is still there. *)
LEMMA PromoteKeeps ==
  ASSUME TransactionInv, TypeOK', NEW r \in Reqs, Promote(r)
  PROVE  TransactionInv'
<1> DEFINE x == Member(req[r].group, req[r].arg)
           m == Member(req[r].group, req[r].user)
<1>1. PICK next : next = IF Found(r, x) = Absent THEN "commit" ELSE "one owner"
  OBVIOUS
<1>2. /\ req[r].pc = "promote" /\ Update(r, x, Found(r, x))
      /\ Goto(r, next) /\ share' = share /\ Writers(r, x) = {}
  BY <1>1 DEF Promote, Ready, AtStatement, Blockers
<1>3. req[r].pc \in Statements /\ next \in Statements
  BY <1>1, <1>2 DEF Statements
<1>4. req[r].op = "transfer_ownership" /\ next \in Course(req[r].op) /\ Due(r, req[r])
  BY <1>1, <1>2, <1>3, AtItsStatement, StatementOf DEF Course
<1>5. x \in Rows
  BY <1>3, <1>4, AtItsStatement, RowTypes DEF ArgOf
<1>6. \A y \in Rows : lock[y] = r => y = m /\ latest[y] = "member" /\ db[y] # Absent
  BY <1>2, <1>4, HolderKnows DEF Held
<1>7. PICK d : d = req'[r]
  OBVIOUS
<1>8. /\ d.op = "transfer_ownership" /\ d.group = req[r].group /\ d.user = req[r].user
      /\ d.arg = req[r].arg /\ d.pc = next
  BY <1>2, <1>3, <1>4, <1>7, GotoMoves DEF TransactionInv
<1>9. /\ CreateDue(r, d)' /\ RenameDue(r, d)' /\ DeleteDue(r, d)'
      /\ CreateInviteDue(r, d)' /\ AcceptDue(r, d)' /\ RevokeDue(r, d)' /\ LinkDue(r, d)'
      /\ ~Sharing(d)
  BY <1>8 DEF CreateDue, RenameDue, DeleteDue, CreateInviteDue, AcceptDue, RevokeDue,
              LinkDue, Sharing
<1>10. ShareDue(r, d)'
  BY <1>2, <1>4, <1>9 DEF Due, ShareDue, Sharing
<1>11. CASE Found(r, x) = Absent
  <2>1. UNCHANGED store /\ next = "commit"
    BY <1>1, <1>2, <1>11 DEF Update, store
  <2>2. Writes(r, {}) /\ {} \in SUBSET Rows
    BY <2>1 DEF Writes, store
  <2>3. lock[x] # r
    BY <1>5, <1>6, <1>11 DEF Found, Absent
  <2>4. \A y \in Rows : lock[y] = r => Held(d, y, db[y], latest[y])
    BY <1>6, <1>8, <2>1, <2>3 DEF Held
  <2>5. Allowed(r, {})
    BY <1>7, <2>4 DEF Allowed
  <2>6. Due(r, d)'
    BY <1>8, <1>9, <1>10, <2>1 DEF Due, TransferDue
  <2> QED
    BY <1>2, <1>3, <1>4, <1>7, <2>2, <2>5, <2>6, StatementKeeps
<1>12. CASE Found(r, x) # Absent
  <2>1. Write(r, x, Found(r, x)) /\ next = "one owner" /\ lock[x] \in {r, NoReq}
    BY <1>1, <1>2, <1>12, WritersOf DEF Update
  <2>2. Writes(r, {x}) /\ latest'[x] = Found(r, x) /\ {x} \in SUBSET Rows
    BY <1>2, <1>5, <2>1, WriteIsWrites DEF TransactionInv
  <2>3. Held(d, x, db[x], latest'[x])
    <3>1. CASE lock[x] = r
      BY <1>5, <1>6, <1>8, <2>1, <2>2, <3>1 DEF Held, Found
    <3>2. CASE lock[x] # r
      BY <1>8, <1>12, <2>1, <2>2, <3>2 DEF Held, Found
    <3> QED
      BY <3>1, <3>2
  <2>4. \A y \in Rows : lock[y] = r => Held(d, y, db[y], latest[y])
    BY <1>6, <1>8, <2>1 DEF Held
  <2>5. \A i : x # Invite(i) /\ x # GroupRow(i)
    BY RowsApart
  <2> HIDE DEF x
  <2>6. Allowed(r, {x})
    BY <1>7, <2>3, <2>4, <2>5 DEF Allowed
  <2>7. lock'[x] = r
    BY <2>2 DEF Writes
  <2>8. TransferDue(r, d)'
    BY <1>8, <2>7 DEF TransferDue, Mine, x
  <2>9. Due(r, d)'
    BY <1>9, <1>10, <2>8 DEF Due
  <2> QED
    BY <1>2, <1>3, <1>4, <1>7, <2>2, <2>6, <2>9, StatementKeeps
<1> QED
  BY <1>11, <1>12

(* ... and becomes the owner's.                                            *)
LEMMA OneOwnerKeeps ==
  ASSUME TransactionInv, TypeOK', NEW r \in Reqs, OneOwner(r), ~Fail(r)
  PROVE  TransactionInv'
<1> DEFINE x == Member(req[r].group, req[r].arg)
<1>1. /\ req[r].pc = "one owner" /\ Write(r, x, "owner")
      /\ Goto(r, "commit") /\ share' = share
  BY DEF OneOwner, Ready, AtStatement
<1>2. req[r].pc \in Statements /\ "commit" \in Statements
  BY <1>1 DEF Statements
<1>3. req[r].op = "transfer_ownership" /\ "commit" \in Course(req[r].op) /\ Due(r, req[r])
  BY <1>1, <1>2, AtItsStatement, StatementOf DEF Course
<1>4. x \in Rows
  BY <1>2, <1>3, AtItsStatement, RowTypes DEF ArgOf
<1>5. lock[x] = r /\ db[x] # Absent
  <2>1. lock[x] = r
    BY <1>1, <1>3 DEF Due, TransferDue, Mine
  <2> QED
    BY <1>3, <1>4, <2>1, HolderKnows DEF Held
<1>6. Writes(r, {x}) /\ latest'[x] = "owner" /\ {x} \in SUBSET Rows
  BY <1>1, <1>4, <1>5, WriteIsWrites DEF TransactionInv
<1>7. PICK d : d = req'[r]
  OBVIOUS
<1>8. /\ d.op = "transfer_ownership" /\ d.group = req[r].group /\ d.user = req[r].user
      /\ d.arg = req[r].arg /\ d.pc = "commit"
  BY <1>1, <1>2, <1>3, <1>7, GotoMoves DEF TransactionInv
<1>9. Allowed(r, {x})
  <2>1. Held(d, x, db[x], latest'[x])
    BY <1>5, <1>6, <1>8 DEF Held
  <2>2. \A y \in Rows : lock[y] = r => Held(req[r], y, db[y], latest[y])
    BY HolderKnows
  <2>3. \A y \in Rows \ {x} : lock[y] = r => Held(d, y, db[y], latest[y])
    BY <1>1, <1>3, <1>8, <2>2 DEF Held
  <2>4. \A i : x # Invite(i) /\ x # GroupRow(i)
    BY RowsApart
  <2> HIDE DEF x
  <2> QED
    BY <1>7, <2>1, <2>3, <2>4 DEF Allowed
<1>10. Due(r, d)'
  <2>1. ShareDue(r, d)'
    BY <1>1, <1>3, <1>8 DEF Due, ShareDue, Sharing
  <2>2. /\ CreateDue(r, d)' /\ RenameDue(r, d)' /\ DeleteDue(r, d)'
        /\ CreateInviteDue(r, d)' /\ AcceptDue(r, d)' /\ RevokeDue(r, d)'
        /\ TransferDue(r, d)' /\ LinkDue(r, d)'
    BY <1>8 DEF CreateDue, RenameDue, DeleteDue, CreateInviteDue, AcceptDue, RevokeDue,
                TransferDue, LinkDue, Sharing
  <2> QED
    BY <2>1, <2>2 DEF Due
<1> HIDE DEF x
<1> QED
  BY <1>1, <1>2, <1>3, <1>6, <1>7, <1>9, <1>10, StatementKeeps

-----------------------------------------------------------------------------
(* The reference of a new row, and the end of a transaction.               *)

(* Who holds a group's row, and for what.                                  *)
LEMMA GroupHolder ==
  ASSUME TransactionInv, NEW g \in Groups, NEW r \in Reqs, lock[GroupRow(g)] = r
  PROVE  /\ Under(req[r]) /\ req[r].group = g /\ req[r].op \in {"create", "rename", "delete"}
         /\ latest[GroupRow(g)] = Absent <=> req[r].op = "delete"
         /\ db[GroupRow(g)] = Absent <=> req[r].op = "create"
<1>1. Under(req[r]) /\ Held(req[r], GroupRow(g), db[GroupRow(g)], latest[GroupRow(g)])
  BY HolderKnows, RowTypes
<1>2. /\ \A h : GroupRow(h) = GroupRow(g) => h = g
      /\ \A h, u : GroupRow(g) # Member(h, u)
      /\ \A i : GroupRow(g) # Invite(i) /\ GroupRow(g) # Project(i)
  BY RowsApart
<1>3. GroupRow(g) \notin Children(req[r].group)
  BY <1>2 DEF Children
<1>4. Live # Absent
  BY DEF Live, Absent
<1> QED
  BY <1>1, <1>2, <1>3, <1>4 DEF Held

(* A group whose deletion has begun is shared by nobody.                   *)
LEMMA DeletionIsAlone ==
  ASSUME TransactionInv, NEW q \in Reqs, req[q].op = "delete",
         req[q].pc \in {"cascade", "commit"}
  PROVE  share[GroupRow(req[q].group)] = {}
<1>1. req[q].pc \in Statements
  BY DEF Statements
<1>2. DeleteDue(q, req[q]) /\ req[q].group \in Groups
  BY <1>1, AtItsStatement DEF Due
<1>3. db[GroupRow(req[q].group)] = Absent \/ latest[GroupRow(req[q].group)] = Absent
  BY <1>2, GroupHolder DEF DeleteDue, Mine
<1> QED
  BY <1>2, <1>3 DEF TransactionInv, KnownGroup

(* A transaction that refers to a group for the first time has created it, *)
(* or holds it.                                                            *)
LEMMA NewReference ==
  ASSUME TransactionInv, NEW r \in Reqs, req[r].pc = "commit", NEW g \in Groups,
         NEW x \in Rows, lock[x] = r, ~Refers(g, x, db[x]), Refers(g, x, latest[x])
  PROVE  /\ req[r].group = g
         /\ req[r].op = "create" \/ share[GroupRow(g)] # {}
<1>1. Held(req[r], x, db[x], latest[x])
  BY HolderKnows
<1>2. req[r].pc \in Statements
  BY DEF Statements
<1>3. /\ Fits(req[r]) /\ Due(r, req[r]) /\ req[r].group \in Groups
      /\ req[r].user \in Users /\ req[r].arg \in ArgOf(req[r].op)
  BY <1>2, AtItsStatement
<1>4. CASE x \in Children(g)
  <2>1. db[x] = Absent /\ latest[x] # Absent
    BY <1>4 DEF Refers
  <2>2. \A h : x # GroupRow(h) /\ x # Project(h)
    BY <1>4, ChildRows
  <2>3. \/ req[r].op \in {"create", "accept_invite"} /\ x = Member(req[r].group, req[r].user)
        \/ req[r].op = "create_invite" /\ x = Invite(req[r].arg)
    BY <1>1, <2>1, <2>2 DEF Held
  <2>4. req[r].group = g
    BY <1>3, <1>4, <2>3, ChildRows DEF Fits
  <2> QED
    BY <1>3, <2>3, <2>4 DEF Due, ShareDue, Sharing
<1>5. CASE x \in ProjectRows /\ latest[x] = g
  <2>1. \E p \in Projects : x = Project(p)
    BY <1>5 DEF ProjectRows
  <2>2. \A h, u : x # GroupRow(h) /\ x # Invite(h) /\ x # Member(h, u)
    BY <2>1, RowsApart
  <2>3. x \notin Children(req[r].group)
    BY <2>2 DEF Children
  <2>4. req[r].op = "link_project" /\ req[r].group = g
    BY <1>1, <1>5, <2>2, <2>3, GroupsAssumption DEF Held
  <2> QED
    BY <1>3, <2>4 DEF Due, ShareDue, Sharing
<1> QED
  BY <1>4, <1>5 DEF Refers

(* A reference that is found holds its group, which nobody deletes.        *)
LEMMA CheckReferenceKeeps ==
  ASSUME TransactionInv, TypeOK', NEW r \in Reqs, CheckReference(r), ~Fail(r)
  PROVE  TransactionInv'
<1> DEFINE x == GroupRow(req[r].group)
<1>1. PICK next : next = AfterReference(req[r].op)
  OBVIOUS
<1>2. /\ req[r].pc = "reference" /\ Found(r, x) # Absent /\ KeyShare(r, x)
      /\ Goto(r, next) /\ UNCHANGED <<db, latest, lock>> /\ Deleters(r, x) = {}
  BY <1>1 DEF CheckReference, Ready, AtStatement, Blockers
<1>3. req[r].pc \in Statements
  BY <1>2 DEF Statements
<1>4. /\ req[r].op \in {"create_invite", "accept_invite", "link_project"}
      /\ req[r].group \in Groups /\ x \in Rows
      /\ Fits(req[r]) /\ Due(r, req[r]) /\ Under(req[r])
  BY <1>2, <1>3, AtItsStatement, StatementOf
<1>5. /\ next \in {"record", "mark consumed", "commit"} /\ next \in Course(req[r].op)
      /\ req[r].op = "create_invite" => next = "record"
      /\ req[r].op = "accept_invite" => next = "mark consumed"
      /\ req[r].op = "link_project" => next = "commit"
  BY <1>1, <1>4 DEF AfterReference, Course
<1>6. db[x] # Absent /\ latest[x] # Absent
  <2>1. lock[x] # r
    BY <1>4, GroupHolder
  <2>2. db[x] # Absent
    BY <1>2, <2>1 DEF Found
  <2>3. latest[x] = Absent => lock[x] \in {r, NoReq}
    BY <1>2 DEF Deleters, Writers
  <2>4. lock[x] = NoReq => latest[x] = db[x]
    BY <1>4 DEF TransactionInv, Clean, TypeOK, StoreType
  <2> QED
    BY <2>1, <2>2, <2>3, <2>4
<1>7. PICK d : d = req'[r]
  OBVIOUS
<1>8. /\ d.op = req[r].op /\ d.group = req[r].group /\ d.user = req[r].user
      /\ d.arg = req[r].arg /\ d.seen = req[r].seen /\ d.seenArg = req[r].seenArg
      /\ d.pc = next /\ OthersStay(r)
  BY <1>2, <1>3, <1>7, GotoMoves DEF TransactionInv, OthersStay
<1>9. Under(d) /\ Fits(d) /\ Sharing(d)
  BY <1>4, <1>5, <1>8 DEF Under, Fits, Sharing, Statements
<1>10. \A y \in Rows : share'[y] = IF y = x THEN share[y] \union {r} ELSE share[y]
  BY <1>2 DEF KeyShare, TransactionInv, TypeOK, StoreType
<1>11. ASSUME NEW y \in Rows PROVE HeldRow(y)'
  <2> SUFFICES ASSUME lock[y] # NoReq PROVE Held(req'[lock[y]], y, db[y], latest[y])
    BY <1>2 DEF HeldRow
  <2>1. lock[y] \in Reqs
    BY DEF TransactionInv, TypeOK, StoreType
  <2>2. Held(req[lock[y]], y, db[y], latest[y])
    BY <2>1, HolderKnows
  <2>3. CASE lock[y] = r
    BY <1>2, <1>4, <1>5, <1>7, <1>8, <2>2, <2>3 DEF Held
  <2>4. CASE lock[y] # r
    BY <1>8, <2>1, <2>2, <2>4 DEF OthersStay
  <2> QED
    BY <2>3, <2>4
<1>12. ASSUME NEW q \in Reqs, NEW c, c = req'[q], Under(c)
       PROVE  Fits(c) /\ Due(q, c)'
  <2>1. CASE q # r
    <3>1. c = req[q] /\ Fits(c) /\ Due(q, c)
      BY <1>8, <1>12, <2>1 DEF OthersStay, TransactionInv, KnownRequest
    <3>2. ShareDue(q, c)'
      <4>1. c.group \in Groups
        BY <1>12, <3>1, AtItsStatement DEF Under
      <4>2. GroupRow(c.group) \in Rows
        BY <4>1, RowTypes
      <4> QED
        BY <1>10, <2>1, <3>1, <4>2 DEF Due, ShareDue
    <3> QED
      BY <1>2, <3>1, <3>2
         DEF Due, CreateDue, RenameDue, DeleteDue, CreateInviteDue, AcceptDue, RevokeDue,
             TransferDue, LinkDue, LinkedProjects, Mine
  <2>2. CASE q = r
    <3>1. c = d
      BY <1>7, <1>12, <2>2
    <3>2. ShareDue(r, d)'
      <4>1. \A y \in Rows : r \notin share[y]
        BY <1>2, <1>4 DEF Due, ShareDue, Sharing
      <4> QED
        BY <1>4, <1>8, <1>9, <1>10, <4>1 DEF ShareDue
    <3>3. /\ CreateInviteDue(r, d)' /\ AcceptDue(r, d)' /\ LinkDue(r, d)'
      BY <1>2, <1>4, <1>5, <1>8 DEF Due, CreateInviteDue, AcceptDue, LinkDue, Mine
    <3>4. /\ CreateDue(r, d)' /\ RenameDue(r, d)' /\ DeleteDue(r, d)' /\ RevokeDue(r, d)'
          /\ TransferDue(r, d)'
      BY <1>4, <1>8 DEF CreateDue, RenameDue, DeleteDue, RevokeDue, TransferDue
    <3> QED
      BY <1>9, <2>2, <3>1, <3>2, <3>3, <3>4 DEF Due
  <2> QED
    BY <2>1, <2>2
<1>13. ASSUME NEW q \in Reqs PROVE KnownRequest(q)'
  <2>1. ~Under(req'[q]) => \A y \in Rows : q \notin share'[y]
    BY <1>7, <1>8, <1>9, <1>10 DEF OthersStay, TransactionInv, KnownRequest
  <2>2. ASSUME NEW s \in Reqs \ {q}, Under(req'[q]), Under(req'[s])
        PROVE  Apart(req'[q], req'[s])
    <3>1. \A o \in Reqs \ {r} : Under(req[o]) => Apart(req[o], d) /\ Apart(d, req[o])
      BY <1>2, <1>4, <1>8, GoingOnStaysApart
    <3>2. Under(req[q]) /\ Under(req[s]) => Apart(req[q], req[s])
      BY DEF TransactionInv, KnownRequest
    <3> QED
      BY <1>7, <1>8, <2>2, <3>1, <3>2 DEF OthersStay
  <2>3. PICK c : c = req'[q]
    OBVIOUS
  <2>4. Under(c) => Fits(c) /\ Due(q, c)'
    BY <1>12, <2>3
  <2>5. KnownRequest(q)' <=>
          /\ Under(req'[q]) => Fits(req'[q]) /\ Due(q, c)'
          /\ ~Under(req'[q]) => \A y \in Rows : q \notin share'[y]
          /\ \A s \in Reqs \ {q} : Under(req'[q]) /\ Under(req'[s]) => Apart(req'[q], req'[s])
    BY <2>3 DEF KnownRequest
  <2> QED
    BY <2>1, <2>2, <2>3, <2>4, <2>5
<1>14. ASSUME NEW g \in Groups PROVE KnownGroup(g)'
  <2>1. GroupRow(g) \in Rows /\ KnownGroup(g)
    BY RowTypes DEF TransactionInv
  <2> HIDE DEF x
  <2> QED
    BY <1>2, <1>6, <1>10, <2>1 DEF KnownGroup, Refers
<1>15. \A i \in Invites : KnownInvite(i)'
  BY <1>2 DEF TransactionInv, KnownInvite
<1>16. Clean'
  BY <1>2 DEF TransactionInv, Clean
<1> QED
  BY <1>11, <1>13, <1>14, <1>15, <1>16 DEF TransactionInv

-----------------------------------------------------------------------------
(* SELECTs between the first statement and the first write, and answers.   *)

(* delete: the projects of the group are counted.                          *)
LEMMA CountLinkedProjectsKeeps ==
  ASSUME TransactionInv, TypeOK', NEW r \in Reqs, CountLinkedProjects(r)
  PROVE  TransactionInv'
<1>1. req[r].pc = "count projects" /\ UNCHANGED store
  BY DEF CountLinkedProjects, AtStatement
<1>2. req[r].pc \in Early /\ req[r].pc \in Statements /\ "delete group" \in Early
  BY <1>1 DEF Early, Statements
<1>3. req[r].op = "delete" /\ "delete group" \in Course(req[r].op)
  BY <1>1, <1>2, AtItsStatement, StatementOf DEF Course
<1>4. CASE Reply(r, 409)
  BY <1>1, <1>2, <1>4, AnswerKeeps
<1>5. CASE Goto(r, "delete group")
  BY <1>1, <1>2, <1>3, <1>5, SelectKeeps
<1> QED
  BY <1>4, <1>5 DEF CountLinkedProjects

(* create_invite: the limit.                                               *)
LEMMA CheckInviteRateLimitKeeps ==
  ASSUME TransactionInv, TypeOK', NEW r \in Reqs, CheckInviteRateLimit(r)
  PROVE  TransactionInv'
<1>1. req[r].pc = "check limit" /\ UNCHANGED store
  BY DEF CheckInviteRateLimit, AtStatement
<1>2. req[r].pc \in Early /\ req[r].pc \in Statements /\ "insert invite" \in Early
  BY <1>1 DEF Early, Statements
<1>3. req[r].op = "create_invite" /\ "insert invite" \in Course(req[r].op)
  BY <1>1, <1>2, AtItsStatement, StatementOf DEF Course
<1>4. CASE Reply(r, 429)
  BY <1>1, <1>2, <1>4, AnswerKeeps
<1>5. CASE Goto(r, "insert invite")
  BY <1>1, <1>2, <1>3, <1>5, SelectKeeps
<1> QED
  BY <1>4, <1>5 DEF CheckInviteRateLimit

(* accept_invite: the caller's own membership.                             *)
LEMMA SelectOwnMembershipKeeps ==
  ASSUME TransactionInv, TypeOK', NEW r \in Reqs, SelectOwnMembership(r)
  PROVE  TransactionInv'
<1>1. req[r].pc = "select member" /\ req[r].op = "accept_invite" /\ UNCHANGED store
  BY DEF SelectOwnMembership, AtStatement
<1>2. req[r].pc \in Early /\ "insert member" \in Early
  BY <1>1 DEF Early
<1>3. "insert member" \in Course(req[r].op)
  BY <1>1 DEF Course
<1>4. CASE Reply(r, 409)
  BY <1>1, <1>2, <1>4, AnswerKeeps
<1>5. CASE Goto(r, "insert member")
  BY <1>1, <1>2, <1>3, <1>5, SelectKeeps
<1> QED
  BY <1>4, <1>5 DEF SelectOwnMembership

(* revoke_invite: the invite.                                              *)
LEMMA SelectInviteKeeps ==
  ASSUME TransactionInv, TypeOK', NEW r \in Reqs, SelectInvite(r)
  PROVE  TransactionInv'
<1>1. req[r].pc = "select invite" /\ UNCHANGED store
  BY DEF SelectInvite, AtStatement
<1>2. req[r].pc \in Early /\ req[r].pc \in Statements /\ "mark revoked" \in Early
  BY <1>1 DEF Early, Statements
<1>3. req[r].op = "revoke_invite" /\ "mark revoked" \in Course(req[r].op)
  BY <1>1, <1>2, AtItsStatement, StatementOf DEF Course
<1>4. CASE Reply(r, 404)
  BY <1>1, <1>2, <1>4, AnswerKeeps
<1>5. CASE db[Invite(req[r].arg)] # Absent /\ Goto(r, "mark revoked")
  BY <1>1, <1>2, <1>3, <1>5, SelectKeeps
<1> QED
  BY <1>4, <1>5 DEF SelectInvite

(* link_project and unlink_project: the project.                           *)
LEMMA SelectProjectKeeps ==
  ASSUME TransactionInv, TypeOK', NEW r \in Reqs,
         SelectProjectToLink(r) \/ SelectProjectToUnlink(r)
  PROVE  TransactionInv'
<1>1. /\ req[r].pc = "select project" /\ UNCHANGED store
      /\ req[r].op \in {"link_project", "unlink_project"}
  BY DEF SelectProjectToLink, SelectProjectToUnlink, AtStatement
<1>2. req[r].pc \in Early /\ "set group" \in Early /\ "clear group" \in Early
  BY <1>1 DEF Early
<1>3. ASSUME NEW s, Reply(r, s) PROVE TransactionInv'
  BY <1>1, <1>2, <1>3, AnswerKeeps
<1>4. CASE req[r].op = "link_project" /\ Goto(r, "set group")
  <2>1. "set group" \in Course(req[r].op)
    BY <1>4 DEF Course
  <2> QED
    BY <1>1, <1>2, <1>4, <2>1, SelectKeeps
<1>5. CASE req[r].op = "unlink_project" /\ Goto(r, "clear group")
  <2>1. "clear group" \in Course(req[r].op)
    BY <1>5 DEF Course
  <2> QED
    BY <1>1, <1>2, <1>5, <2>1, SelectKeeps
<1> QED
  BY <1>3, <1>4, <1>5 DEF SelectProjectToLink, SelectProjectToUnlink

(* transfer_ownership: the new owner, whose role is remembered.            *)
LEMMA SelectNewOwnerKeeps ==
  ASSUME TransactionInv, TypeOK', NEW r \in Reqs, SelectNewOwner(r)
  PROVE  TransactionInv'
<1> DEFINE role == db[Member(req[r].group, req[r].arg)]
<1>1. req[r].pc = "select member" /\ req[r].op = "transfer_ownership" /\ UNCHANGED store
  BY DEF SelectNewOwner, AtStatement
<1>2. req[r].pc \in Early /\ req[r].pc \in Statements
  BY <1>1 DEF Early, Statements
<1>3. CASE Reply(r, 404)
  BY <1>1, <1>2, <1>3, AnswerKeeps
<1>4. CASE role # Absent /\ req' = [req EXCEPT ![r] = Confirm(@, role)]
  <2>1. PICK d : d = Confirm(req[r], role)
    OBVIOUS
  <2>2. /\ d.op = "transfer_ownership" /\ d.group = req[r].group /\ d.arg = req[r].arg
        /\ d.pc = "demote" /\ d.seenArg # Absent
    BY <1>1, <1>4, <2>1 DEF Confirm
  <2>3. req'[r] = d /\ OthersStay(r)
    BY <1>4, <2>1 DEF TransactionInv, TypeOK, OthersStay
  <2>4. Fits(d) /\ d.pc \in Early
    BY <2>2 DEF Fits, Course, Early
  <2>5. CreateInviteDue(r, d) /\ AcceptDue(r, d)
    BY <2>2 DEF CreateInviteDue, AcceptDue
  <2>6. \A q \in Reqs \ {r} : Under(req[q]) => Apart(req[q], d) /\ Apart(d, req[q])
    BY <1>1, <1>2, <2>2, AtItsStatement, GoingOnStaysApart
  <2> QED
    BY <1>1, <1>2, <2>3, <2>4, <2>5, <2>6, EarlyKeeps
<1> QED
  BY <1>3, <1>4 DEF SelectNewOwner

(* The answer reaches the client.                                          *)
LEMMA RespondKeeps ==
  ASSUME TransactionInv, TypeOK', NEW r \in Reqs, Respond(r)
  PROVE  TransactionInv'
<1>1. req[r].pc = "done" /\ UNCHANGED store /\ req'[r] = Idle /\ OthersStay(r)
  BY DEF Respond, TransactionInv, TypeOK, OthersStay
<1>2. ~Under(Idle)
  BY DEF Under, Idle, Blank, Statements
<1> QED
  BY <1>1, <1>2, EarlyKeeps

-----------------------------------------------------------------------------
(* The end of a transaction.                                               *)

(* What the others rely on: their rows stay theirs, what they found gone   *)
(* stays gone, and an invite goes only with its group.                     *)
LEMMA RelyKeeps ==
  ASSUME NEW q \in Reqs, NEW c \in Calls, Fits(c), Due(q, c),
         \A x \in Rows : lock[x] = q => lock'[x] = q,
         \A x \in Rows : q \in share'[x] <=> q \in share[x],
         c.op = "delete" /\ c.pc \in {"cascade", "commit"} =>
           /\ \A p \in Projects : db'[Project(p)] = c.group => db[Project(p)] = c.group
           /\ \A x \in Children(c.group) \union {GroupRow(c.group)} :
                db[x] = Absent => db'[x] = Absent,
         c.op = "create_invite" /\ db[Invite(c.arg)] = Absent /\ lock[Invite(c.arg)] = NoReq =>
           db'[Invite(c.arg)] = Absent /\ lock'[Invite(c.arg)] = NoReq,
         c.op = "accept_invite" /\ db'[GroupRow(c.group)] # Absent =>
           /\ db[GroupRow(c.group)] # Absent
           /\ db[Invite(c.arg)] # Absent => db'[Invite(c.arg)] # Absent,
         c.op = "revoke_invite" /\ c.pc = "commit" /\ db[Invite(c.arg)] = Absent =>
           db'[Invite(c.arg)] = Absent
  PROVE  Due(q, c)'
<1>1. \A x \in Rows : Mine(q, x) => Mine(q, x)'
  BY DEF Mine
<1>2. c.group \in Groups /\ c.user \in Users /\ c.arg \in ArgOf(c.op)
  BY DEF Calls
<1>3. /\ GroupRow(c.group) \in Rows /\ Member(c.group, c.user) \in Rows
      /\ Children(c.group) \subseteq Rows
  BY <1>2, RowTypes, ChildRows
<1>4. /\ c.op \in {"create_invite", "accept_invite", "revoke_invite"} =>
           Invite(c.arg) \in Rows
      /\ c.op = "transfer_ownership" => Member(c.group, c.arg) \in Rows
      /\ c.op \in {"link_project", "unlink_project"} => Project(c.arg) \in Rows
  BY <1>2, RowTypes DEF ArgOf
<1>5. CreateDue(q, c)' /\ RenameDue(q, c)' /\ TransferDue(q, c)' /\ LinkDue(q, c)'
  BY <1>1, <1>3, <1>4 DEF Due, CreateDue, RenameDue, TransferDue, LinkDue
<1>6. DeleteDue(q, c)'
  BY <1>1, <1>3 DEF Due, DeleteDue, LinkedProjects
<1>7. CreateInviteDue(q, c)'
  BY <1>1, <1>4 DEF Due, CreateInviteDue
<1>8. AcceptDue(q, c)' /\ RevokeDue(q, c)'
  BY <1>1, <1>3, <1>4 DEF Due, AcceptDue, RevokeDue
<1>9. ShareDue(q, c)'
  BY <1>3 DEF Due, ShareDue
<1> QED
  BY <1>5, <1>6, <1>7, <1>8, <1>9 DEF Due

(* The invariant after a step by which r ends, if it leaves the others     *)
(* what they rely on.                                                      *)
LEMMA EndKeeps ==
  ASSUME TransactionInv, TypeOK', Clean', NEW r \in Reqs, Release(r), OthersStay(r),
         ~Under(req'[r]),
         \A x \in Rows : lock[x] \notin {r, NoReq} =>
           latest'[x] = latest[x] /\ db'[x] = db[x],
         \A q \in Reqs \ {r} : \A c : c = req[q] /\ Under(c) => Due(q, c)',
         \A g \in Groups : KnownGroup(g)', \A i \in Invites : KnownInvite(i)'
  PROVE  TransactionInv'
<1>1. \A x \in Rows : /\ lock'[x] = IF lock[x] = r THEN NoReq ELSE lock[x]
                      /\ share'[x] = share[x] \ {r}
  BY DEF Release, TransactionInv, TypeOK, StoreType
<1>2. ASSUME NEW x \in Rows PROVE HeldRow(x)'
  <2> SUFFICES ASSUME lock'[x] # NoReq
               PROVE  Held(req'[lock'[x]], x, db'[x], latest'[x])
    BY DEF HeldRow
  <2>1. lock'[x] = lock[x] /\ lock[x] \in Reqs \ {r}
    BY <1>1 DEF TransactionInv, TypeOK, StoreType
  <2>2. Held(req[lock[x]], x, db[x], latest[x])
    BY <2>1, HolderKnows
  <2>3. latest'[x] = latest[x] /\ db'[x] = db[x]
    BY <2>1, RowStoreAssumption
  <2> QED
    BY <2>1, <2>2, <2>3 DEF OthersStay
<1>3. ASSUME NEW q \in Reqs PROVE KnownRequest(q)'
  <2>0. PICK c : c = req'[q]
    OBVIOUS
  <2>1. Under(c) => q # r /\ c = req[q]
    BY <2>0 DEF OthersStay
  <2>2. Under(c) => Fits(c) /\ Due(q, c)'
    BY <2>1 DEF TransactionInv, KnownRequest
  <2>3. ~Under(req'[q]) => \A x \in Rows : q \notin share'[x]
    BY <1>1 DEF OthersStay, TransactionInv, KnownRequest
  <2>4. ASSUME NEW s \in Reqs \ {q}, Under(req'[q]), Under(req'[s])
        PROVE  Apart(req'[q], req'[s])
    BY <2>4 DEF OthersStay, TransactionInv, KnownRequest
  <2>5. KnownRequest(q)' <=>
          /\ Under(req'[q]) => Fits(req'[q]) /\ Due(q, c)'
          /\ ~Under(req'[q]) => \A y \in Rows : q \notin share'[y]
          /\ \A s \in Reqs \ {q} : Under(req'[q]) /\ Under(req'[s]) => Apart(req'[q], req'[s])
    BY <2>0 DEF KnownRequest
  <2> QED
    BY <2>0, <2>2, <2>3, <2>4, <2>5
<1> QED
  BY <1>2, <1>3 DEF TransactionInv

(* A request that fails leaves no trace.                                   *)
LEMMA FailKeeps ==
  ASSUME TransactionInv, TypeOK', NEW r \in Reqs, Fail(r)
  PROVE  TransactionInv'
<1>1. Rollback(r) /\ Release(r) /\ ~Under(req'[r]) /\ OthersStay(r) /\ TypeOK
  BY ReplyMoves DEF Fail, Rollback, TransactionInv, OthersStay
<1>2. Clean'
  BY <1>1, RollbackClean DEF TransactionInv, TypeOK
<1>3. /\ db' = db
      /\ \A x \in Rows : /\ latest'[x] = IF lock[x] = r THEN db[x] ELSE latest[x]
                         /\ lock'[x] = IF lock[x] = r THEN NoReq ELSE lock[x]
                         /\ share'[x] = share[x] \ {r}
  BY <1>1 DEF Rollback, Release, TypeOK, StoreType
<1>4. ASSUME NEW q \in Reqs \ {r}, NEW c, c = req[q], Under(c) PROVE Due(q, c)'
  <2>1. c \in Calls /\ Fits(c) /\ Due(q, c) /\ c.arg \in ArgOf(c.op)
    BY <1>4, AtItsStatement DEF Under
  <2>2. c.op = "create_invite" => Invite(c.arg) \in Rows
    BY <2>1, RowTypes DEF ArgOf
  <2> QED
    BY <1>3, <2>1, <2>2, RelyKeeps, RowStoreAssumption
<1>5. ASSUME NEW g \in Groups PROVE KnownGroup(g)'
  <2>1. GroupRow(g) \in Rows /\ KnownGroup(g)
    BY RowTypes DEF TransactionInv
  <2> QED
    BY <1>3, <2>1 DEF KnownGroup, Refers
<1>6. \A i \in Invites : KnownInvite(i)'
  BY <1>3 DEF TransactionInv, KnownInvite
<1> QED
  BY <1>1, <1>2, <1>3, <1>4, <1>5, <1>6, EndKeeps

(* So does a server that stops.                                            *)
LEMMA RestartKeeps ==
  ASSUME TransactionInv, TypeOK', Restart
  PROVE  TransactionInv'
<1>1. /\ db' = db /\ latest' = db
      /\ \A x \in Rows : lock'[x] = NoReq /\ share'[x] = {}
      /\ \A r \in Reqs : req'[r] = Idle
  BY DEF Restart, RollbackAll, TransactionInv, TypeOK, StoreType
<1>2. Clean'
  BY <1>1 DEF Clean
<1>3. ~Under(Idle)
  BY DEF Under, Idle, Blank, Statements
<1>4. \A x \in Rows : HeldRow(x)'
  BY <1>1 DEF HeldRow
<1>5. \A r \in Reqs : KnownRequest(r)'
  BY <1>1, <1>3 DEF KnownRequest
<1>6. ASSUME NEW g \in Groups PROVE KnownGroup(g)'
  BY <1>1, RowTypes DEF KnownGroup, Refers, TransactionInv
<1>7. \A i \in Invites : KnownInvite(i)'
  BY <1>1 DEF TransactionInv, KnownInvite
<1> QED
  BY <1>2, <1>4, <1>5, <1>6, <1>7 DEF TransactionInv

(* A project that comes or goes refers to no group, and is held by nobody. *)
LEMMA ProjectStepKeeps ==
  ASSUME TransactionInv, TypeOK', NEW p \in Projects, NEW v \in {Unlinked, Absent},
         Replace(Project(p), v), req' = req
  PROVE  TransactionInv'
<1> DEFINE x == Project(p)
<1>1. x \in Rows /\ TypeOK /\ lock[x] = NoReq
  BY RowTypes DEF TransactionInv, Replace
<1>2. /\ lock' = lock /\ share' = share
      /\ db'[x] = v /\ \A y \in Rows \ {x} : db'[y] = db[y] /\ latest'[y] = latest[y]
  BY <1>1 DEF Replace, TypeOK, StoreType
<1>3. Clean'
  BY <1>1, ReplaceClean DEF TransactionInv, TypeOK
<1>4. /\ \A g \in Groups : v # g /\ x # GroupRow(g) /\ x \notin Children(g)
      /\ \A i : x # Invite(i)
  BY GroupsAssumption, ChildRows, RowsApart
<1>5. \A g \in Groups : /\ GroupRow(g) \in Rows /\ Children(g) \subseteq Rows
                        /\ GroupRow(g) # x
                        /\ db'[GroupRow(g)] = db[GroupRow(g)]
                        /\ latest'[GroupRow(g)] = latest[GroupRow(g)]
  BY <1>2, <1>4, RowTypes, ChildRows
<1>6. \A i \in Invites : Invite(i) \in Rows /\ db'[Invite(i)] = db[Invite(i)]
  BY <1>2, <1>4, RowTypes
<1>7. \A y \in Rows : HeldRow(y)'
  BY <1>1, <1>2 DEF TransactionInv, HeldRow
<1>8. ASSUME NEW q \in Reqs, NEW c, c = req[q], Under(c) PROVE Due(q, c)'
  <2>1. c \in Calls /\ Fits(c) /\ Due(q, c) /\ c.arg \in ArgOf(c.op) /\ c.group \in Groups
    BY <1>8, AtItsStatement DEF Under
  <2>2. \A h \in Projects : db'[Project(h)] = c.group => db[Project(h)] = c.group
    BY <1>2, <1>4, <2>1, RowTypes
  <2>3. \A y \in Children(c.group) \union {GroupRow(c.group)} : db'[y] = db[y]
    BY <1>2, <1>4, <1>5, <2>1
  <2>4. c.op \in {"create_invite", "accept_invite", "revoke_invite"} => c.arg \in Invites
    BY <2>1 DEF ArgOf
  <2> HIDE DEF x
  <2> QED
    BY <1>2, <1>5, <1>6, <2>1, <2>2, <2>3, <2>4, RelyKeeps
<1>9. ASSUME NEW q \in Reqs PROVE KnownRequest(q)'
  <2>1. PICK c : c = req[q]
    OBVIOUS
  <2>2. KnownRequest(q)' <=>
          /\ Under(req'[q]) => Fits(req'[q]) /\ Due(q, c)'
          /\ ~Under(req'[q]) => \A y \in Rows : q \notin share'[y]
          /\ \A s \in Reqs \ {q} : Under(req'[q]) /\ Under(req'[s]) => Apart(req'[q], req'[s])
    BY <2>1 DEF KnownRequest
  <2>3. KnownRequest(q) /\ req'[q] = c /\ req[q] = c
    BY <2>1 DEF TransactionInv
  <2> QED
    BY <1>2, <1>8, <2>1, <2>2, <2>3 DEF KnownRequest
<1>10. ASSUME NEW g \in Groups PROVE KnownGroup(g)'
  <2>1. KnownGroup(g)
    BY DEF TransactionInv
  <2>2. \A y \in Rows : Refers(g, y, db'[y]) => Refers(g, y, db[y])
    BY <1>2, <1>4 DEF Refers
  <2> QED
    BY <1>2, <1>5, <2>1, <2>2 DEF KnownGroup
<1>11. \A i \in Invites : KnownInvite(i)'
  BY <1>6 DEF TransactionInv, KnownInvite
<1> QED
  BY <1>3, <1>7, <1>9, <1>10, <1>11 DEF TransactionInv

-----------------------------------------------------------------------------
(* What a holder says of its row, table by table.                          *)

(* Marking an invite adds a mark and takes none away.                      *)
LEMMA MarkAdds ==
  ASSUME NEW v \in Marks
  PROVE  /\ v # Absent /\ Mark(v, "consumed") \in Marks /\ Mark(v, "revoked") \in Marks
         /\ Consumed(Mark(v, "consumed")) /\ Revoked(Mark(v, "revoked"))
         /\ Consumed(Mark(v, "revoked")) <=> Consumed(v)
         /\ Revoked(Mark(v, "consumed")) <=> Revoked(v)
BY DEF Marks, Mark, Consumed, Revoked, Absent

(* A new invite is pending, and one that is not there has no mark.         *)
LEMMA NoMark ==
  /\ "pending" \in Marks /\ ~Consumed("pending") /\ ~Revoked("pending")
  /\ Absent \notin Marks /\ ~Consumed(Absent) /\ ~Revoked(Absent)
BY DEF Marks, Consumed, Revoked, Absent

(* An invite's row is held to insert it, to mark it, or to delete it with  *)
(* its group.                                                              *)
InviteHeld(c, i, old, new) ==
  \/ c.op = "create_invite" /\ c.arg = i /\ old = Absent /\ new = "pending"
  \/ /\ c.op = "accept_invite" /\ c.arg = i /\ c.pc = "commit" /\ old \in Marks
     /\ new = Mark(old, "consumed")
  \/ /\ c.op = "revoke_invite" /\ c.arg = i /\ c.pc = "commit" /\ old \in Marks
     /\ new = Mark(old, "revoked")
  \/ c.op = "delete" /\ c.group = InviteGroup[i] /\ old \in Marks /\ new = Absent

(* The holder of an invite's row says so.                                  *)
LEMMA InviteHolder ==
  ASSUME TransactionInv, NEW i \in Invites, NEW r \in Reqs, lock[Invite(i)] = r
  PROVE  Under(req[r]) /\ InviteHeld(req[r], i, db[Invite(i)], latest[Invite(i)])
<1>1. Under(req[r]) /\ Held(req[r], Invite(i), db[Invite(i)], latest[Invite(i)])
  BY HolderKnows, RowTypes
<1>2. /\ \A j : Invite(i) = Invite(j) => i = j
      /\ \A h, u : Invite(i) # Member(h, u)
      /\ \A h : Invite(i) # GroupRow(h) /\ Invite(i) # Project(h)
  BY RowsApart
<1>3. req[r].group \in Groups
  BY <1>1, AtItsStatement DEF Under
<1>4. Invite(i) \in Children(req[r].group) => InviteGroup[i] = req[r].group
  BY <1>3, ChildRows
<1>5. db[Invite(i)] # Absent => db[Invite(i)] \in Marks
  BY DEF TransactionInv, KnownInvite
<1> QED
  BY <1>1, <1>2, <1>4, <1>5 DEF Held, InviteHeld

(* A project's row is held to link or to unlink it.                        *)
LEMMA ProjectHolder ==
  ASSUME TransactionInv, NEW p \in Projects, NEW r \in Reqs, lock[Project(p)] = r
  PROVE  /\ Under(req[r]) /\ req[r].arg = p /\ db[Project(p)] # Absent
         /\ \/ req[r].op = "link_project" /\ latest[Project(p)] = req[r].group
            \/ req[r].op = "unlink_project" /\ latest[Project(p)] = Unlinked
<1>1. Under(req[r]) /\ Held(req[r], Project(p), db[Project(p)], latest[Project(p)])
  BY HolderKnows, RowTypes
<1>2. /\ \A j : Project(p) = Project(j) => p = j
      /\ \A h, u : Project(p) # Member(h, u)
      /\ \A h : Project(p) # GroupRow(h) /\ Project(p) # Invite(h)
  BY RowsApart
<1>3. Project(p) \notin Children(req[r].group)
  BY <1>2 DEF Children
<1> QED
  BY <1>1, <1>2, <1>3 DEF Held

(* A membership's row is held by the creator of the group, an accept, a    *)
(* transfer, or whatever deletes it.                                       *)
MemberHeld(c, u, old, new) ==
  \/ c.op = "create" /\ c.user = u /\ old = Absent /\ new = "owner"
  \/ c.op = "accept_invite" /\ c.user = u /\ old = Absent /\ new = "member"
  \/ c.op = "delete" /\ old # Absent /\ new = Absent
  \/ c.op \in {"remove_member", "leave"} /\ c.arg = u /\ old # Absent /\ new = Absent
  \/ /\ c.op = "transfer_ownership" /\ old # Absent
     /\ \/ /\ c.user = u /\ new = "member"
           /\ c.pc = "commit" => c.user # c.arg
        \/ c.arg = u /\ c.pc = "one owner" /\ new = old
        \/ c.arg = u /\ c.pc = "commit" /\ new = "owner"

(* The holder of a membership's row says so.                               *)
LEMMA MemberHolder ==
  ASSUME TransactionInv, NEW g \in Groups, NEW u \in Users, NEW r \in Reqs,
         lock[Member(g, u)] = r
  PROVE  /\ Under(req[r]) /\ req[r].group = g
         /\ MemberHeld(req[r], u, db[Member(g, u)], latest[Member(g, u)])
<1>1. Under(req[r]) /\ Held(req[r], Member(g, u), db[Member(g, u)], latest[Member(g, u)])
  BY HolderKnows, RowTypes
<1>2. /\ \A h, v : Member(g, u) = Member(h, v) => g = h /\ u = v
      /\ \A h : /\ Member(g, u) # GroupRow(h) /\ Member(g, u) # Project(h)
                /\ Member(g, u) # Invite(h)
  BY RowsApart
<1>3. req[r].group \in Groups
  BY <1>1, AtItsStatement DEF Under
<1>4. Member(g, u) \in Children(req[r].group) => req[r].group = g
  BY <1>3, ChildRows
<1> QED
  BY <1>1, <1>2, <1>4 DEF Held, MemberHeld

-----------------------------------------------------------------------------
(* The commit.                                                             *)

(* What a commit does to the rows.                                         *)
LEMMA CommitMoves ==
  ASSUME TransactionInv, NEW r \in Reqs, CommitRequest(r)
  PROVE  /\ req[r].pc = "commit" /\ req[r].pc \in Statements
         /\ Release(r) /\ OthersStay(r) /\ ~Under(req'[r]) /\ req'[r].status = Success
         /\ \A x \in Rows : /\ db'[x] = IF lock[x] = r THEN latest[x] ELSE db[x]
                            /\ latest'[x] = latest[x]
                            /\ lock'[x] = IF lock[x] = r THEN NoReq ELSE lock[x]
                            /\ share'[x] = share[x] \ {r}
<1>1. /\ req[r].pc = "commit" /\ Release(r) /\ Commit(r) /\ Reply(r, Success) /\ TypeOK
  BY DEF CommitRequest, Commit, AtStatement, TransactionInv
<1>2. req[r].pc \in Statements
  BY <1>1 DEF Statements
<1>3. OthersStay(r) /\ ~Under(req'[r]) /\ req'[r].status = Success
  BY <1>1, ReplyMoves DEF OthersStay
<1>4. \A x \in Rows : /\ db'[x] = IF lock[x] = r THEN latest[x] ELSE db[x]
                      /\ latest'[x] = latest[x]
                      /\ lock'[x] = IF lock[x] = r THEN NoReq ELSE lock[x]
                      /\ share'[x] = share[x] \ {r}
  BY <1>1 DEF Commit, Release, Found, TypeOK, StoreType
<1> QED
  BY <1>1, <1>2, <1>3, <1>4

(* A group that comes with a commit is the one its request created, and    *)
(* one that goes is the one its request deletes.                           *)
LEMMA CommittedGroup ==
  ASSUME TransactionInv, NEW r \in Reqs, CommitRequest(r), NEW g \in Groups
  PROVE  /\ db[GroupRow(g)] = Absent /\ db'[GroupRow(g)] # Absent =>
              req[r].op = "create" /\ req[r].group = g
         /\ db[GroupRow(g)] # Absent /\ db'[GroupRow(g)] = Absent =>
              req[r].op = "delete" /\ req[r].group = g
         /\ req[r].op = "create" /\ req[r].group = g => db'[GroupRow(g)] # Absent
         /\ req[r].op = "delete" /\ req[r].group = g => db'[GroupRow(g)] = Absent
<1>1. GroupRow(g) \in Rows
  BY RowTypes
<1>2. db'[GroupRow(g)] = IF lock[GroupRow(g)] = r THEN latest[GroupRow(g)] ELSE db[GroupRow(g)]
  BY <1>1, CommitMoves
<1>3. req[r].pc = "commit" /\ Due(r, req[r])
  BY CommitMoves, AtItsStatement
<1>4. req[r].op = "create" /\ req[r].group = g => lock[GroupRow(g)] = r
  BY <1>3 DEF Due, CreateDue, Mine
<1>5. req[r].op = "delete" /\ req[r].group = g =>
        lock[GroupRow(g)] = r \/ db[GroupRow(g)] = Absent
  BY <1>3 DEF Due, DeleteDue, Mine
<1>6. lock[GroupRow(g)] = r =>
        /\ req[r].group = g
        /\ latest[GroupRow(g)] = Absent <=> req[r].op = "delete"
        /\ db[GroupRow(g)] = Absent <=> req[r].op = "create"
  BY GroupHolder
<1> QED
  BY <1>2, <1>4, <1>5, <1>6

(* A committed reference is to a group that is there, and nobody else is   *)
(* deleting.                                                               *)
LEMMA CommittedReference ==
  ASSUME TransactionInv, NEW r \in Reqs, CommitRequest(r), NEW g \in Groups, NEW x \in Rows,
         ~Refers(g, x, db[x]), Refers(g, x, db'[x])
  PROVE  /\ req[r].group = g
         /\ req[r].op = "create" \/ share[GroupRow(g)] # {}
<1>1. req[r].pc = "commit" /\ lock[x] = r /\ db'[x] = latest[x]
  BY CommitMoves
<1> QED
  BY <1>1, NewReference

(* After a commit, too, every reference is to a group that is there.       *)
LEMMA CommitKeepsGroup ==
  ASSUME TransactionInv, NEW r \in Reqs, CommitRequest(r), NEW g \in Groups
  PROVE  KnownGroup(g)'
<1>1. KnownGroup(g) /\ GroupRow(g) \in Rows
  BY RowTypes DEF TransactionInv
<1>2. ASSUME NEW x \in Rows, Refers(g, x, db'[x]), db'[GroupRow(g)] = Absent
      PROVE  FALSE
  <2>1. req[r].pc = "commit" /\ Due(r, req[r])
    BY CommitMoves, AtItsStatement
  <2>2. CASE db[GroupRow(g)] = Absent
    <3>1. ~Refers(g, x, db[x]) /\ share[GroupRow(g)] = {}
      BY <1>1, <2>2 DEF KnownGroup
    <3>2. req[r].group = g /\ req[r].op = "create"
      BY <1>2, <3>1, CommittedReference
    <3> QED
      BY <1>2, <3>2, CommittedGroup
  <2>3. CASE db[GroupRow(g)] # Absent
    <3>1. req[r].op = "delete" /\ req[r].group = g
      BY <1>2, <2>3, CommittedGroup
    <3>2. share[GroupRow(g)] = {}
      BY <2>1, <3>1, DeletionIsAlone
    <3>3. Refers(g, x, db[x])
      BY <1>2, <3>1, <3>2, CommittedReference
    <3>4. LinkedProjects(g) = {} /\ \A y \in Children(g) : db[y] # Absent => lock[y] = r
      BY <2>1, <3>1 DEF Due, DeleteDue, Mine
    <3>5. CASE x \in Children(g) /\ db[x] # Absent
      <4>1. lock[x] = r /\ db'[x] = latest[x]
        BY <3>4, <3>5, CommitMoves
      <4>2. latest[x] = Absent
        BY <3>1, <4>1, HolderKnows DEF Held
      <4>3. x \notin ProjectRows
        BY <3>5, ChildRows DEF ProjectRows
      <4> QED
        BY <1>2, <4>1, <4>2, <4>3 DEF Refers
    <3>6. CASE x \in ProjectRows /\ db[x] = g
      BY <3>4, <3>6 DEF LinkedProjects, ProjectRows
    <3> QED
      BY <3>3, <3>5, <3>6 DEF Refers
  <2> QED
    BY <2>2, <2>3
<1>3. share'[GroupRow(g)] # {} => db'[GroupRow(g)] # Absent /\ latest'[GroupRow(g)] # Absent
  BY <1>1, CommitMoves DEF KnownGroup
<1> QED
  BY <1>2, <1>3 DEF KnownGroup

(* An invite is pending when it is inserted, and then gains marks.         *)
LEMMA CommitKeepsInvite ==
  ASSUME TransactionInv, NEW r \in Reqs, CommitRequest(r), NEW i \in Invites
  PROVE  KnownInvite(i)'
<1>1. Invite(i) \in Rows
  BY RowTypes
<1>2. db'[Invite(i)] = IF lock[Invite(i)] = r THEN latest[Invite(i)] ELSE db[Invite(i)]
  BY <1>1, CommitMoves
<1>3. CASE lock[Invite(i)] = r
  <2>1. \/ latest[Invite(i)] \in {"pending", Absent}
        \/ /\ db[Invite(i)] \in Marks
           /\ latest[Invite(i)] \in {Mark(db[Invite(i)], "consumed"),
                                     Mark(db[Invite(i)], "revoked")}
    BY <1>3, InviteHolder DEF InviteHeld
  <2>2. "pending" \in Marks
    BY DEF Marks
  <2> QED
    BY <1>2, <1>3, <2>1, <2>2, MarkAdds, NoMark DEF KnownInvite
<1>4. CASE lock[Invite(i)] # r
  BY <1>2, <1>4 DEF TransactionInv, KnownInvite
<1> QED
  BY <1>3, <1>4

(* A commit leaves the other requests what they rely on.                   *)
LEMMA CommitKeepsDue ==
  ASSUME TransactionInv, NEW r \in Reqs, CommitRequest(r), NEW q \in Reqs \ {r},
         NEW c, c = req[q], Under(c)
  PROVE  Due(q, c)'
<1>1. /\ c \in Calls /\ Fits(c) /\ Due(q, c) /\ c.arg \in ArgOf(c.op) /\ c.group \in Groups
      /\ GroupRow(c.group) \in Rows
  BY AtItsStatement DEF Under
<1>2. Apart(req[r], c) /\ req[r].pc = "commit" /\ Due(r, req[r])
  BY CommitMoves, AtItsStatement DEF TransactionInv, KnownRequest, Under
<1>3. c.op \in {"create_invite", "accept_invite", "revoke_invite"} =>
        c.arg \in Invites /\ Invite(c.arg) \in Rows
  BY <1>1, RowTypes DEF ArgOf
<1>4. req[r].op = "create" => req[r].group # c.group
  BY <1>2 DEF Apart
<1>5. db'[GroupRow(c.group)] # Absent => db[GroupRow(c.group)] # Absent
  BY <1>1, <1>4, CommittedGroup
<1>6. ASSUME c.op = "delete", c.pc \in {"cascade", "commit"}, NEW x \in Rows,
             Refers(c.group, x, db'[x])
      PROVE  Refers(c.group, x, db[x])
  <2>1. share[GroupRow(c.group)] = {}
    BY <1>6, DeletionIsAlone
  <2> QED
    BY <1>1, <1>4, <1>6, <2>1, CommittedReference
<1>7. ASSUME c.op = "delete", c.pc \in {"cascade", "commit"}
      PROVE  /\ \A p \in Projects : db'[Project(p)] = c.group => db[Project(p)] = c.group
             /\ \A x \in Children(c.group) \union {GroupRow(c.group)} :
                  db[x] = Absent => db'[x] = Absent
  <2>1. ASSUME NEW p \in Projects, db'[Project(p)] = c.group PROVE db[Project(p)] = c.group
    <3>1. Project(p) \in ProjectRows /\ Project(p) \in Rows /\ Project(p) \notin Children(c.group)
      BY <1>1, RowTypes, ChildRows DEF ProjectRows
    <3> QED
      BY <1>6, <1>7, <2>1, <3>1 DEF Refers
  <2>2. ASSUME NEW x \in Children(c.group), db[x] = Absent PROVE db'[x] = Absent
    <3>1. x \in Rows /\ x \notin ProjectRows
      BY <1>1, ChildRows DEF ProjectRows
    <3> QED
      BY <1>6, <1>7, <2>2, <3>1 DEF Refers
  <2> QED
    BY <1>5, <2>1, <2>2
<1>8. c.op = "create_invite" /\ db[Invite(c.arg)] = Absent /\ lock[Invite(c.arg)] = NoReq =>
        db'[Invite(c.arg)] = Absent /\ lock'[Invite(c.arg)] = NoReq
  BY <1>3, CommitMoves, RowStoreAssumption
<1>9. ASSUME c.op = "accept_invite", db'[GroupRow(c.group)] # Absent, db[Invite(c.arg)] # Absent
      PROVE  db'[Invite(c.arg)] # Absent
  <2> SUFFICES ASSUME db'[Invite(c.arg)] = Absent PROVE FALSE
    OBVIOUS
  <2>1. lock[Invite(c.arg)] = r /\ latest[Invite(c.arg)] = Absent
    BY <1>3, <1>9, CommitMoves
  <2>2. "pending" # Absent
    BY DEF Absent
  <2>3. req[r].op = "delete" /\ req[r].group = InviteGroup[c.arg]
    BY <1>3, <1>9, <2>1, <2>2, InviteHolder, MarkAdds, NoMark DEF InviteHeld
  <2>4. InviteGroup[c.arg] = c.group
    BY <1>1, <1>9 DEF Fits
  <2> QED
    BY <1>1, <1>9, <2>3, <2>4, CommittedGroup
<1>10. ASSUME c.op = "revoke_invite", c.pc = "commit", db[Invite(c.arg)] = Absent
       PROVE  db'[Invite(c.arg)] = Absent
  <2> SUFFICES ASSUME db'[Invite(c.arg)] # Absent PROVE FALSE
    OBVIOUS
  <2>1. lock[Invite(c.arg)] = r
    BY <1>3, <1>10, CommitMoves
  <2>2. req[r].op = "create_invite" /\ req[r].arg = c.arg
    BY <1>3, <1>10, <2>1, InviteHolder, MarkAdds, NoMark DEF InviteHeld
  <2> QED
    BY <1>2, <1>10, <2>2 DEF Apart
<1>11. /\ \A x \in Rows : lock[x] = q => lock'[x] = q
       /\ \A x \in Rows : q \in share'[x] <=> q \in share[x]
  BY CommitMoves
<1> QED
  BY <1>1, <1>5, <1>7, <1>8, <1>9, <1>10, <1>11, RelyKeeps

(* A commit keeps what is known.                                           *)
LEMMA CommitKeeps ==
  ASSUME TransactionInv, TypeOK', NEW r \in Reqs, CommitRequest(r)
  PROVE  TransactionInv'
<1>1. Clean'
  BY CommitClean DEF CommitRequest, TransactionInv, TypeOK
<1>2. Release(r) /\ OthersStay(r) /\ ~Under(req'[r])
  BY CommitMoves
<1>3. \A x \in Rows : lock[x] \notin {r, NoReq} => latest'[x] = latest[x] /\ db'[x] = db[x]
  BY CommitMoves
<1>4. \A q \in Reqs \ {r} : \A c : c = req[q] /\ Under(c) => Due(q, c)'
  BY CommitKeepsDue
<1>5. \A g \in Groups : KnownGroup(g)'
  BY CommitKeepsGroup
<1>6. \A i \in Invites : KnownInvite(i)'
  BY CommitKeepsInvite
<1> QED
  BY <1>1, <1>2, <1>3, <1>4, <1>5, <1>6, EndKeeps

-----------------------------------------------------------------------------
(* The invariant.                                                          *)

(* Every statement, and the end of a request.                              *)
LEMMA ProceedKeeps ==
  ASSUME TransactionInv, TypeOK', NEW r \in Reqs, Proceed(r)
  PROVE  TransactionInv'
<1>1. CASE Fail(r)
  BY <1>1, FailKeeps
<1>2. CASE \/ UpdateGroup(r) /\ ~Fail(r)
           \/ DeleteGroup(r) /\ ~Fail(r)
           \/ CheckReference(r) /\ ~Fail(r)
           \/ InsertMember(r) /\ ~Fail(r)
           \/ OneOwner(r) /\ ~Fail(r)
           \/ SetGroup(r) /\ ~Fail(r)
           \/ ClearGroup(r) /\ ~Fail(r)
  BY <1>2, UpdateGroupKeeps, DeleteGroupKeeps, CheckReferenceKeeps, InsertMemberKeeps,
     OneOwnerKeeps, SetGroupKeeps, ClearGroupKeeps
<1>3. CASE CountLinkedProjects(r) \/ CheckInviteRateLimit(r) \/ SelectOwnMembership(r)
           \/ SelectInvite(r) \/ SelectNewOwner(r) \/ SelectProjectToLink(r)
           \/ SelectProjectToUnlink(r) \/ Respond(r)
  BY <1>3, CountLinkedProjectsKeeps, CheckInviteRateLimitKeeps, SelectOwnMembershipKeeps,
     SelectInviteKeeps, SelectNewOwnerKeeps, SelectProjectKeeps, RespondKeeps
<1>4. CASE (\E x \in Rows : CascadeRow(r, x)) \/ CascadeDone(r)
  BY <1>4, CascadeRowKeeps, CascadeDoneKeeps
<1>5. CASE InsertInvite(r) \/ RecordInviteAttempt(r) \/ MarkConsumed(r) \/ MarkRevoked(r)
           \/ DeleteMember(r) \/ Demote(r) \/ Promote(r)
  BY <1>5, InsertInviteKeeps, RecordKeeps, MarkConsumedKeeps, MarkRevokedKeeps,
     DeleteMemberKeeps, DemoteKeeps, PromoteKeeps
<1>6. CASE CommitRequest(r)
  BY <1>6, CommitKeeps
<1> QED
  BY <1>1, <1>2, <1>3, <1>4, <1>5, <1>6 DEF Proceed, DeadlockVictim

(* At the start nothing is held and no request is under way.               *)
LEMMA TransactionInit == Init => TransactionInv
<1> SUFFICES ASSUME Init PROVE TransactionInv
  OBVIOUS
<1>1. TypeOK
  BY TypeInit
<1>2. /\ latest = db
      /\ \A x \in Rows : /\ lock[x] = NoReq /\ share[x] = {}
                         /\ db[x] = IF x \in ProjectRows THEN Unlinked ELSE Absent
      /\ \A r \in Reqs : req[r] = Idle
  BY DEF Init
<1>3. ~Under(Idle)
  BY DEF Under, Idle, Blank, Statements
<1>4. Clean
  BY <1>2 DEF Clean
<1>5. \A r \in Reqs : KnownRequest(r)
  BY <1>2, <1>3 DEF KnownRequest
<1>6. ASSUME NEW g \in Groups PROVE KnownGroup(g)
  <2>1. \A x \in Children(g) : x \in Rows /\ x \notin ProjectRows
    BY ChildRows DEF ProjectRows
  <2>2. g # Unlinked /\ GroupRow(g) \in Rows
    BY RowTypes, GroupsAssumption
  <2> QED
    BY <1>2, <2>1, <2>2 DEF KnownGroup, Refers
<1>7. ASSUME NEW i \in Invites PROVE KnownInvite(i)
  <2>1. Invite(i) \in Rows /\ Invite(i) \notin ProjectRows
    BY RowTypes, RowsApart DEF ProjectRows
  <2> QED
    BY <1>2, <2>1 DEF KnownInvite
<1> QED
  BY <1>1, <1>2, <1>4, <1>5, <1>6, <1>7 DEF TransactionInv, HeldRow

(* Steps that touch neither the rows nor the requests.                     *)
LEMMA QuietKeeps ==
  ASSUME TransactionInv, TypeOK', UNCHANGED store, req' = req
  PROVE  TransactionInv'
<1>1. db' = db /\ latest' = latest /\ lock' = lock /\ share' = share
  BY DEF store
<1>2. Clean' /\ \A x \in Rows : HeldRow(x)'
  BY <1>1 DEF TransactionInv, Clean, HeldRow
<1>3. ASSUME NEW r \in Reqs PROVE KnownRequest(r)'
  <2>1. PICK c : c = req[r]
    OBVIOUS
  <2>2. Under(c) => Fits(c) /\ Due(r, c)
    BY <2>1 DEF TransactionInv, KnownRequest
  <2>3. Due(r, c) => Due(r, c)'
    BY <1>1 DEF Due, CreateDue, RenameDue, DeleteDue, CreateInviteDue, AcceptDue, RevokeDue,
                TransferDue, LinkDue, ShareDue, Mine, LinkedProjects
  <2>4. KnownRequest(r)' <=>
          /\ Under(c) => Fits(c) /\ Due(r, c)'
          /\ ~Under(c) => \A y \in Rows : r \notin share[y]
          /\ \A s \in Reqs \ {r} : Under(c) /\ Under(req[s]) => Apart(c, req[s])
    BY <1>1, <2>1 DEF KnownRequest
  <2> QED
    BY <2>1, <2>2, <2>3, <2>4 DEF TransactionInv, KnownRequest
<1>4. (\A g \in Groups : KnownGroup(g)') /\ \A i \in Invites : KnownInvite(i)'
  BY <1>1 DEF TransactionInv, KnownGroup, KnownInvite
<1> QED
  BY <1>2, <1>3, <1>4 DEF TransactionInv

(* Every step keeps what the transactions know and hold.                   *)
LEMMA TransactionStep ==
  ASSUME TransactionInv, [Next]_vars
  PROVE  TransactionInv'
<1>0. TypeOK'
  BY TypeStep DEF TransactionInv
<1>1. CASE \E r \in Reqs : Arrive(r)
  BY <1>0, <1>1, ArriveKeeps
<1>2. CASE \E r \in Reqs : Proceed(r)
  BY <1>0, <1>2, ProceedKeeps
<1>3. CASE Tick \/ UNCHANGED vars
  BY <1>0, <1>3, QuietKeeps DEF Tick, AttemptAges, InviteExpires, vars, store
<1>4. CASE Restart
  BY <1>0, <1>4, RestartKeeps
<1>5. CASE ProjectStep
  BY <1>0, <1>5, ProjectStepKeeps DEF ProjectStep, CreateProject, DeleteProject
<1> QED
  BY <1>1, <1>2, <1>3, <1>4, <1>5 DEF Next

(* Whatever requests overlap, fail, are rolled back or die with the server: *)
(* every row that is written and not committed belongs to a statement its  *)
(* request has run, every request still has what it relies on when it      *)
(* comes to its next statement, and every reference is to a group that is  *)
(* there.                                                                  *)
THEOREM TransactionsHold == Spec => []TransactionInv
<1>1. TransactionInv /\ [Next]_vars => TransactionInv'
  BY TransactionStep
<1> QED
  BY TransactionInit, <1>1, PTL DEF Spec
==============================================================================
