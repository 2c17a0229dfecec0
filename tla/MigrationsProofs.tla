-------------------------- MODULE MigrationsProofs --------------------------
(***************************************************************************)
(* What holds of the schema and of the migrations for any number of        *)
(* containers and operators that migrate one database, fail, die and start *)
(* again: the invariant says where in its scripts a migration is, what it  *)
(* has locked and written by then, and what it may rely on.                *)
(***************************************************************************)
EXTENDS Migrations, RowStoreProofs, SequenceTheorems

-----------------------------------------------------------------------------
(* The scripts, statement by statement.                                    *)

Revisions == {Absent, Init1c6e, Groups7c8e}
Statement == ({"create", "drop"} \X Objects)
               \union {<<"stamp", Version, from, to>> : from, to \in Revisions}

(* The rows of the store.                                                  *)
Keys == Objects \union {Version}

(* The objects the revisions are about: all but alembic's own table.       *)
Tables == Objects \ {"alembic_version"}

Parts == {"up1", "up2", "down1", "down2"}
ScriptOf(p) == CASE p = "up1"   -> Up1
                 [] p = "up2"   -> Up2
                 [] p = "down1" -> Down1
                 [] p = "down2" -> Down2
                 [] OTHER       -> <<>>
From(p) == CASE p = "up1" -> Absent [] p = "down2" -> Groups7c8e [] OTHER -> Init1c6e
To(p) == CASE p = "down1" -> Absent [] p = "up2" -> Groups7c8e [] OTHER -> Init1c6e
What(p) == IF p \in {"up1", "up2"} THEN "create" ELSE "drop"
Made(p) == IF p \in {"up1", "up2"} THEN There ELSE Absent

(* The statements of a part before its stamp, and what the k-th is about.  *)
Last(p) == IF p = "up1" THEN 6 ELSE 5
Object(p, k) == ScriptOf(p)[k][2]
Touched(p, k, x) == \E i \in 1 .. k : Object(p, i) = x

(* The names of the things in the schema, and what they refer to.          *)
LEMMA ObjectNames ==
  /\ Objects = {"users", "projects", "refresh_tokens", "task_status", "tasks", "attachments",
                "groups", "group_invites", "group_role", "group_memberships", "group_id",
                "alembic_version"}
  /\ Version \notin Objects /\ RefersTo[Version] = {}
BY DEF Objects, RefersTo, Version

(* A table refers to tables, and none to itself.                           *)
LEMMA References ==
  /\ \A x \in Objects : RefersTo[x] \subseteq Tables /\ x \notin RefersTo[x]
  /\ RefersTo["alembic_version"] = {}
BY ObjectNames DEF RefersTo, Tables

(* The four parts are what the scripts write down.                         *)
LEMMA Up1Is ==
  /\ Len(Up1) = 7
  /\ Up1[1] = <<"create", "users">> /\ Up1[2] = <<"create", "projects">>
  /\ Up1[3] = <<"create", "refresh_tokens">> /\ Up1[4] = <<"create", "task_status">>
  /\ Up1[5] = <<"create", "tasks">> /\ Up1[6] = <<"create", "attachments">>
  /\ Up1[7] = <<"stamp", Version, Absent, Init1c6e>>
BY DEF Up1, UpgradeInit, Creates, Stamp

(* The upgrade to the groups.                                              *)
LEMMA Up2Is ==
  /\ Len(Up2) = 6
  /\ Up2[1] = <<"create", "groups">> /\ Up2[2] = <<"create", "group_invites">>
  /\ Up2[3] = <<"create", "group_role">> /\ Up2[4] = <<"create", "group_memberships">>
  /\ Up2[5] = <<"create", "group_id">>
  /\ Up2[6] = <<"stamp", Version, Init1c6e, Groups7c8e>>
BY DEF Up2, UpgradeGroups, Creates, Stamp

(* The downgrade of the first migration.                                   *)
LEMMA Down1Is ==
  /\ Len(Down1) = 6
  /\ Down1[1] = <<"drop", "attachments">> /\ Down1[2] = <<"drop", "tasks">>
  /\ Down1[3] = <<"drop", "refresh_tokens">> /\ Down1[4] = <<"drop", "projects">>
  /\ Down1[5] = <<"drop", "users">>
  /\ Down1[6] = <<"stamp", Version, Init1c6e, Absent>>
BY DEF Down1, DowngradeInit, Drops, Stamp

(* The downgrade of the groups.                                            *)
LEMMA Down2Is ==
  /\ Len(Down2) = 6
  /\ Down2[1] = <<"drop", "group_id">> /\ Down2[2] = <<"drop", "group_memberships">>
  /\ Down2[3] = <<"drop", "group_role">> /\ Down2[4] = <<"drop", "group_invites">>
  /\ Down2[5] = <<"drop", "groups">>
  /\ Down2[6] = <<"stamp", Version, Groups7c8e, Init1c6e>>
BY DEF Down2, DowngradeGroups, Drops, Stamp

(* They are sequences of statements.                                       *)
LEMMA PartsAreScripts ==
  /\ Up1 \in Seq(Statement) /\ Up2 \in Seq(Statement)
  /\ Down1 \in Seq(Statement) /\ Down2 \in Seq(Statement)
  /\ <<>> \in Seq(Statement)
<1>1. /\ UpgradeInit \in Seq(Statement) /\ UpgradeGroups \in Seq(Statement)
  BY ObjectNames DEF UpgradeInit, UpgradeGroups, Creates, Statement
<1>2. DowngradeInit \in Seq(Statement) /\ DowngradeGroups \in Seq(Statement)
  BY ObjectNames DEF DowngradeInit, DowngradeGroups, Drops, Statement
<1>3. \A from, to \in Revisions : Stamp(from, to) \in Seq(Statement)
  BY DEF Stamp, Statement
<1>4. Absent \in Revisions /\ Init1c6e \in Revisions /\ Groups7c8e \in Revisions
  BY DEF Revisions
<1> QED
  BY <1>1, <1>2, <1>3, <1>4 DEF Up1, Up2, Down1, Down2

(* Every part creates or drops one table after another, and stamps.        *)
LEMMA PartShape ==
  ASSUME NEW p \in Parts
  PROVE  /\ ScriptOf(p) \in Seq(Statement) /\ Len(ScriptOf(p)) = Last(p) + 1
         /\ Last(p) \in 5 .. 6
         /\ ScriptOf(p)[Last(p) + 1] = <<"stamp", Version, From(p), To(p)>>
         /\ \A k \in 1 .. Last(p) :
              ScriptOf(p)[k] = <<What(p), Object(p, k)>> /\ Object(p, k) \in Tables
<1>1. CASE p = "up1"
  BY <1>1, Up1Is, PartsAreScripts, ObjectNames
     DEF ScriptOf, Last, From, To, What, Object, Tables
<1>2. CASE p = "up2"
  BY <1>2, Up2Is, PartsAreScripts, ObjectNames
     DEF ScriptOf, Last, From, To, What, Object, Tables
<1>3. CASE p = "down1"
  BY <1>3, Down1Is, PartsAreScripts, ObjectNames
     DEF ScriptOf, Last, From, To, What, Object, Tables
<1>4. CASE p = "down2"
  BY <1>4, Down2Is, PartsAreScripts, ObjectNames
     DEF ScriptOf, Last, From, To, What, Object, Tables
<1> QED
  BY <1>1, <1>2, <1>3, <1>4 DEF Parts

-----------------------------------------------------------------------------
(* Where a migration is in its scripts.                                    *)

(* What is left, t, after k statements of P, with Q to follow.             *)
Rest(t, P, k, Q) ==
  /\ t \in Seq(Statement)
  /\ Len(t) = (Len(P) - k) + Len(Q)
  /\ \A j \in 1 .. (Len(P) - k) : t[j] = P[k + j]
  /\ \A j \in 1 .. Len(Q) : t[(Len(P) - k) + j] = Q[j]

(* The part that comes after part p, the one a command begins with, and    *)
(* the parts of a command.                                                 *)
Then(p, cmd) == CASE p = "up1"                             -> "up2"
                  [] p = "down2" /\ cmd = "downgrade base" -> "down1"
                  [] OTHER                                 -> "end"
OneBack(cmd) == cmd = "downgrade -1"
FirstPart(cmd, rev) ==
  CASE cmd = "upgrade head" /\ rev = Absent     -> "up1"
    [] cmd = "upgrade head" /\ rev = Init1c6e   -> "up2"
    [] cmd # "upgrade head" /\ rev = Groups7c8e -> "down2"
    [] cmd # "upgrade head" /\ rev = Init1c6e   -> "down1"
    [] OTHER                                    -> "end"
PartOf(p, cmd) == cmd \in Commands /\ (cmd = "upgrade head" <=> p \in {"up1", "up2"})

Body(t, p, cmd) ==
  IF p = "end" THEN t = <<>> ELSE Rest(t, ScriptOf(p), 0, ScriptOf(Then(p, cmd)))

(* Value v of object x is as revision rev has it.                          *)
Like(v, x, rev) == /\ x \in TablesOf(rev) => v # Absent
                   /\ v # Absent => x \in TablesOf(rev) \union {"task_status"}

(* What is so of the revision, unless another migration came in between.   *)
Base(r, p) ==
  r \notin overtaken =>
    IF p = "end" THEN proc[r].cmd = "upgrade head" => db[Version] = Newest
                 ELSE db[Version] = From(p)

(* Before the table of the revision is created nothing is held.            *)
BeforePart(r, p) ==
  /\ Body(Tail(proc[r].todo), p, proc[r].cmd)
  /\ p = "end" \/ PartOf(p, proc[r].cmd)
  /\ Base(r, p)

Opening(r) ==
  /\ proc[r].todo \in Seq(Statement) /\ proc[r].todo # <<>>
  /\ Head(proc[r].todo) = <<"create", "alembic_version">>
  /\ \A x \in Keys : lock[x] # r
  /\ r \notin overtaken => db["alembic_version"] = Absent
  /\ \E p \in Parts \union {"end"} : BeforePart(r, p)

(* What is so of object x after k statements of part p.  Until r has       *)
(* stamped a revision it may be overtaken, but not on what it holds.       *)
Half(r, p, k, x) ==
  IF Touched(p, k, x) THEN lock[x] = r /\ latest[x] = Made(p)
  ELSE IF lock[Version] = r THEN Like(Found(r, x), x, From(p))
  ELSE lock[x] = r => latest[x] = db[x]

Basis(r, p) ==
  IF lock[Version] = r THEN latest[Version] = From(p) /\ p \in {"up2", "down1"} ELSE Base(r, p)

At(r, p, k) ==
  /\ Rest(proc[r].todo, ScriptOf(p), k, ScriptOf(Then(p, proc[r].cmd)))
  /\ PartOf(p, proc[r].cmd)
  /\ \A x \in Tables : Half(r, p, k, x)
  /\ Basis(r, p)

(* The scripts are done, and the schema in hand is the one of the revision *)
(* in hand; or there was nothing to do.                                    *)
Stamped(r) ==
  /\ proc[r].todo = <<>> /\ lock[Version] = r
  /\ \A x \in Tables : Like(Found(r, x), x, latest[Version])
  /\ proc[r].cmd = "upgrade head" => latest[Version] = Newest

Blank(r) ==
  /\ proc[r].todo = <<>>
  /\ \A x \in Tables \union {Version} : lock[x] # r
  /\ Base(r, "end")

Place(r) == \/ Opening(r) \/ Stamped(r) \/ Blank(r)
            \/ \E p \in Parts : \E k \in 0 .. Last(p) : At(r, p, k)

Knows(r) ==
  /\ proc[r].pc = "reading" => proc[r].cmd \in Commands
  /\ r \in Containers /\ proc[r].pc \in {"reading", "running"} => proc[r].cmd = "upgrade head"
  /\ IF Running(r) THEN Place(r) ELSE proc[r].todo = <<>>
  /\ proc[r].pc = "migrated" /\ r \notin overtaken => db[Version] = Newest
  /\ (\E x \in Keys : lock[x] = r) => Running(r)

(* The rows of the store have values of theirs.                            *)
WellTyped ==
  /\ StoreType(Keys, {Absent, There, Init1c6e, Groups7c8e}) /\ Clean
  /\ db[Version] \in Revisions /\ latest[Version] \in Revisions
  /\ \A x \in Objects : db[x] \in {Absent, There} /\ latest[x] \in {Absent, There}

Processes == [pc : {"off", "reading", "running", "migrated", "serving", "failed"},
              cmd : Commands \union {"none"}, todo : Seq(Statement)]

SchemaInv ==
  /\ WellTyped
  /\ \A x \in Tables : Like(db[x], x, db[Version])
  /\ proc \in [Reqs -> Processes] /\ overtaken \subseteq Reqs
  /\ \A r \in Reqs : Knows(r)

-----------------------------------------------------------------------------
(* Sequences of statements.                                                *)

(* The next statement of a part is at the head of what is left.            *)
LEMMA RestHead ==
  ASSUME NEW t, NEW P \in Seq(Statement), NEW Q \in Seq(Statement), NEW k \in Nat,
         k < Len(P), Rest(t, P, k, Q)
  PROVE  /\ t # <<>> /\ Head(t) = P[k + 1] /\ Rest(Tail(t), P, k + 1, Q)
<1>1. Len(P) \in Nat /\ Len(Q) \in Nat /\ t \in Seq(Statement) /\ Len(t) = (Len(P) - k) + Len(Q)
  BY DEF Rest
<1>2. t # <<>> /\ Len(t) > 0
  BY <1>1
<1>3. Head(t) = t[1] /\ t[1] = P[k + 1]
  BY <1>1, <1>2 DEF Rest
<1>4. /\ Tail(t) \in Seq(Statement) /\ Len(Tail(t)) = Len(t) - 1
      /\ \A j \in 1 .. Len(Tail(t)) : Tail(t)[j] = t[j + 1]
  BY <1>1, <1>2, HeadTailProperties
<1>5. \A j \in 1 .. (Len(P) - (k + 1)) : Tail(t)[j] = P[(k + 1) + j]
  <2> SUFFICES ASSUME NEW j \in 1 .. (Len(P) - (k + 1)) PROVE Tail(t)[j] = P[(k + 1) + j]
    OBVIOUS
  <2>1. j \in 1 .. Len(Tail(t)) /\ j + 1 \in 1 .. (Len(P) - k) /\ k + (j + 1) = (k + 1) + j
    BY <1>1, <1>4
  <2>2. t[j + 1] = P[k + (j + 1)]
    BY <2>1 DEF Rest
  <2> QED
    BY <1>4, <2>1, <2>2
<1>6. \A j \in 1 .. Len(Q) : Tail(t)[(Len(P) - (k + 1)) + j] = Q[j]
  <2> SUFFICES ASSUME NEW j \in 1 .. Len(Q) PROVE Tail(t)[(Len(P) - (k + 1)) + j] = Q[j]
    OBVIOUS
  <2>1. /\ (Len(P) - (k + 1)) + j \in 1 .. Len(Tail(t))
        /\ ((Len(P) - (k + 1)) + j) + 1 = (Len(P) - k) + j
    BY <1>1, <1>4
  <2>2. t[(Len(P) - k) + j] = Q[j]
    BY DEF Rest
  <2> QED
    BY <1>4, <2>1, <2>2
<1>7. Len(Tail(t)) = (Len(P) - (k + 1)) + Len(Q)
  BY <1>1, <1>4
<1> QED
  BY <1>2, <1>3, <1>4, <1>5, <1>6, <1>7 DEF Rest

(* After the last statement of a part comes the sequel.                    *)
LEMMA RestNext ==
  ASSUME NEW t, NEW P \in Seq(Statement), NEW Q \in Seq(Statement), Rest(t, P, Len(P), Q)
  PROVE  Rest(t, Q, 0, <<>>)
<1>1. Len(P) \in Nat /\ Len(Q) \in Nat /\ Len(P) - Len(P) = 0
  OBVIOUS
<1>2. t \in Seq(Statement) /\ Len(t) = Len(Q)
  BY <1>1 DEF Rest
<1>3. \A j \in 1 .. Len(Q) : t[j] = Q[j]
  BY <1>1 DEF Rest
<1> QED
  BY <1>1, <1>2, <1>3 DEF Rest

(* A part and its sequel, before the first statement.                      *)
LEMMA RestStart ==
  ASSUME NEW P \in Seq(Statement), NEW Q \in Seq(Statement)
  PROVE  Rest(P \o Q, P, 0, Q)
<1>1. /\ P \o Q \in Seq(Statement) /\ Len(P \o Q) = Len(P) + Len(Q)
      /\ \A j \in 1 .. Len(P) + Len(Q) :
           (P \o Q)[j] = IF j <= Len(P) THEN P[j] ELSE Q[j - Len(P)]
  BY ConcatProperties
<1>2. Len(P) \in Nat /\ Len(Q) \in Nat
  OBVIOUS
<1>3. \A j \in 1 .. Len(P) : (P \o Q)[j] = P[0 + j]
  BY <1>1, <1>2
<1>4. \A j \in 1 .. Len(Q) : (P \o Q)[Len(P) + j] = Q[j]
  BY <1>1, <1>2
<1> QED
  BY <1>1, <1>2, <1>3, <1>4 DEF Rest

(* A part alone.                                                           *)
LEMMA RestAlone ==
  ASSUME NEW P \in Seq(Statement)
  PROVE  Rest(P, P, 0, <<>>)
<1>1. Len(P) \in Nat
  OBVIOUS
<1> QED
  BY <1>1, PartsAreScripts DEF Rest

(* One more statement in front.                                            *)
LEMMA OneMore ==
  ASSUME NEW s \in Statement, NEW t \in Seq(Statement), NEW c, c \in Seq(Statement),
         Len(c) = 1, c[1] = s
  PROVE  /\ c \o t \in Seq(Statement) /\ c \o t # <<>> /\ Head(c \o t) = s /\ Tail(c \o t) = t
<1>1. /\ c \o t \in Seq(Statement) /\ Len(c \o t) = 1 + Len(t)
      /\ \A j \in 1 .. 1 + Len(t) : (c \o t)[j] = IF j <= 1 THEN c[j] ELSE t[j - 1]
  <2>1. /\ c \o t \in Seq(Statement) /\ Len(c \o t) = Len(c) + Len(t)
        /\ \A j \in 1 .. Len(c) + Len(t) : (c \o t)[j] = IF j <= Len(c) THEN c[j] ELSE t[j - Len(c)]
    BY ConcatProperties
  <2> QED
    BY <2>1
<1>2. Len(t) \in Nat /\ c \o t # <<>>
  BY <1>1
<1>3. Head(c \o t) = s
  BY <1>1, <1>2, HeadTailProperties
<1>4. /\ Tail(c \o t) \in Seq(Statement) /\ Len(Tail(c \o t)) = Len(t)
      /\ \A j \in 1 .. Len(t) : Tail(c \o t)[j] = (c \o t)[j + 1]
  BY <1>1, <1>2, HeadTailProperties
<1>5. \A j \in 1 .. Len(t) : Tail(c \o t)[j] = t[j]
  BY <1>1, <1>2, <1>4
<1>6. Tail(c \o t) = t
  BY <1>4, <1>5, SeqEqual
<1> QED
  BY <1>1, <1>2, <1>3, <1>6

(* The script of a command found at a revision.                            *)
LEMMA ScriptShape ==
  ASSUME NEW cmd \in Commands, NEW rev \in Revisions, db["alembic_version"] \in {Absent, There},
         rev = Absent => ~OneBack(cmd)
  PROVE  \E b \in Seq(Statement) :
           /\ Body(b, FirstPart(cmd, rev), cmd)
           /\ IF db["alembic_version"] = Absent
              THEN /\ Script(cmd, rev) \in Seq(Statement) /\ Script(cmd, rev) # <<>>
                   /\ Head(Script(cmd, rev)) = <<"create", "alembic_version">>
                   /\ Tail(Script(cmd, rev)) = b
              ELSE Script(cmd, rev) = b
<1> DEFINE body == CASE cmd = "upgrade head" /\ rev = Absent -> Up1 \o Up2
                     [] cmd = "upgrade head" /\ rev = Init1c6e -> Up2
                     [] cmd = "downgrade -1" /\ rev = Groups7c8e -> Down2
                     [] cmd = "downgrade base" /\ rev = Groups7c8e -> Down2 \o Down1
                     [] cmd # "upgrade head" /\ rev = Init1c6e -> Down1
                     [] OTHER -> <<>>
           first == Creates(<<"alembic_version">>)
<1> HIDE DEF body, first
<1>1. /\ Absent # Init1c6e /\ Absent # Groups7c8e /\ Init1c6e # Groups7c8e
      /\ Absent # There
  BY DEF Absent, Init1c6e, Groups7c8e, There
<1>2. body \in Seq(Statement) /\ Body(body, FirstPart(cmd, rev), cmd)
  <2>0. cmd = "upgrade head" \/ cmd = "downgrade -1" \/ cmd = "downgrade base"
    BY Zenon DEF Commands
  <2>7. cmd = "downgrade -1" <=> OneBack(cmd)
    BY Zenon DEF OneBack
  <2>1. CASE cmd = "upgrade head" /\ rev = Absent
    <3>1. body = Up1 \o Up2 /\ FirstPart(cmd, rev) = "up1" /\ Then("up1", cmd) = "up2"
      BY <1>1, <2>1 DEF FirstPart, Then, body
    <3>2. ScriptOf("up1") = Up1 /\ ScriptOf("up2") = Up2
      BY DEF ScriptOf
    <3> QED
      BY <3>1, <3>2, RestStart, PartsAreScripts, ConcatProperties DEF Body
  <2>2. CASE cmd = "upgrade head" /\ rev = Init1c6e
    <3>1. body = Up2 /\ FirstPart(cmd, rev) = "up2" /\ Then("up2", cmd) = "end"
      BY <1>1, <2>2 DEF FirstPart, Then, body
    <3>2. ScriptOf("up2") = Up2 /\ ScriptOf("end") = <<>>
      BY DEF ScriptOf
    <3> QED
      BY <3>1, <3>2, RestAlone, PartsAreScripts DEF Body
  <2>3. CASE cmd = "downgrade -1" /\ rev = Groups7c8e
    <3>1. body = Down2 /\ FirstPart(cmd, rev) = "down2" /\ Then("down2", cmd) = "end"
      BY <1>1, <2>3 DEF FirstPart, Then, body
    <3>2. ScriptOf("down2") = Down2 /\ ScriptOf("end") = <<>>
      BY DEF ScriptOf
    <3> QED
      BY <3>1, <3>2, RestAlone, PartsAreScripts DEF Body
  <2>4. CASE cmd = "downgrade base" /\ rev = Groups7c8e
    <3>1. body = Down2 \o Down1 /\ FirstPart(cmd, rev) = "down2" /\ Then("down2", cmd) = "down1"
      BY <1>1, <2>4 DEF FirstPart, Then, body
    <3>2. ScriptOf("down2") = Down2 /\ ScriptOf("down1") = Down1
      BY DEF ScriptOf
    <3> QED
      BY <3>1, <3>2, RestStart, PartsAreScripts, ConcatProperties DEF Body
  <2>5. CASE cmd # "upgrade head" /\ rev = Init1c6e
    <3>1. body = Down1 /\ FirstPart(cmd, rev) = "down1" /\ Then("down1", cmd) = "end"
      BY <1>1, <2>5 DEF FirstPart, Then, body
    <3>2. ScriptOf("down1") = Down1 /\ ScriptOf("end") = <<>>
      BY DEF ScriptOf
    <3> QED
      BY <3>1, <3>2, RestAlone, PartsAreScripts DEF Body
  <2>6. CASE (cmd = "upgrade head" /\ rev = Groups7c8e) \/ (cmd = "downgrade base" /\ rev = Absent)
    <3>1. body = <<>> /\ FirstPart(cmd, rev) = "end"
      BY <1>1, <2>6 DEF FirstPart, body
    <3> QED
      BY <3>1, PartsAreScripts DEF Body
  <2> QED
    <3>1. rev = Absent \/ rev = Init1c6e \/ rev = Groups7c8e
      BY DEF Revisions
    <3> QED
      BY Zenon, <2>0, <2>7, <3>1, <2>1, <2>2, <2>3, <2>4, <2>5, <2>6
<1>3. Script(cmd, rev) = (IF db["alembic_version"] = Absent THEN first ELSE <<>>) \o body
  BY Zenon DEF Script, body, first
<1>4. first \in Seq(Statement) /\ Len(first) = 1 /\ first[1] = <<"create", "alembic_version">>
      /\ <<"create", "alembic_version">> \in Statement
  BY ObjectNames DEF Creates, Statement, first
<1>5. CASE db["alembic_version"] = Absent
  <2>1. Script(cmd, rev) = first \o body
    BY <1>3, <1>5
  <2> QED
    BY <1>2, <1>4, <1>5, <2>1, OneMore
<1>6. CASE db["alembic_version"] # Absent
  <2>1. Script(cmd, rev) = <<>> \o body
    BY <1>3, <1>6
  <2>2. Script(cmd, rev) = body
    BY <1>2, <2>1, ConcatEmptySeq
  <2> QED
    BY <1>2, <1>6, <2>2
<1> QED
  BY <1>5, <1>6

-----------------------------------------------------------------------------
(* What the parts do to the tables.                                        *)

(* The tables of each revision.                                            *)
LEMMA TablesAre ==
  /\ TablesOf(Absent) = {}
  /\ TablesOf(Init1c6e) = {"users", "projects", "refresh_tokens", "task_status", "tasks",
                           "attachments"}
  /\ TablesOf(Groups7c8e) = Tables
  /\ Tables = {"users", "projects", "refresh_tokens", "task_status", "tasks", "attachments",
               "groups", "group_invites", "group_role", "group_memberships", "group_id"}
  /\ Absent # There
<1>1. /\ Absent # Init1c6e /\ Absent # Groups7c8e /\ Init1c6e # Groups7c8e
  BY DEF Absent, Init1c6e, Groups7c8e
<1> QED
  BY <1>1, ObjectNames DEF TablesOf, Tables, Absent, There

(* The objects of the parts.                                               *)
LEMMA ObjectsOfParts ==
  /\ Object("up1", 1) = "users" /\ Object("up1", 2) = "projects"
  /\ Object("up1", 3) = "refresh_tokens" /\ Object("up1", 4) = "task_status"
  /\ Object("up1", 5) = "tasks" /\ Object("up1", 6) = "attachments"
  /\ Object("up2", 1) = "groups" /\ Object("up2", 2) = "group_invites"
  /\ Object("up2", 3) = "group_role" /\ Object("up2", 4) = "group_memberships"
  /\ Object("up2", 5) = "group_id"
  /\ Object("down1", 1) = "attachments" /\ Object("down1", 2) = "tasks"
  /\ Object("down1", 3) = "refresh_tokens" /\ Object("down1", 4) = "projects"
  /\ Object("down1", 5) = "users"
  /\ Object("down2", 1) = "group_id" /\ Object("down2", 2) = "group_memberships"
  /\ Object("down2", 3) = "group_role" /\ Object("down2", 4) = "group_invites"
  /\ Object("down2", 5) = "groups"
<1>1. ScriptOf("up1") = Up1 /\ ScriptOf("up2") = Up2
  BY DEF ScriptOf
<1>2. ScriptOf("down1") = Down1 /\ ScriptOf("down2") = Down2
  BY DEF ScriptOf
<1> QED
  BY <1>1, <1>2, Up1Is, Up2Is, Down1Is, Down2Is DEF Object

(* A part touches one object after the other.                              *)
LEMMA TouchedNext ==
  ASSUME NEW p, NEW k \in Nat, NEW x
  PROVE  /\ ~Touched(p, 0, x)
         /\ Touched(p, k + 1, x) <=> Touched(p, k, x) \/ x = Object(p, k + 1)
<1>1. 1 .. 0 = {} /\ 1 .. (k + 1) = (1 .. k) \union {k + 1}
  OBVIOUS
<1> QED
  BY <1>1 DEF Touched

(* What each part has touched in the end.                                  *)
LEMMA TouchedInTheEnd ==
  ASSUME NEW x
  PROVE  /\ Touched("up1", 6, x) <=> x \in TablesOf(Init1c6e)
         /\ Touched("up2", 5, x) <=> x \in TablesOf(Groups7c8e) \ TablesOf(Init1c6e)
         /\ Touched("down1", 5, x) <=> x \in TablesOf(Init1c6e) \ {"task_status"}
         /\ Touched("down2", 5, x) <=> x \in TablesOf(Groups7c8e) \ TablesOf(Init1c6e)
<1>1. 1 .. 6 = {1, 2, 3, 4, 5, 6} /\ 1 .. 5 = {1, 2, 3, 4, 5}
  OBVIOUS
<1> QED
  BY <1>1, ObjectsOfParts, TablesAre DEF Touched

(* At its end a part has the tables of the revision it stamps.             *)
LEMMA PartEnd ==
  ASSUME NEW p \in Parts, NEW x \in Tables, NEW v,
         IF Touched(p, Last(p), x) THEN v = Made(p) ELSE Like(v, x, From(p))
  PROVE  Like(v, x, To(p))
<1>1. CASE p = "up1"
  BY <1>1, TouchedInTheEnd, TablesAre DEF Last, Made, Like, From, To
<1>2. CASE p = "up2"
  BY <1>2, TouchedInTheEnd, TablesAre DEF Last, Made, Like, From, To
<1>3. CASE p = "down1"
  BY <1>3, TouchedInTheEnd, TablesAre DEF Last, Made, Like, From, To
<1>4. CASE p = "down2"
  BY <1>4, TouchedInTheEnd, TablesAre DEF Last, Made, Like, From, To
<1> QED
  BY <1>1, <1>2, <1>3, <1>4 DEF Parts

(* The next object of a part is not touched twice.  A table is created     *)
(* after those it refers to, and dropped after those that refer to it.     *)
InOrder(p, k) ==
  LET o == Object(p, k + 1) IN
  /\ ~Touched(p, k, o)
  /\ p \in {"up1", "up2"} =>
       /\ o \notin TablesOf(From(p))
       /\ \A x \in RefersTo[o] : Touched(p, k, x) \/ x \in TablesOf(From(p))
  /\ p \in {"down1", "down2"} =>
       /\ o \in TablesOf(From(p))
       /\ \A x \in Objects : o \in RefersTo[x] =>
            Touched(p, k, x) \/ x \notin TablesOf(From(p)) \union {"task_status"}

(* This is the order of the statements in the scripts.                     *)
LEMMA PartNext ==
  ASSUME NEW p \in Parts, NEW k \in 0 .. Last(p) - 1
  PROVE  InOrder(p, k)
<1>1. 1 .. 0 = {} /\ 1 .. 1 = {1} /\ 1 .. 2 = {1, 2} /\ 1 .. 3 = {1, 2, 3}
      /\ 1 .. 4 = {1, 2, 3, 4} /\ 1 .. 5 = {1, 2, 3, 4, 5}
  OBVIOUS
<1>2. CASE p = "up1"
  <2>0. From(p) = Absent /\ Last(p) = 6
    BY <1>2 DEF From, Last
  <2>1. CASE k = 0
    BY <1>1, <1>2, <2>0, <2>1, ObjectsOfParts, TablesAre, ObjectNames DEF InOrder, Touched, RefersTo
  <2>2. CASE k = 1
    BY <1>1, <1>2, <2>0, <2>2, ObjectsOfParts, TablesAre, ObjectNames DEF InOrder, Touched, RefersTo
  <2>3. CASE k = 2
    BY <1>1, <1>2, <2>0, <2>3, ObjectsOfParts, TablesAre, ObjectNames DEF InOrder, Touched, RefersTo
  <2>4. CASE k = 3
    BY <1>1, <1>2, <2>0, <2>4, ObjectsOfParts, TablesAre, ObjectNames DEF InOrder, Touched, RefersTo
  <2>5. CASE k = 4
    BY <1>1, <1>2, <2>0, <2>5, ObjectsOfParts, TablesAre, ObjectNames DEF InOrder, Touched, RefersTo
  <2>6. CASE k = 5
    BY <1>1, <1>2, <2>0, <2>6, ObjectsOfParts, TablesAre, ObjectNames DEF InOrder, Touched, RefersTo
  <2> QED
    BY <2>0, <2>1, <2>2, <2>3, <2>4, <2>5, <2>6
<1>3. CASE p = "up2"
  <2>0. From(p) = Init1c6e /\ Last(p) = 5
    BY <1>3 DEF From, Last
  <2>1. CASE k = 0
    BY <1>1, <1>3, <2>0, <2>1, ObjectsOfParts, TablesAre, ObjectNames DEF InOrder, Touched, RefersTo
  <2>2. CASE k = 1
    BY <1>1, <1>3, <2>0, <2>2, ObjectsOfParts, TablesAre, ObjectNames DEF InOrder, Touched, RefersTo
  <2>3. CASE k = 2
    BY <1>1, <1>3, <2>0, <2>3, ObjectsOfParts, TablesAre, ObjectNames DEF InOrder, Touched, RefersTo
  <2>4. CASE k = 3
    BY <1>1, <1>3, <2>0, <2>4, ObjectsOfParts, TablesAre, ObjectNames DEF InOrder, Touched, RefersTo
  <2>5. CASE k = 4
    BY <1>1, <1>3, <2>0, <2>5, ObjectsOfParts, TablesAre, ObjectNames DEF InOrder, Touched, RefersTo
  <2> QED
    BY <2>0, <2>1, <2>2, <2>3, <2>4, <2>5
<1>4. CASE p = "down1"
  <2>0. From(p) = Init1c6e /\ Last(p) = 5
    BY <1>4 DEF From, Last
  <2>1. CASE k = 0
    BY <1>1, <1>4, <2>0, <2>1, ObjectsOfParts, TablesAre, ObjectNames DEF InOrder, Touched, RefersTo
  <2>2. CASE k = 1
    BY <1>1, <1>4, <2>0, <2>2, ObjectsOfParts, TablesAre, ObjectNames DEF InOrder, Touched, RefersTo
  <2>3. CASE k = 2
    BY <1>1, <1>4, <2>0, <2>3, ObjectsOfParts, TablesAre, ObjectNames DEF InOrder, Touched, RefersTo
  <2>4. CASE k = 3
    BY <1>1, <1>4, <2>0, <2>4, ObjectsOfParts, TablesAre, ObjectNames DEF InOrder, Touched, RefersTo
  <2>5. CASE k = 4
    BY <1>1, <1>4, <2>0, <2>5, ObjectsOfParts, TablesAre, ObjectNames DEF InOrder, Touched, RefersTo
  <2> QED
    BY <2>0, <2>1, <2>2, <2>3, <2>4, <2>5
<1>5. CASE p = "down2"
  <2>0. From(p) = Groups7c8e /\ Last(p) = 5
    BY <1>5 DEF From, Last
  <2>1. CASE k = 0
    BY <1>1, <1>5, <2>0, <2>1, ObjectsOfParts, TablesAre, ObjectNames DEF InOrder, Touched, RefersTo
  <2>2. CASE k = 1
    BY <1>1, <1>5, <2>0, <2>2, ObjectsOfParts, TablesAre, ObjectNames DEF InOrder, Touched, RefersTo
  <2>3. CASE k = 2
    BY <1>1, <1>5, <2>0, <2>3, ObjectsOfParts, TablesAre, ObjectNames DEF InOrder, Touched, RefersTo
  <2>4. CASE k = 3
    BY <1>1, <1>5, <2>0, <2>4, ObjectsOfParts, TablesAre, ObjectNames DEF InOrder, Touched, RefersTo
  <2>5. CASE k = 4
    BY <1>1, <1>5, <2>0, <2>5, ObjectsOfParts, TablesAre, ObjectNames DEF InOrder, Touched, RefersTo
  <2> QED
    BY <2>0, <2>1, <2>2, <2>3, <2>4, <2>5
<1> QED
  BY <1>2, <1>3, <1>4, <1>5 DEF Parts

-----------------------------------------------------------------------------
(* What a step of one migration leaves to another one, q: the rows it      *)
(* holds and, unless it is overtaken, the committed schema.  What is       *)
(* committed past a migration that has stamped its revision is alembic's   *)
(* own table at most.                                                      *)
KeepsRows(q) ==
  \A x \in Keys : /\ lock'[x] = q <=> lock[x] = q
                  /\ lock[x] = q => latest'[x] = latest[x] /\ db'[x] = db[x]
KeepsBase(q) ==
  \/ db' = db /\ (q \in overtaken' <=> q \in overtaken)
  \/ /\ q \in overtaken'
     /\ lock[Version] = q => \A x \in Keys \ {"alembic_version"} : db'[x] = db[x]

(* The tables and the revision are rows.                                   *)
LEMMA RowsAre ==
  /\ Tables \subseteq Keys \ {"alembic_version", Version}
  /\ Version \in Keys \ {"alembic_version"} /\ "alembic_version" \in Keys
  /\ Objects = Tables \union {"alembic_version"} /\ Objects \subseteq Keys
  /\ Version \notin Objects
BY ObjectNames DEF Tables, Keys, Version

(* A migration keeps its place while another one goes on.                  *)
LEMMA OtherKeepsPlace ==
  ASSUME NEW q, Place(q), KeepsRows(q), KeepsBase(q), proc'[q] = proc[q]
  PROVE  Place(q)'
<1>1. ASSUME NEW p, Base(q, p) PROVE lock[Version] # q => Base(q, p)'
  BY <1>1 DEF Base, KeepsBase
<1>2. ASSUME NEW x \in Tables, lock[Version] = q PROVE Found(q, x)' = Found(q, x)
  <2>1. x \in Keys /\ x # "alembic_version"
    BY RowsAre
  <2>2. db'[x] = db[x]
    BY <1>2, <2>1 DEF KeepsBase
  <2> QED
    BY <2>1, <2>2 DEF KeepsRows, Found
<1>3. (lock'[Version] = q <=> lock[Version] = q)
      /\ (lock[Version] = q => latest'[Version] = latest[Version])
  BY RowsAre DEF KeepsRows
<1>4. CASE Opening(q)
  <2>1. lock[Version] # q /\ \A x \in Keys : lock'[x] # q
    BY <1>4, RowsAre DEF Opening, KeepsRows
  <2>2. q \notin overtaken' => db'["alembic_version"] = Absent
    BY <1>4 DEF Opening, KeepsBase
  <2>3. ASSUME NEW p, BeforePart(q, p) PROVE BeforePart(q, p)'
    BY <1>1, <2>1, <2>3 DEF BeforePart
  <2>4. /\ proc[q].todo \in Seq(Statement) /\ proc[q].todo # <<>>
        /\ Head(proc[q].todo) = <<"create", "alembic_version">>
    BY <1>4 DEF Opening
  <2>5. /\ proc'[q].todo \in Seq(Statement) /\ proc'[q].todo # <<>>
        /\ Head(proc'[q].todo) = <<"create", "alembic_version">>
    BY <2>4
  <2>6. \E p \in Parts \union {"end"} : BeforePart(q, p)'
    BY <1>4, <2>3 DEF Opening
  <2>7. Opening(q)'
    BY <2>1, <2>2, <2>5, <2>6 DEF Opening
  <2> QED
    BY <2>7 DEF Place
<1>5. CASE Stamped(q)
  BY <1>2, <1>3, <1>5 DEF Stamped, Place
<1>6. CASE Blank(q)
  <2>1. lock[Version] # q
    BY <1>6 DEF Blank
  <2>2. \A x \in Tables \union {Version} : lock'[x] # q
    BY <1>6, RowsAre DEF Blank, KeepsRows
  <2> QED
    BY <1>1, <1>6, <2>1, <2>2 DEF Blank, Place
<1>7. ASSUME NEW p \in Parts, NEW k \in 0 .. Last(p), At(q, p, k)
      PROVE  At(q, p, k)'
  <2>1. Basis(q, p)'
    BY <1>1, <1>3, <1>7 DEF At, Basis
  <2>2. ASSUME NEW x \in Tables PROVE Half(q, p, k, x)'
    <3>1. Half(q, p, k, x) /\ x \in Keys
      BY <1>7, RowsAre DEF At
    <3>2. /\ lock'[x] = q <=> lock[x] = q
          /\ lock[x] = q => latest'[x] = latest[x] /\ db'[x] = db[x]
      BY <3>1 DEF KeepsRows
    <3> QED
      BY <1>2, <1>3, <3>1, <3>2 DEF Half
  <2> QED
    BY <1>7, <2>1, <2>2 DEF At
<1> QED
  BY <1>4, <1>5, <1>6, <1>7 DEF Place

(* So it goes on knowing what it knows.                                    *)
LEMMA OtherKeeps ==
  ASSUME NEW q, Knows(q), KeepsRows(q), proc'[q] = proc[q],
         proc[q].pc \in {"running", "migrated"} => KeepsBase(q)
  PROVE  Knows(q)'
<1>1. Running(q)' <=> Running(q)
  BY DEF Running
<1>2. Running(q) => Place(q)'
  BY OtherKeepsPlace DEF Knows, Running
<1>3. proc[q].pc = "migrated" /\ q \notin overtaken' => db'[Version] = Newest
  BY DEF Knows, KeepsBase
<1>4. (\E x \in Keys : lock'[x] = q) => Running(q)
  BY DEF Knows, KeepsRows
<1> QED
  BY <1>1, <1>2, <1>3, <1>4 DEF Knows

-----------------------------------------------------------------------------
(* What the steps do to the rows.                                          *)

(* What a migration finds in a row has the type of the row.                *)
LEMMA FoundIsTyped ==
  ASSUME WellTyped, NEW r, NEW x
  PROVE  /\ x \in Objects => Found(r, x) \in {Absent, There}
         /\ x = Version => Found(r, x) \in Revisions
BY DEF WellTyped, Found

(* Nobody holds a row of a process that does not run.                      *)
LEMMA IdleHoldsNothing ==
  ASSUME SchemaInv, NEW r \in Reqs, ~Running(r), NEW x \in Keys
  PROVE  lock[x] # r
BY DEF SchemaInv, Knows

(* The types of one process.                                               *)
LEMMA ProcessType ==
  ASSUME SchemaInv, NEW r \in Reqs
  PROVE  /\ proc[r] \in Processes /\ r # NoReq
         /\ proc[r] = [pc |-> proc[r].pc, cmd |-> proc[r].cmd, todo |-> proc[r].todo]
         /\ proc[r].pc \in {"off", "reading", "running", "migrated", "serving", "failed"}
         /\ proc[r].cmd \in Commands \union {"none"} /\ proc[r].todo \in Seq(Statement)
<1>1. proc[r] \in Processes
  BY DEF SchemaInv
<1> QED
  BY <1>1, RowStoreAssumption DEF Processes

(* A statement locks its object and what that refers to, and leaves the    *)
(* other migrations what they know.                                        *)
LEMMA ExecuteStep ==
  ASSUME SchemaInv, NEW r \in Reqs, NEW o \in Keys, NEW v, Running(r),
         proc[r].todo # <<>>, Target(r) = o, Blockers(r) = {}, Execute(r, v),
         IF o = Version THEN v \in Revisions ELSE v \in {Absent, There}
  PROVE  /\ WellTyped' /\ db' = db /\ overtaken' = overtaken
         /\ \A x \in Keys :
              IF x \in {o} \union RefersTo[o]
              THEN /\ lock[x] \in {r, NoReq} /\ lock'[x] = r
                   /\ latest'[x] = IF x = o THEN v ELSE Found(r, x)
              ELSE lock'[x] = lock[x] /\ latest'[x] = latest[x]
         /\ proc' \in [Reqs -> Processes]
         /\ proc'[r].pc = "running" /\ proc'[r].cmd = proc[r].cmd
         /\ proc'[r].todo = Tail(proc[r].todo)
         /\ \A q \in Reqs \ {r} : Knows(q)'
<1> DEFINE L == {o} \union RefersTo[o]
<1>1. L = Locked(r) /\ L \subseteq Keys /\ RefersTo[o] \subseteq Tables
  BY ObjectNames, References, RowsAre DEF Locked, Keys
<1>2. WriteAll(r, L, [x \in L |-> IF x = o THEN v ELSE Found(r, x)]) /\ share' = share
      /\ overtaken' = overtaken /\ proc' = [proc EXCEPT ![r].todo = Tail(@)]
  BY <1>1 DEF Execute
<1>3. StoreType(Keys, {Absent, There, Init1c6e, Groups7c8e}) /\ Clean /\ WellTyped
  BY DEF SchemaInv, WellTyped
<1>4. DOMAIN latest = Keys /\ DOMAIN lock = Keys /\ DOMAIN db = Keys
  BY <1>3 DEF StoreType
<1>5. \A x \in Keys : /\ x \in L => lock'[x] = r /\ latest'[x] = IF x = o THEN v ELSE Found(r, x)
                      /\ x \notin L => lock'[x] = lock[x] /\ latest'[x] = latest[x]
  BY <1>2, <1>4 DEF WriteAll
<1>6. \A x \in L : lock[x] \in {r, NoReq}
  <2> SUFFICES ASSUME NEW x \in L, lock[x] \notin {r, NoReq} PROVE FALSE
    OBVIOUS
  <2>1. x \in Locked(r) /\ lock[x] \in Writers(r, x)
    BY <1>1 DEF Writers
  <2> QED
    BY <2>1 DEF Blockers
<1>7. db' = db
  BY <1>2 DEF WriteAll
<1>8. \A x \in L : (IF x = o THEN v ELSE Found(r, x)) \in {Absent, There, Init1c6e, Groups7c8e}
  <2> SUFFICES ASSUME NEW x \in L
               PROVE  (IF x = o THEN v ELSE Found(r, x)) \in {Absent, There, Init1c6e, Groups7c8e}
    OBVIOUS
  <2>1. CASE x = o
    BY <2>1 DEF Revisions
  <2>2. CASE x # o
    BY <1>1, <1>3, <2>2, RowsAre, FoundIsTyped
  <2> QED
    BY <2>1, <2>2
<1>9. StoreType(Keys, {Absent, There, Init1c6e, Groups7c8e})'
  BY <1>2, <1>3, <1>8, WriteAllType
<1>10. Clean'
  BY <1>2, <1>3, WriteAllClean
<1>11. latest'[Version] \in Revisions
  BY <1>1, <1>3, <1>5, RowsAre DEF WellTyped
<1>12. \A x \in Objects : latest'[x] \in {Absent, There}
  BY <1>3, <1>5, RowsAre, FoundIsTyped DEF WellTyped
<1>13. WellTyped'
  BY <1>3, <1>7, <1>9, <1>10, <1>11, <1>12 DEF WellTyped
<1>14. /\ proc'[r].pc = "running" /\ proc'[r].cmd = proc[r].cmd
       /\ proc'[r].todo = Tail(proc[r].todo) /\ Tail(proc[r].todo) \in Seq(Statement)
       /\ proc'[r] = [proc[r] EXCEPT !.todo = Tail(proc[r].todo)]
       /\ \A q \in Reqs \ {r} : proc'[q] = proc[q]
       /\ proc \in [Reqs -> Processes]
  BY <1>2, ProcessType, HeadTailProperties DEF Running, SchemaInv
<1>15. proc'[r] \in Processes
  BY <1>14, ProcessType DEF Processes
<1>16. proc' \in [Reqs -> Processes]
  BY <1>2, <1>14, <1>15
<1>17. ASSUME NEW q \in Reqs \ {r} PROVE Knows(q)'
  <2>1. KeepsRows(q)
    <3>1. q # NoReq /\ q # r
      BY RowStoreAssumption
    <3> QED
      BY <1>5, <1>6, <1>7, <3>1 DEF KeepsRows
  <2>2. KeepsBase(q)
    BY <1>2, <1>7 DEF KeepsBase
  <2> QED
    BY <1>14, <2>1, <2>2, OtherKeeps DEF SchemaInv
<1> QED
  BY <1>2, <1>5, <1>6, <1>7, <1>13, <1>14, <1>16, <1>17

(* If it goes on at its place, everybody knows what there is to know.      *)
LEMMA ExecuteKeeps ==
  ASSUME SchemaInv, NEW r \in Reqs, NEW o \in Keys, NEW v, Running(r),
         proc[r].todo # <<>>, Target(r) = o, Blockers(r) = {}, Execute(r, v),
         IF o = Version THEN v \in Revisions ELSE v \in {Absent, There}, Place(r)'
  PROVE  SchemaInv'
<1>1. /\ WellTyped' /\ db' = db /\ overtaken' = overtaken /\ proc' \in [Reqs -> Processes]
      /\ proc'[r].pc = "running" /\ proc'[r].cmd = proc[r].cmd
      /\ \A q \in Reqs \ {r} : Knows(q)'
  BY ExecuteStep
<1>2. Knows(r)'
  BY <1>1 DEF SchemaInv, Knows, Running
<1>3. \A x \in Tables : Like(db'[x], x, db'[Version])
  BY <1>1 DEF SchemaInv
<1>4. overtaken' \subseteq Reqs
  BY <1>1 DEF SchemaInv
<1> QED
  BY <1>1, <1>2, <1>3, <1>4 DEF SchemaInv

(* A migration that fails or dies undoes what it has done.                 *)
LEMMA RollbackKeeps ==
  ASSUME SchemaInv, NEW r \in Reqs, NEW p \in {"off", "failed"}, Rollback(r), Goto(r, p),
         UNCHANGED overtaken
  PROVE  SchemaInv'
<1>1. StoreType(Keys, {Absent, There, Init1c6e, Groups7c8e}) /\ Clean /\ WellTyped
  BY DEF SchemaInv, WellTyped
<1>2. /\ db' = db
      /\ \A x \in Keys : /\ latest'[x] = IF lock[x] = r THEN db[x] ELSE latest[x]
                         /\ lock'[x] = IF lock[x] = r THEN NoReq ELSE lock[x]
  BY <1>1 DEF Rollback, Release, StoreType
<1>3. StoreType(Keys, {Absent, There, Init1c6e, Groups7c8e})' /\ Clean'
  BY <1>1, RollbackType, RollbackClean
<1>4. WellTyped'
  BY <1>1, <1>2, <1>3, RowsAre DEF WellTyped
<1>5. /\ proc'[r] = Process(p, "none", <<>>) /\ proc'[r] \in Processes
      /\ \A q \in Reqs \ {r} : proc'[q] = proc[q]
      /\ proc' \in [Reqs -> Processes]
  BY PartsAreScripts DEF Goto, SchemaInv, Process, Processes
<1>6. ASSUME NEW q \in Reqs \ {r} PROVE Knows(q)'
  <2>1. KeepsRows(q)
    <3>1. q # NoReq /\ q # r
      BY RowStoreAssumption
    <3> QED
      BY <1>2, <3>1 DEF KeepsRows
  <2>2. KeepsBase(q)
    BY <1>2 DEF KeepsBase
  <2> QED
    BY <1>5, <2>1, <2>2, OtherKeeps DEF SchemaInv
<1>7. Knows(r)'
  <2>1. \A x \in Keys : lock'[x] # r
    BY <1>2, RowStoreAssumption
  <2>2. proc'[r].pc \in {"off", "failed"} /\ proc'[r].todo = <<>>
    BY <1>5 DEF Process
  <2> QED
    BY <2>1, <2>2 DEF Knows, Running
<1> QED
  BY <1>2, <1>4, <1>5, <1>6, <1>7 DEF SchemaInv

(* There is a next statement until a part is stamped.                      *)
LEMMA NextStatement ==
  ASSUME NEW r, NEW p \in Parts, NEW k \in 0 .. Last(p), At(r, p, k)
  PROVE  /\ proc[r].todo # <<>> /\ Head(proc[r].todo) = ScriptOf(p)[k + 1]
         /\ Rest(Tail(proc[r].todo), ScriptOf(p), k + 1, ScriptOf(Then(p, proc[r].cmd)))
         /\ ScriptOf(Then(p, proc[r].cmd)) \in Seq(Statement)
<1>1. Then(p, proc[r].cmd) \in {"up2", "down1", "end"}
  BY DEF Then
<1>2. \A s \in {"up2", "down1", "end"} : ScriptOf(s) \in Seq(Statement)
  BY PartsAreScripts DEF ScriptOf
<1>3. /\ ScriptOf(p) \in Seq(Statement) /\ Len(ScriptOf(p)) = Last(p) + 1
      /\ Last(p) \in Nat /\ k \in Nat /\ k < Last(p) + 1
  BY PartShape
<1>4. Rest(proc[r].todo, ScriptOf(p), k, ScriptOf(Then(p, proc[r].cmd)))
  BY DEF At
<1> QED
  BY <1>1, <1>2, <1>3, <1>4, RestHead

(* A migration that commits has stamped a revision, or changes at most the *)
(* table of the revision.                                                  *)
LEMMA CommitKeeps ==
  ASSUME SchemaInv, NEW r \in Reqs, CommitMigration(r)
  PROVE  SchemaInv'
<1>1. StoreType(Keys, {Absent, There, Init1c6e, Groups7c8e}) /\ Clean /\ WellTyped
  BY DEF SchemaInv, WellTyped
<1>2. DOMAIN lock = Keys /\ DOMAIN db = Keys
  BY <1>1 DEF StoreType
<1>3. /\ Running(r) /\ proc[r].todo = <<>> /\ Commit(r)
      /\ Goto(r, IF r \in Containers THEN "migrated" ELSE "off")
  BY DEF CommitMigration
<1>4. /\ latest' = latest
      /\ \A x \in Keys : /\ db'[x] = Found(r, x)
                         /\ lock'[x] = IF lock[x] = r THEN NoReq ELSE lock[x]
  BY <1>2, <1>3 DEF Commit, Release
<1>5. WellTyped'
  <2>1. StoreType(Keys, {Absent, There, Init1c6e, Groups7c8e})' /\ Clean'
    BY <1>1, <1>3, CommitType, CommitClean
  <2>2. \A x \in Objects : db'[x] \in {Absent, There}
    BY <1>1, <1>4, RowsAre, FoundIsTyped
  <2>3. db'[Version] \in Revisions
    BY <1>1, <1>4, RowsAre, FoundIsTyped
  <2> QED
    BY <1>1, <1>4, <2>1, <2>2, <2>3 DEF WellTyped
<1> DEFINE p == IF r \in Containers THEN "migrated" ELSE "off"
<1>7. /\ proc'[r] = Process(p, "none", <<>>) /\ proc'[r] \in Processes
      /\ \A q \in Reqs \ {r} : proc'[q] = proc[q]
      /\ proc' \in [Reqs -> Processes]
  BY <1>3, PartsAreScripts DEF Goto, SchemaInv, Process, Processes
<1>8. Stamped(r) \/ Blank(r)
  <2>1. Place(r)
    BY <1>3 DEF SchemaInv, Knows
  <2>2. ~Opening(r)
    BY <1>3 DEF Opening
  <2> QED
    BY <1>3, <2>1, <2>2, NextStatement DEF Place
<1>9. \A x \in Tables : Like(db'[x], x, db'[Version])
  <2>1. CASE Stamped(r)
    <3>1. db'[Version] = latest[Version]
      BY <1>4, <2>1, RowsAre DEF Stamped, Found
    <3> QED
      BY <1>4, <2>1, <3>1, RowsAre DEF Stamped
  <2>2. CASE Blank(r)
    <3>1. \A x \in Tables \union {Version} : db'[x] = db[x]
      BY <1>4, <2>2, RowsAre DEF Blank, Found
    <3> QED
      BY <3>1 DEF SchemaInv
  <2> QED
    BY <1>8, <2>1, <2>2
<1>10. overtaken' \subseteq Reqs
  BY DEF CommitMigration, SchemaInv
<1>11. r \notin overtaken' => r \notin overtaken
  BY DEF CommitMigration
<1>12. Knows(r)'
  <2>1. \A x \in Keys : lock'[x] # r
    BY <1>4, RowStoreAssumption
  <2>2. /\ proc'[r].pc = p /\ proc'[r].todo = <<>>
    BY <1>7 DEF Process
  <2>3. ASSUME r \in Containers, r \notin overtaken PROVE db'[Version] = Newest
    <3>1. proc[r].cmd = "upgrade head"
      BY <1>3, <2>3 DEF SchemaInv, Knows, Running
    <3>2. CASE Stamped(r)
      BY <1>4, <3>1, <3>2, RowsAre DEF Stamped, Found
    <3>3. CASE Blank(r)
      BY <1>4, <2>3, <3>1, <3>3, RowsAre DEF Blank, Base, Found
    <3> QED
      BY <1>8, <3>2, <3>3
  <2> QED
    BY <1>11, <2>1, <2>2, <2>3 DEF Knows, Running
<1>13. ASSUME NEW q \in Reqs \ {r} PROVE Knows(q)'
  <2>1. q # NoReq /\ q # r
    BY RowStoreAssumption
  <2>2. KeepsRows(q)
    BY <1>4, <2>1 DEF KeepsRows, Found
  <2>3. ASSUME proc[q].pc \in {"running", "migrated"} PROVE KeepsBase(q)
    <3>1. CASE \E x \in Keys : lock[x] = r
      <4>1. q \in overtaken'
        BY <1>2, <2>3, <3>1 DEF CommitMigration
      <4>2. ASSUME lock[Version] = q, NEW x \in Keys \ {"alembic_version"}
            PROVE  db'[x] = db[x]
        <5>1. Blank(r)
          BY <1>8, <2>1, <4>2 DEF Stamped
        <5>2. x \in Tables \union {Version}
          BY RowsAre DEF Keys
        <5>3. lock[x] # r
          BY <5>1, <5>2 DEF Blank
        <5> QED
          BY <1>4, <5>3 DEF Found
      <4> QED
        BY <4>1, <4>2 DEF KeepsBase
    <3>2. CASE \A x \in Keys : lock[x] # r
      <4>1. overtaken' = overtaken
        BY <1>2, <3>2 DEF CommitMigration
      <4>2. \A x \in Keys : db'[x] = db[x]
        BY <1>4, <3>2 DEF Found
      <4>3. db \in [Keys -> {Absent, There, Init1c6e, Groups7c8e}]
            /\ db' \in [Keys -> {Absent, There, Init1c6e, Groups7c8e}]
        BY <1>1, <1>5 DEF WellTyped, StoreType
      <4>4. db' = db
        BY <4>2, <4>3
      <4> QED
        BY <4>1, <4>4 DEF KeepsBase
    <3> QED
      BY <3>1, <3>2
  <2> QED
    BY <1>7, <2>2, <2>3, OtherKeeps DEF SchemaInv
<1> QED
  BY <1>5, <1>7, <1>9, <1>10, <1>12, <1>13 DEF SchemaInv

-----------------------------------------------------------------------------
(* The statements.                                                         *)

(* What a migration at its place has in hand, if the revision it finds is  *)
(* the one its part begins with.                                           *)
InHand(r, p, k, x) ==
  IF Touched(p, k, x) THEN lock[x] = r /\ Found(r, x) = Made(p)
  ELSE Like(Found(r, x), x, From(p))

(* Nobody has stamped another revision: what it has not touched is as      *)
(* committed, and the committed schema is the one of the revision.         *)
LEMMA WholeInHand ==
  ASSUME SchemaInv, NEW r, NEW p \in Parts, NEW k, At(r, p, k), Found(r, Version) = From(p),
         NEW x \in Tables
  PROVE  InHand(r, p, k, x)
<1>1. Half(r, p, k, x)
  BY DEF At
<1>2. CASE Touched(p, k, x)
  BY <1>1, <1>2 DEF Half, InHand, Found
<1>3. CASE ~Touched(p, k, x) /\ lock[Version] = r
  BY <1>1, <1>3 DEF Half, InHand
<1>4. CASE ~Touched(p, k, x) /\ lock[Version] # r
  <2>1. db[Version] = From(p) /\ Found(r, x) = db[x]
    BY <1>1, <1>4 DEF Half, Found
  <2>2. Like(db[x], x, db[Version])
    BY DEF SchemaInv
  <2> QED
    BY <1>4, <2>1, <2>2 DEF InHand
<1> QED
  BY <1>2, <1>3, <1>4

(* Without another one in between, that is the revision it finds.          *)
LEMMA FindsItsRevision ==
  ASSUME NEW r, NEW p \in Parts, NEW k, At(r, p, k), r \notin overtaken
  PROVE  Found(r, Version) = From(p)
<1>1. Basis(r, p) /\ p # "end"
  BY DEF At, Parts
<1> QED
  BY <1>1 DEF Basis, Base, Found

(* Having begun a part is a place.                                         *)
LEMMA AtIsAPlace ==
  ASSUME NEW r, NEW p \in Parts, NEW k \in 0 .. Last(p), At(r, p, k)'
  PROVE  Place(r)'
BY DEF Place

(* A part goes on after a statement that was executed.                     *)
LEMMA PartGoesOn ==
  ASSUME SchemaInv, NEW r \in Reqs, NEW p \in Parts, NEW k \in 0 .. Last(p) - 1,
         At(r, p, k), Running(r), Target(r) = Object(p, k + 1), Blockers(r) = {},
         Execute(r, Made(p))
  PROVE  SchemaInv'
<1> DEFINE o == Object(p, k + 1)
<1>1. /\ k \in Nat /\ k \in 0 .. Last(p) /\ k + 1 \in 0 .. Last(p) /\ k + 1 \in 1 .. Last(p)
      /\ o \in Tables
  BY PartShape
<1>2. o \in Keys /\ o # Version /\ RefersTo[o] \subseteq Tables /\ o \notin RefersTo[o]
  BY <1>1, RowsAre, References
<1>3. Made(p) \in {Absent, There}
  BY DEF Made
<1>4. /\ proc[r].todo # <<>>
      /\ Rest(Tail(proc[r].todo), ScriptOf(p), k + 1, ScriptOf(Then(p, proc[r].cmd)))
  BY <1>1, NextStatement
<1> HIDE DEF o
<1>5. /\ db' = db /\ overtaken' = overtaken
      /\ \A x \in Keys :
           IF x \in {o} \union RefersTo[o]
           THEN /\ lock[x] \in {r, NoReq} /\ lock'[x] = r
                /\ latest'[x] = IF x = o THEN Made(p) ELSE Found(r, x)
           ELSE lock'[x] = lock[x] /\ latest'[x] = latest[x]
      /\ proc'[r].cmd = proc[r].cmd /\ proc'[r].todo = Tail(proc[r].todo)
  BY <1>2, <1>3, <1>4, ExecuteStep DEF o
<1>6. lock'[Version] = lock[Version] /\ latest'[Version] = latest[Version]
  BY <1>2, <1>5, RowsAre
<1>7. Basis(r, p)'
  <2>1. Basis(r, p)
    BY DEF At
  <2> QED
    BY <1>5, <1>6, <2>1 DEF Basis, Base
<1>8. ASSUME NEW x \in Tables PROVE Half(r, p, k + 1, x)'
  <2>1. Half(r, p, k, x) /\ x \in Keys
    BY RowsAre DEF At
  <2>2. Touched(p, k + 1, x) <=> Touched(p, k, x) \/ x = o
    BY <1>1, TouchedNext DEF o
  <2>3. CASE x = o
    BY <1>5, <2>1, <2>2, <2>3 DEF Half
  <2>4. CASE x # o /\ x \in RefersTo[o]
    <3>1. lock'[x] = r /\ latest'[x] = Found(r, x) /\ Found(r, x)' = Found(r, x)
      BY <1>5, <2>1, <2>4 DEF Found
    <3> QED
      BY <1>5, <1>6, <2>1, <2>2, <2>4, <3>1 DEF Half, Found
  <2>5. CASE x # o /\ x \notin RefersTo[o]
    <3>1. lock'[x] = lock[x] /\ latest'[x] = latest[x] /\ Found(r, x)' = Found(r, x)
      BY <1>5, <2>1, <2>5 DEF Found
    <3> QED
      BY <1>5, <1>6, <2>1, <2>2, <2>5, <3>1 DEF Half
  <2> QED
    BY <2>3, <2>4, <2>5
<1>9. At(r, p, k + 1)'
  <2>1. PartOf(p, proc[r].cmd)
    BY DEF At
  <2> QED
    BY <1>4, <1>5, <1>7, <1>8, <2>1 DEF At
<1>10. Place(r)'
  BY <1>1, <1>9 DEF Place
<1> QED
  BY <1>2, <1>3, <1>4, <1>10, ExecuteKeeps DEF o

(* After the stamp the schema in hand is the one of the new revision.      *)
LEMMA StampGoesOn ==
  ASSUME SchemaInv, NEW r \in Reqs, NEW p \in Parts, At(r, p, Last(p)), Running(r),
         Target(r) = Version, Blockers(r) = {}, Found(r, Version) = From(p),
         Execute(r, To(p))
  PROVE  SchemaInv'
<1> DEFINE n == Then(p, proc[r].cmd)
<1>1. Last(p) \in Nat /\ Last(p) \in 0 .. Last(p) /\ Last(p) + 1 = Len(ScriptOf(p))
      /\ ScriptOf(p) \in Seq(Statement)
  BY PartShape
<1>2. Version \in Keys /\ RefersTo[Version] = {} /\ To(p) \in Revisions
  BY RowsAre, ObjectNames DEF To, Revisions
<1>3. proc[r].todo # <<>> /\ Rest(Tail(proc[r].todo), ScriptOf(n), 0, <<>>)
  BY <1>1, NextStatement, RestNext
<1>4. /\ db' = db /\ overtaken' = overtaken
      /\ lock'[Version] = r /\ latest'[Version] = To(p)
      /\ \A x \in Keys \ {Version} : lock'[x] = lock[x] /\ latest'[x] = latest[x]
      /\ proc'[r].cmd = proc[r].cmd /\ proc'[r].todo = Tail(proc[r].todo)
  BY <1>2, <1>3, ExecuteStep
<1>5. PartOf(p, proc[r].cmd)
  BY DEF At
<1>6. ASSUME NEW x \in Tables PROVE Like(Found(r, x)', x, To(p))
  <2>1. Found(r, x)' = Found(r, x)
    BY <1>4, RowsAre DEF Found
  <2>2. InHand(r, p, Last(p), x)
    BY WholeInHand
  <2> QED
    BY <2>1, <2>2, PartEnd DEF InHand
<1>7. CASE n = "end"
  <2>1. Tail(proc[r].todo) = <<>>
    <3>1. ScriptOf(n) = <<>> /\ Len(<<>>) = 0
      BY <1>7 DEF ScriptOf
    <3>2. Rest(Tail(proc[r].todo), <<>>, 0, <<>>)
      BY <1>3, <3>1
    <3>3. Tail(proc[r].todo) \in Seq(Statement) /\ Len(Tail(proc[r].todo)) = 0
      BY <3>1, <3>2 DEF Rest
    <3> QED
      BY <3>3, EmptySeq
  <2>2. proc[r].cmd = "upgrade head" => To(p) = Newest
    BY <1>5, <1>7 DEF PartOf, Then, To, Newest
  <2>3. Stamped(r)'
    BY <1>4, <1>6, <2>1, <2>2 DEF Stamped
  <2> QED
    BY <1>2, <1>3, <2>3, ExecuteKeeps DEF Place
<1>8. CASE n # "end"
  <2>1. /\ n \in {"up2", "down1"} /\ From(n) = To(p) /\ PartOf(n, proc[r].cmd)
        /\ Then(n, proc[r].cmd) = "end" /\ ScriptOf("end") = <<>>
    BY <1>5, <1>8 DEF Then, From, To, PartOf, ScriptOf
  <2>2. PICK m \in {"up2", "down1"} : m = n
    BY <2>1
  <2>3. ASSUME NEW x \in Tables PROVE Half(r, m, 0, x)'
    BY <1>4, <1>6, <2>1, <2>2, TouchedNext DEF Half
  <2>4. Basis(r, m)'
    BY <1>4, <2>1, <2>2 DEF Basis
  <2>5. At(r, m, 0)'
    BY <1>3, <1>4, <2>1, <2>2, <2>3, <2>4 DEF At
  <2>6. m \in Parts /\ 0 \in 0 .. Last(m)
    BY PartShape DEF Parts
  <2>7. Place(r)'
    BY <2>5, <2>6, AtIsAPlace
  <2> QED
    BY <1>2, <1>3, <2>7, ExecuteKeeps
<1> QED
  BY <1>7, <1>8

(* A part begins with nothing in hand.                                     *)
LEMMA PartBegins ==
  ASSUME NEW r, NEW p \in Parts \union {"end"}, Body(proc'[r].todo, p, proc'[r].cmd),
         p = "end" \/ PartOf(p, proc'[r].cmd), Base(r, p)',
         \A x \in Tables \union {Version} : lock'[x] # r
  PROVE  Place(r)'
<1>1. CASE p = "end"
  BY <1>1 DEF Body, Blank, Place
<1>2. CASE p # "end"
  <2>1. p \in Parts /\ 0 \in 0 .. Last(p)
    BY <1>2, PartShape
  <2>2. \A x \in Tables : Half(r, p, 0, x)'
    BY TouchedNext DEF Half
  <2>3. Basis(r, p)'
    BY DEF Basis
  <2>4. At(r, p, 0)'
    BY <1>2, <2>2, <2>3 DEF At, Body
  <2> QED
    BY <2>1, <2>4, AtIsAPlace
<1> QED
  BY <1>1, <1>2

(* The table of the revision is created before the first part.             *)
LEMMA OpeningGoesOn ==
  ASSUME SchemaInv, NEW r \in Reqs, Running(r), Opening(r), Blockers(r) = {},
         Execute(r, There)
  PROVE  SchemaInv'
<1> DEFINE o == "alembic_version"
<1>1. proc[r].todo # <<>> /\ Target(r) = o
  BY DEF Opening, Target
<1>2. o \in Keys /\ o # Version /\ RefersTo[o] = {} /\ There \in {Absent, There}
  BY RowsAre, References
<1>3. /\ db' = db /\ overtaken' = overtaken
      /\ \A x \in Keys \ {o} : lock'[x] = lock[x]
      /\ proc'[r].cmd = proc[r].cmd /\ proc'[r].todo = Tail(proc[r].todo)
  BY <1>1, <1>2, ExecuteStep
<1>4. PICK p \in Parts \union {"end"} : BeforePart(r, p)
  BY DEF Opening
<1>5. Base(r, p)'
  BY <1>3, <1>4 DEF BeforePart, Base
<1>6. \A x \in Tables \union {Version} : lock'[x] # r
  BY <1>3, RowsAre DEF Opening
<1>7. Place(r)'
  BY <1>3, <1>4, <1>5, <1>6, PartBegins DEF BeforePart
<1> QED
  BY <1>1, <1>2, <1>7, ExecuteKeeps

(* The first part of a command begins at the revision it finds.            *)
LEMMA FirstPartIs ==
  ASSUME NEW cmd \in Commands, NEW rev \in Revisions
  PROVE  LET p == FirstPart(cmd, rev) IN
         /\ p \in Parts \union {"end"}
         /\ p # "end" => PartOf(p, cmd) /\ From(p) = rev
         /\ p = "end" /\ cmd = "upgrade head" => rev = Newest
<1>1. /\ Absent # Init1c6e /\ Absent # Groups7c8e /\ Init1c6e # Groups7c8e
      /\ rev = Absent \/ rev = Init1c6e \/ rev = Groups7c8e
  BY DEF Absent, Init1c6e, Groups7c8e, Revisions
<1>2. CASE cmd = "upgrade head"
  BY <1>1, <1>2 DEF FirstPart, Parts, PartOf, From, Newest
<1>3. CASE cmd # "upgrade head"
  BY <1>1, <1>3 DEF FirstPart, Parts, PartOf, From, Newest
<1> QED
  BY <1>2, <1>3

(* A step that leaves the rows alone, and no process of the others.        *)
LEMMA QuietKeeps ==
  ASSUME SchemaInv, NEW r \in Reqs, NEW p \in Processes, UNCHANGED store,
         proc' = [proc EXCEPT ![r] = p], overtaken' \in {overtaken, overtaken \ {r}},
         Knows(r)'
  PROVE  SchemaInv'
<1>1. WellTyped'
  BY DEF SchemaInv, WellTyped, StoreType, Clean, store
<1>2. proc' \in [Reqs -> Processes] /\ \A q \in Reqs \ {r} : proc'[q] = proc[q]
  BY DEF SchemaInv
<1>3. ASSUME NEW q \in Reqs \ {r} PROVE Knows(q)'
  <2>1. KeepsRows(q) /\ KeepsBase(q)
    BY DEF KeepsRows, KeepsBase, store
  <2> QED
    BY <1>2, <2>1, OtherKeeps DEF SchemaInv
<1>4. \A x \in Tables : Like(db'[x], x, db'[Version])
  BY DEF SchemaInv, store
<1>5. overtaken' \subseteq Reqs
  BY DEF SchemaInv
<1> QED
  BY <1>1, <1>2, <1>3, <1>4, <1>5 DEF SchemaInv

(* A command begins with reading the revision.                             *)
LEMMA StartKeeps ==
  ASSUME SchemaInv, NEW r \in Reqs, NEW cmd \in Commands, Start(r, cmd)
  PROVE  SchemaInv'
<1>1. /\ ~Running(r) /\ UNCHANGED <<store, overtaken>>
      /\ r \in Containers => cmd = "upgrade head"
      /\ proc' = [proc EXCEPT ![r] = Process("reading", cmd, <<>>)]
  BY DEF Start, Running
<1>2. Process("reading", cmd, <<>>) \in Processes
  BY PartsAreScripts DEF Process, Processes
<1>3. proc'[r] = Process("reading", cmd, <<>>)
  BY <1>1 DEF SchemaInv
<1>4. proc'[r].pc = "reading" /\ proc'[r].cmd = cmd /\ proc'[r].todo = <<>>
  BY <1>3 DEF Process
<1>5. \A x \in Keys : lock'[x] # r
  BY <1>1, IdleHoldsNothing DEF store
<1>6. Knows(r)'
  BY <1>1, <1>4, <1>5 DEF Knows, Running
<1> QED
  BY <1>1, <1>2, <1>6, QuietKeeps

(* The server is started.                                                  *)
LEMMA ServeKeeps ==
  ASSUME SchemaInv, NEW r \in Reqs, Serve(r)
  PROVE  SchemaInv'
<1>1. /\ ~Running(r) /\ UNCHANGED <<store, overtaken>>
      /\ proc' = [proc EXCEPT ![r] = Process("serving", "none", <<>>)]
  BY DEF Serve, Goto, Running
<1>2. Process("serving", "none", <<>>) \in Processes
  BY PartsAreScripts DEF Process, Processes
<1>3. proc'[r] = Process("serving", "none", <<>>)
  BY <1>1 DEF SchemaInv
<1>4. proc'[r].pc = "serving" /\ proc'[r].todo = <<>>
  BY <1>3 DEF Process
<1>5. \A x \in Keys : lock'[x] # r
  BY <1>1, IdleHoldsNothing DEF store
<1>6. Knows(r)'
  BY <1>4, <1>5 DEF Knows, Running
<1> QED
  BY <1>1, <1>2, <1>6, QuietKeeps

(* A migration that has read the revision is at the beginning of its       *)
(* scripts, with nothing in hand.                                          *)
LEMMA ReadRevisionKeeps ==
  ASSUME SchemaInv, NEW r \in Reqs, ReadRevision(r)
  PROVE  SchemaInv'
<1> DEFINE cmd == proc[r].cmd
           rev == db[Version]
<1>1. proc[r].pc = "reading" /\ UNCHANGED store /\ overtaken' = overtaken \ {r}
  BY Zenon DEF ReadRevision
<1>2. proc' = [proc EXCEPT ![r] = IF OneBack(cmd) /\ rev = Absent
                                 THEN Process("failed", "none", <<>>)
                                 ELSE Process("running", cmd, Script(cmd, rev))]
  BY Zenon DEF ReadRevision, OneBack
<1>3. /\ cmd \in Commands /\ rev \in Revisions /\ db["alembic_version"] \in {Absent, There}
      /\ r \in Containers => cmd = "upgrade head"
  BY <1>1, RowsAre DEF SchemaInv, Knows, WellTyped
<1>4. \A x \in Keys : lock[x] # r /\ lock'[x] # r
  BY <1>1, IdleHoldsNothing DEF Running, store
<1>5. CASE OneBack(cmd) /\ rev = Absent
  <2>1. Process("failed", "none", <<>>) \in Processes
    BY PartsAreScripts DEF Process, Processes
  <2>2. proc' = [proc EXCEPT ![r] = Process("failed", "none", <<>>)]
    BY <1>2, <1>5
  <2>3. proc'[r] = Process("failed", "none", <<>>)
    BY <2>2 DEF SchemaInv
  <2>4. proc'[r].pc = "failed" /\ proc'[r].todo = <<>>
    BY <2>3 DEF Process
  <2>5. Knows(r)'
    BY <1>4, <2>4 DEF Knows, Running
  <2> QED
    BY <1>1, <2>1, <2>2, <2>5, QuietKeeps
<1>6. CASE ~(OneBack(cmd) /\ rev = Absent)
  <2>0. PICK c \in Commands, v \in Revisions : c = cmd /\ v = rev
    BY <1>3
  <2>1. PICK b \in Seq(Statement) :
           /\ Body(b, FirstPart(c, v), c)
           /\ IF db["alembic_version"] = Absent
              THEN /\ Script(c, v) \in Seq(Statement) /\ Script(c, v) # <<>>
                   /\ Head(Script(c, v)) = <<"create", "alembic_version">>
                   /\ Tail(Script(c, v)) = b
              ELSE Script(c, v) = b
    BY <1>3, <1>6, <2>0, ScriptShape
  <2>2. Script(c, v) \in Seq(Statement)
    BY <2>1
  <2>3. Process("running", c, Script(c, v)) \in Processes
    BY <2>2 DEF Process, Processes
  <2>4. proc' = [proc EXCEPT ![r] = Process("running", c, Script(c, v))]
    BY <1>2, <1>6, <2>0
  <2>5. proc'[r] = Process("running", c, Script(c, v))
    BY <2>4 DEF SchemaInv
  <2>6. proc'[r].pc = "running" /\ proc'[r].cmd = c /\ proc'[r].todo = Script(c, v)
    BY <2>5 DEF Process
  <2>7. PICK p \in Parts \union {"end"} : p = FirstPart(c, v)
    BY FirstPartIs
  <2>8. /\ p # "end" => PartOf(p, c) /\ From(p) = v
        /\ p = "end" /\ c = "upgrade head" => v = Newest
    BY <2>7, FirstPartIs
  <2>9. db'[Version] = v /\ db' = db
    BY <1>1, <2>0 DEF store
  <2>10. Base(r, p)'
    BY <2>6, <2>8, <2>9 DEF Base
  <2>11. Place(r)'
    <3>1. CASE db["alembic_version"] # Absent
      BY <1>4, <2>1, <2>6, <2>7, <2>8, <2>10, <3>1, RowsAre, PartBegins
    <3>2. CASE db["alembic_version"] = Absent
      <4>1. BeforePart(r, p)'
        BY <2>1, <2>6, <2>7, <2>8, <2>10, <3>2 DEF BeforePart
      <4>2. Opening(r)'
        BY <1>4, <2>1, <2>6, <2>9, <3>2, <4>1 DEF Opening
      <4> QED
        BY <4>2 DEF Place
    <3> QED
      BY <3>1, <3>2
  <2>12. Knows(r)'
    BY <1>3, <2>0, <2>6, <2>11 DEF Knows, Running
  <2> QED
    BY <1>1, <2>3, <2>4, <2>12, QuietKeeps
<1> QED
  BY <1>5, <1>6

(* Where a migration is that is about to create, to drop or to stamp.      *)
AtPart(r, p, k) == p \in Parts /\ k \in 0 .. Last(p) - 1 /\ At(r, p, k)
                   /\ Head(proc[r].todo) = <<What(p), Object(p, k + 1)>>
AtStamp(r, p) == p \in Parts /\ At(r, p, Last(p))
                 /\ Head(proc[r].todo) = <<"stamp", Version, From(p), To(p)>>

(* A migration that has statements left is at one of these places.         *)
LEMMA WhereItIs ==
  ASSUME SchemaInv, NEW r \in Reqs, Running(r), proc[r].todo # <<>>
  PROVE  \/ Opening(r)
         \/ \E p \in Parts : \E k \in 0 .. Last(p) - 1 : AtPart(r, p, k)
         \/ \E p \in Parts : AtStamp(r, p)
<1>1. Place(r)
  BY DEF SchemaInv, Knows
<1>2. ~Stamped(r) /\ ~Blank(r)
  BY DEF Stamped, Blank
<1>3. ASSUME NEW p \in Parts, NEW k \in 0 .. Last(p), At(r, p, k)
      PROVE  \/ AtStamp(r, p)
             \/ k \in 0 .. Last(p) - 1 /\ AtPart(r, p, k)
  <2>1. Head(proc[r].todo) = ScriptOf(p)[k + 1]
    BY <1>3, NextStatement
  <2>2. Last(p) \in Nat
    BY PartShape
  <2>3. CASE k = Last(p)
    BY <1>3, <2>1, <2>3, PartShape DEF AtStamp
  <2>4. CASE k # Last(p)
    <3>1. k \in 0 .. Last(p) - 1 /\ k + 1 \in 1 .. Last(p)
      BY <2>2, <2>4
    <3> QED
      BY <1>3, <2>1, <3>1, PartShape DEF AtPart
  <2> QED
    BY <2>3, <2>4
<1> QED
  BY <1>1, <1>2, <1>3 DEF Place

(* CREATE keeps the invariant.                                             *)
LEMMA CreateKeeps ==
  ASSUME SchemaInv, NEW r \in Reqs, Create(r)
  PROVE  SchemaInv'
<1>1. /\ Running(r) /\ proc[r].todo # <<>> /\ Head(proc[r].todo)[1] = "create"
      /\ Blockers(r) = {}
  BY DEF Create, Ready, AtStatement
<1>2. CASE Fail(r)
  BY <1>2, RollbackKeeps DEF Fail
<1>3. CASE Execute(r, There)
  <2>1. CASE Opening(r)
    BY <1>1, <1>3, <2>1, OpeningGoesOn
  <2>2. ASSUME NEW p \in Parts, NEW k \in 0 .. Last(p) - 1, AtPart(r, p, k)
        PROVE  SchemaInv'
    <3>1. What(p) = "create" /\ Target(r) = Object(p, k + 1)
      BY <1>1, <2>2 DEF AtPart, Target
    <3>2. Made(p) = There
      BY <3>1 DEF What, Made
    <3> QED
      BY <1>1, <1>3, <2>2, <3>1, <3>2, PartGoesOn DEF AtPart
  <2>3. ASSUME NEW p \in Parts, AtStamp(r, p) PROVE FALSE
    BY <1>1, <2>3 DEF AtStamp
  <2> QED
    BY <1>1, <2>1, <2>2, <2>3, WhereItIs
<1> QED
  BY <1>2, <1>3 DEF Create

(* DROP keeps it.                                                          *)
LEMMA DropKeeps ==
  ASSUME SchemaInv, NEW r \in Reqs, Drop(r)
  PROVE  SchemaInv'
<1>1. /\ Running(r) /\ proc[r].todo # <<>> /\ Head(proc[r].todo)[1] = "drop"
      /\ Blockers(r) = {}
  BY DEF Drop, Ready, AtStatement
<1>2. CASE Fail(r)
  BY <1>2, RollbackKeeps DEF Fail
<1>3. CASE Execute(r, Absent)
  <2>1. ~Opening(r)
    BY <1>1 DEF Opening
  <2>2. ASSUME NEW p \in Parts, NEW k \in 0 .. Last(p) - 1, AtPart(r, p, k)
        PROVE  SchemaInv'
    <3>1. What(p) = "drop" /\ Target(r) = Object(p, k + 1)
      BY <1>1, <2>2 DEF AtPart, Target
    <3>2. Made(p) = Absent
      BY <3>1 DEF What, Made
    <3> QED
      BY <1>1, <1>3, <2>2, <3>1, <3>2, PartGoesOn DEF AtPart
  <2>3. ASSUME NEW p \in Parts, AtStamp(r, p) PROVE FALSE
    BY <1>1, <2>3 DEF AtStamp
  <2> QED
    BY <1>1, <2>1, <2>2, <2>3, WhereItIs
<1> QED
  BY <1>2, <1>3 DEF Drop

(* The stamp of a part: of the revision it begins with, or of none.        *)
LEMMA StampIs ==
  ASSUME SchemaInv, NEW r \in Reqs, StampRevision(r)
  PROVE  \E p \in Parts :
           /\ AtStamp(r, p) /\ Running(r) /\ Target(r) = Version /\ Blockers(r) = {}
           /\ \/ Found(r, Version) = From(p) /\ Execute(r, To(p))
              \/ Found(r, Version) # From(p) /\ Fail(r)
<1>1. /\ Running(r) /\ proc[r].todo # <<>> /\ Head(proc[r].todo)[1] = "stamp"
      /\ Blockers(r) = {}
  BY DEF StampRevision, Ready, AtStatement
<1>2. ~Opening(r)
  BY <1>1 DEF Opening
<1>3. ASSUME NEW p \in Parts, NEW k \in 0 .. Last(p) - 1, AtPart(r, p, k) PROVE FALSE
  BY <1>1, <1>3 DEF AtPart, What
<1>4. PICK p \in Parts : AtStamp(r, p)
  BY <1>1, <1>2, <1>3, WhereItIs
<1>5. /\ Head(proc[r].todo)[2] = Version /\ Head(proc[r].todo)[3] = From(p)
      /\ Head(proc[r].todo)[4] = To(p)
  BY <1>4 DEF AtStamp
<1> QED
  BY <1>1, <1>4, <1>5 DEF StampRevision, Target

(* So it keeps the invariant.                                              *)
LEMMA StampKeeps ==
  ASSUME SchemaInv, NEW r \in Reqs, StampRevision(r)
  PROVE  SchemaInv'
<1>1. PICK p \in Parts :
         /\ AtStamp(r, p) /\ Running(r) /\ Target(r) = Version /\ Blockers(r) = {}
         /\ \/ Found(r, Version) = From(p) /\ Execute(r, To(p))
            \/ Found(r, Version) # From(p) /\ Fail(r)
  BY StampIs
<1>2. CASE Fail(r)
  BY <1>2, RollbackKeeps DEF Fail
<1>3. CASE Found(r, Version) = From(p) /\ Execute(r, To(p))
  BY <1>1, <1>3, StampGoesOn DEF AtStamp
<1> QED
  BY <1>1, <1>2, <1>3

-----------------------------------------------------------------------------
(* The invariant.                                                          *)

(* There is no schema at first, and no migration.                          *)
LEMMA SchemaInit == Init => SchemaInv
<1> SUFFICES ASSUME Init PROVE SchemaInv
  OBVIOUS
<1>1. /\ db = [x \in Keys |-> Absent] /\ latest = db
      /\ lock = [x \in Keys |-> NoReq] /\ share = [x \in Keys |-> {}]
  BY DEF Init, Keys
<1>2. WellTyped
  BY <1>1, RowsAre DEF WellTyped, StoreType, Clean, Revisions
<1>3. \A x \in Tables : Like(db[x], x, db[Version])
  BY <1>1, RowsAre, TablesAre DEF Like
<1>4. proc = [r \in Reqs |-> Process("off", "none", <<>>)] /\ overtaken = {}
  BY DEF Init
<1>5. Process("off", "none", <<>>) \in Processes
  BY PartsAreScripts DEF Process, Processes
<1>6. ASSUME NEW r \in Reqs PROVE Knows(r)
  <2>1. proc[r].pc = "off" /\ proc[r].todo = <<>>
    BY <1>4 DEF Process
  <2>2. \A x \in Keys : lock[x] # r
    BY <1>1, RowStoreAssumption
  <2> QED
    BY <2>1, <2>2 DEF Knows, Running
<1> QED
  BY <1>2, <1>3, <1>4, <1>5, <1>6 DEF SchemaInv

(* Every step keeps what is known of the schema and of the migrations.     *)
LEMMA SchemaStep == SchemaInv /\ [Next]_vars => SchemaInv'
<1> SUFFICES ASSUME SchemaInv, [Next]_vars PROVE SchemaInv'
  OBVIOUS
<1>1. ASSUME NEW r \in Reqs, NEW cmd \in Commands, Start(r, cmd) PROVE SchemaInv'
  BY <1>1, StartKeeps
<1>2. ASSUME NEW r \in Reqs, Proceed(r) PROVE SchemaInv'
  <2>1. CASE ReadRevision(r)
    BY <2>1, ReadRevisionKeeps
  <2>2. CASE Create(r)
    BY <2>2, CreateKeeps
  <2>3. CASE Drop(r)
    BY <2>3, DropKeeps
  <2>4. CASE StampRevision(r)
    BY <2>4, StampKeeps
  <2>5. CASE CommitMigration(r)
    BY <2>5, CommitKeeps
  <2>6. CASE DeadlockVictim(r)
    BY <2>6, RollbackKeeps DEF DeadlockVictim, Fail
  <2>7. CASE Serve(r)
    BY <2>7, ServeKeeps
  <2> QED
    BY <1>2, <2>1, <2>2, <2>3, <2>4, <2>5, <2>6, <2>7 DEF Proceed
<1>3. ASSUME NEW r \in Reqs, Die(r) PROVE SchemaInv'
  BY <1>3, RollbackKeeps DEF Die
<1>4. CASE UNCHANGED vars
  <2>1. WellTyped'
    BY <1>4 DEF SchemaInv, WellTyped, StoreType, Clean, vars, store
  <2>2. \A r \in Reqs : Knows(r)'
    <3> SUFFICES ASSUME NEW r \in Reqs PROVE Knows(r)'
      OBVIOUS
    <3>1. KeepsRows(r) /\ KeepsBase(r)
      BY <1>4 DEF KeepsRows, KeepsBase, vars, store
    <3> QED
      BY <1>4, <3>1, OtherKeeps DEF SchemaInv, vars
  <2> QED
    BY <1>4, <2>1, <2>2 DEF SchemaInv, vars, store
<1> QED
  BY <1>1, <1>2, <1>3, <1>4 DEF Next

(* It is so at all times.                                                  *)
LEMMA SchemaAlways == Spec => []SchemaInv
  BY SchemaInit, SchemaStep, PTL DEF Spec

(* What a step of a process does to the processes.                         *)
LEMMA ProcessesMove ==
  ASSUME SchemaInv, NEW s \in Reqs, NEW r \in Reqs, proc'[r] # proc[r],
         (\E cmd \in Commands : Start(s, cmd)) \/ Proceed(s) \/ Die(s)
  PROVE  /\ r = s
         /\ proc'[r].pc = "serving" => proc[r].pc \in {"serving", "migrated"}
         /\ proc'[r].pc = "failed" /\ proc[r].pc # "failed" =>
              \/ ReadRevision(r)
              \/ Fail(r) /\ (Create(r) \/ Drop(r) \/ StampRevision(r) \/ DeadlockVictim(r))
<1>1. ASSUME NEW c, NEW p, NEW t, proc' = [proc EXCEPT ![s] = Process(c, p, t)]
      PROVE  r = s /\ proc'[r].pc = c
  BY <1>1 DEF SchemaInv, Process
<1>2. ASSUME NEW p, Goto(s, p) PROVE r = s /\ proc'[r].pc = p
  BY <1>1, <1>2 DEF Goto
<1>3. ASSUME NEW v, Execute(s, v) PROVE r = s /\ proc'[r].pc = proc[r].pc
  BY <1>3, ProcessType DEF Execute, SchemaInv
<1>4. ASSUME Fail(s) PROVE r = s /\ proc'[r].pc = "failed"
  BY <1>2, <1>4 DEF Fail
<1>5. ASSUME NEW cmd \in Commands, Start(s, cmd) PROVE r = s /\ proc'[r].pc = "reading"
  BY <1>1, <1>5 DEF Start
<1>6. CASE ReadRevision(s)
  <2>1. proc' = [proc EXCEPT ![s] = IF OneBack(proc[s].cmd) /\ db[Version] = Absent
                                   THEN Process("failed", "none", <<>>)
                                   ELSE Process("running", proc[s].cmd,
                                                Script(proc[s].cmd, db[Version]))]
    BY <1>6, Zenon DEF ReadRevision, OneBack
  <2>2. r = s /\ proc'[r].pc \in {"failed", "running"}
    BY <2>1 DEF SchemaInv, Process
  <2> QED
    BY <1>6, <2>2
<1>7. CASE Create(s)
  BY <1>3, <1>4, <1>7, ProcessType DEF Create, Ready, AtStatement, Running
<1>8. CASE Drop(s)
  BY <1>3, <1>4, <1>8, ProcessType DEF Drop, Ready, AtStatement, Running
<1>9. CASE StampRevision(s)
  <2>1. Fail(s) \/ \E v : Execute(s, v)
    BY <1>9 DEF StampRevision
  <2> QED
    BY <1>3, <1>4, <1>9, <2>1 DEF StampRevision, Ready, AtStatement, Running
<1>10. CASE CommitMigration(s)
  <2>1. r = s /\ proc'[r].pc \in {"migrated", "off"}
    BY <1>2, <1>10 DEF CommitMigration
  <2> QED
    BY <2>1
<1>11. CASE DeadlockVictim(s)
  BY <1>4, <1>11 DEF DeadlockVictim
<1>12. CASE Serve(s)
  BY <1>2, <1>12 DEF Serve
<1>13. CASE Die(s)
  BY <1>2, <1>13 DEF Die
<1> QED
  BY <1>5, <1>6, <1>7, <1>8, <1>9, <1>10, <1>11, <1>12, <1>13 DEF Proceed

(* The step that starts the server follows its migration.                  *)
LEMMA WhoServes ==
  ASSUME SchemaInv, [Next]_vars, NEW r \in Reqs,
         proc[r].pc # "serving", proc'[r].pc = "serving"
  PROVE  proc[r].pc = "migrated"
<1>1. proc'[r] # proc[r]
  OBVIOUS
<1>2. Next
  BY <1>1 DEF vars
<1>3. PICK s \in Reqs : (\E cmd \in Commands : Start(s, cmd)) \/ Proceed(s) \/ Die(s)
  BY <1>2 DEF Next
<1> QED
  BY <1>1, <1>3, ProcessesMove

(* The bounds on the lengths of the scripts.                               *)
LEMMA Lengths ==
  /\ 0 \in 0 .. 13 /\ \A n \in 0 .. 13 : n <= 14
  /\ \A n \in Nat : n - 1 \in 0 .. 13 => n <= 14
OBVIOUS

(* No script is longer than the whole upgrade.                             *)
LEMMA ScriptsAreShort ==
  ASSUME SchemaInv, NEW r \in Reqs
  PROVE  Len(proc[r].todo) <= 14
<1>1. CASE proc[r].todo = <<>>
  BY <1>1
<1>2. ASSUME NEW t, NEW p \in Parts, NEW k \in 0 .. Last(p), NEW c,
             Rest(t, ScriptOf(p), k, ScriptOf(Then(p, c)))
      PROVE  Len(t) \in 0 .. 13
  <2>1. Len(ScriptOf(p)) = Last(p) + 1 /\ Last(p) \in 5 .. 6
    BY PartShape
  <2>2. Then(p, c) \in {"up2", "down1", "end"}
    BY DEF Then
  <2>3. Len(ScriptOf(Then(p, c))) \in 0 .. 6
    <3>1. "up2" \in Parts /\ "down1" \in Parts /\ Last("up2") = 5 /\ Last("down1") = 5
      BY DEF Parts, Last
    <3>2. Len(ScriptOf("up2")) = 5 + 1 /\ Len(ScriptOf("down1")) = 5 + 1
      BY <3>1, PartShape
    <3>3. Len(ScriptOf("end")) = 0
      BY DEF ScriptOf
    <3>4. CASE Then(p, c) = "up2"
      BY <3>2, <3>4
    <3>5. CASE Then(p, c) = "down1"
      BY <3>2, <3>5
    <3>6. CASE Then(p, c) = "end"
      BY <3>3, <3>6
    <3> QED
      BY <2>2, <3>4, <3>5, <3>6
  <2>4. Len(t) = ((Last(p) + 1) - k) + Len(ScriptOf(Then(p, c)))
    BY <1>2, <2>1 DEF Rest
  <2>5. PICK a \in 5 .. 6 : a = Last(p)
    BY <2>1
  <2>6. PICK b \in 0 .. 6 : b = Len(ScriptOf(Then(p, c)))
    BY <2>3
  <2>7. k \in 0 .. a /\ Len(t) = ((a + 1) - k) + b
    BY <2>4, <2>5, <2>6
  <2>8. ((a + 1) - k) + b \in 0 .. 13
    BY <2>7
  <2> QED
    BY <2>7, <2>8
<1>3. CASE proc[r].todo # <<>>
  <2>1. Place(r)
    BY <1>3 DEF SchemaInv, Knows
  <2>2. ASSUME NEW p \in Parts, NEW k \in 0 .. Last(p), At(r, p, k)
        PROVE  Len(proc[r].todo) <= 14
    <3>1. Len(proc[r].todo) \in 0 .. 13
      BY <1>2, <2>2 DEF At
    <3> QED
      BY <3>1, Lengths
  <2>3. CASE Opening(r)
    <3>1. /\ proc[r].todo \in Seq(Statement)
          /\ Len(Tail(proc[r].todo)) = Len(proc[r].todo) - 1 /\ Len(proc[r].todo) \in Nat
      BY <1>3, <2>3, HeadTailProperties DEF Opening
    <3>2. PICK p \in Parts \union {"end"} : BeforePart(r, p)
      BY <2>3 DEF Opening
    <3>3. Len(Tail(proc[r].todo)) \in 0 .. 13
      <4>1. CASE p = "end"
        <5>1. Tail(proc[r].todo) = <<>>
          BY <3>2, <4>1 DEF BeforePart, Body
        <5>2. Len(<<>>) = 0
          OBVIOUS
        <5> QED
          BY <5>1, <5>2, Lengths
      <4>2. CASE p # "end"
        <5>1. p \in Parts /\ 0 \in 0 .. Last(p)
          BY <4>2, PartShape
        <5>2. Rest(Tail(proc[r].todo), ScriptOf(p), 0, ScriptOf(Then(p, proc[r].cmd)))
          BY <3>2, <4>2 DEF BeforePart, Body
        <5> QED
          BY <1>2, <5>1, <5>2
      <4> QED
        BY <4>1, <4>2
    <3>4. Len(proc[r].todo) - 1 \in 0 .. 13
      BY <3>1, <3>3
    <3> QED
      BY <3>1, <3>4, Lengths
  <2> QED
    BY <1>3, <2>1, <2>2, <2>3 DEF Place, Stamped, Blank
<1> QED
  BY <1>1, <1>3

(* The variables of the migrations keep their types, only a running        *)
(* migration holds locks, and no script is longer than the whole upgrade.  *)
THEOREM TypesHold == Spec => []TypeOK
<1>1. SchemaInv => TypeOK
  <2> SUFFICES ASSUME SchemaInv PROVE TypeOK
    OBVIOUS
  <2>1. StoreType(Objects \union {Version}, {Absent, There, Init1c6e, Groups7c8e})
    BY DEF SchemaInv, WellTyped, Keys
  <2>2. \A x \in Objects : latest[x] \in {Absent, There}
    BY DEF SchemaInv, WellTyped
  <2>3. latest[Version] # There
    BY DEF SchemaInv, WellTyped, Revisions, There, Absent, Init1c6e, Groups7c8e
  <2>4. ASSUME NEW r \in Reqs
        PROVE  /\ proc[r].pc \in {"off", "reading", "running", "migrated", "serving", "failed"}
               /\ proc[r].cmd \in Commands \union {"none"}
               /\ Len(proc[r].todo) <= 14
               /\ (\E x \in DOMAIN lock : lock[x] = r) => Running(r)
    <3>1. DOMAIN lock = Keys
      BY <2>1 DEF StoreType, Keys
    <3> QED
      BY <3>1, ProcessType, ScriptsAreShort DEF SchemaInv, Knows
  <2> QED
    BY <2>1, <2>2, <2>3, <2>4 DEF TypeOK, SchemaInv
<1> QED
  BY <1>1, SchemaAlways, PTL

(* Whatever fails, dies or overlaps, the committed schema is the one of    *)
(* the committed revision, but for the type of the task status.            *)
THEOREM SchemaHolds == Spec => []SchemaMatchesRevision
<1>1. SchemaInv => SchemaMatchesRevision
  <2> SUFFICES ASSUME SchemaInv PROVE SchemaMatchesRevision
    OBVIOUS
  <2> DEFINE found == {x \in Objects : db[x] # Absent} \ {"alembic_version"}
  <2>1. \A x \in Tables : Like(db[x], x, db[Version])
    BY DEF SchemaInv
  <2>2. TablesOf(db[Version]) \subseteq Tables
    BY TablesAre DEF SchemaInv, WellTyped, Revisions
  <2>3. \A x : x \in found <=> x \in Tables /\ db[x] # Absent
    BY DEF Tables
  <2>4. /\ TablesOf(db[Version]) \subseteq found
        /\ found \subseteq TablesOf(db[Version]) \union {"task_status"}
    BY <2>1, <2>2, <2>3 DEF Like
  <2> QED
    BY <2>4 DEF SchemaMatchesRevision
<1> QED
  BY <1>1, SchemaAlways, PTL

(* A server starts on the newest revision, unless another process took the *)
(* database away from it after the migration of its container.             *)
THEOREM ServesMigrated == Spec => ServesOnlyMigrated
<1> DEFINE Step == \A r \in Reqs :
                     proc[r].pc # "serving" /\ proc'[r].pc = "serving" =>
                       db[Version] = Newest \/ r \in overtaken
<1>1. SchemaInv /\ [Next]_vars => Step
  <2> SUFFICES ASSUME SchemaInv, [Next]_vars, NEW r \in Reqs,
                      proc[r].pc # "serving", proc'[r].pc = "serving"
               PROVE  db[Version] = Newest \/ r \in overtaken
    OBVIOUS
  <2>1. proc[r].pc = "migrated"
    BY WhoServes
  <2> QED
    BY <2>1 DEF SchemaInv, Knows
<1> HIDE DEF Step
<1>2. Spec => [][Step]_vars
  BY <1>1, SchemaInit, SchemaStep, PTL DEF Spec
<1> QED
  BY <1>2 DEF ServesOnlyMigrated, Step

-----------------------------------------------------------------------------
(* Failures.                                                               *)

(* What was left of a downgraded base.                                     *)
Leftover == db[Version] = Absent /\ db["task_status"] # Absent

(* A statement that was executed is no failure.                            *)
LEMMA ExecutedIsRunning ==
  ASSUME SchemaInv, NEW r \in Reqs, Running(r), NEW v, Execute(r, v)
  PROVE  proc'[r].pc # "failed"
<1>1. proc'[r].pc = proc[r].pc
  BY ProcessType DEF Execute, SchemaInv
<1> QED
  BY <1>1 DEF Running

(* A table that cannot be created was there, or what it refers to was not. *)
LEMMA CreateFails ==
  ASSUME SchemaInv, NEW r \in Reqs, Create(r), proc'[r].pc = "failed", r \notin overtaken
  PROVE  Leftover
<1>1. /\ Running(r) /\ proc[r].todo # <<>> /\ Head(proc[r].todo)[1] = "create"
  BY DEF Create, Ready, AtStatement
<1>2. ~CanCreate(r, Target(r))
  BY <1>1, ExecutedIsRunning DEF Create
<1>3. ~Opening(r)
  <2> SUFFICES ASSUME Opening(r) PROVE FALSE
    OBVIOUS
  <2>1. Target(r) = "alembic_version" /\ db["alembic_version"] = Absent
        /\ lock["alembic_version"] # r
    BY RowsAre DEF Opening, Target
  <2>2. CanCreate(r, Target(r))
    BY <2>1, References DEF CanCreate, Found
  <2> QED
    BY <1>2, <2>2
<1>4. ASSUME NEW p \in Parts, AtStamp(r, p) PROVE FALSE
  BY <1>1, <1>4 DEF AtStamp
<1>5. ASSUME NEW p \in Parts, NEW k \in 0 .. Last(p) - 1, AtPart(r, p, k)
      PROVE  Leftover
  <2>1. PICK o \in Tables : o = Object(p, k + 1)
    <3>1. k + 1 \in 1 .. Last(p)
      BY PartShape
    <3> QED
      BY <3>1, PartShape
  <2>2. At(r, p, k) /\ Target(r) = o /\ What(p) = "create"
    BY <1>1, <1>5, <2>1 DEF AtPart, Target
  <2>3. p \in {"up1", "up2"} /\ Made(p) = There /\ There # Absent
    BY <2>2, TablesAre DEF What, Made
  <2>4. /\ ~Touched(p, k, o) /\ o \notin TablesOf(From(p))
        /\ \A x \in RefersTo[o] : Touched(p, k, x) \/ x \in TablesOf(From(p))
    BY <2>1, <2>3, PartNext DEF InOrder
  <2>5. \A x \in Tables : InHand(r, p, k, x)
    BY <2>2, FindsItsRevision, WholeInHand
  <2>6. ASSUME NEW x \in RefersTo[o] PROVE Found(r, x) # Absent
    <3>1. x \in Tables /\ (Touched(p, k, x) \/ x \in TablesOf(From(p)))
      BY <2>4, References, RowsAre
    <3> QED
      BY <2>3, <2>5, <3>1 DEF InHand, Like
  <2>7. Found(r, o) # Absent
    BY <1>2, <2>2, <2>6 DEF CanCreate
  <2>8. o = "task_status"
    BY <2>4, <2>5, <2>7 DEF InHand, Like
  <2>9. p = "up1"
    BY <2>3, <2>4, <2>8, TablesAre DEF From
  <2>10. lock[Version] # r /\ db[Version] = Absent
    BY <2>2, <2>9 DEF At, Basis, Base, From
  <2>11. lock[o] = r => latest[o] = db[o]
    BY <2>2, <2>4, <2>10 DEF At, Half
  <2>12. db[o] # Absent
    BY <2>7, <2>11 DEF Found
  <2> QED
    BY <2>8, <2>10, <2>12 DEF Leftover
<1> QED
  BY <1>1, <1>3, <1>4, <1>5, WhereItIs

(* A table is there to be dropped, and what refers to it is gone.          *)
LEMMA DropSucceeds ==
  ASSUME SchemaInv, NEW r \in Reqs, Drop(r), r \notin overtaken
  PROVE  proc'[r].pc # "failed"
<1>1. /\ Running(r) /\ proc[r].todo # <<>> /\ Head(proc[r].todo)[1] = "drop"
  BY DEF Drop, Ready, AtStatement
<1> SUFFICES CanDrop(r, Target(r))
  BY <1>1, ExecutedIsRunning DEF Drop
<1>2. ~Opening(r)
  BY <1>1 DEF Opening
<1>3. ASSUME NEW p \in Parts, AtStamp(r, p) PROVE FALSE
  BY <1>1, <1>3 DEF AtStamp
<1>4. ASSUME NEW p \in Parts, NEW k \in 0 .. Last(p) - 1, AtPart(r, p, k)
      PROVE  CanDrop(r, Target(r))
  <2>1. PICK o \in Tables : o = Object(p, k + 1)
    <3>1. k + 1 \in 1 .. Last(p)
      BY PartShape
    <3> QED
      BY <3>1, PartShape
  <2>2. At(r, p, k) /\ Target(r) = o /\ What(p) = "drop"
    BY <1>1, <1>4, <2>1 DEF AtPart, Target
  <2>3. p \in {"down1", "down2"} /\ Made(p) = Absent
    BY <2>2 DEF What, Made, Parts
  <2>4. /\ ~Touched(p, k, o) /\ o \in TablesOf(From(p))
        /\ \A x \in Objects : o \in RefersTo[x] =>
             Touched(p, k, x) \/ x \notin TablesOf(From(p)) \union {"task_status"}
    BY <2>1, <2>3, PartNext DEF InOrder
  <2>5. \A x \in Tables : InHand(r, p, k, x)
    BY <2>2, FindsItsRevision, WholeInHand
  <2>6. Found(r, o) # Absent
    BY <2>4, <2>5 DEF InHand, Like
  <2>7. ASSUME NEW x \in Objects, o \in RefersTo[x] PROVE Found(r, x) = Absent
    <3>1. x \in Tables
      BY <2>7, References, RowsAre
    <3> QED
      BY <2>3, <2>4, <2>5, <2>7, <3>1 DEF InHand, Like
  <2> QED
    BY <2>2, <2>6, <2>7 DEF CanDrop
<1> QED
  BY <1>1, <1>2, <1>3, <1>4, WhereItIs

(* The revision is the one the part begins with.                           *)
LEMMA StampSucceeds ==
  ASSUME SchemaInv, NEW r \in Reqs, StampRevision(r), r \notin overtaken
  PROVE  proc'[r].pc # "failed"
<1>1. PICK p \in Parts :
         /\ AtStamp(r, p) /\ Running(r) /\ Target(r) = Version /\ Blockers(r) = {}
         /\ \/ Found(r, Version) = From(p) /\ Execute(r, To(p))
            \/ Found(r, Version) # From(p) /\ Fail(r)
  BY StampIs
<1>2. Found(r, Version) = From(p)
  BY <1>1, FindsItsRevision DEF AtStamp
<1> QED
  BY <1>1, <1>2, ExecutedIsRunning

(* The revision is read before a migration, and fails only below the base. *)
LEMMA ReadingFails ==
  ASSUME SchemaInv, NEW r \in Reqs, ReadRevision(r), proc'[r].pc = "failed"
  PROVE  db[Version] = Absent /\ OneBack(proc[r].cmd)
<1>1. proc' = [proc EXCEPT ![r] = IF OneBack(proc[r].cmd) /\ db[Version] = Absent
                                 THEN Process("failed", "none", <<>>)
                                 ELSE Process("running", proc[r].cmd,
                                              Script(proc[r].cmd, db[Version]))]
  BY Zenon DEF ReadRevision, OneBack
<1> QED
  BY <1>1 DEF SchemaInv, Process

(* A migration fails only when another one was committed since it read the *)
(* revision, in a deadlock, at a base that kept the type of the task       *)
(* status, or one below the base.                                          *)
THEOREM FailuresExplained == Spec => FailuresAreExplained
<1> DEFINE Step == \A r \in Reqs :
                     proc[r].pc # "failed" /\ proc'[r].pc = "failed" =>
                       \/ r \in overtaken
                       \/ Deadlocked(r)
                       \/ Leftover
                       \/ db[Version] = Absent /\ OneBack(proc[r].cmd)
<1>1. SchemaInv /\ [Next]_vars => Step
  <2> SUFFICES ASSUME SchemaInv, [Next]_vars, NEW r \in Reqs,
                      proc[r].pc # "failed", proc'[r].pc = "failed", r \notin overtaken
               PROVE  \/ Deadlocked(r) \/ Leftover
                      \/ db[Version] = Absent /\ OneBack(proc[r].cmd)
    OBVIOUS
  <2>1. proc'[r] # proc[r]
    OBVIOUS
  <2>2. Next
    BY <2>1 DEF vars
  <2>3. PICK s \in Reqs : (\E cmd \in Commands : Start(s, cmd)) \/ Proceed(s) \/ Die(s)
    BY <2>2 DEF Next
  <2>4. \/ ReadRevision(r)
        \/ Fail(r) /\ (Create(r) \/ Drop(r) \/ StampRevision(r) \/ DeadlockVictim(r))
    BY <2>1, <2>3, ProcessesMove
  <2> QED
    BY <2>4, ReadingFails, CreateFails, DropSucceeds, StampSucceeds DEF DeadlockVictim
<1> HIDE DEF Step
<1>2. Spec => [][Step]_vars
  BY <1>1, SchemaInit, SchemaStep, PTL DEF Spec
<1> QED
  BY <1>2 DEF FailuresAreExplained, Step, Leftover, OneBack
==============================================================================
