----------------------------- MODULE Migrations -----------------------------
(***************************************************************************)
(* The migrations of the schema and the start of the container: alembic    *)
(* runs the scripts of alembic/versions in one transaction, and the        *)
(* entrypoint starts the server only after it.  An operator may run        *)
(* alembic at the same time, as the README tells a developer to.           *)
(*                                                                         *)
(* A row of the store is a table, a type or the added column, there or     *)
(* not, or the revision alembic_version holds.  Indexes come and go with   *)
(* their tables.  A statement that creates or drops a table locks the      *)
(* tables it refers to as well.                                            *)
(***************************************************************************)
EXTENDS Naturals, Sequences, RowStore

CONSTANTS Containers    \* those of Reqs that are the api service; the others
                        \* are operators
ASSUME MigrationsAssumption == Containers \subseteq Reqs

VARIABLES proc,         \* what each of Reqs does
          overtaken     \* those after whose reading of the revision another
                        \* one committed a change
vars == <<store, proc, overtaken>>

There == "there"
Version == "version"    \* the row of alembic_version, or Absent at the base
Init1c6e == "1c6ee173a43c"
Groups7c8e == "7c8e21a3f82b"
Newest == Groups7c8e

(* What each table refers to.                                              *)
RefersTo == [users |-> {}, projects |-> {"users"}, refresh_tokens |-> {"users"},
             task_status |-> {}, tasks |-> {"projects"}, attachments |-> {"tasks"},
             groups |-> {}, group_invites |-> {"users", "groups"}, group_role |-> {},
             group_memberships |-> {"groups", "users"}, group_id |-> {"projects", "groups"},
             alembic_version |-> {}, version |-> {}]
Objects == DOMAIN RefersTo \ {Version}

-----------------------------------------------------------------------------
(* The scripts: a statement is what it does and to which object.           *)

Creates(objects) == [i \in DOMAIN objects |-> <<"create", objects[i]>>]
Drops(objects) == [i \in DOMAIN objects |-> <<"drop", objects[i]>>]
Stamp(from, to) == << <<"stamp", Version, from, to>> >>

UpgradeInit == Creates(<<"users", "projects", "refresh_tokens", "task_status", "tasks",
                         "attachments">>)
DowngradeInit == Drops(<<"attachments", "tasks", "refresh_tokens", "projects", "users">>)

UpgradeGroups == Creates(<<"groups", "group_invites", "group_role", "group_memberships",
                           "group_id">>)

(* Mutant: the type of the roles is left behind.                           *)
DowngradeGroupsOnly == Drops(<<"group_id", "group_memberships", "group_invites", "groups">>)

DowngradeGroups == Drops(<<"group_id", "group_memberships", "group_role", "group_invites",
                           "groups">>)

Up1 == UpgradeInit \o Stamp(Absent, Init1c6e)
Up2 == UpgradeGroups \o Stamp(Init1c6e, Groups7c8e)
Down1 == DowngradeInit \o Stamp(Init1c6e, Absent)
Down2 == DowngradeGroups \o Stamp(Groups7c8e, Init1c6e)

(* The scripts between the revision found and the one asked for, after     *)
(* the table of the revision if it is not there.                           *)
Script(cmd, rev) ==
  (IF db["alembic_version"] = Absent THEN Creates(<<"alembic_version">>) ELSE <<>>) \o
    CASE cmd = "upgrade head" /\ rev = Absent -> Up1 \o Up2
      [] cmd = "upgrade head" /\ rev = Init1c6e -> Up2
      [] cmd = "downgrade -1" /\ rev = Groups7c8e -> Down2
      [] cmd = "downgrade base" /\ rev = Groups7c8e -> Down2 \o Down1
      [] cmd # "upgrade head" /\ rev = Init1c6e -> Down1
      [] OTHER -> <<>>

Commands == {"upgrade head", "downgrade -1", "downgrade base"}

-----------------------------------------------------------------------------
(* Processes: a container or an operator.                                  *)

Process(p, cmd, todo) == [pc |-> p, cmd |-> cmd, todo |-> todo]
Goto(r, p) == proc' = [proc EXCEPT ![r] = Process(p, "none", <<>>)]

Running(r) == proc[r].pc = "running"
AtStatement(r, what) == Running(r) /\ proc[r].todo # <<>> /\ Head(proc[r].todo)[1] = what
Target(r) == Head(proc[r].todo)[2]

(* The keys the next statement of r locks.                                 *)
Locked(r) ==
  IF ~Running(r) \/ proc[r].todo = <<>> THEN {}
  ELSE {Target(r)} \union RefersTo[Target(r)]

Blockers(r) == UNION {Writers(r, x) : x \in Locked(r)}
Ready(r, what) == AtStatement(r, what) /\ Blockers(r) = {}

Deadlocked(r) ==
  \E S \in SUBSET Reqs : r \in S /\ \A s \in S : Blockers(s) \intersect S # {}

(* Mutant: the connection of a failed migration stays open.                *)
FailKeepsLocks(r) ==
  /\ Goto(r, "failed")
  /\ UNCHANGED <<store, overtaken>>

(* alembic stops at the first error and nothing is committed.              *)
Fail(r) ==
  /\ Rollback(r)
  /\ Goto(r, "failed")
  /\ UNCHANGED overtaken

(* The statement locks its object and what that refers to, and changes it. *)
Execute(r, v) ==
  /\ WriteAll(r, Locked(r), [x \in Locked(r) |-> IF x = Target(r) THEN v ELSE Found(r, x)])
  /\ proc' = [proc EXCEPT ![r].todo = Tail(@)]
  /\ UNCHANGED <<share, overtaken>>

(* A container is started, or an operator types a command.  A container    *)
(* that failed or stopped stays so until somebody starts it again.         *)
Start(r, cmd) ==
  /\ proc[r].pc \in {"off", "failed", "serving"}
  /\ r \in Containers => cmd = "upgrade head"
  /\ proc' = [proc EXCEPT ![r] = Process("reading", cmd, <<>>)]
  /\ UNCHANGED <<store, overtaken>>

(* get_current_heads: a plain SELECT.  There is nothing one below the base.*)
ReadRevision(r) ==
  /\ proc[r].pc = "reading"
  /\ LET cmd == proc[r].cmd IN
     proc' = [proc EXCEPT ![r] =
                IF cmd = "downgrade -1" /\ db[Version] = Absent
                THEN Process("failed", "none", <<>>)
                ELSE Process("running", cmd, Script(cmd, db[Version]))]
  /\ overtaken' = overtaken \ {r}
  /\ UNCHANGED store

CanCreate(r, o) ==
  Found(r, o) = Absent /\ \A x \in RefersTo[o] : Found(r, x) # Absent

Create(r) ==
  /\ Ready(r, "create")
  /\ \/ CanCreate(r, Target(r)) /\ Execute(r, There)
     \/ ~CanCreate(r, Target(r)) /\ Fail(r)

(* A table others refer to is not dropped; the type is, if it is there.    *)
CanDrop(r, o) ==
  /\ Found(r, o) # Absent \/ o = "group_role"
  /\ \A x \in Objects : o \in RefersTo[x] => Found(r, x) = Absent

Drop(r) ==
  /\ Ready(r, "drop")
  /\ \/ CanDrop(r, Target(r)) /\ Execute(r, Absent)
     \/ ~CanDrop(r, Target(r)) /\ Fail(r)

(* The revision is changed from the one found, or not at all.              *)
StampRevision(r) ==
  LET stamp == Head(proc[r].todo) IN
  /\ Ready(r, "stamp")
  /\ \/ Found(r, Version) = stamp[3] /\ Execute(r, stamp[4])
     \/ Found(r, Version) # stamp[3] /\ Fail(r)

(* Mutant: every statement is committed by itself.                         *)
CommitStatement(r) ==
  /\ Running(r)
  /\ Commit(r)
  /\ IF proc[r].todo = <<>> THEN Goto(r, IF r \in Containers THEN "migrated" ELSE "off")
     ELSE UNCHANGED proc
  /\ UNCHANGED overtaken

(* begin_transaction in do_run_migrations: all the scripts commit at once. *)
CommitMigration(r) ==
  /\ Running(r)
  /\ proc[r].todo = <<>>
  /\ Commit(r)
  /\ Goto(r, IF r \in Containers THEN "migrated" ELSE "off")
  /\ overtaken' = IF \E x \in DOMAIN lock : lock[x] = r
                  THEN overtaken \union {s \in Reqs \ {r} : proc[s].pc \in {"running", "migrated"}}
                  ELSE overtaken

DeadlockVictim(r) == Deadlocked(r) /\ Fail(r)

(* Mutant: the entrypoint goes on after a failed migration.                *)
ServeAnyhow(r) ==
  /\ proc[r].pc \in {"migrated", "failed"}
  /\ r \in Containers
  /\ Goto(r, "serving")
  /\ UNCHANGED <<store, overtaken>>

(* exec uvicorn.                                                           *)
Serve(r) ==
  /\ proc[r].pc = "migrated"
  /\ r \in Containers
  /\ Goto(r, "serving")
  /\ UNCHANGED <<store, overtaken>>

(* The container, the operator's shell or their connection dies.           *)
Die(r) ==
  /\ proc[r].pc # "off"
  /\ Rollback(r)
  /\ Goto(r, "off")
  /\ UNCHANGED overtaken

-----------------------------------------------------------------------------

Init ==
  /\ db = [x \in Objects \union {Version} |-> Absent]
  /\ latest = db
  /\ lock = [x \in DOMAIN db |-> NoReq]
  /\ share = [x \in DOMAIN db |-> {}]
  /\ proc = [r \in Reqs |-> Process("off", "none", <<>>)]
  /\ overtaken = {}

Proceed(r) == \/ ReadRevision(r) \/ Create(r) \/ Drop(r) \/ StampRevision(r)
              \/ CommitMigration(r) \/ DeadlockVictim(r) \/ Serve(r)

Next == \E r \in Reqs : \/ \E cmd \in Commands : Start(r, cmd)
                        \/ Proceed(r) \/ Die(r)

Spec == Init /\ [][Next]_vars

(* alembic goes on as long as it is not killed.                            *)
FairSpec == Spec /\ \A r \in Reqs : SF_vars(Proceed(r))

-----------------------------------------------------------------------------
(* Properties.                                                             *)

(* Every variable stays in its type, and only a running migration holds    *)
(* locks.                                                                  *)
TypeOK ==
  /\ StoreType(Objects \union {Version}, {Absent, There, Init1c6e, Groups7c8e})
  /\ \A x \in Objects : latest[x] \in {Absent, There}
  /\ latest[Version] # There
  /\ \A r \in Reqs :
       /\ proc[r].pc \in {"off", "reading", "running", "migrated", "serving", "failed"}
       /\ proc[r].cmd \in Commands \union {"none"}
       /\ Len(proc[r].todo) <= 14
       /\ (\E x \in DOMAIN lock : lock[x] = r) => Running(r)
  /\ overtaken \subseteq Reqs

TablesOf(rev) ==
  CASE rev = Absent -> {}
    [] rev = Init1c6e -> {"users", "projects", "refresh_tokens", "task_status", "tasks",
                          "attachments"}
    [] rev = Groups7c8e -> Objects \ {"alembic_version"}

(* Whatever fails, dies or overlaps, the committed schema is the one of    *)
(* the committed revision.  Only the type of the task status may be left,  *)
(* which the downgrade of the first migration does not drop.               *)
SchemaMatchesRevision ==
  LET found == {x \in Objects : db[x] # Absent} \ {"alembic_version"} IN
  /\ TablesOf(db[Version]) \subseteq found
  /\ found \subseteq TablesOf(db[Version]) \union {"task_status"}

(* "A fresh deploy never boots uvicorn against an un-migrated database":   *)
(* the server starts on the newest revision, unless another process took   *)
(* the database away from it after the migration of this container.        *)
ServesOnlyMigrated ==
  [][\A r \in Reqs :
       proc[r].pc # "serving" /\ proc'[r].pc = "serving" =>
         db[Version] = Newest \/ r \in overtaken]_vars

(* A migration fails only when another one was committed since it read the *)
(* revision, when two of them wait for each other, or when it begins at a  *)
(* base that a downgrade came back to and that kept the type of the task   *)
(* status.  So the groups migration can be reversed and run again.         *)
FailuresAreExplained ==
  [][\A r \in Reqs :
       proc[r].pc # "failed" /\ proc'[r].pc = "failed" =>
         \/ r \in overtaken
         \/ Deadlocked(r)
         \/ db[Version] = Absent /\ db["task_status"] # Absent
         \/ db[Version] = Absent /\ proc[r].cmd = "downgrade -1"]_vars

(* Migrations that wait for each other's tables do not wait for ever.      *)
EveryMigrationEnds == \A r \in Reqs : Running(r) ~> ~Running(r)
=============================================================================
