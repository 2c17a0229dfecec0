------------------------------ MODULE Listings ------------------------------
(***************************************************************************)
(* The paginated listings: projects, tasks, groups, members and invites,   *)
(* seen by one client that walks through the pages of one of them while    *)
(* other requests change the rows.                                         *)
(*                                                                         *)
(* Each page is a request of its own.  It checks that its caller may see   *)
(* the listing, counts the rows that match, and selects a page of them:    *)
(* three statements, each of which reads what is committed when it runs.   *)
(* A row has a place in the order from the start, for created_at is the    *)
(* start of the transaction that inserts it: rows may become visible in    *)
(* any order, between rows that were listed long ago.                      *)
(***************************************************************************)
EXTENDS Naturals, FiniteSets, SequencesExt

CONSTANTS Kinds,        \* which of the five listings are walked through
          Rows,         \* the rows of the listed table, each for one id
          Stamp, Rank,  \* their created_at and id
          Mine,         \* the projects whose user_id is the caller
          Me,           \* the caller's own membership, when members are listed
          Groups,
          Limit,        \* the page size
          Everything    \* no filter

ASSUME ListingsAssumption ==
  /\ Kinds \subseteq {"projects", "tasks", "groups", "members", "invites"}
  /\ IsFiniteSet(Rows)     \* ids are uuids
  /\ Stamp \in [Rows -> Nat] /\ Rank \in [Rows -> Nat]
  /\ \A x, y \in Rows : Rank[x] = Rank[y] => x = y
  /\ Mine \subseteq Rows
  /\ Limit \in 1 .. 100
  /\ Everything \notin Groups \union {"in_progress", "done"}

VARIABLES kind, filter, \* the listing, and the group or status it asks for
          row,          \* the column of each row that the listing tests
          role,         \* the caller's role in each group
          home,         \* the group of the project, or the group, listed
          pc, offset, total,
          shown,        \* the rows of the pages so far
          \* what happened since the walk, or the request, began:
          arrived, left,  \* rows that came into the listing, or went out of it
          late,           \* rows that came in after the request counted them
          could           \* rows the caller had access to during the request

table == <<row, role, home>>
history == <<arrived, left, late, could>>
vars == <<kind, filter, table, pc, offset, total, shown, history>>

New == "new"            \* not inserted yet
Gone == "gone"          \* deleted: no row has this id again
Unlinked == "unlinked"
Absent == "absent"
Roles == {"member", "owner"}
Statuses == {"in_progress", "done"}

-----------------------------------------------------------------------------
(* Which rows a listing shows, and to whom.                                *)

(* The owner of a project sees it, and so does a member of its group.      *)
Accessible(owned, link) == owned \/ (link \in Groups /\ role[link] # Absent)

Exists(x) == row[x] \notin {New, Gone, Absent}

Asked(x) == filter = Everything \/ row[x] = filter

(* Mutant: the group asked for replaces the condition.                     *)
ProjectListedByGroup(x) ==
  IF filter = Everything THEN Accessible(x \in Mine, row[x]) ELSE row[x] = filter

(* The WHERE of each listing.                                              *)
ProjectListed(x) == Accessible(x \in Mine, row[x]) /\ Asked(x)
TaskListed(x) == Asked(x)
GroupListed(x) == row[x] \in Roles
MemberListed(x) == row[x] \in Roles
InviteListed(x) == row[x] = "pending"

Matches(x) ==
  /\ Exists(x)
  /\ CASE kind = "projects" -> ProjectListed(x)
       [] kind = "tasks"    -> TaskListed(x)
       [] kind = "groups"   -> GroupListed(x)
       [] kind = "members"  -> MemberListed(x)
       [] kind = "invites"  -> InviteListed(x)

Matching == {x \in Rows : Matches(x)}

(* The check a request makes before it lists: the tasks of a project one   *)
(* can access, the members of one's groups, the invites of a group one     *)
(* owns.  The tasks' project is another user's.                            *)
MayListTasks == Accessible(FALSE, home)
MayListMembers == row[Me] \in Roles
MayListInvites == role[home] = "owner"

Allowed ==
  CASE kind = "tasks"   -> MayListTasks
    [] kind = "members" -> MayListMembers
    [] kind = "invites" -> MayListInvites
    [] OTHER -> TRUE

(* The rows the caller has access to: in the words of the service's rules, *)
(* whatever its statements do, and whether the rows are there or not.      *)
InReach ==
  {x \in Rows :
     CASE kind = "projects" -> x \in Mine \/ (row[x] \in Groups /\ role[row[x]] \in Roles)
       [] kind = "tasks"    -> home \in Groups /\ role[home] \in Roles
       [] kind = "groups"   -> row[x] \in Roles
       [] kind = "members"  -> row[Me] \in Roles
       [] kind = "invites"  -> role[home] = "owner"}

(* Mutant: created_at alone decides, and rows of one instant come in any   *)
(* order.                                                                  *)
BeforeByStamp(x, y) == Stamp[x] < Stamp[y]

Before(x, y) == Stamp[x] < Stamp[y] \/ (Stamp[x] = Stamp[y] /\ Rank[x] < Rank[y])

(* The orders an ORDER BY allows.                                          *)
Sorted(S) ==
  {s \in SetToSeqs(S) : \A i, j \in DOMAIN s : i < j => ~Before(s[j], s[i])}

-----------------------------------------------------------------------------
(* The client's walk.                                                      *)

Init ==
  /\ kind \in Kinds
  /\ filter = Everything
  /\ row = [x \in Rows |-> IF kind = "groups" THEN Absent ELSE New]
  /\ role = [g \in Groups |-> Absent]
  /\ home \in Groups
  /\ pc = "idle" /\ offset = 0 /\ total = 0 /\ shown = <<>>
  /\ arrived = {} /\ left = {} /\ late = {} /\ could = {}

Filters == CASE kind = "projects" -> {Everything} \union Groups
             [] kind = "tasks"    -> {Everything} \union Statuses
             [] OTHER             -> {Everything}

(* A new walk, with the filter it will have on every page.                 *)
Start(k, f) ==
  /\ pc = "idle"
  /\ kind = k
  /\ filter' = f
  /\ pc' = "check"
  /\ could' = InReach
  /\ UNCHANGED <<kind, table, offset, total, shown, arrived, left, late>>

ListProjects == \E f \in Filters : Start("projects", f)
ListTasks == \E f \in Filters : Start("tasks", f)
ListGroups == Start("groups", Everything)
ListMembers == Start("members", Everything)
ListInvites == Start("invites", Everything)

Check ==
  /\ pc = "check"
  /\ IF Allowed THEN pc' = "count" /\ UNCHANGED could
     ELSE pc' = "refused" /\ could' = {}
  /\ UNCHANGED <<kind, filter, table, offset, total, shown, arrived, left, late>>

(* Mutant: the total ignores the filter.                                   *)
CountUnfiltered ==
  /\ pc = "count"
  /\ total' = Cardinality({x \in Rows : Exists(x)})
  /\ pc' = "select"
  /\ UNCHANGED <<kind, filter, table, offset, shown, history>>

(* Mutant: the total adds the rows of the pages before.                    *)
CountTwice ==
  /\ pc = "count"
  /\ total' = offset + Cardinality(Matching)
  /\ pc' = "select"
  /\ UNCHANGED <<kind, filter, table, offset, shown, history>>

Count ==
  /\ pc = "count"
  /\ total' = Cardinality(Matching)
  /\ pc' = "select"
  /\ UNCHANGED <<kind, filter, table, offset, shown, history>>

(* Mutant: OFFSET counts from one.                                         *)
PageOneLate(s) ==
  LET last == IF offset + Limit < Len(s) THEN offset + Limit ELSE Len(s)
  IN SubSeq(s, offset + 2, last)

(* OFFSET and LIMIT, which may reach past the end.                         *)
Page(s) ==
  LET last == IF offset + Limit < Len(s) THEN offset + Limit ELSE Len(s)
  IN SubSeq(s, offset + 1, last)

SelectPage ==
  /\ pc = "select"
  /\ \E s \in Sorted(Matching) : shown' = shown \o Page(s)
  /\ pc' = IF offset + Limit < total THEN "more" ELSE "end"
  /\ could' = {}
  /\ UNCHANGED <<kind, filter, table, offset, total, arrived, left, late>>

(* The client asks for the next page as long as total says there is one.   *)
NextPage ==
  /\ pc = "more"
  /\ offset' = offset + Limit
  /\ pc' = "check"
  /\ late' = {} /\ could' = InReach
  /\ UNCHANGED <<kind, filter, table, total, shown, arrived, left>>

(* The walk is over; what is kept of it is forgotten.                      *)
Finish ==
  /\ pc \in {"end", "refused"}
  /\ pc' = "idle"
  /\ offset' = 0 /\ total' = 0 /\ shown' = <<>> /\ filter' = Everything
  /\ arrived' = {} /\ left' = {} /\ late' = {} /\ could' = {}
  /\ UNCHANGED <<kind, table>>

-----------------------------------------------------------------------------
(* What the other requests change meanwhile.                               *)

Record ==
  LET came == Matching' \ Matching IN
  /\ IF pc \in {"idle", "refused"} THEN UNCHANGED <<arrived, left>>
     ELSE /\ arrived' = arrived \union came
          /\ left' = left \union (Matching \ Matching')
  /\ late' = IF pc = "select" THEN late \union came ELSE late
  /\ could' = IF pc \in {"check", "count", "select"} THEN could \union InReach' ELSE could

(* The values a row takes on, one transaction at a time: projects are      *)
(* created, linked, unlinked and deleted; tasks are created, change their  *)
(* status and are deleted; the caller enters and leaves groups; members    *)
(* join, change roles and leave, and come back as another row.             *)
Moves ==
  CASE kind = "projects" -> {<<New, Unlinked>>} \union ({Unlinked} \X Groups)
                              \union (Groups \X {Unlinked})
                              \union (({Unlinked} \union Groups) \X {Gone})
    [] kind = "tasks"    -> ({New} \X Statuses) \union (Statuses \X Statuses)
                              \union (Statuses \X {Gone})
    [] kind = "groups"   -> ({Absent} \union Roles) \X ({Absent} \union Roles)
    [] kind = "members"  -> ({New} \X Roles) \union (Roles \X Roles)
                              \union (Roles \X {Gone})
    [] kind = "invites"  -> {<<New, "pending">>}
                              \union ({"pending"} \X {"used", "expired", Gone})

(* The statements of a request compare expires_at with the start of their  *)
(* transaction, so that for them no invite expires on the way.             *)
ChangeRow(x, v) ==
  /\ v # row[x]
  /\ <<row[x], v>> \in Moves
  /\ v = "expired" => pc \notin {"check", "count", "select"}
  /\ row' = [row EXCEPT ![x] = v]
  /\ UNCHANGED <<kind, filter, role, home, pc, offset, total, shown>>
  /\ Record

(* Only the listing of the invites asks who the owner is.                  *)
ChangeRole(g, r) ==
  /\ kind \in {"projects", "tasks", "invites"}
  /\ r # role[g]
  /\ r = "owner" => kind = "invites"
  /\ role' = [role EXCEPT ![g] = r]
  /\ UNCHANGED <<kind, filter, row, home, pc, offset, total, shown>>
  /\ Record

(* The project whose tasks are listed is linked or unlinked.               *)
ChangeHome(g) ==
  /\ kind = "tasks"
  /\ (home = Unlinked) # (g = Unlinked)
  /\ home' = g
  /\ UNCHANGED <<kind, filter, row, role, pc, offset, total, shown>>
  /\ Record

Values == {New, Gone, Absent, Unlinked, "pending", "used", "expired"}
            \union Roles \union Statuses \union Groups

Walk == \/ ListProjects \/ ListTasks \/ ListGroups \/ ListMembers \/ ListInvites
        \/ Check \/ Count \/ SelectPage \/ NextPage \/ Finish

Change == \/ \E x \in Rows, v \in Values : ChangeRow(x, v)
          \/ \E g \in Groups, r \in Roles \union {Absent} : ChangeRole(g, r)
          \/ \E g \in Groups \union {Unlinked} : ChangeHome(g)

Next == Walk \/ Change

Spec == Init /\ [][Next]_vars

-----------------------------------------------------------------------------
(* Properties.                                                             *)

(* Every variable stays in its type, and the offset moves by whole pages.  *)
TypeOK ==
  /\ kind \in Kinds
  /\ filter \in Filters
  /\ row \in [Rows -> Values]
  /\ role \in [Groups -> Roles \union {Absent}]
  /\ home \in Groups \union {Unlinked}
  /\ pc \in {"idle", "check", "count", "select", "more", "end", "refused"}
  /\ total \in 0 .. Cardinality(Rows)
  /\ offset \in {n * Limit : n \in 0 .. Cardinality(Rows)}
  /\ shown \in Seq(Rows)
  /\ arrived \subseteq Rows /\ left \subseteq Rows
  /\ late \subseteq Rows /\ could \subseteq Rows

(* A walk misses a row that was in the listing all the time only when a    *)
(* row ahead of it went out of the listing, and so moved it to a page that *)
(* was read already, or when one came in between the count of the last     *)
(* request, which ended the walk, and its page.                            *)
SkipsAreExplained ==
  pc = "end" =>
    \A x \in Matching \ (arrived \union left) :
      x \in ToSet(shown) \/ \E y \in left \union late : Before(y, x)

(* A walk shows a row twice only when a row ahead of it came into the      *)
(* listing meanwhile.                                                      *)
RepeatsAreExplained ==
  \A i, j \in DOMAIN shown :
    i # j /\ shown[i] = shown[j] => \E y \in arrived : Before(y, shown[i])

(* When nothing comes or goes, the pages are the listing: every row once,  *)
(* in the order of created_at and id, and as many as total says.           *)
QuietWalkIsExact ==
  pc = "end" /\ arrived = {} /\ left = {} =>
    /\ ToSet(shown) = Matching
    /\ Len(shown) = Cardinality(Matching) /\ total = Len(shown)
    /\ \A i, j \in DOMAIN shown :
         i < j => \/ Stamp[shown[i]] < Stamp[shown[j]]
                  \/ Stamp[shown[i]] = Stamp[shown[j]] /\ Rank[shown[i]] < Rank[shown[j]]

(* A page shows only what its caller had access to at some time during the *)
(* request: asking for a group narrows the projects he sees and never      *)
(* grants him one, and each request makes its own check.  The check is not *)
(* made again: a task created after the caller lost the project, but       *)
(* before the page is read, is shown to him.                               *)
ShownWithinReach ==
  [][\A i \in DOMAIN shown' \ DOMAIN shown : shown'[i] \in could]_shown
=============================================================================
