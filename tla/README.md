# Taskly backend: TLA+ models, checks and proofs

Taskly is a FastAPI service over PostgreSQL with an object storage for
attachments. Every request runs in one coroutine with one database session, the
services read, decide and write with an `await` between the statements, and the
repositories only flush. What can go wrong and what a test hardly reaches is
therefore mostly one thing: a decision taken on a row that another request
changes before the write that the decision allowed. The modules in this directory
model the requests statement by statement over a small model of PostgreSQL's
READ COMMITTED level, and the runs and proofs say which of the service's promises
survive every interleaving, which survive only as long as nothing overlaps, and
which do not hold.

## Inventory

| Component | State | Operations | Module |
|---|---|---|---|
| Groups, memberships, invites, links (`group_service.py`, `group_repository.py`, `group_invite_repository.py`, `models/group.py`, `routers/groups.py`) | rows of `groups`, `group_memberships`, `group_invites`, `projects.group_id`; in-memory invite attempts | create, rename, delete; create, accept and revoke an invite; remove a member, leave, transfer ownership; link and unlink a project | `Groups` |
| Sessions (`auth_service.py`, `refresh_token_repository.py`, `routers/auth.py`) | rows of `users`, `refresh_tokens`; in-memory failed logins; the browser's cookie | register, login, refresh, logout | `AuthSessions` |
| Projects and tasks (`project_service.py`, `task_service.py`, their repositories and routers) | rows of `projects`, `tasks` | create, rename, delete a project; create, update, delete a task | `TaskFiles` |
| Attachments and storage (`attachment_service.py`, `storage/`) | rows of `attachments`, files in the storage | upload, delete; the cleanup when a task is deleted | `TaskFiles` |
| Database (`core/db.py`, `api/dependencies.py`) | committed rows, uncommitted versions, row locks | begin, commit, rollback of a request's transaction | `RowStore` (external) |
| Listings and pagination (`api/pagination.py`, the `list_...` methods and routes) | none | list projects, tasks, groups, members, pending invites | `Listings` |
| Migrations and start of the container (`alembic/`, `entrypoint.sh`) | the schema, the row of `alembic_version` | upgrade and downgrade; start of the server | `Migrations` |
| Access tokens, password hashing (`core/security.py`, `api/dependencies.py`) | the browser's `access_token` cookie | `/me`, the current user | `AuthSessions`, without the cryptography |
| CORS and wiring, images, continuous deployment | none | | not modelled |

How they interact: routers call one service method per request; services call
repositories on the request's session; all requests share the rows and, within a
process, the two limiter dictionaries (`_shared_failed_attempts`,
`_shared_invite_attempts`). `TaskService.delete` and `AttachmentService` call the
storage synchronously, so nothing of the process interleaves with a storage call,
but the storage is outside the transaction. The container runs the migrations and
then becomes the server; an operator's shell may run alembic beside it.

What is hard, and which property watches it, is the `hazards` list of
`PROJECT.json`, one entry per line of code where it bites.

## Modules

**`RowStore`** is PostgreSQL as the services rely on it (nothing of it is under
`src/`). `db` is the committed value of a row, `latest` its newest version, `lock`
who wrote that version without having committed, `share` who holds the row
`FOR KEY SHARE` because a row it inserted refers to it. A SELECT reads `db`; a
write waits for `Writers` (a DELETE for `Holders` too) and then works on what is
committed by then, which is what READ COMMITTED does; `Commit` publishes and
`Rollback` restores. The service modules extend it, each with its own set of rows.

**`Groups`** is `GroupService`. The variable `req` holds one record per request
slot: its operation, group, caller, argument, the statement that comes next (`pc`)
and the status of its answer. A `Begin...` action is the request's first SELECT
(for the owner's methods `_require_owner`); each later action is one statement, or
the code between two awaits. Foreign keys, the unique constraint, the partial
unique index on owners and `ON DELETE CASCADE` are the guards of the statements
that meet them. The promotion of a new owner is two actions: PostgreSQL locks the
row first and then enters the new version in the index, waiting for rivals between
the two. `attempts` is the shared dictionary of the limiter, `expired` the passage
of time over `expires_at`, `Restart` the loss of everything in memory. The projects a
group links are created and deleted by another service: `CreateProject` and
`DeleteProject` do it in one step each, because that transaction holds the
project's row only.

**`GroupRegistry`** is what `Groups` implements: the same operations without
requests, statements, transactions or locks, each one step on the groups, the
roles, the invites and the links. The refinement mapping reads the committed rows
(`Registry` in `Groups`), so a commit is the step of the registry and every
statement before it a stutter. Where overlapping calls act on what they read
before, the promise is as weak as the code: `Lapse` is a transfer whose new owner
is gone, `Link` may overwrite, `Join` may find its invite spent.

**`AuthSessions`** is `AuthService` with the cookies of its router. `jar` is the
refresh token in a browser and `access` says which browsers hold an access token
that has not expired; answers arrive in any order or never. `line` and `out`
are history variables: the ancestors of a token, and the live tokens a logout
revoked. No action reads them.

**`TaskFiles`** is `ProjectService`, `TaskService`, `AttachmentService` and the
storage. A row of a task keeps which of two fields were edited, since the
property about overlapping updates needs no more. `files` is the storage; it may
fail before or after doing its work, and no rollback touches it; `removed` remembers
which files a deletion took, and is read by a property only. A download reads the
file (local storage) or redirects to a signed URL (S3) without looking for it. The
cascade of a task's deletion waits for whoever deletes an attachment it sees; an
upload that has not committed it neither sees nor awaits, and the upload, whose
reference to the task waits for the deletion, then fails.

**`Listings`** is one client walking through the pages of one listing. A page is
three statements (the access check, the count, the page), and each reads what is
committed when it runs, while `ChangeRow`, `ChangeRole` and `ChangeHome` are what
the other requests commit in between: rows that come and go in any order of
`created_at`, since that is the start of the inserting transaction, memberships
that begin and end, a project that changes its group. `arrived`, `left`, `late`
and `could` are history variables. The second query of the task listing, for the
attachments of its page, is left out, and so is the email in the list of members.

**`Migrations`** runs the two scripts of `alembic/versions` up and down over a
`RowStore` whose rows are tables, types, the added column and the revision. All
statements of a command commit together (`begin_transaction` in `env.py`); each
locks its object and what that refers to. A container upgrades and then serves; an
operator upgrades or downgrades; both fail, die and start again at any time.

The modules whose name begins with `MC` give the constants small values.
Operators introduced as "Mutant:" are bugs somebody could have written in place
of the definition after them; none is part of a specification, and each shows
that a property does depend on the code.

## Runs

| Run | Instance | Shows |
|---|---|---|
| `groups_members` | 2 requests, 1 group, 3 users, 2 invites, symmetric | never two owners; the ways an owner can be lost are exactly those of `LosesOwner`; only transfers change roles; implements `GroupRegistry` |
| `groups_invites` | 2 requests, 2 users, 3 invites, limit 1, symmetric | limiter overrun bounded by the requests in flight; marks stay; membership and consumption commit together |
| `groups_lifecycle` | 2 requests with fairness, 2 users, 1 invite, 1 project | nothing outlives a deleted group; a success holds at its commit; lock cycles are broken and every request is answered; implements `GroupRegistry`; types |
| `groups_serial` | 1 request, every operation, 2 groups, 2 users, 2 invites, 1 project | what holds when nothing overlaps: no 500, single-use invites, links are not overwritten |
| `auth_sessions` | 2 requests, 2 browsers, 1 email, 3 tokens, limit 2 | ancestors of a token are spent; a browser with an access token has a refresh token too; no crash drops a session; limiter overrun bounded; registrations |
| `files_overlap` | 2 requests, 1 project, 1 task, 2 attachments | no row without parent, no file missing that no deletion removed, no upload without file, no deletion that keeps a listed file, no lost edit, nobody waiting in a circle; a row leaves its file behind only if it came after its task's deletion had listed the attachments |
| `listings` | 1 client, the 5 listings, 3 rows (two of one instant), 1 group, 2 rows a page | what a walk may skip or repeat, that a walk nobody disturbs is exact, that no page shows what its caller could not see during the request |
| `migrations` | 1 container, 1 operator, with fairness | schema and revision agree; the server starts only on the newest revision; why a migration may fail; none waits for ever |
| `groups_ownerless` (violation) | 1 request | an owner removes himself through `remove_member` |
| `groups_double_accept` (violation) | 2 requests | one invite admits two users |
| `auth_logout_race` (violation) | 2 requests | a refresh outlives the logout of its token |
| `files_orphaned` (violation) | 2 requests | a file stays in the storage after its row is gone |

The four violations are disagreements between the code and its own documents,
quoted under `findings`. `OwnerLossIsExplained` is the other half of the first:
besides self-removal, it lists the three overlaps that lose an owner (a caller
demoted before his `remove_member` takes effect, a member promoted before his
`leave` does, a new owner gone before the transfer reaches his row) and shows
there are no others. `OrphansAreLate` is the other half of the fourth in the same way. That the
second and the third take an overlap is shown by `groups_serial` and by the theorem
`LogoutIsFinalAlone`.

`NobodyWaitsInACircle` is stated as an invariant, beside TLC's check for deadlocks,
because a restart is always possible and hides two requests that wait for each
other. `TaskFiles` needs no deadlock victim: its requests take their rows in one
order. `Groups` has one (`DeadlockVictim`), because transfers and cascades do lock
each other up there; that every request is answered all the same is
`EveryRequestEnds`.

`groups_serial` shows what holds when nothing overlaps and nothing more: with two
requests a link can be overwritten, and an UPDATE whose group or project has gone is
answered 500. The code allows both, as it allows a browser to lose its session with the
answer of a refresh, a page of a listing to show what its caller lost a statement
before, and a file to stay in the storage when the INSERT after it fails; the
`hazards` say so where no property covers them.

`SkipsAreExplained` and `RepeatsAreExplained` are what offset pagination leaves of
the promise of stable pages: a row that was in the listing all the time is missed
only if a row ahead of it went, or if one came in between the count that ended
the walk and its page; and it is shown twice only if a row ahead of it came. The
access check of a listing is not repeated with its page, so `ShownWithinReach`
promises access at some time of the request and no more.

`FailuresAreExplained` lists why a migration fails: another one committed since
it read the revision, the two waited for each other, `downgrade -1` was asked for
at the base, or the base was reached by a downgrade. The last is a shortcoming of
the scripts: `downgrade` of the first migration keeps the type `task_status`, and
the next upgrade cannot create it. No document promises otherwise.

Bounds. The migrations have two processes: with three, a step that takes several
table locks at once could be overtaken for ever in the model, where PostgreSQL
queues for one table at a time. Three rows on pages of two make a walk of two
pages with a row to spare on either side. In the other runs, two requests in flight are enough for every two-party race, and a slot is
reused without limit, so each run explores any number of requests one after the
other. A third user lets two transfers promote different members; a third invite
lets the limiter be overrun by one more than the limit and the requests in flight
allow; three tokens are a session, a fork of it and a successor. Ids are reused
only when nothing refers to the old one (`Create`, `Fresh`, `Unused`), so a finite
set of them does not limit the length of a behaviour for groups, tasks and
attachments; invites and tokens are never deleted except with their group, and
run out. `InviteMax` and `LoginMax` are small so that the limits are met. Success
is written 200 for every 2xx code. Symmetry is used only in runs without liveness.

Fairness. `FairSpec` assumes strong fairness of each request's own steps. A
request is a coroutine the event loop resumes whenever its statement returns, and
PostgreSQL grants a row lock in the order of its queue, so a request that is
enabled again and again is not overtaken for ever (the same holds of alembic's
statements in `Migrations`); it is strong and not weak
because a waiting request is disabled whenever another takes the row before it.
Nothing is assumed of arrivals, of time or of restarts.

## Proofs

The theorems hold for every value of the constants: any number of requests, rows,
clients and users, not the instances of the runs. They rest on the assumptions the
modules name and on nothing else: that a lock nobody holds has no holder
(`RowStoreAssumption`), that the server works on finitely many requests and at least
one (`RequestsAssumption`, needed where the two limiters count them), and the types
of the constants (`GroupsAssumption`, `AuthAssumption`, `TaskFilesAssumption`,
`ListingsAssumption`, which bounds a page as the routes do and lets the rows that can ever
be listed be any finite number, so that they can be counted).
`GroupsAssumption` also says that no group has the name of "absent" or "unlinked":
the column `projects.group_id` is a uuid or NULL. Each module of proofs holds one
inductive invariant or several, a lemma per action (or per way an action touches a
row), and the theorems.

`RowStoreProofs` holds the lemmas about the row store: every operation keeps
`StoreType`, and keeps the store *clean* (a row nobody locks has one version, so
`latest` and `db` differ only under a lock).

### Groups

`GroupsProofs` proves

* `TypesHold`: `[]TypeOK`, one lemma per action.
* `OneOwnerHolds`: `[]AtMostOneOwner`. The property is not inductive: it
  speaks of committed rows, and two transfers may each hold an uncommitted owner.
  `OneOwnerInv` strengthens it with a clean store and, for every two memberships
  of a group: they are not both committed owners, their newest versions are not
  both owners, and if one is the committed owner while the newest version of the
  other is an owner's, then one transaction has locked both rows (its commit takes
  the role from the first as it gives it to the second). Every write but two makes
  nobody an owner and keeps this at once; `Create` writes rows nobody else knows,
  and `OneOwner` promotes under the guard of the partial unique index, which first
  waited for every rival (`OwnerRivals`).

`GroupTransactionsProofs` proves `TransactionsHold`: `[]TransactionInv`, the invariant
from which the other promises of the groups follow. Almost every one of them is about a
commit, and what a commit publishes was written several statements earlier, while
other requests committed in between. So the invariant says for each statement of each
method what its transaction can count on:

* `Held`: every locked row was written by the request that locks it, and which value
  it replaces with which; nothing else is ever pending.
* `Due`: the rows a request holds for certain at its statement, and the `FOR KEY SHARE`
  it has taken on its group. This is where overlaps show: a deletion that finds its
  group deleted meanwhile holds nothing (`DeleteDue`), a revocation may find its invite
  gone with the group (`RevokeDue`), and a transfer holds the row of the new owner when it
  meets the index, but may reach its commit without it (`TransferDue`).
* `Apart`: a group being created is known to nobody else, and a new invite to one
  request.
* `KnownGroup`: a committed membership, invite or link has its group committed, and a
  group held for a new reference is neither absent nor being deleted.

The hard step is `CommitRequest`: a deletion may publish the absence of a group only
if every reference to it is absent or in its own hands (from the cascade, from
`KnownGroup` and from the locks of new references), and a new reference only while the
key-share keeps its group.

`GroupPromisesProofs` draws the conclusions:

* `NothingOutlives` (`NothingOutlivesItsGroup`), `JoiningSpends` (`JoinSpendsAnInvite`),
  `SpendingAdmits` (`SpentInviteAdmits`), `RolesByTransfer` (`RolesChangeByTransfer`),
  `MarksAreKept` (`MarksStay`) and `SuccessIsTrue` (`SuccessTakesEffect`): at the
  one step that changes committed rows, `Held` says which rows a method publishes.
* `OwnerLossExplained` (`OwnerLossIsExplained`): an owner row can disappear only with
  its group, by a transfer, or by one of the methods the property lists (with
  `RolesInv`: a membership is an owner's, a member's or absent).
* `RegistryImplemented` (`ImplementsRegistry`): every behaviour of `Groups` is, under
  the mapping `Registry`, one of `GroupRegistry`. The steps that commit nothing are
  stutters; for each method a lemma shows that its commit is the registry's operation of
  that name, or a stutter where the statement met no row. The projects' own two
  steps are operations of the registry as they stand.
* `InviteBurstIsBounded` (`InviteBurstBound`): the bound is not inductive, since the
  requests past the check will all be counted later; `BurstInv` counts them with the
  attempts recorded.
* `NoErrorAlone`, `InviteAdmitsOneAlone`, `LinksStayAlone`: what holds only when nothing
  overlaps, with the hypothesis of the run `groups_serial`, `Serial`: one request
  slot, and no project deleted from outside between its statements. `SerialInv` adds to
  `TransactionInv` that what a lone request has checked stays so until it ends (`Sure`).
  The hypothesis cannot be dropped: with two requests in the instance of that run TLC
  reaches a 500 and a link that is overwritten, and `groups_double_accept` an invite
  that admits two.

### Sessions

`AuthSessionsProofs` proves

* `TypesHold`: `[]TypeOK`. `TypeInv` adds to the types what the operation
  and the next statement of a request say of its fields (`Fits`): a refresh that is
  about to revoke has a token, a login that is about to insert one has generated it.
* `AncestorsHold` (`AncestorsAreSpent`) and `AccessHolds` (`AccessHasSession`), from one
  invariant, `SessionInv`. Neither is
  inductive: both are about committed rows, while the successor comes to be, and
  its ancestor is revoked, in a transaction that is still open. `Lineage` says of
  the newest version of every token that each ancestor is revoked in its committed
  version too, or is locked by the same transaction as the token, so that both are
  published or undone together. `KnowsItsRows` is what a request may rely on at its
  next statement: the token it generated is in no row (`FreshIsNew`), then its own
  (`FreshIsMine`); the token presented exists, since nobody deletes tokens
  (`PresentedIsKnown`, `Kept`), and then is revoked under its own lock
  (`PresentedIsSpent`); and an answer that sets cookies follows its commit
  (`AnsweredIsCommitted`). That a step leaves alone what the other requests know is
  one condition, `Respects`, which every action meets because generated tokens
  differ (`Apart`) and a write waits for the holder of its row.
* `SessionsHandedOn` (`SessionIsHandedOn`) and `RegisteredOnce` (`OneRegistration`), with
  `HoldingInv` beside `SessionInv`: which rows a request holds, the converse of what it
  knows. A commit publishes all the rows its transaction holds, so both need to know
  that it holds no others.
* `LoginBurstIsBounded` (`LoginBurstBound`): `LoginInv` counts the logins that are past the
  check and not decided with the failures, as `BurstInv` does for invites.
* `LogoutIsFinalAlone` (`LogoutIsFinal`), with the hypothesis of one request slot
  (`Serial`). `LogoutInv` adds to the two invariants that every token logged
  out is committed as revoked, and that the token a refresh has presented is still live
  until its commit, so that no logout is among its ancestors when it becomes one. That
  last fact is what an overlapping logout takes away: `auth_logout_race` is the
  counterexample with two slots.

### Projects, tasks and files

`TaskFilesProofs` proves

* `TypesHold`: `[]TypeOK`, with the statements each operation reaches (`Fits`).
* `ParentsHold` (`NothingOutlivesItsParent`), from `RefInv`. For every reference of a row to
  its parent, `Linked`: the committed child has its parent; a parent held by a new child
  stays; a new child has yet to check its reference or holds its parent; and a
  parent being deleted has lost its children to the same transaction, or is in its
  cascade. `Transactions` says when rows are held and that a row being made is one
  request's. A step is treated by what it does to the two rows of a
  reference, so the proof is the same for projects with tasks and tasks with attachments.
* `NoCircles` (`NobodyWaitsInACircle`), from `WaitInv`, which adds to `RefInv` that a
  deletion holds no attachment until it cascades (`CascadesFirst`). Whom one waits for
  is always nearer its end (`WaitsForLater`): a cascade waits only for requests that
  have nothing left but their commit, a reference for those and for cascades (or, an
  upload, for the creation of its task, which waits for no reference), and every
  other statement for one of these. So in any set of requests the one nearest its end
  waits for no other.

Of the storage no rollback touches, and of the edits, it proves

* `MissingFilesHold` (`MissingFileWasDeleted`), `UploadsHold` (`UploadIsStored`) and
  `DeletionsHold` (`DeletionRemovesWhatItListed`), from `FileInv`: every version of a row, and
  every upload and download past its file, has its file stored or removed by a
  deletion; the files a deletion listed are gone once it goes on to the rows; and no
  deletion knows of an attachment that is being uploaded (`Untouched`), which is
  why an upload and a deletion of its task never meet on a file.
* `OrphansExplained` (`OrphansAreLate`), from `OrphanInv`: whoever has deleted the row of an
  attachment and not yet committed has only that left to do (`Takes`), so by then the
  files it listed, or is about, are gone (`FileInv`), and a file that is left is one
  it never listed.
* `EditsHold` (`EditsSurvive`), from `EditInv`: the newest version of a task has the edits
  of the committed one.

### Listings

`ListingsProofs` proves what offset pagination gives for any set of rows, any page
size and any changes between the statements. The place of a row is the number of rows
ahead of it in the order of `created_at` and id. `Order` shows that this order is
total, `SortedPlaces` that the i-th row of a sorted listing has i - 1 rows ahead of it,
and `ChangeMoves` which way a row that comes or goes can move the others.

* `TypesHold`: `[]TypeOK`, from `WalkType`.
* `RepeatsExplained` (`RepeatsAreExplained`), from `RepeatInv`: a row that was shown stays at
  a place the walk has passed (`ShownIsPassed`) until one comes in ahead of it.
* `SkipsExplained` (`SkipsAreExplained`), from `SkipInv`: a row that was there all the time and
  is not shown yet stays at a place the walk has still to reach (`KeptIsToCome`) until
  one ahead of it leaves, and it was counted (`KeptIsCounted`) unless one came in ahead of
  it after the count.
* `QuietWalksExact` (`QuietWalkIsExact`), from `QuietInv`: as long as nothing comes or goes,
  what was shown is the front of the sorted listing (`ShownIsPrefix`) and the total is
  exact.
* `ReachHolds` (`ShownWithinReach`), from `ReachInv`: during a request, what the caller may see
  now is among what he could see at some time since it began. The page of the projects
  and of the groups lists no more than that; the other three filter nothing by
  caller, but their check was passed only with every row in reach.

### Migrations

`MigrationsProofs` proves `TypesHold` (`[]TypeOK`) and, from one invariant, `SchemaInv`,

* `SchemaHolds` (`SchemaMatchesRevision`). The property is not inductive: the schema a commit
  publishes was built statement by statement while other migrations committed, and
  what those did shows only at the stamp. So the invariant says where in its scripts a
  running migration is (`Place`): creating alembic's own table with nothing of the schema
  in its hands (`Opening`); after the k-th statement of a part of a script (`At`), where the
  things it has touched are locked with their new value and the others are as
  committed, or as the part before left them (`Half`), and the revision under it is
  its own or the one it read, unless it was overtaken (`Basis`); at its end with the
  new revision and the whole of the part in hand (`Stamped`); or at its end with
  nothing to do (`Blank`). Two facts carry the steps: a script creates a thing after what it
  refers to and drops it after what refers to it (`InOrder`), so a statement that is
  not overtaken finds what it needs; and the stamp takes the row of the revision only if it is the one the
  script starts from, and from then on no other migration can commit more than
  alembic's own table (`WholeInHand`, `KeepsBase`).
* `ServesMigrated` (`ServesOnlyMigrated`): the committed revision can change between the
  migration of a container and its server only by a commit that overtakes it.
* `FailuresExplained` (`FailuresAreExplained`): while a migration is not overtaken
  (`FindsItsRevision`), the schema its statement meets is the one its script expects, and
  the statement can fail only on the type that the first downgrade leaves (`Leftover`) or
  in a deadlock.

### What is only model-checked

The liveness properties (`EveryRequestEnds`, `EveryMigrationEnds` and the fairness
under them: liveness and ENABLED are out of this prover's reach), and the four
violations, which are counterexamples. Every invariant and every action property that a
passing run checks is the statement of a theorem. No module with a theorem reaches a
RECURSIVE operator; none of the models needs one.

## Not modelled

Passwords and signatures are library cryptography: that generated tokens are fresh
and that a signature cannot be made is assumed. That a caller loses access to a
project between the check of the router and his own write is allowed by the code
and not followed. Validation by pydantic happens before any state is read; the
services' own validation (422) is in `TaskFiles`. The connection pool and its
limit, several worker processes with their own limiters, CORS, the images and the
workflow of the deployment are left out, and so is alembic's offline mode, which
only prints SQL.

## Plan

Done: `RowStore`, `Groups`, `AuthSessions`, `TaskFiles`, `Listings`, `Migrations`, the
refinement of `GroupRegistry`, and a proof of every safety property that a passing run
checks.

What could follow: the second query of the task listing, which completes a page with
the attachments of its tasks; and, should the service ever run several workers, limiters
of their own for each.
