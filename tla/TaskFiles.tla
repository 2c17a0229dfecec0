----------------------------- MODULE TaskFiles ------------------------------
(***************************************************************************)
(* Projects, their tasks, the attachments of a task and the files these    *)
(* name in the object storage: ProjectService, TaskService and             *)
(* AttachmentService with their repositories, the statements their routers *)
(* make before them, and the storage backends.                             *)
(*                                                                         *)
(* Requests run statement by statement as in Groups.  A call of the        *)
(* storage blocks the event loop: nothing of this process runs beside it,  *)
(* so the files one request removes go in one step.  The storage knows no  *)
(* transaction, and what it did stays done when the request fails.         *)
(***************************************************************************)
EXTENDS Naturals, FiniteSets, RowStore

CONSTANTS Projects, Tasks, Attachments,
          TaskProject,    \* Task.project_id
          AttachmentTask, \* Attachment.task_id
          None            \* no project, task or attachment

ASSUME TaskFilesAssumption ==
  /\ TaskProject \in [Tasks -> Projects]
  /\ AttachmentTask \in [Attachments -> Tasks]
  /\ None \notin Projects \union Tasks \union Attachments

VARIABLES req,            \* the request each of Reqs works on
          files,          \* the attachments whose file is in the storage
          removed         \* those whose file a deletion has removed

storage == <<files, removed>>
vars == <<db, latest, lock, share, req, files, removed>>

-----------------------------------------------------------------------------
(* The rows of the three tables, and their values.  Of a task the model    *)
(* keeps which of two fields were edited since it was created.             *)

Project(p) == <<"project", p>>
Task(t) == <<"task", t>>
Attachment(a) == <<"attachment", a>>

Rows == {Project(p) : p \in Projects} \union {Task(t) : t \in Tasks}
          \union {Attachment(a) : a \in Attachments}

Live == "live"
Fields == {"title", "status"}
Payloads == Fields \union {"nothing", "null"}   \* what an update may send
Edits == {"as created", "title", "status", "title and status"}
Values == {Absent, Live} \union Edits

Edited(v, f) == v \in {f, "title and status"}

(* Mutant: the fields that were not sent are reset.                        *)
EditAll(v, f) == f

(* An UPDATE names the fields the client sent and leaves the others alone. *)
Edit(v, f) == IF v \in {"as created", f} THEN f ELSE "title and status"

(* The attachments of a task that a statement sees.                        *)
AttachmentsOf(t) ==
  {a \in Attachments : AttachmentTask[a] = t /\ db[Attachment(a)] # Absent}

-----------------------------------------------------------------------------
(* Requests.  on is the project, task or attachment a request is about,    *)
(* listed the attachments it read.                                         *)

Statements == {"update project", "count tasks", "delete project",
               "insert task", "reference", "select task", "update task",
               "list attachments", "remove files", "delete task", "cascade",
               "save file", "insert attachment", "select attachment",
               "remove file", "delete attachment", "fetch file", "commit"}

Success == 200
Redirect == 307
ServerError == 500
StorageFailed == 502
Statuses == {Success, Redirect, 404, 409, 413, 422, ServerError, StorageFailed}

OnOf(o) == CASE o \in {"create_project", "rename_project", "delete_project"} -> Projects
             [] o \in {"create_task", "update_task", "delete_task"} -> Tasks
             [] o \in {"upload", "delete_attachment", "download"} -> Attachments

Ops == {"create_project", "rename_project", "delete_project", "create_task",
        "update_task", "delete_task", "upload", "delete_attachment", "download"}

Call(o, x, next) ==
  [op |-> o, on |-> x, field |-> "title", listed |-> {}, pc |-> next, status |-> 0]

Idle == Call("none", None, "idle")

Answers == [op : Ops, on : Projects \union Tasks \union Attachments, field : {"title"},
            listed : {{}}, pc : {"done"}, status : Statuses]

Calls == [op : Ops, on : Projects \union Tasks \union Attachments, field : Payloads,
          listed : SUBSET Attachments, pc : Statements, status : {0}]

Requests == {Idle} \union {c \in Calls \union Answers : c.on \in OnOf(c.op)}

Goto(r, next) == req' = [req EXCEPT ![r].pc = next]

(* Mutant: an answer still carries what its request had listed.            *)
AnswerKeeps(c, s) == [op |-> c.op, on |-> c.on, field |-> "title", listed |-> c.listed,
                      pc |-> "done", status |-> s]

Answer(c, s) == [op |-> c.op, on |-> c.on, field |-> "title", listed |-> {},
                 pc |-> "done", status |-> s]

Reply(r, s) == req' = [req EXCEPT ![r] = Answer(@, s)]

(* An exception no handler expects: the session closes without a commit.   *)
Fail(r) == Rollback(r) /\ Reply(r, ServerError)

AtStatement(r, s) == req[r].pc = s

(* The project a request is nested under, and its task.                    *)
TaskOf(r) == IF req[r].on \in Tasks THEN req[r].on ELSE AttachmentTask[req[r].on]

(* The row a new row refers to.                                            *)
Referred(r) ==
  IF req[r].op = "create_task" THEN Project(TaskProject[req[r].on])
  ELSE Task(AttachmentTask[req[r].on])

(* What the storage does, when it does it: a file that is not there is     *)
(* removed without an error.                                               *)
Saved(a) == files' = files \union {a} /\ removed' = removed \ {a}
Removed(A) == files' = files \ A /\ removed' = removed \union A

(* Whom a request waits for before its next statement.  The cascade waits  *)
(* for who deletes an attachment it sees; an INSERT that is not committed  *)
(* it neither sees nor awaits.                                             *)
Blockers(r) ==
  LET x == req[r].on
  IN CASE req[r].pc = "update project"    -> Writers(r, Project(x))
       [] req[r].pc = "delete project"    -> Holders(r, Project(x))
       [] req[r].pc = "update task"       -> IF req[r].field = "nothing" THEN {}
                                             ELSE Writers(r, Task(x))
       [] req[r].pc = "delete task"       -> Holders(r, Task(x))
       [] req[r].pc = "cascade"           ->
             UNION {Writers(r, Attachment(a)) : a \in AttachmentsOf(x)}
       [] req[r].pc = "delete attachment" -> Writers(r, Attachment(x))
       [] req[r].pc = "reference"         -> Deleters(r, Referred(r))
       [] OTHER                           -> {}

Ready(r, s) == AtStatement(r, s) /\ Blockers(r) = {}

(* Mutant: a file takes the name of one that a deletion may still remove.  *)
NameReused(row, x) ==
  /\ db[row] = Absent /\ lock[row] = NoReq
  /\ \A r \in Reqs : req[r].on = x => req[r].op \in {"delete_task", "delete_attachment"}

(* A new id is one nothing refers to, and names a file nobody has written. *)
Unused(row, x) ==
  /\ db[row] = Absent /\ lock[row] = NoReq
  /\ x \notin files
  /\ \A r \in Reqs : req[r].on # x /\ x \notin req[r].listed

(* The first statement of every request under a project: the caller can    *)
(* see the project (if it is there, the caller may still have no part in   *)
(* it), or gets 404.                                                       *)
Enter(r, o, x, p, next) ==
  /\ req[r].pc = "idle"
  /\ \/ db[Project(p)] # Absent /\ req' = [req EXCEPT ![r] = Call(o, x, next)]
     \/ req' = [req EXCEPT ![r] = Answer(Call(o, x, "done"), 404)]
  /\ UNCHANGED <<store, storage>>

-----------------------------------------------------------------------------
(* Projects.                                                               *)

CreateProject(r, p) ==
  /\ req[r].pc = "idle"
  /\ Unused(Project(p), p)
  /\ Write(r, Project(p), Live)
  /\ req' = [req EXCEPT ![r] = Call("create_project", p, "commit")]
  /\ UNCHANGED <<share, storage>>

BeginRenameProject(r, p) == Enter(r, "rename_project", p, p, "update project")

(* The UPDATE, and the SELECT after it that expects the project.           *)
UpdateProject(r) ==
  LET row == Project(req[r].on) IN
  /\ Ready(r, "update project")
  /\ \/ Found(r, row) = Absent /\ Fail(r)
     \/ Found(r, row) # Absent /\ Write(r, row, Live) /\ Goto(r, "commit") /\ UNCHANGED share
  /\ UNCHANGED storage

BeginDeleteProject(r, p) == Enter(r, "delete_project", p, p, "count tasks")

TasksIn(p) == {t \in Tasks : TaskProject[t] = p /\ db[Task(t)] # Absent}

CountTasks(r) ==
  /\ AtStatement(r, "count tasks")
  /\ \/ TasksIn(req[r].on) # {} /\ Reply(r, 409)
     \/ TasksIn(req[r].on) = {} /\ Goto(r, "delete project")
  /\ UNCHANGED <<store, storage>>

(* Mutant: the count of the tasks is all that protects them.               *)
DeleteUncounted(r) ==
  /\ Ready(r, "delete project")
  /\ Update(r, Project(req[r].on), Absent) /\ Goto(r, "commit") /\ UNCHANGED <<share, storage>>

(* The foreign key of a task that came since keeps the project.            *)
DeleteProject(r) ==
  /\ Ready(r, "delete project")
  /\ \/ TasksIn(req[r].on) # {} /\ Fail(r)
     \/ /\ TasksIn(req[r].on) = {}
        /\ Update(r, Project(req[r].on), Absent)
        /\ Goto(r, "commit")
        /\ UNCHANGED share
  /\ UNCHANGED storage

-----------------------------------------------------------------------------
(* Tasks.                                                                  *)

BeginCreateTask(r, t) ==
  Unused(Task(t), t) /\ Enter(r, "create_task", t, TaskProject[t], "insert task")

(* A blank title or a long tag is refused before the INSERT.               *)
InsertTask(r) ==
  /\ AtStatement(r, "insert task")
  /\ \/ Reply(r, 422) /\ UNCHANGED <<db, latest, lock>>
     \/ Write(r, Task(req[r].on), "as created") /\ Goto(r, "reference")
  /\ UNCHANGED <<share, storage>>

(* The foreign key of a row just inserted.                                 *)
CheckReference(r) ==
  /\ Ready(r, "reference")
  /\ \/ Found(r, Referred(r)) = Absent /\ Fail(r)
     \/ /\ Found(r, Referred(r)) # Absent
        /\ KeyShare(r, Referred(r)) /\ UNCHANGED <<db, latest, lock>>
        /\ Goto(r, "commit")
  /\ UNCHANGED storage

BeginUpdateTask(r, t, f) ==
  /\ req[r].pc = "idle"
  /\ \/ /\ db[Project(TaskProject[t])] # Absent
        /\ req' = [req EXCEPT ![r] = [op |-> "update_task", on |-> t, field |-> f,
                                      listed |-> {}, pc |-> "select task", status |-> 0]]
     \/ req' = [req EXCEPT ![r] = Answer(Call("update_task", t, "done"), 404)]
  /\ UNCHANGED <<store, storage>>

BeginDeleteTask(r, t) == Enter(r, "delete_task", t, TaskProject[t], "select task")

(* What follows once the task is found in its project.                     *)
AfterTask(o) == CASE o = "update_task" -> "update task"
                  [] o = "delete_task" -> "list attachments"
                  [] o = "upload"      -> "save file"
                  [] OTHER             -> "select attachment"

SelectTask(r) ==
  LET here == db[Task(TaskOf(r))] # Absent IN
  /\ AtStatement(r, "select task")
  /\ \/ ~here /\ Reply(r, 404)
     \/ here /\ Goto(r, AfterTask(req[r].op))
     \/ here /\ req[r].op = "update_task" /\ Reply(r, 422)
  /\ UNCHANGED <<store, storage>>

(* The UPDATE, if there is anything to update, and the SELECT after it     *)
(* that expects the task.  A null where the column allows none is an error *)
(* of the database.                                                        *)
UpdateTask(r) ==
  LET row == Task(req[r].on) IN
  /\ Ready(r, "update task")
  /\ \/ (Found(r, row) = Absent \/ req[r].field = "null") /\ Fail(r)
     \/ /\ db[row] # Absent /\ req[r].field = "nothing"
        /\ Goto(r, "commit")
        /\ UNCHANGED store
     \/ /\ Found(r, row) # Absent /\ req[r].field \in Fields
        /\ Write(r, row, Edit(Found(r, row), req[r].field))
        /\ Goto(r, "commit")
        /\ UNCHANGED share
  /\ UNCHANGED storage

ListAttachments(r) ==
  /\ AtStatement(r, "list attachments")
  /\ req' = [req EXCEPT ![r] = [op |-> "delete_task", on |-> @.on, field |-> @.field,
                                listed |-> AttachmentsOf(@.on), pc |-> "remove files",
                                status |-> 0]]
  /\ UNCHANGED <<store, storage>>

(* Mutant: a file that cannot be removed is skipped.                       *)
SkipFailures(r) ==
  /\ AtStatement(r, "remove files")
  /\ \E gone \in SUBSET req[r].listed : Removed(gone)
  /\ Goto(r, "delete task")
  /\ UNCHANGED store

(* The files go one by one, in no particular order, until one fails.       *)
RemoveFiles(r) ==
  /\ AtStatement(r, "remove files")
  /\ \/ Removed(req[r].listed) /\ Goto(r, "delete task")
     \/ \E gone \in SUBSET req[r].listed :
          /\ req[r].listed # {}
          /\ Removed(gone)
          /\ Reply(r, StorageFailed)
  /\ UNCHANGED store

DeleteTask(r) ==
  /\ Ready(r, "delete task")
  /\ Update(r, Task(req[r].on), Absent)
  /\ Goto(r, IF db[Task(req[r].on)] = Absent THEN "commit" ELSE "cascade")
  /\ UNCHANGED <<share, storage>>

(* ON DELETE CASCADE takes the attachments there are now.                  *)
Cascade(r) ==
  /\ Ready(r, "cascade")
  /\ WriteAll(r, {Attachment(a) : a \in AttachmentsOf(req[r].on)}, [x \in Rows |-> Absent])
  /\ Goto(r, "commit")
  /\ UNCHANGED <<share, storage>>

-----------------------------------------------------------------------------
(* Attachments.                                                            *)

BeginUpload(r, a) ==
  /\ Unused(Attachment(a), a)
  /\ Enter(r, "upload", a, TaskProject[AttachmentTask[a]], "select task")

(* Mutant: an upload goes on although its file was not stored.             *)
SaveAnyhow(r) ==
  /\ AtStatement(r, "save file")
  /\ Saved(req[r].on) \/ UNCHANGED storage
  /\ Goto(r, "insert attachment")
  /\ UNCHANGED store

(* The file is too large, or is stored, or the storage fails -- and may    *)
(* have stored all the same.                                               *)
SaveFile(r) ==
  /\ AtStatement(r, "save file")
  /\ \/ Reply(r, 413) /\ UNCHANGED storage
     \/ Goto(r, "insert attachment") /\ Saved(req[r].on)
     \/ Reply(r, StorageFailed) /\ (UNCHANGED storage \/ Saved(req[r].on))
  /\ UNCHANGED store

(* A file name or a content type too long for its column is an error of    *)
(* the database.                                                           *)
InsertAttachment(r) ==
  /\ AtStatement(r, "insert attachment")
  /\ \/ Fail(r)
     \/ /\ Write(r, Attachment(req[r].on), Live)
        /\ Goto(r, "reference")
        /\ UNCHANGED share
  /\ UNCHANGED storage

BeginDeleteAttachment(r, a) ==
  Enter(r, "delete_attachment", a, TaskProject[AttachmentTask[a]], "select task")

SelectAttachment(r) ==
  LET here == db[Attachment(req[r].on)] # Absent IN
  /\ AtStatement(r, "select attachment")
  /\ \/ ~here /\ Reply(r, 404)
     \/ here /\ Goto(r, IF req[r].op = "download" THEN "fetch file" ELSE "remove file")
  /\ UNCHANGED <<store, storage>>

(* Mutant: the row goes although the storage failed.                       *)
RemoveFileAnyhow(r) ==
  /\ AtStatement(r, "remove file")
  /\ UNCHANGED storage \/ Removed({req[r].on})
  /\ Goto(r, "delete attachment")
  /\ UNCHANGED store

(* No file to remove is no error.                                          *)
RemoveFile(r) ==
  /\ AtStatement(r, "remove file")
  /\ \/ Goto(r, "delete attachment") /\ Removed({req[r].on})
     \/ Reply(r, StorageFailed) /\ (UNCHANGED storage \/ Removed({req[r].on}))
  /\ UNCHANGED store

(* Mutant: the task is locked after the row of its attachment.             *)
LockTaskLast(r) ==
  /\ Ready(r, "delete attachment")
  /\ Update(r, Attachment(req[r].on), Absent)
  /\ Goto(r, "reference")
  /\ UNCHANGED <<share, storage>>

DeleteAttachment(r) ==
  /\ Ready(r, "delete attachment")
  /\ Update(r, Attachment(req[r].on), Absent)
  /\ Goto(r, "commit")
  /\ UNCHANGED <<share, storage>>

BeginDownload(r, a) ==
  Enter(r, "download", a, TaskProject[AttachmentTask[a]], "select task")

(* The local backend reads the file, S3 signs a URL without looking for it.*)
(* No handler expects their errors.                                        *)
FetchFile(r) ==
  /\ AtStatement(r, "fetch file")
  /\ \/ req[r].on \in files /\ Reply(r, Success) /\ UNCHANGED store
     \/ Reply(r, Redirect) /\ UNCHANGED store
     \/ Fail(r)
  /\ UNCHANGED storage

-----------------------------------------------------------------------------

CommitRequest(r) ==
  /\ AtStatement(r, "commit")
  /\ Commit(r)
  /\ Reply(r, Success)
  /\ UNCHANGED storage

Respond(r) ==
  /\ req[r].pc = "done"
  /\ req' = [req EXCEPT ![r] = Idle]
  /\ UNCHANGED <<store, storage>>

(* The server stops and starts again, also while it removes files.         *)
Restart ==
  /\ RollbackAll
  /\ req' = [r \in Reqs |-> Idle]
  /\ \/ UNCHANGED storage
     \/ \E r \in Reqs : /\ AtStatement(r, "remove files")
                        /\ \E gone \in SUBSET req[r].listed : Removed(gone)
     \/ \E r \in Reqs : AtStatement(r, "remove file") /\ Removed({req[r].on})
     \/ \E r \in Reqs : AtStatement(r, "save file") /\ Saved(req[r].on)

-----------------------------------------------------------------------------

Init ==
  /\ db = [x \in Rows |-> Absent]
  /\ latest = db
  /\ lock = [x \in Rows |-> NoReq]
  /\ share = [x \in Rows |-> {}]
  /\ req = [r \in Reqs |-> Idle]
  /\ files = {} /\ removed = {}

Arrive(r) ==
  \/ \E p \in Projects : \/ CreateProject(r, p)
                         \/ BeginRenameProject(r, p)
                         \/ BeginDeleteProject(r, p)
  \/ \E t \in Tasks : \/ BeginCreateTask(r, t)
                      \/ \E f \in Payloads : BeginUpdateTask(r, t, f)
                      \/ BeginDeleteTask(r, t)
  \/ \E a \in Attachments : \/ BeginUpload(r, a)
                            \/ BeginDeleteAttachment(r, a)
                            \/ BeginDownload(r, a)

Proceed(r) ==
  \/ UpdateProject(r) \/ CountTasks(r) \/ DeleteProject(r)
  \/ InsertTask(r) \/ CheckReference(r) \/ SelectTask(r) \/ UpdateTask(r)
  \/ ListAttachments(r) \/ RemoveFiles(r) \/ DeleteTask(r) \/ Cascade(r)
  \/ SaveFile(r) \/ InsertAttachment(r)
  \/ SelectAttachment(r) \/ RemoveFile(r) \/ DeleteAttachment(r) \/ FetchFile(r)
  \/ CommitRequest(r) \/ Respond(r)

Next == \/ \E r \in Reqs : Arrive(r) \/ Proceed(r)
        \/ Restart

Spec == Init /\ [][Next]_vars

-----------------------------------------------------------------------------
(* Properties.                                                             *)

(* Every variable stays in its type: rows, requests and files.             *)
TypeOK ==
  /\ StoreType(Rows, Values)
  /\ req \in [Reqs -> Requests]
  /\ files \subseteq Attachments /\ removed \subseteq Attachments

Committing(r) == req[r].pc = "commit" /\ req'[r].status = Success

(* No task without its project and no attachment without its task, when a  *)
(* deletion overlaps the creation of what would be left behind.            *)
NothingOutlivesItsParent ==
  /\ \A t \in Tasks : db[Task(t)] # Absent => db[Project(TaskProject[t])] # Absent
  /\ \A a \in Attachments : db[Attachment(a)] # Absent => db[Task(AttachmentTask[a])] # Absent

(* However requests wait for each other, one of them can go on: deletions  *)
(* of a task and of its attachments, and uploads beside them, do not lock  *)
(* each other up, so the database has none of them to give up.             *)
NobodyWaitsInACircle ==
  \A S \in SUBSET Reqs : S # {} => \E r \in S : Blockers(r) \intersect S = {}

(* An upload that is answered with a success has its file in the storage,  *)
(* whatever deletions of the task overlap it.                              *)
UploadIsStored ==
  [][\A r \in Reqs : Committing(r) /\ req[r].op = "upload" => req[r].on \in files]_vars

(* A deletion that is answered with a success leaves no file of what it    *)
(* listed, and of an attachment neither file nor row: a file that cannot   *)
(* be removed fails the request before a row is touched.                   *)
DeletionRemovesWhatItListed ==
  [][\A r \in Reqs : Committing(r) =>
       /\ req[r].listed \intersect files = {}
       /\ req[r].op = "delete_attachment" =>
            req[r].on \notin files /\ db'[Attachment(req[r].on)] = Absent]_vars

(* A row, and a download that has read one, may miss its file only because *)
(* a deletion has removed it: one under way, one that failed or was cut    *)
(* off by a restart before its commit, or one committed since.             *)
MissingFileWasDeleted ==
  /\ \A a \in Attachments : db[Attachment(a)] # Absent => a \in files \union removed
  /\ \A r \in Reqs : AtStatement(r, "fetch file") => req[r].on \in files \union removed

(* Updates of different fields that overlap do not undo each other.        *)
EditsSurvive ==
  [][\A t \in Tasks, f \in Fields :
       Edited(db[Task(t)], f) /\ db'[Task(t)] # Absent => Edited(db'[Task(t)], f)]_vars

(* The one way to leave a file behind without its row: the attachment came *)
(* after the deletion of its task had listed the attachments.              *)
OrphansAreLate ==
  [][\A a \in Attachments :
       db[Attachment(a)] # Absent /\ db'[Attachment(a)] = Absent /\ a \in files =>
         \E r \in Reqs : /\ Committing(r) /\ req[r].op = "delete_task"
                         /\ req[r].on = AttachmentTask[a] /\ a \notin req[r].listed]_vars

(* "Nothing is deleted from the database while its files are still         *)
(* orphaned in storage."                                                   *)
NoFileIsOrphaned ==
  [][\A a \in Attachments :
       db[Attachment(a)] # Absent /\ db'[Attachment(a)] = Absent => a \notin files]_vars
=============================================================================
