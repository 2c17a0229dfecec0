-------------------------- MODULE TaskFilesProofs --------------------------
(***************************************************************************)
(* What holds of the projects, the tasks, the attachments and their files  *)
(* for any number of overlapping requests, projects, tasks and attachments.*)
(***************************************************************************)
EXTENDS TaskFiles, RowStoreProofs

(* The rows of the three tables are rows of the store, and no two names    *)
(* name one row.                                                           *)
LEMMA RowNames ==
  /\ \A p \in Projects : Project(p) \in Rows
  /\ \A t \in Tasks : Task(t) \in Rows
  /\ \A a \in Attachments : Attachment(a) \in Rows
  /\ \A x, y : /\ Project(x) = Project(y) => x = y
               /\ Task(x) = Task(y) => x = y
               /\ Attachment(x) = Attachment(y) => x = y
               /\ Project(x) # Task(y) /\ Project(x) # Attachment(y) /\ Task(x) # Attachment(y)
BY DEF Rows, Project, Task, Attachment

(* The values the statements write are values of the rows.                 *)
LEMMA ValueTypes ==
  /\ Absent \in Values /\ Live \in Values /\ "as created" \in Values
  /\ Live # Absent /\ "as created" # Absent
  /\ \A v, f \in Fields : Edit(v, f) \in Values /\ Edit(v, f) # Absent
BY DEF Values, Absent, Live, Edits, Fields, Edit

-----------------------------------------------------------------------------
(* Requests.                                                               *)

(* The operations that reach a statement, and who has listed attachments.  *)
Reaches(o, s) ==
  /\ s = "update project" => o = "rename_project"
  /\ s \in {"count tasks", "delete project"} => o = "delete_project"
  /\ s = "insert task" => o = "create_task"
  /\ s = "update task" => o = "update_task"
  /\ s \in {"list attachments", "remove files", "delete task", "cascade"} => o = "delete_task"
  /\ s \in {"save file", "insert attachment"} => o = "upload"
  /\ s = "reference" => o \in {"create_task", "upload"}
  /\ s \in {"remove file", "delete attachment"} => o = "delete_attachment"
  /\ s = "fetch file" => o = "download"
  /\ s = "select attachment" => o \in {"delete_attachment", "download"}
  /\ s = "select task" =>
       o \in {"update_task", "delete_task", "upload", "delete_attachment", "download"}

Fits(c) == Reaches(c.op, c.pc) /\ (c.op # "delete_task" => c.listed = {})

TypeInv == TypeOK /\ \A r \in Reqs : Fits(req[r])

(* A slot without a request is well typed, and fits.                       *)
LEMMA IdleType ==
  /\ Idle \in Requests /\ Fits(Idle)
  /\ Idle.pc = "idle" /\ Idle.op = "none" /\ Idle.listed = {}
BY DEF Requests, Idle, Call, Fits, Reaches

(* A request that is about to run a statement is a call.                   *)
LEMMA CallAtStatement ==
  ASSUME TypeOK, NEW r \in Reqs, req[r].pc \notin {"idle", "done"}
  PROVE  req[r] \in Calls /\ req[r].on \in OnOf(req[r].op)
<1>1. req[r] \in Requests
  BY DEF TypeOK
<1>2. \A c \in Answers : c.pc = "done"
  BY DEF Answers
<1> QED
  BY <1>1, <1>2, IdleType DEF Requests

(* What its statement is about.                                            *)
LEMMA CallIsAbout ==
  ASSUME TypeInv, NEW r \in Reqs, req[r].pc \notin {"idle", "done"}
  PROVE  /\ req[r].op \in {"create_project", "rename_project", "delete_project"} =>
              req[r].on \in Projects
         /\ req[r].op \in {"create_task", "update_task", "delete_task"} => req[r].on \in Tasks
         /\ req[r].op \in {"upload", "delete_attachment", "download"} => req[r].on \in Attachments
BY CallAtStatement DEF TypeInv, OnOf

(* A new call is well typed.                                               *)
LEMMA CallType ==
  ASSUME NEW o \in Ops, NEW x \in OnOf(o), NEW next \in Statements
  PROVE  Call(o, x, next) \in Requests
<1>1. x \in Projects \union Tasks \union Attachments
  BY DEF Ops, OnOf
<1> QED
  BY <1>1 DEF Call, Requests, Calls, Payloads, Fields

(* An answer is well typed.                                                *)
LEMMA AnswerType ==
  ASSUME NEW c, c.op \in Ops, c.on \in OnOf(c.op), NEW s \in Statuses
  PROVE  Answer(c, s) \in Requests /\ Fits(Answer(c, s))
<1>1. c.on \in Projects \union Tasks \union Attachments
  BY DEF Ops, OnOf
<1>2. Answer(c, s) \in Answers
  BY <1>1 DEF Answer, Answers
<1> QED
  BY <1>2 DEF Answer, Requests, Fits, Reaches

(* A step to the next statement changes nothing else of the request.       *)
LEMMA GotoMoves ==
  ASSUME TypeOK, NEW r \in Reqs, req[r].pc \notin {"idle", "done"},
         NEW next \in Statements, Goto(r, next)
  PROVE  /\ req' \in [Reqs -> Requests]
         /\ req'[r].op = req[r].op /\ req'[r].on = req[r].on /\ req'[r].listed = req[r].listed
         /\ req'[r].pc = next
         /\ \A q \in Reqs \ {r} : req'[q] = req[q]
<1>1. req[r] \in Calls /\ req[r].on \in OnOf(req[r].op)
  BY CallAtStatement
<1>2. [req[r] EXCEPT !.pc = next] \in Requests
  BY <1>1 DEF Calls, Requests
<1> QED
  BY <1>1, <1>2 DEF TypeOK, Goto, Calls

(* An answer keeps the operation and what it was about.                    *)
LEMMA ReplyMoves ==
  ASSUME TypeOK, NEW r \in Reqs, req[r].pc \notin {"idle", "done"}, NEW s \in Statuses, Reply(r, s)
  PROVE  /\ req' \in [Reqs -> Requests]
         /\ req'[r].op = req[r].op /\ req'[r].on = req[r].on /\ req'[r].listed = {}
         /\ req'[r].pc = "done" /\ req'[r].status = s
         /\ \A q \in Reqs \ {r} : req'[q] = req[q]
<1>1. req[r].op \in Ops /\ req[r].on \in OnOf(req[r].op)
  BY CallAtStatement DEF Calls
<1>2. Answer(req[r], s) \in Requests
  BY <1>1, AnswerType
<1> QED
  BY <1>2 DEF TypeOK, Reply, Answer

(* The statuses and the statements the actions name.                       *)
LEMMA Names ==
  /\ {Success, Redirect, 404, 409, 413, 422, ServerError, StorageFailed} \subseteq Statuses
  /\ {"update project", "count tasks", "delete project", "insert task", "reference",
      "select task", "update task", "list attachments", "remove files", "delete task",
      "cascade", "save file", "insert attachment", "select attachment", "remove file",
      "delete attachment", "fetch file", "commit"} \subseteq Statements
  /\ \A s \in Statements : s \notin {"idle", "done"}
BY DEF Statuses, Statements

-----------------------------------------------------------------------------
(* The type invariant.                                                     *)

(* A step of one request keeps the types when its own request, the rows    *)
(* and the storage keep theirs.                                            *)
LEMMA StepType ==
  ASSUME TypeInv, NEW r \in Reqs, req' \in [Reqs -> Requests], Fits(req'[r]),
         \A q \in Reqs \ {r} : req'[q] = req[q],
         StoreType(Rows, Values)', files' \subseteq Attachments, removed' \subseteq Attachments
  PROVE  TypeInv'
BY DEF TypeInv, TypeOK

(* So does a statement that moves on to the next one of its operation ...  *)
LEMMA GotoType ==
  ASSUME TypeInv, NEW r \in Reqs, req[r].pc \notin {"idle", "done"}, NEW next \in Statements,
         Goto(r, next), Reaches(req[r].op, next),
         StoreType(Rows, Values)', files' \subseteq Attachments, removed' \subseteq Attachments
  PROVE  TypeInv'
<1>1. req' \in [Reqs -> Requests] /\ \A q \in Reqs \ {r} : req'[q] = req[q]
  BY GotoMoves DEF TypeInv
<1>2. Fits(req'[r])
  BY GotoMoves DEF TypeInv, Fits
<1> QED
  BY <1>1, <1>2, StepType

(* ... and one that answers.                                               *)
LEMMA ReplyType ==
  ASSUME TypeInv, NEW r \in Reqs, req[r].pc \notin {"idle", "done"}, NEW s \in Statuses,
         Reply(r, s),
         StoreType(Rows, Values)', files' \subseteq Attachments, removed' \subseteq Attachments
  PROVE  TypeInv'
<1>1. req' \in [Reqs -> Requests] /\ \A q \in Reqs \ {r} : req'[q] = req[q]
  BY ReplyMoves DEF TypeInv
<1>2. Fits(req'[r])
  BY DEF TypeInv, TypeOK, Reply, Answer, Fits, Reaches
<1> QED
  BY <1>1, <1>2, StepType

(* A request that fails gives back what it wrote.                          *)
LEMMA FailType ==
  ASSUME TypeInv, NEW r \in Reqs, req[r].pc \notin {"idle", "done"}, Fail(r), UNCHANGED storage
  PROVE  TypeInv'
<1>1. StoreType(Rows, Values)'
  BY RollbackType DEF Fail, TypeInv, TypeOK
<1>2. files' \subseteq Attachments /\ removed' \subseteq Attachments
  BY DEF TypeInv, TypeOK, storage
<1> QED
  BY <1>1, <1>2, ReplyType, Names DEF Fail

(* A request that starts, refused or not.                                  *)
LEMMA EnterType ==
  ASSUME TypeInv, NEW r \in Reqs, NEW o \in Ops, NEW x \in OnOf(o), NEW p,
         NEW next \in Statements, Fits(Call(o, x, next)), Enter(r, o, x, p, next)
  PROVE  TypeInv'
<1>1. StoreType(Rows, Values)'
  BY StoreUnchanged DEF Enter, TypeInv, TypeOK
<1>2. files' \subseteq Attachments /\ removed' \subseteq Attachments
  BY DEF Enter, TypeInv, TypeOK, storage
<1>3. Call(o, x, next) \in Requests
  BY CallType
<1>4. Answer(Call(o, x, "done"), 404) \in Requests /\ Fits(Answer(Call(o, x, "done"), 404))
  <2>1. Call(o, x, "done").op = o /\ Call(o, x, "done").on = x /\ 404 \in Statuses
    BY Names DEF Call
  <2> QED
    BY <2>1, AnswerType
<1>5. \/ req' = [req EXCEPT ![r] = Call(o, x, next)]
      \/ req' = [req EXCEPT ![r] = Answer(Call(o, x, "done"), 404)]
  BY DEF Enter
<1>6. /\ req' \in [Reqs -> Requests] /\ Fits(req'[r])
      /\ \A q \in Reqs \ {r} : req'[q] = req[q]
  BY <1>3, <1>4, <1>5 DEF TypeInv, TypeOK
<1> QED
  BY <1>1, <1>2, <1>6, StepType

(* The ways a request starts.                                              *)
LEMMA ArriveType ==
  ASSUME TypeInv, NEW r \in Reqs, Arrive(r)
  PROVE  TypeInv'
<1>1. ASSUME NEW p \in Projects, CreateProject(r, p) PROVE TypeInv'
  <2>1. Call("create_project", p, "commit") \in Requests
    BY CallType, Names DEF Ops, OnOf
  <2>2. Fits(Call("create_project", p, "commit"))
    BY DEF Fits, Reaches, Call
  <2>3. /\ req' \in [Reqs -> Requests] /\ Fits(req'[r])
        /\ \A q \in Reqs \ {r} : req'[q] = req[q]
    BY <1>1, <2>1, <2>2 DEF CreateProject, TypeInv, TypeOK
  <2>4. StoreType(Rows, Values)'
    BY <1>1, WriteType, ValueTypes DEF CreateProject, TypeInv, TypeOK
  <2>5. files' \subseteq Attachments /\ removed' \subseteq Attachments
    BY <1>1 DEF CreateProject, storage, TypeInv, TypeOK
  <2> QED
    BY <2>3, <2>4, <2>5, StepType
<1>2. ASSUME NEW p \in Projects, BeginRenameProject(r, p) \/ BeginDeleteProject(r, p)
      PROVE  TypeInv'
  <2>1. /\ Fits(Call("rename_project", p, "update project"))
        /\ Fits(Call("delete_project", p, "count tasks"))
    BY DEF Fits, Reaches, Call
  <2>2. /\ {"rename_project", "delete_project"} \subseteq Ops
        /\ p \in OnOf("rename_project") /\ p \in OnOf("delete_project")
        /\ {"update project", "count tasks"} \subseteq Statements
    BY Names DEF Ops, OnOf
  <2>3. CASE BeginRenameProject(r, p)
    BY <2>1, <2>2, <2>3, EnterType DEF BeginRenameProject
  <2>4. CASE BeginDeleteProject(r, p)
    BY <2>1, <2>2, <2>4, EnterType DEF BeginDeleteProject
  <2> QED
    BY <1>2, <2>3, <2>4
<1>3. ASSUME NEW t \in Tasks, BeginCreateTask(r, t) \/ BeginDeleteTask(r, t)
      PROVE  TypeInv'
  <2>1. /\ Fits(Call("create_task", t, "insert task"))
        /\ Fits(Call("delete_task", t, "select task"))
    BY DEF Fits, Reaches, Call
  <2>2. /\ {"create_task", "delete_task"} \subseteq Ops
        /\ t \in OnOf("create_task") /\ t \in OnOf("delete_task")
        /\ {"insert task", "select task"} \subseteq Statements
    BY Names DEF Ops, OnOf
  <2>3. CASE BeginCreateTask(r, t)
    BY <2>1, <2>2, <2>3, EnterType DEF BeginCreateTask
  <2>4. CASE BeginDeleteTask(r, t)
    BY <2>1, <2>2, <2>4, EnterType DEF BeginDeleteTask
  <2> QED
    BY <1>3, <2>3, <2>4
<1>4. ASSUME NEW t \in Tasks, NEW f \in Payloads, BeginUpdateTask(r, t, f)
      PROVE  TypeInv'
  <2> DEFINE c == [op |-> "update_task", on |-> t, field |-> f, listed |-> {},
                   pc |-> "select task", status |-> 0]
             refused == Answer(Call("update_task", t, "done"), 404)
  <2>1. c \in Requests /\ Fits(c)
    BY Names DEF Requests, Calls, OnOf, Ops, Fits, Reaches
  <2>2. "update_task" \in Ops /\ t \in OnOf("update_task") /\ 404 \in Statuses
    BY Names DEF Ops, OnOf
  <2>3. refused \in Requests /\ Fits(refused)
    <3>1. Call("update_task", t, "done").op = "update_task" /\ Call("update_task", t, "done").on = t
      BY DEF Call
    <3> QED
      BY <2>2, <3>1, AnswerType
  <2>4. /\ req' \in [Reqs -> Requests] /\ Fits(req'[r])
        /\ \A q \in Reqs \ {r} : req'[q] = req[q]
    <3>1. req' = [req EXCEPT ![r] = c] \/ req' = [req EXCEPT ![r] = refused]
      BY <1>4 DEF BeginUpdateTask
    <3> HIDE DEF c, refused
    <3> QED
      BY <2>1, <2>3, <3>1 DEF TypeInv, TypeOK
  <2>5. StoreType(Rows, Values)'
    BY <1>4, StoreUnchanged DEF BeginUpdateTask, TypeInv, TypeOK
  <2>6. files' \subseteq Attachments /\ removed' \subseteq Attachments
    BY <1>4 DEF BeginUpdateTask, storage, TypeInv, TypeOK
  <2> QED
    BY <2>4, <2>5, <2>6, StepType
<1>5. ASSUME NEW a \in Attachments, NEW o \in {"upload", "delete_attachment", "download"},
             Enter(r, o, a, TaskProject[AttachmentTask[a]], "select task")
      PROVE  TypeInv'
  <2>1. Fits(Call(o, a, "select task"))
    BY DEF Fits, Reaches, Call
  <2>2. o \in Ops /\ a \in OnOf(o) /\ "select task" \in Statements
    BY Names DEF Ops, OnOf
  <2> QED
    BY <1>5, <2>1, <2>2, EnterType
<1> QED
  BY <1>1, <1>2, <1>3, <1>4, <1>5 DEF Arrive, BeginUpload, BeginDeleteAttachment, BeginDownload

(* A statement that leaves the rows and the storage alone.                 *)
LEMMA QuietType ==
  ASSUME TypeInv, UNCHANGED <<store, storage>>
  PROVE  StoreType(Rows, Values)' /\ files' \subseteq Attachments /\ removed' \subseteq Attachments
BY StoreUnchanged DEF TypeInv, TypeOK, storage

(* The statements about projects.                                          *)
LEMMA ProjectStepType ==
  ASSUME TypeInv, NEW r \in Reqs, UpdateProject(r) \/ CountTasks(r) \/ DeleteProject(r)
  PROVE  TypeInv'
<1>1. CASE UpdateProject(r)
  <2>1. req[r].pc = "update project" /\ req[r].op = "rename_project"
    BY <1>1 DEF UpdateProject, Ready, AtStatement, TypeInv, Fits, Reaches
  <2>2. CASE Fail(r) /\ UNCHANGED storage
    BY <2>1, <2>2, FailType
  <2>3. CASE /\ Write(r, Project(req[r].on), Live) /\ Goto(r, "commit")
             /\ UNCHANGED share /\ UNCHANGED storage
    <3>1. StoreType(Rows, Values)'
      BY <2>3, WriteType, ValueTypes DEF TypeInv, TypeOK
    <3>2. files' \subseteq Attachments /\ removed' \subseteq Attachments
      BY <2>3 DEF TypeInv, TypeOK, storage
    <3>3. Reaches(req[r].op, "commit")
      BY DEF Reaches
    <3> QED
      BY <2>1, <2>3, <3>1, <3>2, <3>3, GotoType, Names
  <2> QED
    BY <1>1, <2>2, <2>3 DEF UpdateProject
<1>2. CASE CountTasks(r)
  <2>1. req[r].pc = "count tasks" /\ req[r].op = "delete_project"
    BY <1>2 DEF CountTasks, AtStatement, TypeInv, Fits, Reaches
  <2>2. StoreType(Rows, Values)' /\ files' \subseteq Attachments /\ removed' \subseteq Attachments
    BY <1>2, QuietType DEF CountTasks
  <2>3. Reaches(req[r].op, "delete project")
    BY <2>1 DEF Reaches
  <2>4. Reply(r, 409) \/ Goto(r, "delete project")
    BY <1>2 DEF CountTasks
  <2> QED
    BY <2>1, <2>2, <2>3, <2>4, GotoType, ReplyType, Names
<1>3. CASE DeleteProject(r)
  <2>1. req[r].pc = "delete project" /\ req[r].op = "delete_project"
    BY <1>3 DEF DeleteProject, Ready, AtStatement, TypeInv, Fits, Reaches
  <2>2. CASE Fail(r) /\ UNCHANGED storage
    BY <2>1, <2>2, FailType
  <2>3. CASE /\ Update(r, Project(req[r].on), Absent) /\ Goto(r, "commit")
             /\ UNCHANGED share /\ UNCHANGED storage
    <3>1. StoreType(Rows, Values)'
      BY <2>3, UpdateType, ValueTypes DEF TypeInv, TypeOK
    <3>2. files' \subseteq Attachments /\ removed' \subseteq Attachments
      BY <2>3 DEF TypeInv, TypeOK, storage
    <3>3. Reaches(req[r].op, "commit")
      BY DEF Reaches
    <3> QED
      BY <2>1, <2>3, <3>1, <3>2, <3>3, GotoType, Names
  <2> QED
    BY <1>3, <2>2, <2>3 DEF DeleteProject
<1> QED
  BY <1>1, <1>2, <1>3

(* The statements that insert a row and check what it refers to.           *)
LEMMA InsertStepType ==
  ASSUME TypeInv, NEW r \in Reqs, InsertTask(r) \/ InsertAttachment(r) \/ CheckReference(r)
  PROVE  TypeInv'
<1>1. CASE InsertTask(r)
  <2>1. req[r].pc = "insert task" /\ req[r].op = "create_task"
    BY <1>1 DEF InsertTask, AtStatement, TypeInv, Fits, Reaches
  <2>2. files' \subseteq Attachments /\ removed' \subseteq Attachments
    BY <1>1 DEF InsertTask, TypeInv, TypeOK, storage
  <2>3. CASE Reply(r, 422) /\ UNCHANGED <<db, latest, lock>> /\ UNCHANGED share
    <3>1. StoreType(Rows, Values)'
      BY <2>3, StoreUnchanged DEF TypeInv, TypeOK, store
    <3> QED
      BY <2>1, <2>2, <2>3, <3>1, ReplyType, Names
  <2>4. CASE Write(r, Task(req[r].on), "as created") /\ Goto(r, "reference") /\ UNCHANGED share
    <3>1. StoreType(Rows, Values)'
      BY <2>4, WriteType, ValueTypes DEF TypeInv, TypeOK
    <3>2. Reaches(req[r].op, "reference")
      BY <2>1 DEF Reaches
    <3> QED
      BY <2>1, <2>2, <2>4, <3>1, <3>2, GotoType, Names
  <2> QED
    BY <1>1, <2>3, <2>4 DEF InsertTask
<1>2. CASE InsertAttachment(r)
  <2>1. req[r].pc = "insert attachment" /\ req[r].op = "upload"
    BY <1>2 DEF InsertAttachment, AtStatement, TypeInv, Fits, Reaches
  <2>2. files' \subseteq Attachments /\ removed' \subseteq Attachments
    BY <1>2 DEF InsertAttachment, TypeInv, TypeOK, storage
  <2>3. CASE Fail(r) /\ UNCHANGED storage
    BY <2>1, <2>3, FailType, Names
  <2>4. CASE /\ Write(r, Attachment(req[r].on), Live) /\ Goto(r, "reference")
             /\ UNCHANGED share
    <3>1. StoreType(Rows, Values)'
      BY <2>4, WriteType, ValueTypes DEF TypeInv, TypeOK
    <3>2. Reaches(req[r].op, "reference")
      BY <2>1 DEF Reaches
    <3> QED
      BY <2>1, <2>2, <2>4, <3>1, <3>2, GotoType, Names
  <2> QED
    BY <1>2, <2>3, <2>4 DEF InsertAttachment
<1>3. CASE CheckReference(r)
  <2>1. req[r].pc = "reference"
    BY <1>3 DEF CheckReference, Ready, AtStatement
  <2>2. CASE Fail(r) /\ UNCHANGED storage
    BY <2>1, <2>2, FailType
  <2>3. CASE /\ KeyShare(r, Referred(r)) /\ UNCHANGED <<db, latest, lock>>
             /\ Goto(r, "commit") /\ UNCHANGED storage
    <3>1. StoreType(Rows, Values)'
      BY <2>3, KeyShareType DEF TypeInv, TypeOK
    <3>2. files' \subseteq Attachments /\ removed' \subseteq Attachments
      BY <2>3 DEF TypeInv, TypeOK, storage
    <3>3. Reaches(req[r].op, "commit")
      BY DEF Reaches
    <3> QED
      BY <2>1, <2>3, <3>1, <3>2, <3>3, GotoType, Names
  <2> QED
    BY <1>3, <2>2, <2>3 DEF CheckReference
<1> QED
  BY <1>1, <1>2, <1>3

(* The statements that only read rows, or nothing but the storage.         *)
LEMMA ReadStepType ==
  ASSUME TypeInv, NEW r \in Reqs, SelectTask(r) \/ SelectAttachment(r) \/ ListAttachments(r)
  PROVE  TypeInv'
<1>1. StoreType(Rows, Values)' /\ files' \subseteq Attachments /\ removed' \subseteq Attachments
  BY QuietType DEF SelectTask, SelectAttachment, ListAttachments
<1>2. CASE SelectTask(r)
  <2>1. req[r].pc = "select task"
        /\ req[r].op \in {"update_task", "delete_task", "upload", "delete_attachment", "download"}
    BY <1>2 DEF SelectTask, AtStatement, TypeInv, Fits, Reaches
  <2>2. Reaches(req[r].op, AfterTask(req[r].op))
    BY <2>1 DEF Reaches, AfterTask
  <2>3. AfterTask(req[r].op) \in Statements
    BY Names DEF AfterTask
  <2>4. CASE Goto(r, AfterTask(req[r].op))
    BY <1>1, <2>1, <2>2, <2>3, <2>4, GotoType
  <2>5. CASE Reply(r, 404)
    BY <1>1, <2>1, <2>5, ReplyType, Names
  <2>6. CASE Reply(r, 422)
    BY <1>1, <2>1, <2>6, ReplyType, Names
  <2> QED
    BY <1>2, <2>4, <2>5, <2>6 DEF SelectTask
<1>3. CASE SelectAttachment(r)
  <2> DEFINE next == IF req[r].op = "download" THEN "fetch file" ELSE "remove file"
  <2>1. req[r].pc = "select attachment" /\ req[r].op \in {"delete_attachment", "download"}
    BY <1>3 DEF SelectAttachment, AtStatement, TypeInv, Fits, Reaches
  <2>2. Reaches(req[r].op, next)
    BY <2>1 DEF Reaches
  <2>3. next \in Statements
    BY Names
  <2>4. Reply(r, 404) \/ Goto(r, next)
    BY <1>3 DEF SelectAttachment
  <2> HIDE DEF next
  <2> QED
    BY <1>1, <2>1, <2>2, <2>3, <2>4, GotoType, ReplyType, Names
<1>4. CASE ListAttachments(r)
  <2> DEFINE c == [op |-> "delete_task", on |-> req[r].on, field |-> req[r].field,
                   listed |-> AttachmentsOf(req[r].on), pc |-> "remove files", status |-> 0]
  <2>1. req[r].pc = "list attachments" /\ req[r].op = "delete_task"
    BY <1>4 DEF ListAttachments, AtStatement, TypeInv, Fits, Reaches
  <2>2. req[r] \in Calls /\ req[r].on \in OnOf("delete_task")
    BY <2>1, CallAtStatement DEF TypeInv
  <2>3. AttachmentsOf(req[r].on) \subseteq Attachments
    BY DEF AttachmentsOf
  <2>4. c \in Requests /\ Fits(c)
    BY <2>2, <2>3, Names DEF Requests, Calls, Ops, Fits, Reaches
  <2>5. req' = [req EXCEPT ![r] = c]
    BY <1>4 DEF ListAttachments
  <2> HIDE DEF c
  <2>6. /\ req' \in [Reqs -> Requests] /\ Fits(req'[r])
        /\ \A q \in Reqs \ {r} : req'[q] = req[q]
    BY <2>4, <2>5 DEF TypeInv, TypeOK
  <2> QED
    BY <1>1, <2>6, StepType
<1> QED
  BY <1>2, <1>3, <1>4

(* The statements that change a task or delete a row.                      *)
LEMMA ChangeStepType ==
  ASSUME TypeInv, NEW r \in Reqs,
         UpdateTask(r) \/ DeleteTask(r) \/ Cascade(r) \/ DeleteAttachment(r)
  PROVE  TypeInv'
<1>1. ASSUME NEW next \in {"commit", "cascade"}, next = "cascade" => req[r].op = "delete_task"
      PROVE  Reaches(req[r].op, next) /\ next \in Statements
  BY <1>1, Names DEF Reaches
<1>2. CASE UpdateTask(r)
  <2>1. req[r].pc = "update task" /\ req[r].op = "update_task"
    BY <1>2 DEF UpdateTask, Ready, AtStatement, TypeInv, Fits, Reaches
  <2>2. CASE Fail(r) /\ UNCHANGED storage
    BY <2>1, <2>2, FailType
  <2>3. CASE Goto(r, "commit") /\ UNCHANGED store /\ UNCHANGED storage
    BY <1>1, <2>1, <2>3, QuietType, GotoType, Names
  <2>4. CASE /\ Found(r, Task(req[r].on)) # Absent /\ req[r].field \in Fields
             /\ Write(r, Task(req[r].on), Edit(Found(r, Task(req[r].on)), req[r].field))
             /\ Goto(r, "commit") /\ UNCHANGED share /\ UNCHANGED storage
    <3>1. Edit(Found(r, Task(req[r].on)), req[r].field) \in Values
      BY <2>4 DEF Edit, Fields, Values, Edits
    <3>2. StoreType(Rows, Values)'
      BY <2>4, <3>1, WriteType DEF TypeInv, TypeOK
    <3>3. files' \subseteq Attachments /\ removed' \subseteq Attachments
      BY <2>4 DEF TypeInv, TypeOK, storage
    <3> QED
      BY <1>1, <2>1, <2>4, <3>2, <3>3, GotoType
  <2> QED
    BY <1>2, <2>2, <2>3, <2>4 DEF UpdateTask
<1>3. CASE DeleteTask(r) \/ DeleteAttachment(r)
  <2> DEFINE next == IF db[Task(req[r].on)] = Absent THEN "commit" ELSE "cascade"
  <2>1. \/ req[r].pc = "delete task" /\ req[r].op = "delete_task"
        \/ req[r].pc = "delete attachment"
    BY <1>3 DEF DeleteTask, DeleteAttachment, Ready, AtStatement, TypeInv, Fits, Reaches
  <2>2. StoreType(Rows, Values)'
    BY <1>3, UpdateType, ValueTypes DEF DeleteTask, DeleteAttachment, TypeInv, TypeOK
  <2>3. files' \subseteq Attachments /\ removed' \subseteq Attachments
    BY <1>3 DEF DeleteTask, DeleteAttachment, TypeInv, TypeOK, storage
  <2>4. \/ req[r].op = "delete_task" /\ Goto(r, next)
        \/ Goto(r, "commit")
    BY <1>3, <2>1 DEF DeleteTask, DeleteAttachment, Ready, AtStatement
  <2>5. next \in {"commit", "cascade"}
    OBVIOUS
  <2> HIDE DEF next
  <2> QED
    BY <1>1, <2>1, <2>2, <2>3, <2>4, <2>5, GotoType
<1>4. CASE Cascade(r)
  <2>1. req[r].pc = "cascade"
    BY <1>4 DEF Cascade, Ready, AtStatement
  <2> DEFINE X == {Attachment(a) : a \in AttachmentsOf(req[r].on)}
             f == [x \in Rows |-> Absent]
  <2>2. \A x \in X : f[x] \in Values
    BY RowNames, ValueTypes DEF AttachmentsOf
  <2>3. WriteAll(r, X, f) /\ share' = share /\ Goto(r, "commit") /\ UNCHANGED storage
    BY <1>4 DEF Cascade
  <2> HIDE DEF X, f
  <2>4. StoreType(Rows, Values)'
    BY <2>2, <2>3, WriteAllType DEF TypeInv, TypeOK
  <2>5. files' \subseteq Attachments /\ removed' \subseteq Attachments
    BY <2>3 DEF TypeInv, TypeOK, storage
  <2> QED
    BY <1>1, <2>1, <2>3, <2>4, <2>5, GotoType
<1> QED
  BY <1>2, <1>3, <1>4

(* The statements that call the storage.                                   *)
LEMMA StorageStepType ==
  ASSUME TypeInv, NEW r \in Reqs,
         RemoveFiles(r) \/ SaveFile(r) \/ RemoveFile(r) \/ FetchFile(r)
  PROVE  TypeInv'
<1>1. ASSUME NEW A, Removed(A), A \subseteq Attachments
      PROVE  files' \subseteq Attachments /\ removed' \subseteq Attachments
  BY <1>1 DEF Removed, TypeInv, TypeOK
<1>2. ASSUME NEW a \in Attachments, Saved(a)
      PROVE  files' \subseteq Attachments /\ removed' \subseteq Attachments
  BY <1>2 DEF Saved, TypeInv, TypeOK
<1>3. ASSUME UNCHANGED storage
      PROVE  files' \subseteq Attachments /\ removed' \subseteq Attachments
  BY <1>3 DEF storage, TypeInv, TypeOK
<1>4. UNCHANGED store => StoreType(Rows, Values)'
  BY StoreUnchanged DEF TypeInv, TypeOK
<1>5. CASE RemoveFiles(r)
  <2>1. req[r].pc = "remove files" /\ req[r].op = "delete_task"
    BY <1>5 DEF RemoveFiles, AtStatement, TypeInv, Fits, Reaches
  <2>2. req[r].listed \subseteq Attachments
    BY <2>1, CallAtStatement DEF TypeInv, Calls
  <2>3. Reaches(req[r].op, "delete task")
    BY <2>1 DEF Reaches
  <2>4. files' \subseteq Attachments /\ removed' \subseteq Attachments
    BY <1>1, <1>5, <2>2 DEF RemoveFiles
  <2>5. UNCHANGED store /\ (Goto(r, "delete task") \/ Reply(r, StorageFailed))
    BY <1>5 DEF RemoveFiles
  <2> QED
    BY <1>4, <2>1, <2>3, <2>4, <2>5, GotoType, ReplyType, Names
<1>6. CASE SaveFile(r)
  <2>1. req[r].pc = "save file" /\ req[r].op = "upload"
    BY <1>6 DEF SaveFile, AtStatement, TypeInv, Fits, Reaches
  <2>2. req[r].on \in Attachments
    BY <2>1, CallIsAbout
  <2>3. Reaches(req[r].op, "insert attachment")
    BY <2>1 DEF Reaches
  <2>4. files' \subseteq Attachments /\ removed' \subseteq Attachments
    BY <1>2, <1>3, <1>6, <2>2 DEF SaveFile
  <2>5. /\ UNCHANGED store
        /\ Goto(r, "insert attachment") \/ Reply(r, 413) \/ Reply(r, StorageFailed)
    BY <1>6 DEF SaveFile
  <2> QED
    BY <1>4, <2>1, <2>3, <2>4, <2>5, GotoType, ReplyType, Names
<1>7. CASE RemoveFile(r)
  <2>1. req[r].pc = "remove file" /\ req[r].op = "delete_attachment"
    BY <1>7 DEF RemoveFile, AtStatement, TypeInv, Fits, Reaches
  <2>2. {req[r].on} \subseteq Attachments
    BY <2>1, CallIsAbout
  <2>3. Reaches(req[r].op, "delete attachment")
    BY <2>1 DEF Reaches
  <2>4. files' \subseteq Attachments /\ removed' \subseteq Attachments
    BY <1>1, <1>3, <1>7, <2>2 DEF RemoveFile
  <2>5. UNCHANGED store /\ (Goto(r, "delete attachment") \/ Reply(r, StorageFailed))
    BY <1>7 DEF RemoveFile
  <2> QED
    BY <1>4, <2>1, <2>3, <2>4, <2>5, GotoType, ReplyType, Names
<1>8. CASE FetchFile(r)
  <2>1. req[r].pc = "fetch file" /\ UNCHANGED storage
    BY <1>8 DEF FetchFile, AtStatement
  <2>2. CASE Fail(r)
    BY <2>1, <2>2, FailType
  <2>3. CASE UNCHANGED store /\ (Reply(r, Success) \/ Reply(r, Redirect))
    BY <1>3, <1>4, <2>1, <2>3, ReplyType, Names
  <2> QED
    BY <1>8, <2>2, <2>3 DEF FetchFile
<1> QED
  BY <1>5, <1>6, <1>7, <1>8

(* The end of a request, and of the server.                                *)
LEMMA EndStepType ==
  ASSUME TypeInv, (\E r \in Reqs : CommitRequest(r) \/ Respond(r)) \/ Restart
  PROVE  TypeInv'
<1>1. ASSUME NEW r \in Reqs, CommitRequest(r) PROVE TypeInv'
  <2>1. req[r].pc = "commit" /\ Commit(r) /\ Reply(r, Success) /\ UNCHANGED storage
    BY <1>1 DEF CommitRequest, AtStatement
  <2>2. StoreType(Rows, Values)'
    BY <2>1, CommitType DEF TypeInv, TypeOK
  <2>3. files' \subseteq Attachments /\ removed' \subseteq Attachments
    BY <2>1 DEF TypeInv, TypeOK, storage
  <2> QED
    BY <2>1, <2>2, <2>3, ReplyType, Names
<1>2. ASSUME NEW r \in Reqs, Respond(r) PROVE TypeInv'
  <2>1. StoreType(Rows, Values)' /\ files' \subseteq Attachments /\ removed' \subseteq Attachments
    BY <1>2, QuietType DEF Respond
  <2>2. /\ req' \in [Reqs -> Requests] /\ Fits(req'[r])
        /\ \A q \in Reqs \ {r} : req'[q] = req[q]
    BY <1>2, IdleType DEF Respond, TypeInv, TypeOK
  <2> QED
    BY <2>1, <2>2, StepType
<1>3. CASE Restart
  <2>1. StoreType(Rows, Values)'
    BY <1>3, RollbackAllType DEF Restart, TypeInv, TypeOK
  <2>2. req' \in [Reqs -> Requests] /\ \A r \in Reqs : Fits(req'[r])
    BY <1>3, IdleType DEF Restart
  <2>3. files' \subseteq Attachments /\ removed' \subseteq Attachments
    <3>1. CASE UNCHANGED storage
      BY <3>1 DEF TypeInv, TypeOK, storage
    <3>2. ASSUME NEW r \in Reqs, AtStatement(r, "remove files"),
                 NEW gone \in SUBSET req[r].listed, Removed(gone)
          PROVE  files' \subseteq Attachments /\ removed' \subseteq Attachments
      <4>1. req[r].listed \subseteq Attachments
        BY <3>2, CallAtStatement DEF TypeInv, Calls, AtStatement
      <4> QED
        BY <3>2, <4>1 DEF Removed, TypeInv, TypeOK
    <3>3. ASSUME NEW r \in Reqs, \/ AtStatement(r, "remove file") /\ Removed({req[r].on})
                                 \/ AtStatement(r, "save file") /\ Saved(req[r].on)
          PROVE  files' \subseteq Attachments /\ removed' \subseteq Attachments
      <4>1. req[r].on \in Attachments
        BY <3>3, CallIsAbout DEF TypeInv, Fits, Reaches, AtStatement
      <4> QED
        BY <3>3, <4>1 DEF Removed, Saved, TypeInv, TypeOK
    <3> QED
      BY <1>3, <3>1, <3>2, <3>3 DEF Restart
  <2> QED
    BY <2>1, <2>2, <2>3 DEF TypeInv, TypeOK
<1> QED
  BY <1>1, <1>2, <1>3

(* Nothing has been stored yet.                                            *)
LEMMA TypeInit == Init => TypeInv
<1>1. ASSUME Init PROVE TypeInv
  <2>1. StoreType(Rows, Values)
    BY <1>1, ValueTypes DEF Init, StoreType
  <2> QED
    BY <1>1, <2>1, IdleType DEF Init, TypeInv, TypeOK
<1> QED
  BY <1>1

(* Every step keeps the types.                                             *)
LEMMA TypeStep == TypeInv /\ [Next]_vars => TypeInv'
<1>1. ASSUME TypeInv, Next PROVE TypeInv'
  BY <1>1, ArriveType, ProjectStepType, InsertStepType, ReadStepType, ChangeStepType,
     StorageStepType, EndStepType DEF Next, Proceed
<1>2. ASSUME TypeInv, UNCHANGED vars PROVE TypeInv'
  BY <1>2 DEF TypeInv, TypeOK, StoreType, vars
<1> QED
  BY <1>1, <1>2

(* Every reachable state is well typed, and the request at a statement is  *)
(* one of the operations that run it.                                      *)
THEOREM TypesHold == Spec => []TypeOK
<1>1. TypeInv => TypeOK
  BY DEF TypeInv
<1> QED
  BY <1>1, TypeInit, TypeStep, PTL DEF Spec
-----------------------------------------------------------------------------
(* References.                                                             *)


(* The statements of a transaction that may hold rows, and the requests    *)
(* that make a row another one will refer to nothing but through them.     *)
Late == {"reference", "cascade", "commit"}
Creating(c) == c.op \in {"create_task", "upload"} /\ c.pc # "done"
NewRow(c) == IF c.op = "create_task" THEN Task(c.on) ELSE Attachment(c.on)

(* What a request holds, and when: before it checks its reference nothing  *)
(* but the row it has inserted.                                            *)
HoldsLate(r) ==
  \A x \in Rows : /\ lock[x] = r => req[r].pc \in Late
                  /\ lock[x] = r /\ req[r].pc = "reference" => x = NewRow(req[r])
                  /\ r \in share[x] => req[r].pc = "commit"

(* The row a request makes is nobody else's, and not committed before it.  *)
NewIsMine(r) ==
  Creating(req[r]) => /\ db[NewRow(req[r])] = Absent
                      /\ lock[NewRow(req[r])] = IF req[r].pc \in Late THEN r ELSE NoReq

Apart(q, r) ==
  Creating(req[q]) /\ Creating(req[r]) /\ q # r => NewRow(req[q]) # NewRow(req[r])

(* Row c refers to row p.                                                  *)
IsRef(c, p) ==
  \/ \E t \in Tasks : c = Task(t) /\ p = Project(TaskProject[t])
  \/ \E a \in Attachments : c = Attachment(a) /\ p = Task(AttachmentTask[a])

(* A committed row has its parent; a parent held by a new child is there   *)
(* and stays; the new child of an open transaction has yet to check its    *)
(* reference or holds its parent; and a parent that is being deleted has   *)
(* lost its children to the same transaction, or is about to.              *)
ChildHasParent(c, p) == db[c] # Absent => db[p] # Absent
SharedStays(p) == share[p] # {} => db[p] # Absent /\ latest[p] # Absent
NewChildHoldsParent(c, p) ==
  lock[c] # NoReq /\ db[c] = Absent /\ latest[c] # Absent =>
    req[lock[c]].pc = "reference" \/ lock[c] \in share[p]
DeletionTakesChild(c, p) ==
  latest[p] = Absent /\ db[p] # Absent /\ db[c] # Absent =>
    \/ latest[c] = Absent /\ lock[c] = lock[p]
    \/ req[lock[p]].pc = "cascade" /\ p = Task(req[lock[p]].on)

Linked(c, p) == /\ ChildHasParent(c, p) /\ SharedStays(p)
                /\ NewChildHoldsParent(c, p) /\ DeletionTakesChild(c, p)

(* What is known of all transactions, and of all references.               *)
Links == \A c, p \in Rows : IsRef(c, p) => Linked(c, p)
Transactions == \A r \in Reqs : HoldsLate(r) /\ NewIsMine(r) /\ \A q \in Reqs : Apart(q, r)

RefInv == TypeInv /\ Clean /\ Transactions /\ Links

(* A reference is between two rows, from one table to another.             *)
LEMMA RefRows ==
  ASSUME NEW c, NEW p, IsRef(c, p)
  PROVE  c \in Rows /\ p \in Rows /\ c # p
BY RowNames, TaskFilesAssumption DEF IsRef

(* Nobody waits for a row that is free, or held by the request itself.     *)
LEMMA WritersOf ==
  ASSUME NEW r, NEW x, Writers(r, x) = {}
  PROVE  lock[x] \in {r, NoReq}
BY DEF Writers

-----------------------------------------------------------------------------
(* A step of r that writes the rows X, none of them held by another.       *)
Writes(r, X) ==
  /\ db' = db /\ share' = share
  /\ \A x \in Rows \ X : latest'[x] = latest[x] /\ lock'[x] = lock[x]
  /\ \A x \in X : lock[x] \in {r, NoReq} /\ lock'[x] = r

(* What is known of every request's rows survives such a step, when r      *)
(* leaves the rows others make alone and its own knowledge fits.           *)
LEMMA WriteKeepsHolders ==
  ASSUME TypeInv, TypeInv', Transactions, NEW r \in Reqs, NEW X \in SUBSET Rows, Writes(r, X),
         \A q \in Reqs \ {r} : req'[q] = req[q],
         req[r].pc \notin {"reference", "commit"},
         req[r].pc = "cascade" \/ X # {} => req'[r].pc \in Late,
         req'[r].pc = "reference" => req[r].pc # "cascade" /\ X = {NewRow(req'[r])},
         \A q \in Reqs \ {r} : Creating(req[q]) => NewRow(req[q]) \notin X,
         NewIsMine(r)',
         Creating(req'[r]) =>
           \/ Creating(req[r]) /\ NewRow(req'[r]) = NewRow(req[r])
           \/ \A q \in Reqs \ {r} : Creating(req[q]) => NewRow(req[q]) # NewRow(req'[r])
  PROVE  Transactions'
<1>1. HoldsLate(r)'
  <2> SUFFICES ASSUME NEW x \in Rows
               PROVE  /\ lock'[x] = r => req'[r].pc \in Late
                      /\ lock'[x] = r /\ req'[r].pc = "reference" => x = NewRow(req'[r])
                      /\ r \in share'[x] => req'[r].pc = "commit"
    BY DEF HoldsLate, NewRow
  <2>1. CASE x \in X
    BY <2>1 DEF Transactions, HoldsLate, Writes
  <2>2. CASE x \notin X
    <3>1. lock'[x] = lock[x] /\ share'[x] = share[x]
      BY <2>2 DEF Writes
    <3>2. lock[x] = r => req[r].pc = "cascade"
      BY DEF Transactions, HoldsLate, Late
    <3>3. r \notin share[x]
      BY DEF Transactions, HoldsLate, Late
    <3> QED
      BY <3>1, <3>2, <3>3
  <2> QED
    BY <2>1, <2>2
<1>2. ASSUME NEW q \in Reqs \ {r} PROVE HoldsLate(q)' /\ NewIsMine(q)'
  <2>1. HoldsLate(q) /\ NewIsMine(q) /\ req'[q] = req[q]
    BY DEF Transactions
  <2>2. \A x \in Rows : lock'[x] = q => lock[x] = q
    BY DEF Writes
  <2>3. HoldsLate(q)'
    BY <2>1, <2>2 DEF HoldsLate, NewRow, Writes
  <2>4. NewIsMine(q)'
    <3> SUFFICES ASSUME Creating(req[q])
                 PROVE  /\ db'[NewRow(req[q])] = Absent
                        /\ lock'[NewRow(req[q])] = IF req[q].pc \in Late THEN q ELSE NoReq
      BY <2>1 DEF NewIsMine, Creating, NewRow
    <3>1. NewRow(req[q]) \notin X
      OBVIOUS
    <3>2. NewRow(req[q]) \in Rows
      <4>1. req[q].pc \notin {"idle", "done"}
        BY IdleType DEF Creating, TypeInv, TypeOK, Requests, Calls, Answers, Statements
      <4> QED
        BY <4>1, CallIsAbout, RowNames DEF Creating, NewRow
    <3>3. lock'[NewRow(req[q])] = lock[NewRow(req[q])] /\ db' = db
      BY <3>1, <3>2 DEF Writes
    <3> QED
      BY <2>1, <3>3 DEF NewIsMine
  <2> QED
    BY <2>3, <2>4
<1>3. ASSUME NEW q \in Reqs, NEW s \in Reqs PROVE Apart(q, s)'
  <2>1. CASE q # r /\ s # r
    BY <2>1 DEF Transactions, Apart, Creating, NewRow
  <2>2. CASE q = s
    BY <2>2 DEF Apart
  <2>3. ASSUME NEW u \in Reqs \ {r}, Creating(req'[r]), Creating(req[u])
        PROVE  NewRow(req'[r]) # NewRow(req[u])
    <3>1. CASE Creating(req[r]) /\ NewRow(req'[r]) = NewRow(req[r])
      BY <2>3, <3>1 DEF Transactions, Apart
    <3>2. CASE \A o \in Reqs \ {r} : Creating(req[o]) => NewRow(req[o]) # NewRow(req'[r])
      BY <2>3, <3>2
    <3> QED
      BY <2>3, <3>1, <3>2
  <2>4. CASE q = r /\ s # r
    <3>1. req'[s] = req[s]
      BY <2>4
    <3> QED
      BY <2>3, <2>4, <3>1 DEF Apart, Creating, NewRow
  <2>5. CASE s = r /\ q # r
    <3>1. req'[q] = req[q]
      BY <2>5
    <3> QED
      BY <2>3, <2>5, <3>1 DEF Apart, Creating, NewRow
  <2> QED
    BY <2>1, <2>2, <2>4, <2>5
<1> QED
  BY <1>1, <1>2, <1>3 DEF Transactions

(* What such a step may do to a parent, and what to a child.               *)
ParentSafe(r, c, p, X) ==
  p \in X => \/ latest'[p] # Absent
             \/ /\ share[p] = {}
                /\ db[c] # Absent => req'[r].pc = "cascade" /\ p = Task(req'[r].on)

ChildSafe(r, c, p, X) ==
  /\ c \in X => \/ db[c] = Absent /\ req'[r].pc = "reference"
                \/ latest[c] # Absent /\ latest'[c] # Absent
                \/ latest'[c] = Absent
  /\ req[r].pc = "cascade" /\ p = Task(req[r].on) /\ db[c] # Absent =>
       c \in X /\ latest'[c] = Absent

(* A step that is safe for both keeps a child linked to its parent.        *)
LEMMA WriteKeepsLinked ==
  ASSUME Clean, NEW c \in Rows, NEW p \in Rows, Linked(c, p), c # p,
         DOMAIN lock = Rows,
         NEW r \in Reqs, NEW X \in SUBSET Rows, Writes(r, X),
         \A q \in Reqs \ {r} : req'[q] = req[q], lock \in [Rows -> Reqs \union {NoReq}],
         req[r].pc \notin {"reference", "commit"},
         ParentSafe(r, c, p, X), ChildSafe(r, c, p, X)
  PROVE  Linked(c, p)'
<1>1. db' = db /\ share' = share
  BY DEF Writes
<1>2. ChildHasParent(c, p)'
  BY <1>1 DEF Linked, ChildHasParent
<1>3. SharedStays(p)'
  <2>1. CASE p \in X
    BY <1>1, <2>1 DEF Linked, SharedStays, ParentSafe, ChildSafe, Linked, ChildHasParent
  <2>2. CASE p \notin X
    BY <1>1, <2>2 DEF Linked, SharedStays, Writes
  <2> QED
    BY <2>1, <2>2
<1>4. NewChildHoldsParent(c, p)'
  <2> SUFFICES ASSUME lock'[c] # NoReq, db[c] = Absent, latest'[c] # Absent
               PROVE  req'[lock'[c]].pc = "reference" \/ lock'[c] \in share[p]
    BY <1>1 DEF NewChildHoldsParent
  <2>1. CASE c \notin X
    <3>1. lock'[c] = lock[c] /\ latest'[c] = latest[c]
      BY <2>1 DEF Writes
    <3>2. req[lock[c]].pc = "reference" \/ lock[c] \in share[p]
      BY <3>1 DEF Linked, NewChildHoldsParent
    <3>3. lock[c] \in Reqs
      BY <3>1
    <3> QED
      BY <3>1, <3>2, <3>3
  <2>2. CASE c \in X
    <3>1. lock'[c] = r /\ lock[c] \in {r, NoReq}
      BY <2>2 DEF Writes
    <3>2. CASE req'[r].pc = "reference"
      BY <3>1, <3>2
    <3>3. CASE latest[c] # Absent
      <4>1. lock[c] = r
        BY <3>1, <3>3 DEF Clean
      <4>2. r # NoReq
        BY RowStoreAssumption
      <4> QED
        BY <3>1, <3>3, <4>1, <4>2 DEF Linked, NewChildHoldsParent
    <3> QED
      BY <2>2, <3>2, <3>3 DEF ChildSafe
  <2> QED
    BY <2>1, <2>2
<1>5. DeletionTakesChild(c, p)'
  <2> SUFFICES ASSUME latest'[p] = Absent, db[p] # Absent, db[c] # Absent
               PROVE  \/ latest'[c] = Absent /\ lock'[c] = lock'[p]
                      \/ req'[lock'[p]].pc = "cascade" /\ p = Task(req'[lock'[p]].on)
    BY <1>1 DEF DeletionTakesChild, Task
  <2>1. CASE p \in X
    BY <2>1 DEF Writes, ParentSafe
  <2>2. CASE p \notin X
    <3>1. latest'[p] = latest[p] /\ lock'[p] = lock[p]
      BY <2>2 DEF Writes
    <3>2. lock[p] # NoReq
      BY <3>1 DEF Clean
    <3>3. CASE latest[c] = Absent /\ lock[c] = lock[p]
      <4>1. CASE c \in X
        <5>1. lock[c] = r /\ lock'[c] = r
          BY <3>2, <3>3, <4>1 DEF Writes
        <5>2. latest'[c] = Absent
          BY <3>3, <4>1 DEF ChildSafe
        <5> QED
          BY <3>1, <3>3, <5>1, <5>2
      <4>2. CASE c \notin X
        BY <3>1, <3>3, <4>2 DEF Writes
      <4> QED
        BY <4>1, <4>2
    <3>4. CASE req[lock[p]].pc = "cascade" /\ p = Task(req[lock[p]].on)
      <4>1. CASE lock[p] = r
        <5>1. c \in X /\ latest'[c] = Absent
          BY <3>4, <4>1 DEF ChildSafe
        <5> QED
          BY <3>1, <4>1, <5>1 DEF Writes
      <4>2. CASE lock[p] # r
        <5>1. req'[lock[p]] = req[lock[p]]
          BY <3>2, <4>2
        <5> QED
          BY <3>1, <3>4, <5>1
      <4> QED
        BY <4>1, <4>2
    <3> QED
      BY <3>1, <3>3, <3>4 DEF Linked, DeletionTakesChild
  <2> QED
    BY <2>1, <2>2
<1> QED
  BY <1>2, <1>3, <1>4, <1>5 DEF Linked

(* The whole invariant, after a step that writes rows.                     *)
LEMMA WriteKeepsRefs ==
  ASSUME RefInv, TypeInv', NEW r \in Reqs, NEW X \in SUBSET Rows, Writes(r, X),
         \A q \in Reqs \ {r} : req'[q] = req[q],
         req[r].pc \notin {"reference", "commit"},
         req[r].pc = "cascade" \/ X # {} => req'[r].pc \in Late,
         req'[r].pc = "reference" => req[r].pc # "cascade" /\ X = {NewRow(req'[r])},
         \A q \in Reqs \ {r} : Creating(req[q]) => NewRow(req[q]) \notin X,
         NewIsMine(r)',
         Creating(req'[r]) =>
           \/ Creating(req[r]) /\ NewRow(req'[r]) = NewRow(req[r])
           \/ \A q \in Reqs \ {r} : Creating(req[q]) => NewRow(req[q]) # NewRow(req'[r]),
         \A c, p \in Rows : IsRef(c, p) => ParentSafe(r, c, p, X) /\ ChildSafe(r, c, p, X)
  PROVE  RefInv'
<1>1. Transactions'
  BY WriteKeepsHolders DEF RefInv
<1>2. DOMAIN lock = Rows /\ lock \in [Rows -> Reqs \union {NoReq}] /\ DOMAIN lock' = Rows
  BY DEF RefInv, TypeInv, TypeOK, StoreType
<1>3. Clean'
  BY <1>2, RowStoreAssumption DEF RefInv, Clean, Writes
<1>4. Links'
  <2> SUFFICES ASSUME NEW c \in Rows, NEW p \in Rows, IsRef(c, p) PROVE Linked(c, p)'
    BY DEF Links, IsRef
  <2>1. Linked(c, p) /\ c # p
    BY RefRows DEF RefInv, Links
  <2> QED
    BY <1>2, <2>1, WriteKeepsLinked DEF RefInv
<1> QED
  BY <1>1, <1>3, <1>4 DEF RefInv

(* A step that writes no row.                                              *)
LEMMA QuietKeepsRefs ==
  ASSUME RefInv, TypeInv', NEW r \in Reqs, UNCHANGED store,
         \A q \in Reqs \ {r} : req'[q] = req[q],
         req[r].pc \notin Late,
         Creating(req'[r]) =>
           /\ req'[r].pc \notin Late
           /\ \/ Creating(req[r]) /\ NewRow(req'[r]) = NewRow(req[r])
              \/ /\ db[NewRow(req'[r])] = Absent /\ lock[NewRow(req'[r])] = NoReq
                 /\ \A q \in Reqs \ {r} : Creating(req[q]) => NewRow(req[q]) # NewRow(req'[r])
  PROVE  RefInv'
<1>1. Writes(r, {})
  BY DEF Writes, store
<1>2. req[r].pc \notin {"reference", "commit", "cascade"}
  BY DEF Late
<1>3. req'[r].pc # "reference"
  <2>1. req'[r].pc = "reference" => Creating(req'[r])
    BY DEF TypeInv, Fits, Reaches, Creating
  <2> QED
    BY <2>1 DEF Late
<1>4. NewIsMine(r)'
  <2> SUFFICES ASSUME Creating(req'[r])
               PROVE  /\ db'[NewRow(req'[r])] = Absent
                      /\ lock'[NewRow(req'[r])] = IF req'[r].pc \in Late THEN r ELSE NoReq
    BY DEF NewIsMine, NewRow
  <2>1. db' = db /\ lock' = lock /\ req'[r].pc \notin Late
    BY DEF store
  <2>2. CASE Creating(req[r]) /\ NewRow(req'[r]) = NewRow(req[r])
    BY <2>1, <2>2 DEF RefInv, Transactions, NewIsMine
  <2> QED
    BY <2>1, <2>2
<1>5. \A c, p \in Rows : IsRef(c, p) => ParentSafe(r, c, p, {}) /\ ChildSafe(r, c, p, {})
  BY <1>2 DEF ParentSafe, ChildSafe
<1>6. /\ \A q \in Reqs \ {r} : Creating(req[q]) => NewRow(req[q]) \notin {}
      /\ {} \in SUBSET Rows
  OBVIOUS
<1>7. Creating(req'[r]) =>
        \/ Creating(req[r]) /\ NewRow(req'[r]) = NewRow(req[r])
        \/ \A q \in Reqs \ {r} : Creating(req[q]) => NewRow(req[q]) # NewRow(req'[r])
  OBVIOUS
<1>8. req[r].pc = "cascade" \/ {} # {} => req'[r].pc \in Late
  BY <1>2
<1>9. req'[r].pc = "reference" => req[r].pc # "cascade" /\ {} = {NewRow(req'[r])}
  BY <1>3
<1> QED
  BY <1>1, <1>2, <1>4, <1>5, <1>6, <1>7, <1>8, <1>9, WriteKeepsRefs

(* A statement that moves on, or answers, without touching a row.          *)
LEMMA MoveKeepsRefs ==
  ASSUME RefInv, TypeInv', NEW r \in Reqs, UNCHANGED store,
         req[r].pc \notin Late \union {"idle", "done"},
         \/ \E s \in Statuses : Reply(r, s)
         \/ \E next \in Statements : Goto(r, next) /\ (Creating(req[r]) => next \notin Late)
  PROVE  RefInv'
<1>1. CASE \E s \in Statuses : Reply(r, s)
  <2>1. req'[r].pc = "done" /\ \A q \in Reqs \ {r} : req'[q] = req[q]
    BY <1>1, ReplyMoves DEF RefInv, TypeInv
  <2>2. ~Creating(req'[r])
    BY <2>1 DEF Creating
  <2> QED
    BY <2>1, <2>2, QuietKeepsRefs
<1>2. ASSUME NEW next \in Statements, Goto(r, next), Creating(req[r]) => next \notin Late
      PROVE  RefInv'
  <2>1. /\ req'[r].op = req[r].op /\ req'[r].on = req[r].on /\ req'[r].pc = next
        /\ \A q \in Reqs \ {r} : req'[q] = req[q]
    BY <1>2, GotoMoves DEF RefInv, TypeInv
  <2>2. Creating(req'[r]) => Creating(req[r]) /\ NewRow(req'[r]) = NewRow(req[r])
    BY <2>1 DEF Creating, NewRow
  <2> QED
    BY <1>2, <2>1, <2>2, QuietKeepsRefs
<1> QED
  BY <1>1, <1>2

(* A request that starts: the row of a new id is free, and nobody else is  *)
(* about to insert it.                                                     *)
LEMMA UnusedIsMine ==
  ASSUME RefInv, NEW r \in Reqs, NEW o \in {"create_task", "upload"}, NEW x,
         o = "create_task" => x \in Tasks /\ Unused(Task(x), x),
         o = "upload" => x \in Attachments /\ Unused(Attachment(x), x),
         NEW c, c.op = o, c.on = x
  PROVE  /\ db[NewRow(c)] = Absent /\ lock[NewRow(c)] = NoReq
         /\ \A q \in Reqs \ {r} : Creating(req[q]) => NewRow(req[q]) # NewRow(c)
BY RowNames DEF Unused, NewRow, Creating

(* The ways a request starts.                                              *)
LEMMA EnterKeepsRefs ==
  ASSUME RefInv, TypeInv', NEW r \in Reqs, NEW o, NEW x, NEW p, NEW next,
         next \in Statements \ Late,
         Enter(r, o, x, p, next),
         o = "create_task" => x \in Tasks /\ Unused(Task(x), x),
         o = "upload" => x \in Attachments /\ Unused(Attachment(x), x)
  PROVE  RefInv'
<1>1. req \in [Reqs -> Requests] /\ req[r].pc = "idle" /\ UNCHANGED store
  BY DEF RefInv, TypeInv, TypeOK, Enter
<1>2. CASE req' = [req EXCEPT ![r] = Answer(Call(o, x, "done"), 404)]
  <2>1. req'[r].pc = "done" /\ \A q \in Reqs \ {r} : req'[q] = req[q]
    BY <1>1, <1>2 DEF Answer
  <2> QED
    BY <1>1, <2>1, QuietKeepsRefs DEF Creating, Late
<1>3. CASE req' = [req EXCEPT ![r] = Call(o, x, next)]
  <2>1. /\ req'[r].op = o /\ req'[r].on = x /\ req'[r].pc = next
        /\ \A q \in Reqs \ {r} : req'[q] = req[q]
    BY <1>1, <1>3 DEF Call
  <2>2. req'[r].pc \notin Late /\ req[r].pc \notin Late
    BY <1>1, <2>1 DEF Late
  <2>3. CASE o \in {"create_task", "upload"}
    <3>1. /\ db[NewRow(req'[r])] = Absent /\ lock[NewRow(req'[r])] = NoReq
          /\ \A q \in Reqs \ {r} : Creating(req[q]) => NewRow(req[q]) # NewRow(req'[r])
      BY <2>1, <2>3, UnusedIsMine
    <3> QED
      BY <1>1, <2>1, <2>2, <3>1, QuietKeepsRefs
  <2>4. CASE o \notin {"create_task", "upload"}
    <3>1. ~Creating(req'[r])
      BY <2>1, <2>4 DEF Creating
    <3> QED
      BY <1>1, <2>1, <2>2, <3>1, QuietKeepsRefs
  <2> QED
    BY <2>3, <2>4
<1> QED
  BY <1>2, <1>3 DEF Enter

(* The two kinds of references.                                            *)
LEMMA RefKinds ==
  ASSUME NEW c, NEW p, IsRef(c, p)
  PROVE  /\ \A x : c # Project(x) /\ p # Attachment(x)
         /\ \A x : p = Project(x) => \E t \in Tasks : c = Task(t) /\ TaskProject[t] = x
         /\ \A x : p = Task(x) => \E a \in Attachments : c = Attachment(a) /\ AttachmentTask[a] = x
         /\ \A x : c = Task(x) => x \in Tasks /\ p = Project(TaskProject[x])
BY RowNames DEF IsRef

(* A row that a request finds is not one another is about to make.         *)
LEMMA FoundIsNotNew ==
  ASSUME RefInv, NEW r \in Reqs, NEW q \in Reqs \ {r}, Creating(req[q]),
         NEW x, Found(r, x) # Absent
  PROVE  NewRow(req[q]) # x
<1>1. db[NewRow(req[q])] = Absent /\ lock[NewRow(req[q])] \in {q, NoReq}
  BY DEF RefInv, Transactions, NewIsMine
<1>2. Found(r, NewRow(req[q])) = Absent
  BY <1>1, RowStoreAssumption DEF Found
<1> QED
  BY <1>2

(* Writing one row.                                                        *)
LEMMA WriteIsWrites ==
  ASSUME TypeOK, NEW r \in Reqs, NEW x \in Rows, NEW v, Write(r, x, v), share' = share,
         lock[x] \in {r, NoReq}
  PROVE  Writes(r, {x}) /\ latest'[x] = v /\ {x} \in SUBSET Rows
BY DEF TypeOK, StoreType, Write, Writes

(* A request that is no creation writes one row it has found, and goes to  *)
(* its commit or on to the cascade.                                        *)
LEMMA ChangeKeepsRefs ==
  ASSUME RefInv, TypeInv', NEW r \in Reqs, NEW x \in Rows, NEW v,
         Write(r, x, v), share' = share, Writers(r, x) = {}, Found(r, x) # Absent,
         req[r].pc \notin Late \union {"idle", "done"}, ~Creating(req[r]),
         NEW next \in {"commit", "cascade"}, Goto(r, next),
         \A c, p \in Rows : IsRef(c, p) /\ p = x /\ v = Absent =>
           /\ share[x] = {}
           /\ db[c] # Absent => next = "cascade" /\ x = Task(req[r].on)
  PROVE  RefInv'
<1>1. TypeOK /\ Clean
  BY DEF RefInv, TypeInv
<1>2. lock[x] \in {r, NoReq}
  BY WritersOf
<1>3. Writes(r, {x}) /\ latest'[x] = v /\ {x} \in SUBSET Rows
  BY <1>1, <1>2, WriteIsWrites
<1>4. latest[x] # Absent
  BY <1>1, FoundIsLatest DEF TypeOK
<1>5. /\ req'[r].op = req[r].op /\ req'[r].on = req[r].on /\ req'[r].pc = next
      /\ \A q \in Reqs \ {r} : req'[q] = req[q]
  BY <1>1, GotoMoves, Names
<1>6. ~Creating(req'[r]) /\ req'[r].pc \in Late /\ req'[r].pc # "reference"
  BY <1>5 DEF Creating, Late
<1>7. req[r].pc \notin {"reference", "commit", "cascade"}
  BY DEF Late
<1>8. \A q \in Reqs \ {r} : Creating(req[q]) => NewRow(req[q]) \notin {x}
  BY FoundIsNotNew
<1>9. NewIsMine(r)'
  BY <1>6 DEF NewIsMine, Creating
<1>10. ASSUME NEW c \in Rows, NEW p \in Rows, IsRef(c, p)
       PROVE  ParentSafe(r, c, p, {x}) /\ ChildSafe(r, c, p, {x})
  <2>1. ParentSafe(r, c, p, {x})
    BY <1>3, <1>5, <1>10 DEF ParentSafe
  <2>2. ChildSafe(r, c, p, {x})
    BY <1>3, <1>4, <1>7 DEF ChildSafe
  <2> QED
    BY <2>1, <2>2
<1>11. req[r].pc = "cascade" \/ {x} # {} => req'[r].pc \in Late
  BY <1>6
<1>12. req'[r].pc = "reference" => req[r].pc # "cascade" /\ {x} = {NewRow(req'[r])}
  BY <1>6
<1>13. Creating(req'[r]) =>
        \/ Creating(req[r]) /\ NewRow(req'[r]) = NewRow(req[r])
        \/ \A q \in Reqs \ {r} : Creating(req[q]) => NewRow(req[q]) # NewRow(req'[r])
  BY <1>6
<1> QED
  BY <1>3, <1>5, <1>7, <1>8, <1>9, <1>10, <1>11, <1>12, <1>13, WriteKeepsRefs

(* An UPDATE or DELETE by key that may find no row.                        *)
LEMMA DeleteKeepsRefs ==
  ASSUME RefInv, TypeInv', NEW r \in Reqs, NEW x \in Rows,
         Update(r, x, Absent), share' = share, Writers(r, x) = {},
         req[r].pc \notin Late \union {"idle", "done"}, ~Creating(req[r]),
         NEW next \in {"commit", "cascade"}, Goto(r, next),
         \A c, p \in Rows : IsRef(c, p) /\ p = x =>
           /\ share[x] = {}
           /\ db[c] # Absent => next = "cascade" /\ x = Task(req[r].on)
  PROVE  RefInv'
<1>1. CASE Found(r, x) = Absent
  <2>1. UNCHANGED store
    BY <1>1 DEF Update, store
  <2>2. next \in Statements
    BY Names
  <2> QED
    BY <2>1, <2>2, MoveKeepsRefs
<1>2. CASE Found(r, x) # Absent
  <2>1. Write(r, x, Absent)
    BY <1>2 DEF Update
  <2> QED
    BY <1>2, <2>1, ChangeKeepsRefs
<1> QED
  BY <1>1, <1>2

(* A request inserts the row its id stands for.                            *)
LEMMA InsertKeepsRefs ==
  ASSUME RefInv, TypeInv', NEW r \in Reqs, NEW v, v # Absent,
         Creating(req[r]), req[r].pc \notin Late \union {"idle", "done"},
         NewRow(req[r]) \in Rows,
         Write(r, NewRow(req[r]), v), share' = share, Goto(r, "reference")
  PROVE  RefInv'
<1> DEFINE x == NewRow(req[r])
<1>1. TypeOK /\ Clean
  BY DEF RefInv, TypeInv
<1>2. db[x] = Absent /\ lock[x] = NoReq
  BY DEF RefInv, Transactions, NewIsMine
<1>3. Writes(r, {x}) /\ latest'[x] = v /\ {x} \in SUBSET Rows
  BY <1>1, <1>2, WriteIsWrites
<1>4. /\ req'[r].op = req[r].op /\ req'[r].on = req[r].on /\ req'[r].pc = "reference"
      /\ \A q \in Reqs \ {r} : req'[q] = req[q]
  BY <1>1, GotoMoves, Names
<1>5. Creating(req'[r]) /\ NewRow(req'[r]) = x /\ req'[r].pc \in Late
  BY <1>4 DEF Creating, Late, NewRow
<1>6. req[r].pc \notin {"reference", "commit", "cascade"}
  BY DEF Late
<1>7. \A q \in Reqs \ {r} : Creating(req[q]) => NewRow(req[q]) \notin {x}
  BY DEF RefInv, Transactions, Apart
<1>8. NewIsMine(r)'
  <2>1. db'[x] = Absent /\ lock'[x] = r
    BY <1>2, <1>3 DEF Writes
  <2> SUFFICES /\ db'[NewRow(req'[r])] = Absent
               /\ lock'[NewRow(req'[r])] = IF req'[r].pc \in Late THEN r ELSE NoReq
    BY DEF NewIsMine, NewRow
  <2> QED
    BY <1>5, <2>1
<1>9. ASSUME NEW c \in Rows, NEW p \in Rows, IsRef(c, p)
      PROVE  ParentSafe(r, c, p, {x}) /\ ChildSafe(r, c, p, {x})
  BY <1>2, <1>3, <1>4, <1>6 DEF ParentSafe, ChildSafe
<1>10. req[r].pc = "cascade" \/ {x} # {} => req'[r].pc \in Late
  BY <1>5
<1>11. req'[r].pc = "reference" => req[r].pc # "cascade" /\ {x} = {NewRow(req'[r])}
  BY <1>5, <1>6
<1>12. Creating(req'[r]) =>
        \/ Creating(req[r]) /\ NewRow(req'[r]) = NewRow(req[r])
        \/ \A q \in Reqs \ {r} : Creating(req[q]) => NewRow(req[q]) # NewRow(req'[r])
  BY <1>5
<1> HIDE DEF x
<1> QED
  BY <1>3, <1>4, <1>6, <1>7, <1>8, <1>9, <1>10, <1>11, <1>12, WriteKeepsRefs

(* A new project: nothing refers to its id.                                *)
LEMMA CreateProjectKeepsRefs ==
  ASSUME RefInv, TypeInv', NEW r \in Reqs, NEW p0 \in Projects, CreateProject(r, p0)
  PROVE  RefInv'
<1> DEFINE x == Project(p0)
<1>1. TypeOK /\ x \in Rows /\ req[r].pc = "idle"
  BY RowNames DEF RefInv, TypeInv, CreateProject
<1>2. db[x] = Absent /\ lock[x] = NoReq /\ Write(r, x, Live) /\ share' = share
  BY DEF CreateProject, Unused
<1>3. Writes(r, {x}) /\ latest'[x] = Live /\ {x} \in SUBSET Rows
  BY <1>1, <1>2, WriteIsWrites
<1>4. /\ req'[r].op = "create_project" /\ req'[r].pc = "commit"
      /\ \A q \in Reqs \ {r} : req'[q] = req[q]
  BY DEF CreateProject, Call, RefInv, TypeInv, TypeOK
<1>5. ~Creating(req'[r]) /\ req'[r].pc \in Late /\ req'[r].pc # "reference"
  BY <1>4 DEF Creating, Late
<1>6. \A q \in Reqs \ {r} : Creating(req[q]) => NewRow(req[q]) \notin {x}
  BY RowNames DEF NewRow
<1>7. NewIsMine(r)'
  BY <1>5 DEF NewIsMine, Creating
<1>8. ASSUME NEW c \in Rows, NEW p \in Rows, IsRef(c, p)
      PROVE  ParentSafe(r, c, p, {x}) /\ ChildSafe(r, c, p, {x})
  <2>1. c # x
    BY <1>8, RefKinds
  <2>2. latest'[x] # Absent
    BY <1>3, ValueTypes
  <2> HIDE DEF x
  <2> QED
    BY <1>1, <2>1, <2>2 DEF ParentSafe, ChildSafe
<1>9. req[r].pc = "cascade" \/ {x} # {} => req'[r].pc \in Late
  BY <1>5
<1>10. req'[r].pc = "reference" => req[r].pc # "cascade" /\ {x} = {NewRow(req'[r])}
  BY <1>5
<1>11. Creating(req'[r]) =>
        \/ Creating(req[r]) /\ NewRow(req'[r]) = NewRow(req[r])
        \/ \A q \in Reqs \ {r} : Creating(req[q]) => NewRow(req[q]) # NewRow(req'[r])
  BY <1>5
<1> HIDE DEF x
<1> QED
  BY <1>1, <1>3, <1>4, <1>6, <1>7, <1>8, <1>9, <1>10, <1>11, WriteKeepsRefs

(* The cascade takes every child that is committed.                        *)
LEMMA CascadeKeepsRefs ==
  ASSUME RefInv, TypeInv', NEW r \in Reqs, Cascade(r)
  PROVE  RefInv'
<1> DEFINE X == {Attachment(a) : a \in AttachmentsOf(req[r].on)}
<1>1. TypeOK /\ req[r].pc = "cascade" /\ req[r].op = "delete_task" /\ Goto(r, "commit")
  BY DEF RefInv, TypeInv, Fits, Reaches, Cascade, Ready, AtStatement
<1>2. X \in SUBSET Rows /\ \A x \in X : db[x] # Absent
  BY RowNames DEF AttachmentsOf
<1>3. \A x \in X : lock[x] \in {r, NoReq}
  <2>1. UNION {Writers(r, Attachment(a)) : a \in AttachmentsOf(req[r].on)} = {}
    BY <1>1 DEF Cascade, Ready, AtStatement, Blockers
  <2>2. \A a \in AttachmentsOf(req[r].on) : Writers(r, Attachment(a)) = {}
    BY <2>1
  <2>3. ASSUME NEW a \in AttachmentsOf(req[r].on) PROVE lock[Attachment(a)] \in {r, NoReq}
    BY <2>2, WritersOf DEF AttachmentsOf
  <2> QED
    BY <2>3
<1>4. Writes(r, X) /\ \A x \in X : latest'[x] = Absent
  BY <1>1, <1>2, <1>3 DEF TypeOK, StoreType, Cascade, WriteAll, Writes
<1>5. /\ req'[r].op = "delete_task" /\ req'[r].pc = "commit"
      /\ \A q \in Reqs \ {r} : req'[q] = req[q]
  BY <1>1, GotoMoves, Names
<1>6. ~Creating(req'[r]) /\ req'[r].pc \in Late /\ req'[r].pc # "reference"
  BY <1>5 DEF Creating, Late
<1>7. \A q \in Reqs \ {r} : Creating(req[q]) => NewRow(req[q]) \notin X
  BY <1>2 DEF RefInv, Transactions, NewIsMine
<1>8. NewIsMine(r)'
  BY <1>6 DEF NewIsMine, Creating
<1>9. ASSUME NEW c \in Rows, NEW p \in Rows, IsRef(c, p)
      PROVE  ParentSafe(r, c, p, X) /\ ChildSafe(r, c, p, X)
  <2>1. p \notin X
    BY <1>9, RefKinds
  <2>2. ASSUME p = Task(req[r].on), db[c] # Absent PROVE c \in X
    <3>1. PICK a \in Attachments : c = Attachment(a) /\ AttachmentTask[a] = req[r].on
      BY <1>9, <2>2, RefKinds
    <3>2. a \in AttachmentsOf(req[r].on)
      BY <2>2, <3>1 DEF AttachmentsOf
    <3> QED
      BY <3>1, <3>2
  <2> HIDE DEF X
  <2> QED
    BY <1>4, <2>1, <2>2 DEF ParentSafe, ChildSafe
<1>10. req[r].pc = "cascade" \/ X # {} => req'[r].pc \in Late
  BY <1>6
<1>11. req'[r].pc = "reference" => req[r].pc # "cascade" /\ X = {NewRow(req'[r])}
  BY <1>6
<1>12. Creating(req'[r]) =>
        \/ Creating(req[r]) /\ NewRow(req'[r]) = NewRow(req[r])
        \/ \A q \in Reqs \ {r} : Creating(req[q]) => NewRow(req[q]) # NewRow(req'[r])
  BY <1>6
<1> HIDE DEF X
<1> QED
  BY <1>1, <1>2, <1>4, <1>5, <1>7, <1>8, <1>9, <1>10, <1>11, <1>12, WriteKeepsRefs

(* A reference that is found holds the parent of the one new row.          *)
LEMMA ReferenceKeepsRefs ==
  ASSUME RefInv, TypeInv', NEW r \in Reqs, AtStatement(r, "reference"), Blockers(r) = {},
         Found(r, Referred(r)) # Absent, KeyShare(r, Referred(r)),
         UNCHANGED <<db, latest, lock>>, Goto(r, "commit")
  PROVE  RefInv'
<1> DEFINE parent == Referred(r)
<1>1. TypeOK /\ Clean /\ req[r].pc = "reference" /\ req[r].op \in {"create_task", "upload"}
  BY DEF RefInv, TypeInv, Fits, Reaches, AtStatement
<1>2. /\ req'[r].op = req[r].op /\ req'[r].on = req[r].on /\ req'[r].pc = "commit"
      /\ \A q \in Reqs \ {r} : req'[q] = req[q]
  BY <1>1, GotoMoves, Names
<1>3. IsRef(NewRow(req[r]), parent) /\ parent \in Rows /\ parent # NewRow(req[r])
  <2>1. IsRef(NewRow(req[r]), parent)
    BY <1>1, CallIsAbout DEF IsRef, NewRow, Referred, RefInv
  <2> QED
    BY <2>1, RefRows
<1>4. \A p \in Rows : IsRef(NewRow(req[r]), p) => p = parent
  BY <1>1, RowNames DEF IsRef, NewRow, Referred
<1>5. lock[parent] # r
  BY <1>1, <1>3 DEF RefInv, Transactions, HoldsLate
<1>6. db[parent] # Absent
  BY <1>5 DEF Found
<1>7. latest[parent] # Absent
  <2>1. Deleters(r, parent) = {}
    BY <1>1 DEF Blockers
  <2>2. latest[parent] = Absent => lock[parent] = NoReq
    BY <1>5, <2>1 DEF Deleters, Writers
  <2> QED
    BY <1>1, <1>3, <1>6, <2>2 DEF Clean, TypeOK, StoreType
<1>8. share' = [share EXCEPT ![parent] = @ \union {r}] /\ share \in [Rows -> SUBSET Reqs]
  BY <1>1 DEF KeyShare, TypeOK, StoreType
<1> HIDE DEF parent
<1>9. Clean'
  BY <1>1 DEF Clean
<1>10. Transactions'
  <2>1. ASSUME NEW q \in Reqs PROVE HoldsLate(q)'
    <3> SUFFICES ASSUME NEW x \in Rows
                 PROVE  /\ lock[x] = q => req'[q].pc \in Late
                        /\ lock[x] = q /\ req'[q].pc = "reference" => x = NewRow(req'[q])
                        /\ q \in share'[x] => req'[q].pc = "commit"
      BY DEF HoldsLate, NewRow
    <3>1. CASE q = r
      BY <1>2, <3>1 DEF Late
    <3>2. CASE q # r
      <4>1. req'[q] = req[q] /\ (q \in share'[x] => q \in share[x])
        BY <1>2, <1>8, <3>2
      <4> QED
        BY <4>1 DEF RefInv, Transactions, HoldsLate
    <3> QED
      BY <3>1, <3>2
  <2>2. ASSUME NEW q \in Reqs, Creating(req'[q])
        PROVE  /\ Creating(req[q]) /\ NewRow(req'[q]) = NewRow(req[q])
               /\ req'[q].pc \in Late <=> req[q].pc \in Late
    BY <1>1, <1>2, <2>2 DEF Creating, NewRow, Late
  <2>3. ASSUME NEW q \in Reqs PROVE NewIsMine(q)'
    <3> SUFFICES ASSUME Creating(req'[q])
                 PROVE  /\ db'[NewRow(req'[q])] = Absent
                        /\ lock'[NewRow(req'[q])] = IF req'[q].pc \in Late THEN q ELSE NoReq
      BY DEF NewIsMine, NewRow
    <3>1. /\ Creating(req[q]) /\ NewRow(req'[q]) = NewRow(req[q])
          /\ req'[q].pc \in Late <=> req[q].pc \in Late
      BY <2>2
    <3>2. NewIsMine(q)
      BY DEF RefInv, Transactions
    <3> QED
      BY <3>1, <3>2 DEF NewIsMine
  <2>4. ASSUME NEW q \in Reqs, NEW s \in Reqs PROVE Apart(q, s)'
    <3> SUFFICES ASSUME Creating(req'[q]), Creating(req'[s]), q # s
                 PROVE  NewRow(req'[q]) # NewRow(req'[s])
      BY DEF Apart, NewRow
    <3>1. /\ Creating(req[q]) /\ NewRow(req'[q]) = NewRow(req[q])
          /\ Creating(req[s]) /\ NewRow(req'[s]) = NewRow(req[s])
      BY <2>2
    <3>2. Apart(q, s)
      BY DEF RefInv, Transactions
    <3> QED
      BY <3>1, <3>2 DEF Apart
  <2> QED
    BY <2>1, <2>3, <2>4 DEF Transactions
<1>11. Links'
  <2> SUFFICES ASSUME NEW c \in Rows, NEW p \in Rows, IsRef(c, p) PROVE Linked(c, p)'
    BY DEF Links, IsRef
  <2>1. Linked(c, p) /\ c # p
    BY RefRows DEF RefInv, Links
  <2>2. ChildHasParent(c, p)'
    BY <2>1 DEF Linked, ChildHasParent
  <2>3. SharedStays(p)'
    BY <1>6, <1>7, <1>8, <2>1 DEF Linked, SharedStays
  <2>4. NewChildHoldsParent(c, p)'
    <3> SUFFICES ASSUME lock[c] # NoReq, db[c] = Absent, latest[c] # Absent
                 PROVE  req'[lock[c]].pc = "reference" \/ lock[c] \in share'[p]
      BY DEF NewChildHoldsParent
    <3>1. lock[c] \in Reqs
      BY <1>1 DEF TypeOK, StoreType
    <3>2. share[p] \subseteq share'[p]
      BY <1>8
    <3>3. CASE lock[c] # r
      BY <1>2, <2>1, <3>1, <3>2, <3>3 DEF Linked, NewChildHoldsParent
    <3>4. CASE lock[c] = r
      <4>1. c = NewRow(req[r])
        BY <1>1, <3>4 DEF RefInv, Transactions, HoldsLate
      <4>2. p = parent
        BY <1>4, <4>1
      <4> QED
        BY <1>8, <3>4, <4>2
    <3> QED
      BY <3>3, <3>4
  <2>5. DeletionTakesChild(c, p)'
    <3> SUFFICES ASSUME latest[p] = Absent, db[p] # Absent, db[c] # Absent
                 PROVE  \/ latest[c] = Absent /\ lock[c] = lock[p]
                        \/ req'[lock[p]].pc = "cascade" /\ p = Task(req'[lock[p]].on)
      BY DEF DeletionTakesChild, Task
    <3>1. lock[p] \in Reqs
      BY <1>1 DEF Clean, TypeOK, StoreType
    <3>2. CASE lock[p] = r
      BY <1>1, <2>1, <3>2 DEF Linked, DeletionTakesChild
    <3>3. CASE lock[p] # r
      BY <1>2, <2>1, <3>1, <3>3 DEF Linked, DeletionTakesChild
    <3> QED
      BY <3>2, <3>3
  <2> QED
    BY <2>2, <2>3, <2>4, <2>5 DEF Linked
<1> QED
  BY <1>9, <1>10, <1>11 DEF RefInv

(* Whichever way a transaction ends, the others keep what they hold.       *)
LEMMA EndKeepsHolders ==
  ASSUME RefInv, NEW r \in Reqs, Release(r),
         \A x \in Rows : lock[x] # r => db'[x] = db[x],
         req'[r].pc = "done", \A q \in Reqs \ {r} : req'[q] = req[q]
  PROVE  Transactions'
<1>1. /\ lock \in [Rows -> Reqs \union {NoReq}]
      /\ lock' = [x \in Rows |-> IF lock[x] = r THEN NoReq ELSE lock[x]]
      /\ share' = [x \in Rows |-> share[x] \ {r}]
  BY DEF RefInv, TypeInv, TypeOK, StoreType, Release
<1>2. r # NoReq
  BY RowStoreAssumption
<1>3. ~Creating(req'[r])
  BY DEF Creating
<1>4. HoldsLate(r)' /\ NewIsMine(r)'
  BY <1>1, <1>2, <1>3 DEF HoldsLate, NewIsMine, Creating, NewRow
<1>5. ASSUME NEW q \in Reqs \ {r} PROVE HoldsLate(q)' /\ NewIsMine(q)'
  <2>1. HoldsLate(q) /\ NewIsMine(q) /\ req'[q] = req[q] /\ q # NoReq
    BY RowStoreAssumption DEF RefInv, Transactions
  <2>2. HoldsLate(q)'
    <3> SUFFICES ASSUME NEW x \in Rows
                 PROVE  /\ lock'[x] = q => req[q].pc \in Late
                        /\ lock'[x] = q /\ req[q].pc = "reference" => x = NewRow(req[q])
                        /\ q \in share'[x] => req[q].pc = "commit"
      BY <2>1 DEF HoldsLate, NewRow
    <3> QED
      BY <1>1, <2>1 DEF HoldsLate
  <2>3. NewIsMine(q)'
    <3> SUFFICES ASSUME Creating(req[q])
                 PROVE  /\ db'[NewRow(req[q])] = Absent
                        /\ lock'[NewRow(req[q])] = IF req[q].pc \in Late THEN q ELSE NoReq
      BY <2>1 DEF NewIsMine, Creating, NewRow
    <3>1. NewRow(req[q]) \in Rows
      <4>1. req[q].pc \notin {"idle", "done"}
        BY IdleType DEF Creating, RefInv, TypeInv, TypeOK, Requests, Calls, Answers, Statements
      <4> QED
        BY <4>1, CallIsAbout, RowNames DEF Creating, NewRow, RefInv
    <3>2. lock[NewRow(req[q])] \in {q, NoReq}
      BY <2>1 DEF NewIsMine
    <3> QED
      BY <1>1, <1>2, <2>1, <3>1, <3>2 DEF NewIsMine
  <2> QED
    BY <2>2, <2>3
<1>6. ASSUME NEW q \in Reqs, NEW s \in Reqs PROVE Apart(q, s)'
  <2>1. CASE q = r \/ s = r
    BY <1>3, <2>1 DEF Apart, Creating
  <2>2. CASE q # r /\ s # r
    <3>1. Apart(q, s) /\ req'[q] = req[q] /\ req'[s] = req[s]
      BY <2>2 DEF RefInv, Transactions
    <3> QED
      BY <3>1 DEF Apart, Creating, NewRow
  <2> QED
    BY <2>1, <2>2
<1> QED
  BY <1>4, <1>5, <1>6 DEF Transactions

(* A rollback leaves the committed rows as they are.                       *)
LEMMA RollbackKeepsRefs ==
  ASSUME RefInv, TypeInv', NEW r \in Reqs, Rollback(r),
         req'[r].pc = "done", \A q \in Reqs \ {r} : req'[q] = req[q]
  PROVE  RefInv'
<1>1. StoreType(Rows, Values) /\ Clean
  BY DEF RefInv, TypeInv, TypeOK
<1>2. /\ lock \in [Rows -> Reqs \union {NoReq}]
      /\ db' = db
      /\ latest' = [x \in Rows |-> IF lock[x] = r THEN db[x] ELSE latest[x]]
      /\ lock' = [x \in Rows |-> IF lock[x] = r THEN NoReq ELSE lock[x]]
      /\ share' = [x \in Rows |-> share[x] \ {r}]
  BY <1>1 DEF StoreType, Rollback, Release
<1>3. Transactions'
  BY EndKeepsHolders DEF Rollback
<1>4. Clean'
  BY <1>1, RollbackClean
<1>5. Links'
  <2> SUFFICES ASSUME NEW c \in Rows, NEW p \in Rows, IsRef(c, p) PROVE Linked(c, p)'
    BY DEF Links, IsRef
  <2>1. Linked(c, p)
    BY DEF RefInv, Links
  <2>2. ChildHasParent(c, p)' /\ SharedStays(p)'
    BY <1>2, <2>1 DEF Linked, ChildHasParent, SharedStays
  <2>3. NewChildHoldsParent(c, p)'
    <3> SUFFICES ASSUME lock'[c] # NoReq, db[c] = Absent, latest'[c] # Absent
                 PROVE  req'[lock'[c]].pc = "reference" \/ lock'[c] \in share'[p]
      BY <1>2 DEF NewChildHoldsParent
    <3>1. lock[c] # r /\ lock'[c] = lock[c] /\ latest'[c] = latest[c] /\ lock[c] \in Reqs
      BY <1>2
    <3> QED
      BY <1>2, <2>1, <3>1 DEF Linked, NewChildHoldsParent
  <2>4. DeletionTakesChild(c, p)'
    <3> SUFFICES ASSUME latest'[p] = Absent, db[p] # Absent, db[c] # Absent
                 PROVE  \/ latest'[c] = Absent /\ lock'[c] = lock'[p]
                        \/ req'[lock'[p]].pc = "cascade" /\ p = Task(req'[lock'[p]].on)
      BY <1>2 DEF DeletionTakesChild, Task
    <3>1. lock[p] # r /\ lock'[p] = lock[p] /\ latest'[p] = latest[p]
      BY <1>2
    <3>2. lock[p] \in Reqs
      BY <1>1, <1>2, <3>1 DEF Clean
    <3> QED
      BY <1>2, <2>1, <3>1, <3>2 DEF Linked, DeletionTakesChild
  <2> QED
    BY <2>2, <2>3, <2>4 DEF Linked
<1> QED
  BY <1>3, <1>4, <1>5 DEF RefInv

(* A commit publishes children with their parents, and deletions of        *)
(* parents with those of their children.                                   *)
LEMMA CommitKeepsRefs ==
  ASSUME RefInv, TypeInv', NEW r \in Reqs, req[r].pc = "commit", Commit(r),
         req'[r].pc = "done", \A q \in Reqs \ {r} : req'[q] = req[q]
  PROVE  RefInv'
<1>1. StoreType(Rows, Values) /\ Clean
  BY DEF RefInv, TypeInv, TypeOK
<1>2. /\ lock \in [Rows -> Reqs \union {NoReq}]
      /\ \A x \in Rows : db'[x] = IF lock[x] = r THEN latest[x] ELSE db[x]
      /\ latest' = latest
      /\ lock' = [x \in Rows |-> IF lock[x] = r THEN NoReq ELSE lock[x]]
      /\ share' = [x \in Rows |-> share[x] \ {r}]
  BY <1>1 DEF StoreType, Commit, Release, Found
<1>3. Transactions'
  BY <1>2, EndKeepsHolders DEF Commit
<1>4. Clean'
  BY <1>1, CommitClean
<1>5. Links'
  <2> SUFFICES ASSUME NEW c \in Rows, NEW p \in Rows, IsRef(c, p) PROVE Linked(c, p)'
    BY DEF Links, IsRef
  <2>1. Linked(c, p)
    BY DEF RefInv, Links
  <2>2. lock[c] = r /\ db[c] = Absent /\ latest[c] # Absent => r \in share[p]
    BY <2>1, RowStoreAssumption DEF Linked, NewChildHoldsParent
  <2>3. lock[p] = r /\ latest[p] = Absent /\ db[p] # Absent /\ db[c] # Absent =>
          latest[c] = Absent /\ lock[c] = r
    BY <2>1 DEF Linked, DeletionTakesChild
  <2>4. r \in share[p] => db[p] # Absent /\ latest[p] # Absent
    BY <2>1 DEF Linked, SharedStays
  <2>5. db[c] # Absent => db[p] # Absent
    BY <2>1 DEF Linked, ChildHasParent
  <2>6. ChildHasParent(c, p)'
    <3> SUFFICES ASSUME db'[c] # Absent PROVE db'[p] # Absent
      BY DEF ChildHasParent
    <3>1. db[p] # Absent
      BY <1>2, <2>2, <2>4, <2>5
    <3>2. lock[p] = r => latest[p] # Absent
      <4>1. CASE db[c] = Absent
        BY <1>2, <2>2, <2>4, <4>1
      <4>2. CASE db[c] # Absent
        BY <1>2, <2>3, <3>1, <4>2
      <4> QED
        BY <4>1, <4>2
    <3> QED
      BY <1>2, <3>1, <3>2
  <2>7. SharedStays(p)'
    BY <1>2, <2>1 DEF Linked, SharedStays
  <2>8. NewChildHoldsParent(c, p)'
    <3> SUFFICES ASSUME lock'[c] # NoReq, db'[c] = Absent, latest'[c] # Absent
                 PROVE  req'[lock'[c]].pc = "reference" \/ lock'[c] \in share'[p]
      BY DEF NewChildHoldsParent
    <3>1. lock[c] # r /\ lock'[c] = lock[c] /\ db[c] = Absent /\ lock[c] \in Reqs
      BY <1>2
    <3> QED
      BY <1>2, <2>1, <3>1 DEF Linked, NewChildHoldsParent
  <2>9. DeletionTakesChild(c, p)'
    <3> SUFFICES ASSUME latest'[p] = Absent, db'[p] # Absent, db'[c] # Absent
                 PROVE  \/ latest'[c] = Absent /\ lock'[c] = lock'[p]
                        \/ req'[lock'[p]].pc = "cascade" /\ p = Task(req'[lock'[p]].on)
      BY DEF DeletionTakesChild, Task
    <3>1. lock[p] # r /\ lock'[p] = lock[p] /\ db[p] # Absent /\ latest[p] = Absent
      BY <1>2
    <3>2. lock[p] \in Reqs
      BY <1>1, <1>2, <3>1 DEF Clean
    <3>3. share[p] = {}
      BY <2>1, <3>1 DEF Linked, SharedStays
    <3>4. db[c] # Absent
      BY <1>2, <2>2, <3>3
    <3>5. CASE latest[c] = Absent /\ lock[c] = lock[p]
      BY <1>2, <3>1, <3>5
    <3>6. CASE req[lock[p]].pc = "cascade" /\ p = Task(req[lock[p]].on)
      BY <3>1, <3>2, <3>6
    <3> QED
      BY <2>1, <3>1, <3>4, <3>5, <3>6 DEF Linked, DeletionTakesChild
  <2> QED
    BY <2>6, <2>7, <2>8, <2>9 DEF Linked
<1> QED
  BY <1>3, <1>4, <1>5 DEF RefInv

(* After a restart no transaction is open.                                 *)
LEMMA RestartKeepsRefs ==
  ASSUME RefInv, TypeInv', RollbackAll, req' = [r \in Reqs |-> Idle]
  PROVE  RefInv'
<1>1. StoreType(Rows, Values)
  BY DEF RefInv, TypeInv, TypeOK
<1>2. /\ db' = db /\ latest' = db
      /\ lock' = [x \in Rows |-> NoReq] /\ share' = [x \in Rows |-> {}]
  BY <1>1 DEF StoreType, RollbackAll
<1>3. \A r \in Reqs : r # NoReq /\ ~Creating(req'[r])
  BY IdleType, RowStoreAssumption DEF Creating
<1>4. Transactions'
  BY <1>2, <1>3 DEF Transactions, HoldsLate, NewIsMine, Apart, NewRow, Creating
<1>5. Clean'
  BY <1>1, RollbackAllClean
<1>6. Links'
  <2> SUFFICES ASSUME NEW c \in Rows, NEW p \in Rows, IsRef(c, p) PROVE Linked(c, p)'
    BY DEF Links, IsRef
  <2>1. Linked(c, p)
    BY DEF RefInv, Links
  <2> QED
    BY <1>2, <2>1 DEF Linked, ChildHasParent, SharedStays, NewChildHoldsParent, DeletionTakesChild
<1> QED
  BY <1>4, <1>5, <1>6 DEF RefInv

-----------------------------------------------------------------------------
(* Every step keeps the references.                                        *)

(* A request that starts.                                                  *)
LEMMA ArriveKeepsRefs ==
  ASSUME RefInv, TypeInv', NEW r \in Reqs, Arrive(r)
  PROVE  RefInv'
<1>1. /\ "update project" \in Statements \ Late /\ "count tasks" \in Statements \ Late
      /\ "insert task" \in Statements \ Late /\ "select task" \in Statements \ Late
  BY DEF Statements, Late
<1>2. ASSUME NEW p \in Projects, BeginRenameProject(r, p) \/ BeginDeleteProject(r, p)
      PROVE  RefInv'
  <2>1. CASE BeginRenameProject(r, p)
    BY <1>1, <2>1, EnterKeepsRefs DEF BeginRenameProject
  <2>2. CASE BeginDeleteProject(r, p)
    BY <1>1, <2>2, EnterKeepsRefs DEF BeginDeleteProject
  <2> QED
    BY <1>2, <2>1, <2>2
<1>3. ASSUME NEW t \in Tasks, BeginCreateTask(r, t) PROVE RefInv'
  BY <1>1, <1>3, EnterKeepsRefs DEF BeginCreateTask
<1>4. ASSUME NEW t \in Tasks, BeginDeleteTask(r, t) PROVE RefInv'
  BY <1>1, <1>4, EnterKeepsRefs DEF BeginDeleteTask
<1>5. ASSUME NEW t \in Tasks, NEW f \in Payloads, BeginUpdateTask(r, t, f) PROVE RefInv'
  <2>1. req \in [Reqs -> Requests] /\ req[r].pc = "idle" /\ UNCHANGED store
    BY <1>5 DEF RefInv, TypeInv, TypeOK, BeginUpdateTask
  <2>2. /\ req'[r].pc \in {"select task", "done"} /\ req'[r].op = "update_task"
        /\ \A q \in Reqs \ {r} : req'[q] = req[q]
    <3> DEFINE c == [op |-> "update_task", on |-> t, field |-> f, listed |-> {},
                     pc |-> "select task", status |-> 0]
               refused == Answer(Call("update_task", t, "done"), 404)
    <3>1. req' = [req EXCEPT ![r] = c] \/ req' = [req EXCEPT ![r] = refused]
      BY <1>5 DEF BeginUpdateTask
    <3>2. /\ c.pc = "select task" /\ c.op = "update_task"
          /\ refused.pc = "done" /\ refused.op = "update_task"
      BY DEF Answer, Call
    <3> HIDE DEF c, refused
    <3> QED
      BY <2>1, <3>1, <3>2
  <2> QED
    BY <2>1, <2>2, QuietKeepsRefs DEF Creating, Late
<1>6. ASSUME NEW a \in Attachments, BeginUpload(r, a) PROVE RefInv'
  BY <1>1, <1>6, EnterKeepsRefs DEF BeginUpload
<1>7. ASSUME NEW a \in Attachments, BeginDeleteAttachment(r, a) \/ BeginDownload(r, a)
      PROVE  RefInv'
  <2>1. CASE BeginDeleteAttachment(r, a)
    BY <1>1, <2>1, EnterKeepsRefs DEF BeginDeleteAttachment
  <2>2. CASE BeginDownload(r, a)
    BY <1>1, <2>2, EnterKeepsRefs DEF BeginDownload
  <2> QED
    BY <1>7, <2>1, <2>2
<1> QED
  BY <1>2, <1>3, <1>4, <1>5, <1>6, <1>7, CreateProjectKeepsRefs DEF Arrive

(* A request that fails.                                                   *)
LEMMA FailKeepsRefs ==
  ASSUME RefInv, TypeInv', NEW r \in Reqs, req[r].pc \notin {"idle", "done"}, Fail(r)
  PROVE  RefInv'
<1>1. req'[r].pc = "done" /\ \A q \in Reqs \ {r} : req'[q] = req[q]
  BY ReplyMoves, Names DEF Fail, RefInv, TypeInv
<1> QED
  BY <1>1, RollbackKeepsRefs DEF Fail

(* A statement about a project.                                            *)
LEMMA ProjectStepKeepsRefs ==
  ASSUME RefInv, TypeInv', NEW r \in Reqs, UpdateProject(r) \/ CountTasks(r) \/ DeleteProject(r)
  PROVE  RefInv'
<1>1. TypeInv /\ TypeOK
  BY DEF RefInv, TypeInv
<1>2. CASE UpdateProject(r)
  <2> DEFINE row == Project(req[r].on)
  <2>1. req[r].pc = "update project" /\ req[r].op = "rename_project" /\ Blockers(r) = {}
    BY <1>1, <1>2 DEF UpdateProject, Ready, AtStatement, TypeInv, Fits, Reaches
  <2>2. CASE Fail(r)
    BY <2>1, <2>2, FailKeepsRefs
  <2>3. CASE /\ Found(r, row) # Absent /\ Write(r, row, Live)
             /\ Goto(r, "commit") /\ UNCHANGED share
    <3>1. Writers(r, row) = {}
      BY <2>1 DEF Blockers
    <3>2. row \in Rows
      BY <1>1, <2>1, CallIsAbout, RowNames
    <3>3. ~Creating(req[r]) /\ req[r].pc \notin Late \union {"idle", "done"}
      BY <2>1 DEF Creating, Late
    <3>4. Live # Absent
      BY ValueTypes
    <3> HIDE DEF row
    <3> QED
      BY <2>3, <3>1, <3>2, <3>3, <3>4, ChangeKeepsRefs
  <2> QED
    BY <1>2, <2>2, <2>3 DEF UpdateProject
<1>3. CASE CountTasks(r)
  <2>1. req[r].pc = "count tasks" /\ req[r].op = "delete_project" /\ UNCHANGED store
    BY <1>1, <1>3 DEF CountTasks, AtStatement, TypeInv, Fits, Reaches
  <2>2. ~Creating(req[r]) /\ req[r].pc \notin Late \union {"idle", "done"}
    BY <2>1 DEF Creating, Late
  <2>3. Reply(r, 409) \/ Goto(r, "delete project")
    BY <1>3 DEF CountTasks
  <2> QED
    BY <2>1, <2>2, <2>3, MoveKeepsRefs, Names
<1>4. CASE DeleteProject(r)
  <2> DEFINE row == Project(req[r].on)
  <2>1. req[r].pc = "delete project" /\ req[r].op = "delete_project" /\ Blockers(r) = {}
    BY <1>1, <1>4 DEF DeleteProject, Ready, AtStatement, TypeInv, Fits, Reaches
  <2>2. CASE Fail(r)
    BY <2>1, <2>2, FailKeepsRefs
  <2>3. CASE /\ TasksIn(req[r].on) = {} /\ Update(r, row, Absent)
             /\ Goto(r, "commit") /\ UNCHANGED share
    <3>1. row \in Rows
      BY <1>1, <2>1, CallIsAbout, RowNames
    <3>2. Writers(r, row) = {} /\ share[row] = {}
      <4>1. Holders(r, row) = {}
        BY <2>1 DEF Blockers
      <4>2. r \notin share[row]
        BY <2>1, <3>1 DEF RefInv, Transactions, HoldsLate
      <4> QED
        BY <4>1, <4>2 DEF Holders
    <3>3. ~Creating(req[r]) /\ req[r].pc \notin Late \union {"idle", "done"}
      BY <2>1 DEF Creating, Late
    <3>4. ASSUME NEW c \in Rows, NEW p \in Rows, IsRef(c, p), p = row PROVE db[c] = Absent
      BY <2>3, <3>4, RefKinds DEF TasksIn
    <3> HIDE DEF row
    <3> QED
      BY <2>3, <3>1, <3>2, <3>3, <3>4, DeleteKeepsRefs
  <2> QED
    BY <1>4, <2>2, <2>3 DEF DeleteProject
<1> QED
  BY <1>2, <1>3, <1>4

(* A statement that inserts a row or checks its reference.                 *)
LEMMA InsertStepKeepsRefs ==
  ASSUME RefInv, TypeInv', NEW r \in Reqs, InsertTask(r) \/ InsertAttachment(r) \/ CheckReference(r)
  PROVE  RefInv'
<1>1. TypeInv
  BY DEF RefInv
<1>2. CASE InsertTask(r)
  <2>1. req[r].pc = "insert task" /\ req[r].op = "create_task" /\ share' = share
    BY <1>1, <1>2 DEF InsertTask, AtStatement, TypeInv, Fits, Reaches
  <2>2. Creating(req[r]) /\ req[r].pc \notin Late \union {"idle", "done"}
    BY <2>1 DEF Creating, Late
  <2>3. CASE Reply(r, 422) /\ UNCHANGED <<db, latest, lock>>
    <3>1. UNCHANGED store
      BY <2>1, <2>3 DEF store
    <3> QED
      BY <2>2, <2>3, <3>1, MoveKeepsRefs, Names
  <2>4. CASE Write(r, Task(req[r].on), "as created") /\ Goto(r, "reference")
    <3>1. NewRow(req[r]) = Task(req[r].on) /\ Task(req[r].on) \in Rows
      BY <1>1, <2>1, CallIsAbout, RowNames DEF NewRow
    <3>2. "as created" # Absent
      BY ValueTypes
    <3> QED
      BY <2>1, <2>2, <2>4, <3>1, <3>2, InsertKeepsRefs
  <2> QED
    BY <1>2, <2>3, <2>4 DEF InsertTask
<1>3. CASE InsertAttachment(r)
  <2>1. req[r].pc = "insert attachment" /\ req[r].op = "upload"
    BY <1>1, <1>3 DEF InsertAttachment, AtStatement, TypeInv, Fits, Reaches
  <2>2. Creating(req[r]) /\ req[r].pc \notin Late \union {"idle", "done"}
    BY <2>1 DEF Creating, Late
  <2>3. CASE Fail(r)
    BY <2>2, <2>3, FailKeepsRefs
  <2>4. CASE /\ Write(r, Attachment(req[r].on), Live) /\ Goto(r, "reference")
             /\ UNCHANGED share
    <3>1. NewRow(req[r]) = Attachment(req[r].on) /\ Attachment(req[r].on) \in Rows
      BY <1>1, <2>1, CallIsAbout, RowNames DEF NewRow
    <3>2. Live # Absent
      BY ValueTypes
    <3> QED
      BY <2>1, <2>2, <2>4, <3>1, <3>2, InsertKeepsRefs
  <2> QED
    BY <1>3, <2>3, <2>4 DEF InsertAttachment
<1>4. CASE CheckReference(r)
  <2>1. req[r].pc \notin {"idle", "done"} /\ AtStatement(r, "reference") /\ Blockers(r) = {}
    BY <1>4 DEF CheckReference, Ready, AtStatement
  <2> QED
    BY <1>4, <2>1, FailKeepsRefs, ReferenceKeepsRefs DEF CheckReference
<1> QED
  BY <1>2, <1>3, <1>4

(* A statement that reads rows, or calls the storage.                      *)
LEMMA ReadStepKeepsRefs ==
  ASSUME RefInv, TypeInv', NEW r \in Reqs,
         \/ SelectTask(r) \/ SelectAttachment(r) \/ ListAttachments(r)
         \/ RemoveFiles(r) \/ SaveFile(r) \/ RemoveFile(r) \/ FetchFile(r)
  PROVE  RefInv'
<1>1. /\ req[r].pc \in {"select task", "select attachment", "list attachments", "remove files",
                       "save file", "remove file", "fetch file"}
      /\ UNCHANGED store \/ Fail(r)
  BY DEF SelectTask, SelectAttachment, ListAttachments, RemoveFiles, SaveFile, RemoveFile,
         FetchFile, AtStatement
<1>2. req[r].pc \notin Late \union {"idle", "done"}
  BY <1>1 DEF Late
<1>3. CASE Fail(r)
  BY <1>2, <1>3, FailKeepsRefs
<1>4. ASSUME UNCHANGED store,
             \/ \E s \in Statuses : Reply(r, s)
             \/ \E next \in Statements \ Late : Goto(r, next)
      PROVE  RefInv'
  BY <1>2, <1>4, MoveKeepsRefs
<1>5. CASE SelectTask(r)
  <2>1. AfterTask(req[r].op) \in Statements \ Late
    BY DEF AfterTask, Statements, Late
  <2>2. CASE Goto(r, AfterTask(req[r].op))
    BY <1>4, <1>5, <2>1, <2>2 DEF SelectTask
  <2>3. CASE Reply(r, 404)
    BY <1>4, <1>5, <2>3, Names DEF SelectTask
  <2>4. CASE Reply(r, 422)
    BY <1>4, <1>5, <2>4, Names DEF SelectTask
  <2> QED
    BY <1>5, <2>2, <2>3, <2>4 DEF SelectTask
<1>6. CASE SelectAttachment(r)
  <2> DEFINE next == IF req[r].op = "download" THEN "fetch file" ELSE "remove file"
  <2>1. next \in Statements \ Late
    BY DEF Statements, Late
  <2>2. UNCHANGED store /\ (Reply(r, 404) \/ Goto(r, next))
    BY <1>6 DEF SelectAttachment
  <2> HIDE DEF next
  <2> QED
    BY <1>4, <2>1, <2>2, Names
<1>7. CASE ListAttachments(r)
  <2>1. req[r].op = "delete_task"
    BY <1>7 DEF ListAttachments, AtStatement, RefInv, TypeInv, Fits, Reaches
  <2>2. /\ req'[r].op = "delete_task" /\ UNCHANGED store
        /\ \A q \in Reqs \ {r} : req'[q] = req[q]
    BY <1>7 DEF ListAttachments, RefInv, TypeInv, TypeOK
  <2>3. ~Creating(req'[r]) /\ req[r].pc \notin Late
    BY <1>2, <2>2 DEF Creating
  <2> QED
    BY <2>2, <2>3, QuietKeepsRefs
<1>8. ASSUME UNCHANGED store,
             NEW next \in {"delete task", "insert attachment", "delete attachment"}, Goto(r, next)
      PROVE  RefInv'
  <2>1. next \in Statements \ Late
    BY DEF Statements, Late
  <2> QED
    BY <1>4, <1>8, <2>1
<1>9. ASSUME UNCHANGED store, NEW s \in {Success, Redirect, 413, StorageFailed}, Reply(r, s)
      PROVE  RefInv'
  <2>1. s \in Statuses
    BY DEF Statuses
  <2> QED
    BY <1>4, <1>9, <2>1
<1>10. CASE RemoveFiles(r)
  BY <1>8, <1>9, <1>10 DEF RemoveFiles
<1>11. CASE SaveFile(r)
  BY <1>8, <1>9, <1>11 DEF SaveFile
<1>12. CASE RemoveFile(r)
  BY <1>8, <1>9, <1>12 DEF RemoveFile
<1>13. CASE FetchFile(r)
  BY <1>3, <1>9, <1>13 DEF FetchFile
<1> QED
  BY <1>5, <1>6, <1>7, <1>10, <1>11, <1>12, <1>13

(* A statement that changes a task or deletes a row.                       *)
LEMMA ChangeStepKeepsRefs ==
  ASSUME RefInv, TypeInv', NEW r \in Reqs, UpdateTask(r) \/ DeleteTask(r) \/ DeleteAttachment(r)
  PROVE  RefInv'
<1>1. TypeInv /\ TypeOK
  BY DEF RefInv, TypeInv
<1>2. CASE UpdateTask(r)
  <2> DEFINE row == Task(req[r].on)
             v == Edit(Found(r, row), req[r].field)
  <2>1. req[r].pc = "update task" /\ req[r].op = "update_task" /\ Blockers(r) = {}
    BY <1>1, <1>2 DEF UpdateTask, Ready, AtStatement, TypeInv, Fits, Reaches
  <2>2. ~Creating(req[r]) /\ req[r].pc \notin Late \union {"idle", "done"}
    BY <2>1 DEF Creating, Late
  <2>3. CASE Fail(r)
    BY <2>1, <2>3, FailKeepsRefs
  <2>4. CASE Goto(r, "commit") /\ UNCHANGED store
    BY <2>2, <2>4, MoveKeepsRefs, Names
  <2>5. CASE /\ Found(r, row) # Absent /\ req[r].field \in Fields
             /\ Write(r, row, v) /\ Goto(r, "commit") /\ UNCHANGED share
    <3>1. Writers(r, row) = {}
      <4>1. req[r].field # "nothing"
        BY <2>5 DEF Fields
      <4> QED
        BY <2>1, <4>1 DEF Blockers
    <3>2. row \in Rows
      BY <1>1, <2>1, CallIsAbout, RowNames
    <3>3. v # Absent
      BY <2>5 DEF Edit, Fields, Absent
    <3> HIDE DEF row, v
    <3> QED
      BY <2>2, <2>5, <3>1, <3>2, <3>3, ChangeKeepsRefs
  <2> QED
    BY <1>2, <2>3, <2>4, <2>5 DEF UpdateTask
<1>3. CASE DeleteTask(r)
  <2> DEFINE row == Task(req[r].on)
             next == IF db[Task(req[r].on)] = Absent THEN "commit" ELSE "cascade"
  <2>1. req[r].pc = "delete task" /\ req[r].op = "delete_task" /\ Blockers(r) = {}
    BY <1>1, <1>3 DEF DeleteTask, Ready, AtStatement, TypeInv, Fits, Reaches
  <2>2. ~Creating(req[r]) /\ req[r].pc \notin Late \union {"idle", "done"}
    BY <2>1 DEF Creating, Late
  <2>3. row \in Rows
    BY <1>1, <2>1, CallIsAbout, RowNames
  <2>4. Writers(r, row) = {} /\ share[row] = {}
    <3>1. Holders(r, row) = {}
      BY <2>1 DEF Blockers
    <3>2. r \notin share[row]
      BY <2>1, <2>3 DEF RefInv, Transactions, HoldsLate
    <3> QED
      BY <3>1, <3>2 DEF Holders
  <2>5. Update(r, row, Absent) /\ Goto(r, next) /\ share' = share
    BY <1>3 DEF DeleteTask
  <2>6. next \in {"commit", "cascade"}
    OBVIOUS
  <2>7. ASSUME NEW c \in Rows, NEW p \in Rows, IsRef(c, p), p = row, db[c] # Absent
        PROVE  next = "cascade"
    <3>1. db[row] # Absent
      BY <2>7 DEF RefInv, Links, Linked, ChildHasParent
    <3> QED
      BY <3>1
  <2>8. row = Task(req[r].on)
    OBVIOUS
  <2> HIDE DEF row, next
  <2> QED
    BY <2>2, <2>3, <2>4, <2>5, <2>6, <2>7, <2>8, DeleteKeepsRefs
<1>4. CASE DeleteAttachment(r)
  <2> DEFINE row == Attachment(req[r].on)
  <2>1. req[r].pc = "delete attachment" /\ req[r].op = "delete_attachment" /\ Blockers(r) = {}
    BY <1>1, <1>4 DEF DeleteAttachment, Ready, AtStatement, TypeInv, Fits, Reaches
  <2>2. ~Creating(req[r]) /\ req[r].pc \notin Late \union {"idle", "done"}
    BY <2>1 DEF Creating, Late
  <2>3. row \in Rows
    BY <1>1, <2>1, CallIsAbout, RowNames
  <2>4. Writers(r, row) = {}
    BY <2>1 DEF Blockers
  <2>5. Update(r, row, Absent) /\ Goto(r, "commit") /\ share' = share
    BY <1>4 DEF DeleteAttachment
  <2>6. \A c, p \in Rows : IsRef(c, p) => p # row
    BY RefKinds
  <2> HIDE DEF row
  <2> QED
    BY <2>2, <2>3, <2>4, <2>5, <2>6, DeleteKeepsRefs
<1> QED
  BY <1>2, <1>3, <1>4

(* Nothing refers to anything yet.                                         *)
LEMMA RefInit == Init => RefInv
<1>1. ASSUME Init PROVE RefInv
  <2>1. TypeInv
    BY <1>1, TypeInit
  <2>2. Clean
    BY <1>1 DEF Init, Clean
  <2>3. Transactions
    BY <1>1, IdleType, RowStoreAssumption
       DEF Init, Transactions, HoldsLate, NewIsMine, Apart, Creating
  <2>4. Links
    BY <1>1 DEF Init, Links, Linked, ChildHasParent, SharedStays, NewChildHoldsParent,
                DeletionTakesChild
  <2> QED
    BY <2>1, <2>2, <2>3, <2>4 DEF RefInv
<1> QED
  BY <1>1

(* Every step keeps the references.                                        *)
LEMMA RefStep == RefInv /\ [Next]_vars => RefInv'
<1>1. ASSUME RefInv, Next PROVE RefInv'
  <2>1. TypeInv'
    BY <1>1, TypeStep DEF RefInv
  <2>2. ASSUME NEW r \in Reqs, CommitRequest(r) PROVE RefInv'
    <3>1. req[r].pc = "commit" /\ Commit(r) /\ Reply(r, Success)
      BY <2>2 DEF CommitRequest, AtStatement
    <3>2. req'[r].pc = "done" /\ \A q \in Reqs \ {r} : req'[q] = req[q]
      BY <1>1, <3>1, ReplyMoves, Names DEF RefInv, TypeInv
    <3> QED
      BY <1>1, <2>1, <3>1, <3>2, CommitKeepsRefs
  <2>3. ASSUME NEW r \in Reqs, Respond(r) PROVE RefInv'
    <3>1. UNCHANGED store /\ req[r].pc \notin Late
      BY <2>3 DEF Respond, Late
    <3>2. ~Creating(req'[r]) /\ \A q \in Reqs \ {r} : req'[q] = req[q]
      BY <1>1, <2>3, IdleType DEF Respond, RefInv, TypeInv, TypeOK, Creating
    <3> QED
      BY <1>1, <2>1, <3>1, <3>2, QuietKeepsRefs
  <2>4. ASSUME NEW r \in Reqs, Proceed(r) PROVE RefInv'
    BY <1>1, <2>1, <2>2, <2>3, <2>4, ProjectStepKeepsRefs, InsertStepKeepsRefs,
       ReadStepKeepsRefs, ChangeStepKeepsRefs, CascadeKeepsRefs DEF Proceed
  <2>5. CASE Restart
    BY <1>1, <2>1, <2>5, RestartKeepsRefs DEF Restart
  <2> QED
    BY <1>1, <2>1, <2>4, <2>5, ArriveKeepsRefs DEF Next
<1>2. ASSUME RefInv, UNCHANGED vars PROVE RefInv'
  <2>1. TypeInv'
    BY <1>2, TypeStep DEF RefInv
  <2> QED
    BY <1>2, <2>1
       DEF RefInv, Clean, Transactions, HoldsLate, NewIsMine, Apart, Creating, NewRow, Links,
         Linked, ChildHasParent, SharedStays, NewChildHoldsParent, DeletionTakesChild, IsRef, vars
<1> QED
  BY <1>1, <1>2

(* No committed task is without its project and no attachment without its  *)
(* task, whatever creations and deletions overlap, and through restarts.   *)
THEOREM ParentsHold == Spec => []NothingOutlivesItsParent
<1>1. RefInv => NothingOutlivesItsParent
  BY RowNames, TaskFilesAssumption
     DEF RefInv, Links, Linked, ChildHasParent, IsRef, NothingOutlivesItsParent
<1> QED
  BY <1>1, RefInit, RefStep, PTL DEF Spec

-----------------------------------------------------------------------------
(* What holds of the files of the attachments beside their rows, of the    *)
(* requests that are answered with a success, and of the edits of a task.  *)

(* Files.                                                                  *)

Uploading(c) == c.op = "upload" /\ c.pc # "done"

(* The deletions that remove, or have removed, the file of a.              *)
Removing(c, a) ==
  \/ a \in c.listed
  \/ /\ c.op = "delete_attachment" /\ c.on = a
     /\ c.pc \in {"remove file", "delete attachment", "commit"}

(* The file of a row has been stored.                                      *)
Stored(a) ==
  db[Attachment(a)] # Absent \/ latest[Attachment(a)] # Absent => a \in files \union removed

(* Only the upload of an attachment writes its row, but for deletions.     *)
OnlyUploads(a) ==
  lock[Attachment(a)] # NoReq /\ latest[Attachment(a)] # Absent =>
    Uploading(req[lock[Attachment(a)]]) /\ req[lock[Attachment(a)]].on = a

Fetched(r) ==
  req[r].pc \in {"insert attachment", "fetch file"} => req[r].on \in files \union removed

UploadKept(r) ==
  req[r].op = "upload" /\ req[r].pc \in {"insert attachment", "reference", "commit"} =>
    req[r].on \in files

(* A deletion that goes on to the rows has removed the files, and they     *)
(* stay removed; before its commit it has also taken the row.              *)
Gone(r) ==
  /\ req[r].pc \in {"delete task", "cascade", "commit"} => req[r].listed \intersect files = {}
  /\ req[r].op = "delete_attachment" /\ req[r].pc \in {"delete attachment", "commit"} =>
       req[r].on \notin files
  /\ req[r].op = "delete_attachment" /\ req[r].pc = "commit" =>
       Found(r, Attachment(req[r].on)) = Absent

(* No deletion knows of an attachment that is being uploaded.              *)
Untouched(q, r) == Uploading(req[q]) => ~Removing(req[r], req[q].on)

FileInv == /\ RefInv
           /\ \A a \in Attachments : Stored(a) /\ OnlyUploads(a)
           /\ \A r \in Reqs : Fetched(r) /\ UploadKept(r) /\ Gone(r)
           /\ \A q, r \in Reqs : Untouched(q, r)

-----------------------------------------------------------------------------
(* What a step of r does to its request, to the storage and to a row.      *)

Started(r) ==
  /\ req[r].pc = "idle" /\ req'[r].listed = {} /\ UNCHANGED storage
  /\ req'[r].pc \in {"update project", "count tasks", "insert task", "select task",
                    "commit", "done"}
  /\ req'[r].pc = "commit" => req'[r].op = "create_project"
  /\ Uploading(req'[r]) =>
       \A q \in Reqs : req[q].on # req'[r].on /\ req'[r].on \notin req[q].listed

Answered(r) == req'[r].pc \in {"done", "idle"} /\ req'[r].listed = {} /\ ~Uploading(req'[r])

Listed(r) ==
  /\ req[r].op = "delete_task" /\ req'[r].op = "delete_task" /\ req'[r].pc = "remove files"
  /\ req'[r].listed = AttachmentsOf(req[r].on)

Moved(r) ==
  /\ req'[r].op = req[r].op /\ req'[r].on = req[r].on /\ req'[r].listed = req[r].listed
  /\ req[r].pc \notin {"idle", "done"} /\ req'[r].pc # "done"
  /\ req'[r].pc = "insert attachment" => req[r].op = "upload" /\ Saved(req[r].on)
  /\ req'[r].pc \in {"fetch file", "remove file"} => db[Attachment(req[r].on)] # Absent
  /\ req'[r].pc = "delete task" => Removed(req[r].listed)
  /\ req'[r].pc = "delete attachment" => req[r].pc = "remove file" /\ Removed({req[r].on})
  /\ req'[r].pc = "cascade" => req[r].pc = "delete task" /\ UNCHANGED storage
  /\ req'[r].pc = "reference" /\ req[r].op = "upload" =>
       req[r].pc = "insert attachment" /\ UNCHANGED storage
  /\ req'[r].pc = "commit" =>
       /\ UNCHANGED storage
       /\ req[r].op = "upload" => req[r].pc = "reference"
       /\ req[r].op = "delete_task" => req[r].pc \in {"delete task", "cascade"}
       /\ req[r].op = "delete_attachment" => DeleteAttachment(r)

(* A call that is entered or refused.                                      *)
LEMMA EnterStarts ==
  ASSUME TypeOK, NEW r \in Reqs, NEW o, NEW x, NEW p,
         NEW next \in {"update project", "count tasks", "insert task", "select task"},
         Enter(r, o, x, p, next),
         o = "upload" => \A q \in Reqs : req[q].on # x /\ x \notin req[q].listed
  PROVE  Started(r) /\ \A q \in Reqs \ {r} : req'[q] = req[q]
<1>1. req \in [Reqs -> Requests] /\ UNCHANGED storage /\ req[r].pc = "idle"
  BY DEF TypeOK, Enter
<1>2. CASE req' = [req EXCEPT ![r] = Answer(Call(o, x, "done"), 404)]
  <2>1. req'[r] = Answer(Call(o, x, "done"), 404) /\ \A q \in Reqs \ {r} : req'[q] = req[q]
    BY <1>1, <1>2
  <2>2. req'[r].pc = "done" /\ req'[r].listed = {}
    <3>1. /\ Answer(Call(o, x, "done"), 404).pc = "done"
          /\ Answer(Call(o, x, "done"), 404).listed = {}
      BY DEF Answer
    <3> QED
      BY <2>1, <3>1
  <2> QED
    BY <1>1, <2>1, <2>2 DEF Started, Uploading
<1>3. CASE req' = [req EXCEPT ![r] = Call(o, x, next)]
  <2>1. req'[r] = Call(o, x, next) /\ \A q \in Reqs \ {r} : req'[q] = req[q]
    BY <1>1, <1>3
  <2>2. req'[r].pc = next /\ req'[r].listed = {} /\ req'[r].op = o /\ req'[r].on = x
    <3>1. /\ Call(o, x, next).pc = next /\ Call(o, x, next).listed = {}
          /\ Call(o, x, next).op = o /\ Call(o, x, next).on = x
      BY DEF Call
    <3> QED
      BY <2>1, <3>1
  <2>3. next # "commit"
    OBVIOUS
  <2> QED
    BY <1>1, <2>1, <2>2, <2>3 DEF Started, Uploading
<1> QED
  BY <1>2, <1>3 DEF Enter

(* Every request that starts.                                              *)
LEMMA ArriveStarts ==
  ASSUME TypeOK, NEW r \in Reqs, Arrive(r)
  PROVE  Started(r) /\ \A q \in Reqs \ {r} : req'[q] = req[q]
<1>1. ASSUME NEW p \in Projects, CreateProject(r, p)
      PROVE  Started(r) /\ \A q \in Reqs \ {r} : req'[q] = req[q]
  BY <1>1 DEF CreateProject, Call, Started, Uploading, TypeOK
<1>2. ASSUME NEW p \in Projects, BeginRenameProject(r, p) \/ BeginDeleteProject(r, p)
      PROVE  Started(r) /\ \A q \in Reqs \ {r} : req'[q] = req[q]
  <2>1. CASE BeginRenameProject(r, p)
    BY <2>1, EnterStarts DEF BeginRenameProject
  <2>2. CASE BeginDeleteProject(r, p)
    BY <2>2, EnterStarts DEF BeginDeleteProject
  <2> QED
    BY <1>2, <2>1, <2>2
<1>3. ASSUME NEW t \in Tasks, BeginCreateTask(r, t) \/ BeginDeleteTask(r, t)
      PROVE  Started(r) /\ \A q \in Reqs \ {r} : req'[q] = req[q]
  <2>1. CASE BeginCreateTask(r, t)
    BY <2>1, EnterStarts DEF BeginCreateTask
  <2>2. CASE BeginDeleteTask(r, t)
    BY <2>2, EnterStarts DEF BeginDeleteTask
  <2> QED
    BY <1>3, <2>1, <2>2
<1>4. ASSUME NEW t \in Tasks, NEW f \in Payloads, BeginUpdateTask(r, t, f)
      PROVE  Started(r) /\ \A q \in Reqs \ {r} : req'[q] = req[q]
  <2> DEFINE c == [op |-> "update_task", on |-> t, field |-> f, listed |-> {},
                   pc |-> "select task", status |-> 0]
             refused == Answer(Call("update_task", t, "done"), 404)
  <2>1. req' = [req EXCEPT ![r] = c] \/ req' = [req EXCEPT ![r] = refused]
    BY <1>4 DEF BeginUpdateTask
  <2>2. /\ c.pc = "select task" /\ c.op = "update_task" /\ c.listed = {}
        /\ refused.pc = "done" /\ refused.op = "update_task" /\ refused.listed = {}
    BY DEF Answer, Call
  <2> HIDE DEF c, refused
  <2>3. /\ req'[r].pc \in {"select task", "done"} /\ req'[r].op = "update_task"
        /\ req'[r].listed = {} /\ \A q \in Reqs \ {r} : req'[q] = req[q]
    BY <2>1, <2>2 DEF TypeOK
  <2> QED
    BY <1>4, <2>3 DEF BeginUpdateTask, Started, Uploading
<1>5. ASSUME NEW a \in Attachments, BeginUpload(r, a)
      PROVE  Started(r) /\ \A q \in Reqs \ {r} : req'[q] = req[q]
  BY <1>5, EnterStarts DEF BeginUpload, Unused
<1>6. ASSUME NEW a \in Attachments, BeginDeleteAttachment(r, a) \/ BeginDownload(r, a)
      PROVE  Started(r) /\ \A q \in Reqs \ {r} : req'[q] = req[q]
  <2>1. CASE BeginDeleteAttachment(r, a)
    BY <2>1, EnterStarts DEF BeginDeleteAttachment
  <2>2. CASE BeginDownload(r, a)
    BY <2>2, EnterStarts DEF BeginDownload
  <2> QED
    BY <1>6, <2>1, <2>2
<1> QED
  BY <1>1, <1>2, <1>3, <1>4, <1>5, <1>6 DEF Arrive

(* A request that is answered, or that fails.                              *)
LEMMA ReplyAnswers ==
  ASSUME TypeOK, NEW r \in Reqs, req[r].pc \notin {"idle", "done"}, NEW s \in Statuses, Reply(r, s)
  PROVE  Answered(r) /\ \A q \in Reqs \ {r} : req'[q] = req[q]
BY ReplyMoves DEF Answered, Uploading

(* A statement that moves on, when the next one is none that the files     *)
(* depend on.                                                              *)
LEMMA GotoMoved ==
  ASSUME TypeInv, NEW r \in Reqs, req[r].pc \notin {"idle", "done"},
         NEW next \in Statements, Goto(r, next),
         next = "insert attachment" => req[r].op = "upload" /\ Saved(req[r].on),
         next \in {"fetch file", "remove file"} => db[Attachment(req[r].on)] # Absent,
         next = "delete task" => Removed(req[r].listed),
         next = "delete attachment" => req[r].pc = "remove file" /\ Removed({req[r].on}),
         next = "cascade" => req[r].pc = "delete task" /\ UNCHANGED storage,
         next = "reference" /\ req[r].op = "upload" =>
           req[r].pc = "insert attachment" /\ UNCHANGED storage,
         next = "commit" =>
           /\ UNCHANGED storage
           /\ req[r].op = "upload" => req[r].pc = "reference"
           /\ req[r].op = "delete_task" => req[r].pc \in {"delete task", "cascade"}
           /\ req[r].op = "delete_attachment" => DeleteAttachment(r)
  PROVE  Moved(r) /\ \A q \in Reqs \ {r} : req'[q] = req[q]
<1>1. /\ req'[r].op = req[r].op /\ req'[r].on = req[r].on /\ req'[r].listed = req[r].listed
      /\ req'[r].pc = next /\ \A q \in Reqs \ {r} : req'[q] = req[q]
  BY GotoMoves DEF TypeInv
<1>2. next # "done"
  BY Names
<1> QED
  BY <1>1, <1>2 DEF Moved

(* What a step of r does to its request.                                   *)
Advances(r) == /\ Started(r) \/ Answered(r) \/ Listed(r) \/ Moved(r)
               /\ \A q \in Reqs \ {r} : req'[q] = req[q]

(* Every statement answers, lists the attachments or moves on.             *)
LEMMA ProceedAdvances ==
  ASSUME TypeInv, NEW r \in Reqs, Proceed(r)
  PROVE  Advances(r)
<1>1. TypeOK
  BY DEF TypeInv
<1>2. ASSUME req[r].pc \notin {"idle", "done"}, NEW s \in Statuses, Reply(r, s)
      PROVE  Advances(r)
  BY <1>1, <1>2, ReplyAnswers DEF Advances
<1>3. ASSUME req[r].pc \notin {"idle", "done"}, Fail(r) PROVE Advances(r)
  BY <1>2, <1>3, Names DEF Fail
<1>4. CASE UpdateProject(r)
  <2>1. req[r].pc = "update project" /\ req[r].op = "rename_project"
    BY <1>4 DEF UpdateProject, Ready, AtStatement, TypeInv, Fits, Reaches
  <2>2. CASE Goto(r, "commit") /\ UNCHANGED storage
    BY <2>1, <2>2, GotoMoved, Names DEF Advances
  <2> QED
    BY <1>3, <1>4, <2>1, <2>2 DEF UpdateProject
<1>5. CASE CountTasks(r)
  <2>1. req[r].pc = "count tasks"
    BY <1>5 DEF CountTasks, AtStatement
  <2>2. CASE Goto(r, "delete project")
    BY <2>1, <2>2, GotoMoved, Names DEF Advances
  <2> QED
    BY <1>2, <1>5, <2>1, <2>2, Names DEF CountTasks
<1>6. CASE DeleteProject(r)
  <2>1. req[r].pc = "delete project" /\ req[r].op = "delete_project"
    BY <1>6 DEF DeleteProject, Ready, AtStatement, TypeInv, Fits, Reaches
  <2>2. CASE Goto(r, "commit") /\ UNCHANGED storage
    BY <2>1, <2>2, GotoMoved, Names DEF Advances
  <2> QED
    BY <1>3, <1>6, <2>1, <2>2 DEF DeleteProject
<1>7. CASE InsertTask(r)
  <2>1. req[r].pc = "insert task" /\ req[r].op = "create_task"
    BY <1>7 DEF InsertTask, AtStatement, TypeInv, Fits, Reaches
  <2>2. CASE Goto(r, "reference")
    BY <2>1, <2>2, GotoMoved, Names DEF Advances
  <2> QED
    BY <1>2, <1>7, <2>1, <2>2, Names DEF InsertTask
<1>8. CASE CheckReference(r)
  <2>1. req[r].pc = "reference" /\ req[r].op \in {"create_task", "upload"}
    BY <1>8 DEF CheckReference, Ready, AtStatement, TypeInv, Fits, Reaches
  <2>2. CASE Goto(r, "commit") /\ UNCHANGED storage
    BY <2>1, <2>2, GotoMoved, Names DEF Advances
  <2> QED
    BY <1>3, <1>8, <2>1, <2>2 DEF CheckReference
<1>9. CASE SelectTask(r)
  <2>1. req[r].pc = "select task"
    BY <1>9 DEF SelectTask, AtStatement
  <2>2. CASE Goto(r, AfterTask(req[r].op))
    <3>1. AfterTask(req[r].op) \in
            {"update task", "list attachments", "save file", "select attachment"}
      BY DEF AfterTask
    <3>2. AfterTask(req[r].op) \in Statements
      BY <3>1, Names
    <3> QED
      BY <2>1, <2>2, <3>1, <3>2, GotoMoved DEF Advances
  <2>3. CASE Reply(r, 404)
    BY <1>2, <2>1, <2>3, Names
  <2>4. CASE Reply(r, 422)
    BY <1>2, <2>1, <2>4, Names
  <2> QED
    BY <1>9, <2>2, <2>3, <2>4 DEF SelectTask
<1>10. CASE UpdateTask(r)
  <2>1. req[r].pc = "update task" /\ req[r].op = "update_task"
    BY <1>10 DEF UpdateTask, Ready, AtStatement, TypeInv, Fits, Reaches
  <2>2. CASE Goto(r, "commit") /\ UNCHANGED storage
    BY <2>1, <2>2, GotoMoved, Names DEF Advances
  <2> QED
    BY <1>3, <1>10, <2>1, <2>2 DEF UpdateTask
<1>11. CASE ListAttachments(r)
  <2>1. /\ Listed(r) /\ \A q \in Reqs \ {r} : req'[q] = req[q]
    BY <1>1, <1>11 DEF ListAttachments, AtStatement, Listed, TypeOK, TypeInv, Fits, Reaches
  <2> QED
    BY <2>1 DEF Advances
<1>12. CASE RemoveFiles(r)
  <2>1. req[r].pc = "remove files"
    BY <1>12 DEF RemoveFiles, AtStatement
  <2>2. CASE Goto(r, "delete task") /\ Removed(req[r].listed)
    BY <2>1, <2>2, GotoMoved, Names DEF Advances
  <2> QED
    BY <1>2, <1>12, <2>1, <2>2, Names DEF RemoveFiles
<1>13. CASE DeleteTask(r)
  <2>1. req[r].pc = "delete task" /\ req[r].op = "delete_task" /\ UNCHANGED storage
    BY <1>13 DEF DeleteTask, Ready, AtStatement, TypeInv, Fits, Reaches
  <2>2. PICK next \in {"commit", "cascade"} : Goto(r, next)
    BY <1>13 DEF DeleteTask
  <2>3. next \in Statements
    BY Names
  <2> QED
    BY <2>1, <2>2, <2>3, GotoMoved DEF Advances
<1>14. CASE Cascade(r)
  <2>1. /\ req[r].pc = "cascade" /\ req[r].op = "delete_task"
        /\ Goto(r, "commit") /\ UNCHANGED storage
    BY <1>14 DEF Cascade, Ready, AtStatement, TypeInv, Fits, Reaches
  <2> QED
    BY <2>1, GotoMoved, Names DEF Advances
<1>15. CASE SaveFile(r)
  <2>1. req[r].pc = "save file" /\ req[r].op = "upload"
    BY <1>15 DEF SaveFile, AtStatement, TypeInv, Fits, Reaches
  <2>2. CASE Goto(r, "insert attachment") /\ Saved(req[r].on)
    BY <2>1, <2>2, GotoMoved, Names DEF Advances
  <2>3. CASE Reply(r, 413)
    BY <1>2, <2>1, <2>3, Names
  <2>4. CASE Reply(r, StorageFailed)
    BY <1>2, <2>1, <2>4, Names
  <2> QED
    BY <1>15, <2>2, <2>3, <2>4 DEF SaveFile
<1>16. CASE InsertAttachment(r)
  <2>1. /\ req[r].pc = "insert attachment" /\ UNCHANGED storage
        /\ Fail(r) \/ Goto(r, "reference")
    BY <1>16 DEF InsertAttachment, AtStatement
  <2>2. CASE Fail(r)
    BY <1>3, <2>1, <2>2, Names
  <2>3. CASE Goto(r, "reference")
    BY <2>1, <2>3, GotoMoved, Names DEF Advances
  <2> QED
    BY <2>1, <2>2, <2>3
<1>17. CASE SelectAttachment(r)
  <2>1. req[r].pc = "select attachment"
    BY <1>17 DEF SelectAttachment, AtStatement
  <2>2. ASSUME NEW next \in {"fetch file", "remove file"}, Goto(r, next),
               db[Attachment(req[r].on)] # Absent
        PROVE  Advances(r)
    <3>1. next \in Statements
      BY Names
    <3> QED
      BY <2>1, <2>2, <3>1, GotoMoved DEF Advances
  <2> QED
    BY <1>2, <1>17, <2>1, <2>2, Names DEF SelectAttachment
<1>18. CASE RemoveFile(r)
  <2>1. req[r].pc = "remove file"
    BY <1>18 DEF RemoveFile, AtStatement
  <2>2. CASE Goto(r, "delete attachment") /\ Removed({req[r].on})
    BY <2>1, <2>2, GotoMoved, Names DEF Advances
  <2> QED
    BY <1>2, <1>18, <2>1, <2>2, Names DEF RemoveFile
<1>19. CASE DeleteAttachment(r)
  <2>1. /\ req[r].pc = "delete attachment" /\ req[r].op = "delete_attachment"
        /\ Goto(r, "commit") /\ UNCHANGED storage
    BY <1>19 DEF DeleteAttachment, Ready, AtStatement, TypeInv, Fits, Reaches
  <2> QED
    BY <1>19, <2>1, GotoMoved, Names DEF Advances
<1>20. CASE FetchFile(r)
  <2>1. req[r].pc = "fetch file"
    BY <1>20 DEF FetchFile, AtStatement
  <2>2. CASE Reply(r, Success)
    BY <1>2, <2>1, <2>2, Names
  <2>3. CASE Reply(r, Redirect)
    BY <1>2, <2>1, <2>3, Names
  <2> QED
    BY <1>3, <1>20, <2>1, <2>2, <2>3 DEF FetchFile
<1>21. CASE CommitRequest(r)
  BY <1>2, <1>21, Names DEF CommitRequest, AtStatement
<1>22. CASE Respond(r)
  BY <1>1, <1>22, IdleType DEF Respond, Answered, Advances, Uploading, TypeOK
<1> QED
  BY <1>4, <1>5, <1>6, <1>7, <1>8, <1>9, <1>10, <1>11, <1>12, <1>13, <1>14, <1>15, <1>16, <1>17,
     <1>18, <1>19, <1>20, <1>21, <1>22 DEF Proceed

-----------------------------------------------------------------------------
(* What a step of r does to the storage.                                   *)
Stores(r) ==
  \/ UNCHANGED storage
  \/ req[r].op = "upload" /\ req[r].pc = "save file" /\ Saved(req[r].on)
  \/ \E A \in SUBSET Attachments : Removed(A) /\ \A a \in A : Removing(req[r], a)

(* Only uploads store a file and only deletions remove one.                *)
LEMMA StepStores ==
  ASSUME TypeInv, NEW r \in Reqs, Arrive(r) \/ Proceed(r)
  PROVE  Stores(r)
<1>1. Arrive(r) => Stores(r)
  BY ArriveStarts DEF TypeInv, Started, Stores
<1>2. CASE RemoveFiles(r)
  <2>1. req[r].pc = "remove files"
    BY <1>2 DEF RemoveFiles, AtStatement
  <2>2. req[r].listed \subseteq Attachments
    BY <2>1, CallAtStatement DEF TypeInv, Calls
  <2>3. PICK A \in SUBSET req[r].listed : Removed(A)
    BY <1>2 DEF RemoveFiles
  <2>4. A \in SUBSET Attachments /\ \A a \in A : Removing(req[r], a)
    BY <2>2, <2>3 DEF Removing
  <2> QED
    BY <2>3, <2>4 DEF Stores
<1>3. CASE SaveFile(r)
  <2>1. req[r].pc = "save file" /\ req[r].op = "upload"
    BY <1>3 DEF SaveFile, AtStatement, TypeInv, Fits, Reaches
  <2> QED
    BY <1>3, <2>1 DEF SaveFile, Stores
<1>4. CASE RemoveFile(r)
  <2>1. req[r].pc = "remove file" /\ req[r].op = "delete_attachment"
    BY <1>4 DEF RemoveFile, AtStatement, TypeInv, Fits, Reaches
  <2>2. {req[r].on} \in SUBSET Attachments /\ \A a \in {req[r].on} : Removing(req[r], a)
    BY <2>1, CallIsAbout DEF Removing
  <2> QED
    BY <1>4, <2>2 DEF RemoveFile, Stores
<1>5. \/ UpdateProject(r) \/ CountTasks(r) \/ DeleteProject(r)
      \/ InsertTask(r) \/ CheckReference(r) \/ SelectTask(r) \/ UpdateTask(r)
      \/ ListAttachments(r) \/ DeleteTask(r) \/ Cascade(r) \/ InsertAttachment(r)
      \/ SelectAttachment(r) \/ DeleteAttachment(r) \/ FetchFile(r)
      \/ CommitRequest(r) \/ Respond(r)
      => UNCHANGED storage
  BY DEF UpdateProject, CountTasks, DeleteProject, InsertTask, CheckReference, SelectTask,
         UpdateTask, ListAttachments, DeleteTask, Cascade, InsertAttachment, SelectAttachment,
         DeleteAttachment, FetchFile, CommitRequest, Respond
<1> QED
  BY <1>1, <1>2, <1>3, <1>4, <1>5 DEF Proceed, Stores

-----------------------------------------------------------------------------
(* What a step of r does to the row of an attachment.                      *)
Keeps(x) == db'[x] = db[x] /\ latest'[x] = latest[x] /\ lock'[x] = lock[x]
Deletes(r, x) ==
  db'[x] = db[x] /\ latest'[x] = Absent /\ lock'[x] = r /\ lock[x] \in {r, NoReq}
(* A request that deletes a, and has only to commit.                       *)
Takes(c, a) ==
  /\ c.pc = "commit"
  /\ \/ c.op = "delete_attachment" /\ c.on = a
     \/ c.op = "delete_task" /\ c.on = AttachmentTask[a]

Inserts(r, a) ==
  LET x == Attachment(a) IN
  /\ db'[x] = db[x] /\ latest'[x] # Absent /\ lock'[x] = r /\ lock[x] = NoReq
  /\ req[r].op = "upload" /\ req[r].on = a /\ req[r].pc = "insert attachment"
Commits(r, x) == lock[x] = r /\ lock'[x] = NoReq /\ db'[x] = latest[x] /\ latest'[x] = latest[x]
Undoes(r, x) == lock[x] = r /\ lock'[x] = NoReq /\ db'[x] = db[x] /\ latest'[x] = db[x]

RowStep(r, a) ==
  LET x == Attachment(a) IN
  \/ Keeps(x) \/ Inserts(r, a) \/ Commits(r, x) \/ Undoes(r, x)
  \/ Deletes(r, x) /\ Takes(req'[r], a)

(* A write of another row, and an UPDATE or DELETE of one, leave it alone. *)
LEMMA OtherWrite ==
  ASSUME TypeOK, NEW r, NEW y, NEW v, NEW x \in Rows, x # y, Write(r, y, v) \/ Update(r, y, v)
  PROVE  Keeps(x)
BY DEF TypeOK, StoreType, Write, Update, Keeps

(* Undoing a transaction does nothing to the rows it does not hold.        *)
LEMMA RollbackRows ==
  ASSUME TypeOK, NEW r, NEW x \in Rows, Rollback(r)
  PROVE  Keeps(x) \/ Undoes(r, x)
BY DEF TypeOK, StoreType, Rollback, Release, Keeps, Undoes

(* Nor does committing one.                                                *)
LEMMA CommitRows ==
  ASSUME TypeOK, NEW r, NEW x \in Rows, Commit(r)
  PROVE  Keeps(x) \/ Commits(r, x)
BY DEF TypeOK, StoreType, Commit, Release, Found, Keeps, Commits

(* The row of an attachment is inserted by its upload, deleted, or part of *)
(* a transaction that ends.                                                *)
LEMMA StepRows ==
  ASSUME RefInv, NEW r \in Reqs, Arrive(r) \/ Proceed(r), NEW a \in Attachments
  PROVE  RowStep(r, a)
<1> DEFINE x == Attachment(a)
<1>1. TypeInv /\ TypeOK /\ x \in Rows
  BY RowNames DEF RefInv, TypeInv
<1>2. UNCHANGED store => Keeps(x)
  BY DEF store, Keeps
<1>3. Rollback(r) => RowStep(r, a)
  BY <1>1, RollbackRows DEF RowStep
<1>4. \A y : Project(y) # x /\ Task(y) # x
  BY RowNames
<1>5. ASSUME NEW p \in Projects, CreateProject(r, p) PROVE RowStep(r, a)
  BY <1>1, <1>4, <1>5, OtherWrite DEF CreateProject, RowStep
<1>6. CASE Arrive(r)
  <2>1. UNCHANGED store \/ \E p \in Projects : CreateProject(r, p)
    BY <1>6 DEF Arrive, BeginRenameProject, BeginDeleteProject, BeginCreateTask, BeginUpdateTask,
                BeginDeleteTask, BeginUpload, BeginDeleteAttachment, BeginDownload, Enter
  <2> QED
    BY <1>2, <1>5, <2>1 DEF RowStep
<1>7. CASE UpdateProject(r) \/ DeleteProject(r) \/ InsertTask(r) \/ UpdateTask(r) \/ DeleteTask(r)
  <2>1. CASE UpdateProject(r)
    BY <1>1, <1>3, <1>4, <2>1, OtherWrite DEF UpdateProject, Fail, RowStep
  <2>2. CASE DeleteProject(r)
    BY <1>1, <1>3, <1>4, <2>2, OtherWrite DEF DeleteProject, Fail, RowStep
  <2>3. CASE InsertTask(r)
    <3>1. UNCHANGED <<db, latest, lock>> => Keeps(x)
      BY DEF Keeps
    <3> QED
      BY <1>1, <1>4, <2>3, <3>1, OtherWrite DEF InsertTask, RowStep
  <2>4. CASE UpdateTask(r)
    BY <1>1, <1>2, <1>3, <1>4, <2>4, OtherWrite DEF UpdateTask, Fail, RowStep
  <2>5. CASE DeleteTask(r)
    BY <1>1, <1>4, <2>5, OtherWrite DEF DeleteTask, RowStep
  <2> QED
    BY <1>7, <2>1, <2>2, <2>3, <2>4, <2>5
<1>8. CASE CountTasks(r) \/ SelectTask(r) \/ ListAttachments(r) \/ RemoveFiles(r) \/ SaveFile(r)
        \/ SelectAttachment(r) \/ RemoveFile(r) \/ Respond(r)
  BY <1>2, <1>8 DEF CountTasks, SelectTask, ListAttachments, RemoveFiles, SaveFile,
                    SelectAttachment, RemoveFile, Respond, RowStep
<1>9. CASE CheckReference(r) \/ FetchFile(r)
  <2>1. UNCHANGED <<db, latest, lock>> \/ Rollback(r)
    BY <1>9 DEF CheckReference, FetchFile, Fail, store
  <2>2. UNCHANGED <<db, latest, lock>> => Keeps(x)
    BY DEF Keeps
  <2> QED
    BY <1>3, <2>1, <2>2 DEF RowStep
<1>10. CASE Cascade(r)
  <2> DEFINE X == {Attachment(b) : b \in AttachmentsOf(req[r].on)}
             f == [y \in Rows |-> Absent]
  <2>1. WriteAll(r, X, f) /\ req[r].pc = "cascade" /\ Blockers(r) = {}
    BY <1>10 DEF Cascade, Ready, AtStatement
  <2>2. x \in X => lock[x] \in {r, NoReq}
    <3>1. UNION {Writers(r, Attachment(b)) : b \in AttachmentsOf(req[r].on)} = {}
      BY <2>1 DEF Blockers
    <3>2. \A b \in AttachmentsOf(req[r].on) : Writers(r, Attachment(b)) = {}
      BY <3>1
    <3>3. \A b \in AttachmentsOf(req[r].on) : lock[Attachment(b)] \in {r, NoReq}
      BY <3>2, WritersOf DEF AttachmentsOf
    <3> QED
      BY <3>3
  <2>3. f[x] = Absent
    BY <1>1
  <2>6. x \in X => Takes(req'[r], a)
    <3>1. req[r].op = "delete_task"
      BY <1>1, <2>1 DEF TypeInv, Fits, Reaches
    <3>2. req'[r].pc = "commit" /\ req'[r].op = req[r].op /\ req'[r].on = req[r].on
      BY <1>1, <1>10, <2>1, GotoMoves, Names DEF Cascade
    <3>3. x \in X => AttachmentTask[a] = req[r].on
      BY RowNames DEF AttachmentsOf
    <3> QED
      BY <3>1, <3>2, <3>3 DEF Takes
  <2> HIDE DEF X, f
  <2>4. CASE x \in X
    BY <1>1, <2>1, <2>2, <2>3, <2>4, <2>6 DEF WriteAll, TypeOK, StoreType, Deletes, RowStep
  <2>5. CASE x \notin X
    BY <1>1, <2>1, <2>5 DEF WriteAll, TypeOK, StoreType, Keeps, RowStep
  <2> QED
    BY <2>4, <2>5
<1>11. CASE InsertAttachment(r)
  <2>1. req[r].pc = "insert attachment" /\ req[r].op = "upload"
    BY <1>1, <1>11 DEF InsertAttachment, AtStatement, TypeInv, Fits, Reaches
  <2>2. Rollback(r) \/ Write(r, Attachment(req[r].on), Live)
    BY <1>11 DEF InsertAttachment, Fail
  <2>3. CASE req[r].on = a /\ Write(r, Attachment(req[r].on), Live)
    <3>1. lock[x] = NoReq
      BY <2>1, <2>3 DEF RefInv, Transactions, NewIsMine, Creating, NewRow, Late
    <3>2. Live # Absent
      BY DEF Live, Absent
    <3> QED
      BY <1>1, <2>1, <2>3, <3>1, <3>2 DEF Write, TypeOK, StoreType, Inserts, RowStep
  <2>4. CASE req[r].on # a /\ Write(r, Attachment(req[r].on), Live)
    <3>1. Attachment(req[r].on) # x
      BY <2>4, RowNames
    <3> QED
      BY <1>1, <2>4, <3>1, OtherWrite DEF RowStep
  <2> QED
    BY <1>3, <2>2, <2>3, <2>4
<1>12. CASE DeleteAttachment(r)
  <2>1. req[r].pc = "delete attachment" /\ Blockers(r) = {}
    BY <1>12 DEF DeleteAttachment, Ready, AtStatement
  <2>2. Update(r, Attachment(req[r].on), Absent)
    BY <1>12 DEF DeleteAttachment
  <2>3. CASE Attachment(req[r].on) = x
    <3>1. lock[x] \in {r, NoReq}
      BY <2>1, <2>3, WritersOf DEF Blockers
    <3>2. CASE UNCHANGED <<db, latest, lock>>
      BY <3>2 DEF Keeps, RowStep
    <3>3. CASE Write(r, x, Absent)
      <4>1. req[r].op = "delete_attachment" /\ req[r].on = a
        BY <1>1, <2>1, <2>3, RowNames DEF TypeInv, Fits, Reaches
      <4>2. req'[r].pc = "commit" /\ req'[r].op = req[r].op /\ req'[r].on = req[r].on
        BY <1>1, <1>12, <2>1, GotoMoves, Names DEF DeleteAttachment
      <4>3. Takes(req'[r], a)
        BY <4>1, <4>2 DEF Takes
      <4> QED
        BY <1>1, <3>1, <3>3, <4>3 DEF Write, TypeOK, StoreType, Deletes, RowStep
    <3> QED
      BY <2>2, <2>3, <3>2, <3>3 DEF Update
  <2>4. CASE Attachment(req[r].on) # x
    BY <1>1, <2>2, <2>4, OtherWrite DEF RowStep
  <2> QED
    BY <2>3, <2>4
<1>13. CASE CommitRequest(r)
  BY <1>1, <1>13, CommitRows DEF CommitRequest, RowStep
<1> QED
  BY <1>6, <1>7, <1>8, <1>9, <1>10, <1>11, <1>12, <1>13 DEF Proceed

-----------------------------------------------------------------------------
(* Waiting.                                                                *)

(* Until it cascades, the deletion of a task holds no attachment.          *)
CascadesFirst(r, a) == req[r].pc = "cascade" => lock[Attachment(a)] # r

WaitInv == RefInv /\ \A r \in Reqs, a \in Attachments : CascadesFirst(r, a)

(* A step of one request keeps that of all of them.                        *)
LEMMA StepCascadesFirst ==
  ASSUME WaitInv, NEW q \in Reqs, Arrive(q) \/ Proceed(q), NEW r \in Reqs, NEW a \in Attachments
  PROVE  CascadesFirst(r, a)'
<1> DEFINE x == Attachment(a)
<1>1. RefInv /\ TypeOK /\ CascadesFirst(r, a) /\ x \in Rows /\ q # NoReq /\ r # NoReq
  BY RowNames, RowStoreAssumption DEF WaitInv, RefInv, TypeInv
<1>2. RowStep(q, a)
  BY <1>1, StepRows
<1>3. CASE r # q
  <2>1. req'[r] = req[r]
    BY <1>1, <1>3, ArriveStarts, ProceedAdvances DEF RefInv, Advances
  <2>2. lock'[x] = r => lock[x] = r
    BY <1>1, <1>2, <1>3 DEF RowStep, Keeps, Inserts, Commits, Undoes, Deletes
  <2> QED
    BY <1>1, <2>1, <2>2 DEF CascadesFirst, Attachment
<1>4. CASE r = q /\ req'[r].pc = "cascade"
  <2>1. req[r].pc = "delete task"
    BY <1>1, <1>4, ArriveStarts, ProceedAdvances
    DEF RefInv, Advances, Started, Answered, Listed, Moved
  <2>2. lock[x] # r
    BY <1>1, <2>1 DEF RefInv, Transactions, HoldsLate, Late
  <2>3. Keeps(x)
    BY <1>2, <1>4, <2>1, <2>2 DEF RowStep, Inserts, Commits, Undoes, Takes
  <2> QED
    BY <2>2, <2>3 DEF CascadesFirst, Keeps, Attachment
<1> QED
  BY <1>3, <1>4 DEF CascadesFirst

(* Nobody cascades at first.                                               *)
LEMMA WaitInit == Init => WaitInv
<1>1. Init => \A r \in Reqs, a \in Attachments : CascadesFirst(r, a)
  BY IdleType DEF Init, CascadesFirst
<1> QED
  BY <1>1, RefInit DEF WaitInv

(* Every step keeps what is known of who waits.                            *)
LEMMA WaitStep == WaitInv /\ [Next]_vars => WaitInv'
<1>1. WaitInv /\ [Next]_vars => RefInv'
  BY RefStep DEF WaitInv
<1>2. ASSUME WaitInv, NEW q \in Reqs, Arrive(q) \/ Proceed(q)
      PROVE  (\A r \in Reqs, a \in Attachments : CascadesFirst(r, a))'
  BY <1>2, StepCascadesFirst
<1>3. Restart => (\A r \in Reqs, a \in Attachments : CascadesFirst(r, a))'
  BY IdleType DEF Restart, CascadesFirst
<1>4. WaitInv /\ UNCHANGED vars => (\A r \in Reqs, a \in Attachments : CascadesFirst(r, a))'
  BY DEF WaitInv, vars, CascadesFirst, Attachment
<1> QED
  BY <1>1, <1>2, <1>3, <1>4 DEF WaitInv, Next

(* Who holds a row is past the statements that take one.                   *)
LEMMA HoldersAreLate ==
  ASSUME RefInv, NEW r
  PROVE  \A x \in Rows : \A q \in Holders(r, x) :
           /\ q \in Reqs /\ req[q].pc \in Late
           /\ req[q].pc = "reference" =>
                req[q].op \in {"create_task", "upload"} /\ x = NewRow(req[q])
           /\ req[q].pc = "reference" => db[x] = Absent
           /\ req[q].pc # "commit" => lock[x] = q
<1> SUFFICES ASSUME NEW x \in Rows, NEW q \in Holders(r, x)
             PROVE  /\ q \in Reqs /\ req[q].pc \in Late
                    /\ req[q].pc = "reference" =>
                         req[q].op \in {"create_task", "upload"} /\ x = NewRow(req[q])
                    /\ req[q].pc = "reference" => db[x] = Absent
                    /\ req[q].pc # "commit" => lock[x] = q
  OBVIOUS
<1>1. lock[x] \in Reqs \union {NoReq} /\ share[x] \subseteq Reqs
  BY DEF RefInv, TypeInv, TypeOK, StoreType
<1>2. q \in Reqs /\ (lock[x] = q \/ q \in share[x])
  BY <1>1 DEF Holders, Writers
<1>3. HoldsLate(q) /\ NewIsMine(q) /\ Reaches(req[q].op, req[q].pc)
  BY <1>2 DEF RefInv, Transactions, TypeInv, Fits
<1>4. req[q].pc \in Late /\ (req[q].pc # "commit" => lock[x] = q)
  BY <1>2, <1>3 DEF HoldsLate, Late
<1>5. ASSUME req[q].pc = "reference"
      PROVE  req[q].op \in {"create_task", "upload"} /\ x = NewRow(req[q]) /\ db[x] = Absent
  <2>1. req[q].op \in {"create_task", "upload"} /\ x = NewRow(req[q])
    BY <1>3, <1>4, <1>5 DEF HoldsLate, Reaches
  <2> QED
    BY <1>3, <1>5, <2>1 DEF NewIsMine, Creating
<1> QED
  BY <1>2, <1>4, <1>5

(* Whom the cascade waits for has only to commit; whom a reference waits   *)
(* for has found its own, but for an upload that waits for the creation of *)
(* its task; and who has only to commit waits for nobody.                  *)
LEMMA WaitsForLater ==
  ASSUME WaitInv, NEW r \in Reqs, NEW q \in Blockers(r)
  PROVE  /\ req[q].pc \in Late /\ req[r].pc # "commit"
         /\ req[r].pc = "cascade" => req[q].pc = "commit"
         /\ req[r].pc = "reference" /\ req[q].pc = "reference" =>
              req[r].op = "upload" /\ req[q].op = "create_task"
<1>1. RefInv /\ TypeInv /\ Fits(req[r])
  BY DEF WaitInv, RefInv, TypeInv
<1>2. \A x : Writers(r, x) \subseteq Holders(r, x) /\ Deleters(r, x) \subseteq Holders(r, x)
  BY DEF Holders, Deleters
<1>3. CASE req[r].pc = "cascade"
  <2>1. PICK a \in AttachmentsOf(req[r].on) : q \in Writers(r, Attachment(a))
    BY <1>3 DEF Blockers
  <2>2. a \in Attachments /\ db[Attachment(a)] # Absent /\ Attachment(a) \in Rows
    BY <2>1, RowNames DEF AttachmentsOf
  <2>3. q \in Holders(r, Attachment(a)) /\ lock[Attachment(a)] = q
    BY <1>2, <2>1 DEF Writers
  <2>4. q \in Reqs /\ req[q].pc \in Late /\ req[q].pc # "reference"
    BY <1>1, <2>2, <2>3, HoldersAreLate
  <2>5. req[q].pc # "cascade"
    BY <2>2, <2>3, <2>4 DEF WaitInv, CascadesFirst
  <2> QED
    BY <1>3, <2>4, <2>5 DEF Late
<1>4. CASE req[r].pc = "reference"
  <2>1. req[r].op \in {"create_task", "upload"}
    BY <1>1, <1>4 DEF Fits, Reaches
  <2>2. q \in Holders(r, Referred(r))
    BY <1>2, <1>4 DEF Blockers
  <2>3. CASE req[r].op = "create_task"
    <3>1. PICK p \in Projects : Referred(r) = Project(p)
      BY <1>1, <1>4, <2>3, CallIsAbout, TaskFilesAssumption DEF Referred
    <3>2. Project(p) \in Rows /\ \A y : Project(p) # Task(y) /\ Project(p) # Attachment(y)
      BY RowNames
    <3>3. req[q].pc \in Late /\ req[q].pc # "reference"
      BY <1>1, <2>2, <3>1, <3>2, HoldersAreLate DEF NewRow
    <3> QED
      BY <1>4, <3>3
  <2>4. CASE req[r].op = "upload"
    <3>1. PICK t \in Tasks : Referred(r) = Task(t)
      BY <1>1, <1>4, <2>4, CallIsAbout, TaskFilesAssumption DEF Referred
    <3>2. Task(t) \in Rows /\ \A y : Task(t) # Attachment(y)
      BY RowNames
    <3>3. /\ req[q].pc \in Late
          /\ req[q].pc = "reference" => req[q].op \in {"create_task", "upload"}
                                        /\ Task(t) = NewRow(req[q])
      BY <1>1, <2>2, <3>1, <3>2, HoldersAreLate
    <3>4. req[q].pc = "reference" => req[q].op = "create_task"
      BY <3>2, <3>3 DEF NewRow
    <3> QED
      BY <1>4, <2>4, <3>3, <3>4
  <2> QED
    BY <2>1, <2>3, <2>4
<1>5. CASE req[r].pc \notin {"cascade", "reference"}
  <2>1. \/ /\ q \in Holders(r, Project(req[r].on))
           /\ req[r].pc \in {"update project", "delete project"}
        \/ q \in Holders(r, Task(req[r].on)) /\ req[r].pc \in {"update task", "delete task"}
        \/ q \in Holders(r, Attachment(req[r].on)) /\ req[r].pc = "delete attachment"
    BY <1>2, <1>5 DEF Blockers
  <2>2. PICK x \in Rows : q \in Holders(r, x)
    BY <1>1, <2>1, CallIsAbout, RowNames DEF Fits, Reaches
  <2>3. req[q].pc \in Late
    BY <1>1, <2>2, HoldersAreLate
  <2> QED
    BY <1>5, <2>1, <2>3
<1> QED
  BY <1>3, <1>4, <1>5

(* However many requests wait for each other, one of them can go on:       *)
(* deletions of projects, tasks and attachments take their rows in an      *)
(* order that uploads and updates follow too.                              *)
THEOREM NoCircles == Spec => []NobodyWaitsInACircle
<1>1. ASSUME WaitInv PROVE NobodyWaitsInACircle
  <2> SUFFICES ASSUME NEW S \in SUBSET Reqs, S # {}
               PROVE  \E r \in S : Blockers(r) \intersect S = {}
    BY DEF NobodyWaitsInACircle
  <2>1. CASE \E r \in S : req[r].pc = "commit"
    BY <1>1, <2>1, WaitsForLater
  <2>2. CASE (\A r \in S : req[r].pc # "commit") /\ \E r \in S : req[r].pc = "cascade"
    BY <1>1, <2>2, WaitsForLater
  <2>3. CASE (\A r \in S : req[r].pc \notin {"commit", "cascade"})
    <3>1. ASSUME NEW r \in S, NEW q \in Blockers(r) \intersect S PROVE req[q].pc = "reference"
      BY <1>1, <2>3, <3>1, WaitsForLater DEF Late
    <3>2. CASE \E r \in S : req[r].pc = "reference" /\ req[r].op = "create_task"
      <4>1. PICK r \in S : req[r].pc = "reference" /\ req[r].op = "create_task"
        BY <3>2
      <4>2. ASSUME NEW q \in Blockers(r) \intersect S PROVE FALSE
        BY <1>1, <3>1, <4>1, <4>2, WaitsForLater
      <4> QED
        BY <4>2
    <3>3. CASE \E r \in S : req[r].pc = "reference" /\ req[r].op # "create_task"
               /\ \A s \in S : ~(req[s].pc = "reference" /\ req[s].op = "create_task")
      <4>1. PICK r \in S : req[r].pc = "reference"
        BY <3>3
      <4>2. ASSUME NEW q \in Blockers(r) \intersect S PROVE FALSE
        BY <1>1, <3>1, <3>3, <4>1, <4>2, WaitsForLater
      <4> QED
        BY <4>2
    <3>4. CASE \A r \in S : req[r].pc # "reference"
      BY <3>1, <3>4
    <3> QED
      BY <3>2, <3>3, <3>4
  <2> QED
    BY <2>1, <2>2, <2>3
<1> QED
  BY <1>1, WaitInit, WaitStep, PTL DEF Spec

-----------------------------------------------------------------------------
(* The steps of one request keep what is known of the files.               *)

(* A step of r, as the lemmas above describe it.                           *)
Step(r) == Advances(r) /\ Stores(r) /\ \A a \in Attachments : RowStep(r, a)

(* A file that was stored is in the storage or has been removed.           *)
LEMMA StorageGrows ==
  ASSUME NEW r, Stores(r)
  PROVE  files \union removed \subseteq files' \union removed'
BY DEF Stores, storage, Saved, Removed

(* A request that holds the row of an attachment still does, or lets go.   *)
LEMMA RowsKeepFiles ==
  ASSUME FileInv, RefInv', NEW r \in Reqs, Step(r), NEW a \in Attachments
  PROVE  Stored(a)' /\ OnlyUploads(a)'
<1> DEFINE x == Attachment(a)
<1>1. Stored(a) /\ OnlyUploads(a) /\ RowStep(r, a) /\ Advances(r) /\ x \in Rows
  BY RowNames DEF FileInv, Step
<1>2. files \union removed \subseteq files' \union removed'
  BY StorageGrows DEF Step
<1>3. lock[x] \in Reqs \union {NoReq} /\ r # NoReq
  BY <1>1, RowStoreAssumption DEF FileInv, RefInv, TypeInv, TypeOK, StoreType
<1>4. lock'[x] = r => req'[r].pc \in Late
  BY <1>1 DEF RefInv, Transactions, HoldsLate
<1>5. lock[x] = r => req[r].pc \in Late
  BY <1>1 DEF FileInv, RefInv, Transactions, HoldsLate
<1>6. Stored(a)'
  <2> SUFFICES ASSUME db'[x] # Absent \/ latest'[x] # Absent PROVE a \in files' \union removed'
    BY DEF Stored, Attachment
  <2>1. CASE Inserts(r, a)
    BY <1>2, <2>1 DEF Inserts, FileInv, Fetched
  <2>2. CASE Keeps(x) \/ Deletes(r, x) \/ Commits(r, x) \/ Undoes(r, x)
    <3>1. db[x] # Absent \/ latest[x] # Absent
      BY <2>2 DEF Keeps, Deletes, Commits, Undoes
    <3> QED
      BY <1>1, <1>2, <3>1 DEF Stored
  <2> QED
    BY <1>1, <2>1, <2>2 DEF RowStep
<1>7. OnlyUploads(a)'
  <2> SUFFICES ASSUME lock'[x] # NoReq, latest'[x] # Absent
               PROVE  Uploading(req'[lock'[x]]) /\ req'[lock'[x]].on = a
    BY DEF OnlyUploads, Attachment, Uploading
  <2>1. ASSUME lock'[x] = r, req[r].op = "upload", req[r].on = a,
               req[r].pc \in Late \/ req[r].pc = "insert attachment"
        PROVE  Uploading(req'[r]) /\ req'[r].on = a
    <3>1. ~Started(r) /\ ~Answered(r) /\ ~Listed(r)
      BY <1>4, <2>1 DEF Started, Answered, Listed, Late
    <3>2. Moved(r)
      BY <1>1, <3>1 DEF Advances
    <3> QED
      BY <2>1, <3>2 DEF Moved, Uploading
  <2>2. CASE Inserts(r, a)
    <3>1. lock'[x] = r
      BY <2>2 DEF Inserts
    <3>2. req[r].op = "upload" /\ req[r].on = a /\ req[r].pc = "insert attachment"
      BY <2>2 DEF Inserts
    <3> QED
      BY <2>1, <3>1, <3>2
  <2>3. CASE Keeps(x)
    <3>1. lock'[x] = lock[x] /\ lock[x] \in Reqs
      BY <1>3, <2>3 DEF Keeps
    <3>2. Uploading(req[lock[x]]) /\ req[lock[x]].on = a
      BY <1>1, <2>3, <3>1 DEF OnlyUploads, Keeps
    <3>3. CASE lock[x] = r
      <4>1. req[r].op = "upload" /\ req[r].on = a /\ req[r].pc \in Late
        BY <1>5, <3>2, <3>3 DEF Uploading
      <4> QED
        BY <2>1, <3>1, <3>3, <4>1
    <3>4. CASE lock[x] # r
      <4>1. req'[lock[x]] = req[lock[x]]
        BY <1>1, <3>1, <3>4 DEF Advances
      <4> QED
        BY <3>1, <3>2, <4>1
    <3> QED
      BY <3>3, <3>4
  <2>4. ~Deletes(r, x) /\ ~Commits(r, x) /\ ~Undoes(r, x)
    BY DEF Deletes, Commits, Undoes
  <2> QED
    BY <1>1, <2>2, <2>3, <2>4 DEF RowStep
<1> QED
  BY <1>6, <1>7

(* A row that was found has a stored file.                                 *)
LEMMA FetchesKeepFiles ==
  ASSUME FileInv, RefInv', NEW r \in Reqs, Step(r), NEW q \in Reqs
  PROVE  Fetched(q)'
<1>1. files \union removed \subseteq files' \union removed'
  BY StorageGrows DEF Step
<1>2. CASE q # r
  <2>1. req'[q] = req[q] /\ Fetched(q)
    BY <1>2 DEF Step, Advances, FileInv
  <2> QED
    BY <1>1, <2>1 DEF Fetched
<1>3. CASE q = r
  <2> SUFFICES ASSUME req'[r].pc \in {"insert attachment", "fetch file"}
               PROVE  req'[r].on \in files' \union removed'
    BY <1>3 DEF Fetched
  <2>1. Moved(r)
    BY DEF Step, Advances, Started, Answered, Listed
  <2>2. CASE req'[r].pc = "insert attachment"
    BY <2>1, <2>2 DEF Moved, Saved
  <2>3. CASE req'[r].pc = "fetch file"
    <3>1. req[r].op = "download" /\ req[r].pc \notin {"idle", "done"} /\ req'[r].on = req[r].on
      BY <2>1, <2>3 DEF Moved, RefInv, TypeInv, Fits, Reaches
    <3>2. req[r].on \in Attachments
      BY <3>1, CallIsAbout DEF FileInv, RefInv
    <3>3. db[Attachment(req[r].on)] # Absent
      BY <2>1, <2>3 DEF Moved
    <3>4. req[r].on \in files \union removed
      BY <3>2, <3>3 DEF FileInv, Stored
    <3> QED
      BY <1>1, <3>1, <3>4
  <2> QED
    BY <2>2, <2>3
<1> QED
  BY <1>2, <1>3

(* An upload keeps its file: nobody who may remove it knows of it.         *)
LEMMA UploadsKeepFiles ==
  ASSUME FileInv, RefInv', NEW r \in Reqs, Step(r), NEW q \in Reqs
  PROVE  UploadKept(q)'
<1>1. CASE q # r
  <2>1. req'[q] = req[q] /\ UploadKept(q) /\ Untouched(q, r)
    BY <1>1 DEF Step, Advances, FileInv
  <2> SUFFICES ASSUME req[q].op = "upload",
                      req[q].pc \in {"insert attachment", "reference", "commit"}
               PROVE  req[q].on \in files'
    BY <2>1 DEF UploadKept
  <2>2. req[q].on \in files /\ ~Removing(req[r], req[q].on)
    BY <2>1 DEF UploadKept, Untouched, Uploading
  <2>3. CASE UNCHANGED storage
    BY <2>2, <2>3 DEF storage
  <2>4. CASE Saved(req[r].on)
    BY <2>2, <2>4 DEF Saved
  <2>5. ASSUME NEW A, Removed(A), \A a \in A : Removing(req[r], a)
        PROVE  req[q].on \in files'
    BY <2>2, <2>5 DEF Removed
  <2> QED
    BY <2>3, <2>4, <2>5 DEF Step, Stores
<1>2. CASE q = r
  <2> SUFFICES ASSUME req'[r].op = "upload",
                      req'[r].pc \in {"insert attachment", "reference", "commit"}
               PROVE  req'[r].on \in files'
    BY <1>2 DEF UploadKept
  <2>1. Moved(r)
    BY DEF Step, Advances, Started, Answered, Listed
  <2>2. CASE req'[r].pc = "insert attachment"
    BY <2>1, <2>2 DEF Moved, Saved
  <2>3. CASE req'[r].pc \in {"reference", "commit"}
    <3>1. /\ req[r].op = "upload" /\ req'[r].on = req[r].on /\ files' = files
          /\ req[r].pc \in {"insert attachment", "reference"}
      BY <2>1, <2>3 DEF Moved, storage
    <3> QED
      BY <3>1 DEF FileInv, UploadKept
  <2> QED
    BY <2>2, <2>3
<1> QED
  BY <1>1, <1>2

(* No deletion comes to know of an attachment before its upload commits.   *)
LEMMA UploadsStayUntouched ==
  ASSUME FileInv, RefInv', NEW r \in Reqs, Step(r), NEW q \in Reqs, NEW s \in Reqs
  PROVE  Untouched(q, s)'
<1> SUFFICES ASSUME Uploading(req'[q]), Removing(req'[s], req'[q].on) PROVE FALSE
  BY DEF Untouched, Uploading, Removing
<1>1. Untouched(q, s) /\ Advances(r)
  BY DEF FileInv, Step
<1>2. CASE q # r /\ s # r
  BY <1>1, <1>2 DEF Advances, Untouched
<1>3. CASE q = r /\ s = r
  <2>1. req'[r].listed = {} /\ req'[r].op = "upload"
    BY <1>3 DEF Uploading, RefInv, TypeInv, Fits
  <2> QED
    BY <1>3, <2>1 DEF Removing
<1>4. CASE q = r /\ s # r
  <2>1. req'[s] = req[s]
    BY <1>1, <1>4 DEF Advances
  <2>2. CASE Started(r)
    BY <1>4, <2>1, <2>2 DEF Started, Removing
  <2>3. CASE Moved(r)
    <3>1. Uploading(req[r]) /\ req'[r].on = req[r].on
      BY <1>4, <2>3 DEF Moved, Uploading
    <3> QED
      BY <1>1, <1>4, <2>1, <3>1 DEF Untouched
  <2> QED
    BY <1>1, <1>4, <2>2, <2>3 DEF Advances, Answered, Listed, Uploading
<1>5. CASE q # r /\ s = r
  <2> DEFINE a == req[q].on
  <2>1. req'[q] = req[q]
    BY <1>1, <1>5 DEF Advances
  <2>2. ~Removing(req[r], a)
    BY <1>1, <1>5, <2>1 DEF Untouched
  <2>3. db[Attachment(a)] = Absent
    BY <2>1 DEF FileInv, RefInv, Transactions, NewIsMine, Creating, NewRow, Uploading
  <2>4. Removing(req'[r], a)
    BY <1>5, <2>1
  <2> HIDE DEF a
  <2>5. CASE Started(r)
    BY <2>4, <2>5 DEF Started, Removing
  <2>6. CASE Answered(r)
    BY <2>4, <2>6 DEF Answered, Removing
  <2>7. CASE Listed(r)
    BY <2>3, <2>4, <2>7 DEF Listed, AttachmentsOf, Removing
  <2>8. CASE Moved(r)
    <3>1. /\ req'[r].op = "delete_attachment" /\ req'[r].on = a
          /\ req'[r].pc \in {"remove file", "delete attachment", "commit"}
      BY <2>2, <2>4, <2>8 DEF Moved, Removing
    <3>2. req[r].op = "delete_attachment" /\ req[r].on = a
      BY <2>8, <3>1 DEF Moved
    <3>3. CASE req'[r].pc = "remove file"
      BY <2>3, <2>8, <3>2, <3>3 DEF Moved
    <3>4. CASE req'[r].pc = "delete attachment"
      BY <2>2, <2>8, <3>2, <3>4 DEF Moved, Removing
    <3>5. CASE req'[r].pc = "commit"
      BY <2>2, <2>8, <3>2, <3>5 DEF Moved, DeleteAttachment, Ready, AtStatement, Removing
    <3> QED
      BY <3>1, <3>3, <3>4, <3>5
  <2> QED
    BY <1>1, <2>5, <2>6, <2>7, <2>8 DEF Advances
<1> QED
  BY <1>2, <1>3, <1>4, <1>5

(* What a deletion has removed stays removed until it commits.             *)
LEMMA DeletionsStayDone ==
  ASSUME FileInv, RefInv', NEW r \in Reqs, Step(r), NEW q \in Reqs
  PROVE  Gone(q)'
<1>1. Advances(r) /\ Stores(r) /\ Gone(q) /\ TypeInv' /\ TypeInv /\ TypeOK
  BY DEF Step, FileInv, RefInv, TypeInv
<1>2. ASSUME q # r PROVE Gone(q)'
  <2>1. req'[q] = req[q] /\ Untouched(r, q)
    BY <1>1, <1>2 DEF Advances, FileInv
  <2>2. \A a : a \in files' => a \in files \/ ~Removing(req[q], a)
    <3>1. CASE UNCHANGED storage
      BY <3>1 DEF storage
    <3>2. CASE req[r].op = "upload" /\ req[r].pc = "save file" /\ Saved(req[r].on)
      BY <2>1, <3>2 DEF Saved, Untouched, Uploading
    <3>3. ASSUME NEW A, Removed(A) PROVE files' \subseteq files
      BY <3>3 DEF Removed
    <3> QED
      BY <1>1, <3>1, <3>2, <3>3 DEF Stores
  <2>3. req[q].pc \in {"delete task", "cascade", "commit"} => req[q].listed \intersect files' = {}
    BY <1>1, <2>2 DEF Gone, Removing
  <2>4. req[q].op = "delete_attachment" /\ req[q].pc \in {"delete attachment", "commit"} =>
          req[q].on \notin files'
    BY <1>1, <2>2 DEF Gone, Removing
  <2>5. ASSUME req[q].op = "delete_attachment", req[q].pc = "commit"
        PROVE  Found(q, Attachment(req[q].on))' = Absent
    <3> DEFINE a == req[q].on
               x == Attachment(a)
    <3>1. a \in Attachments
      BY <1>1, <2>5, CallIsAbout
    <3>2. Found(q, x) = Absent /\ Removing(req[q], a) /\ RowStep(r, a) /\ OnlyUploads(a)
      BY <1>1, <2>5, <3>1 DEF Gone, Removing, Step, FileInv
    <3>3. q # NoReq /\ r # NoReq
      BY RowStoreAssumption
    <3>4. x = Attachment(req[q].on) /\ a = req[q].on
      OBVIOUS
    <3> HIDE DEF a
    <3>5. lock[x] = r => latest[x] = Absent
      BY <2>1, <3>2, <3>3 DEF OnlyUploads, Untouched
    <3> SUFFICES (IF lock'[x] = q THEN latest'[x] ELSE db'[x]) = Absent
      BY <2>1, <3>4 DEF Found, Attachment
    <3> HIDE DEF x
    <3>6. CASE Keeps(x)
      BY <3>2, <3>6 DEF Keeps, Found
    <3>7. CASE Deletes(r, x)
      BY <1>2, <3>2, <3>3, <3>7 DEF Deletes, Found
    <3>8. CASE Commits(r, x)
      BY <1>2, <3>2, <3>3, <3>5, <3>8 DEF Commits, Found
    <3>9. CASE Undoes(r, x)
      BY <1>2, <3>2, <3>3, <3>9 DEF Undoes, Found
    <3>10. CASE Inserts(r, a)
      <4>1. Removing(req[q], req[r].on) /\ Uploading(req[r])
        BY <3>2, <3>10 DEF Inserts, Uploading
      <4> QED
        BY <2>1, <4>1 DEF Untouched
    <3> USE DEF x
    <3> QED
      BY <3>2, <3>6, <3>7, <3>8, <3>9, <3>10 DEF RowStep
  <2> QED
    BY <2>1, <2>3, <2>4, <2>5 DEF Gone
<1>3. ASSUME q = r PROVE Gone(q)'
  <2>1. CASE Started(r)
    BY <1>3, <2>1 DEF Started, Gone
  <2>2. CASE Answered(r) \/ Listed(r)
    BY <1>3, <2>2 DEF Answered, Listed, Gone
  <2>3. CASE Moved(r)
    <3>1. /\ req'[r].op = req[r].op /\ req'[r].on = req[r].on
          /\ req'[r].listed = req[r].listed
      BY <2>3 DEF Moved
    <3>2. ASSUME req'[r].pc \in {"delete task", "cascade", "commit"}
          PROVE  req'[r].listed \intersect files' = {}
      <4>1. CASE req[r].op # "delete_task"
        BY <1>1, <3>1, <4>1 DEF TypeInv, Fits
      <4>2. CASE req'[r].pc = "delete task"
        BY <2>3, <3>1, <4>2 DEF Moved, Removed
      <4>3. CASE req[r].op = "delete_task" /\ req'[r].pc \in {"cascade", "commit"}
        <5>1. req[r].pc \in {"delete task", "cascade"} /\ files' = files
          BY <2>3, <4>3 DEF Moved, storage
        <5> QED
          BY <1>1, <1>3, <3>1, <5>1 DEF Gone
      <4> QED
        BY <3>2, <4>1, <4>2, <4>3
    <3>3. ASSUME req'[r].op = "delete_attachment", req'[r].pc \in {"delete attachment", "commit"}
          PROVE  req'[r].on \notin files'
      <4>1. CASE req'[r].pc = "delete attachment"
        BY <2>3, <3>1, <4>1 DEF Moved, Removed
      <4>2. CASE req'[r].pc = "commit"
        <5>1. req[r].pc = "delete attachment" /\ files' = files
          BY <2>3, <3>1, <3>3, <4>2 DEF Moved, storage, DeleteAttachment, Ready, AtStatement
        <5> QED
          BY <1>1, <1>3, <3>1, <3>3, <5>1 DEF Gone
      <4> QED
        BY <3>3, <4>1, <4>2
    <3>4. ASSUME req'[r].op = "delete_attachment", req'[r].pc = "commit"
          PROVE  Found(r, Attachment(req[r].on))' = Absent
      <4>1. DeleteAttachment(r)
        BY <2>3, <3>1, <3>4 DEF Moved
      <4>2. req[r].pc = "delete attachment" /\ Update(r, Attachment(req[r].on), Absent)
        BY <4>1 DEF DeleteAttachment, Ready, AtStatement
      <4>3. Attachment(req[r].on) \in Rows
        <5>1. req[r].op = "delete_attachment"
          BY <3>1, <3>4
        <5> QED
          BY <1>1, <4>2, <5>1, CallIsAbout, RowNames
      <4> DEFINE x == Attachment(req[r].on)
      <4>4. x = Attachment(req'[r].on)
        BY <3>1
      <4> SUFFICES (IF lock'[x] = r THEN latest'[x] ELSE db'[x]) = Absent
        BY <4>4 DEF Found, Attachment
      <4> HIDE DEF x
      <4>5. Update(r, x, Absent) /\ x \in Rows
        BY <4>2, <4>3 DEF x
      <4>6. CASE Found(r, x) = Absent
        BY <4>5, <4>6 DEF Update, Found
      <4>7. CASE Write(r, x, Absent)
        BY <1>1, <4>5, <4>7 DEF Write, TypeOK, StoreType
      <4> QED
        BY <4>5, <4>6, <4>7 DEF Update
    <3>5. Attachment(req[r].on)' = Attachment(req[r].on)
      BY <3>1 DEF Attachment
    <3> QED
      BY <1>3, <3>1, <3>2, <3>3, <3>4, <3>5 DEF Gone
  <2> QED
    BY <1>1, <2>1, <2>2, <2>3 DEF Advances
<1> QED
  BY <1>2, <1>3

(* A restart ends the requests, whatever the storage was doing.            *)
LEMMA RestartKeepsFiles ==
  ASSUME FileInv, RefInv', Restart
  PROVE  FileInv'
<1>1. files \union removed \subseteq files' \union removed'
  BY DEF Restart, storage, Saved, Removed
<1>2. /\ db' = db /\ latest' = db /\ lock' = [x \in Rows |-> NoReq]
      /\ req' = [r \in Reqs |-> Idle]
  BY DEF Restart, RollbackAll, FileInv, RefInv, TypeInv, TypeOK, StoreType
<1>3. ASSUME NEW a \in Attachments PROVE Stored(a)' /\ OnlyUploads(a)'
  <2>1. Stored(a) /\ Attachment(a) \in Rows
    BY RowNames DEF FileInv
  <2>2. Stored(a)'
    BY <1>1, <1>2, <2>1 DEF Stored, Attachment
  <2>3. OnlyUploads(a)'
    BY <1>2, <2>1 DEF OnlyUploads, Attachment
  <2> QED
    BY <2>2, <2>3
<1>4. ASSUME NEW r \in Reqs PROVE Fetched(r)' /\ UploadKept(r)' /\ Gone(r)'
  BY <1>2, IdleType DEF Fetched, UploadKept, Gone
<1>5. ASSUME NEW q \in Reqs, NEW r \in Reqs PROVE Untouched(q, r)'
  BY <1>2, IdleType DEF Untouched, Uploading
<1> QED
  BY <1>3, <1>4, <1>5 DEF FileInv

(* There are no files and no requests yet.                                 *)
LEMMA FileInit == Init => FileInv
<1>1. ASSUME Init PROVE FileInv
  <2>1. RefInv
    BY <1>1, RefInit
  <2>2. ASSUME NEW a \in Attachments PROVE Stored(a) /\ OnlyUploads(a)
    <3>1. Attachment(a) \in Rows
      BY RowNames
    <3> QED
      BY <1>1, <3>1 DEF Init, Stored, OnlyUploads
  <2>3. ASSUME NEW r \in Reqs PROVE Fetched(r) /\ UploadKept(r) /\ Gone(r)
    BY <1>1, IdleType DEF Init, Fetched, UploadKept, Gone
  <2>4. ASSUME NEW q \in Reqs, NEW r \in Reqs PROVE Untouched(q, r)
    BY <1>1, IdleType DEF Init, Untouched, Uploading
  <2> QED
    BY <2>1, <2>2, <2>3, <2>4 DEF FileInv
<1> QED
  BY <1>1

(* Every step keeps what is known of the files.                            *)
LEMMA FileStep == FileInv /\ [Next]_vars => FileInv'
<1>1. ASSUME FileInv, Next PROVE FileInv'
  <2>1. RefInv'
    BY <1>1, RefStep DEF FileInv
  <2>2. ASSUME NEW r \in Reqs, Arrive(r) \/ Proceed(r) PROVE FileInv'
    <3>1. RefInv /\ TypeInv /\ TypeOK
      BY <1>1 DEF FileInv, RefInv, TypeInv
    <3>2. Advances(r)
      BY <2>2, <3>1, ArriveStarts, ProceedAdvances DEF Advances
    <3>3. Step(r)
      BY <2>2, <3>1, <3>2, StepStores, StepRows DEF Step
    <3> QED
      BY <1>1, <2>1, <3>3, RowsKeepFiles, FetchesKeepFiles, UploadsKeepFiles,
         UploadsStayUntouched, DeletionsStayDone DEF FileInv
  <2> QED
    BY <1>1, <2>1, <2>2, RestartKeepsFiles DEF Next
<1>2. ASSUME FileInv, UNCHANGED vars PROVE FileInv'
  <2>1. RefInv'
    BY <1>2, RefStep DEF FileInv
  <2>2. /\ db' = db /\ latest' = latest /\ lock' = lock /\ req' = req
        /\ files' = files /\ removed' = removed
    BY <1>2 DEF vars
  <2> QED
    BY <1>2, <2>1, <2>2 DEF FileInv, Stored, OnlyUploads, Fetched, UploadKept, Gone, Untouched,
         Uploading, Removing, Found, Attachment
<1> QED
  BY <1>1, <1>2

(* A file that a row or a download names and the storage lacks was removed *)
(* by a deletion: none is lost otherwise, through failures and restarts.   *)
THEOREM MissingFilesHold == Spec => []MissingFileWasDeleted
<1>1. FileInv => MissingFileWasDeleted
  BY DEF FileInv, Stored, Fetched, AtStatement, MissingFileWasDeleted
<1> QED
  BY <1>1, FileInit, FileStep, PTL DEF Spec

-----------------------------------------------------------------------------
(* Successes.                                                              *)

(* At its commit a request does nothing else.                              *)
LEMMA CommitIsLast ==
  ASSUME NEW r, Proceed(r), req[r].pc = "commit"
  PROVE  CommitRequest(r)
BY DEF Proceed, UpdateProject, CountTasks, DeleteProject, InsertTask, CheckReference,
       SelectTask, UpdateTask, ListAttachments, RemoveFiles, DeleteTask, Cascade, SaveFile,
       InsertAttachment, SelectAttachment, RemoveFile, DeleteAttachment, FetchFile, Respond,
       Ready, AtStatement

(* Only a commit changes what is committed.                                *)
LEMMA StepCommits ==
  ASSUME NEW r, Arrive(r) \/ Proceed(r)
  PROVE  UNCHANGED db \/ CommitRequest(r)
<1>1. \A y, v : Write(r, y, v) \/ Update(r, y, v) => UNCHANGED db
  BY DEF Write, Update
<1>2. UNCHANGED store \/ Rollback(r) => UNCHANGED db
  BY DEF store, Rollback
<1>3. CASE Arrive(r)
  BY <1>1, <1>2, <1>3 DEF Arrive, CreateProject, BeginRenameProject, BeginDeleteProject,
       BeginCreateTask, BeginUpdateTask, BeginDeleteTask, BeginUpload, BeginDeleteAttachment,
       BeginDownload, Enter
<1>4. CASE UpdateProject(r) \/ CountTasks(r) \/ DeleteProject(r) \/ InsertTask(r)
           \/ CheckReference(r) \/ SelectTask(r) \/ UpdateTask(r) \/ DeleteTask(r)
  BY <1>1, <1>2, <1>4 DEF UpdateProject, CountTasks, DeleteProject, InsertTask, CheckReference,
       SelectTask, UpdateTask, DeleteTask, Fail
<1>5. CASE Cascade(r)
  BY <1>5 DEF Cascade, WriteAll
<1>6. CASE ListAttachments(r) \/ RemoveFiles(r) \/ SaveFile(r) \/ InsertAttachment(r)
           \/ SelectAttachment(r) \/ RemoveFile(r) \/ DeleteAttachment(r) \/ FetchFile(r)
           \/ Respond(r)
  BY <1>1, <1>2, <1>6 DEF ListAttachments, RemoveFiles, SaveFile, InsertAttachment,
       SelectAttachment, RemoveFile, DeleteAttachment, FetchFile, Respond, Fail
<1> QED
  BY <1>3, <1>4, <1>5, <1>6 DEF Proceed

(* A request that is answered with a success commits in that step.         *)
LEMMA SuccessIsCommit ==
  ASSUME TypeInv, Next, NEW r \in Reqs, Committing(r)
  PROVE  CommitRequest(r)
<1>1. req[r].pc = "commit" /\ req'[r].status = 200
  BY DEF Committing, Success
<1>2. req[r].status = 0
  BY <1>1, CallAtStatement DEF TypeInv, Calls
<1>3. ~Restart
  <2>1. Restart => req'[r] = Idle
    BY DEF Restart
  <2>2. Idle.status = 0
    BY DEF Idle, Call
  <2> QED
    BY <1>1, <2>1, <2>2
<1>4. ASSUME NEW q \in Reqs, Arrive(q) \/ Proceed(q) PROVE q = r
  <2>1. Advances(q)
    BY <1>4, ArriveStarts, ProceedAdvances DEF TypeInv, Advances
  <2> QED
    BY <1>1, <1>2, <2>1 DEF Advances
<1>5. ~Arrive(r)
  BY <1>1, ArriveStarts DEF TypeInv, Started
<1>6. Proceed(r)
  BY <1>3, <1>4, <1>5 DEF Next
<1> QED
  BY <1>1, <1>6, CommitIsLast

(* An upload that is answered with a success has its file in the storage.  *)
THEOREM UploadsHold == Spec => UploadIsStored
<1>1. FileInv /\ [Next]_vars =>
        [\A r \in Reqs : Committing(r) /\ req[r].op = "upload" => req[r].on \in files]_vars
  BY DEF FileInv, UploadKept, Committing
<1> QED
  BY <1>1, FileInit, FileStep, PTL DEF Spec, UploadIsStored

(* A deletion that is answered with a success has removed every file it    *)
(* listed, and the file and the row of its attachment.                     *)
THEOREM DeletionsHold == Spec => DeletionRemovesWhatItListed
<1>1. ASSUME FileInv, Next, NEW r \in Reqs, Committing(r)
      PROVE  /\ req[r].listed \intersect files = {}
             /\ req[r].op = "delete_attachment" =>
                  req[r].on \notin files /\ db'[Attachment(req[r].on)] = Absent
  <2>1. req[r].pc = "commit" /\ Gone(r) /\ TypeInv
    BY <1>1 DEF Committing, FileInv, RefInv
  <2>2. CASE req[r].op = "delete_attachment"
    <3>1. Attachment(req[r].on) \in Rows
      BY <2>1, <2>2, CallIsAbout, RowNames
    <3>2. Commit(r)
      BY <1>1, <2>1, SuccessIsCommit DEF CommitRequest
    <3>3. db'[Attachment(req[r].on)] = Found(r, Attachment(req[r].on))
      BY <2>1, <3>1, <3>2 DEF Commit, TypeInv, TypeOK, StoreType
    <3> QED
      BY <2>1, <2>2, <3>3 DEF Gone
  <2> QED
    BY <2>1, <2>2 DEF Gone
<1>2. FileInv /\ [Next]_vars =>
        [\A r \in Reqs : Committing(r) =>
           /\ req[r].listed \intersect files = {}
           /\ req[r].op = "delete_attachment" =>
                req[r].on \notin files /\ db'[Attachment(req[r].on)] = Absent]_vars
  BY <1>1
<1> QED
  BY <1>2, FileInit, FileStep, PTL DEF Spec, DeletionRemovesWhatItListed

-----------------------------------------------------------------------------
(* Orphans.                                                                *)

(* Whoever has deleted the row of an attachment and not yet committed has  *)
(* only that left to do.                                                   *)
DeletedBy(a) ==
  lock[Attachment(a)] # NoReq /\ latest[Attachment(a)] = Absent =>
    Takes(req[lock[Attachment(a)]], a)

OrphanInv == FileInv /\ \A a \in Attachments : DeletedBy(a)

(* Every step keeps who deletes which row, and a row changes only by the   *)
(* commit of the request that holds it.                                    *)
LEMMA StepKeepsDeletions ==
  ASSUME OrphanInv, TypeInv', Next, NEW a \in Attachments
  PROVE  /\ DeletedBy(a)'
         /\ db'[Attachment(a)] # db[Attachment(a)] =>
              \E r \in Reqs : CommitRequest(r) /\ Commits(r, Attachment(a))
<1> DEFINE x == Attachment(a)
<1>1. FileInv /\ RefInv /\ TypeInv /\ TypeOK /\ x \in Rows
  BY RowNames DEF OrphanInv, FileInv, RefInv, TypeInv
<1>2. lock[x] # NoReq /\ latest[x] = Absent => lock[x] \in Reqs /\ Takes(req[lock[x]], a)
  BY <1>1 DEF OrphanInv, DeletedBy, TypeOK, StoreType
<1> SUFFICES /\ lock'[x] # NoReq /\ latest'[x] = Absent => Takes(req'[lock'[x]], a)
             /\ db'[x] # db[x] => \E r \in Reqs : CommitRequest(r) /\ Commits(r, x)
  BY DEF DeletedBy, Attachment
<1> HIDE DEF x
<1>3. CASE Restart
  BY <1>1, <1>3 DEF Restart, RollbackAll, TypeOK, StoreType
<1>4. ASSUME NEW r \in Reqs, Arrive(r) \/ Proceed(r)
      PROVE  /\ lock'[x] # NoReq /\ latest'[x] = Absent => Takes(req'[lock'[x]], a)
             /\ db'[x] # db[x] => CommitRequest(r) /\ Commits(r, x)
  <2>1. RowStep(r, a) /\ r # NoReq
    BY <1>1, <1>4, StepRows, RowStoreAssumption
  <2>2. req[r].pc = "commit" => CommitRequest(r)
    <3>1. Arrive(r) => req[r].pc = "idle"
      BY <1>1, ArriveStarts DEF Started
    <3> QED
      BY <1>4, <3>1, CommitIsLast
  <2>3. \A q \in Reqs \ {r} : req'[q] = req[q]
    BY <1>1, <1>4, ArriveStarts, ProceedAdvances DEF Advances
  <2>4. ASSUME Keeps(x), lock[x] # NoReq, latest[x] = Absent PROVE Takes(req'[lock[x]], a)
    <3>1. CASE lock[x] = r
      <4>1. Commit(r)
        BY <1>2, <2>2, <2>4, <3>1 DEF Takes, CommitRequest
      <4>2. lock'[x] # r
        BY <1>1, <2>1, <4>1 DEF Commit, Release, TypeOK, StoreType
      <4> QED
        BY <2>4, <3>1, <4>2 DEF Keeps
    <3>2. CASE lock[x] # r
      BY <1>2, <2>3, <2>4, <3>2
    <3> QED
      BY <3>1, <3>2
  <2>5. CASE Keeps(x)
    BY <2>4, <2>5 DEF Keeps
  <2>6. CASE Deletes(r, x) /\ Takes(req'[r], a)
    BY <2>6 DEF Deletes
  <2>7. CASE Inserts(r, a)
    BY <2>7 DEF Inserts, x
  <2>8. CASE Undoes(r, x)
    BY <2>8 DEF Undoes
  <2>9. CASE Commits(r, x)
    <3>1. db'[x] # db[x] => CommitRequest(r)
      <4>1. UNCHANGED db \/ CommitRequest(r)
        BY <1>4, StepCommits
      <4> QED
        BY <4>1
    <3> QED
      BY <2>9, <3>1 DEF Commits
  <2> QED
    BY <2>1, <2>5, <2>6, <2>7, <2>8, <2>9 DEF RowStep, x
<1> QED
  BY <1>3, <1>4 DEF Next

(* No attachment is being deleted yet.                                     *)
LEMMA OrphanInit == Init => OrphanInv
<1>1. ASSUME Init, NEW a \in Attachments PROVE DeletedBy(a)
  <2>1. Attachment(a) \in Rows
    BY RowNames
  <2> QED
    BY <1>1, <2>1 DEF Init, DeletedBy
<1> QED
  BY <1>1, FileInit DEF OrphanInv

(* Every step keeps who deletes which row.                                 *)
LEMMA OrphanStep == OrphanInv /\ [Next]_vars => OrphanInv'
<1>1. OrphanInv /\ [Next]_vars => FileInv' /\ TypeInv'
  BY FileStep DEF OrphanInv, FileInv, RefInv
<1>2. ASSUME OrphanInv, Next PROVE OrphanInv'
  BY <1>1, <1>2, StepKeepsDeletions DEF OrphanInv
<1>3. ASSUME OrphanInv, UNCHANGED vars PROVE OrphanInv'
  <2>1. UNCHANGED <<latest, lock, req>>
    BY <1>3 DEF vars
  <2> QED
    BY <1>1, <1>3, <2>1 DEF OrphanInv, DeletedBy, Attachment
<1> QED
  BY <1>2, <1>3

(* An attachment that goes and leaves its file came after the deletion of  *)
(* its task had listed the attachments: no other deletion leaves a file.   *)
THEOREM OrphansExplained == Spec => OrphansAreLate
<1>1. ASSUME OrphanInv, Next, NEW a \in Attachments,
             db[Attachment(a)] # Absent, db'[Attachment(a)] = Absent, a \in files
      PROVE  \E r \in Reqs : /\ Committing(r) /\ req[r].op = "delete_task"
                             /\ req[r].on = AttachmentTask[a] /\ a \notin req[r].listed
  <2> DEFINE x == Attachment(a)
  <2>1. FileInv /\ TypeInv /\ TypeOK
    BY <1>1 DEF OrphanInv, FileInv, RefInv, TypeInv
  <2>2. TypeInv'
    BY <1>1, <2>1, TypeStep
  <2>3. PICK r \in Reqs : CommitRequest(r) /\ Commits(r, x)
    BY <1>1, <2>2, StepKeepsDeletions
  <2>4. Takes(req[r], a)
    BY <1>1, <2>3, RowStoreAssumption DEF OrphanInv, DeletedBy, Commits
  <2>5. Committing(r)
    <3>1. req[r].pc = "commit" /\ Reply(r, Success)
      BY <2>3 DEF CommitRequest, AtStatement
    <3> QED
      BY <2>1, <3>1, ReplyMoves, Names DEF Committing
  <2>6. req[r].listed \intersect files = {} /\ ~(req[r].op = "delete_attachment" /\ req[r].on = a)
    BY <1>1, <2>1, <2>4 DEF FileInv, Gone, Takes
  <2> QED
    BY <1>1, <2>4, <2>5, <2>6 DEF Takes
<1>2. OrphanInv /\ [Next]_vars =>
        [\A a \in Attachments :
           db[Attachment(a)] # Absent /\ db'[Attachment(a)] = Absent /\ a \in files =>
             \E r \in Reqs : /\ Committing(r) /\ req[r].op = "delete_task"
                             /\ req[r].on = AttachmentTask[a] /\ a \notin req[r].listed]_vars
  BY <1>1
<1> QED
  BY <1>2, OrphanInit, OrphanStep, PTL DEF Spec, OrphansAreLate

-----------------------------------------------------------------------------
(* Edits.                                                                  *)

(* A newer version of a task has the edits of the committed one, and those *)
(* edits survive the next one.                                             *)
EditsKept(t) ==
  \A f \in Fields :
    Edited(db[Task(t)], f) /\ latest[Task(t)] # Absent => Edited(latest[Task(t)], f)

EditInv == RefInv /\ \A t \in Tasks : EditsKept(t)

(* An edit of one field keeps the edits of both.                           *)
LEMMA EditKeeps ==
  ASSUME NEW v, NEW g \in Fields, NEW f \in Fields, Edited(v, f)
  PROVE  Edited(Edit(v, g), f)
BY DEF Edited, Edit, Fields

(* What a step of r does to the row of a task.                             *)
TaskStep(r, t) ==
  LET x == Task(t) IN
  \/ Keeps(x) \/ Commits(r, x) \/ Undoes(r, x)
  \/ db'[x] = db[x] /\ latest'[x] = Absent
  \/ db'[x] = db[x] /\ db[x] = Absent
  \/ db'[x] = db[x] /\ latest[x] # Absent /\ \E g \in Fields : latest'[x] = Edit(latest[x], g)

(* Only edits change a task that is there.                                 *)
LEMMA StepTasks ==
  ASSUME RefInv, NEW r \in Reqs, Arrive(r) \/ Proceed(r), NEW t \in Tasks
  PROVE  TaskStep(r, t)
<1> DEFINE x == Task(t)
<1>1. TypeInv /\ TypeOK /\ Clean /\ x \in Rows
  BY RowNames DEF RefInv, TypeInv
<1>2. UNCHANGED store => Keeps(x)
  BY DEF store, Keeps
<1>3. Rollback(r) => TaskStep(r, t)
  BY <1>1, RollbackRows DEF TaskStep
<1>4. \A y : Project(y) # x /\ Attachment(y) # x
  BY RowNames
<1>5. ASSUME NEW p \in Projects, CreateProject(r, p) PROVE TaskStep(r, t)
  BY <1>1, <1>4, <1>5, OtherWrite DEF CreateProject, TaskStep
<1>6. CASE Arrive(r)
  <2>1. UNCHANGED store \/ \E p \in Projects : CreateProject(r, p)
    BY <1>6 DEF Arrive, BeginRenameProject, BeginDeleteProject, BeginCreateTask, BeginUpdateTask,
                BeginDeleteTask, BeginUpload, BeginDeleteAttachment, BeginDownload, Enter
  <2> QED
    BY <1>2, <1>5, <2>1 DEF TaskStep
<1>7. CASE UpdateProject(r) \/ DeleteProject(r) \/ InsertAttachment(r) \/ DeleteAttachment(r)
  <2>1. CASE UpdateProject(r)
    BY <1>1, <1>3, <1>4, <2>1, OtherWrite DEF UpdateProject, Fail, TaskStep
  <2>2. CASE DeleteProject(r)
    BY <1>1, <1>3, <1>4, <2>2, OtherWrite DEF DeleteProject, Fail, TaskStep
  <2>3. CASE InsertAttachment(r)
    BY <1>1, <1>3, <1>4, <2>3, OtherWrite DEF InsertAttachment, Fail, TaskStep
  <2>4. CASE DeleteAttachment(r)
    BY <1>1, <1>4, <2>4, OtherWrite DEF DeleteAttachment, TaskStep
  <2> QED
    BY <1>7, <2>1, <2>2, <2>3, <2>4
<1>8. CASE CountTasks(r) \/ SelectTask(r) \/ ListAttachments(r) \/ RemoveFiles(r) \/ SaveFile(r)
        \/ SelectAttachment(r) \/ RemoveFile(r) \/ Respond(r)
  BY <1>2, <1>8 DEF CountTasks, SelectTask, ListAttachments, RemoveFiles, SaveFile,
                    SelectAttachment, RemoveFile, Respond, TaskStep
<1>9. CASE CheckReference(r) \/ FetchFile(r)
  <2>1. UNCHANGED <<db, latest, lock>> \/ Rollback(r)
    BY <1>9 DEF CheckReference, FetchFile, Fail, store
  <2>2. UNCHANGED <<db, latest, lock>> => Keeps(x)
    BY DEF Keeps
  <2> QED
    BY <1>3, <2>1, <2>2 DEF TaskStep
<1>10. CASE Cascade(r)
  <2> DEFINE X == {Attachment(b) : b \in AttachmentsOf(req[r].on)}
             f == [y \in Rows |-> Absent]
  <2>1. WriteAll(r, X, f)
    BY <1>10 DEF Cascade
  <2>2. x \notin X
    BY <1>4
  <2> HIDE DEF X, f
  <2> QED
    BY <1>1, <2>1, <2>2 DEF WriteAll, TypeOK, StoreType, Keeps, TaskStep
<1>11. CASE InsertTask(r)
  <2>1. req[r].pc = "insert task" /\ req[r].op = "create_task"
    BY <1>1, <1>11 DEF InsertTask, AtStatement, TypeInv, Fits, Reaches
  <2>2. CASE UNCHANGED <<db, latest, lock>>
    BY <2>2 DEF Keeps, TaskStep
  <2>3. CASE Write(r, Task(req[r].on), "as created")
    <3>1. CASE Task(req[r].on) = x
      <4>1. db[x] = Absent
        BY <2>1, <3>1 DEF RefInv, Transactions, NewIsMine, Creating, NewRow
      <4> QED
        BY <1>1, <2>3, <4>1 DEF Write, TaskStep
    <3>2. CASE Task(req[r].on) # x
      BY <1>1, <2>3, <3>2, OtherWrite DEF TaskStep
    <3> QED
      BY <3>1, <3>2
  <2> QED
    BY <1>11, <2>2, <2>3 DEF InsertTask
<1>12. CASE UpdateTask(r)
  <2> DEFINE y == Task(req[r].on)
  <2>1. req[r].pc = "update task" /\ Blockers(r) = {}
    BY <1>12 DEF UpdateTask, Ready, AtStatement
  <2>2. CASE Fail(r)
    BY <1>3, <2>2 DEF Fail
  <2>3. CASE UNCHANGED store
    BY <1>2, <2>3 DEF TaskStep
  <2>4. CASE /\ Found(r, y) # Absent /\ req[r].field \in Fields
             /\ Write(r, y, Edit(Found(r, y), req[r].field))
    <3>1. CASE y = x
      <4>1. Writers(r, x) = {}
        <5>1. req[r].field # "nothing"
          BY <2>4 DEF Fields
        <5> QED
          BY <2>1, <3>1, <5>1 DEF Blockers
      <4>2. Found(r, x) = latest[x]
        BY <1>1, <4>1, FoundIsLatest DEF TypeOK
      <4> HIDE DEF y
      <4> QED
        BY <1>1, <2>4, <3>1, <4>2 DEF Write, TypeOK, StoreType, TaskStep
    <3>2. CASE y # x
      <4> HIDE DEF y
      <4> QED
        BY <1>1, <2>4, <3>2, OtherWrite DEF TaskStep
    <3> QED
      BY <3>1, <3>2
  <2> QED
    BY <1>12, <2>2, <2>3, <2>4 DEF UpdateTask
<1>13. CASE DeleteTask(r)
  <2>1. Update(r, Task(req[r].on), Absent)
    BY <1>13 DEF DeleteTask
  <2>2. CASE Task(req[r].on) = x
    BY <1>1, <2>1, <2>2 DEF Update, Write, TypeOK, StoreType, Keeps, TaskStep
  <2>3. CASE Task(req[r].on) # x
    BY <1>1, <2>1, <2>3, OtherWrite DEF TaskStep
  <2> QED
    BY <2>2, <2>3
<1>14. CASE CommitRequest(r)
  BY <1>1, <1>14, CommitRows DEF CommitRequest, TaskStep
<1> QED
  BY <1>6, <1>7, <1>8, <1>9, <1>10, <1>11, <1>12, <1>13, <1>14 DEF Proceed

(* Every step keeps the edits of what it leaves committed and of newer     *)
(* versions.                                                               *)
LEMMA StepKeepsEdits ==
  ASSUME EditInv, Next, NEW t \in Tasks
  PROVE  /\ EditsKept(t)'
         /\ \A f \in Fields :
              Edited(db[Task(t)], f) /\ db'[Task(t)] # Absent => Edited(db'[Task(t)], f)
<1> DEFINE x == Task(t)
<1>1. EditsKept(t) /\ x \in Rows /\ RefInv
  BY RowNames DEF EditInv
<1> SUFFICES ASSUME NEW f \in Fields
             PROVE  /\ Edited(db'[x], f) /\ latest'[x] # Absent => Edited(latest'[x], f)
                    /\ Edited(db[x], f) /\ db'[x] # Absent => Edited(db'[x], f)
  BY DEF EditsKept, Edited, Task
<1>2. Edited(db[x], f) /\ latest[x] # Absent => Edited(latest[x], f)
  BY <1>1 DEF EditsKept
<1> HIDE DEF x
<1>3. CASE Restart
  BY <1>1, <1>3 DEF Restart, RollbackAll
<1>4. ASSUME NEW r \in Reqs, Arrive(r) \/ Proceed(r)
      PROVE  /\ Edited(db'[x], f) /\ latest'[x] # Absent => Edited(latest'[x], f)
             /\ Edited(db[x], f) /\ db'[x] # Absent => Edited(db'[x], f)
  <2>1. TaskStep(r, t)
    BY <1>1, <1>4, StepTasks
  <2>2. CASE Keeps(x)
    BY <1>2, <2>2 DEF Keeps
  <2>3. CASE Commits(r, x) \/ Undoes(r, x)
    BY <1>2, <2>3 DEF Commits, Undoes
  <2>4. CASE db'[x] = db[x] /\ latest'[x] = Absent
    BY <2>4
  <2>5. CASE db'[x] = db[x] /\ db[x] = Absent
    BY <2>5 DEF Edited, Absent, Fields
  <2>6. ASSUME db'[x] = db[x], latest[x] # Absent, NEW g \in Fields, latest'[x] = Edit(latest[x], g)
        PROVE  /\ Edited(db'[x], f) /\ latest'[x] # Absent => Edited(latest'[x], f)
               /\ Edited(db[x], f) /\ db'[x] # Absent => Edited(db'[x], f)
    BY <1>2, <2>6, EditKeeps
  <2> QED
    BY <2>1, <2>2, <2>3, <2>4, <2>5, <2>6 DEF TaskStep, x
<1> QED
  BY <1>3, <1>4 DEF Next

(* Updates of different fields that overlap do not undo each other.        *)
THEOREM EditsHold == Spec => EditsSurvive
<1>1. Init => EditInv
  <2>1. ASSUME Init PROVE EditInv
    <3>1. ASSUME NEW t \in Tasks PROVE EditsKept(t)
      BY <2>1 DEF Init, EditsKept
    <3> QED
      BY <2>1, <3>1, RefInit DEF EditInv
  <2> QED
    BY <2>1
<1>2. EditInv /\ [Next]_vars => EditInv'
  <2>1. ASSUME EditInv, Next PROVE EditInv'
    BY <2>1, StepKeepsEdits, RefStep DEF EditInv
  <2>2. ASSUME EditInv, UNCHANGED vars PROVE EditInv'
    <3>1. RefInv' /\ db' = db /\ latest' = latest
      BY <2>2, RefStep DEF EditInv, vars
    <3> QED
      BY <2>2, <3>1 DEF EditInv, EditsKept, Task, Edited
  <2> QED
    BY <2>1, <2>2
<1>3. EditInv /\ [Next]_vars =>
        [\A t \in Tasks, f \in Fields :
           Edited(db[Task(t)], f) /\ db'[Task(t)] # Absent => Edited(db'[Task(t)], f)]_vars
  BY StepKeepsEdits
<1> QED
  BY <1>1, <1>2, <1>3, PTL DEF Spec, EditsSurvive
=============================================================================
