\* Two requests at a time on a project, its task and two attachments.
CONSTANTS
  p1 = p1  t1 = t1  a1 = a1  a2 = a2
  ra = ra  rb = rb
  NoReq = NoReq
  None = None
  Reqs = {ra, rb}
  Projects = {p1}
  Tasks = {t1}
  Attachments = {a1, a2}
  TaskProject <- OneProject
  AttachmentTask <- OneTask
SPECIFICATION Spec
SYMMETRY Symmetric
INVARIANTS TypeOK NothingOutlivesItsParent MissingFileWasDeleted NobodyWaitsInACircle
PROPERTIES UploadIsStored DeletionRemovesWhatItListed EditsSurvive OrphansAreLate
CHECK_DEADLOCK TRUE
