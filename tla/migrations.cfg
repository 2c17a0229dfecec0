\* The container and an operator migrate one database.
CONSTANTS
  api = api  operator = operator
  NoReq = NoReq
  Reqs = {api, operator}
  Containers = {api}
SPECIFICATION FairSpec
INVARIANTS TypeOK SchemaMatchesRevision
PROPERTIES ServesOnlyMigrated FailuresAreExplained EveryMigrationEnds
CHECK_DEADLOCK TRUE
