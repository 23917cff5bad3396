CONSTANTS
  j = j
  e = e
  d = d
  a = a
  Contents = {c1}
  Users <- Everybody
  RoleOf <- RoleOfEverybody
  AuthorOf <- ByJournalist
  Handlers = {h1}
  NoRequest = NoRequest
  MaxAborts = 1
  MaxActions = 5
  MaxEdits = 1
SPECIFICATION Spec
INVARIANT SettledStatus
INVARIANT AuditIsComplete
PROPERTY PublicationIsFinal
PROPERTY PipelineSpec
CHECK_DEADLOCK FALSE
