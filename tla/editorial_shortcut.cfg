CONSTANTS
  j = j
  e = e
  d = d
  a = a
  Contents = {c1}
  Users <- Signers
  RoleOf <- RoleOfSigners
  AuthorOf <- ByEditor
  Handlers = {h1, h2}
  NoRequest = NoRequest
  MaxAborts = 0
  MaxActions = 4
  MaxEdits = 0
SPECIFICATION Spec
PROPERTY NoShortcut
CHECK_DEADLOCK FALSE
