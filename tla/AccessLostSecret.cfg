SPECIFICATION Spec
CONSTANTS
  Users = {"ann", "bob"}
  Profiles = {"p"}
  Fields = {"host", "pass"}
  Secrets = {"pass"}
  Values = {"old", "new"}
  Blank = "blank"
  Owner <- MCOwner
  InitialValue = "old"
  Requests = {"edit1", "edit2"}
  Ask <- MCAsk
  AtMost = 2
PROPERTIES BlankKeepsStored
CHECK_DEADLOCK FALSE
