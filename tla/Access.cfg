SPECIFICATION Spec
CONSTANTS
  Users = {"ann", "bob"}
  Profiles = {"p", "q"}
  Fields = {"host", "pass"}
  Secrets = {"pass"}
  Values = {"old", "new"}
  Blank = "blank"
  Owner <- MCOwner
  InitialValue = "old"
  Requests = {"get", "list", "edit1", "edit2", "create", "remove", "grant",
              "regrant", "revoke"}
  Ask <- MCAsk
  AtMost = 4
INVARIANTS TypeOK Isolation WithdrawnUnlessRaced ListComplete
CONSTRAINT MCFew
CHECK_DEADLOCK FALSE
