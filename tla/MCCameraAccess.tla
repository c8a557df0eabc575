--------------------------- MODULE MCCameraAccess ---------------------------
(* ann owns a profile; what bob may do with it is in question. Of all the  *)
(* requests the two may make, any AtMost begin.                            *)
EXTENDS CameraAccess

CONSTANT AtMost

Asks(op, by, dto) ==
  [op |-> op, by |-> by, profile |-> "p", dto |-> dto, grantee |-> "bob",
   permission |-> "view"]

Nothing  == [f \in Fields |-> Blank]
NewPass  == [f \in Fields |-> IF f = "pass" THEN "new" ELSE Blank]
NewHost  == [f \in Fields |-> IF f = "host" THEN "new" ELSE Blank]
Complete == [f \in Fields |-> "old"]

MCAsk ==
  [r \in Requests |->
     CASE r = "get"     -> Asks("get", "bob", Nothing)
       [] r = "list"    -> Asks("list", "bob", Nothing)
       [] r = "edit1"   -> Asks("update", "ann", NewPass)
       [] r = "edit2"   -> Asks("update", "bob", NewHost)
       [] r = "remove"  -> Asks("remove", "ann", Nothing)
       [] r = "create"  -> [Asks("create", "bob", Complete) EXCEPT !.profile = "q"]
       [] r = "grant"   -> Asks("grant", "ann", Nothing)
       [] r = "regrant" -> [Asks("grant", "bob", Nothing) EXCEPT !.permission = "manage"]
       [] r = "revoke"  -> Asks("revoke", "ann", Nothing)]

MCFew == Cardinality({r \in Requests : pc[r] # "new"}) <= AtMost

MCOwner   == [p \in Profiles |-> "ann"]
=============================================================================
