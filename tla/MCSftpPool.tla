----------------------------- MODULE MCSftpPool -----------------------------
(* One box and four calls: three with its password, the fourth with       *)
(* another, as after it was changed in one of two profiles.                *)
EXTENDS SftpPool

MCCfgOf == [t \in Tasks |-> [box |-> "box", pass |-> IF t = "t4" THEN "new" ELSE "old"]]
MCInitialPassword == [b \in Boxes |-> "old"]
=============================================================================
