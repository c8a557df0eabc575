----------------------------- MODULE MCInvites -----------------------------
(* One address is invited twice; one of its invites is redeemed twice.     *)
EXTENDS Invites

MCEmailOf == [t \in Tokens |-> IF t = "t3" THEN "cat" ELSE "bob"]
MCTokenOf == [r \in Requests |-> CASE r \in {"r1", "r2"} -> "t1"
                                   [] r = "r3" -> "t2"
                                   [] r = "r4" -> "t3"]
=============================================================================
