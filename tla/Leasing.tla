------------------------------ MODULE Leasing ------------------------------
(***************************************************************************)
(* What pools promise to those who need something out of one, with no      *)
(* mention of how the things are made, tested, lost and replaced: clients  *)
(* are served in the order they came to their pool, each gets one thing of *)
(* that pool, nobody else has it meanwhile, and it is given back when the  *)
(* client has finished, however that was. A client that has waited too     *)
(* long leaves, and gets nothing.                                          *)
(***************************************************************************)
EXTENDS Naturals, Sequences

CONSTANTS Clients, Pools,
          PoolOf,       \* the pool of each client
          Limit,        \* how many things a pool may have
          Nobody

VARIABLES line,         \* the clients that wait, by pool
          lessee,       \* who has the thing at each place of each pool
          phase         \* of each client

vars == <<line, lessee, phase>>

PlacesOf(p) == {p} \X (1..Limit)
Enter(c, to) == phase' = [phase EXCEPT ![c] = to]

Init == /\ line = [p \in Pools |-> <<>>]
        /\ lessee = [s \in Pools \X (1..Limit) |-> Nobody]
        /\ phase = [c \in Clients |-> "new"]

Ask(c) == /\ phase[c] = "new"
          /\ Enter(c, "waiting")
          /\ line' = [line EXCEPT ![PoolOf[c]] = Append(@, c)]
          /\ UNCHANGED lessee

(* The first in line gets what nobody has.                                 *)
Lend(p, s) == /\ line[p] # <<>> /\ lessee[s] = Nobody
              /\ Enter(Head(line[p]), "using")
              /\ line' = [line EXCEPT ![p] = Tail(@)]
              /\ lessee' = [lessee EXCEPT ![s] = Head(line[p])]

GiveUp(c) == /\ phase[c] = "waiting"
             /\ Enter(c, "failed")
             /\ \E i \in DOMAIN line[PoolOf[c]] :
                  /\ line[PoolOf[c]][i] = c
                  /\ line' = [line EXCEPT ![PoolOf[c]] =
                                SubSeq(@, 1, i - 1) \o SubSeq(@, i + 1, Len(@))]
             /\ UNCHANGED lessee

Return(c, s) == /\ phase[c] = "using" /\ lessee[s] = c
                /\ Enter(c, "done") \/ Enter(c, "failed")
                /\ lessee' = [lessee EXCEPT ![s] = Nobody]
                /\ UNCHANGED line

Next == \/ \E c \in Clients : Ask(c) \/ GiveUp(c)
        \/ \E p \in Pools : \E s \in PlacesOf(p) : Lend(p, s) \/ \E c \in Clients : Return(c, s)

Spec == Init /\ [][Next]_vars
=============================================================================
