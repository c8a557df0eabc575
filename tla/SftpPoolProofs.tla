--------------------------- MODULE SftpPoolProofs ---------------------------
(***************************************************************************)
(* The invariants of SftpPool, for every set of boxes, passwords and calls *)
(* and any limit of connections. They are proved in two layers: who waits  *)
(* in which pool and who holds which connection (Leases), and, on top of   *)
(* it, that a pool with waiting clients has done for them what dispense    *)
(* does (Attention).                                                       *)
(***************************************************************************)
EXTENDS SftpPool, SequenceTheorems, FiniteSetTheorems, TLAPS

-----------------------------------------------------------------------------
(* The operators.                                                          *)

States == Held \cup {"unused"}

LEMMA KeyType == \A c \in Cfgs : Key(c) \in Keys
  BY DEF Keys

LEMMA KeyInjective == \A c, d \in Cfgs : Key(c) = Key(d) => c = d
  BY DEF Key, Cfgs

LEMMA CallKey == \A t \in Tasks : CfgOf[t] \in Cfgs /\ Key(CfgOf[t]) \in Keys
  BY CfgAssumption, KeyType

LEMMA ConnFacts ==
  ASSUME NEW c \in ConnType
  PROVE  /\ c.state \in States
         /\ c.state = "lent" => c.task \in Tasks
         /\ c.state # "lent" => c.task = NoTask
         /\ c.state = "unused" => c = Unused
  BY DEF ConnType, Held, States, Unused

LEMMA ConnRecords ==
  /\ Unused \in ConnType /\ Opened \in ConnType
  /\ Unused.state = "unused" /\ Opened.state = "connecting"
  BY DEF ConnType, Held, Unused, Opened

LEMMA SetState ==
  ASSUME NEW c \in ConnType, c.state \in Held \ {"lent"}, NEW s \in Held \ {"lent"}
  PROVE  /\ [c EXCEPT !.state = s] \in ConnType
         /\ [c EXCEPT !.state = s].state = s
  BY DEF ConnType, Held, Unused

LEMMA SetLent ==
  ASSUME NEW c \in ConnType, c.state = "testing", NEW t \in Tasks
  PROVE  /\ [c EXCEPT !.state = "lent", !.task = t] \in ConnType
         /\ [c EXCEPT !.state = "lent", !.task = t].state = "lent"
         /\ [c EXCEPT !.state = "lent", !.task = t].task = t
<1>1. c \in [state : Held \ {"lent"}, task : {NoTask}, alive : BOOLEAN]
  BY DEF ConnType, Held, Unused
<1>2. /\ [c EXCEPT !.state = "lent", !.task = t] \in [state : {"lent"}, task : Tasks, alive : BOOLEAN]
      /\ [c EXCEPT !.state = "lent", !.task = t].state = "lent"
      /\ [c EXCEPT !.state = "lent", !.task = t].task = t
  BY <1>1
<1> QED
  BY <1>2 DEF ConnType

LEMMA SetDead ==
  ASSUME NEW c \in ConnType, c.state # "unused"
  PROVE  /\ [c EXCEPT !.alive = FALSE] \in ConnType
         /\ [c EXCEPT !.alive = FALSE].state = c.state
         /\ [c EXCEPT !.alive = FALSE].task = c.task
<1>1. CASE c.state = "lent"
  <2>1. c \in [state : {"lent"}, task : Tasks, alive : BOOLEAN]
    BY <1>1 DEF ConnType, Held, Unused
  <2>2. /\ [c EXCEPT !.alive = FALSE] \in [state : {"lent"}, task : Tasks, alive : BOOLEAN]
        /\ [c EXCEPT !.alive = FALSE].state = c.state
        /\ [c EXCEPT !.alive = FALSE].task = c.task
    BY <2>1
  <2> QED
    BY <2>2 DEF ConnType
<1>2. CASE c.state # "lent"
  <2> DEFINE S == [state : Held \ {"lent"}, task : {NoTask}, alive : BOOLEAN]
  <2>1. c \in S
    BY <1>2 DEF ConnType, Held, Unused
  <2>2. /\ [c EXCEPT !.alive = FALSE] \in S
        /\ [c EXCEPT !.alive = FALSE].state = c.state
        /\ [c EXCEPT !.alive = FALSE].task = c.task
    BY <2>1
  <2> QED
    BY <2>2 DEF ConnType
<1> QED
  BY <1>1, <1>2

LEMMA PlacesOf ==
  ASSUME NEW k \in Keys
  PROVE  /\ Places(k) \subseteq Conns /\ \A i \in Places(k) : i[1] = k
         /\ \A i \in Conns : i[1] \in Keys /\ (i[1] = k <=> i \in Places(k))
  BY DEF Places, Conns

LEMMA PlacesFinite ==
  ASSUME NEW k \in Keys
  PROVE  IsFiniteSet(Places(k)) /\ Cardinality(Places(k)) = MaxPerBox
<1>1. IsFiniteSet({k}) /\ Cardinality({k}) = 1
  BY FS_Singleton
<1>2. IsFiniteSet(1..MaxPerBox) /\ Cardinality(1..MaxPerBox) = MaxPerBox
  BY FS_Interval, BoundAssumption
<1>3. /\ IsFiniteSet({k} \X (1..MaxPerBox))
      /\ Cardinality({k} \X (1..MaxPerBox)) = Cardinality({k}) * Cardinality(1..MaxPerBox)
  BY <1>1, <1>2, FS_Product
<1>4. Cardinality({k} \X (1..MaxPerBox)) = 1 * MaxPerBox
  BY <1>1, <1>2, <1>3, Zenon
<1> QED
  BY <1>3, <1>4, BoundAssumption DEF Places

LEMMA InFinite ==
  ASSUME NEW cs, NEW k \in Keys, NEW states
  PROVE  /\ In(cs, k, states) \subseteq Places(k) /\ IsFiniteSet(In(cs, k, states))
         /\ Cardinality(In(cs, k, states)) \in Nat
         /\ Cardinality(In(cs, k, states)) = 0 <=> In(cs, k, states) = {}
<1>1. In(cs, k, states) \subseteq Places(k)
  BY DEF In
<1> QED
  BY <1>1, PlacesFinite, FS_Subset, FS_CardinalityType, FS_EmptySet

(* Some picks what its name says.                                          *)
LEMMA SomeIsSome ==
  ASSUME NEW S, IsFiniteSet(S), NEW n \in Nat, n <= Cardinality(S)
  PROVE  Some(S, n) \subseteq S /\ Cardinality(Some(S, n)) = n
<1>1. Cardinality(S) \in Nat /\ ExistsBijection(1..Cardinality(S), S)
  BY FS_CardinalityType
<1>2. PICK f : f \in Bijection(1..Cardinality(S), S)
  BY <1>1 DEF ExistsBijection
<1> DEFINE T == {f[j] : j \in 1..n}
           g == [j \in 1..n |-> f[j]]
<1>3. /\ f \in [1..Cardinality(S) -> S]
      /\ \A a, b \in 1..Cardinality(S) : f[a] = f[b] => a = b
  BY <1>2 DEF Bijection, Injection, IsInjective
<1>4. 1..n \subseteq 1..Cardinality(S)
  BY <1>1
<1>5. T \in SUBSET S
  BY <1>3, <1>4
<1>6. g \in Bijection(1..n, T)
  <2>1. g \in [1..n -> T] /\ \A a, b \in 1..n : g[a] = g[b] => a = b
    BY <1>3, <1>4
  <2>2. \A t \in T : \E j \in 1..n : g[j] = t
    OBVIOUS
  <2> QED
    BY <2>1, <2>2 DEF Bijection, Injection, IsInjective, Surjection
<1>7. Cardinality(T) = n
  <2>1. IsFiniteSet(1..n) /\ Cardinality(1..n) = n
    BY FS_Interval
  <2> QED
    BY <1>6, <2>1, FS_Bijection DEF ExistsBijection
<1> HIDE DEF T
<1> QED
  BY <1>5, <1>7 DEF Some

-----------------------------------------------------------------------------
(* What dispense does: it begins to test idle connections of the pool and  *)
(* opens unused ones, and lends none.                                      *)

Pools == [Conns -> ConnType]

SameLoans(cs, ds) ==
  \A i \in Conns : (ds[i].state = "lent" <=> cs[i].state = "lent") /\ ds[i].task = cs[i].task

LEMMA BeginEffect ==
  ASSUME NEW cs \in Pools, NEW k \in Keys,
         NEW tested \in SUBSET In(cs, k, {"idle"}),
         NEW created \in SUBSET In(cs, k, {"unused"})
  PROVE  /\ Begin(cs, tested, created) \in Pools
         /\ SameLoans(cs, Begin(cs, tested, created))
         /\ \A i \in Conns :
              Begin(cs, tested, created)[i].state =
                IF i \in tested THEN "testing"
                ELSE IF i \in created THEN "connecting" ELSE cs[i].state
         /\ \A i \in Conns : i[1] # k => Begin(cs, tested, created)[i] = cs[i]
<1> DEFINE ds == Begin(cs, tested, created)
<1>1. ASSUME NEW i \in Conns
      PROVE  /\ ds[i] \in ConnType
             /\ ds[i].state = IF i \in tested THEN "testing"
                              ELSE IF i \in created THEN "connecting" ELSE cs[i].state
             /\ ds[i].task = cs[i].task
             /\ ds[i].state = "lent" <=> cs[i].state = "lent"
  <2>1. cs[i] \in ConnType
    BY DEF Pools
  <2>2. CASE i \in tested
    <3>1. cs[i].state = "idle"
      BY <2>2 DEF In
    <3>2. ds[i] = [cs[i] EXCEPT !.state = "testing"]
      BY <2>2 DEF Begin
    <3>3. ds[i] \in ConnType /\ ds[i].state = "testing"
      BY <2>1, <3>1, <3>2, SetState DEF Held
    <3>4. ds[i].task = NoTask /\ cs[i].task = NoTask
      BY <2>1, <3>1, <3>3, ConnFacts
    <3> QED
      BY <2>2, <3>1, <3>3, <3>4
  <2>3. CASE i \notin tested /\ i \in created
    <3>1. cs[i] = Unused /\ cs[i].state = "unused"
      BY <2>1, <2>3, ConnFacts DEF In
    <3>2. ds[i] = Opened
      BY <2>3 DEF Begin
    <3> QED
      BY <2>3, <3>1, <3>2, ConnRecords DEF Unused, Opened
  <2>4. CASE i \notin tested /\ i \notin created
    BY <2>1, <2>4 DEF Begin
  <2> QED
    BY <2>2, <2>3, <2>4
<1>2. ds \in Pools
  BY <1>1 DEF Begin, Pools
<1>3. \A i \in Conns : i[1] # k => i \notin tested /\ i \notin created
  BY PlacesOf DEF In
<1>4. \A i \in Conns : i[1] # k => ds[i] = cs[i]
  BY <1>3 DEF Begin
<1> HIDE DEF ds
<1> QED
  BY <1>1, <1>2, <1>4 DEF SameLoans, ds

(* How many idle connections dispense tests, and how many it opens.        *)
Tests(cs, k, w)   == Excess(Least(Cardinality(In(cs, k, {"idle"})),
                                  w - Cardinality(In(cs, k, {"testing"}))))
Creates(cs, k, w) == Excess(Least(Cardinality(In(cs, k, {"unused"})),
                                  w - Cardinality(In(cs, k, Held \ {"lent"}))))

LEMMA DispenseIsBegin ==
  ASSUME NEW cs \in Pools, NEW k \in Keys, NEW w \in Nat, w # 0
  PROVE  \E tested \in SUBSET In(cs, k, {"idle"}), created \in SUBSET In(cs, k, {"unused"}) :
           /\ Dispense(cs, k, w) = Begin(cs, tested, created)
           /\ Cardinality(tested) = Tests(cs, k, w)
           /\ Cardinality(created) = Creates(cs, k, w)
<1> DEFINE idle  == In(cs, k, {"idle"})
           spare == In(cs, k, {"unused"})
           n     == Tests(cs, k, w)
           m     == Creates(cs, k, w)
<1>1. /\ IsFiniteSet(idle) /\ IsFiniteSet(spare)
      /\ Cardinality(idle) \in Nat /\ Cardinality(spare) \in Nat
      /\ Cardinality(In(cs, k, {"testing"})) \in Nat
      /\ Cardinality(In(cs, k, Held \ {"lent"})) \in Nat
  BY InFinite
<1>2. n \in Nat /\ n <= Cardinality(idle) /\ m \in Nat /\ m <= Cardinality(spare)
  BY <1>1 DEF Tests, Creates, Excess, Least
<1>3. Dispense(cs, k, w) = Begin(cs, Some(idle, n), Some(spare, m))
  BY DEF Dispense, Tests, Creates
<1> HIDE DEF n, m, idle, spare
<1>4. Some(idle, n) \subseteq idle /\ Cardinality(Some(idle, n)) = n
  BY <1>1, <1>2, SomeIsSome
<1>5. Some(spare, m) \subseteq spare /\ Cardinality(Some(spare, m)) = m
  BY <1>1, <1>2, SomeIsSome
<1> QED
  BY <1>3, <1>4, <1>5 DEF n, m, idle, spare

LEMMA DispenseEffect ==
  ASSUME NEW cs \in Pools, NEW k \in Keys, NEW w \in Nat
  PROVE  /\ Dispense(cs, k, w) \in Pools
         /\ SameLoans(cs, Dispense(cs, k, w))
         /\ \A i \in Conns : i[1] # k => Dispense(cs, k, w)[i] = cs[i]
<1>1. CASE w = 0
  BY <1>1 DEF Dispense, SameLoans
<1>2. CASE w # 0
  <2>1. PICK tested \in SUBSET In(cs, k, {"idle"}), created \in SUBSET In(cs, k, {"unused"}) :
          Dispense(cs, k, w) = Begin(cs, tested, created)
    BY <1>2, DispenseIsBegin
  <2> QED
    BY <2>1, BeginEffect
<1> QED
  BY <1>1, <1>2

LEMMA MinimumEffect ==
  ASSUME NEW cs \in Pools, NEW k \in Keys
  PROVE  /\ EnsureMinimum(cs, k) \in Pools
         /\ SameLoans(cs, EnsureMinimum(cs, k))
         /\ \A i \in Conns : i[1] # k => EnsureMinimum(cs, k)[i] = cs[i]
<1>1. CASE In(cs, k, Held) # {}
  BY <1>1 DEF EnsureMinimum, SameLoans
<1>2. CASE In(cs, k, Held) = {}
  <2> DEFINE spare == In(cs, k, {"unused"})
  <2>1. spare = Places(k)
    BY <1>2, PlacesOf, ConnFacts DEF In, Pools, States
  <2>2. IsFiniteSet(spare) /\ 1 <= Cardinality(spare)
    BY <2>1, PlacesFinite, BoundAssumption
  <2>3. Some(spare, 1) \subseteq spare
    BY <2>2, SomeIsSome
  <2>4. EnsureMinimum(cs, k) = Begin(cs, {}, Some(spare, 1))
    BY <1>2 DEF EnsureMinimum
  <2>5. PICK tested \in SUBSET In(cs, k, {"idle"}), created \in SUBSET In(cs, k, {"unused"}) :
          EnsureMinimum(cs, k) = Begin(cs, tested, created)
    BY <2>3, <2>4
  <2>6. ASSUME NEW i \in Conns
        PROVE  /\ Begin(cs, tested, created)[i].state = "lent" <=> cs[i].state = "lent"
               /\ Begin(cs, tested, created)[i].task = cs[i].task
    BY BeginEffect DEF SameLoans
  <2>7. Begin(cs, tested, created) \in Pools
    BY BeginEffect
  <2>8. \A i \in Conns : i[1] # k => Begin(cs, tested, created)[i] = cs[i]
    BY BeginEffect
  <2> QED
    BY <2>5, <2>6, <2>7, <2>8 DEF SameLoans
<1> QED
  BY <1>1, <1>2

-----------------------------------------------------------------------------
(* First layer: who waits where, and who holds what.                       *)

CfgsType  == DOMAIN cfgs \subseteq Keys /\ \A k \in DOMAIN cfgs : cfgs[k] \in Cfgs
TaskType  == task \in [Tasks -> {"new", "waiting", "using", "done", "failed"}]
QueueType == queue \in [Keys -> Seq(Tasks)]
OtherType == password \in [Boxes -> Passwords]

Types == CfgsType /\ conn \in Pools /\ QueueType /\ TaskType /\ OtherType

(* A pool's configuration is of its key, and so are its waiting clients    *)
(* and the calls it has lent a connection to.                              *)
Stored   == \A k \in DOMAIN cfgs : Key(cfgs[k]) = k
Waits(t, k) == task[t] = "waiting" /\ Key(CfgOf[t]) = k /\ k \in DOMAIN cfgs
Queued   == \A k \in Keys : \A a \in 1..Len(queue[k]) : Waits(queue[k][a], k)
Once     == \A k \in Keys : \A a, b \in 1..Len(queue[k]) : queue[k][a] = queue[k][b] => a = b
Lent(i, t) == conn[i].state = "lent" /\ conn[i].task = t
Holds    == \A i \in Conns, t \in Tasks :
              Lent(i, t) => task[t] = "using" /\ Key(CfgOf[t]) = i[1] /\ i[1] \in DOMAIN cfgs
OneLease == \A i, j \in Conns, t \in Tasks : Lent(i, t) /\ Lent(j, t) => i = j
HasOne   == \A t \in Tasks : task[t] = "using" => \E i \in Conns : Lent(i, t)

Queues == Queued /\ Once
Loans  == Holds /\ OneLease /\ HasOne
Leases == Types /\ Stored /\ Queues /\ Loans

(* A step of a pool that lends and takes back nothing.                     *)
LEMMA SameLoansKeep ==
  ASSUME Leases, conn' \in Pools, SameLoans(conn, conn'),
         UNCHANGED <<cfgs, queue, task>>, OtherType'
  PROVE  Leases'
<1>1. Types'
  BY DEF Leases, Types, CfgsType, TaskType, QueueType
<1>2. Stored' /\ Queues'
  BY DEF Leases, Stored, Queues, Queued, Once, Waits
<1>3. \A i \in Conns, t \in Tasks : Lent(i, t)' <=> Lent(i, t)
  BY DEF SameLoans, Lent
<1>4. Loans'
  BY <1>3 DEF Leases, Loans, Holds, OneLease, HasOne
<1> QED
  BY <1>1, <1>2, <1>4 DEF Leases

(* The pool of connection i dispenses after i has become c.                *)
LEMMA RedispenseEffect ==
  ASSUME Types, NEW i \in Conns, NEW c \in ConnType, Redispense(i, [conn EXCEPT ![i] = c])
  PROVE  /\ conn' \in Pools /\ SameLoans([conn EXCEPT ![i] = c], conn')
         /\ [conn EXCEPT ![i] = c] \in Pools
         /\ conn' = Dispense([conn EXCEPT ![i] = c], i[1], Len(queue[i[1]]))
<1>1. i[1] \in Keys
  BY DEF Conns
<1>2. Len(queue[i[1]]) \in Nat
  BY <1>1, LenProperties DEF Types, QueueType
<1>3. [conn EXCEPT ![i] = c] \in Pools
  BY DEF Types, Pools
<1>4. conn' = Dispense([conn EXCEPT ![i] = c], i[1], Len(queue[i[1]]))
  BY DEF Redispense
<1> QED
  BY <1>1, <1>2, <1>3, <1>4, DispenseEffect

(* It was not lent and is not lent now.                                    *)
LEMMA UnlentSame ==
  ASSUME Types, NEW i \in Conns, NEW c \in ConnType,
         conn[i].state # "lent", c.state # "lent"
  PROVE  SameLoans(conn, [conn EXCEPT ![i] = c])
  BY ConnFacts DEF Types, Pools, SameLoans

LEMMA SameLoansTransitive ==
  ASSUME NEW cs, NEW ds, NEW es, SameLoans(cs, ds), SameLoans(ds, es)
  PROVE  SameLoans(cs, es)
  BY DEF SameLoans

(* Connections that are opened, tested, found dead, dropped or evicted.    *)
LEMMA ConnSame ==
  ASSUME Leases, NEW i \in Conns,
         ConnectSucceeds(i) \/ ConnectFails(i) \/ ValidationFails(i) \/ Evict(i) \/ Drops(i)
  PROVE  /\ conn' \in Pools /\ SameLoans(conn, conn')
         /\ UNCHANGED <<cfgs, queue, task, password>>
<1>1. conn[i] \in ConnType /\ i[1] \in Keys
  BY DEF Leases, Types, Pools, Conns
<1>2. UNCHANGED <<cfgs, queue, task, password>>
  BY DEF ConnectSucceeds, ConnectFails, ValidationFails, Evict, Drops
<1>3. ASSUME NEW c \in ConnType, c.state # "lent", conn[i].state # "lent",
             Redispense(i, [conn EXCEPT ![i] = c])
      PROVE  conn' \in Pools /\ SameLoans(conn, conn')
  BY <1>3, RedispenseEffect, UnlentSame, SameLoansTransitive DEF Leases
<1>4. CASE ConnectSucceeds(i)
  <2>1. /\ [conn[i] EXCEPT !.state = "idle"] \in ConnType
        /\ [conn[i] EXCEPT !.state = "idle"].state = "idle"
    BY <1>1, <1>4, SetState DEF ConnectSucceeds, Held
  <2>2. Redispense(i, [conn EXCEPT ![i] = [conn[i] EXCEPT !.state = "idle"]])
    BY <1>4 DEF ConnectSucceeds
  <2> QED
    BY <1>2, <1>3, <1>4, <2>1, <2>2 DEF ConnectSucceeds
<1>5. CASE ConnectFails(i)
  BY <1>2, <1>3, <1>5, ConnRecords DEF ConnectFails
<1>6. ASSUME conn[i].state \in {"testing", "idle"}
      PROVE  /\ Destroyed(i) \in Pools /\ SameLoans(conn, Destroyed(i))
  <2>1. [conn EXCEPT ![i] = Unused] \in Pools
    BY ConnRecords DEF Leases, Types, Pools
  <2>2. SameLoans(conn, [conn EXCEPT ![i] = Unused])
    BY <1>6, ConnRecords, UnlentSame DEF Leases
  <2> QED
    BY <1>1, <2>1, <2>2, MinimumEffect, SameLoansTransitive DEF Destroyed
<1>7. CASE ValidationFails(i)
  <2>1. Destroyed(i) \in Pools /\ SameLoans(conn, Destroyed(i))
    BY <1>6, <1>7 DEF ValidationFails
  <2>2. Len(queue[i[1]]) \in Nat
    BY <1>1, LenProperties DEF Leases, Types, QueueType
  <2>3. conn' = Dispense(Destroyed(i), i[1], Len(queue[i[1]]))
    BY <1>7 DEF ValidationFails, Redispense
  <2>4. conn' \in Pools /\ SameLoans(conn, conn')
    BY <1>1, <2>1, <2>2, <2>3, DispenseEffect, SameLoansTransitive
  <2> QED
    BY <1>2, <2>4
<1>8. CASE Evict(i)
  BY <1>2, <1>6, <1>8 DEF Evict
<1>9. CASE Drops(i)
  <2> DEFINE c == [conn[i] EXCEPT !.alive = FALSE]
  <2>1. c \in ConnType /\ c.state = conn[i].state /\ c.task = conn[i].task
    BY <1>1, <1>9, SetDead DEF Drops
  <2>3. conn' = [conn EXCEPT ![i] = c]
    BY <1>9 DEF Drops
  <2> HIDE DEF c
  <2>2. conn' \in Pools /\ SameLoans(conn, conn')
    BY <2>1, <2>3 DEF Leases, Types, Pools, SameLoans
  <2> QED
    BY <1>2, <2>2
<1> QED
  BY <1>4, <1>5, <1>7, <1>8, <1>9

LEMMA ConnKeeps ==
  ASSUME Leases, NEW i \in Conns,
         ConnectSucceeds(i) \/ ConnectFails(i) \/ ValidationFails(i) \/ Evict(i) \/ Drops(i)
  PROVE  Leases'
  BY ConnSame, SameLoansKeep DEF Leases, Types, OtherType

(* A call that was new waits; the pool it waits in may be new as well.     *)
LEMMA AcquireSame ==
  ASSUME Leases, NEW t \in Tasks, Acquire(t)
  PROVE  conn' \in Pools /\ SameLoans(conn, conn')
<1> DEFINE k  == Key(CfgOf[t])
           cs == IF k \in DOMAIN cfgs THEN conn ELSE EnsureMinimum(conn, k)
<1>1. k \in Keys
  BY CallKey
<1>2. Len(queue[k]) \in Nat
  BY <1>1, LenProperties DEF Leases, Types, QueueType
<1>3. conn' = Dispense(cs, k, Len(queue[k]) + 1)
  BY DEF Acquire
<1>4. cs \in Pools /\ SameLoans(conn, cs)
  <2>1. conn \in Pools /\ SameLoans(conn, conn)
    BY DEF Leases, Types, SameLoans
  <2>2. EnsureMinimum(conn, k) \in Pools /\ SameLoans(conn, EnsureMinimum(conn, k))
    BY <1>1, <2>1, MinimumEffect
  <2> QED
    BY <2>1, <2>2
<1> HIDE DEF k, cs
<1> QED
  BY <1>1, <1>2, <1>3, <1>4, DispenseEffect, SameLoansTransitive

LEMMA AcquireKeeps == ASSUME Leases, NEW t \in Tasks, Acquire(t) PROVE Leases'
<1> DEFINE k  == Key(CfgOf[t])
<1>1. k \in Keys /\ CfgOf[t] \in Cfgs
  BY CallKey
<1>2. queue[k] \in Seq(Tasks) /\ Len(queue[k]) \in Nat
  BY <1>1, LenProperties DEF Leases, Types, QueueType
<1>3. /\ task[t] = "new" /\ task' = [task EXCEPT ![t] = "waiting"]
      /\ queue' = [queue EXCEPT ![k] = Append(queue[k], t)]
      /\ cfgs' = IF k \in DOMAIN cfgs THEN cfgs
                 ELSE [x \in DOMAIN cfgs \cup {k} |-> IF x = k THEN CfgOf[t] ELSE cfgs[x]]
      /\ UNCHANGED password
  BY DEF Acquire, Leases, Types, QueueType
<1> HIDE DEF k
<1>5. conn' \in Pools /\ SameLoans(conn, conn')
  BY AcquireSame
<1>6. /\ CfgsType' /\ Stored' /\ DOMAIN cfgs' = DOMAIN cfgs \cup {k}
  BY <1>1, <1>3 DEF Leases, Types, CfgsType, Stored, k
<1>7. /\ queue' \in [Keys -> Seq(Tasks)] /\ Len(queue'[k]) = Len(queue[k]) + 1
      /\ \A a \in 1..Len(queue[k]) : queue'[k][a] = queue[k][a]
      /\ queue'[k][Len(queue[k]) + 1] = t
      /\ \A x \in Keys : x # k => queue'[x] = queue[x]
  BY <1>1, <1>2, <1>3, AppendProperties DEF Leases, Types, QueueType
<1>8. TaskType' /\ \A u \in Tasks : u # t => task'[u] = task[u]
  BY <1>3 DEF Leases, Types, TaskType
<1>9. task'[t] = "waiting"
  BY <1>3 DEF Leases, Types, TaskType
<1>10. \A x \in Keys : \A a \in 1..Len(queue[x]) : queue[x][a] # t
  BY <1>3 DEF Leases, Queues, Queued, Waits
<1>11. Queued'
  <2>1. ASSUME NEW x \in Keys, NEW a \in 1..Len(queue'[x]) PROVE Waits(queue[x][a], x)'
    <3>1. CASE x = k /\ a = Len(queue[k]) + 1
      BY <1>6, <1>7, <1>9, <3>1 DEF Waits, k
    <3>2. CASE ~(x = k /\ a = Len(queue[k]) + 1)
      <4>1. a \in 1..Len(queue[x]) /\ queue'[x][a] = queue[x][a]
        BY <1>2, <1>7, <2>1, <3>2
      <4>2. Waits(queue[x][a], x) /\ queue[x][a] # t /\ queue[x][a] \in Tasks
        BY <1>10, <4>1, ElementOfSeq DEF Leases, Queues, Queued, Types, QueueType
      <4> QED
        BY <1>6, <1>8, <4>1, <4>2 DEF Waits
    <3> QED
      BY <3>1, <3>2
  <2> QED
    BY <2>1 DEF Queued
<1>12. Once'
  <2>1. ASSUME NEW x \in Keys, NEW a \in 1..Len(queue'[x]), NEW b \in 1..Len(queue'[x]),
               queue'[x][a] = queue'[x][b]
        PROVE  a = b
    <3>1. CASE x = k
      BY <1>2, <1>7, <1>10, <2>1, <3>1 DEF Leases, Queues, Once
    <3>2. CASE x # k
      BY <1>7, <2>1, <3>2 DEF Leases, Queues, Once
    <3> QED
      BY <3>1, <3>2
  <2> QED
    BY <2>1 DEF Once
<1>13. \A i \in Conns, u \in Tasks : Lent(i, u)' <=> Lent(i, u)
  BY <1>5 DEF SameLoans, Lent
<1>14. \A u \in Tasks : task'[u] = "using" <=> task[u] = "using"
  BY <1>3, <1>8, <1>9
<1>15. Loans'
  BY <1>6, <1>13, <1>14 DEF Leases, Loans, Holds, OneLease, HasOne
<1> QED
  BY <1>3, <1>5, <1>6, <1>7, <1>8, <1>11, <1>12, <1>15
     DEF Leases, Types, QueueType, OtherType, Queues

(* Client number n leaves the queue of pool k, whatever becomes of it.     *)
LEMMA LeavesQueue ==
  ASSUME Leases, NEW k \in Keys, NEW n \in 1..Len(queue[k]), QueueType', UNCHANGED cfgs,
         Len(queue'[k]) = Len(queue[k]) - 1,
         \A a \in 1..Len(queue'[k]) :
           queue'[k][a] = IF a < n THEN queue[k][a] ELSE queue[k][a+1],
         \A x \in Keys : x # k => queue'[x] = queue[x],
         \A u \in Tasks : u # queue[k][n] => task'[u] = task[u]
  PROVE  Queues'
<1> DEFINE From(x, a) == IF x = k /\ a >= n THEN a + 1 ELSE a
<1>1. Len(queue[k]) \in Nat
  BY LenProperties DEF Leases, Types, QueueType
<1>2. ASSUME NEW x \in Keys, NEW a \in 1..Len(queue'[x])
      PROVE  /\ From(x, a) \in 1..Len(queue[x])
             /\ queue'[x][a] = queue[x][From(x, a)]
             /\ x = k => From(x, a) # n
  <2>1. CASE x = k
    BY <1>1, <1>2, <2>1
  <2>2. CASE x # k
    BY <1>2, <2>2
  <2> QED
    BY <2>1, <2>2
<1>3. ASSUME NEW x \in Keys, NEW a \in 1..Len(queue'[x]), NEW b \in 1..Len(queue'[x]),
             From(x, a) = From(x, b)
      PROVE  a = b
  BY <1>3
<1> HIDE DEF From
<1>4. ASSUME NEW x \in Keys, NEW a \in 1..Len(queue'[x]), NEW b \in 1..Len(queue'[x]),
             queue'[x][a] = queue'[x][b]
      PROVE  a = b
  <2>1. queue[x][From(x, a)] = queue[x][From(x, b)]
    BY <1>2, <1>4
  <2>2. From(x, a) = From(x, b)
    BY <1>2, <2>1 DEF Leases, Queues, Once
  <2> QED
    BY <1>3, <2>2
<1>5. ASSUME NEW x \in Keys, NEW a \in 1..Len(queue'[x]) PROVE Waits(queue[x][a], x)'
  <2> DEFINE b == From(x, a)
             u == queue[x][b]
  <2>1. b \in 1..Len(queue[x]) /\ queue'[x][a] = u /\ (x = k => b # n)
    BY <1>2
  <2> HIDE DEF b
  <2>2. u \in Tasks /\ Waits(u, x)
    BY <2>1, ElementOfSeq DEF Leases, Queues, Queued, Types, QueueType
  <2>3. u # queue[k][n]
    <3>1. CASE x = k
      BY <2>1, <3>1 DEF Leases, Queues, Once
    <3>2. CASE x # k
      <4>1. Waits(queue[k][n], k)
        BY DEF Leases, Queues, Queued
      <4> QED
        BY <2>2, <3>2, <4>1 DEF Waits
    <3> QED
      BY <3>1, <3>2
  <2> HIDE DEF u
  <2> QED
    BY <2>1, <2>2, <2>3 DEF Waits
<1> QED
  BY <1>4, <1>5 DEF Queues, Queued, Once

(* The first waiting client gets the connection that was tested for it.    *)
LEMMA ValidationKeeps == ASSUME Leases, NEW i \in Conns, ValidationPasses(i) PROVE Leases'
<1> DEFINE k == i[1]
           t == Head(queue[k])
<1>1. k \in Keys /\ conn[i] \in ConnType /\ conn[i].state = "testing"
  BY DEF Conns, Leases, Types, Pools, ValidationPasses
<1>2. queue[k] \in Seq(Tasks) /\ Len(queue[k]) \in Nat
  BY <1>1, LenProperties DEF Leases, Types, QueueType
<1>3. CASE queue[k] = <<>>
  <2> DEFINE c == [conn[i] EXCEPT !.state = "idle"]
  <2>1. c \in ConnType /\ c.state = "idle"
    BY <1>1, SetState DEF Held
  <2>2. conn' = [conn EXCEPT ![i] = c] /\ UNCHANGED <<cfgs, queue, task, password>>
    BY <1>3 DEF ValidationPasses
  <2> HIDE DEF c
  <2>3. conn' \in Pools
    BY <2>1, <2>2 DEF Leases, Types, Pools
  <2>4. SameLoans(conn, conn')
    BY <1>1, <2>1, <2>2, UnlentSame DEF Leases
  <2> QED
    BY <2>2, <2>3, <2>4, SameLoansKeep DEF Leases, Types, OtherType
<1>4. CASE queue[k] # <<>>
  <2> DEFINE c == [conn[i] EXCEPT !.state = "lent", !.task = t]
  <2>1. /\ t \in Tasks /\ Tail(queue[k]) \in Seq(Tasks)
        /\ Len(Tail(queue[k])) = Len(queue[k]) - 1
        /\ \A a \in 1..Len(Tail(queue[k])) : Tail(queue[k])[a] = queue[k][a+1]
    BY <1>2, <1>4, HeadTailProperties
  <2>2. 1 \in 1..Len(queue[k]) /\ t = queue[k][1]
    BY <1>2, <1>4, EmptySeq
  <2>3. c \in ConnType /\ c.state = "lent" /\ c.task = t
    BY <1>1, <2>1, SetLent
  <2>4. /\ conn' = [conn EXCEPT ![i] = c] /\ queue' = [queue EXCEPT ![k] = Tail(queue[k])]
        /\ task' = [task EXCEPT ![t] = "using"] /\ UNCHANGED <<cfgs, password>>
    BY <1>4 DEF ValidationPasses, Leases, Types, Pools, QueueType
  <2>5. Waits(t, k)
    BY <1>1, <2>2 DEF Leases, Queues, Queued
  <2> HIDE DEF c, t, k
  <2>6. /\ conn'[i] = c /\ \A j \in Conns : j # i => conn'[j] = conn[j]
        /\ conn' \in Pools
    BY <2>3, <2>4 DEF Leases, Types, Pools
  <2>7. /\ QueueType' /\ queue'[k] = Tail(queue[k])
        /\ \A x \in Keys : x # k => queue'[x] = queue[x]
    BY <1>1, <2>1, <2>4 DEF Leases, Types, QueueType
  <2>8. TaskType' /\ task'[t] = "using" /\ \A u \in Tasks : u # t => task'[u] = task[u]
    BY <2>1, <2>4 DEF Leases, Types, TaskType
  <2>9. \A a \in 1..Len(queue'[k]) :
          queue'[k][a] = IF a < 1 THEN queue[k][a] ELSE queue[k][a+1]
    BY <1>2, <2>1, <2>7
  <2>10. Queues'
    <3>1. \A u \in Tasks : u # queue[k][1] => task'[u] = task[u]
      BY <2>2, <2>8
    <3>2. Len(queue'[k]) = Len(queue[k]) - 1 /\ UNCHANGED cfgs
      BY <2>1, <2>4, <2>7
    <3>3. 1 \in 1..Len(queue[k]) /\ QueueType' /\ \A x \in Keys : x # k => queue'[x] = queue[x]
      BY <2>2, <2>7
    <3> QED
      BY <1>1, <2>9, <3>1, <3>2, <3>3, LeavesQueue
  <2>11. /\ \A j \in Conns, u \in Tasks : Lent(j, u)' <=> (j = i /\ u = t) \/ Lent(j, u)
         /\ \A u \in Tasks : ~Lent(i, u)
         /\ \A j \in Conns : ~Lent(j, t)
    <3>1. \A u \in Tasks : ~Lent(i, u)
      BY <1>1 DEF Lent
    <3>2. \A j \in Conns : ~Lent(j, t)
      BY <2>1, <2>5 DEF Waits, Leases, Loans, Holds
    <3> QED
      BY <2>3, <2>6, <3>1, <3>2 DEF Lent
  <2>12. Holds'
    BY <1>1, <2>1, <2>4, <2>5, <2>8, <2>11 DEF Leases, Loans, Holds, Waits, k
  <2>13. OneLease' /\ HasOne'
    BY <2>8, <2>11 DEF Leases, Loans, OneLease, HasOne
  <2> QED
    BY <2>4, <2>6, <2>7, <2>8, <2>10, <2>12, <2>13
       DEF Leases, Types, CfgsType, OtherType, Stored, Loans
<1> QED
  BY <1>3, <1>4

LEMMA TimeOutKeeps == ASSUME Leases, NEW t \in Tasks, AcquireTimesOut(t) PROVE Leases'
<1> DEFINE k == Key(CfgOf[t])
<1>1. k \in Keys
  BY CallKey
<1>2. queue[k] \in Seq(Tasks) /\ Len(queue[k]) \in Nat /\ DOMAIN queue[k] = 1..Len(queue[k])
  BY <1>1, LenProperties DEF Leases, Types, QueueType
<1>3. PICK n \in 1..Len(queue[k]) :
        /\ queue[k][n] = t
        /\ queue' = [queue EXCEPT ![k] = [j \in 1 .. Len(queue[k]) - 1 |->
                       IF j < n THEN queue[k][j] ELSE queue[k][j + 1]]]
  BY <1>1, <1>2 DEF AcquireTimesOut, Leases, Types, QueueType
<1>4. /\ task[t] = "waiting" /\ task' = [task EXCEPT ![t] = "failed"]
      /\ UNCHANGED <<cfgs, conn, password>>
  BY DEF AcquireTimesOut
<1> HIDE DEF k
<1> DEFINE q == [j \in 1 .. Len(queue[k]) - 1 |-> IF j < n THEN queue[k][j] ELSE queue[k][j + 1]]
<1>5. \A j \in 1 .. Len(queue[k]) - 1 : q[j] \in Tasks
  <2>1. \A j \in 1..Len(queue[k]) : queue[k][j] \in Tasks
    BY <1>2, ElementOfSeq
  <2>2. \A j \in 1 .. Len(queue[k]) - 1 : j \in 1..Len(queue[k]) /\ j + 1 \in 1..Len(queue[k])
    BY <1>2
  <2> QED
    BY <2>1, <2>2
<1>6. q \in Seq(Tasks) /\ Len(q) = Len(queue[k]) - 1
  <2>1. Len(queue[k]) - 1 \in Nat
    BY <1>2
  <2>2. q \in [1 .. Len(queue[k]) - 1 -> Tasks]
    BY <1>5
  <2> HIDE DEF q
  <2>3. q \in Seq(Tasks)
    BY <2>1, <2>2, SeqDef
  <2> QED
    BY <2>1, <2>2, <2>3, LenProperties
<1>7. /\ queue'[k] = q /\ QueueType' /\ \A x \in Keys : x # k => queue'[x] = queue[x]
  <2>1. queue' = [queue EXCEPT ![k] = q]
    BY <1>3
  <2> HIDE DEF q
  <2> QED
    BY <1>1, <1>6, <2>1 DEF Leases, Types, QueueType
<1>8. TaskType' /\ \A u \in Tasks : u # t => task'[u] = task[u]
  BY <1>4 DEF Leases, Types, TaskType
<1>9. Queues'
  <2>1. \A a \in 1..Len(queue'[k]) :
          queue'[k][a] = IF a < n THEN queue[k][a] ELSE queue[k][a+1]
    BY <1>6, <1>7
  <2> HIDE DEF q
  <2> QED
    BY <1>1, <1>3, <1>4, <1>6, <1>7, <1>8, <2>1, LeavesQueue
<1>10. \A u \in Tasks : task'[u] = "using" <=> task[u] = "using"
  BY <1>4 DEF Leases, Types, TaskType
<1>11. Loans'
  BY <1>4, <1>10 DEF Leases, Loans, Holds, OneLease, HasOne, Lent
<1> QED
  BY <1>4, <1>7, <1>8, <1>9, <1>11 DEF Leases, Types, CfgsType, OtherType, Stored

(* The connection is nobody's again.                                       *)
LEMMA FinishKeeps == ASSUME Leases, NEW t \in Tasks, Finish(t) PROVE Leases'
<1>1. PICK i \in Conns, result \in {"done", "failed"} :
        /\ task[t] = "using" /\ Lent(i, t)
        /\ task' = [task EXCEPT ![t] = result]
        /\ Redispense(i, [conn EXCEPT ![i].state = "idle", ![i].task = NoTask])
        /\ UNCHANGED <<cfgs, queue, password>>
  BY DEF Finish, Lent
<1> DEFINE c == [conn[i] EXCEPT !.state = "idle", !.task = NoTask]
<1>2. conn[i] \in ConnType /\ conn[i].state = "lent"
  BY <1>1 DEF Lent, Leases, Types, Pools
<1>3. c \in ConnType /\ c.state = "idle"
  <2>1. conn[i] \in [state : {"lent"}, task : Tasks, alive : BOOLEAN]
    BY <1>2 DEF ConnType, Held, Unused
  <2>2. /\ c \in [state : Held \ {"lent"}, task : {NoTask}, alive : BOOLEAN]
        /\ c.state = "idle"
    BY <2>1 DEF Held
  <2> QED
    BY <2>2 DEF ConnType
<1>4. Redispense(i, [conn EXCEPT ![i] = c])
  BY <1>1 DEF Leases, Types, Pools
<1> HIDE DEF c
<1>5. conn' \in Pools /\ SameLoans([conn EXCEPT ![i] = c], conn')
  BY <1>3, <1>4, RedispenseEffect DEF Leases
<1>6. \A j \in Conns, u \in Tasks : Lent(j, u)' <=> j # i /\ Lent(j, u)
  BY <1>3, <1>5 DEF Leases, Types, Pools, SameLoans, Lent
<1>7. /\ TaskType' /\ task'[t] # "using" /\ task'[t] # "waiting"
      /\ \A u \in Tasks : u # t => task'[u] = task[u]
  BY <1>1 DEF Leases, Types, TaskType
<1>8. Queues'
  <2>1. ASSUME NEW x \in Keys, NEW a \in 1..Len(queue[x]) PROVE Waits(queue[x][a], x)'
    <3>1. Waits(queue[x][a], x) /\ queue[x][a] \in Tasks
      BY ElementOfSeq DEF Leases, Queues, Queued, Types, QueueType
    <3> QED
      BY <1>1, <1>7, <3>1 DEF Waits
  <2>2. Once'
    BY <1>1 DEF Leases, Queues, Once
  <2> QED
    BY <1>1, <2>1, <2>2 DEF Queues, Queued
<1>9. \A j \in Conns : Lent(j, t) => j = i
  BY <1>1 DEF Leases, Loans, OneLease
<1>10. Holds' /\ OneLease'
  BY <1>1, <1>6, <1>7, <1>9 DEF Leases, Loans, Holds, OneLease
<1>11. HasOne'
  <2>1. ASSUME NEW u \in Tasks, task'[u] = "using" PROVE \E j \in Conns : Lent(j, u)'
    <3>1. u # t /\ task[u] = "using"
      BY <1>7, <2>1
    <3>2. PICK j \in Conns : Lent(j, u)
      BY <3>1 DEF Leases, Loans, HasOne
    <3>3. j # i
      BY <1>1, <3>1, <3>2 DEF Lent
    <3> QED
      BY <1>6, <3>2, <3>3
  <2> QED
    BY <2>1 DEF HasOne
<1> QED
  BY <1>1, <1>5, <1>7, <1>8, <1>10, <1>11
     DEF Leases, Types, CfgsType, QueueType, OtherType, Stored, Loans

LEMMA InitLeases == Init => Leases
<1> SUFFICES ASSUME Init PROVE Leases
  OBVIOUS
<1>1. conn \in Pools /\ \A i \in Conns : conn[i].state # "lent"
  BY ConnRecords DEF Init, Pools
<1>2. DOMAIN cfgs = {} /\ \A k \in Keys : Len(queue[k]) = 0
  BY DEF Init
<1>3. Types
  BY <1>1, <1>2, EmptySeq, CfgAssumption
     DEF Init, Types, CfgsType, QueueType, TaskType, OtherType
<1>4. Stored /\ Queues
  BY <1>2 DEF Stored, Queues, Queued, Once
<1>5. Loans
  BY <1>1 DEF Init, Loans, Holds, OneLease, HasOne, Lent
<1> QED
  BY <1>3, <1>4, <1>5 DEF Leases

LEMMA NextLeases == Leases /\ [Next]_vars => Leases'
<1> SUFFICES ASSUME Leases, [Next]_vars PROVE Leases'
  OBVIOUS
<1>1. CASE \E i \in Conns : ConnStep(i)
  BY <1>1, ConnKeeps, ValidationKeeps DEF ConnStep
<1>2. CASE \E t \in Tasks : TaskStep(t)
  BY <1>2, AcquireKeeps, TimeOutKeeps, FinishKeeps DEF TaskStep
<1>3. ASSUME UNCHANGED <<cfgs, conn, queue, task>>, OtherType' PROVE Leases'
  BY <1>3, SameLoansKeep DEF SameLoans, Leases, Types
<1>4. CASE \E b \in Boxes, p \in Passwords : ChangePassword(b, p)
  BY <1>3, <1>4 DEF ChangePassword, Leases, Types, OtherType
<1>5. CASE UNCHANGED vars
  BY <1>3, <1>5 DEF vars, Leases, Types, OtherType
<1> QED
  BY <1>1, <1>2, <1>4, <1>5 DEF Next

LEMMA LeasesInvariant == Spec => []Leases
  BY InitLeases, NextLeases, PTL DEF Spec

(* For any limit and any calls: the pools keep their types; a connection   *)
(* is a call's exactly while it is lent.                                   *)
THEOREM PoolTypes == Spec => []TypeOK
<1>1. Leases => TypeOK
  BY DEF Leases, Types, CfgsType, TaskType, QueueType, OtherType, Pools, TypeOK
<1> QED
  BY <1>1, LeasesInvariant, PTL

(* For any limit, calls and configurations: no call runs on a connection   *)
(* that was opened with other credentials than its own.                    *)
THEOREM CredentialsAreOwn == Spec => []OwnCredentials
<1>1. ASSUME Leases, NEW i \in Conns, conn[i].state = "lent"
      PROVE  cfgs[i[1]] = CfgOf[conn[i].task]
  <2>1. conn[i].task \in Tasks
    BY <1>1, ConnFacts DEF Leases, Types, Pools
  <2>2. Key(CfgOf[conn[i].task]) = i[1] /\ i[1] \in DOMAIN cfgs
    BY <1>1, <2>1 DEF Leases, Loans, Holds, Lent
  <2>3. cfgs[i[1]] \in Cfgs /\ Key(cfgs[i[1]]) = i[1]
    BY <1>1, <2>2 DEF Leases, Types, CfgsType, Stored
  <2> QED
    BY <2>1, <2>2, <2>3, CallKey, KeyInjective
<1>2. Leases => OwnCredentials
  BY <1>1 DEF OwnCredentials
<1> QED
  BY <1>2, LeasesInvariant, PTL

(* For any limit and any order of failures, timeouts and drops: a call     *)
(* that runs has exactly one connection, and any other call none.          *)
THEOREM LeasesAreMatched == Spec => []LeasesMatchCalls
<1>1. ASSUME Leases, NEW t \in Tasks
      PROVE  Cardinality({i \in Conns : conn[i].state = "lent" /\ conn[i].task = t})
               = IF task[t] = "using" THEN 1 ELSE 0
  <2> DEFINE L == {i \in Conns : conn[i].state = "lent" /\ conn[i].task = t}
  <2>1. CASE task[t] = "using"
    <3>1. PICK i \in Conns : Lent(i, t)
      BY <1>1, <2>1 DEF Leases, Loans, HasOne
    <3>2. L = {i}
      BY <1>1, <3>1 DEF Leases, Loans, OneLease, Lent
    <3> HIDE DEF L
    <3> QED
      BY <2>1, <3>2, FS_Singleton DEF L
  <2>2. CASE task[t] # "using"
    <3>1. L = {}
      BY <1>1, <2>2 DEF Leases, Loans, Holds, Lent
    <3> QED
      BY <2>2, <3>1, FS_EmptySet
  <2> QED
    BY <2>1, <2>2
<1>2. Leases => LeasesMatchCalls
  BY <1>1 DEF LeasesMatchCalls
<1> QED
  BY <1>2, LeasesInvariant, PTL

-----------------------------------------------------------------------------
(* The pools implement Leasing. A step that lends and takes back nothing   *)
(* does not show; the others are its actions.                              *)

LEMMA ServiceInit == Init => Service!Init
<1> SUFFICES ASSUME Init PROVE Service!Init
  OBVIOUS
<1>1. \A i \in Conns : conn[i].task = NoTask
  BY DEF Init, Unused
<1>2. Lessee = [i \in Keys \X (1..MaxPerBox) |-> NoTask]
  BY <1>1 DEF Lessee, Conns
<1> QED
  BY <1>2 DEF Init, Service!Init

LEMMA SameLessees ==
  ASSUME NEW c, SameLoans(conn, c)
  PROVE  Lessee = [i \in Conns |-> c[i].task]
  BY DEF SameLoans, Lessee

LEMMA SameService ==
  ASSUME SameLoans(conn, conn'), UNCHANGED <<queue, task>>
  PROVE  UNCHANGED Service!vars
<1>1. Lessee' = Lessee
  BY SameLessees DEF Lessee
<1> QED
  BY <1>1 DEF Service!vars

LEMMA AcquireAsks == ASSUME Leases, NEW t \in Tasks, Acquire(t) PROVE Service!Ask(t)
<1>1. Lessee' = Lessee
  BY AcquireSame, SameLessees DEF Lessee
<1>2. queue' = [queue EXCEPT ![Key(CfgOf[t])] = Append(@, t)]
  BY DEF Acquire
<1>3. task[t] = "new" /\ task' = [task EXCEPT ![t] = "waiting"]
  BY DEF Acquire
<1> QED
  BY <1>1, <1>2, <1>3 DEF Service!Ask, Service!Enter

LEMMA ValidationLends ==
  ASSUME Leases, NEW i \in Conns, ValidationPasses(i)
  PROVE  UNCHANGED Service!vars \/ \E k \in Keys : \E s \in Service!PlacesOf(k) : Service!Lend(k, s)
<1> DEFINE k == i[1]
           t == Head(queue[k])
<1>1. k \in Keys /\ conn[i] \in ConnType /\ conn[i].state = "testing" /\ i \in Service!PlacesOf(k)
  BY DEF Conns, Leases, Types, Pools, ValidationPasses, Service!PlacesOf
<1>2. conn[i].task = NoTask
  BY <1>1, ConnFacts
<1>3. CASE queue[k] = <<>>
  <2>1. conn' = [conn EXCEPT ![i].state = "idle"] /\ UNCHANGED <<queue, task>>
    BY <1>3 DEF ValidationPasses
  <2>2. \A j \in Conns : conn'[j].task = conn[j].task
    BY <1>1, <2>1 DEF ConnType, Unused, Leases, Types, Pools
  <2>3. Lessee' = Lessee
    BY <2>2 DEF Lessee
  <2> QED
    BY <2>1, <2>3 DEF Service!vars
<1>4. CASE queue[k] # <<>>
  <2>1. /\ conn' = [conn EXCEPT ![i].state = "lent", ![i].task = t]
        /\ queue' = [queue EXCEPT ![k] = Tail(@)]
        /\ task' = [task EXCEPT ![t] = "using"]
    BY <1>4 DEF ValidationPasses
  <2>2. queue[k] \in Seq(Tasks)
    BY <1>1 DEF Leases, Types, QueueType
  <2>3. t \in Tasks
    BY <1>4, <2>2, HeadTailProperties
  <2> DEFINE c == [conn[i] EXCEPT !.state = "lent", !.task = t]
  <2>4. c.task = t
    BY <1>1, <2>3, SetLent
  <2>5. conn' = [conn EXCEPT ![i] = c]
    BY <2>1 DEF Leases, Types, Pools
  <2> HIDE DEF c, t
  <2>6. Lessee' = [Lessee EXCEPT ![i] = t]
    <3>1. conn'[i].task = t /\ \A j \in Conns : j # i => conn'[j] = conn[j]
      BY <2>4, <2>5 DEF Leases, Types, Pools
    <3> QED
      BY <3>1 DEF Lessee
  <2>7. Lessee[i] = NoTask
    BY <1>2 DEF Lessee
  <2>8. Service!Lend(k, i)
    BY <1>4, <2>1, <2>6, <2>7 DEF Service!Lend, Service!Enter, t
  <2> QED
    BY <1>1, <2>8
<1> QED
  BY <1>3, <1>4

(* What is left of a queue without its n-th member.                        *)
LEMMA Leaving ==
  ASSUME NEW S, NEW q \in Seq(S), NEW n \in 1..Len(q)
  PROVE  [j \in 1 .. Len(q) - 1 |-> IF j < n THEN q[j] ELSE q[j + 1]]
           = SubSeq(q, 1, n - 1) \o SubSeq(q, n + 1, Len(q))
<1> DEFINE r == [j \in 1 .. Len(q) - 1 |-> IF j < n THEN q[j] ELSE q[j + 1]]
           a == SubSeq(q, 1, n - 1)
           b == SubSeq(q, n + 1, Len(q))
<1>1. /\ a \in Seq(S) /\ Len(a) = n - 1 /\ \A j \in 1 .. n - 1 : a[j] = q[j]
      /\ b \in Seq(S) /\ Len(b) = Len(q) - n /\ \A j \in 1 .. Len(q) - n : b[j] = q[n + j]
  OBVIOUS
<1> HIDE DEF a, b
<1>2. /\ a \o b \in Seq(S) /\ Len(a \o b) = Len(q) - 1
      /\ \A j \in 1 .. Len(q) - 1 : (a \o b)[j] = IF j <= n - 1 THEN a[j] ELSE b[j - (n - 1)]
  <2>1. /\ a \o b \in Seq(S) /\ Len(a \o b) = Len(a) + Len(b)
        /\ \A j \in 1 .. Len(a) + Len(b) :
             (a \o b)[j] = IF j <= Len(a) THEN a[j] ELSE b[j - Len(a)]
    BY <1>1, ConcatProperties
  <2>2. Len(a) + Len(b) = Len(q) - 1
    BY <1>1
  <2> QED
    BY <1>1, <2>1, <2>2
<1>3. ASSUME NEW j \in 1 .. Len(q) - 1 PROVE r[j] = (a \o b)[j]
  <2>1. CASE j < n
    BY <1>1, <1>2, <2>1
  <2>2. CASE ~(j < n)
    <3>1. j - (n - 1) \in 1 .. Len(q) - n /\ n + (j - (n - 1)) = j + 1 /\ ~(j <= n - 1)
      BY <2>2
    <3> QED
      BY <1>1, <1>2, <2>2, <3>1
  <2> QED
    BY <2>1, <2>2
<1>4. r \in Seq(S) /\ Len(r) = Len(q) - 1
  OBVIOUS
<1> HIDE DEF r
<1>5. r = a \o b
  <2>1. Len(r) = Len(a \o b) /\ \A j \in 1..Len(r) : r[j] = (a \o b)[j]
    BY <1>2, <1>3, <1>4
  <2> QED
    BY <1>2, <1>4, <2>1, SeqEqual
<1> QED
  BY <1>5 DEF r, a, b

LEMMA TimeOutGivesUp ==
  ASSUME Leases, NEW t \in Tasks, AcquireTimesOut(t)
  PROVE  Service!GiveUp(t)
<1> DEFINE k == Key(CfgOf[t])
<1>1. k \in Keys /\ queue[k] \in Seq(Tasks)
  BY CallKey DEF Leases, Types, QueueType
<1>2. PICK n \in DOMAIN queue[k] :
        /\ queue[k][n] = t
        /\ queue' = [queue EXCEPT ![k] = [j \in 1 .. Len(@) - 1 |-> IF j < n THEN @[j] ELSE @[j + 1]]]
  BY DEF AcquireTimesOut
<1>3. n \in 1..Len(queue[k])
  BY <1>1, <1>2
<1>4. queue' = [queue EXCEPT ![k] = SubSeq(@, 1, n - 1) \o SubSeq(@, n + 1, Len(@))]
  BY <1>1, <1>2, <1>3, Leaving
<1>5. task[t] = "waiting" /\ task' = [task EXCEPT ![t] = "failed"] /\ UNCHANGED conn
  BY DEF AcquireTimesOut
<1>6. Lessee' = Lessee
  BY <1>5 DEF Lessee
<1> HIDE DEF k
<1> QED
  BY <1>2, <1>4, <1>5, <1>6 DEF Service!GiveUp, Service!Enter, k

LEMMA FinishReturns ==
  ASSUME Leases, NEW t \in Tasks, Finish(t)
  PROVE  \E k \in Keys : \E s \in Service!PlacesOf(k) : Service!Return(t, s)
<1>1. PICK i \in Conns, result \in {"done", "failed"} :
        /\ task[t] = "using" /\ Lent(i, t)
        /\ task' = [task EXCEPT ![t] = result]
        /\ Redispense(i, [conn EXCEPT ![i].state = "idle", ![i].task = NoTask])
        /\ UNCHANGED queue
  BY DEF Finish, Lent
<1> DEFINE c == [conn[i] EXCEPT !.state = "idle", !.task = NoTask]
<1>2. conn[i] \in ConnType /\ conn[i].state = "lent"
  BY <1>1 DEF Lent, Leases, Types, Pools
<1>3. c \in ConnType /\ c.task = NoTask
  <2>1. conn[i] \in [state : {"lent"}, task : Tasks, alive : BOOLEAN]
    BY <1>2 DEF ConnType, Held, Unused
  <2>2. /\ c \in [state : Held \ {"lent"}, task : {NoTask}, alive : BOOLEAN]
        /\ c.task = NoTask
    BY <2>1 DEF Held
  <2> QED
    BY <2>2 DEF ConnType
<1>4. Redispense(i, [conn EXCEPT ![i] = c])
  BY <1>1 DEF Leases, Types, Pools
<1> HIDE DEF c
<1>5. SameLoans([conn EXCEPT ![i] = c], conn')
  BY <1>3, <1>4, RedispenseEffect DEF Leases
<1>6. Lessee' = [Lessee EXCEPT ![i] = NoTask]
  <2>1. \A j \in Conns : conn'[j].task = IF j = i THEN NoTask ELSE conn[j].task
    BY <1>3, <1>5 DEF SameLoans, Leases, Types, Pools
  <2> QED
    BY <2>1 DEF Lessee
<1>7. Lessee[i] = t
  BY <1>1 DEF Lessee, Lent
<1>8. i[1] \in Keys /\ i \in Service!PlacesOf(i[1])
  BY DEF Conns, Service!PlacesOf
<1>9. Service!Return(t, i)
  BY <1>1, <1>6, <1>7 DEF Service!Return, Service!Enter
<1> QED
  BY <1>8, <1>9

LEMMA ServiceStep == Leases /\ [Next]_vars => [Service!Next]_Service!vars
<1> SUFFICES ASSUME Leases, [Next]_vars PROVE [Service!Next]_Service!vars
  OBVIOUS
<1>1. ASSUME NEW i \in Conns, ConnStep(i) PROVE [Service!Next]_Service!vars
  <2>1. CASE ValidationPasses(i)
    BY <2>1, ValidationLends DEF Service!Next
  <2>2. CASE ~ValidationPasses(i)
    BY <1>1, <2>2, ConnSame, SameService DEF ConnStep
  <2> QED
    BY <2>1, <2>2
<1>2. ASSUME NEW t \in Tasks, TaskStep(t) PROVE [Service!Next]_Service!vars
  BY <1>2, AcquireAsks, TimeOutGivesUp, FinishReturns DEF TaskStep, Service!Next
<1>3. ASSUME UNCHANGED <<conn, queue, task>> PROVE [Service!Next]_Service!vars
  BY <1>3, SameService DEF SameLoans
<1>4. CASE \E b \in Boxes, p \in Passwords : ChangePassword(b, p)
  BY <1>3, <1>4 DEF ChangePassword
<1>5. CASE UNCHANGED vars
  BY <1>3, <1>5 DEF vars
<1> QED
  BY <1>1, <1>2, <1>4, <1>5 DEF Next

(* For any limit, calls and configurations, and whatever fails, drops,     *)
(* times out or is evicted: withConnection lends in the order of the       *)
(* calls, at most MaxPerBox connections of a pool at a time, each to one   *)
(* call, until that call has ended.                                        *)
THEOREM PoolsImplementLeasing == Spec => ImplementsLeasing
<1>1. Init => Service!Init
  BY ServiceInit
<1>2. Leases /\ [Next]_vars => [Service!Next]_Service!vars
  BY ServiceStep
<1> QED
  BY <1>1, <1>2, LeasesInvariant, PTL DEF Spec, ImplementsLeasing, Service!Spec

-----------------------------------------------------------------------------
(* Second layer: what a pool with w waiting clients has done for them. It  *)
(* tests a connection for each, unless none is idle; and it has a          *)
(* connection on its way for each, unless it is at its limit.              *)

Alloc == Held \ {"lent"}
Count(cs, k, states) == Cardinality(In(cs, k, states))

Attended(cs, k, w) ==
  w > 0 => /\ Count(cs, k, {"testing"}) >= w \/ In(cs, k, {"idle"}) = {}
           /\ Count(cs, k, Alloc) >= w \/ In(cs, k, {"unused"}) = {}

Attention == \A k \in Keys : Attended(conn, k, Len(queue[k]))

LEMMA CountType ==
  ASSUME NEW cs, NEW k \in Keys, NEW states
  PROVE  Count(cs, k, states) \in Nat
  BY InFinite DEF Count

(* What happens in other pools makes no difference.                        *)
LEMMA OtherPools ==
  ASSUME NEW cs, NEW ds, NEW k \in Keys, NEW w,
         \A i \in Places(k) : ds[i].state = cs[i].state, Attended(cs, k, w)
  PROVE  Attended(ds, k, w)
<1>1. \A states : In(ds, k, states) = In(cs, k, states)
  BY DEF In
<1> QED
  BY <1>1 DEF Attended, Count

(* More of the elements a set of connections has, up to all of them.       *)
LEMMA TakeEnough ==
  ASSUME NEW cs, NEW k \in Keys, NEW had, NEW there, NEW taken \in SUBSET In(cs, k, {there}),
         there \notin had, NEW w \in Nat,
         Cardinality(taken) = Excess(Least(Count(cs, k, {there}), w - Count(cs, k, had)))
  PROVE  \/ Cardinality(In(cs, k, had) \cup taken) >= w
         \/ In(cs, k, {there}) \ taken = {}
<1> DEFINE H == In(cs, k, had)
           S == In(cs, k, {there})
           h == Count(cs, k, had)
           s == Count(cs, k, {there})
<1>1. /\ IsFiniteSet(H) /\ IsFiniteSet(S) /\ h \in Nat /\ s \in Nat
      /\ Cardinality(H) = h /\ Cardinality(S) = s
  BY InFinite DEF Count
<1>2. H \cap taken = {}
  BY DEF In
<1> HIDE DEF H, S, h, s
<1>3. IsFiniteSet(taken) /\ Cardinality(taken) \in Nat
  BY <1>1, FS_Subset, FS_CardinalityType DEF S
<1>4. Cardinality(H \cap taken) = 0
  BY <1>2, FS_EmptySet
<1>5. Cardinality(H \cup taken) = Cardinality(H) + Cardinality(taken) - Cardinality(H \cap taken)
  BY <1>1, <1>3, FS_Union
<1>6. Cardinality(H \cup taken) = h + Cardinality(taken)
  BY <1>1, <1>3, <1>4, <1>5
<1>7. Cardinality(taken) = Excess(Least(s, w - h))
  BY DEF s, h
<1>8. CASE Cardinality(taken) = s
  <2>1. taken = S
    BY <1>1, <1>8, FS_Subset DEF S
  <2> QED
    BY <2>1 DEF S
<1>9. CASE Cardinality(taken) # s
  <2>1. h + Cardinality(taken) >= w
    BY <1>1, <1>3, <1>7, <1>9 DEF Excess, Least
  <2> QED
    BY <1>6, <2>1 DEF H
<1> QED
  BY <1>8, <1>9

LEMMA DispenseAttends ==
  ASSUME NEW cs \in Pools, NEW k \in Keys, NEW w \in Nat
  PROVE  Attended(Dispense(cs, k, w), k, w)
<1>1. CASE w = 0
  BY <1>1 DEF Attended
<1>2. CASE w # 0
  <2>1. PICK tested \in SUBSET In(cs, k, {"idle"}), created \in SUBSET In(cs, k, {"unused"}) :
          /\ Dispense(cs, k, w) = Begin(cs, tested, created)
          /\ Cardinality(tested) = Tests(cs, k, w)
          /\ Cardinality(created) = Creates(cs, k, w)
    BY <1>2, DispenseIsBegin
  <2> DEFINE ds == Begin(cs, tested, created)
  <2>2. \A i \in Conns :
          ds[i].state = IF i \in tested THEN "testing"
                        ELSE IF i \in created THEN "connecting" ELSE cs[i].state
    BY BeginEffect
  <2>3. Places(k) \subseteq Conns
    BY PlacesOf
  <2> HIDE DEF ds
  <2>4. /\ In(ds, k, {"testing"}) = In(cs, k, {"testing"}) \cup tested
        /\ In(ds, k, {"idle"}) = In(cs, k, {"idle"}) \ tested
    BY <2>2, <2>3 DEF In
  <2>5. /\ In(ds, k, Alloc) = In(cs, k, Alloc) \cup created
        /\ In(ds, k, {"unused"}) = In(cs, k, {"unused"}) \ created
    BY <2>2, <2>3 DEF In, Alloc, Held
  <2>6. \/ Cardinality(In(cs, k, {"testing"}) \cup tested) >= w
        \/ In(cs, k, {"idle"}) \ tested = {}
    BY <2>1, TakeEnough DEF Tests, Count
  <2>7. \/ Cardinality(In(cs, k, Alloc) \cup created) >= w
        \/ In(cs, k, {"unused"}) \ created = {}
    <3>1. "unused" \notin Alloc
      BY DEF Alloc, Held
    <3> QED
      BY <2>1, <3>1, TakeEnough DEF Creates, Count, Alloc
  <2> QED
    BY <2>1, <2>4, <2>5, <2>6, <2>7 DEF Attended, Count, ds
<1> QED
  BY <1>1, <1>2

(* A step that changes one pool, and that pool dispenses at its end.       *)
LEMMA DispensingAttends ==
  ASSUME Types, Attention, NEW k \in Keys, NEW cs \in Pools,
         \A i \in Conns : i[1] # k => cs[i] = conn[i],
         Len(queue'[k]) \in Nat, conn' = Dispense(cs, k, Len(queue'[k])),
         \A x \in Keys : x # k => queue'[x] = queue[x]
  PROVE  Attention'
<1>1. Attended(conn', k, Len(queue'[k]))
  BY DispenseAttends
<1>2. ASSUME NEW x \in Keys, x # k PROVE Attended(conn', x, Len(queue'[x]))
  <2>1. \A i \in Conns : i[1] # k => conn'[i] = conn[i]
    BY DispenseEffect
  <2>2. \A i \in Places(x) : conn'[i].state = conn[i].state
    BY <1>2, <2>1, PlacesOf
  <2>3. Attended(conn, x, Len(queue[x]))
    BY DEF Attention
  <2> QED
    BY <1>2, <2>2, <2>3, OtherPools
<1> QED
  BY <1>1, <1>2 DEF Attention

LEMMA RedispensingAttends ==
  ASSUME Types, Attention, NEW i \in Conns, NEW cs \in Pools, UNCHANGED queue,
         \A j \in Conns : j[1] # i[1] => cs[j] = conn[j], Redispense(i, cs)
  PROVE  Attention'
<1>1. i[1] \in Keys
  BY DEF Conns
<1>2. Len(queue[i[1]]) \in Nat
  BY <1>1, LenProperties DEF Types, QueueType
<1>3. conn' = Dispense(cs, i[1], Len(queue'[i[1]]))
  BY DEF Redispense
<1> QED
  BY <1>1, <1>2, <1>3, DispensingAttends

(* The client at the head of the queue leaves with its connection.         *)
LEMMA ServingAttends ==
  ASSUME Types, Attention, NEW i \in Conns, ValidationPasses(i)
  PROVE  Attention'
<1> DEFINE k == i[1]
<1>1. k \in Keys /\ conn[i].state = "testing" /\ i \in Places(k) /\ Places(k) \subseteq Conns
  BY PlacesOf DEF Conns, ValidationPasses
<1>2. queue[k] \in Seq(Tasks) /\ Len(queue[k]) \in Nat
  BY <1>1, LenProperties DEF Types, QueueType
<1>3. /\ \A j \in Conns : j # i => conn'[j] = conn[j]
      /\ \A x \in Keys : x # k => queue'[x] = queue[x]
  BY DEF ValidationPasses, Types, Pools, QueueType
<1>4. \A x \in Keys : Attended(conn, x, Len(queue[x]))
  BY DEF Attention
<1>5. ASSUME NEW x \in Keys, x # k PROVE Attended(conn', x, Len(queue'[x]))
  <2>1. \A j \in Places(x) : j # i /\ j \in Conns
    BY <1>5, PlacesOf
  <2> QED
    BY <1>3, <1>4, <1>5, <2>1, OtherPools
<1>6. CASE queue[k] = <<>>
  <2>1. queue'[k] = <<>>
    BY <1>6 DEF ValidationPasses
  <2>2. Attended(conn', k, Len(queue'[k]))
    BY <2>1, EmptySeq DEF Attended
  <2> QED
    BY <1>5, <2>2 DEF Attention
<1>7. CASE queue[k] # <<>>
  <2>1. Len(queue'[k]) = Len(queue[k]) - 1 /\ Len(queue[k]) > 0
    <3>1. queue'[k] = Tail(queue[k])
      BY <1>1, <1>7 DEF ValidationPasses, Types, QueueType
    <3> QED
      BY <1>2, <1>7, <3>1, HeadTailProperties, EmptySeq
  <2>2. conn'[i].state = "lent"
    <3> DEFINE c == [conn[i] EXCEPT !.state = "lent", !.task = Head(queue[k])]
    <3>1. conn' = [conn EXCEPT ![i] = c]
      BY <1>7 DEF ValidationPasses, Types, Pools
    <3>2. conn[i] \in ConnType /\ Head(queue[k]) \in Tasks
      BY <1>2, <1>7, HeadTailProperties DEF Types, Pools
    <3>3. c.state = "lent"
      BY <1>1, <3>2, SetLent
    <3> HIDE DEF c
    <3> QED
      BY <3>1, <3>3 DEF Types, Pools
  <2> HIDE DEF k
  <2>3. /\ In(conn', k, {"testing"}) = In(conn, k, {"testing"}) \ {i}
        /\ In(conn', k, Alloc) = In(conn, k, Alloc) \ {i}
        /\ In(conn', k, {"idle"}) = In(conn, k, {"idle"})
        /\ In(conn', k, {"unused"}) = In(conn, k, {"unused"})
        /\ i \in In(conn, k, {"testing"}) /\ i \in In(conn, k, Alloc)
    BY <1>1, <1>3, <2>2 DEF In, Alloc, Held
  <2>4. ASSUME NEW states, i \in In(conn, k, states),
               In(conn', k, states) = In(conn, k, states) \ {i}
        PROVE  Count(conn', k, states) = Count(conn, k, states) - 1
    <3>1. IsFiniteSet(In(conn, k, states))
      BY <1>1, InFinite
    <3>2. Cardinality(In(conn, k, states) \ {i}) = Cardinality(In(conn, k, states)) - 1
      BY <2>4, <3>1, FS_RemoveElement
    <3> QED
      BY <2>4, <3>2 DEF Count
  <2>5. /\ Count(conn', k, {"testing"}) = Count(conn, k, {"testing"}) - 1
        /\ Count(conn', k, Alloc) = Count(conn, k, Alloc) - 1
    BY <2>3, <2>4
  <2>6. Count(conn, k, {"testing"}) \in Nat /\ Count(conn, k, Alloc) \in Nat
    BY <1>1, CountType
  <2>7. Attended(conn', k, Len(queue'[k]))
    BY <1>1, <1>2, <1>4, <2>1, <2>3, <2>5, <2>6 DEF Attended
  <2> QED
    BY <1>5, <2>7 DEF Attention, k
<1> QED
  BY <1>6, <1>7

(* A client that waited no longer has no claim left.                       *)
LEMMA TimingOutAttends ==
  ASSUME Types, Attention, NEW t \in Tasks, AcquireTimesOut(t)
  PROVE  Attention'
<1> DEFINE k == Key(CfgOf[t])
<1>1. k \in Keys
  BY CallKey
<1>2. queue[k] \in Seq(Tasks) /\ Len(queue[k]) \in Nat /\ DOMAIN queue[k] = 1..Len(queue[k])
  BY <1>1, LenProperties DEF Types, QueueType
<1>3. PICK n \in 1..Len(queue[k]) :
        queue' = [queue EXCEPT ![k] = [j \in 1 .. Len(queue[k]) - 1 |->
                    IF j < n THEN queue[k][j] ELSE queue[k][j + 1]]]
  BY <1>1, <1>2 DEF AcquireTimesOut, Types, QueueType
<1>4. UNCHANGED conn
  BY DEF AcquireTimesOut
<1> HIDE DEF k
<1> DEFINE q == [j \in 1 .. Len(queue[k]) - 1 |-> IF j < n THEN queue[k][j] ELSE queue[k][j + 1]]
<1>5. Len(queue[k]) - 1 \in Nat
  BY <1>2
<1>6. queue'[k] = q /\ \A x \in Keys : x # k => queue'[x] = queue[x]
  <2>1. queue' = [queue EXCEPT ![k] = q]
    BY <1>3
  <2> HIDE DEF q
  <2> QED
    BY <1>1, <2>1 DEF Types, QueueType
<1>7. Len(q) = Len(queue[k]) - 1
  <2>1. DOMAIN q = 1 .. Len(queue[k]) - 1
    OBVIOUS
  <2> HIDE DEF q
  <2> QED
    BY <1>5, <2>1
<1>8. Attended(conn, k, Len(queue[k])) => Attended(conn, k, Len(queue[k]) - 1)
  BY <1>1, <1>2, CountType DEF Attended
<1> HIDE DEF q
<1> QED
  BY <1>1, <1>4, <1>6, <1>7, <1>8 DEF Attention

(* An idle connection is only left untested when a test is under way for   *)
(* every client, so its pool can do without it.                            *)
LEMMA EvictingAttends ==
  ASSUME Types, Attention, NEW i \in Conns, Evict(i)
  PROVE  Attention'
<1> DEFINE k  == i[1]
           cs == [conn EXCEPT ![i] = Unused]
           w  == Len(queue[k])
<1>1. k \in Keys /\ i \in In(conn, k, {"idle"}) /\ Places(k) \subseteq Conns
  BY PlacesOf DEF Conns, Evict, In
<1>2. cs \in Pools
  BY ConnRecords DEF Types, Pools
<1>3. conn' = EnsureMinimum(cs, k) /\ UNCHANGED queue
  BY DEF Evict, Destroyed
<1>4. \A j \in Conns : j # i => cs[j] = conn[j]
  BY DEF Types, Pools
<1>5. w \in Nat
  BY <1>1, LenProperties DEF Types, QueueType
<1>6. \A x \in Keys : Attended(conn, x, Len(queue[x]))
  BY DEF Attention
<1> HIDE DEF cs, w
<1>7. ASSUME NEW x \in Keys, x # k PROVE Attended(conn', x, Len(queue'[x]))
  <2>1. \A j \in Places(x) : j # i /\ j \in Conns /\ j[1] # k
    BY <1>7, PlacesOf
  <2>2. \A j \in Conns : j[1] # k => conn'[j] = cs[j]
    BY <1>1, <1>2, <1>3, MinimumEffect
  <2> QED
    BY <1>3, <1>4, <1>6, <1>7, <2>1, <2>2, OtherPools
<1> HIDE DEF k
<1>8. ASSUME w > 0 PROVE Attended(conn', k, w)
  <2>1. Count(conn, k, {"testing"}) >= w
    BY <1>1, <1>6, <1>8 DEF Attended, w
  <2>2. In(conn, k, {"testing"}) \subseteq In(cs, k, {"testing"})
    BY <1>1, <1>4 DEF In
  <2>3. In(cs, k, {"testing"}) \subseteq In(cs, k, Alloc) /\ In(cs, k, Alloc) \subseteq In(cs, k, Held)
    BY DEF In, Alloc, Held
  <2>4. /\ Count(cs, k, {"testing"}) >= Count(conn, k, {"testing"})
        /\ Count(cs, k, Alloc) >= Count(cs, k, {"testing"})
    BY <1>1, <2>2, <2>3, InFinite, FS_Subset DEF Count
  <2>5. /\ Count(conn, k, {"testing"}) \in Nat /\ Count(cs, k, {"testing"}) \in Nat
        /\ Count(cs, k, Alloc) \in Nat
    BY <1>1, CountType
  <2>6. Count(cs, k, {"testing"}) >= w /\ Count(cs, k, Alloc) >= w
    BY <1>5, <2>1, <2>4, <2>5
  <2>7. In(cs, k, {"testing"}) # {}
    BY <1>1, <1>5, <1>8, <2>6, InFinite DEF Count
  <2>8. conn' = cs
    BY <1>3, <2>3, <2>7 DEF EnsureMinimum
  <2> QED
    BY <2>6, <2>8 DEF Attended
<1>9. Attended(conn', k, Len(queue'[k]))
  BY <1>3, <1>8 DEF Attended, w
<1> QED
  BY <1>7, <1>9 DEF Attention

LEMMA AcquireAttends ==
  ASSUME Types, Attention, NEW t \in Tasks, Acquire(t)
  PROVE  Attention'
<1> DEFINE k  == Key(CfgOf[t])
           cs == IF k \in DOMAIN cfgs THEN conn ELSE EnsureMinimum(conn, k)
<1>1. k \in Keys
  BY CallKey
<1>2. queue[k] \in Seq(Tasks) /\ Len(queue[k]) \in Nat
  BY <1>1, LenProperties DEF Types, QueueType
<1>3. /\ queue' = [queue EXCEPT ![k] = Append(queue[k], t)]
      /\ conn' = Dispense(cs, k, Len(queue[k]) + 1)
  BY DEF Acquire, Types, QueueType
<1>4. cs \in Pools /\ \A i \in Conns : i[1] # k => cs[i] = conn[i]
  <2>1. conn \in Pools
    BY DEF Types
  <2>2. /\ EnsureMinimum(conn, k) \in Pools
        /\ \A i \in Conns : i[1] # k => EnsureMinimum(conn, k)[i] = conn[i]
    BY <1>1, <2>1, MinimumEffect
  <2> QED
    BY <2>1, <2>2
<1> HIDE DEF k, cs
<1>5. Len(queue'[k]) = Len(queue[k]) + 1 /\ \A x \in Keys : x # k => queue'[x] = queue[x]
  BY <1>1, <1>2, <1>3, AppendProperties DEF Types, QueueType
<1>6. Len(queue'[k]) \in Nat /\ conn' = Dispense(cs, k, Len(queue'[k]))
  BY <1>2, <1>3, <1>5
<1> QED
  BY <1>1, <1>4, <1>5, <1>6, DispensingAttends

LEMMA ConnAttends ==
  ASSUME Types, Attention, NEW i \in Conns, ConnStep(i)
  PROVE  Attention'
<1>1. conn[i] \in ConnType /\ i[1] \in Keys
  BY DEF Types, Pools, Conns
<1>2. ASSUME NEW c \in ConnType
      PROVE  /\ [conn EXCEPT ![i] = c] \in Pools
             /\ \A j \in Conns : j[1] # i[1] => [conn EXCEPT ![i] = c][j] = conn[j]
  BY DEF Types, Pools
<1>3. CASE ConnectSucceeds(i)
  <2> DEFINE c == [conn[i] EXCEPT !.state = "idle"]
  <2>1. c \in ConnType
    BY <1>1, <1>3, SetState DEF ConnectSucceeds, Held
  <2>2. Redispense(i, [conn EXCEPT ![i] = c]) /\ UNCHANGED queue
    BY <1>3 DEF ConnectSucceeds
  <2> HIDE DEF c
  <2> QED
    BY <1>2, <2>1, <2>2, RedispensingAttends
<1>4. CASE ConnectFails(i)
  <2>1. Redispense(i, [conn EXCEPT ![i] = Unused]) /\ UNCHANGED queue
    BY <1>4 DEF ConnectFails
  <2> QED
    BY <1>2, <2>1, ConnRecords, RedispensingAttends
<1>5. CASE ValidationFails(i)
  <2>1. Redispense(i, Destroyed(i)) /\ UNCHANGED queue
    BY <1>5 DEF ValidationFails
  <2>2. /\ [conn EXCEPT ![i] = Unused] \in Pools
        /\ \A j \in Conns : j[1] # i[1] => [conn EXCEPT ![i] = Unused][j] = conn[j]
    BY <1>2, ConnRecords
  <2>3. Destroyed(i) \in Pools /\ \A j \in Conns : j[1] # i[1] => Destroyed(i)[j] = conn[j]
    BY <1>1, <2>2, MinimumEffect DEF Destroyed
  <2> QED
    BY <2>1, <2>3, RedispensingAttends
<1>6. CASE Drops(i)
  <2> DEFINE c == [conn[i] EXCEPT !.alive = FALSE]
  <2>1. c.state = conn[i].state
    BY <1>1, <1>6, SetDead DEF Drops
  <2>2. conn' = [conn EXCEPT ![i] = c] /\ UNCHANGED queue
    BY <1>6 DEF Drops
  <2> HIDE DEF c
  <2>3. \A j \in Conns : conn'[j].state = conn[j].state
    BY <2>1, <2>2 DEF Types, Pools
  <2>4. \A k \in Keys : Places(k) \subseteq Conns
    BY PlacesOf
  <2> QED
    BY <2>2, <2>3, <2>4, OtherPools DEF Attention
<1> QED
  BY <1>3, <1>4, <1>5, <1>6, ServingAttends, EvictingAttends DEF ConnStep

LEMMA FinishAttends ==
  ASSUME Types, Attention, NEW t \in Tasks, Finish(t)
  PROVE  Attention'
<1>1. PICK i \in Conns :
        /\ conn[i].state = "lent" /\ UNCHANGED queue
        /\ Redispense(i, [conn EXCEPT ![i].state = "idle", ![i].task = NoTask])
  BY DEF Finish
<1> DEFINE c == [conn[i] EXCEPT !.state = "idle", !.task = NoTask]
<1>2. c \in ConnType
  <2>1. conn[i] \in [state : {"lent"}, task : Tasks, alive : BOOLEAN]
    BY <1>1 DEF Types, Pools, ConnType, Held, Unused
  <2>2. c \in [state : Held \ {"lent"}, task : {NoTask}, alive : BOOLEAN]
    BY <2>1 DEF Held
  <2> QED
    BY <2>2 DEF ConnType
<1>3. Redispense(i, [conn EXCEPT ![i] = c])
  BY <1>1 DEF Types, Pools
<1> HIDE DEF c
<1>4. /\ [conn EXCEPT ![i] = c] \in Pools
      /\ \A j \in Conns : j[1] # i[1] => [conn EXCEPT ![i] = c][j] = conn[j]
  BY <1>2 DEF Types, Pools
<1> QED
  BY <1>1, <1>3, <1>4, RedispensingAttends

LEMMA NextAttention == Leases /\ Attention /\ [Next]_vars => Attention'
<1> SUFFICES ASSUME Types, Attention, [Next]_vars PROVE Attention'
  BY DEF Leases
<1>1. CASE \E i \in Conns : ConnStep(i)
  BY <1>1, ConnAttends
<1>2. CASE \E t \in Tasks : TaskStep(t)
  BY <1>2, AcquireAttends, TimingOutAttends, FinishAttends DEF TaskStep
<1>3. CASE UNCHANGED <<conn, queue>>
  BY <1>3 DEF Attention
<1>4. CASE (\E b \in Boxes, p \in Passwords : ChangePassword(b, p)) \/ UNCHANGED vars
  BY <1>3, <1>4 DEF ChangePassword, vars
<1> QED
  BY <1>1, <1>2, <1>4 DEF Next

LEMMA AttentionInvariant == Spec => []Attention
<1>1. Init => Attention
  BY EmptySeq DEF Init, Attention, Attended
<1> QED
  BY <1>1, LeasesInvariant, NextAttention, PTL DEF Spec

(* For any limit, any calls and any order of failures, timeouts, drops and *)
(* evictions: a pool with a waiting client opens or tests a connection, or *)
(* has lent all it may have.                                               *)
THEOREM NoClientIsForgotten == Spec => []NoClientForgotten
<1>1. ASSUME Types, Attention, NEW k \in Keys, queue[k] # <<>>,
             In(conn, k, {"connecting", "testing"}) = {}
      PROVE  Cardinality(In(conn, k, {"lent"})) = MaxPerBox
  <2>1. Len(queue[k]) \in Nat /\ Len(queue[k]) > 0
    BY <1>1, LenProperties, EmptySeq DEF Types, QueueType
  <2>2. /\ Count(conn, k, {"testing"}) >= Len(queue[k]) \/ In(conn, k, {"idle"}) = {}
        /\ Count(conn, k, Alloc) >= Len(queue[k]) \/ In(conn, k, {"unused"}) = {}
    BY <1>1, <2>1 DEF Attention, Attended
  <2>3. In(conn, k, {"testing"}) = {}
    BY <1>1 DEF In
  <2>4. In(conn, k, {"idle"}) = {}
    <3>1. Count(conn, k, {"testing"}) = 0
      BY <2>3, FS_EmptySet DEF Count
    <3> QED
      BY <2>1, <2>2, <3>1
  <2>5. In(conn, k, Alloc) = {}
    BY <1>1, <2>4 DEF In, Alloc, Held
  <2>6. In(conn, k, {"unused"}) = {}
    <3>1. Count(conn, k, Alloc) = 0
      BY <2>5, FS_EmptySet DEF Count
    <3> QED
      BY <2>1, <2>2, <3>1
  <2>7. \A i \in Places(k) : conn[i].state \in States
    BY <1>1, PlacesOf, ConnFacts DEF Types, Pools
  <2>8. In(conn, k, {"lent"}) = Places(k)
    BY <2>5, <2>6, <2>7 DEF In, States, Alloc
  <2> QED
    BY <2>8, PlacesFinite
<1>2. Types /\ Attention => NoClientForgotten
  BY <1>1 DEF NoClientForgotten
<1> QED
  BY <1>2, LeasesInvariant, AttentionInvariant, PTL DEF Leases
=============================================================================
