------------------------------ MODULE SftpPool ------------------------------
(***************************************************************************)
(* The pools of SFTP connections (src/recordings/sftp-pool.service.ts):    *)
(* one generic-pool per key, where the key holds host, port, user and a    *)
(* hash of the password, and withConnection, which acquires a connection,  *)
(* runs its caller's function on it and releases it whatever the outcome.  *)
(*                                                                         *)
(* A box is a host, port and user. What generic-pool itself does (its      *)
(* queue, when it creates and tests resources) is external and modelled as *)
(* far as the options of poolFor turn it on: max, min 1, testOnBorrow, an  *)
(* idle timeout and an acquire timeout.                                    *)
(***************************************************************************)
EXTENDS Integers, Sequences, FiniteSets

CONSTANTS
  Tasks,           \* calls of withConnection
  Boxes, Passwords,
  CfgOf,           \* the configuration each task calls with
  InitialPassword, \* what each box accepts at the start
  MaxPerBox,       \* MAX_PER_BOX
  NoTask

Cfgs == [box : Boxes, pass : Passwords]

(* The key of a configuration's pool; the password stands for its hash.    *)
(* Broken variants, marked so, stand before the definition they mutate.    *)
KeyWithoutPassword(c) == c.box         \* Broken: host, port and user only.
Key(c) == <<c.box, c.pass>>
Keys   == {Key(c) : c \in Cfgs}

ASSUME CfgAssumption ==
  CfgOf \in [Tasks -> Cfgs] /\ InitialPassword \in [Boxes -> Passwords]
ASSUME BoundAssumption == MaxPerBox \in Nat \ {0}
ASSUME NoTaskAssumption == NoTask \notin Tasks

VARIABLES
  cfgs,       \* the service's maps: key -> configuration, for every pool made
  conn,       \* what each connection is doing, and for whom
  queue,      \* the waiting clients of each pool, in order
  task,       \* "new", "waiting", "using", "done" or "failed"
  password    \* what each box accepts now

vars == <<cfgs, conn, queue, task, password>>

-----------------------------------------------------------------------------
(* A connection has a place of its pool, until the pool forgets it and     *)
(* calls end() on it, which nothing waits for.                             *)
Places(k) == {k} \X (1 .. MaxPerBox)
Conns     == Keys \X (1 .. MaxPerBox)
Held      == {"connecting", "idle", "testing", "lent"}  \* counted against max

Unused == [state |-> "unused", task |-> NoTask, alive |-> FALSE]
Opened == [state |-> "connecting", task |-> NoTask, alive |-> TRUE]

In(cs, k, states) == {i \in Places(k) : cs[i].state \in states}

(* n members of S; which ones makes no difference, connections being equal.*)
Some(S, n) == CHOOSE T \in SUBSET S : Cardinality(T) = n

(* generic-pool begins to test some connections, and calls the factory's   *)
(* create for some that are not there yet.                                 *)
Begin(cs, tested, created) ==
  [i \in Conns |-> IF i \in tested THEN [cs[i] EXCEPT !.state = "testing"]
                   ELSE IF i \in created THEN Opened ELSE cs[i]]

(* min: 1                                                                  *)
EnsureMinimum(cs, k) ==
  IF In(cs, k, Held) = {} THEN Begin(cs, {}, Some(In(cs, k, {"unused"}), 1)) ELSE cs

Least(a, b) == IF a < b THEN a ELSE b
Excess(a)   == IF a > 0 THEN a ELSE 0

(* generic-pool's dispense: as many new connections as the waiting clients *)
(* lack, up to max, and a validation (testOnBorrow) of as many idle ones   *)
(* as there are clients without one under test.                            *)
Dispense(cs, k, waiting) ==
  LET spare == In(cs, k, {"unused"})
      idle  == In(cs, k, {"idle"})
      lack  == waiting - Cardinality(In(cs, k, Held \ {"lent"}))
      tests == waiting - Cardinality(In(cs, k, {"testing"}))
  IN  IF waiting = 0 THEN cs
      ELSE Begin(cs, Some(idle, Excess(Least(Cardinality(idle), tests))),
                     Some(spare, Excess(Least(Cardinality(spare), lack))))

(* What the pool of connection i does once the connections are cs.         *)
Redispense(i, cs) == conn' = Dispense(cs, i[1], Len(queue[i[1]]))

(* The pool forgets connection i.                                          *)
Destroyed(i) == EnsureMinimum([conn EXCEPT ![i] = Unused], i[1])

-----------------------------------------------------------------------------
Init ==
  /\ cfgs = <<>>
  /\ conn = [i \in Conns |-> Unused]
  /\ queue = [k \in Keys |-> <<>>]
  /\ task = [t \in Tasks |-> "new"]
  /\ password = InitialPassword

(* withConnection up to its acquire: poolFor finds or makes the pool, and  *)
(* a pool starts with its minimum.                                         *)
Acquire(t) ==
  LET k   == Key(CfgOf[t])
      had == k \in DOMAIN cfgs
  IN  /\ task[t] = "new"
      /\ task' = [task EXCEPT ![t] = "waiting"]
      /\ cfgs' = IF had THEN cfgs
                 ELSE [x \in DOMAIN cfgs \cup {k} |-> IF x = k THEN CfgOf[t] ELSE cfgs[x]]
      /\ queue' = [queue EXCEPT ![k] = Append(@, t)]
      /\ conn' = Dispense(IF had THEN conn ELSE EnsureMinimum(conn, k), k, Len(queue[k]) + 1)
      /\ UNCHANGED password

(* create: the connection is opened with the configuration the service     *)
(* stored for the key, and fails unless the box takes that password.       *)
ConnectSucceeds(i) ==
  /\ conn[i].state = "connecting"
  /\ LET cur == cfgs[i[1]] IN password[cur.box] = cur.pass
  /\ Redispense(i, [conn EXCEPT ![i].state = "idle"])
  /\ UNCHANGED <<cfgs, queue, task, password>>

(* Broken: a failed creation is not followed by another attempt.           *)
ConnectFailsForGood(i) ==
  /\ conn[i].state = "connecting"
  /\ conn' = [conn EXCEPT ![i] = Unused]
  /\ UNCHANGED <<cfgs, queue, task, password>>

(* The waiting clients are told nothing: the pool just tries again.        *)
ConnectFails(i) ==
  /\ conn[i].state = "connecting"
  /\ Redispense(i, [conn EXCEPT ![i] = Unused])
  /\ UNCHANGED <<cfgs, queue, task, password>>

(* validate found the connection usable; the client it was tested for may  *)
(* have timed out meanwhile.                                               *)
ValidationPasses(i) ==
  /\ conn[i].state = "testing" /\ conn[i].alive
  /\ LET k == i[1]
     IN  IF queue[k] = <<>>
         THEN /\ conn' = [conn EXCEPT ![i].state = "idle"]
              /\ UNCHANGED <<queue, task>>
         ELSE /\ conn' = [conn EXCEPT ![i].state = "lent", ![i].task = Head(queue[k])]
              /\ queue' = [queue EXCEPT ![k] = Tail(@)]
              /\ task' = [task EXCEPT ![Head(queue[k])] = "using"]
  /\ UNCHANGED <<cfgs, password>>

ValidationFails(i) ==
  /\ conn[i].state = "testing" /\ ~conn[i].alive
  /\ Redispense(i, Destroyed(i))
  /\ UNCHANGED <<cfgs, queue, task, password>>

AcquireTimesOut(t) ==
  /\ task[t] = "waiting"
  /\ task' = [task EXCEPT ![t] = "failed"]
  /\ LET k == Key(CfgOf[t])
     IN  \E i \in DOMAIN queue[k] :
           /\ queue[k][i] = t
           /\ queue' = [queue EXCEPT ![k] = [j \in 1 .. Len(@) - 1 |->
                                               IF j < i THEN @[j] ELSE @[j + 1]]]
  /\ UNCHANGED <<cfgs, conn, password>>

(* Broken: the release follows the call instead of standing in a finally.  *)
FinishWithoutFinally(t) ==
  \E i \in Conns, result \in {"done", "failed"} :
    /\ task[t] = "using" /\ conn[i].state = "lent" /\ conn[i].task = t
    /\ task' = [task EXCEPT ![t] = result]
    /\ IF result = "failed" THEN UNCHANGED conn
       ELSE Redispense(i, [conn EXCEPT ![i].state = "idle", ![i].task = NoTask])
    /\ UNCHANGED <<cfgs, queue, password>>

(* Broken: the connection stays the call's when it is idle again.          *)
FinishKeepsTask(t) ==
  \E i \in Conns, result \in {"done", "failed"} :
    /\ task[t] = "using" /\ conn[i].state = "lent" /\ conn[i].task = t
    /\ task' = [task EXCEPT ![t] = result]
    /\ Redispense(i, [conn EXCEPT ![i].state = "idle"])
    /\ UNCHANGED <<cfgs, queue, password>>

(* fn settles either way, and the connection is released.                  *)
Finish(t) ==
  \E i \in Conns, result \in {"done", "failed"} :
    /\ task[t] = "using" /\ conn[i].state = "lent" /\ conn[i].task = t
    /\ task' = [task EXCEPT ![t] = result]
    /\ Redispense(i, [conn EXCEPT ![i].state = "idle", ![i].task = NoTask])
    /\ UNCHANGED <<cfgs, queue, password>>

(* The idle timeout; the minimum is restored at once.                      *)
Evict(i) ==
  /\ conn[i].state = "idle"
  /\ conn' = Destroyed(i)
  /\ UNCHANGED <<cfgs, queue, task, password>>

-----------------------------------------------------------------------------
(* The box drops a connection; the pool does not notice.                   *)
Drops(i) ==
  /\ conn[i].state \in {"idle", "testing", "lent"} /\ conn[i].alive
  /\ conn' = [conn EXCEPT ![i].alive = FALSE]
  /\ UNCHANGED <<cfgs, queue, task, password>>

(* The password of a box is changed. Connections that are open stay open.  *)
ChangePassword(b, p) ==
  /\ password[b] # p
  /\ password' = [password EXCEPT ![b] = p]
  /\ UNCHANGED <<cfgs, conn, queue, task>>

ConnStep(i) == \/ ConnectSucceeds(i) \/ ConnectFails(i)
               \/ ValidationPasses(i) \/ ValidationFails(i)
               \/ Evict(i) \/ Drops(i)
TaskStep(t) == Acquire(t) \/ AcquireTimesOut(t) \/ Finish(t)

Next == \/ \E i \in Conns : ConnStep(i)
        \/ \E t \in Tasks : TaskStep(t)
        \/ \E b \in Boxes, p \in Passwords : ChangePassword(b, p)

Spec == Init /\ [][Next]_vars

(* Every call ends, and a box that keeps accepting connections and         *)
(* answering probes of a pool does so often enough. Nothing is assumed of  *)
(* timeouts, drops and evictions, nor of any single connection.            *)
PoolFairness ==
  /\ \A t \in Tasks : WF_vars(Finish(t))
  /\ \A k \in Keys :
       /\ WF_vars(\E i \in Places(k) : ConnectFails(i) \/ ValidationFails(i))
       /\ SF_vars(\E i \in Places(k) : ConnectSucceeds(i))
       /\ SF_vars(\E i \in Places(k) : ValidationPasses(i))

FairSpec == Spec /\ PoolFairness

-----------------------------------------------------------------------------
(* A connection is someone's exactly while it is lent.                     *)
ConnType == {Unused} \cup
  [state : Held \ {"lent"}, task : {NoTask}, alive : BOOLEAN] \cup
  [state : {"lent"}, task : Tasks, alive : BOOLEAN]

TypeOK ==
  /\ DOMAIN cfgs \subseteq Keys /\ \A k \in DOMAIN cfgs : cfgs[k] \in Cfgs
  /\ conn \in [Conns -> ConnType]
  /\ queue \in [Keys -> Seq(Tasks)]
  /\ task \in [Tasks -> {"new", "waiting", "using", "done", "failed"}]
  /\ password \in [Boxes -> Passwords]

(* No call runs on a connection opened with credentials other than its     *)
(* own, even when another configuration names the same box and user        *)
(* ("a credential-less key would let one tenant's (wrong) config poison    *)
(* another tenant's pool", the comment on key).                            *)
OwnCredentials ==
  \A i \in Conns : conn[i].state = "lent" => cfgs[i[1]] = CfgOf[conn[i].task]

(* A connection is lent exactly as long as a call runs on it: whatever     *)
(* order failures, timeouts and drops come in, none leaks and none is      *)
(* shared by two calls.                                                    *)
LeasesMatchCalls ==
  \A t \in Tasks :
    Cardinality({i \in Conns : conn[i].state = "lent" /\ conn[i].task = t})
      = IF task[t] = "using" THEN 1 ELSE 0

(* A pool with a waiting client has something under way that will serve    *)
(* it, or is at its limit with calls that are running: no order of events  *)
(* loses the wake-up of a client.                                          *)
NoClientForgotten ==
  \A k \in Keys : queue[k] # <<>> =>
    \/ In(conn, k, {"connecting", "testing"}) # {}
    \/ Cardinality(In(conn, k, {"lent"})) = MaxPerBox

(* A call with the password its box accepts gets a connection, however     *)
(* many calls with a wrong password fail meanwhile.                        *)
Served ==
  [](password = InitialPassword) =>
    \A t \in Tasks : CfgOf[t].pass = InitialPassword[CfgOf[t].box] =>
      (task[t] = "waiting" ~> task[t] # "waiting")

(* The pools serve the calls in the order they came, lend each a           *)
(* connection that is nobody else's and take it back however the call      *)
(* ended: that connections fail, are tested, dropped, evicted and opened   *)
(* again does not show.                                                    *)
Lessee == [i \in Conns |-> conn[i].task]
Service == INSTANCE Leasing
  WITH Clients <- Tasks, Pools <- Keys, PoolOf <- [t \in Tasks |-> Key(CfgOf[t])],
       Limit <- MaxPerBox, Nobody <- NoTask,
       line <- queue, lessee <- Lessee, phase <- task
ImplementsLeasing == Service!Spec
=============================================================================
