----------------------------- MODULE Recordings -----------------------------
(***************************************************************************)
(* RecordingsService (src/recordings/recordings.service.ts) with its two   *)
(* TTL caches, and the file endpoint of RecordingsController: concurrent   *)
(* requests list a directory, fetch a file, delete files and prune, for    *)
(* camera profiles that all keep their recordings in one storage box.      *)
(*                                                                         *)
(* Every await of a request is a step boundary: other requests run, files  *)
(* appear and vanish, and cache entries expire there. The pool's           *)
(* connection is here only what may fail: to be acquired, or in the middle *)
(* of what runs on it. One directory stands for the tree, and the size and *)
(* time of a file are in its identity, since recordings never change.      *)
(***************************************************************************)
EXTENDS Integers, FiniteSets

CONSTANTS
  Paths,                  \* the files that exist at some time
  Profiles,
  Lists, Gets, Removals,  \* requests: GET list, GET file, POST delete or prune
  ProfileOf,              \* the profile each request names
  Target,                 \* the path of each Get
  Doomed,                 \* the paths each Removal is asked to delete: those in
                          \* its body, or those older than its cutoff
  Prunes                  \* the Removals that are prunes

Requests == Lists \cup Gets \cup Removals

ASSUME RequestAssumption ==
  /\ Lists \cap Gets = {} /\ Lists \cap Removals = {} /\ Gets \cap Removals = {}
  /\ Prunes \subseteq Removals
  /\ ProfileOf \in [Requests -> Profiles]
  /\ Target \in [Gets -> Paths] /\ Doomed \in [Removals -> SUBSET Paths]

VARIABLES
  remote,      \* the files in the storage box
  listCache,   \* per profile, the set of cached listings: none or one
  statCache,   \* per profile, the paths with a cached stat
  pc,          \* where each request is
  seen,        \* what a List or Get has read: the listing, or {path} if found
  todo,        \* what a Removal still has to delete
  deleted,     \* a Removal's counter
  removed,     \* history: the files a Removal really removed
  gone,        \* history: per profile, what ended Removals removed
  before,      \* history: gone for the request's profile when it began
  raced        \* history: per profile, did a Removal end while a List or Get
               \* held, on its way to the cache, what the Removal removed?

vars == <<remote, listCache, statCache, pc, seen, todo, deleted, removed, gone,
          before, raced>>
history == <<removed, gone, before, raced>>
Reads == Lists \cup Gets

Init ==
  /\ remote \in SUBSET Paths
  /\ listCache = [p \in Profiles |-> {}]
  /\ statCache = [p \in Profiles |-> {}]
  /\ pc = [r \in Requests |-> "new"]
  /\ seen = [r \in Reads |-> {}]
  /\ todo = [r \in Removals |-> {}]
  /\ deleted = [r \in Removals |-> 0]
  /\ removed = [r \in Removals |-> {}]
  /\ gone = [p \in Profiles |-> {}]
  /\ before = [r \in Reads |-> {}]
  /\ raced = [p \in Profiles |-> FALSE]

Goto(r, to) == pc' = [pc EXCEPT ![r] = to]

-----------------------------------------------------------------------------
(* Reads. Both look into their cache, fetch on a miss, and enter what they *)
(* fetched when the answer has come and the connection is released.        *)

(* A cached answer is given at once.                                       *)
ListBegins(r) ==
  /\ pc[r] = "new"
  /\ before' = [before EXCEPT ![r] = gone[ProfileOf[r]]]
  /\ IF listCache[ProfileOf[r]] = {}
       THEN Goto(r, "asked") /\ UNCHANGED seen
       ELSE /\ Goto(r, "done")
            /\ \E entry \in listCache[ProfileOf[r]] : seen' = [seen EXCEPT ![r] = entry]
  /\ UNCHANGED <<remote, listCache, statCache, todo, deleted, removed, gone, raced>>

ListReads(r) ==
  /\ pc[r] = "asked"
  /\ seen' = [seen EXCEPT ![r] = remote]
  /\ Goto(r, "read")
  /\ UNCHANGED <<remote, listCache, statCache, todo, deleted, removed, gone, before, raced>>

(* Broken: the entry goes beside the one that is there, not in its place.   *)
ListKeepsOlder(r) ==
  /\ pc[r] = "read"
  /\ listCache' = [listCache EXCEPT ![ProfileOf[r]] = @ \cup {seen[r]}]
  /\ Goto(r, "done")
  /\ UNCHANGED <<remote, statCache, seen, todo, deleted, removed, gone, before, raced>>

ListReturns(r) ==
  /\ pc[r] = "read"
  /\ listCache' = [listCache EXCEPT ![ProfileOf[r]] = {seen[r]}]
  /\ Goto(r, "done")
  /\ UNCHANGED <<remote, statCache, seen, todo, deleted, removed, gone, before, raced>>

GetBegins(r) ==
  /\ pc[r] = "new"
  /\ before' = [before EXCEPT ![r] = gone[ProfileOf[r]]]
  /\ IF Target[r] \notin statCache[ProfileOf[r]]
       THEN Goto(r, "asked") /\ UNCHANGED seen
       ELSE Goto(r, "found") /\ seen' = [seen EXCEPT ![r] = {Target[r]}]
  /\ UNCHANGED <<remote, listCache, statCache, todo, deleted, removed, gone, raced>>

(* stat: the file is there, or the request is answered with 404.           *)
GetStats(r) ==
  /\ pc[r] = "asked"
  /\ IF Target[r] \in remote
       THEN seen' = [seen EXCEPT ![r] = {Target[r]}] /\ Goto(r, "read")
       ELSE UNCHANGED seen /\ Goto(r, "failed")
  /\ UNCHANGED <<remote, listCache, statCache, todo, deleted, removed, gone, before, raced>>

GetReturns(r) ==
  /\ pc[r] = "read"
  /\ statCache' = [statCache EXCEPT ![ProfileOf[r]] = @ \cup {Target[r]}]
  /\ Goto(r, "found")
  /\ UNCHANGED <<remote, listCache, seen, todo, deleted, removed, gone, before, raced>>

(* The status and length are set; the file is streamed, or, when that      *)
(* fails, as it must once the file is gone, the response is cut.           *)
GetStreams(r) ==
  /\ pc[r] = "found"
  /\ \/ Target[r] \in remote /\ Goto(r, "done")
     \/ Goto(r, "cut")
  /\ UNCHANGED <<remote, listCache, statCache, seen, todo, deleted, removed, gone,
                 before, raced>>

(* No connection, or none that answers.                                    *)
ReadFails(r) ==
  /\ pc[r] = "asked"
  /\ Goto(r, "failed")
  /\ UNCHANGED <<remote, listCache, statCache, seen, todo, deleted, removed, gone,
                 before, raced>>

-----------------------------------------------------------------------------
(* deleteFiles and prune.                                                  *)

(* The profile or a path was refused before anything was tried.            *)
RemovalRefused(r) ==
  /\ pc[r] = "new"
  /\ Goto(r, "failed")
  /\ UNCHANGED <<remote, listCache, statCache, seen, todo, deleted, removed, gone,
                 before, raced>>

(* A connection is there; prune lists, and finds what is there by then.    *)
RemovalStarts(r) ==
  /\ pc[r] = "new"
  /\ todo' = [todo EXCEPT ![r] = IF r \in Prunes THEN Doomed[r] \cap remote ELSE Doomed[r]]
  /\ Goto(r, "deleting")
  /\ UNCHANGED <<remote, listCache, statCache, seen, deleted, removed, gone, before, raced>>

(* Broken: the counter is advanced whether or not the deletion failed.     *)
DeleteCountsAll(r, p) ==
  /\ pc[r] = "deleting" /\ p \in todo[r]
  /\ todo' = [todo EXCEPT ![r] = @ \ {p}]
  /\ deleted' = [deleted EXCEPT ![r] = @ + 1]
  /\ \/ /\ p \in remote
        /\ remote' = remote \ {p}
        /\ removed' = [removed EXCEPT ![r] = @ \cup {p}]
     \/ UNCHANGED <<remote, removed>>
  /\ UNCHANGED <<listCache, statCache, pc, seen, gone, before, raced>>

(* One deletion: done and counted; done, but the answer is lost with the   *)
(* connection; or failed. The last two are logged and the loop goes on.    *)
Delete(r, p) ==
  /\ pc[r] = "deleting" /\ p \in todo[r]
  /\ todo' = [todo EXCEPT ![r] = @ \ {p}]
  /\ \/ /\ p \in remote
        /\ remote' = remote \ {p}
        /\ removed' = [removed EXCEPT ![r] = @ \cup {p}]
        /\ deleted' \in {deleted, [deleted EXCEPT ![r] = @ + 1]}
     \/ UNCHANGED <<remote, removed, deleted>>
  /\ UNCHANGED <<listCache, statCache, pc, seen, gone, before, raced>>

(* The end of a Removal, which invalidates the entries of its profile.     *)
Ended(r, result) ==
  LET p == ProfileOf[r]
  IN  /\ Goto(r, result)
      /\ gone' = [gone EXCEPT ![p] = @ \cup removed[r]]
      /\ raced' = [raced EXCEPT ![p] = @ \/ \E q \in Reads :
                      ProfileOf[q] = p /\ pc[q] = "read" /\ seen[q] \cap gone'[p] # {}]
      /\ UNCHANGED <<remote, seen, todo, deleted, removed, before>>

Invalidated(p) ==
  /\ listCache' = [listCache EXCEPT ![p] = {}]
  /\ statCache' = [statCache EXCEPT ![p] = {}]

RemovalReturns(r) ==
  /\ pc[r] = "deleting" /\ todo[r] = {}
  /\ Ended(r, "done")
  /\ Invalidated(ProfileOf[r])

(* Broken: the caches are invalidated on success only, not in a finally.   *)
RemovalThrowsWithoutFinally(r) ==
  /\ \/ pc[r] = "new"
     \/ pc[r] = "deleting" /\ r \in Prunes
  /\ Ended(r, "failed")
  /\ UNCHANGED <<listCache, statCache>>

(* No connection could be acquired, or prune could not list the next       *)
(* directory after it had deleted from others.                             *)
RemovalThrows(r) ==
  /\ \/ pc[r] = "new"
     \/ pc[r] = "deleting" /\ r \in Prunes
  /\ Ended(r, "failed")
  /\ Invalidated(ProfileOf[r])

-----------------------------------------------------------------------------
(* The camera uploads a recording, under a name never used before.         *)
Upload(p) ==
  /\ p \notin remote /\ \A r \in Removals : p \notin removed[r]
  /\ remote' = remote \cup {p}
  /\ UNCHANGED <<listCache, statCache, pc, seen, todo, deleted, removed, gone, before, raced>>

Expire(p) ==
  /\ \/ /\ listCache[p] # {}
        /\ listCache' = [listCache EXCEPT ![p] = {}]
        /\ UNCHANGED statCache
     \/ /\ statCache[p] # {}
        /\ \E f \in statCache[p] : statCache' = [statCache EXCEPT ![p] = @ \ {f}]
        /\ UNCHANGED listCache
  /\ UNCHANGED <<remote, pc, seen, todo, deleted, removed, gone, before, raced>>

Next ==
  \/ \E r \in Lists : ListBegins(r) \/ ListReads(r) \/ ListReturns(r)
  \/ \E r \in Gets : GetBegins(r) \/ GetStats(r) \/ GetReturns(r) \/ GetStreams(r)
  \/ \E r \in Reads : ReadFails(r)
  \/ \E r \in Removals : \/ RemovalRefused(r) \/ RemovalStarts(r)
                         \/ \E p \in Paths : Delete(r, p)
                         \/ RemovalReturns(r) \/ RemovalThrows(r)
  \/ \E p \in Paths : Upload(p)
  \/ \E p \in Profiles : Expire(p)

Spec == Init /\ [][Next]_vars

-----------------------------------------------------------------------------
TypeOK ==
  /\ remote \subseteq Paths
  /\ listCache \in [Profiles -> SUBSET SUBSET Paths]
  /\ \A p \in Profiles : Cardinality(listCache[p]) <= 1
  /\ statCache \in [Profiles -> SUBSET Paths]
  /\ pc \in [Requests -> {"new", "asked", "read", "found", "deleting", "done",
                         "cut", "failed"}]
  /\ seen \in [Reads -> SUBSET Paths]
  /\ todo \in [Removals -> SUBSET Paths]
  /\ deleted \in [Removals -> Nat]
  /\ removed \in [Removals -> SUBSET Paths]
  /\ gone \in [Profiles -> SUBSET Paths] /\ before \in [Reads -> SUBSET Paths]
  /\ raced \in [Profiles -> BOOLEAN]

(* r answered with a file that a Removal of the same profile had removed   *)
(* and reported the end of before r began.                                 *)
Stale(r) == pc[r] \in {"done", "found", "cut"} /\ seen[r] \cap before[r] # {}

(* "never serve them stale" (the comment in deleteFiles).                  *)
NeverServedStale == \A r \in Reads : ~Stale(r)

(* However a Removal ends, and even if it reports fewer deletions than     *)
(* happened, whoever asks after it sees none of what it removed, unless a  *)
(* read that was under way entered its older answer after the Removal.     *)
FreshUnlessRaced == \A r \in Reads : Stale(r) => raced[ProfileOf[r]]

(* A Removal never reports more deletions than it made, also when another  *)
(* one deletes the same files at the same time; no file is counted twice.  *)
CountsAddUp ==
  /\ \A r \in Removals : deleted[r] <= Cardinality(removed[r])
  /\ \A r, s \in Removals : r # s => removed[r] \cap removed[s] = {}
=============================================================================
