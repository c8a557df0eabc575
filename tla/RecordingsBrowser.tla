------------------------- MODULE RecordingsBrowser -------------------------
(***************************************************************************)
(* The recordings page (web: RecordingsBrowser, its tiles and ManagerBar)  *)
(* against the server: the effect that loads a folder and drops answers    *)
(* that come too late, the selection, deletions and prunes that go on      *)
(* while the user browses, and the reload that follows one.                *)
(*                                                                         *)
(* One browser and one profile. A load is named by its number, which also  *)
(* names the run of the effect that sent it and the ManagerBar mounted     *)
(* under its listing. The server is RecordingsService as Recordings has    *)
(* it, down to what a listing and a removal do to the listing cache.       *)
(***************************************************************************)
EXTENDS Integers, Sequences, FiniteSets

CONSTANTS
  Files,      \* the recordings there are at the start
  Dirs, Root, \* the folders, and the one that holds all the others
  Above,      \* the folders on the path to each folder
  FolderOf,   \* the folder each file is in
  Old,        \* the files a prune is for
  MaxLoads,   \* bound: listings the page asks for
  MaxRuns     \* bound: deletions and prunes it asks for

ASSUME TreeAssumption ==
  /\ Root \in Dirs /\ Above \in [Dirs -> SUBSET Dirs] /\ FolderOf \in [Files -> Dirs]
  /\ \A d \in Dirs : d \notin Above[d]
ASSUME OldAssumption == Old \subseteq Files
ASSUME BoundAssumption == MaxLoads \in Nat \ {0} /\ MaxRuns \in Nat

VARIABLES
  dir,       \* the folder that is open
  shown,     \* what stands below the breadcrumb: "loading", "error" or "listed"
  files,     \* the tiles
  selected,  \* the paths that are ticked
  busy,      \* has the ManagerBar a deletion or prune under way?
  loads,     \* the listings asked for
  runs,      \* the deletions and prunes asked for
  present,   \* the files in the storage box
  cache,     \* per folder, the set of cached listings: none or one
  told,      \* history: files whose removal was reported to the page
  raced      \* history: files a read held, on its way to the cache, when the
             \* removal that removed them ended

page   == <<dir, shown, files, selected, busy>>
server == <<present, cache>>
vars   == <<page, loads, runs, server, told, raced>>

Loads == 1..Len(loads)
Runs  == 1..Len(runs)
Under(d) == {f \in Files : FolderOf[f] = d}
Awaited  == {r \in Runs : runs[r].awaited}

(* A run that is awaited may still ask for the reload.                     *)
Room == Len(loads) + Cardinality(Awaited) < MaxLoads

(* The effect, for a new folder or a new reloadKey: nothing is listed, the *)
(* ManagerBar is unmounted and the answer to the load before is ignored.   *)
Load(d) ==
  /\ dir' = d /\ shown' = "loading" /\ files' = {} /\ selected' = {} /\ busy' = FALSE
  /\ loads' = Append(loads, [dir |-> d, at |-> "sent", listing |-> {}, awaited |-> TRUE])

Init ==
  /\ dir = Root /\ shown = "loading" /\ files = {} /\ selected = {} /\ busy = FALSE
  /\ loads = <<[dir |-> Root, at |-> "sent", listing |-> {}, awaited |-> TRUE]>>
  /\ runs = <<>>
  /\ present = Files /\ cache = [d \in Dirs |-> {}]
  /\ told = {} /\ raced = {}

-----------------------------------------------------------------------------
(* What the user does.                                                     *)

OpenFolder(d) ==
  /\ shown = "listed" /\ Above[d] = Above[dir] \cup {dir} /\ Room
  /\ Load(d)
  /\ UNCHANGED <<runs, server, told, raced>>

(* The breadcrumb is there whatever is shown; a click on the folder that   *)
(* is open changes nothing.                                                *)
Crumb(d) ==
  /\ d \in Above[dir] /\ Room
  /\ Load(d)
  /\ UNCHANGED <<runs, server, told, raced>>

Toggle(f) ==
  /\ shown = "listed" /\ f \in files
  /\ selected' = IF f \in selected THEN selected \ {f} ELSE selected \cup {f}
  /\ UNCHANGED <<dir, shown, files, busy, loads, runs, server, told, raced>>

(* run(), once the user has confirmed.                                     *)
Run(doomed) ==
  /\ shown = "listed" /\ ~busy /\ Len(runs) < MaxRuns /\ Room
  /\ busy' = TRUE
  /\ runs' = Append(runs, [todo |-> doomed, removed |-> {}, bar |-> Len(loads),
                           at |-> "sent", awaited |-> TRUE])
  /\ UNCHANGED <<dir, shown, files, selected, loads, server, told, raced>>

DeleteSelected == selected # {} /\ Run(selected)
Prune          == Run(Old)

-----------------------------------------------------------------------------
(* The server.                                                             *)

Serve(i, at, listing) ==
  loads' = [loads EXCEPT ![i].at = at, ![i].listing = listing]

ListHits(i) ==
  /\ loads[i].at = "sent"
  /\ \E listing \in cache[loads[i].dir] : Serve(i, "answered", listing)
  /\ UNCHANGED <<page, runs, server, told, raced>>

ListReads(i) ==
  /\ loads[i].at = "sent" /\ cache[loads[i].dir] = {}
  /\ Serve(i, "read", present \cap Under(loads[i].dir))
  /\ UNCHANGED <<page, runs, server, told, raced>>

(* Broken: the listing is kept beside the one another read has left.       *)
ListReturnsBeside(i) ==
  /\ loads[i].at = "read"
  /\ Serve(i, "answered", loads[i].listing)
  /\ cache' = [cache EXCEPT ![loads[i].dir] = @ \cup {loads[i].listing}]
  /\ UNCHANGED <<page, runs, present, told, raced>>

ListReturns(i) ==
  /\ loads[i].at = "read"
  /\ Serve(i, "answered", loads[i].listing)
  /\ cache' = [cache EXCEPT ![loads[i].dir] = {loads[i].listing}]
  /\ UNCHANGED <<page, runs, present, told, raced>>

Expire(d) ==
  /\ cache[d] # {}
  /\ cache' = [cache EXCEPT ![d] = {}]
  /\ UNCHANGED <<page, loads, runs, present, told, raced>>

(* One file is deleted, or its deletion fails and is logged.               *)
Remove(r, f) ==
  /\ runs[r].at = "sent" /\ f \in runs[r].todo
  /\ \/ /\ f \in present
        /\ present' = present \ {f}
        /\ runs' = [runs EXCEPT ![r].todo = @ \ {f}, ![r].removed = @ \cup {f}]
     \/ /\ runs' = [runs EXCEPT ![r].todo = @ \ {f}]
        /\ UNCHANGED present
  /\ UNCHANGED <<page, loads, cache, told, raced>>

(* Broken: the cache is not invalidated.                                   *)
RemovalEndsUncleared(r) ==
  /\ runs[r].at = "sent"
  /\ runs' = [runs EXCEPT ![r].at = IF runs[r].todo = {} THEN "ended" ELSE "cut"]
  /\ UNCHANGED <<page, loads, server, told, raced>>

(* All is tried, or the connection is lost before; the finally either way. *)
RemovalEnds(r) ==
  /\ runs[r].at = "sent"
  /\ runs' = [runs EXCEPT ![r].at = IF runs[r].todo = {} THEN "ended" ELSE "cut"]
  /\ cache' = [d \in Dirs |-> {}]
  /\ raced' = raced \cup {f \in runs[r].removed :
                            \E i \in Loads : loads[i].at = "read" /\ f \in loads[i].listing}
  /\ UNCHANGED <<page, loads, present, told>>

-----------------------------------------------------------------------------
(* What comes back to the page. An answer that is lost, a refusal and an   *)
(* error of the server are one: the promise is rejected.                   *)

(* Broken: without the ignore flag.                                        *)
ListArrivesLate(i) ==
  /\ loads[i].awaited /\ loads[i].at = "answered"
  /\ loads' = [loads EXCEPT ![i].awaited = FALSE]
  /\ shown' = "listed" /\ files' = loads[i].listing
  /\ UNCHANGED <<dir, selected, busy, runs, server, told, raced>>

ListArrives(i) ==
  /\ loads[i].awaited /\ loads[i].at = "answered"
  /\ loads' = [loads EXCEPT ![i].awaited = FALSE]
  /\ IF i = Len(loads) THEN shown' = "listed" /\ files' = loads[i].listing
                       ELSE UNCHANGED <<shown, files>>
  /\ UNCHANGED <<dir, selected, busy, runs, server, told, raced>>

(* Broken: nothing catches the rejection.                                  *)
ListRejectedUncaught(i) ==
  /\ loads[i].awaited
  /\ loads' = [loads EXCEPT ![i].awaited = FALSE]
  /\ UNCHANGED <<page, runs, server, told, raced>>

ListRejected(i) ==
  /\ loads[i].awaited
  /\ loads' = [loads EXCEPT ![i].awaited = FALSE]
  /\ shown' = IF i = Len(loads) THEN "error" ELSE shown
  /\ UNCHANGED <<dir, files, selected, busy, runs, server, told, raced>>

(* onMutated reloads whatever folder is open by now. The bar that ran is   *)
(* unmounted, by this reload if not before.                                *)
RunArrives(r) ==
  /\ runs[r].awaited /\ runs[r].at = "ended"
  /\ runs' = [runs EXCEPT ![r].awaited = FALSE]
  /\ told' = told \cup runs[r].removed
  /\ Load(dir)
  /\ UNCHANGED <<server, raced>>

(* Broken: busy is cleared whichever bar the run was started from.         *)
RunRejectedAnywhere(r) ==
  /\ runs[r].awaited
  /\ runs' = [runs EXCEPT ![r].awaited = FALSE]
  /\ busy' = FALSE
  /\ UNCHANGED <<dir, shown, files, selected, loads, server, told, raced>>

(* An error message and no reload, on the bar if it is still there.        *)
RunRejected(r) ==
  /\ runs[r].awaited
  /\ runs' = [runs EXCEPT ![r].awaited = FALSE]
  /\ busy' = (busy /\ runs[r].bar # Len(loads))
  /\ UNCHANGED <<dir, shown, files, selected, loads, server, told, raced>>

-----------------------------------------------------------------------------
UserStep == \/ \E d \in Dirs : OpenFolder(d) \/ Crumb(d)
            \/ \E f \in Files : Toggle(f)
            \/ DeleteSelected \/ Prune
LoadStep(i) == \/ ListHits(i) \/ ListReads(i) \/ ListReturns(i)
               \/ ListArrives(i) \/ ListRejected(i)
RunStep(r)  == \/ \E f \in Files : Remove(r, f)
               \/ RemovalEnds(r) \/ RunArrives(r) \/ RunRejected(r)

Next == \/ UserStep
        \/ \E i \in Loads : LoadStep(i)
        \/ \E r \in Runs : RunStep(r)
        \/ \E d \in Dirs : Expire(d)

Spec == Init /\ [][Next]_vars

(* Every fetch settles, one way or the other.                              *)
FairSpec ==
  /\ Spec
  /\ \A i \in 1..MaxLoads : WF_vars(i \in Loads /\ (ListArrives(i) \/ ListRejected(i)))
  /\ \A r \in 1..MaxRuns : WF_vars(r \in Runs /\ (RunArrives(r) \/ RunRejected(r)))

-----------------------------------------------------------------------------
TypeOK ==
  /\ dir \in Dirs /\ shown \in {"loading", "error", "listed"} /\ busy \in BOOLEAN
  /\ files \subseteq Files /\ selected \subseteq Files
  /\ loads \in Seq([dir : Dirs, at : {"sent", "read", "answered"},
                    listing : SUBSET Files, awaited : BOOLEAN])
  /\ runs \in Seq([todo : SUBSET Files, removed : SUBSET Files, bar : 1..MaxLoads,
                   at : {"sent", "ended", "cut"}, awaited : BOOLEAN])
  /\ Len(loads) \in 1..MaxLoads /\ Len(runs) <= MaxRuns
  /\ present \subseteq Files /\ cache \in [Dirs -> SUBSET SUBSET Files]
  /\ \A d \in Dirs : \A x, y \in cache[d] : x = y
  /\ told \subseteq Files /\ raced \subseteq Files

(* What Delete would be asked for is on the screen, under the folder that  *)
(* is open, however late answers come and whatever was ticked before ("a   *)
(* stale listing that resolves after a newer navigation", "clears          *)
(* selection", the tests of RecordingsBrowser).                            *)
SelectionIsShown ==
  /\ selected \subseteq files
  /\ files \subseteq Under(dir)
  /\ shown # "listed" => files = {}

(* Once a deletion or prune is reported, what it removed is not shown any  *)
(* more, in whichever folder the user is by then, unless a read that was   *)
(* overtaken by it went into the server's cache.                           *)
NoGhosts == files \cap told \subseteq raced

(* The bar that is on the screen is blocked exactly while a run of its own *)
(* is unanswered, though runs of bars that are gone end meanwhile.         *)
BusyWithItsOwn ==
  busy <=> \E r \in Runs : runs[r].awaited /\ runs[r].bar = Len(loads)

(* Nothing that fails leaves the page loading, or the bar blocked, for     *)
(* ever.                                                                   *)
Recovers == /\ shown = "loading" ~> shown # "loading"
            /\ busy ~> ~busy
=============================================================================
