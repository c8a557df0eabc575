----------------------- MODULE RecordingsBrowserProofs -----------------------
(***************************************************************************)
(* The invariants of RecordingsBrowser, for every set of folders and files *)
(* and any number of listings and runs. They are proved in three layers,   *)
(* each on top of the ones before: the types and the count of listings     *)
(* (Types), what is on the screen (Screen), and what a removal leaves of   *)
(* the removed files (Traces).                                             *)
(***************************************************************************)
EXTENDS RecordingsBrowser, SequenceTheorems, FiniteSetTheorems, TLAPS

LoadRec == [dir : Dirs, at : {"sent", "read", "answered"},
            listing : SUBSET Files, awaited : BOOLEAN]
RunRec  == [todo : SUBSET Files, removed : SUBSET Files, bar : 1..MaxLoads,
            at : {"sent", "ended", "cut"}, awaited : BOOLEAN]

PageType   == /\ dir \in Dirs /\ shown \in {"loading", "error", "listed"} /\ busy \in BOOLEAN
              /\ files \subseteq Files /\ selected \subseteq Files
LoadsType  == loads \in Seq(LoadRec) /\ Len(loads) \in Nat \ {0}
RunsType   == runs \in Seq(RunRec) /\ Len(runs) <= MaxRuns
ServerType == /\ present \subseteq Files /\ cache \in [Dirs -> SUBSET SUBSET Files]
              /\ \A d \in Dirs : \A x, y \in cache[d] : x = y
              /\ told \subseteq Files /\ raced \subseteq Files

(* Every listing that may still be asked for has its place.                *)
Bounded == Len(loads) + Cardinality(Awaited) <= MaxLoads

Types == PageType /\ LoadsType /\ RunsType /\ ServerType /\ Bounded

-----------------------------------------------------------------------------
(* What the operators that change a sequence do to it.                     *)

NewLoad(d) == [dir |-> d, at |-> "sent", listing |-> {}, awaited |-> TRUE]
NewRun(doomed) == [todo |-> doomed, removed |-> {}, bar |-> Len(loads),
                   at |-> "sent", awaited |-> TRUE]

LEMMA LoadEffect ==
  ASSUME LoadsType, NEW d \in Dirs, Load(d)
  PROVE  /\ LoadsType' /\ Len(loads') = Len(loads) + 1
         /\ \A i \in Loads : loads'[i] = loads[i]
         /\ loads'[Len(loads')] = NewLoad(d)
         /\ dir' = d /\ shown' = "loading" /\ files' = {} /\ selected' = {} /\ busy' = FALSE
<1>1. NewLoad(d) \in LoadRec
  BY DEF NewLoad, LoadRec
<1>2. loads' = Append(loads, NewLoad(d))
  BY DEF Load, NewLoad
<1>3. /\ loads' \in Seq(LoadRec) /\ Len(loads') = Len(loads) + 1
      /\ \A i \in 1..Len(loads) : loads'[i] = loads[i]
      /\ loads'[Len(loads)+1] = NewLoad(d)
  BY <1>1, <1>2, AppendProperties DEF LoadsType
<1> QED
  BY <1>3 DEF LoadsType, Loads, Load

LEMMA ListingEffect ==
  ASSUME LoadsType, NEW i \in Loads, NEW new \in LoadRec, loads' = [loads EXCEPT ![i] = new]
  PROVE  /\ LoadsType' /\ Len(loads') = Len(loads) /\ loads'[i] = new
         /\ \A j \in Loads : j # i => loads'[j] = loads[j]
<1>1. /\ loads' \in Seq(LoadRec) /\ Len(loads') = Len(loads)
      /\ \A j \in 1..Len(loads) : loads'[j] = IF j = i THEN new ELSE loads[j]
  BY ExceptSeq DEF LoadsType, Loads
<1> QED
  BY <1>1 DEF LoadsType, Loads

LEMMA ServeEffect ==
  ASSUME LoadsType, NEW i \in Loads, NEW at \in {"sent", "read", "answered"},
         NEW listing \in SUBSET Files, Serve(i, at, listing)
  PROVE  /\ LoadsType' /\ Len(loads') = Len(loads)
         /\ loads'[i].dir = loads[i].dir /\ loads'[i].awaited = loads[i].awaited
         /\ loads'[i].at = at /\ loads'[i].listing = listing
         /\ \A j \in Loads : j # i => loads'[j] = loads[j]
<1> DEFINE new == [loads[i] EXCEPT !.at = at, !.listing = listing]
<1>1. loads[i] \in LoadRec
  BY ElementOfSeq DEF LoadsType, Loads
<1>2. /\ new \in LoadRec /\ new.at = at /\ new.listing = listing
      /\ new.dir = loads[i].dir /\ new.awaited = loads[i].awaited
  BY <1>1 DEF LoadRec
<1>3. loads' = [loads EXCEPT ![i] = new]
  BY DEF Serve, LoadsType
<1> HIDE DEF new
<1> QED
  BY <1>2, <1>3, ListingEffect

LEMMA SettleEffect ==
  ASSUME LoadsType, NEW i \in Loads, loads' = [loads EXCEPT ![i].awaited = FALSE]
  PROVE  /\ LoadsType' /\ Len(loads') = Len(loads)
         /\ loads'[i].dir = loads[i].dir /\ loads'[i].listing = loads[i].listing
         /\ loads'[i].at = loads[i].at /\ loads'[i].awaited = FALSE
         /\ \A j \in Loads : j # i => loads'[j] = loads[j]
<1> DEFINE new == [loads[i] EXCEPT !.awaited = FALSE]
<1>1. loads[i] \in LoadRec
  BY ElementOfSeq DEF LoadsType, Loads
<1>2. /\ new \in LoadRec /\ new.at = loads[i].at /\ new.listing = loads[i].listing
      /\ new.dir = loads[i].dir /\ new.awaited = FALSE
  BY <1>1 DEF LoadRec
<1>3. loads' = [loads EXCEPT ![i] = new]
  OBVIOUS
<1> HIDE DEF new
<1> QED
  BY <1>2, <1>3, ListingEffect

(* Run r becomes another record.                                           *)
LEMMA RunEffect ==
  ASSUME RunsType, NEW r \in Runs, NEW new \in RunRec, runs' = [runs EXCEPT ![r] = new]
  PROVE  /\ RunsType' /\ Len(runs') = Len(runs) /\ runs'[r] = new
         /\ \A s \in Runs : s # r => runs'[s] = runs[s]
<1>1. /\ runs' \in Seq(RunRec) /\ Len(runs') = Len(runs)
      /\ \A s \in 1..Len(runs) : runs'[s] = IF s = r THEN new ELSE runs[s]
  BY ExceptSeq DEF RunsType, Runs
<1> QED
  BY <1>1 DEF RunsType, Runs

LEMMA StartEffect ==
  ASSUME RunsType, LoadsType, Len(loads) <= MaxLoads,
         NEW doomed \in SUBSET Files, Run(doomed)
  PROVE  /\ RunsType' /\ Len(runs') = Len(runs) + 1
         /\ \A s \in Runs : runs'[s] = runs[s]
         /\ runs'[Len(runs')] = NewRun(doomed)
<1>1. NewRun(doomed) \in RunRec
  BY BoundAssumption DEF NewRun, RunRec, LoadsType
<1>2. runs' = Append(runs, NewRun(doomed)) /\ Len(runs) < MaxRuns
  BY DEF Run, NewRun
<1>3. /\ runs' \in Seq(RunRec) /\ Len(runs') = Len(runs) + 1
      /\ \A s \in 1..Len(runs) : runs'[s] = runs[s]
      /\ runs'[Len(runs)+1] = NewRun(doomed)
  BY <1>1, <1>2, AppendProperties DEF RunsType
<1>4. Len(runs) \in Nat
  BY LenProperties DEF RunsType
<1> QED
  BY <1>2, <1>3, <1>4, BoundAssumption DEF RunsType, Runs

(* A step of the server on run r: the page knows nothing of it.            *)
Kept == /\ Len(runs') = Len(runs)
        /\ \A s \in Runs : runs'[s].bar = runs[s].bar /\ runs'[s].awaited = runs[s].awaited

LEMMA RemoveEffect ==
  ASSUME RunsType, NEW r \in Runs, NEW f \in Files, Remove(r, f)
  PROVE  /\ RunsType' /\ Kept /\ runs'[r].at = "sent"
         /\ \A s \in Runs : s # r => runs'[s] = runs[s]
         /\ \/ runs'[r].removed = runs[r].removed /\ present' = present
            \/ runs'[r].removed = runs[r].removed \cup {f} /\ present' = present \ {f}
<1> DEFINE one == [runs[r] EXCEPT !.todo = @ \ {f}, !.removed = @ \cup {f}]
           two == [runs[r] EXCEPT !.todo = @ \ {f}]
<1>1. runs[r] \in RunRec
  BY ElementOfSeq DEF RunsType, Runs
<1>2. one \in RunRec /\ two \in RunRec
  BY <1>1 DEF RunRec
<1>3. \/ runs' = [runs EXCEPT ![r] = one] /\ present' = present \ {f}
      \/ runs' = [runs EXCEPT ![r] = two] /\ present' = present
  BY DEF Remove
<1>4. /\ one.bar = runs[r].bar /\ one.awaited = runs[r].awaited /\ one.at = "sent"
      /\ two.bar = runs[r].bar /\ two.awaited = runs[r].awaited /\ two.at = "sent"
      /\ one.removed = runs[r].removed \cup {f} /\ two.removed = runs[r].removed
  BY <1>1 DEF RunRec, Remove
<1> HIDE DEF one, two
<1>5. ASSUME runs' = [runs EXCEPT ![r] = one]
      PROVE  /\ RunsType' /\ Len(runs') = Len(runs) /\ runs'[r] = one
             /\ \A s \in Runs : s # r => runs'[s] = runs[s]
  BY <1>2, <1>5, RunEffect
<1>6. ASSUME runs' = [runs EXCEPT ![r] = two]
      PROVE  /\ RunsType' /\ Len(runs') = Len(runs) /\ runs'[r] = two
             /\ \A s \in Runs : s # r => runs'[s] = runs[s]
  BY <1>2, <1>6, RunEffect
<1>7. CASE runs' = [runs EXCEPT ![r] = one] /\ present' = present \ {f}
  BY <1>4, <1>5, <1>7 DEF Kept
<1>8. CASE runs' = [runs EXCEPT ![r] = two] /\ present' = present
  BY <1>4, <1>6, <1>8 DEF Kept
<1> QED
  BY <1>3, <1>7, <1>8

LEMMA EndEffect ==
  ASSUME RunsType, NEW r \in Runs, RemovalEnds(r)
  PROVE  /\ RunsType' /\ Kept /\ runs'[r].removed = runs[r].removed
         /\ \A s \in Runs : s # r => runs'[s] = runs[s]
<1> DEFINE new == [runs[r] EXCEPT !.at = IF runs[r].todo = {} THEN "ended" ELSE "cut"]
<1>1. runs[r] \in RunRec
  BY ElementOfSeq DEF RunsType, Runs
<1>2. /\ new \in RunRec /\ new.removed = runs[r].removed
      /\ new.bar = runs[r].bar /\ new.awaited = runs[r].awaited
  BY <1>1 DEF RunRec
<1>3. runs' = [runs EXCEPT ![r] = new]
  BY DEF RemovalEnds
<1> HIDE DEF new
<1> QED
  BY <1>2, <1>3, RunEffect DEF Kept

LEMMA AnswerEffect ==
  ASSUME RunsType, NEW r \in Runs, runs' = [runs EXCEPT ![r].awaited = FALSE]
  PROVE  /\ RunsType' /\ Len(runs') = Len(runs) /\ runs'[r].awaited = FALSE
         /\ runs'[r].at = runs[r].at /\ runs'[r].removed = runs[r].removed
         /\ runs'[r].bar = runs[r].bar
         /\ \A s \in Runs : s # r => runs'[s] = runs[s]
<1> DEFINE new == [runs[r] EXCEPT !.awaited = FALSE]
<1>1. runs[r] \in RunRec
  BY ElementOfSeq DEF RunsType, Runs
<1>2. /\ new \in RunRec /\ new.awaited = FALSE /\ new.at = runs[r].at
      /\ new.removed = runs[r].removed /\ new.bar = runs[r].bar
  BY <1>1 DEF RunRec
<1>3. runs' = [runs EXCEPT ![r] = new]
  OBVIOUS
<1> HIDE DEF new
<1> QED
  BY <1>2, <1>3, RunEffect

-----------------------------------------------------------------------------
(* The count of listings: each load takes a place that Room, or the run    *)
(* that asks for the reload, has left for it.                              *)

LEMMA AwaitedFinite ==
  RunsType => /\ Awaited \subseteq Runs /\ IsFiniteSet(Awaited)
              /\ Cardinality(Awaited) \in Nat
<1> SUFFICES ASSUME RunsType PROVE Awaited \subseteq Runs /\ IsFiniteSet(Awaited)
                                   /\ Cardinality(Awaited) \in Nat
  OBVIOUS
<1>1. IsFiniteSet(Runs)
  BY LenProperties, FS_Interval DEF RunsType, Runs
<1>2. Awaited \subseteq Runs
  BY DEF Awaited
<1> QED
  BY <1>1, <1>2, FS_Subset, FS_CardinalityType

LEMMA KeptAwaits == Kept => Awaited' = Awaited
  BY DEF Kept, Awaited, Runs

LEMMA BoundedKept ==
  ASSUME Types, Len(loads') = Len(loads), Kept \/ UNCHANGED runs
  PROVE  Bounded'
<1>1. Awaited' = Awaited
  BY KeptAwaits DEF Awaited, Runs
<1> QED
  BY <1>1 DEF Types, Bounded

LEMMA BoundedLoad ==
  ASSUME Types, Room, Len(loads') = Len(loads) + 1, UNCHANGED runs
  PROVE  Bounded'
<1>1. Awaited' = Awaited
  BY DEF Awaited, Runs
<1> QED
  BY <1>1, AwaitedFinite, BoundAssumption DEF Types, LoadsType, Bounded, Room

LEMMA BoundedRun ==
  ASSUME Types, Room, NEW doomed \in SUBSET Files, UNCHANGED loads,
         Len(runs') = Len(runs) + 1, \A s \in Runs : runs'[s] = runs[s],
         runs'[Len(runs')] = NewRun(doomed)
  PROVE  Bounded'
<1>1. Len(runs) \in Nat
  BY LenProperties DEF Types, RunsType
<1>2. Awaited' = Awaited \cup {Len(runs) + 1}
  BY <1>1 DEF Awaited, Runs, NewRun
<1>3. IsFiniteSet(Awaited) /\ Cardinality(Awaited) \in Nat
  BY AwaitedFinite DEF Types
<1>4. /\ IsFiniteSet(Awaited')
      /\ Cardinality(Awaited') \in {Cardinality(Awaited), Cardinality(Awaited) + 1}
  BY <1>2, <1>3, FS_AddElement
<1>5. Cardinality(Awaited') \in Nat /\ Cardinality(Awaited') <= Cardinality(Awaited) + 1
  BY <1>3, <1>4
<1> QED
  BY <1>3, <1>5, BoundAssumption DEF Types, LoadsType, Bounded, Room

LEMMA BoundedAnswer ==
  ASSUME Types, NEW r \in Runs, runs[r].awaited, Len(runs') = Len(runs),
         runs'[r].awaited = FALSE, \A s \in Runs : s # r => runs'[s] = runs[s],
         Len(loads') <= Len(loads) + 1, Len(loads') \in Nat
  PROVE  Bounded'
<1>1. Awaited' = Awaited \ {r} /\ r \in Awaited
  BY DEF Awaited, Runs
<1>2. Cardinality(Awaited') = Cardinality(Awaited) - 1
  BY <1>1, AwaitedFinite, FS_RemoveElement DEF Types
<1>3. Cardinality(Awaited) \in Nat
  BY AwaitedFinite DEF Types
<1> QED
  BY <1>2, <1>3, BoundAssumption DEF Types, LoadsType, Bounded

-----------------------------------------------------------------------------
(* First layer: the types.                                                 *)

LEMMA LoadTypes ==
  ASSUME Types, NEW d \in Dirs, Load(d), Room, UNCHANGED <<runs, server, told, raced>>
  PROVE  Types'
<1>1. LoadsType' /\ PageType' /\ Len(loads') = Len(loads) + 1
  BY LoadEffect DEF Types, PageType
<1>2. RunsType' /\ ServerType'
  BY DEF Types, RunsType, ServerType, server
<1> QED
  BY <1>1, <1>2, BoundedLoad DEF Types

LEMMA ToggleTypes == ASSUME Types, NEW f \in Files, Toggle(f) PROVE Types'
<1>1. PageType'
  BY DEF Types, PageType, Toggle
<1>2. UNCHANGED <<loads, runs, present, cache, told, raced>>
  BY DEF Toggle, server
<1> QED
  BY <1>1, <1>2, BoundedKept DEF Types, LoadsType, RunsType, ServerType

LEMMA RunTypes == ASSUME Types, NEW doomed \in SUBSET Files, Run(doomed) PROVE Types'
<1>1. Len(loads) <= MaxLoads
  BY AwaitedFinite, BoundAssumption DEF Types, LoadsType, Bounded
<1>2. /\ RunsType' /\ Len(runs') = Len(runs) + 1
      /\ \A s \in Runs : runs'[s] = runs[s]
      /\ runs'[Len(runs')] = NewRun(doomed)
  BY <1>1, StartEffect DEF Types
<1>3. PageType' /\ LoadsType' /\ ServerType'
  BY DEF Types, PageType, LoadsType, ServerType, Run, server
<1>4. Bounded'
  BY <1>2, BoundedRun DEF Run
<1> QED
  BY <1>2, <1>3, <1>4 DEF Types

(* What the server does with a listing.                                    *)
LEMMA ServeTypes ==
  ASSUME Types, NEW i \in Loads, ListHits(i) \/ ListReads(i) \/ ListReturns(i)
  PROVE  Types'
<1>1. loads[i] \in LoadRec
  BY ElementOfSeq DEF Types, LoadsType, Loads
<1>2. /\ loads[i].dir \in Dirs /\ loads[i].listing \in SUBSET Files
      /\ cache[loads[i].dir] \in SUBSET SUBSET Files
  BY <1>1 DEF LoadRec, Types, ServerType
<1>3. \E at \in {"sent", "read", "answered"}, listing \in SUBSET Files : Serve(i, at, listing)
  BY <1>2 DEF ListHits, ListReads, ListReturns, Under
<1>4. LoadsType' /\ Len(loads') = Len(loads)
  BY <1>3, ServeEffect DEF Types
<1>5. UNCHANGED <<dir, shown, files, selected, busy, runs, present, told, raced>>
  BY DEF ListHits, ListReads, ListReturns, page, server
<1>6. ServerType'
  <2>1. \/ cache' = cache
        \/ cache' = [cache EXCEPT ![loads[i].dir] = {loads[i].listing}]
    BY DEF ListHits, ListReads, ListReturns, server
  <2> QED
    BY <1>2, <1>5, <2>1 DEF Types, ServerType
<1> QED
  BY <1>4, <1>5, <1>6, BoundedKept DEF Types, PageType, RunsType

LEMMA ExpireTypes == ASSUME Types, NEW d \in Dirs, Expire(d) PROVE Types'
<1>1. ServerType'
  BY DEF Types, ServerType, Expire
<1>2. UNCHANGED <<dir, shown, files, selected, busy, loads, runs>>
  BY DEF Expire, page
<1> QED
  BY <1>1, <1>2, BoundedKept DEF Types, PageType, LoadsType, RunsType

LEMMA RemoveTypes ==
  ASSUME Types, NEW r \in Runs, NEW f \in Files, Remove(r, f) PROVE Types'
<1>1. RunsType' /\ Kept
  BY RemoveEffect DEF Types
<1>2. UNCHANGED <<dir, shown, files, selected, busy, loads, cache, told, raced>>
  BY DEF Remove, page
<1>3. present' \subseteq present
  BY DEF Remove
<1> QED
  BY <1>1, <1>2, <1>3, BoundedKept DEF Types, PageType, LoadsType, ServerType

LEMMA EndTypes == ASSUME Types, NEW r \in Runs, RemovalEnds(r) PROVE Types'
<1>1. RunsType' /\ Kept
  BY EndEffect DEF Types
<1>2. UNCHANGED <<dir, shown, files, selected, busy, loads, present, told>>
  BY DEF RemovalEnds, page
<1>3. runs[r] \in RunRec
  BY ElementOfSeq DEF Types, RunsType, Runs
<1>4. ServerType'
  BY <1>3 DEF Types, ServerType, RemovalEnds, RunRec
<1> QED
  BY <1>1, <1>2, <1>4, BoundedKept DEF Types, PageType, LoadsType

LEMMA ListTypes ==
  ASSUME Types, NEW i \in Loads, ListArrives(i) \/ ListRejected(i) PROVE Types'
<1>1. LoadsType' /\ Len(loads') = Len(loads)
  BY SettleEffect DEF Types, ListArrives, ListRejected
<1>2. loads[i] \in LoadRec
  BY ElementOfSeq DEF Types, LoadsType, Loads
<1>3. PageType'
  BY <1>2 DEF Types, PageType, LoadRec, ListArrives, ListRejected
<1>4. UNCHANGED <<runs, present, cache, told, raced>>
  BY DEF ListArrives, ListRejected, server
<1> QED
  BY <1>1, <1>3, <1>4, BoundedKept DEF Types, RunsType, ServerType

LEMMA AnswerTypes ==
  ASSUME Types, NEW r \in Runs, RunArrives(r) \/ RunRejected(r) PROVE Types'
<1>1. /\ RunsType' /\ Len(runs') = Len(runs) /\ runs'[r].awaited = FALSE
      /\ \A s \in Runs : s # r => runs'[s] = runs[s]
      /\ runs[r].awaited
  BY AnswerEffect DEF Types, RunArrives, RunRejected
<1>2. runs[r] \in RunRec
  BY ElementOfSeq DEF Types, RunsType, Runs
<1>3. LoadsType' /\ PageType' /\ Len(loads') <= Len(loads) + 1
  <2>1. CASE RunArrives(r)
    <3>1. dir \in Dirs /\ Load(dir) /\ LoadsType
      BY <2>1 DEF Types, PageType, RunArrives
    <3>2. /\ LoadsType' /\ Len(loads') = Len(loads) + 1
          /\ dir' = dir /\ shown' = "loading" /\ files' = {} /\ selected' = {} /\ busy' = FALSE
      BY <3>1, LoadEffect
    <3>3. PageType'
      BY <3>1, <3>2 DEF PageType
    <3> QED
      BY <3>1, <3>2, <3>3 DEF LoadsType
  <2>2. CASE RunRejected(r)
    BY <2>2 DEF Types, PageType, LoadsType, RunRejected
  <2> QED
    BY <2>1, <2>2
<1>4. ServerType'
  BY <1>2 DEF Types, ServerType, RunRec, RunArrives, RunRejected, server
<1> QED
  BY <1>1, <1>3, <1>4, BoundedAnswer DEF Types, LoadsType

LEMMA InitTypes == Init => Types
<1> SUFFICES ASSUME Init PROVE Types
  OBVIOUS
<1>1. PageType /\ ServerType
  BY TreeAssumption DEF Init, PageType, ServerType
<1>2. [dir |-> Root, at |-> "sent", listing |-> {}, awaited |-> TRUE] \in LoadRec
  BY TreeAssumption DEF LoadRec
<1>3. loads \in Seq(LoadRec) /\ Len(loads) = 1
  BY <1>2 DEF Init
<1>4. runs \in Seq(RunRec) /\ Len(runs) = 0
  BY EmptySeq DEF Init
<1>5. Awaited = {}
  BY <1>4 DEF Awaited, Runs
<1> QED
  BY <1>1, <1>3, <1>4, <1>5, FS_EmptySet, BoundAssumption
     DEF Types, LoadsType, RunsType, Bounded

LEMMA NextTypes == Types /\ [Next]_vars => Types'
<1> SUFFICES ASSUME Types, [Next]_vars PROVE Types'
  OBVIOUS
<1>1. CASE UserStep
  BY <1>1, LoadTypes, ToggleTypes, RunTypes, OldAssumption
     DEF UserStep, OpenFolder, Crumb, DeleteSelected, Prune, Types, PageType
<1>2. CASE \E i \in Loads : LoadStep(i)
  BY <1>2, ServeTypes, ListTypes DEF LoadStep
<1>3. CASE \E r \in Runs : RunStep(r)
  BY <1>3, RemoveTypes, EndTypes, AnswerTypes DEF RunStep
<1>4. CASE \E d \in Dirs : Expire(d)
  BY <1>4, ExpireTypes
<1>5. CASE UNCHANGED vars
  <2>1. UNCHANGED <<dir, shown, files, selected, busy, loads, runs, present, cache, told, raced>>
    BY <1>5 DEF vars, page, server
  <2> QED
    BY <2>1, BoundedKept DEF Types, PageType, LoadsType, RunsType, ServerType
<1> QED
  BY <1>1, <1>2, <1>3, <1>4, <1>5 DEF Next

LEMMA TypesInvariant == Spec => []Types
  BY InitTypes, NextTypes, PTL DEF Spec

(* For every tree of folders and any bounds: the page and the server keep  *)
(* their types, and the reloads that runs ask for stay within the bound.   *)
THEOREM BrowserTypes == Spec => []TypeOK
<1>1. Types => TypeOK
  BY AwaitedFinite, BoundAssumption
     DEF Types, PageType, LoadsType, RunsType, ServerType, Bounded, TypeOK, LoadRec, RunRec
<1> QED
  BY <1>1, TypesInvariant, PTL

-----------------------------------------------------------------------------
(* Second layer: what is on the screen. The last load is the one for the   *)
(* folder that is open, and while it is awaited nothing is listed; every   *)
(* listing on its way is of the folder it was asked for.                   *)

Placed == /\ \A i \in Loads : loads[i].listing \subseteq Under(loads[i].dir)
          /\ \A d \in Dirs : \A listing \in cache[d] : listing \subseteq Under(d)
Latest == /\ loads[Len(loads)].dir = dir
          /\ loads[Len(loads)].awaited => shown = "loading"

(* The runs of the bar that is on the screen: one at most is unanswered.   *)
Own(r) == runs[r].awaited /\ runs[r].bar = Len(loads)
OneRun == \A r, s \in Runs : Own(r) /\ Own(s) => r = s
BarsKnown == \A r \in Runs : runs[r].bar <= Len(loads)

Screen == Placed /\ Latest /\ SelectionIsShown
Bar    == BarsKnown /\ OneRun /\ BusyWithItsOwn

LEMMA LastLoad == LoadsType => Len(loads) \in Loads
  BY DEF LoadsType, Loads

LEMMA LoadScreen ==
  ASSUME Types, Screen, NEW d \in Dirs, Load(d), UNCHANGED cache
  PROVE  Screen'
<1>1. /\ Len(loads') = Len(loads) + 1 /\ Len(loads) \in Nat
      /\ \A i \in Loads : loads'[i] = loads[i]
      /\ loads'[Len(loads')] = NewLoad(d)
      /\ dir' = d /\ shown' = "loading" /\ files' = {} /\ selected' = {}
  BY LoadEffect DEF Types, LoadsType
<1>2. NewLoad(d).dir = d /\ NewLoad(d).listing = {}
  BY DEF NewLoad
<1>3. ASSUME NEW i \in Loads' PROVE (loads'[i].listing \subseteq Under(loads'[i].dir))
  <2>1. CASE i \in Loads
    BY <1>1, <2>1 DEF Screen, Placed
  <2>2. CASE i \notin Loads
    <3>1. i = Len(loads')
      BY <1>1, <2>2 DEF Loads
    <3> QED
      BY <1>1, <1>2, <3>1
  <2> QED
    BY <2>1, <2>2
<1>4. Placed'
  BY <1>3 DEF Screen, Placed, Under
<1>5. Latest' /\ SelectionIsShown'
  BY <1>1, <1>2 DEF Latest, SelectionIsShown
<1> QED
  BY <1>4, <1>5 DEF Screen

LEMMA ServeScreen ==
  ASSUME Types, Screen, NEW i \in Loads, ListHits(i) \/ ListReads(i) \/ ListReturns(i)
  PROVE  Screen'
<1>1. loads[i] \in LoadRec
  BY ElementOfSeq DEF Types, LoadsType, Loads
<1>2. /\ loads[i].dir \in Dirs /\ loads[i].listing \in SUBSET Files
      /\ cache[loads[i].dir] \in SUBSET SUBSET Files
  BY <1>1 DEF LoadRec, Types, ServerType
<1>3. PICK at \in {"sent", "read", "answered"}, listing \in SUBSET Files :
         Serve(i, at, listing) /\ listing \subseteq Under(loads[i].dir)
  BY <1>2 DEF ListHits, ListReads, ListReturns, Under, Screen, Placed
<1>4. Len(loads') = Len(loads) /\ \A j \in Loads : j # i => loads'[j] = loads[j]
  BY <1>3, ServeEffect DEF Types
<1>5. /\ loads'[i].dir = loads[i].dir /\ loads'[i].listing = listing
      /\ loads'[i].awaited = loads[i].awaited
  BY <1>3, ServeEffect DEF Types
<1>6. UNCHANGED <<dir, shown, files, selected>>
  BY DEF ListHits, ListReads, ListReturns, page
<1>7. \A j \in Loads' : loads'[j].listing \subseteq Under(loads'[j].dir)
  BY <1>3, <1>4, <1>5 DEF Screen, Placed, Loads
<1>8. \A d \in Dirs : \A l \in cache'[d] : l \subseteq Under(d)
  <2>1. \/ cache' = cache
        \/ cache' = [cache EXCEPT ![loads[i].dir] = {loads[i].listing}]
    BY DEF ListHits, ListReads, ListReturns, server
  <2> QED
    BY <1>2, <2>1 DEF Types, ServerType, Screen, Placed
<1>9. Latest'
  BY <1>4, <1>5, <1>6, LastLoad DEF Types, Screen, Latest
<1>10. SelectionIsShown'
  BY <1>6 DEF Screen, SelectionIsShown, Under
<1> QED
  BY <1>7, <1>8, <1>9, <1>10 DEF Screen, Placed, Under

(* Only the answer to the last load changes the page, and it finds nothing *)
(* selected.                                                               *)
LEMMA ListScreen ==
  ASSUME Types, Screen, NEW i \in Loads, ListArrives(i) \/ ListRejected(i)
  PROVE  Screen'
<1>1. loads[i] \in LoadRec
  BY ElementOfSeq DEF Types, LoadsType, Loads
<1>2. Len(loads') = Len(loads) /\ \A j \in Loads : j # i => loads'[j] = loads[j]
  BY SettleEffect DEF Types, ListArrives, ListRejected
<1>3. /\ loads'[i].dir = loads[i].dir /\ loads'[i].listing = loads[i].listing
      /\ loads'[i].awaited = FALSE
  BY SettleEffect DEF Types, ListArrives, ListRejected
<1>4. UNCHANGED <<dir, selected, cache>> /\ loads[i].awaited
  BY DEF ListArrives, ListRejected, server
<1>5. Placed'
  <2>1. \A j \in Loads' : loads'[j].listing \subseteq Under(loads'[j].dir)
    BY <1>2, <1>3 DEF Screen, Placed, Loads
  <2> QED
    BY <1>4, <2>1 DEF Screen, Placed, Under
<1>6. CASE i = Len(loads)
  <2>1. shown = "loading" /\ files = {} /\ selected = {}
    BY <1>4, <1>6 DEF Screen, Latest, SelectionIsShown
  <2>2. Latest'
    BY <1>2, <1>3, <1>4, <1>6 DEF Screen, Latest
  <2>3. loads[i].listing \subseteq Under(dir)
    BY <1>6 DEF Screen, Placed, Latest
  <2>4. SelectionIsShown'
    BY <1>4, <1>6, <2>1, <2>3 DEF SelectionIsShown, ListArrives, ListRejected, Under
  <2> QED
    BY <1>5, <2>2, <2>4 DEF Screen
<1>7. CASE i # Len(loads)
  <2>1. UNCHANGED <<shown, files>>
    BY <1>7 DEF ListArrives, ListRejected
  <2>2. loads'[Len(loads)] = loads[Len(loads)]
    BY <1>2, <1>7, LastLoad DEF Types
  <2>3. Latest'
    BY <1>2, <1>4, <2>1, <2>2 DEF Screen, Latest
  <2>4. SelectionIsShown'
    BY <1>4, <2>1 DEF Screen, SelectionIsShown, Under
  <2> QED
    BY <1>5, <2>3, <2>4 DEF Screen
<1> QED
  BY <1>6, <1>7

LEMMA QuietScreen ==
  ASSUME Screen, UNCHANGED <<dir, shown, files, selected, loads>>,
         UNCHANGED cache \/ \A d \in Dirs : cache'[d] = {} \/ cache'[d] = cache[d]
  PROVE  Screen'
<1>1. Placed'
  BY DEF Screen, Placed, Loads, Under
<1> QED
  BY <1>1 DEF Screen, Latest, SelectionIsShown, Under

LEMMA InitScreen == Init => Screen
<1> SUFFICES ASSUME Init PROVE Screen
  OBVIOUS
<1>1. Len(loads) = 1 /\ Loads = {1}
  BY DEF Init, Loads
<1>2. loads[1] = [dir |-> Root, at |-> "sent", listing |-> {}, awaited |-> TRUE]
  BY DEF Init
<1> QED
  BY <1>1, <1>2 DEF Init, Screen, Placed, Latest, SelectionIsShown

LEMMA NextScreen == Types /\ Screen /\ [Next]_vars => Screen'
<1> SUFFICES ASSUME Types, Screen, [Next]_vars PROVE Screen'
  OBVIOUS
<1>1. CASE UserStep
  <2>1. CASE \E d \in Dirs : OpenFolder(d) \/ Crumb(d)
    BY <2>1, LoadScreen DEF OpenFolder, Crumb, server
  <2>2. CASE \E f \in Files : Toggle(f)
    BY <2>2 DEF Toggle, server, Screen, Placed, Latest, SelectionIsShown, Loads, Under
  <2>3. CASE DeleteSelected \/ Prune
    BY <2>3, QuietScreen DEF DeleteSelected, Prune, Run, server
  <2> QED
    BY <1>1, <2>1, <2>2, <2>3 DEF UserStep
<1>2. CASE \E i \in Loads : LoadStep(i)
  BY <1>2, ServeScreen, ListScreen DEF LoadStep
<1>3. ASSUME NEW r \in Runs, RunStep(r) PROVE Screen'
  <2>1. CASE RunArrives(r)
    BY <2>1, LoadScreen DEF RunArrives, server, Types, PageType
  <2>2. CASE RunRejected(r)
    BY <2>2, QuietScreen DEF RunRejected, server
  <2>3. CASE RemovalEnds(r)
    BY <2>3, QuietScreen DEF RemovalEnds, page
  <2>4. CASE \E f \in Files : Remove(r, f)
    BY <2>4, QuietScreen DEF Remove, page
  <2> QED
    BY <1>3, <2>1, <2>2, <2>3, <2>4 DEF RunStep
<1>4. CASE \E d \in Dirs : Expire(d)
  BY <1>4, QuietScreen DEF Expire, page, Types, ServerType
<1>5. CASE UNCHANGED vars
  BY <1>5, QuietScreen DEF vars, page, server
<1> QED
  BY <1>1, <1>2, <1>3, <1>4, <1>5 DEF Next

LEMMA ScreenInvariant == Spec => [](Types /\ Screen)
<1>1. Init => Types /\ Screen
  BY InitTypes, InitScreen
<1>2. Types /\ Screen /\ [Next]_vars => Types' /\ Screen'
  BY NextTypes, NextScreen
<1> QED
  BY <1>1, <1>2, PTL DEF Spec

(* For every tree of folders and any order of answers: what is selected is *)
(* on the screen, and what is on the screen is in the folder that is open. *)
THEOREM SelectionStaysShown == Spec => []SelectionIsShown
<1>1. Screen => SelectionIsShown
  BY DEF Screen
<1> QED
  BY <1>1, ScreenInvariant, PTL

-----------------------------------------------------------------------------
(* The bar. A new load mounts a bar no run was started from, and a bar     *)
(* starts a run only when it has none.                                     *)

LEMMA KeptBar ==
  ASSUME Bar, busy' = busy, Len(loads') = Len(loads), Kept \/ UNCHANGED runs
  PROVE  Bar'
<1>1. Runs' = Runs /\ \A r \in Runs : Own(r)' = Own(r) /\ runs'[r].bar = runs[r].bar
  BY DEF Kept, Runs, Own
<1> QED
  BY <1>1 DEF Bar, BarsKnown, OneRun, BusyWithItsOwn, Own

(* After a load every run is another bar's.                                *)
LEMMA LoadBar ==
  ASSUME Types, Bar, busy' = FALSE, Len(loads') = Len(loads) + 1,
         Len(runs') = Len(runs), \A r \in Runs : runs'[r].bar = runs[r].bar
  PROVE  Bar'
<1>1. Runs' = Runs
  BY DEF Runs
<1>2. ASSUME NEW r \in Runs PROVE runs'[r].bar <= Len(loads) /\ runs'[r].bar \in Nat
  <2>1. runs[r] \in RunRec
    BY ElementOfSeq DEF Types, RunsType, Runs
  <2>2. runs[r].bar \in 1..MaxLoads
    BY <2>1 DEF RunRec
  <2> QED
    BY <2>2, BoundAssumption DEF Bar, BarsKnown
<1>3. \A r \in Runs : runs'[r].bar <= Len(loads') /\ runs'[r].bar # Len(loads')
  BY <1>2 DEF Types, LoadsType
<1> QED
  BY <1>1, <1>3 DEF Bar, BarsKnown, OneRun, BusyWithItsOwn, Own

LEMMA RunBar == ASSUME Types, Bar, NEW doomed \in SUBSET Files, Run(doomed) PROVE Bar'
<1>1. Len(loads) <= MaxLoads
  BY AwaitedFinite, BoundAssumption DEF Types, LoadsType, Bounded
<1>2. /\ Len(runs') = Len(runs) + 1 /\ \A s \in Runs : runs'[s] = runs[s]
      /\ runs'[Len(runs')] = NewRun(doomed)
  BY <1>1, StartEffect DEF Types
<1>3. Runs' = Runs \cup {Len(runs')} /\ Len(runs') \notin Runs
  BY <1>2, LenProperties DEF Runs, Types, RunsType
<1>4. NewRun(doomed).bar = Len(loads) /\ NewRun(doomed).awaited = TRUE
  BY DEF NewRun
<1>5. loads' = loads /\ busy' = TRUE /\ busy = FALSE
  BY DEF Run, Types, PageType
<1>6. \A s \in Runs : ~Own(s)
  BY <1>5 DEF Bar, BusyWithItsOwn, Own
<1>7. /\ runs'[Len(runs')].awaited /\ runs'[Len(runs')].bar = Len(loads')
      /\ \A s \in Runs : ~(runs'[s].awaited /\ runs'[s].bar = Len(loads'))
  BY <1>2, <1>4, <1>5, <1>6 DEF Own
<1>8. OneRun' /\ BusyWithItsOwn'
  BY <1>3, <1>5, <1>7 DEF OneRun, BusyWithItsOwn, Own
<1>9. BarsKnown'
  BY <1>2, <1>3, <1>4, <1>5 DEF Bar, BarsKnown, Types, LoadsType
<1> QED
  BY <1>8, <1>9 DEF Bar

LEMMA RejectBar == ASSUME Types, Bar, NEW r \in Runs, RunRejected(r) PROVE Bar'
<1>1. /\ Len(runs') = Len(runs) /\ runs'[r].awaited = FALSE /\ runs'[r].bar = runs[r].bar
      /\ \A s \in Runs : s # r => runs'[s] = runs[s]
  BY AnswerEffect DEF Types, RunRejected
<1>2. /\ loads' = loads /\ Runs' = Runs /\ runs[r].awaited
      /\ busy' = (busy /\ runs[r].bar # Len(loads))
  BY <1>1 DEF RunRejected, Runs
<1>3. \A s \in Runs : s # r => Own(s)' = Own(s)
  BY <1>1, <1>2 DEF Own
<1>4. ~Own(r)'
  BY <1>1 DEF Own
<1>5. BarsKnown'
  BY <1>1, <1>2 DEF Bar, BarsKnown
<1>6. OneRun'
  BY <1>2, <1>3, <1>4 DEF Bar, OneRun
<1>7. busy <=> \E s \in Runs : Own(s)
  BY DEF Bar, BusyWithItsOwn, Own
<1>8. CASE Own(r)
  <2>1. \A s \in Runs : s # r => ~Own(s)
    BY <1>8 DEF Bar, OneRun
  <2>2. ~busy' /\ \A s \in Runs : ~Own(s)'
    BY <1>2, <1>3, <1>4, <1>8, <2>1 DEF Own
  <2> QED
    BY <1>2, <1>5, <1>6, <2>2 DEF Bar, BusyWithItsOwn, Own
<1>9. CASE ~Own(r)
  <2>1. busy' <=> busy
    BY <1>2, <1>9 DEF Own
  <2>2. busy' <=> \E s \in Runs : Own(s)'
    BY <1>3, <1>4, <1>7, <1>9, <2>1
  <2> QED
    BY <1>2, <1>5, <1>6, <2>2 DEF Bar, BusyWithItsOwn, Own
<1> QED
  BY <1>8, <1>9

LEMMA InitBar == Init => Bar
<1> SUFFICES ASSUME Init PROVE Bar
  OBVIOUS
<1>1. Runs = {} /\ busy = FALSE
  BY DEF Init, Runs
<1> QED
  BY <1>1 DEF Bar, BarsKnown, OneRun, BusyWithItsOwn

LEMMA NextBar == Types /\ Bar /\ [Next]_vars => Bar'
<1> SUFFICES ASSUME Types, Bar, [Next]_vars PROVE Bar'
  OBVIOUS
<1>1. CASE UserStep
  <2>1. ASSUME NEW d \in Dirs, OpenFolder(d) \/ Crumb(d) PROVE Bar'
    <3>1. Load(d) /\ UNCHANGED runs
      BY <2>1 DEF OpenFolder, Crumb
    <3>2. busy' = FALSE /\ Len(loads') = Len(loads) + 1
      BY <3>1, LoadEffect DEF Types
    <3> QED
      BY <3>1, <3>2, LoadBar
  <2>2. CASE \E f \in Files : Toggle(f)
    BY <2>2, KeptBar DEF Toggle
  <2>3. CASE DeleteSelected \/ Prune
    BY <2>3, RunBar, OldAssumption DEF DeleteSelected, Prune, Types, PageType
  <2> QED
    BY <1>1, <2>1, <2>2, <2>3 DEF UserStep
<1>2. ASSUME NEW i \in Loads, LoadStep(i) PROVE Bar'
  <2>1. UNCHANGED <<busy, runs>>
    BY <1>2 DEF LoadStep, ListHits, ListReads, ListReturns, ListArrives, ListRejected, page
  <2>2. Len(loads') = Len(loads)
    BY <1>2 DEF LoadStep, ListHits, ListReads, ListReturns, ListArrives, ListRejected,
                Serve, Types, LoadsType
  <2> QED
    BY <2>1, <2>2, KeptBar
<1>3. ASSUME NEW r \in Runs, RunStep(r) PROVE Bar'
  <2>1. CASE RunArrives(r)
    <3>1. Load(dir) /\ dir \in Dirs
      BY <2>1 DEF RunArrives, Types, PageType
    <3>2. busy' = FALSE /\ Len(loads') = Len(loads) + 1
      BY <3>1, LoadEffect DEF Types
    <3>3. Len(runs') = Len(runs) /\ \A s \in Runs : runs'[s].bar = runs[s].bar
      BY <2>1, AnswerEffect DEF RunArrives, Types
    <3> QED
      BY <3>2, <3>3, LoadBar
  <2>2. CASE RunRejected(r)
    BY <2>2, RejectBar
  <2>3. CASE RemovalEnds(r)
    BY <2>3, EndEffect, KeptBar DEF RemovalEnds, page, Types
  <2>4. CASE \E f \in Files : Remove(r, f)
    BY <2>4, RemoveEffect, KeptBar DEF Remove, page, Types
  <2> QED
    BY <1>3, <2>1, <2>2, <2>3, <2>4 DEF RunStep
<1>4. CASE \E d \in Dirs : Expire(d)
  BY <1>4, KeptBar DEF Expire, page
<1>5. CASE UNCHANGED vars
  BY <1>5, KeptBar DEF vars, page
<1> QED
  BY <1>1, <1>2, <1>3, <1>4, <1>5 DEF Next

(* For any number of listings and runs: the bar on the screen is blocked   *)
(* exactly while a run of its own is unanswered.                           *)
THEOREM BarIsBusyWithItsOwn == Spec => []BusyWithItsOwn
<1>1. Init => Types /\ Bar
  BY InitTypes, InitBar
<1>2. Types /\ Bar /\ [Next]_vars => Types' /\ Bar'
  BY NextTypes, NextBar
<1>3. Bar => BusyWithItsOwn
  BY DEF Bar
<1> QED
  BY <1>1, <1>2, <1>3, PTL DEF Spec

-----------------------------------------------------------------------------
(* Third layer: what a removal leaves of the files it removed. A file that *)
(* a finished run removed is gone for good; unless it is raced, no cached  *)
(* listing holds it and no read will bring it back, and once the page was  *)
(* told, not the listing it waits for either.                              *)

Gone(f) == \E r \in Runs : runs[r].at # "sent" /\ f \in runs[r].removed

NotBack  == \A r \in Runs : runs[r].removed \cap present = {}
Reported == \A f \in told : Gone(f)
Uncached == \A f \in Files \ raced : Gone(f) =>
              /\ \A d \in Dirs : \A listing \in cache[d] : f \notin listing
              /\ \A i \in Loads : loads[i].at = "read" => f \notin loads[i].listing
Unasked  == \A f \in told \ raced : f \notin loads[Len(loads)].listing

Traces == NotBack /\ Reported /\ Uncached /\ Unasked /\ NoGhosts

LEMMA GoneGone == Types /\ Traces => \A f : Gone(f) => f \notin present
  BY DEF Traces, NotBack, Gone

(* The runs are as they were, but for who waits for them.                  *)
SameRuns == Len(runs') = Len(runs)
            /\ \A s \in Runs : runs'[s].at = runs[s].at /\ runs'[s].removed = runs[s].removed

LEMMA SameRunsSameGone == SameRuns => \A f : Gone(f)' <=> Gone(f)
  BY DEF SameRuns, Gone, Runs

(* A step that changes neither what listings there are nor what is told.   *)
LEMMA QuietTraces ==
  ASSUME Types, Traces, SameRuns, UNCHANGED <<loads, present, told, raced>>,
         UNCHANGED files \/ files' = {},
         UNCHANGED cache \/ \A d \in Dirs : cache'[d] = {} \/ cache'[d] = cache[d]
  PROVE  Traces'
<1>1. \A f : Gone(f)' <=> Gone(f)
  BY SameRunsSameGone
<1>2. NotBack' /\ Reported'
  BY <1>1 DEF SameRuns, Runs, Traces, NotBack, Reported
<1>3. Uncached'
  BY <1>1 DEF Traces, Uncached, Loads
<1>4. Unasked' /\ NoGhosts'
  BY DEF Traces, Unasked, NoGhosts
<1> QED
  BY <1>2, <1>3, <1>4 DEF Traces

(* A load asks for what it does not hold yet.                              *)
LEMMA LoadTraces ==
  ASSUME Types, Traces, NEW d \in Dirs, Load(d), SameRuns,
         UNCHANGED <<present, cache, raced>>, \A f \in told' : Gone(f)
  PROVE  Traces'
<1>1. /\ Len(loads') = Len(loads) + 1 /\ Len(loads) \in Nat
      /\ \A i \in Loads : loads'[i] = loads[i]
      /\ loads'[Len(loads')] = NewLoad(d) /\ files' = {}
  BY LoadEffect DEF Types, LoadsType
<1>2. NewLoad(d).at = "sent" /\ NewLoad(d).listing = {}
  BY DEF NewLoad
<1>3. \A f : Gone(f)' <=> Gone(f)
  BY SameRunsSameGone
<1>4. NotBack' /\ Reported'
  BY <1>3 DEF SameRuns, Runs, Traces, NotBack, Reported
<1>5. \A i \in Loads' : i \in Loads \/ i = Len(loads')
  BY <1>1 DEF Loads
<1>6. Uncached'
  BY <1>1, <1>2, <1>3, <1>5 DEF Traces, Uncached
<1>7. Unasked' /\ NoGhosts'
  BY <1>1, <1>2 DEF Unasked, NoGhosts
<1> QED
  BY <1>4, <1>6, <1>7 DEF Traces

LEMMA ServeTraces ==
  ASSUME Types, Traces, NEW i \in Loads, ListHits(i) \/ ListReads(i) \/ ListReturns(i)
  PROVE  Traces'
<1>1. loads[i] \in LoadRec
  BY ElementOfSeq DEF Types, LoadsType, Loads
<1>2. /\ loads[i].dir \in Dirs /\ loads[i].listing \in SUBSET Files
      /\ cache[loads[i].dir] \in SUBSET SUBSET Files
  BY <1>1 DEF LoadRec, Types, ServerType
<1>3. PICK at \in {"sent", "read", "answered"}, listing \in SUBSET Files :
        /\ Serve(i, at, listing)
        /\ \/ listing \in cache[loads[i].dir] \/ listing \subseteq present
           \/ loads[i].at = "read" /\ listing = loads[i].listing
  BY <1>2 DEF ListHits, ListReads, ListReturns, Under
<1>4. Len(loads') = Len(loads) /\ \A j \in Loads : j # i => loads'[j] = loads[j]
  BY <1>3, ServeEffect DEF Types
<1>5. loads'[i].listing = listing
  BY <1>3, ServeEffect DEF Types
<1>6. UNCHANGED <<files, runs, present, told, raced>>
  BY DEF ListHits, ListReads, ListReturns, page, server
<1>7. \A f : Gone(f)' <=> Gone(f)
  BY <1>6 DEF Gone, Runs
<1>8. NotBack' /\ Reported' /\ NoGhosts'
  BY <1>6, <1>7 DEF Runs, Traces, NotBack, Reported, NoGhosts
<1>9. \A f \in Files \ raced : Gone(f) => f \notin listing
  BY <1>2, <1>3, GoneGone DEF Traces, Uncached
<1>10. \A j \in Loads' : loads'[j].listing = listing \/ loads'[j] = loads[j]
  BY <1>4, <1>5 DEF Loads
<1>11. \A d \in Dirs : \A l \in cache'[d] :
         \/ l \in cache[d]
         \/ loads[i].at = "read" /\ l = loads[i].listing
  <2>1. CASE cache' = cache
    BY <2>1
  <2>2. CASE loads[i].at = "read" /\ cache' = [cache EXCEPT ![loads[i].dir] = {loads[i].listing}]
    BY <1>2, <2>2 DEF Types, ServerType
  <2> QED
    BY <2>1, <2>2 DEF ListHits, ListReads, ListReturns, server
<1>12. Uncached'
  <2>1. ASSUME NEW f \in Files \ raced, Gone(f), NEW d \in Dirs, NEW l \in cache'[d]
        PROVE  f \notin l
    BY <1>11, <2>1 DEF Traces, Uncached
  <2>2. ASSUME NEW f \in Files \ raced, Gone(f), NEW j \in Loads', loads'[j].at = "read"
        PROVE  f \notin loads'[j].listing
    BY <1>4, <1>9, <1>10, <2>2 DEF Traces, Uncached, Loads
  <2> QED
    BY <1>6, <1>7, <2>1, <2>2 DEF Uncached
<1>13. Unasked'
  <2>1. Len(loads) \in Loads'
    BY <1>4, LastLoad DEF Types, Loads
  <2>2. \A f \in told \ raced : f \in Files /\ Gone(f)
    BY DEF Types, ServerType, Traces, Reported
  <2> QED
    BY <1>4, <1>6, <1>9, <1>10, <2>1, <2>2 DEF Traces, Unasked
<1> QED
  BY <1>8, <1>12, <1>13 DEF Traces

LEMMA ListTraces ==
  ASSUME Types, Traces, NEW i \in Loads, ListArrives(i) \/ ListRejected(i)
  PROVE  Traces'
<1>1. /\ Len(loads') = Len(loads)
      /\ \A j \in Loads : loads'[j].at = loads[j].at /\ loads'[j].listing = loads[j].listing
  BY SettleEffect DEF Types, ListArrives, ListRejected
<1>2. UNCHANGED <<runs, present, cache, told, raced>>
  BY DEF ListArrives, ListRejected, server
<1>3. \A f : Gone(f)' <=> Gone(f)
  BY <1>2 DEF Gone, Runs
<1>4. NotBack' /\ Reported'
  BY <1>2, <1>3 DEF Runs, Traces, NotBack, Reported
<1>5. Uncached'
  BY <1>1, <1>2, <1>3 DEF Traces, Uncached, Loads
<1>6. Unasked'
  BY <1>1, <1>2, LastLoad DEF Traces, Unasked, Types
<1>7. files' = files \/ files' = loads[Len(loads)].listing
  BY DEF ListArrives, ListRejected
<1>8. NoGhosts'
  BY <1>2, <1>7 DEF Traces, NoGhosts, Unasked
<1> QED
  BY <1>4, <1>5, <1>6, <1>8 DEF Traces

LEMMA RemoveTraces ==
  ASSUME Types, Traces, NEW r \in Runs, NEW f \in Files, Remove(r, f)
  PROVE  Traces'
<1>1. /\ Len(runs') = Len(runs) /\ runs'[r].at = "sent" /\ runs[r].at = "sent"
      /\ \A s \in Runs : s # r => runs'[s] = runs[s]
  BY RemoveEffect DEF Types, Kept, Remove
<1>2. \/ runs'[r].removed = runs[r].removed /\ present' = present
      \/ runs'[r].removed = runs[r].removed \cup {f} /\ present' = present \ {f}
  BY RemoveEffect DEF Types
<1>3. UNCHANGED <<files, loads, cache, told, raced>>
  BY DEF Remove, page
<1>4. \A g : Gone(g)' <=> Gone(g)
  BY <1>1 DEF Gone, Runs
<1>5. NotBack'
  BY <1>1, <1>2 DEF Traces, NotBack, Runs
<1>6. Reported' /\ Uncached' /\ Unasked' /\ NoGhosts'
  BY <1>3, <1>4 DEF Traces, Reported, Uncached, Unasked, NoGhosts, Loads
<1> QED
  BY <1>5, <1>6 DEF Traces

(* The cache is emptied, and what a read still holds of the files that are *)
(* gone now is raced.                                                      *)
LEMMA EndTraces ==
  ASSUME Types, Traces, NEW r \in Runs, RemovalEnds(r)
  PROVE  Traces'
<1>1. /\ Len(runs') = Len(runs) /\ runs'[r].removed = runs[r].removed
      /\ \A s \in Runs : s # r => runs'[s] = runs[s]
  BY EndEffect DEF Types, Kept
<1>2. /\ runs[r].at = "sent" /\ UNCHANGED <<files, loads, present, told>>
      /\ cache' = [d \in Dirs |-> {}]
      /\ raced' = raced \cup {f \in runs[r].removed :
                                \E i \in Loads : loads[i].at = "read" /\ f \in loads[i].listing}
  BY DEF RemovalEnds, page
<1>3. \A f : Gone(f)' => Gone(f) \/ f \in runs[r].removed
  BY <1>1 DEF Gone, Runs
<1>4. \A f : Gone(f) => Gone(f)'
  BY <1>1, <1>2 DEF Gone, Runs
<1>5. NotBack'
  BY <1>1, <1>2 DEF Traces, NotBack, Runs
<1>6. Reported' /\ Unasked' /\ NoGhosts'
  BY <1>2, <1>4 DEF Traces, Reported, Unasked, NoGhosts
<1>7. Uncached'
  BY <1>2, <1>3 DEF Traces, Uncached, Loads
<1> QED
  BY <1>5, <1>6, <1>7 DEF Traces

LEMMA RunTraces ==
  ASSUME Types, Traces, NEW doomed \in SUBSET Files, Run(doomed) PROVE Traces'
<1>1. Len(loads) <= MaxLoads
  BY AwaitedFinite, BoundAssumption DEF Types, LoadsType, Bounded
<1>2. /\ Len(runs') = Len(runs) + 1 /\ \A s \in Runs : runs'[s] = runs[s]
      /\ runs'[Len(runs')] = NewRun(doomed)
  BY <1>1, StartEffect DEF Types
<1>3. \A s \in Runs' : s \in Runs \/ runs'[s] = NewRun(doomed)
  BY <1>2, LenProperties DEF Runs, Types, RunsType
<1>4. NewRun(doomed).at = "sent" /\ NewRun(doomed).removed = {}
  BY DEF NewRun
<1>5. Runs \subseteq Runs'
  BY <1>2, LenProperties DEF Runs, Types, RunsType
<1>6. \A f : Gone(f)' <=> Gone(f)
  BY <1>2, <1>3, <1>4, <1>5 DEF Gone
<1>7. UNCHANGED <<files, loads, present, cache, told, raced>>
  BY DEF Run, server
<1>8. NotBack'
  BY <1>2, <1>3, <1>4, <1>7 DEF Traces, NotBack
<1>9. Reported' /\ Uncached' /\ Unasked' /\ NoGhosts'
  BY <1>6, <1>7 DEF Traces, Reported, Uncached, Unasked, NoGhosts, Loads
<1> QED
  BY <1>8, <1>9 DEF Traces

LEMMA AnswerTraces ==
  ASSUME Types, Traces, NEW r \in Runs, RunArrives(r) \/ RunRejected(r) PROVE Traces'
<1>1. SameRuns
  BY AnswerEffect DEF Types, SameRuns, RunArrives, RunRejected
<1>2. CASE RunArrives(r)
  <2>1. Load(dir) /\ dir \in Dirs /\ UNCHANGED <<present, cache, raced>>
    BY <1>2 DEF RunArrives, server, Types, PageType
  <2>2. told' = told \cup runs[r].removed /\ runs[r].at = "ended"
    BY <1>2 DEF RunArrives
  <2>3. \A f \in told' : Gone(f)
    BY <2>2 DEF Traces, Reported, Gone
  <2> QED
    BY <1>1, <2>1, <2>3, LoadTraces
<1>3. CASE RunRejected(r)
  BY <1>1, <1>3, QuietTraces DEF RunRejected, server
<1> QED
  BY <1>2, <1>3

LEMMA InitTraces == Init => Traces
<1> SUFFICES ASSUME Init PROVE Traces
  OBVIOUS
<1>1. Runs = {} /\ told = {}
  BY DEF Init, Runs
<1> QED
  BY <1>1 DEF Traces, NotBack, Reported, Uncached, Unasked, NoGhosts, Gone

LEMMA NextTraces == Types /\ Traces /\ [Next]_vars => Traces'
<1> SUFFICES ASSUME Types, Traces, [Next]_vars PROVE Traces'
  OBVIOUS
<1>1. CASE UserStep
  <2>1. CASE \E d \in Dirs : OpenFolder(d) \/ Crumb(d)
    BY <2>1, LoadTraces DEF OpenFolder, Crumb, server, SameRuns, Traces, Reported
  <2>2. CASE \E f \in Files : Toggle(f)
    BY <2>2, QuietTraces DEF Toggle, server, SameRuns
  <2>3. CASE DeleteSelected \/ Prune
    BY <2>3, RunTraces, OldAssumption DEF DeleteSelected, Prune, Types, PageType
  <2> QED
    BY <1>1, <2>1, <2>2, <2>3 DEF UserStep
<1>2. CASE \E i \in Loads : LoadStep(i)
  BY <1>2, ServeTraces, ListTraces DEF LoadStep
<1>3. CASE \E r \in Runs : RunStep(r)
  BY <1>3, RemoveTraces, EndTraces, AnswerTraces DEF RunStep
<1>4. CASE \E d \in Dirs : Expire(d)
  BY <1>4, QuietTraces DEF Expire, page, SameRuns, Types, ServerType
<1>5. CASE UNCHANGED vars
  BY <1>5, QuietTraces DEF vars, page, server, SameRuns
<1> QED
  BY <1>1, <1>2, <1>3, <1>4, <1>5 DEF Next

(* For any number of listings, runs and files: what a reported run removed *)
(* is not shown again, unless a read that it overtook was cached.          *)
THEOREM RemovedFilesStayAway == Spec => []NoGhosts
<1>1. Init => Types /\ Traces
  BY InitTypes, InitTraces
<1>2. Types /\ Traces /\ [Next]_vars => Types' /\ Traces'
  BY NextTypes, NextTraces
<1>3. Traces => NoGhosts
  BY DEF Traces
<1> QED
  BY <1>1, <1>2, <1>3, PTL DEF Spec
=============================================================================
