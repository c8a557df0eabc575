-------------------------- MODULE RecordingsProofs --------------------------
(***************************************************************************)
(* The invariants of Recordings, for every set of files, profiles and      *)
(* requests. Freshness is not inductive by itself: that a listing in the   *)
(* cache, a cached stat, or what a read holds on its way there shows       *)
(* nothing that is gone (Fresh) rests on what is gone being neither in the *)
(* storage box (Vanished) nor coming back.                                 *)
(***************************************************************************)
EXTENDS Recordings, FiniteSetTheorems, TLAPS

(* A get that has found its file has found no other.                       *)
Own == \A r \in Gets : pc[r] \in {"read", "found"} => seen[r] = {Target[r]}

(* What was removed is not in the box, and nothing else is gone.           *)
Vanished == /\ \A r \in Removals : removed[r] \cap remote = {}
            /\ \A p \in Profiles : \A f \in gone[p] : \E r \in Removals : f \in removed[r]

Since == \A r \in Reads : before[r] \subseteq gone[ProfileOf[r]]

(* Unless the race has happened, nothing that is gone is in a cache or on  *)
(* its way there.                                                          *)
FreshCaches == \A p \in Profiles : ~raced[p] =>
                 /\ \A listing \in listCache[p] : listing \cap gone[p] = {}
                 /\ statCache[p] \cap gone[p] = {}
FreshReads  == \A r \in Reads : pc[r] = "read" /\ ~raced[ProfileOf[r]] =>
                 seen[r] \cap gone[ProfileOf[r]] = {}

Finite == \A r \in Removals : IsFiniteSet(removed[r])

IInv == /\ TypeOK /\ Own /\ Vanished /\ Since /\ FreshCaches /\ FreshReads
        /\ FreshUnlessRaced /\ Finite /\ CountsAddUp

LEMMA Kinds ==
  /\ \A r \in Requests : ProfileOf[r] \in Profiles
  /\ \A r \in Reads : r \in Requests /\ r \notin Removals
  /\ \A r \in Removals : r \in Requests /\ r \notin Reads
  /\ \A r \in Lists : r \in Reads /\ r \notin Gets
  /\ \A r \in Gets : r \in Reads /\ Target[r] \in Paths
  /\ \A r \in Removals : Doomed[r] \subseteq Paths
  BY RequestAssumption DEF Requests, Reads

LEMMA OneEntry == /\ Cardinality({}) <= 1
                  /\ \A x : Cardinality({x}) <= 1
  BY FS_EmptySet, FS_Singleton

(* Nothing that is gone can be read.                                       *)
LEMMA NotInBox == Vanished => \A p \in Profiles : gone[p] \cap remote = {}
  BY DEF Vanished

LEMMA InitInvariant == Init => IInv
<1> SUFFICES ASSUME Init PROVE IInv
  OBVIOUS
<1>1. TypeOK
  BY Kinds, OneEntry DEF Init, TypeOK
<1>2. Own /\ Vanished /\ Since /\ FreshCaches /\ FreshReads
  BY Kinds DEF Init, Own, Vanished, Since, FreshCaches, FreshReads
<1>3. FreshUnlessRaced
  BY Kinds DEF Init, FreshUnlessRaced, Stale
<1>4. Finite /\ CountsAddUp
  BY FS_EmptySet DEF Init, Finite, CountsAddUp
<1> QED
  BY <1>1, <1>2, <1>3, <1>4 DEF IInv

-----------------------------------------------------------------------------
(* Type correctness of each step.                                          *)

LEMMA ReadsTyped ==
  ASSUME TypeOK, NEW r \in Reads,
         \/ r \in Lists /\ (ListBegins(r) \/ ListReads(r) \/ ListReturns(r))
         \/ r \in Gets /\ (GetBegins(r) \/ GetStats(r) \/ GetReturns(r) \/ GetStreams(r))
         \/ ReadFails(r)
  PROVE  TypeOK'
<1> USE Kinds DEF Goto
<1>1. CASE r \in Lists /\ ListBegins(r)
  BY <1>1 DEF ListBegins, TypeOK
<1>2. CASE r \in Lists /\ ListReads(r)
  BY <1>2 DEF ListReads, TypeOK
<1>3. CASE r \in Lists /\ ListReturns(r)
  <2>1. /\ listCache' \in [Profiles -> SUBSET SUBSET Paths]
        /\ \A p \in Profiles : listCache'[p] \in {listCache[p], {seen[r]}}
    BY <1>3 DEF ListReturns, TypeOK
  <2>2. \A p \in Profiles : Cardinality(listCache'[p]) <= 1
    BY <2>1, OneEntry DEF TypeOK
  <2> QED
    BY <1>3, <2>1, <2>2 DEF ListReturns, TypeOK
<1>4. CASE r \in Gets /\ GetBegins(r)
  BY <1>4 DEF GetBegins, TypeOK
<1>5. CASE r \in Gets /\ GetStats(r)
  BY <1>5 DEF GetStats, TypeOK
<1>6. CASE r \in Gets /\ GetReturns(r)
  BY <1>6 DEF GetReturns, TypeOK
<1>7. CASE r \in Gets /\ GetStreams(r)
  BY <1>7 DEF GetStreams, TypeOK
<1>8. CASE ReadFails(r)
  BY <1>8 DEF ReadFails, TypeOK
<1> QED
  BY <1>1, <1>2, <1>3, <1>4, <1>5, <1>6, <1>7, <1>8

LEMMA RemovalsTyped ==
  ASSUME TypeOK, NEW r \in Removals,
         \/ RemovalRefused(r) \/ RemovalStarts(r) \/ \E f \in Paths : Delete(r, f)
         \/ RemovalReturns(r) \/ RemovalThrows(r)
  PROVE  TypeOK'
<1> USE Kinds DEF Goto
<1>1. CASE RemovalRefused(r)
  BY <1>1 DEF RemovalRefused, TypeOK
<1>2. CASE RemovalStarts(r)
  BY <1>2 DEF RemovalStarts, TypeOK
<1>3. CASE \E f \in Paths : Delete(r, f)
  BY <1>3 DEF Delete, TypeOK
<1>4. ASSUME NEW to \in {"done", "failed"}, Ended(r, to), Invalidated(ProfileOf[r])
      PROVE  TypeOK'
  BY <1>4, OneEntry DEF Ended, Invalidated, TypeOK
<1> QED
  BY <1>1, <1>2, <1>3, <1>4 DEF RemovalReturns, RemovalThrows

LEMMA WorldTyped ==
  ASSUME TypeOK, (\E f \in Paths : Upload(f)) \/ (\E p \in Profiles : Expire(p))
  PROVE  TypeOK'
<1>1. ASSUME NEW f \in Paths, Upload(f) PROVE TypeOK'
  BY <1>1 DEF Upload, TypeOK
<1>2. ASSUME NEW p \in Profiles, Expire(p) PROVE TypeOK'
  <2>1. /\ listCache' \in [Profiles -> SUBSET SUBSET Paths]
        /\ \A q \in Profiles : listCache'[q] \in {listCache[q], {}}
    BY <1>2 DEF Expire, TypeOK
  <2>2. \A q \in Profiles : Cardinality(listCache'[q]) <= 1
    BY <2>1, OneEntry DEF TypeOK
  <2>3. statCache' \in [Profiles -> SUBSET Paths]
    BY <1>2 DEF Expire, TypeOK
  <2> QED
    BY <1>2, <2>1, <2>2, <2>3 DEF Expire, TypeOK
<1> QED
  BY <1>1, <1>2

-----------------------------------------------------------------------------
(* Reads, and the other steps that remove nothing and end no Removal.      *)

LEMMA HistoryKept ==
  ASSUME Vanished, Finite, CountsAddUp, UNCHANGED <<remote, deleted, removed, gone>>
  PROVE  Vanished' /\ Finite' /\ CountsAddUp'
  BY DEF Vanished, Finite, CountsAddUp

(* What a read brings to light is not gone, or was in its way already.     *)
LEMMA ReadsKeep ==
  ASSUME IInv, NEW r \in Reads,
         \/ r \in Lists /\ (ListBegins(r) \/ ListReads(r) \/ ListReturns(r))
         \/ r \in Gets /\ (GetBegins(r) \/ GetStats(r) \/ GetReturns(r) \/ GetStreams(r))
         \/ ReadFails(r)
  PROVE  IInv'
<1> USE Kinds DEF Goto
<1> DEFINE p == ProfileOf[r]
<1>1. TypeOK'
  BY ReadsTyped DEF IInv
<1>2. UNCHANGED <<remote, deleted, removed, gone, raced>>
  BY DEF ListBegins, ListReads, ListReturns, GetBegins, GetStats, GetReturns, GetStreams, ReadFails
<1>3. Vanished' /\ Finite' /\ CountsAddUp'
  BY <1>2, HistoryKept DEF IInv
<1>4. \A q \in Reads : q # r =>
        pc'[q] = pc[q] /\ seen'[q] = seen[q] /\ before'[q] = before[q]
  BY DEF IInv, TypeOK, ListBegins, ListReads, ListReturns, GetBegins, GetStats, GetReturns,
         GetStreams, ReadFails
<1>5. before'[r] \in {before[r], gone[p]}
  BY DEF IInv, TypeOK, ListBegins, ListReads, ListReturns, GetBegins, GetStats, GetReturns,
         GetStreams, ReadFails
<1>6. Since'
  BY <1>2, <1>4, <1>5 DEF IInv, Since
<1>7. Own'
  <2>1. r \in Gets /\ pc'[r] \in {"read", "found"} => seen'[r] = {Target[r]}
    BY DEF IInv, TypeOK, Own, ListBegins, ListReads, ListReturns, GetBegins, GetStats,
           GetReturns, GetStreams, ReadFails
  <2> QED
    BY <1>4, <2>1 DEF IInv, Own
<1>8. gone[p] \cap remote = {}
  BY NotInBox DEF IInv
<1>9. pc'[r] = "read" => seen'[r] \cap gone[p] = {}
  BY <1>8 DEF IInv, TypeOK, ListBegins, ListReads, ListReturns, GetBegins, GetStats,
              GetReturns, GetStreams, ReadFails
<1>10. FreshReads'
  BY <1>2, <1>4, <1>9 DEF IInv, FreshReads
<1>11. FreshCaches'
  <2>1. CASE r \in Lists /\ ListReturns(r)
    <3>1. /\ statCache' = statCache
          /\ \A q \in Profiles : listCache'[q] = IF q = p THEN {seen[r]} ELSE listCache[q]
          /\ pc[r] = "read"
      BY <2>1 DEF ListReturns, IInv, TypeOK
    <3> QED
      BY <1>2, <3>1 DEF IInv, FreshReads, FreshCaches
  <2>2. CASE r \in Gets /\ GetReturns(r)
    <3>1. /\ listCache' = listCache
          /\ \A q \in Profiles :
               statCache'[q] = IF q = p THEN statCache[q] \cup seen[r] ELSE statCache[q]
          /\ pc[r] = "read"
      BY <2>2 DEF GetReturns, IInv, TypeOK, Own
    <3>2. ~raced[p] => seen[r] \cap gone[p] = {}
      BY <3>1 DEF IInv, FreshReads
    <3>3. ASSUME NEW q \in Profiles, ~raced'[q]
          PROVE  /\ \A listing \in listCache'[q] : listing \cap gone'[q] = {}
                 /\ statCache'[q] \cap gone'[q] = {}
      <4>1. ~raced[q] /\ gone'[q] = gone[q] /\ listCache'[q] = listCache[q]
        BY <1>2, <3>1, <3>3
      <4>2. /\ \A listing \in listCache[q] : listing \cap gone[q] = {}
            /\ statCache[q] \cap gone[q] = {}
        BY <4>1 DEF IInv, FreshCaches
      <4>3. q = p => (statCache[q] \cup seen[r]) \cap gone[q] = {}
        BY <3>2, <4>1, <4>2
      <4> QED
        BY <3>1, <4>1, <4>2, <4>3
    <3> QED
      BY <3>3 DEF FreshCaches
  <2>3. CASE UNCHANGED <<listCache, statCache>>
    BY <1>2, <2>3 DEF IInv, FreshCaches
  <2> QED
    BY <2>1, <2>2, <2>3 DEF ListBegins, ListReads, GetBegins, GetStats, GetStreams, ReadFails
<1>12. FreshUnlessRaced'
  <2>1. SUFFICES ASSUME Stale(r)', ~raced[p] PROVE FALSE
    BY <1>2, <1>4 DEF IInv, FreshUnlessRaced, Stale
  <2>2. pc'[r] \in {"done", "found", "cut"} /\ seen'[r] \cap before'[r] # {}
    BY <2>1 DEF Stale
  <2>3. CASE r \in Lists /\ ListBegins(r)
    BY <2>1, <2>2, <2>3 DEF ListBegins, IInv, TypeOK, FreshCaches
  <2>4. CASE r \in Gets /\ GetBegins(r)
    BY <2>1, <2>2, <2>4 DEF GetBegins, IInv, TypeOK, FreshCaches
  <2>5. CASE pc[r] = "read" /\ seen' = seen /\ before' = before
    BY <2>1, <2>2, <2>5 DEF IInv, FreshReads, Since
  <2>6. CASE pc[r] = "found" /\ seen' = seen /\ before' = before
    BY <2>1, <2>2, <2>6 DEF IInv, FreshUnlessRaced, Stale
  <2>7. CASE pc'[r] \in {"read", "failed"}
    BY <2>2, <2>7
  <2> QED
    BY <2>3, <2>4, <2>5, <2>6, <2>7
    DEF IInv, TypeOK, ListReads, ListReturns, GetStats, GetReturns, GetStreams, ReadFails
<1> QED
  BY <1>1, <1>3, <1>6, <1>7, <1>10, <1>11, <1>12 DEF IInv

-----------------------------------------------------------------------------
(* Removals, uploads and expiry.                                           *)

(* Steps of Removals change the place of no read.                          *)
LEMMA ReadsUntouched ==
  ASSUME IInv, UNCHANGED <<seen, before, gone, raced>>,
         \A q \in Reads : pc'[q] = pc[q]
  PROVE  Own' /\ Since' /\ FreshReads' /\ FreshUnlessRaced'
<1>1. Own' /\ Since'
  BY Kinds DEF IInv, Own, Since
<1> QED
  BY <1>1 DEF IInv, FreshReads, FreshUnlessRaced, Stale

LEMMA BeginningsKeep ==
  ASSUME IInv, NEW r \in Removals, RemovalRefused(r) \/ RemovalStarts(r)
  PROVE  IInv'
<1>1. TypeOK'
  BY RemovalsTyped DEF IInv
<1>2. UNCHANGED <<remote, listCache, statCache, seen, deleted, removed, gone, before, raced>>
  BY DEF RemovalRefused, RemovalStarts
<1>3. \A q \in Reads : pc'[q] = pc[q]
  BY Kinds DEF RemovalRefused, RemovalStarts, Goto, IInv, TypeOK
<1>4. Own' /\ Since' /\ FreshReads' /\ FreshUnlessRaced'
  BY <1>2, <1>3, ReadsUntouched
<1>5. Vanished' /\ Finite' /\ CountsAddUp'
  BY <1>2, HistoryKept DEF IInv
<1>6. FreshCaches'
  BY <1>2 DEF IInv, FreshCaches
<1> QED
  BY <1>1, <1>4, <1>5, <1>6 DEF IInv

(* A deletion that is counted removed a file that was there, so one that   *)
(* nobody had removed.                                                     *)
LEMMA DeleteKeeps ==
  ASSUME IInv, NEW r \in Removals, NEW f \in Paths, Delete(r, f)
  PROVE  IInv'
<1>1. TypeOK'
  BY RemovalsTyped DEF IInv
<1>2. UNCHANGED <<listCache, statCache, pc, seen, gone, before, raced>>
  BY DEF Delete
<1>3. Own' /\ Since' /\ FreshReads' /\ FreshUnlessRaced'
  BY <1>2, ReadsUntouched
<1>4. FreshCaches'
  BY <1>2 DEF IInv, FreshCaches
<1>5. CASE UNCHANGED <<remote, removed, deleted>>
  BY <1>1, <1>2, <1>3, <1>4, <1>5, HistoryKept DEF IInv
<1>6. ASSUME f \in remote, remote' = remote \ {f},
             removed' = [removed EXCEPT ![r] = @ \cup {f}],
             deleted' \in {deleted, [deleted EXCEPT ![r] = @ + 1]}
      PROVE  IInv'
  <2>1. \A q \in Removals : f \notin removed[q]
    BY <1>6 DEF IInv, Vanished
  <2>2. \A q \in Removals : removed'[q] = IF q = r THEN removed[r] \cup {f} ELSE removed[q]
    BY <1>6 DEF IInv, TypeOK
  <2>3. Vanished'
    BY <1>2, <1>6, <2>2 DEF IInv, Vanished
  <2>4. Finite'
    <3>1. IsFiniteSet(removed[r] \cup {f})
      BY FS_AddElement DEF IInv, Finite
    <3> QED
      BY <2>2, <3>1 DEF IInv, Finite
  <2>5. Cardinality(removed'[r]) = Cardinality(removed[r]) + 1
    BY <2>1, <2>2, FS_AddElement DEF IInv, Finite
  <2>6. \A q \in Removals : deleted'[q] <= IF q = r THEN deleted[r] + 1 ELSE deleted[q]
    BY <1>6 DEF IInv, TypeOK
  <2>7. Cardinality(removed[r]) \in Nat
    BY FS_CardinalityType DEF IInv, Finite
  <2>8. deleted'[r] <= Cardinality(removed'[r])
    <3>1. deleted[r] \in Nat /\ deleted'[r] \in Nat /\ deleted[r] <= Cardinality(removed[r])
      BY <1>1 DEF IInv, TypeOK, CountsAddUp
    <3>2. deleted'[r] <= deleted[r] + 1
      BY <2>6
    <3> QED
      BY <2>5, <2>7, <3>1, <3>2
  <2>9. \A q \in Removals : q # r => deleted'[q] <= Cardinality(removed'[q])
    <3>1. \A q \in Removals : q # r => deleted'[q] = deleted[q] /\ removed'[q] = removed[q]
      BY <1>6, <2>2 DEF IInv, TypeOK
    <3> QED
      BY <3>1 DEF IInv, CountsAddUp
  <2>10. \A q, s \in Removals : q # s => removed'[q] \cap removed'[s] = {}
    BY <2>1, <2>2 DEF IInv, CountsAddUp
  <2>11. CountsAddUp'
    BY <2>8, <2>9, <2>10 DEF CountsAddUp
  <2> QED
    BY <1>1, <1>3, <1>4, <2>3, <2>4, <2>11 DEF IInv
<1> QED
  BY <1>5, <1>6 DEF Delete

LEMMA UploadKeeps == ASSUME IInv, NEW f \in Paths, Upload(f) PROVE IInv'
<1>1. TypeOK'
  BY WorldTyped DEF IInv
<1>2. UNCHANGED <<listCache, statCache, pc, seen, deleted, removed, gone, before, raced>>
  BY DEF Upload
<1>3. Own' /\ Since' /\ FreshReads' /\ FreshUnlessRaced'
  BY <1>2, ReadsUntouched
<1>4. FreshCaches' /\ Finite' /\ CountsAddUp'
  BY <1>2 DEF IInv, FreshCaches, Finite, CountsAddUp
<1>5. Vanished'
  BY <1>2 DEF IInv, Vanished, Upload
<1> QED
  BY <1>1, <1>3, <1>4, <1>5 DEF IInv

LEMMA ExpireKeeps == ASSUME IInv, NEW p \in Profiles, Expire(p) PROVE IInv'
<1>1. TypeOK'
  BY WorldTyped DEF IInv
<1>2. UNCHANGED <<remote, pc, seen, todo, deleted, removed, gone, before, raced>>
  BY DEF Expire
<1>3. Own' /\ Since' /\ FreshReads' /\ FreshUnlessRaced'
  BY <1>2, ReadsUntouched
<1>4. Vanished' /\ Finite' /\ CountsAddUp'
  BY <1>2, HistoryKept DEF IInv
<1>5. \A q \in Profiles : listCache'[q] \subseteq listCache[q] /\ statCache'[q] \subseteq statCache[q]
  BY DEF Expire, IInv, TypeOK
<1>6. FreshCaches'
  BY <1>2, <1>5 DEF IInv, FreshCaches
<1> QED
  BY <1>1, <1>3, <1>4, <1>6 DEF IInv

(* The end of a Removal: its profile's caches are empty, and a read that   *)
(* still holds what it removed is the race.                                *)
LEMMA EndKeeps ==
  ASSUME IInv, NEW r \in Removals, RemovalReturns(r) \/ RemovalThrows(r)
  PROVE  IInv'
<1> DEFINE p == ProfileOf[r]
<1> USE Kinds
<1>1. TypeOK'
  BY RemovalsTyped DEF IInv
<1>2. PICK to \in {"done", "failed"} : Ended(r, to) /\ Invalidated(p)
  BY DEF RemovalReturns, RemovalThrows
<1>3. /\ UNCHANGED <<remote, seen, deleted, removed, before>>
      /\ \A q \in Reads : pc'[q] = pc[q]
  BY <1>2 DEF Ended, Goto, IInv, TypeOK
<1>4. \A q \in Profiles : gone'[q] = IF q = p THEN gone[p] \cup removed[r] ELSE gone[q]
  BY <1>2 DEF Ended, IInv, TypeOK
<1>5. Own' /\ Since' /\ Finite' /\ CountsAddUp'
  <2>1. Own' /\ Since'
    BY <1>3, <1>4 DEF IInv, Own, Since
  <2> QED
    BY <1>3, <2>1 DEF IInv, Finite, CountsAddUp
<1>6. Vanished'
  BY <1>3, <1>4 DEF IInv, Vanished
<1>7. /\ \A q \in Profiles : raced[q] => raced'[q]
      /\ \A q \in Reads : ProfileOf[q] = p /\ pc[q] = "read" /\ seen[q] \cap gone'[p] # {}
                            => raced'[p]
  BY <1>2, Zenon DEF Ended, IInv, TypeOK
<1>8. FreshReads'
  BY <1>3, <1>4, <1>7 DEF IInv, FreshReads
<1>9. \A q \in Profiles : /\ listCache'[q] = IF q = p THEN {} ELSE listCache[q]
                          /\ statCache'[q] = IF q = p THEN {} ELSE statCache[q]
  BY <1>2 DEF Invalidated, IInv, TypeOK
<1>10. FreshCaches'
  BY <1>4, <1>7, <1>9 DEF IInv, FreshCaches
<1>11. FreshUnlessRaced'
  BY <1>3, <1>7 DEF IInv, FreshUnlessRaced, Stale
<1> QED
  BY <1>1, <1>5, <1>6, <1>8, <1>10, <1>11 DEF IInv

LEMMA StutterKeeps == IInv /\ UNCHANGED vars => IInv'
<1> SUFFICES ASSUME IInv, UNCHANGED vars PROVE IInv'
  OBVIOUS
<1>1. TypeOK' /\ Vanished' /\ Finite' /\ CountsAddUp'
  BY DEF IInv, vars, TypeOK, Vanished, Finite, CountsAddUp
<1>2. Own' /\ Since' /\ FreshReads' /\ FreshUnlessRaced'
  BY ReadsUntouched DEF vars
<1>3. FreshCaches'
  BY DEF IInv, vars, FreshCaches
<1> QED
  BY <1>1, <1>2, <1>3 DEF IInv

LEMMA StepKeeps == IInv /\ [Next]_vars => IInv'
<1> SUFFICES ASSUME IInv, [Next]_vars PROVE IInv'
  OBVIOUS
<1>1. ASSUME NEW r \in Reads,
             \/ r \in Lists /\ (ListBegins(r) \/ ListReads(r) \/ ListReturns(r))
             \/ r \in Gets /\ (GetBegins(r) \/ GetStats(r) \/ GetReturns(r) \/ GetStreams(r))
             \/ ReadFails(r)
      PROVE  IInv'
  BY <1>1, ReadsKeep
<1>2. ASSUME NEW r \in Removals, RemovalRefused(r) \/ RemovalStarts(r)
      PROVE  IInv'
  BY <1>2, BeginningsKeep
<1>3. ASSUME NEW r \in Removals, NEW f \in Paths, Delete(r, f) PROVE IInv'
  BY <1>3, DeleteKeeps
<1>4. ASSUME NEW r \in Removals, RemovalReturns(r) \/ RemovalThrows(r) PROVE IInv'
  BY <1>4, EndKeeps
<1>5. ASSUME NEW f \in Paths, Upload(f) PROVE IInv'
  BY <1>5, UploadKeeps
<1>6. ASSUME NEW p \in Profiles, Expire(p) PROVE IInv'
  BY <1>6, ExpireKeeps
<1>7. CASE UNCHANGED vars
  BY <1>7, StutterKeeps
<1> QED
  BY <1>1, <1>2, <1>3, <1>4, <1>5, <1>6, <1>7, Kinds DEF Next

-----------------------------------------------------------------------------
(* The inductive invariant holds throughout.                               *)
THEOREM Invariance == Spec => []IInv
  BY InitInvariant, StepKeeps, PTL DEF Spec

(* Type correctness.                                                       *)
THEOREM TypeCorrect == Spec => []TypeOK
<1>1. IInv => TypeOK
  BY DEF IInv
<1> QED
  BY <1>1, Invariance, PTL

(* Whoever asks after a Removal has ended sees nothing of what it removed, *)
(* unless a read was overtaken by it on its way to the cache.              *)
THEOREM FreshAfterRemoval == Spec => []FreshUnlessRaced
<1>1. IInv => FreshUnlessRaced
  BY DEF IInv
<1> QED
  BY <1>1, Invariance, PTL

(* No Removal reports more than it removed, and no file is removed twice.  *)
THEOREM CountsAreHonest == Spec => []CountsAddUp
<1>1. IInv => CountsAddUp
  BY DEF IInv
<1> QED
  BY <1>1, Invariance, PTL
=============================================================================
