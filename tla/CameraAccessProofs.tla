------------------------ MODULE CameraAccessProofs ------------------------
(***************************************************************************)
(* The invariants of CameraAccess, for all users, profiles and requests.   *)
(*                                                                         *)
(* TypeOK, which says that stored secrets are encrypted once, needs that   *)
(* an update saves a row it has loaded (LoadedRow). Isolation follows from *)
(* Justified: not only what was answered, but what a list has still to     *)
(* look up and what the guard let a get have, was its user's at some       *)
(* moment. WithdrawnUnlessRaced needs that no share comes back between the *)
(* two steps of a remove either (Withdrawn), and that a request that ended *)
(* before another began stays ended (EndedOver). ListComplete needs that   *)
(* no profile changes its owner (Owners, Unborn).                          *)
(***************************************************************************)
EXTENDS CameraAccess, TLAPS

LoadedRow == \A r \in Requests : Is(r, "update", "loaded") => loaded[r] \in Rows(1)

Levels == Permissions \cup {"owner"}

Entitled(r, p) == \E l \in Levels : <<p, l>> \in held[r]

Justified ==
  \A r \in Reads : /\ \A p \in todo[r] \cup out[r] : Entitled(r, p)
                   /\ Is(r, "get", "admitted") => Entitled(r, Of(r))

EndedOver == \A r \in Withdrawals : \A q \in ended[r] : pc[q] \in Over

Revoked(r) == share[Key(r)] # NoShare => \E q \in Raced(r, "grant") : Key(q) = Key(r)
Deleted(r) == Exists(Of(r)) => Raced(r, "update") # {}
Unshared(r) == \A u \in Users : Shared(u, Of(r)) # "none" => Raced(r, "grant") # {}

Withdrawn ==
  \A r \in Withdrawals :
    /\ Is(r, "revoke", "done") => Revoked(r)
    /\ Is(r, "remove", "done") => Deleted(r)
    /\ Is(r, "remove", "done") \/ Is(r, "remove", "unshared") => Unshared(r)

IInv == TypeOK /\ LoadedRow /\ Justified /\ EndedOver /\ Withdrawn

-----------------------------------------------------------------------------
(* What requests ask for, and what becomes of a configuration.             *)

LEMMA AskTypes ==
  \A r \in Requests :
    /\ By(r) \in Users /\ Of(r) \in Profiles /\ Key(r) \in Profiles \X Users
    /\ Ask[r].op \in Ops /\ Ask[r].dto \in Dtos /\ Ask[r].permission \in Permissions
  BY AskAssumption DEF By, Of, Key

(* Values that carry no encryption yet, or one layer if they are secret,   *)
(* carry one layer if they are secret once they have gone through          *)
(* encSecrets.                                                             *)
LEMMA SealsOnce ==
  ASSUME NEW c \in [Fields -> [text : Values, layers : {0, 1}]],
         \A f \in Fields \ Secrets : c[f].layers = 0
  PROVE  encSecrets(c) \in Configs(1)
<1>1. \A f \in Fields : /\ c[f] \in [text : Values, layers : {0, 1}]
                        /\ c[f].layers \in {0, 1}
  OBVIOUS
<1>2. \A f \in Fields : Seal(c[f]) \in [text : Values, layers : {0, 1}]
                        /\ Seal(c[f]).layers = 1
  BY <1>1 DEF Seal, encrypt, isEncrypted
<1> QED
  BY <1>1, <1>2 DEF encSecrets, Configs

(* What is decrypted for a connection is plain.                            *)
LEMMA Unseals == ASSUME NEW c \in Configs(1) PROVE decSecrets(c) \in Configs(0)
<1>1. \A f \in Fields : /\ c[f] \in [text : Values, layers : {0, 1}]
                        /\ c[f].layers = IF f \in Secrets THEN 1 ELSE 0
  BY DEF Configs
<1>2. \A f \in Fields : f \in Secrets =>
        /\ Unseal(c[f]) \in [text : Values, layers : {0, 1}]
        /\ Unseal(c[f]).layers = 0
  BY <1>1 DEF Unseal, decrypt, isEncrypted
<1> QED
  BY <1>1, <1>2 DEF decSecrets, Configs

LEMMA Merges ==
  ASSUME NEW c \in Configs(1), NEW dto \in Dtos PROVE Merged(c, dto) \in Configs(1)
<1> DEFINE d == [f \in Fields |-> IF dto[f] = Blank THEN c[f] ELSE Plain(dto[f])]
<1>1. \A f \in Fields : /\ c[f] \in [text : Values, layers : {0, 1}]
                        /\ c[f].layers = IF f \in Secrets THEN 1 ELSE 0
  BY DEF Configs
<1>2. \A f \in Fields : dto[f] # Blank => /\ Plain(dto[f]) \in [text : Values, layers : {0, 1}]
                                          /\ Plain(dto[f]).layers = 0
  BY DEF Dtos, Plain
<1>3. d \in [Fields -> [text : Values, layers : {0, 1}]]
  BY <1>1, <1>2
<1>4. \A f \in Fields \ Secrets : d[f].layers = 0
  BY <1>1, <1>2
<1> HIDE DEF d
<1>5. encSecrets(d) \in Configs(1)
  BY <1>3, <1>4, SealsOnce
<1> QED
  BY <1>5 DEF Merged, d

(* The rows the handlers make.                                             *)
LEMMA RowTypes ==
  /\ \A u \in Users, v \in Values :
       [owner |-> u, config |-> encSecrets([f \in Fields |-> Plain(v)])] \in Rows(1)
  /\ \A r \in Requests : Ask[r].op = "create" =>
       [owner |-> By(r), config |-> encSecrets([f \in Fields |-> Plain(Ask[r].dto[f])])]
         \in Rows(1)
  /\ \A row \in Rows(1) : [row EXCEPT !.config = decSecrets(@)] \in Rows(0)
  /\ \A row \in Rows(1), dto \in Dtos : [row EXCEPT !.config = Merged(@, dto)] \in Rows(1)
<1>1. ASSUME NEW u \in Users, NEW v \in Values
      PROVE  [owner |-> u, config |-> encSecrets([f \in Fields |-> Plain(v)])] \in Rows(1)
  <2> DEFINE c == [f \in Fields |-> Plain(v)]
  <2>1. c \in [Fields -> [text : Values, layers : {0, 1}]] /\ \A f \in Fields : c[f].layers = 0
    BY DEF Plain
  <2> HIDE DEF c
  <2>2. encSecrets(c) \in Configs(1)
    BY <2>1, SealsOnce
  <2> QED
    BY <2>2 DEF Rows, c
<1>2. ASSUME NEW r \in Requests, Ask[r].op = "create"
      PROVE  [owner |-> By(r), config |-> encSecrets([f \in Fields |-> Plain(Ask[r].dto[f])])]
               \in Rows(1)
  <2> DEFINE c == [f \in Fields |-> Plain(Ask[r].dto[f])]
  <2>1. \A f \in Fields : Ask[r].dto[f] \in Values
    BY <1>2, AskTypes, AskAssumption DEF Dtos
  <2>2. c \in [Fields -> [text : Values, layers : {0, 1}]] /\ \A f \in Fields : c[f].layers = 0
    BY <2>1 DEF Plain
  <2> HIDE DEF c
  <2>3. encSecrets(c) \in Configs(1)
    BY <2>2, SealsOnce
  <2> QED
    BY <2>3, AskTypes DEF Rows, c
<1>3. ASSUME NEW row \in Rows(1) PROVE [row EXCEPT !.config = decSecrets(@)] \in Rows(0)
  <2>1. decSecrets(row.config) \in Configs(0)
    BY Unseals DEF Rows
  <2> QED
    BY <2>1 DEF Rows
<1>4. ASSUME NEW row \in Rows(1), NEW dto \in Dtos
      PROVE  [row EXCEPT !.config = Merged(@, dto)] \in Rows(1)
  <2>1. Merged(row.config, dto) \in Configs(1)
    BY Merges DEF Rows
  <2> QED
    BY <2>1 DEF Rows
<1> QED
  BY <1>1, <1>2, <1>3, <1>4

-----------------------------------------------------------------------------
(* Type correctness, in three parts.                                       *)

ShareRows == [id : Requests \cup {"old"}, permission : Permissions]
Places    == {"new", "guardShare", "admitted", "created", "loaded", "unshared", "owned",
              "listing", "found"} \cup Over

TablesType == /\ profile \in [Profiles -> Rows(1) \cup {NoProfile}]
              /\ share \in [Profiles \X Users -> ShareRows \cup {NoShare}]
LocalsType ==
  /\ pc \in [Requests -> Places]
  /\ level \in [Requests -> {"none"} \cup Levels]
  /\ loaded \in [Requests -> Rows(0) \cup Rows(1) \cup {NoProfile}]
  /\ \A r \in Requests :
       loaded[r] \in Rows(IF Ask[r].op = "update" THEN 1 ELSE 0) \cup {NoProfile}
  /\ found \in [Requests -> ShareRows \cup {NoShare}]
  /\ todo \in [Requests -> SUBSET Profiles] /\ out \in [Requests -> SUBSET Profiles]
HistoryType == /\ held \in [Reads -> SUBSET (Profiles \X ({"none"} \cup Levels))]
               /\ kept \in [Reads -> SUBSET Profiles]
               /\ ended \in [Withdrawals -> SUBSET Savers]

LEMMA TypeParts == TypeOK <=> TablesType /\ LocalsType /\ HistoryType
  BY DEF TypeOK, TablesType, LocalsType, HistoryType, ShareRows, Places, Levels, Permissions

LEMMA AccessType ==
  TablesType =>
    /\ \A u \in Users, p \in Profiles : /\ Shared(u, p) \in {"none"} \cup Permissions
                                      /\ Access(u, p) \in {"none"} \cup Levels
    /\ \A r \in Requests : AccessNow(r) \subseteq Profiles \X ({"none"} \cup Levels)
<1> SUFFICES ASSUME TablesType
             PROVE  /\ \A u \in Users, p \in Profiles : /\ Shared(u, p) \in {"none"} \cup Permissions
                                                      /\ Access(u, p) \in {"none"} \cup Levels
                    /\ \A r \in Requests : AccessNow(r) \subseteq Profiles \X ({"none"} \cup Levels)
  OBVIOUS
<1>1. \A u \in Users, p \in Profiles : Shared(u, p) \in {"none"} \cup Permissions
  BY DEF TablesType, ShareRows, NoShare, Shared
<1>2. \A u \in Users, p \in Profiles : Access(u, p) \in {"none"} \cup Levels
  BY <1>1 DEF Access, Levels
<1> QED
  BY <1>1, <1>2, AskTypes DEF AccessNow

LEMMA AccessTypeNext ==
  TablesType' => \A r \in Requests : AccessNow(r)' \subseteq Profiles \X ({"none"} \cup Levels)
<1>1. TablesType' =>
        (\A r \in Requests : AccessNow(r) \subseteq Profiles \X ({"none"} \cup Levels))'
  BY AccessType, PTL
<1> QED
  BY <1>1

(* The history variables, whatever the step.                               *)
LEMMA RecordTyped == ASSUME HistoryType, TablesType', Record PROVE HistoryType'
<1>1. Reads \subseteq Requests
  BY DEF Reads
<1>2. held' \in [Reads -> SUBSET (Profiles \X ({"none"} \cup Levels))]
  BY <1>1, AccessTypeNext DEF HistoryType, Record
<1>3. kept' \in [Reads -> SUBSET Profiles]
  BY DEF HistoryType, Record
<1>4. ended' \in [Withdrawals -> SUBSET Savers]
  BY DEF HistoryType, Record
<1> QED
  BY <1>2, <1>3, <1>4 DEF HistoryType

(* A step that changes no local but the place of its request.              *)
LEMMA LocalsKept ==
  ASSUME TypeOK, LoadedRow, NEW r \in Requests, NEW to \in Places \ {"loaded"}, Goto(r, to),
         UNCHANGED locals
  PROVE  LocalsType' /\ LoadedRow'
<1>1. LocalsType
  BY TypeParts
<1>2. pc' \in [Requests -> Places] /\ \A q \in Requests : pc'[q] = IF q = r THEN to ELSE pc[q]
  BY <1>1 DEF LocalsType, Goto
<1>3. LoadedRow'
  BY <1>2 DEF LoadedRow, locals, Is
<1> QED
  BY <1>1, <1>2, <1>3 DEF LocalsType, locals

LEMMA GuardTyped ==
  ASSUME TypeOK, LoadedRow, NEW r \in Requests, GuardStep(r)
  PROVE  TablesType' /\ LocalsType' /\ LoadedRow'
<1>1. TablesType /\ LocalsType
  BY TypeParts
<1>2. UNCHANGED <<tables, loaded, found, todo, out>>
  BY DEF GuardStep, GuardReadsProfile, GuardReadsShare
<1>3. Shared(By(r), Of(r)) \in {"none"} \cup Permissions
  BY <1>1, AccessType, AskTypes
<1>4. PICK to \in Places \ {"loaded"} : Goto(r, to)
  BY DEF GuardStep, GuardReadsProfile, GuardReadsShare, Admit, Places, Over
<1>5. pc' \in [Requests -> Places] /\ \A q \in Requests : pc'[q] = IF q = r THEN to ELSE pc[q]
  BY <1>1, <1>4 DEF LocalsType, Goto
<1>6. level' \in [Requests -> {"none"} \cup Levels]
  BY <1>1, <1>3 DEF LocalsType, GuardStep, GuardReadsProfile, GuardReadsShare, Admit, Levels
<1>7. LoadedRow'
  BY <1>2, <1>5 DEF LoadedRow, Is
<1>8. TablesType'
  BY <1>1, <1>2 DEF TablesType, tables
<1> QED
  BY <1>1, <1>2, <1>5, <1>6, <1>7, <1>8 DEF LocalsType

(* The two steps that load a row.                                          *)
LEMMA LoadTyped ==
  ASSUME TypeOK, LoadedRow, NEW r \in Requests, Get(r) \/ UpdateLoads(r)
  PROVE  TablesType' /\ LocalsType' /\ LoadedRow'
<1>1. TablesType /\ LocalsType /\ Of(r) \in Profiles
  BY TypeParts, AskTypes
<1>2. UNCHANGED <<tables, level, found, todo>>
  BY DEF Get, UpdateLoads
<1> DEFINE mine == Rows(IF Ask[r].op = "update" THEN 1 ELSE 0) \cup {NoProfile}
<1>3. /\ \E to \in Places : Goto(r, to)
      /\ out' = out \/ out' = [out EXCEPT ![r] = {Of(r)}]
  BY DEF Get, UpdateLoads, Places, Over
<1>4. PICK x : /\ x \in mine /\ loaded' = [loaded EXCEPT ![r] = x]
               /\ pc'[r] = "loaded" /\ Ask[r].op = "update" => x \in Rows(1)
  <2>1. loaded[r] \in mine /\ loaded = [loaded EXCEPT ![r] = loaded[r]]
    BY <1>1 DEF LocalsType
  <2>2. pc \in [Requests -> Places]
    BY <1>1 DEF LocalsType
  <2>3. CASE Get(r)
    <3>1. Exists(Of(r)) => [profile[Of(r)] EXCEPT !.config = decSecrets(@)] \in mine
      BY <1>1, <2>3, RowTypes DEF TablesType, Exists, Get, Is
    <3>2. Ask[r].op # "update"
      BY <2>3 DEF Get, Is
    <3> QED
      BY <2>1, <2>3, <3>1, <3>2 DEF Get, Is
  <2>4. CASE UpdateLoads(r)
    <3>1. Exists(Of(r)) => profile[Of(r)] \in mine /\ profile[Of(r)] \in Rows(1)
      BY <1>1, <2>4 DEF TablesType, Exists, UpdateLoads, Is
    <3>2. ~Exists(Of(r)) => pc'[r] # "loaded"
      BY <2>2, <2>4 DEF UpdateLoads, Goto
    <3> QED
      BY <2>1, <2>4, <3>1, <3>2 DEF UpdateLoads
  <2> QED
    BY <2>3, <2>4
<1> HIDE DEF mine
<1>5. pc' \in [Requests -> Places] /\ \A q \in Requests \ {r} : pc'[q] = pc[q]
  BY <1>1, <1>3 DEF LocalsType, Goto
<1>6. /\ DOMAIN loaded' = Requests /\ loaded' = [q \in Requests |-> loaded'[q]]
      /\ loaded'[r] = x /\ \A q \in Requests \ {r} : loaded'[q] = loaded[q]
  BY <1>1, <1>4 DEF LocalsType
<1>7. \A q \in Requests :
        loaded'[q] \in Rows(IF Ask[q].op = "update" THEN 1 ELSE 0) \cup {NoProfile}
  BY <1>1, <1>4, <1>6 DEF LocalsType, mine
<1>8. loaded' \in [Requests -> Rows(0) \cup Rows(1) \cup {NoProfile}]
  <2>1. \A q \in Requests : loaded'[q] \in Rows(0) \cup Rows(1) \cup {NoProfile}
    BY <1>7
  <2> QED
    BY <1>6, <2>1
<1>9. out' \in [Requests -> SUBSET Profiles]
  BY <1>1, <1>3 DEF LocalsType
<1>10. LoadedRow'
  BY <1>4, <1>5, <1>6 DEF LoadedRow, Is
<1>11. TablesType'
  BY <1>1, <1>2 DEF TablesType, tables
<1>12. level' = level /\ found' = found /\ todo' = todo
  BY <1>2
<1> QED
  BY <1>1, <1>5, <1>7, <1>8, <1>9, <1>10, <1>11, <1>12 DEF LocalsType

LEMMA ProfileTyped ==
  ASSUME TypeOK, LoadedRow, NEW r \in Requests, ProfileStep(r)
  PROVE  TablesType' /\ LocalsType' /\ LoadedRow'
<1>1. TablesType /\ LocalsType /\ Of(r) \in Profiles /\ Ask[r].dto \in Dtos
  BY TypeParts, AskTypes
<1>2. CASE Get(r) \/ UpdateLoads(r)
  BY <1>2, LoadTyped
<1>3. CASE Create(r)
  <2>1. [owner |-> By(r), config |-> encSecrets([f \in Fields |-> Plain(Ask[r].dto[f])])]
          \in Rows(1)
    BY <1>3, RowTypes DEF Create, Is
  <2>2. TablesType'
    BY <1>1, <1>3, <2>1 DEF TablesType, Create
  <2> QED
    BY <1>3, <2>2, LocalsKept DEF Create, Places
<1>4. CASE UpdateSaves(r)
  <2>1. [loaded[r] EXCEPT !.config = Merged(@, Ask[r].dto)] \in Rows(1)
    BY <1>1, <1>4, RowTypes DEF LoadedRow, UpdateSaves
  <2>2. TablesType'
    BY <1>1, <1>4, <2>1 DEF TablesType, UpdateSaves
  <2> QED
    BY <1>4, <2>2, LocalsKept DEF UpdateSaves, Places, Over
<1>5. CASE RemoveUnshares(r)
  <2>1. TablesType'
    BY <1>1, <1>5 DEF TablesType, RemoveUnshares
  <2> QED
    BY <1>5, <2>1, LocalsKept DEF RemoveUnshares, Places
<1>6. CASE RemoveDeletes(r)
  <2>1. TablesType'
    BY <1>1, <1>6 DEF TablesType, RemoveDeletes
  <2> QED
    BY <1>6, <2>1, LocalsKept DEF RemoveDeletes, Places, Over
<1> QED
  BY <1>2, <1>3, <1>4, <1>5, <1>6 DEF ProfileStep

LEMMA ListTyped ==
  ASSUME TypeOK, LoadedRow, NEW r \in Requests, ListStep(r)
  PROVE  TablesType' /\ LocalsType' /\ LoadedRow'
<1>1. TablesType /\ LocalsType
  BY TypeParts
<1>2. UNCHANGED <<tables, level, loaded, found>>
  BY DEF ListStep, ListReadsOwned, ListReadsShared, ListLoads, ListEnds, locals
<1>3. TablesType'
  BY <1>1, <1>2 DEF TablesType, tables
<1>4. pc' = pc \/ \E to \in Places \ {"loaded"} : Goto(r, to)
  BY DEF ListStep, ListReadsOwned, ListReadsShared, ListLoads, ListEnds, Places, Over
<1>5. /\ pc' \in [Requests -> Places]
      /\ \A q \in Requests : pc'[q] = "loaded" => pc[q] = "loaded"
  BY <1>1, <1>4 DEF LocalsType, Goto
<1>6. LoadedRow'
  BY <1>2, <1>5 DEF LoadedRow, Is
<1>7. todo' \in [Requests -> SUBSET Profiles] /\ out' \in [Requests -> SUBSET Profiles]
  BY <1>1 DEF LocalsType, ListStep, ListReadsOwned, ListReadsShared, ListLoads, ListEnds, locals
<1> QED
  BY <1>1, <1>2, <1>3, <1>5, <1>6, <1>7 DEF LocalsType

LEMMA ShareTyped ==
  ASSUME TypeOK, LoadedRow, NEW r \in Requests, ShareStep(r)
  PROVE  TablesType' /\ LocalsType' /\ LoadedRow'
<1>1. TablesType /\ LocalsType /\ Key(r) \in Profiles \X Users /\ Ask[r].permission \in Permissions
  BY TypeParts, AskTypes
<1>2. CASE GrantFinds(r)
  <2>1. TablesType'
    BY <1>1, <1>2 DEF TablesType, GrantFinds, tables
  <2>2. found' \in [Requests -> ShareRows \cup {NoShare}]
    BY <1>1, <1>2 DEF TablesType, LocalsType, GrantFinds
  <2>3. pc' \in [Requests -> Places] /\ \A q \in Requests : pc'[q] = "loaded" => pc[q] = "loaded"
    BY <1>1, <1>2 DEF LocalsType, GrantFinds, Goto, Places
  <2>4. UNCHANGED <<level, loaded, todo, out>>
    BY <1>2 DEF GrantFinds
  <2>5. LoadedRow'
    BY <2>3, <2>4 DEF LoadedRow, Is
  <2> QED
    BY <1>1, <2>1, <2>2, <2>3, <2>4, <2>5 DEF LocalsType
<1>3. CASE GrantSaves(r)
  <2>1. found[r] # NoShare => found[r].id \in Requests \cup {"old"}
    BY <1>1 DEF LocalsType, ShareRows
  <2>2. GrantRow(r) \in ShareRows
    BY <1>1, <2>1 DEF GrantRow, ShareRows
  <2>3. TablesType'
    BY <1>1, <1>3, <2>2 DEF TablesType, GrantSaves
  <2> QED
    BY <1>3, <2>3, LocalsKept DEF GrantSaves, Places, Over
<1>4. CASE Revoke(r)
  <2>1. TablesType'
    BY <1>1, <1>4 DEF TablesType, Revoke
  <2> QED
    BY <1>4, <2>1, LocalsKept DEF Revoke, Places, Over
<1> QED
  BY <1>2, <1>3, <1>4 DEF ShareStep

LEMMA StepTyped ==
  ASSUME TypeOK, LoadedRow, NEW r \in Requests,
         GuardStep(r) \/ ProfileStep(r) \/ ListStep(r) \/ ShareStep(r), Record
  PROVE  TypeOK' /\ LoadedRow'
<1>1. TablesType' /\ LocalsType' /\ LoadedRow'
  BY GuardTyped, ProfileTyped, ListTyped, ShareTyped
<1>2. HistoryType
  BY TypeParts
<1>3. HistoryType'
  BY <1>1, <1>2, RecordTyped
<1>4. TablesType' /\ LocalsType' /\ HistoryType' => TypeOK'
  BY TypeParts, PTL
<1> QED
  BY <1>1, <1>3, <1>4

-----------------------------------------------------------------------------
Step(r) == GuardStep(r) \/ ProfileStep(r) \/ ListStep(r) \/ ShareStep(r)

(* A step of one request leaves the others where they are, and a request   *)
(* that is over takes none.                                                *)
LEMMA OthersStay ==
  ASSUME TypeOK, NEW r \in Requests, Step(r)
  PROVE  /\ pc[r] \notin Over
         /\ \A q \in Requests \ {r} : /\ pc'[q] = pc[q] /\ todo'[q] = todo[q]
                                      /\ out'[q] = out[q]
<1>1. LocalsType
  BY TypeParts
<1>2. CASE GuardStep(r)
  BY <1>1, <1>2 DEF LocalsType, GuardStep, GuardReadsProfile, GuardReadsShare, Goto, Admit, Over
<1>3. CASE ProfileStep(r)
  BY <1>1, <1>3 DEF LocalsType, ProfileStep, Get, Create, UpdateLoads, UpdateSaves,
     RemoveUnshares, RemoveDeletes, locals, Goto, Over, Is
<1>4. CASE ListStep(r)
  BY <1>1, <1>4 DEF LocalsType, ListStep, ListReadsOwned, ListReadsShared, ListLoads, ListEnds,
     locals, Goto, Over, Is
<1>5. CASE ShareStep(r)
  BY <1>1, <1>5 DEF LocalsType, ShareStep, GrantFinds, GrantSaves, Revoke, locals, Goto, Over, Is
<1> QED
  BY <1>2, <1>3, <1>4, <1>5 DEF Step

-----------------------------------------------------------------------------
(* Isolation.                                                              *)

LEMMA HeldGrows ==
  ASSUME TypeOK, TypeOK', Record, NEW q \in Reads
  PROVE  /\ \A p \in Profiles : Entitled(q, p) => Entitled(q, p)'
         /\ \A p \in Profiles : /\ pc'[q] # "new" /\ pc[q] \notin Over
                              /\ Access(By(q), p)' \in Levels => Entitled(q, p)'
<1>1. HistoryType
  BY TypeParts
<1>2. held[q] \subseteq held'[q]
  BY <1>1 DEF HistoryType, Record
<1>3. pc'[q] # "new" /\ pc[q] \notin Over => AccessNow(q)' \subseteq held'[q]
  BY <1>1 DEF HistoryType, Record
<1>4. \A p \in Profiles : <<p, Access(By(q), p)'>> \in AccessNow(q)'
  BY DEF AccessNow
<1> QED
  BY <1>2, <1>3, <1>4 DEF Entitled

(* What the guard, a list of owned ids and a list of shared ids go by is   *)
(* access.                                                                 *)
LEMMA RowsEntitle ==
  ASSUME TypeOK, UNCHANGED tables, NEW u \in Users, NEW p \in Profiles,
         IsOwner(u, p) \/ Shared(u, p) # "none"
  PROVE  Access(u, p)' \in Levels
<1>1. TablesType
  BY TypeParts
<1>2. Shared(u, p) \in {"none"} \cup Permissions
  BY <1>1, AccessType
<1> QED
  BY <1>2 DEF Access, IsOwner, Shared, Exists, tables, Levels

LEMMA JustifiedStep ==
  ASSUME TypeOK, TypeOK', Justified, NEW r \in Requests, Step(r), Record
  PROVE  Justified'
<1> DEFINE Good(q) == /\ \A p \in todo[q] \cup out[q] : Entitled(q, p)
                      /\ Is(q, "get", "admitted") => Entitled(q, Of(q))
<1>1. LocalsType /\ LocalsType' /\ \A q \in Reads : q \in Requests /\ Of(q) \in Profiles
  <2>1. LocalsType /\ \A q \in Reads : q \in Requests /\ Of(q) \in Profiles
    BY TypeParts, AskTypes DEF Reads
  <2>2. TypeOK' => LocalsType'
    BY TypeParts, PTL
  <2> QED
    BY <2>1, <2>2
<1>2. \A q \in Reads : todo[q] \cup out[q] \subseteq Profiles /\ todo'[q] \cup out'[q] \subseteq Profiles
  BY <1>1 DEF LocalsType
<1>3. \A q \in Reads \ {r} : Good(q)'
  BY <1>1, <1>2, OthersStay, HeldGrows DEF Justified, Is, Of
<1>4. ASSUME r \in Reads PROVE Good(r)'
  <2>1. pc[r] \notin Over
    BY OthersStay
  <2>2. \A p \in todo[r] \cup out[r] : Entitled(r, p)'
    BY <1>2, <1>4, HeldGrows DEF Justified
  <2>3. \A p \in Profiles : UNCHANGED tables /\ pc'[r] # "new"
                            /\ (IsOwner(By(r), p) \/ Shared(By(r), p) # "none")
                            => Entitled(r, p)'
    BY <1>4, <2>1, HeldGrows, RowsEntitle, AskTypes
  <2>4. CASE GuardReadsProfile(r)
    BY <1>1, <1>4, <2>2, <2>3, <2>4 DEF GuardReadsProfile, LocalsType, Goto, Admit, Is, Of
  <2>5. CASE GuardReadsShare(r)
    BY <1>1, <1>4, <2>2, <2>3, <2>5 DEF GuardReadsShare, LocalsType, Goto, Admit, Is, Of
  <2>6. CASE Get(r)
    <3>1. Ask[r].op = "get" /\ pc[r] = "admitted"
      BY <1>4, <2>6 DEF Reads, Get, Is
    <3>2. Entitled(r, Of(r))'
      BY <1>1, <1>4, <3>1, HeldGrows DEF Justified, Is
    <3> QED
      BY <1>1, <2>2, <2>6, <3>2 DEF Get, LocalsType, Goto, Is
  <2>7. CASE ListReadsOwned(r)
    BY <1>1, <2>2, <2>3, <2>7 DEF ListReadsOwned, LocalsType, Goto, Is
  <2>8. CASE ListReadsShared(r)
    BY <1>1, <2>2, <2>3, <2>8 DEF ListReadsShared, LocalsType, Goto, Is
  <2>9. ASSUME NEW p \in Profiles, ListLoads(r, p) PROVE Good(r)'
    BY <1>1, <2>2, <2>9 DEF ListLoads, LocalsType, Is
  <2>10. CASE ListEnds(r)
    BY <1>1, <2>2, <2>10 DEF ListEnds, locals, Is
  <2>11. Ask[r].op \in {"get", "list"}
    BY <1>4 DEF Reads
  <2>12. ~Create(r) /\ ~UpdateLoads(r) /\ ~UpdateSaves(r) /\ ~RemoveUnshares(r) /\ ~RemoveDeletes(r)
    BY <2>11 DEF Create, UpdateLoads, UpdateSaves, RemoveUnshares, RemoveDeletes, Is
  <2>13. ~ShareStep(r)
    BY <2>11 DEF ShareStep, GrantFinds, GrantSaves, Revoke, Is
  <2> QED
    BY <2>4, <2>5, <2>6, <2>7, <2>8, <2>9, <2>10, <2>12, <2>13
       DEF Step, GuardStep, ProfileStep, ListStep
<1> HIDE DEF Good
<1>5. \A q \in Reads : Good(q)'
  BY <1>3, <1>4
<1> QED
  BY <1>5 DEF Good, Justified

-----------------------------------------------------------------------------
(* Withdrawal.                                                             *)

LEMMA EndedStep ==
  ASSUME TypeOK, EndedOver, NEW r \in Requests, Step(r), Record
  PROVE  EndedOver'
<1>1. LocalsType /\ HistoryType
  BY TypeParts
<1>2. Savers \subseteq Requests /\ Withdrawals \subseteq Requests
  BY DEF Savers, Withdrawals
<1>3. \A q \in Requests : pc[q] \in Over => pc'[q] = pc[q]
  BY OthersStay
<1>4. ASSUME NEW q \in Withdrawals, NEW s \in ended'[q] PROVE pc'[s] \in Over
  <2>1. s \in Savers /\ pc[s] \in Over
    BY <1>1, <1>4 DEF HistoryType, Record, EndedOver
  <2> QED
    BY <2>1, <1>2, <1>3
<1> QED
  BY <1>4 DEF EndedOver

(* The requests that may undo a withdrawal: those that did stay, and one   *)
(* that is done by this step is one of them.                               *)
LEMMA RacedGrows ==
  ASSUME TypeOK, EndedOver, NEW r \in Requests, Step(r), Record,
         NEW q \in Withdrawals, pc[q] # "new"
  PROVE  /\ \A op \in Ops : Raced(q, op) \subseteq Raced(q, op)'
         /\ r \in Savers /\ pc'[r] = "done" /\ Of(r) = Of(q) => r \in Raced(q, Ask[r].op)'
<1>1. ended'[q] = ended[q]
  BY DEF Record
<1>2. pc[r] \notin Over /\ \A s \in Requests : pc[s] \in Over => pc'[s] = pc[s]
  BY OthersStay
<1>3. r \notin ended[q]
  BY <1>2 DEF EndedOver
<1>4. Savers \subseteq Requests
  BY DEF Savers
<1> QED
  BY <1>1, <1>2, <1>3, <1>4 DEF Raced, Of, Over

(* A withdrawal that is past its step is kept by a step that brings        *)
(* nothing back.                                                           *)
LEMMA WithdrawalKept ==
  ASSUME TypeOK, EndedOver, Withdrawn, NEW r \in Requests, Step(r), Record,
         NEW q \in Withdrawals, pc[q] \in {"done", "unshared"}
  PROVE  /\ Is(q, "revoke", "done")
              /\ (share'[Key(q)] # NoShare => share[Key(q)] # NoShare) => Revoked(q)'
         /\ Is(q, "remove", "done") /\ (Exists(Of(q))' => Exists(Of(q))) => Deleted(q)'
         /\ Ask[q].op = "remove"
              /\ (\A u \in Users : Shared(u, Of(q))' # "none" => Shared(u, Of(q)) # "none")
              => Unshared(q)'
<1>1. \A op \in Ops : Raced(q, op) \subseteq Raced(q, op)'
  BY RacedGrows
<1>2. {"grant", "update"} \subseteq Ops
  BY DEF Ops
<1> QED
  BY <1>1, <1>2 DEF Withdrawn, Is, Revoked, Deleted, Unshared, Key, Of

LEMMA WithdrawnStep ==
  ASSUME TypeOK, TypeOK', EndedOver, Withdrawn, NEW r \in Requests, Step(r), Record
  PROVE  Withdrawn'
<1> DEFINE Fine(q) == /\ Is(q, "revoke", "done") => Revoked(q)
                      /\ Is(q, "remove", "done") => Deleted(q)
                      /\ Is(q, "remove", "done") \/ Is(q, "remove", "unshared") => Unshared(q)
<1> SUFFICES \A q \in Withdrawals : Fine(q)'
  BY DEF Withdrawn
<1>1. TablesType /\ LocalsType /\ Withdrawals \subseteq Requests
  BY TypeParts DEF Withdrawals
<1>2. pc[r] \notin Over /\ \A q \in Requests \ {r} : pc'[q] = pc[q]
  BY OthersStay
<1>3. \A q \in Withdrawals : Ask[q].op \in {"revoke", "remove"}
  BY DEF Withdrawals
<1>4. ASSUME UNCHANGED tables,
             \/ pc'[r] \notin {"done", "unshared"}
             \/ Ask[r].op \notin {"revoke", "remove"}
      PROVE  \A q \in Withdrawals : Fine(q)'
  <2>1. TAKE q \in Withdrawals
  <2>2. CASE q = r
    BY <1>4, <1>3, <2>2 DEF Is
  <2>3. CASE q # r
    BY <1>1, <1>2, <1>4, <2>3, WithdrawalKept DEF Is, tables, Exists, Shared
  <2> QED
    BY <2>2, <2>3
<1>5. CASE GuardStep(r)
  BY <1>1, <1>4, <1>5 DEF GuardStep, GuardReadsProfile, GuardReadsShare, Goto, Admit, LocalsType
<1>6. CASE Get(r) \/ UpdateLoads(r) \/ ListStep(r) \/ GrantFinds(r)
  BY <1>4, <1>6 DEF Get, UpdateLoads, ListStep, ListReadsOwned, ListReadsShared, ListLoads,
     ListEnds, GrantFinds, Is
<1>7. CASE Create(r)
  <2>1. TAKE q \in Withdrawals
  <2>2. q # r /\ pc'[q] = pc[q]
    BY <1>1, <1>2, <1>3, <1>7 DEF Create, Is
  <2>3. pc[q] # "new" => Of(q) # Of(r)
    BY <1>1, <1>3, <1>7, <2>2 DEF Create
  <2>4. pc[q] # "new" => (Exists(Of(q))' => Exists(Of(q)))
    BY <1>1, <1>7, <2>3, AskTypes DEF Create, Exists, TablesType
  <2> QED
    BY <1>7, <2>2, <2>4, WithdrawalKept DEF Create, Is, Shared
<1>8. CASE UpdateSaves(r)
  <2>1. TAKE q \in Withdrawals
  <2>2. q # r /\ pc'[q] = pc[q] /\ r \in Savers /\ pc'[r] = "done"
    BY <1>1, <1>2, <1>3, <1>8 DEF UpdateSaves, Is, Goto, LocalsType, Savers
  <2>3. Of(q) # Of(r) => (Exists(Of(q))' => Exists(Of(q)))
    BY <1>1, <1>8, AskTypes DEF UpdateSaves, Exists, TablesType
  <2>4. Is(q, "remove", "done") /\ Of(q) = Of(r) => Deleted(q)'
    BY <1>8, <2>2, RacedGrows DEF UpdateSaves, Is, Deleted
  <2> QED
    BY <1>8, <2>2, <2>3, <2>4, WithdrawalKept DEF UpdateSaves, Is, Shared
<1>9. CASE RemoveUnshares(r)
  <2>1. TAKE q \in Withdrawals
  <2>2. \A k \in Profiles \X Users : share'[k] = IF k[1] = Of(r) THEN NoShare ELSE share[k]
    BY <1>1, <1>9 DEF RemoveUnshares, TablesType
  <2>3. \A u \in Users : share'[<<Of(q), u>>] \in {NoShare, share[<<Of(q), u>>]}
    BY <1>1, <2>2, AskTypes
  <2>4. NoShare.permission = "none"
    BY DEF NoShare
  <2>5. CASE q = r
    <3>1. \A u \in Users : share'[<<Of(r), u>>] = NoShare
      BY <1>1, <2>2, AskTypes
    <3> QED
      BY <1>1, <1>9, <2>4, <2>5, <3>1 DEF RemoveUnshares, Is, Goto, LocalsType, Unshared, Shared, Of
  <2>6. CASE q # r
    <3>1. share'[Key(q)] # NoShare => share[Key(q)] # NoShare
      BY <1>1, <2>2, AskTypes
    <3>2. \A u \in Users : Shared(u, Of(q))' # "none" => Shared(u, Of(q)) # "none"
      BY <2>3, <2>4 DEF Shared, Of
    <3> QED
      BY <1>1, <1>2, <1>9, <2>6, <3>1, <3>2, WithdrawalKept DEF RemoveUnshares, Is, Exists
  <2> QED
    BY <2>5, <2>6
<1>10. CASE RemoveDeletes(r)
  <2>1. TAKE q \in Withdrawals
  <2>2. /\ \A p \in Profiles : Exists(p)' => Exists(p)
        /\ ~Exists(Of(r))'
    BY <1>1, <1>10, AskTypes DEF RemoveDeletes, Exists, TablesType, Of
  <2>3. CASE q = r
    BY <1>1, <1>10, <2>2, <2>3, WithdrawalKept DEF RemoveDeletes, Is, Deleted, Shared, Of
  <2>4. CASE q # r
    BY <1>1, <1>2, <1>10, <2>2, <2>4, WithdrawalKept, AskTypes DEF RemoveDeletes, Is, Shared, Of
  <2> QED
    BY <2>3, <2>4
<1>11. CASE GrantSaves(r)
  <2>1. TAKE q \in Withdrawals
  <2>2. q # r /\ pc'[q] = pc[q] /\ r \in Savers /\ Ask[r].op = "grant"
    BY <1>1, <1>2, <1>3, <1>11 DEF GrantSaves, Is, Savers
  <2>3. CASE UNCHANGED share
    BY <1>11, <2>2, <2>3, WithdrawalKept DEF GrantSaves, Is, Shared, Exists
  <2>4. CASE pc'[r] = "done" /\ share' = [share EXCEPT ![Key(r)] = GrantRow(r)]
    <3>1. pc[q] # "new" /\ Of(r) = Of(q) => r \in Raced(q, "grant")'
      BY <2>2, <2>4, RacedGrows
    <3>2. \A k \in Profiles \X Users : k # Key(r) => share'[k] = share[k]
      BY <1>1, <2>4 DEF TablesType
    <3>3. Key(q) # Key(r) => share'[Key(q)] = share[Key(q)]
      BY <1>1, <3>2, AskTypes
    <3>4. Key(q) = Key(r) => Of(r) = Of(q)
      BY DEF Key
    <3>5. Is(q, "revoke", "done") => Revoked(q)'
      BY <2>2, <3>1, <3>3, <3>4, WithdrawalKept DEF Is, Revoked, Key, Of
    <3>6. Of(q) # Of(r) => \A u \in Users : share'[<<Of(q), u>>] = share[<<Of(q), u>>]
      BY <1>1, <3>2, AskTypes DEF Key
    <3>7. Is(q, "remove", "done") \/ Is(q, "remove", "unshared") => Unshared(q)'
      BY <2>2, <3>1, <3>6, WithdrawalKept DEF Is, Unshared, Shared, Of
    <3> QED
      BY <1>11, <2>2, <3>5, <3>7, WithdrawalKept DEF GrantSaves, Is, Exists
  <2> QED
    BY <1>1, <1>11, <2>3, <2>4 DEF GrantSaves, Goto, LocalsType
<1>12. CASE Revoke(r)
  <2>1. TAKE q \in Withdrawals
  <2>2. \A k \in Profiles \X Users : share'[k] = IF k = Key(r) THEN NoShare ELSE share[k]
    BY <1>1, <1>12 DEF Revoke, TablesType
  <2>3. NoShare.permission = "none"
    BY DEF NoShare
  <2>4. CASE q = r
    <3>1. share'[Key(r)] = NoShare
      BY <2>2, AskTypes
    <3> QED
      BY <1>12, <2>4, <3>1 DEF Revoke, Is, Revoked, Key, Of
  <2>5. CASE q # r
    <3>1. share'[Key(q)] # NoShare => share[Key(q)] # NoShare
      BY <1>1, <2>2, AskTypes
    <3>2. \A u \in Users : share'[<<Of(q), u>>] \in {NoShare, share[<<Of(q), u>>]}
      BY <1>1, <2>2, AskTypes
    <3>3. \A u \in Users : Shared(u, Of(q))' # "none" => Shared(u, Of(q)) # "none"
      BY <2>3, <3>2 DEF Shared, Of
    <3> QED
      BY <1>1, <1>2, <1>12, <2>5, <3>1, <3>3, WithdrawalKept DEF Revoke, Is, Exists
  <2> QED
    BY <2>4, <2>5
<1> QED
  BY <1>5, <1>6, <1>7, <1>8, <1>9, <1>10, <1>11, <1>12 DEF Step, ProfileStep, ShareStep

-----------------------------------------------------------------------------
LEMMA InitInvariant == Init => IInv
<1> SUFFICES ASSUME Init PROVE IInv
  OBVIOUS
<1>1. TablesType
  <2>1. profile \in [Profiles -> Rows(1) \cup {NoProfile}]
    BY RowTypes, InitialAssumption DEF Init
  <2>2. share \in [Profiles \X Users -> ShareRows \cup {NoShare}]
    BY DEF Init, ShareRows
  <2> QED
    BY <2>1, <2>2 DEF TablesType
<1>2. LocalsType
  BY DEF Init, LocalsType, Places
<1>3. HistoryType
  BY DEF Init, HistoryType
<1>4. LoadedRow /\ Justified /\ EndedOver
  BY DEF Init, LoadedRow, Justified, EndedOver, Is, Reads
<1>5. Withdrawn
  BY DEF Init, Withdrawn, Is, Withdrawals
<1> QED
  BY <1>1, <1>2, <1>3, <1>4, <1>5, TypeParts DEF IInv

LEMMA StepKeeps == IInv /\ [Next]_vars => IInv'
<1> SUFFICES ASSUME IInv, [Next]_vars PROVE IInv'
  OBVIOUS
<1>1. ASSUME NEW r \in Requests, Step(r), Record PROVE IInv'
  <2>1. TypeOK' /\ LoadedRow'
    BY <1>1, StepTyped DEF Step, IInv
  <2>2. Justified'
    BY <1>1, <2>1, JustifiedStep DEF IInv
  <2>3. EndedOver' /\ Withdrawn'
    BY <1>1, <2>1, EndedStep, WithdrawnStep DEF IInv
  <2> QED
    BY <2>1, <2>2, <2>3 DEF IInv
<1>2. CASE UNCHANGED vars
  <2>1. TypeOK'
    BY <1>2 DEF IInv, TypeOK, vars, tables, locals, history
  <2>2. LoadedRow' /\ Justified' /\ EndedOver'
    BY <1>2 DEF IInv, LoadedRow, Justified, Entitled, EndedOver, Is, vars, tables, locals, history
  <2>3. Withdrawn'
    BY <1>2 DEF IInv, Withdrawn, Revoked, Deleted, Unshared, Raced, Exists, Shared, Is, Of, Key,
       vars, tables, locals, history
  <2> QED
    BY <2>1, <2>2, <2>3 DEF IInv
<1> QED
  BY <1>1, <1>2 DEF Next, Step

(* The invariant holds of every behaviour of the specification.            *)
THEOREM Invariance == Spec => []IInv
<1> QED
  BY InitInvariant, StepKeeps, PTL DEF Spec

(* Every variable keeps its type, and every stored secret is encrypted     *)
(* exactly once, whatever updates overlap (encSecrets, decSecrets and the  *)
(* merge in update).                                                       *)
THEOREM TypeCorrect == Spec => []TypeOK
<1>1. IInv => TypeOK
  BY DEF IInv
<1> QED
  BY <1>1, Invariance, PTL

(* Nobody is answered with a profile that was at no moment of the request  *)
(* his or shared with him (CameraAccessGuard before the handlers, and      *)
(* accessibleProfileIds before the loads of a list).                       *)
THEOREM ProfilesAreIsolated == Spec => []Isolation
<1>1. IInv => Isolation
  BY DEF IInv, Justified, Isolation, Entitled, Levels
<1> QED
  BY <1>1, Invariance, PTL

(* What revoke and remove take away comes back only by a grant or an       *)
(* update that overlapped them or came later.                              *)
THEOREM WithdrawalsLast == Spec => []WithdrawnUnlessRaced
<1>1. IInv => WithdrawnUnlessRaced
  BY DEF IInv, Withdrawn, WithdrawnUnlessRaced, Revoked, Deleted, Unshared
<1> QED
  BY <1>1, Invariance, PTL
-----------------------------------------------------------------------------
(* Lists are complete. A list reads owners first and shares later: it      *)
(* would miss a profile that came to be its user's own in between. None    *)
(* does, because no profile changes its owner: what overlapping updates    *)
(* have loaded of one profile agrees (Owners), and a profile is created    *)
(* before any request knows of it (Unborn).                                *)

Unborn ==
  \A r \in Requests :
    /\ Is(r, "create", "new")
    /\ \A q \in Requests : Of(q) = Of(r) /\ Ask[q].op # "list" => pc[q] = "new"
    => ~Exists(Of(r))

Owners ==
  \A q \in Requests : Is(q, "update", "loaded") =>
    /\ Exists(Of(q)) => profile[Of(q)].owner = loaded[q].owner
    /\ \A s \in Requests : Is(s, "update", "loaded") /\ Of(s) = Of(q) =>
         loaded[s].owner = loaded[q].owner

(* At the end of a list, and on the way there.                             *)
Covers(r) ==
  /\ pc[r] \in {"owned", "listing"} => kept[r] \subseteq VisibleNow(r)
  /\ pc[r] = "owned" => \A p \in kept[r] : p \in todo[r] \/ ~IsOwner(By(r), p)
  /\ pc[r] = "listing" => kept[r] \subseteq todo[r] \cup out[r]
  /\ pc[r] = "done" => kept[r] \subseteq out[r]
Covered == \A r \in Reads : Ask[r].op = "list" => Covers(r)

LInv == IInv /\ Unborn /\ Owners /\ Covered

LEMMA ProfileMoves ==
  ASSUME NEW r \in Requests, Step(r)
  PROVE  profile' = profile \/ Create(r) \/ UpdateSaves(r) \/ RemoveDeletes(r)
  BY DEF Step, GuardStep, GuardReadsProfile, GuardReadsShare, ProfileStep, Get, UpdateLoads,
     RemoveUnshares, ListStep, ListReadsOwned, ListReadsShared, ListLoads, ListEnds,
     ShareStep, GrantFinds, GrantSaves, Revoke, tables

(* No step begins a request again.                                         *)
LEMMA NewWasNew ==
  ASSUME TypeOK, NEW r \in Requests, Step(r), NEW q \in Requests, pc'[q] = "new"
  PROVE  pc[q] = "new"
<1>1. LocalsType
  BY TypeParts
<1>2. CASE q # r
  BY <1>2, OthersStay
<1>3. CASE q = r
  <2>1. pc' = pc \/ \E to \in Places \ {"new"} : Goto(r, to)
    BY DEF Step, GuardStep, GuardReadsProfile, GuardReadsShare, Admit, ProfileStep, Get, Create,
       UpdateLoads, UpdateSaves, RemoveUnshares, RemoveDeletes, ListStep, ListReadsOwned,
       ListReadsShared, ListLoads, ListEnds, ShareStep, GrantFinds, GrantSaves, Revoke, Places, Over
  <2> QED
    BY <1>1, <1>3, <2>1 DEF LocalsType, Goto
<1> QED
  BY <1>2, <1>3

(* What a step does to the rows.                                           *)
LEMMA RowSteps ==
  ASSUME TypeOK, LoadedRow, NEW r \in Requests, Step(r)
  PROVE  /\ \A p \in Profiles \ {Of(r)} : profile'[p] = profile[p]
         /\ UpdateSaves(r) => profile'[Of(r)].owner = loaded[r].owner
         /\ RemoveDeletes(r) => ~Exists(Of(r))'
         /\ Create(r) \/ UpdateSaves(r) \/ RemoveDeletes(r) =>
              Ask[r].op # "list" /\ pc'[r] # "new" /\ loaded' = loaded
<1>1. LocalsType /\ TablesType /\ Of(r) \in Profiles
  BY TypeParts, AskTypes
<1>2. CASE profile' = profile /\ ~Create(r) /\ ~UpdateSaves(r) /\ ~RemoveDeletes(r)
  BY <1>2
<1>3. CASE Create(r)
  <2>1. Ask[r].op = "create" /\ loaded' = loaded /\ Goto(r, "created")
    BY <1>3 DEF Create, Is, locals
  <2>2. pc'[r] # "new" /\ ~UpdateSaves(r) /\ ~RemoveDeletes(r)
    BY <1>1, <2>1 DEF Goto, LocalsType, UpdateSaves, RemoveDeletes, Is
  <2>3. \A p \in Profiles \ {Of(r)} : profile'[p] = profile[p]
    BY <1>1, <1>3 DEF Create, TablesType
  <2> QED
    BY <2>1, <2>2, <2>3
<1>4. CASE UpdateSaves(r)
  <2>1. /\ Ask[r].op = "update" /\ loaded' = loaded /\ Goto(r, "done")
        /\ Is(r, "update", "loaded")
        /\ profile' = [profile EXCEPT ![Of(r)] = [loaded[r] EXCEPT !.config = Merged(@, Ask[r].dto)]]
    BY <1>4 DEF UpdateSaves, Is, locals
  <2>2. pc'[r] # "new" /\ ~Create(r) /\ ~RemoveDeletes(r)
    BY <1>1, <2>1 DEF Goto, LocalsType, Create, RemoveDeletes, Is
  <2>3. loaded[r] \in Rows(1)
    BY <2>1 DEF LoadedRow
  <2>4. [loaded[r] EXCEPT !.config = Merged(@, Ask[r].dto)].owner = loaded[r].owner
    BY <2>3 DEF Rows
  <2>5. /\ \A p \in Profiles \ {Of(r)} : profile'[p] = profile[p]
        /\ profile'[Of(r)] = [loaded[r] EXCEPT !.config = Merged(@, Ask[r].dto)]
    BY <1>1, <2>1 DEF TablesType
  <2> QED
    BY <2>1, <2>2, <2>4, <2>5
<1>5. CASE RemoveDeletes(r)
  <2>1. Ask[r].op = "remove" /\ loaded' = loaded /\ Goto(r, "done")
        /\ profile' = [profile EXCEPT ![Of(r)] = NoProfile]
    BY <1>5 DEF RemoveDeletes, Is, locals
  <2>2. pc'[r] # "new" /\ ~Create(r) /\ ~UpdateSaves(r)
    BY <1>1, <2>1 DEF Goto, LocalsType, Create, UpdateSaves, Is
  <2>3. (\A p \in Profiles \ {Of(r)} : profile'[p] = profile[p]) /\ profile'[Of(r)] = NoProfile
    BY <1>1, <2>1 DEF TablesType
  <2> QED
    BY <2>1, <2>2, <2>3 DEF Exists, Of
<1> QED
  BY <1>2, <1>3, <1>4, <1>5, ProfileMoves

LEMMA UnbornStep ==
  ASSUME TypeOK, LoadedRow, Unborn, NEW r \in Requests, Step(r)
  PROVE  Unborn'
<1> SUFFICES ASSUME NEW c \in Requests, Is(c, "create", "new")',
                    \A q \in Requests : Of(q) = Of(c) /\ Ask[q].op # "list" => pc'[q] = "new"
             PROVE  profile'[Of(c)] = NoProfile
  BY DEF Unborn, Exists, Of
<1>1. Is(c, "create", "new") /\ \A q \in Requests : Of(q) = Of(c) /\ Ask[q].op # "list" => pc[q] = "new"
  BY NewWasNew DEF Is
<1>2. profile[Of(c)] = NoProfile
  BY <1>1 DEF Unborn, Exists
<1>3. CASE Of(r) = Of(c)
  <2>1. ~Create(r) /\ ~UpdateSaves(r) /\ ~RemoveDeletes(r)
    BY <1>3, RowSteps
  <2> QED
    BY <1>2, <2>1, ProfileMoves
<1>4. CASE Of(r) # Of(c)
  BY <1>2, <1>4, RowSteps, AskTypes
<1> QED
  BY <1>3, <1>4

(* Who is at "loaded" after a step, and with which row.                    *)
LEMMA LoadedAfter ==
  ASSUME TypeOK, NEW r \in Requests, Step(r), NEW q \in Requests, Is(q, "update", "loaded")'
  PROVE  \/ Is(q, "update", "loaded") /\ loaded'[q] = loaded[q] /\ (q = r => FALSE)
         \/ q = r /\ UpdateLoads(r) /\ Exists(Of(r)) /\ loaded'[r] = profile[Of(r)]
<1>1. LocalsType
  BY TypeParts
<1>2. CASE q # r
  <2>1. loaded'[q] = loaded[q]
    BY <1>1, <1>2 DEF LocalsType, Step, GuardStep, GuardReadsProfile, GuardReadsShare, ProfileStep,
       Get, Create, UpdateLoads, UpdateSaves, RemoveUnshares, RemoveDeletes, ListStep,
       ListReadsOwned, ListReadsShared, ListLoads, ListEnds, ShareStep, GrantFinds, GrantSaves,
       Revoke, locals
  <2> QED
    BY <1>2, <2>1, OthersStay DEF Is
<1>3. CASE q = r
  <2>1. Ask[r].op = "update" /\ pc'[r] = "loaded"
    BY <1>3 DEF Is
  <2>2. ~GuardStep(r)
    BY <1>1, <2>1 DEF LocalsType, GuardStep, GuardReadsProfile, GuardReadsShare, Goto, Admit
  <2>3. ~ListStep(r) /\ ~ShareStep(r)
    BY <2>1 DEF ListStep, ListReadsOwned, ListReadsShared, ListLoads, ListEnds, ShareStep,
       GrantFinds, GrantSaves, Revoke, Is
  <2>4. ~Get(r) /\ ~Create(r) /\ ~RemoveUnshares(r) /\ ~RemoveDeletes(r)
    BY <2>1 DEF Get, Create, RemoveUnshares, RemoveDeletes, Is
  <2>5. ~UpdateSaves(r)
    BY <1>1, <2>1 DEF LocalsType, UpdateSaves, Goto
  <2>6. UpdateLoads(r)
    BY <2>2, <2>3, <2>4, <2>5 DEF Step, ProfileStep
  <2>7. Exists(Of(r)) /\ loaded'[r] = profile[Of(r)]
    BY <1>1, <2>1, <2>6 DEF LocalsType, UpdateLoads, Goto
  <2> QED
    BY <1>3, <2>6, <2>7
<1> QED
  BY <1>2, <1>3

LEMMA OwnersStep ==
  ASSUME TypeOK, LoadedRow, Unborn, Owners, NEW r \in Requests, Step(r)
  PROVE  Owners'
<1>1. ASSUME NEW q \in Requests, Is(q, "update", "loaded")', Exists(Of(q))'
      PROVE  profile'[Of(q)].owner = loaded'[q].owner
  <2>1. CASE UpdateLoads(r) /\ q = r
    <3>1. profile' = profile /\ loaded'[q] = profile[Of(q)]
      BY <1>1, <2>1, LoadedAfter DEF UpdateLoads, tables
    <3> QED
      BY <3>1 DEF Of
  <2>2. CASE ~(UpdateLoads(r) /\ q = r)
    <3>1. Is(q, "update", "loaded") /\ loaded'[q] = loaded[q] /\ q # r
      BY <1>1, <2>2, LoadedAfter
    <3>2. CASE profile'[Of(q)] = profile[Of(q)]
      BY <1>1, <3>1, <3>2 DEF Owners, Exists, Of
    <3>3. CASE profile'[Of(q)] # profile[Of(q)]
      <4>1. Of(r) = Of(q) /\ (Create(r) \/ UpdateSaves(r))
        BY <1>1, <3>3, ProfileMoves, RowSteps, AskTypes DEF Exists, Of
      <4>2. ~Create(r)
        BY <3>1, <4>1 DEF Create, Is
      <4>3. UpdateSaves(r) /\ Is(r, "update", "loaded")
        BY <4>1, <4>2 DEF UpdateSaves
      <4>4. loaded[r].owner = loaded[q].owner
        BY <3>1, <4>1, <4>3 DEF Owners
      <4> QED
        BY <3>1, <4>1, <4>3, <4>4, RowSteps
    <3> QED
      BY <3>2, <3>3
  <2> QED
    BY <2>1, <2>2
<1>2. ASSUME NEW q \in Requests, Is(q, "update", "loaded")',
             NEW s \in Requests, Is(s, "update", "loaded")', Of(s) = Of(q)
      PROVE  loaded'[s].owner = loaded'[q].owner
  <2> DEFINE Old(x) == Is(x, "update", "loaded") /\ loaded'[x] = loaded[x]
             Now(x) == x = r /\ Exists(Of(x)) /\ loaded'[x] = profile[Of(x)]
  <2>1. (Old(q) \/ Now(q)) /\ (Old(s) \/ Now(s))
    BY <1>2, LoadedAfter
  <2>2. CASE Old(q) /\ Old(s)
    BY <1>2, <2>2 DEF Owners
  <2>3. CASE Old(q) /\ Now(s)
    BY <1>2, <2>3 DEF Owners
  <2>4. CASE Now(q) /\ Old(s)
    BY <1>2, <2>4 DEF Owners
  <2>5. CASE Now(q) /\ Now(s)
    BY <2>5
  <2> QED
    BY <2>1, <2>2, <2>3, <2>4, <2>5
<1> QED
  BY <1>1, <1>2 DEF Owners, Exists, Of

(* A profile that is there before and after a step keeps its owner.        *)
LEMMA OwnerStays ==
  ASSUME TypeOK, LoadedRow, Unborn, Owners, NEW r \in Requests, Step(r),
         NEW p \in Profiles, Exists(p), Exists(p)'
  PROVE  profile'[p].owner = profile[p].owner
<1>1. CASE profile'[p] = profile[p]
  BY <1>1
<1>2. CASE profile'[p] # profile[p]
  <2>1. Of(r) = p /\ (Create(r) \/ UpdateSaves(r))
    BY <1>2, ProfileMoves, RowSteps DEF Exists, Of
  <2>2. ~Create(r)
    <3>1. Create(r) => /\ Is(r, "create", "new")
                       /\ \A q \in Requests : Of(q) = Of(r) /\ Ask[q].op # "list" => pc[q] = "new"
      BY DEF Create, Is
    <3> QED
      BY <2>1, <3>1 DEF Unborn
  <2>3. UpdateSaves(r) /\ Is(r, "update", "loaded")
    BY <2>1, <2>2 DEF UpdateSaves
  <2> QED
    BY <2>1, <2>3, RowSteps DEF Owners
<1> QED
  BY <1>1, <1>2

LEMMA CoveredStep ==
  ASSUME TypeOK, LoadedRow, Unborn, Owners, Covered, NEW r \in Requests, Step(r), Record
  PROVE  Covered'
<1> SUFFICES ASSUME NEW q \in Reads, Ask[q].op = "list" PROVE Covers(q)'
  BY DEF Covered
<1>1. LocalsType /\ HistoryType /\ q \in Requests /\ Covers(q)
  BY TypeParts DEF Reads, Covered
<1>2. kept'[q] = IF pc'[q] = "new" \/ pc[q] \in Over THEN kept[q]
                 ELSE kept[q] \cap VisibleNow(q)'
  BY DEF Record
<1>3. kept'[q] \subseteq kept[q] /\ kept[q] \subseteq Profiles
  BY <1>1, <1>2 DEF HistoryType
<1>4. pc'[q] \in {"owned", "listing"} => kept'[q] \subseteq VisibleNow(q)'
  <2>1. pc[q] \in Over => pc'[q] = pc[q]
    BY <1>1, OthersStay
  <2> QED
    BY <1>2, <2>1 DEF Over
<1>5. CASE q # r
  <2>1. pc'[q] = pc[q] /\ todo'[q] = todo[q] /\ out'[q] = out[q]
    BY <1>1, <1>5, OthersStay
  <2>2. ASSUME pc[q] = "owned", NEW p \in kept'[q], p \notin todo[q]
        PROVE  ~IsOwner(By(q), p)'
    <3>1. p \in Profiles /\ Exists(p) /\ ~IsOwner(By(q), p)
      BY <1>1, <1>3, <2>2 DEF Covers, VisibleNow
    <3>2. Exists(p)' => profile'[p].owner = profile[p].owner
      BY <3>1, OwnerStays
    <3> QED
      BY <3>1, <3>2 DEF IsOwner, Exists, By
  <2> QED
    BY <1>1, <1>3, <1>4, <2>1, <2>2 DEF Covers
<1>6. CASE q = r
  <2>1. CASE ListReadsOwned(r)
    <3>1. /\ pc'[q] = "owned" /\ todo'[q] = {p \in Profiles : IsOwner(By(q), p)}
          /\ profile' = profile
      BY <1>1, <1>6, <2>1 DEF ListReadsOwned, LocalsType, Goto, tables
    <3>2. \A p \in kept'[q] : p \in todo'[q] \/ ~IsOwner(By(q), p)'
      BY <1>3, <3>1 DEF IsOwner, Exists, By
    <3> QED
      BY <1>4, <3>1, <3>2 DEF Covers
  <2>2. CASE ListReadsShared(r)
    <3>1. /\ pc[q] = "owned" /\ pc'[q] = "listing"
          /\ todo'[q] = todo[q] \cup {p \in Profiles : Shared(By(q), p) # "none"}
      BY <1>1, <1>6, <2>2 DEF ListReadsShared, LocalsType, Goto, Is
    <3>2. \A p \in kept[q] : p \in Profiles /\ Access(By(q), p) # "none"
      BY <1>1, <1>3, <3>1 DEF Covers, VisibleNow
    <3>3. \A p \in kept[q] : p \in todo'[q]
      BY <1>1, <3>1, <3>2 DEF Covers, Access
    <3> QED
      BY <1>3, <1>4, <3>1, <3>3 DEF Covers
  <2>3. ASSUME NEW p \in Profiles, ListLoads(r, p) PROVE Covers(q)'
    <3>1. /\ pc[q] = "listing" /\ pc'[q] = "listing" /\ todo'[q] = todo[q] \ {p}
          /\ out'[q] = IF Exists(p) THEN out[q] \cup {p} ELSE out[q]
          /\ profile' = profile
      BY <1>1, <1>6, <2>3 DEF ListLoads, LocalsType, Is, tables
    <3>2. p \in kept'[q] => Exists(p)
      BY <1>4, <3>1 DEF VisibleNow, Exists
    <3> QED
      BY <1>1, <1>3, <1>4, <3>1, <3>2 DEF Covers
  <2>4. CASE ListEnds(r)
    <3>1. /\ pc[q] = "listing" /\ pc'[q] = "done" /\ todo[q] = {} /\ out'[q] = out[q]
      BY <1>1, <1>6, <2>4 DEF ListEnds, LocalsType, Goto, Is, locals
    <3> QED
      BY <1>1, <1>3, <3>1 DEF Covers
  <2>5. ~ProfileStep(r) /\ ~ShareStep(r)
    BY <1>6 DEF ProfileStep, Get, Create, UpdateLoads, UpdateSaves, RemoveUnshares, RemoveDeletes,
       ShareStep, GrantFinds, GrantSaves, Revoke, Is
  <2>6. CASE GuardStep(r)
    <3>1. pc'[q] \notin {"owned", "listing", "done"}
      BY <1>1, <1>6, <2>6 DEF GuardStep, GuardReadsProfile, GuardReadsShare, LocalsType, Goto, Admit
    <3> QED
      BY <3>1 DEF Covers
  <2> QED
    BY <2>1, <2>2, <2>3, <2>4, <2>5, <2>6 DEF Step, ListStep
<1> QED
  BY <1>5, <1>6

LEMMA InitList == Init => LInv
<1> SUFFICES ASSUME Init PROVE Unborn /\ Owners /\ Covered
  BY InitInvariant DEF LInv
<1>1. Unborn
  BY AskTypes DEF Init, Unborn, Is, Exists
<1>2. Owners /\ Covered
  BY DEF Init, Owners, Covered, Covers, Is, Reads
<1> QED
  BY <1>1, <1>2

LEMMA ListKeeps == LInv /\ [Next]_vars => LInv'
<1> SUFFICES ASSUME LInv, [Next]_vars PROVE LInv'
  OBVIOUS
<1>1. IInv'
  BY StepKeeps DEF LInv
<1>2. ASSUME NEW r \in Requests, Step(r), Record PROVE LInv'
  BY <1>1, <1>2, UnbornStep, OwnersStep, CoveredStep DEF LInv, IInv
<1>3. CASE UNCHANGED vars
  <2>1. UNCHANGED <<profile, share, pc, loaded, todo, out, kept>>
    BY <1>3 DEF vars, tables, locals, history
  <2>2. Unborn' /\ Owners'
    BY <2>1 DEF LInv, Unborn, Owners, Is, Exists, Of
  <2>3. Covered'
    BY <2>1 DEF LInv, Covered, Covers, VisibleNow, Access, Shared, IsOwner, Exists, By
  <2> QED
    BY <1>1, <2>2, <2>3 DEF LInv
<1> QED
  BY <1>2, <1>3 DEF Next, Step

(* A list misses no profile that was accessible from its first query to    *)
(* its answer, whatever updates, grants and removals overlap it.           *)
THEOREM ListsAreComplete == Spec => []ListComplete
<1>1. LInv => ListComplete
  BY DEF LInv, Covered, Covers, ListComplete, Is
<1> QED
  BY <1>1, InitList, ListKeeps, PTL DEF Spec
=============================================================================
