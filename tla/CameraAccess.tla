---------------------------- MODULE CameraAccess ----------------------------
(***************************************************************************)
(* Camera profiles and who may use them: CameraAccessGuard and             *)
(* CameraAccessService (src/sharing), the handlers behind the guard in     *)
(* CameraProfilesService (src/camera-profiles) and SharingService, and the *)
(* rows of the two tables they read and write.                             *)
(*                                                                         *)
(* No handler opens a transaction: every await on a repository is a step   *)
(* of its own, and the requests of all users interleave there. What the    *)
(* TypeORM calls do to the tables (findOne, delete, and save, which        *)
(* inserts a row that is not there and otherwise overwrites it) is         *)
(* modelled as the code relies on it, each call being atomic.              *)
(*                                                                         *)
(* A configuration is a function on Fields; the name, the storage and the  *)
(* camera configuration go through the same merge. A stored value carries  *)
(* the number of times it is encrypted.                                    *)
(***************************************************************************)
EXTENDS Integers, FiniteSets

CONSTANTS
  Users, Profiles,
  Fields, Secrets,       \* Secrets: those of STORAGE_ and CAMERA_SECRET_KEYS
  Values, Blank,         \* what a field is set to; Blank: '' or left out
  Owner, InitialValue,   \* of the profiles that exist at the start
  Requests,
  Ask                    \* what each request asks for, of which profile, by whom

Ops   == {"get", "list", "create", "update", "remove", "grant", "revoke"}
Dtos  == [Fields -> Values \cup {Blank}]
Permissions == {"view", "manage"}

ASSUME AskAssumption ==
  /\ Secrets \subseteq Fields /\ Blank \notin Values
  /\ Ask \in [Requests -> [op : Ops, by : Users, profile : Profiles, dto : Dtos,
                           grantee : Users, permission : Permissions]]
  /\ \A r \in Requests :
       Ask[r].op = "create" => \A f \in Fields : Ask[r].dto[f] # Blank
ASSUME InitialAssumption == Owner \in [Profiles -> Users] /\ InitialValue \in Values

VARIABLES
  profile,   \* the table camera_profiles
  share,     \* the table camera_shares, by its unique key (profile, grantee)
  pc,        \* where each request is
  level,     \* what the guard let it pass with: req.access
  loaded,    \* the profile row an update or a get has loaded, decrypted for a get
  found,     \* the share a grant has found
  todo,      \* the ids a list has still to look up
  out,       \* the profiles a list or a get has answered with
  held,      \* history: the access its user had to each profile since it began
  kept,      \* history: the profiles its user could see all the time since then
  ended      \* history: the requests that had ended when it began

tables  == <<profile, share>>
locals  == <<level, loaded, found, todo, out>>
history == <<held, kept, ended>>
vars    == <<tables, pc, locals, history>>

-----------------------------------------------------------------------------
NoProfile == [owner |-> "none"]
NoShare   == [id |-> "none", permission |-> "none"]

Exists(p)      == profile[p] # NoProfile
IsOwner(u, p)  == Exists(p) /\ profile[p].owner = u
Shared(u, p)   == share[<<p, u>>].permission

(* Ends of a request: done, and the exceptions that become a 404, 403, 500 *)
Over == {"done", "notFound", "forbidden", "error"}

Plain(v)      == [text |-> v, layers |-> 0]
(* CryptoService: a layer of encryption, and the test for one.             *)
encrypt(s)     == [s EXCEPT !.layers = @ + 1]
decrypt(s)     == [s EXCEPT !.layers = @ - 1]
isEncrypted(s) == s.layers > 0

(* Broken: without the test isEncrypted.                                   *)
SealAlways(s) == encrypt(s)
Seal(s)       == IF isEncrypted(s) THEN s ELSE encrypt(s)
Unseal(s)     == IF isEncrypted(s) THEN decrypt(s) ELSE s

encSecrets(c) == [f \in Fields |-> IF f \in Secrets THEN Seal(c[f]) ELSE c[f]]
decSecrets(c) == [f \in Fields |-> IF f \in Secrets THEN Unseal(c[f]) ELSE c[f]]

(* update's merge: what stripBlank leaves of the dto, over what was loaded *)
Merged(c, dto) ==
  encSecrets([f \in Fields |-> IF dto[f] = Blank THEN c[f] ELSE Plain(dto[f])])

-----------------------------------------------------------------------------
By(r)  == Ask[r].by
Of(r)  == Ask[r].profile
Key(r) == <<Of(r), Ask[r].grantee>>

NeedsManage(r) == Ask[r].op \in {"update", "remove", "grant", "revoke"}
Guarded(r)     == Ask[r].op \notin {"list", "create"}
Reads          == {r \in Requests : Ask[r].op \in {"get", "list"}}
Withdrawals    == {r \in Requests : Ask[r].op \in {"revoke", "remove"}}
Savers         == {r \in Requests : Ask[r].op \in {"grant", "update"}}

Goto(r, to)   == pc' = [pc EXCEPT ![r] = to]
Is(r, op, at) == Ask[r].op = op /\ pc[r] = at

Admit(r, l) == Goto(r, "admitted") /\ level' = [level EXCEPT ![r] = l]

(* A request begins with its first look at the tables. access(): the       *)
(* profile is read first ...                                               *)
GuardReadsProfile(r) ==
  /\ Guarded(r) /\ pc[r] = "new"
  /\ IF ~Exists(Of(r)) THEN Goto(r, "notFound") /\ UNCHANGED level
     ELSE IF IsOwner(By(r), Of(r)) THEN Admit(r, "owner")
     ELSE Goto(r, "guardShare") /\ UNCHANGED level
  /\ UNCHANGED <<tables, loaded, found, todo, out>>

(* ... and the share of whoever does not own it after that.                *)
GuardReadsShare(r) ==
  /\ pc[r] = "guardShare"
  /\ LET permission == Shared(By(r), Of(r))
     IN  IF permission = "none" THEN Goto(r, "notFound") /\ UNCHANGED level
         ELSE IF NeedsManage(r) /\ permission = "view"
                THEN Goto(r, "forbidden") /\ UNCHANGED level
         ELSE Admit(r, permission)
  /\ UNCHANGED <<tables, loaded, found, todo, out>>

-----------------------------------------------------------------------------
(* CameraProfilesService.                                                  *)

(* getMasked and findOneDecryptedForConnection.                            *)
Get(r) ==
  /\ \/ Is(r, "get", "admitted")
     \/ Is(r, "create", "created")
  /\ IF Exists(Of(r))
       THEN /\ Goto(r, "done")
            /\ out' = [out EXCEPT ![r] = {Of(r)}]
            /\ loaded' = [loaded EXCEPT ![r] = [profile[Of(r)] EXCEPT !.config = decSecrets(@)]]
       ELSE Goto(r, "notFound") /\ UNCHANGED <<out, loaded>>
  /\ UNCHANGED <<tables, level, found, todo>>

(* The id is new: no other request knows it before.                        *)
Create(r) ==
  /\ Is(r, "create", "new")
  /\ \A q \in Requests \ {r} : Of(q) = Of(r) /\ Ask[q].op # "list" => pc[q] = "new"
  /\ profile' = [profile EXCEPT ![Of(r)] =
       [owner |-> By(r),
        config |-> encSecrets([f \in Fields |-> Plain(Ask[r].dto[f])])]]
  /\ Goto(r, "created")
  /\ UNCHANGED <<share, locals>>

UpdateLoads(r) ==
  /\ Is(r, "update", "admitted")
  /\ IF Exists(Of(r))
       THEN Goto(r, "loaded") /\ loaded' = [loaded EXCEPT ![r] = profile[Of(r)]]
       ELSE Goto(r, "notFound") /\ UNCHANGED loaded
  /\ UNCHANGED <<tables, level, found, todo, out>>

UpdateSaves(r) ==
  /\ Is(r, "update", "loaded")
  /\ profile' = [profile EXCEPT ![Of(r)] =
       [loaded[r] EXCEPT !.config = Merged(@, Ask[r].dto)]]
  /\ Goto(r, "done")
  /\ UNCHANGED <<share, locals>>

(* Broken: the shares are left behind.                                     *)
RemoveKeepsShares(r) ==
  /\ Is(r, "remove", "admitted")
  /\ Goto(r, "unshared")
  /\ UNCHANGED <<tables, locals>>

(* revokeAllForProfile, then the row itself.                               *)
RemoveUnshares(r) ==
  /\ Is(r, "remove", "admitted")
  /\ share' = [k \in DOMAIN share |-> IF k[1] = Of(r) THEN NoShare ELSE share[k]]
  /\ Goto(r, "unshared")
  /\ UNCHANGED <<profile, locals>>

RemoveDeletes(r) ==
  /\ Is(r, "remove", "unshared")
  /\ profile' = [profile EXCEPT ![Of(r)] = NoProfile]
  /\ Goto(r, "done")
  /\ UNCHANGED <<share, locals>>

-----------------------------------------------------------------------------
(* list in CameraProfilesController, with accessibleProfileIds: a set here *)
(* where the code has a list of ids.                                       *)

(* Broken: the profiles are found whoever owns them.                       *)
ListReadsAll(r) ==
  /\ Is(r, "list", "new")
  /\ todo' = [todo EXCEPT ![r] = {p \in Profiles : Exists(p)}]
  /\ Goto(r, "owned")
  /\ UNCHANGED <<tables, level, loaded, found, out>>

ListReadsOwned(r) ==
  /\ Is(r, "list", "new")
  /\ todo' = [todo EXCEPT ![r] = {p \in Profiles : IsOwner(By(r), p)}]
  /\ Goto(r, "owned")
  /\ UNCHANGED <<tables, level, loaded, found, out>>

(* Broken: the shared ids take the place of the owned ones.                *)
ListReadsSharedOnly(r) ==
  /\ Is(r, "list", "owned")
  /\ todo' = [todo EXCEPT ![r] = {p \in Profiles : Shared(By(r), p) # "none"}]
  /\ Goto(r, "listing")
  /\ UNCHANGED <<tables, level, loaded, found, out>>

ListReadsShared(r) ==
  /\ Is(r, "list", "owned")
  /\ todo' = [todo EXCEPT ![r] = @ \cup {p \in Profiles : Shared(By(r), p) # "none"}]
  /\ Goto(r, "listing")
  /\ UNCHANGED <<tables, level, loaded, found, out>>

(* A profile that is gone by now is skipped.                               *)
ListLoads(r, p) ==
  /\ Is(r, "list", "listing")
  /\ p \in todo[r]
  /\ todo' = [todo EXCEPT ![r] = @ \ {p}]
  /\ out' = [out EXCEPT ![r] = IF Exists(p) THEN @ \cup {p} ELSE @]
  /\ UNCHANGED <<tables, pc, level, loaded, found>>

ListEnds(r) ==
  /\ Is(r, "list", "listing") /\ todo[r] = {}
  /\ Goto(r, "done")
  /\ UNCHANGED <<tables, locals>>

-----------------------------------------------------------------------------
(* SharingService.                                                         *)

(* findByEmail, which finds the grantee among the users, and the look-up.  *)
GrantFinds(r) ==
  /\ Is(r, "grant", "admitted")
  /\ found' = [found EXCEPT ![r] = share[Key(r)]]
  /\ Goto(r, "found")
  /\ UNCHANGED <<tables, level, loaded, todo, out>>

(* The row save leaves: the one that was found, now with the permission    *)
(* asked for, or a new one, named after the request.                       *)
GrantRow(r) == [id |-> IF found[r] = NoShare THEN r ELSE found[r].id,
                permission |-> Ask[r].permission]

(* The insert of a row fails on the unique key if there is another one.    *)
GrantSaves(r) ==
  /\ Is(r, "grant", "found")
  /\ IF share[Key(r)] \in {NoShare, found[r]} \/ share[Key(r)].id = found[r].id
       THEN share' = [share EXCEPT ![Key(r)] = GrantRow(r)] /\ Goto(r, "done")
       ELSE UNCHANGED share /\ Goto(r, "error")
  /\ UNCHANGED <<profile, locals>>

Revoke(r) ==
  /\ Is(r, "revoke", "admitted")
  /\ share' = [share EXCEPT ![Key(r)] = NoShare]
  /\ Goto(r, "done")
  /\ UNCHANGED <<profile, locals>>

-----------------------------------------------------------------------------
(* The access a user has by the rows as they are: "caller is owner_id OR   *)
(* has a CameraShare row" (the design).                                    *)
Access(u, p) == IF IsOwner(u, p) THEN "owner" ELSE Shared(u, p)

AccessNow(r) == {<<p, Access(By(r), p)>> : p \in Profiles}
VisibleNow(r) == {p \in Profiles : Exists(p) /\ Access(By(r), p) # "none"}

(* The history variables follow every step.                                *)
Record ==
  /\ held' = [r \in Reads |-> IF pc'[r] = "new" \/ pc[r] \in Over THEN held[r]
                              ELSE held[r] \cup AccessNow(r)']
  /\ kept' = [r \in Reads |-> IF pc'[r] = "new" \/ pc[r] \in Over THEN kept[r]
                              ELSE kept[r] \cap VisibleNow(r)']
  /\ ended' = [r \in Withdrawals |-> IF pc[r] = "new" /\ pc'[r] # "new"
                                     THEN {q \in Savers : pc[q] \in Over} ELSE ended[r]]

Init ==
  /\ profile = [p \in Profiles |->
       IF \E r \in Requests : Ask[r].op = "create" /\ Of(r) = p THEN NoProfile
       ELSE [owner |-> Owner[p],
             config |-> encSecrets([f \in Fields |-> Plain(InitialValue)])]]
  /\ share \in [Profiles \X Users -> {NoShare} \cup [id : {"old"}, permission : Permissions]]
  /\ \A p \in Profiles, u \in Users : share[<<p, u>>] # NoShare => Exists(p) /\ u # Owner[p]
  /\ pc = [r \in Requests |-> "new"]
  /\ level = [r \in Requests |-> "none"]
  /\ loaded = [r \in Requests |-> NoProfile]
  /\ found = [r \in Requests |-> NoShare]
  /\ todo = [r \in Requests |-> {}] /\ out = [r \in Requests |-> {}]
  /\ held = [r \in Reads |-> {}] /\ kept = [r \in Reads |-> Profiles]
  /\ ended = [r \in Withdrawals |-> {}]

GuardStep(r) == GuardReadsProfile(r) \/ GuardReadsShare(r)
ProfileStep(r) == \/ Get(r) \/ Create(r) \/ UpdateLoads(r) \/ UpdateSaves(r)
                  \/ RemoveUnshares(r) \/ RemoveDeletes(r)
ListStep(r) == \/ ListReadsOwned(r) \/ ListReadsShared(r) \/ ListEnds(r)
               \/ \E p \in Profiles : ListLoads(r, p)
ShareStep(r) == GrantFinds(r) \/ GrantSaves(r) \/ Revoke(r)

Next == \E r \in Requests :
          (GuardStep(r) \/ ProfileStep(r) \/ ListStep(r) \/ ShareStep(r)) /\ Record

Spec == Init /\ [][Next]_vars

-----------------------------------------------------------------------------
Configs(layers) ==
  {c \in [Fields -> [text : Values, layers : {0, 1}]] :
     \A f \in Fields : c[f].layers = IF f \in Secrets THEN layers ELSE 0}
Rows(layers) == [owner : Users, config : Configs(layers)]

(* A stored secret is encrypted exactly once, however often it is merged   *)
(* and saved again, and what is decrypted for a connection is plain.       *)
TypeOK ==
  /\ profile \in [Profiles -> Rows(1) \cup {NoProfile}]
  /\ share \in [Profiles \X Users ->
                 [id : Requests \cup {"old"}, permission : Permissions] \cup {NoShare}]
  /\ pc \in [Requests -> {"new", "guardShare", "admitted", "created", "loaded",
                          "unshared", "owned", "listing", "found"} \cup Over]
  /\ level \in [Requests -> {"none", "owner"} \cup Permissions]
  /\ loaded \in [Requests -> Rows(0) \cup Rows(1) \cup {NoProfile}]
  /\ \A r \in Requests :
       loaded[r] \in Rows(IF Ask[r].op = "update" THEN 1 ELSE 0) \cup {NoProfile}
  /\ found \in [Requests ->
                 [id : Requests \cup {"old"}, permission : Permissions] \cup {NoShare}]
  /\ todo \in [Requests -> SUBSET Profiles] /\ out \in [Requests -> SUBSET Profiles]
  /\ held \in [Reads -> SUBSET (Profiles \X ({"none", "owner"} \cup Permissions))]
  /\ kept \in [Reads -> SUBSET Profiles] /\ ended \in [Withdrawals -> SUBSET Savers]

(* For a get that is answered, and for every profile in a list, there was, *)
(* at some moment of the request, a row that made the user its owner or    *)
(* shared it with the user: the guard, the load behind it and the removal  *)
(* of profiles and shares, all in several steps, do not open a profile to  *)
(* anyone who had no such row.                                             *)
Isolation ==
  \A r \in Reads : pc[r] \in Over =>
    \A p \in out[r] : \E l \in Permissions \cup {"owner"} : <<p, l>> \in held[r]

(* A list misses no profile that was accessible all along, although it     *)
(* reads ownership, shares and profiles one after the other.               *)
ListComplete ==
  \A r \in Reads : Is(r, "list", "done") => kept[r] \subseteq out[r]

(* The grants, or updates, of the same profile that did not end before r   *)
(* began.                                                                  *)
Raced(r, op) == {q \in Savers \ ended[r] :
                   Ask[q].op = op /\ pc[q] = "done" /\ Of(q) = Of(r)}

(* What a revoke or a remove has withdrawn stays withdrawn, unless a grant *)
(* or an update of the same profile was under way or came later.           *)
WithdrawnUnlessRaced ==
  \A r \in Withdrawals :
    /\ Is(r, "revoke", "done") /\ share[Key(r)] # NoShare =>
         \E q \in Raced(r, "grant") : Key(q) = Key(r)
    /\ Is(r, "remove", "done") /\ Exists(Of(r)) => Raced(r, "update") # {}
    /\ Is(r, "remove", "done") =>
         \A u \in Users : Shared(u, Of(r)) # "none" => Raced(r, "grant") # {}

(* "blank secret = keep stored" (the comment in stripBlank, and in the     *)
(* update dto): an update that leaves a secret blank does not change it.   *)
BlankKeepsStored ==
  [][\A r \in Requests : Is(r, "update", "loaded") /\ pc'[r] = "done" =>
       \A f \in Secrets : Ask[r].dto[f] = Blank /\ Exists(Of(r)) =>
         profile'[Of(r)].config[f] = profile[Of(r)].config[f]]_vars
=============================================================================
