------------------------------ MODULE Invites ------------------------------
(***************************************************************************)
(* Invite-only accounts: InvitesService (src/invites/invites.service.ts)   *)
(* with the users it creates, and the process that may stop between two of *)
(* redeem's steps. Each await of redeem is a step boundary: the same token *)
(* may be redeemed twice at a time, and an e-mail address may have several *)
(* invites. The tables users, with its unique e-mail, and invite_tokens    *)
(* outlive the process. A token stands for its hash and its invite; the    *)
(* passwords and their hashes are left out.                                *)
(***************************************************************************)
CONSTANTS
  Tokens,        \* the tokens createInvite may return
  Emails,
  EmailOf,       \* the address the admin invites with each token
  Requests,      \* POST invites/redeem
  TokenOf        \* the token of each request

ASSUME TokenAssumption ==
  EmailOf \in [Tokens -> Emails] /\ TokenOf \in [Requests -> Tokens]

VARIABLES
  invites,    \* the tokens in invite_tokens
  redeemed,   \* those of them with a redeemedAt
  users,      \* the e-mail addresses in users
  pc,         \* where each request is
  creator     \* history: by e-mail, the requests that created a user

vars == <<invites, redeemed, users, pc, creator>>

Email(r) == EmailOf[TokenOf[r]]
Goto(r, to) == pc' = [pc EXCEPT ![r] = to]

(* "invalid or used invite", "an account for this email already exists",   *)
(* any other error, and a process that stopped before it could answer      *)
Failed == {"invalid", "conflict", "error", "lost"}

UnderWay == {"found", "hashed", "claimed", "created"}

Init ==
  /\ invites = {} /\ redeemed = {}
  /\ users \in SUBSET Emails
  /\ pc = [r \in Requests |-> "new"]
  /\ creator = [e \in Emails |-> {}]

CreateInvite(t) ==
  /\ t \notin invites
  /\ invites' = invites \cup {t}
  /\ UNCHANGED <<redeemed, users, pc, creator>>

(* Broken: the invite is not asked for, only whether it was redeemed.      *)
RedeemFindsAny(r) ==
  /\ pc[r] = "new"
  /\ Goto(r, IF TokenOf[r] \notin redeemed THEN "found" ELSE "invalid")
  /\ UNCHANGED <<invites, redeemed, users, creator>>

(* findOne of an invite that is not redeemed yet.                          *)
RedeemFinds(r) ==
  /\ pc[r] = "new"
  /\ Goto(r, IF TokenOf[r] \in invites \ redeemed THEN "found" ELSE "invalid")
  /\ UNCHANGED <<invites, redeemed, users, creator>>

(* findByEmail; then the password is hashed.                               *)
RedeemLooksUp(r) ==
  /\ pc[r] = "found"
  /\ Goto(r, IF Email(r) \in users THEN "conflict" ELSE "hashed")
  /\ UNCHANGED <<invites, redeemed, users, creator>>

(* Broken: the update does not ask for redeemedAt to be null.              *)
ClaimUnconditionally(r) ==
  /\ pc[r] = "hashed"
  /\ redeemed' = redeemed \cup {TokenOf[r]}
  /\ Goto(r, "claimed")
  /\ UNCHANGED <<invites, users, creator>>

(* Broken: affected is not what the driver reports, or is tested for the   *)
(* opposite.                                                               *)
ClaimDisbelieved(r) ==
  /\ pc[r] = "hashed"
  /\ redeemed' = redeemed \cup {TokenOf[r]}
  /\ Goto(r, "invalid")
  /\ UNCHANGED <<invites, users, creator>>

(* The conditional update: only one request finds redeemedAt null.         *)
Claim(r) ==
  /\ pc[r] = "hashed"
  /\ IF TokenOf[r] \in redeemed
       THEN Goto(r, "invalid") /\ UNCHANGED redeemed
       ELSE Goto(r, "claimed") /\ redeemed' = redeemed \cup {TokenOf[r]}
  /\ UNCHANGED <<invites, users, creator>>

(* Broken: the account is answered for whether or not it could be made.    *)
CreateUserAnyway(r) ==
  /\ pc[r] = "claimed"
  /\ Goto(r, "created")
  /\ users' = users \cup {Email(r)}
  /\ creator' = [creator EXCEPT ![Email(r)] = @ \cup {r}]
  /\ UNCHANGED <<invites, redeemed>>

(* users.create: the insert fails on the unique e-mail if there is one.    *)
CreateUser(r) ==
  /\ pc[r] = "claimed"
  /\ IF Email(r) \in users
       THEN Goto(r, "conflict") /\ UNCHANGED <<users, creator>>
       ELSE /\ Goto(r, "created")
            /\ users' = users \cup {Email(r)}
            /\ creator' = [creator EXCEPT ![Email(r)] = @ \cup {r}]
  /\ UNCHANGED <<invites, redeemed>>

Answer(r) ==
  /\ pc[r] = "created"
  /\ Goto(r, "done")
  /\ UNCHANGED <<invites, redeemed, users, creator>>

(* A query, or the hashing, fails; what was done before it stays done.     *)
QueryFails(r) ==
  /\ pc[r] \in {"new", "found", "hashed", "claimed"}
  /\ Goto(r, "error")
  /\ UNCHANGED <<invites, redeemed, users, creator>>

(* The process stops: every request that was under way ends unanswered.    *)
Crash ==
  /\ \E r \in Requests : pc[r] \in UnderWay
  /\ pc' = [r \in Requests |-> IF pc[r] \in UnderWay THEN "lost" ELSE pc[r]]
  /\ UNCHANGED <<invites, redeemed, users, creator>>

Redeem(r) == \/ RedeemFinds(r) \/ RedeemLooksUp(r) \/ Claim(r) \/ CreateUser(r)
             \/ Answer(r) \/ QueryFails(r)

Next == \/ \E t \in Tokens : CreateInvite(t)
        \/ \E r \in Requests : Redeem(r)
        \/ Crash

Spec == Init /\ [][Next]_vars

-----------------------------------------------------------------------------
TypeOK ==
  /\ redeemed \subseteq invites /\ invites \subseteq Tokens
  /\ users \subseteq Emails
  /\ pc \in [Requests -> {"new", "done"} \cup UnderWay \cup Failed]
  /\ creator \in [Emails -> SUBSET Requests]

(* However often a token is redeemed at a time, one request gets past the  *)
(* claim: a token makes at most one account ("so concurrent redemptions of *)
(* the same token can't both proceed", the comment on the claim).          *)
OneClaimPerToken ==
  \A q, r \in Requests :
    /\ TokenOf[q] = TokenOf[r]
    /\ {pc[q], pc[r]} \subseteq {"claimed", "created", "done"}
    => q = r

(* An address has one account, and nobody is told of an account another    *)
(* request made, also when the address was invited twice and both invites  *)
(* are redeemed at once.                                                   *)
OneAccountPerEmail ==
  /\ \A e \in Emails : \A q, r \in creator[e] : q = r
  /\ \A r \in Requests : pc[r] \in {"created", "done"} => creator[Email(r)] = {r}

(* An invite is spent on an account, or on a request that claimed it and   *)
(* then failed or was lost: no race of redemptions alone uses one up.      *)
SpentOnAccount ==
  \A t \in redeemed :
    \/ EmailOf[t] \in users
    \/ \E r \in Requests : TokenOf[r] = t /\ pc[r] \in {"claimed", "error", "lost"}
=============================================================================
