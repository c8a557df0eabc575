--------------------------- MODULE InvitesProofs ---------------------------
(***************************************************************************)
(* The invariants of Invites, for every set of tokens, addresses and       *)
(* requests. They are inductive together with three facts: a request under *)
(* way has found an invite (Known), one that got past the claim has left   *)
(* its mark on the invite (Marked), and who made an account for an address *)
(* left a user with it (Recorded).                                         *)
(***************************************************************************)
EXTENDS Invites, TLAPS

Past == {"claimed", "created", "done"}

Known    == \A r \in Requests : pc[r] \in UnderWay => TokenOf[r] \in invites
Marked   == \A r \in Requests : pc[r] \in Past => TokenOf[r] \in redeemed
Recorded == \A e \in Emails : creator[e] # {} => e \in users

IInv == /\ TypeOK /\ Known /\ Marked /\ Recorded
        /\ OneClaimPerToken /\ OneAccountPerEmail /\ SpentOnAccount

LEMMA EmailType == \A r \in Requests : TokenOf[r] \in Tokens /\ Email(r) \in Emails
  BY TokenAssumption DEF Email

LEMMA InitInvariant == Init => IInv
<1> SUFFICES ASSUME Init PROVE IInv
  OBVIOUS
<1>1. TypeOK
  BY DEF Init, TypeOK, UnderWay
<1>2. Known /\ Marked /\ Recorded /\ OneClaimPerToken
  BY DEF Init, Known, UnderWay, Marked, Recorded, OneClaimPerToken, Past
<1>3. OneAccountPerEmail /\ SpentOnAccount
  BY DEF Init, OneAccountPerEmail, SpentOnAccount
<1> QED
  BY <1>1, <1>2, <1>3 DEF IInv

(* A step that only moves requests on, r among them: none of them gets     *)
(* past the claim or makes an account by it, and what one of them spent an *)
(* invite for is made, under way or lost.                                  *)
LEMMA MoveKeeps ==
  ASSUME IInv, TypeOK', Known', UNCHANGED <<invites, redeemed, users, creator>>,
         \A q \in Requests : /\ pc'[q] \in Past => pc[q] \in Past
                             /\ pc'[q] \in {"created", "done"} => pc[q] \in {"created", "done"}
                             /\ pc[q] \in {"claimed", "error", "lost"} =>
                                  pc'[q] \in {"claimed", "error", "lost"}
  PROVE  IInv'
<1>1. Marked' /\ Recorded' /\ OneClaimPerToken'
  BY DEF IInv, Marked, Recorded, OneClaimPerToken, Past
<1>2. OneAccountPerEmail'
  BY DEF IInv, OneAccountPerEmail, Email
<1>3. SpentOnAccount'
  BY DEF IInv, SpentOnAccount
<1> QED
  BY <1>1, <1>2, <1>3 DEF IInv

LEMMA FindKeeps ==
  ASSUME IInv, NEW r \in Requests, RedeemFinds(r) \/ RedeemLooksUp(r) \/ Answer(r) \/ QueryFails(r)
  PROVE  IInv'
<1>1. TypeOK'
  BY DEF IInv, TypeOK, UnderWay, Failed, RedeemFinds, RedeemLooksUp, Answer, QueryFails, Goto
<1>2. UNCHANGED <<invites, redeemed, users, creator>>
  BY DEF RedeemFinds, RedeemLooksUp, Answer, QueryFails
<1>4. Known'
  BY DEF IInv, TypeOK, Known, UnderWay, RedeemFinds, RedeemLooksUp, Answer, QueryFails, Goto
<1>3. \A q \in Requests : /\ pc'[q] \in Past => pc[q] \in Past
                          /\ pc'[q] \in {"created", "done"} => pc[q] \in {"created", "done"}
                          /\ pc[q] \in {"claimed", "error", "lost"} =>
                               pc'[q] \in {"claimed", "error", "lost"}
  BY DEF IInv, TypeOK, Past, RedeemFinds, RedeemLooksUp, Answer, QueryFails, Goto
<1> QED
  BY <1>1, <1>2, <1>3, <1>4, MoveKeeps

LEMMA CrashKeeps == IInv /\ Crash => IInv'
<1> SUFFICES ASSUME IInv, Crash PROVE IInv'
  OBVIOUS
<1>1. TypeOK'
  BY DEF IInv, TypeOK, UnderWay, Failed, Crash
<1>3. Known'
  BY DEF Known, UnderWay, Crash
<1>2. \A q \in Requests : /\ pc'[q] \in Past => pc[q] \in Past
                          /\ pc'[q] \in {"created", "done"} => pc[q] \in {"created", "done"}
                          /\ pc[q] \in {"claimed", "error", "lost"} =>
                               pc'[q] \in {"claimed", "error", "lost"}
  BY DEF IInv, TypeOK, UnderWay, Past, Crash
<1> QED
  BY <1>1, <1>2, <1>3, MoveKeeps DEF Crash

LEMMA InviteKeeps == ASSUME IInv, NEW t \in Tokens, CreateInvite(t) PROVE IInv'
<1>1. TypeOK'
  BY DEF IInv, TypeOK, CreateInvite
<1>2. UNCHANGED <<redeemed, users, pc, creator>>
  BY DEF CreateInvite
<1>5. Known'
  BY DEF IInv, Known, CreateInvite
<1>3. (Marked /\ Recorded /\ OneClaimPerToken)'
  BY <1>2 DEF IInv, Marked, Recorded, OneClaimPerToken
<1>4. (OneAccountPerEmail /\ SpentOnAccount)'
  BY <1>2 DEF IInv, OneAccountPerEmail, SpentOnAccount
<1> QED
  BY <1>1, <1>3, <1>4, <1>5 DEF IInv

(* The claim: whoever finds the invite unmarked is, by Marked, the first   *)
(* to get past it.                                                         *)
LEMMA ClaimKeeps == ASSUME IInv, NEW r \in Requests, Claim(r) PROVE IInv'
<1>1. TypeOK'
  BY DEF IInv, TypeOK, Known, UnderWay, Failed, Claim, Goto
<1>4. Known'
  BY DEF IInv, TypeOK, Known, UnderWay, Claim, Goto
<1>2. CASE TokenOf[r] \in redeemed
  <2>1. UNCHANGED <<invites, redeemed, users, creator>>
    BY <1>2 DEF Claim
  <2>2. \A q \in Requests : /\ pc'[q] \in Past => pc[q] \in Past
                            /\ pc'[q] \in {"created", "done"} => pc[q] \in {"created", "done"}
                            /\ pc[q] \in {"claimed", "error", "lost"} =>
                                 pc'[q] \in {"claimed", "error", "lost"}
    BY <1>2 DEF IInv, TypeOK, Past, Claim, Goto
  <2> QED
    BY <1>1, <1>4, <2>1, <2>2, MoveKeeps
<1>3. CASE TokenOf[r] \notin redeemed
  <2>1. /\ redeemed' = redeemed \cup {TokenOf[r]} /\ UNCHANGED <<users, creator>>
        /\ pc[r] = "hashed" /\ pc'[r] = "claimed"
        /\ \A q \in Requests : q # r => pc'[q] = pc[q]
    BY <1>3 DEF Claim, Goto, IInv, TypeOK
  <2>2. Marked'
    BY <2>1 DEF IInv, Marked
  <2>3. \A q \in Requests : q # r /\ TokenOf[q] = TokenOf[r] => pc'[q] \notin Past
    BY <1>3, <2>1 DEF IInv, Marked
  <2>4. OneClaimPerToken'
    BY <2>1, <2>3 DEF IInv, OneClaimPerToken, Past
  <2>5. Recorded' /\ OneAccountPerEmail'
    BY <2>1 DEF IInv, Recorded, OneAccountPerEmail, Email
  <2>6. SpentOnAccount'
    <3> SUFFICES ASSUME NEW t \in redeemed', EmailOf[t] \notin users
                 PROVE  \E q \in Requests : TokenOf[q] = t /\ pc'[q] \in {"claimed", "error", "lost"}
      BY <2>1 DEF SpentOnAccount
    <3>1. CASE t = TokenOf[r]
      BY <2>1, <3>1
    <3>2. CASE t # TokenOf[r]
      BY <2>1, <3>2 DEF IInv, SpentOnAccount
    <3> QED
      BY <3>1, <3>2
  <2> QED
    BY <1>1, <1>4, <2>2, <2>4, <2>5, <2>6 DEF IInv
<1> QED
  BY <1>2, <1>3

(* The insert: where there was no user, there was, by Recorded, no maker.  *)
LEMMA CreateKeeps == ASSUME IInv, NEW r \in Requests, CreateUser(r) PROVE IInv'
<1>1. TypeOK'
  BY EmailType DEF IInv, TypeOK, UnderWay, Failed, CreateUser, Goto
<1>2. \A q \in Requests : pc'[q] \in Past => pc[q] \in Past
  BY DEF IInv, TypeOK, Past, CreateUser, Goto
<1>3. Marked' /\ OneClaimPerToken'
  BY <1>2 DEF IInv, Marked, OneClaimPerToken, Past, CreateUser
<1>4. SpentOnAccount'
  <2>1. Email(r) \in users' /\ users \subseteq users' /\ redeemed' = redeemed
    BY DEF CreateUser
  <2>2. \A q \in Requests : q # r => pc'[q] = pc[q]
    BY DEF IInv, TypeOK, CreateUser, Goto
  <2> QED
    BY <2>1, <2>2 DEF IInv, SpentOnAccount, Email
<1>7. Known'
  BY DEF IInv, TypeOK, Known, UnderWay, CreateUser, Goto
<1>5. CASE Email(r) \in users
  <2>1. /\ UNCHANGED <<users, creator>>
        /\ \A q \in Requests : pc'[q] \in {"created", "done"} => pc[q] \in {"created", "done"}
    BY <1>5 DEF IInv, TypeOK, CreateUser, Goto
  <2>2. Recorded' /\ OneAccountPerEmail'
    BY <2>1 DEF IInv, Recorded, OneAccountPerEmail, Email
  <2> QED
    BY <1>1, <1>3, <1>4, <1>7, <2>2 DEF IInv
<1>6. CASE Email(r) \notin users
  <2>1. /\ users' = users \cup {Email(r)} /\ creator[Email(r)] = {}
        /\ creator'[Email(r)] = {r}
        /\ \A e \in Emails : e # Email(r) => creator'[e] = creator[e]
    BY <1>6, EmailType DEF IInv, TypeOK, Recorded, CreateUser
  <2>2. Recorded'
    BY <2>1 DEF IInv, Recorded
  <2>3. \A q \in Requests : q # r => pc'[q] = pc[q]
    BY DEF IInv, TypeOK, CreateUser, Goto
  <2>4. OneAccountPerEmail'
    BY <2>1, <2>3, EmailType DEF IInv, OneAccountPerEmail, Email
  <2> QED
    BY <1>1, <1>3, <1>4, <1>7, <2>2, <2>4 DEF IInv
<1> QED
  BY <1>5, <1>6

LEMMA StepKeeps == IInv /\ [Next]_vars => IInv'
<1> SUFFICES ASSUME IInv, [Next]_vars PROVE IInv'
  OBVIOUS
<1>1. CASE UNCHANGED vars
  <2>1. (TypeOK /\ Known /\ Marked /\ Recorded)'
    BY <1>1 DEF IInv, vars, TypeOK, Known, Marked, Recorded
  <2>2. (OneClaimPerToken /\ OneAccountPerEmail /\ SpentOnAccount)'
    BY <1>1 DEF IInv, vars, OneClaimPerToken, OneAccountPerEmail, SpentOnAccount
  <2> QED
    BY <2>1, <2>2 DEF IInv
<1>2. ASSUME NEW t \in Tokens, CreateInvite(t) PROVE IInv'
  BY <1>2, InviteKeeps
<1>3. ASSUME NEW r \in Requests, Redeem(r) PROVE IInv'
  BY <1>3, FindKeeps, ClaimKeeps, CreateKeeps DEF Redeem
<1>4. CASE Crash
  BY <1>4, CrashKeeps
<1> QED
  BY <1>1, <1>2, <1>3, <1>4 DEF Next

(* The inductive invariant holds throughout.                               *)
THEOREM Invariance == Spec => []IInv
  BY InitInvariant, StepKeeps, PTL DEF Spec

(* Type correctness.                                                       *)
THEOREM TypeCorrect == Spec => []TypeOK
<1>1. IInv => TypeOK
  BY DEF IInv
<1> QED
  BY <1>1, Invariance, PTL

(* Any number of simultaneous redemptions of a token: one gets past the    *)
(* claim.                                                                  *)
THEOREM ClaimIsExclusive == Spec => []OneClaimPerToken
<1>1. IInv => OneClaimPerToken
  BY DEF IInv
<1> QED
  BY <1>1, Invariance, PTL

(* Any number of invites for an address: one account, and who is told of   *)
(* it made it.                                                             *)
THEOREM AccountIsUnique == Spec => []OneAccountPerEmail
<1>1. IInv => OneAccountPerEmail
  BY DEF IInv
<1> QED
  BY <1>1, Invariance, PTL

(* No race of redemptions uses up an invite without an account.            *)
THEOREM InviteIsSpent == Spec => []SpentOnAccount
<1>1. IInv => SpentOnAccount
  BY DEF IInv
<1> QED
  BY <1>1, Invariance, PTL
=============================================================================
