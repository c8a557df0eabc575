-------------------------- MODULE WebSessionProofs --------------------------
(***************************************************************************)
(* What a 401 may do to a session, for every number of tabs, requests and  *)
(* tokens. The types are inductive together with Refused: the token of a   *)
(* request that was answered with 401 is not accepted, and no login makes  *)
(* it accepted again. A cookie that is still accepted is therefore another *)
(* one than a request was refused for.                                     *)
(***************************************************************************)
EXTENDS WebSession, TLAPS

Requests == [kind : {"none", "api", "clear", "login", "signout"},
             token : Tokens \cup {NoToken}, live : BOOLEAN]

CookieType == /\ cookie \in Tokens \cup {NoToken} /\ valid \subseteq Tokens
              /\ clicks \in 0..MaxClicks
PageType   == page \in [Tabs -> Pages] /\ reqs \in [Calls -> Requests]

Refused == \A x \in Calls : reqs[x].kind = "clear" => reqs[x].token \notin valid

IInv == CookieType /\ PageType /\ Refused

LEMMA TypeIsTypeOK == TypeOK <=> CookieType /\ PageType
  BY DEF TypeOK, CookieType, PageType, Requests

LEMMA NoneType == None \in Requests
  BY DEF None, Requests

LEMMA CallType ==
  \A kind \in {"api", "clear", "login", "signout"}, token \in Tokens \cup {NoToken} :
    /\ Call(kind, token) \in Requests
    /\ Call(kind, token).kind = kind /\ Call(kind, token).token = token
  BY DEF Call, Requests

LEMMA MountedType ==
  ASSUME NEW target \in Pages, NEW c \in Tokens \cup {NoToken}
  PROVE  /\ Middleware(target, c) \in Pages
         /\ Mounted(Middleware(target, c), c) \in Requests
         /\ Mounted(Middleware(target, c), c).kind # "clear"
<1>1. Middleware(target, c) \in Pages
  BY DEF Middleware, Pages
<1>2. CASE Middleware(target, c) = "app"
  BY <1>1, <1>2, CallType DEF Mounted
<1>3. CASE Middleware(target, c) # "app"
  BY <1>1, <1>3, NoneType DEF Mounted, None
<1> QED
  BY <1>1, <1>2, <1>3

LEMMA TabOfCall == \A x \in Calls : x[1] \in Tabs
  BY DEF Calls

(* What a navigation leaves of the other requests: itself, nothing, or     *)
(* itself without its document.                                            *)
Descends(y) ==
  \/ reqs'[y] = reqs[y]
  \/ reqs'[y].kind # "clear"
  \/ reqs'[y].kind = reqs[y].kind /\ reqs'[y].token = reqs[y].token

LEMMA DocumentKeeps ==
  ASSUME IInv, NEW x \in Calls, NEW target \in Pages, NEW c \in Tokens \cup {NoToken},
         Document(x, target, c)
  PROVE  PageType' /\ \A y \in Calls : Descends(y)
<1>1. /\ Middleware(target, c) \in Pages
      /\ Mounted(Middleware(target, c), c) \in Requests
      /\ Mounted(Middleware(target, c), c).kind # "clear"
  BY MountedType
<1>2. page' \in [Tabs -> Pages]
  BY <1>1, TabOfCall DEF IInv, PageType, Document
<1>3. \A y \in Calls : reqs[y] \in Requests /\ [reqs[y] EXCEPT !.live = FALSE] \in Requests
  BY DEF IInv, PageType, Requests
<1>4. reqs' \in [Calls -> Requests]
  BY <1>1, <1>3, NoneType DEF Document
<1>5. ASSUME NEW y \in Calls PROVE Descends(y)
  <2>1. reqs[y] \in Requests
    BY <1>3
  <2>2. \/ reqs'[y] = Mounted(Middleware(target, c), c) \/ reqs'[y] = reqs[y]
        \/ reqs'[y] = None \/ reqs'[y] = [reqs[y] EXCEPT !.live = FALSE]
    BY DEF Document
  <2>3. None.kind # "clear"
    BY DEF None
  <2>4. LET q == [reqs[y] EXCEPT !.live = FALSE]
        IN  q.kind = reqs[y].kind /\ q.token = reqs[y].token
    BY <2>1 DEF Requests
  <2> QED
    BY <1>1, <2>2, <2>3, <2>4 DEF Descends
<1> QED
  BY <1>2, <1>4, <1>5 DEF PageType

LEMMA ReplaceKeeps ==
  ASSUME IInv, NEW x \in Calls, NEW target \in Pages, NEW c \in Tokens \cup {NoToken},
         Replace(x, target, c)
  PROVE  PageType' /\ \A y \in Calls : Descends(y)
<1>1. /\ Middleware(target, c) \in Pages
      /\ Mounted(Middleware(target, c), c) \in Requests
      /\ Mounted(Middleware(target, c), c).kind # "clear"
  BY MountedType
<1>2. PageType'
  BY <1>1, TabOfCall DEF IInv, PageType, Replace
<1>3. \A y \in Calls : reqs'[y] = reqs[y] \/ reqs'[y].kind # "clear"
  BY <1>1 DEF IInv, PageType, Replace
<1> QED
  BY <1>2, <1>3 DEF Descends

LEMMA SettleKeeps ==
  ASSUME IInv, NEW x \in Calls, Settle(x)
  PROVE  PageType' /\ \A y \in Calls : Descends(y)
<1>1. PageType'
  BY NoneType DEF IInv, PageType, Settle
<1>2. \A y \in Calls : reqs'[y] = reqs[y] \/ reqs'[y] = None
  BY DEF IInv, PageType, Settle
<1>3. None.kind # "clear"
  BY DEF None
<1> QED
  BY <1>1, <1>2, <1>3 DEF Descends

(* A request that is sent, and is none after a 401.                        *)
LEMMA SendKeeps ==
  ASSUME IInv, NEW x \in Calls, NEW kind \in {"api", "login", "signout"}, Send(x, kind)
  PROVE  IInv'
<1>1. Call(kind, cookie) \in Requests /\ Call(kind, cookie).kind # "clear"
  BY CallType DEF IInv, CookieType
<1>2. CookieType'
  BY BoundAssumption DEF IInv, CookieType, Send, Click
<1>3. PageType'
  BY <1>1 DEF IInv, PageType, Send
<1>4. Refused'
  BY <1>1 DEF IInv, PageType, Refused, Send
<1> QED
  BY <1>2, <1>3, <1>4 DEF IInv

(* Refused stays when nothing becomes accepted.                            *)
LEMMA RefusedKeeps ==
  ASSUME IInv, \A y \in Calls : Descends(y), valid' \subseteq valid
  PROVE  Refused'
  BY DEF IInv, PageType, Refused, Descends

LEMMA LoginKeeps ==
  ASSUME IInv, NEW x \in Calls, NEW k \in Tokens, LoginSucceeds(x, k)
  PROVE  IInv'
<1>1. PageType' /\ \A y \in Calls : Descends(y)
  <2>1. CASE reqs[x].live
    BY <2>1, ReplaceKeeps DEF LoginSucceeds, Pages
  <2>2. CASE ~reqs[x].live
    BY <2>2, SettleKeeps DEF LoginSucceeds
  <2> QED
    BY <2>1, <2>2
<1>2. CookieType'
  BY DEF IInv, CookieType, LoginSucceeds
<1>3. /\ \A y \in Calls : reqs[y].token # k
      /\ valid' = valid \cup {k}
  BY DEF LoginSucceeds
<1>4. ASSUME NEW y \in Calls, reqs'[y].kind = "clear" PROVE reqs'[y].token \notin valid'
  <2>1. reqs[y].kind = "clear" /\ reqs'[y].token = reqs[y].token
    BY <1>1, <1>4 DEF Descends
  <2> QED
    BY <1>3, <2>1 DEF IInv, Refused
<1> QED
  BY <1>1, <1>2, <1>4 DEF IInv, Refused

(* A 401 comes for a token that is not accepted, and the request keeps it. *)
LEMMA RejectedKeeps == ASSUME IInv, NEW x \in Calls, Rejected(x) PROVE IInv'
<1>1. reqs[x] \in Requests
  BY DEF IInv, PageType
<1>2. /\ Call("clear", reqs[x].token) \in Requests
      /\ Call("clear", reqs[x].token).token = reqs[x].token
  BY <1>1, CallType DEF Requests
<1>3. CookieType' /\ PageType'
  BY <1>2 DEF IInv, CookieType, PageType, Rejected
<1>4. Refused'
  BY <1>2 DEF IInv, PageType, Refused, Rejected
<1> QED
  BY <1>3, <1>4 DEF IInv

LEMMA CookieKeeps ==
  ASSUME IInv, NEW x \in Calls,
         Cleared(x) \/ ClearFails(x) \/ SignedOut(x) \/ SignOutFails(x) \/ LoginFails(x)
           \/ Accepted(x)
  PROVE  IInv'
<1>1. PageType' /\ \A y \in Calls : Descends(y)
  <2>1. \/ Settle(x) \/ Replace(x, "login", NoToken)
        \/ Document(x, "login", NoToken) \/ Document(x, "login", cookie)
    BY DEF Cleared, ClearFails, SignedOut, SignOutFails, LoginFails, Accepted
  <2> QED
    BY <2>1, SettleKeeps, ReplaceKeeps, DocumentKeeps DEF IInv, CookieType, Pages
<1>2. CookieType' /\ valid' = valid
  BY DEF IInv, CookieType, Cleared, ClearFails, SignedOut, SignOutFails, LoginFails, Accepted
<1> QED
  BY <1>1, <1>2, RefusedKeeps DEF IInv

LEMMA VisitKeeps ==
  ASSUME IInv, NEW x \in Calls, NEW target \in Pages, Visit(x, target) PROVE IInv'
<1>1. PageType' /\ \A y \in Calls : Descends(y)
  BY DocumentKeeps DEF IInv, CookieType, Visit
<1>2. CookieType' /\ valid' = valid
  BY BoundAssumption DEF IInv, CookieType, Visit, Click
<1> QED
  BY <1>1, <1>2, RefusedKeeps DEF IInv

LEMMA InitInvariant == Init => IInv
<1> SUFFICES ASSUME Init PROVE IInv
  OBVIOUS
<1>1. CookieType
  BY BoundAssumption DEF Init, CookieType
<1>2. PageType
  BY NoneType DEF Init, PageType, Pages
<1>3. Refused
  BY DEF Init, Refused, None
<1> QED
  BY <1>1, <1>2, <1>3 DEF IInv

LEMMA NextInvariant == IInv /\ [Next]_vars => IInv'
<1> SUFFICES ASSUME IInv, [Next]_vars PROVE IInv'
  OBVIOUS
<1>1. CASE \E x \in Calls : UserStep(x)
  BY <1>1, VisitKeeps, SendKeeps DEF UserStep, UseApi, SignOut, SubmitLogin
<1>2. CASE \E x \in Calls : Answer(x)
  BY <1>2, RejectedKeeps, LoginKeeps, CookieKeeps DEF Answer
<1>3. CASE \E k \in Tokens : Expire(k)
  <2>1. CookieType' /\ PageType'
    BY <1>3 DEF IInv, CookieType, PageType, Expire
  <2>2. Refused'
    BY <1>3 DEF IInv, Refused, Expire
  <2> QED
    BY <2>1, <2>2 DEF IInv
<1>4. CASE UNCHANGED vars
  BY <1>4 DEF vars, IInv, CookieType, PageType, Refused
<1> QED
  BY <1>1, <1>2, <1>3, <1>4 DEF Next

LEMMA Invariant == Spec => []IInv
  BY InitInvariant, NextInvariant, PTL DEF Spec

(* For every number of tabs, requests and tokens: the cookie is a token    *)
(* or none, and every request has a token and a purpose.                   *)
THEOREM SessionTypes == Spec => []TypeOK
<1>1. IInv => TypeOK
  BY TypeIsTypeOK DEF IInv
<1> QED
  BY <1>1, Invariant, PTL

(* A request that has been answered and leads to the login page leaves     *)
(* nothing in its slot.                                                    *)
LEMMA SlotIsFree ==
  ASSUME IInv, NEW x \in Calls,
         \/ Document(x, "login", NoToken) \/ Replace(x, "login", NoToken) \/ Settle(x)
  PROVE  reqs'[x] = None
<1>1. x \in DOMAIN reqs
  BY DEF IInv, PageType
<1>2. Mounted(Middleware("login", NoToken), NoToken) = None
  BY DEF Mounted, Middleware
<1> QED
  BY <1>1, <1>2 DEF Document, Replace, Settle

(* The cookie of a session that is still good is only taken away by a      *)
(* step of a sign-out, or of a 401 for another cookie.                     *)
LEMMA StepEndsByOthers ==
  ASSUME IInv, [Next]_vars, cookie' = NoToken, cookie \in valid
  PROVE  \E x \in Calls : EndsBy(x)
<1>1. cookie \in Tokens /\ cookie # cookie'
  BY TokenAssumption DEF IInv, CookieType
<1>2. CASE \E x \in Calls : UserStep(x)
  BY <1>1, <1>2 DEF UserStep, Visit, UseApi, SignOut, SubmitLogin, Send
<1>3. ASSUME NEW x \in Calls, Answer(x)
      PROVE  EndsBy(x)
  <2>1. Cleared(x) \/ SignedOut(x) \/ \E k \in Tokens : LoginSucceeds(x, k)
    BY <1>1, <1>3 DEF Answer, Accepted, Rejected, ClearFails, LoginFails, SignOutFails
  <2>2. CASE Cleared(x)
    <3>1. Overtaken(x)
      BY <2>2 DEF IInv, Refused, Cleared, Overtaken
    <3>2. reqs'[x] = None
      BY <2>2, SlotIsFree DEF Cleared
    <3> QED
      BY <3>1, <3>2 DEF EndsBy
  <2>3. CASE SignedOut(x)
    BY <2>3, SlotIsFree DEF SignedOut, EndsBy
  <2>4. CASE \E k \in Tokens : LoginSucceeds(x, k)
    BY <2>4, TokenAssumption DEF LoginSucceeds
  <2> QED
    BY <2>1, <2>2, <2>3, <2>4
<1>4. CASE \E k \in Tokens : Expire(k)
  BY <1>1, <1>4 DEF Expire
<1>5. CASE UNCHANGED vars
  BY <1>1, <1>5 DEF vars
<1> QED
  BY <1>2, <1>3, <1>4, <1>5 DEF Next

(* For every number of tabs, requests and tokens: a session that is still  *)
(* good is ended by the answer to a sign-out or by a 401 for another       *)
(* token, never by a failed login or by a request of its own.              *)
THEOREM GoodSessionsEndByOthersOnly == Spec => EndedByOthersOnly
<1>1. IInv /\ [Next]_vars =>
        (cookie' = NoToken /\ cookie \in valid =>
           \E x \in Calls : EndsBy(x))
  BY StepEndsByOthers
<1>2. IInv /\ [Next]_vars =>
        [cookie' = NoToken /\ cookie \in valid =>
           \E x \in Calls : EndsBy(x)]_vars
  BY <1>1
<1> QED
  BY <1>2, Invariant, PTL DEF Spec, EndedByOthersOnly
=============================================================================
