----------------------------- MODULE WebSession -----------------------------
(***************************************************************************)
(* The session of a browser: the cookie all its tabs share, the middleware *)
(* that goes by the cookie's presence alone, the API that goes by whether  *)
(* its token is still accepted, and what the pages do about a 401 (req in  *)
(* web/src/lib/api.ts), a login and a sign-out.                            *)
(*                                                                         *)
(* All pages but the login page are one, "app", which asks the API for     *)
(* something when it is mounted. A request that changes the cookie does so *)
(* when its response comes, even if the document that sent it is gone.     *)
(***************************************************************************)
EXTENDS Integers

CONSTANTS
  Tabs,
  Slots,      \* bound: requests a tab has under way at once
  Tokens,
  NoToken,
  MaxClicks   \* bound: what the user does, on all tabs together

ASSUME TokenAssumption == NoToken \notin Tokens
ASSUME BoundAssumption == MaxClicks \in Nat

VARIABLES
  cookie,     \* access_token
  valid,      \* the tokens the API accepts
  page,       \* per tab, "login" or "app"
  reqs,       \* per tab and slot, the request under way
  clicks      \* how much the user has done

vars == <<cookie, valid, page, reqs, clicks>>

Pages == {"login", "app"}
Calls == Tabs \X Slots
None  == [kind |-> "none", token |-> NoToken, live |-> FALSE]

(* A request of the document that is open now, sent with this token.       *)
Call(kind, token) == [kind |-> kind, token |-> token, live |-> TRUE]

(* middleware(), for a request that carries c                              *)
Middleware(target, c) ==
  IF c = NoToken THEN "login" ELSE IF target = "login" THEN "app" ELSE target

(* What a page asks the API for when it is mounted.                        *)
Mounted(p, c) == IF p = "app" THEN Call("api", c) ELSE None

(* Tab x[1] loads a new document, with cookie c; what it asks for goes     *)
(* into slot x[2]. Whatever the old document still waits for goes on       *)
(* without it, and matters only for the cookie.                            *)
Document(x, target, c) ==
  LET p == Middleware(target, c)
  IN  /\ page' = [page EXCEPT ![x[1]] = p]
      /\ reqs' = [y \in Calls |->
                   IF y = x THEN Mounted(p, c)
                   ELSE IF y[1] # x[1] THEN reqs[y]
                   ELSE IF reqs[y].kind = "api" THEN None
                   ELSE [reqs[y] EXCEPT !.live = FALSE]]

(* router.replace: another page of the same document.                      *)
Replace(x, target, c) ==
  LET p == Middleware(target, c)
  IN  /\ page' = [page EXCEPT ![x[1]] = p]
      /\ reqs' = [reqs EXCEPT ![x] = Mounted(p, c)]

Settle(x) == reqs' = [reqs EXCEPT ![x] = None] /\ UNCHANGED page

Init ==
  /\ cookie = NoToken /\ valid = {} /\ clicks = 0
  /\ page = [t \in Tabs |-> "login"]
  /\ reqs = [x \in Calls |-> None]

-----------------------------------------------------------------------------
(* What the user does.                                                     *)

Click == clicks < MaxClicks /\ clicks' = clicks + 1

(* An address is entered, or the page is loaded again.                     *)
Visit(x, target) ==
  /\ Click
  /\ reqs[x].kind \in {"none", "api"}
  /\ Document(x, target, cookie)
  /\ UNCHANGED <<cookie, valid>>

Send(x, kind) ==
  /\ Click
  /\ reqs[x] = None
  /\ reqs' = [reqs EXCEPT ![x] = Call(kind, cookie)]
  /\ UNCHANGED <<cookie, valid, page>>

UseApi(x)  == page[x[1]] = "app" /\ Send(x, "api")
SignOut(x) == page[x[1]] = "app" /\ Send(x, "signout")

(* The form is blocked while its login is under way.                       *)
SubmitLogin(x) ==
  /\ page[x[1]] = "login"
  /\ \A n \in Slots : LET q == reqs[<<x[1], n>>] IN ~(q.kind = "login" /\ q.live)
  /\ Send(x, "login")

-----------------------------------------------------------------------------
(* What the API answers, and req() makes of it.                            *)

(* Whatever else the answer is, it is the page's own affair.              *)
Accepted(x) ==
  /\ reqs[x].kind = "api" /\ reqs[x].token \in valid
  /\ Settle(x)
  /\ UNCHANGED <<cookie, valid, clicks>>

(* Broken: the page is left for /login with the cookie as it is.           *)
RejectedRedirectsOnly(x) ==
  /\ reqs[x].kind = "api" /\ reqs[x].token \notin valid
  /\ Document(x, "login", cookie)
  /\ UNCHANGED <<cookie, valid, clicks>>

(* 401: POST /auth/logout, before anything else.                           *)
Rejected(x) ==
  /\ reqs[x].kind = "api" /\ reqs[x].token \notin valid
  /\ reqs' = [reqs EXCEPT ![x] = Call("clear", reqs[x].token)]
  /\ UNCHANGED <<cookie, valid, page, clicks>>

(* The logout that follows a 401 takes away whatever cookie there is by    *)
(* now; then the document is replaced.                                     *)
Cleared(x) ==
  /\ reqs[x].kind = "clear"
  /\ cookie' = NoToken
  /\ IF reqs[x].live THEN Document(x, "login", NoToken) ELSE Settle(x)
  /\ UNCHANGED <<valid, clicks>>

(* It fails, which is caught.                                              *)
ClearFails(x) ==
  /\ reqs[x].kind = "clear"
  /\ IF reqs[x].live THEN Document(x, "login", cookie) ELSE Settle(x)
  /\ UNCHANGED <<cookie, valid, clicks>>

(* No request carries the token yet that is signed now.                    *)
LoginSucceeds(x, k) ==
  /\ reqs[x].kind = "login"
  /\ k # cookie /\ \A y \in Calls : reqs[y].token # k
  /\ cookie' = k /\ valid' = valid \cup {k}
  /\ IF reqs[x].live THEN Replace(x, "app", k) ELSE Settle(x)
  /\ UNCHANGED clicks

(* Broken: req() treats its 401 like any other.                            *)
LoginRefusedLikeOthers(x) ==
  /\ reqs[x].kind = "login"
  /\ reqs' = [reqs EXCEPT ![x] = Call("clear", reqs[x].token)]
  /\ UNCHANGED <<cookie, valid, page, clicks>>

(* Wrong credentials, or no answer: the form says so.                      *)
LoginFails(x) ==
  /\ reqs[x].kind = "login"
  /\ Settle(x)
  /\ UNCHANGED <<cookie, valid, clicks>>

(* Broken: the cookie is made empty instead of being cleared.              *)
SignedOutBlank(x) ==
  /\ reqs[x].kind = "signout"
  /\ cookie' = ""
  /\ Settle(x)
  /\ UNCHANGED <<valid, clicks>>

SignedOut(x) ==
  /\ reqs[x].kind = "signout"
  /\ cookie' = NoToken
  /\ IF reqs[x].live THEN Replace(x, "login", NoToken) ELSE Settle(x)
  /\ UNCHANGED <<valid, clicks>>

(* An error nobody catches; the page stays.                                *)
SignOutFails(x) ==
  /\ reqs[x].kind = "signout"
  /\ Settle(x)
  /\ UNCHANGED <<cookie, valid, clicks>>

-----------------------------------------------------------------------------
(* The token expires before the cookie does, or the secret is changed.     *)
Expire(k) ==
  /\ k \in valid
  /\ valid' = valid \ {k}
  /\ UNCHANGED <<cookie, page, reqs, clicks>>

UserStep(x) == \/ \E target \in Pages : Visit(x, target)
               \/ UseApi(x) \/ SignOut(x) \/ SubmitLogin(x)
Answer(x)   == \/ Accepted(x) \/ Rejected(x) \/ Cleared(x) \/ ClearFails(x)
               \/ \E k \in Tokens : LoginSucceeds(x, k)
               \/ LoginFails(x) \/ SignedOut(x) \/ SignOutFails(x)

Next == \/ \E x \in Calls : UserStep(x) \/ Answer(x)
        \/ \E k \in Tokens : Expire(k)

Spec == Init /\ [][Next]_vars

(* Requests are answered, and a logout that is tried again and again       *)
(* succeeds in the end.                                                    *)
FairSpec ==
  /\ Spec
  /\ \A x \in Calls : WF_vars(Answer(x)) /\ SF_vars(Cleared(x))

-----------------------------------------------------------------------------
TypeOK ==
  /\ cookie \in Tokens \cup {NoToken} /\ valid \subseteq Tokens
  /\ page \in [Tabs -> Pages] /\ clicks \in 0..MaxClicks
  /\ reqs \in [Calls -> [kind : {"none", "api", "clear", "login", "signout"},
                         token : Tokens \cup {NoToken}, live : BOOLEAN]]

(* A request sent with another token than the cookie's, or with none, has  *)
(* been answered with 401.                                                 *)
Overtaken(x) == reqs[x].kind = "clear" /\ reqs[x].token # cookie

(* The step that ends a session that is still good answers a sign-out, or  *)
(* the logout after a 401 for another token, or for none, that came only   *)
(* after the login: no failed login and no request of the session itself   *)
(* ends it, whatever else is under way.                                    *)
EndsBy(x) == reqs'[x] = None /\ (reqs[x].kind = "signout" \/ Overtaken(x))
EndedByOthersOnly ==
  [][cookie' = NoToken /\ cookie \in valid => \E x \in Calls : EndsBy(x)]_vars

(* A page whose request was rejected ends on the login page, unless a new  *)
(* login has come between: "redirecting with a stale token would loop      *)
(* forever" (the comment in req), and so it must not.                      *)
NoRedirectLoop ==
  \A t \in Tabs :
    (\E n \in Slots : LET q == reqs[<<t, n>>] IN q.kind = "api" /\ q.token \notin valid)
      ~> (page[t] = "login" \/ cookie \in valid)
=============================================================================
