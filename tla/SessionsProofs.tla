--------------------------- MODULE SessionsProofs ---------------------------
(***************************************************************************)
(* Sessions for any number of accounts, replicas and requests and any      *)
(* clocks that differ by at most Spread: who is let in where.              *)
(***************************************************************************)
EXTENDS Sessions, TLAPS

Shape == [state : {"handler", "deleting"} \cup Answer, target : Method \cup Route,
          token : AppToken \cup Cookie \cup Garbage \cup {None}, at : Int, gone : SUBSET Account,
          failed : BOOLEAN]

NoReturn == alive \cap gone = {} /\ gone \subseteq Business

(* A token is of an account that was registered, a cookie expires an hour   *)
(* after its login by the clock of some replica, up to a second.            *)
Issued(t, registered) ==
  \/ t \in AppToken /\ t.account \in registered
  \/ /\ t \in Cookie
     /\ \E n \in Replica : /\ t.exp <= t.login + Offset[n] + Hour
                           /\ t.exp > t.login + Offset[n] + Hour - Second

(* How far a request may have come with its token.                          *)
SessionChecked(q, tokens, dead) ==
  /\ q.state = "handler" => q.token \in tokens
  /\ q.state \in Admitted => MayCall(q.token, q.target) /\ q.token.account \notin q.gone
  /\ q.state = "unauthenticated" => ~MayCall(q.token, q.target)
  /\ q.state = "denied" /\ MayCall(q.token, q.target) => q.token.account \in dead \/ q.failed

CookieChecked(q) ==
  /\ q.state \in {"served", "forbidden"}
  /\ q.state = "served" => /\ q.token \in Cookie
                           /\ q.at - q.token.login < Hour + Spread
  /\ q.state = "forbidden" /\ q.token \in Cookie => q.at - q.token.login > Hour - Second - Spread

Checked(q, tokens, dead) ==
  /\ q.token \in tokens \cup Garbage \cup {None}
  /\ q.gone \subseteq dead
  /\ q.state = "deleting" => q.target = "DeleteBusinessUser"
  /\ q.target \in Endpoint \ Public => SessionChecked(q, tokens, dead)
  /\ q.target \in Route \ {"login"} => CookieChecked(q)
  /\ q.target = "login" => q.token = None /\ q.state \in {"served", "unauthenticated"}

SInv ==
  /\ now \in Nat /\ alive \subseteq Account /\ gone \subseteq Account
  /\ NoReturn
  /\ \A t \in issued : Issued(t, alive \cup gone)
  /\ req \in [Req -> {Idle} \cup Shape]
  /\ \A r \in Req : req[r] # Idle => Checked(req[r], issued, gone)
-----------------------------------------------------------------------------
LEMMA Kinds ==
  ASSUME NEW t
  PROVE  /\ t \in AppToken => t \notin Cookie /\ t \notin Garbage /\ t # None
         /\ t \in Cookie => t \notin Garbage
  BY NoneAssumption DEF AppToken, Cookie, Garbage

(* Nothing that others do takes back what a request has come through.       *)
LEMMA CheckedStays ==
  ASSUME NEW I, NEW J, NEW G, NEW H, I \subseteq J, G \subseteq H,
         NEW q \in Shape, Checked(q, I, G)
  PROVE  Checked(q, J, H)
  BY DEF Checked, SessionChecked, CookieChecked

LEMMA IssuedStays ==
  ASSUME NEW A, NEW B, A \subseteq B, NEW t, Issued(t, A)
  PROVE  Issued(t, B)
  BY DEF Issued

(* authorizeSession admits exactly the sessions an endpoint is for, while   *)
(* their accounts exist.                                                    *)
LEMMA AuthorizedIffEntitled ==
  ASSUME SInv, NEW r \in Req, req[r] # Idle, req[r].state = "handler",
         req[r].target \notin {"CreateBusinessUser", "CreateSession"}
  PROVE  /\ req[r].target \in Endpoint \ Public
         /\ Authorized(r) <=> MayCall(req[r].token, req[r].target) /\ req[r].token.account \in alive
  <1>1. req[r] \in Shape /\ Checked(req[r], issued, gone) BY DEF SInv
  <1>2. req[r].target \in Endpoint \ Public
    BY <1>1, MethodAssumption DEF Shape, Checked, CookieChecked, Endpoint, Route, Public
  <1>3. req[r].token \in issued BY <1>1, <1>2 DEF Checked, SessionChecked
  <1>4. CASE req[r].token \in AppToken
    <2>1. ClaimsFromCtx(r) = req[r].token.account
      BY <1>2, <1>4 DEF ClaimsFromCtx, Whitelist, FullMethod, AsSession, AppToken, Public
    <2>2. req[r].token.account \in Account /\ req[r].token.account # None
      BY <1>4, AccountAssumption DEF AppToken, Account
    <2>3. Kind(req[r].token.account) \in Admits(req[r].target)
            <=> req[r].target \in ForEverybody \/ req[r].token.account \in Business
      BY DEF Kind, Admits, ForEverybody
    <2> QED BY <1>2, <1>4, <2>1, <2>2, <2>3 DEF Authorized, Claimed, MayCall
  <1>5. CASE req[r].token \in Cookie
    <2>1. ClaimsFromCtx(r) = None
      BY <1>2, <1>5 DEF ClaimsFromCtx, Whitelist, FullMethod, AsSession, Cookie, Public
    <2>2. req[r].token \notin AppToken BY <1>5, Kinds
    <2> QED BY <1>2, <2>1, <2>2 DEF Authorized, Claimed, MayCall
  <1> QED BY <1>3, <1>4, <1>5 DEF SInv, Issued

(* One request changes, the others stay as they have come.                  *)
LEMMA RequestStep ==
  ASSUME SInv, issued \subseteq issued', gone \subseteq gone',
         NEW r \in Req, NEW q \in {Idle} \cup Shape, req' = [req EXCEPT ![r] = q],
         q # Idle => Checked(q, issued', gone')
  PROVE  /\ req' \in [Req -> {Idle} \cup Shape]
         /\ \A o \in Req : req'[o] # Idle => Checked(req'[o], issued', gone')
  <1>1. req' \in [Req -> {Idle} \cup Shape] BY DEF SInv
  <1>2. ASSUME NEW o \in Req, o # r, req'[o] # Idle PROVE Checked(req'[o], issued', gone')
    <2>1. req'[o] = req[o] /\ req[o] \in Shape /\ Checked(req[o], issued, gone) BY <1>2 DEF SInv
    <2> QED BY <2>1, CheckedStays
  <1>3. req'[r] = q BY DEF SInv
  <1> QED BY <1>1, <1>2, <1>3

(* Tokens are added, accounts at most move to those that are gone.          *)
LEMMA TokensStep ==
  ASSUME SInv, alive \cup gone \subseteq alive' \cup gone',
         \A t \in issued' \ issued : Issued(t, alive' \cup gone')
  PROVE  \A t \in issued' : Issued(t, alive' \cup gone')
  BY IssuedStays DEF SInv

(* The answer to a request that has not changed otherwise.                  *)
LEMMA Answered ==
  ASSUME SInv, NEW r \in Req, req[r] # Idle, NEW answer \in {"handler", "deleting"} \cup Answer,
         Reply(r, answer)
  PROVE  /\ req' = [req EXCEPT ![r] = [req[r] EXCEPT !.state = answer]]
         /\ [req[r] EXCEPT !.state = answer] \in Shape
         /\ [req[r] EXCEPT !.state = answer].state = answer
         /\ [req[r] EXCEPT !.state = answer].target = req[r].target
         /\ [req[r] EXCEPT !.state = answer].token = req[r].token
         /\ [req[r] EXCEPT !.state = answer].at = req[r].at
         /\ [req[r] EXCEPT !.state = answer].gone = req[r].gone
  BY DEF SInv, Shape, Reply

(* The interceptor lets a request on with a token of either service only.   *)
LEMMA DispatchStep ==
  ASSUME SInv, NEW r \in Req, NEW m \in Method, NEW t \in Presented, Dispatch(r, m, t)
  PROVE  SInv'
  <1>1. m \in Endpoint /\ m \notin Route BY MethodAssumption DEF Endpoint, Route
  <1>2. req' = [req EXCEPT ![r] = Received(Intercept(m, t), m, t)]
        /\ UNCHANGED <<now, alive, gone, issued>>
    BY DEF Dispatch
  <1>3. Received(Intercept(m, t), m, t) \in Shape
    BY DEF SInv, Issued, Received, Intercept, Shape, Answer, Presented
  <1>4. Checked(Received(Intercept(m, t), m, t), issued, gone)
    <2>1. m \notin Public => (Intercept(m, t) = "handler" /\ t \in issued)
                              \/ (Intercept(m, t) = "unauthenticated" /\ t \notin issued)
      BY DEF Intercept, FullMethod, Whitelist, Public
    <2>2. t \notin issued => t \notin AppToken BY Kinds DEF Presented
    <2>3. Intercept(m, t) \in {"handler", "unauthenticated"} BY DEF Intercept
    <2> QED BY <1>1, <2>1, <2>2, <2>3
        DEF Checked, SessionChecked, CookieChecked, Admitted, Received, MayCall, Presented, Route
  <1>5. /\ req' \in [Req -> {Idle} \cup Shape]
        /\ \A o \in Req : req'[o] # Idle => Checked(req'[o], issued', gone')
    BY <1>2, <1>3, <1>4, RequestStep
  <1> QED BY <1>2, <1>5 DEF SInv, NoReturn

(* Signing in hands out a token of an account that is there.                *)
LEMMA SignInStep ==
  ASSUME SInv, NEW r \in Req, CreateBusinessUser(r) \/ CreateSession(r)
  PROVE  SInv'
  <1>1. /\ req[r] # Idle /\ req[r].target \in Public
        /\ UNCHANGED <<now, gone>>
        /\ alive \subseteq alive' /\ alive' \subseteq Account /\ alive' \cap gone = {}
        /\ issued \subseteq issued' /\ \A t \in issued' \ issued : t \in AppToken /\ t.account \in alive'
    BY DEF CreateBusinessUser, CreateSession, InHandler, SignIn, Public, Idle, SInv, NoReturn, Account, AppToken
  <1>2. Reply(r, "served") \/ Reply(r, "unauthenticated") \/ Reply(r, "error")
    BY DEF CreateBusinessUser, CreateSession, SignIn
  <1>3. ASSUME NEW answer \in {"served", "unauthenticated", "error"}, Reply(r, answer)
        PROVE  /\ req' \in [Req -> {Idle} \cup Shape]
               /\ \A o \in Req : req'[o] # Idle => Checked(req'[o], issued', gone')
    <2> DEFINE q == [req[r] EXCEPT !.state = answer]
    <2>1. /\ req' = [req EXCEPT ![r] = q] /\ q \in Shape /\ q.state = answer
          /\ q.target = req[r].target /\ q.token = req[r].token /\ q.gone = req[r].gone
      BY <1>1, <1>3, Answered, ZenonT(60) DEF Answer
    <2> HIDE DEF q
    <2>2. Checked(req[r], issued, gone) BY <1>1 DEF SInv
    <2>3. Checked(q, issued', gone')
      BY <1>1, <2>1, <2>2 DEF Checked, Public, Route
    <2> QED BY <1>1, <2>1, <2>3, RequestStep
  <1>4. \A t \in issued' : Issued(t, alive' \cup gone')
    BY <1>1, TokensStep DEF Issued
  <1> QED BY <1>1, <1>2, <1>3, <1>4 DEF SInv, NoReturn

(* Whichever way authorizeSession ends: let in are the entitled, turned     *)
(* away the others and those whose lookup has failed.                       *)
LEMMA AuthorizeStep ==
  ASSUME SInv, NEW r \in Req, AuthorizeSession(r)
  PROVE  SInv'
  <1> DEFINE entitled == MayCall(req[r].token, req[r].target) /\ req[r].token.account \in alive
  <1>1. /\ req[r] # Idle /\ req[r].state = "handler"
        /\ req[r].target \notin {"CreateBusinessUser", "CreateSession"}
        /\ UNCHANGED <<now, alive, gone, issued>>
    BY DEF AuthorizeSession, Idle
  <1>2. req[r].target \in Endpoint \ Public /\ (Authorized(r) <=> entitled)
    BY <1>1, AuthorizedIffEntitled
  <1>3. req[r] \in Shape /\ Checked(req[r], issued, gone) BY <1>1 DEF SInv
  <1> DEFINE Outcome(q) ==
               /\ req' = [req EXCEPT ![r] = q]
               /\ q.target = req[r].target /\ q.token = req[r].token /\ q.gone = req[r].gone
               /\ \/ entitled /\ q.state \in {"deleting", "served"}
                  \/ q.state = "denied" /\ (~entitled \/ q.failed)
               /\ q.state = "deleting" => q.target = "DeleteBusinessUser"
  <1>4. PICK q \in Shape : Outcome(q)
    <2>1. ASSUME NEW answer \in {"deleting", "served", "denied"}, Reply(r, answer),
                 answer = "deleting" => req[r].target = "DeleteBusinessUser",
                 answer = "denied" <=> ~entitled
          PROVE  \E q \in Shape : Outcome(q)
      <3> DEFINE q == [req[r] EXCEPT !.state = answer]
      <3>1. /\ req' = [req EXCEPT ![r] = q] /\ q \in Shape /\ q.state = answer
            /\ q.target = req[r].target /\ q.token = req[r].token /\ q.gone = req[r].gone
        BY <1>1, <2>1, Answered, ZenonT(60) DEF Answer
      <3> HIDE DEF q
      <3> QED BY <2>1, <3>1
    <2>2. ASSUME LookupFails(r) PROVE \E q \in Shape : Outcome(q)
      <3> DEFINE q == [req[r] EXCEPT !.state = "denied", !.failed = TRUE]
      <3>1. req' = [req EXCEPT ![r] = q] BY <2>2 DEF LookupFails
      <3>2. /\ q \in Shape /\ q.state = "denied" /\ q.failed
            /\ q.target = req[r].target /\ q.token = req[r].token /\ q.gone = req[r].gone
        BY <1>3 DEF Shape, Answer
      <3> HIDE DEF q
      <3> QED BY <3>1, <3>2
    <2>3. CASE Authorized(r) /\ Reply(r, IF req[r].target = "DeleteBusinessUser" THEN "deleting" ELSE "served")
      BY <1>2, <2>1, <2>3
    <2>4. CASE ~Authorized(r) /\ Reply(r, "denied") BY <1>2, <2>1, <2>4
    <2> QED BY <2>2, <2>3, <2>4 DEF AuthorizeSession
  <1> HIDE DEF entitled
  <1>5. \/ req[r].token \in issued /\ req[r].token.account \in alive \cup gone
        \/ ~MayCall(req[r].token, req[r].target)
    BY <1>1, <1>2, <1>3, Kinds DEF Checked, SessionChecked, SInv, Issued, MayCall
  <1>6. req[r].target \notin Route BY <1>2 DEF Endpoint, Route
  <1>7. Checked(q, issued, gone)
    BY <1>2, <1>3, <1>4, <1>5, <1>6 DEF Checked, SessionChecked, Admitted, Route, SInv, NoReturn, entitled
  <1>8. /\ req' \in [Req -> {Idle} \cup Shape]
        /\ \A o \in Req : req'[o] # Idle => Checked(req'[o], issued', gone')
    BY <1>1, <1>4, <1>7, RequestStep
  <1> QED BY <1>1, <1>8 DEF SInv, NoReturn

LEMMA DeleteStep ==
  ASSUME SInv, NEW r \in Req, DeleteBusinessUser(r)
  PROVE  SInv'
  <1> DEFINE a == req[r].token.account
  <1>1. /\ req[r] # Idle /\ req[r].state = "deleting" /\ UNCHANGED <<now, issued>>
        /\ \/ alive' = alive \ {a} /\ gone' = gone \cup {a}
           \/ UNCHANGED <<alive, gone>>
    BY DEF DeleteBusinessUser, Idle
  <1>2. PICK answer \in {"served", "error"} : Reply(r, answer) BY DEF DeleteBusinessUser
  <1>3. req[r] \in Shape /\ Checked(req[r], issued, gone) BY <1>1 DEF SInv
  <1>4. req[r].target \in Endpoint \ Public
    BY <1>1, <1>3 DEF Checked, Endpoint, Public
  <1>5. req[r].target = "DeleteBusinessUser" /\ a \in Business
    BY <1>1, <1>3, <1>4 DEF Checked, SessionChecked, Admitted, MayCall, ForEverybody
  <1> DEFINE q == [req[r] EXCEPT !.state = answer]
  <1>6. /\ req' = [req EXCEPT ![r] = q] /\ q \in Shape /\ q.state = answer
        /\ q.target = req[r].target /\ q.token = req[r].token /\ q.gone = req[r].gone
    BY <1>1, <1>2, Answered, ZenonT(60) DEF Answer
  <1> HIDE DEF q
  <1>7. Checked(q, issued', gone')
    BY <1>1, <1>2, <1>3, <1>4, <1>5, <1>6 DEF Checked, SessionChecked, Admitted, Route
  <1>8. /\ req' \in [Req -> {Idle} \cup Shape]
        /\ \A o \in Req : req'[o] # Idle => Checked(req'[o], issued', gone')
    BY <1>1, <1>6, <1>7, RequestStep
  <1>9. \A t \in issued' : Issued(t, alive' \cup gone') BY <1>1, TokensStep
  <1> QED BY <1>1, <1>5, <1>8, <1>9 DEF SInv, NoReturn, Account

(* An expiry loses at most the fraction of a second.                        *)
LEMMA Expiry ==
  ASSUME NEW e \in Nat
  PROVE  NumericDate(e) \in Int /\ NumericDate(e) <= e /\ NumericDate(e) > e - Second
  <1>1. Second \in Nat \ {0} BY ClockAssumption
  <1>2. e % Second \in 0 .. (Second - 1) BY <1>1
  <1> QED BY <1>1, <1>2 DEF NumericDate

LEMMA LoginStep ==
  ASSUME SInv, NEW r \in Req, NEW n \in Replica, LoginHandler(r, n)
  PROVE  SInv'
  <1> DEFINE c == [username |-> "admin", exp |-> NumericDate(Clock(n) + Hour), login |-> now]
  <1>1. now \in Nat BY DEF SInv
  <1>a. Clock(n) + Hour = now + Offset[n] + Hour /\ Clock(n) + Hour \in Nat
    BY <1>1, ClockAssumption DEF Clock
  <1>b. /\ c.exp \in Int /\ c.exp <= c.login + Offset[n] + Hour
        /\ c.exp > c.login + Offset[n] + Hour - Second
    <2>1. PICK e \in Nat : e = Clock(n) + Hour BY <1>a
    <2>2. c.exp = NumericDate(e) /\ c.login = now BY <2>1
    <2>3. NumericDate(e) \in Int /\ NumericDate(e) <= e /\ NumericDate(e) > e - Second BY Expiry
    <2> HIDE DEF c
    <2>4. c.exp \in Int /\ c.exp <= e /\ c.exp > e - Second BY <2>2, <2>3
    <2>5. e = c.login + Offset[n] + Hour BY <1>a, <2>1, <2>2
    <2>6. Offset[n] \in Nat /\ Hour \in Nat /\ Second \in Nat /\ c.login \in Nat
      BY <1>1, <2>2, ClockAssumption
    <2> QED BY <2>4, <2>5, <2>6
  <1>c. c \in Cookie BY <1>1, <1>b DEF Cookie
  <1>2. c \in Cookie /\ Issued(c, alive \cup gone) BY <1>b, <1>c DEF Issued
  <1>3. PICK answer \in {"served", "unauthenticated"} :
          /\ req' = [req EXCEPT ![r] = Received(answer, "login", None)]
          /\ issued' = issued \/ issued' = issued \cup {c}
          /\ UNCHANGED <<now, alive, gone>>
    BY DEF LoginHandler
  <1>4. /\ Received(answer, "login", None) \in Shape
        /\ Checked(Received(answer, "login", None), issued', gone')
    BY <1>1, <1>3 DEF SInv, Received, Shape, Answer, Route, Checked, Endpoint
  <1>5. /\ req' \in [Req -> {Idle} \cup Shape]
        /\ \A o \in Req : req'[o] # Idle => Checked(req'[o], issued', gone')
    BY <1>3, <1>4, RequestStep
  <1> HIDE DEF c
  <1>6. \A t \in issued' : Issued(t, alive' \cup gone') BY <1>2, <1>3, TokensStep
  <1> QED BY <1>3, <1>5, <1>6 DEF SInv, NoReturn

(* The panel opens for cookies that have not expired by the clock of the    *)
(* replica that answers.                                                    *)
LEMMA RouteStep ==
  ASSUME SInv, NEW r \in Req, NEW route \in Route, NEW t \in Presented, NEW n \in Replica,
         AuthorizedRoute(r, route, t, n)
  PROVE  SInv'
  <1>1. now \in Nat /\ Offset[n] \in Nat /\ route # "login" /\ route \notin Endpoint
    BY ClockAssumption DEF SInv, AuthorizedRoute, Endpoint, Route
  <1>2. PICK answer \in {"served", "forbidden"} :
          /\ answer = "served" <=> AdminAuthorized(t, n)
          /\ req' = [req EXCEPT ![r] = Received(answer, route, t)]
    BY DEF AuthorizedRoute
  <1>3. /\ UNCHANGED <<now, gone, issued>>
        /\ alive \subseteq alive' /\ alive' \subseteq alive \cup Inspectors
    BY DEF AuthorizedRoute
  <1>4. answer = "served" => t \in Cookie /\ now - t.login < Hour + Spread
    <2> SUFFICES ASSUME AdminAuthorized(t, n) PROVE t \in Cookie /\ now - t.login < Hour + Spread BY <1>2
    <2>1. t \in issued /\ AsAdmin(t).exp > Clock(n) BY DEF AdminAuthorized
    <2>2. t \notin AppToken BY <1>1, <2>1 DEF AsAdmin, AppToken, Clock
    <2>3. PICK m \in Replica : t \in Cookie /\ t.exp <= t.login + Offset[m] + Hour
      BY <2>1, <2>2 DEF SInv, Issued
    <2>4. t.exp > now + Offset[n] BY <2>1, <2>3 DEF AsAdmin, Cookie, Clock
    <2>5. Offset[m] - Offset[n] <= Spread /\ Offset[m] \in Nat /\ Hour \in Nat /\ Spread \in Nat
      BY ClockAssumption
    <2>6. t.login \in Int /\ t.exp \in Int BY <2>3 DEF Cookie
    <2>7. now - t.login < Hour + Spread BY <1>1, <2>3, <2>4, <2>5, <2>6
    <2> QED BY <2>3, <2>7
  <1>5. answer = "forbidden" /\ t \in Cookie => now - t.login > Hour - Second - Spread
    <2> SUFFICES ASSUME ~AdminAuthorized(t, n), t \in Cookie PROVE now - t.login > Hour - Second - Spread BY <1>2
    <2>1. t \in issued /\ t \notin AppToken BY Kinds, NoneAssumption DEF Presented, Cookie
    <2>2. PICK m \in Replica : t.exp > t.login + Offset[m] + Hour - Second
      BY <2>1 DEF SInv, Issued
    <2>3. ~(t.exp > now + Offset[n]) BY <2>1 DEF AdminAuthorized, AsAdmin, Cookie, Clock
    <2>4. /\ Offset[n] - Offset[m] <= Spread /\ Offset[m] \in Nat /\ Hour \in Nat
          /\ Spread \in Nat /\ Second \in Nat
      BY ClockAssumption
    <2>5. t.login \in Int /\ t.exp \in Int BY DEF Cookie
    <2> QED BY <1>1, <2>2, <2>3, <2>4, <2>5
  <1>6. Received(answer, route, t) \in Shape
    BY <1>1 DEF SInv, Issued, Received, Shape, Answer, Presented
  <1>7. Checked(Received(answer, route, t), issued, gone)
    BY <1>1, <1>4, <1>5 DEF Received, Checked, CookieChecked, Presented
  <1>8. /\ req' \in [Req -> {Idle} \cup Shape]
        /\ \A o \in Req : req'[o] # Idle => Checked(req'[o], issued', gone')
    BY <1>2, <1>3, <1>6, <1>7, RequestStep
  <1>9. \A x \in issued' : Issued(x, alive' \cup gone') BY <1>3, TokensStep
  <1>10. alive' \subseteq Account /\ NoReturn'
    BY <1>3, AccountAssumption DEF SInv, NoReturn, Account
  <1> QED BY <1>1, <1>3, <1>8, <1>9, <1>10 DEF SInv

LEMMA SInvStep == SInv /\ [Next]_vars => SInv'
  <1> SUFFICES ASSUME SInv, [Next]_vars PROVE SInv' OBVIOUS
  <1>1. CASE UNCHANGED vars BY <1>1 DEF vars, SInv, NoReturn
  <1>2. CASE Tick
    <2>1. now' \in Nat /\ UNCHANGED <<alive, gone, issued, req>> BY <1>2 DEF Tick, SInv
    <2> QED BY <2>1 DEF SInv, NoReturn
  <1>3. ASSUME NEW r \in Req, Finish(r) PROVE SInv'
    <2>1. /\ req' \in [Req -> {Idle} \cup Shape]
          /\ \A o \in Req : req'[o] # Idle => Checked(req'[o], issued', gone')
      BY <1>3, RequestStep DEF Finish
    <2> QED BY <1>3, <2>1 DEF Finish, SInv, NoReturn
  <1> QED BY <1>1, <1>2, <1>3, DispatchStep, SignInStep, AuthorizeStep, DeleteStep, LoginStep, RouteStep DEF Next

LEMMA InitSInv == Init => SInv
  BY DEF Init, SInv, NoReturn

LEMMA SInvInvariant == Spec => []SInv
  BY InitSInv, SInvStep, PTL DEF Spec

(* Every endpoint lets in those it is for and nobody else, and turns one of *)
(* them away only if the account is gone or its lookup has failed, for any  *)
(* number of accounts, tokens and concurrent requests.                      *)
THEOREM EndpointsAreGuarded == Spec => []EndpointsGuarded
  <1>1. SInv => EndpointsGuarded
    <2> SUFFICES ASSUME SInv, NEW r \in Req, req[r] # Idle, req[r].target \in Endpoint \ Public
                 PROVE  /\ req[r].state \in Admitted => MayCall(req[r].token, req[r].target)
                        /\ req[r].state = "unauthenticated" => ~MayCall(req[r].token, req[r].target)
                        /\ req[r].state = "denied" /\ MayCall(req[r].token, req[r].target)
                             => req[r].token.account \notin alive \/ req[r].failed
      BY DEF EndpointsGuarded
    <2>1. SessionChecked(req[r], issued, gone) BY DEF SInv, Checked
    <2> QED BY <2>1 DEF SessionChecked, SInv, NoReturn
  <1> QED BY <1>1, SInvInvariant, PTL

(* A token dies with its account, on every replica and for good.           *)
THEOREM TokensDieWithAccounts == Spec => []LoggedOut
  <1>1. SInv => LoggedOut
    <2> SUFFICES ASSUME SInv, NEW r \in Req, req[r] # Idle, req[r].state \in Admitted,
                        req[r].target \notin Public, req[r].token \in AppToken
                 PROVE  req[r].token.account \notin req[r].gone
      BY DEF LoggedOut
    <2>1. req[r] \in Shape /\ Checked(req[r], issued, gone) BY DEF SInv
    <2>2. req[r].target \notin Route
      <3>1. req[r].token \notin Cookie /\ req[r].token # None BY Kinds
      <3>2. CASE req[r].target \in Route \ {"login"}
        BY <2>1, <3>1, <3>2 DEF Checked, CookieChecked, Admitted, Route, Endpoint
      <3> QED BY <2>1, <3>1, <3>2 DEF Checked
    <2>3. req[r].target \in Endpoint \ Public BY <2>1, <2>2, MethodAssumption DEF Shape
    <2> QED BY <2>1, <2>3 DEF Checked, SessionChecked
  <1> QED BY <1>1, SInvInvariant, PTL

(* However the clocks of the replicas differ up to Spread, a cookie opens   *)
(* the panel for an hour up to that difference and a second, and nothing    *)
(* else does.                                                               *)
THEOREM AdminSessionsLastAnHour == Spec => []AdminHour
  <1>1. SInv => AdminHour
    <2> SUFFICES ASSUME SInv, NEW r \in Req, req[r] # Idle, req[r].target \in Route \ {"login"}
                 PROVE  /\ req[r].state = "served" =>
                             /\ req[r].token \in Cookie
                             /\ req[r].at - req[r].token.login < Hour + Spread
                        /\ req[r].state = "forbidden" /\ req[r].token \in issued \ AppToken =>
                             req[r].at - req[r].token.login > Hour - Second - Spread
      BY DEF AdminHour
    <2>1. CookieChecked(req[r]) BY DEF SInv, Checked
    <2>2. req[r].token \in issued \ AppToken => req[r].token \in Cookie BY DEF SInv, Issued
    <2> QED BY <2>1, <2>2 DEF CookieChecked
  <1> QED BY <1>1, SInvInvariant, PTL
-----------------------------------------------------------------------------
LEMMA CutToSecond ==
  ASSUME NEW e \in Nat
  PROVE  NumericDate(e) % Second = 0
  <1>1. Second \in Nat /\ Second > 0 BY ClockAssumption
  <1>2. (e - (e % Second)) % Second = 0 BY <1>1
  <1> QED BY <1>1, <1>2 DEF NumericDate

Dated == now \in 0 .. Horizon /\ issued \subseteq AppToken \cup {c \in Cookie : c.exp % Second = 0}

LEMMA DatedStep ==
  ASSUME SInv, Dated, [Next]_vars
  PROVE  Dated'
  <1> USE ClockAssumption DEF Dated
  <1>1. CASE UNCHANGED <<now, issued>> BY <1>1
  <1>2. CASE Tick BY <1>2 DEF Tick, SInv
  <1>3. ASSUME NEW r \in Req, NEW a \in Account, SignIn(r, a), now' = now PROVE Dated'
    BY <1>3 DEF SignIn, AppToken
  <1>4. ASSUME NEW r \in Req, CreateBusinessUser(r) \/ CreateSession(r) PROVE Dated'
    <2>1. CASE UNCHANGED <<now, issued>> BY <1>1, <2>1
    <2>2. CASE ~UNCHANGED <<now, issued>>
      BY <1>3, <1>4, <2>2 DEF CreateBusinessUser, CreateSession, Account, SInv
    <2> QED BY <2>1, <2>2
  <1>5. ASSUME NEW r \in Req, NEW n \in Replica, LoginHandler(r, n) PROVE Dated'
    <2> DEFINE c == [username |-> "admin", exp |-> NumericDate(Clock(n) + Hour), login |-> now]
    <2>1. now' = now /\ (issued' = issued \/ issued' = issued \cup {c}) BY <1>5 DEF LoginHandler
    <2>2. Clock(n) + Hour \in Nat BY DEF Clock, SInv
    <2>3. NumericDate(Clock(n) + Hour) \in Int /\ NumericDate(Clock(n) + Hour) % Second = 0
      BY <2>2, Expiry, CutToSecond
    <2>4. c \in Cookie /\ c.exp % Second = 0 BY <2>3 DEF Cookie, SInv
    <2> HIDE DEF c
    <2> QED BY <2>1, <2>4
  <1>6. CASE Next /\ ~UNCHANGED <<now, issued>>
    <2>1. \A r \in Req, m \in Method, t \in Presented, n \in Replica, route \in Route :
            /\ ~Dispatch(r, m, t) /\ ~AuthorizedRoute(r, route, t, n)
            /\ ~AuthorizeSession(r) /\ ~DeleteBusinessUser(r) /\ ~Finish(r)
      BY <1>6 DEF Dispatch, AuthorizedRoute, AuthorizeSession, DeleteBusinessUser, Finish
    <2> QED BY <1>2, <1>4, <1>5, <1>6, <2>1
          DEF Next, Dispatch, AuthorizedRoute, AuthorizeSession, DeleteBusinessUser, Finish
  <1> QED BY <1>1, <1>6 DEF vars

(* The tokens that were handed out are of the two services, cookies expire  *)
(* at whole seconds, and nobody who is gone is there.                       *)
THEOREM SessionsTypeCorrect == Spec => []TypeOK
  <1>1. Init => Dated BY ClockAssumption DEF Init, Dated
  <1>2. SInv /\ Dated /\ [Next]_vars => Dated' BY DatedStep
  <1>3. SInv /\ Dated => TypeOK
    BY DEF SInv, Dated, TypeOK, NoReturn, Shape, Checked
  <1> QED BY <1>1, <1>2, <1>3, SInvInvariant, PTL DEF Spec
=============================================================================
