------------------------------ MODULE Sessions ------------------------------
(***************************************************************************)
(* Who may call what: the way of a request from the generated gRPC handler *)
(* through the interceptor to authorizeSession, and of an admin request    *)
(* through the cookie's check.  One key signs the tokens of both services; *)
(* a token is decoded into whatever struct the receiving service expects,  *)
(* fields it lacks being zero.  App tokens never expire, cookies do, by    *)
(* the clock of the replica that answers.                                  *)
(***************************************************************************)
EXTENDS Integers

CONSTANTS
  Business, Inspectors,   \* accounts by type; an id is never given twice
  Method,                 \* the endpoints of AppService that are called
  Replica, Offset,        \* each replica's clock relative to the true time
  Spread,                 \* bound on the difference of two clocks
  Hour,                   \* sessionExpiry
  Second,                 \* the resolution of jwt.NumericDate
  Horizon,                \* bound on the true time
  Req, None

Endpoint == {"CreateBusinessUser", "UpdateBusinessUser", "DeleteBusinessUser", "CreateSession",
             "GetSessionUser", "SendChatBotMessage", "RateChatBot", "ListConsultationTopics",
             "ListAvailableConsultationDates", "ListAvailableConsultationSlots",
             "CreateConsultationAppointment", "CancelConsultationAppointment",
             "ListConsultationAppointments"}
Route == {"login", "authority", "info", "inspector"}

ASSUME MethodAssumption == Method \subseteq Endpoint
ASSUME AccountAssumption == Business \cap Inspectors = {} /\ None \notin Business \cup Inspectors
ASSUME ClockAssumption ==
  /\ Hour \in Nat /\ Second \in Nat \ {0} /\ Horizon \in Nat /\ Spread \in Nat
  /\ Offset \in [Replica -> Nat]
  /\ \A m, n \in Replica : Offset[m] - Offset[n] <= Spread

VARIABLES
  now,      \* the true time
  alive,    \* accounts that exist
  gone,     \* accounts that existed
  issued,   \* tokens and cookies that were handed out, with the time of the login
  req       \* the requests

vars == <<now, alive, gone, issued, req>>

Account == Business \cup Inspectors
Kind(a) == IF a \in Business THEN "business" ELSE "authority"

AppToken == [account : Account]
Cookie   == [username : {"admin"}, exp : Int, login : Nat]
Garbage  == [forged : {TRUE}]

ASSUME NoneAssumption == None \notin AppToken \cup Cookie \cup Garbage

Idle == [state |-> "idle"]
Answer == {"served", "unauthenticated", "denied", "forbidden", "error"}

TypeOK ==
  /\ now \in 0 .. Horizon
  /\ alive \subseteq Account /\ gone \subseteq Account /\ alive \cap gone = {}
  /\ issued \subseteq AppToken \cup {c \in Cookie : c.exp % Second = 0}
  /\ \A r \in Req : req[r] # Idle =>
       /\ req[r].state \in {"handler", "deleting"} \cup Answer
       /\ req[r].target \in Method \cup Route
       /\ req[r].token \in issued \cup Garbage \cup {None}
       /\ req[r].gone \subseteq gone
       /\ req[r].failed \in BOOLEAN

Init == now = 0 /\ alive = {} /\ gone = {} /\ issued = {} /\ req = [r \in Req |-> Idle]

(* The token's claims, read as a Session and as an admin session.           *)
AsSession(t) == IF "account" \in DOMAIN t THEN t.account ELSE None
AsAdmin(t) == IF "exp" \in DOMAIN t THEN t ELSE [username |-> "", exp |-> 0]

FullMethod(m) == <<"ldt_hack.app.v1.AppService", m>>

(* Mutant: an endpoint too many.                                            *)
WhitelistWide == {FullMethod("CreateBusinessUser"), FullMethod("CreateSession"),
                  FullMethod("GetSessionUser")}

(* The arguments startGRPC gives the interceptor.                           *)
Whitelist == {FullMethod("CreateBusinessUser"), FullMethod("CreateSession")}

(* UnaryInterceptor: all but the whitelisted methods need a token this      *)
(* server has signed, of whichever service.                                 *)
Intercept(m, t) ==
  IF FullMethod(m) \in Whitelist \/ t \in issued THEN "handler" ELSE "unauthenticated"

(* A request with its time, the accounts that were gone then, and whether   *)
(* the lookup of its account has failed.                                    *)
Received(state, target, t) ==
  [state |-> state, target |-> target, token |-> t, at |-> now, gone |-> gone, failed |-> FALSE]

(* The generated handler of m decodes the request and calls the interceptor *)
(* with the method's name.                                                  *)
Dispatch(r, m, t) ==
  /\ req[r] = Idle
  /\ req' = [req EXCEPT ![r] = Received(Intercept(m, t), m, t)]
  /\ UNCHANGED <<now, alive, gone, issued>>

InHandler(r, m) == req[r].state = "handler" /\ req[r].target = m
Reply(r, answer) == req' = [req EXCEPT ![r].state = answer]
SignIn(r, a) == issued' = issued \cup {[account |-> a]} /\ Reply(r, "served")

(* The account may be committed and its token not be handed out.            *)
CreateBusinessUser(r) ==
  /\ InHandler(r, "CreateBusinessUser")
  /\ \/ \E a \in Business \ (alive \cup gone) :
          /\ alive' = alive \cup {a}
          /\ SignIn(r, a) \/ (Reply(r, "error") /\ UNCHANGED issued)
     \/ Reply(r, "error") /\ UNCHANGED <<alive, issued>>
  /\ UNCHANGED <<now, gone>>

(* An address and password of nobody are answered like a bad token, and so  *)
(* is a failure of the database.                                            *)
CreateSession(r) ==
  /\ InHandler(r, "CreateSession")
  /\ \/ \E a \in alive : SignIn(r, a)
     \/ (Reply(r, "unauthenticated") \/ Reply(r, "error")) /\ UNCHANGED issued
  /\ UNCHANGED <<now, alive, gone>>

(* The account types each handler passes to authorizeSession; without any   *)
(* both are admitted.                                                       *)
Admits(m) ==
  IF m \in {"GetSessionUser", "ListConsultationAppointments"}
    THEN {"business", "authority"} ELSE {"business"}

ClaimsFromCtx(r) ==
  IF FullMethod(req[r].target) \in Whitelist THEN None ELSE AsSession(req[r].token)

(* The session is there and of an account type the endpoint is for.         *)
Claimed(r) ==
  LET a == ClaimsFromCtx(r) IN a # None /\ Kind(a) \in Admits(req[r].target)

(* Mutant: the account is not looked up.                                    *)
AuthorizedByToken(r) == Claimed(r)

Authorized(r) == Claimed(r) /\ ClaimsFromCtx(r) \in alive

(* The lookup fails: the database does, or the client has gone away and its *)
(* context is canceled. That is answered like an account that is not there. *)
LookupFails(r) ==
  /\ Claimed(r)
  /\ req' = [req EXCEPT ![r] = [@ EXCEPT !.state = "denied", !.failed = TRUE]]

AuthorizeSession(r) ==
  /\ req[r].state = "handler"
  /\ req[r].target \notin {"CreateBusinessUser", "CreateSession"}
  /\ \/ /\ Authorized(r)
        /\ Reply(r, IF req[r].target = "DeleteBusinessUser" THEN "deleting" ELSE "served")
     \/ ~Authorized(r) /\ Reply(r, "denied")
     \/ LookupFails(r)
  /\ UNCHANGED <<now, alive, gone, issued>>

(* The transaction is committed or not, and the error may hide that it was. *)
DeleteBusinessUser(r) ==
  /\ req[r].state = "deleting"
  /\ \/ /\ alive' = alive \ {req[r].token.account}
        /\ gone' = gone \cup {req[r].token.account}
        /\ Reply(r, "served") \/ Reply(r, "error")
     \/ Reply(r, "error") /\ UNCHANGED <<alive, gone>>
  /\ UNCHANGED <<now, issued>>

Clock(n) == now + Offset[n]

NumericDate(t) == t - (t % Second)

(* POST /admin/login at replica n.                                          *)
LoginHandler(r, n) ==
  /\ req[r] = Idle
  /\ \/ /\ issued' = issued \cup {[username |-> "admin", exp |-> NumericDate(Clock(n) + Hour), login |-> now]}
        /\ req' = [req EXCEPT ![r] = Received("served", "login", None)]
     \/ /\ req' = [req EXCEPT ![r] = Received("unauthenticated", "login", None)]
        /\ UNCHANGED issued
  /\ UNCHANGED <<now, alive, gone>>

(* Mutant: the token's signature is enough.                                 *)
AdminAuthorizedBySignature(t, n) == t \in issued

(* The admin service's authorizeSession.                                    *)
AdminAuthorized(t, n) ==
  /\ t \in issued
  /\ AsAdmin(t).exp > Clock(n)
  /\ AsAdmin(t).username = "admin"

(* The other routes at replica n; one of them registers an inspector, or    *)
(* fails to.                                                                *)
AuthorizedRoute(r, route, t, n) ==
  /\ req[r] = Idle /\ route # "login"
  /\ \/ /\ AdminAuthorized(t, n)
        /\ req' = [req EXCEPT ![r] = Received("served", route, t)]
        /\ IF route = "inspector"
             THEN UNCHANGED alive \/ \E a \in Inspectors : alive' = alive \cup {a}
             ELSE UNCHANGED alive
     \/ /\ ~AdminAuthorized(t, n)
        /\ req' = [req EXCEPT ![r] = Received("forbidden", route, t)]
        /\ UNCHANGED alive
  /\ UNCHANGED <<now, gone, issued>>

(* The client goes on to its next request.                                  *)
Finish(r) ==
  /\ req[r] # Idle /\ req[r].state \in Answer
  /\ req' = [req EXCEPT ![r] = Idle]
  /\ UNCHANGED <<now, alive, gone, issued>>

Tick ==
  /\ now < Horizon
  /\ now' = now + 1
  /\ UNCHANGED <<alive, gone, issued, req>>

Presented == issued \cup Garbage \cup {None}

Next ==
  \/ Tick
  \/ \E r \in Req :
       \/ \E m \in Method, t \in Presented : Dispatch(r, m, t)
       \/ CreateBusinessUser(r) \/ CreateSession(r)
       \/ AuthorizeSession(r) \/ DeleteBusinessUser(r)
       \/ \E n \in Replica :
            \/ LoginHandler(r, n)
            \/ \E route \in Route, t \in Presented : AuthorizedRoute(r, route, t, n)
       \/ Finish(r)

Spec == Init /\ [][Next]_vars
-----------------------------------------------------------------------------
(* app.proto:11-46: the two public endpoints, those "for business users",   *)
(* and the two for anybody with an account.                                 *)
Public == {"CreateBusinessUser", "CreateSession"}
ForEverybody == {"GetSessionUser", "ListConsultationAppointments"}
MayCall(t, m) == t \in AppToken /\ (m \in ForEverybody \/ t.account \in Business)

(* Requests their endpoint has let in, however they end.                    *)
Admitted == {"served", "deleting", "error"}

(* Endpoints are open to those they were made for and to nobody else: an    *)
(* endpoint that needs a session lets in app tokens of the right type only, *)
(* never a forged token or an admin's cookie; the interceptor stops none of *)
(* those tokens, and authorizeSession turns one away only when its account  *)
(* is not there any more or when the lookup of the account has failed.      *)
EndpointsGuarded ==
  \A r \in Req : req[r] # Idle /\ req[r].target \in Endpoint \ Public =>
    /\ req[r].state \in Admitted => MayCall(req[r].token, req[r].target)
    /\ req[r].state = "unauthenticated" => ~MayCall(req[r].token, req[r].target)
    /\ req[r].state = "denied" /\ MayCall(req[r].token, req[r].target)
         => req[r].token.account \notin alive \/ req[r].failed

(* app.proto:16-18: after a deletion "the user will not be able to login    *)
(* anymore": no token of an account that was gone when the request arrived  *)
(* is let in, on whichever replica, also when lookups fail.                 *)
LoggedOut ==
  \A r \in Req :
    (/\ req[r] # Idle
     /\ req[r].state \in Admitted
     /\ req[r].target \notin Public
     /\ req[r].token \in AppToken) => req[r].token.account \notin req[r].gone

(* An admin's session lasts an hour, give or take the difference of two     *)
(* replicas' clocks and the second its expiry is cut to; no app token opens *)
(* the admin panel.                                                         *)
AdminHour ==
  \A r \in Req : req[r] # Idle /\ req[r].target \in Route \ {"login"} =>
    LET t == req[r].token
        age == req[r].at - t.login
    IN /\ req[r].state = "served" => t \in Cookie /\ age < Hour + Spread
       /\ req[r].state = "forbidden" /\ t \in issued \ AppToken => age > Hour - Second - Spread
=============================================================================
