--------------------------- MODULE AccountRegistry ---------------------------
(***************************************************************************)
(* What the account service promises, without the statements of its        *)
(* handlers: a registry of accounts and profiles that each request changes *)
(* at most once, in one atomic step, together with its answer.             *)
(***************************************************************************)
EXTENDS Integers

CONSTANTS Email, Patronymic, Empty, NoAccount, Req, FaultyReq   \* as in Accounts

VARIABLES
  registry,   \* the accounts
  profiles,   \* the profiles ever created, each with the account it is linked to
  tokens,     \* the tokens ever issued
  asked,      \* what each request asks for
  granted,    \* requests on a token that were admitted while its account existed
  answer      \* what each request was answered

vars == <<registry, profiles, tokens, asked, granted, answer>>

NoCall == [op |-> "none"]

Init ==
  /\ registry = {} /\ profiles = {} /\ tokens = {} /\ granted = {}
  /\ asked = [r \in Req |-> NoCall]
  /\ answer = [r \in Req |-> "none"]

Register == [op : {"register"}, kind : {"business", "authority"}, email : Email, info : Patronymic \cup {Empty}]
Login == [op : {"login"}, kind : {"business", "authority"}, email : Email]
OnToken(t) == [op : {"delete", "whoami"}, token : {t}]
                \cup [op : {"update"}, token : {t}, info : Patronymic \cup {Empty}]

Ask(r) ==
  /\ asked[r] = NoCall
  /\ \E c \in Register \cup Login \cup UNION {OnToken(t) : t \in tokens} : asked' = [asked EXCEPT ![r] = c]
  /\ UNCHANGED <<registry, profiles, tokens, granted, answer>>

TokenOf(a) == [id |-> a.id, kind |-> a.kind]
AccountOf(t) == {a \in registry : TokenOf(a) = t}
ProfileOf(t) == {p \in profiles : p.account = t.id /\ p.kind = t.kind}

(* Only a token whose account exists is honoured, and only business users   *)
(* change their account.                                                    *)
Entitled(c) == AccountOf(c.token) # {} /\ (c.op = "whoami" \/ c.token.kind = "business")

Grant(r) ==
  /\ asked[r].op \in {"update", "delete", "whoami"} /\ answer[r] = "none" /\ r \notin granted
  /\ Entitled(asked[r])
  /\ granted' = granted \cup {r}
  /\ UNCHANGED <<registry, profiles, tokens, asked, answer>>

Open(r, op) == asked[r].op = op /\ answer[r] = "none"
Answer(r, a) == answer' = [answer EXCEPT ![r] = a]

(* A failure leaves open whether the change was made.                       *)
Unsure(r, a) == Answer(r, a) \/ (r \in FaultyReq /\ Answer(r, "internal"))

(* Turned away without a change.                                            *)
Refuse(r) ==
  /\ asked[r] # NoCall /\ answer[r] = "none"
  /\ \/ /\ r \in FaultyReq
        /\ Answer(r, CASE asked[r].op = "register" \/ r \in granted -> "internal"
                       [] asked[r].op = "login" -> "badcreds"
                       [] OTHER -> "unauthorized")
     \/ /\ asked[r].op \in {"update", "delete", "whoami"} /\ r \notin granted /\ ~Entitled(asked[r])
        /\ Answer(r, "unauthorized")
  /\ UNCHANGED <<registry, profiles, tokens, asked, granted>>

AddressTaken(r) == \E a \in registry : a.email = asked[r].email

(* A new account has an address of its own, an id that no account has and   *)
(* no token ever named, and a profile; a business user is given a token.    *)
Enroll(r) ==
  /\ Open(r, "register") /\ ~AddressTaken(r)
  /\ \E a \in registry' \ registry :
       /\ \A t \in tokens \cup {TokenOf(b) : b \in registry} : t.id # a.id
       /\ a.kind = asked[r].kind /\ a.email = asked[r].email
       /\ registry' = registry \cup {a}
       /\ profiles' = profiles \cup {[owner |-> r, kind |-> a.kind, account |-> a.id, info |-> asked[r].info]}
       /\ \/ Answer(r, "ok") /\ tokens' = IF a.kind = "business" THEN tokens \cup {TokenOf(a)} ELSE tokens
          \/ r \in FaultyReq /\ Answer(r, "internal") /\ UNCHANGED tokens
  /\ UNCHANGED <<asked, granted>>

TurnDown(r) ==
  /\ Open(r, "register") /\ AddressTaken(r)
  /\ Answer(r, IF asked[r].kind = "business" THEN "taken" ELSE "internal")
  /\ UNCHANGED <<registry, profiles, tokens, asked, granted>>

LogIn(r) ==
  LET found == {a \in registry : a.email = asked[r].email /\ a.kind = asked[r].kind}
  IN /\ Open(r, "login")
     /\ Answer(r, IF found = {} THEN "badcreds" ELSE "ok")
     /\ tokens' = tokens \cup {TokenOf(a) : a \in found}
     /\ UNCHANGED <<registry, profiles, asked, granted>>

(* The profile of the token's account, if the account is still there.       *)
Update(r) ==
  LET c == asked[r]
  IN /\ Open(r, "update") /\ r \in granted
     /\ profiles' = {IF p \in ProfileOf(c.token) /\ c.info # Empty THEN [p EXCEPT !.info = c.info] ELSE p :
                       p \in profiles}
     /\ Unsure(r, "ok")
     /\ UNCHANGED <<registry, tokens, asked, granted>>

(* The account goes, its profile stays behind.                              *)
Close(r) ==
  LET t == asked[r].token
  IN /\ Open(r, "delete") /\ r \in granted
     /\ registry' = registry \ AccountOf(t)
     /\ profiles' = {IF p \in ProfileOf(t) THEN [p EXCEPT !.account = NoAccount] ELSE p : p \in profiles}
     /\ Unsure(r, "ok")
     /\ UNCHANGED <<tokens, asked, granted>>

(* Only a profile whose account is gone cannot be read.                     *)
Read(r) ==
  /\ Open(r, "whoami") /\ r \in granted
  /\ Answer(r, IF AccountOf(asked[r].token) = {} THEN "internal" ELSE "ok")
  /\ UNCHANGED <<registry, profiles, tokens, asked, granted>>

Next ==
  \E r \in Req :
    \/ Ask(r) \/ Grant(r) \/ Refuse(r)
    \/ Enroll(r) \/ TurnDown(r) \/ LogIn(r)
    \/ Update(r) \/ Close(r) \/ Read(r)

Spec == Init /\ [][Next]_vars
=============================================================================
