------------------------------ MODULE Accounts ------------------------------
(***************************************************************************)
(* Registration, login, profile update and account deletion: the tables    *)
(* account, business_user and inspector_user, and the session tokens.      *)
(* Handlers interleave one SQL statement at a time; statements see         *)
(* committed rows (READ COMMITTED), wait for a row or a unique key that an *)
(* open transaction holds, and look again when it is over.                 *)
(***************************************************************************)
EXTENDS Integers

CONSTANTS
  Email,        \* email addresses
  Patronymic,   \* non-empty values of the one optional profile field
  Empty,        \* that field left empty
  NoAccount,    \* account_id is null
  Req,          \* requests; an id also names the user row its request inserts
  FaultyReq     \* requests whose database calls may fail

ASSUME FaultyAssumption == FaultyReq \subseteq Req
ASSUME NoAccountAssumption == NoAccount \notin Nat
ASSUME EmptyAssumption == Empty \notin Patronymic

Kind == {"business", "authority"}
Info == Patronymic \cup {Empty}

VARIABLES
  accounts,   \* committed rows of account
  users,      \* committed rows of business_user and inspector_user
  lastId,     \* the sequence behind account.id; it is never rolled back
  inserted,   \* the account row each open registration has inserted
  unlinked,   \* the user rows each open deletion has locked to clear their link
  tokens,     \* signed session tokens handed out; they never expire
  pc,         \* the next database call of each request's handler
  call,       \* what each request asks for
  reply       \* what its handler returned

vars == <<accounts, users, lastId, inserted, unlinked, tokens, pc, call, reply>>

AccountRow == [id : 1 .. lastId, kind : Kind, email : Email]
UserRow    == [owner : Req, kind : Kind, account : (1 .. lastId) \cup {NoAccount}, info : Info]
Token      == [id : 1 .. lastId, kind : Kind]

Register == [op : {"register"}, kind : Kind, email : Email, info : Info]
Login    == [op : {"login"}, kind : Kind, email : Email]
Update   == [op : {"update"}, token : Token, info : Info]
OfToken  == [op : {"delete", "whoami"}, token : Token]
NoCall   == [op |-> "none"]

TypeOK ==
  /\ lastId \in Nat
  /\ accounts \subseteq AccountRow
  /\ users \subseteq UserRow
  /\ inserted \in [Req -> SUBSET AccountRow]
  /\ unlinked \in [Req -> SUBSET UserRow]
  /\ tokens \subseteq Token
  /\ pc \in [Req -> {"idle", "InsertAccount", "InsertUser", "GetAccount", "CheckAccountExists",
                     "UpdateBusinessUser", "UnlinkUser", "DeleteAccount", "GetUser", "done"}]
  /\ call \in [Req -> Register \cup Login \cup Update \cup OfToken \cup {NoCall}]
  /\ reply \in [Req -> {"none", "ok", "taken", "badcreds", "unauthorized", "internal"}]

Init ==
  /\ accounts = {} /\ users = {} /\ lastId = 0 /\ tokens = {}
  /\ inserted = [r \in Req |-> {}]
  /\ unlinked = [r \in Req |-> {}]
  /\ pc = [r \in Req |-> "idle"]
  /\ call = [r \in Req |-> NoCall]
  /\ reply = [r \in Req |-> "none"]

Goto(r, l) == pc' = [pc EXCEPT ![r] = l] /\ UNCHANGED reply
Return(r, answer) == pc' = [pc EXCEPT ![r] = "done"] /\ reply' = [reply EXCEPT ![r] = answer]

Holders(t) == {a \in accounts : a.id = t.id /\ a.kind = t.kind}
Live(t) == Holders(t) # {}
ProfilesOf(t) == {u \in users : u.account = t.id /\ u.kind = t.kind}

(* A client sends a request: to register (an inspector is registered by the *)
(* administrator), to log in, or on behalf of a token it was given.         *)
Arrive(r, c) ==
  /\ pc[r] = "idle"
  /\ call' = [call EXCEPT ![r] = c]
  /\ Goto(r, CASE c.op = "register" -> "InsertAccount"
               [] c.op = "login" -> "GetAccount"
               [] OTHER -> "CheckAccountExists")
  /\ UNCHANGED <<accounts, users, lastId, inserted, unlinked, tokens>>

NewAccount(r, id) == [id |-> id, kind |-> call[r].kind, email |-> call[r].email]
Taken(rows, email) == \E a \in rows : a.email = email

(* Mutant: only committed accounts are compared.                           *)
InsertAccountNoIndex(r) ==
  /\ pc[r] = "InsertAccount"
  /\ ~Taken(accounts, call[r].email)
  /\ lastId' = lastId + 1
  /\ inserted' = [inserted EXCEPT ![r] = {NewAccount(r, lastId + 1)}]
  /\ Goto(r, "InsertUser")
  /\ UNCHANGED <<accounts, users, unlinked, tokens, call>>

(* Mutant: a serial that hands the id of a deleted account out again.       *)
InsertAccountReusingId(r) ==
  LET free == {i \in 1 .. lastId + 1 : \A a \in accounts \cup UNION {inserted[q] : q \in Req} : a.id # i}
      id   == CHOOSE i \in free : \A j \in free : i <= j
  IN /\ pc[r] = "InsertAccount"
     /\ \A q \in Req : ~Taken(inserted[q], call[r].email)
     /\ ~Taken(accounts, call[r].email)
     /\ lastId' = IF id > lastId THEN id ELSE lastId
     /\ inserted' = [inserted EXCEPT ![r] = {NewAccount(r, id)}]
     /\ Goto(r, "InsertUser")
     /\ UNCHANGED <<accounts, users, unlinked, tokens, call>>

(* First statement of a registration. The unique email makes it wait for an *)
(* open registration of the same address; a committed one, of either kind,  *)
(* ends it. The id it has drawn is gone either way. The admin panel has no  *)
(* word for a taken address: it answers with an internal error.             *)
InsertAccount(r) ==
  /\ pc[r] = "InsertAccount"
  /\ \A q \in Req : ~Taken(inserted[q], call[r].email)
  /\ lastId' = lastId + 1
  /\ \/ /\ ~Taken(accounts, call[r].email)
        /\ inserted' = [inserted EXCEPT ![r] = {NewAccount(r, lastId + 1)}]
        /\ Goto(r, "InsertUser")
     \/ /\ Taken(accounts, call[r].email)
        /\ Return(r, IF call[r].kind = "business" THEN "taken" ELSE "internal")
        /\ UNCHANGED inserted
  /\ UNCHANGED <<accounts, users, unlinked, tokens, call>>

NewUsers(r) ==
  {[owner |-> r, kind |-> a.kind, account |-> a.id, info |-> call[r].info] : a \in inserted[r]}
TokenOf(a) == [id |-> a.id, kind |-> a.kind]

(* Second statement and commit of a registration; a business user is given  *)
(* a token. When the acknowledgement is lost the account exists although an *)
(* error is reported.                                                       *)
InsertUser(r) ==
  /\ pc[r] = "InsertUser"
  /\ accounts' = accounts \cup inserted[r]
  /\ users' = users \cup NewUsers(r)
  /\ inserted' = [inserted EXCEPT ![r] = {}]
  /\ \/ /\ Return(r, "ok")
        /\ tokens' = tokens \cup {TokenOf(a) : a \in {b \in inserted[r] : b.kind = "business"}}
     \/ /\ r \in FaultyReq
        /\ Return(r, "internal")
        /\ UNCHANGED tokens
  /\ UNCHANGED <<lastId, unlinked, call>>

(* Login with the right password.                                          *)
GetAccount(r) ==
  LET found == {a \in accounts : a.email = call[r].email /\ a.kind = call[r].kind}
  IN /\ pc[r] = "GetAccount"
     /\ tokens' = tokens \cup {TokenOf(a) : a \in found}
     /\ Return(r, IF found = {} THEN "badcreds" ELSE "ok")
     /\ UNCHANGED <<accounts, users, lastId, inserted, unlinked, call>>

(* authorizeSession: the token's account must exist, and only business      *)
(* users update and delete their account.                                   *)
Honoured(r) == Live(call[r].token) /\ (call[r].op = "whoami" \/ call[r].token.kind = "business")

CheckAccountExists(r) ==
  /\ pc[r] = "CheckAccountExists"
  /\ \/ /\ Honoured(r)
        /\ Goto(r, CASE call[r].op = "update" -> "UpdateBusinessUser"
                     [] call[r].op = "delete" -> "UnlinkUser"
                     [] call[r].op = "whoami" -> "GetUser")
     \/ /\ ~Honoured(r)
        /\ Return(r, "unauthorized")
  /\ UNCHANGED <<accounts, users, lastId, inserted, unlinked, tokens, call>>

(* The rows of the token's account, none of them locked by a deletion.      *)
Unlocked(rows) == \A q \in Req : rows \cap unlinked[q] = {}

(* OmitZero: a field left empty is not part of the update; account_id is.   *)
Updated(u, c) == [u EXCEPT !.account = c.token.id,
                           !.info = IF c.info = Empty THEN u.info ELSE c.info]

(* Mutant: the update does not wait for the lock of an open deletion.       *)
UpdateBusinessUserUnlocked(r) ==
  LET rows == ProfilesOf(call[r].token)
  IN /\ pc[r] = "UpdateBusinessUser"
     /\ users' = (users \ rows) \cup {Updated(u, call[r]) : u \in rows}
     /\ Return(r, "ok")
     /\ UNCHANGED <<accounts, lastId, inserted, unlinked, tokens, call>>

(* One UPDATE of the rows that are linked to the account once no deletion   *)
(* holds them; it succeeds when there is none.                              *)
UpdateBusinessUser(r) ==
  LET rows == ProfilesOf(call[r].token)
  IN /\ pc[r] = "UpdateBusinessUser"
     /\ Unlocked(rows)
     /\ users' = (users \ rows) \cup {Updated(u, call[r]) : u \in rows}
     /\ \/ Return(r, "ok")
        \/ r \in FaultyReq /\ Return(r, "internal")
     /\ UNCHANGED <<accounts, lastId, inserted, unlinked, tokens, call>>

Unlink(rows) == {[u EXCEPT !.account = NoAccount] : u \in rows}

(* Mutant: the link is cleared outside the transaction.                     *)
UnlinkUserAtOnce(r) ==
  LET rows == ProfilesOf(call[r].token)
  IN /\ pc[r] = "UnlinkUser"
     /\ Unlocked(rows)
     /\ users' = (users \ rows) \cup Unlink(rows)
     /\ Goto(r, "DeleteAccount")
     /\ UNCHANGED <<accounts, lastId, inserted, unlinked, tokens, call>>

(* First statement of a deletion: clear the link, visible at the commit.    *)
UnlinkUser(r) ==
  LET rows == ProfilesOf(call[r].token)
  IN /\ pc[r] = "UnlinkUser"
     /\ Unlocked(rows)
     /\ unlinked' = [unlinked EXCEPT ![r] = rows]
     /\ Goto(r, "DeleteAccount")
     /\ UNCHANGED <<accounts, users, lastId, inserted, tokens, call>>

(* Mutant: the user is deleted with the account.                            *)
DeleteAccountCascade(r) ==
  /\ pc[r] = "DeleteAccount"
  /\ accounts' = {a \in accounts : a.id # call[r].token.id}
  /\ users' = users \ unlinked[r]
  /\ unlinked' = [unlinked EXCEPT ![r] = {}]
  /\ Return(r, "ok")
  /\ UNCHANGED <<lastId, inserted, tokens, call>>

(* Second statement and commit of a deletion.                               *)
DeleteAccount(r) ==
  /\ pc[r] = "DeleteAccount"
  /\ accounts' = {a \in accounts : a.id # call[r].token.id}
  /\ users' = (users \ unlinked[r]) \cup Unlink(unlinked[r])
  /\ unlinked' = [unlinked EXCEPT ![r] = {}]
  /\ \/ Return(r, "ok")
     \/ r \in FaultyReq /\ Return(r, "internal")
  /\ UNCHANGED <<lastId, inserted, tokens, call>>

(* GetSessionUser reads the profile of an account that was there a moment   *)
(* ago.                                                                     *)
GetUser(r) ==
  /\ pc[r] = "GetUser"
  /\ Return(r, IF ProfilesOf(call[r].token) = {} THEN "internal" ELSE "ok")
  /\ UNCHANGED <<accounts, users, lastId, inserted, unlinked, tokens, call>>

(* Mutant: the transaction is left open when a statement fails.             *)
FailNoRollback(r) ==
  /\ r \in FaultyReq
  /\ pc[r] \notin {"idle", "done"}
  /\ Return(r, "internal")
  /\ UNCHANGED <<accounts, users, lastId, inserted, unlinked, tokens, call>>

(* A statement fails without effect and an open transaction is rolled back. *)
(* Login and authorisation report it like a refusal.                        *)
Fail(r) ==
  /\ r \in FaultyReq
  /\ pc[r] \notin {"idle", "done"}
  /\ inserted' = [inserted EXCEPT ![r] = {}]
  /\ unlinked' = [unlinked EXCEPT ![r] = {}]
  /\ Return(r, CASE pc[r] = "GetAccount" -> "badcreds"
                 [] pc[r] = "CheckAccountExists" -> "unauthorized"
                 [] OTHER -> "internal")
  /\ UNCHANGED <<accounts, users, lastId, tokens, call>>

Handle(r) ==
  \/ InsertAccount(r)
  \/ InsertUser(r)
  \/ GetAccount(r)
  \/ CheckAccountExists(r)
  \/ UpdateBusinessUser(r)
  \/ UnlinkUser(r)
  \/ DeleteAccount(r)
  \/ GetUser(r)

Next ==
  \E r \in Req :
    \/ \E c \in Register \cup Login : Arrive(r, c)
    \/ \E t \in tokens : \/ \E i \in Info : Arrive(r, [op |-> "update", token |-> t, info |-> i])
                         \/ \E op \in {"delete", "whoami"} : Arrive(r, [op |-> op, token |-> t])
    \/ Handle(r)
    \/ Fail(r)

Spec == Init /\ [][Next]_vars

(* As for bookings: the server runs its handlers, clients owe nothing.      *)
Fairness == \A r \in Req : WF_vars(Handle(r))
FairSpec == Spec /\ Fairness
-----------------------------------------------------------------------------
(* One account per email address, business users and inspectors together,   *)
(* open registrations included; and one account per id.                     *)
EmailUnique ==
  \A a, b \in accounts \cup UNION {inserted[r] : r \in Req} :
    a.email = b.email \/ a.id = b.id => a = b

(* Every account has exactly one profile, and no profile is linked to an    *)
(* account that is gone: an update that races with a deletion does not      *)
(* write account_id back.                                                   *)
LinksIntact ==
  /\ \A a \in accounts : \E u \in users : ProfilesOf(TokenOf(a)) = {u}
  /\ \A u \in users : u.account # NoAccount => Live([id |-> u.account, kind |-> u.kind])

(* "The user will not be able to login anymore" (app.proto): the token of a *)
(* deleted account stays dead and a token never comes to stand for another  *)
(* account, even when the address is registered again.                      *)
TokensStayTheirs == [][\A t \in tokens : Holders(t)' \subseteq Holders(t)]_vars

(* Profiles outlive their accounts: a row never goes away, is only unlinked *)
(* and, once unlinked, never changes, whatever requests were under way.     *)
ProfilesKept ==
  [][\A u \in users : \E v \in users' :
       /\ v.owner = u.owner /\ v.kind = u.kind
       /\ v.account \in {u.account, NoAccount}
       /\ u.account = NoAccount => v = u]_vars

(* Refusals are justified and successes are real: without a database        *)
(* failure a request on a token that is turned away, or finds no profile,   *)
(* belongs to a deleted account; a deletion that was confirmed is final; a  *)
(* registration reported as taken has left nothing behind.                  *)
RepliesTruthful ==
  \A r \in Req :
    /\ (/\ call[r].op \in {"update", "delete", "whoami"}
        /\ r \notin FaultyReq
        /\ reply[r] \in {"unauthorized", "internal"}) => ~Honoured(r)
    /\ call[r].op = "delete" /\ reply[r] = "ok" => ~Live(call[r].token)
    /\ call[r].op = "register" /\ reply[r] # "internal" =>
         (reply[r] = "ok" <=> \E u \in users : u.owner = r)

(* The interleaved statements of the handlers add up to a registry that     *)
(* changes in atomic steps: an account comes with its profile and an id of  *)
(* its own when its registration commits, it goes and its profile stays     *)
(* when its deletion commits, and requests on a token are carried out only  *)
(* if they were admitted while its account existed.                         *)
Admitted ==
  {r \in Req : /\ call[r].op \in {"update", "delete", "whoami"}
               /\ pc[r] # "CheckAccountExists" /\ reply[r] # "unauthorized"}

Registry == INSTANCE AccountRegistry
              WITH registry <- accounts, profiles <- users, asked <- call,
                   granted <- Admitted, answer <- reply

ImplementsRegistry == Registry!Spec

(* Addresses and rows are locked in one order: no requests wait only for    *)
(* each other, or for an address or a profile that a request that is over   *)
(* has left locked.                                                         *)
WaitsFor(r) ==
  {q \in Req : \/ pc[r] = "InsertAccount" /\ Taken(inserted[q], call[r].email)
               \/ /\ pc[r] \in {"UpdateBusinessUser", "UnlinkUser"}
                  /\ ProfilesOf(call[r].token) \cap unlinked[q] # {}}

NoCircularWait ==
  \A G \in SUBSET Req :
    (\A r \in G : pc[r] = "done" \/ WaitsFor(r) \cap G # {}) => \A r \in G : pc[r] = "done"

(* Every request is answered: no registration waits for an address and no   *)
(* update or deletion for a row forever.                                    *)
EveryRequestAnswered == \A r \in Req : pc[r] # "idle" ~> pc[r] = "done"

(* business_user.go:66: "UpdateBusinessUser updates all of the information  *)
(* of a business user": after an update the profile is the one sent.        *)
UpdateStoresAll ==
  [][\A r \in Req : pc[r] = "UpdateBusinessUser" /\ reply'[r] = "ok" =>
       \A u \in users' : (u.account = call[r].token.id /\ u.kind = "business") =>
                           u.info = call[r].info]_vars
=============================================================================
