--------------------------- MODULE AccountsProofs ---------------------------
(***************************************************************************)
(* Accounts for any number of addresses and requests, of which any may     *)
(* fail: addresses, ids, links and tokens stay consistent under every      *)
(* interleaving of registrations, updates and deletions.                   *)
(***************************************************************************)
EXTENDS Accounts, TLAPS

OnToken == {"update", "delete", "whoami"}

(* Where a handler is, and what it is working on.                           *)
Where ==
  \A r \in Req :
    /\ pc[r] = "idle" => call[r] = NoCall
    /\ pc[r] # "done" => reply[r] = "none"
    /\ pc[r] \in {"InsertAccount", "InsertUser"} => call[r] \in Register
    /\ pc[r] = "GetAccount" => call[r] \in Login
    /\ pc[r] = "CheckAccountExists" => call[r].op \in OnToken
    /\ pc[r] = "UpdateBusinessUser" => call[r] \in Update /\ call[r].token.kind = "business"
    /\ pc[r] \in {"UnlinkUser", "DeleteAccount"} =>
         call[r].op = "delete" /\ call[r].token.kind = "business"
    /\ pc[r] = "GetUser" => call[r].op = "whoami"
    /\ call[r].op \in OnToken => call[r].token \in tokens
    /\ pc[r] = "InsertUser" => \E id \in 1 .. lastId : inserted[r] = {NewAccount(r, id)}
    /\ pc[r] # "InsertUser" => inserted[r] = {}
    /\ pc[r] # "DeleteAccount" => unlinked[r] = {}

(* The account of an open registration is nobody else's yet.                *)
Ids ==
  /\ \A r \in Req : \A a \in inserted[r] :
       /\ \A b \in accounts : a.id # b.id
       /\ \A q \in Req : \A b \in inserted[q] : a.id = b.id => q = r
       /\ \A t \in tokens : t.id # a.id
  /\ \A t \in tokens, a \in accounts : a.id = t.id => a.kind = t.kind

(* Accounts and linked profiles belong together one to one.                 *)
Links ==
  /\ \A u, v \in users : u.account = v.account /\ u.account # NoAccount => u = v
  /\ \A a \in accounts : \E u \in users : u.account = a.id /\ u.kind = a.kind
  /\ \A u \in users : u.account # NoAccount => \E a \in accounts : a.id = u.account /\ a.kind = u.kind

(* A deletion that has cleared a link holds the profile, alone.             *)
Locks ==
  /\ \A r \in Req : pc[r] = "DeleteAccount" => unlinked[r] = ProfilesOf(call[r].token)
  /\ \A q, r \in Req : q # r => unlinked[q] \cap unlinked[r] = {}

(* A profile is there because its registration has been committed.          *)
Owners ==
  \A u \in users : call[u.owner].op = "register" /\ reply[u.owner] \in {"ok", "internal"}

AInv == TypeOK /\ Where /\ EmailUnique /\ Ids /\ Links /\ Locks /\ Owners /\ RepliesTruthful

Asks(c) == /\ c \in Register \cup Login \cup Update \cup OfToken
           /\ c.op \in OnToken => c.token \in tokens
Step(r) == (\E c : Asks(c) /\ Arrive(r, c)) \/ Handle(r) \/ Fail(r)
-----------------------------------------------------------------------------
(* A step is one request's.                                                 *)
LEMMA StepOfOne ==
  ASSUME TypeOK, Next
  PROVE  \E r \in Req : Step(r)
  <1>1. PICK r \in Req :
          \/ \E c \in Register \cup Login : Arrive(r, c)
          \/ \E t \in tokens : \/ \E i \in Info : Arrive(r, [op |-> "update", token |-> t, info |-> i])
                               \/ \E op \in {"delete", "whoami"} : Arrive(r, [op |-> op, token |-> t])
          \/ Handle(r)
          \/ Fail(r)
    BY DEF Next
  <1>2. ASSUME NEW c \in Register \cup Login, Arrive(r, c) PROVE Step(r)
    <2>1. Asks(c) BY DEF Asks, Register, Login, OnToken
    <2> QED BY <1>2, <2>1 DEF Step
  <1>3. ASSUME NEW t \in tokens, NEW i \in Info, Arrive(r, [op |-> "update", token |-> t, info |-> i])
        PROVE  Step(r)
    <2>1. Asks([op |-> "update", token |-> t, info |-> i]) BY DEF Asks, Update, TypeOK
    <2> QED BY <1>3, <2>1 DEF Step
  <1>4. ASSUME NEW t \in tokens, NEW op \in {"delete", "whoami"}, Arrive(r, [op |-> op, token |-> t])
        PROVE  Step(r)
    <2>1. Asks([op |-> op, token |-> t]) BY DEF Asks, OfToken, TypeOK
    <2> QED BY <1>4, <2>1 DEF Step
  <1> QED BY <1>1, <1>2, <1>3, <1>4 DEF Step

(* What a step leaves of a request it is not about.                         *)
LEMMA OthersKeep ==
  ASSUME TypeOK, NEW r \in Req, Step(r), NEW q \in Req, q # r
  PROVE  /\ pc'[q] = pc[q] /\ call'[q] = call[q] /\ reply'[q] = reply[q]
         /\ inserted'[q] = inserted[q] /\ unlinked'[q] = unlinked[q]
  <1> USE DEF TypeOK
  <1>1. ASSUME NEW c, Arrive(r, c)
        PROVE  /\ pc'[q] = pc[q] /\ call'[q] = call[q] /\ reply'[q] = reply[q]
               /\ inserted'[q] = inserted[q] /\ unlinked'[q] = unlinked[q]
    BY <1>1 DEF Arrive, Goto
  <1>2. CASE InsertAccount(r) BY <1>2 DEF InsertAccount, Goto, Return
  <1>3. CASE InsertUser(r) BY <1>3 DEF InsertUser, Return
  <1>4. CASE GetAccount(r) BY <1>4 DEF GetAccount, Return
  <1>5. CASE CheckAccountExists(r) BY <1>5 DEF CheckAccountExists, Goto, Return
  <1>6. CASE UpdateBusinessUser(r) BY <1>6 DEF UpdateBusinessUser, Return
  <1>7. CASE UnlinkUser(r) BY <1>7 DEF UnlinkUser, Goto
  <1>8. CASE DeleteAccount(r) BY <1>8 DEF DeleteAccount, Return
  <1>9. CASE GetUser(r) BY <1>9 DEF GetUser, Return
  <1>10. CASE Fail(r) BY <1>10 DEF Fail, Return
  <1> QED BY <1>1, <1>2, <1>3, <1>4, <1>5, <1>6, <1>7, <1>8, <1>9, <1>10 DEF Step, Handle

LEMMA SequenceGrows ==
  ASSUME TypeOK, NEW r \in Req, Step(r)
  PROVE  lastId' \in Nat /\ lastId <= lastId' /\ 1 .. lastId \subseteq 1 .. lastId'
  <1>1. lastId' = lastId \/ lastId' = lastId + 1
    BY DEF Step, Handle, Arrive, InsertAccount, InsertUser, GetAccount, CheckAccountExists,
           UpdateBusinessUser, UnlinkUser, DeleteAccount, GetUser, Fail
  <1> QED BY <1>1 DEF TypeOK

LEMMA RowTypesGrow ==
  ASSUME 1 .. lastId \subseteq 1 .. lastId'
  PROVE  /\ AccountRow \subseteq AccountRow' /\ UserRow \subseteq UserRow' /\ Token \subseteq Token'
         /\ Update \subseteq Update' /\ OfToken \subseteq OfToken'
  <1>1. AccountRow \subseteq AccountRow' /\ UserRow \subseteq UserRow' /\ Token \subseteq Token'
    BY DEF AccountRow, UserRow, Token
  <1>2. Update \subseteq Update' BY <1>1 DEF Update
  <1>3. OfToken \subseteq OfToken' BY <1>1 DEF OfToken
  <1> QED BY <1>1, <1>2, <1>3
-----------------------------------------------------------------------------
Labels == {"idle", "InsertAccount", "InsertUser", "GetAccount", "CheckAccountExists",
           "UpdateBusinessUser", "UnlinkUser", "DeleteAccount", "GetUser", "done"}
Replies == {"none", "ok", "taken", "badcreds", "unauthorized", "internal"}

LEMMA ControlType ==
  ASSUME TypeOK, Where, NEW r \in Req, Step(r)
  PROVE  pc' \in [Req -> Labels] /\ reply' \in [Req -> Replies]
  <1>1. \/ \E l \in Labels : Goto(r, l)
        \/ \E a \in Replies : Return(r, a)
    <2> USE DEF Labels, Replies
    <2>1. ASSUME NEW c, Arrive(r, c) PROVE \E l \in Labels : Goto(r, l)
      BY <2>1 DEF Arrive
    <2>2. CASE InsertAccount(r) BY <2>2 DEF InsertAccount
    <2>3. CASE InsertUser(r) BY <2>3 DEF InsertUser
    <2>4. CASE GetAccount(r) BY <2>4 DEF GetAccount
    <2>5. CASE CheckAccountExists(r)
      <3>1. CASE Honoured(r)
        <4>1. call[r].op \in OnToken BY <2>5 DEF CheckAccountExists, Where
        <4> QED BY <2>5, <3>1, <4>1 DEF CheckAccountExists, OnToken
      <3>2. CASE ~Honoured(r) BY <2>5, <3>2 DEF CheckAccountExists
      <3> QED BY <3>1, <3>2
    <2>6. CASE UpdateBusinessUser(r) BY <2>6 DEF UpdateBusinessUser
    <2>7. CASE UnlinkUser(r) BY <2>7 DEF UnlinkUser
    <2>8. CASE DeleteAccount(r) BY <2>8 DEF DeleteAccount
    <2>9. CASE GetUser(r) BY <2>9 DEF GetUser
    <2>10. CASE Fail(r) BY <2>10 DEF Fail
    <2> QED BY <2>1, <2>2, <2>3, <2>4, <2>5, <2>6, <2>7, <2>8, <2>9, <2>10 DEF Step, Handle
  <1>2. pc \in [Req -> Labels] /\ reply \in [Req -> Replies] BY DEF TypeOK, Labels, Replies
  <1>3. "done" \in Labels BY DEF Labels
  <1> QED BY <1>1, <1>2, <1>3 DEF Goto, Return

LEMMA TypeStep ==
  ASSUME TypeOK, Where, NEW r \in Req, Step(r)
  PROVE  TypeOK'
  <1>1. 1 .. lastId \subseteq 1 .. lastId' /\ lastId' \in Nat BY SequenceGrows
  <1>2. /\ AccountRow \subseteq AccountRow' /\ UserRow \subseteq UserRow' /\ Token \subseteq Token'
        /\ Update \subseteq Update' /\ OfToken \subseteq OfToken'
    BY <1>1, RowTypesGrow
  <1>3. pc' \in [Req -> Labels] /\ reply' \in [Req -> Replies] BY ControlType
  <1>4. /\ accounts \subseteq AccountRow' /\ users \subseteq UserRow' /\ tokens \subseteq Token'
        /\ inserted \in [Req -> SUBSET AccountRow'] /\ unlinked \in [Req -> SUBSET UserRow']
    <2>1. /\ inserted \in [Req -> SUBSET AccountRow] /\ unlinked \in [Req -> SUBSET UserRow]
          /\ accounts \subseteq AccountRow /\ users \subseteq UserRow /\ tokens \subseteq Token
      BY DEF TypeOK
    <2> QED BY <1>2, <2>1
  <1>5. call' \in [Req -> Register \cup Login \cup Update' \cup OfToken' \cup {NoCall}]
    <2>1. call \in [Req -> Register \cup Login \cup Update \cup OfToken \cup {NoCall}] BY DEF TypeOK
    <2>2. call' = call \/ \E c \in Register \cup Login \cup Update \cup OfToken : call' = [call EXCEPT ![r] = c]
      BY DEF Step, Handle, Arrive, Asks, InsertAccount, InsertUser, GetAccount, CheckAccountExists,
             UpdateBusinessUser, UnlinkUser, DeleteAccount, GetUser, Fail
    <2> QED BY <2>1, <2>2, <1>2
  <1>6. accounts' \subseteq AccountRow' /\ users' \subseteq UserRow' /\ tokens' \subseteq Token'
        /\ inserted' \in [Req -> SUBSET AccountRow'] /\ unlinked' \in [Req -> SUBSET UserRow']
    <2> DEFINE Goal == /\ accounts' \subseteq AccountRow' /\ users' \subseteq UserRow'
                       /\ tokens' \subseteq Token'
                       /\ inserted' \in [Req -> SUBSET AccountRow']
                       /\ unlinked' \in [Req -> SUBSET UserRow']
    <2>1. ASSUME NEW c, Arrive(r, c) PROVE Goal BY <1>4, <2>1 DEF Arrive
    <2>2. CASE InsertAccount(r)
      <3>1. lastId + 1 \in 1 .. lastId' BY <2>2, <1>1 DEF InsertAccount, TypeOK
      <3>2. call[r].kind \in Kind /\ call[r].email \in Email
        BY <2>2 DEF InsertAccount, Where, Register
      <3>3. {NewAccount(r, lastId + 1)} \subseteq AccountRow'
        BY <3>1, <3>2 DEF NewAccount, AccountRow
      <3>4. inserted' \in [Req -> SUBSET AccountRow'] BY <1>4, <2>2, <3>3 DEF InsertAccount
      <3> QED BY <1>4, <2>2, <3>4 DEF InsertAccount
    <2>3. CASE InsertUser(r)
      <3>1. inserted[r] \subseteq AccountRow /\ inserted[r] \subseteq AccountRow' BY <1>2 DEF TypeOK
      <3>2. call[r].info \in Info BY <2>3 DEF InsertUser, Where, Register
      <3>3. NewUsers(r) \subseteq UserRow'
        BY <1>1, <3>1, <3>2 DEF NewUsers, UserRow, AccountRow
      <3>4. {TokenOf(a) : a \in {b \in inserted[r] : b.kind = "business"}} \subseteq Token'
        BY <3>1 DEF TokenOf, Token, AccountRow
      <3>5. inserted' \in [Req -> SUBSET AccountRow'] BY <1>4, <2>3 DEF InsertUser
      <3> QED BY <1>4, <2>3, <3>1, <3>3, <3>4, <3>5 DEF InsertUser
    <2>4. CASE GetAccount(r)
      <3>1. \A a \in accounts : TokenOf(a) \in Token' BY <1>4 DEF TokenOf, Token, AccountRow
      <3> QED BY <1>4, <2>4, <3>1 DEF GetAccount
    <2>5. CASE CheckAccountExists(r) BY <1>4, <2>5 DEF CheckAccountExists
    <2>6. CASE UpdateBusinessUser(r)
      <3>1. call[r].token \in Token /\ call[r].info \in Info
        BY <2>6 DEF UpdateBusinessUser, Where, Update
      <3>2. ASSUME NEW u \in users PROVE Updated(u, call[r]) \in UserRow'
        <4>1. call[r].token.id \in 1 .. lastId' BY <1>1, <3>1 DEF Token
        <4>2. u \in UserRow' BY <1>4
        <4> QED BY <3>1, <4>1, <4>2 DEF Updated, UserRow
      <3>3. users' \subseteq UserRow' BY <1>4, <2>6, <3>2 DEF UpdateBusinessUser, ProfilesOf
      <3> QED BY <1>4, <2>6, <3>3 DEF UpdateBusinessUser
    <2>7. CASE UnlinkUser(r)
      <3>1. ProfilesOf(call[r].token) \subseteq UserRow' BY <1>4 DEF ProfilesOf
      <3>2. unlinked' \in [Req -> SUBSET UserRow'] BY <1>4, <2>7, <3>1 DEF UnlinkUser
      <3> QED BY <1>4, <2>7, <3>2 DEF UnlinkUser
    <2>8. CASE DeleteAccount(r)
      <3>1. unlinked[r] \subseteq UserRow' BY <1>4
      <3>2. Unlink(unlinked[r]) \subseteq UserRow' BY <3>1 DEF Unlink, UserRow
      <3>3. unlinked' \in [Req -> SUBSET UserRow'] BY <1>4, <2>8 DEF DeleteAccount
      <3> QED BY <1>4, <2>8, <3>2, <3>3 DEF DeleteAccount
    <2>9. CASE GetUser(r) BY <1>4, <2>9 DEF GetUser
    <2>10. CASE Fail(r)
      <3>1. inserted' \in [Req -> SUBSET AccountRow'] BY <1>4, <2>10 DEF Fail
      <3>2. unlinked' \in [Req -> SUBSET UserRow'] BY <1>4, <2>10 DEF Fail
      <3> QED BY <1>4, <2>10, <3>1, <3>2 DEF Fail
    <2> QED BY <2>1, <2>2, <2>3, <2>4, <2>5, <2>6, <2>7, <2>8, <2>9, <2>10 DEF Step, Handle
  <1> QED BY <1>1, <1>3, <1>5, <1>6 DEF TypeOK, Labels, Replies
-----------------------------------------------------------------------------
LEMMA TokensGrow ==
  ASSUME NEW r \in Req, Step(r)
  PROVE  tokens \subseteq tokens'
  BY DEF Step, Handle, Arrive, InsertAccount, InsertUser, GetAccount, CheckAccountExists,
         UpdateBusinessUser, UnlinkUser, DeleteAccount, GetUser, Fail

LEMMA WhereStep ==
  ASSUME TypeOK, Where, NEW r \in Req, Step(r)
  PROVE  Where'
  <1> DEFINE Part(q) ==
        /\ pc[q] = "idle" => call[q] = NoCall
        /\ pc[q] # "done" => reply[q] = "none"
        /\ pc[q] \in {"InsertAccount", "InsertUser"} => call[q] \in Register
        /\ pc[q] = "GetAccount" => call[q] \in Login
        /\ pc[q] = "CheckAccountExists" => call[q].op \in OnToken
        /\ pc[q] = "UpdateBusinessUser" => call[q] \in Update /\ call[q].token.kind = "business"
        /\ pc[q] \in {"UnlinkUser", "DeleteAccount"} =>
             call[q].op = "delete" /\ call[q].token.kind = "business"
        /\ pc[q] = "GetUser" => call[q].op = "whoami"
        /\ call[q].op \in OnToken => call[q].token \in tokens
        /\ pc[q] = "InsertUser" => \E id \in 1 .. lastId : inserted[q] = {NewAccount(q, id)}
        /\ pc[q] # "InsertUser" => inserted[q] = {}
        /\ pc[q] # "DeleteAccount" => unlinked[q] = {}
  <1>0. \A q \in Req : Part(q) BY DEF Where
  <1>1. /\ 1 .. lastId \subseteq 1 .. lastId' /\ tokens \subseteq tokens'
        /\ Update \subseteq Update'
    BY SequenceGrows, RowTypesGrow, TokensGrow
  <1>2. ASSUME NEW q \in Req, q # r PROVE Part(q)'
    <2>1. /\ pc'[q] = pc[q] /\ call'[q] = call[q] /\ reply'[q] = reply[q]
          /\ inserted'[q] = inserted[q] /\ unlinked'[q] = unlinked[q]
      BY <1>2, OthersKeep
    <2>2. \A id : NewAccount(q, id)' = NewAccount(q, id) BY <2>1 DEF NewAccount
    <2> QED BY <1>0, <1>1, <2>1, <2>2
  <1>3. Part(r)'
    <2> USE DEF TypeOK
    <2>0. Part(r) BY <1>0
    <2>1. ASSUME NEW c, Asks(c), Arrive(r, c) PROVE Part(r)'
      <3>1. call'[r] = c /\ inserted'[r] = {} /\ unlinked'[r] = {} /\ reply'[r] = "none"
            /\ tokens' = tokens
        BY <2>0, <2>1 DEF Arrive, Goto
      <3>2. pc'[r] = CASE c.op = "register" -> "InsertAccount"
                       [] c.op = "login" -> "GetAccount"
                       [] OTHER -> "CheckAccountExists"
        BY <2>1 DEF Arrive, Goto
      <3>3. CASE c \in Register
        <4>1. pc'[r] = "InsertAccount" /\ c.op \notin OnToken BY <3>2, <3>3 DEF Register, OnToken
        <4> QED BY <3>1, <3>3, <4>1
      <3>4. CASE c \in Login
        <4>1. pc'[r] = "GetAccount" /\ c.op \notin OnToken BY <3>2, <3>4 DEF Login, OnToken
        <4> QED BY <3>1, <3>4, <4>1
      <3>5. CASE c \in Update \cup OfToken
        <4>1. pc'[r] = "CheckAccountExists" /\ c.op \in OnToken
          BY <3>2, <3>5 DEF Update, OfToken, OnToken
        <4>2. c.token \in tokens BY <2>1, <4>1 DEF Asks
        <4> QED BY <3>1, <4>1, <4>2
      <3> QED BY <2>1, <3>3, <3>4, <3>5 DEF Asks
    <2>2. CASE InsertAccount(r)
      <3>1. lastId + 1 \in 1 .. lastId' BY <2>2, SequenceGrows DEF InsertAccount
      <3>2. call' = call /\ unlinked' = unlinked /\ tokens' = tokens BY <2>2 DEF InsertAccount
      <3>3. \A id : NewAccount(r, id)' = NewAccount(r, id) BY <3>2 DEF NewAccount
      <3>4. \/ pc'[r] = "InsertUser" /\ reply' = reply /\ inserted'[r] = {NewAccount(r, lastId + 1)}
            \/ pc'[r] = "done" /\ inserted'[r] = inserted[r]
        BY <2>2 DEF InsertAccount, Goto, Return
      <3>5. pc[r] = "InsertAccount" BY <2>2 DEF InsertAccount
      <3> QED BY <2>0, <3>1, <3>2, <3>3, <3>4, <3>5
    <2>3. CASE InsertUser(r)
      <3>1. pc'[r] = "done" /\ inserted'[r] = {} /\ unlinked' = unlinked /\ call' = call
            /\ pc[r] = "InsertUser"
        BY <2>3 DEF InsertUser, Return
      <3> QED BY <1>1, <2>0, <3>1
    <2>4. CASE GetAccount(r)
      <3>1. pc'[r] = "done" /\ inserted' = inserted /\ unlinked' = unlinked /\ call' = call
            /\ pc[r] = "GetAccount"
        BY <2>4 DEF GetAccount, Return
      <3> QED BY <1>1, <2>0, <3>1
    <2>5. CASE CheckAccountExists(r)
      <3>1. inserted' = inserted /\ unlinked' = unlinked /\ call' = call /\ tokens' = tokens
            /\ pc[r] = "CheckAccountExists" /\ call[r].op \in OnToken
        BY <2>0, <2>5 DEF CheckAccountExists
      <3>2. CASE ~Honoured(r)
        <4>1. pc'[r] = "done" BY <2>5, <3>2 DEF CheckAccountExists, Return
        <4> QED BY <2>0, <3>1, <4>1
      <3>3. CASE Honoured(r)
        <4>1. reply' = reply /\ pc'[r] = CASE call[r].op = "update" -> "UpdateBusinessUser"
                                            [] call[r].op = "delete" -> "UnlinkUser"
                                            [] call[r].op = "whoami" -> "GetUser"
          BY <2>5, <3>3 DEF CheckAccountExists, Goto
        <4>2. CASE call[r].op = "update"
          <5>1. pc'[r] = "UpdateBusinessUser" BY <4>1, <4>2
          <5>2. call[r] \in Update BY <4>2 DEF Register, Login, Update, OfToken, NoCall
          <5>3. call[r].token.kind = "business" BY <3>3, <4>2 DEF Honoured
          <5> QED BY <1>1, <2>0, <3>1, <4>1, <5>1, <5>2, <5>3
        <4>3. CASE call[r].op = "delete"
          <5>1. pc'[r] = "UnlinkUser" BY <4>1, <4>3
          <5>2. call[r].token.kind = "business" BY <3>3, <4>3 DEF Honoured
          <5> QED BY <2>0, <3>1, <4>1, <4>3, <5>1, <5>2
        <4>4. CASE call[r].op = "whoami"
          <5>1. pc'[r] = "GetUser" BY <4>1, <4>4
          <5> QED BY <2>0, <3>1, <4>1, <4>4, <5>1
        <4> QED BY <3>1, <4>2, <4>3, <4>4 DEF OnToken
      <3> QED BY <3>2, <3>3
    <2>6. CASE UpdateBusinessUser(r)
      <3>1. pc'[r] = "done" /\ inserted' = inserted /\ unlinked' = unlinked /\ call' = call
            /\ pc[r] = "UpdateBusinessUser"
        BY <2>6 DEF UpdateBusinessUser, Return
      <3> QED BY <1>1, <2>0, <3>1
    <2>7. CASE UnlinkUser(r)
      <3>1. pc'[r] = "DeleteAccount" /\ inserted' = inserted /\ call' = call /\ reply' = reply
            /\ pc[r] = "UnlinkUser"
        BY <2>7 DEF UnlinkUser, Goto
      <3> QED BY <1>1, <2>0, <3>1
    <2>8. CASE DeleteAccount(r)
      <3>1. pc'[r] = "done" /\ inserted' = inserted /\ unlinked'[r] = {} /\ call' = call
            /\ pc[r] = "DeleteAccount"
        BY <2>8 DEF DeleteAccount, Return
      <3> QED BY <1>1, <2>0, <3>1
    <2>9. CASE GetUser(r)
      <3>1. pc'[r] = "done" /\ inserted' = inserted /\ unlinked' = unlinked /\ call' = call
            /\ pc[r] = "GetUser"
        BY <2>9 DEF GetUser, Return
      <3> QED BY <1>1, <2>0, <3>1
    <2>10. CASE Fail(r)
      <3>1. pc'[r] = "done" /\ inserted'[r] = {} /\ unlinked'[r] = {} /\ call' = call
        BY <2>10 DEF Fail, Return
      <3> QED BY <1>1, <2>0, <3>1
    <2> QED BY <2>1, <2>2, <2>3, <2>4, <2>5, <2>6, <2>7, <2>8, <2>9, <2>10 DEF Step, Handle
  <1> QED BY <1>2, <1>3 DEF Where
-----------------------------------------------------------------------------
(* The accounts committed or being inserted.                                *)
Known == accounts \cup UNION {inserted[r] : r \in Req}

LEMMA KnownIds ==
  ASSUME TypeOK, NEW a \in Known
  PROVE  a \in AccountRow /\ a.id <= lastId /\ a.id \in Nat
  BY DEF Known, TypeOK, AccountRow

(* A step brings at most one account, of a new address and a new id.        *)
LEMMA KnownGrows ==
  ASSUME TypeOK, NEW r \in Req, Step(r)
  PROVE  \/ Known' \subseteq Known
         \/ \E a : /\ Known' \subseteq Known \cup {a}
                  /\ \A b \in Known : b.email # a.email /\ b.id # a.id
  <1> USE DEF TypeOK
  <1>1. ASSUME NEW c, Arrive(r, c) PROVE Known' \subseteq Known BY <1>1 DEF Arrive, Known
  <1>2. CASE InsertAccount(r)
    <2>1. CASE inserted' = inserted BY <1>2, <2>1 DEF InsertAccount, Known
    <2>2. CASE ~Taken(accounts, call[r].email) /\ inserted' = [inserted EXCEPT ![r] = {NewAccount(r, lastId + 1)}]
      <3> DEFINE a == NewAccount(r, lastId + 1)
      <3>1. a.email = call[r].email /\ a.id = lastId + 1 BY DEF NewAccount
      <3> HIDE DEF a
      <3>2. Known' \subseteq Known \cup {a} BY <1>2, <2>2 DEF InsertAccount, Known, a
      <3>3. \A b \in Known : b.email # a.email
        BY <1>2, <2>2, <3>1 DEF InsertAccount, Known, Taken
      <3>4. \A b \in Known : b.id # a.id BY <3>1, KnownIds
      <3> QED BY <3>2, <3>3, <3>4
    <2> QED BY <1>2, <2>1, <2>2 DEF InsertAccount
  <1>3. CASE InsertUser(r) BY <1>3 DEF InsertUser, Known
  <1>4. CASE GetAccount(r) BY <1>4 DEF GetAccount, Known
  <1>5. CASE CheckAccountExists(r) BY <1>5 DEF CheckAccountExists, Known
  <1>6. CASE UpdateBusinessUser(r) BY <1>6 DEF UpdateBusinessUser, Known
  <1>7. CASE UnlinkUser(r) BY <1>7 DEF UnlinkUser, Known
  <1>8. CASE DeleteAccount(r) BY <1>8 DEF DeleteAccount, Known
  <1>9. CASE GetUser(r) BY <1>9 DEF GetUser, Known
  <1>10. CASE Fail(r) BY <1>10 DEF Fail, Known
  <1> QED BY <1>1, <1>2, <1>3, <1>4, <1>5, <1>6, <1>7, <1>8, <1>9, <1>10 DEF Step, Handle

LEMMA EmailUniqueStep ==
  ASSUME TypeOK, EmailUnique, NEW r \in Req, Step(r)
  PROVE  EmailUnique'
  <1>1. \A a, b \in Known : a.email = b.email \/ a.id = b.id => a = b BY DEF EmailUnique, Known
  <1>2. \A a, b \in Known' : a.email = b.email \/ a.id = b.id => a = b BY <1>1, KnownGrows
  <1> QED BY <1>2 DEF EmailUnique, Known

LEMMA IdsStep ==
  ASSUME TypeOK, Where, EmailUnique, Ids, NEW r \in Req, Step(r)
  PROVE  Ids'
  <1> USE DEF TypeOK
  <1>0. /\ \A q \in Req : \A a \in inserted[q] : a \in Known
        /\ \A a \in accounts : a \in Known
        /\ \A a, b \in Known : a.id = b.id => a = b
    BY DEF Known, EmailUnique
  <1>1. CASE accounts' \subseteq accounts /\ tokens' = tokens /\ \A q \in Req : inserted'[q] \subseteq inserted[q]
    BY <1>1 DEF Ids
  <1>2. ASSUME NEW c, Arrive(r, c) PROVE Ids' BY <1>1, <1>2 DEF Arrive
  <1>3. CASE InsertAccount(r)
    <2>1. CASE inserted' = inserted BY <1>1, <1>3, <2>1 DEF InsertAccount
    <2>2. CASE inserted' = [inserted EXCEPT ![r] = {NewAccount(r, lastId + 1)}]
      <3>1. NewAccount(r, lastId + 1).id = lastId + 1 BY DEF NewAccount
      <3>2. inserted'[r] = {NewAccount(r, lastId + 1)} /\ \A q \in Req : q # r => inserted'[q] = inserted[q]
        BY <2>2
      <3>3. accounts' = accounts /\ tokens' = tokens BY <1>3 DEF InsertAccount
      <3>4. \A a \in Known : a.id # lastId + 1 BY KnownIds
      <3>5. \A t \in tokens : t.id # lastId + 1 BY DEF Token
      <3>6. \A q \in Req : \A a \in inserted'[q] :
              /\ \A b \in accounts : a.id # b.id
              /\ \A t \in tokens : t.id # a.id
        BY <3>1, <3>2, <3>4, <3>5, <1>0 DEF Ids
      <3>7. \A p, q \in Req : \A a \in inserted'[p], b \in inserted'[q] : a.id = b.id => p = q
        BY <3>1, <3>2, <3>4, <1>0 DEF Ids
      <3> QED BY <3>3, <3>6, <3>7 DEF Ids
    <2> QED BY <1>3, <2>1, <2>2 DEF InsertAccount
  <1>4. CASE InsertUser(r)
    <2>1. accounts' = accounts \cup inserted[r] /\ inserted'[r] = {}
          /\ \A q \in Req : q # r => inserted'[q] = inserted[q]
      BY <1>4 DEF InsertUser
    <2>2. \A t \in tokens' : t \in tokens \/ \E a \in inserted[r] : t = TokenOf(a)
      BY <1>4 DEF InsertUser
    <2>3. \A q \in Req : \A a \in inserted'[q] : \A b \in accounts' : a.id # b.id
      BY <2>1 DEF Ids
    <2>4. \A q \in Req : \A a \in inserted'[q] : \A t \in tokens' : t.id # a.id
      BY <2>1, <2>2 DEF Ids, TokenOf
    <2>5. \A t \in tokens', a \in accounts' : a.id = t.id => a.kind = t.kind
      <3> TAKE t \in tokens', a \in accounts'
      <3>1. CASE t \in tokens BY <2>1, <3>1 DEF Ids
      <3>2. CASE \E b \in inserted[r] : t = TokenOf(b)
        <4>1. PICK b \in inserted[r] : t = TokenOf(b) BY <3>2
        <4>2. a \in Known /\ b \in Known BY <2>1, <1>0
        <4> QED BY <4>1, <4>2, <1>0 DEF TokenOf
      <3> QED BY <2>2, <3>1, <3>2
    <2>6. \A p, q \in Req : \A a \in inserted'[p], b \in inserted'[q] : a.id = b.id => p = q
      BY <2>1 DEF Ids
    <2> QED BY <2>3, <2>4, <2>5, <2>6 DEF Ids
  <1>5. CASE GetAccount(r)
    <2>1. accounts' = accounts /\ inserted' = inserted BY <1>5 DEF GetAccount
    <2>2. \A t \in tokens' : t \in tokens \/ \E a \in accounts : t = TokenOf(a) BY <1>5 DEF GetAccount
    <2>3. \A q \in Req : \A a \in inserted[q] : \A t \in tokens' : t.id # a.id
      BY <2>2 DEF Ids, TokenOf
    <2>4. \A t \in tokens', a \in accounts : a.id = t.id => a.kind = t.kind
      BY <2>2, <1>0 DEF Ids, TokenOf
    <2> QED BY <2>1, <2>3, <2>4 DEF Ids
  <1>6. CASE CheckAccountExists(r) BY <1>1, <1>6 DEF CheckAccountExists
  <1>7. CASE UpdateBusinessUser(r) BY <1>1, <1>7 DEF UpdateBusinessUser
  <1>8. CASE UnlinkUser(r) BY <1>1, <1>8 DEF UnlinkUser
  <1>9. CASE DeleteAccount(r)
    <2>1. accounts' \subseteq accounts /\ tokens' = tokens /\ inserted' = inserted
      BY <1>9 DEF DeleteAccount
    <2> QED BY <1>1, <2>1
  <1>10. CASE GetUser(r) BY <1>1, <1>10 DEF GetUser
  <1>11. CASE Fail(r)
    <2>1. accounts' = accounts /\ tokens' = tokens /\ \A q \in Req : inserted'[q] \subseteq inserted[q]
      BY <1>11 DEF Fail
    <2> QED BY <1>1, <2>1
  <1> QED BY <1>2, <1>3, <1>4, <1>5, <1>6, <1>7, <1>8, <1>9, <1>10, <1>11 DEF Step, Handle

(* A token never comes to stand for another account.                        *)
LEMMA TokensStayTheirsStep ==
  ASSUME TypeOK, Where, Ids, NEW r \in Req, Step(r)
  PROVE  \A t \in tokens : Holders(t)' \subseteq Holders(t)
  <1>1. accounts' \subseteq accounts \cup inserted[r]
    BY DEF Step, Handle, Arrive, InsertAccount, InsertUser, GetAccount, CheckAccountExists,
           UpdateBusinessUser, UnlinkUser, DeleteAccount, GetUser, Fail
  <1> QED BY <1>1 DEF Ids, Holders
-----------------------------------------------------------------------------
(* The steps that change a profile; all others leave accounts and users.    *)
Writes(r) == InsertUser(r) \/ UpdateBusinessUser(r) \/ DeleteAccount(r)

LEMMA OnlyWritesWrite ==
  ASSUME NEW r \in Req, Step(r), ~Writes(r)
  PROVE  accounts' = accounts /\ users' = users
  BY DEF Step, Handle, Writes, Arrive, InsertAccount, GetAccount, CheckAccountExists,
         UnlinkUser, GetUser, Fail

(* A token's id is an account's, not the null of a cleared link.            *)
LEMMA TokenId ==
  ASSUME TypeOK, NEW t \in tokens
  PROVE  t.id \in Nat /\ t.id # NoAccount
  BY NoAccountAssumption DEF TypeOK, Token

LEMMA UpdatedKeeps ==
  ASSUME TypeOK, NEW r \in Req, NEW u \in ProfilesOf(call[r].token)
  PROVE  /\ u \in users /\ u.account = call[r].token.id /\ u.kind = call[r].token.kind
         /\ Updated(u, call[r]).account = u.account
         /\ Updated(u, call[r]).owner = u.owner
         /\ Updated(u, call[r]).kind = u.kind
  BY DEF ProfilesOf, Updated, TypeOK, UserRow

LEMMA UnlinkedKeeps ==
  ASSUME TypeOK, NEW rows \in SUBSET users, NEW v \in Unlink(rows)
  PROVE  /\ v.account = NoAccount
         /\ \E u \in rows : v.owner = u.owner /\ v.kind = u.kind
  BY DEF Unlink, TypeOK, UserRow

LEMMA LinksStep ==
  ASSUME TypeOK, Where, EmailUnique, Ids, Links, Locks, NEW r \in Req, Step(r)
  PROVE  Links'
  <1>1. CASE ~Writes(r)
    <2>1. accounts' = accounts /\ users' = users BY <1>1, OnlyWritesWrite
    <2> QED BY <2>1 DEF Links
  <1>2. CASE InsertUser(r)
    <2>1. PICK id \in 1 .. lastId : inserted[r] = {NewAccount(r, id)} BY <1>2 DEF InsertUser, Where
    <2> DEFINE a == NewAccount(r, id)
    <2> DEFINE n == [owner |-> r, kind |-> a.kind, account |-> a.id, info |-> call[r].info]
    <2>2. accounts' = accounts \cup {a} /\ users' = users \cup {n}
      BY <1>2, <2>1 DEF InsertUser, NewUsers
    <2>3. n.account = a.id /\ n.kind = a.kind /\ a \in inserted[r] BY <2>1
    <2> HIDE DEF a, n
    <2>4. \A b \in accounts : b.id # a.id BY <2>3 DEF Ids
    <2>5. \A u \in users : u.account # NoAccount => u.account # a.id BY <2>4 DEF Links
    <2>6. a.id # NoAccount
      <3>1. a \in AccountRow BY <2>3 DEF TypeOK
      <3> QED BY <3>1, NoAccountAssumption DEF AccountRow
    <2>7. \A u, v \in users' : u.account = v.account /\ u.account # NoAccount => u = v
      BY <2>2, <2>3, <2>5 DEF Links
    <2>8. \A b \in accounts' : \E u \in users' : u.account = b.id /\ u.kind = b.kind
      BY <2>2, <2>3 DEF Links
    <2>9. \A u \in users' : u.account # NoAccount => \E b \in accounts' : b.id = u.account /\ b.kind = u.kind
      BY <2>2, <2>3 DEF Links
    <2> QED BY <2>7, <2>8, <2>9 DEF Links
  <1>3. CASE UpdateBusinessUser(r)
    <2> DEFINE rows == ProfilesOf(call[r].token)
    <2>1. accounts' = accounts /\ users' = (users \ rows) \cup {Updated(u, call[r]) : u \in rows}
      BY <1>3 DEF UpdateBusinessUser
    <2>2. \A v \in users' : \/ v \in users /\ v \notin rows
                           \/ \E u \in rows : v = Updated(u, call[r])
      BY <2>1
    <2>3. \A u \in rows : /\ u \in users
                         /\ Updated(u, call[r]).account = u.account
                         /\ Updated(u, call[r]).kind = u.kind
      BY UpdatedKeeps
    <2>4. \A u \in rows : Updated(u, call[r]) \in users' BY <2>1
    <2>5. \A u \in users : u \in users' \/ u \in rows BY <2>1
    <2> HIDE DEF rows
    <2>6. \A u, v \in users' : u.account = v.account /\ u.account # NoAccount => u = v
      BY <2>2, <2>3 DEF Links
    <2>7. \A b \in accounts' : \E u \in users' : u.account = b.id /\ u.kind = b.kind
      BY <2>1, <2>3, <2>4, <2>5 DEF Links
    <2>8. \A u \in users' : u.account # NoAccount => \E b \in accounts' : b.id = u.account /\ b.kind = u.kind
      BY <2>1, <2>2, <2>3 DEF Links
    <2> QED BY <2>6, <2>7, <2>8 DEF Links
  <1>4. CASE DeleteAccount(r)
    <2> DEFINE t == call[r].token
    <2>1. t \in tokens /\ t.kind = "business" /\ unlinked[r] = ProfilesOf(t)
      BY <1>4 DEF DeleteAccount, Where, Locks, OnToken
    <2>2. /\ accounts' = {a \in accounts : a.id # t.id}
          /\ users' = (users \ unlinked[r]) \cup Unlink(unlinked[r])
      BY <1>4 DEF DeleteAccount
    <2>3. unlinked[r] \in SUBSET users BY <2>1 DEF ProfilesOf
    <2>4. \A v \in users' : v.account # NoAccount => v \in users /\ v \notin unlinked[r]
      BY <2>2, <2>3, UnlinkedKeeps
    <2>5. \A u \in users : u \in unlinked[r] <=> u.account = t.id /\ u.kind = t.kind
      BY <2>1 DEF ProfilesOf
    <2> HIDE DEF t
    <2>6. \A u, v \in users' : u.account = v.account /\ u.account # NoAccount => u = v
      BY <2>4 DEF Links
    <2>7. \A b \in accounts' : \E u \in users' : u.account = b.id /\ u.kind = b.kind
      <3> TAKE b \in accounts'
      <3>1. b \in accounts /\ b.id # t.id BY <2>2
      <3>2. PICK u \in users : u.account = b.id /\ u.kind = b.kind BY <3>1 DEF Links
      <3>3. u \in users' BY <2>2, <2>5, <3>1, <3>2
      <3> QED BY <3>2, <3>3
    <2>8. \A u \in users' : u.account # NoAccount => \E b \in accounts' : b.id = u.account /\ b.kind = u.kind
      <3> TAKE u \in users'
      <3> HAVE u.account # NoAccount
      <3>1. u \in users /\ u \notin unlinked[r] BY <2>4
      <3>2. PICK b \in accounts : b.id = u.account /\ b.kind = u.kind BY <3>1 DEF Links
      <3>3. b.id # t.id BY <2>1, <2>5, <3>1, <3>2 DEF Ids
      <3> QED BY <2>2, <3>2, <3>3
    <2> QED BY <2>6, <2>7, <2>8 DEF Links
  <1> QED BY <1>1, <1>2, <1>3, <1>4 DEF Writes
(* The profile of a token whose deletion is under way stays as it is.       *)
LEMMA LockedStay ==
  ASSUME TypeOK, Where, Ids, Locks, NEW r \in Req, Step(r),
         NEW q \in Req, q # r, pc[q] = "DeleteAccount"
  PROVE  ProfilesOf(call[q].token)' = ProfilesOf(call[q].token)
  <1> DEFINE t == call[q].token
  <1>0. /\ t \in tokens /\ t.kind = "business" /\ unlinked[q] = ProfilesOf(t)
        /\ t.id # NoAccount /\ call'[q] = call[q]
    BY TokenId, OthersKeep DEF Where, Locks, OnToken
  <1> HIDE DEF t
  <1> SUFFICES \A v : (v \in users' /\ v.account = t.id /\ v.kind = t.kind)
                        <=> (v \in users /\ v.account = t.id /\ v.kind = t.kind)
    BY <1>0 DEF ProfilesOf, t
  <1>1. CASE ~Writes(r) BY <1>1, OnlyWritesWrite
  <1>2. CASE InsertUser(r)
    <2>1. \A v \in users' : v \in users \/ \E a \in inserted[r] : v.account = a.id
      BY <1>2 DEF InsertUser, NewUsers
    <2>2. users \subseteq users' BY <1>2 DEF InsertUser
    <2> QED BY <1>0, <2>1, <2>2 DEF Ids
  <1>3. CASE UpdateBusinessUser(r)
    <2> DEFINE s == call[r].token
    <2>1. s.kind = "business" /\ ProfilesOf(s) \cap unlinked[q] = {}
          /\ users' = (users \ ProfilesOf(s)) \cup {Updated(u, call[r]) : u \in ProfilesOf(s)}
      BY <1>3 DEF UpdateBusinessUser, Unlocked, Where
    <2>2. \A u \in ProfilesOf(s) : u \in users /\ u.account = s.id /\ Updated(u, call[r]).account = s.id
      BY UpdatedKeeps
    <2> HIDE DEF s
    <2>3. CASE s.id = t.id
      <3>1. ProfilesOf(s) = {} BY <1>0, <2>1, <2>3 DEF ProfilesOf
      <3> QED BY <2>1, <3>1
    <2>4. CASE s.id # t.id BY <2>1, <2>2, <2>4
    <2> QED BY <2>3, <2>4
  <1>4. CASE DeleteAccount(r)
    <2>1. users' = (users \ unlinked[r]) \cup Unlink(unlinked[r]) BY <1>4 DEF DeleteAccount
    <2>2. unlinked[r] \in SUBSET users BY <1>4 DEF DeleteAccount, Locks, ProfilesOf
    <2>3. \A v \in Unlink(unlinked[r]) : v.account = NoAccount BY <2>2, UnlinkedKeeps
    <2>4. \A v \in unlinked[r] : ~(v.account = t.id /\ v.kind = t.kind)
      BY <1>0, <2>2 DEF Locks, ProfilesOf
    <2> QED BY <1>0, <2>1, <2>3, <2>4
  <1> QED BY <1>1, <1>2, <1>3, <1>4 DEF Writes

LEMMA LocksStep ==
  ASSUME TypeOK, Where, Ids, Locks, NEW r \in Req, Step(r)
  PROVE  Locks'
  <1> USE DEF TypeOK
  <1>1. CASE UnlinkUser(r)
    <2>1. /\ unlinked' = [unlinked EXCEPT ![r] = ProfilesOf(call[r].token)]
          /\ users' = users /\ call' = call /\ pc' = [pc EXCEPT ![r] = "DeleteAccount"]
          /\ \A q \in Req : ProfilesOf(call[r].token) \cap unlinked[q] = {}
      BY <1>1 DEF UnlinkUser, Goto, Unlocked
    <2>2. \A q \in Req : ProfilesOf(call[q].token)' = ProfilesOf(call[q].token)
      BY <2>1 DEF ProfilesOf
    <2>3. \A q \in Req : pc'[q] = "DeleteAccount" => unlinked'[q] = ProfilesOf(call[q].token)'
      BY <2>1, <2>2 DEF Locks
    <2>4. \A p, q \in Req : p # q => unlinked'[p] \cap unlinked'[q] = {} BY <2>1 DEF Locks
    <2> QED BY <2>3, <2>4 DEF Locks
  <1>2. CASE ~UnlinkUser(r)
    <2>1. unlinked'[r] \subseteq unlinked[r] /\ pc'[r] # "DeleteAccount"
      <3>1. ASSUME NEW c, Arrive(r, c) PROVE unlinked'[r] \subseteq unlinked[r] /\ pc'[r] # "DeleteAccount"
        <4>1. pc'[r] = CASE c.op = "register" -> "InsertAccount"
                         [] c.op = "login" -> "GetAccount"
                         [] OTHER -> "CheckAccountExists"
          BY <3>1 DEF Arrive, Goto
        <4>2. pc'[r] # "DeleteAccount" BY <4>1
        <4> QED BY <3>1, <4>2 DEF Arrive
      <3>2. CASE InsertAccount(r) BY <3>2 DEF InsertAccount, Goto, Return
      <3>3. CASE InsertUser(r) BY <3>3 DEF InsertUser, Return
      <3>4. CASE GetAccount(r) BY <3>4 DEF GetAccount, Return
      <3>5. CASE CheckAccountExists(r)
        <4>1. call[r].op \in OnToken BY <3>5 DEF CheckAccountExists, Where
        <4> QED BY <3>5, <4>1 DEF CheckAccountExists, Goto, Return, OnToken
      <3>6. CASE UpdateBusinessUser(r) BY <3>6 DEF UpdateBusinessUser, Return
      <3>7. CASE DeleteAccount(r) BY <3>7 DEF DeleteAccount, Return
      <3>8. CASE GetUser(r) BY <3>8 DEF GetUser, Return
      <3>9. CASE Fail(r) BY <3>9 DEF Fail, Return
      <3> QED BY <1>2, <3>1, <3>2, <3>3, <3>4, <3>5, <3>6, <3>7, <3>8, <3>9 DEF Step, Handle
    <2>2. \A q \in Req : q # r => unlinked'[q] = unlinked[q] /\ pc'[q] = pc[q] BY OthersKeep
    <2>3. ASSUME NEW q \in Req, pc'[q] = "DeleteAccount" PROVE unlinked'[q] = ProfilesOf(call[q].token)'
      <3>1. q # r /\ pc[q] = "DeleteAccount" /\ unlinked'[q] = unlinked[q] BY <2>1, <2>2, <2>3
      <3>2. ProfilesOf(call[q].token)' = ProfilesOf(call[q].token) BY <3>1, LockedStay
      <3> QED BY <3>1, <3>2 DEF Locks
    <2>4. \A p, q \in Req : p # q => unlinked'[p] \cap unlinked'[q] = {} BY <2>1, <2>2 DEF Locks
    <2> QED BY <2>3, <2>4 DEF Locks
  <1> QED BY <1>1, <1>2
-----------------------------------------------------------------------------
(* Profiles are kept, and new ones belong to the request that commits.      *)
LEMMA ProfilesStep ==
  ASSUME TypeOK, Where, Locks, NEW r \in Req, Step(r)
  PROVE  /\ \A u \in users : \E v \in users' :
              /\ v.owner = u.owner /\ v.kind = u.kind
              /\ v.account \in {u.account, NoAccount}
              /\ u.account = NoAccount => v = u
         /\ \A v \in users' : (\E u \in users : u.owner = v.owner) \/ (InsertUser(r) /\ v.owner = r)
  <1>1. CASE ~Writes(r)
    <2>1. users' = users BY <1>1, OnlyWritesWrite
    <2> QED BY <2>1
  <1>2. CASE InsertUser(r) BY <1>2 DEF InsertUser, NewUsers
  <1>3. CASE UpdateBusinessUser(r)
    <2> DEFINE rows == ProfilesOf(call[r].token)
    <2>1. users' = (users \ rows) \cup {Updated(u, call[r]) : u \in rows} BY <1>3 DEF UpdateBusinessUser
    <2>2. call[r].token.id # NoAccount
      BY <1>3, TokenId DEF UpdateBusinessUser, Where, Update, OnToken
    <2>3. \A u \in rows : /\ u \in users /\ u.account # NoAccount
                         /\ Updated(u, call[r]).account = u.account
                         /\ Updated(u, call[r]).owner = u.owner
                         /\ Updated(u, call[r]).kind = u.kind
      BY <2>2, UpdatedKeeps
    <2> HIDE DEF rows
    <2> QED BY <2>1, <2>3
  <1>4. CASE DeleteAccount(r)
    <2>1. users' = (users \ unlinked[r]) \cup Unlink(unlinked[r]) BY <1>4 DEF DeleteAccount
    <2>2. unlinked[r] = ProfilesOf(call[r].token) BY <1>4 DEF DeleteAccount, Locks
    <2>3. call[r].token.id # NoAccount BY <1>4, TokenId DEF DeleteAccount, Where, OnToken
    <2>4. unlinked[r] \in SUBSET users /\ \A u \in unlinked[r] : u.account # NoAccount
      BY <2>2, <2>3 DEF ProfilesOf
    <2>5. \A v \in Unlink(unlinked[r]) : \E u \in unlinked[r] : v.owner = u.owner BY <2>4, UnlinkedKeeps
    <2>6. ASSUME NEW u \in unlinked[r]
          PROVE  \E v \in users' : v.owner = u.owner /\ v.kind = u.kind /\ v.account = NoAccount
      <3> DEFINE v == [u EXCEPT !.account = NoAccount]
      <3>1. v \in users' BY <2>1, <2>6 DEF Unlink
      <3>2. v.owner = u.owner /\ v.kind = u.kind /\ v.account = NoAccount
        BY <2>4 DEF TypeOK, UserRow
      <3> QED BY <3>1, <3>2
    <2> QED BY <2>1, <2>4, <2>5, <2>6
  <1> QED BY <1>1, <1>2, <1>3, <1>4 DEF Writes

LEMMA NotDone ==
  ASSUME NEW r \in Req, Step(r)
  PROVE  pc[r] # "done"
  BY DEF Step, Handle, Arrive, InsertAccount, InsertUser, GetAccount, CheckAccountExists,
         UpdateBusinessUser, UnlinkUser, DeleteAccount, GetUser, Fail

LEMMA OwnersStep ==
  ASSUME TypeOK, Where, Locks, Owners, NEW r \in Req, Step(r)
  PROVE  Owners'
  <1> SUFFICES ASSUME NEW v \in users'
               PROVE  call'[v.owner].op = "register" /\ reply'[v.owner] \in {"ok", "internal"}
    BY DEF Owners
  <1>1. CASE \E u \in users : u.owner = v.owner
    <2>1. v.owner \in Req /\ call[v.owner].op = "register" /\ reply[v.owner] \in {"ok", "internal"}
      BY <1>1 DEF Owners, TypeOK, UserRow
    <2>2. v.owner # r BY <2>1, NotDone DEF Where
    <2> QED BY <2>1, <2>2, OthersKeep
  <1>2. CASE InsertUser(r) /\ v.owner = r
    <2>1. call'[r].op = "register" BY <1>2 DEF InsertUser, Where, Register
    <2>2. reply'[r] \in {"ok", "internal"} BY <1>2 DEF InsertUser, Return, TypeOK
    <2> QED BY <1>2, <2>1, <2>2
  <1> QED BY <1>1, <1>2, ProfilesStep
-----------------------------------------------------------------------------
(* What RepliesTruthful says of one request.                                *)
Truthful(r) ==
  /\ (/\ call[r].op \in {"update", "delete", "whoami"}
      /\ r \notin FaultyReq
      /\ reply[r] \in {"unauthorized", "internal"}) => ~Honoured(r)
  /\ call[r].op = "delete" /\ reply[r] = "ok" => ~Live(call[r].token)
  /\ call[r].op = "register" /\ reply[r] # "internal" =>
       (reply[r] = "ok" <=> \E u \in users : u.owner = r)

(* Answers stay true: accounts do not come back, profiles do not go away.   *)
LEMMA OthersStayTruthful ==
  ASSUME AInv, NEW r \in Req, Step(r), NEW q \in Req, q # r
  PROVE  Truthful(q)'
  <1> USE DEF AInv
  <1>0. Truthful(q) BY DEF RepliesTruthful, Truthful
  <1>1. call'[q] = call[q] /\ reply'[q] = reply[q] BY OthersKeep
  <1>2. call[q].op \in OnToken => Holders(call[q].token)' \subseteq Holders(call[q].token)
    <2>1. call[q].op \in OnToken => call[q].token \in tokens BY DEF Where
    <2>2. \A t \in tokens : {a \in accounts' : a.id = t.id /\ a.kind = t.kind} \subseteq Holders(t)
      BY TokensStayTheirsStep DEF Holders
    <2> QED BY <1>1, <2>1, <2>2 DEF Holders
  <1>3. call[q].op \in OnToken => (Live(call[q].token)' => Live(call[q].token)) BY <1>2 DEF Live
  <1>4. call[q].op \in OnToken => (Honoured(q)' => Honoured(q)) BY <1>1, <1>3 DEF Honoured
  <1>5. (\E u \in users : u.owner = q) <=> (\E u \in users' : u.owner = q)
    BY ProfilesStep
  <1> QED BY <1>0, <1>1, <1>3, <1>4, <1>5 DEF Truthful, OnToken

LEMMA AnswersTruthful ==
  ASSUME AInv, NEW r \in Req, Step(r), Where', Owners'
  PROVE  Truthful(r)'
  <1> USE DEF AInv, TypeOK
  <1>1. CASE pc'[r] # "done"
    <2>1. reply'[r] = "none" BY <1>1 DEF Where
    <2>2. \A u \in users' : u.owner # r BY <2>1 DEF Owners
    <2> QED BY <2>1, <2>2 DEF Truthful
  <1>2. CASE pc'[r] = "done"
    <2>1. ASSUME NEW c, Arrive(r, c) PROVE FALSE
      <3>1. pc'[r] = CASE c.op = "register" -> "InsertAccount"
                       [] c.op = "login" -> "GetAccount"
                       [] OTHER -> "CheckAccountExists"
        BY <2>1 DEF Arrive, Goto
      <3> QED BY <1>2, <3>1
    <2>2. CASE InsertAccount(r)
      <3>1. call'[r].op = "register" BY <2>2 DEF InsertAccount, Where, Register
      <3>2. reply'[r] \in {"taken", "internal"} BY <1>2, <2>2 DEF InsertAccount, Goto, Return
      <3>3. reply'[r] = "taken" => \A u \in users' : u.owner # r BY DEF Owners
      <3> QED BY <3>1, <3>2, <3>3 DEF Truthful
    <2>3. CASE InsertUser(r)
      <3>1. call'[r].op = "register" BY <2>3 DEF InsertUser, Where, Register
      <3>2. reply'[r] \in {"ok", "internal"} BY <2>3 DEF InsertUser, Return
      <3>3. \E a : a \in inserted[r]
        <4>1. \E id \in 1 .. lastId : inserted[r] = {NewAccount(r, id)} BY <2>3 DEF InsertUser, Where
        <4> QED BY <4>1
      <3>4. \E u \in users' : u.owner = r
        <4>1. PICK a : a \in inserted[r] BY <3>3
        <4> DEFINE u == [owner |-> r, kind |-> a.kind, account |-> a.id, info |-> call[r].info]
        <4>2. u \in users' BY <2>3, <4>1 DEF InsertUser, NewUsers
        <4>3. u.owner = r OBVIOUS
        <4> QED BY <4>2, <4>3
      <3> QED BY <3>1, <3>2, <3>4 DEF Truthful
    <2>4. CASE GetAccount(r)
      <3>1. call'[r].op = "login" BY <2>4 DEF GetAccount, Where, Login
      <3> QED BY <3>1 DEF Truthful
    <2>5. CASE CheckAccountExists(r)
      <3>1. call[r].op \in OnToken /\ call' = call /\ accounts' = accounts
        BY <2>5 DEF CheckAccountExists, Where
      <3>2. CASE ~Honoured(r)
        <4>1. reply'[r] = "unauthorized" BY <2>5, <3>2 DEF CheckAccountExists, Return
        <4>2. ~Honoured(r)' BY <3>1, <3>2 DEF Honoured, Live, Holders
        <4> QED BY <3>1, <4>1, <4>2 DEF Truthful, OnToken
      <3>3. CASE Honoured(r)
        <4>1. pc'[r] # "done" BY <2>5, <3>1, <3>3 DEF CheckAccountExists, Goto, OnToken
        <4> QED BY <1>2, <4>1
      <3> QED BY <3>2, <3>3
    <2>6. CASE UpdateBusinessUser(r)
      <3>1. call'[r].op = "update" BY <2>6 DEF UpdateBusinessUser, Where, Update
      <3>2. reply'[r] = "ok" \/ r \in FaultyReq BY <2>6 DEF UpdateBusinessUser, Return
      <3> QED BY <3>1, <3>2 DEF Truthful
    <2>7. CASE UnlinkUser(r) BY <1>2, <2>7 DEF UnlinkUser, Goto
    <2>8. CASE DeleteAccount(r)
      <3>1. call'[r].op = "delete" /\ call' = call BY <2>8 DEF DeleteAccount, Where
      <3>2. reply'[r] = "ok" \/ (reply'[r] = "internal" /\ r \in FaultyReq)
        BY <2>8 DEF DeleteAccount, Return
      <3>3. ~Live(call[r].token)' BY <2>8, <3>1 DEF DeleteAccount, Live, Holders
      <3> QED BY <3>1, <3>2, <3>3 DEF Truthful
    <2>9. CASE GetUser(r)
      <3>1. call'[r].op = "whoami" /\ call' = call /\ accounts' = accounts BY <2>9 DEF GetUser, Where
      <3>2. CASE ProfilesOf(call[r].token) = {}
        <4>1. ~Live(call[r].token) BY <3>2 DEF ProfilesOf, Live, Holders, Links
        <4>2. ~Honoured(r)' BY <3>1, <4>1 DEF Honoured, Live, Holders
        <4> QED BY <3>1, <4>2 DEF Truthful
      <3>3. CASE ProfilesOf(call[r].token) # {}
        <4>1. reply'[r] = "ok" BY <2>9, <3>3 DEF GetUser, Return
        <4> QED BY <3>1, <4>1 DEF Truthful
      <3> QED BY <3>2, <3>3
    <2>10. CASE Fail(r)
      <3>1. r \in FaultyReq /\ call' = call BY <2>10 DEF Fail
      <3>2. reply'[r] # "ok" BY <2>10 DEF Fail, Return
      <3>3. call[r].op = "register" => reply'[r] = "internal"
        <4>1. call[r].op = "register" => pc[r] # "GetAccount" /\ pc[r] # "CheckAccountExists"
          BY DEF Where, Login, OnToken
        <4> QED BY <2>10, <4>1 DEF Fail, Return
      <3> QED BY <3>1, <3>2, <3>3 DEF Truthful
    <2> QED BY <2>1, <2>2, <2>3, <2>4, <2>5, <2>6, <2>7, <2>8, <2>9, <2>10 DEF Step, Handle
  <1> QED BY <1>1, <1>2
-----------------------------------------------------------------------------
LEMMA AInvInit == Init => AInv
  <1> SUFFICES ASSUME Init PROVE AInv OBVIOUS
  <1>1. TypeOK BY DEF Init, TypeOK
  <1>2. Where BY DEF Init, Where, OnToken, NoCall
  <1>3. EmailUnique /\ Ids /\ Links /\ Locks /\ Owners
    BY DEF Init, EmailUnique, Ids, Links, Locks, Owners
  <1>4. RepliesTruthful BY DEF Init, RepliesTruthful, NoCall
  <1> QED BY <1>1, <1>2, <1>3, <1>4 DEF AInv

LEMMA AInvStep == AInv /\ [Next]_vars => AInv'
  <1> SUFFICES ASSUME AInv, [Next]_vars PROVE AInv' OBVIOUS
  <1> USE DEF AInv
  <1>1. CASE UNCHANGED vars
    BY <1>1 DEF vars, TypeOK, AccountRow, UserRow, Token, Update, OfToken, Where, NewAccount,
                EmailUnique, Ids, Links, Locks, ProfilesOf, Owners, RepliesTruthful, Honoured, Live, Holders
  <1>2. CASE Next
    <2>1. PICK r \in Req : Step(r) BY <1>2, StepOfOne
    <2>2. TypeOK' /\ Where' BY <2>1, TypeStep, WhereStep
    <2>3. EmailUnique' /\ Ids' BY <2>1, EmailUniqueStep, IdsStep
    <2>4. Links' /\ Locks' BY <2>1, LinksStep, LocksStep
    <2>5. Owners' BY <2>1, OwnersStep
    <2>6. \A q \in Req : Truthful(q)' BY <2>1, <2>2, <2>5, OthersStayTruthful, AnswersTruthful
    <2>7. RepliesTruthful' BY <2>6 DEF Truthful, RepliesTruthful
    <2> QED BY <2>2, <2>3, <2>4, <2>5, <2>7
  <1> QED BY <1>1, <1>2

LEMMA AInvAlways == Spec => []AInv
  BY AInvInit, AInvStep, PTL DEF Spec

(* The tables, tokens and answers keep their types.                         *)
THEOREM AccountsTypeCorrect == Spec => []TypeOK
  <1>1. AInv => TypeOK BY DEF AInv
  <1> QED BY AInvAlways, <1>1, PTL

(* However many registrations race for an address, one account gets it.     *)
THEOREM AddressesAreUnique == Spec => []EmailUnique
  <1>1. AInv => EmailUnique BY DEF AInv
  <1> QED BY AInvAlways, <1>1, PTL

(* Every account has one profile and no profile is linked to an account     *)
(* that is gone, whatever updates race with deletions.                      *)
THEOREM ProfilesAreLinked == Spec => []LinksIntact
  <1>1. AInv => LinksIntact
    <2> SUFFICES ASSUME AInv PROVE LinksIntact OBVIOUS
    <2> USE DEF AInv
    <2>1. ASSUME NEW a \in accounts PROVE \E u \in users : ProfilesOf(TokenOf(a)) = {u}
      <3>1. PICK u \in users : u.account = a.id /\ u.kind = a.kind BY DEF Links
      <3>2. a.id # NoAccount BY NoAccountAssumption DEF TypeOK, AccountRow
      <3>3. \A v \in users : v.account = a.id => v = u BY <3>1, <3>2 DEF Links
      <3> QED BY <3>1, <3>3 DEF ProfilesOf, TokenOf
    <2>2. ASSUME NEW u \in users, u.account # NoAccount
          PROVE  Live([id |-> u.account, kind |-> u.kind])
      BY <2>2 DEF Links, Live, Holders
    <2> QED BY <2>1, <2>2 DEF LinksIntact
  <1> QED BY AInvAlways, <1>1, PTL

(* What a request was answered stays true of the tables.                    *)
THEOREM AccountRepliesTruthful == Spec => []RepliesTruthful
  <1>1. AInv => RepliesTruthful BY DEF AInv
  <1> QED BY AInvAlways, <1>1, PTL

(* The token of a deleted account stays dead.                               *)
THEOREM TokensNeverChangeHands == Spec => TokensStayTheirs
  <1> DEFINE Theirs == \A t \in tokens : Holders(t)' \subseteq Holders(t)
  <1>1. AInv /\ [Next]_vars => [Theirs]_vars
    BY StepOfOne, TokensStayTheirsStep DEF AInv
  <1> HIDE DEF Theirs
  <1>2. Spec => [][Theirs]_vars BY AInvAlways, <1>1, PTL DEF Spec
  <1> QED BY <1>2 DEF Theirs, TokensStayTheirs

(* Profiles outlive their accounts, unchanged.                              *)
THEOREM ProfilesOutliveAccounts == Spec => ProfilesKept
  <1> DEFINE Kept == \A u \in users : \E v \in users' :
                       /\ v.owner = u.owner /\ v.kind = u.kind
                       /\ v.account \in {u.account, NoAccount}
                       /\ u.account = NoAccount => v = u
  <1>1. AInv /\ [Next]_vars => [Kept]_vars
    BY StepOfOne, ProfilesStep DEF AInv
  <1> HIDE DEF Kept
  <1>2. Spec => [][Kept]_vars BY AInvAlways, <1>1, PTL DEF Spec
  <1> QED BY <1>2 DEF Kept, ProfilesKept
-----------------------------------------------------------------------------
(* The registry's operators are those of the tables.                        *)
LEMMA RegistryTokens ==
  ASSUME TypeOK, NEW t \in tokens
  PROVE  /\ Registry!AccountOf(t) = Holders(t)
         /\ Registry!ProfileOf(t) = ProfilesOf(t)
  <1>1. t = [id |-> t.id, kind |-> t.kind] BY DEF TypeOK, Token
  <1>2. \A a \in accounts : Registry!TokenOf(a) = t <=> a.id = t.id /\ a.kind = t.kind
    BY <1>1 DEF Registry!TokenOf
  <1> QED BY <1>2 DEF Registry!AccountOf, Holders, Registry!ProfileOf, ProfilesOf

LEMMA RegistryEntitled ==
  ASSUME TypeOK, NEW r \in Req, call[r].token \in tokens
  PROVE  Registry!Entitled(call[r]) <=> Honoured(r)
  BY RegistryTokens DEF Registry!Entitled, Honoured, Live

(* What a step means for the requests that were admitted.                   *)
LEMMA AdmittedStep ==
  ASSUME AInv, NEW r \in Req, Step(r)
  PROVE  \A q \in Req : q # r => (q \in Admitted' <=> q \in Admitted)
  BY OthersKeep DEF AInv, Admitted

LEMMA AdmittedSame ==
  ASSUME AInv, NEW r \in Req, Step(r), r \in Admitted' <=> r \in Admitted
  PROVE  Admitted' = Admitted
  <1>1. \A q \in Req : q \in Admitted' <=> q \in Admitted BY AdmittedStep
  <1>2. Admitted \subseteq Req /\ Admitted' \subseteq Req BY DEF Admitted
  <1> QED BY <1>1, <1>2

LEMMA RegistryInit == Init => Registry!Init
  BY DEF Init, Registry!Init, Admitted, Registry!NoCall, NoCall

LEMMA RegistryStep ==
  ASSUME AInv, NEW r \in Req, Step(r)
  PROVE  [Registry!Next]_(Registry!vars)
  <1> USE DEF AInv
  <1>a. r \in Admitted <=> call[r].op \in OnToken /\ pc[r] # "CheckAccountExists" /\ reply[r] # "unauthorized"
    BY DEF Admitted, OnToken
  <1>b. r \in Admitted' <=> call'[r].op \in OnToken /\ pc'[r] # "CheckAccountExists" /\ reply'[r] # "unauthorized"
    BY DEF Admitted, OnToken
  <1>c. reply[r] = "none" BY NotDone DEF Where
  <1>1. ASSUME NEW c, Asks(c), Arrive(r, c) PROVE Registry!Next
    <2>1. call[r] = NoCall /\ call' = [call EXCEPT ![r] = c] BY <1>1 DEF Arrive, Where
    <2>2. Admitted' = Admitted
      <3>1. r \notin Admitted BY <1>a, <2>1 DEF NoCall, OnToken
      <3>2. c \in Update \cup OfToken => pc'[r] = "CheckAccountExists"
        <4>1. pc'[r] = CASE c.op = "register" -> "InsertAccount"
                         [] c.op = "login" -> "GetAccount"
                         [] OTHER -> "CheckAccountExists"
          BY <1>1 DEF Arrive, Goto, TypeOK
        <4> QED BY <4>1 DEF Update, OfToken
      <3>3. c \in Register \cup Login => c.op \notin OnToken BY DEF Register, Login, OnToken
      <3>4. call'[r] = c BY <2>1 DEF TypeOK
      <3>5. r \notin Admitted' BY <1>1, <1>b, <3>2, <3>3, <3>4 DEF Asks
      <3> QED BY <3>1, <3>5, AdmittedSame
    <2>3. c \in Registry!Register \cup Registry!Login \cup UNION {Registry!OnToken(t) : t \in tokens}
      <3>1. CASE c \in Register BY <3>1 DEF Register, Registry!Register, Kind, Info
      <3>2. CASE c \in Login BY <3>2 DEF Login, Registry!Login, Kind
      <3>3. CASE c \in Update
        <4>1. c.token \in tokens BY <1>1, <3>3 DEF Asks, Update, OnToken
        <4>2. c \in Registry!OnToken(c.token) BY <3>3 DEF Update, Registry!OnToken, Info
        <4> QED BY <4>1, <4>2
      <3>4. CASE c \in OfToken
        <4>1. c.token \in tokens BY <1>1, <3>4 DEF Asks, OfToken, OnToken
        <4>2. c \in Registry!OnToken(c.token) BY <3>4 DEF OfToken, Registry!OnToken
        <4> QED BY <4>1, <4>2
      <3> QED BY <1>1, <3>1, <3>2, <3>3, <3>4 DEF Asks
    <2>4. Registry!Ask(r)
      BY <1>1, <2>1, <2>2, <2>3 DEF Arrive, Goto, Registry!Ask, Registry!NoCall, NoCall
    <2> QED BY <2>4 DEF Registry!Next
  <1>2. CASE InsertAccount(r)
    <2>1. call[r] \in Register /\ call[r].op = "register" /\ call' = call
      BY <1>2 DEF InsertAccount, Where, Register
    <2>2. Admitted' = Admitted BY <1>a, <1>b, <2>1, AdmittedSame DEF OnToken
    <2>3. CASE Goto(r, "InsertUser")
      BY <1>2, <2>2, <2>3 DEF InsertAccount, Goto, Registry!vars
    <2>4. CASE Taken(accounts, call[r].email) /\ Return(r, IF call[r].kind = "business" THEN "taken" ELSE "internal")
      <3>1. Registry!TurnDown(r)
        BY <1>2, <1>c, <2>1, <2>2, <2>4
        DEF InsertAccount, Return, Registry!TurnDown, Registry!Open, Registry!AddressTaken, Taken, Registry!Answer
      <3> QED BY <3>1 DEF Registry!Next
    <2> QED BY <1>2, <2>3, <2>4 DEF InsertAccount
  <1>3. CASE InsertUser(r)
    <2>1. call[r] \in Register /\ call[r].op = "register" /\ call' = call
      BY <1>3 DEF InsertUser, Where, Register
    <2>2. Admitted' = Admitted BY <1>a, <1>b, <2>1, AdmittedSame DEF OnToken
    <2>3. PICK id \in 1 .. lastId : inserted[r] = {NewAccount(r, id)} BY <1>3 DEF InsertUser, Where
    <2> DEFINE a == NewAccount(r, id)
    <2>4. a.kind = call[r].kind /\ a.email = call[r].email /\ inserted[r] = {a} BY <2>3 DEF NewAccount
    <2> HIDE DEF a
    <2>5. \A b \in accounts : b.id # a.id /\ b.email # a.email
      <3>1. \A b \in accounts : b.id # a.id BY <2>4 DEF Ids
      <3>2. \A b \in accounts : b.email = a.email => b = a BY <2>4 DEF EmailUnique
      <3> QED BY <3>1, <3>2
    <2>6. \A t \in tokens \cup {Registry!TokenOf(b) : b \in accounts} : t.id # a.id
      <3>1. \A t \in tokens : t.id # a.id BY <2>4 DEF Ids
      <3>2. \A b \in accounts : Registry!TokenOf(b).id = b.id BY DEF Registry!TokenOf
      <3> QED BY <2>5, <3>1, <3>2
    <2>7. accounts' = accounts \cup {a} /\ a \in accounts' \ accounts
      BY <1>3, <2>4, <2>5 DEF InsertUser
    <2>8. users' = users \cup {[owner |-> r, kind |-> a.kind, account |-> a.id, info |-> call[r].info]}
      BY <1>3, <2>4 DEF InsertUser, NewUsers
    <2>9. Registry!Open(r, "register") /\ ~Registry!AddressTaken(r)
      BY <1>c, <2>1, <2>4, <2>5 DEF Registry!Open, Registry!AddressTaken
    <2>10. \/ /\ Registry!Answer(r, "ok")
              /\ tokens' = IF a.kind = "business" THEN tokens \cup {Registry!TokenOf(a)} ELSE tokens
           \/ r \in FaultyReq /\ Registry!Answer(r, "internal") /\ UNCHANGED tokens
      <3>1. CASE Return(r, "ok") /\ tokens' = tokens \cup {TokenOf(b) : b \in {b \in inserted[r] : b.kind = "business"}}
        <4>1. tokens' = IF a.kind = "business" THEN tokens \cup {TokenOf(a)} ELSE tokens
          BY <2>4, <3>1
        <4> QED BY <3>1, <4>1 DEF Return, Registry!Answer, TokenOf, Registry!TokenOf
      <3>2. CASE r \in FaultyReq /\ Return(r, "internal") /\ UNCHANGED tokens
        BY <3>2 DEF Return, Registry!Answer
      <3> QED BY <1>3, <3>1, <3>2 DEF InsertUser
    <2>11. Registry!Enroll(r)
      BY <2>1, <2>2, <2>4, <2>6, <2>7, <2>8, <2>9, <2>10 DEF Registry!Enroll
    <2> QED BY <2>11 DEF Registry!Next
  <1>4. CASE GetAccount(r)
    <2>1. call[r].op = "login" /\ call' = call BY <1>4 DEF GetAccount, Where, Login
    <2>2. Admitted' = Admitted BY <1>a, <1>b, <2>1, AdmittedSame DEF OnToken
    <2>3. Registry!LogIn(r)
      BY <1>4, <1>c, <2>1, <2>2
      DEF GetAccount, Return, Registry!LogIn, Registry!Open, Registry!Answer, TokenOf, Registry!TokenOf
    <2> QED BY <2>3 DEF Registry!Next
  <1>5. CASE CheckAccountExists(r)
    <2>1. call[r].op \in OnToken /\ call[r].token \in tokens /\ call' = call
      BY <1>5 DEF CheckAccountExists, Where
    <2>2. r \notin Admitted BY <1>5, <1>a DEF CheckAccountExists
    <2>3. CASE Honoured(r)
      <3>1. /\ pc'[r] # "CheckAccountExists" /\ reply' = reply
        BY <1>5, <2>1, <2>3 DEF CheckAccountExists, Goto, OnToken, TypeOK
      <3>2. r \in Admitted' BY <1>b, <1>c, <2>1, <3>1
      <3>3. Admitted' = Admitted \cup {r}
        <4>1. Admitted \subseteq Req /\ Admitted' \subseteq Req BY DEF Admitted
        <4> QED BY <3>2, <4>1, AdmittedStep
      <3>4. Registry!Grant(r)
        BY <1>5, <1>c, <2>1, <2>2, <2>3, <3>1, <3>3, RegistryEntitled
        DEF CheckAccountExists, Registry!Grant, OnToken
      <3> QED BY <3>4 DEF Registry!Next
    <2>4. CASE ~Honoured(r)
      <3>1. Return(r, "unauthorized") BY <1>5, <2>4 DEF CheckAccountExists
      <3>2. reply'[r] = "unauthorized" BY <3>1 DEF Return, TypeOK
      <3>3. Admitted' = Admitted BY <1>b, <2>2, <3>2, AdmittedSame
      <3>4. call[r] # Registry!NoCall BY <2>1 DEF OnToken, Registry!NoCall
      <3>5. Registry!Refuse(r)
        BY <1>5, <1>c, <2>1, <2>2, <2>4, <3>1, <3>3, <3>4, RegistryEntitled
        DEF CheckAccountExists, Return, Registry!Refuse, Registry!Answer, OnToken
      <3> QED BY <3>5 DEF Registry!Next
    <2> QED BY <2>3, <2>4
  <1>6. CASE UpdateBusinessUser(r)
    <2> DEFINE c == call[r]
    <2>1. c \in Update /\ c.op = "update" /\ c.token \in tokens /\ call' = call
      BY <1>6 DEF UpdateBusinessUser, Where, Update, OnToken
    <2>2. pc[r] = "UpdateBusinessUser" /\ pc'[r] = "done" /\ reply'[r] \in {"ok", "internal"}
      BY <1>6 DEF UpdateBusinessUser, Return, TypeOK
    <2>3. r \in Admitted /\ Admitted' = Admitted
      BY <1>a, <1>b, <1>c, <2>1, <2>2, AdmittedSame DEF OnToken
    <2>4. \A u \in ProfilesOf(c.token) :
            Updated(u, c) = IF c.info # Empty THEN [u EXCEPT !.info = c.info] ELSE u
      <3> TAKE u \in ProfilesOf(c.token)
      <3>1. u \in UserRow /\ u.account = c.token.id BY DEF ProfilesOf, TypeOK
      <3>2. CASE c.info = Empty BY <3>1, <3>2 DEF Updated, UserRow
      <3>3. CASE c.info # Empty BY <3>1, <3>3 DEF Updated, UserRow
      <3> QED BY <3>2, <3>3
    <2>5. users' = {IF p \in ProfilesOf(c.token) /\ c.info # Empty THEN [p EXCEPT !.info = c.info] ELSE p :
                      p \in users}
      <3>1. users' = (users \ ProfilesOf(c.token)) \cup {Updated(u, c) : u \in ProfilesOf(c.token)}
        BY <1>6 DEF UpdateBusinessUser
      <3>2. ProfilesOf(c.token) \subseteq users BY DEF ProfilesOf
      <3> HIDE DEF c
      <3> QED BY <2>4, <3>1, <3>2
    <2>6. Registry!Unsure(r, "ok")
      BY <1>6 DEF UpdateBusinessUser, Return, Registry!Unsure, Registry!Answer
    <2>7. Registry!Update(r)
      BY <1>6, <1>c, <2>1, <2>3, <2>5, <2>6, RegistryTokens
      DEF UpdateBusinessUser, Registry!Update, Registry!Open
    <2> QED BY <2>7 DEF Registry!Next
  <1>7. CASE UnlinkUser(r)
    <2>1. Admitted' = Admitted
      BY <1>7, <1>a, <1>b, AdmittedSame DEF UnlinkUser, Goto, TypeOK
    <2> QED BY <1>7, <2>1 DEF UnlinkUser, Goto, Registry!vars
  <1>8. CASE DeleteAccount(r)
    <2> DEFINE t == call[r].token
    <2>1. call[r].op = "delete" /\ t \in tokens /\ unlinked[r] = ProfilesOf(t) /\ call' = call
      BY <1>8 DEF DeleteAccount, Where, Locks, OnToken
    <2>2. pc[r] = "DeleteAccount" /\ pc'[r] = "done" /\ reply'[r] \in {"ok", "internal"}
      BY <1>8 DEF DeleteAccount, Return, TypeOK
    <2>3. r \in Admitted /\ Admitted' = Admitted
      BY <1>a, <1>b, <1>c, <2>1, <2>2, AdmittedSame DEF OnToken
    <2>4. accounts' = accounts \ Holders(t)
      <3>1. accounts' = {a \in accounts : a.id # t.id} BY <1>8 DEF DeleteAccount
      <3>2. \A a \in accounts : a.id = t.id => a.kind = t.kind BY <2>1 DEF Ids
      <3> QED BY <3>1, <3>2 DEF Holders
    <2>5. users' = {IF p \in ProfilesOf(t) THEN [p EXCEPT !.account = NoAccount] ELSE p : p \in users}
      <3>1. users' = (users \ ProfilesOf(t)) \cup {[u EXCEPT !.account = NoAccount] : u \in ProfilesOf(t)}
        BY <1>8, <2>1 DEF DeleteAccount, Unlink
      <3>2. ProfilesOf(t) \subseteq users BY DEF ProfilesOf
      <3> HIDE DEF t
      <3> QED BY <3>1, <3>2
    <2>6. Registry!Unsure(r, "ok")
      BY <1>8 DEF DeleteAccount, Return, Registry!Unsure, Registry!Answer
    <2>7. Registry!Close(r)
      BY <1>8, <1>c, <2>1, <2>3, <2>4, <2>5, <2>6, RegistryTokens
      DEF DeleteAccount, Registry!Close, Registry!Open
    <2> QED BY <2>7 DEF Registry!Next
  <1>9. CASE GetUser(r)
    <2> DEFINE t == call[r].token
    <2>1. call[r].op = "whoami" /\ t \in tokens /\ call' = call
      BY <1>9 DEF GetUser, Where, OnToken
    <2>2. pc[r] = "GetUser" /\ pc'[r] = "done" /\ reply'[r] \in {"ok", "internal"}
      BY <1>9 DEF GetUser, Return, TypeOK
    <2>3. r \in Admitted /\ Admitted' = Admitted
      BY <1>a, <1>b, <1>c, <2>1, <2>2, AdmittedSame DEF OnToken
    <2>4. ProfilesOf(t) = {} <=> Holders(t) = {}
      <3>1. t.id # NoAccount BY <2>1, TokenId
      <3> QED BY <3>1 DEF Links, ProfilesOf, Holders
    <2>5. Registry!Read(r)
      BY <1>9, <1>c, <2>1, <2>3, <2>4, RegistryTokens
      DEF GetUser, Return, Registry!Read, Registry!Open, Registry!Answer
    <2> QED BY <2>5 DEF Registry!Next
  <1>10. CASE Fail(r)
    <2>1. r \in FaultyReq /\ call' = call /\ pc[r] \notin {"idle", "done"} BY <1>10 DEF Fail
    <2>2. \/ pc[r] = "GetAccount" /\ Return(r, "badcreds") /\ call[r].op = "login"
          \/ pc[r] = "CheckAccountExists" /\ Return(r, "unauthorized") /\ call[r].op \in OnToken
          \/ pc[r] \notin {"GetAccount", "CheckAccountExists"} /\ Return(r, "internal")
      BY <1>10 DEF Fail, Where, Login
    <2>3. pc[r] \notin {"GetAccount", "CheckAccountExists"} =>
            call[r].op = "register" \/ r \in Admitted
      <3>1. CASE pc[r] \in {"InsertAccount", "InsertUser"} BY <3>1 DEF Where, Register
      <3>2. CASE pc[r] \in {"UpdateBusinessUser", "UnlinkUser", "DeleteAccount", "GetUser"}
        <4>1. call[r].op \in OnToken BY <3>2 DEF Where, Update, OnToken
        <4> QED BY <1>a, <1>c, <3>2, <4>1
      <3> QED BY <2>1, <3>1, <3>2 DEF TypeOK
    <2>4. Registry!Answer(r, CASE call[r].op = "register" \/ r \in Admitted -> "internal"
                               [] call[r].op = "login" -> "badcreds"
                               [] OTHER -> "unauthorized")
      BY <1>a, <2>2, <2>3 DEF Return, Registry!Answer, OnToken
    <2>5. Admitted' = Admitted
      <3>1. pc'[r] = "done" /\ (pc[r] = "CheckAccountExists" <=> reply'[r] = "unauthorized")
        BY <2>2 DEF Return, TypeOK
      <3> QED BY <1>a, <1>b, <1>c, <2>1, <3>1, AdmittedSame
    <2>6. call[r] # Registry!NoCall
      <3>1. call[r].op # "none" BY <2>2, <2>3, <1>a DEF OnToken
      <3> QED BY <3>1 DEF Registry!NoCall
    <2>7. Registry!Refuse(r)
      BY <1>10, <1>c, <2>1, <2>4, <2>5, <2>6 DEF Fail, Registry!Refuse
    <2> QED BY <2>7 DEF Registry!Next
  <1> QED BY <1>1, <1>2, <1>3, <1>4, <1>5, <1>6, <1>7, <1>8, <1>9, <1>10 DEF Step, Handle

(* The interleaved statements of the handlers add up to a registry that     *)
(* each request changes at most once, in one atomic step.                   *)
THEOREM AccountsRefinement == Spec => ImplementsRegistry
  <1>1. AInv /\ [Next]_vars => [Registry!Next]_(Registry!vars)
    <2>1. CASE UNCHANGED vars BY <2>1 DEF vars, Registry!vars, Admitted
    <2> QED BY <2>1, StepOfOne, RegistryStep DEF AInv
  <1> QED BY AInvAlways, RegistryInit, <1>1, PTL DEF Spec, ImplementsRegistry, Registry!Spec

(* However registrations, updates and deletions meet, no set of them waits  *)
(* only for each other: what is waited for is held by a request whose next  *)
(* statement ends it and waits for nobody.                                  *)
THEOREM RequestsNeverWaitInCircles == Spec => []NoCircularWait
  <1>1. AInv => NoCircularWait
    <2> SUFFICES ASSUME AInv, NEW G \in SUBSET Req,
                        \A r \in G : pc[r] = "done" \/ WaitsFor(r) \cap G # {},
                        NEW r \in G, pc[r] # "done"
                 PROVE  FALSE
      BY DEF NoCircularWait
    <2>1. PICK q \in G : q \in WaitsFor(r) OBVIOUS
    <2>2. pc[q] \in {"InsertUser", "DeleteAccount"}
      <3>1. inserted[q] # {} \/ unlinked[q] # {} BY <2>1 DEF WaitsFor, Taken
      <3> QED BY <3>1 DEF AInv, Where
    <2>3. WaitsFor(q) = {} BY <2>2 DEF WaitsFor
    <2> QED BY <2>2, <2>3
  <1> QED BY <1>1, AInvAlways, PTL
=============================================================================
