------------------------------ MODULE ChatBot ------------------------------
(***************************************************************************)
(* The chat: a message is put to the bot, the exchange is stored, and its   *)
(* id is handed out for a rating.  The bot is another process with a        *)
(* conversation of its own; the call to it ends in an answer, an error      *)
(* status (which the client library does not treat as an error) or a        *)
(* broken connection, and knows neither a timeout nor the client's context. *)
(***************************************************************************)
EXTENDS Integers

CONSTANTS
  Account,   \* business accounts
  Answer,    \* what the bot may say
  Req,       \* requests; one also names its message
  MaxId      \* bound on the ids clients rate

ASSUME IdAssumption == MaxId \in Nat

VARIABLES
  alive,    \* accounts that exist
  heard,    \* how often the bot has been told each request's message
  said,     \* what it answered
  undecoded,   \* requests whose call came back with an error status
  rows,     \* committed rows of chat_message
  lastId,   \* the sequence behind their ids
  quit,     \* requests whose client is gone: their context is canceled
  pc, call, response, reply,
  handed    \* the id in each reply; 0 without one

vars == <<alive, heard, said, undecoded, rows, lastId, quit, pc, call, response, reply, handed>>

Silence == {}                      \* no messages
Messages == {Silence} \cup {{a} : a \in Answer}
Rating == {"removed", "negative", "positive"}
Column(rating) == CASE rating = "removed" -> {} [] rating = "negative" -> {FALSE} [] rating = "positive" -> {TRUE}

Send == [op : {"send"}, account : Account]
Rate == [op : {"rate"}, account : Account, id : 1 .. MaxId, rating : Rating \cup {"unknown"}]
NoCall == [op |-> "none"]

TypeOK ==
  /\ alive \subseteq Account /\ quit \subseteq Req /\ undecoded \subseteq Req /\ lastId \in Nat
  /\ heard \in [Req -> 0 .. 1] /\ said \in [Req -> Messages]
  /\ rows \subseteq [id : 1 .. lastId, request : Req, response : Messages, rating : {{}, {FALSE}, {TRUE}}]
  /\ pc \in [Req -> {"idle", "authorize", "ask", "store", "rate", "done"}]
  /\ call \in [Req -> Send \cup Rate \cup {NoCall}]
  /\ response \in [Req -> Messages]
  /\ reply \in [Req -> {"none", "ok", "unauthorized", "internal", "invalid"}]
  /\ handed \in [Req -> 0 .. lastId]

Init ==
  /\ alive = Account /\ rows = {} /\ lastId = 0 /\ quit = {} /\ undecoded = {}
  /\ heard = [r \in Req |-> 0]
  /\ said = [r \in Req |-> Silence] /\ response = [r \in Req |-> Silence]
  /\ pc = [r \in Req |-> "idle"]
  /\ call = [r \in Req |-> NoCall]
  /\ reply = [r \in Req |-> "none"]
  /\ handed = [r \in Req |-> 0]

Goto(r, l) == pc' = [pc EXCEPT ![r] = l] /\ UNCHANGED reply
Return(r, answer) == pc' = [pc EXCEPT ![r] = "done"] /\ reply' = [reply EXCEPT ![r] = answer]

Arrive(r, c) ==
  /\ pc[r] = "idle"
  /\ call' = [call EXCEPT ![r] = c]
  /\ Goto(r, "authorize")
  /\ UNCHANGED <<alive, heard, said, undecoded, rows, lastId, quit, response, handed>>

(* The client goes away or its deadline passes.                             *)
Quit(r) ==
  /\ pc[r] \notin {"idle", "done"} /\ r \notin quit
  /\ quit' = quit \cup {r}
  /\ UNCHANGED <<alive, heard, said, undecoded, rows, lastId, pc, call, response, reply, handed>>

Leave(a) ==
  /\ a \in alive
  /\ alive' = alive \ {a}
  /\ UNCHANGED <<heard, said, undecoded, rows, lastId, quit, pc, call, response, reply, handed>>

(* The session is honoured while its account exists; the lookup may fail,   *)
(* as it does for a client that is gone, which is answered the same way.    *)
AuthorizeSession(r) ==
  /\ pc[r] = "authorize"
  /\ \/ /\ call[r].account \in alive /\ r \notin quit
        /\ \/ call[r].op = "send" /\ Goto(r, "ask")
           \/ call[r].op = "rate" /\ call[r].rating \in Rating /\ Goto(r, "rate")
           \/ call[r].op = "rate" /\ call[r].rating \notin Rating /\ Return(r, "invalid")
     \/ Return(r, "unauthorized")
  /\ UNCHANGED <<alive, heard, said, undecoded, rows, lastId, quit, call, response, handed>>

Hear(r, messages) == heard' = [heard EXCEPT ![r] = @ + 1] /\ said' = [said EXCEPT ![r] = messages]

MayHear(r) == UNCHANGED <<heard, said>> \/ \E m \in Messages : Hear(r, m)

Answered(r) ==
  /\ \E m \in Messages : Hear(r, m) /\ response' = [response EXCEPT ![r] = m]
  /\ Goto(r, "store")
  /\ UNCHANGED undecoded

(* An error status, of the bot or of something in between, before or after  *)
(* the bot has heard the message: the body is not decoded, which leaves no  *)
(* messages and is no error.                                                *)
ErrorStatus(r) ==
  /\ MayHear(r)
  /\ undecoded' = undecoded \cup {r}
  /\ Goto(r, "store")
  /\ UNCHANGED response

(* Mutant: the error of the call is not looked at; no messages are left.    *)
AskRegardless(r) ==
  /\ pc[r] = "ask"
  /\ \/ Answered(r)
     \/ ErrorStatus(r)
     \/ MayHear(r) /\ Goto(r, "store") /\ UNCHANGED <<undecoded, response>>
  /\ UNCHANGED <<alive, rows, lastId, quit, call, handed>>

(* SendMessage of the bot's client: the bot answers, or an error status     *)
(* comes back, or the connection breaks, before or after the bot has heard  *)
(* the message.                                                             *)
Ask(r) ==
  /\ pc[r] = "ask"
  /\ \/ Answered(r)
     \/ ErrorStatus(r)
     \/ MayHear(r) /\ Return(r, "internal") /\ UNCHANGED <<undecoded, response>>
  /\ UNCHANGED <<alive, rows, lastId, quit, call, handed>>

NewRow(r, id) == [id |-> id, request |-> r, response |-> response[r], rating |-> {}]

(* One INSERT, which fails when the context is canceled; its acknowledgement *)
(* may be lost.                                                             *)
CreateChatMessage(r) ==
  /\ pc[r] = "store"
  /\ lastId' = lastId + 1
  /\ \/ /\ r \notin quit
        /\ rows' = rows \cup {NewRow(r, lastId + 1)}
        /\ handed' = [handed EXCEPT ![r] = lastId + 1]
        /\ Return(r, "ok")
     \/ /\ UNCHANGED rows \/ rows' = rows \cup {NewRow(r, lastId + 1)}
        /\ Return(r, "internal")
        /\ UNCHANGED handed
  /\ UNCHANGED <<alive, heard, said, undecoded, quit, call, response>>

Rated(row, c) == [row EXCEPT !.rating = Column(c.rating)]

(* Mutant: every message is rated.                                          *)
UpdateAllRatings(r) ==
  /\ pc[r] = "rate"
  /\ rows' = {Rated(row, call[r]) : row \in rows}
  /\ Return(r, "ok")
  /\ UNCHANGED <<alive, heard, said, undecoded, lastId, quit, call, response, handed>>

(* One UPDATE of the row with the id, if there is one, whoever's it is.     *)
UpdateChatMessageRating(r) ==
  LET named == {row \in rows : row.id = call[r].id}
  IN /\ pc[r] = "rate"
     /\ \/ /\ rows' = (rows \ named) \cup {Rated(row, call[r]) : row \in named}
           /\ Return(r, "ok") \/ Return(r, "internal")
        \/ UNCHANGED rows /\ Return(r, "internal")
     /\ UNCHANGED <<alive, heard, said, undecoded, lastId, quit, call, response, handed>>

Handle(r) == AuthorizeSession(r) \/ Ask(r) \/ CreateChatMessage(r) \/ UpdateChatMessageRating(r)

Next ==
  \/ \E a \in Account : Leave(a)
  \/ \E r \in Req :
       \/ \E c \in Send \cup Rate : Arrive(r, c)
       \/ Quit(r)
       \/ Handle(r)

Spec == Init /\ [][Next]_vars

-----------------------------------------------------------------------------
(* The table is a record of what was said: no message is told to the bot    *)
(* twice; a row belongs to one request, whose message the bot was told once *)
(* and which has the bot's answer to it, and only if an error status came   *)
(* back does it have none; the id in a reply is that of the request's own   *)
(* row, whatever was stored, canceled or lost in between.                   *)
Recorded(row) ==
  IF row.request \in undecoded
    THEN row.response = Silence
    ELSE heard[row.request] = 1 /\ row.response = said[row.request]

ExchangesHappened ==
  /\ \A r \in Req : heard[r] <= 1
  /\ \A row \in rows : Recorded(row)
  /\ \A row, other \in rows : row.id = other.id \/ row.request = other.request => row = other
  /\ \A r \in Req : call[r].op = "send" /\ reply[r] = "ok" =>
       \E row \in rows : row.id = handed[r] /\ row.request = r /\ row.response = response[r]

(* An exchange that was stored stays as it was said; only its rating ever   *)
(* changes, and only to what a request for this very id asks for.           *)
OnlyRatingsChange ==
  [][\A row \in rows :
       \/ row \in rows'
       \/ \E r \in Req : /\ pc[r] = "rate" /\ pc'[r] = "done"
                         /\ call[r].id = row.id
                         /\ Rated(row, call[r]) \in rows']_vars
=============================================================================
