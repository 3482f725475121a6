--------------------------- MODULE ChatBotProofs ---------------------------
(***************************************************************************)
(* ChatBot for any number of accounts and requests and any answers of the  *)
(* bot: the table is a record of what was said.                            *)
(***************************************************************************)
EXTENDS ChatBot, TLAPS

(* Before the bot is asked nothing was heard; what is to be stored is its   *)
(* answer, or nothing when an error status came back.                       *)
Progress ==
  \A r \in Req :
    /\ pc[r] \in {"idle", "authorize", "ask"} => heard[r] = 0 /\ response[r] = Silence /\ r \notin undecoded
    /\ pc[r] \in {"ask", "store"} => call[r].op = "send"
    /\ pc[r] = "rate" => call[r] \in Rate /\ call[r].rating \in Rating
    /\ pc[r] = "store" => IF r \in undecoded THEN response[r] = Silence
                                               ELSE heard[r] = 1 /\ response[r] = said[r]
    /\ pc[r] # "done" => reply[r] = "none"

(* Nothing is stored of a request that is not over.                         *)
Stored ==
  /\ \A row \in rows : pc[row.request] = "done" /\ Recorded(row)
  /\ \A row, other \in rows : row.id = other.id \/ row.request = other.request => row = other

HandedOut ==
  \A r \in Req : call[r].op = "send" /\ reply[r] = "ok" =>
    \E row \in rows : row.id = handed[r] /\ row.request = r /\ row.response = response[r]

CInv == TypeOK /\ Progress /\ Stored /\ HandedOut
-----------------------------------------------------------------------------
LEMMA Columns == \A x \in Rating : Column(x) \in {{}, {FALSE}, {TRUE}}
  BY DEF Rating, Column

(* A rating keeps what a row records.                                       *)
LEMMA RatedRow ==
  ASSUME TypeOK, NEW row \in rows, NEW c \in Rate, c.rating \in Rating
  PROVE  /\ Rated(row, c) \in [id : 1 .. lastId, request : Req, response : Messages,
                              rating : {{}, {FALSE}, {TRUE}}]
         /\ Rated(row, c).id = row.id
         /\ Rated(row, c).request = row.request
         /\ Rated(row, c).response = row.response
  BY Columns DEF TypeOK, Rated

LEMMA TypeStep == TypeOK /\ Progress /\ [Next]_vars => TypeOK'
  <1> SUFFICES ASSUME TypeOK, Progress, [Next]_vars PROVE TypeOK' OBVIOUS
  <1>1. CASE UNCHANGED vars BY <1>1 DEF vars, TypeOK
  <1>2. ASSUME NEW a \in Account, Leave(a) PROVE TypeOK' BY <1>2 DEF Leave, TypeOK
  <1>3. ASSUME NEW r \in Req, NEW c \in Send \cup Rate, Arrive(r, c) PROVE TypeOK'
    BY <1>3 DEF Arrive, Goto, TypeOK
  <1>4. ASSUME NEW r \in Req, Quit(r) PROVE TypeOK' BY <1>4 DEF Quit, TypeOK
  <1>5. ASSUME NEW r \in Req, AuthorizeSession(r) PROVE TypeOK'
    BY <1>5 DEF AuthorizeSession, Goto, Return, TypeOK
  <1>6. ASSUME NEW r \in Req, Ask(r) PROVE TypeOK'
    <2>1. heard[r] + 1 \in 0 .. 1 BY <1>6 DEF Ask, Progress
    <2>a. UNCHANGED <<heard, said>> \/ \E m \in Messages : Hear(r, m)
      BY <1>6 DEF Ask, Answered, ErrorStatus, MayHear
    <2>2. heard' \in [Req -> 0 .. 1] /\ said' \in [Req -> Messages]
      BY <2>a, <2>1 DEF Hear, TypeOK
    <2>3. response' \in [Req -> Messages] /\ undecoded' \subseteq Req
      BY <1>6 DEF Ask, Answered, ErrorStatus, TypeOK
    <2>4. /\ pc' \in [Req -> {"idle", "authorize", "ask", "store", "rate", "done"}]
          /\ reply' \in [Req -> {"none", "ok", "unauthorized", "internal", "invalid"}]
      BY <1>6 DEF Ask, Answered, ErrorStatus, Goto, Return, TypeOK
    <2> QED BY <1>6, <2>2, <2>3, <2>4 DEF Ask, TypeOK
  <1>7. ASSUME NEW r \in Req, CreateChatMessage(r) PROVE TypeOK'
    <2> DEFINE Row == [id : 1 .. lastId, request : Req, response : Messages, rating : {{}, {FALSE}, {TRUE}}]
    <2>1. lastId' \in Nat /\ 1 .. lastId \subseteq 1 .. lastId' /\ lastId + 1 \in 1 .. lastId'
          /\ 0 .. lastId \subseteq 0 .. lastId' /\ lastId + 1 \in 0 .. lastId'
      BY <1>7 DEF CreateChatMessage, TypeOK
    <2>2. NewRow(r, lastId + 1) \in Row' BY <2>1, <1>7 DEF CreateChatMessage, NewRow, TypeOK
    <2>3. rows \subseteq Row' BY <2>1 DEF TypeOK
    <2>4. rows' \subseteq Row' BY <1>7, <2>2, <2>3 DEF CreateChatMessage
    <2>5. handed' \in [Req -> 0 .. lastId'] BY <1>7, <2>1 DEF CreateChatMessage, TypeOK
    <2>6. /\ pc' \in [Req -> {"idle", "authorize", "ask", "store", "rate", "done"}]
          /\ reply' \in [Req -> {"none", "ok", "unauthorized", "internal", "invalid"}]
      BY <1>7 DEF CreateChatMessage, Return, TypeOK
    <2> HIDE DEF Row
    <2>7. rows' \subseteq [id : 1 .. lastId', request : Req, response : Messages,
                           rating : {{}, {FALSE}, {TRUE}}]
      BY <2>4 DEF Row
    <2> QED BY <1>7, <2>1, <2>5, <2>6, <2>7 DEF CreateChatMessage, TypeOK
  <1>8. ASSUME NEW r \in Req, UpdateChatMessageRating(r) PROVE TypeOK'
    <2>1. call[r] \in Rate /\ call[r].rating \in Rating BY <1>8 DEF UpdateChatMessageRating, Progress
    <2> DEFINE Row == [id : 1 .. lastId, request : Req, response : Messages, rating : {{}, {FALSE}, {TRUE}}]
    <2>a. /\ rows \subseteq Row
          /\ \A row \in rows : Rated(row, call[r]) \in Row
      BY <2>1, RatedRow DEF TypeOK
    <2>b. ASSUME NEW row \in rows', row \notin rows PROVE \E old \in rows : row = Rated(old, call[r])
      <3> DEFINE named == {old \in rows : old.id = call[r].id}
      <3>1. rows' = rows \/ rows' = (rows \ named) \cup {Rated(old, call[r]) : old \in named}
        BY <1>8 DEF UpdateChatMessageRating
      <3> QED BY <2>b, <3>1
    <2> HIDE DEF Row
    <2>c. rows' \subseteq Row BY <2>a, <2>b
    <2>2. rows' \subseteq [id : 1 .. lastId, request : Req, response : Messages,
                           rating : {{}, {FALSE}, {TRUE}}]
      BY <2>c DEF Row
    <2>3. /\ pc' \in [Req -> {"idle", "authorize", "ask", "store", "rate", "done"}]
          /\ reply' \in [Req -> {"none", "ok", "unauthorized", "internal", "invalid"}]
      BY <1>8 DEF UpdateChatMessageRating, Return, TypeOK
    <2>4. UNCHANGED <<alive, heard, said, undecoded, lastId, quit, call, response, handed>>
      BY <1>8 DEF UpdateChatMessageRating
    <2> QED BY <2>2, <2>3, <2>4 DEF TypeOK
  <1> QED BY <1>1, <1>2, <1>3, <1>4, <1>5, <1>6, <1>7, <1>8 DEF Next, Handle

(* A call to the bot is of one request.                                     *)
LEMMA AskMovesOne ==
  ASSUME TypeOK, NEW r \in Req, Ask(r), NEW q \in Req \ {r}
  PROVE  /\ pc'[q] = pc[q] /\ reply'[q] = reply[q]
         /\ heard'[q] = heard[q] /\ said'[q] = said[q] /\ response'[q] = response[q]
         /\ q \in undecoded' <=> q \in undecoded
  <1>1. UNCHANGED <<heard, said>> \/ \E m \in Messages : Hear(r, m)
    BY DEF Ask, Answered, ErrorStatus, MayHear
  <1>2. heard'[q] = heard[q] /\ said'[q] = said[q] BY <1>1 DEF Hear, TypeOK
  <1>3. pc'[q] = pc[q] /\ reply'[q] = reply[q]
    BY DEF Ask, Answered, ErrorStatus, Goto, Return, TypeOK
  <1>4. response'[q] = response[q] /\ (q \in undecoded' <=> q \in undecoded)
    BY DEF Ask, Answered, ErrorStatus, TypeOK
  <1> QED BY <1>2, <1>3, <1>4

(* Only the request that moves changes what is known of it.                *)
LEMMA ProgressStep == TypeOK /\ Progress /\ [Next]_vars => Progress'
  <1> SUFFICES ASSUME TypeOK, Progress, [Next]_vars PROVE Progress' OBVIOUS
  <1>0. /\ pc \in [Req -> {"idle", "authorize", "ask", "store", "rate", "done"}]
        /\ heard \in [Req -> 0 .. 1] /\ said \in [Req -> Messages]
        /\ call \in [Req -> Send \cup Rate \cup {NoCall}] /\ response \in [Req -> Messages]
        /\ reply \in [Req -> {"none", "ok", "unauthorized", "internal", "invalid"}]
    BY DEF TypeOK
  <1>1. CASE UNCHANGED vars BY <1>1 DEF vars, Progress
  <1>2. ASSUME NEW a \in Account, Leave(a) PROVE Progress' BY <1>2 DEF Leave, Progress
  <1>3. ASSUME NEW r \in Req, NEW c \in Send \cup Rate, Arrive(r, c) PROVE Progress'
    BY <1>0, <1>3 DEF Arrive, Goto, Progress
  <1>4. ASSUME NEW r \in Req, Quit(r) PROVE Progress' BY <1>4 DEF Quit, Progress
  <1>5. ASSUME NEW r \in Req, AuthorizeSession(r) PROVE Progress'
    <2>1. call[r].op = "rate" => call[r] \in Rate BY <1>0 DEF Send, Rate, NoCall
    <2> QED BY <1>0, <1>5, <2>1 DEF AuthorizeSession, Goto, Return, Progress
  <1>6. ASSUME NEW r \in Req, Ask(r) PROVE Progress'
    <2>1. /\ pc[r] = "ask" /\ call' = call /\ call[r].op = "send"
          /\ heard[r] = 0 /\ response[r] = Silence /\ r \notin undecoded /\ reply[r] = "none"
      BY <1>6 DEF Ask, Progress
    <2>2. \A q \in Req \ {r} :
            /\ pc'[q] = pc[q] /\ reply'[q] = reply[q]
            /\ heard'[q] = heard[q] /\ said'[q] = said[q] /\ response'[q] = response[q]
            /\ q \in undecoded' <=> q \in undecoded
      BY <1>0, <1>6, AskMovesOne
    <2>3. CASE Answered(r)
      BY <1>0, <2>1, <2>2, <2>3 DEF Answered, Hear, Goto, Progress
    <2>4. CASE ErrorStatus(r)
      BY <1>0, <2>1, <2>2, <2>4 DEF ErrorStatus, Goto, Progress
    <2>5. CASE Return(r, "internal")
      BY <1>0, <2>1, <2>2, <2>5 DEF Return, Progress
    <2> QED BY <1>6, <2>3, <2>4, <2>5 DEF Ask
  <1>7. ASSUME NEW r \in Req, CreateChatMessage(r) PROVE Progress'
    BY <1>0, <1>7 DEF CreateChatMessage, Return, Progress
  <1>8. ASSUME NEW r \in Req, UpdateChatMessageRating(r) PROVE Progress'
    BY <1>0, <1>8 DEF UpdateChatMessageRating, Return, Progress
  <1> QED BY <1>1, <1>2, <1>3, <1>4, <1>5, <1>6, <1>7, <1>8 DEF Next, Handle

(* The rows of requests that are over stay true while others go on.         *)
LEMMA RecordKept ==
  ASSUME TypeOK, Stored, HandedOut, rows' = rows,
         \A q \in Req : pc[q] = "done" =>
           /\ pc'[q] = "done" /\ heard'[q] = heard[q] /\ said'[q] = said[q]
           /\ q \in undecoded' <=> q \in undecoded,
         \A q \in Req : call'[q].op = "send" /\ reply'[q] = "ok" =>
           /\ call[q].op = "send" /\ reply[q] = "ok"
           /\ handed'[q] = handed[q] /\ response'[q] = response[q]
  PROVE  Stored' /\ HandedOut'
  <1>1. \A row \in rows : row.request \in Req BY DEF TypeOK
  <1>2. Stored' BY <1>1 DEF Stored, Recorded
  <1>3. HandedOut' BY DEF HandedOut
  <1> QED BY <1>2, <1>3

LEMMA RecordStep == TypeOK /\ Progress /\ Stored /\ HandedOut /\ [Next]_vars => Stored' /\ HandedOut'
  <1> SUFFICES ASSUME TypeOK, Progress, Stored, HandedOut, [Next]_vars PROVE Stored' /\ HandedOut' OBVIOUS
  <1>0. /\ pc \in [Req -> {"idle", "authorize", "ask", "store", "rate", "done"}]
        /\ said \in [Req -> Messages]
        /\ call \in [Req -> Send \cup Rate \cup {NoCall}] /\ response \in [Req -> Messages]
        /\ reply \in [Req -> {"none", "ok", "unauthorized", "internal", "invalid"}]
        /\ handed \in [Req -> 0 .. lastId] /\ lastId \in Nat
        /\ rows \subseteq [id : 1 .. lastId, request : Req, response : Messages, rating : {{}, {FALSE}, {TRUE}}]
    BY DEF TypeOK
  <1>1. CASE UNCHANGED vars BY <1>1 DEF vars, Stored, Recorded, HandedOut
  <1>2. ASSUME NEW a \in Account, Leave(a) PROVE Stored' /\ HandedOut' BY <1>2, RecordKept DEF Leave
  <1>3. ASSUME NEW r \in Req, NEW c \in Send \cup Rate, Arrive(r, c) PROVE Stored' /\ HandedOut'
    <2>1. reply[r] = "none" BY <1>3 DEF Arrive, Progress
    <2> QED BY <1>0, <1>3, <2>1, RecordKept DEF Arrive, Goto
  <1>4. ASSUME NEW r \in Req, Quit(r) PROVE Stored' /\ HandedOut' BY <1>4, RecordKept DEF Quit
  <1>5. ASSUME NEW r \in Req, AuthorizeSession(r) PROVE Stored' /\ HandedOut'
    BY <1>0, <1>5, RecordKept DEF AuthorizeSession, Goto, Return
  <1>6. ASSUME NEW r \in Req, Ask(r) PROVE Stored' /\ HandedOut'
    <2>1. pc[r] = "ask" /\ reply[r] = "none" BY <1>6 DEF Ask, Progress
    <2>2. reply'[r] # "ok" BY <1>0, <1>6, <2>1 DEF Ask, Answered, ErrorStatus, Goto, Return
    <2>3. rows' = rows /\ call' = call /\ handed' = handed BY <1>6 DEF Ask
    <2> QED BY <1>6, <2>1, <2>2, <2>3, AskMovesOne, RecordKept
  <1>7. ASSUME NEW r \in Req, CreateChatMessage(r) PROVE Stored' /\ HandedOut'
    <2> DEFINE new == NewRow(r, lastId + 1)
    <2>a. new.id = lastId + 1 /\ new.request = r /\ new.response = response[r] BY DEF NewRow
    <2>b. \A row \in rows : row.id \in 1 .. lastId BY <1>0
    <2>c. \A row \in rows : row.request # r BY <1>7 DEF CreateChatMessage, Stored
    <2> HIDE DEF new
    <2>1. /\ new.id = lastId + 1 /\ new.request = r /\ new.response = response[r]
          /\ \A row \in rows : row.id # new.id /\ row.request # r
      BY <1>0, <2>a, <2>b, <2>c
    <2>2. /\ rows' = rows \/ rows' = rows \cup {new}
          /\ reply'[r] = "ok" => rows' = rows \cup {new} /\ handed'[r] = lastId + 1
          /\ \A q \in Req \ {r} : pc'[q] = pc[q] /\ reply'[q] = reply[q] /\ handed'[q] = handed[q]
          /\ pc'[r] = "done"
          /\ IF r \in undecoded THEN response[r] = Silence ELSE heard[r] = 1 /\ response[r] = said[r]
          /\ UNCHANGED <<heard, said, undecoded, call, response>>
      BY <1>0, <1>7 DEF CreateChatMessage, Return, Progress, new
    <2>d. \A row \in rows : row.request \in Req \ {r} BY <1>0, <2>1
    <2>e. \A row \in rows \cup {new} :
            pc'[row.request] = "done" /\ Recorded(row)
      BY <2>1, <2>2, <2>d DEF Stored, Recorded
    <2>f. \A row, other \in rows \cup {new} :
            row.id = other.id \/ row.request = other.request => row = other
      BY <2>1 DEF Stored
    <2>3. Stored' BY <2>2, <2>e, <2>f DEF Stored, Recorded
    <2>4. HandedOut' BY <1>0, <2>1, <2>2 DEF HandedOut
    <2> QED BY <2>3, <2>4
  <1>8. ASSUME NEW r \in Req, UpdateChatMessageRating(r) PROVE Stored' /\ HandedOut'
    <2>1. /\ call[r] \in Rate /\ call[r].rating \in Rating /\ call[r].op = "rate"
      BY <1>8 DEF UpdateChatMessageRating, Progress, Rate
    <2>2. /\ \A q \in Req \ {r} : pc'[q] = pc[q] /\ reply'[q] = reply[q]
          /\ UNCHANGED <<heard, said, undecoded, call, response, handed>> /\ pc[r] = "rate" /\ pc'[r] = "done"
      BY <1>0, <1>8 DEF UpdateChatMessageRating, Return
    <2>3. CASE rows' = rows BY <2>1, <2>2, <2>3, RecordKept
    <2>4. CASE rows' # rows
      <3> DEFINE New(row) == IF row.id = call[r].id THEN Rated(row, call[r]) ELSE row
      <3>1. \A row \in rows : /\ New(row).id = row.id /\ New(row).request = row.request
                               /\ New(row).response = row.response
        BY <2>1, RatedRow
      <3>2. rows' = {New(row) : row \in rows} BY <1>8, <2>4 DEF UpdateChatMessageRating
      <3> HIDE DEF New
      <3>a. ASSUME NEW row \in rows'
            PROVE  pc'[row.request] = "done" /\ Recorded(row)'
        <4>1. PICK old \in rows : row.request = old.request /\ row.response = old.response BY <3>1, <3>2
        <4>2. old.request \in Req /\ pc[old.request] = "done" /\ Recorded(old)
          BY <1>0 DEF Stored
        <4> QED BY <2>2, <4>1, <4>2 DEF Recorded
      <3>b. \A row, other \in rows' : row.id = other.id \/ row.request = other.request => row = other
        BY <3>1, <3>2 DEF Stored
      <3>3. Stored' BY <3>a, <3>b DEF Stored
      <3>4. HandedOut' BY <1>0, <2>1, <2>2, <3>1, <3>2 DEF HandedOut
      <3> QED BY <3>3, <3>4
    <2> QED BY <2>3, <2>4
  <1> QED BY <1>1, <1>2, <1>3, <1>4, <1>5, <1>6, <1>7, <1>8 DEF Next, Handle

LEMMA InitCInv == Init => CInv
  <1> SUFFICES ASSUME Init PROVE CInv OBVIOUS
  <1>1. TypeOK BY DEF Init, TypeOK, Messages
  <1>2. Progress /\ Stored /\ HandedOut BY DEF Init, Progress, Stored, HandedOut, NoCall
  <1> QED BY <1>1, <1>2 DEF CInv

LEMMA CInvStep == CInv /\ [Next]_vars => CInv'
  BY TypeStep, ProgressStep, RecordStep DEF CInv

(* The variables keep their types for any number of requests.              *)
THEOREM ChatTypeCorrect == Spec => []TypeOK
  <1>1. CInv => TypeOK BY DEF CInv
  <1> QED BY <1>1, InitCInv, CInvStep, PTL DEF Spec

(* Whatever was stored, canceled or lost in between: a stored exchange was  *)
(* told the bot once and has its answer, unless an error status came back,  *)
(* when it has none; each is stored once, and replies name their own.       *)
THEOREM ChatRecordsWhatWasSaid == Spec => []ExchangesHappened
  <1>1. CInv => ExchangesHappened
    <2> SUFFICES ASSUME CInv PROVE ExchangesHappened OBVIOUS
    <2>1. \A r \in Req : heard[r] <= 1 BY DEF CInv, TypeOK
    <2> QED BY <2>1 DEF CInv, Stored, HandedOut, ExchangesHappened
  <1> QED BY <1>1, InitCInv, CInvStep, PTL DEF Spec

(* No request ever changes anything of a stored exchange but its rating,    *)
(* and that only as a request for its id asks.                              *)
THEOREM ChatOnlyRatingsChange == Spec => OnlyRatingsChange
  <1> DEFINE Step == \A row \in rows :
                       \/ row \in rows'
                       \/ \E r \in Req : /\ pc[r] = "rate" /\ pc'[r] = "done"
                                         /\ call[r].id = row.id
                                         /\ Rated(row, call[r]) \in rows'
  <1>1. CInv /\ [Next]_vars => [Step]_vars
    <2> SUFFICES ASSUME CInv, Next, NEW row \in rows, row \notin rows'
                 PROVE  \E r \in Req : /\ pc[r] = "rate" /\ pc'[r] = "done"
                                       /\ call[r].id = row.id
                                       /\ Rated(row, call[r]) \in rows'
      OBVIOUS
    <2>1. PICK r \in Req : UpdateChatMessageRating(r)
      BY DEF Next, Handle, Leave, Arrive, Quit, AuthorizeSession, Ask, CreateChatMessage
    <2>2. pc[r] = "rate" /\ pc'[r] = "done"
      BY <2>1 DEF CInv, TypeOK, UpdateChatMessageRating, Return
    <2>3. call[r].id = row.id /\ Rated(row, call[r]) \in rows' BY <2>1 DEF UpdateChatMessageRating
    <2> QED BY <2>2, <2>3
  <1> QED BY <1>1, InitCInv, CInvStep, PTL DEF Spec, OnlyRatingsChange
=============================================================================
