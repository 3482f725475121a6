---------------------------- MODULE MCSlotSheet ----------------------------
(* Sheets of up to five rows: a first row, a topic or not, then rows of     *)
(* nine kinds; and workbooks of two authority sheets of up to four rows.    *)
EXTENDS SlotSheet

Blank == <<>>
Text == <<"text">>
Slot == <<"date", "range">>

Kinds ==
  {Blank, Text, <<"empty", "text">>, <<"text", "text">>, Slot, <<"date">>,
   <<"text", "date", "range", "date", "range">>, <<"date", "range", "date">>, <<"date", "date", "range">>}

Sheets == LET some == {Blank, Text, Slot} IN
  {<<>>} \cup {<<a>> : a \in Kinds} \cup {<<a, b>> : a, b \in Kinds}
    \cup {<<a, b, c>> : a, b \in some, c \in Kinds}
    \cup {<<Text, b, c, d>> : b \in some, c, d \in Kinds}
    \cup {<<Text, Text, c, d, e>> : c, d, e \in Kinds}

Small == UNION {[1 .. n -> {Blank, Text, Slot}] : n \in {0, 1, 4}}

MCWorkbook ==
  {<<Blank, s>> : s \in Sheets} \cup {<<Blank, s, t>> : s, t \in Small} \cup {<<Blank>>}
=============================================================================
