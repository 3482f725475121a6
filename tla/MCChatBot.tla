----------------------------- MODULE MCChatBot -----------------------------
(* A small instance of ChatBot for TLC.                                     *)
EXTENDS ChatBot, TLC

Symmetry == Permutations(Req) \cup Permutations(Answer)
=============================================================================
