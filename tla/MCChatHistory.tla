---------------------------- MODULE MCChatHistory ----------------------------
(* A history and one other user of its budget; sizes of one or two tokens. *)
EXTENDS ChatHistory

CONSTANT o1

MCThreads == {Owner, o1}

MCAmounts == {1, 2}
=============================================================================
