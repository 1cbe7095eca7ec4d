--------------------------- MODULE MCChatSocket ---------------------------
(* ChatSocket on small instances; the pages of a player are alike. *)
EXTENDS ChatSocket, TLC

Symmetric == Permutations(Page)
=============================================================================
