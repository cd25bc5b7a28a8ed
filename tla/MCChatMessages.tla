--------------------------- MODULE MCChatMessages ---------------------------
(* Two browsers, one group; they are only compared for equality.            *)
EXTENDS ChatMessages, TLC

Interchangeable == Permutations(Clients)
=============================================================================
