----------------------------- MODULE MCChatPage -----------------------------
(* Instances of ChatPage for TLC.                                          *)
EXTENDS ChatPage, TLC

Symmetry == Permutations(Requests) \cup Permutations(Users) \cup Permutations(Sessions)
=============================================================================
