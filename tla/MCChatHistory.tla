--------------------------- MODULE MCChatHistory ---------------------------
(* Instances of ChatHistory for TLC.                                       *)
EXTENDS ChatHistory, TLC

Symmetry == Permutations(Requests) \cup Permutations(Users) \cup Permutations(Sessions)
=============================================================================
