-------------------------- MODULE MCChatConversation --------------------------
(* Small instances of ChatConversation.                                      *)
EXTENDS ChatConversation, TLC

Interchangeable ==
    Permutations(Visitors) \cup Permutations(Conversations) \cup Permutations(Handlers)
=============================================================================
