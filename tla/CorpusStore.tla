------------------------------ MODULE CorpusStore ------------------------------
(***************************************************************************)
(* What the corpus promises: a knowledge base that maps a document to one  *)
(* indexed text, in which a run replaces a document's text at once and a   *)
(* delete takes it out at once.                                            *)
(***************************************************************************)
CONSTANTS Docs, Contents

VARIABLE corpus    \* the set of <<document, text>> that can be retrieved

Others(d) == {e \in corpus : e[1] # d}

Init == corpus = {}

Index(d, c) == corpus' = Others(d) \cup {<<d, c>>}
Remove(d) == corpus' = Others(d)

Next == \E d \in Docs : Remove(d) \/ \E c \in Contents : Index(d, c)

Spec == Init /\ [][Next]_corpus
=============================================================================
