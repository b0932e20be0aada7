--------------------------- MODULE MCKnowledgeCorpus ---------------------------
(* Small instances of KnowledgeCorpus.  Two texts of one and two chunks make *)
(* a reindexed document change or keep the length of the corpus.             *)
EXTENDS KnowledgeCorpus, TLC

MCSize == [c \in Contents |-> IF c = "long" THEN 2 ELSE 1]

Interchangeable == Permutations(Workers) \cup Permutations(Requests)
=============================================================================
