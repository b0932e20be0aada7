---------------------------- MODULE MCCorpusServing ----------------------------
(* Small instances of CorpusServing: the writers of MCKnowledgeCorpus with   *)
(* the threads of one gunicorn process.                                      *)
EXTENDS CorpusServing, TLC

MCSize == [c \in Contents |-> IF c = "long" THEN 2 ELSE 1]

Interchangeable == Permutations(Threads) \cup Permutations(Requests)
=============================================================================
