--------------------------- MODULE MCCorpusRecovery ---------------------------
(* Small instances of CorpusRecovery and of the claims about it.             *)
EXTENDS CorpusClaims, TLC

MCSize == [c \in Contents |-> IF c = "long" THEN 2 ELSE 1]
=============================================================================
