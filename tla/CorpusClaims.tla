----------------------------- MODULE CorpusClaims -----------------------------
(***************************************************************************)
(* What comments, docstrings and the README say of the corpus and the code *)
(* does not do.                                                            *)
(***************************************************************************)
EXTENDS CorpusRecovery

\* ensure_deploy.py:76-82: the corpus directory is in a consistent state when
\* a deployment starts: no artifact at all, or three that can be read and
\* that have the same number of entries.
RepairedCorpusConsistent ==
    [][Startup =>
        \/ \A a \in Artifacts : disk'[a] = Absent
        \/ \A a \in Artifacts :
              disk'[a] \notin {Absent, Torn} /\ Len(disk'[a]) = Len(disk'["chunks"])]_recoveryVars

=============================================================================
