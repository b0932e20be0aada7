---------------------------- MODULE CorpusRecovery ----------------------------
(***************************************************************************)
(* What interrupts a write of the corpus: an exception in it, the death of *)
(* a process, or the end of the whole container; and the repair that       *)
(* ensure_deploy makes before the next container starts anything else.     *)
(***************************************************************************)
EXTENDS CorpusServing

CONSTANT MaxCrashes    \* bound: deaths, shutdowns and failed writes

VARIABLES
    up,        \* a container is running
    crashes,
    spoilt     \* history: an in-place rewrite of the artifacts was cut off

recovery == <<up, crashes, spoilt>>
recoveryVars == <<servingVars, recovery>>

RecoveryInit == ServingInit /\ up = TRUE /\ crashes = 0 /\ spoilt = FALSE

Interruption == up /\ crashes < MaxCrashes /\ crashes' = crashes + 1

Rewriting(p) == agent[p].pc = "writing" /\ agent[p].todo # <<>>

\* What p leaves of the artifacts when it stops now.  Files that os.replace
\* has put in place stay; one that is being written in place (np.save and
\* write_text) may stay cut off.
Leaves(p) ==
    LET inPlace == Rewriting(p) /\ agent[p].kind = "inplace" IN
    /\ spoilt' = (spoilt \/ inPlace)
    /\ \/ UNCHANGED files
       \/ /\ inPlace
          /\ disk' = [disk EXCEPT ![Head(agent[p].todo)] = Torn]
          /\ writes' = [writes EXCEPT ![Head(agent[p].todo)] = @ + 1]

\* A write or os.replace raises: the process lives on without the lock, a
\* worker to save the row "failed", a request to answer with an error.
WriteFails(p) ==
    /\ Interruption
    /\ Rewriting(p)
    /\ lock' = Free
    /\ Leaves(p)
    /\ IF p \in Workers THEN Goto(p, "failing") ELSE Return(p)
    /\ UNCHANGED <<rows, ops, serving, up>>

\* Mistake: a lock that is a file somebody has to remove outlives its holder.
CrashHolding(p) ==
    /\ Interruption
    /\ ~AtRest(p)
    /\ agent' = [agent EXCEPT ![p] = Idle({})]
    /\ Leaves(p)
    /\ UNCHANGED <<rows, lock, ops, serving, up>>

\* A worker or request dies; the operating system drops its FileLock.
Crash(p) ==
    /\ Interruption
    /\ ~AtRest(p)
    /\ agent' = [agent EXCEPT ![p] = Idle({})]
    /\ lock' = IF lock = p THEN Free ELSE lock
    /\ Leaves(p)
    /\ UNCHANGED <<rows, ops, serving, up>>

\* The container ends, wherever its processes are; volume and database stay.
Shutdown ==
    /\ Interruption
    /\ up' = FALSE
    /\ IF lock = Free THEN UNCHANGED <<files, spoilt>> ELSE Leaves(lock)
    /\ lock' = Free
    /\ agent' = [p \in Agents |-> Idle({})]
    /\ thread' = [t \in Threads |-> Quiet]
    /\ service' = NoRag
    /\ UNCHANGED <<rows, ops>>

\* Mistake: the corpus is compared with the number of documents.
RepairedByRows ==
    LET mismatch == /\ Loads({"chunks", "embeddings"})
                    /\ Len(Read("chunks")) # Cardinality({d \in Docs : Exists(d)})
    IN IF mismatch THEN NoFiles ELSE disk

\* Mistake: only missing artifacts are looked for.
RepairedMissing == IF \E a \in Artifacts : disk[a] = Absent THEN NoFiles ELSE disk

\* _ensure_corpus: some artifacts missing, or chunks and embeddings readable
\* and of different length, clears all three.
Repaired ==
    LET missing == {a \in Artifacts : disk[a] = Absent}
        mismatch == /\ Loads({"chunks", "embeddings"})
                    /\ Len(Read("chunks")) # Len(Read("embeddings"))
    IN IF missing # {} \/ mismatch THEN NoFiles ELSE disk

\* The next container: the repair, then worker loop and gunicorn.
Startup ==
    /\ ~up
    /\ up' = TRUE
    /\ disk' = Repaired
    /\ UNCHANGED <<rows, writes, lock, agent, ops, serving, crashes, spoilt>>

RecoveryNext ==
    \/ up /\ ServingNext /\ UNCHANGED recovery
    \/ \E p \in Agents : Crash(p) \/ WriteFails(p)
    \/ Shutdown
    \/ Startup

RecoverySpec == RecoveryInit /\ [][RecoveryNext]_recoveryVars

AgentStep(p) ==
    /\ up
    /\ WorkerStep(p) \/ RequestStep(p)
    /\ UNCHANGED <<serving, recovery>>

FairRecoverySpec ==
    /\ RecoverySpec
    /\ \A p \in Agents : WF_recoveryVars(AgentStep(p))
    /\ WF_recoveryVars(Startup)

(***************************************************************************)
(* Properties.                                                             *)
(***************************************************************************)

\* The corpus never stays locked for good, whoever dies holding the lock.
LockReleased == []<>(lock = Free)

\* A queued document comes to an end although workers and crawlers die: the
\* queue is in the database, and the worker loop of the next deployment (or
\* whoever restarts the loop) polls it.  Only the document a worker died with
\* stays in "processing", where nothing looks for it.
QueueSurvives ==
    \A d \in Docs :
        status[d] = "queued" ~>
            \/ status[d] \in {"ready", "failed", "uploaded", "deleted"}
            \/ d \in undone
            \/ /\ status[d] = "processing" /\ crashes > 0
               /\ \A w \in Workers : agent[w].doc # d

\* A corpus is cleared by a deployment only if it could not be loaded: no
\* knowledge that could be answered from is thrown away.
RepairKeepsLoadable == [][Startup /\ Loadable(disk) => disk' = disk]_recoveryVars

\* After deaths and failures at any step, those inside an in-place rewrite
\* left out, a deployment starts with artifacts the retriever loads, or with
\* three that are empty.
RepairLeavesLoadable ==
    [][Startup /\ ~spoilt =>
            Loadable(disk') \/ \A a \in Artifacts : disk'[a] = <<>>]_recoveryVars

=============================================================================
