----------------------------- MODULE CorpusServing -----------------------------
(***************************************************************************)
(* The readers of the corpus.  Each chat request of a gunicorn process     *)
(* calls get_rag_service (chat/views.py): it takes the mtimes of the three *)
(* artifacts, one stat() after another and before any lock, and reloads    *)
(* the Retriever (rag/retriever.py) if they differ from the signature the  *)
(* process stored with the one it has.  _rag_lock makes the comparison,    *)
(* the reload under the corpus lock and the store one step.                *)
(***************************************************************************)
EXTENDS KnowledgeCorpus

CONSTANTS
    Threads,   \* request threads of one gunicorn process
    NoService

VARIABLES
    thread,    \* where each thread is in get_rag_service
    service    \* _rag_service and _rag_artifact_signature

serving == <<thread, service>>
servingVars == <<vars, serving>>

Signature == [Artifacts -> Nat]

ASSUME ServingAssumption == NoService \notin [Artifacts -> Seq(Entry) \cup {Absent, Torn}]

\* path.stat().st_mtime_ns if path.exists() else 0
Mtime(a) == IF disk[a] = Absent THEN 0 ELSE writes[a]
Mtimes == [a \in Artifacts |-> Mtime(a)]

\* Retriever.__init__ accepts no artifact at all, or three that load, are not
\* empty and have the same length.
Loadable(dk) ==
    \/ \A a \in Artifacts : dk[a] = Absent
    \/ /\ \A a \in Artifacts : dk[a] \notin {Absent, Torn}
       /\ dk["chunks"] # <<>>
       /\ \A a \in Artifacts : Len(dk[a]) = Len(dk["chunks"])

NoSignature == [a \in Artifacts |-> 0]
NoRag == [loaded |-> NoService, sig |-> NoSignature]
Quiet == [pc |-> "idle", sig |-> NoSignature]

ServingInit ==
    /\ Init
    /\ thread = [t \in Threads |-> Quiet]
    /\ service = NoRag

\* The artifacts are examined in the order of CORPUS_ARTIFACTS.
NextStat == [idle |-> "metadata", metadata |-> "embeddings", embeddings |-> "serve"]

Stat(t) ==
    LET at == thread[t].pc
        a == IF at = "idle" THEN "chunks" ELSE at
    IN
    /\ at \in DOMAIN NextStat
    /\ thread' = [thread EXCEPT ![t] = [pc |-> NextStat[at],
                                        sig |-> [@.sig EXCEPT ![a] = Mtime(a)]]]
    /\ UNCHANGED <<vars, service>>

\* The request goes on with a service, or ends with 503 and its reason code.
Answer(t) == thread' = [thread EXCEPT ![t] = Quiet]

\* Mistake: a service that is there is never reloaded.
NeedsFirstLoad(t) == service.loaded = NoService

\* _rag_service is None or _rag_artifact_signature != signature
NeedsReload(t) == service.loaded = NoService \/ service.sig # thread[t].sig

\* The stored service is used as it is.
ServeCached(t) ==
    /\ thread[t].pc = "serve"
    /\ ~NeedsReload(t)
    /\ Answer(t)
    /\ UNCHANGED <<vars, service>>

\* Mistakes: the reload does not take the corpus lock, ...
ServeReloadUnlocked(t) ==
    /\ thread[t].pc = "serve"
    /\ NeedsReload(t)
    /\ service' = IF Loadable(disk) THEN [loaded |-> disk, sig |-> thread[t].sig] ELSE service
    /\ Answer(t)
    /\ UNCHANGED vars

\* ... a failed reload drops the service that is there, ...
ServeReloadDropping(t) ==
    /\ thread[t].pc = "serve"
    /\ NeedsReload(t)
    /\ lock = Free
    /\ service' = IF Loadable(disk) THEN [loaded |-> disk, sig |-> thread[t].sig] ELSE NoRag
    /\ Answer(t)
    /\ UNCHANGED vars

\* ... or remembers the signature so as not to try again.
ServeReloadOnce(t) ==
    /\ thread[t].pc = "serve"
    /\ NeedsReload(t)
    /\ lock = Free
    /\ service' = [loaded |-> IF Loadable(disk) THEN disk ELSE service.loaded,
                   sig |-> thread[t].sig]
    /\ Answer(t)
    /\ UNCHANGED vars

\* The service is rebuilt under the corpus lock; artifacts that do not load
\* raise CorpusConfigError (503) and leave service and signature alone.
ServeReload(t) ==
    /\ thread[t].pc = "serve"
    /\ NeedsReload(t)
    /\ lock = Free
    /\ service' = IF Loadable(disk) THEN [loaded |-> disk, sig |-> thread[t].sig] ELSE service
    /\ Answer(t)
    /\ UNCHANGED vars

\* The corpus lock stays busy for 10 seconds: CorpusConfigError as well.
ServeTimeout(t) ==
    /\ thread[t].pc = "serve"
    /\ NeedsReload(t)
    /\ lock # Free
    /\ Answer(t)
    /\ UNCHANGED <<vars, service>>

ThreadStep(t) == Stat(t) \/ ServeCached(t) \/ ServeReload(t) \/ ServeTimeout(t)

ServingNext ==
    \/ Next /\ UNCHANGED serving
    \/ \E t \in Threads : ThreadStep(t)

ServingSpec == ServingInit /\ [][ServingNext]_servingVars

\* Worker and panel are scheduled, and visitors keep asking: some thread of the
\* process, not each of them, gets on.
FairServingSpec ==
    /\ ServingSpec
    /\ \A p \in Agents : WF_servingVars((WorkerStep(p) \/ RequestStep(p)) /\ UNCHANGED serving)
    /\ WF_servingVars(\E t \in Threads : ThreadStep(t))

(***************************************************************************)
(* Properties.                                                             *)
(***************************************************************************)

\* Threads and service have their types; what is served is never cut off.
ServingTypeOK ==
    /\ thread \in [Threads -> [pc : {"idle", "metadata", "embeddings", "serve"},
                               sig : Signature]]
    /\ service.sig \in Signature
    /\ service.loaded = NoService \/ service.loaded \in [Artifacts -> Seq(Entry) \cup {Absent}]

\* What a process answers from is a corpus some agent left complete: the
\* three arrays describe the same chunks.
ServedAligned ==
    service.loaded # NoService =>
        \A a \in Artifacts : service.loaded[a] = service.loaded["metadata"]

\* The signature may have been taken before the load, and in the middle of
\* somebody's writes; if it equals the mtimes nevertheless, what is loaded is
\* what is on disk.  The signature of missing files is the exception: one taken before
\* the first write and stored with the corpus loaded after it matches again
\* when that corpus is unlinked, and the process keeps what it has.
SignatureTellsFresh ==
    (/\ lock = Free
     /\ service.loaded # NoService
     /\ service.sig = Mtimes /\ service.sig # NoSignature)
        => service.loaded = disk

\* A process never gives up a service it has, and replaces it only by a
\* corpus that loads.
ServiceKept ==
    [][service.loaded # NoService => service'.loaded # NoService /\ Loadable(service'.loaded)]_service

\* Once the operators are done, a process that keeps being asked comes to
\* answer from the files on disk and stays there, unless the files went back
\* to missing or ended up empty.
EventuallyFresh ==
    <>[]( \/ service.loaded = disk
          \/ Mtimes = NoSignature
          \/ ~Loadable(disk))

=============================================================================
