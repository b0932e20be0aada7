---------------------------- MODULE KnowledgeCorpus ----------------------------
(***************************************************************************)
(* The knowledge base of the assistant: Document rows in the database, and *)
(* the corpus, three artifact files that are positional: entry i of        *)
(* chunks.json, metadata.json and embeddings.npy describe the same chunk.  *)
(*                                                                         *)
(* Workers index documents (chat/document_pipeline.py, chat/crawler.py and *)
(* the runworker and process_documents commands); Requests of the panel    *)
(* and of the Django admin queue, replace and delete them.  Every ORM call *)
(* commits on its own (there is no ATOMIC_REQUESTS), so each is a step;    *)
(* the files are replaced one by one under an inter-process FileLock.      *)
(***************************************************************************)
EXTENDS Naturals, Sequences, FiniteSets, Positions

CONSTANTS
    Docs,         \* primary keys of Document rows; a key is never reused
    CrawlDocs,    \* those that stand for a crawled URL (source_url)
    Contents,     \* the texts a document can have; equal text, equal hash
    Size,         \* Size[c]: how many chunks chunk_doc makes of text c
    Workers,      \* processes that index documents
    Requests,     \* panel and admin requests in flight
    InlineSpawn,  \* should_spawn_inline_worker()
    MaxOps,       \* bound: operator and crawler operations in a behaviour
    NoDoc, NoHash, NoRow, Absent, Torn, Free

ASSUME ConstantsAssumption ==
    /\ CrawlDocs \subseteq Docs
    /\ NoDoc \notin Docs
    /\ NoHash \notin Contents
    /\ Size \in [Contents -> Nat \ {0}]
    /\ Workers \cap Requests = {}
    /\ Free \notin Workers \cup Requests
    /\ InlineSpawn \in BOOLEAN
    /\ MaxOps \in Nat

VARIABLES
    status,  \* Document.status; "absent" before the row exists, "deleted" after
    hash,    \* Document.content_hash
    source,  \* the content of the row's file or source_text
    disk,    \* the three artifact files
    writes,  \* how often each file was written, which gives its mtime
    lock,    \* who holds .corpus.lock
    agent,   \* where each worker and request is in its code
    ops,     \* operations so far
    undone   \* history: documents to whose row a stale save put old values back

rows == <<status, hash, source, undone>>
files == <<disk, writes>>
vars == <<rows, files, lock, agent, ops>>

Agents == Workers \cup Requests
Artifacts == {"chunks", "metadata", "embeddings"}
Entry == [doc : Docs, text : Contents, part : Nat]

\* A Document that a form or the crawler has loaded: as it was (a new one has
\* no row yet), and the status and text it is going to be saved with.
Row == [status : {"absent", "uploaded", "queued", "processing", "ready", "failed"},
        hash : Contents \cup {NoHash}, source : Contents \cup {NoHash}]
Loaded == {r \in [doc : Docs, was : Row, source : Contents,
                  status : {"uploaded", "queued", "processing", "ready", "failed"}] :
              r.status \in {"uploaded", "queued", r.was.status}}

ASSUME RowAssumption == NoRow \notin Loaded

ASSUME FilesAssumption == Absent \notin Seq(Entry) /\ Torn \notin Seq(Entry) \cup {Absent}

Exists(d) == status[d] \notin {"absent", "deleted"}
RowOf(d) == [status |-> status[d], hash |-> hash[d], source |-> source[d]]

(***************************************************************************)
(* Corpus arithmetic.                                                      *)
(***************************************************************************)

\* A missing file reads as the empty list (_read_artifacts).
Read(a) == IF disk[a] = Absent THEN <<>> ELSE disk[a]

\* Mistake: the position of the first chunk is taken for "no position".
KeepButFirst(d) == LET meta == Read("metadata") IN {i \in DOMAIN meta : meta[i].doc # d /\ i # 1}

\* keep_indexes: the metadata positions of the other documents' chunks.
Keep(d) == LET meta == Read("metadata") IN {i \in DOMAIN meta : meta[i].doc # d}

\* Mistake: the vectors of the deleted chunks stay.
WithoutText(d) ==
    [a \in Artifacts |-> IF a = "embeddings" THEN Read(a) ELSE Pick(Read(a), Keep(d))]

\* The three files with the chunks of document d taken out.
Without(d) == [a \in Artifacts |-> Pick(Read(a), Keep(d))]

\* The entries a run makes of document d with text c.
Fresh(d, c) == [k \in 1..Size[c] |-> [doc |-> d, text |-> c, part |-> k]]

\* Mistake: new chunks are appended to the document's old ones.
RebuiltAppending(d, c) == [a \in Artifacts |-> Read(a) \o Fresh(d, c)]

\* final_chunks, final_metadata, final_embeddings.
Rebuilt(d, c) ==
    [a \in Artifacts |->
        IF disk["embeddings"] = Absent
        THEN Fresh(d, c)
        ELSE Without(d)[a] \o Fresh(d, c)]

\* json.loads and np.load raise on a file that was cut off while written.
Loads(as) == \A a \in as : disk[a] # Torn

\* Taking the kept positions of each file in as raises no IndexError.
InRange(as, d) == \A a \in as : Keep(d) \subseteq DOMAIN Read(a)

-----------------------------------------------------------------------------

NoFiles == [a \in Artifacts |-> Absent]

\* An agent at rest; list holds the documents a worker still has to process.
Idle(list) == [pc |-> "idle", doc |-> NoDoc, text |-> NoHash, list |-> list,
               new |-> NoFiles, todo |-> <<>>, kind |-> "none", row |-> NoRow]

Init ==
    /\ status = [d \in Docs |-> "absent"]
    /\ hash = [d \in Docs |-> NoHash]
    /\ source = [d \in Docs |-> NoHash]
    /\ disk = NoFiles
    /\ writes = [a \in Artifacts |-> 0]
    /\ lock = Free
    /\ agent = [p \in Agents |-> Idle({})]
    /\ ops = 0
    /\ undone = {}

Operation == ops < MaxOps /\ ops' = ops + 1

AtRest(p) == agent[p] = Idle({})
Goto(p, pc) == agent' = [agent EXCEPT ![p].pc = pc]
Return(p) == agent' = [agent EXCEPT ![p] = Idle(agent[p].list)]

(***************************************************************************)
(* Queueing.                                                               *)
(***************************************************************************)

\* enqueue_documents(ds): every existing row becomes "queued", whatever its
\* status was; on a machine that spawns, a detached process gets the list.
\* ag is the agents' state the spawned process is added to.
Enqueue(ds, ag) ==
    LET ids == {d \in ds : Exists(d)} IN
    /\ status' = [d \in Docs |-> IF d \in ids THEN "queued" ELSE status[d]]
    /\ IF InlineSpawn /\ ids # {}
       THEN \E w \in Workers : AtRest(w) /\ agent' = [ag EXCEPT ![w].list = ids]
       ELSE agent' = ag

\* The upload form saves a new row and sets it "queued" (two saves of a row
\* nobody waits for yet, one step here) ...
PanelUpload(p, d, c) ==
    /\ Operation
    /\ AtRest(p)
    /\ d \notin CrawlDocs /\ status[d] = "absent"
    /\ status' = [status EXCEPT ![d] = "queued"]
    /\ source' = [source EXCEPT ![d] = c]
    /\ agent' = [agent EXCEPT ![p].pc = "enqueue", ![p].doc = d]
    /\ UNCHANGED <<hash, undone, files, lock>>

\* ... as the reprocess button does with an existing one ...
PanelReprocess(p, d) ==
    /\ Operation
    /\ AtRest(p)
    /\ Exists(d)
    /\ status' = [status EXCEPT ![d] = "queued"]
    /\ agent' = [agent EXCEPT ![p].pc = "enqueue", ![p].doc = d]
    /\ UNCHANGED <<hash, source, undone, files, lock>>

\* ... and both then call enqueue_document.
PanelEnqueue(p) ==
    /\ agent[p].pc = "enqueue"
    /\ Enqueue({agent[p].doc}, [agent EXCEPT ![p] = Idle({})])
    /\ UNCHANGED <<hash, source, undone, files, lock, ops>>

\* The admin action enqueues any selection of rows at once.
AdminEnqueue(ds) ==
    /\ Operation
    /\ \A d \in ds : Exists(d)
    /\ Enqueue(ds, agent)
    /\ UNCHANGED <<hash, source, undone, files, lock>>

(***************************************************************************)
(* Saves of whole rows.  The change form of the Django admin and the       *)
(* crawler's _index_page load a Document, change some attributes and call  *)
(* save() without update_fields: whatever happened in between, all columns *)
(* are written back, and a row that is gone by then is inserted again.     *)
(***************************************************************************)

\* The admin form adds an "uploaded" row.
AdminAdd(d, c) ==
    /\ Operation
    /\ d \notin CrawlDocs /\ status[d] = "absent"
    /\ status' = [status EXCEPT ![d] = "uploaded"]
    /\ source' = [source EXCEPT ![d] = c]
    /\ UNCHANGED <<hash, undone, files, lock, agent>>

\* Agent p has document d in hand, to be saved with status st and text c.
Load(p, d, st, c) ==
    agent' = [agent EXCEPT ![p].row = [doc |-> d, was |-> RowOf(d), source |-> c, status |-> st]]

\* The change form of row d is posted, perhaps with another file.
LoadForm(p, d, c) ==
    /\ Operation
    /\ AtRest(p)
    /\ Exists(d)
    /\ c = source[d] \/ d \notin CrawlDocs
    /\ Load(p, d, IF c = source[d] THEN status[d] ELSE "uploaded", c)
    /\ UNCHANGED <<rows, files, lock>>

\* _index_page: a crawled page whose text changed, or a new page whose text
\* no other document has.
LoadPage(w, d, c) ==
    /\ Operation
    /\ AtRest(w)
    /\ d \in CrawlDocs
    /\ \/ Exists(d) /\ hash[d] # c
       \/ /\ status[d] = "absent" /\ \A e \in Docs : hash[e] # c
          /\ \A p \in Agents : agent[p].row # NoRow => agent[p].row.doc # d
    /\ Load(w, d, "queued", c)
    /\ UNCHANGED <<rows, files, lock>>

\* save(); list is what the agent processes next.
SaveRow(p, list) ==
    LET row == agent[p].row IN
    /\ row # NoRow
    /\ status' = [status EXCEPT ![row.doc] = row.status]
    /\ hash' = [hash EXCEPT ![row.doc] = row.was.hash]
    /\ source' = [source EXCEPT ![row.doc] = row.source]
    /\ undone' = IF RowOf(row.doc) = row.was THEN undone ELSE undone \cup {row.doc}
    /\ agent' = [agent EXCEPT ![p].row = NoRow, ![p].list = list]
    /\ UNCHANGED <<files, lock, ops>>

AdminSave(p) == SaveRow(p, {})

\* The crawler processes the document in its own process.
CrawlSave(w) == SaveRow(w, {agent[w].row.doc})

(***************************************************************************)
(* Indexing: process_document and rebuild_document_embeddings.             *)
(***************************************************************************)

\* Mistake: the loop polls only uploaded files.
PollUploads(w) ==
    LET queued == {d \in Docs \ CrawlDocs : status[d] = "queued"} IN
    /\ ~InlineSpawn
    /\ AtRest(w)
    /\ queued # {}
    /\ agent' = [agent EXCEPT ![w].list = queued]
    /\ UNCHANGED <<rows, files, lock, ops>>

\* runworker --loop takes a snapshot of the queued rows.
Poll(w) ==
    /\ ~InlineSpawn
    /\ AtRest(w)
    /\ \E d \in Docs : status[d] = "queued"
    /\ agent' = [agent EXCEPT ![w].list = {d \in Docs : status[d] = "queued"}]
    /\ UNCHANGED <<rows, files, lock, ops>>

\* The next document of the list is loaded and set "processing", whatever
\* its status is by now; a row that is gone raises DoesNotExist.
Begin(w, d) ==
    LET rest == agent[w].list \ {d} IN
    /\ agent[w].pc = "idle" /\ d \in agent[w].list
    /\ IF Exists(d)
       THEN /\ status' = [status EXCEPT ![d] = "processing"]
            /\ agent' = [agent EXCEPT ![w].pc = "loaded", ![w].doc = d,
                                      ![w].text = source[d], ![w].list = rest]
       ELSE /\ agent' = [agent EXCEPT ![w].list = rest]
            /\ UNCHANGED status
    /\ UNCHANGED <<hash, source, undone, files, lock, ops>>

\* Mistake: only rows that are "ready" count as duplicates.
CheckDuplicateReady(w) ==
    LET d == agent[w].doc IN
    /\ agent[w].pc = "loaded"
    /\ Goto(w, IF \E e \in Docs \ {d} : hash[e] = agent[w].text /\ status[e] = "ready"
               THEN "failing" ELSE "checked")
    /\ UNCHANGED <<rows, files, lock, ops>>

\* The text is extracted, and refused if another row has its hash.
CheckDuplicate(w) ==
    LET d == agent[w].doc IN
    /\ agent[w].pc = "loaded"
    /\ Goto(w, IF \E e \in Docs \ {d} : hash[e] = agent[w].text
               THEN "failing" ELSE "checked")
    /\ UNCHANGED <<rows, files, lock, ops>>

\* Mistake: the exception is swallowed and the row saved as if indexed ...
IndexFailsQuietly(w) ==
    /\ agent[w].pc \in {"loaded", "checked"}
    /\ Goto(w, "saving")
    /\ UNCHANGED <<rows, files, lock, ops>>

\* ... or the row is not saved at all.
IndexFailsUnsaved(w) ==
    /\ agent[w].pc \in {"loaded", "checked"}
    /\ Return(w)
    /\ UNCHANGED <<rows, files, lock, ops>>

\* Extraction, chunking or the embedding API fails, or the corpus lock is
\* not free for 30 seconds.
IndexFails(w) ==
    /\ \/ agent[w].pc = "loaded"
       \/ agent[w].pc = "checked"
    /\ Goto(w, "failing")
    /\ UNCHANGED <<rows, files, lock, ops>>

\* Take the lock and hold it for the writes of the agent's new files.
StartWriting(p, new, todo, kind) ==
    /\ lock' = p
    /\ agent' = [agent EXCEPT ![p].pc = "writing", ![p].new = new,
                              ![p].todo = todo, ![p].kind = kind]

\* Mistake: the artifacts are rewritten without waiting for the lock.
IndexUnlocked(w) ==
    /\ agent[w].pc = "checked"
    /\ IF Loads(Artifacts) /\ InRange(Artifacts, agent[w].doc)
       THEN StartWriting(w, Rebuilt(agent[w].doc, agent[w].text),
                         <<"chunks", "metadata", "embeddings">>, "index")
       ELSE Goto(w, "failing") /\ UNCHANGED lock
    /\ UNCHANGED <<rows, files, ops>>

\* Under the lock: read the artifacts, compare two of the three lengths and
\* compute the new ones.
IndexLocked(w) ==
    LET d == agent[w].doc
        hasCorpus == disk["embeddings"] # Absent
    IN
    /\ agent[w].pc = "checked" /\ lock = Free
    /\ IF /\ Loads(Artifacts)
          /\ hasCorpus => /\ Len(Read("chunks")) = Len(Read("embeddings"))
                          /\ InRange(Artifacts, d)
       THEN StartWriting(w, Rebuilt(d, agent[w].text),
                         <<"chunks", "metadata", "embeddings">>, "index")
       ELSE Goto(w, "failing") /\ UNCHANGED lock
    /\ UNCHANGED <<rows, files, ops>>

\* Mistake: the hash is that of the row's text by now.
SaveReadySource(w) ==
    LET d == agent[w].doc IN
    /\ agent[w].pc = "saving"
    /\ IF Exists(d)
       THEN /\ status' = [status EXCEPT ![d] = "ready"]
            /\ hash' = [hash EXCEPT ![d] = source[d]]
       ELSE UNCHANGED <<status, hash>>
    /\ Return(w)
    /\ UNCHANGED <<source, undone, files, lock, ops>>

\* Mistake: save() without update_fields inserts a row that is gone.
SaveReadyInserting(w) ==
    LET d == agent[w].doc IN
    /\ agent[w].pc = "saving"
    /\ status' = [status EXCEPT ![d] = "ready"]
    /\ hash' = [hash EXCEPT ![d] = agent[w].text]
    /\ Return(w)
    /\ UNCHANGED <<source, undone, files, lock, ops>>

\* The row becomes "ready" with the hash of what was indexed, over whatever
\* its status is by now.  If it was deleted, the UPDATE raises.
SaveReady(w) ==
    LET d == agent[w].doc IN
    /\ agent[w].pc = "saving"
    /\ IF Exists(d)
       THEN /\ status' = [status EXCEPT ![d] = "ready"]
            /\ hash' = [hash EXCEPT ![d] = agent[w].text]
       ELSE UNCHANGED <<status, hash>>
    /\ Return(w)
    /\ UNCHANGED <<source, undone, files, lock, ops>>

\* Mistake: a status the choices of Document do not have.
SaveFailedAsError(w) ==
    LET d == agent[w].doc IN
    /\ agent[w].pc = "failing"
    /\ status' = IF Exists(d) THEN [status EXCEPT ![d] = "error"] ELSE status
    /\ Return(w)
    /\ UNCHANGED <<hash, source, undone, files, lock, ops>>

\* Mistake: a failed run leaves the row as it is.
SaveFailedNothing(w) ==
    /\ agent[w].pc = "failing"
    /\ Return(w)
    /\ UNCHANGED <<rows, files, lock, ops>>

\* The row becomes "failed", over whatever its status is by now.
SaveFailed(w) ==
    LET d == agent[w].doc IN
    /\ agent[w].pc = "failing"
    /\ status' = IF Exists(d) THEN [status EXCEPT ![d] = "failed"] ELSE status
    /\ Return(w)
    /\ UNCHANGED <<hash, source, undone, files, lock, ops>>

(***************************************************************************)
(* Deletion: knowledge_delete (panel) and delete_model (Django admin).     *)
(***************************************************************************)

RequestDelete(p, d, how) ==
    /\ Operation
    /\ AtRest(p)
    /\ Exists(d)
    /\ agent' = [agent EXCEPT ![p].pc = how, ![p].doc = d]
    /\ UNCHANGED <<rows, files, lock>>

\* delete_document_artifacts, under the lock.  Only the metadata decides
\* what is kept.  A corpus that becomes empty is unlinked; any other is
\* rewritten in place, embeddings first.
PanelDeleteLocked(p) ==
    LET d == agent[p].doc IN
    /\ agent[p].pc = "panelDelete" /\ lock = Free
    /\ IF ~Loads({"chunks", "metadata"}) THEN Return(p) /\ UNCHANGED lock
       ELSE IF Keep(d) = DOMAIN Read("metadata") THEN Goto(p, "dropping") /\ UNCHANGED lock
       ELSE IF Keep(d) = {}
       THEN StartWriting(p, NoFiles, <<"chunks", "metadata", "embeddings">>, "unlink")
       ELSE IF disk["embeddings"] \notin {Absent, Torn} /\ InRange(Artifacts, d)
       THEN StartWriting(p, Without(d), <<"embeddings", "chunks", "metadata">>, "inplace")
       ELSE Return(p) /\ UNCHANGED lock
    /\ UNCHANGED <<rows, files, ops>>

\* remove_document_embeddings, under the lock.
AdminDeleteLocked(p) ==
    LET d == agent[p].doc
        meta == Read("metadata")
    IN
    /\ agent[p].pc = "adminDelete" /\ lock = Free
    /\ IF ~Loads(Artifacts) THEN Return(p) /\ UNCHANGED lock
       ELSE IF disk["embeddings"] = Absent THEN Goto(p, "dropping") /\ UNCHANGED lock
       ELSE IF \E a \in Artifacts : Len(Read(a)) # Len(meta) THEN Return(p) /\ UNCHANGED lock
       ELSE IF Keep(d) = DOMAIN meta THEN Goto(p, "dropping") /\ UNCHANGED lock
       ELSE StartWriting(p, Without(d), <<"chunks", "metadata", "embeddings">>, "replace")
    /\ UNCHANGED <<rows, files, ops>>

\* The lock stays busy for 30 seconds: the request fails, nothing is deleted.
DeleteTimeout(p) ==
    /\ agent[p].pc \in {"panelDelete", "adminDelete"} /\ lock # Free
    /\ Return(p)
    /\ UNCHANGED <<rows, files, lock, ops>>

\* document.delete()
DropRow(d) ==
    /\ status' = [status EXCEPT ![d] = "deleted"]
    /\ hash' = [hash EXCEPT ![d] = NoHash]

FinishDelete(p) ==
    /\ agent[p].pc = "dropping"
    /\ DropRow(agent[p].doc)
    /\ Return(p)
    /\ UNCHANGED <<source, undone, files, lock, ops>>

(***************************************************************************)
(* Writing under the lock, file by file.                                   *)
(***************************************************************************)

WriteNext(p) ==
    LET a == Head(agent[p].todo) IN
    /\ agent[p].pc = "writing" /\ agent[p].todo # <<>>
    /\ disk' = [disk EXCEPT ![a] = agent[p].new[a]]
    /\ writes' = [writes EXCEPT ![a] = @ + 1]
    /\ agent' = [agent EXCEPT ![p].todo = Tail(@)]
    /\ UNCHANGED <<rows, lock, ops>>

\* Mistake: the early return after the unlink forgets the row.
UnlockForgetting(p) ==
    /\ agent[p].pc = "writing" /\ agent[p].todo = <<>>
    /\ lock' = Free
    /\ IF agent[p].kind = "unlink"
       THEN Return(p)
       ELSE Goto(p, IF agent[p].kind = "index" THEN "saving" ELSE "dropping")
    /\ UNCHANGED <<rows, files, ops>>

\* The lock is released; the row is updated after that, except that a delete
\* that emptied the corpus drops the row before.
Unlock(p) ==
    /\ agent[p].pc = "writing" /\ agent[p].todo = <<>>
    /\ lock' = Free
    /\ IF agent[p].kind = "unlink"
       THEN DropRow(agent[p].doc) /\ Return(p)
       ELSE /\ Goto(p, IF agent[p].kind = "index" THEN "saving" ELSE "dropping")
            /\ UNCHANGED <<status, hash>>
    /\ UNCHANGED <<source, undone, files, ops>>

-----------------------------------------------------------------------------

WorkerStep(w) ==
    \/ Poll(w)
    \/ \E d \in Docs : Begin(w, d)
    \/ CheckDuplicate(w)
    \/ IndexFails(w)
    \/ IndexLocked(w)
    \/ WriteNext(w)
    \/ Unlock(w)
    \/ SaveReady(w)
    \/ SaveFailed(w)
    \/ CrawlSave(w)

RequestStep(p) ==
    \/ PanelEnqueue(p)
    \/ PanelDeleteLocked(p)
    \/ AdminDeleteLocked(p)
    \/ DeleteTimeout(p)
    \/ WriteNext(p)
    \/ Unlock(p)
    \/ FinishDelete(p)
    \/ AdminSave(p)

\* What operators and the crawler ask for.
Environment ==
    \/ \E p \in Requests, d \in Docs :
        \/ \E c \in Contents : PanelUpload(p, d, c) \/ LoadForm(p, d, c)
        \/ PanelReprocess(p, d)
        \/ \E how \in {"panelDelete", "adminDelete"} : RequestDelete(p, d, how)
    \/ \E ds \in (SUBSET Docs) \ {{}} : AdminEnqueue(ds)
    \/ \E d \in Docs, c \in Contents : AdminAdd(d, c)
    \/ \E w \in Workers, d \in Docs, c \in Contents : LoadPage(w, d, c)

Next ==
    \/ Environment
    \/ \E w \in Workers : WorkerStep(w)
    \/ \E p \in Requests : RequestStep(p)

Spec == Init /\ [][Next]_vars

(***************************************************************************)
(* Properties.                                                             *)
(***************************************************************************)

AgentState == [
    pc : {"idle", "enqueue", "loaded", "checked", "failing", "writing", "saving",
          "panelDelete", "adminDelete", "dropping"},
    doc : Docs \cup {NoDoc},
    text : Contents \cup {NoHash},
    list : SUBSET Docs,
    new : [Artifacts -> Seq(Entry) \cup {Absent}],
    todo : Seq(Artifacts),
    kind : {"none", "index", "unlink", "inplace", "replace"},
    row : Loaded \cup {NoRow}]

\* Every variable has its type; a file is a list of entries, missing or torn.
TypeOK ==
    /\ status \in [Docs -> {"absent", "uploaded", "queued", "processing",
                            "ready", "failed", "deleted"}]
    /\ hash \in [Docs -> Contents \cup {NoHash}]
    /\ source \in [Docs -> Contents \cup {NoHash}]
    /\ disk \in [Artifacts -> Seq(Entry) \cup {Absent, Torn}]
    /\ writes \in [Artifacts -> Nat]
    /\ lock \in Agents \cup {Free}
    /\ agent \in [Agents -> AgentState]
    /\ ops \in Nat
    /\ undone \subseteq Docs

\* Whoever gets the corpus lock finds three artifacts that describe the same
\* chunks in the same order, or none of the three, whatever indexing and
\* deletion ran before and in whichever order each writes its files.
Aligned ==
    lock = Free => \A a \in Artifacts : disk[a] = disk["metadata"]

\* The chunks of one document in the corpus are those of one run over one
\* text: concurrent or repeated runs never leave a mixture or a second copy.
OneVersion ==
    LET meta == Read("metadata") IN
    lock = Free =>
        \A d \in Docs : LET mine == DOMAIN meta \ Keep(d) IN
            mine # {} => \E c \in Contents : Pick(meta, mine) = Fresh(d, c)

\* A row the panel shows "ready" has chunks in the corpus, unless a delete
\* has just taken them out and is about to drop the row.  This and the other
\* properties of rows leave out those a stale save put old values back in.
ReadyIndexed ==
    lock = Free =>
        \A d \in Docs \ undone : status[d] = "ready" =>
            \/ Keep(d) # DOMAIN Read("metadata")
            \/ \E p \in Requests : agent[p].pc = "dropping" /\ agent[p].doc = d

\* With one worker, two rows never carry the same content hash, so no text
\* is in the knowledge base twice.
HashUnique ==
    \A d, e \in Docs \ undone : d # e /\ hash[d] # NoHash => hash[d] # hash[e]

\* With one worker, a row's content hash tells which text of the document is
\* in the corpus (the crawler skips a page whose text has that hash), except
\* while a run or a delete of that document is between its two writes.
HashTellsIndexed ==
    LET meta == Read("metadata") IN
    \A d \in Docs \ undone :
        (hash[d] # NoHash /\ \A p \in Agents : agent[p].doc # d /\ lock = Free)
            => Pick(meta, DOMAIN meta \ Keep(d)) = Fresh(d, hash[d])

\* A row in "processing" has a process at work on it, so a run in progress
\* always comes to an end the panel shows (as long as no process dies).
ProcessingIsInFlight ==
    \A d \in Docs \ undone : status[d] = "processing" => \E w \in Workers : agent[w].doc = d

\* A deleted row comes back only through the save of a whole row by somebody
\* who loaded it before: no result of a worker and no button does it.
OnlyFormsResurrect ==
    [][\A d \in Docs : status[d] = "deleted" /\ status'[d] # "deleted" =>
            \E p \in Agents : /\ agent[p].row # NoRow /\ agent'[p].row = NoRow
                              /\ agent[p].row.doc = d]_vars

\* The artifact that is written last decides what the corpus holds: the
\* embeddings, or the metadata while a panel delete rewrites the files.
Committed ==
    LET last == IF lock # Free /\ agent[lock].kind = "inplace" THEN "metadata" ELSE "embeddings"
        file == Read(last)
    IN {<<file[i].doc, file[i].text>> : i \in DOMAIN file}

Store == INSTANCE CorpusStore WITH corpus <- Committed

\* Seen from the last file of each write, the three files written one by one
\* by several processes are a store that changes by one document at a time.
ImplementsStore == Store!Spec

=============================================================================
