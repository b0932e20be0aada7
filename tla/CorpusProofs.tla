------------------------------ MODULE CorpusProofs -----------------------------
(***************************************************************************)
(* The corpus implements CorpusStore, and its rows agree with it, for any  *)
(* documents, texts, workers and requests.  Then its readers, any number   *)
(* of threads (CorpusServing), and what failures, deaths and deployments   *)
(* leave of all this (CorpusRecovery).                                     *)
(***************************************************************************)
EXTENDS CorpusRecovery, KnowledgeCorpusProofs

\* What a file holds, and which texts of which documents.
Content(x) == IF x = Absent THEN <<>> ELSE x
Pairs(f) == {<<f[i].doc, f[i].text>> : i \in DOMAIN f}
Minus(C, d) == {e \in C : e[1] # d}

LEMMA PickPairs ==
    ASSUME NEW s \in Seq(Entry), NEW S \in SUBSET DOMAIN s
    PROVE  Pairs(Pick(s, S)) = {<<s[i].doc, s[i].text>> : i \in S}
<1> DEFINE t == Pick(s, S)
<1>1. \A x : (\E n \in DOMAIN t : t[n] = x) <=> \E i \in S : s[i] = x
  BY PickEntries
<1> HIDE DEF t
<1>2. ASSUME NEW n \in DOMAIN t PROVE \E i \in S : t[n] = s[i]
  BY <1>1
<1>3. ASSUME NEW i \in S PROVE \E n \in DOMAIN t : t[n] = s[i]
  BY <1>1
<1>4. Pairs(t) = {<<s[i].doc, s[i].text>> : i \in S}
  BY <1>2, <1>3 DEF Pairs
<1> QED BY <1>4 DEF t

LEMMA JoinPairs ==
    ASSUME NEW s \in Seq(Entry), NEW t \in Seq(Entry)
    PROVE  Pairs(s \o t) = Pairs(s) \cup Pairs(t)
<1>1. /\ Len(s) \in Nat /\ Len(t) \in Nat
      /\ DOMAIN s = 1..Len(s) /\ DOMAIN t = 1..Len(t) /\ DOMAIN (s \o t) = 1..(Len(s) + Len(t))
  OBVIOUS
<1>2. \A i \in DOMAIN (s \o t) :
        \/ i \in DOMAIN s /\ (s \o t)[i] = s[i]
        \/ i - Len(s) \in DOMAIN t /\ (s \o t)[i] = t[i - Len(s)]
  BY <1>1
<1>3. \A i \in DOMAIN s : i \in DOMAIN (s \o t) /\ (s \o t)[i] = s[i]
  BY <1>1
<1>4. \A i \in DOMAIN t : Len(s) + i \in DOMAIN (s \o t) /\ (s \o t)[Len(s) + i] = t[i]
  BY <1>1
<1> QED BY <1>2, <1>3, <1>4 DEF Pairs

LEMMA FreshPairs ==
    ASSUME NEW d \in Docs, NEW c \in Contents
    PROVE  Pairs(Fresh(d, c)) = {<<d, c>>}
<1>1. Size[c] \in Nat \ {0} /\ 1 \in 1..Size[c]
  BY ConstantsAssumption
<1> QED BY <1>1 DEF Pairs, Fresh

\* Taking document d out of an aligned corpus, and putting a text of it in.
LEMMA WithoutPairs ==
    ASSUME TypeOK, lock = Free, Aligned, disk["metadata"] # Torn, NEW d, NEW a \in Artifacts
    PROVE  /\ Without(d)[a] \in Seq(Entry)
           /\ Pairs(Without(d)[a]) = Minus(Pairs(Read("metadata")), d)
<1> DEFINE meta == Read("metadata")
<1>1. "metadata" \in Artifacts /\ Read(a) = meta
  BY DEF Aligned, Read, Artifacts
<1>2. meta \in Seq(Entry)
  BY <1>1, ReadType
<1>3. Without(d)[a] = Pick(meta, Keep(d)) /\ Keep(d) = {i \in DOMAIN meta : meta[i].doc # d}
  BY <1>1 DEF Without, Keep
<1> HIDE DEF meta
<1>4. Keep(d) \in SUBSET DOMAIN meta
  BY <1>3
<1>5. Pairs(Pick(meta, Keep(d))) = {<<meta[i].doc, meta[i].text>> : i \in Keep(d)}
  BY <1>2, <1>4, PickPairs
<1>6. {<<meta[i].doc, meta[i].text>> : i \in Keep(d)} = Minus(Pairs(meta), d)
  BY <1>3 DEF Minus, Pairs
<1>7. Pick(meta, Keep(d)) \in Seq(Entry)
  BY <1>2, <1>4, PickType
<1> QED BY <1>3, <1>5, <1>6, <1>7 DEF meta

LEMMA RebuiltEntries ==
    ASSUME TypeOK, lock = Free, Aligned, disk["metadata"] # Torn,
           NEW d \in Docs, NEW c \in Contents, NEW a \in Artifacts
    PROVE  Rebuilt(d, c)[a] \in Seq(Entry)
<1>1. Fresh(d, c) \in Seq(Entry) /\ Without(d)[a] \in Seq(Entry)
  BY FreshType, WithoutPairs
<1>2. Without(d)[a] \o Fresh(d, c) \in Seq(Entry)
  BY <1>1
<1>3. Rebuilt(d, c)[a] = Fresh(d, c) \/ Rebuilt(d, c)[a] = Without(d)[a] \o Fresh(d, c)
  BY DEF Rebuilt
<1> QED BY <1>1, <1>2, <1>3

LEMMA RebuiltPairs ==
    ASSUME TypeOK, lock = Free, Aligned, disk["metadata"] # Torn,
           NEW d \in Docs, NEW c \in Contents, NEW a \in Artifacts
    PROVE  Pairs(Rebuilt(d, c)[a]) = Minus(Pairs(Read("metadata")), d) \cup {<<d, c>>}
<1>1. Fresh(d, c) \in Seq(Entry) /\ Pairs(Fresh(d, c)) = {<<d, c>>}
  BY FreshType, FreshPairs
<1>2. disk["embeddings"] = disk["metadata"]
  BY DEF Aligned, Artifacts
<1>3. CASE disk["embeddings"] = Absent
  <2>1. Rebuilt(d, c)[a] = Fresh(d, c) /\ Read("metadata") = <<>>
    BY <1>2, <1>3 DEF Rebuilt, Read
  <2>2. Minus(Pairs(<<>>), d) = {}
    BY DEF Minus, Pairs
  <2> QED BY <1>1, <2>1, <2>2
<1>4. CASE disk["embeddings"] # Absent
  <2>1. Rebuilt(d, c)[a] = Without(d)[a] \o Fresh(d, c)
    BY <1>4 DEF Rebuilt
  <2> QED BY <1>1, <2>1, WithoutPairs, JoinPairs
<1> QED BY <1>3, <1>4

-----------------------------------------------------------------------------

\* Agent p takes the lock and plans its new files.
Starts(p) ==
    LET d == agent[p].doc IN
    /\ lock = Free /\ UNCHANGED <<rows, files>>
    /\ disk["metadata"] # Torn
    /\ \/ /\ p \in Workers /\ agent[p].pc = "checked"
          /\ \E todo : StartWriting(p, Rebuilt(d, agent[p].text), todo, "index")
       \/ /\ p \in Requests /\ Keep(d) = {}
          /\ \E todo : StartWriting(p, NoFiles, todo, "unlink")
       \/ /\ p \in Requests
          /\ \E todo : \/ StartWriting(p, Without(d), todo, "inplace")
                       \/ StartWriting(p, Without(d), todo, "replace")

\* A step that leaves the files, the lock and whoever is writing alone.
FilesKept ==
    /\ UNCHANGED <<disk, lock>>
    /\ \A q \in Agents : \/ SamePlace(q)
                         \/ agent[q].pc # "writing" /\ agent'[q].pc # "writing"

\* Loading a row moves nobody.
LEMMA LoadSame ==
    ASSUME TypeOK, NEW p \in Agents, NEW d, NEW c, LoadForm(p, d, c) \/ LoadPage(p, d, c)
    PROVE  UNCHANGED <<rows, files, lock>> /\ \A q \in Agents : SamePlace(q)
<1>1. PICK row : agent' = [agent EXCEPT ![p].row = row]
  BY DEF LoadForm, LoadPage, Load
<1>2. agent \in [Agents -> AgentState]
  BY DEF TypeOK
<1>3. \A q \in Agents : SamePlace(q)
  BY <1>1, <1>2 DEF SamePlace, AgentState
<1> QED BY <1>3 DEF LoadForm, LoadPage

LEMMA EnqueueKeepsFiles ==
    ASSUME TypeOK, NEW ds, NEW ag \in [Agents -> AgentState],
           Enqueue(ds, ag), UNCHANGED <<disk, lock>>,
           \A q \in Agents : ag[q] = agent[q] \/ (agent[q].pc # "writing" /\ ag[q].pc # "writing")
    PROVE  FilesKept
<1>1. CASE agent' = ag
  BY <1>1 DEF FilesKept, SamePlace
<1>2. ASSUME NEW w \in Workers, AtRest(w), NEW ids, agent' = [ag EXCEPT ![w].list = ids]
      PROVE  FilesKept
  <2>1. agent[w].pc = "idle" /\ w \in Agents
    BY <1>2 DEF AtRest, Idle, Agents
  <2>2. agent'[w].pc = ag[w].pc /\ \A q \in Agents \ {w} : agent'[q] = ag[q]
    BY <1>2, <2>1 DEF AgentState
  <2> QED BY <2>1, <2>2 DEF FilesKept, SamePlace
<1> QED BY <1>1, <1>2 DEF Enqueue

LEMMA StepForms ==
    ASSUME TypeInv, [Next]_vars
    PROVE  \/ FilesKept
           \/ \E p \in Agents : WriteNext(p) \/ Unlock(p) \/ Starts(p)
<1>0. TypeOK /\ agent \in [Agents -> AgentState]
  BY DEF TypeInv, TypeOK
<1>1. ASSUME NEW p \in Agents, agent[p].pc # "writing", agent'[p].pc # "writing",
             UNCHANGED <<disk, lock>>, \A q \in Agents \ {p} : agent'[q] = agent[q]
      PROVE  FilesKept
  <2> SUFFICES ASSUME NEW q \in Agents
               PROVE  agent'[q] = agent[q] \/ (agent[q].pc # "writing" /\ agent'[q].pc # "writing")
    BY <1>1 DEF FilesKept, SamePlace
  <2> QED BY <1>1
<1>2. CASE UNCHANGED vars
  BY <1>2 DEF vars, files, FilesKept, SamePlace
<1>6. ASSUME NEW p \in Agents, NEW list, SaveRow(p, list) PROVE FilesKept
  BY <1>0, <1>6 DEF SaveRow, files, FilesKept, SamePlace, AgentState
<1>3. CASE Environment
  <2>1. ASSUME NEW p \in Requests, AtRest(p), NEW pc, NEW d, pc # "writing",
               agent' = [agent EXCEPT ![p].pc = pc, ![p].doc = d], UNCHANGED <<disk, lock>>
        PROVE  FilesKept
    <3>1. p \in Agents /\ agent[p].pc = "idle"
      BY <2>1 DEF Agents, AtRest, Idle
    <3>2. agent'[p].pc = pc /\ \A q \in Agents \ {p} : agent'[q] = agent[q]
      BY <1>0, <2>1, <3>1 DEF AgentState
    <3> QED BY <1>1, <2>1, <3>1, <3>2
  <2>2. ASSUME NEW p \in Requests, NEW d \in Docs, NEW c \in Contents, PanelUpload(p, d, c)
        PROVE  FilesKept
    BY <2>1, <2>2 DEF PanelUpload, files
  <2>3. ASSUME NEW p \in Requests, NEW d \in Docs, PanelReprocess(p, d) PROVE FilesKept
    BY <2>1, <2>3 DEF PanelReprocess, files
  <2>4. ASSUME NEW p \in Requests, NEW d \in Docs, NEW how \in {"panelDelete", "adminDelete"},
               RequestDelete(p, d, how)
        PROVE  FilesKept
    BY <2>1, <2>4 DEF RequestDelete, files
  <2>5. ASSUME NEW ds \in SUBSET Docs, AdminEnqueue(ds) PROVE FilesKept
    BY <1>0, <2>5, EnqueueKeepsFiles DEF AdminEnqueue, files
  <2>6. ASSUME NEW d \in Docs, NEW c \in Contents, AdminAdd(d, c) PROVE FilesKept
    BY <2>6 DEF AdminAdd, files, FilesKept, SamePlace
  <2>7. ASSUME NEW p \in Agents, NEW d \in Docs, NEW c \in Contents,
               LoadForm(p, d, c) \/ LoadPage(p, d, c)
        PROVE  FilesKept
    BY <1>0, <2>7, LoadSame DEF files, FilesKept
  <2> QED BY <1>3, <2>2, <2>3, <2>4, <2>5, <2>6, <2>7 DEF Environment, Agents
<1>4. ASSUME NEW w \in Workers, WorkerStep(w)
      PROVE  FilesKept \/ WriteNext(w) \/ Unlock(w) \/ Starts(w)
  <2>0. w \in Agents
    BY DEF Agents
  <2>1. CASE Poll(w)
    BY <1>0, <1>1, <2>0, <2>1 DEF Poll, AtRest, Idle, files, AgentState
  <2>2. ASSUME NEW d \in Docs, Begin(w, d) PROVE FilesKept
    BY <1>0, <1>1, <2>0, <2>2 DEF Begin, files, AgentState
  <2>3. CASE CheckDuplicate(w)
    BY <1>0, <1>1, <2>0, <2>3 DEF CheckDuplicate, Goto, files, AgentState
  <2>4. CASE IndexFails(w)
    BY <1>0, <1>1, <2>0, <2>4 DEF IndexFails, Goto, files, AgentState
  <2>5. CASE IndexLocked(w)
    <3>1. CASE Loads(Artifacts) /\ StartWriting(w, Rebuilt(agent[w].doc, agent[w].text),
                                                <<"chunks", "metadata", "embeddings">>, "index")
      <4>1. disk["metadata"] # Torn
        BY <3>1 DEF Loads, Artifacts
      <4>2. \E todo : StartWriting(w, Rebuilt(agent[w].doc, agent[w].text), todo, "index")
        BY <3>1
      <4> QED BY <2>5, <4>1, <4>2 DEF IndexLocked, Starts
    <3>2. CASE Goto(w, "failing") /\ UNCHANGED lock
      BY <1>0, <1>1, <2>0, <2>5, <3>2 DEF IndexLocked, Goto, files, AgentState
    <3> QED BY <2>5, <3>1, <3>2 DEF IndexLocked
  <2>6. CASE SaveReady(w)
    BY <1>0, <1>1, <2>0, <2>6 DEF SaveReady, Return, Idle, files
  <2>7. CASE SaveFailed(w)
    BY <1>0, <1>1, <2>0, <2>7 DEF SaveFailed, Return, Idle, files
  <2> QED BY <1>4, <1>6, <2>0, <2>1, <2>2, <2>3, <2>4, <2>5, <2>6, <2>7 DEF WorkerStep, CrawlSave
<1>5. ASSUME NEW p \in Requests, RequestStep(p)
      PROVE  FilesKept \/ WriteNext(p) \/ Unlock(p) \/ Starts(p)
  <2>0. p \in Agents
    BY DEF Agents
  <2>1. CASE PanelEnqueue(p)
    <3> DEFINE ag == [agent EXCEPT ![p] = Idle({})]
    <3>1. ag \in [Agents -> AgentState]
      BY <1>0, IdleType
    <3>2. \A q \in Agents : ag[q] = agent[q] \/ (agent[q].pc # "writing" /\ ag[q].pc # "writing")
      BY <1>0, <2>1 DEF PanelEnqueue, Idle
    <3>3. Enqueue({agent[p].doc}, ag) /\ UNCHANGED <<disk, lock>>
      BY <2>1 DEF PanelEnqueue, files
    <3> HIDE DEF ag
    <3> QED BY <1>0, <3>1, <3>2, <3>3, EnqueueKeepsFiles
  <2>2. CASE Return(p) /\ UNCHANGED <<disk, lock>> /\ agent[p].pc # "writing"
    BY <1>0, <1>1, <2>0, <2>2 DEF Return, Idle
  <2>3. CASE Goto(p, "dropping") /\ UNCHANGED <<disk, lock>> /\ agent[p].pc # "writing"
    BY <1>0, <1>1, <2>0, <2>3 DEF Goto, AgentState
  <2>4. CASE PanelDeleteLocked(p)
    <3>1. lock = Free /\ UNCHANGED <<rows, files>> /\ disk' = disk /\ agent[p].pc # "writing"
      BY <2>4 DEF PanelDeleteLocked, files
    <3>2. CASE /\ Loads({"chunks", "metadata"}) /\ Keep(agent[p].doc) = {}
               /\ StartWriting(p, NoFiles, <<"chunks", "metadata", "embeddings">>, "unlink")
      <4>1. disk["metadata"] # Torn
        BY <3>2 DEF Loads
      <4>2. \E todo : StartWriting(p, NoFiles, todo, "unlink")
        BY <3>2
      <4> QED BY <3>1, <3>2, <4>1, <4>2 DEF Starts
    <3>3. CASE /\ Loads({"chunks", "metadata"})
               /\ StartWriting(p, Without(agent[p].doc), <<"embeddings", "chunks", "metadata">>, "inplace")
      <4>1. disk["metadata"] # Torn
        BY <3>3 DEF Loads
      <4>2. \E todo : \/ StartWriting(p, Without(agent[p].doc), todo, "inplace")
                     \/ StartWriting(p, Without(agent[p].doc), todo, "replace")
        BY <3>3
      <4> QED BY <3>1, <4>1, <4>2 DEF Starts
    <3> QED BY <2>2, <2>3, <2>4, <3>1, <3>2, <3>3 DEF PanelDeleteLocked
  <2>5. CASE AdminDeleteLocked(p)
    <3>1. lock = Free /\ UNCHANGED <<rows, files>> /\ disk' = disk /\ agent[p].pc # "writing"
      BY <2>5 DEF AdminDeleteLocked, files
    <3>2. CASE /\ Loads(Artifacts)
               /\ StartWriting(p, Without(agent[p].doc), <<"chunks", "metadata", "embeddings">>, "replace")
      <4>1. disk["metadata"] # Torn
        BY <3>2 DEF Loads, Artifacts
      <4>2. \E todo : \/ StartWriting(p, Without(agent[p].doc), todo, "inplace")
                     \/ StartWriting(p, Without(agent[p].doc), todo, "replace")
        BY <3>2
      <4> QED BY <3>1, <4>1, <4>2 DEF Starts
    <3> QED BY <2>2, <2>3, <2>5, <3>1, <3>2 DEF AdminDeleteLocked
  <2>6. CASE DeleteTimeout(p)
    BY <2>2, <2>6 DEF DeleteTimeout, files
  <2>7. CASE FinishDelete(p)
    BY <2>2, <2>7 DEF FinishDelete, files
  <2> QED BY <1>5, <1>6, <2>0, <2>1, <2>4, <2>5, <2>6, <2>7 DEF RequestStep, AdminSave
<1> QED BY <1>2, <1>3, <1>4, <1>5 DEF Next, Agents

-----------------------------------------------------------------------------

\* The corpus changes by one document, or not at all.
Change(C, N) ==
    \/ N = C
    \/ \E d \in Docs : N = Minus(C, d) \/ \E c \in Contents : N = Minus(C, d) \cup {<<d, c>>}

\* What an agent is writing is one such change of what is committed, and is
\* none once it is committed itself.
PlansChange ==
    \A p \in Agents : agent[p].pc = "writing" =>
        Change(Committed, Pairs(Content(agent[p].new["metadata"])))

LEMMA CommittedIs ==
    ASSUME TypeOK
    PROVE  /\ lock = Free => Committed = Pairs(Read("embeddings"))
           /\ \A p \in Agents : lock = p =>
                Committed = Pairs(Read(IF agent[p].kind = "inplace" THEN "metadata" ELSE "embeddings"))
BY ConstantsAssumption DEF Committed, Pairs, Agents

\* What the metadata hold.
Meta == Pairs(Read("metadata"))

\* What an agent plans is the metadata without its document, or with a new
\* text of it if it indexes.
LEMMA StartPlans ==
    ASSUME TypeInv, AlignInv, NEW p \in Agents, Starts(p)
    PROVE  LET d == agent[p].doc IN
           \E new, todo, kind :
              /\ StartWriting(p, new, todo, kind)
              /\ \/ /\ p \in Workers /\ kind = "index"
                    /\ d \in Docs /\ agent[p].text \in Contents
                    /\ Pairs(Content(new["metadata"])) = Minus(Meta, d) \cup {<<d, agent[p].text>>}
                 \/ /\ p \in Requests /\ kind # "index"
                    /\ Pairs(Content(new["metadata"])) = Minus(Meta, d)
<1> DEFINE d == agent[p].doc
           meta == Read("metadata")
<1>0. TypeOK /\ lock = Free /\ disk["metadata"] # Torn /\ Aligned /\ "metadata" \in Artifacts
  BY DEF TypeInv, AlignInv, Starts, Artifacts
<1>1. CASE p \in Workers /\ agent[p].pc = "checked"
           /\ \E todo : StartWriting(p, Rebuilt(d, agent[p].text), todo, "index")
  <2> DEFINE c == agent[p].text
             new == Rebuilt(d, c)
  <2>1. d \in Docs /\ c \in Contents
    BY <1>1 DEF TypeInv, TextKnown
  <2>2. Pairs(new["metadata"]) = Minus(Meta, d) \cup {<<d, c>>} /\ new["metadata"] \in Seq(Entry)
    BY <1>0, <2>1, RebuiltPairs, RebuiltEntries DEF Meta
  <2>3. Content(new["metadata"]) = new["metadata"]
    BY <2>2, FilesAssumption DEF Content
  <2> HIDE DEF new
  <2>4. \E todo : StartWriting(p, new, todo, "index")
    BY <1>1 DEF new
  <2> QED BY <1>1, <2>1, <2>2, <2>3, <2>4
<1>2. CASE p \in Requests /\ Keep(d) = {} /\ \E todo : StartWriting(p, NoFiles, todo, "unlink")
  <2>1. Content(NoFiles["metadata"]) = <<>> /\ Pairs(<<>>) = {}
    BY <1>0 DEF NoFiles, Content, Pairs
  <2>2. \A i \in DOMAIN meta : meta[i].doc = d
    BY <1>2 DEF Keep
  <2>3. Minus(Meta, d) = {}
    BY <2>2 DEF Minus, Pairs, Meta
  <2> QED BY <1>2, <2>1, <2>3
<1>3. CASE /\ p \in Requests
           /\ \E todo : \/ StartWriting(p, Without(d), todo, "inplace")
                        \/ StartWriting(p, Without(d), todo, "replace")
  <2> DEFINE new == Without(d)
  <2>1. new["metadata"] \in Seq(Entry) /\ Pairs(new["metadata"]) = Minus(Meta, d)
    BY <1>0, WithoutPairs DEF Meta
  <2>2. Content(new["metadata"]) = new["metadata"]
    BY <2>1, FilesAssumption DEF Content
  <2> HIDE DEF new
  <2>3. PICK todo, kind : StartWriting(p, new, todo, kind) /\ kind # "index"
    BY <1>3 DEF new
  <2> QED BY <1>3, <2>1, <2>2, <2>3
<1> QED BY <1>1, <1>2, <1>3 DEF Starts

LEMMA StartChanges ==
    ASSUME TypeInv, AlignInv, NEW p \in Agents, Starts(p)
    PROVE  Committed' = Committed /\ PlansChange'
<1> DEFINE d == agent[p].doc
<1>0. /\ TypeOK /\ agent \in [Agents -> AgentState] /\ agent[p] \in AgentState
      /\ lock = Free /\ disk' = disk /\ disk["metadata"] # Torn /\ Aligned
  BY DEF TypeInv, TypeOK, AlignInv, Starts, files
<1>1. PICK new, todo, kind :
        /\ StartWriting(p, new, todo, kind)
        /\ \/ /\ d \in Docs
              /\ \E c \in Contents :
                   Pairs(Content(new["metadata"])) = Minus(Meta, d) \cup {<<d, c>>}
           \/ Pairs(Content(new["metadata"])) = Minus(Meta, d)
  BY StartPlans
<1>2. Read("embeddings") = Read("metadata") /\ Read("metadata") \in Seq(Entry)
  <2>1. disk["embeddings"] = disk["metadata"] /\ "metadata" \in Artifacts
    BY <1>0 DEF Aligned, Artifacts
  <2> QED BY <1>0, <2>1, ReadType DEF Read
<1>3. Committed = Meta
  BY <1>0, <1>2, CommittedIs DEF Meta
<1>4. Committed' = Meta
  <2>1. Read("metadata")' = Read("metadata") /\ Read("embeddings")' = Read("metadata")
    BY <1>0, <1>2 DEF Read
  <2>2. Committed' = Pairs(Read("metadata"))' \/ Committed' = Pairs(Read("embeddings"))'
    BY DEF Committed, Pairs
  <2> QED BY <2>1, <2>2 DEF Pairs, Meta
<1>5. Change(Meta, Pairs(Content(new["metadata"])))
  <2>1. d \in Docs \/ Minus(Meta, d) = Meta
    <3>1. d \in Docs \/ d = NoDoc
      BY <1>0 DEF AgentState
    <3>2. \A e \in Meta : e[1] \in Docs
      <4>1. \A i \in DOMAIN Read("metadata") : Read("metadata")[i] \in Entry
        BY <1>2
      <4> QED BY <4>1 DEF Pairs, Entry, Meta
    <3> QED BY <3>1, <3>2, ConstantsAssumption DEF Minus
  <2> HIDE DEF d
  <2> QED BY <1>1, <2>1 DEF Change
<1>6. /\ agent'[p].new = new
      /\ \A q \in Agents \ {p} : agent'[q] = agent[q] /\ agent[q].pc # "writing"
  <2>1. agent'[p].new = new /\ \A q \in Agents \ {p} : agent'[q] = agent[q]
    BY <1>0, <1>1 DEF StartWriting, AgentState
  <2>2. \A q \in Agents : agent[q].pc # "writing"
    BY <1>0, ConstantsAssumption DEF AlignInv, WriterHoldsLock, Agents
  <2> QED BY <2>1, <2>2
<1> QED BY <1>3, <1>4, <1>5, <1>6 DEF PlansChange

LEMMA KeptChanges ==
    ASSUME TypeInv, AlignInv, PlansChange, FilesKept
    PROVE  Committed' = Committed /\ PlansChange'
<1>1. \A a : Read(a)' = Read(a)
  BY DEF FilesKept, Read
<1>2. lock # Free => lock \in Agents /\ agent'[lock].kind = agent[lock].kind
  BY DEF TypeInv, TypeOK, AlignInv, WriterHoldsLock, FilesKept, SamePlace
<1>3. Committed' = Committed
  BY <1>1, <1>2 DEF Committed, FilesKept
<1> QED BY <1>3 DEF PlansChange, FilesKept, SamePlace

LEMMA WriteChanges ==
    ASSUME TypeInv, AlignInv, PlansChange, NEW p \in Agents, WriteNext(p)
    PROVE  Change(Committed, Committed') /\ PlansChange'
<1> DEFINE a == Head(agent[p].todo)
           new == agent[p].new
           N == Pairs(Content(new["metadata"]))
<1>0. /\ TypeOK /\ agent \in [Agents -> AgentState] /\ agent[p] \in AgentState
      /\ agent[p].pc = "writing" /\ lock = p /\ lock' = p
      /\ \A q \in Agents \ {p} : agent[q].pc # "writing" /\ agent'[q] = agent[q]
  BY ConstantsAssumption DEF TypeInv, TypeOK, AlignInv, WriterHoldsLock, WriteNext
<1>1. agent'[p].kind = agent[p].kind /\ agent'[p].new = new
  BY <1>0 DEF WriteNext, AgentState
<1>2. PICK last \in {"metadata", "embeddings"} :
        last = IF agent[p].kind = "inplace" THEN "metadata" ELSE "embeddings"
  OBVIOUS
<1>3. disk'[last] = IF last = a THEN new[last] ELSE disk[last]
  BY <1>0, <1>2 DEF WriteNext, TypeOK, Artifacts
<1>4. new[last] = new["metadata"]
  BY <1>0, <1>2 DEF Artifacts, AlignInv, WritesAligned
<1>5. Committed = Pairs(Read(last))
  BY <1>0, <1>2, CommittedIs
<1>6. Committed' = Pairs(Read(last))'
  <2>1. lock' # Free /\ agent'[lock'].kind = agent[p].kind
    BY <1>0, <1>1, ConstantsAssumption DEF Agents
  <2> QED BY <1>2, <2>1 DEF Committed, Pairs
<1>7. Change(Committed, N)
  BY <1>0 DEF PlansChange
<1>8. Committed' = Committed \/ Committed' = N
  <2>1. CASE last = a
    <3>1. Read(last)' = Content(new["metadata"])
      BY <1>3, <1>4, <2>1 DEF Read, Content
    <3> QED BY <1>6, <3>1 DEF Pairs
  <2>2. CASE last # a
    <3>1. Read(last)' = Read(last)
      BY <1>3, <2>2 DEF Read
    <3> QED BY <1>5, <1>6, <3>1 DEF Pairs
  <2> QED BY <2>1, <2>2
<1>9. Change(Committed, Committed') /\ Change(Committed', N)
  <2> HIDE DEF N
  <2> QED BY <1>7, <1>8 DEF Change
<1>10. N' = N
  BY <1>1 DEF Pairs, Content
<1>11. PlansChange'
  BY <1>0, <1>1, <1>9 DEF PlansChange
<1> QED BY <1>9, <1>11

LEMMA UnlockChanges ==
    ASSUME TypeInv, TypeOK', AlignInv, PlansChange, NEW p \in Agents, Unlock(p)
    PROVE  Committed' = Committed /\ PlansChange'
<1>0. /\ TypeOK /\ agent \in [Agents -> AgentState] /\ agent[p].todo = <<>>
      /\ agent[p].pc = "writing" /\ lock = p /\ lock' = Free /\ disk' = disk
  BY ConstantsAssumption DEF TypeInv, TypeOK, AlignInv, WriterHoldsLock, Unlock, files
<1>1. \A b \in Artifacts : disk[b] = disk["metadata"]
  <2>1. Pending(p) = {}
    BY <1>0 DEF Pending
  <2> QED BY <1>0, <2>1 DEF AlignInv, WritesAligned, Artifacts
<1>2. Read("embeddings") = Read("metadata") /\ Read("embeddings")' = Read("embeddings")
  BY <1>0, <1>1 DEF Read, Artifacts
<1>3. Committed = Pairs(Read("embeddings"))
  <2>1. Committed = Pairs(Read(IF agent[p].kind = "inplace" THEN "metadata" ELSE "embeddings"))
    BY <1>0, CommittedIs
  <2> QED BY <1>2, <2>1
<1>4. Committed' = Pairs(Read("embeddings"))'
  <2>1. TypeOK' => (lock = Free => Committed = Pairs(Read("embeddings")))'
    BY CommittedIs, PTL
  <2> QED BY <1>0, <2>1
<1>5. Committed' = Committed
  BY <1>2, <1>3, <1>4 DEF Pairs
<1>6. \A q \in Agents : agent'[q].pc # "writing"
  <2>1. AlignInv'
    BY AlignWrites DEF TypeInv
  <2> QED BY <1>0, <2>1, ConstantsAssumption DEF AlignInv, WriterHoldsLock, Agents
<1> QED BY <1>5, <1>6 DEF PlansChange

LEMMA StoreStep ==
    ASSUME TypeInv, AlignInv, PlansChange, [Next]_vars
    PROVE  [Store!Next]_Committed /\ PlansChange'
<1>1. TypeOK'
  BY TypeStep DEF TypeInv
<1>2. Change(Committed, Committed') /\ PlansChange'
  <2>1. CASE FilesKept
    BY <1>1, <2>1, KeptChanges DEF Change
  <2>2. ASSUME NEW p \in Agents, WriteNext(p) \/ Unlock(p) \/ Starts(p)
        PROVE  Change(Committed, Committed') /\ PlansChange'
    BY <1>1, <2>2, WriteChanges, UnlockChanges, StartChanges DEF Change
  <2> QED BY <2>1, <2>2, StepForms
<1>3. Change(Committed, Committed') => [Store!Next]_Committed
  BY DEF Change, Minus, Store!Next, Store!Index, Store!Remove, Store!Others
<1> QED BY <1>2, <1>3

LEMMA StoreInit == Init => Store!Init /\ PlansChange
<1> SUFFICES ASSUME Init PROVE Store!Init /\ PlansChange
  OBVIOUS
<1>1. Committed = {}
  <2>1. \A a \in {"metadata", "embeddings"} : Read(a) = <<>>
    BY DEF Init, NoFiles, Artifacts, Read
  <2> QED BY <2>1 DEF Committed
<1>2. \A p \in Agents : agent[p].pc # "writing"
  BY DEF Init, Idle
<1> QED BY <1>1, <1>2 DEF Store!Init, PlansChange

\* Three files written one by one, in two different orders and by any number
\* of processes, are seen from the last file of each write a knowledge base
\* that changes by one document at a time.
THEOREM CorpusIsStore == Spec => ImplementsStore
<1>1. Spec => []PlansChange
  BY StoreInit, StoreStep, TypeInvariant, AlignInvariant, PTL DEF Spec
<1>2. Spec => Store!Init /\ [][Store!Next]_Committed
  BY <1>1, StoreInit, StoreStep, TypeInvariant, AlignInvariant, PTL DEF Spec
<1> QED BY <1>2 DEF ImplementsStore, Store!Spec

-----------------------------------------------------------------------------

\* With one worker: the text under way is that of no other row.
OwnText ==
    \A w \in Workers : agent[w].pc \in {"checked", "writing", "saving"} =>
        /\ agent[w].text \in Contents
        /\ \A e \in Docs \ (undone \cup {agent[w].doc}) : hash[e] # agent[w].text

\* A step that brings no hash, but to the rows with old values.
NoNewHash ==
    /\ undone \subseteq undone'
    /\ \A d \in Docs \ undone' : hash'[d] = hash[d] \/ hash'[d] = NoHash

LEMMA HashSame ==
    ASSUME TypeOK, undone' = undone, hash' = hash \/ \E d : hash' = [hash EXCEPT ![d] = NoHash]
    PROVE  NoNewHash
BY DEF TypeOK, NoNewHash

\* Steps that bring no new hash, and no worker further.
LEMMA OwnTextKept ==
    ASSUME TypeOK, OwnText, HashUnique,
           NoNewHash,
           \A w \in Workers : agent'[w].pc \in {"checked", "writing", "saving"} =>
                /\ agent[w].pc \in {"checked", "writing", "saving"}
                /\ agent'[w].doc = agent[w].doc /\ agent'[w].text = agent[w].text
    PROVE  OwnText' /\ HashUnique'
BY ConstantsAssumption DEF NoNewHash, OwnText, HashUnique

LEMMA OwnTextEnqueue ==
    ASSUME TypeOK, NEW ds, NEW ag \in [Agents -> AgentState], Enqueue(ds, ag),
           \A w \in Workers : ag[w] = agent[w]
    PROVE  \A w \in Workers : /\ agent'[w].pc = agent[w].pc /\ agent'[w].doc = agent[w].doc
                              /\ agent'[w].text = agent[w].text
<1>0. Workers \subseteq Agents
  BY DEF Agents
<1>1. CASE agent' = ag
  BY <1>1
<1>2. ASSUME NEW v \in Workers, NEW ids, agent' = [ag EXCEPT ![v].list = ids]
      PROVE  \A w \in Workers : /\ agent'[w].pc = agent[w].pc /\ agent'[w].doc = agent[w].doc
                                /\ agent'[w].text = agent[w].text
  BY <1>0, <1>2 DEF AgentState
<1> QED BY <1>1, <1>2 DEF Enqueue

\* Requests and what operators ask for leave the workers where they are, and
\* bring no hash.
WorkersSame ==
    \A w \in Workers : /\ agent'[w].pc = agent[w].pc /\ agent'[w].doc = agent[w].doc
                       /\ agent'[w].text = agent[w].text

LEMMA RequestsSame ==
    ASSUME TypeInv, Environment \/ \E p \in Requests : RequestStep(p)
    PROVE  WorkersSame /\ NoNewHash
<1>0. /\ TypeOK /\ agent \in [Agents -> AgentState] /\ Workers \subseteq Agents
      /\ \A p \in Requests : p \in Agents /\ p \notin Workers
  BY ConstantsAssumption DEF TypeInv, TypeOK, Agents
<1>1. ASSUME NEW p \in Agents, NEW list \in SUBSET Docs, SaveRow(p, list)
      PROVE  WorkersSame /\ NoNewHash
  BY <1>0, <1>1, SaveRowType DEF WorkersSame, NoNewHash, SamePlace
<1>2. ASSUME NEW p \in Requests, \A q \in Agents \ {p} : agent'[q] = agent[q] PROVE WorkersSame
  BY <1>0, <1>2 DEF WorkersSame
<1>3. ASSUME NEW p \in Requests, NEW d, NEW how, RequestDelete(p, d, how)
      PROVE  WorkersSame /\ NoNewHash
  BY <1>0, <1>2, <1>3, HashSame DEF RequestDelete, rows
<1>4. ASSUME NEW p \in Requests, NEW d \in Docs,
             PanelReprocess(p, d) \/ \E c \in Contents : PanelUpload(p, d, c)
      PROVE  WorkersSame /\ NoNewHash
  BY <1>0, <1>2, <1>4, HashSame DEF PanelUpload, PanelReprocess
<1>5. ASSUME NEW ds \in SUBSET Docs, AdminEnqueue(ds) PROVE WorkersSame /\ NoNewHash
  BY <1>0, <1>5, OwnTextEnqueue, HashSame DEF AdminEnqueue, WorkersSame
<1>6. ASSUME NEW d \in Docs, NEW c \in Contents, AdminAdd(d, c) PROVE WorkersSame /\ NoNewHash
  BY <1>0, <1>6, HashSame DEF AdminAdd, WorkersSame
<1>7. ASSUME NEW p \in Agents, NEW d \in Docs, NEW c \in Contents,
             LoadForm(p, d, c) \/ LoadPage(p, d, c)
      PROVE  WorkersSame /\ NoNewHash
  BY <1>0, <1>7, LoadSame, HashSame DEF rows, WorkersSame, SamePlace
<1>8. ASSUME NEW p \in Requests, RequestStep(p) PROVE WorkersSame /\ NoNewHash
  <2>1. CASE PanelEnqueue(p)
    <3> DEFINE ag == [agent EXCEPT ![p] = Idle({})]
    <3>1. ag \in [Agents -> AgentState] /\ \A w \in Workers : ag[w] = agent[w]
      BY <1>0, IdleType
    <3>2. Enqueue({agent[p].doc}, ag) /\ hash' = hash /\ undone' = undone
      BY <2>1 DEF PanelEnqueue
    <3> HIDE DEF ag
    <3> QED BY <1>0, <3>1, <3>2, OwnTextEnqueue, HashSame DEF WorkersSame
  <2>2. CASE PanelDeleteLocked(p) \/ AdminDeleteLocked(p) \/ DeleteTimeout(p)
    <3>1. hash' = hash /\ undone' = undone
      BY <2>2 DEF PanelDeleteLocked, AdminDeleteLocked, DeleteTimeout, rows
    <3>2. \A q \in Agents \ {p} : agent'[q] = agent[q]
      BY <1>0, <2>2 DEF PanelDeleteLocked, AdminDeleteLocked, DeleteTimeout, Return, Goto, StartWriting
    <3> QED BY <1>0, <1>2, <3>1, <3>2, HashSame
  <2>3. CASE WriteNext(p) \/ Unlock(p) \/ FinishDelete(p)
    <3>1. NoNewHash
      BY <1>0, <2>3, HashSame DEF WriteNext, Unlock, FinishDelete, DropRow, rows
    <3>2. \A q \in Agents \ {p} : agent'[q] = agent[q]
      BY <1>0, <2>3 DEF WriteNext, Unlock, FinishDelete, Return, Goto
    <3> QED BY <1>2, <3>1, <3>2
  <2> QED BY <1>0, <1>1, <1>8, <2>1, <2>2, <2>3 DEF RequestStep, AdminSave
<1>9. CASE Environment
  <2>1. ASSUME NEW p \in Requests, NEW d \in Docs, NEW how \in {"panelDelete", "adminDelete"},
               RequestDelete(p, d, how)
        PROVE  WorkersSame /\ NoNewHash
    BY <1>3, <2>1
  <2> QED BY <1>0, <1>4, <1>5, <1>6, <1>7, <1>9, <2>1 DEF Environment
<1> QED BY <1>8, <1>9

LEMMA OwnTextWorker ==
    ASSUME TypeInv, OwnText, HashUnique, NEW w \in Workers, Workers = {w}, WorkerStep(w)
    PROVE  OwnText' /\ HashUnique'
<1>0. TypeOK /\ agent \in [Agents -> AgentState] /\ w \in Agents /\ hash \in [Docs -> Contents \cup {NoHash}]
  BY DEF TypeInv, TypeOK, Agents
<1>1. CASE Poll(w)
  BY <1>0, <1>1, HashSame, OwnTextKept DEF Poll, rows, AgentState
<1>9. CASE CrawlSave(w)
  <2>1. agent[w].row.doc \in Docs
    BY <1>0, <1>9 DEF CrawlSave, SaveRow, AgentState, Loaded
  <2>2. NoNewHash /\ SamePlace(w)
    BY <1>0, <1>9, <2>1, SaveRowType DEF CrawlSave, NoNewHash
  <2> QED BY <1>0, <2>2, OwnTextKept DEF SamePlace
<1>2. ASSUME NEW d \in Docs, Begin(w, d) PROVE OwnText' /\ HashUnique'
  <2>1. hash' = hash /\ undone' = undone /\ agent'[w].pc \in {"idle", "loaded"}
    BY <1>0, <1>2 DEF Begin, AgentState
  <2> QED BY <1>0, <2>1, HashSame, OwnTextKept
<1>3. CASE CheckDuplicate(w)
  <2>1. /\ hash' = hash /\ undone' = undone
        /\ agent'[w].doc = agent[w].doc /\ agent'[w].text = agent[w].text
        /\ \/ agent'[w].pc = "failing"
           \/ agent'[w].pc = "checked" /\ \A e \in Docs \ {agent[w].doc} : hash[e] # agent[w].text
    BY <1>0, <1>3 DEF CheckDuplicate, Goto, rows, AgentState
  <2>2. agent[w].text \in Contents
    BY <1>0, <1>3 DEF CheckDuplicate, TypeInv, TextKnown
  <2> QED BY <2>1, <2>2 DEF OwnText, HashUnique
<1>4. CASE IndexFails(w)
  <2>1. hash' = hash /\ undone' = undone /\ agent'[w].pc = "failing"
    BY <1>0, <1>4 DEF IndexFails, Goto, rows, AgentState
  <2> QED BY <1>0, <2>1, HashSame, OwnTextKept
<1>5. CASE IndexLocked(w) \/ WriteNext(w)
  <2>1. /\ hash' = hash /\ undone' = undone
        /\ agent'[w].doc = agent[w].doc /\ agent'[w].text = agent[w].text
        /\ agent[w].pc \in {"checked", "writing"}
    BY <1>0, <1>5 DEF IndexLocked, WriteNext, StartWriting, Goto, rows, AgentState
  <2> QED BY <1>0, <2>1, HashSame, OwnTextKept
<1>6. CASE Unlock(w)
  <2>1. NoNewHash
    BY <1>0, <1>6, HashSame DEF Unlock, DropRow
  <2>2. agent[w].pc = "writing"
    BY <1>6 DEF Unlock
  <2>3. \/ agent'[w].pc = "idle"
        \/ agent'[w].doc = agent[w].doc /\ agent'[w].text = agent[w].text
    BY <1>0, <1>6 DEF Unlock, Return, Idle, Goto, AgentState
  <2> QED BY <1>0, <2>1, <2>2, <2>3, OwnTextKept
<1>7. CASE SaveReady(w)
  <2>1. agent'[w].pc = "idle" /\ agent[w].pc = "saving" /\ undone' = undone
    BY <1>0, <1>7 DEF SaveReady, Return, Idle
  <2>2. CASE hash' = hash
    BY <1>0, <2>1, <2>2, HashSame, OwnTextKept
  <2>3. CASE hash' = [hash EXCEPT ![agent[w].doc] = agent[w].text]
    <3>1. \A e \in Docs : hash'[e] = IF e = agent[w].doc THEN agent[w].text ELSE hash[e]
      BY <1>0, <2>3
    <3>2. HashUnique'
      BY <2>1, <3>1 DEF OwnText, HashUnique
    <3> QED BY <2>1, <3>2 DEF OwnText
  <2> QED BY <1>7, <2>2, <2>3 DEF SaveReady
<1>8. CASE SaveFailed(w)
  <2>1. hash' = hash /\ undone' = undone /\ agent'[w].pc = "idle"
    BY <1>0, <1>8 DEF SaveFailed, Return, Idle
  <2> QED BY <1>0, <2>1, HashSame, OwnTextKept
<1> QED BY <1>9, <1>1, <1>2, <1>3, <1>4, <1>5, <1>6, <1>7, <1>8 DEF WorkerStep

LEMMA OwnTextStep ==
    ASSUME NEW w \in Workers, Workers = {w}, TypeInv, OwnText, HashUnique, [Next]_vars
    PROVE  OwnText' /\ HashUnique'
<1>1. CASE UNCHANGED vars
  BY <1>1 DEF vars, rows, OwnText, HashUnique
<1>2. CASE Environment \/ \E p \in Requests : RequestStep(p)
  BY <1>2, RequestsSame, OwnTextKept DEF WorkersSame, TypeInv
<1>3. CASE WorkerStep(w)
  BY <1>3, OwnTextWorker
<1> QED BY <1>1, <1>2, <1>3 DEF Next

LEMMA OwnTextInit == Init => OwnText /\ HashUnique
BY DEF Init, Idle, OwnText, HashUnique, Agents

\* In the container deployment, whose one worker loop runs, no text is in the
\* knowledge base twice, although the check for duplicates is made long before
\* the hash is saved, and however many rows are deleted or queued meanwhile
\* (but for those that somebody's save puts old values back in).
THEOREM OneWorkerHashUnique ==
    ASSUME NEW w \in Workers, Workers = {w}
    PROVE  Spec => []HashUnique
<1>1. TypeInv /\ OwnText /\ HashUnique /\ [Next]_vars => OwnText' /\ HashUnique'
  BY OwnTextStep
<1> QED BY <1>1, OwnTextInit, TypeInvariant, PTL DEF Spec

-----------------------------------------------------------------------------

\* Document d has a text in the corpus C.
Has(C, d) == \E e \in C : e[1] = d

\* Document d is indexed, or a delete that has its chunks in hand or has taken
\* them out will drop its row, or has.
Kept(d) ==
    \/ Has(Meta, d)
    \/ \E p \in Requests : agent[p].pc \in {"writing", "dropping"} /\ agent[p].doc = d
    \/ status[d] = "deleted"

\* What a writer will leave in the metadata has every other document that is
\* there, and its own if it indexes.
WritesKeep ==
    \A p \in Agents : agent[p].pc = "writing" =>
        LET N == Pairs(Content(agent[p].new["metadata"])) IN
        /\ \A d : d # agent[p].doc /\ Has(Meta, d) => Has(N, d)
        /\ p \in Workers => Has(N, agent[p].doc)
        /\ p \in Requests => agent[p].kind # "index"

ReadyInv ==
    /\ \A d \in Docs \ undone : status[d] = "ready" => Kept(d)
    /\ \A w \in Workers :
            agent[w].pc = "saving" /\ agent[w].doc \in Docs \ undone => Kept(agent[w].doc)
    /\ WritesKeep

\* What a step does to the rows and to whoever is about to save or drop one.
RowFacts ==
    /\ undone \subseteq undone'
    /\ \A d \in Docs \ undone' : status'[d] = "ready" =>
            \/ status[d] = "ready"
            \/ \E w \in Workers : agent[w].pc = "saving" /\ agent[w].doc = d
    /\ \A w \in Workers : agent'[w].pc = "saving" =>
            agent[w].pc = "saving" /\ agent'[w].doc = agent[w].doc
    /\ \A p \in Requests : agent[p].pc = "dropping" =>
            \/ agent'[p].pc = "dropping" /\ agent'[p].doc = agent[p].doc
            \/ agent[p].doc \in Docs => status'[agent[p].doc] = "deleted"

LEMMA RowFactsEnqueue ==
    ASSUME TypeOK, undone' = undone, NEW ds, NEW ag \in [Agents -> AgentState], Enqueue(ds, ag),
           \A w \in Workers : ag[w] = agent[w],
           \A p \in Requests : agent[p].pc = "dropping" => ag[p] = agent[p]
    PROVE  RowFacts
<1>0. Workers \subseteq Agents /\ \A p \in Requests : p \in Agents /\ p \notin Workers
  BY ConstantsAssumption DEF Agents
<1>1. \A d \in Docs : status'[d] = "queued" \/ status'[d] = status[d]
  BY DEF Enqueue
<1>2. CASE agent' = ag
  BY <1>1, <1>2 DEF RowFacts
<1>3. ASSUME NEW v \in Workers, NEW ids, agent' = [ag EXCEPT ![v].list = ids]
      PROVE  RowFacts
  <2>1. /\ \A w \in Workers : agent'[w].pc = agent[w].pc /\ agent'[w].doc = agent[w].doc
        /\ \A p \in Requests : agent'[p] = ag[p]
    BY <1>0, <1>3 DEF AgentState
  <2> QED BY <1>1, <2>1 DEF RowFacts
<1> QED BY <1>2, <1>3 DEF Enqueue

LEMMA RowForms ==
    ASSUME TypeInv, [Next]_vars
    PROVE  RowFacts \/ \E p \in Agents : WriteNext(p) \/ Unlock(p)
<1>0. /\ TypeOK /\ agent \in [Agents -> AgentState] /\ Workers \subseteq Agents
      /\ status \in [Docs -> {"absent", "uploaded", "queued", "processing",
                              "ready", "failed", "deleted"}]
      /\ \A p \in Requests : p \in Agents /\ p \notin Workers
  BY ConstantsAssumption DEF TypeInv, TypeOK, Agents
<1>1. ASSUME NEW p \in Agents, agent[p].pc # "dropping", agent'[p].pc # "saving",
             \A q \in Agents \ {p} : agent'[q] = agent[q], undone' = undone,
             \A d \in Docs : status'[d] = "ready" => status[d] = "ready"
      PROVE  RowFacts
  BY <1>0, <1>1 DEF RowFacts
<1>6. ASSUME NEW p \in Agents, NEW list \in SUBSET Docs, SaveRow(p, list) PROVE RowFacts
  BY <1>0, <1>6, SaveRowType DEF RowFacts, SamePlace
<1>2. CASE UNCHANGED vars
  BY <1>2 DEF vars, rows, RowFacts
<1>3. CASE Environment
  <2>1. ASSUME NEW p \in Requests, NEW d \in Docs, NEW how \in {"panelDelete", "adminDelete"},
               RequestDelete(p, d, how)
        PROVE  RowFacts
    <3>1. agent[p].pc = "idle" /\ agent'[p].pc = how /\ \A q \in Agents \ {p} : agent'[q] = agent[q]
      BY <1>0, <2>1 DEF RequestDelete, AtRest, Idle, AgentState
    <3>2. status' = status /\ undone' = undone
      BY <2>1 DEF RequestDelete, rows
    <3> QED BY <1>0, <1>1, <3>1, <3>2
  <2>2. ASSUME NEW p \in Requests, NEW d \in Docs,
               PanelReprocess(p, d) \/ \E c \in Contents : PanelUpload(p, d, c)
        PROVE  RowFacts
    <3>1. /\ agent[p].pc = "idle" /\ agent'[p].pc = "enqueue"
          /\ \A q \in Agents \ {p} : agent'[q] = agent[q]
      BY <1>0, <2>2 DEF PanelReprocess, PanelUpload, AtRest, Idle, AgentState
    <3>2. status' = [status EXCEPT ![d] = "queued"] /\ undone' = undone
      BY <2>2 DEF PanelReprocess, PanelUpload
    <3> QED BY <1>0, <1>1, <3>1, <3>2
  <2>3. ASSUME NEW ds \in SUBSET Docs, AdminEnqueue(ds) PROVE RowFacts
    BY <1>0, <2>3, RowFactsEnqueue DEF AdminEnqueue
  <2>4. ASSUME NEW d \in Docs, NEW c \in Contents, AdminAdd(d, c) PROVE RowFacts
    BY <1>0, <2>4 DEF AdminAdd, RowFacts
  <2>5. ASSUME NEW p \in Agents, NEW d \in Docs, NEW c \in Contents,
               LoadForm(p, d, c) \/ LoadPage(p, d, c)
        PROVE  RowFacts
    BY <1>0, <2>5, LoadSame DEF rows, RowFacts, SamePlace
  <2> QED BY <1>0, <1>3, <2>1, <2>2, <2>3, <2>4, <2>5 DEF Environment
<1>4. ASSUME NEW w \in Workers, WorkerStep(w) PROVE RowFacts \/ WriteNext(w) \/ Unlock(w)
  <2>0. w \in Agents
    BY <1>0
  <2>1. CASE Poll(w)
    BY <1>0, <1>1, <2>0, <2>1 DEF Poll, rows, AtRest, Idle, AgentState
  <2>2. ASSUME NEW d \in Docs, Begin(w, d) PROVE RowFacts
    <3>1. /\ agent[w].pc = "idle" /\ agent'[w].pc \in {"idle", "loaded"}
          /\ \A q \in Agents \ {w} : agent'[q] = agent[q]
      BY <1>0, <2>0, <2>2 DEF Begin, AgentState
    <3>2. undone' = undone /\ (status' = status \/ status' = [status EXCEPT ![d] = "processing"])
      BY <2>2 DEF Begin
    <3> QED BY <1>0, <1>1, <2>0, <3>1, <3>2
  <2>3. CASE CheckDuplicate(w) \/ IndexFails(w) \/ IndexLocked(w)
    <3>1. /\ agent[w].pc \in {"loaded", "checked"} /\ agent'[w].pc \in {"checked", "failing", "writing"}
          /\ \A q \in Agents \ {w} : agent'[q] = agent[q]
      BY <1>0, <2>0, <2>3 DEF CheckDuplicate, IndexFails, IndexLocked, Goto, StartWriting, AgentState
    <3>2. status' = status /\ undone' = undone
      BY <2>3 DEF CheckDuplicate, IndexFails, IndexLocked, rows
    <3> QED BY <1>0, <1>1, <2>0, <3>1, <3>2
  <2>4. CASE SaveReady(w)
    <3>1. agent'[w].pc = "idle" /\ agent[w].pc = "saving" /\ \A q \in Agents \ {w} : agent'[q] = agent[q]
      BY <1>0, <2>0, <2>4 DEF SaveReady, Return, Idle
    <3>2. undone' = undone /\ \A d \in Docs : status'[d] = status[d] \/ d = agent[w].doc
      BY <1>0, <2>4 DEF SaveReady
    <3> QED BY <1>0, <3>1, <3>2 DEF RowFacts
  <2>5. CASE SaveFailed(w)
    <3>1. agent'[w].pc = "idle" /\ agent[w].pc = "failing" /\ \A q \in Agents \ {w} : agent'[q] = agent[q]
      BY <1>0, <2>0, <2>5 DEF SaveFailed, Return, Idle
    <3>2. /\ undone' = undone
          /\ status' = status \/ status' = [status EXCEPT ![agent[w].doc] = "failed"]
      BY <2>5 DEF SaveFailed
    <3> QED BY <1>0, <1>1, <2>0, <3>1, <3>2
  <2>6. CASE CrawlSave(w)
    <3>1. agent[w].row.doc \in Docs
      BY <1>0, <2>0, <2>6 DEF CrawlSave, SaveRow, AgentState, Loaded
    <3> QED BY <1>6, <2>0, <2>6, <3>1 DEF CrawlSave
  <2> QED BY <1>4, <2>1, <2>2, <2>3, <2>4, <2>5, <2>6 DEF WorkerStep
<1>5. ASSUME NEW p \in Requests, RequestStep(p) PROVE RowFacts \/ WriteNext(p) \/ Unlock(p)
  <2>0. p \in Agents /\ p \notin Workers
    BY <1>0
  <2>1. CASE PanelEnqueue(p)
    <3> DEFINE ag == [agent EXCEPT ![p] = Idle({})]
    <3>1. ag \in [Agents -> AgentState] /\ \A w \in Workers : ag[w] = agent[w]
      BY <1>0, IdleType
    <3>2. \A q \in Requests : agent[q].pc = "dropping" => ag[q] = agent[q]
      BY <1>0, <2>1 DEF PanelEnqueue
    <3>3. Enqueue({agent[p].doc}, ag) /\ undone' = undone
      BY <2>1 DEF PanelEnqueue
    <3> HIDE DEF ag
    <3> QED BY <1>0, <3>1, <3>2, <3>3, RowFactsEnqueue
  <2>2. CASE PanelDeleteLocked(p) \/ AdminDeleteLocked(p) \/ DeleteTimeout(p)
    <3>1. /\ agent[p].pc \in {"panelDelete", "adminDelete"}
          /\ \A q \in Agents \ {p} : agent'[q] = agent[q]
      BY <1>0, <2>2 DEF PanelDeleteLocked, AdminDeleteLocked, DeleteTimeout, Return, Goto, StartWriting
    <3>2. status' = status /\ undone' = undone
      BY <2>2 DEF PanelDeleteLocked, AdminDeleteLocked, DeleteTimeout, rows
    <3> QED BY <1>0, <2>0, <3>1, <3>2 DEF RowFacts
  <2>3. CASE FinishDelete(p)
    <3>1. \A q \in Agents \ {p} : agent'[q] = agent[q]
      BY <1>0, <2>3 DEF FinishDelete, Return
    <3>2. status' = [status EXCEPT ![agent[p].doc] = "deleted"] /\ undone' = undone
      BY <2>3 DEF FinishDelete, DropRow
    <3>3. /\ \A d \in Docs : status'[d] = IF d = agent[p].doc THEN "deleted" ELSE status[d]
          /\ \A w \in Workers : agent'[w] = agent[w]
      BY <1>0, <2>0, <3>1, <3>2
    <3> QED BY <1>0, <3>1, <3>2, <3>3 DEF RowFacts
  <2> QED BY <1>5, <1>6, <2>0, <2>1, <2>2, <2>3 DEF RequestStep, AdminSave
<1> QED BY <1>2, <1>3, <1>4, <1>5 DEF Next, Agents

\* A row without old values that was deleted stays deleted.
LEMMA DeletedKept ==
    ASSUME TypeInv, [Next]_vars, NEW d \in Docs \ undone', status[d] = "deleted"
    PROVE  status'[d] = "deleted"
<1>1. ASSUME NEW p \in Agents, NEW list \in SUBSET Docs, SaveRow(p, list)
      PROVE  status'[d] = "deleted"
  BY <1>1, SaveRowType
<1>2. ASSUME NEW p \in Agents, SaveRow(p, {}) \/ SaveRow(p, {agent[p].row.doc})
      PROVE  status'[d] = "deleted"
  <2>1. agent[p].row.doc \in Docs
    BY <1>2 DEF SaveRow, TypeInv, TypeOK, AgentState, Loaded
  <2> QED BY <1>1, <1>2, <2>1
<1> QED BY <1>2, DeletedStays

LEMMA ReadyInit == Init => ReadyInv
BY DEF Init, Idle, ReadyInv, WritesKeep, Agents

\* What kept documents is still there after a step that leaves the metadata.
LEMMA ReadyFilesKept ==
    ASSUME TypeInv, ReadyInv, [Next]_vars, RowFacts, FilesKept
    PROVE  ReadyInv'
<1>0. Meta' = Meta /\ \A p \in Requests : p \in Agents
  BY DEF FilesKept, Meta, Pairs, Read, Agents
<1>1. ASSUME NEW d \in Docs \ undone', Kept(d) PROVE Kept(d)'
  <2>1. CASE Has(Meta, d)
    BY <1>0, <2>1 DEF Kept, Has
  <2>2. ASSUME NEW p \in Requests, agent[p].pc \in {"writing", "dropping"}, agent[p].doc = d
        PROVE  Kept(d)'
    <3>1. \/ agent'[p].pc \in {"writing", "dropping"} /\ agent'[p].doc = agent[p].doc
          \/ status'[d] = "deleted"
      BY <1>0, <2>2 DEF FilesKept, RowFacts, SamePlace
    <3> QED BY <2>2, <3>1 DEF Kept
  <2>3. CASE status[d] = "deleted"
    BY <2>3, DeletedKept DEF Kept
  <2> QED BY <1>1, <2>1, <2>2, <2>3 DEF Kept
<1>2. WritesKeep'
  BY <1>0 DEF ReadyInv, WritesKeep, FilesKept, SamePlace
<1>3. \A d \in Docs \ undone' : status'[d] = "ready" => Kept(d)'
  BY <1>1 DEF ReadyInv, RowFacts
<1>4. \A w \in Workers : agent'[w].pc = "saving" /\ agent'[w].doc \in Docs \ undone' => Kept(agent[w].doc)'
  BY <1>1 DEF ReadyInv, RowFacts
<1> QED BY <1>2, <1>3, <1>4 DEF ReadyInv

LEMMA ReadyStart ==
    ASSUME TypeInv, AlignInv, ReadyInv, NEW p \in Agents, Starts(p)
    PROVE  ReadyInv'
<1>0. /\ agent \in [Agents -> AgentState] /\ lock = Free
      /\ status' = status /\ undone' = undone /\ disk' = disk /\ \A q \in Requests : q \in Agents
  BY DEF TypeInv, TypeOK, Starts, rows, files, Agents
<1>1. Meta' = Meta
  BY <1>0 DEF Meta, Pairs, Read
<1>2. PICK new, todo, kind :
        /\ StartWriting(p, new, todo, kind)
        /\ \/ /\ p \in Workers /\ kind = "index"
              /\ \E c \in Contents :
                   Pairs(Content(new["metadata"])) = Minus(Meta, agent[p].doc) \cup {<<agent[p].doc, c>>}
           \/ /\ p \in Requests /\ kind # "index"
              /\ Pairs(Content(new["metadata"])) = Minus(Meta, agent[p].doc)
  BY StartPlans
<1>3. /\ agent'[p].pc = "writing" /\ agent'[p].doc = agent[p].doc
      /\ agent'[p].new = new /\ agent'[p].kind = kind
      /\ \A q \in Agents \ {p} : agent'[q] = agent[q]
  BY <1>0, <1>2 DEF StartWriting, AgentState
<1>4. ASSUME NEW d, Kept(d) PROVE Kept(d)'
  BY <1>0, <1>1, <1>3, <1>4 DEF Kept, Has
<1>5. WritesKeep'
  <2> SUFFICES ASSUME NEW q \in Agents, agent'[q].pc = "writing"
               PROVE  LET N == Pairs(Content(agent'[q].new["metadata"])) IN
                      /\ \A d : d # agent'[q].doc /\ Has(Meta, d) => Has(N, d)
                      /\ q \in Workers => Has(N, agent'[q].doc)
                      /\ q \in Requests => agent'[q].kind # "index"
    BY <1>1 DEF WritesKeep, Has, Pairs, Content
  <2>1. CASE q # p
    BY <1>3, <2>1 DEF ReadyInv, WritesKeep
  <2>2. CASE q = p
    <3> DEFINE N == Pairs(Content(new["metadata"]))
    <3>1. \A d : d # agent[p].doc /\ Has(Meta, d) => Has(N, d)
      BY <1>2 DEF Has, Minus
    <3>2. p \in Workers => Has(N, agent[p].doc)
      <4>1. ASSUME NEW c, N = Minus(Meta, agent[p].doc) \cup {<<agent[p].doc, c>>}
            PROVE  Has(N, agent[p].doc)
        <5>1. <<agent[p].doc, c>> \in N /\ <<agent[p].doc, c>>[1] = agent[p].doc
          BY <4>1
        <5> HIDE DEF N
        <5> QED BY <5>1 DEF Has
      <4>2. p \in Workers => \E c : N = Minus(Meta, agent[p].doc) \cup {<<agent[p].doc, c>>}
        BY <1>2, ConstantsAssumption
      <4> HIDE DEF N
      <4> QED BY <4>1, <4>2
    <3> HIDE DEF N
    <3>3. p \in Requests => kind # "index"
      BY <1>2, ConstantsAssumption
    <3> QED BY <1>3, <2>2, <3>1, <3>2, <3>3 DEF N
  <2> QED BY <2>1, <2>2
<1>6. \A w \in Workers : agent'[w].pc = "saving" => agent'[w] = agent[w]
  BY <1>3 DEF Agents
<1> QED BY <1>0, <1>4, <1>5, <1>6 DEF ReadyInv

LEMMA ReadyWrite ==
    ASSUME TypeInv, AlignInv, ReadyInv, NEW p \in Agents, WriteNext(p)
    PROVE  ReadyInv'
<1> DEFINE N == Pairs(Content(agent[p].new["metadata"]))
<1>0. /\ TypeOK /\ agent \in [Agents -> AgentState] /\ agent[p].pc = "writing" /\ lock = p
      /\ \A q \in Agents \ {p} : agent[q].pc # "writing" /\ agent'[q] = agent[q]
      /\ status' = status /\ undone' = undone /\ \A q \in Requests : q \in Agents
  BY DEF TypeInv, TypeOK, AlignInv, WriterHoldsLock, WriteNext, rows, Agents
<1>1. /\ agent'[p].pc = "writing" /\ agent'[p].doc = agent[p].doc
      /\ agent'[p].new = agent[p].new /\ agent'[p].kind = agent[p].kind
  BY <1>0 DEF WriteNext, AgentState
<1>2. Meta' = Meta \/ Meta' = N
  <2>1. disk'["metadata"] = disk["metadata"] \/ disk'["metadata"] = agent[p].new["metadata"]
    BY <1>0 DEF WriteNext, TypeOK, Artifacts
  <2>2. Read("metadata")' = Read("metadata") \/ Read("metadata")' = Content(agent[p].new["metadata"])
    BY <2>1 DEF Read, Content
  <2> QED BY <2>2 DEF Meta, Pairs
<1>3. /\ \A d : d # agent[p].doc /\ Has(Meta, d) => Has(N, d)
      /\ p \in Workers => Has(N, agent[p].doc)
      /\ p \in Requests => agent[p].kind # "index"
  BY <1>0 DEF ReadyInv, WritesKeep
<1>4. N' = N
  BY <1>1 DEF Pairs, Content
<1> HIDE DEF N
<1>5. ASSUME NEW d, Kept(d) PROVE Kept(d)'
  <2>1. CASE Has(Meta, d)
    <3>1. \/ Has(Meta, d)'
          \/ p \in Requests /\ agent[p].doc = d
      BY <1>2, <1>3, <2>1 DEF Has, Agents
    <3> QED BY <1>1, <3>1 DEF Kept
  <2>2. ASSUME NEW q \in Requests, agent[q].pc \in {"writing", "dropping"}, agent[q].doc = d
        PROVE  Kept(d)'
    BY <1>0, <1>1, <2>2 DEF Kept
  <2> QED BY <1>0, <1>5, <2>1, <2>2 DEF Kept
<1>6. WritesKeep'
  <2>1. \A d : d # agent[p].doc /\ Has(Meta, d)' => Has(N, d)
    BY <1>2, <1>3 DEF Has
  <2>2. \A q \in Agents : agent'[q].pc = "writing" => q = p
    BY <1>0
  <2>3. Pairs(Content(agent'[p].new["metadata"])) = N
    BY <1>1 DEF N
  <2>4. \A d : d # agent'[p].doc /\ Has(Meta', d) => Has(N, d)
    BY <1>1, <2>1 DEF Has
  <2> QED BY <1>1, <1>3, <2>2, <2>3, <2>4 DEF WritesKeep, Has, Pairs, Content
<1>7. \A w \in Workers : agent'[w].pc = "saving" => agent'[w] = agent[w]
  BY <1>0, <1>1 DEF Agents
<1> QED BY <1>0, <1>5, <1>6, <1>7 DEF ReadyInv

LEMMA ReadyUnlock ==
    ASSUME TypeInv, AlignInv, FlightInv, ReadyInv, NEW p \in Agents, Unlock(p)
    PROVE  ReadyInv'
<1> DEFINE N == Pairs(Content(agent[p].new["metadata"]))
<1>0. /\ TypeOK /\ agent \in [Agents -> AgentState] /\ agent[p].pc = "writing" /\ agent[p].todo = <<>>
      /\ lock = p /\ disk' = disk /\ undone' = undone
      /\ \A q \in Agents \ {p} : agent[q].pc # "writing" /\ agent'[q] = agent[q]
      /\ \A q \in Requests : q \in Agents /\ q \notin Workers
  BY ConstantsAssumption
     DEF TypeInv, TypeOK, AlignInv, WriterHoldsLock, Unlock, DropRow, Return, Goto, files, Agents
<1>1. Meta' = Meta /\ Meta = N
  <2>1. Pending(p) = {}
    BY <1>0 DEF Pending
  <2>2. disk["metadata"] = agent[p].new["metadata"]
    BY <1>0, <2>1 DEF AlignInv, WritesAligned, Artifacts
  <2> QED BY <1>0, <2>2 DEF Meta, Pairs, Read, Content
<1> HIDE DEF N
<1>2. CASE agent[p].kind = "unlink"
  <2>1. p \in Requests
    BY <1>2, <1>0 DEF FlightInv, WorkerForm, Agents
  <2>2. /\ agent'[p].pc = "idle"
        /\ \A d \in Docs : status'[d] = IF d = agent[p].doc THEN "deleted" ELSE status[d]
    BY <1>0, <1>2 DEF Unlock, DropRow, Return, Idle, TypeOK
  <2>3. ASSUME NEW d \in Docs, Kept(d) PROVE Kept(d)'
    <3>1. CASE Has(Meta, d)
      BY <1>1, <3>1 DEF Kept, Has
    <3>2. ASSUME NEW q \in Requests, agent[q].pc \in {"writing", "dropping"}, agent[q].doc = d
          PROVE  Kept(d)'
      BY <1>0, <2>2, <3>2 DEF Kept
    <3> QED BY <2>2, <2>3, <3>1, <3>2 DEF Kept
  <2>4. WritesKeep'
    BY <1>0, <2>2 DEF WritesKeep
  <2>5. \A w \in Workers : agent'[w] = agent[w]
    BY <1>0, <2>1 DEF Agents
  <2>6. \A d \in Docs : status'[d] = "ready" => status[d] = "ready"
    BY <2>2
  <2> QED BY <1>0, <2>3, <2>4, <2>5, <2>6 DEF ReadyInv
<1>3. CASE agent[p].kind # "unlink"
  <2>1. /\ status' = status /\ agent'[p].doc = agent[p].doc
        /\ agent'[p].pc = IF agent[p].kind = "index" THEN "saving" ELSE "dropping"
    BY <1>0, <1>3 DEF Unlock, Goto, AgentState
  <2>2. p \in Requests => agent'[p].pc = "dropping"
    BY <1>0, <2>1 DEF ReadyInv, WritesKeep
  <2>3. ASSUME NEW d \in Docs, Kept(d) PROVE Kept(d)'
    BY <1>0, <1>1, <2>1, <2>2, <2>3 DEF Kept, Has
  <2>4. WritesKeep'
    BY <1>0, <2>1 DEF WritesKeep
  <2>5. ASSUME NEW w \in Workers, NEW d \in Docs \ undone, agent'[w].pc = "saving", agent'[w].doc = d
        PROVE  Kept(d)'
    <3>1. CASE w = p
      <4>1. Has(N, d)
        BY <1>0, <2>1, <2>5, <3>1 DEF ReadyInv, WritesKeep, N
      <4> QED BY <1>1, <4>1 DEF Kept, Has
    <3>2. CASE w # p
      <4>1. agent'[w] = agent[w] /\ Kept(d)
        BY <1>0, <2>5, <3>2 DEF ReadyInv, Agents
      <4> QED BY <2>3, <4>1
    <3> QED BY <3>1, <3>2
  <2>6. \A w \in Workers : agent'[w].pc = "saving" /\ agent'[w].doc \in Docs \ undone => Kept(agent[w].doc)'
    BY <2>5 DEF Kept, Has
  <2> QED BY <1>0, <2>1, <2>3, <2>4, <2>6 DEF ReadyInv
<1> QED BY <1>2, <1>3

LEMMA ReadyStep ==
    ASSUME TypeInv, AlignInv, FlightInv, ReadyInv, [Next]_vars
    PROVE  ReadyInv'
<1>1. CASE \E p \in Agents : WriteNext(p) \/ Unlock(p) \/ Starts(p)
  BY <1>1, ReadyWrite, ReadyUnlock, ReadyStart
<1>2. CASE RowFacts /\ FilesKept
  BY <1>2, ReadyFilesKept
<1> QED BY <1>1, <1>2, StepForms, RowForms

\* A row shown "ready" has chunks in the corpus, although its status is saved
\* after the lock on the files is released and deletes run in between.
THEOREM ReadyIsIndexed == Spec => []ReadyIndexed
<1>1. Spec => []FlightInv
  BY FlightInit, FlightStep, TypeInvariant, PTL DEF Spec
<1>2. Spec => []ReadyInv
  BY <1>1, ReadyInit, ReadyStep, TypeInvariant, AlignInvariant, PTL DEF Spec
<1>3. TypeInv /\ AlignInv /\ ReadyInv => ReadyIndexed
  <2> SUFFICES ASSUME TypeInv, AlignInv, ReadyInv, lock = Free,
                      NEW d \in Docs \ undone, status[d] = "ready", Keep(d) = DOMAIN Read("metadata")
               PROVE  \E p \in Requests : agent[p].pc = "dropping" /\ agent[p].doc = d
    BY DEF ReadyIndexed
  <2>1. ~Has(Meta, d)
    BY DEF Has, Meta, Pairs, Keep
  <2>2. \A p \in Requests : agent[p].pc # "writing"
    BY ConstantsAssumption DEF AlignInv, WriterHoldsLock, Agents
  <2> QED BY <2>1, <2>2 DEF ReadyInv, Kept
<1> QED BY <1>2, <1>3, TypeInvariant, AlignInvariant, PTL

-----------------------------------------------------------------------------

\* The chunks of document d in the list s, and those of one run over text c.
Own(s, d) == {i \in DOMAIN s : s[i].doc = d}

Whole(s, d, c) ==
    /\ \A i \in Own(s, d) : s[i].text = c /\ s[i].part \in 1..Size[c]
    /\ \A i, j \in Own(s, d) : i < j => s[i].part < s[j].part
    /\ \A n \in 1..Size[c] : \E i \in Own(s, d) : s[i].part = n

Versions(s) == \A d \in Docs : Own(s, d) = {} \/ \E c \in Contents : Whole(s, d, c)

LEMMA WholePick ==
    ASSUME NEW s \in Seq(Entry), NEW d \in Docs, NEW c \in Contents, Whole(s, d, c)
    PROVE  Pick(s, Own(s, d)) = Fresh(d, c)
<1> DEFINE S == Own(s, d)
           e == [n \in 1..Size[c] |-> CHOOSE i \in S : s[i].part = n]
<1>1. Size[c] \in Nat
  BY ConstantsAssumption
<1>2. /\ S \in SUBSET Nat /\ IsFiniteSet(S)
      /\ \A i \in S : s[i] \in Entry /\ s[i].doc = d
  <2>1. Len(s) \in Nat /\ DOMAIN s = 1..Len(s)
    OBVIOUS
  <2>2. S \in SUBSET (1..Len(s)) /\ IsFiniteSet(1..Len(s))
    BY <2>1, FS_Interval DEF Own
  <2>3. IsFiniteSet(S)
    BY <2>2, FS_Subset
  <2> QED BY <2>2, <2>3 DEF Own
<1>3. /\ \A i \in S : s[i].text = c /\ s[i].part \in 1..Size[c]
      /\ \A i, j \in S : i < j => s[i].part < s[j].part
      /\ \A n \in 1..Size[c] : \E i \in S : s[i].part = n
  BY DEF Whole
<1> HIDE DEF S
<1>4. ASSUME NEW i \in S, NEW j \in S, s[i].part = s[j].part PROVE i = j
  <2>1. i \in Nat /\ j \in Nat /\ s[i].part \in Nat
    BY <1>1, <1>2, <1>3
  <2>2. ~(i < j) /\ ~(j < i)
    BY <1>3, <1>4, <2>1
  <2> QED BY <2>1, <2>2
<1>5. ASSUME NEW n \in 1..Size[c] PROVE e[n] \in S /\ s[e[n]].part = n
  BY <1>3
<1>6. e \in [1..Size[c] -> S]
  BY <1>5
<1> HIDE DEF e
<1>7. ASSUME NEW m \in 1..Size[c], NEW n \in 1..Size[c], m < n PROVE e[m] < e[n]
  <2>1. e[m] \in Nat /\ e[n] \in Nat /\ s[e[m]].part = m /\ s[e[n]].part = n
    BY <1>2, <1>5
  <2>2. e[m] # e[n] /\ ~(e[n] < e[m])
    BY <1>3, <1>5, <1>7, <2>1
  <2> QED BY <2>1, <2>2
<1>8. ASSUME NEW i \in S PROVE \E n \in 1..Size[c] : e[n] = i
  <2>1. s[i].part \in 1..Size[c] /\ e[s[i].part] \in S /\ s[e[s[i].part]].part = s[i].part
    BY <1>3, <1>5
  <2> QED BY <1>4, <2>1
<1>9. Cardinality(S) = Size[c] /\ \A n \in 1..Size[c] : Nth(S, n) = e[n]
  BY <1>1, <1>2, <1>6, <1>7, <1>8, NthInOrder
<1>10. ASSUME NEW n \in 1..Size[c] PROVE s[Nth(S, n)] = [doc |-> d, text |-> c, part |-> n]
  <2>1. s[e[n]] \in Entry /\ s[e[n]].doc = d /\ s[e[n]].text = c /\ s[e[n]].part = n
    BY <1>2, <1>3, <1>5
  <2> QED BY <1>9, <2>1 DEF Entry
<1>11. Pick(s, S) = Fresh(d, c)
  BY <1>9, <1>10 DEF Pick, Fresh
<1> QED BY <1>11 DEF S

\* Taking other documents' chunks out leaves a document whole.
LEMMA WholeKept ==
    ASSUME NEW s \in Seq(Entry), NEW K \in SUBSET DOMAIN s, NEW d, Own(s, d) \subseteq K
    PROVE  /\ Own(s, d) = {} => Own(Pick(s, K), d) = {}
           /\ \A c \in Contents : Whole(s, d, c) => Whole(Pick(s, K), d, c)
<1> DEFINE t == Pick(s, K)
<1>1. K \in SUBSET Nat /\ IsFiniteSet(K)
  <2>1. Len(s) \in Nat /\ K \in SUBSET (1..Len(s)) /\ IsFiniteSet(1..Len(s))
    BY FS_Interval
  <2>2. IsFiniteSet(K)
    BY <2>1, FS_Subset
  <2> QED BY <2>1, <2>2
<1>2. Cardinality(K) \in Nat
  BY <1>1, FS_CardinalityType
<1>3. DOMAIN t = 1..Cardinality(K) /\ \A n \in 1..Cardinality(K) : t[n] = s[Nth(K, n)]
  BY DEF Pick
<1>4. \A n \in 1..Cardinality(K) : Nth(K, n) \in K
  BY <1>1, NthExists
<1>5. \A m, n \in 1..Cardinality(K) : m < n => Nth(K, m) < Nth(K, n)
  BY <1>1, NthGrows
<1>6. \A i \in K : \E n \in 1..Cardinality(K) : Nth(K, n) = i
  BY <1>1, NthOfRank
<1> HIDE DEF t
<1>7. \A n \in Own(t, d) : n \in 1..Cardinality(K) /\ Nth(K, n) \in Own(s, d) /\ t[n] = s[Nth(K, n)]
  BY <1>3, <1>4 DEF Own
<1>8. \A i \in Own(s, d) : \E n \in Own(t, d) : Nth(K, n) = i
  BY <1>3, <1>6 DEF Own
<1>9. ASSUME NEW c \in Contents, Whole(s, d, c) PROVE Whole(t, d, c)
  <2>1. \A n \in Own(t, d) : t[n].text = c /\ t[n].part \in 1..Size[c]
    BY <1>7, <1>9 DEF Whole
  <2>2. \A m, n \in Own(t, d) : m < n => t[m].part < t[n].part
    BY <1>5, <1>7, <1>9 DEF Whole
  <2>3. ASSUME NEW n \in 1..Size[c] PROVE \E m \in Own(t, d) : t[m].part = n
    <3>1. PICK i \in Own(s, d) : s[i].part = n
      BY <1>9 DEF Whole
    <3>2. PICK m \in Own(t, d) : Nth(K, m) = i
      BY <1>8
    <3> QED BY <1>7, <3>1, <3>2
  <2> QED BY <2>1, <2>2, <2>3 DEF Whole
<1> QED BY <1>7, <1>9 DEF t

\* Appending chunks of another document does, too ...
LEMMA WholeJoined ==
    ASSUME NEW s \in Seq(Entry), NEW t \in Seq(Entry), NEW d, Own(t, d) = {}
    PROVE  /\ Own(s, d) = {} => Own(s \o t, d) = {}
           /\ \A c \in Contents : Whole(s, d, c) => Whole(s \o t, d, c)
<1>1. /\ Len(s) \in Nat /\ Len(t) \in Nat
      /\ DOMAIN s = 1..Len(s) /\ DOMAIN t = 1..Len(t) /\ DOMAIN (s \o t) = 1..(Len(s) + Len(t))
  OBVIOUS
<1>2. \A i \in DOMAIN s : i \in DOMAIN (s \o t) /\ (s \o t)[i] = s[i]
  BY <1>1
<1>3. \A i \in DOMAIN (s \o t) :
        i \in DOMAIN s \/ (i - Len(s) \in DOMAIN t /\ (s \o t)[i] = t[i - Len(s)])
  BY <1>1
<1>4. Own(s \o t, d) = Own(s, d) /\ \A i \in Own(s, d) : (s \o t)[i] = s[i]
  BY <1>2, <1>3 DEF Own
<1> QED BY <1>4 DEF Whole

\* ... and those of a run over a document that has no others make it whole.
LEMMA WholeAppended ==
    ASSUME NEW s \in Seq(Entry), NEW d \in Docs, NEW c \in Contents, Own(s, d) = {}
    PROVE  Whole(s \o Fresh(d, c), d, c)
<1> DEFINE t == Fresh(d, c)
           u == s \o t
<1>1. /\ t \in Seq(Entry) /\ Len(s) \in Nat /\ Size[c] \in Nat /\ Len(t) = Size[c]
      /\ \A k \in 1..Size[c] : t[k] = [doc |-> d, text |-> c, part |-> k]
  BY FreshType, ConstantsAssumption DEF Fresh
<1> HIDE DEF t
<1>2. /\ DOMAIN s = 1..Len(s) /\ DOMAIN u = 1..(Len(s) + Size[c])
      /\ \A i \in 1..Len(s) : u[i] = s[i]
      /\ \A i \in 1..Size[c] : u[Len(s) + i] = t[i]
  BY <1>1
<1> HIDE DEF u
<1>3. \A i \in DOMAIN u : i \in DOMAIN s \/ i - Len(s) \in 1..Size[c]
  BY <1>1, <1>2
<1>4. \A i \in Own(u, d) : /\ i \in Int /\ i - Len(s) \in 1..Size[c]
                           /\ u[i].text = c /\ u[i].part = i - Len(s)
  <2> SUFFICES ASSUME NEW i \in Own(u, d)
               PROVE  i \in Int /\ i - Len(s) \in 1..Size[c] /\ u[i].text = c /\ u[i].part = i - Len(s)
    OBVIOUS
  <2>1. i \in DOMAIN u /\ u[i].doc = d
    BY DEF Own
  <2>2. i \notin DOMAIN s
    BY <1>2, <2>1 DEF Own
  <2>3. i \in Int /\ i - Len(s) \in 1..Size[c] /\ Len(s) + (i - Len(s)) = i
    BY <1>1, <1>2, <1>3, <2>1, <2>2
  <2>4. PICK k \in 1..Size[c] : k = i - Len(s) /\ i = Len(s) + k
    BY <2>3
  <2>5. u[i] = [doc |-> d, text |-> c, part |-> k]
    BY <1>1, <1>2, <2>4
  <2> QED BY <2>3, <2>4, <2>5
<1>5. \A n \in 1..Size[c] : Len(s) + n \in Own(u, d) /\ u[Len(s) + n].part = n
  <2> SUFFICES ASSUME NEW n \in 1..Size[c]
               PROVE  Len(s) + n \in Own(u, d) /\ u[Len(s) + n].part = n
    OBVIOUS
  <2>1. Len(s) + n \in DOMAIN u /\ u[Len(s) + n] = [doc |-> d, text |-> c, part |-> n]
    BY <1>1, <1>2
  <2> QED BY <2>1 DEF Own
<1>6. \A i, j \in Own(u, d) : i < j => u[i].part < u[j].part
  BY <1>1, <1>4
<1>7. \A i \in Own(u, d) : u[i].text = c /\ u[i].part \in 1..Size[c]
  BY <1>4
<1>8. \A n \in 1..Size[c] : \E i \in Own(u, d) : u[i].part = n
  BY <1>5
<1> QED BY <1>6, <1>7, <1>8 DEF Whole, u, t

\* A corpus of whole documents stays one without one of them ...
LEMMA VersionsWithout ==
    ASSUME TypeOK, lock = Free, Aligned, disk["metadata"] # Torn,
           Versions(Read("metadata")), NEW e
    PROVE  /\ Versions(Without(e)["metadata"])
           /\ Own(Without(e)["metadata"], e) = {}
<1> DEFINE meta == Read("metadata")
           new == Pick(meta, Keep(e))
<1>1. /\ meta \in Seq(Entry) /\ Without(e)["metadata"] = new
      /\ Keep(e) = {i \in DOMAIN meta : meta[i].doc # e} /\ Versions(meta)
  BY ReadType DEF Without, Keep, Artifacts
<1>2. Own(new, e) = {}
  <2> HIDE DEF meta
  <2>1. Keep(e) \in SUBSET DOMAIN meta
    BY <1>1
  <2>2. \A x : (\E n \in DOMAIN new : new[n] = x) <=> \E i \in Keep(e) : meta[i] = x
    BY <1>1, <2>1, PickEntries
  <2> HIDE DEF new
  <2>3. \A n \in DOMAIN new : \E i \in Keep(e) : meta[i] = new[n]
    BY <2>2
  <2> QED BY <1>1, <2>3 DEF Own
<1> HIDE DEF meta
<1>3. ASSUME NEW d \in Docs PROVE Own(new, d) = {} \/ \E c \in Contents : Whole(new, d, c)
  <2>1. CASE d = e
    BY <1>2, <2>1
  <2>2. CASE d # e
    <3>1. Own(meta, d) \subseteq Keep(e) /\ Keep(e) \in SUBSET DOMAIN meta
      BY <1>1, <2>2 DEF Own
    <3>2. /\ Own(meta, d) = {} => Own(new, d) = {}
          /\ \A c \in Contents : Whole(meta, d, c) => Whole(new, d, c)
      BY <1>1, <3>1, WholeKept
    <3> HIDE DEF new
    <3> QED BY <1>1, <3>2 DEF Versions
  <2> QED BY <2>1, <2>2
<1> HIDE DEF new
<1> QED BY <1>1, <1>2, <1>3 DEF Versions

\* ... and with a new text of one.
LEMMA VersionsRebuilt ==
    ASSUME TypeOK, lock = Free, Aligned, disk["metadata"] # Torn,
           Versions(Read("metadata")), NEW d \in Docs, NEW c \in Contents
    PROVE  Versions(Rebuilt(d, c)["metadata"])
<1> DEFINE t == Fresh(d, c)
<1>1. PICK s \in Seq(Entry) :
        /\ Rebuilt(d, c)["metadata"] = s \o t
        /\ Versions(s) /\ Own(s, d) = {}
  <2>1. CASE disk["embeddings"] = Absent
    <3>1. t \in Seq(Entry) /\ Rebuilt(d, c)["metadata"] = t
      BY <2>1, FreshType DEF Rebuilt, Artifacts
    <3> HIDE DEF t
    <3>2. <<>> \in Seq(Entry) /\ <<>> \o t = t
      BY <3>1
    <3>3. Versions(<<>>) /\ Own(<<>>, d) = {}
      BY DEF Versions, Own
    <3> QED BY <3>1, <3>2, <3>3
  <2>2. CASE disk["embeddings"] # Absent
    <3>1. Rebuilt(d, c)["metadata"] = Without(d)["metadata"] \o t
      BY <2>2 DEF Rebuilt, Artifacts
    <3>2. Without(d)["metadata"] \in Seq(Entry)
      BY WithoutPairs DEF Artifacts
    <3> QED BY <3>1, <3>2, VersionsWithout
  <2> QED BY <2>1, <2>2
<1>2. t \in Seq(Entry) /\ \A i \in DOMAIN t : t[i].doc = d
  BY FreshType DEF Fresh
<1>3. Whole(s \o t, d, c)
  BY <1>1, WholeAppended
<1> HIDE DEF t
<1>4. ASSUME NEW e \in Docs, e # d PROVE Own(s \o t, e) = {} \/ \E b \in Contents : Whole(s \o t, e, b)
  <2>1. Own(t, e) = {}
    BY <1>2, <1>4 DEF Own
  <2>2. /\ Own(s, e) = {} => Own(s \o t, e) = {}
        /\ \A b \in Contents : Whole(s, e, b) => Whole(s \o t, e, b)
    BY <1>2, <2>1, WholeJoined
  <2>3. Own(s, e) = {} \/ \E b \in Contents : Whole(s, e, b)
    BY <1>1 DEF Versions
  <2> QED BY <2>2, <2>3
<1> QED BY <1>1, <1>3, <1>4 DEF Versions

\* The metadata, and those being written, are whole.
VersionInv ==
    /\ disk["metadata"] # Torn /\ Versions(Read("metadata"))
    /\ \A p \in Agents : agent[p].pc = "writing" => Versions(Content(agent[p].new["metadata"]))

LEMMA VersionStart ==
    ASSUME TypeInv, AlignInv, VersionInv, NEW p \in Agents, Starts(p)
    PROVE  VersionInv'
<1> DEFINE d == agent[p].doc
<1>0. /\ TypeOK /\ agent \in [Agents -> AgentState] /\ lock = Free /\ disk' = disk
      /\ disk["metadata"] # Torn /\ Aligned /\ "metadata" \in Artifacts
      /\ Versions(Read("metadata"))
  BY DEF TypeInv, TypeOK, AlignInv, VersionInv, Starts, files, Artifacts
<1>1. \E new, todo, kind : StartWriting(p, new, todo, kind) /\ Versions(Content(new["metadata"]))
  <2>1. CASE p \in Workers /\ agent[p].pc = "checked"
             /\ \E todo : StartWriting(p, Rebuilt(d, agent[p].text), todo, "index")
    <3> DEFINE new == Rebuilt(d, agent[p].text)
    <3>1. d \in Docs /\ agent[p].text \in Contents
      BY <2>1 DEF TypeInv, TextKnown
    <3>2. new["metadata"] \in Seq(Entry) /\ Versions(new["metadata"])
      BY <1>0, <3>1, RebuiltEntries, VersionsRebuilt
    <3>3. \E todo : StartWriting(p, new, todo, "index")
      BY <2>1
    <3> HIDE DEF new
    <3>4. Content(new["metadata"]) = new["metadata"]
      BY <3>2, FilesAssumption DEF Content
    <3> QED BY <3>2, <3>3, <3>4
  <2>2. CASE \E todo : StartWriting(p, NoFiles, todo, "unlink")
    <3>1. Content(NoFiles["metadata"]) = <<>> /\ Versions(<<>>)
      BY <1>0 DEF NoFiles, Content, Versions, Own
    <3> QED BY <2>2, <3>1
  <2>3. CASE \E todo : \/ StartWriting(p, Without(d), todo, "inplace")
                       \/ StartWriting(p, Without(d), todo, "replace")
    <3> DEFINE new == Without(d)
    <3>1. new["metadata"] \in Seq(Entry) /\ Versions(new["metadata"])
      BY <1>0, WithoutPairs, VersionsWithout
    <3>2. \E todo, kind : StartWriting(p, new, todo, kind)
      BY <2>3
    <3> HIDE DEF new
    <3>3. Content(new["metadata"]) = new["metadata"]
      BY <3>1, FilesAssumption DEF Content
    <3> QED BY <3>1, <3>2, <3>3
  <2> QED BY <2>1, <2>2, <2>3 DEF Starts
<1>2. PICK new, todo, kind : StartWriting(p, new, todo, kind) /\ Versions(Content(new["metadata"]))
  BY <1>1
<1>3. agent'[p].new = new /\ \A q \in Agents \ {p} : agent'[q] = agent[q]
  BY <1>0, <1>2 DEF StartWriting, AgentState
<1>4. Read("metadata")' = Read("metadata")
  BY <1>0 DEF Read
<1>5. ASSUME NEW q \in Agents, agent'[q].pc = "writing"
      PROVE  Versions(Content(agent'[q].new["metadata"]))
  BY <1>2, <1>3, <1>5 DEF VersionInv
<1> QED BY <1>0, <1>4, <1>5 DEF VersionInv, Versions, Own, Whole, Content

\* No writer plans anew, and the metadata stay or become what one planned.
LEMMA VersionKept ==
    ASSUME TypeInv, VersionInv,
           \/ disk'["metadata"] = disk["metadata"]
           \/ \E p \in Agents : /\ agent[p].pc = "writing"
                                /\ disk'["metadata"] = agent[p].new["metadata"],
           \A q \in Agents : agent'[q].pc = "writing" =>
                agent[q].pc = "writing" /\ agent'[q].new = agent[q].new
    PROVE  VersionInv'
<1>0. agent \in [Agents -> AgentState]
  BY DEF TypeInv, TypeOK
<1>1. Versions(Read("metadata")') /\ disk'["metadata"] # Torn
  <2>1. CASE disk'["metadata"] = disk["metadata"]
    BY <2>1 DEF VersionInv, Read
  <2>2. ASSUME NEW p \in Agents, agent[p].pc = "writing", disk'["metadata"] = agent[p].new["metadata"]
        PROVE  Versions(Read("metadata")') /\ disk'["metadata"] # Torn
    <3>1. Read("metadata")' = Content(agent[p].new["metadata"])
      BY <2>2 DEF Read, Content
    <3>2. agent[p].new["metadata"] \in Seq(Entry) \cup {Absent}
      BY <1>0 DEF AgentState, Artifacts
    <3> QED BY <2>2, <3>1, <3>2, FilesAssumption DEF VersionInv
  <2> QED BY <2>1, <2>2
<1>2. \A q \in Agents : agent'[q].pc = "writing" => Versions(Content(agent'[q].new["metadata"]))
  BY DEF VersionInv
<1> QED BY <1>1, <1>2 DEF VersionInv, Versions, Own, Whole, Content

LEMMA VersionStep ==
    ASSUME TypeInv, AlignInv, VersionInv, [Next]_vars
    PROVE  VersionInv'
<1>0. TypeOK /\ agent \in [Agents -> AgentState]
  BY DEF TypeInv, TypeOK
<1>2. CASE FilesKept
  BY <1>2, VersionKept DEF FilesKept, SamePlace
<1>3. ASSUME NEW p \in Agents, WriteNext(p) PROVE VersionInv'
  <2>1. agent'[p].new = agent[p].new /\ \A q \in Agents \ {p} : agent'[q] = agent[q]
    BY <1>0, <1>3 DEF WriteNext, AgentState
  <2>2. disk'["metadata"] = disk["metadata"] \/ disk'["metadata"] = agent[p].new["metadata"]
    BY <1>0, <1>3 DEF WriteNext, TypeOK, Artifacts
  <2>3. agent[p].pc = "writing"
    BY <1>3 DEF WriteNext
  <2> QED BY <2>1, <2>2, <2>3, VersionKept
<1>4. ASSUME NEW p \in Agents, Unlock(p) PROVE VersionInv'
  <2>1. /\ \A q \in Agents \ {p} : agent'[q] = agent[q]
        /\ agent'[p].pc # "writing" /\ disk' = disk
    BY <1>0, <1>4 DEF Unlock, Goto, Return, Idle, files, AgentState
  <2> QED BY <2>1, VersionKept
<1> QED BY <1>2, <1>3, <1>4, VersionStart, StepForms

LEMMA VersionInit == Init => VersionInv
BY FilesAssumption DEF Init, Idle, NoFiles, VersionInv, Versions, Own, Read, Artifacts, Agents

LEMMA OwnIs == \A d : DOMAIN Read("metadata") \ Keep(d) = Own(Read("metadata"), d)
BY DEF Keep, Own

LEMMA VersionsAreOne == TypeInv /\ VersionInv => OneVersion
<1> SUFFICES ASSUME TypeInv, VersionInv, NEW d \in Docs, Own(Read("metadata"), d) # {}
             PROVE  \E c \in Contents : Pick(Read("metadata"), Own(Read("metadata"), d)) = Fresh(d, c)
  BY OwnIs DEF OneVersion
<1>1. Read("metadata") \in Seq(Entry)
  BY ReadType DEF TypeInv, VersionInv, Artifacts
<1>2. PICK c \in Contents : Whole(Read("metadata"), d, c)
  BY DEF VersionInv, Versions
<1> QED BY <1>1, <1>2, WholePick

\* Indexing again, concurrent runs and deletes in between leave of each
\* document the chunks of one run over one text, in their order, or none.
THEOREM CorpusHasOneVersion == Spec => []OneVersion
<1>1. Spec => []VersionInv
  BY VersionInit, VersionStep, TypeInvariant, AlignInvariant, PTL DEF Spec
<1> QED BY <1>1, VersionsAreOne, TypeInvariant, PTL

-----------------------------------------------------------------------------

\* Text c of document d is in the corpus, or a delete that has its chunks in
\* hand or has taken them out will drop its row, or has.
TextHeld(d, c) ==
    \/ <<d, c>> \in Meta
    \/ \E p \in Requests : agent[p].pc \in {"writing", "dropping"} /\ agent[p].doc = d
    \/ status[d] = "deleted"

\* What a writer will leave has every text of another document that is there,
\* and the one it indexes.
WritesTexts ==
    \A p \in Agents : agent[p].pc = "writing" =>
        LET N == Pairs(Content(agent[p].new["metadata"])) IN
        /\ \A e \in Meta : e[1] # agent[p].doc => e \in N
        /\ p \in Workers => <<agent[p].doc, agent[p].text>> \in N
        /\ p \in Requests => agent[p].kind # "index"

InRun(d) == \E v \in Workers : agent[v].pc \in {"writing", "saving"} /\ agent[v].doc = d

HashInv ==
    /\ \A d \in Docs : hash[d] # NoHash => Exists(d)
    /\ \A d \in Docs \ undone : hash[d] # NoHash => TextHeld(d, hash[d]) \/ InRun(d)
    /\ \A v \in Workers, d \in Docs \ undone :
            agent[v].pc = "saving" /\ agent[v].doc = d => TextHeld(d, agent[v].text)
    /\ WritesTexts

\* A hash is new only where a worker saves it, and that worker is done.
HashFacts ==
    /\ undone \subseteq undone'
    /\ \A d \in Docs \ undone' :
            \/ hash'[d] = hash[d] \/ hash'[d] = NoHash
            \/ \E v \in Workers : agent[v].pc = "saving" /\ agent[v].doc = d /\ hash'[d] = agent[v].text
    /\ \A v \in Workers : agent'[v].pc = "saving" =>
            agent[v].pc = "saving" /\ agent'[v].doc = agent[v].doc /\ agent'[v].text = agent[v].text
    /\ \A v \in Workers, d \in Docs :
            agent[v].pc = "saving" /\ agent[v].doc = d /\ Exists(d) =>
                agent'[v].pc = "saving" \/ hash'[d] = agent[v].text

LEMMA HashForms ==
    ASSUME TypeInv, [Next]_vars
    PROVE  HashFacts \/ \E p \in Agents : WriteNext(p) \/ Unlock(p)
<1>0. /\ TypeOK /\ agent \in [Agents -> AgentState] /\ Workers \subseteq Agents
      /\ hash \in [Docs -> Contents \cup {NoHash}]
  BY DEF TypeInv, TypeOK, Agents
<1>1. ASSUME WorkersSame, NoNewHash PROVE HashFacts
  BY <1>0, <1>1 DEF NoNewHash, HashFacts, WorkersSame
<1>2. CASE UNCHANGED vars
  BY <1>0, <1>1, <1>2, HashSame DEF vars, rows, WorkersSame
<1>3. CASE Environment \/ \E p \in Requests : RequestStep(p)
  BY <1>0, <1>1, <1>3, RequestsSame
<1>4. ASSUME NEW w \in Workers, WorkerStep(w) PROVE HashFacts \/ WriteNext(w) \/ Unlock(w)
  <2>0. w \in Agents
    BY <1>0
  <2>1. ASSUME hash' = hash, undone' = undone, agent[w].pc # "saving", agent'[w].pc # "saving",
               \A q \in Agents \ {w} : agent'[q] = agent[q]
        PROVE  HashFacts
    BY <1>0, <2>1 DEF HashFacts
  <2>2. CASE Poll(w)
    BY <1>0, <2>0, <2>1, <2>2 DEF Poll, rows, AtRest, Idle, AgentState
  <2>3. ASSUME NEW d \in Docs, Begin(w, d) PROVE HashFacts
    <3>1. /\ agent[w].pc = "idle" /\ agent'[w].pc \in {"idle", "loaded"} /\ hash' = hash /\ undone' = undone
          /\ \A q \in Agents \ {w} : agent'[q] = agent[q]
      BY <1>0, <2>0, <2>3 DEF Begin, AgentState
    <3> QED BY <2>1, <3>1
  <2>4. CASE CheckDuplicate(w) \/ IndexFails(w) \/ IndexLocked(w)
    <3>1. /\ agent[w].pc \in {"loaded", "checked"} /\ agent'[w].pc \in {"checked", "failing", "writing"}
          /\ \A q \in Agents \ {w} : agent'[q] = agent[q]
      BY <1>0, <2>0, <2>4 DEF CheckDuplicate, IndexFails, IndexLocked, Goto, StartWriting, AgentState
    <3>2. hash' = hash /\ undone' = undone
      BY <2>4 DEF CheckDuplicate, IndexFails, IndexLocked, rows
    <3> QED BY <2>1, <3>1, <3>2
  <2>5. CASE SaveReady(w)
    <3>1. agent'[w].pc = "idle" /\ agent[w].pc = "saving" /\ \A q \in Agents \ {w} : agent'[q] = agent[q]
      BY <1>0, <2>0, <2>5 DEF SaveReady, Return, Idle
    <3>2. undone' = undone /\ \A d \in Docs : hash'[d] = IF d = agent[w].doc /\ Exists(d) THEN agent[w].text ELSE hash[d]
      BY <1>0, <2>5 DEF SaveReady
    <3> QED BY <1>0, <3>1, <3>2 DEF HashFacts
  <2>6. CASE SaveFailed(w)
    <3>1. /\ agent'[w].pc = "idle" /\ agent[w].pc = "failing" /\ hash' = hash /\ undone' = undone
          /\ \A q \in Agents \ {w} : agent'[q] = agent[q]
      BY <1>0, <2>0, <2>6 DEF SaveFailed, Return, Idle
    <3> QED BY <2>1, <3>1
  <2>7. CASE CrawlSave(w)
    <3>1. agent[w].row.doc \in Docs
      BY <1>0, <2>0, <2>7 DEF CrawlSave, SaveRow, AgentState, Loaded
    <3>2. WorkersSame /\ NoNewHash
      BY <1>0, <2>0, <2>7, <3>1, SaveRowType DEF CrawlSave, WorkersSame, NoNewHash, SamePlace
    <3> QED BY <1>1, <3>2
  <2> QED BY <1>4, <2>2, <2>3, <2>4, <2>5, <2>6, <2>7 DEF WorkerStep
<1> QED BY <1>2, <1>3, <1>4 DEF Next, Agents

\* A row that is dropped loses its hash, and one that gets a hash is there.
LEMMA HashHasRow ==
    ASSUME TypeInv, [Next]_vars, \A d \in Docs : hash[d] # NoHash => Exists(d)
    PROVE  \A d \in Docs : hash'[d] # NoHash => Exists(d)'
<1> SUFFICES ASSUME NEW d \in Docs, hash'[d] # NoHash PROVE Exists(d)'
  OBVIOUS
<1>0. /\ status \in [Docs -> {"absent", "uploaded", "queued", "processing",
                              "ready", "failed", "deleted"}]
      /\ hash \in [Docs -> Contents \cup {NoHash}]
  BY DEF TypeInv, TypeOK
<1>1. CASE UNCHANGED vars
  BY <1>1 DEF vars, rows, Exists
<1>2. CASE Environment
  BY <1>0, <1>2 DEF Environment, PanelUpload, PanelReprocess, RequestDelete, AdminEnqueue,
                    Enqueue, AdminAdd, LoadForm, LoadPage, Exists, rows
<1>6. ASSUME NEW p \in Agents, SaveRow(p, {}) \/ SaveRow(p, {agent[p].row.doc})
      PROVE  Exists(d)'
  <2>1. agent[p].row.doc \in Docs
    BY <1>6 DEF SaveRow, TypeInv, TypeOK, AgentState, Loaded
  <2>2. ASSUME NEW list \in SUBSET Docs, SaveRow(p, list) PROVE Exists(d)'
    BY <2>2, SaveRowType DEF Exists
  <2> QED BY <1>6, <2>1, <2>2
<1>3. ASSUME NEW p \in Agents, WriteNext(p) \/ Unlock(p)
      PROVE  Exists(d)'
  BY <1>0, <1>3 DEF WriteNext, Unlock, DropRow, Exists, rows
<1>4. ASSUME NEW w \in Workers, WorkerStep(w)
      PROVE  Exists(d)'
  BY <1>0, <1>3, <1>4, <1>6
     DEF WorkerStep, Poll, Begin, CheckDuplicate, IndexFails, IndexLocked, SaveReady,
         SaveFailed, CrawlSave, Exists, rows, Agents
<1>5. ASSUME NEW p \in Requests, RequestStep(p)
      PROVE  Exists(d)'
  BY <1>0, <1>3, <1>5, <1>6
     DEF RequestStep, PanelEnqueue, Enqueue, PanelDeleteLocked, AdminDeleteLocked,
         DeleteTimeout, FinishDelete, AdminSave, DropRow, Exists, rows, Agents
<1> QED BY <1>1, <1>2, <1>4, <1>5 DEF Next

LEMMA HashFilesKept ==
    ASSUME TypeInv, HashInv, [Next]_vars, RowFacts, HashFacts, FilesKept
    PROVE  HashInv'
<1>0. Meta' = Meta /\ \A p \in Requests : p \in Agents
  BY DEF FilesKept, Meta, Pairs, Read, Agents
<1>1. ASSUME NEW d \in Docs \ undone', NEW c, TextHeld(d, c) PROVE TextHeld(d, c)'
  <2>1. CASE <<d, c>> \in Meta
    BY <1>0, <2>1 DEF TextHeld
  <2>2. ASSUME NEW p \in Requests, agent[p].pc \in {"writing", "dropping"}, agent[p].doc = d
        PROVE  TextHeld(d, c)'
    <3>1. \/ agent'[p].pc \in {"writing", "dropping"} /\ agent'[p].doc = agent[p].doc
          \/ status'[d] = "deleted"
      BY <1>0, <2>2 DEF FilesKept, RowFacts, SamePlace
    <3> QED BY <2>2, <3>1 DEF TextHeld
  <2>3. CASE status[d] = "deleted"
    BY <2>3, DeletedKept DEF TextHeld
  <2> QED BY <1>1, <2>1, <2>2, <2>3 DEF TextHeld
<1>5. undone \subseteq undone' /\ \A d \in Docs : hash'[d] # NoHash => Exists(d)'
  BY HashHasRow DEF HashInv, HashFacts
<1>2. ASSUME NEW d \in Docs \ undone', NEW c, hash'[d] = c, c # NoHash
      PROVE  TextHeld(d, c)' \/ InRun(d)'
  <2>0. d \in Docs \ undone
    BY <1>5
  <2>1. ASSUME NEW v \in Workers, agent[v].pc = "saving", agent[v].doc = d, agent[v].text = c
        PROVE  TextHeld(d, c)'
    <3>1. TextHeld(d, c)
      BY <2>0, <2>1 DEF HashInv
    <3> QED BY <1>1, <3>1
  <2>2. CASE hash[d] = c
    <3>0. Exists(d) /\ (TextHeld(d, c) \/ InRun(d))
      BY <1>2, <2>0, <2>2 DEF HashInv
    <3>1. CASE TextHeld(d, c)
      BY <1>1, <3>1
    <3>2. ASSUME NEW v \in Workers, agent[v].pc = "writing", agent[v].doc = d
          PROVE  InRun(d)'
      BY <3>2 DEF FilesKept, SamePlace, InRun, Agents
    <3>3. ASSUME NEW v \in Workers, agent[v].pc = "saving", agent[v].doc = d
          PROVE  TextHeld(d, c)' \/ InRun(d)'
      <4>1. agent'[v].pc = "saving" \/ agent[v].text = c
        BY <1>2, <3>0, <3>3 DEF HashFacts
      <4>2. CASE agent'[v].pc = "saving"
        BY <3>3, <4>2 DEF HashFacts, InRun
      <4> QED BY <2>1, <3>3, <4>1, <4>2
    <3>4. InRun(d) => \E v \in Workers : agent[v].pc \in {"writing", "saving"} /\ agent[v].doc = d
      BY DEF InRun
    <3> QED BY <3>0, <3>1, <3>2, <3>3, <3>4
  <2>3. hash[d] = c \/ \E v \in Workers : agent[v].pc = "saving" /\ agent[v].doc = d /\ agent[v].text = c
    BY <1>2 DEF HashFacts
  <2> QED BY <2>1, <2>2, <2>3
<1>3. ASSUME NEW v \in Workers, NEW d \in Docs \ undone', NEW c,
             agent'[v].pc = "saving", agent'[v].doc = d, agent'[v].text = c
      PROVE  TextHeld(d, c)'
  <2>1. TextHeld(d, c)
    BY <1>5, <1>3 DEF HashInv, HashFacts
  <2> QED BY <1>1, <2>1
<1>4. WritesTexts'
  BY <1>0 DEF HashInv, WritesTexts, FilesKept, SamePlace
<1> QED BY <1>5, <1>2, <1>3, <1>4 DEF HashInv, TextHeld

LEMMA HashStart ==
    ASSUME TypeInv, AlignInv, HashInv, NEW p \in Agents, Starts(p)
    PROVE  HashInv'
<1>0. /\ agent \in [Agents -> AgentState] /\ lock = Free
      /\ UNCHANGED <<status, hash, undone>> /\ disk' = disk /\ \A q \in Requests : q \in Agents
  BY DEF TypeInv, TypeOK, Starts, rows, files, Agents
<1>1. Meta' = Meta
  BY <1>0 DEF Meta, Pairs, Read
<1>2. PICK new, todo, kind :
        /\ StartWriting(p, new, todo, kind)
        /\ \/ /\ p \in Workers /\ kind = "index"
              /\ Pairs(Content(new["metadata"])) = Minus(Meta, agent[p].doc) \cup {<<agent[p].doc, agent[p].text>>}
           \/ /\ p \in Requests /\ kind # "index"
              /\ Pairs(Content(new["metadata"])) = Minus(Meta, agent[p].doc)
  BY StartPlans
<1>3. /\ agent'[p].pc = "writing" /\ agent'[p].doc = agent[p].doc /\ agent'[p].text = agent[p].text
      /\ agent'[p].new = new /\ agent'[p].kind = kind
      /\ \A q \in Agents \ {p} : agent'[q] = agent[q]
  BY <1>0, <1>2 DEF StartWriting, AgentState
<1>4. ASSUME NEW d, NEW c, TextHeld(d, c) PROVE TextHeld(d, c)'
  BY <1>0, <1>1, <1>3, <1>4 DEF TextHeld
<1>5. ASSUME NEW d, InRun(d) PROVE InRun(d)'
  BY <1>3, <1>5 DEF InRun, Agents
<1>6. WritesTexts'
  <2> SUFFICES ASSUME NEW q \in Agents, agent'[q].pc = "writing"
               PROVE  LET N == Pairs(Content(agent'[q].new["metadata"])) IN
                      /\ \A e \in Meta : e[1] # agent'[q].doc => e \in N
                      /\ q \in Workers => <<agent'[q].doc, agent'[q].text>> \in N
                      /\ q \in Requests => agent'[q].kind # "index"
    BY <1>1 DEF WritesTexts, Pairs, Content
  <2>1. CASE q # p
    BY <1>3, <2>1 DEF HashInv, WritesTexts
  <2>2. CASE q = p
    <3> DEFINE N == Pairs(Content(new["metadata"]))
    <3>1. \A e \in Meta : e[1] # agent[p].doc => e \in N
      BY <1>2 DEF Minus
    <3>2. p \in Workers => <<agent[p].doc, agent[p].text>> \in N
      BY <1>2, ConstantsAssumption
    <3>3. p \in Requests => kind # "index"
      BY <1>2, ConstantsAssumption
    <3> HIDE DEF N
    <3> QED BY <1>3, <2>2, <3>1, <3>2, <3>3 DEF N
  <2> QED BY <2>1, <2>2
<1>7. \A v \in Workers : agent'[v].pc = "saving" => agent'[v] = agent[v]
  BY <1>3 DEF Agents
<1>8. \A d \in Docs :
        hash'[d] # NoHash => Exists(d)' /\ (d \notin undone => TextHeld(d, hash[d])' \/ InRun(d)')
  BY <1>0, <1>4, <1>5 DEF HashInv, Exists
<1>9. \A v \in Workers, d \in Docs \ undone :
        agent'[v].pc = "saving" /\ agent'[v].doc = d => TextHeld(d, agent[v].text)'
  BY <1>4, <1>7 DEF HashInv
<1> QED BY <1>0, <1>6, <1>7, <1>8, <1>9 DEF HashInv, TextHeld

\* With one worker nobody else saves a text of the document it writes.
LEMMA HashWrite ==
    ASSUME TypeInv, AlignInv, HashInv, NEW w \in Workers, Workers = {w},
           NEW p \in Agents, WriteNext(p)
    PROVE  HashInv'
<1> DEFINE N == Pairs(Content(agent[p].new["metadata"]))
<1>0. /\ TypeOK /\ agent \in [Agents -> AgentState] /\ agent[p].pc = "writing" /\ lock = p
      /\ \A q \in Agents \ {p} : agent[q].pc # "writing" /\ agent'[q] = agent[q]
      /\ UNCHANGED <<status, hash, undone>> /\ \A q \in Requests : q \in Agents
  BY DEF TypeInv, TypeOK, AlignInv, WriterHoldsLock, WriteNext, rows, Agents
<1>1. /\ agent'[p].pc = "writing" /\ agent'[p].doc = agent[p].doc /\ agent'[p].text = agent[p].text
      /\ agent'[p].new = agent[p].new /\ agent'[p].kind = agent[p].kind
  BY <1>0 DEF WriteNext, AgentState
<1>2. Meta' = Meta \/ Meta' = N
  <2>1. disk'["metadata"] = disk["metadata"] \/ disk'["metadata"] = agent[p].new["metadata"]
    BY <1>0 DEF WriteNext, TypeOK, Artifacts
  <2>2. Read("metadata")' = Read("metadata") \/ Read("metadata")' = Content(agent[p].new["metadata"])
    BY <2>1 DEF Read, Content
  <2> QED BY <2>2 DEF Meta, Pairs
<1>3. /\ \A e \in Meta : e[1] # agent[p].doc => e \in N
      /\ p \in Workers => <<agent[p].doc, agent[p].text>> \in N
      /\ p \in Requests => agent[p].kind # "index"
  BY <1>0 DEF HashInv, WritesTexts
<1>4. Pairs(Content(agent'[p].new["metadata"])) = N
  BY <1>1 DEF Pairs, Content
<1> HIDE DEF N
<1>5. ASSUME NEW d, NEW c, TextHeld(d, c) PROVE TextHeld(d, c)' \/ (p \in Workers /\ agent[p].doc = d)
  <2>1. CASE <<d, c>> \in Meta
    <3>1. <<d, c>>[1] = d
      OBVIOUS
    <3>2. <<d, c>> \in Meta' \/ agent[p].doc = d
      BY <1>2, <1>3, <2>1, <3>1
    <3>3. p \in Workers \/ p \in Requests
      BY DEF Agents
    <3> QED BY <1>1, <3>2, <3>3 DEF TextHeld
  <2>2. ASSUME NEW q \in Requests, agent[q].pc \in {"writing", "dropping"}, agent[q].doc = d
        PROVE  TextHeld(d, c)'
    BY <1>0, <1>1, <2>2 DEF TextHeld
  <2> QED BY <1>0, <1>5, <2>1, <2>2 DEF TextHeld
<1>6. WritesTexts'
  <2>1. \A e \in Meta' : e[1] # agent[p].doc => e \in N
    BY <1>2, <1>3
  <2>2. \A q \in Agents : agent'[q].pc = "writing" => q = p
    BY <1>0
  <2> QED BY <1>1, <1>3, <1>4, <2>1, <2>2 DEF WritesTexts, Pairs, Content
<1>7. ASSUME NEW d PROVE InRun(d)' <=> InRun(d)
  BY <1>0, <1>1 DEF InRun, Agents
<1>8. ASSUME NEW d, p \in Workers, agent[p].doc = d PROVE InRun(d)
  BY <1>0, <1>8 DEF InRun
<1>9. \A d \in Docs :
        hash'[d] # NoHash => Exists(d)' /\ (d \notin undone => TextHeld(d, hash[d])' \/ InRun(d)')
  BY <1>0, <1>5, <1>7, <1>8 DEF HashInv, Exists
<1>10. \A v \in Workers, d \in Docs \ undone :
         agent'[v].pc = "saving" /\ agent'[v].doc = d => TextHeld(d, agent[v].text)' /\ agent'[v] = agent[v]
  <2> SUFFICES ASSUME NEW v \in Workers, NEW d \in Docs \ undone, agent'[v].pc = "saving", agent'[v].doc = d
               PROVE  TextHeld(d, agent[v].text)' /\ agent'[v] = agent[v]
    OBVIOUS
  <2>1. v # p /\ p \notin Workers /\ agent'[v] = agent[v]
    BY <1>0, <1>1 DEF Agents
  <2>2. TextHeld(d, agent[v].text)
    BY <2>1 DEF HashInv
  <2> QED BY <1>5, <2>1, <2>2
<1> QED BY <1>0, <1>6, <1>9, <1>10 DEF HashInv, TextHeld

LEMMA HashUnlock ==
    ASSUME TypeInv, AlignInv, FlightInv, HashInv, [Next]_vars, NEW p \in Agents, Unlock(p)
    PROVE  HashInv'
<1> DEFINE N == Pairs(Content(agent[p].new["metadata"]))
<1>0. /\ TypeOK /\ agent \in [Agents -> AgentState] /\ agent[p].pc = "writing" /\ agent[p].todo = <<>>
      /\ lock = p /\ disk' = disk /\ undone' = undone
      /\ \A q \in Agents \ {p} : agent[q].pc # "writing" /\ agent'[q] = agent[q]
      /\ \A q \in Requests : q \in Agents /\ q \notin Workers
  BY ConstantsAssumption
     DEF TypeInv, TypeOK, AlignInv, WriterHoldsLock, Unlock, DropRow, Return, Goto, files, Agents
<1>1. Meta' = Meta /\ Meta = N
  <2>1. Pending(p) = {}
    BY <1>0 DEF Pending
  <2>2. disk["metadata"] = agent[p].new["metadata"]
    BY <1>0, <2>1 DEF AlignInv, WritesAligned, Artifacts
  <2> QED BY <1>0, <2>2 DEF Meta, Pairs, Read, Content
<1> HIDE DEF N
<1>2. \A d \in Docs : hash'[d] # NoHash => Exists(d)'
  BY HashHasRow DEF HashInv
<1>3. CASE agent[p].kind = "unlink"
  <2>1. p \in Requests
    BY <1>3, <1>0 DEF FlightInv, WorkerForm, Agents
  <2>2. /\ agent'[p].pc = "idle"
        /\ \A d \in Docs : /\ status'[d] = IF d = agent[p].doc THEN "deleted" ELSE status[d]
                           /\ hash'[d] = IF d = agent[p].doc THEN NoHash ELSE hash[d]
    BY <1>0, <1>3 DEF Unlock, DropRow, Return, Idle, TypeOK
  <2>3. ASSUME NEW d \in Docs, NEW c, TextHeld(d, c) PROVE TextHeld(d, c)'
    <3>1. CASE <<d, c>> \in Meta
      BY <1>1, <3>1 DEF TextHeld
    <3>2. ASSUME NEW q \in Requests, agent[q].pc \in {"writing", "dropping"}, agent[q].doc = d
          PROVE  TextHeld(d, c)'
      BY <1>0, <2>2, <3>2 DEF TextHeld
    <3> QED BY <2>2, <2>3, <3>1, <3>2 DEF TextHeld
  <2>4. WritesTexts'
    BY <1>0, <2>2 DEF WritesTexts
  <2>5. \A v \in Workers : agent'[v] = agent[v]
    BY <1>0, <2>1 DEF Agents
  <2>6. ASSUME NEW d \in Docs \ undone, NEW c, hash'[d] = c, c # NoHash PROVE TextHeld(d, c)' \/ InRun(d)'
    <3>1. TextHeld(d, c) \/ InRun(d)
      BY <2>2, <2>6 DEF HashInv
    <3>2. InRun(d) => InRun(d)'
      BY <2>5 DEF InRun
    <3> QED BY <2>3, <3>1, <3>2
  <2>7. ASSUME NEW v \in Workers, NEW d \in Docs \ undone, NEW c,
               agent'[v].pc = "saving", agent'[v].doc = d, agent'[v].text = c
        PROVE  TextHeld(d, c)'
    BY <2>3, <2>5, <2>7 DEF HashInv
  <2> QED BY <1>0, <1>2, <2>4, <2>6, <2>7 DEF HashInv, TextHeld
<1>4. CASE agent[p].kind # "unlink"
  <2>1. /\ status' = status /\ hash' = hash
        /\ agent'[p].doc = agent[p].doc /\ agent'[p].text = agent[p].text
        /\ agent'[p].pc = IF agent[p].kind = "index" THEN "saving" ELSE "dropping"
    BY <1>0, <1>4 DEF Unlock, Goto, AgentState
  <2>2. /\ p \in Requests => agent'[p].pc = "dropping"
        /\ p \in Workers => agent'[p].pc = "saving" /\ <<agent[p].doc, agent[p].text>> \in N
    BY <1>0, <2>1 DEF HashInv, WritesTexts, FlightInv, WorkerForm, N
  <2>3. ASSUME NEW d \in Docs, NEW c, TextHeld(d, c) PROVE TextHeld(d, c)'
    BY <1>0, <1>1, <2>1, <2>2, <2>3 DEF TextHeld
  <2>4. WritesTexts'
    BY <1>0, <2>1 DEF WritesTexts
  <2>5. ASSUME NEW v \in Workers, NEW d \in Docs \ undone, NEW c,
               agent'[v].pc = "saving", agent'[v].doc = d, agent'[v].text = c
        PROVE  TextHeld(d, c)'
    <3>1. CASE v = p
      BY <1>1, <2>1, <2>2, <2>5, <3>1 DEF TextHeld
    <3>2. CASE v # p
      <4>1. agent'[v] = agent[v]
        BY <1>0, <3>2 DEF Agents
      <4> QED BY <2>3, <2>5, <4>1 DEF HashInv
    <3> QED BY <3>1, <3>2
  <2>6. ASSUME NEW d \in Docs \ undone, NEW c, hash'[d] = c, c # NoHash PROVE TextHeld(d, c)' \/ InRun(d)'
    <3>1. TextHeld(d, c) \/ InRun(d)
      BY <2>1, <2>6 DEF HashInv
    <3>2. InRun(d) => InRun(d)'
      BY <1>0, <2>1, <2>2 DEF InRun, Agents
    <3> QED BY <2>3, <3>1, <3>2
  <2> QED BY <1>0, <1>2, <2>4, <2>5, <2>6 DEF HashInv, TextHeld
<1> QED BY <1>3, <1>4

LEMMA HashInit == Init => HashInv
BY DEF Init, Idle, HashInv, WritesTexts, Agents

\* In the container deployment a row's hash, by which a crawl skips a page,
\* is that of the text the corpus holds of it.
THEOREM OneWorkerHashTells ==
    ASSUME NEW w \in Workers, Workers = {w}
    PROVE  Spec => []HashTellsIndexed
<1>1. TypeInv /\ AlignInv /\ FlightInv /\ HashInv /\ [Next]_vars => HashInv'
  <2> SUFFICES ASSUME TypeInv, AlignInv, FlightInv, HashInv, [Next]_vars PROVE HashInv'
    OBVIOUS
  <2>1. CASE \E p \in Agents : WriteNext(p) \/ Unlock(p) \/ Starts(p)
    BY <2>1, HashWrite, HashUnlock, HashStart
  <2>2. CASE RowFacts /\ HashFacts /\ FilesKept
    BY <2>2, HashFilesKept
  <2> QED BY <2>1, <2>2, StepForms, RowForms, HashForms
<1>2. Spec => []FlightInv
  BY FlightInit, FlightStep, TypeInvariant, PTL DEF Spec
<1>3. Spec => []HashInv
  BY <1>1, <1>2, HashInit, TypeInvariant, AlignInvariant, PTL DEF Spec
<1>4. Spec => []VersionInv
  BY VersionInit, VersionStep, TypeInvariant, AlignInvariant, PTL DEF Spec
<1>5. TypeInv /\ AlignInv /\ HashInv /\ VersionInv => HashTellsIndexed
  <2> SUFFICES ASSUME TypeInv, AlignInv, HashInv, VersionInv, NEW d \in Docs \ undone, hash[d] # NoHash,
                      \A p \in Agents : agent[p].doc # d /\ lock = Free
               PROVE  Pick(Read("metadata"), Own(Read("metadata"), d)) = Fresh(d, hash[d])
    BY OwnIs DEF HashTellsIndexed
  <2>1. Read("metadata") \in Seq(Entry)
    BY ReadType DEF TypeInv, VersionInv, Artifacts
  <2>2. <<d, hash[d]>> \in Meta
    <3>1. status[d] # "deleted" /\ (TextHeld(d, hash[d]) \/ InRun(d))
      BY DEF HashInv, Exists
    <3> QED BY <3>1 DEF TextHeld, InRun, Agents
  <2>3. PICK i \in Own(Read("metadata"), d) : Read("metadata")[i].text = hash[d]
    BY <2>2 DEF Meta, Pairs, Own
  <2>4. PICK c \in Contents : Whole(Read("metadata"), d, c)
    BY <2>3 DEF VersionInv, Versions
  <2>5. c = hash[d]
    BY <2>3, <2>4 DEF Whole
  <2> QED BY <2>1, <2>4, <2>5, WholePick
<1> QED BY <1>3, <1>4, <1>5, TypeInvariant, AlignInvariant, PTL

-----------------------------------------------------------------------------
(* The readers.                                                             *)

\* The files change by one file of one writer at a time.
LEMMA FileStep ==
    ASSUME [Next]_vars
    PROVE  UNCHANGED <<disk, writes>> \/ \E p \in Agents : WriteNext(p)
<1>1. CASE UNCHANGED vars
  BY <1>1 DEF vars, files
<1>2. CASE Environment
  BY <1>2 DEF Environment, PanelUpload, PanelReprocess, RequestDelete, AdminEnqueue, AdminAdd,
              LoadForm, LoadPage, files
<1>3. ASSUME NEW w \in Workers, WorkerStep(w)
      PROVE  UNCHANGED <<disk, writes>> \/ \E p \in Agents : WriteNext(p)
  BY <1>3 DEF WorkerStep, Poll, Begin, CheckDuplicate, IndexFails, IndexLocked, Unlock, SaveReady,
              SaveFailed, CrawlSave, SaveRow, files, Agents
<1>4. ASSUME NEW p \in Requests, RequestStep(p)
      PROVE  UNCHANGED <<disk, writes>> \/ \E q \in Agents : WriteNext(q)
  BY <1>4 DEF RequestStep, PanelEnqueue, PanelDeleteLocked, AdminDeleteLocked, DeleteTimeout,
              Unlock, FinishDelete, AdminSave, SaveRow, files, Agents
<1> QED BY <1>1, <1>2, <1>3, <1>4 DEF Next

\* The readers leave the writers alone.
LEMMA ServingStepIsStep == [ServingNext]_servingVars => [Next]_vars
BY DEF ServingNext, ThreadStep, Stat, ServeCached, ServeReload, ServeTimeout, servingVars

LEMMA ServingIsCorpus == ServingSpec => Spec
<1>1. ServingInit => Init
  BY DEF ServingInit
<1> QED BY <1>1, ServingStepIsStep, PTL DEF ServingSpec, Spec

-----------------------------------------------------------------------------

\* A file that is there has been written, and no signature is from the future.
Signed ==
    /\ \A a \in Artifacts : disk[a] # Absent => writes[a] > 0
    /\ \A a \in Artifacts, t \in Threads : thread[t].sig[a] <= writes[a]
    /\ \A a \in Artifacts : service.sig[a] <= writes[a]

\* A file of which the stored signature has the last write is the one loaded.
LoadedIsSigned ==
    service.loaded # NoService =>
        \A a \in Artifacts :
            (service.sig[a] = writes[a] /\ disk[a] # Absent) => service.loaded[a] = disk[a]

ServeInv == ServingTypeOK /\ Signed /\ LoadedIsSigned /\ ServedAligned

LEMMA ServeInit == ServingInit => ServeInv
<1> SUFFICES ASSUME ServingInit PROVE ServeInv
  OBVIOUS
<1>1. NoSignature \in Signature /\ \A a \in Artifacts : NoSignature[a] = 0
  BY DEF NoSignature, Signature
<1>2. /\ service.loaded = NoService /\ service.sig = NoSignature
      /\ \A t \in Threads : thread[t] = [pc |-> "idle", sig |-> NoSignature]
      /\ thread = [t \in Threads |-> [pc |-> "idle", sig |-> NoSignature]]
      /\ \A a \in Artifacts : disk[a] = Absent /\ writes[a] = 0
  BY DEF ServingInit, NoRag, Quiet, Init, NoFiles
<1>3. ServingTypeOK
  BY <1>1, <1>2 DEF ServingTypeOK
<1>4. Signed
  BY <1>1, <1>2 DEF Signed
<1> QED BY <1>2, <1>3, <1>4 DEF ServeInv, LoadedIsSigned, ServedAligned

\* A step of the writers.
LEMMA ServeWrites ==
    ASSUME TypeOK, ServeInv, UNCHANGED serving,
           UNCHANGED <<disk, writes>> \/ \E p \in Agents : WriteNext(p)
    PROVE  ServeInv'
<1>0. UNCHANGED <<thread, service>>
  BY DEF serving
<1>1. CASE UNCHANGED <<disk, writes>>
  BY <1>0, <1>1 DEF ServeInv, ServingTypeOK, Signed, LoadedIsSigned, ServedAligned
<1>2. ASSUME NEW p \in Agents, WriteNext(p) PROVE ServeInv'
  <2> DEFINE f == Head(agent[p].todo)
  <2>1. /\ \A a \in Artifacts : a # f => disk'[a] = disk[a] /\ writes'[a] = writes[a]
        /\ \A a \in Artifacts : a = f => writes'[a] = writes[a] + 1
        /\ \A a \in Artifacts : writes[a] \in Nat
    BY <1>2 DEF WriteNext, TypeOK
  <2> HIDE DEF f
  <2>2. /\ \A a \in Artifacts, t \in Threads : thread[t].sig[a] \in Nat
        /\ \A a \in Artifacts : service.sig[a] \in Nat
    BY DEF ServeInv, ServingTypeOK, Signature
  <2>3. Signed'
    BY <1>0, <2>1, <2>2 DEF ServeInv, Signed
  <2>4. LoadedIsSigned'
    BY <1>0, <2>1, <2>2 DEF ServeInv, Signed, LoadedIsSigned
  <2> QED BY <1>0, <2>3, <2>4 DEF ServeInv, ServingTypeOK, ServedAligned
<1> QED BY <1>1, <1>2

\* A thread is through with its request.
LEMMA AnswerType ==
    ASSUME ServeInv, TypeOK, NEW t \in Threads, Answer(t)
    PROVE  /\ thread' \in [Threads -> [pc : {"idle", "metadata", "embeddings", "serve"}, sig : Signature]]
           /\ \A a \in Artifacts, u \in Threads : thread'[u].sig[a] <= writes[a]
<1>1. /\ NoSignature \in Signature /\ \A a \in Artifacts : NoSignature[a] = 0
      /\ \A a \in Artifacts : writes[a] \in Nat
  BY DEF NoSignature, Signature, TypeOK
<1>2. Quiet \in [pc : {"idle", "metadata", "embeddings", "serve"}, sig : Signature]
      /\ Quiet.sig = NoSignature
  BY <1>1 DEF Quiet
<1>3. thread' = [thread EXCEPT ![t] = Quiet]
  BY DEF Answer
<1> QED BY <1>1, <1>2, <1>3 DEF ServeInv, ServingTypeOK, Signed

LEMMA ServeThread ==
    ASSUME TypeOK, AlignInv, ServeInv, NEW t \in Threads, ThreadStep(t)
    PROVE  ServeInv'
<1>0. UNCHANGED vars /\ UNCHANGED <<disk, writes, lock>>
  BY DEF ThreadStep, Stat, ServeCached, ServeReload, ServeTimeout, vars, files
<1>1. CASE Stat(t)
  <2> DEFINE at == thread[t].pc
             a == IF at = "idle" THEN "chunks" ELSE at
             sig == [thread[t].sig EXCEPT ![a] = Mtime(a)]
             next == [pc |-> NextStat[at], sig |-> sig]
  <2>1. at \in {"idle", "metadata", "embeddings"} /\ a \in Artifacts
    BY <1>1 DEF Stat, NextStat, Artifacts
  <2>2. thread[t].sig \in Signature /\ Mtime(a) \in Nat /\ Mtime(a) <= writes[a]
    BY <2>1 DEF ServeInv, ServingTypeOK, Mtime, TypeOK
  <2>3. sig \in Signature /\ \A b \in Artifacts : sig[b] = IF b = a THEN Mtime(a) ELSE thread[t].sig[b]
    BY <2>1, <2>2 DEF Signature
  <2>4. NextStat[at] \in {"metadata", "embeddings", "serve"}
    BY <2>1 DEF NextStat
  <2>5. thread' = [thread EXCEPT ![t] = next] /\ service' = service
    BY <1>1 DEF Stat
  <2> HIDE DEF sig, a, at
  <2>6. next \in [pc : {"idle", "metadata", "embeddings", "serve"}, sig : Signature] /\ next.sig = sig
    BY <2>3, <2>4
  <2> HIDE DEF next
  <2>7. ServingTypeOK'
    BY <2>5, <2>6 DEF ServeInv, ServingTypeOK
  <2>8. \A b \in Artifacts : sig[b] <= writes[b]
    BY <2>2, <2>3 DEF ServeInv, Signed
  <2>9. Signed'
    BY <1>0, <2>5, <2>6, <2>8 DEF ServeInv, ServingTypeOK, Signed
  <2> QED BY <1>0, <2>5, <2>7, <2>9 DEF ServeInv, LoadedIsSigned, ServedAligned
<1>2. ASSUME Answer(t), service' = service PROVE ServeInv'
  BY <1>0, <1>2, AnswerType DEF ServeInv, ServingTypeOK, Signed, LoadedIsSigned, ServedAligned
<1>3. ASSUME Answer(t), lock = Free, Loadable(disk),
             service' = [loaded |-> disk, sig |-> thread[t].sig]
      PROVE  ServeInv'
  <2>1. service'.loaded = disk /\ service'.sig = thread[t].sig
    BY <1>3
  <2>2. disk \in [Artifacts -> Seq(Entry) \cup {Absent}]
    BY <1>3 DEF Loadable, TypeOK
  <2>3. thread[t].sig \in Signature /\ \A a \in Artifacts : thread[t].sig[a] <= writes[a]
    BY DEF ServeInv, ServingTypeOK, Signed
  <2>4. ServingTypeOK' /\ Signed'
    BY <1>0, <1>3, <2>1, <2>2, <2>3, AnswerType DEF ServeInv, ServingTypeOK, Signed
  <2>5. LoadedIsSigned' /\ ServedAligned'
    BY <1>0, <1>3, <2>1 DEF LoadedIsSigned, ServedAligned, AlignInv, Aligned
  <2> QED BY <2>4, <2>5 DEF ServeInv
<1> QED BY <1>1, <1>2, <1>3 DEF ThreadStep, ServeCached, ServeReload, ServeTimeout

LEMMA ServeStep == TypeInv /\ AlignInv /\ ServeInv /\ [ServingNext]_servingVars => ServeInv'
<1> SUFFICES ASSUME TypeInv, AlignInv, ServeInv, [ServingNext]_servingVars PROVE ServeInv'
  OBVIOUS
<1>1. CASE UNCHANGED servingVars
  <2>1. UNCHANGED serving /\ UNCHANGED <<disk, writes>>
    BY <1>1 DEF servingVars, vars, files
  <2> QED BY <2>1, ServeWrites DEF TypeInv
<1>2. CASE Next /\ UNCHANGED serving
  BY <1>2, FileStep, ServeWrites DEF TypeInv
<1>3. ASSUME NEW t \in Threads, ThreadStep(t) PROVE ServeInv'
  BY <1>3, ServeThread DEF TypeInv
<1> QED BY <1>1, <1>2, <1>3 DEF ServingNext

LEMMA ServeInvariant == ServingSpec => [](TypeInv /\ AlignInv /\ ServeInv)
<1>1. ServingSpec => [](TypeInv /\ AlignInv)
  BY ServingIsCorpus, TypeInvariant, AlignInvariant, PTL
<1> QED BY <1>1, ServeInit, ServeStep, PTL DEF ServingSpec

\* Threads and service have their types: nothing torn is ever served.
THEOREM ServingTypeCorrect == ServingSpec => []ServingTypeOK
BY ServeInvariant, PTL DEF ServeInv

\* However many threads reload while writers are half way through their files,
\* a process answers from three arrays that describe the same chunks.
THEOREM ServesAligned == ServingSpec => []ServedAligned
BY ServeInvariant, PTL DEF ServeInv

\* A signature taken without the lock never hides that the files are newer
\* than what is loaded, except the one of missing files.
THEOREM SignatureSound == ServingSpec => []SignatureTellsFresh
<1>1. TypeInv /\ AlignInv /\ ServeInv => SignatureTellsFresh
  <2> SUFFICES ASSUME TypeInv, AlignInv, ServeInv, lock = Free, service.loaded # NoService,
                      service.sig = Mtimes, service.sig # NoSignature
               PROVE  service.loaded = disk
    BY DEF SignatureTellsFresh
  <2>1. PICK b \in Artifacts : Mtime(b) # 0
    BY DEF Mtimes, NoSignature
  <2>2. \A a \in Artifacts : disk[a] = disk["metadata"]
    BY DEF AlignInv, Aligned
  <2>3. \A a \in Artifacts : disk[a] # Absent
    BY <2>1, <2>2 DEF Mtime
  <2>4. \A a \in Artifacts : service.sig[a] = writes[a]
    BY <2>3 DEF Mtimes, Mtime
  <2>5. \A a \in Artifacts : service.loaded[a] = disk[a]
    BY <2>3, <2>4 DEF ServeInv, LoadedIsSigned
  <2>6. service.loaded \in [Artifacts -> Seq(Entry) \cup {Absent}]
        /\ disk \in [Artifacts -> Seq(Entry) \cup {Absent, Torn}]
    BY DEF ServeInv, ServingTypeOK, TypeInv, TypeOK
  <2> QED BY <2>5, <2>6
<1> QED BY <1>1, ServeInvariant, PTL

\* A process that has a service keeps one, and reloads only what loads.
THEOREM ServiceIsKept == ServingSpec => ServiceKept
<1>1. TypeInv /\ [ServingNext]_servingVars
        => [service.loaded # NoService
                => service'.loaded # NoService /\ Loadable(service'.loaded)]_service
  <2> SUFFICES ASSUME TypeInv, [ServingNext]_servingVars, service' # service
               PROVE  service'.loaded # NoService /\ Loadable(service'.loaded)
    OBVIOUS
  <2>1. PICK t \in Threads : ServeReload(t)
    BY DEF ServingNext, ThreadStep, Stat, ServeCached, ServeTimeout, servingVars, serving
  <2>2. service' = [loaded |-> disk, sig |-> thread[t].sig] /\ Loadable(disk)
    BY <2>1 DEF ServeReload
  <2>3. disk # NoService
    BY ServingAssumption DEF TypeInv, TypeOK
  <2> QED BY <2>2, <2>3
<1> QED BY <1>1, ServeInvariant, PTL DEF ServingSpec, ServiceKept

-----------------------------------------------------------------------------

\* What an interrupted writer leaves of the files has their type.
LEMMA LeavesType ==
    ASSUME TypeInv, NEW p, Leaves(p)
    PROVE  disk' \in [Artifacts -> Seq(Entry) \cup {Absent, Torn}] /\ writes' \in [Artifacts -> Nat]
<1>1. TypeOK /\ \A a \in Artifacts : writes[a] \in Nat /\ writes[a] + 1 \in Nat
  BY DEF TypeInv, TypeOK
<1>2. CASE UNCHANGED files
  BY <1>1, <1>2 DEF TypeOK, files
<1>3. ASSUME NEW f, disk' = [disk EXCEPT ![f] = Torn], writes' = [writes EXCEPT ![f] = @ + 1]
      PROVE  disk' \in [Artifacts -> Seq(Entry) \cup {Absent, Torn}] /\ writes' \in [Artifacts -> Nat]
  <2>1. writes' = [writes EXCEPT ![f] = writes[f] + 1]
    BY <1>3
  <2> QED BY <1>1, <1>3, <2>1 DEF TypeOK
<1> QED BY <1>2, <1>3 DEF Leaves

\* A process that dies or fails goes to rest, or to save the row "failed".
Downed(q) == agent'[q].pc \in {"idle", "failing"}

LEMMA InterruptionType ==
    ASSUME TypeInv, NEW p \in Agents, Crash(p) \/ WriteFails(p)
    PROVE  /\ TypeInv'
           /\ \A q \in Agents \ {p} : agent'[q] = agent[q]
           /\ Downed(p)
           /\ lock' = lock \/ lock' = Free
           /\ lock = p => lock' = Free
           /\ lock' # Free => Crash(p)
<1>0. TypeOK /\ TextKnown /\ agent \in [Agents -> AgentState] /\ agent[p].list \in SUBSET Docs
  BY DEF TypeInv, TypeOK, AgentState
<1>1. Idle({}) \in AgentState /\ Idle(agent[p].list) \in AgentState
  BY <1>0, IdleType
<1>2. /\ UNCHANGED <<status, hash, source, undone, ops>> /\ Leaves(p)
      /\ (lock' = Free \/ lock' = IF lock = p THEN Free ELSE lock)
      /\ lock' # Free => Crash(p)
  BY DEF Crash, WriteFails, rows
<1>3. disk' \in [Artifacts -> Seq(Entry) \cup {Absent, Torn}] /\ writes' \in [Artifacts -> Nat]
  BY <1>2, LeavesType
<1>4. /\ agent' \in [Agents -> AgentState] /\ Downed(p)
      /\ \A q \in Agents \ {p} : agent'[q] = agent[q]
  <2>1. CASE agent' = [agent EXCEPT ![p] = Idle({})] \/ Return(p)
    BY <1>0, <1>1, <2>1 DEF Return, Idle, Downed
  <2>2. CASE Goto(p, "failing")
    <3>1. agent' \in [Agents -> AgentState]
      BY <1>0, <2>2, GotoType
    <3> QED BY <1>0, <2>2, <3>1 DEF Goto, Downed, AgentState
  <2> QED BY <2>1, <2>2 DEF Crash, WriteFails
<1>5. TypeOK'
  BY <1>0, <1>2, <1>3, <1>4 DEF TypeOK
<1>6. TextKnown'
  BY <1>0, <1>2, <1>4 DEF TextKnown, Exists, Downed
<1> QED BY <1>2, <1>4, <1>5, <1>6 DEF TypeInv

LEMMA DeploymentType ==
    ASSUME TypeInv, Shutdown \/ Startup
    PROVE  /\ TypeInv'
           /\ \/ lock' = Free /\ \A q \in Agents : agent'[q].pc = "idle"
              \/ UNCHANGED <<lock, agent>>
<1>0. TypeOK /\ TextKnown
  BY DEF TypeInv
<1>1. CASE Shutdown
  <2>1. Idle({}) \in AgentState /\ Idle({}).pc = "idle"
    BY IdleType DEF Idle
  <2>2. /\ agent' = [p \in Agents |-> Idle({})] /\ lock' = Free
        /\ UNCHANGED <<status, hash, source, undone, ops>>
    BY <1>1 DEF Shutdown, rows
  <2>3. disk' \in [Artifacts -> Seq(Entry) \cup {Absent, Torn}] /\ writes' \in [Artifacts -> Nat]
    BY <1>0, <1>1, LeavesType DEF Shutdown, TypeOK, files
  <2>4. TypeOK'
    BY <1>0, <2>1, <2>2, <2>3 DEF TypeOK
  <2>5. TextKnown'
    BY <1>0, <2>1, <2>2 DEF TextKnown, Exists
  <2> QED BY <2>1, <2>2, <2>4, <2>5 DEF TypeInv
<1>2. CASE Startup
  <2>1. disk' = Repaired /\ UNCHANGED <<status, hash, source, undone, ops, lock, agent, writes>>
    BY <1>2 DEF Startup, rows
  <2>2. disk' \in [Artifacts -> Seq(Entry) \cup {Absent, Torn}]
    BY <1>0, <2>1 DEF TypeOK, Repaired, NoFiles
  <2>3. TypeOK' /\ TextKnown'
    BY <1>0, <2>1, <2>2 DEF TypeOK, TextKnown, Exists
  <2> QED BY <2>1, <2>3 DEF TypeInv
<1> QED BY <1>1, <1>2

\* A step of the system with failures and deaths is one of it without them,
\* or interrupts or deploys.
LEMMA RecoveryForms ==
    ASSUME [RecoveryNext]_recoveryVars
    PROVE  [Next]_vars \/ Shutdown \/ Startup \/ \E p \in Agents : Crash(p) \/ WriteFails(p)
BY ServingStepIsStep DEF RecoveryNext, recoveryVars, servingVars

LEMMA RecoveryType == RecoverySpec => []TypeInv
<1>1. RecoveryInit => TypeInv
  BY TypeInit DEF RecoveryInit, ServingInit
<1>2. TypeInv /\ [RecoveryNext]_recoveryVars => TypeInv'
  BY RecoveryForms, TypeStep, InterruptionType, DeploymentType
<1> QED BY <1>1, <1>2, PTL DEF RecoverySpec

\* Whoever holds the lock is writing.
LEMMA HolderStep ==
    ASSUME TypeInv, WriterHoldsLock, [Next]_vars
    PROVE  WriterHoldsLock'
<1>0. agent \in [Agents -> AgentState] /\ Free \notin Agents
  BY ConstantsAssumption DEF TypeInv, TypeOK, Agents
<1>1. CASE FilesKept
  BY <1>1 DEF FilesKept, SamePlace, WriterHoldsLock
<1>2. ASSUME NEW p \in Agents, WriteNext(p) \/ Unlock(p) \/ Starts(p) PROVE WriterHoldsLock'
  <2>1. CASE WriteNext(p)
    <3>1. \A q \in Agents : agent'[q].pc = agent[q].pc
      BY <1>0, <2>1 DEF WriteNext, AgentState
    <3> QED BY <2>1, <3>1 DEF WriteNext, WriterHoldsLock
  <2>2. CASE Unlock(p)
    <3>1. /\ lock' = Free /\ lock = p /\ agent'[p].pc # "writing"
          /\ \A q \in Agents \ {p} : agent'[q] = agent[q]
      BY <1>0, <2>2 DEF Unlock, Return, Goto, Idle, AgentState, WriterHoldsLock
    <3> QED BY <1>0, <3>1 DEF WriterHoldsLock
  <2>3. CASE Starts(p)
    <3>1. PICK new, todo, kind : StartWriting(p, new, todo, kind)
      BY <2>3 DEF Starts
    <3>2. /\ lock' = p /\ agent'[p].pc = "writing"
          /\ \A q \in Agents \ {p} : agent'[q] = agent[q]
      BY <1>0, <3>1 DEF StartWriting, AgentState
    <3>3. lock = Free
      BY <2>3 DEF Starts
    <3> QED BY <1>0, <3>2, <3>3 DEF WriterHoldsLock
  <2> QED BY <1>2, <2>1, <2>2, <2>3
<1> QED BY <1>1, <1>2, StepForms

\* However often writes fail and processes die, and whichever: a lock that is taken is held by
\* a process that lives, and that has nothing left to do but write its files
\* and release it.
THEOREM HolderLives == RecoverySpec => []WriterHoldsLock
<1>1. RecoveryInit => WriterHoldsLock
  BY AlignInit DEF RecoveryInit, ServingInit, AlignInv
<1>2. TypeInv /\ WriterHoldsLock /\ [RecoveryNext]_recoveryVars => WriterHoldsLock'
  <2> SUFFICES ASSUME TypeInv, WriterHoldsLock, [RecoveryNext]_recoveryVars PROVE WriterHoldsLock'
    OBVIOUS
  <2>0. Free \notin Agents
    BY ConstantsAssumption DEF Agents
  <2>1. ASSUME NEW p \in Agents, Crash(p) \/ WriteFails(p) PROVE WriterHoldsLock'
    <3>1. /\ \A q \in Agents \ {p} : agent'[q] = agent[q]
          /\ agent'[p].pc # "writing"
      BY <2>1, InterruptionType DEF Downed
    <3>2. CASE lock = p
      <4>1. lock' = Free
        BY <2>1, <3>2, InterruptionType
      <4> QED BY <2>0, <3>1, <3>2, <4>1 DEF WriterHoldsLock
    <3>3. CASE lock # p
      <4>1. Crash(p) /\ lock' = lock
        BY <2>1, <3>3 DEF Crash, WriteFails, Rewriting, WriterHoldsLock
      <4> QED BY <2>0, <3>1, <3>3, <4>1 DEF WriterHoldsLock
    <3> QED BY <3>2, <3>3
  <2>2. CASE Shutdown \/ Startup
    BY <2>0, <2>2, DeploymentType DEF WriterHoldsLock
  <2> QED BY <2>1, <2>2, HolderStep, RecoveryForms
<1> QED BY <1>1, <1>2, RecoveryType, PTL DEF RecoverySpec

\* Nothing that fails, dies or is deployed anew brings a deleted row back:
\* nothing of a row is kept by a process but in the hands of who saves it
\* whole.
THEOREM RecoveryFormsResurrect == RecoverySpec => OnlyFormsResurrect
<1>1. ASSUME TypeInv, [RecoveryNext]_recoveryVars,
             NEW d \in Docs, status[d] = "deleted", status'[d] # "deleted"
      PROVE  \E p \in Agents : /\ agent[p].row # NoRow /\ agent'[p].row = NoRow
                               /\ agent[p].row.doc = d
  <2>1. ~Shutdown /\ ~Startup /\ \A p \in Agents : ~Crash(p) /\ ~WriteFails(p)
    BY <1>1 DEF Shutdown, Startup, Crash, WriteFails, rows
  <2> QED BY <1>1, <2>1, RecoveryForms, ResurrectStep
<1>2. TypeInv /\ [RecoveryNext]_recoveryVars
        => [\A d \in Docs : status[d] = "deleted" /\ status'[d] # "deleted" =>
              \E p \in Agents : /\ agent[p].row # NoRow /\ agent'[p].row = NoRow
                                /\ agent[p].row.doc = d]_vars
  BY <1>1
<1> QED BY <1>2, RecoveryType, PTL DEF RecoverySpec, OnlyFormsResurrect

\* And with one worker loop no text is in the knowledge base twice, although
\* the loop may die at any moment and the next one starts the document over.
THEOREM RecoveryHashUnique ==
    ASSUME NEW w \in Workers, Workers = {w}
    PROVE  RecoverySpec => []HashUnique
<1>1. RecoveryInit => OwnText /\ HashUnique
  BY OwnTextInit DEF RecoveryInit, ServingInit
<1>2. TypeInv /\ OwnText /\ HashUnique /\ [RecoveryNext]_recoveryVars => OwnText' /\ HashUnique'
  <2> SUFFICES ASSUME TypeInv, OwnText, HashUnique, [RecoveryNext]_recoveryVars
               PROVE  OwnText' /\ HashUnique'
    OBVIOUS
  <2>1. ASSUME Shutdown \/ Startup \/ \E p \in Agents : Crash(p) \/ WriteFails(p)
        PROVE  OwnText' /\ HashUnique'
    <3>1. hash' = hash /\ undone' = undone
      BY <2>1 DEF Shutdown, Startup, Crash, WriteFails, rows
    <3>2. \A v \in Agents : agent'[v] = agent[v] \/ agent'[v].pc \in {"idle", "failing"}
      BY <2>1, InterruptionType, DeploymentType DEF Downed
    <3> QED BY <3>1, <3>2, HashSame, OwnTextKept DEF Agents, TypeInv
  <2> QED BY <2>1, OwnTextStep, RecoveryForms
<1> QED BY <1>1, <1>2, RecoveryType, PTL DEF RecoverySpec

\* For every corpus, of whatever length and however it came about: what the
\* Retriever could load is never cleared by a deployment.
THEOREM RepairIsCareful == RecoverySpec => RepairKeepsLoadable
<1>1. TypeInv /\ [RecoveryNext]_recoveryVars
        => [Startup /\ Loadable(disk) => disk' = disk]_recoveryVars
  <2> SUFFICES ASSUME TypeInv, Startup, Loadable(disk) PROVE disk' = disk
    OBVIOUS
  <2>1. disk' = Repaired /\ disk \in [Artifacts -> Seq(Entry) \cup {Absent, Torn}]
    BY DEF Startup, TypeInv, TypeOK
  <2>2. CASE \A a \in Artifacts : disk[a] = Absent
    <3>1. disk = NoFiles
      BY <2>1, <2>2 DEF NoFiles
    <3> QED BY <2>1, <3>1 DEF Repaired
  <2>3. CASE /\ \A a \in Artifacts : disk[a] \notin {Absent, Torn}
             /\ \A a \in Artifacts : Len(disk[a]) = Len(disk["chunks"])
    <3>1. Len(Read("chunks")) = Len(Read("embeddings"))
      BY <2>3 DEF Read, Artifacts
    <3> QED BY <2>1, <2>3, <3>1 DEF Repaired
  <2> QED BY <2>2, <2>3 DEF Loadable
<1> QED BY <1>1, RecoveryType, PTL DEF RecoverySpec, RepairKeepsLoadable

=============================================================================
