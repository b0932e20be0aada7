------------------------- MODULE KnowledgeCorpusProofs -------------------------
(***************************************************************************)
(* Theorems about KnowledgeCorpus for every set of documents, texts,       *)
(* workers and requests and any number of operations.                      *)
(***************************************************************************)
EXTENDS KnowledgeCorpus, PositionsProofs, FiniteSetTheorems

\* A row that exists has a text, and so has a document a worker has loaded.
TextKnown ==
    /\ \A d \in Docs : Exists(d) => source[d] \in Contents
    /\ \A p \in Agents :
        /\ agent[p].pc = "enqueue" => agent[p].doc \in Docs
        /\ agent[p].pc \in {"loaded", "checked"} =>
                agent[p].doc \in Docs /\ agent[p].text \in Contents

TypeInv == TypeOK /\ TextKnown

LEMMA FreshType ==
    ASSUME NEW d \in Docs, NEW c \in Contents
    PROVE  Fresh(d, c) \in Seq(Entry)
<1>1. Size[c] \in Nat
  BY ConstantsAssumption
<1>2. \A k \in 1..Size[c] : [doc |-> d, text |-> c, part |-> k] \in Entry
  BY <1>1 DEF Entry
<1> QED BY <1>1, <1>2 DEF Fresh

LEMMA ReadType ==
    ASSUME TypeOK, NEW a \in Artifacts, disk[a] # Torn
    PROVE  Read(a) \in Seq(Entry)
BY DEF TypeOK, Read

LEMMA WithoutType ==
    ASSUME TypeOK, Loads(Artifacts), NEW d, InRange(Artifacts, d)
    PROVE  Without(d) \in [Artifacts -> Seq(Entry)]
<1>1. ASSUME NEW a \in Artifacts PROVE Pick(Read(a), Keep(d)) \in Seq(Entry)
  <2>1. Read(a) \in Seq(Entry)
    BY ReadType DEF Loads
  <2>2. Keep(d) \in SUBSET DOMAIN Read(a)
    BY DEF InRange
  <2> QED BY <2>1, <2>2, PickType
<1> QED BY <1>1 DEF Without

LEMMA RebuiltType ==
    ASSUME TypeOK, Loads(Artifacts), NEW d \in Docs, NEW c \in Contents,
           disk["embeddings"] # Absent => InRange(Artifacts, d)
    PROVE  Rebuilt(d, c) \in [Artifacts -> Seq(Entry)]
<1>1. Fresh(d, c) \in Seq(Entry)
  BY FreshType
<1>2. CASE disk["embeddings"] = Absent
  BY <1>1, <1>2 DEF Rebuilt
<1>3. CASE disk["embeddings"] # Absent
  <2>1. Without(d) \in [Artifacts -> Seq(Entry)]
    BY <1>3, WithoutType
  <2>2. \A a \in Artifacts : Without(d)[a] \o Fresh(d, c) \in Seq(Entry)
    BY <2>1, <1>1
  <2> QED BY <1>3, <2>2 DEF Rebuilt
<1> QED BY <1>2, <1>3

LEMMA NoFilesType == NoFiles \in [Artifacts -> Seq(Entry) \cup {Absent}]
BY DEF NoFiles

LEMMA IdleType ==
    ASSUME NEW list \in SUBSET Docs
    PROVE  Idle(list) \in AgentState
BY NoFilesType DEF Idle, AgentState

LEMMA TypeInit == Init => TypeInv
<1> SUFFICES ASSUME Init PROVE TypeInv
  OBVIOUS
<1>1. Idle({}) \in AgentState
  BY IdleType
<1>2. TypeOK
  BY <1>1, NoFilesType DEF Init, TypeOK, NoFiles
<1>3. TextKnown
  BY DEF Init, TextKnown, Exists, Idle
<1> QED BY <1>2, <1>3 DEF TypeInv

LEMMA GotoType ==
    ASSUME TypeOK, NEW p \in Agents,
           NEW pc \in {"checked", "failing", "saving", "dropping"}, Goto(p, pc)
    PROVE  agent' \in [Agents -> AgentState]
<1>1. [agent[p] EXCEPT !.pc = pc] \in AgentState
  BY DEF TypeOK, AgentState
<1> QED BY <1>1 DEF Goto, TypeOK

LEMMA ReturnType ==
    ASSUME TypeOK, NEW p \in Agents, Return(p)
    PROVE  agent' \in [Agents -> AgentState]
<1>1. agent[p].list \in SUBSET Docs
  BY DEF TypeOK, AgentState
<1>2. Idle(agent[p].list) \in AgentState
  BY <1>1, IdleType
<1> QED BY <1>2 DEF Return, TypeOK

LEMMA StartWritingType ==
    ASSUME TypeOK, NEW p \in Agents,
           NEW new \in [Artifacts -> Seq(Entry) \cup {Absent}],
           NEW todo \in Seq(Artifacts),
           NEW kind \in {"index", "unlink", "inplace", "replace"},
           StartWriting(p, new, todo, kind)
    PROVE  agent' \in [Agents -> AgentState] /\ lock' = p
<1> DEFINE rec == [agent[p] EXCEPT !.pc = "writing", !.new = new, !.todo = todo, !.kind = kind]
<1>0. agent[p] \in AgentState
  BY DEF TypeOK
<1>1. rec \in AgentState
  BY <1>0 DEF AgentState
<1>2. agent' = [agent EXCEPT ![p] = rec]
  BY DEF StartWriting
<1>3. agent \in [Agents -> AgentState] /\ lock' = p
  BY DEF TypeOK, StartWriting
<1> HIDE DEF rec
<1> QED BY <1>1, <1>2, <1>3

LEMMA ListType ==
    ASSUME NEW ag \in [Agents -> AgentState], NEW w \in Agents, NEW ids \in SUBSET Docs
    PROVE  [ag EXCEPT ![w].list = ids] \in [Agents -> AgentState]
<1>1. [ag[w] EXCEPT !.list = ids] \in AgentState
  BY DEF AgentState
<1> QED BY <1>1

LEMMA EnqueueType ==
    ASSUME TypeInv, NEW ds \in SUBSET Docs, NEW ag \in [Agents -> AgentState],
           Enqueue(ds, ag)
    PROVE  /\ status' \in [Docs -> {"absent", "uploaded", "queued", "processing",
                                    "ready", "failed", "deleted"}]
           /\ \A d \in Docs : Exists(d)' => Exists(d)
           /\ agent' \in [Agents -> AgentState]
           /\ \A p \in Agents : /\ agent'[p].pc = ag[p].pc
                                /\ agent'[p].doc = ag[p].doc
                                /\ agent'[p].text = ag[p].text
<1> DEFINE ids == {d \in ds : Exists(d)}
<1>1. status' = [d \in Docs |-> IF d \in ids THEN "queued" ELSE status[d]]
  BY DEF Enqueue
<1>2. \/ agent' = ag
      \/ \E w \in Workers : agent' = [ag EXCEPT ![w].list = ids]
  BY DEF Enqueue
<1>3. ids \in SUBSET Docs
  OBVIOUS
<1> HIDE DEF ids
<1> DEFINE Kept(p) == /\ agent'[p].pc = ag[p].pc
                      /\ agent'[p].doc = ag[p].doc
                      /\ agent'[p].text = ag[p].text
<1>4. agent' \in [Agents -> AgentState] /\ \A p \in Agents : Kept(p)
  <2>1. CASE agent' = ag
    BY <2>1
  <2>2. ASSUME NEW w \in Workers, agent' = [ag EXCEPT ![w].list = ids]
        PROVE  agent' \in [Agents -> AgentState] /\ \A p \in Agents : Kept(p)
    <3>1. w \in Agents
      BY DEF Agents
    <3>2. agent' \in [Agents -> AgentState]
      BY <1>3, <2>2, <3>1, ListType
    <3>3. ASSUME NEW p \in Agents PROVE Kept(p)
      <4>1. CASE p = w
        BY <2>2, <3>1, <4>1 DEF AgentState
      <4>2. CASE p # w
        BY <2>2, <3>1, <4>2
      <4> QED BY <4>1, <4>2
    <3> QED BY <3>2, <3>3
  <2> QED BY <1>2, <2>1, <2>2
<1>6. \A d \in Docs : Exists(d)' => Exists(d)
  BY <1>1 DEF Exists, ids
<1>7. status' \in [Docs -> {"absent", "uploaded", "queued", "processing",
                            "ready", "failed", "deleted"}]
  BY <1>1 DEF TypeInv, TypeOK
<1> QED BY <1>4, <1>6, <1>7

\* Loading and saving of whole rows leave every agent where it is in its code.
SamePlace(p) ==
    /\ agent'[p].pc = agent[p].pc /\ agent'[p].doc = agent[p].doc
    /\ agent'[p].text = agent[p].text /\ agent'[p].kind = agent[p].kind
    /\ agent'[p].new = agent[p].new /\ agent'[p].todo = agent[p].todo

LEMMA LoadType ==
    ASSUME TypeInv, NEW p \in Agents, NEW d \in Docs, status[d] # "deleted", NEW c \in Contents,
           NEW st \in {"uploaded", "queued", "processing", "ready", "failed"},
           st \in {"uploaded", "queued", status[d]}, Load(p, d, st, c)
    PROVE  /\ agent' \in [Agents -> AgentState]
           /\ \A q \in Agents : SamePlace(q)
<1> DEFINE row == [doc |-> d, was |-> RowOf(d), source |-> c, status |-> st]
           rec == [agent[p] EXCEPT !.row = row]
<1>1. agent \in [Agents -> AgentState] /\ agent' = [agent EXCEPT ![p] = rec]
  BY DEF TypeInv, TypeOK, Load
<1>2. RowOf(d) \in Row
  BY DEF TypeInv, TypeOK, RowOf, Row
<1>3. row \in Loaded
  BY <1>2 DEF Loaded, RowOf
<1>4. rec \in AgentState
  <2> HIDE DEF row
  <2> QED BY <1>1, <1>3 DEF AgentState
<1>5. /\ rec.pc = agent[p].pc /\ rec.doc = agent[p].doc
      /\ rec.text = agent[p].text /\ rec.kind = agent[p].kind
      /\ rec.new = agent[p].new /\ rec.todo = agent[p].todo
  BY <1>1 DEF AgentState
<1> HIDE DEF rec
<1> QED BY <1>1, <1>4, <1>5 DEF SamePlace

\* What save() of a row in hand does, and that it leaves a row that is still
\* as it was loaded its hash, and makes it no more than queued or uploaded.
LEMMA SaveRowType ==
    ASSUME TypeInv, NEW p \in Agents, NEW list \in SUBSET Docs, SaveRow(p, list),
           NEW d, d = agent[p].row.doc
    PROVE  /\ d \in Docs /\ agent[p].row.was.status # "deleted"
           /\ agent' \in [Agents -> AgentState]
           /\ \A q \in Agents : SamePlace(q)
           /\ agent'[p].row = NoRow /\ agent'[p].list = list
           /\ \A q \in Agents \ {p} : agent'[q] = agent[q]
           /\ \A e \in Docs \ {d} : status'[e] = status[e] /\ hash'[e] = hash[e] /\ source'[e] = source[e]
           /\ status' \in [Docs -> {"absent", "uploaded", "queued", "processing",
                                    "ready", "failed", "deleted"}]
           /\ status'[d] \notin {"absent", "deleted"}
           /\ hash' \in [Docs -> Contents \cup {NoHash}]
           /\ source' \in [Docs -> Contents \cup {NoHash}] /\ source'[d] \in Contents
           /\ undone \subseteq undone' /\ undone' \subseteq Docs
           /\ d \notin undone' => /\ status[d] # "deleted" /\ hash'[d] = hash[d]
                                 /\ status'[d] \in {"uploaded", "queued", status[d]}
<1> DEFINE row == agent[p].row
           rec == [agent[p] EXCEPT !.row = NoRow, !.list = list]
<1>1. /\ agent \in [Agents -> AgentState] /\ agent' = [agent EXCEPT ![p] = rec]
      /\ undone \subseteq Docs
      /\ status \in [Docs -> {"absent", "uploaded", "queued", "processing",
                              "ready", "failed", "deleted"}]
      /\ hash \in [Docs -> Contents \cup {NoHash}] /\ source \in [Docs -> Contents \cup {NoHash}]
  BY DEF TypeInv, TypeOK, SaveRow
<1>2. row \in Loaded
  BY <1>1 DEF AgentState, SaveRow
<1>3. /\ d \in Docs /\ row.was \in Row /\ row.source \in Contents
      /\ row.status \in {"uploaded", "queued", "processing", "ready", "failed"}
      /\ row.status \in {"uploaded", "queued", row.was.status}
  BY <1>2 DEF Loaded
<1>4. row.was.status # "deleted" /\ row.was.hash \in Contents \cup {NoHash}
  BY <1>3 DEF Row
<1>5. /\ rec \in AgentState
      /\ rec.pc = agent[p].pc /\ rec.doc = agent[p].doc
      /\ rec.text = agent[p].text /\ rec.kind = agent[p].kind
      /\ rec.new = agent[p].new /\ rec.todo = agent[p].todo
      /\ rec.row = NoRow /\ rec.list = list
  BY <1>1 DEF AgentState
<1>6. /\ status' = [status EXCEPT ![d] = row.status]
      /\ hash' = [hash EXCEPT ![d] = row.was.hash]
      /\ source' = [source EXCEPT ![d] = row.source]
      /\ undone' = IF RowOf(d) = row.was THEN undone ELSE undone \cup {d}
  BY DEF SaveRow
<1>7. d \notin undone' => status[d] = row.was.status /\ hash[d] = row.was.hash
  BY <1>6 DEF RowOf
<1> HIDE DEF rec, row
<1>8. /\ agent' \in [Agents -> AgentState]
      /\ \A q \in Agents : SamePlace(q)
      /\ agent'[p].row = NoRow /\ agent'[p].list = list
      /\ \A q \in Agents \ {p} : agent'[q] = agent[q]
  BY <1>1, <1>5 DEF SamePlace
<1>9. row.was.status = agent[p].row.was.status
  BY DEF row
<1> QED BY <1>1, <1>3, <1>4, <1>6, <1>7, <1>8, <1>9

LEMMA TypeSaveRow ==
    ASSUME TypeInv, NEW p \in Agents, NEW list \in SUBSET Docs, SaveRow(p, list)
    PROVE  TypeInv'
<1>1. UNCHANGED <<disk, writes, lock, ops>>
  BY DEF SaveRow, files
<1>2. TypeOK'
  BY <1>1, SaveRowType DEF TypeInv, TypeOK
<1>3. ASSUME NEW e \in Docs, Exists(e)' PROVE source'[e] \in Contents
  BY <1>3, SaveRowType DEF TypeInv, TextKnown, Exists
<1>4. TextKnown'
  BY <1>3, SaveRowType DEF TypeInv, TextKnown, SamePlace
<1> QED BY <1>2, <1>4 DEF TypeInv

LEMMA TypeEnvironment ==
    ASSUME TypeInv, Environment
    PROVE  TypeInv'
<1> USE DEF TypeInv
<1>1. ASSUME NEW p \in Requests, NEW d \in Docs, NEW pc \in {"enqueue", "panelDelete", "adminDelete"},
             agent' = [agent EXCEPT ![p].pc = pc, ![p].doc = d]
      PROVE  agent' \in [Agents -> AgentState]
  <2>0. agent[p] \in AgentState
    BY DEF TypeOK, Agents
  <2>1. [agent[p] EXCEPT !.pc = pc, !.doc = d] \in AgentState
    BY <2>0 DEF AgentState
  <2> QED BY <1>1, <2>1 DEF TypeOK
<1>2. ASSUME NEW p \in Requests, NEW d \in Docs, NEW c \in Contents, PanelUpload(p, d, c)
      PROVE  TypeInv'
  <2>1. agent' \in [Agents -> AgentState]
    BY <1>1, <1>2 DEF PanelUpload
  <2>2. TypeOK'
    BY <1>2, <2>1 DEF PanelUpload, Operation, TypeOK, files
  <2>3. TextKnown'
    BY <1>2 DEF PanelUpload, TypeOK, TextKnown, Exists, AgentState, Agents
  <2> QED BY <2>2, <2>3
<1>3. ASSUME NEW p \in Requests, NEW d \in Docs, PanelReprocess(p, d)
      PROVE  TypeInv'
  <2>1. agent' \in [Agents -> AgentState]
    BY <1>1, <1>3 DEF PanelReprocess
  <2>2. TypeOK'
    BY <1>3, <2>1 DEF PanelReprocess, Operation, TypeOK, files
  <2>3. TextKnown'
    BY <1>3 DEF PanelReprocess, TypeOK, TextKnown, Exists, AgentState, Agents
  <2> QED BY <2>2, <2>3
<1>4. ASSUME NEW p \in Requests, NEW d \in Docs, NEW how \in {"panelDelete", "adminDelete"},
             RequestDelete(p, d, how)
      PROVE  TypeInv'
  <2>1. agent' \in [Agents -> AgentState]
    BY <1>1, <1>4 DEF RequestDelete
  <2>2. TypeOK'
    BY <1>4, <2>1 DEF RequestDelete, Operation, TypeOK, rows, files
  <2>3. TextKnown'
    BY <1>4 DEF RequestDelete, TypeOK, TextKnown, Exists, rows, AgentState, Agents
  <2> QED BY <2>2, <2>3
<1>5. ASSUME NEW ds \in SUBSET Docs, AdminEnqueue(ds)
      PROVE  TypeInv'
  <2>1. Enqueue(ds, agent) /\ UNCHANGED <<hash, source, undone, disk, writes, lock>> /\ ops' = ops + 1
    BY <1>5 DEF AdminEnqueue, Operation, files
  <2>2. agent \in [Agents -> AgentState]
    BY DEF TypeOK
  <2>3. /\ status' \in [Docs -> {"absent", "uploaded", "queued", "processing",
                               "ready", "failed", "deleted"}]
        /\ agent' \in [Agents -> AgentState]
    BY <2>1, <2>2, EnqueueType
  <2>4. TypeOK'
    BY <2>1, <2>3 DEF TypeOK
  <2>5. TextKnown'
    BY <2>1, <2>2, EnqueueType DEF TextKnown
  <2> QED BY <2>4, <2>5
<1>6. ASSUME NEW d \in Docs, NEW c \in Contents, AdminAdd(d, c)
      PROVE  TypeInv'
  <2>1. TypeOK'
    BY <1>6 DEF AdminAdd, Operation, TypeOK, files
  <2>2. TextKnown'
    BY <1>6 DEF AdminAdd, TypeOK, TextKnown, Exists
  <2> QED BY <2>1, <2>2
<1>7. ASSUME agent' \in [Agents -> AgentState], \A q \in Agents : SamePlace(q),
             UNCHANGED <<rows, files, lock>>, ops' = ops + 1
      PROVE  TypeInv'
  BY <1>7 DEF TypeOK, TextKnown, Exists, SamePlace, rows, files
<1>8. ASSUME NEW p \in Requests, NEW d \in Docs, NEW c \in Contents, LoadForm(p, d, c)
      PROVE  TypeInv'
  <2> DEFINE st == IF c = source[d] THEN status[d] ELSE "uploaded"
  <2>1. /\ st \in {"uploaded", "queued", "processing", "ready", "failed"}
        /\ st \in {"uploaded", "queued", status[d]} /\ status[d] # "deleted"
    BY <1>8 DEF LoadForm, Exists, TypeOK
  <2>2. Load(p, d, st, c) /\ p \in Agents
    BY <1>8 DEF LoadForm, Agents
  <2> HIDE DEF st
  <2>3. agent' \in [Agents -> AgentState] /\ \A q \in Agents : SamePlace(q)
    BY <2>1, <2>2, LoadType
  <2> QED BY <1>7, <1>8, <2>3 DEF LoadForm, Operation
<1>9. ASSUME NEW w \in Workers, NEW d \in Docs, NEW c \in Contents, LoadPage(w, d, c)
      PROVE  TypeInv'
  <2>1. Load(w, d, "queued", c) /\ w \in Agents /\ status[d] # "deleted"
    BY <1>9 DEF LoadPage, Exists, Agents
  <2>2. agent' \in [Agents -> AgentState] /\ \A q \in Agents : SamePlace(q)
    BY <2>1, LoadType
  <2> QED BY <1>7, <1>9, <2>2 DEF LoadPage, Operation
<1> QED BY <1>2, <1>3, <1>4, <1>5, <1>6, <1>8, <1>9 DEF Environment

\* A step keeps TextKnown if it adds no row and its agent ends with no text.
LEMMA TextKept ==
    ASSUME TypeOK, TextKnown, NEW p \in Agents,
           \A q \in Agents \ {p} : agent'[q] = agent[q],
           agent'[p].pc \notin {"enqueue", "loaded", "checked"},
           \A d \in Docs : Exists(d)' => Exists(d),
           source' = source
    PROVE  TextKnown'
BY DEF TextKnown

\* Writing a file and releasing the lock, which workers and requests do.
LEMMA TypeWrites ==
    ASSUME TypeInv, NEW p \in Agents, WriteNext(p) \/ Unlock(p)
    PROVE  TypeInv'
<1> USE DEF TypeInv
<1>0. agent \in [Agents -> AgentState]
  BY DEF TypeOK
<1>1. CASE WriteNext(p)
  <2> DEFINE todo == agent[p].todo
             rec == [agent[p] EXCEPT !.todo = Tail(@)]
  <2>1. todo \in Seq(Artifacts) /\ todo # <<>>
    BY <1>0, <1>1 DEF WriteNext, AgentState
  <2>2. Head(todo) \in Artifacts /\ Tail(todo) \in Seq(Artifacts)
    BY <2>1
  <2>3. rec \in AgentState /\ agent' = [agent EXCEPT ![p] = rec]
    BY <1>0, <1>1, <2>2 DEF WriteNext, AgentState
  <2>4. agent' \in [Agents -> AgentState]
    <3> HIDE DEF rec
    <3> QED BY <1>0, <2>3
  <2>5. agent[p].new[Head(todo)] \in Seq(Entry) \cup {Absent}
    BY <1>0, <2>2 DEF AgentState
  <2>6. disk' \in [Artifacts -> Seq(Entry) \cup {Absent, Torn}]
    BY <1>1, <2>2, <2>5 DEF WriteNext, TypeOK
  <2>7. writes' \in [Artifacts -> Nat]
    BY <1>1, <2>2 DEF WriteNext, TypeOK
  <2>8. TypeOK'
    BY <1>1, <2>4, <2>6, <2>7 DEF WriteNext, TypeOK, rows
  <2>9. TextKnown'
    BY <1>0, <1>1 DEF WriteNext, TextKnown, Exists, rows, AgentState
  <2> QED BY <2>8, <2>9
<1>2. CASE Unlock(p)
  <2>1. agent' \in [Agents -> AgentState]
    <3>1. CASE Return(p)
      BY <3>1, ReturnType
    <3>2. CASE ~Return(p)
      <4>1. PICK pc \in {"saving", "dropping"} : Goto(p, pc)
        BY <1>2, <3>2 DEF Unlock
      <4> QED BY <4>1, GotoType
    <3> QED BY <3>1, <3>2
  <2>2. TypeOK'
    BY <1>2, <2>1 DEF Unlock, DropRow, TypeOK, files
  <2>3. /\ \A q \in Agents \ {p} : agent'[q] = agent[q]
        /\ agent'[p].pc \notin {"enqueue", "loaded", "checked"}
    BY <1>0, <1>2 DEF Unlock, Return, Goto, Idle, AgentState
  <2>4. source' = source /\ \A e \in Docs : Exists(e)' => Exists(e)
    BY <1>2 DEF Unlock, DropRow, TypeOK, Exists
  <2>5. TextKnown'
    BY <2>3, <2>4, TextKept
  <2> QED BY <2>2, <2>5
<1> QED BY <1>1, <1>2

LEMMA TypeWorker ==
    ASSUME TypeInv, NEW w \in Workers, WorkerStep(w)
    PROVE  TypeInv'
<1> USE DEF TypeInv
<1>0. w \in Agents /\ agent \in [Agents -> AgentState]
  BY DEF Agents, TypeOK
<1>1. CASE Poll(w)
  <2>1. {d \in Docs : status[d] = "queued"} \in SUBSET Docs
    OBVIOUS
  <2>2. agent' \in [Agents -> AgentState]
    BY <1>0, <1>1, <2>1, ListType DEF Poll
  <2>3. TypeOK'
    BY <1>1, <2>2 DEF Poll, TypeOK, rows, files
  <2>4. TextKnown'
    BY <1>0, <1>1 DEF Poll, TypeOK, TextKnown, Exists, rows, AgentState
  <2> QED BY <2>3, <2>4
<1>2. ASSUME NEW d \in Docs, Begin(w, d) PROVE TypeInv'
  <2> DEFINE rest == agent[w].list \ {d}
             rec == [agent[w] EXCEPT !.pc = "loaded", !.doc = d, !.text = source[d], !.list = rest]
  <2>1. rest \in SUBSET Docs /\ source[d] \in Contents \cup {NoHash}
    BY <1>0 DEF TypeOK, AgentState
  <2>2. CASE Exists(d)
    <3>1. source[d] \in Contents
      BY <2>2 DEF TextKnown
    <3>2. rec \in AgentState /\ agent' = [agent EXCEPT ![w] = rec]
      BY <1>0, <1>2, <2>1, <2>2 DEF Begin, AgentState
    <3>3. rec.pc = "loaded" /\ rec.doc \in Docs /\ rec.text \in Contents
      BY <1>0, <3>1 DEF AgentState
    <3> HIDE DEF rec, rest
    <3>4. agent' \in [Agents -> AgentState]
      BY <1>0, <3>2
    <3>5. TypeOK'
      BY <1>2, <2>2, <3>4 DEF Begin, TypeOK, files
    <3>6. \A e \in Docs : Exists(e)' => source'[e] \in Contents
      BY <1>2, <2>2 DEF Begin, TypeOK, TextKnown, Exists
    <3>7. TextKnown'
      BY <1>0, <3>2, <3>3, <3>6 DEF TextKnown
    <3> QED BY <3>5, <3>7
  <2>3. CASE ~Exists(d)
    <3>1. agent' = [agent EXCEPT ![w].list = rest]
      BY <1>2, <2>3 DEF Begin
    <3>2. agent' \in [Agents -> AgentState]
      BY <1>0, <2>1, <3>1, ListType
    <3>3. TypeOK'
      BY <1>2, <2>3, <3>2 DEF Begin, TypeOK, files
    <3>4. TextKnown'
      BY <1>0, <1>2, <2>3 DEF Begin, TextKnown, Exists, AgentState
    <3> QED BY <3>3, <3>4
  <2> QED BY <2>2, <2>3
<1>3. CASE CheckDuplicate(w)
  <2>1. agent' \in [Agents -> AgentState]
    <3>1. PICK pc \in {"checked", "failing"} : Goto(w, pc)
      BY <1>3 DEF CheckDuplicate
    <3> QED BY <1>0, <3>1, GotoType
  <2>2. TypeOK'
    BY <1>3, <2>1 DEF CheckDuplicate, TypeOK, rows, files
  <2>3. TextKnown'
    BY <1>0, <1>3 DEF CheckDuplicate, Goto, TextKnown, Exists, rows, AgentState
  <2> QED BY <2>2, <2>3
<1>4. CASE IndexFails(w)
  <2>1. agent' \in [Agents -> AgentState]
    BY <1>0, <1>4, GotoType DEF IndexFails
  <2>2. TypeOK'
    BY <1>4, <2>1 DEF IndexFails, TypeOK, rows, files
  <2>3. TextKnown'
    BY <1>0, <1>4 DEF IndexFails, Goto, TextKnown, Exists, rows, AgentState
  <2> QED BY <2>2, <2>3
<1>5. CASE IndexLocked(w)
  <2> DEFINE d == agent[w].doc
             c == agent[w].text
             new == Rebuilt(d, c)
             todo == <<"chunks", "metadata", "embeddings">>
  <2>1. d \in Docs /\ c \in Contents
    BY <1>0, <1>5 DEF IndexLocked, TextKnown
  <2>2. agent' \in [Agents -> AgentState] /\ lock' \in Agents \cup {Free}
    <3>1. CASE StartWriting(w, new, todo, "index") /\ Loads(Artifacts)
               /\ (disk["embeddings"] # Absent => InRange(Artifacts, d))
      <4>1. new \in [Artifacts -> Seq(Entry)]
        BY <2>1, <3>1, RebuiltType
      <4>2. new \in [Artifacts -> Seq(Entry) \cup {Absent}] /\ todo \in Seq(Artifacts)
        BY <4>1 DEF Artifacts
      <4> HIDE DEF new, todo
      <4> QED BY <1>0, <3>1, <4>2, StartWritingType
    <3>2. CASE Goto(w, "failing") /\ UNCHANGED lock
      BY <1>0, <3>2, GotoType DEF TypeOK
    <3> QED BY <1>5, <3>1, <3>2 DEF IndexLocked
  <2>3. TypeOK'
    BY <1>5, <2>2 DEF IndexLocked, TypeOK, rows, files
  <2>4. /\ \A q \in Agents \ {w} : agent'[q] = agent[q]
        /\ agent'[w].pc \notin {"enqueue", "loaded", "checked"}
    BY <1>0, <1>5 DEF IndexLocked, StartWriting, Goto, AgentState
  <2>5. source' = source /\ \A e \in Docs : Exists(e)' => Exists(e)
    BY <1>5 DEF IndexLocked, Exists, rows
  <2>6. TextKnown'
    BY <1>0, <2>4, <2>5, TextKept
  <2> QED BY <2>3, <2>6
<1>6. CASE SaveReady(w)
  <2>1. agent' \in [Agents -> AgentState]
    BY <1>0, <1>6, ReturnType DEF SaveReady
  <2>2. agent[w].text \in Contents \cup {NoHash}
    BY <1>0 DEF AgentState
  <2>3. TypeOK'
    BY <1>6, <2>1, <2>2 DEF SaveReady, TypeOK, files
  <2>4. TextKnown'
    BY <1>0, <1>6 DEF SaveReady, Return, Idle, TypeOK, TextKnown, Exists, AgentState
  <2> QED BY <2>3, <2>4
<1>7. CASE SaveFailed(w)
  <2>1. agent' \in [Agents -> AgentState]
    BY <1>0, <1>7, ReturnType DEF SaveFailed
  <2>2. TypeOK'
    BY <1>7, <2>1 DEF SaveFailed, TypeOK, files
  <2>3. TextKnown'
    BY <1>0, <1>7 DEF SaveFailed, Return, Idle, TypeOK, TextKnown, Exists, AgentState
  <2> QED BY <2>2, <2>3
<1>8. CASE CrawlSave(w)
  <2>1. {agent[w].row.doc} \in SUBSET Docs
    BY <1>0, <1>8 DEF CrawlSave, SaveRow, AgentState, Loaded
  <2> QED BY <1>0, <1>8, <2>1, TypeSaveRow DEF CrawlSave
<1> QED BY <1>0, <1>1, <1>2, <1>3, <1>4, <1>5, <1>6, <1>7, <1>8, TypeWrites DEF WorkerStep

LEMMA TypeRequest ==
    ASSUME TypeInv, NEW p \in Requests, RequestStep(p)
    PROVE  TypeInv'
<1> USE DEF TypeInv
<1>0. p \in Agents /\ agent \in [Agents -> AgentState]
  BY DEF Agents, TypeOK
<1>1. CASE PanelEnqueue(p)
  <2> DEFINE ag == [agent EXCEPT ![p] = Idle({})]
  <2>1. ag \in [Agents -> AgentState]
    BY <1>0, IdleType
  <2>2. Enqueue({agent[p].doc}, ag) /\ UNCHANGED <<hash, source, undone, disk, writes, lock, ops>>
    BY <1>1 DEF PanelEnqueue, files
  <2>3. {agent[p].doc} \in SUBSET Docs
    BY <1>0, <1>1 DEF PanelEnqueue, TextKnown
  <2>4. /\ status' \in [Docs -> {"absent", "uploaded", "queued", "processing",
                               "ready", "failed", "deleted"}]
        /\ agent' \in [Agents -> AgentState]
        /\ \A d \in Docs : Exists(d)' => Exists(d)
        /\ \A q \in Agents : /\ agent'[q].pc = ag[q].pc
                             /\ agent'[q].doc = ag[q].doc
                             /\ agent'[q].text = ag[q].text
    <3> HIDE DEF ag
    <3> QED BY <2>1, <2>2, <2>3, EnqueueType
  <2>5. TypeOK'
    BY <2>2, <2>4 DEF TypeOK
  <2>6. TextKnown'
    BY <1>0, <2>2, <2>4 DEF TextKnown, Idle
  <2> QED BY <2>5, <2>6
<1>2. CASE PanelDeleteLocked(p)
  <2> DEFINE d == agent[p].doc
             meta == Read("metadata")
  <2>1. agent' \in [Agents -> AgentState] /\ lock' \in Agents \cup {Free}
    <3>1. CASE Return(p) /\ UNCHANGED lock
      BY <3>1, <1>0, ReturnType DEF TypeOK
    <3>2. CASE Goto(p, "dropping") /\ UNCHANGED lock
      BY <3>2, <1>0, GotoType DEF TypeOK
    <3>3. CASE StartWriting(p, NoFiles, <<"chunks", "metadata", "embeddings">>, "unlink")
      <4>1. <<"chunks", "metadata", "embeddings">> \in Seq(Artifacts)
        BY DEF Artifacts
      <4> QED BY <1>0, <3>3, <4>1, NoFilesType, StartWritingType
    <3>4. CASE /\ StartWriting(p, Without(d), <<"embeddings", "chunks", "metadata">>, "inplace")
               /\ Loads({"chunks", "metadata"}) /\ disk["embeddings"] # Torn
               /\ InRange(Artifacts, d)
      <4>1. Loads(Artifacts)
        BY <3>4 DEF Loads, Artifacts
      <4>2. Without(d) \in [Artifacts -> Seq(Entry) \cup {Absent}]
        BY <3>4, <4>1, WithoutType
      <4>3. <<"embeddings", "chunks", "metadata">> \in Seq(Artifacts)
        BY DEF Artifacts
      <4> QED BY <1>0, <3>4, <4>2, <4>3, StartWritingType
    <3> QED BY <1>2, <3>1, <3>2, <3>3, <3>4 DEF PanelDeleteLocked
  <2>2. TypeOK'
    BY <1>2, <2>1 DEF PanelDeleteLocked, TypeOK, rows, files
  <2>3. /\ \A q \in Agents \ {p} : agent'[q] = agent[q]
        /\ agent'[p].pc \notin {"enqueue", "loaded", "checked"}
    BY <1>0, <1>2 DEF PanelDeleteLocked, StartWriting, Goto, Return, Idle, AgentState
  <2>4. source' = source /\ \A e \in Docs : Exists(e)' => Exists(e)
    BY <1>2 DEF PanelDeleteLocked, Exists, rows
  <2>5. TextKnown'
    BY <1>0, <2>3, <2>4, TextKept
  <2> QED BY <2>2, <2>5
<1>3. CASE AdminDeleteLocked(p)
  <2> DEFINE d == agent[p].doc
             meta == Read("metadata")
  <2>1. agent' \in [Agents -> AgentState] /\ lock' \in Agents \cup {Free}
    <3>1. CASE Return(p) /\ UNCHANGED lock
      BY <3>1, <1>0, ReturnType DEF TypeOK
    <3>2. CASE Goto(p, "dropping") /\ UNCHANGED lock
      BY <3>2, <1>0, GotoType DEF TypeOK
    <3>3. CASE /\ StartWriting(p, Without(d), <<"chunks", "metadata", "embeddings">>, "replace")
               /\ Loads(Artifacts) /\ \A a \in Artifacts : Len(Read(a)) = Len(meta)
      <4>1. \A a \in Artifacts : Read(a) \in Seq(Entry)
        BY <3>3, ReadType DEF Loads
      <4>2. \A a \in Artifacts : DOMAIN Read(a) = DOMAIN meta
        BY <3>3, <4>1 DEF Artifacts
      <4>3. InRange(Artifacts, d)
        BY <4>2 DEF InRange, Keep
      <4>4. Without(d) \in [Artifacts -> Seq(Entry) \cup {Absent}]
        BY <3>3, <4>3, WithoutType
      <4>5. <<"chunks", "metadata", "embeddings">> \in Seq(Artifacts)
        BY DEF Artifacts
      <4> QED BY <1>0, <3>3, <4>4, <4>5, StartWritingType
    <3> QED BY <1>3, <3>1, <3>2, <3>3 DEF AdminDeleteLocked
  <2>2. TypeOK'
    BY <1>3, <2>1 DEF AdminDeleteLocked, TypeOK, rows, files
  <2>3. /\ \A q \in Agents \ {p} : agent'[q] = agent[q]
        /\ agent'[p].pc \notin {"enqueue", "loaded", "checked"}
    BY <1>0, <1>3 DEF AdminDeleteLocked, StartWriting, Goto, Return, Idle, AgentState
  <2>4. source' = source /\ \A e \in Docs : Exists(e)' => Exists(e)
    BY <1>3 DEF AdminDeleteLocked, Exists, rows
  <2>5. TextKnown'
    BY <1>0, <2>3, <2>4, TextKept
  <2> QED BY <2>2, <2>5
<1>4. CASE DeleteTimeout(p)
  <2>1. agent' \in [Agents -> AgentState]
    BY <1>0, <1>4, ReturnType DEF DeleteTimeout
  <2>2. TypeOK'
    BY <1>4, <2>1 DEF DeleteTimeout, TypeOK, rows, files
  <2>3. TextKnown'
    BY <1>0, <1>4 DEF DeleteTimeout, Return, Idle, TextKnown, Exists, rows
  <2> QED BY <2>2, <2>3
<1>5. CASE FinishDelete(p)
  <2>1. agent' \in [Agents -> AgentState]
    BY <1>0, <1>5, ReturnType DEF FinishDelete
  <2>2. TypeOK'
    BY <1>5, <2>1 DEF FinishDelete, DropRow, TypeOK, files
  <2>3. TextKnown'
    BY <1>0, <1>5 DEF FinishDelete, DropRow, Return, Idle, TypeOK, TextKnown, Exists
  <2> QED BY <2>2, <2>3
<1>6. CASE AdminSave(p)
  BY <1>0, <1>6, TypeSaveRow DEF AdminSave
<1> QED BY <1>0, <1>1, <1>2, <1>3, <1>4, <1>5, <1>6, TypeWrites DEF RequestStep

LEMMA TypeStep == TypeInv /\ [Next]_vars => TypeInv'
<1> SUFFICES ASSUME TypeInv, [Next]_vars PROVE TypeInv'
  OBVIOUS
<1>1. CASE UNCHANGED vars
  BY <1>1 DEF vars, rows, files, TypeInv, TypeOK, TextKnown, Exists
<1>2. CASE Next
  BY <1>2, TypeEnvironment, TypeWorker, TypeRequest DEF Next
<1> QED BY <1>1, <1>2

LEMMA TypeInvariant == Spec => []TypeInv
BY TypeInit, TypeStep, PTL DEF Spec

\* Every variable keeps its type: what is taken out of and put into the files
\* is always a list of chunks, whatever the workers and requests do.
THEOREM TypeCorrect == Spec => []TypeOK
BY TypeInvariant, PTL DEF TypeInv

-----------------------------------------------------------------------------

\* The agent that is writing, and no other, holds the lock.
WriterHoldsLock == \A p \in Agents : agent[p].pc = "writing" <=> lock = p

\* The files an agent still has to write.
Pending(p) == {agent[p].todo[i] : i \in DOMAIN agent[p].todo}

\* What an agent is writing is aligned, and every file it does not have to
\* write any more holds it.
WritesAligned ==
    \A p \in Agents : agent[p].pc = "writing" =>
        /\ \A a \in Artifacts : agent[p].new[a] = agent[p].new["metadata"]
        /\ \A a \in Artifacts : disk[a] = agent[p].new[a] \/ a \in Pending(p)

AlignInv == Aligned /\ WriterHoldsLock /\ WritesAligned

LEMMA AlignInit == Init => AlignInv
BY ConstantsAssumption
   DEF Init, NoFiles, Idle, AlignInv, Aligned, WriterHoldsLock, WritesAligned, Artifacts, Agents

\* Steps that touch neither the files nor the lock, of agents not writing.
LEMMA AlignKept ==
    ASSUME AlignInv, disk' = disk, lock' = lock,
           \A q \in Agents : \/ agent'[q] = agent[q]
                             \/ agent[q].pc # "writing" /\ agent'[q].pc # "writing"
    PROVE  AlignInv'
BY DEF AlignInv, Aligned, WriterHoldsLock, WritesAligned, Pending

\* Steps after which every agent is where it was.
LEMMA AlignSame ==
    ASSUME AlignInv, disk' = disk, lock' = lock, \A q \in Agents : SamePlace(q)
    PROVE  AlignInv'
BY DEF AlignInv, Aligned, WriterHoldsLock, WritesAligned, Pending, SamePlace

LEMMA AlignKeptBy ==
    ASSUME AlignInv, disk' = disk, lock' = lock, NEW p \in Agents,
           agent[p].pc # "writing", agent'[p].pc # "writing",
           \A q \in Agents \ {p} : agent'[q] = agent[q]
    PROVE  AlignInv'
<1>1. ASSUME NEW q \in Agents
      PROVE  \/ agent'[q] = agent[q]
             \/ agent[q].pc # "writing" /\ agent'[q].pc # "writing"
  <2>1. CASE q = p
    BY <2>1
  <2>2. CASE q # p
    BY <2>2
  <2> QED BY <2>1, <2>2
<1> QED BY <1>1, AlignKept

LEMMA AlignEnqueue ==
    ASSUME TypeOK, AlignInv, NEW ds \in SUBSET Docs, NEW ag \in [Agents -> AgentState],
           Enqueue(ds, ag), UNCHANGED <<disk, lock>>,
           \A q \in Agents : ag[q] = agent[q] \/ (agent[q].pc # "writing" /\ ag[q].pc # "writing")
    PROVE  AlignInv'
<1>1. CASE agent' = ag
  BY <1>1, AlignKept
<1>2. ASSUME NEW w \in Workers, NEW ids, AtRest(w), agent' = [ag EXCEPT ![w].list = ids]
      PROVE  AlignInv'
  <2>1. w \in Agents /\ agent[w].pc # "writing"
    BY <1>2 DEF Agents, AtRest, Idle
  <2>2. agent'[w].pc # "writing"
    BY <1>2, <2>1 DEF AgentState
  <2>3. \A q \in Agents : q # w => agent'[q] = ag[q]
    BY <1>2, <2>1
  <2> QED BY <2>1, <2>2, <2>3, AlignKept
<1> QED BY <1>1, <1>2 DEF Enqueue

LEMMA AlignStart ==
    ASSUME TypeOK, AlignInv, NEW p \in Agents, NEW new, NEW todo, NEW kind,
           lock = Free, disk' = disk, StartWriting(p, new, todo, kind),
           \A a \in Artifacts : new[a] = new["metadata"],
           \A a \in Artifacts : \E i \in DOMAIN todo : todo[i] = a
    PROVE  AlignInv'
<1>1. agent \in [Agents -> AgentState] /\ lock' = p /\ p # Free
  BY ConstantsAssumption DEF TypeOK, StartWriting, Agents
<1>2. /\ agent'[p].pc = "writing"
      /\ agent'[p].new = new
      /\ agent'[p].todo = todo
      /\ \A q \in Agents \ {p} : agent'[q] = agent[q]
  BY <1>1 DEF StartWriting, AgentState
<1>3. \A q \in Agents : agent[q].pc # "writing"
  BY ConstantsAssumption DEF AlignInv, WriterHoldsLock, Agents
<1>4. Aligned' /\ WriterHoldsLock'
  BY <1>1, <1>2, <1>3 DEF Aligned, WriterHoldsLock
<1>5. WritesAligned'
  BY <1>2, <1>3 DEF WritesAligned, Pending
<1> QED BY <1>4, <1>5 DEF AlignInv

LEMMA AlignWrites ==
    ASSUME TypeOK, AlignInv, NEW p \in Agents, WriteNext(p) \/ Unlock(p)
    PROVE  AlignInv'
<1>0. agent \in [Agents -> AgentState] /\ agent[p].todo \in Seq(Artifacts)
  BY DEF TypeOK, AgentState
<1>1. agent[p].pc = "writing" /\ lock = p /\ p # Free
  BY ConstantsAssumption DEF WriteNext, Unlock, AlignInv, WriterHoldsLock, Agents
<1>2. \A q \in Agents \ {p} : agent[q].pc # "writing"
  BY <1>1 DEF AlignInv, WriterHoldsLock
<1>3. CASE WriteNext(p)
  <2> DEFINE a == Head(agent[p].todo)
  <2>1. /\ agent'[p].pc = "writing"
        /\ agent'[p].new = agent[p].new
        /\ agent'[p].todo = Tail(agent[p].todo)
        /\ \A q \in Agents \ {p} : agent'[q] = agent[q]
        /\ lock' = lock
    BY <1>0, <1>3 DEF WriteNext, AgentState
  <2>2. Pending(p) \subseteq Pending(p)' \cup {a}
    <3>1. agent[p].todo # <<>>
      BY <1>3 DEF WriteNext
    <3>2. \A i \in DOMAIN agent[p].todo :
              i = 1 \/ (i - 1 \in DOMAIN Tail(agent[p].todo)
                        /\ Tail(agent[p].todo)[i - 1] = agent[p].todo[i])
      BY <1>0, <3>1
    <3>3. ASSUME NEW i \in DOMAIN agent[p].todo
          PROVE  agent[p].todo[i] \in Pending(p)' \cup {a}
      <4>1. CASE i = 1
        BY <1>0, <3>1, <4>1
      <4>2. CASE i # 1
        BY <2>1, <3>2, <4>2 DEF Pending
      <4> QED BY <4>1, <4>2
    <3> QED BY <3>3 DEF Pending
  <2>3. \A b \in Artifacts : disk'[b] = IF b = a THEN agent[p].new[b] ELSE disk[b]
    BY <1>3 DEF WriteNext, TypeOK
  <2>4. Aligned' /\ WriterHoldsLock'
    BY <1>1, <1>2, <2>1 DEF Aligned, WriterHoldsLock, AlignInv
  <2>5. WritesAligned'
    BY <1>1, <1>2, <2>1, <2>2, <2>3 DEF WritesAligned, AlignInv
  <2> QED BY <2>4, <2>5 DEF AlignInv
<1>4. CASE Unlock(p)
  <2>1. /\ agent'[p].pc # "writing"
        /\ \A q \in Agents \ {p} : agent'[q] = agent[q]
        /\ lock' = Free
        /\ disk' = disk
    BY <1>0, <1>4 DEF Unlock, Return, Goto, Idle, files, AgentState
  <2>2. Pending(p) = {}
    BY <1>4 DEF Unlock, Pending
  <2>3. \A b \in Artifacts : disk[b] = disk["metadata"]
    BY <1>1, <2>2 DEF AlignInv, WritesAligned, Artifacts
  <2>4. Aligned'
    BY <2>1, <2>3 DEF Aligned
  <2>5. WriterHoldsLock' /\ WritesAligned'
    BY <1>2, <2>1, ConstantsAssumption DEF WriterHoldsLock, WritesAligned, Agents
  <2> QED BY <2>4, <2>5 DEF AlignInv
<1> QED BY <1>3, <1>4

LEMMA AlignEnvironment ==
    ASSUME TypeOK, AlignInv, Environment
    PROVE  AlignInv'
<1>0. agent \in [Agents -> AgentState]
  BY DEF TypeOK
<1>1. ASSUME NEW p \in Requests, AtRest(p), NEW pc, NEW d, pc # "writing",
             agent' = [agent EXCEPT ![p].pc = pc, ![p].doc = d],
             UNCHANGED <<disk, lock>>
      PROVE  AlignInv'
  <2>1. p \in Agents /\ agent[p].pc # "writing" /\ agent'[p].pc # "writing"
    BY <1>0, <1>1 DEF Agents, AtRest, Idle, AgentState
  <2>2. \A q \in Agents \ {p} : agent'[q] = agent[q]
    BY <1>0, <1>1
  <2> QED BY <1>1, <2>1, <2>2, AlignKeptBy
<1>2. ASSUME NEW p \in Requests, NEW d \in Docs, NEW c \in Contents, PanelUpload(p, d, c)
      PROVE  AlignInv'
  BY <1>1, <1>2 DEF PanelUpload, files
<1>3. ASSUME NEW p \in Requests, NEW d \in Docs, PanelReprocess(p, d)
      PROVE  AlignInv'
  BY <1>1, <1>3 DEF PanelReprocess, files
<1>4. ASSUME NEW p \in Requests, NEW d \in Docs, NEW how \in {"panelDelete", "adminDelete"},
             RequestDelete(p, d, how)
      PROVE  AlignInv'
  BY <1>1, <1>4 DEF RequestDelete, files
<1>5. ASSUME NEW ds \in SUBSET Docs, AdminEnqueue(ds)
      PROVE  AlignInv'
  BY <1>0, <1>5, AlignEnqueue DEF AdminEnqueue, files
<1>6. ASSUME NEW d \in Docs, NEW c \in Contents, AdminAdd(d, c)
      PROVE  AlignInv'
  BY <1>6, AlignKept DEF AdminAdd, files
<1>7. ASSUME NEW p \in Agents, NEW d, NEW st, NEW c, Load(p, d, st, c), UNCHANGED <<disk, lock>>
      PROVE  AlignInv'
  <2>1. \A q \in Agents : SamePlace(q)
    BY <1>0, <1>7 DEF Load, SamePlace, AgentState
  <2> QED BY <1>7, <2>1, AlignSame
<1>8. ASSUME NEW p \in Requests, NEW d \in Docs, NEW c \in Contents, LoadForm(p, d, c)
      PROVE  AlignInv'
  BY <1>7, <1>8 DEF LoadForm, files, Agents
<1>9. ASSUME NEW w \in Workers, NEW d \in Docs, NEW c \in Contents, LoadPage(w, d, c)
      PROVE  AlignInv'
  BY <1>7, <1>9 DEF LoadPage, files, Agents
<1> QED BY <1>2, <1>3, <1>4, <1>5, <1>6, <1>8, <1>9 DEF Environment

LEMMA AlignSaveRow ==
    ASSUME TypeOK, AlignInv, NEW p \in Agents, NEW list, SaveRow(p, list)
    PROVE  AlignInv'
<1>1. \A q \in Agents : SamePlace(q)
  BY DEF TypeOK, SaveRow, SamePlace, AgentState
<1> QED BY <1>1, AlignSame DEF SaveRow, files

\* Corpora computed from an aligned corpus are aligned.
LEMMA AlignedArithmetic ==
    ASSUME lock = Free, Aligned, NEW d, NEW c
    PROVE  /\ \A a \in Artifacts : Without(d)[a] = Without(d)["metadata"]
           /\ \A a \in Artifacts : Rebuilt(d, c)[a] = Rebuilt(d, c)["metadata"]
           /\ \A a \in Artifacts : NoFiles[a] = NoFiles["metadata"]
<1>1. "metadata" \in Artifacts
  BY DEF Artifacts
<1>2. \A a \in Artifacts : Read(a) = Read("metadata")
  BY DEF Aligned, Read
<1>3. \A a \in Artifacts : Without(d)[a] = Without(d)["metadata"]
  BY <1>1, <1>2 DEF Without
<1> QED BY <1>1, <1>3 DEF Rebuilt, NoFiles

LEMMA AlignWorker ==
    ASSUME TypeOK, AlignInv, NEW w \in Workers, WorkerStep(w)
    PROVE  AlignInv'
<1>0. w \in Agents /\ agent \in [Agents -> AgentState]
  BY DEF Agents, TypeOK
<1>1. ASSUME agent[w].pc # "writing", agent'[w].pc # "writing", UNCHANGED <<disk, lock>>,
             \A q \in Agents \ {w} : agent'[q] = agent[q]
      PROVE  AlignInv'
  BY <1>0, <1>1, AlignKeptBy
<1>2. CASE Poll(w)
  BY <1>0, <1>1, <1>2 DEF Poll, AtRest, Idle, files, AgentState
<1>3. ASSUME NEW d \in Docs, Begin(w, d) PROVE AlignInv'
  BY <1>0, <1>1, <1>3 DEF Begin, files, AgentState
<1>4. CASE CheckDuplicate(w)
  BY <1>0, <1>1, <1>4 DEF CheckDuplicate, Goto, files, AgentState
<1>5. CASE IndexFails(w)
  BY <1>0, <1>1, <1>5 DEF IndexFails, Goto, files, AgentState
<1>6. CASE IndexLocked(w)
  <2> DEFINE new == Rebuilt(agent[w].doc, agent[w].text)
             todo == <<"chunks", "metadata", "embeddings">>
  <2>1. CASE StartWriting(w, new, todo, "index")
    <3>1. \A a \in Artifacts : new[a] = new["metadata"]
      BY <1>6, AlignedArithmetic DEF IndexLocked, AlignInv
    <3>2. \A a \in Artifacts : \E i \in DOMAIN todo : todo[i] = a
      BY DEF Artifacts
    <3> HIDE DEF new, todo
    <3> QED BY <1>0, <1>6, <2>1, <3>1, <3>2, AlignStart DEF IndexLocked, files
  <2>2. CASE Goto(w, "failing") /\ UNCHANGED lock
    BY <1>0, <1>1, <1>6, <2>2 DEF IndexLocked, Goto, files, AgentState
  <2> QED BY <1>6, <2>1, <2>2 DEF IndexLocked
<1>7. CASE SaveReady(w)
  BY <1>0, <1>1, <1>7 DEF SaveReady, Return, Idle, files
<1>8. CASE SaveFailed(w)
  BY <1>0, <1>1, <1>8 DEF SaveFailed, Return, Idle, files
<1>9. CASE CrawlSave(w)
  BY <1>0, <1>9, AlignSaveRow DEF CrawlSave
<1> QED BY <1>0, <1>2, <1>3, <1>4, <1>5, <1>6, <1>7, <1>8, <1>9, AlignWrites DEF WorkerStep

LEMMA AlignRequest ==
    ASSUME TypeInv, AlignInv, NEW p \in Requests, RequestStep(p)
    PROVE  AlignInv'
<1>0. p \in Agents /\ TypeOK /\ agent \in [Agents -> AgentState]
  BY DEF Agents, TypeInv, TypeOK
<1>1. ASSUME agent[p].pc # "writing", agent'[p].pc # "writing", UNCHANGED <<disk, lock>>,
             \A q \in Agents \ {p} : agent'[q] = agent[q]
      PROVE  AlignInv'
  BY <1>0, <1>1, AlignKeptBy
<1>2. CASE PanelEnqueue(p)
  <2> DEFINE ag == [agent EXCEPT ![p] = Idle({})]
  <2>1. ag \in [Agents -> AgentState]
    BY <1>0, IdleType
  <2>2. \A q \in Agents : ag[q] = agent[q] \/ (agent[q].pc # "writing" /\ ag[q].pc # "writing")
    BY <1>0, <1>2 DEF PanelEnqueue, Idle
  <2>3. {agent[p].doc} \in SUBSET Docs
    BY <1>0, <1>2 DEF PanelEnqueue, TypeInv, TextKnown
  <2>4. Enqueue({agent[p].doc}, ag) /\ UNCHANGED <<disk, lock>>
    BY <1>2 DEF PanelEnqueue, files
  <2> HIDE DEF ag
  <2> QED BY <1>0, <2>1, <2>2, <2>3, <2>4, AlignEnqueue
<1>3. CASE PanelDeleteLocked(p)
  <2> DEFINE d == agent[p].doc
  <2>0. lock = Free /\ disk' = disk /\ agent[p].pc # "writing"
    BY <1>3 DEF PanelDeleteLocked, files
  <2>1. CASE Return(p) /\ UNCHANGED lock
    BY <1>0, <1>1, <2>0, <2>1 DEF Return, Idle
  <2>2. CASE Goto(p, "dropping") /\ UNCHANGED lock
    BY <1>0, <1>1, <2>0, <2>2 DEF Goto, AgentState
  <2>3. CASE StartWriting(p, NoFiles, <<"chunks", "metadata", "embeddings">>, "unlink")
    <3> DEFINE todo == <<"chunks", "metadata", "embeddings">>
    <3>1. \A a \in Artifacts : \E i \in DOMAIN todo : todo[i] = a
      BY DEF Artifacts
    <3>2. \A a \in Artifacts : NoFiles[a] = NoFiles["metadata"]
      BY <2>0, AlignedArithmetic DEF AlignInv
    <3>3. StartWriting(p, NoFiles, todo, "unlink")
      BY <2>3
    <3> HIDE DEF todo
    <3> QED BY <1>0, <2>0, <3>1, <3>2, <3>3, AlignStart
  <2>4. CASE StartWriting(p, Without(d), <<"embeddings", "chunks", "metadata">>, "inplace")
    <3> DEFINE todo == <<"embeddings", "chunks", "metadata">>
               new == Without(d)
    <3>1. \A a \in Artifacts : \E i \in DOMAIN todo : todo[i] = a
      BY DEF Artifacts
    <3>2. \A a \in Artifacts : new[a] = new["metadata"]
      BY <2>0, AlignedArithmetic DEF AlignInv
    <3>3. StartWriting(p, new, todo, "inplace")
      BY <2>4
    <3> HIDE DEF todo, new
    <3> QED BY <1>0, <2>0, <3>1, <3>2, <3>3, AlignStart
  <2> QED BY <1>3, <2>1, <2>2, <2>3, <2>4 DEF PanelDeleteLocked
<1>4. CASE AdminDeleteLocked(p)
  <2> DEFINE d == agent[p].doc
  <2>0. lock = Free /\ disk' = disk /\ agent[p].pc # "writing"
    BY <1>4 DEF AdminDeleteLocked, files
  <2>1. CASE Return(p) /\ UNCHANGED lock
    BY <1>0, <1>1, <2>0, <2>1 DEF Return, Idle
  <2>2. CASE Goto(p, "dropping") /\ UNCHANGED lock
    BY <1>0, <1>1, <2>0, <2>2 DEF Goto, AgentState
  <2>3. CASE StartWriting(p, Without(d), <<"chunks", "metadata", "embeddings">>, "replace")
    <3> DEFINE todo == <<"chunks", "metadata", "embeddings">>
               new == Without(d)
    <3>1. \A a \in Artifacts : \E i \in DOMAIN todo : todo[i] = a
      BY DEF Artifacts
    <3>2. \A a \in Artifacts : new[a] = new["metadata"]
      BY <2>0, AlignedArithmetic DEF AlignInv
    <3>3. StartWriting(p, new, todo, "replace")
      BY <2>3
    <3> HIDE DEF todo, new
    <3> QED BY <1>0, <2>0, <3>1, <3>2, <3>3, AlignStart
  <2> QED BY <1>4, <2>1, <2>2, <2>3 DEF AdminDeleteLocked
<1>5. CASE DeleteTimeout(p)
  BY <1>0, <1>1, <1>5 DEF DeleteTimeout, Return, Idle, files
<1>6. CASE FinishDelete(p)
  BY <1>0, <1>1, <1>6 DEF FinishDelete, Return, Idle, files
<1>7. CASE AdminSave(p)
  BY <1>0, <1>7, AlignSaveRow DEF AdminSave
<1> QED BY <1>0, <1>2, <1>3, <1>4, <1>5, <1>6, <1>7, AlignWrites DEF RequestStep

LEMMA AlignStep == TypeInv /\ AlignInv /\ [Next]_vars => AlignInv'
<1> SUFFICES ASSUME TypeInv, AlignInv, [Next]_vars PROVE AlignInv'
  OBVIOUS
<1>1. CASE UNCHANGED vars
  BY <1>1 DEF vars, files, AlignInv, Aligned, WriterHoldsLock, WritesAligned, Pending
<1>2. CASE Next
  BY <1>2, AlignEnvironment, AlignWorker, AlignRequest DEF Next, TypeInv
<1> QED BY <1>1, <1>2

LEMMA AlignInvariant == Spec => []AlignInv
BY AlignInit, AlignStep, TypeInvariant, PTL DEF Spec

\* The corpus is aligned whenever its lock is free: whoever takes the lock
\* reads three artifacts of one length that describe the same chunks.
THEOREM CorpusAligned == Spec => []Aligned
BY AlignInvariant, PTL DEF AlignInv

-----------------------------------------------------------------------------

\* A step that is not the save of a whole row brings no deleted row back.
LEMMA DeletedStays ==
    ASSUME TypeInv, [Next]_vars, NEW d \in Docs, status[d] = "deleted",
           \A p \in Agents : ~SaveRow(p, {}) /\ ~SaveRow(p, {agent[p].row.doc})
    PROVE  status'[d] = "deleted"
<1>0. status \in [Docs -> {"absent", "uploaded", "queued", "processing",
                           "ready", "failed", "deleted"}]
  BY DEF TypeInv, TypeOK
<1>1. CASE UNCHANGED vars
  BY <1>1 DEF vars, rows
<1>2. CASE Environment
  BY <1>0, <1>2 DEF Environment, PanelUpload, PanelReprocess, RequestDelete, AdminEnqueue,
                    Enqueue, AdminAdd, LoadForm, LoadPage, Exists, rows
<1>3. ASSUME NEW p \in Agents, WriteNext(p) \/ Unlock(p)
      PROVE  status'[d] = "deleted"
  BY <1>0, <1>3 DEF WriteNext, Unlock, DropRow, rows
<1>4. ASSUME NEW w \in Workers, WorkerStep(w)
      PROVE  status'[d] = "deleted"
  BY <1>0, <1>3, <1>4
     DEF WorkerStep, Poll, Begin, CheckDuplicate, IndexFails, IndexLocked, SaveReady,
         SaveFailed, CrawlSave, Exists, rows, Agents
<1>5. ASSUME NEW p \in Requests, RequestStep(p)
      PROVE  status'[d] = "deleted"
  BY <1>0, <1>3, <1>5
     DEF RequestStep, PanelEnqueue, Enqueue, PanelDeleteLocked, AdminDeleteLocked,
         DeleteTimeout, FinishDelete, AdminSave, DropRow, Exists, rows, Agents
<1> QED BY <1>1, <1>2, <1>4, <1>5 DEF Next

LEMMA ResurrectStep ==
    ASSUME TypeInv, [Next]_vars, NEW d \in Docs, status[d] = "deleted", status'[d] # "deleted"
    PROVE  \E p \in Agents : /\ agent[p].row # NoRow /\ agent'[p].row = NoRow
                             /\ agent[p].row.doc = d
<1>1. PICK p \in Agents : SaveRow(p, {}) \/ SaveRow(p, {agent[p].row.doc})
  BY DeletedStays
<1>2. agent[p].row # NoRow /\ agent'[p].row = NoRow
  BY <1>1 DEF TypeInv, TypeOK, AgentState, SaveRow
<1>3. agent[p].row.doc = d
  BY <1>1 DEF TypeInv, TypeOK, SaveRow
<1> QED BY <1>2, <1>3

\* Only somebody who saves the whole row he loaded before brings a deleted
\* row back, whichever worker still had the document in its hands.
THEOREM FormsResurrect == Spec => OnlyFormsResurrect
<1>2. TypeInv /\ [Next]_vars
        => [\A d \in Docs : status[d] = "deleted" /\ status'[d] # "deleted" =>
              \E p \in Agents : /\ agent[p].row # NoRow /\ agent'[p].row = NoRow
                                /\ agent[p].row.doc = d]_vars
  BY ResurrectStep
<1> QED BY <1>2, TypeInvariant, PTL DEF Spec, OnlyFormsResurrect

-----------------------------------------------------------------------------

\* A worker that is idle has no document, and one that writes was indexing.
WorkerForm ==
    \A w \in Workers :
        /\ agent[w].pc = "idle" => agent[w].doc = NoDoc
        /\ agent[w].pc = "writing" => agent[w].kind = "index"
        /\ agent[w].pc \notin {"panelDelete", "adminDelete", "dropping", "enqueue"}

FlightInv == ProcessingIsInFlight /\ WorkerForm

LEMMA FlightInit == Init => FlightInv
BY DEF Init, Idle, FlightInv, ProcessingIsInFlight, WorkerForm, Agents

\* A step that puts no row in "processing" and leaves every worker its
\* document and its place.
LEMMA FlightKept ==
    ASSUME FlightInv, undone \subseteq undone',
           \A d \in Docs \ undone' : status'[d] = "processing" => status[d] = "processing",
           \A w \in Workers : /\ agent'[w].pc = agent[w].pc
                              /\ agent'[w].doc = agent[w].doc
                              /\ agent'[w].kind = agent[w].kind
    PROVE  FlightInv'
BY DEF FlightInv, ProcessingIsInFlight, WorkerForm

\* A step of worker w that keeps its document.
LEMMA FlightOn ==
    ASSUME FlightInv, undone' = undone, NEW w \in Workers,
           \A d \in Docs : status'[d] = "processing" => status[d] = "processing",
           \A v \in Workers \ {w} : agent'[v] = agent[v],
           agent[w].pc # "idle" => agent'[w].doc = agent[w].doc,
           agent'[w].pc \in {"checked", "failing", "writing", "saving"},
           agent'[w].pc = "writing" => agent'[w].kind = "index",
           agent[w].pc # "idle"
    PROVE  FlightInv'
<1>1. WorkerForm'
  BY DEF FlightInv, WorkerForm
<1>2. ASSUME NEW d \in Docs \ undone, status'[d] = "processing"
      PROVE  \E v \in Workers : agent'[v].doc = d
  BY <1>2 DEF FlightInv, ProcessingIsInFlight
<1> QED BY <1>1, <1>2 DEF FlightInv, ProcessingIsInFlight

\* The end of a run of worker w, which leaves its row not "processing".
LEMMA FlightOver ==
    ASSUME FlightInv, undone' = undone, NEW w \in Workers,
           \A d \in Docs : status'[d] = "processing" => status[d] = "processing",
           status'[agent[w].doc] # "processing" \/ agent[w].doc \notin Docs,
           \A v \in Workers \ {w} : agent'[v] = agent[v],
           agent'[w].pc = "idle" /\ agent'[w].doc = NoDoc
    PROVE  FlightInv'
<1>1. WorkerForm'
  BY DEF FlightInv, WorkerForm
<1>2. ASSUME NEW d \in Docs \ undone, status'[d] = "processing"
      PROVE  \E v \in Workers : agent'[v].doc = d
  <2>1. PICK v \in Workers : agent[v].doc = d
    BY <1>2 DEF FlightInv, ProcessingIsInFlight
  <2>2. v # w
    BY <1>2, <2>1
  <2> QED BY <2>1, <2>2
<1> QED BY <1>1, <1>2 DEF FlightInv, ProcessingIsInFlight

LEMMA FlightEnqueue ==
    ASSUME TypeOK, FlightInv, undone' = undone,
           NEW ds, NEW ag \in [Agents -> AgentState], Enqueue(ds, ag),
           \A w \in Workers : ag[w] = agent[w]
    PROVE  FlightInv'
<1>1. \A d \in Docs : status'[d] = "processing" => status[d] = "processing"
  BY DEF Enqueue
<1>2. ASSUME NEW v \in Workers
      PROVE  /\ agent'[v].pc = agent[v].pc
             /\ agent'[v].doc = agent[v].doc
             /\ agent'[v].kind = agent[v].kind
  <2>1. CASE agent' = ag
    BY <2>1
  <2>2. ASSUME NEW w \in Workers, NEW ids, agent' = [ag EXCEPT ![w].list = ids]
        PROVE  /\ agent'[v].pc = agent[v].pc
               /\ agent'[v].doc = agent[v].doc
               /\ agent'[v].kind = agent[v].kind
    BY <2>2 DEF AgentState, Agents
  <2> QED BY <2>1, <2>2 DEF Enqueue
<1> QED BY <1>1, <1>2, FlightKept

LEMMA FlightEnvironment ==
    ASSUME TypeOK, FlightInv, Environment
    PROVE  FlightInv'
<1>0. /\ agent \in [Agents -> AgentState]
      /\ \A p \in Requests : p \in Agents /\ p \notin Workers
      /\ Workers \subseteq Agents
      /\ status \in [Docs -> {"absent", "uploaded", "queued", "processing",
                              "ready", "failed", "deleted"}]
  BY ConstantsAssumption DEF TypeOK, Agents
<1>1. ASSUME NEW p \in Requests, NEW d \in Docs, NEW c \in Contents, PanelUpload(p, d, c)
      PROVE  FlightInv'
  <2>1. \A v \in Workers : agent'[v] = agent[v]
    BY <1>0, <1>1 DEF PanelUpload
  <2>2. /\ undone' = undone
        /\ \A e \in Docs : status'[e] = "processing" => status[e] = "processing"
    BY <1>0, <1>1 DEF PanelUpload
  <2> QED BY <2>1, <2>2, FlightKept
<1>2. ASSUME NEW p \in Requests, NEW d \in Docs, PanelReprocess(p, d)
      PROVE  FlightInv'
  <2>1. \A v \in Workers : agent'[v] = agent[v]
    BY <1>0, <1>2 DEF PanelReprocess
  <2>2. /\ undone' = undone
        /\ \A e \in Docs : status'[e] = "processing" => status[e] = "processing"
    BY <1>0, <1>2 DEF PanelReprocess
  <2> QED BY <2>1, <2>2, FlightKept
<1>3. ASSUME NEW p \in Requests, NEW d \in Docs, NEW how, RequestDelete(p, d, how)
      PROVE  FlightInv'
  <2>1. \A v \in Workers : agent'[v] = agent[v]
    BY <1>0, <1>3 DEF RequestDelete
  <2>2. /\ undone' = undone
        /\ \A e \in Docs : status'[e] = "processing" => status[e] = "processing"
    BY <1>0, <1>3 DEF RequestDelete, rows
  <2> QED BY <2>1, <2>2, FlightKept
<1>4. ASSUME NEW ds \in SUBSET Docs, AdminEnqueue(ds)
      PROVE  FlightInv'
  BY <1>0, <1>4, FlightEnqueue DEF AdminEnqueue
<1>5. ASSUME NEW d \in Docs, NEW c \in Contents, AdminAdd(d, c)
      PROVE  FlightInv'
  BY <1>0, <1>5, FlightKept DEF AdminAdd
<1>6. ASSUME NEW p \in Agents, NEW d, NEW st, NEW c, Load(p, d, st, c), UNCHANGED rows
      PROVE  FlightInv'
  <2>1. \A v \in Workers : SamePlace(v)
    BY <1>0, <1>6 DEF Load, SamePlace, AgentState
  <2> QED BY <1>6, <2>1, FlightKept DEF SamePlace, rows
<1>7. ASSUME NEW p \in Requests, NEW d \in Docs, NEW c \in Contents, LoadForm(p, d, c)
      PROVE  FlightInv'
  BY <1>0, <1>6, <1>7 DEF LoadForm
<1>8. ASSUME NEW w \in Workers, NEW d \in Docs, NEW c \in Contents, LoadPage(w, d, c)
      PROVE  FlightInv'
  BY <1>0, <1>6, <1>8 DEF LoadPage
<1> QED BY <1>1, <1>2, <1>3, <1>4, <1>5, <1>7, <1>8 DEF Environment

\* A stale save can put "processing" back, but then the row counts as undone.
LEMMA FlightSaveRow ==
    ASSUME TypeInv, FlightInv, NEW p \in Agents, NEW list \in SUBSET Docs, SaveRow(p, list)
    PROVE  FlightInv'
<1>1. undone \subseteq undone' /\ \A q \in Agents : SamePlace(q)
  BY SaveRowType
<1>2. ASSUME NEW d \in Docs \ undone', status'[d] = "processing" PROVE status[d] = "processing"
  BY <1>2, SaveRowType
<1> QED BY <1>1, <1>2, FlightKept DEF SamePlace, Agents

LEMMA FlightWorker ==
    ASSUME TypeInv, FlightInv, NEW w \in Workers, WorkerStep(w)
    PROVE  FlightInv'
<1>0. /\ agent \in [Agents -> AgentState] /\ w \in Agents /\ Workers \subseteq Agents
      /\ status \in [Docs -> {"absent", "uploaded", "queued", "processing",
                              "ready", "failed", "deleted"}]
  BY DEF TypeInv, TypeOK, Agents
<1>1. CASE Poll(w)
  <2>1. \A v \in Workers : /\ agent'[v].pc = agent[v].pc
                           /\ agent'[v].doc = agent[v].doc
                           /\ agent'[v].kind = agent[v].kind
    BY <1>0, <1>1 DEF Poll, AgentState
  <2> QED BY <1>1, <2>1, FlightKept DEF Poll, rows
<1>2. ASSUME NEW d \in Docs, Begin(w, d) PROVE FlightInv'
  <2>1. CASE Exists(d)
    <3>1. /\ agent'[w].pc = "loaded" /\ agent'[w].doc = d
          /\ \A v \in Workers \ {w} : agent'[v] = agent[v]
          /\ status' = [status EXCEPT ![d] = "processing"]
      BY <1>0, <1>2, <2>1 DEF Begin, AgentState
    <3>2. WorkerForm'
      BY <3>1 DEF FlightInv, WorkerForm
    <3>3. agent[w].doc = NoDoc
      BY <1>2 DEF Begin, FlightInv, WorkerForm
    <3>4. ASSUME NEW e \in Docs \ undone, status'[e] = "processing"
          PROVE  \E v \in Workers : agent'[v].doc = e
      <4>1. CASE e = d
        BY <3>1, <4>1
      <4>2. CASE e # d
        <5>1. PICK v \in Workers : agent[v].doc = e
          BY <1>0, <3>1, <3>4, <4>2 DEF FlightInv, ProcessingIsInFlight
        <5>2. v # w
          BY <3>3, <5>1, ConstantsAssumption
        <5> QED BY <3>1, <5>1, <5>2
      <4> QED BY <4>1, <4>2
    <3> QED BY <1>2, <3>2, <3>4 DEF Begin, FlightInv, ProcessingIsInFlight
  <2>2. CASE ~Exists(d)
    <3>0. agent' = [agent EXCEPT ![w].list = agent[w].list \ {d}]
      BY <1>2, <2>2 DEF Begin
    <3>1. \A v \in Workers : /\ agent'[v].pc = agent[v].pc
                             /\ agent'[v].doc = agent[v].doc
                             /\ agent'[v].kind = agent[v].kind
      BY <1>0, <3>0 DEF AgentState
    <3> QED BY <1>2, <2>2, <3>1, FlightKept DEF Begin
  <2> QED BY <2>1, <2>2
<1>3. CASE CheckDuplicate(w)
  <2>1. /\ agent'[w].pc \in {"checked", "failing"} /\ agent'[w].doc = agent[w].doc
        /\ \A v \in Workers \ {w} : agent'[v] = agent[v]
        /\ agent[w].pc # "idle" /\ status' = status /\ undone' = undone
    BY <1>0, <1>3 DEF CheckDuplicate, Goto, rows, AgentState
  <2> QED BY <2>1, FlightOn
<1>4. CASE IndexFails(w)
  <2>1. /\ agent'[w].pc = "failing" /\ agent'[w].doc = agent[w].doc
        /\ \A v \in Workers \ {w} : agent'[v] = agent[v]
        /\ agent[w].pc # "idle" /\ status' = status /\ undone' = undone
    BY <1>0, <1>4 DEF IndexFails, Goto, rows, AgentState
  <2> QED BY <2>1, FlightOn
<1>5. CASE IndexLocked(w)
  <2>1. /\ agent'[w].pc \in {"failing", "writing"} /\ agent'[w].doc = agent[w].doc
        /\ agent'[w].pc = "writing" => agent'[w].kind = "index"
        /\ \A v \in Workers \ {w} : agent'[v] = agent[v]
        /\ agent[w].pc # "idle" /\ status' = status /\ undone' = undone
    BY <1>0, <1>5 DEF IndexLocked, StartWriting, Goto, rows, AgentState
  <2> QED BY <2>1, FlightOn
<1>6. CASE WriteNext(w)
  <2>1. \A v \in Workers : /\ agent'[v].pc = agent[v].pc
                           /\ agent'[v].doc = agent[v].doc
                           /\ agent'[v].kind = agent[v].kind
    BY <1>0, <1>6 DEF WriteNext, AgentState
  <2> QED BY <1>6, <2>1, FlightKept DEF WriteNext, rows
<1>7. CASE Unlock(w)
  <2>1. agent[w].pc = "writing" /\ agent[w].kind = "index"
    BY <1>7 DEF Unlock, FlightInv, WorkerForm
  <2>2. /\ agent'[w].pc = "saving" /\ agent'[w].doc = agent[w].doc
        /\ \A v \in Workers \ {w} : agent'[v] = agent[v]
        /\ status' = status /\ undone' = undone
    BY <1>0, <1>7, <2>1 DEF Unlock, Goto, AgentState
  <2> QED BY <2>1, <2>2, FlightOn
<1>8. CASE SaveReady(w) \/ SaveFailed(w)
  <2>1. /\ agent'[w].pc = "idle" /\ agent'[w].doc = NoDoc
        /\ \A v \in Workers \ {w} : agent'[v] = agent[v]
        /\ undone' = undone
    BY <1>0, <1>8 DEF SaveReady, SaveFailed, Return, Idle
  <2>2. /\ \A e \in Docs : status'[e] = "processing" => status[e] = "processing"
        /\ status'[agent[w].doc] # "processing" \/ agent[w].doc \notin Docs
    BY <1>0, <1>8 DEF SaveReady, SaveFailed, Exists
  <2> QED BY <2>1, <2>2, FlightOver
<1>9. CASE CrawlSave(w)
  <2>1. {agent[w].row.doc} \in SUBSET Docs
    BY <1>0, <1>9 DEF CrawlSave, SaveRow, AgentState, Loaded
  <2> QED BY <1>0, <1>9, <2>1, FlightSaveRow DEF CrawlSave
<1> QED BY <1>1, <1>2, <1>3, <1>4, <1>5, <1>6, <1>7, <1>8, <1>9 DEF WorkerStep

LEMMA FlightRequest ==
    ASSUME TypeInv, FlightInv, NEW p \in Requests, RequestStep(p)
    PROVE  FlightInv'
<1>0. /\ agent \in [Agents -> AgentState] /\ p \in Agents
      /\ \A w \in Workers : w \in Agents /\ w # p
      /\ status \in [Docs -> {"absent", "uploaded", "queued", "processing",
                              "ready", "failed", "deleted"}]
  BY ConstantsAssumption DEF TypeInv, TypeOK, Agents
<1>1. CASE PanelEnqueue(p)
  <2> DEFINE ag == [agent EXCEPT ![p] = Idle({})]
  <2>1. ag \in [Agents -> AgentState] /\ \A w \in Workers : ag[w] = agent[w]
    BY <1>0, IdleType
  <2>2. Enqueue({agent[p].doc}, ag) /\ undone' = undone
    BY <1>1 DEF PanelEnqueue
  <2> HIDE DEF ag
  <2> QED BY <2>1, <2>2, FlightEnqueue DEF TypeInv
<1>2. CASE RequestStep(p) /\ ~PanelEnqueue(p) /\ ~AdminSave(p)
  <2>1. \A w \in Workers : agent'[w] = agent[w]
    BY <1>0, <1>2 DEF RequestStep, PanelDeleteLocked, AdminDeleteLocked, DeleteTimeout,
                      WriteNext, Unlock, FinishDelete, Goto, Return, StartWriting
  <2>2. /\ undone' = undone
        /\ \A d \in Docs : status'[d] = "processing" => status[d] = "processing"
    BY <1>0, <1>2 DEF RequestStep, PanelDeleteLocked, AdminDeleteLocked, DeleteTimeout,
                      WriteNext, Unlock, FinishDelete, DropRow, rows
  <2> QED BY <2>1, <2>2, FlightKept
<1> QED BY <1>0, <1>1, <1>2, FlightSaveRow DEF AdminSave

LEMMA FlightStep == TypeInv /\ FlightInv /\ [Next]_vars => FlightInv'
<1> SUFFICES ASSUME TypeInv, FlightInv, [Next]_vars PROVE FlightInv'
  OBVIOUS
<1>1. CASE UNCHANGED vars
  BY <1>1 DEF vars, rows, FlightInv, ProcessingIsInFlight, WorkerForm
<1>2. CASE Next
  BY <1>2, FlightEnvironment, FlightWorker, FlightRequest DEF Next, TypeInv
<1> QED BY <1>1, <1>2

\* No row is left in "processing" by a run that is over: a row in that state
\* is in the hands of a worker (without process deaths, and but for the rows
\* a stale save put old values back in).
THEOREM ProcessingInHand == Spec => []ProcessingIsInFlight
<1>1. Spec => []FlightInv
  BY FlightInit, FlightStep, TypeInvariant, PTL DEF Spec
<1> QED BY <1>1, PTL DEF FlightInv

=============================================================================
