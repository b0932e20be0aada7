---------------------------- MODULE CrawlJobsProofs ----------------------------
(***************************************************************************)
(* Theorems about CrawlJobs for every site, limit, number of jobs, runners *)
(* and deaths.                                                             *)
(***************************************************************************)
EXTENDS CrawlJobs, PositionsProofs

USE DEF tally

\* The first page of a list without repetitions is taken off.
LEMMA TakeFirst ==
    ASSUME NEW T, NEW q \in Seq(T), q # <<>>, IsInjective(q)
    PROVE  /\ Head(q) \in T /\ Tail(q) \in Seq(T)
           /\ ToSet(q) = {Head(q)} \cup ToSet(Tail(q))
           /\ Head(q) \notin ToSet(Tail(q))
           /\ IsInjective(Tail(q))
<1>1. Len(q) \in Nat \ {0} /\ DOMAIN q = 1..Len(q) /\ Head(q) = q[1]
  OBVIOUS
<1>2. Head(q) \in T /\ Tail(q) \in Seq(T)
  OBVIOUS
<1>3. DOMAIN Tail(q) = 1..(Len(q) - 1) /\ \A i \in 1..(Len(q) - 1) : Tail(q)[i] = q[i + 1]
  OBVIOUS
<1>4. \A i, j \in 1..Len(q) : q[i] = q[j] => i = j
  BY <1>1 DEF IsInjective
<1>5. IsInjective(Tail(q))
  BY <1>1, <1>3, <1>4 DEF IsInjective
<1>6. Head(q) \notin ToSet(Tail(q))
  BY <1>1, <1>3, <1>4 DEF ToSet
<1>7. ASSUME NEW x \in ToSet(q) PROVE x = Head(q) \/ x \in ToSet(Tail(q))
  <2>1. PICK i \in 1..Len(q) : x = q[i]
    BY <1>1, <1>7 DEF ToSet
  <2>2. CASE i = 1
    BY <1>1, <2>1, <2>2
  <2>3. CASE i # 1
    <3>1. i - 1 \in 1..(Len(q) - 1) /\ (i - 1) + 1 = i
      BY <1>1, <2>3
    <3>2. Tail(q)[i - 1] = x
      BY <1>3, <2>1, <3>1
    <3> QED BY <1>3, <3>1, <3>2 DEF ToSet
  <2> QED BY <2>2, <2>3
<1>8. Head(q) \in ToSet(q)
  BY <1>1 DEF ToSet
<1>9. ASSUME NEW x \in ToSet(Tail(q)) PROVE x \in ToSet(q)
  <2>1. PICK i \in 1..(Len(q) - 1) : x = q[i + 1]
    BY <1>3, <1>9 DEF ToSet
  <2>2. i + 1 \in 1..Len(q)
    BY <1>1
  <2> QED BY <1>1, <2>1, <2>2 DEF ToSet
<1> QED BY <1>2, <1>5, <1>6, <1>7, <1>8, <1>9

\* Two lists without repetitions, and without a page in common, are joined.
LEMMA Join ==
    ASSUME NEW T, NEW q \in Seq(T), NEW n \in Seq(T), IsInjective(q), IsInjective(n),
           ToSet(q) \cap ToSet(n) = {}
    PROVE  /\ q \o n \in Seq(T)
           /\ ToSet(q \o n) = ToSet(q) \cup ToSet(n)
           /\ IsInjective(q \o n)
<1> DEFINE L == Len(q)
           M == Len(n)
<1>1. L \in Nat /\ M \in Nat /\ DOMAIN q = 1..L /\ DOMAIN n = 1..M
  OBVIOUS
<1>2. q \o n \in Seq(T) /\ DOMAIN (q \o n) = 1..(L + M)
  OBVIOUS
<1>3. \A i \in 1..(L + M) : (q \o n)[i] = IF i <= L THEN q[i] ELSE n[i - L]
  OBVIOUS
<1>4. \A i \in 1..(L + M) :
        \/ i \in 1..L /\ (q \o n)[i] = q[i]
        \/ i \notin 1..L /\ i - L \in 1..M /\ (q \o n)[i] = n[i - L]
  BY <1>1, <1>3
<1>5. \A i \in 1..L : i \in 1..(L + M) /\ (q \o n)[i] = q[i]
  BY <1>1, <1>3
<1>6. \A i \in 1..M : L + i \in 1..(L + M) /\ (q \o n)[L + i] = n[i]
  BY <1>1, <1>3
<1> HIDE DEF L, M
<1>7. ToSet(q \o n) = ToSet(q) \cup ToSet(n)
  BY <1>1, <1>2, <1>4, <1>5, <1>6 DEF ToSet
<1>8. ASSUME NEW i \in 1..(L + M), NEW j \in 1..(L + M), (q \o n)[i] = (q \o n)[j]
      PROVE  i = j
  <2>1. CASE i \in 1..L /\ j \in 1..L
    BY <1>1, <1>5, <1>8, <2>1 DEF IsInjective
  <2>2. CASE i \notin 1..L /\ j \notin 1..L
    <3>1. i - L \in 1..M /\ j - L \in 1..M /\ n[i - L] = n[j - L]
      BY <1>4, <1>8, <2>2
    <3>2. i - L = j - L
      BY <1>1, <3>1 DEF IsInjective
    <3> QED BY <1>1, <3>2
  <2>3. CASE i \in 1..L /\ j \notin 1..L
    <3>1. q[i] = n[j - L] /\ j - L \in 1..M
      BY <1>4, <1>5, <1>8, <2>3
    <3> QED BY <1>1, <2>3, <3>1 DEF ToSet
  <2>4. CASE i \notin 1..L /\ j \in 1..L
    <3>1. q[j] = n[i - L] /\ i - L \in 1..M
      BY <1>4, <1>5, <1>8, <2>4
    <3> QED BY <1>1, <2>4, <3>1 DEF ToSet
  <2> QED BY <2>1, <2>2, <2>3, <2>4
<1> QED BY <1>2, <1>7, <1>8 DEF IsInjective

-----------------------------------------------------------------------------

\* Queue and visited pages are the two parts of what was seen.
Split(s) ==
    /\ s.visited \cap ToSet(s.queue) = {}
    /\ s.visited \cup ToSet(s.queue) = s.seen
    /\ IsInjective(s.queue)

\* What a crawl of job j has seen when it has read the pages of R.
Reached(j, R) == {Start[j]} \cup UNION {Wanted(j, p) : p \in R}

\* The state of a runner.
Sound(s) ==
    /\ s.pc = "idle" <=> s.job = NoJob
    /\ s.processed <= s.found /\ s.found <= MaxPages
    /\ Split(s)
    /\ s.pc \in {"idle", "loaded", "resolve"} =>
            s.queue = <<>> /\ s.seen = {} /\ s.visited = {} /\ s.read = {}
    /\ s.pc = "crawl" => s.seen = Reached(s.job, s.read)

CrawlInv ==
    /\ TypeOK
    /\ \A r \in Runners : Sound(runner[r])
    /\ \A j \in Jobs : job[j].found <= MaxPages

LEMMA EmptyList == IsInjective(<<>>) /\ ToSet(<<>>) = {}
BY DEF IsInjective, ToSet

LEMMA RestingSound ==
    ASSUME NEW list \in SUBSET Jobs
    PROVE  Resting(list) \in RunnerState /\ Sound(Resting(list))
<1>1. Resting(list) \in RunnerState
  BY DEF Resting, RunnerState
<1>2. Sound(Resting(list))
  BY EmptyList, CrawlAssumption DEF Resting, Sound, Split
<1> QED BY <1>1, <1>2

\* A step of one runner.
LEMMA OneRunner ==
    ASSUME CrawlInv, NEW r \in Runners, NEW s \in RunnerState, Sound(s),
           runner' = [runner EXCEPT ![r] = s]
    PROVE  runner' \in [Runners -> RunnerState] /\ \A q \in Runners : Sound(runner'[q])
<1>1. runner \in [Runners -> RunnerState] /\ \A q \in Runners : Sound(runner[q])
  BY DEF CrawlInv, TypeOK
<1>2. \A q \in Runners : runner'[q] = IF q = r THEN s ELSE runner[q]
  BY <1>1
<1> QED BY <1>1, <1>2

\* A step that leaves the rows alone.
LEMMA RunnerOnly ==
    ASSUME CrawlInv, UNCHANGED <<job, ops>>, deaths' \in Nat, died' \subseteq Jobs,
           overlapped' \subseteq Jobs,
           runner' \in [Runners -> RunnerState] /\ \A q \in Runners : Sound(runner'[q])
    PROVE  CrawlInv'
BY DEF CrawlInv, TypeOK

LEMMA CrawlInit == Init => CrawlInv
<1> SUFFICES ASSUME Init PROVE CrawlInv
  OBVIOUS
<1>1. Resting({}) \in RunnerState /\ Sound(Resting({}))
  BY RestingSound
<1>2. TypeOK /\ \A j \in Jobs : job[j].found <= MaxPages
  BY <1>1, CrawlAssumption DEF Init, TypeOK, NoRow
<1> QED BY <1>1, <1>2 DEF CrawlInv, Init

LEMMA CrawlSpawn ==
    ASSUME CrawlInv, NEW j \in Jobs, Spawn(j)
    PROVE  runner' \in [Runners -> RunnerState] /\ \A q \in Runners : Sound(runner'[q])
<1>1. CASE UNCHANGED runner
  BY <1>1 DEF CrawlInv, TypeOK
<1>2. ASSUME NEW r \in Runners, runner' = [runner EXCEPT ![r] = Resting({j})]
      PROVE  runner' \in [Runners -> RunnerState] /\ \A q \in Runners : Sound(runner'[q])
  BY <1>2, RestingSound, OneRunner
<1> QED BY <1>1, <1>2 DEF Spawn

LEMMA CrawlPanel ==
    ASSUME CrawlInv, NEW j \in Jobs, PanelCrawl(j) \/ PanelRecrawl(j)
    PROVE  CrawlInv'
<1>1. runner' \in [Runners -> RunnerState] /\ \A q \in Runners : Sound(runner'[q])
  BY CrawlSpawn DEF PanelCrawl, PanelRecrawl
<1>2. ops' \in Nat /\ UNCHANGED <<deaths, died>>
  BY DEF CrawlInv, TypeOK, PanelCrawl, PanelRecrawl, Operation
<1>5. overlapped' \subseteq Jobs
  BY DEF CrawlInv, TypeOK, PanelCrawl, PanelRecrawl
<1>3. \A i \in Jobs : job'[i] \in [status : {"absent", "queued", "running", "done", "failed"},
                                   found : Nat, indexed : Nat, failed : Nat]
                      /\ job'[i].found = job[i].found
  <2>1. job[j] \in [status : {"absent", "queued", "running", "done", "failed"},
                    found : Nat, indexed : Nat, failed : Nat]
    BY DEF CrawlInv, TypeOK
  <2>2. \A i \in Jobs : i # j => job'[i] = job[i]
    BY DEF CrawlInv, TypeOK, PanelCrawl, PanelRecrawl
  <2>3. job'[j] = [job[j] EXCEPT !.status = "queued"]
        \/ job'[j] = [job[j] EXCEPT !.status = "queued", !.indexed = 0, !.failed = 0]
    BY DEF CrawlInv, TypeOK, PanelCrawl, PanelRecrawl
  <2>4. job'[j] \in [status : {"absent", "queued", "running", "done", "failed"},
                     found : Nat, indexed : Nat, failed : Nat] /\ job'[j].found = job[j].found
    <3>1. CASE job'[j] = [job[j] EXCEPT !.status = "queued"]
      BY <2>1, <3>1
    <3>2. CASE job'[j] = [job[j] EXCEPT !.status = "queued", !.indexed = 0, !.failed = 0]
      <4> DEFINE row == job[j]
                 new == [row EXCEPT !.status = "queued", !.indexed = 0, !.failed = 0]
      <4>1. new.status = "queued" /\ new.found = row.found /\ new.indexed = 0 /\ new.failed = 0
        BY <2>1
      <4>2. new \in [status : {"absent", "queued", "running", "done", "failed"},
                     found : Nat, indexed : Nat, failed : Nat]
        BY <2>1
      <4> QED BY <3>2, <4>1, <4>2
    <3> QED BY <2>3, <3>1, <3>2
  <2> QED BY <2>2, <2>4 DEF CrawlInv, TypeOK
<1>4. job' \in [Jobs -> [status : {"absent", "queued", "running", "done", "failed"},
                         found : Nat, indexed : Nat, failed : Nat]]
  BY <1>3 DEF CrawlInv, TypeOK, PanelCrawl, PanelRecrawl
<1> QED BY <1>1, <1>2, <1>3, <1>4, <1>5 DEF CrawlInv, TypeOK

LEMMA CrawlStarts ==
    ASSUME CrawlInv, NEW r \in Runners,
           Poll(r) \/ (\E j \in Jobs : Load(r, j)) \/ Mark(r) \/ Resolve(r) \/ Raises(r) \/ Dies(r)
    PROVE  CrawlInv'
<1> DEFINE s == runner[r]
<1>0. /\ s \in RunnerState /\ Sound(s) /\ s.list \subseteq Jobs
      /\ deaths \in Nat /\ died \subseteq Jobs /\ overlapped \subseteq Jobs
  BY DEF CrawlInv, TypeOK, RunnerState
<1> DEFINE Done == runner' \in [Runners -> RunnerState] /\ \A q \in Runners : Sound(runner'[q])
<1>1. CASE Poll(r)
  <2> DEFINE ids == Queued
  <2>1. s = Resting({}) /\ runner' = [runner EXCEPT ![r].list = ids]
    BY <1>1 DEF Poll
  <2> DEFINE t == [s EXCEPT !.list = ids]
  <2>2. ids \in SUBSET Jobs
    BY DEF Queued
  <2>3. t \in RunnerState /\ Sound(t)
    <3> HIDE DEF ids
    <3> QED BY <1>0, <2>2 DEF RunnerState, Sound, Split
  <2>4. Done
    <3>1. runner' = [runner EXCEPT ![r] = t]
      BY <2>1
    <3> HIDE DEF t
    <3> QED BY <2>3, <3>1, OneRunner
  <2> QED BY <1>0, <1>1, <2>2, <2>4, RunnerOnly DEF Poll
<1>2. ASSUME NEW j \in Jobs, Load(r, j) PROVE CrawlInv'
  <2> DEFINE rest == s.list \ {j}
             t == [Resting(rest) EXCEPT !.pc = "loaded", !.job = j, !.found = job[j].found,
                                        !.indexed = job[j].indexed, !.failed = job[j].failed]
  <2>1. Resting(rest) \in RunnerState /\ Sound(Resting(rest))
    BY <1>0, RestingSound
  <2>2. t \in RunnerState /\ Sound(t)
    <3>1. /\ job[j].found \in Nat /\ job[j].indexed \in Nat /\ job[j].failed \in Nat
          /\ job[j].found <= MaxPages /\ j # NoJob
      BY CrawlAssumption DEF CrawlInv, TypeOK
    <3>2. t \in RunnerState
      BY <2>1, <3>1 DEF RunnerState
    <3>3. Sound(t)
      BY <2>1, <3>1 DEF Sound, Split, Resting
    <3> QED BY <3>2, <3>3
  <2>3. Done
    <3> HIDE DEF t
    <3>1. runner' = [runner EXCEPT ![r] = Resting(rest)] \/ runner' = [runner EXCEPT ![r] = t]
      BY <1>2 DEF Load, t
    <3> QED BY <2>1, <2>2, <3>1, OneRunner
  <2> QED BY <1>0, <1>2, <2>3, RunnerOnly DEF Load
<1>3. CASE Mark(r)
  <2> DEFINE t == [s EXCEPT !.pc = "resolve"]
  <2>1. s.pc = "loaded" /\ s.job \in Jobs
    BY <1>0, <1>3 DEF Mark, Sound, RunnerState
  <2>2. t \in RunnerState /\ Sound(t)
    BY <1>0, <2>1 DEF RunnerState, Sound, Split
  <2>3. runner' = [runner EXCEPT ![r] = t]
    BY <1>3 DEF Mark
  <2>4. Done
    BY <2>2, <2>3, OneRunner
  <2>5. job' \in [Jobs -> [status : {"absent", "queued", "running", "done", "failed"},
                           found : Nat, indexed : Nat, failed : Nat]]
        /\ \A j \in Jobs : job'[j].found = job[j].found
    <3>1. job' = [job EXCEPT ![s.job].status = "running"]
      BY <1>3 DEF Mark
    <3> QED BY <2>1, <3>1 DEF CrawlInv, TypeOK
  <2>6. UNCHANGED <<ops, deaths, overlapped>> /\ died' \subseteq Jobs
    BY <1>0, <1>3 DEF Mark
  <2> QED BY <2>4, <2>5, <2>6 DEF CrawlInv, TypeOK
<1>4. CASE Resolve(r)
  <2> DEFINE start == Start[s.job]
             t == [s EXCEPT !.pc = "crawl", !.queue = <<start>>, !.seen = {start}]
  <2>1. s.pc = "resolve" /\ s.job \in Jobs /\ start \in Pages
    BY <1>0, <1>4, CrawlAssumption DEF Resolve, Sound, RunnerState
  <2>2. ToSet(<<start>>) = {start} /\ IsInjective(<<start>>)
    BY DEF ToSet, IsInjective
  <2>3. s.read = {} /\ s.visited = {} /\ Reached(s.job, {}) = {start}
    BY <1>0, <2>1 DEF Sound, Reached
  <2>4. t \in RunnerState
    <3>1. <<start>> \in Seq(Pages) /\ {start} \in SUBSET Pages
      BY <2>1
    <3> HIDE DEF start
    <3> QED BY <1>0, <3>1 DEF RunnerState
  <2>5. Split(t)
    BY <1>0, <2>2, <2>3 DEF Split, RunnerState
  <2>6. Sound(t)
    <3>1. t.pc = "crawl" /\ t.seen = Reached(t.job, t.read)
      BY <1>0, <2>1, <2>3 DEF RunnerState
    <3>2. t.job = s.job /\ t.processed = s.processed /\ t.found = s.found /\ t.job # NoJob
      BY <1>0, <2>1, CrawlAssumption DEF RunnerState
    <3> HIDE DEF t
    <3> QED BY <1>0, <2>5, <3>1, <3>2 DEF Sound
  <2>7. runner' = [runner EXCEPT ![r] = t]
    BY <1>4 DEF Resolve
  <2>8. Done
    <3> HIDE DEF t
    <3> QED BY <2>4, <2>6, <2>7, OneRunner
  <2> QED BY <1>0, <1>4, <2>8, RunnerOnly DEF Resolve
<1>5. CASE Raises(r)
  <2> DEFINE t == [s EXCEPT !.pc = "failing"]
  <2>1. s.pc # "idle"
    BY <1>5 DEF Raises, HasNext
  <2>2. t \in RunnerState /\ Sound(t)
    BY <1>0, <2>1 DEF RunnerState, Sound, Split
  <2>3. runner' = [runner EXCEPT ![r] = t]
    BY <1>5 DEF Raises
  <2>4. Done
    BY <2>2, <2>3, OneRunner
  <2> QED BY <1>0, <1>5, <2>4, RunnerOnly DEF Raises
<1>6. CASE Dies(r)
  <2>1. Done
    BY <1>6, RestingSound, OneRunner DEF Dies
  <2>2. died' \subseteq Jobs /\ deaths' \in Nat
    <3>1. s.pc # "idle" => s.job \in Jobs
      BY <1>0 DEF Sound, RunnerState
    <3> QED BY <1>0, <1>6, <3>1 DEF Dies
  <2> QED BY <1>0, <1>6, <2>1, <2>2, RunnerOnly DEF Dies
<1> QED BY <1>1, <1>2, <1>3, <1>4, <1>5, <1>6

\* Taking the next URL from the queue keeps what was seen.
LEMMA PoppedSound ==
    ASSUME CrawlInv, NEW r \in Runners, HasNext(r)
    PROVE  LET s == runner[r]
               t == Popped(r)
               url == Head(s.queue)
           IN  /\ s \in RunnerState /\ Sound(s) /\ t \in RunnerState /\ Sound(t)
               /\ s.pc = "crawl" /\ s.job \in Jobs /\ s.processed < MaxPages
               /\ t = [s EXCEPT !.queue = Tail(s.queue), !.visited = s.visited \cup {url}]
               /\ url \in Pages
<1> DEFINE s == runner[r]
           url == Head(s.queue)
           t == Popped(r)
<1>1. s \in RunnerState /\ Sound(s) /\ s.pc = "crawl" /\ s.queue # <<>> /\ s.processed < MaxPages
  BY DEF CrawlInv, TypeOK, HasNext
<1>2. /\ s.queue \in Seq(Pages) /\ Split(s) /\ s.job \in Jobs
      /\ s.visited \subseteq Pages /\ s.pc # "idle"
  BY <1>1 DEF RunnerState, Sound
<1>3. /\ url \in Pages /\ Tail(s.queue) \in Seq(Pages)
      /\ ToSet(s.queue) = {url} \cup ToSet(Tail(s.queue))
      /\ url \notin ToSet(Tail(s.queue)) /\ IsInjective(Tail(s.queue))
  BY <1>1, <1>2, TakeFirst DEF Split
<1>4. t = [s EXCEPT !.queue = Tail(s.queue), !.visited = s.visited \cup {url}]
  BY DEF Popped
<1> DEFINE rest == Tail(s.queue)
           seen == s.visited \cup {url}
<1>5. seen \subseteq Pages /\ rest \in Seq(Pages)
  BY <1>2, <1>3
<1>6. /\ seen \cap ToSet(rest) = {} /\ seen \cup ToSet(rest) = s.seen /\ IsInjective(rest)
  BY <1>2, <1>3 DEF Split
<1> HIDE DEF rest, seen
<1>7. t = [s EXCEPT !.queue = rest, !.visited = seen]
  BY <1>4 DEF rest, seen
<1>8. t \in RunnerState
  BY <1>1, <1>5, <1>7 DEF RunnerState
<1>9. t.queue = rest /\ t.visited = seen /\ t.seen = s.seen /\ t.pc = s.pc /\ t.job = s.job
      /\ t.processed = s.processed /\ t.found = s.found /\ t.read = s.read
  BY <1>1, <1>7 DEF RunnerState
<1>10. Split(t)
  BY <1>6, <1>9 DEF Split
<1>11. Sound(t)
  BY <1>1, <1>9, <1>10 DEF Sound
<1> QED BY <1>1, <1>2, <1>3, <1>4, <1>8, <1>11

\* The links put in the queue are the wanted ones that were not seen, once each.
LEMMA NewLinksOnce ==
    ASSUME NEW r \in Runners, NEW p \in Pages
    PROVE  LET new == Pick(Links[p], NewLinks(r, p))
           IN  /\ new \in Seq(Pages) /\ IsInjective(new)
               /\ ToSet(new) = Wanted(runner[r].job, p) \ runner[r].seen
<1> DEFINE s == Links[p]
           N == NewLinks(r, p)
           W == Wanted(runner[r].job, p) \ runner[r].seen
           new == Pick(s, N)
<1>1. s \in Seq(Pages) /\ Len(s) \in Nat /\ DOMAIN s = 1..Len(s)
  BY CrawlAssumption
<1>2. N \in SUBSET DOMAIN s
  BY DEF NewLinks
<1>3. \A i \in N : s[i] \in W /\ i \in 1..Len(s) /\ \A k \in 1..(i - 1) : s[k] # s[i]
  BY <1>1 DEF NewLinks
<1>4. ASSUME NEW i \in N, NEW j \in N, s[i] = s[j] PROVE i = j
  <2>1. i \in Nat \ {0} /\ j \in Nat \ {0}
    BY <1>1, <1>3
  <2>2. ~(i < j) /\ ~(j < i)
    <3>1. CASE i < j
      <4>1. i \in 1..(j - 1)
        BY <2>1, <3>1
      <4> QED BY <1>3, <1>4, <4>1
    <3>2. CASE j < i
      <4>1. j \in 1..(i - 1)
        BY <2>1, <3>2
      <4> QED BY <1>3, <1>4, <4>1
    <3> QED BY <3>1, <3>2
  <2> QED BY <2>1, <2>2
<1>5. ASSUME NEW q \in W PROVE \E i \in N : s[i] = q
  <2> DEFINE At == {i \in 1..Len(s) : s[i] = q}
  <2>1. q \in ToSet(s)
    BY DEF Wanted
  <2>2. At # {} /\ At \in SUBSET Nat /\ At \in SUBSET (1..Len(s))
    BY <1>1, <2>1 DEF ToSet
  <2>3. IsFiniteSet(At)
    <3>1. IsFiniteSet(1..Len(s))
      BY <1>1, FS_Interval
    <3> HIDE DEF At
    <3> QED BY <2>2, <3>1, FS_Subset
  <2>4. PICK m \in At : \A k \in At : m <= k
    <3> HIDE DEF At
    <3> QED BY <2>2, <2>3, LeastExists
  <2>5. ASSUME NEW k \in 1..(m - 1) PROVE s[k] # s[m]
    <3>1. k \in 1..Len(s) /\ k < m /\ ~(m <= k)
      BY <1>1, <2>4
    <3> QED BY <2>4, <3>1
  <2>6. m \in N
    BY <1>1, <2>4, <2>5 DEF NewLinks
  <2> QED BY <2>4, <2>6
<1> HIDE DEF s, N, W
<1>6. new \in Seq(Pages)
  BY <1>1, <1>2, PickType
<1>7. /\ \A x : (\E n \in DOMAIN new : new[n] = x) <=> \E i \in N : s[i] = x
      /\ \A m, n \in DOMAIN new : new[m] = new[n] => m = n
  BY <1>1, <1>2, <1>4, PickEntries
<1>8. IsInjective(new)
  BY <1>7 DEF IsInjective
<1>9. ToSet(new) = W
  <2>1. \A x : x \in ToSet(new) <=> \E n \in DOMAIN new : new[n] = x
    BY DEF ToSet
  <2>2. \A x : x \in ToSet(new) <=> \E i \in N : s[i] = x
    BY <1>7, <2>1
  <2>3. \A x : x \in W <=> \E i \in N : s[i] = x
    BY <1>3, <1>5
  <2> QED BY <2>2, <2>3
<1> QED BY <1>6, <1>8, <1>9 DEF s, N, W

\* Following the links of the page that is read keeps the runner sound.
LEMMA FollowSound ==
    ASSUME CrawlInv, NEW r \in Runners, HasNext(r)
    PROVE  LET s == runner[r]
               t == Follow(r, Head(s.queue))
           IN  t \in RunnerState /\ Sound(t) /\ t.processed = s.processed /\ t.pc = "crawl"
<1> DEFINE s == runner[r]
           url == Head(s.queue)
           p == Popped(r)
           new == Pick(Links[url], NewLinks(r, url))
           t == Follow(r, url)
<1>1. /\ s \in RunnerState /\ Sound(s) /\ p \in RunnerState /\ Sound(p)
      /\ s.pc = "crawl" /\ s.job \in Jobs
      /\ p = [s EXCEPT !.queue = Tail(s.queue), !.visited = s.visited \cup {url}]
      /\ url \in Pages
  BY PoppedSound
<1>2. /\ new \in Seq(Pages) /\ IsInjective(new)
      /\ ToSet(new) = Wanted(s.job, url) \ s.seen
  BY <1>1, NewLinksOnce
<1>3. t = [p EXCEPT !.queue = p.queue \o new, !.seen = p.seen \cup ToSet(new), !.read = p.read \cup {url}]
  BY DEF Follow
<1>4. /\ p.seen = s.seen /\ p.read = s.read /\ p.pc = "crawl" /\ p.job = s.job
      /\ p.processed = s.processed /\ p.found = s.found
  BY <1>1 DEF RunnerState
<1>5. p.queue \in Seq(Pages) /\ Split(p) /\ p.seen \subseteq Pages /\ p.read \subseteq Pages
  BY <1>1 DEF RunnerState, Sound
<1>6. Wanted(s.job, url) \subseteq Pages
  <2>1. Links[url] \in Seq(Pages)
    BY <1>1, CrawlAssumption
  <2>2. ToSet(Links[url]) \subseteq Pages
    BY <2>1 DEF ToSet
  <2> QED BY <2>2 DEF Wanted
<1> HIDE DEF p, new, url, t, s
<1>7. /\ p.queue \o new \in Seq(Pages)
      /\ ToSet(p.queue \o new) = ToSet(p.queue) \cup ToSet(new)
      /\ IsInjective(p.queue \o new)
  <2>1. ToSet(p.queue) \cap ToSet(new) = {}
    BY <1>2, <1>4, <1>5 DEF Split
  <2> QED BY <1>2, <1>5, <2>1, Join DEF Split
<1> DEFINE queue == p.queue \o new
           seen == p.seen \cup ToSet(new)
           read == p.read \cup {url}
<1>8. queue \in Seq(Pages) /\ seen \subseteq Pages /\ read \subseteq Pages
  BY <1>1, <1>2, <1>5, <1>6, <1>7
<1>9. seen = Reached(s.job, read)
  <2>1. s.seen = Reached(s.job, s.read)
    BY <1>1 DEF Sound
  <2>2. seen = s.seen \cup Wanted(s.job, url)
    BY <1>2, <1>4
  <2> QED BY <1>4, <2>1, <2>2 DEF Reached
<1>10. /\ p.visited \cap ToSet(queue) = {} /\ p.visited \cup ToSet(queue) = seen
       /\ IsInjective(queue)
  BY <1>2, <1>4, <1>5, <1>7 DEF Split
<1> HIDE DEF queue, seen, read
<1>11. t = [p EXCEPT !.queue = queue, !.seen = seen, !.read = read]
  BY <1>3 DEF queue, seen, read
<1>12. t \in RunnerState
  BY <1>1, <1>8, <1>11 DEF RunnerState
<1>13. /\ t.queue = queue /\ t.seen = seen /\ t.read = read /\ t.visited = p.visited
       /\ t.pc = "crawl" /\ t.job = s.job /\ t.processed = s.processed /\ t.found = s.found
  BY <1>1, <1>4, <1>11 DEF RunnerState
<1>14. Split(t)
  BY <1>10, <1>13 DEF Split
<1>15. Sound(t)
  BY <1>1, <1>9, <1>13, <1>14 DEF Sound
<1> QED BY <1>12, <1>13, <1>15 DEF t, s, url

\* The counters of a runner that stays within the limit.
LEMMA CountersSound ==
    ASSUME NEW s \in RunnerState, Sound(s), NEW n \in Nat
    PROVE  /\ [s EXCEPT !.failed = n] \in RunnerState /\ Sound([s EXCEPT !.failed = n])
           /\ [s EXCEPT !.indexed = n] \in RunnerState /\ Sound([s EXCEPT !.indexed = n])
           /\ n <= MaxPages =>
                /\ [s EXCEPT !.processed = n, !.found = n] \in RunnerState
                /\ Sound([s EXCEPT !.processed = n, !.found = n])
<1>1. [s EXCEPT !.failed = n] \in RunnerState /\ Sound([s EXCEPT !.failed = n])
  BY DEF RunnerState, Sound, Split
<1>2. [s EXCEPT !.indexed = n] \in RunnerState /\ Sound([s EXCEPT !.indexed = n])
  BY DEF RunnerState, Sound, Split
<1>3. ASSUME n <= MaxPages
      PROVE  /\ [s EXCEPT !.processed = n, !.found = n] \in RunnerState
             /\ Sound([s EXCEPT !.processed = n, !.found = n])
  <2> DEFINE t == [s EXCEPT !.processed = n, !.found = n]
  <2>1. t \in RunnerState
    BY DEF RunnerState
  <2>2. /\ t.pc = s.pc /\ t.job = s.job /\ t.queue = s.queue /\ t.seen = s.seen
        /\ t.visited = s.visited /\ t.read = s.read
        /\ t.processed = n /\ t.found = n /\ n <= n
    BY DEF RunnerState
  <2>3. Sound(t)
    <3> HIDE DEF t
    <3> QED BY <1>3, <2>2 DEF Sound, Split
  <2> QED BY <2>1, <2>3
<1> QED BY <1>1, <1>2, <1>3

LEMMA CrawlPage ==
    ASSUME CrawlInv, NEW r \in Runners,
           Refuse(r) \/ Unreachable(r) \/ ReadShort(r) \/ ReadAndIndex(r)
    PROVE  CrawlInv'
<1> DEFINE s == runner[r]
           p == Popped(r)
           f == Follow(r, Head(s.queue))
<1>1. HasNext(r) /\ UNCHANGED <<job, tally>>
  BY DEF Refuse, Unreachable, ReadShort, ReadAndIndex
<1>2. p \in RunnerState /\ Sound(p) /\ s.processed < MaxPages /\ s \in RunnerState /\ MaxPages \in Nat
  BY <1>1, PoppedSound, CrawlAssumption
<1>3. f \in RunnerState /\ Sound(f) /\ f.processed = s.processed /\ f.pc = "crawl"
  BY <1>1, FollowSound
<1>4. \E t \in RunnerState : Sound(t) /\ runner' = [runner EXCEPT ![r] = t]
  <2> HIDE DEF p, f
  <2>1. CASE Refuse(r)
    BY <1>2, <2>1 DEF Refuse, p
  <2>2. CASE Unreachable(r)
    <3> DEFINE n == p.failed + 1
    <3>1. n \in Nat
      BY <1>2 DEF RunnerState
    <3>2. runner' = [runner EXCEPT ![r] = [p EXCEPT !.failed = n]]
      BY <2>2 DEF Unreachable, p
    <3> HIDE DEF n
    <3> QED BY <1>2, <3>1, <3>2, CountersSound
  <2>3. CASE ReadShort(r)
    BY <1>3, <2>3 DEF ReadShort, f
  <2>4. CASE ReadAndIndex(r)
    <3> DEFINE k == s.processed + 1
               n == [f EXCEPT !.processed = k, !.found = k]
               indexed == n.indexed + 1
               failed == n.failed + 1
    <3>1. k \in Nat /\ k <= MaxPages
      BY <1>2 DEF RunnerState
    <3>2. \/ runner' = [runner EXCEPT ![r] = [n EXCEPT !.indexed = indexed]]
          \/ runner' = [runner EXCEPT ![r] = [n EXCEPT !.failed = failed]]
          \/ runner' = [runner EXCEPT ![r] = n]
      BY <1>3, <2>4 DEF ReadAndIndex, f
    <3>3. n \in RunnerState /\ Sound(n)
      <4> HIDE DEF k
      <4> QED BY <1>3, <3>1, CountersSound
    <3> HIDE DEF n
    <3>4. indexed \in Nat /\ failed \in Nat
      BY <3>3 DEF RunnerState
    <3> HIDE DEF indexed, failed
    <3> QED BY <3>2, <3>3, <3>4, CountersSound
  <2> QED BY <2>1, <2>2, <2>3, <2>4
<1>5. runner' \in [Runners -> RunnerState] /\ \A q \in Runners : Sound(runner'[q])
  BY <1>4, OneRunner
<1>6. deaths' \in Nat /\ died' \subseteq Jobs /\ overlapped' \subseteq Jobs
  BY <1>1 DEF CrawlInv, TypeOK
<1> QED BY <1>1, <1>5, <1>6, RunnerOnly

\* The end of a run writes counters that are within the limit.
LEMMA CrawlEnd ==
    ASSUME CrawlInv, NEW r \in Runners, Finish(r) \/ FailJob(r)
    PROVE  CrawlInv'
<1> DEFINE s == runner[r]
<1>1. PICK status \in {"done", "failed"} : Save(r, status) /\ s.pc # "idle"
  BY DEF Finish, FailJob
<1>2. s \in RunnerState /\ Sound(s)
  BY DEF CrawlInv, TypeOK
<1>3. /\ s.job \in Jobs /\ s.found <= MaxPages /\ s.list \in SUBSET Jobs
      /\ s.found \in Nat /\ s.indexed \in Nat /\ s.failed \in Nat
  BY <1>1, <1>2 DEF RunnerState, Sound
<1>4. runner' \in [Runners -> RunnerState] /\ \A q \in Runners : Sound(runner'[q])
  BY <1>1, <1>3, RestingSound, OneRunner DEF Save
<1> DEFINE row == [status |-> status, found |-> s.found, indexed |-> s.indexed, failed |-> s.failed]
<1>5. /\ row \in [status : {"absent", "queued", "running", "done", "failed"},
                  found : Nat, indexed : Nat, failed : Nat]
      /\ row.found <= MaxPages
  BY <1>3
<1>6. job' = [job EXCEPT ![s.job] = row]
  BY <1>1 DEF Save
<1> HIDE DEF row
<1>7. /\ job' \in [Jobs -> [status : {"absent", "queued", "running", "done", "failed"},
                            found : Nat, indexed : Nat, failed : Nat]]
      /\ \A j \in Jobs : job'[j].found <= MaxPages
  BY <1>5, <1>6 DEF CrawlInv, TypeOK
<1> QED BY <1>1, <1>4, <1>7 DEF CrawlInv, TypeOK, Save

LEMMA CrawlStep == CrawlInv /\ [Next]_vars => CrawlInv'
<1> SUFFICES ASSUME CrawlInv, [Next]_vars PROVE CrawlInv'
  OBVIOUS
<1>1. ASSUME NEW j \in Jobs, PanelCrawl(j) \/ PanelRecrawl(j) PROVE CrawlInv'
  BY <1>1, CrawlPanel
<1>2. ASSUME NEW r \in Runners, RunnerStep(r) \/ Dies(r) PROVE CrawlInv'
  BY <1>2, CrawlStarts, CrawlPage, CrawlEnd DEF RunnerStep
<1>3. CASE UNCHANGED vars
  BY <1>3 DEF vars, CrawlInv, TypeOK
<1> QED BY <1>1, <1>2, <1>3 DEF Next

LEMMA CrawlInvariant == Spec => []CrawlInv
BY CrawlInit, CrawlStep, PTL DEF Spec

\* Rows and runners have their types, however many runs overlap, fail or die.
THEOREM CrawlType == Spec => []TypeOK
<1>1. CrawlInv => TypeOK
  BY DEF CrawlInv
<1> QED BY <1>1, CrawlInvariant, PTL

\* On every site, whatever its pages link to, a run takes a page at most once
\* from its queue.
THEOREM CrawlVisitsOnce == Spec => []VisitsOnce
<1>1. CrawlInv => VisitsOnce
  BY DEF CrawlInv, VisitsOnce, Sound, Split
<1> QED BY <1>1, CrawlInvariant, PTL

\* On every site a run that empties its queue has visited what can be reached
\* from the start page over the wanted links of pages it could read.
THEOREM CrawlCompletes == Spec => []CrawlIsComplete
<1>1. CrawlInv => CrawlIsComplete
  <2> SUFFICES ASSUME CrawlInv, NEW r \in Runners,
                      runner[r].pc = "crawl", runner[r].queue = <<>>
               PROVE  runner[r].visited = Reached(runner[r].job, runner[r].read)
    BY DEF CrawlIsComplete, Reached
  <2>1. Sound(runner[r])
    BY DEF CrawlInv
  <2>2. runner[r].visited = runner[r].seen
    BY <2>1, EmptyList DEF Sound, Split
  <2> QED BY <2>1, <2>2 DEF Sound
<1> QED BY <1>1, CrawlInvariant, PTL

-----------------------------------------------------------------------------

\* A step of runner r leaves job i with its run, or with one that died.
LEMMA RunStays ==
    ASSUME CrawlInv, RunningIsRun, NEW r \in Runners, NEW t,
           runner' = [runner EXCEPT ![r] = t], NEW i \in Jobs,
           job'[i].status = "running" => job[i].status = "running",
           i \in died => i \in died',
           \/ runner[r].job # i
           \/ runner[r].pc = "loaded"
           \/ t.job = i /\ t.pc # "loaded"
           \/ i \in died'
    PROVE  job'[i].status = "running" => AtWork(i)' \/ i \in died'
<1> SUFFICES ASSUME job[i].status = "running", i \notin died' PROVE AtWork(i)'
  OBVIOUS
<1>1. PICK q \in Runners : runner[q].job = i /\ runner[q].pc # "loaded"
  BY DEF RunningIsRun, AtWork
<1>2. runner'[r] = t /\ \A p \in Runners : p # r => runner'[p] = runner[p]
  BY DEF CrawlInv, TypeOK
<1>3. CASE q # r
  BY <1>1, <1>2, <1>3 DEF AtWork
<1>4. CASE q = r
  BY <1>1, <1>2, <1>4 DEF AtWork
<1> QED BY <1>3, <1>4

LEMMA RunningInit == Init => RunningIsRun
BY DEF Init, RunningIsRun, NoRow

LEMMA RunningPanel ==
    ASSUME CrawlInv, RunningIsRun, NEW j \in Jobs, PanelCrawl(j) \/ PanelRecrawl(j)
    PROVE  RunningIsRun'
<1> SUFFICES ASSUME NEW i \in Jobs
             PROVE  job'[i].status = "running" => AtWork(i)' \/ i \in died'
  BY DEF RunningIsRun
<1>1. Spawn(j) /\ died' = died
  BY DEF PanelCrawl, PanelRecrawl, Operation
<1>2. job'[i].status = "running" => job[i].status = "running"
  <2>1. i # j => job'[i] = job[i]
    BY DEF PanelCrawl, PanelRecrawl, CrawlInv, TypeOK
  <2>2. job'[j].status = "queued"
    <3>1. job[j] \in [status : {"absent", "queued", "running", "done", "failed"},
                      found : Nat, indexed : Nat, failed : Nat]
      BY DEF CrawlInv, TypeOK
    <3>2. CASE PanelCrawl(j)
      BY <3>1, <3>2 DEF PanelCrawl, CrawlInv, TypeOK
    <3>3. CASE PanelRecrawl(j)
      <4> DEFINE row == job[j]
      <4>1. [row EXCEPT !.status = "queued", !.indexed = 0, !.failed = 0].status = "queued"
        BY <3>1
      <4>2. job'[j] = [row EXCEPT !.status = "queued", !.indexed = 0, !.failed = 0]
        BY <3>3 DEF PanelRecrawl, CrawlInv, TypeOK
      <4> QED BY <4>1, <4>2
    <3> QED BY <3>2, <3>3
  <2> QED BY <2>1, <2>2
<1>3. CASE UNCHANGED runner
  BY <1>1, <1>2, <1>3 DEF RunningIsRun, AtWork
<1>4. ASSUME NEW r \in Runners, runner[r] = Resting({}),
             runner' = [runner EXCEPT ![r] = Resting({j})]
      PROVE  job'[i].status = "running" => AtWork(i)' \/ i \in died'
  <2>1. runner[r].job # i
    BY <1>4, CrawlAssumption DEF Resting
  <2> QED BY <1>1, <1>2, <1>4, <2>1, RunStays
<1> QED BY <1>1, <1>3, <1>4 DEF Spawn

LEMMA RunningRunner ==
    ASSUME CrawlInv, RunningIsRun, NEW r \in Runners, RunnerStep(r) \/ Dies(r)
    PROVE  RunningIsRun'
<1> DEFINE s == runner[r]
<1> SUFFICES ASSUME NEW i \in Jobs
             PROVE  job'[i].status = "running" => AtWork(i)' \/ i \in died'
  BY DEF RunningIsRun
<1>1. s \in RunnerState /\ Sound(s)
  BY DEF CrawlInv, TypeOK
<1>2. s.pc = "idle" => s.job # i
  BY <1>1, CrawlAssumption DEF Sound
<1>3. CASE Poll(r)
  <2> DEFINE t == [s EXCEPT !.list = Queued]
  <2>1. s.pc = "idle"
    <3>1. s = Resting({})
      BY <1>3 DEF Poll
    <3> QED BY <3>1 DEF Resting
  <2>2. runner' = [runner EXCEPT ![r] = t] /\ UNCHANGED <<job, died>>
    BY <1>3 DEF Poll
  <2> HIDE DEF t
  <2> QED BY <1>2, <2>1, <2>2, RunStays
<1>4. ASSUME NEW j \in Jobs, Load(r, j)
      PROVE  job'[i].status = "running" => AtWork(i)' \/ i \in died'
  <2>1. s.pc = "idle" /\ UNCHANGED <<job, died>>
        /\ \E t : runner' = [runner EXCEPT ![r] = t]
    BY <1>4 DEF Load
  <2> QED BY <1>2, <2>1, RunStays
<1>5. CASE Mark(r)
  <2>1. s.pc = "loaded" /\ s.job \in Jobs
    BY <1>1, <1>5 DEF Mark, Sound, RunnerState
  <2>2. CASE i = s.job
    <3>1. runner'[r].job = i /\ runner'[r].pc = "resolve"
      BY <1>1, <1>5, <2>2 DEF Mark, CrawlInv, TypeOK, RunnerState
    <3> QED BY <3>1 DEF AtWork
  <2>3. CASE i # s.job
    <3>1. job'[i] = job[i]
      BY <1>5, <2>3 DEF Mark, CrawlInv, TypeOK
    <3>2. i \in died => i \in died'
      BY <1>5, <2>3 DEF Mark
    <3>3. runner' = [runner EXCEPT ![r] = [s EXCEPT !.pc = "resolve"]]
      BY <1>5 DEF Mark
    <3> QED BY <2>3, <3>1, <3>2, <3>3, RunStays
  <2> QED BY <2>2, <2>3
<1>6. ASSUME NEW t, runner' = [runner EXCEPT ![r] = t], t.job = s.job, t.pc # "loaded",
             UNCHANGED <<job, died>>
      PROVE  job'[i].status = "running" => AtWork(i)' \/ i \in died'
  BY <1>6, RunStays
<1>7. CASE Resolve(r) \/ Raises(r)
  <2>1. CASE Resolve(r)
    <3> DEFINE start == Start[s.job]
               t == [s EXCEPT !.pc = "crawl", !.queue = <<start>>, !.seen = {start}]
    <3>1. t.job = s.job /\ t.pc = "crawl"
      BY <1>1 DEF RunnerState
    <3>2. runner' = [runner EXCEPT ![r] = t] /\ UNCHANGED <<job, died>>
      BY <2>1 DEF Resolve
    <3> HIDE DEF t
    <3> QED BY <1>6, <3>1, <3>2
  <2>2. CASE Raises(r)
    <3> DEFINE t == [s EXCEPT !.pc = "failing"]
    <3>1. t.job = s.job /\ t.pc = "failing"
      BY <1>1 DEF RunnerState
    <3>2. runner' = [runner EXCEPT ![r] = t] /\ UNCHANGED <<job, died>>
      BY <2>2 DEF Raises
    <3> HIDE DEF t
    <3> QED BY <1>6, <3>1, <3>2
  <2> QED BY <1>7, <2>1, <2>2
<1>8. CASE Refuse(r) \/ Unreachable(r) \/ ReadShort(r) \/ ReadAndIndex(r)
  <2> DEFINE p == Popped(r)
             f == Follow(r, Head(s.queue))
  <2>1. HasNext(r) /\ s.pc = "crawl" /\ UNCHANGED <<job, died>>
    BY <1>8 DEF Refuse, Unreachable, ReadShort, ReadAndIndex, HasNext
  <2>2. p \in RunnerState /\ f \in RunnerState /\ f.processed = s.processed
    BY <2>1, PoppedSound, FollowSound
  <2>3. p.job = s.job /\ p.pc = "crawl"
    BY <1>1, <2>1 DEF RunnerState, Popped
  <2>4. f.job = s.job /\ f.pc = "crawl"
    <3> HIDE DEF p
    <3> QED BY <2>2, <2>3 DEF Follow, RunnerState, p
  <2>5. \E t : t.job = s.job /\ t.pc = "crawl" /\ runner' = [runner EXCEPT ![r] = t]
    <3> HIDE DEF p, f
    <3>1. CASE Refuse(r)
      BY <2>3, <3>1 DEF Refuse, p
    <3>2. CASE Unreachable(r)
      <4> DEFINE n == p.failed + 1
                 t == [p EXCEPT !.failed = n]
      <4>1. t.job = s.job /\ t.pc = "crawl"
        BY <2>2, <2>3 DEF RunnerState
      <4>2. runner' = [runner EXCEPT ![r] = t]
        BY <3>2 DEF Unreachable, p
      <4> QED BY <4>1, <4>2
    <3>3. CASE ReadShort(r)
      BY <2>4, <3>3 DEF ReadShort, f
    <3>4. CASE ReadAndIndex(r)
      <4> DEFINE k == s.processed + 1
                 n == [f EXCEPT !.processed = k, !.found = k]
      <4>1. n.job = s.job /\ n.pc = "crawl"
        BY <2>2, <2>4 DEF RunnerState
      <4>2. /\ [n EXCEPT !.indexed = @ + 1].job = s.job /\ [n EXCEPT !.indexed = @ + 1].pc = "crawl"
            /\ [n EXCEPT !.failed = @ + 1].job = s.job /\ [n EXCEPT !.failed = @ + 1].pc = "crawl"
        BY <2>2, <2>4 DEF RunnerState
      <4>3. \/ runner' = [runner EXCEPT ![r] = [n EXCEPT !.indexed = @ + 1]]
            \/ runner' = [runner EXCEPT ![r] = [n EXCEPT !.failed = @ + 1]]
            \/ runner' = [runner EXCEPT ![r] = n]
        BY <2>2, <3>4 DEF ReadAndIndex, f
      <4> QED BY <4>1, <4>2, <4>3
    <3> QED BY <1>8, <3>1, <3>2, <3>3, <3>4
  <2> QED BY <1>6, <2>1, <2>5
<1>9. CASE Finish(r) \/ FailJob(r)
  <2>1. PICK status \in {"done", "failed"} : Save(r, status) /\ s.pc # "idle"
    BY <1>9 DEF Finish, FailJob
  <2>2. s.job \in Jobs
    BY <1>1, <2>1 DEF Sound, RunnerState
  <2>3. CASE i = s.job
    BY <2>1, <2>2, <2>3 DEF Save, CrawlInv, TypeOK
  <2>4. CASE i # s.job
    <3>1. job'[i] = job[i]
      BY <2>1, <2>4 DEF Save, CrawlInv, TypeOK
    <3> QED BY <2>1, <2>4, <3>1, RunStays DEF Save
  <2> QED BY <2>3, <2>4
<1>10. CASE Dies(r)
  <2>1. runner' = [runner EXCEPT ![r] = Resting({})] /\ job' = job
        /\ died' = IF s.pc \in {"idle", "loaded"} THEN died ELSE died \cup {s.job}
    BY <1>10 DEF Dies
  <2>2. \/ s.job # i
        \/ s.pc = "loaded"
        \/ i \in died'
    BY <1>2, <2>1
  <2> QED BY <2>1, <2>2, RunStays
<1> QED BY <1>3, <1>4, <1>5, <1>7, <1>8, <1>9, <1>10 DEF RunnerStep

\* However runs of a job overlap with recrawls, failures and each other, a row
\* that says "running" has a run that goes on, or one that died.
THEOREM CrawlRunning == Spec => []RunningIsRun
<1>1. Init => CrawlInv /\ RunningIsRun
  BY CrawlInit, RunningInit
<1>2. CrawlInv /\ RunningIsRun /\ [Next]_vars => CrawlInv' /\ RunningIsRun'
  <2> SUFFICES ASSUME CrawlInv, RunningIsRun, [Next]_vars PROVE RunningIsRun'
    BY CrawlStep
  <2>1. ASSUME NEW j \in Jobs, PanelCrawl(j) \/ PanelRecrawl(j) PROVE RunningIsRun'
    BY <2>1, RunningPanel
  <2>2. ASSUME NEW r \in Runners, RunnerStep(r) \/ Dies(r) PROVE RunningIsRun'
    BY <2>2, RunningRunner
  <2>3. CASE UNCHANGED vars
    BY <2>3 DEF vars, RunningIsRun, AtWork
  <2> QED BY <2>1, <2>2, <2>3 DEF Next
<1> QED BY <1>1, <1>2, PTL DEF Spec

-----------------------------------------------------------------------------

\* Runner r has job j in hand.
Has(r, j) == j \in runner[r].list \/ runner[r].job = j

\* A job waits with its count of indexed pages set back.  One that was never
\* handed out twice is in one runner's hands at most; the count of its run is
\* that of the pages of this run, and the row's is within the pages found.
Counted(j) ==
    /\ \A r, q \in Runners : Has(r, j) /\ Has(q, j) => r = q
    /\ \A r \in Runners :
        /\ j \in runner[r].list => job[j].indexed = 0
        /\ runner[r].job = j => runner[r].indexed <= runner[r].processed
    /\ job[j].indexed <= job[j].found

CountInv ==
    /\ \A j \in Jobs : job[j].status \in {"absent", "queued"} => job[j].indexed = 0
    /\ \A j \in Jobs : job[j].status = "absent" => ~InHand(j)
    /\ \A r \in Runners : runner[r].job \notin runner[r].list
    /\ \A j \in Jobs \ overlapped : Counted(j)

LEMMA CountInit == Init => CountInv
BY CrawlAssumption DEF Init, CountInv, Counted, Has, InHand, NoRow, Resting

\* The step of runner r, when no job is handed out and the counters of the
\* rows stay as they are: it keeps what it has in hand and counts no more
\* than it processed, or it has less in hand.
LEMMA CountRunner ==
    ASSUME CrawlInv, CountInv, NEW r \in Runners, NEW t,
           runner' = [runner EXCEPT ![r] = t], overlapped' = overlapped,
           t.job \notin t.list, t.list \subseteq runner[r].list,
           \A j \in Jobs : t.job = j => Has(r, j),
           t.job # NoJob /\ t.job \notin overlapped => t.indexed <= t.processed,
           \A j \in Jobs :
              /\ job'[j].indexed = job[j].indexed /\ job'[j].found = job[j].found
              /\ job'[j].status \in {"absent", "queued"} => job'[j].status = job[j].status
    PROVE  CountInv'
<1>1. runner'[r] = t /\ \A q \in Runners : q # r => runner'[q] = runner[q]
  BY DEF CrawlInv, TypeOK
<1>2. ASSUME NEW j \in Jobs \ overlapped PROVE Counted(j)'
  <2>1. Counted(j) /\ j # NoJob
    BY CrawlAssumption DEF CountInv
  <2>2. \A q \in Runners : Has(q, j)' => Has(q, j)
    BY <1>1 DEF Has
  <2>3. ASSUME NEW q \in Runners
        PROVE  /\ j \in runner'[q].list => job'[j].indexed = 0
               /\ runner'[q].job = j => runner'[q].indexed <= runner'[q].processed
    BY <1>1, <2>1 DEF Counted
  <2>4. job'[j].indexed <= job'[j].found
    BY <2>1 DEF Counted
  <2>5. \A p, q \in Runners : Has(p, j)' /\ Has(q, j)' => p = q
    BY <2>1, <2>2 DEF Counted
  <2> QED BY <2>3, <2>4, <2>5 DEF Counted
<1>3. \A q \in Runners : runner'[q].job \notin runner'[q].list
  BY <1>1 DEF CountInv
<1>4. \A j \in Jobs : job'[j].status \in {"absent", "queued"} => job'[j].indexed = 0
  BY DEF CountInv
<1>5. \A j \in Jobs : job'[j].status = "absent" => ~InHand(j)'
  BY <1>1 DEF CountInv, InHand, Has
<1> QED BY <1>2, <1>3, <1>4, <1>5 DEF CountInv

\* Queuing a job: if a runner had it in hand it counts as handed out twice,
\* otherwise a process may be the one that gets it, with the counts set back.
LEMMA CountPanel ==
    ASSUME CrawlInv, CountInv, NEW j \in Jobs, PanelCrawl(j) \/ PanelRecrawl(j)
    PROVE  CountInv'
<1>1. job[j] \in [status : {"absent", "queued", "running", "done", "failed"},
                  found : Nat, indexed : Nat, failed : Nat]
  BY DEF CrawlInv, TypeOK
<1>2. /\ job'[j].status = "queued" /\ job'[j].indexed = 0 /\ job'[j].found = job[j].found
      /\ \A i \in Jobs \ {j} : job'[i] = job[i]
  <2>1. CASE PanelCrawl(j)
    <3>1. job[j].indexed = 0
      BY <2>1 DEF PanelCrawl, CountInv
    <3>2. job' = [job EXCEPT ![j].status = "queued"]
      BY <2>1 DEF PanelCrawl
    <3> QED BY <1>1, <3>1, <3>2 DEF CrawlInv, TypeOK
  <2>2. CASE PanelRecrawl(j)
    <3> DEFINE new == [job[j] EXCEPT !.status = "queued", !.indexed = 0, !.failed = 0]
    <3>1. new.status = "queued" /\ new.indexed = 0 /\ new.found = job[j].found
      BY <1>1
    <3>2. job' = [job EXCEPT ![j] = new]
      BY <2>2 DEF PanelRecrawl
    <3> HIDE DEF new
    <3> QED BY <3>1, <3>2 DEF CrawlInv, TypeOK
  <2> QED BY <2>1, <2>2
<1>3. \/ overlapped' = overlapped \cup {j}
      \/ ~InHand(j) /\ overlapped' \in {overlapped, overlapped \ {j}}
  BY DEF PanelCrawl, PanelRecrawl, CountInv
<1>4. \/ runner' = runner
      \/ \E p \in Runners : /\ runner[p] = Resting({})
                           /\ runner' = [runner EXCEPT ![p] = Resting({j})]
  BY DEF PanelCrawl, PanelRecrawl, Spawn
<1>5. \/ \A r \in Runners : runner'[r] = runner[r]
      \/ \E p \in Runners :
            /\ runner[p].list = {} /\ runner[p].job = NoJob
            /\ runner'[p].list = {j} /\ runner'[p].job = NoJob
            /\ \A r \in Runners \ {p} : runner'[r] = runner[r]
  <2>1. ASSUME NEW p \in Runners, runner[p] = Resting({}),
               runner' = [runner EXCEPT ![p] = Resting({j})]
        PROVE  /\ runner[p].list = {} /\ runner[p].job = NoJob
               /\ runner'[p].list = {j} /\ runner'[p].job = NoJob
               /\ \A r \in Runners \ {p} : runner'[r] = runner[r]
    BY <2>1 DEF CrawlInv, TypeOK, Resting
  <2> QED BY <1>4, <2>1
<1>6. j # NoJob /\ \A i \in Jobs : i # NoJob
  BY CrawlAssumption
<1>7. ASSUME NEW r \in Runners, NEW i \in Jobs
      PROVE  /\ runner'[r].job = i => runner'[r] = runner[r]
             /\ runner'[r].job \notin runner'[r].list
             /\ i # j => (Has(r, i)' <=> Has(r, i))
             /\ i # j /\ i \in runner'[r].list => i \in runner[r].list
  <2>1. CASE runner'[r] = runner[r]
    BY <2>1 DEF CountInv, Has
  <2>2. CASE /\ runner[r].list = {} /\ runner[r].job = NoJob
             /\ runner'[r].list = {j} /\ runner'[r].job = NoJob
    BY <1>6, <2>2 DEF Has
  <2> QED BY <1>5, <2>1, <2>2
<1>8. ASSUME ~InHand(j), NEW r \in Runners, NEW q \in Runners, Has(r, j)', Has(q, j)'
      PROVE  r = q /\ runner'[r].job # j
  BY <1>8, <1>5, <1>6 DEF InHand, Has
<1>9. ASSUME NEW i \in Jobs \ overlapped' PROVE Counted(i)'
  <2>1. CASE i = j
    <3>1. ~InHand(j)
      BY <1>3, <1>9, <2>1
    <3>2. \A r, q \in Runners : Has(r, i)' /\ Has(q, i)' => r = q
      BY <1>8, <2>1, <3>1
    <3>3. \A r \in Runners : runner'[r].job # i
      BY <1>8, <2>1, <3>1 DEF Has
    <3>4. job'[i].indexed = 0 /\ job'[i].indexed <= job'[i].found
      BY <1>1, <1>2, <2>1
    <3> QED BY <3>2, <3>3, <3>4 DEF Counted
  <2>2. CASE i # j
    <3>1. Counted(i) /\ job'[i] = job[i]
      BY <1>2, <1>3, <1>9, <2>2 DEF CountInv
    <3>2. \A r, q \in Runners : Has(r, i)' /\ Has(q, i)' => r = q
      BY <1>7, <2>2, <3>1 DEF Counted
    <3>3. \A r \in Runners :
            /\ i \in runner'[r].list => job'[i].indexed = 0
            /\ runner'[r].job = i => runner'[r].indexed <= runner'[r].processed
      BY <1>7, <2>2, <3>1 DEF Counted
    <3> QED BY <3>1, <3>2, <3>3 DEF Counted
  <2> QED BY <2>1, <2>2
<1>10. \A i \in Jobs : job'[i].status \in {"absent", "queued"} => job'[i].indexed = 0
  BY <1>2 DEF CountInv
<1>11. ASSUME NEW i \in Jobs, job'[i].status = "absent" PROVE ~InHand(i)'
  <2>1. i # j /\ job[i].status = "absent" /\ ~InHand(i)
    BY <1>2, <1>11 DEF CountInv
  <2> QED BY <1>7, <2>1 DEF InHand, Has
<1> QED BY <1>7, <1>9, <1>10, <1>11 DEF CountInv

\* The loop's snapshot: what a runner had in hand counts as handed out twice.
LEMMA CountPoll ==
    ASSUME CrawlInv, CountInv, NEW r \in Runners, Poll(r)
    PROVE  CountInv'
<1>1. /\ runner[r] = Resting({}) /\ runner' = [runner EXCEPT ![r].list = Queued]
      /\ job' = job /\ overlapped' = overlapped \cup {j \in Queued : InHand(j)}
      /\ Queued \subseteq Jobs
  BY DEF Poll, Queued
<1>2. /\ runner'[r].list = Queued /\ runner'[r].job = NoJob
      /\ runner[r].list = {} /\ runner[r].job = NoJob
      /\ \A q \in Runners : q # r => runner'[q] = runner[q]
  BY <1>1 DEF CrawlInv, TypeOK, RunnerState, Resting
<1>3. ASSUME NEW i \in Jobs \ overlapped' PROVE Counted(i)'
  <2>1. Counted(i) /\ (i \in Queued => ~InHand(i)) /\ i # NoJob
    BY <1>1, <1>3, CrawlAssumption DEF CountInv
  <2>2. ASSUME NEW p \in Runners, NEW q \in Runners, Has(p, i)', Has(q, i)' PROVE p = q
    BY <1>2, <2>1, <2>2 DEF Counted, Has, InHand
  <2>3. ASSUME NEW q \in Runners
        PROVE  /\ i \in runner'[q].list => job'[i].indexed = 0
               /\ runner'[q].job = i => runner'[q].indexed <= runner'[q].processed
    BY <1>1, <1>2, <2>1 DEF Counted, CountInv, Queued
  <2> QED BY <1>1, <2>1, <2>2, <2>3 DEF Counted
<1>4. \A q \in Runners : runner'[q].job \notin runner'[q].list
  BY <1>1, <1>2, CrawlAssumption DEF CountInv
<1>5. \A i \in Jobs : job'[i].status = "absent" => ~InHand(i)'
  BY <1>1, <1>2, CrawlAssumption DEF CountInv, InHand, Queued
<1>6. \A i \in Jobs : job'[i].status \in {"absent", "queued"} => job'[i].indexed = 0
  BY <1>1 DEF CountInv
<1> QED BY <1>3, <1>4, <1>5, <1>6 DEF CountInv

\* A run that ends saves what it counted, and nobody else has its job.
LEMMA CountEnd ==
    ASSUME CrawlInv, CountInv, NEW r \in Runners, NEW status \in {"done", "failed"},
           Save(r, status), runner[r].pc # "idle"
    PROVE  CountInv'
<1> DEFINE s == runner[r]
           new == [status |-> status, found |-> s.found,
                   indexed |-> s.indexed, failed |-> s.failed]
<1>1. /\ s \in RunnerState /\ s.job \in Jobs /\ s.job # NoJob
      /\ s.processed \in Nat /\ s.found \in Nat /\ s.indexed \in Nat
      /\ s.processed <= s.found /\ s.job \notin s.list
  BY CrawlAssumption DEF CrawlInv, TypeOK, RunnerState, Sound, CountInv
<1>2. job' = [job EXCEPT ![s.job] = new] /\ runner' = [runner EXCEPT ![r] = Resting(s.list)]
      /\ overlapped' = overlapped
  BY DEF Save
<1>3. /\ job'[s.job] = new /\ \A j \in Jobs \ {s.job} : job'[j] = job[j]
      /\ runner'[r].list = s.list /\ runner'[r].job = NoJob
      /\ \A q \in Runners : q # r => runner'[q] = runner[q]
  BY <1>1, <1>2 DEF CrawlInv, TypeOK, Resting
<1>4. \A q \in Runners, j \in Jobs : Has(q, j)' => Has(q, j)
  BY <1>3, CrawlAssumption DEF Has
<1>5. ASSUME NEW j \in Jobs \ overlapped' PROVE Counted(j)'
  <2>1. Counted(j) /\ j # NoJob
    BY <1>2, CrawlAssumption DEF CountInv
  <2>2. \A p, q \in Runners : Has(p, j)' /\ Has(q, j)' => p = q
    BY <1>4, <2>1 DEF Counted
  <2>3. CASE j = s.job
    <3>1. \A q \in Runners : ~Has(q, j)'
      BY <1>1, <1>3, <1>4, <2>1, <2>3 DEF Counted, Has
    <3>2. job'[j].indexed <= job'[j].found
      BY <1>1, <1>3, <2>1, <2>3 DEF Counted
    <3> QED BY <3>1, <3>2 DEF Counted, Has
  <2>4. CASE j # s.job
    BY <1>3, <2>1, <2>2, <2>4 DEF Counted
  <2> QED BY <2>3, <2>4
<1>6. \A q \in Runners : runner'[q].job \notin runner'[q].list
  BY <1>1, <1>3, CrawlAssumption DEF CountInv, RunnerState
<1>7. \A j \in Jobs : job'[j].status \in {"absent", "queued"} =>
          job'[j].indexed = 0 /\ job'[j].status = job[j].status
  BY <1>3 DEF CountInv
<1>8. \A j \in Jobs : job'[j].status = "absent" => ~InHand(j)'
  BY <1>4, <1>7 DEF CountInv, InHand, Has
<1> QED BY <1>5, <1>6, <1>7, <1>8 DEF CountInv

LEMMA CountStarts ==
    ASSUME CrawlInv, CountInv, NEW r \in Runners,
           (\E j \in Jobs : Load(r, j)) \/ Mark(r) \/ Resolve(r) \/ Raises(r) \/ Dies(r)
    PROVE  CountInv'
<1> DEFINE s == runner[r]
<1>1. /\ s \in RunnerState /\ s.job \notin s.list /\ NoJob \notin s.list
      /\ s.job \in Jobs /\ s.job \notin overlapped => s.indexed <= s.processed
      /\ job \in [Jobs -> [status : {"absent", "queued", "running", "done", "failed"},
                           found : Nat, indexed : Nat, failed : Nat]]
  BY CrawlAssumption DEF CrawlInv, TypeOK, RunnerState, CountInv, Counted
\* Less in hand than before, and no run.
<1>2. ASSUME NEW list \in SUBSET s.list, runner' = [runner EXCEPT ![r] = Resting(list)],
             UNCHANGED <<job, overlapped>>
      PROVE  CountInv'
  <2>1. Resting(list).list = list /\ Resting(list).job = NoJob
    BY DEF Resting
  <2> QED BY <1>1, <1>2, <2>1, CrawlAssumption, CountRunner
\* The same in hand, and the same counts.
<1>3. ASSUME NEW t, runner' = [runner EXCEPT ![r] = t], overlapped' = overlapped,
             t.list = s.list, t.job = s.job, t.indexed = s.indexed, t.processed = s.processed,
             \A j \in Jobs :
                /\ job'[j].indexed = job[j].indexed /\ job'[j].found = job[j].found
                /\ job'[j].status \in {"absent", "queued"} => job'[j].status = job[j].status
      PROVE  CountInv'
  <2>1. s.job = NoJob \/ s.job \in Jobs
    BY <1>1 DEF RunnerState
  <2>2. t.job \notin t.list /\ t.list \subseteq s.list /\ \A j \in Jobs : t.job = j => Has(r, j)
    BY <1>1, <1>3 DEF Has
  <2>3. t.job # NoJob /\ t.job \notin overlapped => t.indexed <= t.processed
    BY <1>1, <1>3, <2>1
  <2> QED BY <1>3, <2>2, <2>3, CountRunner
<1>4. ASSUME NEW j \in Jobs, Load(r, j) PROVE CountInv'
  <2> DEFINE later == s.list \ {j}
             t == [Resting(later) EXCEPT !.pc = "loaded", !.job = j, !.found = job[j].found,
                                         !.indexed = job[j].indexed, !.failed = job[j].failed]
  <2>1. /\ t.list = later /\ t.job = j /\ t.indexed = job[j].indexed /\ t.processed = 0
        /\ j # NoJob /\ j \in s.list
    BY <1>4, CrawlAssumption DEF Resting, Load
  <2>2. j \notin overlapped => t.indexed <= t.processed
    BY <2>1 DEF CountInv, Counted
  <2>3. UNCHANGED <<job, overlapped>>
        /\ (runner' = [runner EXCEPT ![r] = Resting(later)] \/ runner' = [runner EXCEPT ![r] = t])
    BY <1>4 DEF Load
  <2>4. later \in SUBSET s.list
    OBVIOUS
  <2> HIDE DEF t
  <2>5. CASE runner' = [runner EXCEPT ![r] = t]
    <3>1. t.job \notin t.list /\ t.list \subseteq s.list /\ \A i \in Jobs : t.job = i => Has(r, i)
      BY <2>1 DEF Has
    <3>2. t.job # NoJob /\ t.job \notin overlapped => t.indexed <= t.processed
      BY <2>1, <2>2
    <3> QED BY <2>3, <2>5, <3>1, <3>2, CountRunner
  <2> QED BY <1>2, <2>3, <2>4, <2>5
<1>5. CASE Mark(r)
  <2> DEFINE t == [s EXCEPT !.pc = "resolve"]
  <2>1. t.list = s.list /\ t.job = s.job /\ t.indexed = s.indexed /\ t.processed = s.processed
    BY <1>1 DEF RunnerState
  <2>2. /\ job' = [job EXCEPT ![s.job].status = "running"] /\ overlapped' = overlapped
        /\ runner' = [runner EXCEPT ![r] = t]
    BY <1>5 DEF Mark
  <2>3. \A j \in Jobs :
            /\ job'[j].indexed = job[j].indexed /\ job'[j].found = job[j].found
            /\ job'[j].status \in {"absent", "queued"} => job'[j].status = job[j].status
    BY <1>1, <2>2
  <2> HIDE DEF t
  <2> QED BY <1>3, <2>1, <2>2, <2>3
<1>6. CASE Resolve(r)
  <2> DEFINE start == Start[s.job]
             t == [s EXCEPT !.pc = "crawl", !.queue = <<start>>, !.seen = {start}]
  <2>1. t.list = s.list /\ t.job = s.job /\ t.indexed = s.indexed /\ t.processed = s.processed
    BY <1>1 DEF RunnerState
  <2>2. UNCHANGED <<job, overlapped>> /\ runner' = [runner EXCEPT ![r] = t]
    BY <1>6 DEF Resolve
  <2> HIDE DEF t
  <2> QED BY <1>3, <2>1, <2>2
<1>7. CASE Raises(r)
  <2> DEFINE t == [s EXCEPT !.pc = "failing"]
  <2>1. t.list = s.list /\ t.job = s.job /\ t.indexed = s.indexed /\ t.processed = s.processed
    BY <1>1 DEF RunnerState
  <2>2. UNCHANGED <<job, overlapped>> /\ runner' = [runner EXCEPT ![r] = t]
    BY <1>7 DEF Raises
  <2> HIDE DEF t
  <2> QED BY <1>3, <2>1, <2>2
<1>8. CASE Dies(r)
  BY <1>2, <1>8 DEF Dies
<1> QED BY <1>4, <1>5, <1>6, <1>7, <1>8

\* Every page handed to the index is one page processed more.
LEMMA CountPage ==
    ASSUME CrawlInv, CountInv, NEW r \in Runners,
           Refuse(r) \/ Unreachable(r) \/ ReadShort(r) \/ ReadAndIndex(r)
    PROVE  CountInv'
<1> DEFINE s == runner[r]
           p == Popped(r)
           f == Follow(r, Head(s.queue))
<1>1. HasNext(r) /\ UNCHANGED <<job, tally>>
  BY DEF Refuse, Unreachable, ReadShort, ReadAndIndex
<1>2. /\ s \in RunnerState /\ s.job \in Jobs /\ s.job # NoJob /\ s.job \notin s.list
      /\ s.job \notin overlapped => s.indexed <= s.processed
      /\ p \in RunnerState /\ f \in RunnerState /\ f.processed = s.processed
  BY <1>1, PoppedSound, FollowSound, CrawlAssumption DEF CountInv, Counted
<1>3. p.list = s.list /\ p.job = s.job /\ p.indexed = s.indexed /\ p.processed = s.processed
  BY <1>2 DEF RunnerState, Popped
<1>4. f.list = s.list /\ f.job = s.job /\ f.indexed = s.indexed /\ f.processed = s.processed
  <2> HIDE DEF p
  <2> QED BY <1>2, <1>3 DEF Follow, RunnerState, p
<1>5. ASSUME NEW t, runner' = [runner EXCEPT ![r] = t], t.list = s.list, t.job = s.job,
             s.indexed <= s.processed => t.indexed <= t.processed
      PROVE  CountInv'
  <2>1. t.job \notin t.list /\ t.list \subseteq s.list /\ \A j \in Jobs : t.job = j => Has(r, j)
    BY <1>2, <1>5 DEF Has
  <2>2. t.job # NoJob /\ t.job \notin overlapped => t.indexed <= t.processed
    BY <1>2, <1>5
  <2> QED BY <1>1, <1>5, <2>1, <2>2, CountRunner
<1>6. s.indexed \in Nat /\ s.processed \in Nat /\ f.failed \in Nat /\ p.failed \in Nat
  BY <1>2 DEF RunnerState
<1> HIDE DEF p, f
<1>7. CASE Refuse(r)
  BY <1>3, <1>5, <1>7 DEF Refuse, p
<1>8. CASE Unreachable(r)
  <2> DEFINE n == p.failed + 1
             t == [p EXCEPT !.failed = n]
  <2>1. t.list = s.list /\ t.job = s.job /\ t.indexed = s.indexed /\ t.processed = s.processed
    BY <1>2, <1>3 DEF RunnerState
  <2>2. runner' = [runner EXCEPT ![r] = t]
    BY <1>8 DEF Unreachable, p
  <2> HIDE DEF t
  <2> QED BY <1>5, <2>1, <2>2
<1>9. CASE ReadShort(r)
  BY <1>4, <1>5, <1>9 DEF ReadShort, f
<1>10. CASE ReadAndIndex(r)
  <2> DEFINE k == s.processed + 1
             n == [f EXCEPT !.processed = k, !.found = k]
             more == [n EXCEPT !.indexed = n.indexed + 1]
             fewer == [n EXCEPT !.failed = n.failed + 1]
  <2>1. /\ n \in RunnerState /\ n.list = s.list /\ n.job = s.job
        /\ n.indexed = s.indexed /\ n.processed = s.processed + 1
    <3>1. k \in Nat
      BY <1>6
    <3>2. n \in RunnerState /\ n.list = f.list /\ n.job = f.job /\ n.indexed = f.indexed
          /\ n.processed = k
      <4> HIDE DEF k
      <4> QED BY <1>2, <3>1 DEF RunnerState
    <3> QED BY <1>4, <3>2
  <2>2. \/ runner' = [runner EXCEPT ![r] = more]
        \/ runner' = [runner EXCEPT ![r] = fewer]
        \/ runner' = [runner EXCEPT ![r] = n]
    BY <1>2, <1>10 DEF ReadAndIndex, f
  <2> HIDE DEF n
  <2>3. /\ more.list = s.list /\ more.job = s.job
        /\ more.indexed = s.indexed + 1 /\ more.processed = s.processed + 1
    BY <2>1 DEF RunnerState
  <2>4. /\ fewer.list = s.list /\ fewer.job = s.job
        /\ fewer.indexed = s.indexed /\ fewer.processed = s.processed + 1
    BY <2>1 DEF RunnerState
  <2> HIDE DEF more, fewer
  <2>5. /\ s.indexed <= s.processed => s.indexed + 1 <= s.processed + 1
        /\ s.indexed <= s.processed => s.indexed <= s.processed + 1
    BY <1>6
  <2>6. CASE runner' = [runner EXCEPT ![r] = more]
    BY <1>5, <2>3, <2>6, <2>5
  <2>7. CASE runner' = [runner EXCEPT ![r] = fewer]
    BY <1>5, <2>4, <2>7, <2>5
  <2>8. CASE runner' = [runner EXCEPT ![r] = n]
    BY <1>5, <2>1, <2>8, <2>5
  <2> QED BY <2>2, <2>6, <2>7, <2>8
<1> QED BY <1>7, <1>8, <1>9, <1>10

LEMMA CountStep == CrawlInv /\ CountInv /\ [Next]_vars => CountInv'
<1> SUFFICES ASSUME CrawlInv, CountInv, [Next]_vars PROVE CountInv'
  OBVIOUS
<1>1. ASSUME NEW j \in Jobs, PanelCrawl(j) \/ PanelRecrawl(j) PROVE CountInv'
  BY <1>1, CountPanel
<1>2. ASSUME NEW r \in Runners, Finish(r) \/ FailJob(r) PROVE CountInv'
  <2>1. PICK status \in {"done", "failed"} : Save(r, status) /\ runner[r].pc # "idle"
    BY <1>2 DEF Finish, FailJob
  <2> QED BY <2>1, CountEnd
<1>3. ASSUME NEW r \in Runners, RunnerStep(r) \/ Dies(r) PROVE CountInv'
  BY <1>2, <1>3, CountPoll, CountStarts, CountPage DEF RunnerStep
<1>4. CASE UNCHANGED vars
  BY <1>4 DEF vars, CountInv, Counted, Has, InHand
<1> QED BY <1>1, <1>3, <1>4 DEF Next

\* No run hands more pages to the index than max_pages and no row reports more
\* found, however runs overlap; a row reports at most as many indexed as found,
\* unless its job was handed out twice since it was last queued afresh.
THEOREM CrawlWithinLimit == Spec => []WithinLimit
<1>1. CrawlInv /\ CountInv => WithinLimit
  <2> SUFFICES ASSUME CrawlInv, CountInv PROVE WithinLimit
    OBVIOUS
  <2>1. ASSUME NEW r \in Runners PROVE runner[r].processed <= MaxPages
    <3>1. runner[r] \in RunnerState /\ Sound(runner[r])
      BY DEF CrawlInv, TypeOK
    <3> QED BY <3>1, CrawlAssumption DEF RunnerState, Sound
  <2> QED BY <2>1 DEF CrawlInv, CountInv, Counted, WithinLimit
<1>2. Init => CountInv
  BY CountInit
<1>3. CrawlInv /\ CountInv /\ [Next]_vars => CountInv'
  BY CountStep
<1> QED BY <1>1, <1>2, <1>3, CrawlInvariant, PTL DEF Spec

=============================================================================
