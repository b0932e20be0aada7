------------------------------- MODULE CrawlJobs -------------------------------
(***************************************************************************)
(* Crawl jobs: the panel queues them, a runner (a runworker loop, or a     *)
(* detached run_crawl process) visits the pages of a site breadth first    *)
(* (run_crawl_job of chat/crawler.py) and indexes what it reads.  What     *)
(* indexing a page does is the matter of KnowledgeCorpus; here it succeeds,*)
(* fails or finds nothing to do.  The site answers as it likes; the page   *)
(* found at a URL is the one at the end of its redirects.  Runners may die:*)
(* a redeployment, or whatever ends their process.                         *)
(***************************************************************************)
EXTENDS Naturals, Sequences, SequencesExt, Positions

CONSTANTS
    Jobs,
    Pages,         \* URLs
    Start,         \* Start[j]: the page the operator entered
    Host,          \* Host[p]: the host of a URL
    Links,         \* Links[p]: the links of the page found at URL p
    Skipped,       \* URLs with one of SKIP_EXTENSIONS
    MaxPages,      \* CrawlJob.max_pages
    Runners,
    Loops,         \* the runners that are runworker --loop; the others are
                   \* places for one-shot run_crawl processes
    InlineSpawn,   \* should_spawn_inline_worker()
    MaxOps,        \* bound: jobs queued by operators
    MaxDeaths,     \* bound: runner processes that die
    NoJob

ASSUME CrawlAssumption ==
    /\ Start \in [Jobs -> Pages]
    /\ DOMAIN Host = Pages
    /\ Links \in [Pages -> Seq(Pages)]
    /\ Skipped \subseteq Pages
    /\ MaxPages \in Nat \ {0}
    /\ Loops \subseteq Runners
    /\ InlineSpawn \in BOOLEAN
    /\ MaxOps \in Nat /\ MaxDeaths \in Nat
    /\ NoJob \notin Jobs

VARIABLES
    job,      \* the CrawlJob rows
    runner,   \* where each runner is, and the local variables of its run
    ops,
    deaths,
    died,     \* history: the jobs of which a run has died since one was begun
    overlapped  \* history: the jobs handed to a runner, or queued again, while
                \* a runner had them in hand already

tally == <<ops, deaths, died, overlapped>>
vars == <<job, runner, tally>>

\* Links of page p that a crawl of job j follows.
Wanted(j, p) == {q \in ToSet(Links[p]) : Host[q] = Host[Start[j]] /\ q \notin Skipped}

NoRow == [status |-> "absent", found |-> 0, indexed |-> 0, failed |-> 0]

\* visited and read are history: the URLs taken from the queue, and those
\* of them whose page could be read.
Resting(list) ==
    [pc |-> "idle", job |-> NoJob, list |-> list, queue |-> <<>>, seen |-> {},
     processed |-> 0, found |-> 0, indexed |-> 0, failed |-> 0, visited |-> {}, read |-> {}]

Init ==
    /\ job = [j \in Jobs |-> NoRow]
    /\ runner = [r \in Runners |-> Resting({})]
    /\ ops = 0 /\ deaths = 0 /\ died = {} /\ overlapped = {}

(***************************************************************************)
(* The panel.                                                              *)
(***************************************************************************)

Operation == ops < MaxOps /\ ops' = ops + 1 /\ UNCHANGED <<deaths, died>>

\* A runner holds the job, or holds a list with it.
InHand(j) == \E r \in Runners : j \in runner[r].list \/ runner[r].job = j

\* enqueue_crawl_job: on a machine that spawns, a process of its own gets the
\* job.  In a container, or if no process can be started, it waits for a loop.
Spawn(j) ==
    \/ UNCHANGED runner
    \/ /\ InlineSpawn
       /\ \E r \in Runners \ Loops :
            /\ runner[r] = Resting({})
            /\ runner' = [runner EXCEPT ![r] = Resting({j})]

PanelCrawl(j) ==
    /\ Operation
    /\ job[j].status = "absent"
    /\ job' = [job EXCEPT ![j].status = "queued"]
    /\ Spawn(j)
    /\ UNCHANGED overlapped

\* Mistake: the counters of the last run stay in the row.
PanelRecrawlCounting(j) ==
    /\ Operation
    /\ job[j].status # "absent"
    /\ job' = [job EXCEPT ![j].status = "queued"]
    /\ Spawn(j)
    /\ overlapped' = IF InHand(j) THEN overlapped \cup {j} ELSE overlapped \ {j}

\* recrawl queues a job whatever it is doing, and keeps the pages found.
PanelRecrawl(j) ==
    /\ Operation
    /\ job[j].status # "absent"
    /\ job' = [job EXCEPT ![j] = [@ EXCEPT !.status = "queued", !.indexed = 0, !.failed = 0]]
    /\ Spawn(j)
    /\ overlapped' = IF InHand(j) THEN overlapped \cup {j} ELSE overlapped \ {j}

(***************************************************************************)
(* A run.                                                                  *)
(***************************************************************************)

Queued == {j \in Jobs : job[j].status = "queued"}

\* runworker --loop takes a snapshot of the queued jobs, also of those that a
\* process was started for.
Poll(r) ==
    /\ r \in Loops
    /\ runner[r] = Resting({}) /\ Queued # {}
    /\ runner' = [runner EXCEPT ![r].list = Queued]
    /\ overlapped' = overlapped \cup {j \in Queued : InHand(j)}
    /\ UNCHANGED <<job, ops, deaths, died>>

\* Mistake: a job that has found pages already is left alone as well.
LoadNewOnly(r, j) ==
    LET later == runner[r].list \ {j} IN
    /\ runner[r].pc = "idle" /\ j \in runner[r].list
    /\ runner' = [runner EXCEPT ![r] =
            IF job[j].status = "running" \/ job[j].found > 0 THEN Resting(later)
            ELSE [Resting(later) EXCEPT !.pc = "loaded", !.job = j]]
    /\ UNCHANGED <<job, tally>>

\* The next job is loaded; one that is running already is left alone.
Load(r, j) ==
    LET later == runner[r].list \ {j} IN
    /\ runner[r].pc = "idle" /\ j \in runner[r].list
    /\ runner' = [runner EXCEPT ![r] =
            IF job[j].status = "running" THEN Resting(later)
            ELSE [Resting(later) EXCEPT !.pc = "loaded", !.job = j,
                                       !.found = job[j].found,
                                       !.indexed = job[j].indexed, !.failed = job[j].failed]]
    /\ UNCHANGED <<job, tally>>

Mark(r) ==
    /\ runner[r].pc = "loaded"
    /\ job' = [job EXCEPT ![runner[r].job].status = "running"]
    /\ runner' = [runner EXCEPT ![r].pc = "resolve"]
    /\ died' = died \ {runner[r].job}
    /\ UNCHANGED <<ops, deaths, overlapped>>

\* The host of the start page resolves to public addresses.
Resolve(r) ==
    LET start == Start[runner[r].job] IN
    /\ runner[r].pc = "resolve"
    /\ runner' = [runner EXCEPT ![r].pc = "crawl", ![r].queue = <<start>>, ![r].seen = {start}]
    /\ UNCHANGED <<job, tally>>

HasNext(r) ==
    /\ runner[r].pc = "crawl"
    /\ runner[r].queue # <<>> /\ runner[r].processed < MaxPages

\* The state of runner r with the next URL taken from the queue.
Popped(r) ==
    [runner[r] EXCEPT !.queue = Tail(@), !.visited = @ \cup {Head(runner[r].queue)}]

\* The URL is on another host, or robots.txt does not allow it.
Refuse(r) ==
    /\ HasNext(r)
    /\ runner' = [runner EXCEPT ![r] = Popped(r)]
    /\ UNCHANGED <<job, tally>>

\* The page cannot be fetched.
Unreachable(r) ==
    /\ HasNext(r)
    /\ runner' = [runner EXCEPT ![r] = [Popped(r) EXCEPT !.failed = @ + 1]]
    /\ UNCHANGED <<job, tally>>

\* Mistake: a page is marked as seen only when its turn comes.
FollowUnmarked(r, p) ==
    LET new == SelectSeq(Links[p], LAMBDA q :
                    q \in Wanted(runner[r].job, p) /\ q \notin runner[r].visited)
    IN [Popped(r) EXCEPT !.queue = @ \o new,
                         !.seen = @ \cup ToSet(new),
                         !.read = @ \cup {Head(runner[r].queue)}]

\* The positions at which the loop over the links of page p finds one that is
\* wanted and was not seen, neither before nor earlier in the loop.
NewLinks(r, p) ==
    {i \in DOMAIN Links[p] :
        /\ Links[p][i] \in Wanted(runner[r].job, p) \ runner[r].seen
        /\ \A k \in 1 .. i - 1 : Links[p][k] # Links[p][i]}

\* They are put in the queue.
Follow(r, p) ==
    LET new == Pick(Links[p], NewLinks(r, p)) IN
    [Popped(r) EXCEPT !.queue = @ \o new,
                      !.seen = @ \cup ToSet(new),
                      !.read = @ \cup {Head(runner[r].queue)}]

\* Mistake: the links of a page with little text are not followed.
ReadShortDropping(r) ==
    /\ HasNext(r)
    /\ runner' = [runner EXCEPT ![r] = [Popped(r) EXCEPT !.read = @ \cup {Head(runner[r].queue)}]]
    /\ UNCHANGED <<job, tally>>

\* The page is read and its links followed, but it has too little text.
ReadShort(r) ==
    /\ HasNext(r)
    /\ runner' = [runner EXCEPT ![r] = Follow(r, Head(runner[r].queue))]
    /\ UNCHANGED <<job, tally>>

\* The page is read and handed to _index_page, which indexes it, fails to, or
\* finds it unchanged or a duplicate.
ReadAndIndex(r) ==
    LET next == [Follow(r, Head(runner[r].queue)) EXCEPT
                    !.processed = @ + 1, !.found = runner[r].processed + 1]
    IN
    /\ HasNext(r)
    /\ \/ runner' = [runner EXCEPT ![r] = [next EXCEPT !.indexed = @ + 1]]
       \/ runner' = [runner EXCEPT ![r] = [next EXCEPT !.failed = @ + 1]]
       \/ runner' = [runner EXCEPT ![r] = next]
    /\ UNCHANGED <<job, tally>>

\* An address that is not public, a link that is no URL or a database error
\* raises out of the loop.
Raises(r) ==
    /\ \/ runner[r].pc = "resolve"
       \/ HasNext(r)
    /\ runner' = [runner EXCEPT ![r].pc = "failing"]
    /\ UNCHANGED <<job, tally>>

\* Mistake: the update at the end leaves the status out.
SaveCounters(r, status) ==
    /\ job' = [job EXCEPT ![runner[r].job] =
                  [@ EXCEPT !.found = runner[r].found, !.indexed = runner[r].indexed,
                            !.failed = runner[r].failed]]
    /\ runner' = [runner EXCEPT ![r] = Resting(runner[r].list)]
    /\ UNCHANGED tally

\* The finally clause writes status and counters over whatever the row holds.
Save(r, status) ==
    /\ job' = [job EXCEPT ![runner[r].job] =
                  [status |-> status, found |-> runner[r].found,
                   indexed |-> runner[r].indexed, failed |-> runner[r].failed]]
    /\ runner' = [runner EXCEPT ![r] = Resting(runner[r].list)]
    /\ UNCHANGED tally

Finish(r) ==
    /\ runner[r].pc = "crawl" /\ ~HasNext(r)
    /\ Save(r, "done")

\* Mistake: a status the choices of CrawlJob do not have.
FailJobAsError(r) ==
    /\ runner[r].pc = "failing"
    /\ Save(r, "error")

FailJob(r) ==
    /\ runner[r].pc = "failing"
    /\ Save(r, "failed")

(***************************************************************************)
(* Deaths.                                                                 *)
(***************************************************************************)

\* A runner dies with what it has in memory.  The row of its job stays as it
\* is, and nothing looks for rows that are "running" and have nobody at work.
Dies(r) ==
    /\ deaths < MaxDeaths /\ deaths' = deaths + 1
    /\ runner[r] # Resting({})
    /\ runner' = [runner EXCEPT ![r] = Resting({})]
    /\ died' = IF runner[r].pc \in {"idle", "loaded"} THEN died ELSE died \cup {runner[r].job}
    /\ UNCHANGED <<job, ops, overlapped>>

-----------------------------------------------------------------------------

RunnerStep(r) ==
    \/ Poll(r)
    \/ \E j \in Jobs : Load(r, j)
    \/ Mark(r)
    \/ Resolve(r)
    \/ Refuse(r)
    \/ Unreachable(r)
    \/ ReadShort(r)
    \/ ReadAndIndex(r)
    \/ Raises(r)
    \/ Finish(r)
    \/ FailJob(r)

Next ==
    \/ \E j \in Jobs : PanelCrawl(j) \/ PanelRecrawl(j)
    \/ \E r \in Runners : RunnerStep(r) \/ Dies(r)

Spec == Init /\ [][Next]_vars

\* A runner that can run does.  A loop that died is started again; a process
\* that died is not: its place waits for the next one that is spawned.
FairSpec == Spec /\ \A r \in Runners : WF_vars(RunnerStep(r))

(***************************************************************************)
(* Properties.                                                             *)
(***************************************************************************)

RunnerState ==
    [pc : {"idle", "loaded", "resolve", "crawl", "failing"}, job : Jobs \cup {NoJob},
     list : SUBSET Jobs, queue : Seq(Pages), seen : SUBSET Pages,
     processed : Nat, found : Nat, indexed : Nat, failed : Nat,
     visited : SUBSET Pages, read : SUBSET Pages]

\* Every variable has its type.
TypeOK ==
    /\ job \in [Jobs -> [status : {"absent", "queued", "running", "done", "failed"},
                         found : Nat, indexed : Nat, failed : Nat]]
    /\ runner \in [Runners -> RunnerState]
    /\ ops \in Nat /\ deaths \in Nat /\ died \subseteq Jobs /\ overlapped \subseteq Jobs

\* Queue and visited pages are the two parts of what was seen, and no page is
\* in the queue twice: a run fetches a page once, however the pages of the
\* site link to each other.
VisitsOnce ==
    \A r \in Runners :
        /\ runner[r].visited \cap ToSet(runner[r].queue) = {}
        /\ runner[r].visited \cup ToSet(runner[r].queue) = runner[r].seen
        /\ IsInjective(runner[r].queue)

\* A run that ends because its queue is empty has visited the start page and
\* every wanted link of every page it could read, and nothing else.
CrawlIsComplete ==
    \A r \in Runners :
        LET j == runner[r].job IN
        (runner[r].pc = "crawl" /\ runner[r].queue = <<>>) =>
            runner[r].visited = {Start[j]} \cup UNION {Wanted(j, p) : p \in runner[r].read}

\* No run hands more pages to the index than the job allows, and the row never
\* reports more pages found, whatever runs of the job overlap.  Nor does it
\* report more pages indexed than found, unless the job was handed out or queued
\* again while a runner had it: the run that loads the row after the other one
\* saved its counters adds to them.  A recrawl of a job that nobody has in hand
\* sets the counters right again.
WithinLimit ==
    /\ \A r \in Runners : runner[r].processed <= MaxPages
    /\ \A j \in Jobs :
        /\ job[j].found <= MaxPages
        /\ j \notin overlapped => job[j].indexed <= job[j].found

\* A run of job j has begun and is not over.
AtWork(j) == \E r \in Runners : runner[r].job = j /\ runner[r].pc # "loaded"

\* A row that says "running" says so because a run of the job goes on, or
\* because one has died: overlapping runs, recrawls and failures never leave
\* a job behind that the panel shows at work, and that Load would skip.
RunningIsRun == \A j \in Jobs : job[j].status = "running" => AtWork(j) \/ j \in died

\* Where a loop runs, a queued job comes to an end that the panel shows, unless
\* its runner dies; then it stays "running" until an operator recrawls it, which
\* queues it again.  (Without a loop, a process that dies before it has marked
\* its job leaves it "queued" until somebody recrawls it.)
JobsSettle ==
    \A j \in Jobs :
        Loops # {} /\ job[j].status = "queued" ~>
            \/ job[j].status \in {"done", "failed"}
            \/ job[j].status = "running" /\ j \in died /\ ~AtWork(j)

=============================================================================
