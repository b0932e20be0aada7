# Website AI Assistant: verification development

TLA+ models, TLC configurations and machine-checked proofs for Website AI Assistant:
a Django server that answers the visitors of a website from a knowledge base
(retrieval over uploaded documents and crawled pages), and the chat widget the
website embeds, one JavaScript class in twelve files.  Paths below are relative to
the repository (`src/`); line numbers of single definitions are in `PROJECT.json`
under `map`.

To run a check: `tlc -workers 2 -config corpus_container.cfg MCKnowledgeCorpus`;
to check the proofs: `tlapm KnowledgeCorpusProofs.tla`, and in the same way
`PositionsProofs`, `CorpusProofs`, `CrawlJobsProofs`, `ChatConversationProofs`,
`PlanStateProofs`, `WidgetChatProofs` and `WidgetPanelProofs`.

## 1. The system

One database, one volume with the corpus files, one cache (Redis if `REDIS_URL`
is set, else a cache per process), and these processes: 2 to 4 gunicorn workers
with up to 24 threads each (`gunicorn.conf.py`), one `runworker --loop` that
`deploy/entrypoint.sh` starts in the background after `ensure_deploy`, and, on
development machines and servers without that loop, detached processes
(`process_documents`, `run_crawl`) that the panel spawns.  There is no
`ATOMIC_REQUESTS`: each ORM call commits on its own, so between two of them
anything may happen.  On the other side, each browser tab of the website runs
the widget: one thread whose callbacks (clicks, timers, frames, responses) run to
completion, with a `sessionStorage` of its own and a `localStorage` that it
shares with the other tabs.

| Component | State | Operations | Talks to |
|---|---|---|---|
| Knowledge corpus (`chat/document_pipeline.py`, `chat/panel.py`, `chat/admin.py`, commands `runworker`, `process_documents`) | `Document` rows (status, content_hash, source); three positional artifacts `chunks.json`, `metadata.json`, `embeddings.npy`; `.corpus.lock` | upload, reprocess, admin form, enqueue, poll, process, delete from panel, delete from Django admin | crawler, serving, database |
| Serving (`get_rag_service` in `chat/views.py`, `rag/retriever.py`) | per process: the loaded service and the signature of the files it was loaded from | compare signature, reload, give up after 10 s | corpus files and their lock |
| Deployment (`ensure_deploy`, `entrypoint.sh`) | none of its own | repair the artifacts, then start worker and gunicorn | corpus files |
| Crawler (`chat/crawler.py`, `run_crawl`, `runworker`) | `CrawlJob` rows; the queue, seen set and counters of a run | crawl, recrawl, run a job, index a page | corpus |
| Chat and injection guard (`chat`, `chat_stream` in `chat/views.py`, guard pages of `chat/panel.py`) | `Conversation` rows (attempts, block, message count), `Message` rows, a cache key per blocked visitor | a chat request from load to stored reply; unblock, unblock all, admin form | assistant, cache |
| Plans and widget access (`chat/plans.py`, `api_permissions.py`, `middleware.py`, command room of `chat/panel.py`) | `SiteProfile` (period, suspended, stashed origins), the origins in `ProviderSettings`, two caches in front of them | enforce expiry, activate or renew a plan, forms, ask flag and origins | chat |
| Capacity of the assistant (`chat/services.py`) | a semaphore and an executor per process, the answer cache | ask with a timeout, stream | assistant, cache |
| Assistant (`rag/`) | none beyond the loaded arrays | embed, rank, prompt, call the model | remote APIs |
| Feedback, leads, handoff, unanswered questions | their rows | single inserts and a get_or_create ledger | notifications |
| Business rules, panel accounts, rate limits, monitoring | rows or cache counters | evaluate, check, count | requests |
| Widget client: chat (`static/widget/widget.js`, ten skins beside it, `static/widget.js`) | per page: conversation and token, `_blocked`, `isLoading`, the rows, the typewriter of each answer; per tab: conversation and `asw_blocked`; per site: the local history | load a page, send, retry, stream, fall back to a plain request, time out, type, "new conversation" | chat API, the other tabs |
| Widget client: panel, teaser and forms (the same files) | per page: open, unread, title flash, teaser, sheet, forms, handoff offer, ratings; per tab: teaser dismissed | open, close, fade out, flash, submit, offer, rate | contact and feedback API |
| Templates, migrations, scripts, load test | - | - | HTTP API |

What is hard here, and why tests seldom reach it:

* The corpus is three files that only mean something together, replaced one by
  one, by four pieces of code that write them in three different orders
  (indexing and the admin's delete: chunks, metadata, embeddings through
  `os.replace`; the panel's delete: embeddings, chunks, metadata in place, or
  unlinks), and read by processes that look at their mtimes without a lock.
* Rows are loaded, worked on for seconds or minutes, and saved over whatever
  happened in between: worker results, admin forms, crawler saves, the
  conversation of a chat request.
* State about one fact lives in two places: the row and the corpus; the blocked
  row and the cache key; the signature and the arrays; the job's row and the run.
* Processes die; deployments replace them; lock waits end after 30 or 10 seconds.
* In the widget the buttons work before `initialize()` is over; the typewriter goes
  on after the request whose text it types, while the next one runs; a stream may
  be empty, cut, refused, timed out or repeated; "new conversation" and page loads
  come in the middle of all this; and what fades out is hidden by timers that
  nobody cancels.

`PROJECT.json` lists these hazards line by line with the properties that would
catch them, and says of the others why nothing covers them.

What makes each component correct: the artifacts stay aligned and hold one version
of each document, rows tell the truth about them, nothing stays "processing",
nothing deleted returns, a queued document settles (corpus); what a process answers
from was complete, is kept until something better loads and is refreshed (serving);
a repair throws nothing usable away (deployment); who is blocked is not answered,
nobody is blocked early, only operators unblock, counts are not invented (chat
guard); each page once, all pages, within the limit, every job ends (crawler); the
page, the session and the local history agree, one request at a time is in flight,
each answer is whole and shown once, the old chat does not return, every answer ends
(widget chat); what was closed or seen does not stay or come back (widget panel); an
expired plan closes the widget and a renewed one opens it again with the same
origins (plans).  For capacity: no more concurrent assistant calls than slots.

## 2. Modules and how they correspond to the code

    CorpusStore  <-- refined by --  KnowledgeCorpus  <-- EXTENDS --  CorpusServing  <--  CorpusRecovery  <--  CorpusClaims
    Positions         <-- EXTENDS --  KnowledgeCorpus, CrawlJobs, PositionsProofs
    KnowledgeCorpus   <-- EXTENDS --  KnowledgeCorpusProofs (with PositionsProofs)
                                        <-- EXTENDS --  CorpusProofs (with CorpusRecovery)
    CrawlJobs         <-- EXTENDS --  CrawlJobsProofs (with PositionsProofs)
    ChatConversation  <-- EXTENDS --  ChatConversationProofs
    PlanState         <-- EXTENDS --  PlanStateProofs

    WidgetChat  <-- EXTENDS --  WidgetBuilds  <-- EXTENDS --  WidgetChatProofs
                <-- EXTENDS --  WidgetLocks
    WidgetPanel <-- EXTENDS --  PanelBuilds   <-- EXTENDS --  WidgetPanelProofs

**KnowledgeCorpus.**  `status`, `hash`, `source` are the columns of `Document`
(`source` also stands for the file behind it).  `disk` maps each artifact to a
list of entries `[doc, text, part]`, to `Absent` or to `Torn`; the arrays are
compared by *which chunk* each position describes, which is what alignment is
about.  `writes` counts the writes of each file: equal counts, equal mtime.
`lock` is the holder of the FileLock.  `agent[p]` is the program counter and the
locals of a worker or a request; its `row` is a row that was loaded as a whole and
is to be saved as a whole.  `undone` is history: the documents whose row was changed
by somebody else between such a load and its save, which puts the old values back.
Actions:

| Action | Code |
|---|---|
| `PanelUpload`, `PanelReprocess`, then `PanelEnqueue` | the panel views and `enqueue_document(s)` |
| `AdminAdd`, `AdminEnqueue` | add form and actions of the Django admin |
| `LoadForm`, then `AdminSave` | its change form, from the load of the row to `save()` |
| `Poll` | `runworker --loop` |
| `LoadPage`, then `CrawlSave` | `_index_page` of the crawler, which saves the whole row and indexes in its own process |
| `Begin`, `CheckDuplicate`, `IndexFails`, `IndexLocked`, `SaveReady`, `SaveFailed` | `process_document` and `rebuild_document_embeddings` |
| `RequestDelete`, `PanelDeleteLocked`, `AdminDeleteLocked`, `DeleteTimeout`, `FinishDelete` | `delete_document_artifacts`, `remove_document_embeddings`, `delete_model` |
| `WriteNext`, `Unlock` | every single file write, and the end of the `with` block |

The checks each piece of code makes of the files it read are kept as they are,
with their gaps: indexing compares two of three lengths, the panel's delete
none and does not even read the embeddings until it has to.

**CorpusStore** is the abstract specification: a map from documents to texts
that changes by one document at a time.  `KnowledgeCorpus!Committed` is the
refinement mapping: what the file written *last* says (metadata while a panel
delete rewrites in place, embeddings otherwise).

**CorpusServing** adds the threads of one gunicorn process: three `stat` calls,
then under `_rag_lock` the comparison and, under the corpus lock, the reload.
`Loadable` is what `Retriever.__init__` accepts.

**CorpusRecovery** adds what interrupts a write: `WriteFails` (a write or an
`os.replace` raises while its process lives on: the row of a worker becomes
"failed", with some of the files replaced), `Crash` (a process dies at any step),
`Shutdown` (the container ends, with all its processes, wherever they are), each
of which may leave a file that is being written in place cut off; and `Startup`,
the repair `_ensure_corpus` makes before worker loop and gunicorn start.  `spoilt` is
history: an in-place rewrite was cut off.

**CorpusClaims** holds a statement of a docstring that the code does not satisfy
(section 5).

**ChatConversation.**  `row` and `messages` are the tables, `sticky` the
`guard:visitor-block:` keys.  A handler goes through load (`Enter`), cache check,
row check, attempt, block, user message, count, answer, assistant message, count;
each is one database or cache call, and the handler keeps only what it will use
of its own copy of the row.  `AttemptFails`, `CheckFails`, `GuardFails`, `Abort`
are the except branches.  `tried` and `barred` are history variables.

**CrawlJobs.**  `job` is the row; a runner's record is the locals of
`run_crawl_job`.  `Loops` are the runners that poll (`runworker --loop`); the others
are places for the one-shot `run_crawl` processes that the panel spawns when
`InlineSpawn` holds, and never poll.  Both at once is a server with `SPAWN_WORKERS=1`
(`document_pipeline.py:341`), or a development machine on which the loop was started
by hand, as `README.md:153` and `:609` tell to.  `visited`, `read`, `died` and
`overlapped` are history.  `Dies` ends a runner's process anywhere: what it had in
memory is gone, the row stays as it is.

**Positions** is the one idea that the corpus and the crawler share: the entries of
a list at a set of positions, in order (`Pick`), as the code's list comprehensions
`[x for i, x in enumerate(xs) if ...]` select them.

**PlanState.**  `profile` and `provider` are the two rows an expired plan touches,
`flag` and `access` the two entries of the cache.  A request goes through
`ensure_plan_state` (`Look`, `PutAside`, `ClearOrigins`, `Suspend`, `Forget`),
`plan_is_expired` (`AskFlag`, `Remember`) and `get_widget_access_config`
(`AskOrigins`, `KeepOrigins`); each load, save and cache write is a step, and works
on the copies the request has made.  `Fails` are the except branches, which swallow
the error.  The owner's `Open`, `Renew`, `Restore`, `SaveProfile`, `Announce` are
`plan_activate` and the form of the profile; `OpenProvider`, `SaveProvider` the forms
that save the other row.  `lost` is a history variable.

**WidgetChat** is the chat of one tab.  `build` is the file the page loaded,
`phase` how far `initialize()` is, `conv`, `blocked`, `loading` and `rows` what the
class and its message list hold, `req` the request that `streamChat` or
`callBackend` awaits, `ans` the closure of `streamChat` for each message (received,
typed, closed, verdict), `session` and `saved` the two storages.  Every callback, and
every stretch of an async function between two awaits of something outside, is one
action:

| Action | Code |
|---|---|
| `Boot`, `ConfigArrives`, `HistoryArrives`, `Leave` | constructor, `initialize`, `restoreLocalHistory`, `restoreHistory`, the page's end |
| `Send`, `Retry`, `NewConversation` | `send` and `sendText`, the retry button of `addMessage`, the button of `bindEvents` |
| `StreamOpens`, `Meta`, `Token`, `Done`, `StreamEnds`, `StreamFails`, `StreamTimeout` | the response, the events and the ends of `streamChat` |
| `Paint` | a frame of the typewriter (`paintStep`, `finishUp`), during the request or after it |
| `PlainReply`, `PlainFails`, `PlainTimeout` | `callBackend` with `handleAnswerResult` |
| `OtherTab` | another tab of the site writes or clears the local history |

**WidgetBuilds** is the chat of each of the twelve files.  They repeat the same
class under another style sheet; comparing them method by method, the one
difference of behaviour in the chat is that only `widget.js` knows a blocked
visitor and a closed chat (`_setBlocked`, `asw_blocked`, an answer inside a 403): the
constant `Guarded`.  The module names the file, and the part of its class, behind
each step; `build` may be another one on the next page, over the same storages.

**WidgetLocks** sets WidgetChat beside what the server knows of the visitor, for
the statement of section 5.

**WidgetPanel** is what the widget shows around the chat: the open panel, the
teaser with its timers, the unread badge, the flashing title, the contact sheet
and the inline form, the offer of a human and the ratings.  Something that is
closed is marked at once and hidden by a timer later (`TeaserGone`, `SheetGone`).
**PanelBuilds** is the panel of each file.

Each module also holds *mistakes*: operators that are not part of `Next` and give
a definition as a plausible bug would have it (a lock not taken, a save of all
columns, an early return).  `PROJECT.json` pairs each checked property with one
of them that TLC finds to violate it.

### Abstractions

* A text is a value; equal text, equal hash.  The hash of the uploaded file and
  that of the extracted text are one.  Chunking gives `Size[c]` entries.
  Extraction, chunking, embedding, fetching either succeed or fail at any time.
* A document key is never reused, as with Django's autoincrement keys.
* `PanelUpload` merges the two saves of a row that no one waits for yet.
* The check for an existing row of a crawled URL and the insert are one step.
  Two crawlers that insert the same new URL at once (there is no unique
  constraint) would make two rows; that is not modelled.
* Modification times are the number of writes: two writes within the clock's
  resolution are told apart.
* The chat guard is modelled for a cache that all processes share (Redis, or one
  process); with a cache per process a sticky key is known to one of them only,
  and the rows, which every process reads, remain.  The threshold does not
  change within a behaviour.  Deleting conversations in the Django admin is not
  modelled.  The guard may be switched off for a site; then none of it runs.
* Unblocking and the deletion of its cache keys are two steps (`Unblock`, `ClearKeys`);
  the keys are those of the conversation's fingerprint and of the operator's own.
* Which text is an injection attempt, and what the assistant says, is left open.
* The clock of PlanState has one unit per month of a plan; entries of its cache may
  time out at any time.  A miss of the cache and the read that follows it are one
  step.  The widget key, which is rotated together with the origins, is left out, as
  are the quota switch, the use of a cycle and the environment's fallback for origins.
* A crawled site is a constant link graph; the page at a URL is the one at the
  end of its redirects.  Every page may be unreachable, refused, short or fail,
  differently in each run.
* A message of the widget is its number; a stored entry is its role and number;
  tokens and typed characters are counts.  Every token event brings text.  One
  without would add the bubble and leave `streamedText` empty (`widget.js:2504-2507`),
  so that the fallback adds a second row (`:2536-2540`) and a time-out one for the
  error: `AnswerIsWhole` and `OneRequest` do not cover this.  The server skips pieces
  without text (`rag/llm_wrapper.py:104`) and has defaults for its fixed replies; what
  is left is an answer of white space only that a plain request has cached
  (`chat/services.py:283`).  Whether the server refuses, answers or
  fails is open in WidgetChat, decided by `locks` in WidgetLocks.
* The history request of the widget is always refused, because the code sends no
  token (section 5); a page without local history shows none.
* `OtherTab` writes only until the page has read the local history: this tab never
  reads it again, so later writes of others change nothing that it does.
* Both storages work and hold what is written; the expiry of the history after
  seven days is not modelled, nor are rendering, citations, sounds, voice input,
  suggestions, theme and colours, and the preview channel of the admin panel.
* How many hiding timers are left is not counted: each may leave others.  The
  site's own changes of its title are not modelled.

## 3. What the runs check

No run uses a state constraint; behaviours are finite because operators, crawlers,
failures and deaths are counted (`MaxOps`, `MaxCrashes`, `MaxDeaths`, `MaxFailures`,
`MaxRequests`) and the clock of PlanState ends (`MaxTime`).  `CHECK_DEADLOCK FALSE`
is set everywhere because a system whose operators are done and whose queues are
empty stops; that workers do not stop *early* is what the liveness properties say.

| Run | Instance | Properties |
|---|---|---|
| `corpus_container` | 2 documents (one crawled), texts of 1 and 2 chunks, the worker loop, 1 request, 5 operations | `TypeOK`, `Aligned`, `ReadyIndexed`, `ProcessingIsInFlight`, `HashUnique`, `HashTellsIndexed` |
| `stale_saves` | the same documents, 2 detached workers, 2 requests, 4 operations | `OneVersion`, `OnlyFormsResurrect`, `ImplementsStore` |
| `serving_threads` | 1 document, 2 fair threads of a process, worker, request | `ServedAligned`, `SignatureTellsFresh`, `ServiceKept`, `EventuallyFresh` |
| `recovery` | two failed writes, deaths or ends of the container at any steps, 3 operations | `RepairKeepsLoadable`, `RepairLeavesLoadable`, `LockReleased`, `QueueSurvives` |
| `chat_guard` | 2 conversations, 2 visitors, 2 requests in flight (3 in all), 1 operator, threshold 2, 2 operations or failures | `TypeOK`, `BlockedIsNotAnswered`, `NeverBlockedEarly`, `CountNeverAhead`, `OnlyOperatorsUnblock` |
| `crawl_jobs` | 1 job queued twice, a loop and a spawned process of which one may die, 5 pages with cycles, a skipped file, a foreign host, limit 2 | `TypeOK`, `VisitsOnce`, `CrawlIsComplete`, `WithinLimit`, `RunningIsRun`, `JobsSettle` |
| `plan_state` | 2 overlapping requests, the owner, 2 operations, a plan that can end, be renewed and end again, 1 database error | `PlanTypeOK`, `OriginsKept`, `AccessSettles` |
| `widget_chat` | the twelve files, 2 messages (on the others than `widget.js` and one skin the second only as a retry), 1 token, a history of 3 rows | `TypeOK`, `StorageAgrees`, `OneRequest`, `AnswerIsWhole`, `HistoryIsScreen`, `NewStartsClean`, `AnswersSettle` |
| `widget_panel` | the twelve files, 2 answers, 2 unread messages | `PanelTypeOK`, `NothingLingers` |
| `claim_repair`, `claim_sticky`, `claim_widget` | as small as shows it | one refuted statement each |

Why these bounds show something.  Misalignment needs a corpus with chunks of
another document before or after the one that is taken out, hence two documents
and texts of different length; two writers and a reader at every point between
two writes; and four operations, enough for index, index, delete, reindex (five
where a form or crawler that loads early and saves late may take one of them).  The
signature of a process can go wrong with one text replaced by another *of the
same size* (`serving_threads` uses two of these), two threads between `stat` and
reload, and two changes.  A block at threshold 2 with three requests reaches
first attempt, block, and a request after the block, of the same or another
visitor, with two of them overlapping; two operations allow an unblock and a lost
key or failure.  The site has a page linked from several others, a page that
links to itself, and more wanted pages than the limit of 2, so that both ends
of a run (limit, empty queue) occur.  The properties that hold for one worker
only (`HashUnique`, `HashTellsIndexed`) are so named and checked for the
container deployment, which has one: two detached workers can both pass the
duplicate check before either saves its hash.

One death in `recovery` and one in `crawl_jobs` are enough to leave a row
"processing" or "running" with nobody at work; the properties name exactly these
rows as what may stay (`QueueSurvives`, `RunningIsRun`, `JobsSettle`) and say that
nothing else does: a document or job that is queued when somebody dies, also one
queued again meanwhile, still comes to an end.  The two interruptions of `recovery`
let a worker die, or a write fail, between two files of a write, and the container
end after that or in the middle of another write; every `Startup` then repairs what
is left.  With three operations one of the two documents can be taken out of, or be
indexed again in, a corpus that has both.

In `crawl_jobs` two queueings of one job, with a loop and a process, are the least
with which two runs overlap: the panel spawns a process for a job that the loop has
polled, or recrawls a job at work.

In `plan_state` two requests are the least that both find the plan expired and both
enforce it; the owner's renewals can fall anywhere between their steps, and with
a clock that ticks twice the renewed plan ends again.  `OriginsKept` has two exceptions,
because the code does lose the origins there (section 5): a save that undid
another, and an enforcement cut short between its saves.

Two messages in the widget are the least with which an answer is still typed while
the next request runs, with which a refusal locks the page in the middle of another
request, and with which "new conversation" has an old message to hide and one in
flight to let through.  One token separates a stream that brought something from one
that did not, which is all that `streamChat` asks; three rows of history are fewer
than two messages, their answers and an error make, so that the oldest row drops
out.  The skins do the same with one build constant, so two messages on one of them,
and on the others one that may be sent again by its retry button, take each file
through its every step; the theorem `BuildsImplement` says the rest.  In
`widget_panel` two answers allow one with and one without an offer, before and after
a new conversation; two unread messages a badge that grows.

What they show, beyond the listed hazards: no order of indexing and deletion, by
any number of agents within the bounds, leaves files that do not belong together
when the lock is free; seen from the last file of each write they refine an
atomic store; a process serves only such states even though it looks at the
mtimes without the lock.  A whole-row save can bring a deleted row back, or put a
row back to "processing" with nobody at work, if the row changed since it was loaded:
the properties of rows leave out exactly the documents this has happened to
(`undone`), and the corpus is not touched by it.  `OnlyFormsResurrect` says that
nothing else brings a row back: a worker that finishes a document deleted meanwhile
saves named columns only, and fails.

After a write that fails, or a death inside one, `Aligned` is not claimed, because it
does not hold: new chunks may stand beside old metadata of the same length, which no
check of the code can tell.  `RepairLeavesLoadable` claims what does hold: if no
in-place rewrite was cut off, a container starts with files that the retriever loads,
or with three empty ones, which it refuses (section 5).

`NeverBlockedEarly` counts the attempts of a conversation from its beginning, those
before an unblock too.  It is one-sided: attempts that two overlapping requests count
as one, and a block that comes at once after an unblock because an older copy of the
row is saved, do not violate it.

`WithinLimit` bounds the pages of each run and the pages found that a row reports.  The
pages *indexed* of a row are bounded only for a job that no two runners had in hand:
a run that loads the row after an overlapping one has saved its counters adds to them
(`crawler.py:293`, `373`, `414`), so the panel can show more pages indexed than
`max_pages`; `overlapped` names these jobs.

In the widget, whatever
comes late, and whichever file the next page loads, page, session and history agree
wherever the code claims to keep them so; the exceptions are named in the
properties: a retry that is refused because a request is in flight takes its error
row from the screen and not from the history, and the last tab to write the shared
history wins.

### Fairness

* `FairSpec` of CrawlJobs: weak fairness of each runner process as a whole.  A
  process that can take a step is scheduled; what it waits for with a timeout (an
  API) is a step that may fail.  No fairness of operators: nobody must click.  The
  loop polls again after a death: every start of the container starts one
  (`entrypoint.sh:31`) and compose restarts the container; while the container goes on
  nothing watches a loop that died alone, so "in the end" means after the next
  start.  A spawned process is not restarted, and its place does nothing before the
  next one is spawned: `JobsSettle` is about deployments with a loop (`Loops # {}`),
  because without one a process that dies before it has marked its job leaves it
  "queued" until somebody recrawls it.
* `FairSpec` of PlanState: requests keep coming and are served to their end, as are
  the owner's once begun, and cached entries time out.  The clock need not tick.
* `FairServingSpec`: in addition the requests that have begun run on, and the
  process keeps being asked: some thread gets on, not each of them; a process nobody
  asks reloads nothing.
* `BuildsFairSpec`: the abort timers of the stream and of the plain request fire
  (`setTimeout` before each `fetch`), and the typewriter gets frames
  (`requestAnimationFrame` in a page that stays visible).  Nothing is assumed of the
  server, the network or the visitor.
* `FairRecoverySpec`: weak fairness of all agents, and of `Startup`: a container that
  ended is started again (`restart: unless-stopped`).  After a death the same agent
  identity can act again: somebody restarts the loop, as the next start of the
  container does.  The entrypoint itself does not watch the loop.  `LockReleased`
  needs no restart: the FileLock goes with its process.

## 4. What is proved

Every safety property that a passing run checks is proved, but for
`RepairLeavesLoadable`.  `KnowledgeCorpusProofs.tla` proves, for all finite or infinite
sets of documents, texts, workers and requests, both values of `InlineSpawn` and any
`MaxOps`, from `ConstantsAssumption` and `RowAssumption` (texts have at least one chunk,
the special values are distinct from the ordinary ones):

| Theorem | Statement |
|---|---|
| `TypeCorrect` | `Spec => []TypeOK` |
| `CorpusAligned` | `Spec => []Aligned` |
| `FormsResurrect` | `Spec => OnlyFormsResurrect` |
| `ProcessingInHand` | `Spec => []ProcessingIsInFlight` |

The arguments:

* *Type* (`TypeInv`): `TypeOK` with `TextKnown`, which it needs to be inductive:
  a row that exists has a text, an agent that is to enqueue something has a
  document, and a worker that has loaded or checked one has its text too.  The
  arithmetic is in lemmas about `Nth` and `Pick` (selecting the positions of a
  finite set of numbers in order gives a sequence of the selected entries);
  `NthExists` is proved by choosing a minimal initial segment instead of by
  induction, since the provers cannot instantiate the induction theorems.
* *Alignment* (`AlignInv`): `Aligned` says nothing while the lock is held, so the
  invariant describes the writing: whoever is writing holds the lock
  (`WriterHoldsLock`), what it writes is aligned as a whole, and each file that
  its `todo` no longer names holds it already (`WritesAligned`).  When `todo` is
  empty all files do.  What is written is aligned because the same positions are
  taken from lists that the code has compared, or that the files left aligned by
  the writer before, and the same entries are appended.
* *Deleted rows*: each action that writes a status does so under `Exists`, or
  creates a row whose status is "absent", except the two saves of a whole row, which
  write the row they have in hand (`DeletedStays`); the theorem is an action property
  that follows from the type invariant.
* *Processing* (`FlightInv`): `ProcessingIsInFlight` with `WorkerForm`: an idle
  worker has no document, a worker that writes is indexing, and no worker is
  where only requests can be.  A whole-row save writes back the status it loaded,
  "processing" perhaps, but then either the row is unchanged and so is its worker, or
  the document is `undone` from now on.

They are theorems of `Spec`, without failing writes and deaths: with them alignment
is *not* an invariant and rows may stay "processing".  What does survive deaths is
below.

`PositionsProofs.tla` proves of any list and any finite set of positions that `Pick`
returns the selected entries, each position once, in the order of the list.

`CorpusProofs.tla` proves the rest of what `corpus_container` and `stale_saves` check,
for the same constants, from `FilesAssumption` as well (absent, torn and unloadable
files are no lists of entries):

| Theorem | Statement |
|---|---|
| `CorpusIsStore` | `Spec => ImplementsStore` |
| `ReadyIsIndexed` | `Spec => []ReadyIndexed` |
| `CorpusHasOneVersion` | `Spec => []OneVersion` |
| `OneWorkerHashUnique` | one worker: `Spec => []HashUnique` |
| `OneWorkerHashTells` | one worker: `Spec => []HashTellsIndexed` |

* *Refinement* (`PlansChange`): while somebody writes, what is on disk in the file
  of the refinement mapping is the old store, and what is still to be written is
  that store with one document put or removed.  Writing that file is the store's
  step; all other steps stutter.
* *Ready rows* (`ReadyInv`): a row is called ready only after the lock is released,
  so the invariant speaks of what each agent will leave: every other writer keeps
  the chunks of a ready row (`WritesKeep`), a worker about to save "ready" has its
  chunks in the corpus, and whoever takes them out is about to drop the row.
* *One version* (`VersionInv`): the chunks of a document, in every file and in
  every list that is being written, carry one text and the parts 1, 2, ... in the
  order of their positions (`Whole`).  Taking out positions of others keeps order
  and parts (`NthInOrder`); that makes what is picked the list one run produces.
* *Duplicates* (`OwnText`): with one worker a hash in a row is that of no other row,
  and not of the text the worker has checked and is about to save.  Rows are
  deleted or queued meanwhile, but only this worker saves hashes.
* *Hashes that tell* (`HashInv`): a row with a hash has its chunks of that text in
  what is, or is about to be, on disk (`TextHeld`, `WritesTexts`), unless a run or a
  delete of that document is between its two writes (`InRun`).

The load of a whole row touches only the hands of who loads it.  Its save may set any
status and an old hash, but leaves files, lock and writers alone, and puts the document
in `undone` unless the row is the one that was loaded: the invariants about rows speak
of the other documents only, those about files of all.

Then come the readers and the deaths, from `ServingAssumption` (no corpus is `NoService`):

| Theorem | Statement |
|---|---|
| `ServingTypeCorrect` | `ServingSpec => []ServingTypeOK` |
| `ServesAligned` | `ServingSpec => []ServedAligned` |
| `SignatureSound` | `ServingSpec => []SignatureTellsFresh` |
| `ServiceIsKept` | `ServingSpec => ServiceKept` |
| `RepairIsCareful` | `RecoverySpec => RepairKeepsLoadable` |
| `HolderLives` | `RecoverySpec => []WriterHoldsLock` |
| `RecoveryFormsResurrect` | `RecoverySpec => OnlyFormsResurrect` |
| `RecoveryHashUnique` | one worker: `RecoverySpec => []HashUnique` |

* *Serving* (`ServeInv`): every behaviour of `ServingSpec` is one of `Spec`, so the
  invariants of the corpus hold; a reload takes the lock, so it finds the three
  files aligned.
* *Signatures* (`Signed`, `LoadedIsSigned`): a stat is never ahead of the counter of
  writes, and counters only grow.  So a signature that equals the mtimes now was
  true all the time since it was taken, and the load in between saw these files.
* *Repair*: of the three files being there and of equal length, by cases.
* *Deaths*: a step of `RecoverySpec` is a step of `Spec`, an interruption (a write
  that fails, a death, the end of the container) or a start (`RecoveryForms`).
  `AlignInv` does not survive, but its half about the lock does: whoever holds it
  is alive and writing (`HolderLives`), the safety half of `LockReleased`.  A death
  loses what its process had in memory and no row, so what is proved of rows from
  `OwnText` and of deleted ones goes through.

`CrawlJobsProofs.tla` proves the safety of `crawl_jobs` for every site (any number
of pages, hosts, links and files), any limit, jobs, runners and deaths, from
`CrawlAssumption`:

| Theorem | Statement |
|---|---|
| `CrawlType` | `Spec => []TypeOK` |
| `CrawlVisitsOnce` | `Spec => []VisitsOnce` |
| `CrawlCompletes` | `Spec => []CrawlIsComplete` |
| `CrawlWithinLimit` | `Spec => []WithinLimit` |
| `CrawlRunning` | `Spec => []RunningIsRun` |

* *The queue* (`Sound`): what was seen is split into visited pages and a queue
  without repetition (`Split`), and is the start page with the wanted links of every
  page read (`Reached`).  The links a page adds are its wanted ones not seen before,
  each once, by the lemmas on `Pick`.
* *The limit*: a page is counted only under the loop's guard.  For the pages indexed
  the invariant (`CountInv`) says of a job that is not `overlapped` that one runner at
  most has it in hand (`Counted`), that its row has the counter set back while it
  waits, and that what the run has added is at most what it has processed.  Whatever
  hands the job out a second time, or queues it while a runner has it, puts it in
  `overlapped`.
* *Running rows*: a run under way, or the death of one, excuses its row; when one of
  two overlapping runs ends it writes "done" or "failed" over the row, so the other
  need not be named by it.

`ChatConversationProofs.tla` proves all that the run `chat_guard` checks, for any
conversations, visitors, overlapping requests, panel users and bounds, from
`ChatAssumption` (the threshold is what `_guard_on_attempt` clamps it to, 2 to 20;
the special values are distinct from the ordinary ones):

| Theorem | Statement |
|---|---|
| `ChatTypeCorrect` | `Spec => []TypeOK` |
| `BlockedNeverAnswered` | `Spec => []BlockedIsNotAnswered` |
| `BlockedWhenDue` | `Spec => []NeverBlockedEarly` |
| `CountsNotInvented` | `Spec => []CountNeverAhead` |
| `UnblockedByOperators` | `Spec => OnlyOperatorsUnblock` |

* *Type* (`TypeInv`): `TypeOK` with `InHand`: a request under way works on a
  conversation that exists, and a filled-in form is that of a row that exists and
  has the same visitor.
* *Blocks that are due* (`AttemptInv`): `NeverBlockedEarly` is about rows, but rows
  are overwritten with old copies.  So what holds of the rows is kept of every
  copy: no row, request or form has more attempts than were tried in its
  conversation, and no row or form a block that is not due.  Attempts tried only
  grow, so a copy gets no less true with age.
* *Counts* (`CountInv`): in the same way, a request's count, with the message it
  has inserted and not yet counted, is at most the number of messages.
* *Blocks that stay* (`HandlerKeepsBlocks`): no step of a request makes a blocked
  row unblocked or another visitor's; this is where the columns named in each
  save matter.
* *Barred requests* (`BarredInv`): a request that was blocked when it came either
  has the block still before it (before the cache check: a sticky key or a blocked
  row of its visitor; before the row check: a blocked row), or has the reply
  "blocked" and is on the way of stored replies, which does not lead to the
  assistant.  Requests keep this of each other by `HandlerKeepsBlocks`; operators
  excuse the visitors whose barrier they take away.

`WidgetChatProofs.tla` proves all safety properties of `widget_chat`, for any
builds, any subset of guarded ones, any numbers of messages, tokens and stored
rows, from `ConstantsOK`, and carries them over to the twelve files with
`ThemesAreBuilds`:

| Theorem | Statement |
|---|---|
| `ChatTypeOK` | `Spec => []TypeOK` |
| `OneRequestAtATime` | `Spec => []OneRequest` |
| `StorageAgreement` | `Spec => []StorageAgrees` |
| `AnswersWhole` | `Spec => []AnswerIsWhole` |
| `HistoryKept` | `Spec => []HistoryIsScreen` |
| `NewChatClean` | `Spec => []NewStartsClean` |
| `BuildsImplement` | `BuildsSpec => Spec` |

* *The chat* (`ChatInv`), with one lemma per action: the types; `Flight`, that a
  request under way is that of the latest message and how often it was posted;
  `Brought`, what an answer holds at each stage of its request (nothing, if the
  request is repeated); `Answering`, that messages not yet sent have no answer and
  nothing is shown that has not arrived.
* *The storages* (`StorageAgrees`): it is inductive over `ChatInv`.  Each action that
  sets the page's half sets the session's, or runs before `ConfigArrives` reads it.
* *One answer on the screen* (`Bubbles`): a row of an answer exists only for a
  message of which something came, and only once.  Rows are only appended, removed,
  relabelled or wiped, and what came never becomes less.
* *The clean start* (`Clean`): no row or entry is older than `first`; needs from
  `Flight` that `first` is at most the message in flight, whose rows may still come.
* *History* (`HistoryInv`): `HistoryIsScreen` says nothing while `initialize()`
  waits, when a message may already be sent; the invariant adds that an empty
  history means an empty screen then.
* *Refinement*: each step of a file is a disjunct of `Next` with `build` fixed.

`WidgetPanelProofs.tla` proves the safety of `widget_panel` in the same way, for
any builds, offers, numbers of messages and ratings:

| Theorem | Statement |
|---|---|
| `PanelTypeCorrect` | `Spec => []PanelTypeOK` |
| `NothingStays` | `Spec => []NothingLingers` |
| `PanelBuildsImplement` | `PanelBuildsSpec => Spec` |

* The panel (`PanelInv`) is five parts over different variables, so each has a
  lemma of its own against `Next` and none needs another's facts: what calls for
  attention (`Calls`: unread, flash and badge), the teaser (`Teasing`), the sheet
  (`Sheeted`), the offer of a human (`Offering`), and the types of the rest
  (`Counted`).  Most steps leave most parts alone; what has to be shown is that
  every way of closing something, and every timer that fires late, leaves the
  mark and what is on the screen in accord.

`PlanStateProofs.tla` proves the safety of `plan_state` for any number of overlapping
requests and of people in the panel, any durations and bounds, from `PlanAssumption`
(a request is a visitor's or the panel's, not both; a plan lasts at least one unit;
special values are distinct):

| Theorem | Statement |
|---|---|
| `PlanTypeCorrect` | `Spec => []PlanTypeOK` |
| `OriginsAreKept` | `Spec => []OriginsKept` |

* *Origins* (`OriginsInv`): `OriginsKept` is far from inductive, since each enforcement
  and renewal saves two rows from copies it made before.  The invariant orders the
  profiles a site has had (`Later`: the plan runs longer, or is suspended in the same
  period), says that every copy held is the present row or an earlier one (`Copies`),
  and so that a copy of the present row is the last word: whoever holds one without
  origins in it found none to put aside, or another request is about to put them aside
  (`Handed`); a renewal that holds one has given the origins back (`Restored`).  The
  origins stand in force, aside, or in the hands of a request between its two saves
  (`Standing`).  All this only as long as no save wrote an older copy over a later row
  and no enforcement was cut between its saves (`lost`), in which cases the code does
  lose them.

Only model-checked: `RepairLeavesLoadable`; the liveness properties `QueueSurvives`,
`LockReleased`, `EventuallyFresh`, `JobsSettle`, `AccessSettles` and
`AnswersSettle`, which with fairness and `ENABLED` are out of the prover's reach;
and the three statements of section 5, which TLC refutes.

## 5. Where code and comments disagree

Each has a run that shows it.

* `claim_repair`: `ensure_deploy` says it guarantees a consistent corpus after a
  crash (`ensure_deploy.py:76-80`).  It takes unreadable files as they are
  (`ensure_deploy.py:113`).  In the run two documents are indexed, the panel deletes
  one, the container ends while `embeddings.npy` is rewritten in place, and the next
  one starts with the cut-off file, which the retriever refuses on every request.  (It
  also compares chunks with embeddings only; metadata of another length pass.)
* `claim_sticky`: the sticky key "must not outlive the DB rows"
  (`views.py:1180-1181`).  In the run a visitor opens a conversation with an attempt,
  and a second attempt, from another address, blocks it and sets the key of *that*
  address; the operator unblocks the conversation, which deletes the key of the first
  one.  No row is blocked any more, and the second address stays blocked for seven
  days.
* `claim_widget`: of the history request the widget says "Server is authoritative:
  lock when guard_blocked OR quota_locked; unlock otherwise"
  (`static/widget/widget.js:1135`), and `README.md:105` draws it with the header
  `X-Conversation-Token`.  `getHeaders()` does not send that header, so the server
  answers 403 (`views.py:1157-1162`) and the widget does nothing with it.  In the run a
  visitor is blocked, an operator unblocks, the page is loaded again, another tab has
  emptied the local history, and the history request leaves the input locked.  (With
  a local history the page asks nobody, `static/widget/widget.js:1020-1021`, and stays
  locked as well, until the tab is closed.)

Seen while reading and not given a run: a document enqueued while it is processed is
not picked up "after the current run" (`document_pipeline.py:364-365`), because the
end of the run saves "ready" over "queued"; an empty corpus is called a valid state
(`ensure_deploy.py:80-81`), but deleting the last document in the Django admin
writes three *empty* files, which `Retriever` refuses; "during streaming the send
button acts as a stop control" (`static/widget/widget.js:1520`), but `setLoading`
disables the button through `updateSendState`, so only the timer ends a stream; the
contact form takes any JSON reply without `"ok": false` for a success, that of a
throttled request too; a sheet that is opened again within 380 ms is hidden by the
timer of the closing; between the `os.replace` calls a crash or a failing write
leaves mixed generations although `README.md:506-507` says that readers never see a
half-written state (readers that take the lock do); a worker that has loaded a
document can add its chunks after the panel deleted it, contrary to
`document_pipeline.py:410-411` (`ReadyIndexed` and `OneVersion` still hold, the
chunks belong to no row); documents are processed one at a time
(`README.md:237-238`) only in the container deployment; files that were missing when
the signature was taken match again after an unlink (`README.md:131-132`; the
exception in `SignatureTellsFresh`); a malformed link raises out of `_extract_links`
and fails the whole job, while the docstring of `run_crawl_job`
(`crawler.py:290-291`) promises that single pages do not; the counters of a crawl
are written only at its end, and a row can report more pages indexed than
`max_pages` when a job is crawled again during a run; the quota lock never opens by
itself, unlike the docstring of `_quota_lock_enabled`; the widget-configuration
cache is deleted under another key than it is stored under; `ensure_plan_state`
means to "never overwrite a previous stash with empty" (`chat/plans.py:170`), but it
decides on the copy it was given, so two requests that find the plan expired at
once, or one that races with a renewal, can store the empty list over the origins
the other has stashed; the widget locks its input in `_setBlocked(true)` and the
`.finally` of the same request unlocks it again through `setLoading(false)`,
although `send` still refuses.

## 6. Plan

Done, in this order: KnowledgeCorpus and CorpusStore; CorpusServing;
CorpusRecovery; the proofs of type, alignment, deletion, processing;
ChatConversation; CrawlJobs; the proofs of ChatConversation;
WidgetChat, WidgetBuilds and WidgetLocks; WidgetPanel and PanelBuilds; the proofs
of WidgetChat and of WidgetPanel; the proofs of CrawlJobs, of the store, of serving
and repair, and the rest of KnowledgeCorpus; PlanState; the proofs of PlanState, and of
what survives deaths; the overlapping saves of whole rows and failing writes in the
modules of the corpus, loops beside spawned processes in CrawlJobs, with their proofs.

Left, most important first:

1. A proof of `RepairLeavesLoadable`: what an interrupted write leaves of three files
   that were of equal length.
2. `RagCapacity`: semaphore, executor and timeout; slots are returned, and what
   runs in the executor after a timeout; the answer cache against a changed
   corpus or configuration.
3. The ledger of unanswered questions (`_record_unanswered`).
4. `WidgetComposer`: the input lock, the send button and voice input, which several
   callbacks of the widget switch on and off.
5. The composition of WidgetChat with ChatConversation: what a message that is
   posted twice, or sent again after a late answer, does to the stored messages.

### Not modelled

Retrieval arithmetic and prompts (sequential, no state), forms, settings,
templates, migrations and what the widget draws (declarations and presentation),
rate limits and monitoring (windows of wall-clock time over cache counters).
