# Apollo Audio in TLA+

Apollo Audio scrapes SoundCloud pages with a headless browser, lands each raw
scrape in a data lake, loads the tracks into a PostgreSQL warehouse and serves
them to a single-page front end. This directory holds TLA+ models of the parts
whose correctness depends on order, concurrency or failure, the TLC runs that
check them, and proofs, checked by TLAPS, of the properties that matter most.

## 1. Inventory

| part | code | state | operations | talks to |
| --- | --- | --- | --- | --- |
| job table | `jobs.py` | `_jobs`, at most `_MAX_JOBS` entries | create, set_running, set_done, set_error, get, evict | written by the event loop, read by threadpool threads |
| scrape task | `main.py` `_run_scrape_job`, `ingestion/pipeline.py` | where the coroutine stands | fetch, parse, land, load, mark | browser, lake, warehouse, job table |
| browser | `scraping/soundcloud.py` `fetch_html` | one-permit semaphore, navigation attempt | acquire, launch, navigate with retry, scroll, release | shared by scrapes and discovery |
| page parsing | `scraping/soundcloud.py` `parse_html`, `discover_playlists` | two snapshots of a page that changes | scroll, read, enrich, attribute, collect playlists | soundcloud.com |
| data lake | `ingestion/lake.py` | objects by key, in files or in S3 | put | written by the API pod and the ingest CronJob |
| warehouse loads | `db/warehouse.py` `load_tracks` | table `tracks`, row locks | upsert, insert, commit, roll back | API pod, ingest CronJob |
| statistics | `db/warehouse.py` `get_stats` | none | three SELECTs | reads what loads commit |
| ingest CronJob | `ingestion/ingest.py` | counters, exit code | one scrape per url | lake, warehouse |
| metadata refresh | `ingestion/refresh_metadata.py` | `metadata_refreshed_at` | pick a batch, visit, stamp | warehouse, SoundCloud |
| scrape queue | `static/index.html` (queue section) | jobs, groups, pump | enqueue, start group, pump, poll, cancel, halt, notify | POST /scrape, GET /api/scrape/jobs |
| library, account, favourites | `static/index.html`, `auth.py`, `main.py`, `warehouse.py` | token, user, filters, offset, rows, likes in flight | load, page, filter, sign in and out, like | GET /api/tracks, /api/auth, favourites |
| HTTP cache | `main.py` `etag_cache`, and the browser | one body per url, its ETag | answer 200 or 304 | between the two above |
| log file | `logging_config.py` | `apollo.log` and its gzipped backups | emit, rotate | one directory for all processes |
| player dock | `static/index.html` (player section) | track, iframe, status, timers, blocked tracks | play, close, react to messages | the SoundCloud widget in an iframe |

The rest of the repository is listed, with the reason it is not modelled, in
section 8 and under `components` in `PROJECT.json`.

How the parts interact. `POST /scrape` creates an entry and hands a background task
to the event loop; the task waits for the browser, which discoveries want as well,
then parses, lands the raw scrape and loads the tracks without a further await. A
poll is a plain `def` and so reads the table from another thread, between any two
statements. The CronJobs run the same `scrape_and_store` in processes of their own,
so that only the lake and the database order them. The tab sees the server through
requests that may be lost, aborted or answered late, and its handlers run between
the awaits of each other.

What is hard, and what makes each part correct:

* *Jobs*: a task writes its entry by subscript, so eviction must never take an entry
  that will still be written; the one permit must survive every exit path; what the
  table or a poll says must match the stores, whatever fails or restarts.
* *Loads*: a transaction of many upserts meets another one row by row; all or nothing,
  no mixture, no lasting blockade, and every row traceable to the lake.
* *Refresh*: the order of a batch depends on what earlier runs left behind; nobody may
  be overtaken, and the table must cycle.
* *Pages*: the page goes on changing between the snapshots; nobody may be credited
  with somebody else's track.
* *Queue*: cancelled, retried, refused and forgotten jobs pass one pump; it must go on
  and must not show what did not happen.
* *Library*: answers come late; rows, filter, page and login must belong together.
* *Dock*: messages come from iframes that are gone, or are never sent.
* *HTTP cache*: one url means different rows to different users, so that a 304 must
  mean the same body.
* *Log*: a rotation is a handful of file operations, any of which may fail or be the
  last one before a kill; and other processes rotate the same names meanwhile.

## 2. Modules

| module | models | state | one action per |
| --- | --- | --- | --- |
| `JobLifecycle` | what the job API promises of a job | `status` | life-cycle step |
| `ScrapeJobs` | job table, tasks, browser permit, polls, restart | `jobs`, `task`, `holder`, `waiters`, `loop`, `lake`, `rows`, `seen` | statement between which something else can run |
| `WarehouseLoads` | lake, transactions, row locks, ingest exit code, `/api/stats` | `lake`, `lock`, `table`, `extra`, `stage`, `exit`, `stats` | put (of a file in two steps, of an S3 object in one), upsert, commit, rollback, kill, SELECT |
| `MetadataRefresh` | the refresh CronJob over its runs | `known`, `stamped`, `gone`, `due`, `visit` | start, visit, end or kill of a run |
| `PageScrape` | `fetch_html` on a page that changes, `parse_html`, `discover_playlists` | `shown`, `filled`, `html`, `hydration`, `records` | scroll, snapshot, parse; rendering and hydrating |
| `ScrapeQueue` | the queue of the tab against `JobLifecycle` | `queue`, `wire`, `server` | handler or promise reaction |
| `LibraryView` | list, filters, pager, account, likes, dock heart | `token`, `authUser`, `view`, `dock`, `list`, `toggles`, `asks`, the browser's `cache`, and the server's tokens and favourites | handler, answer, server request, SQL statement |
| `PlayerDock` | the dock and the widget | `player`, `blocked`, `widget`, `toPage`, `toWidget` | handler, timer, step of the widget |
| `LogRotation` | the shared log, its rotation and compression | `files`, `names`, `proc`, `logged` | file operation of an emit |

`<Module>_proofs` holds the theorems about a module and their proofs (section 6).
`MC...` modules hold only the constants of the instances. Two modules compose:
`ScrapeQueue` instantiates `JobLifecycle` as its server, and `ScrapeJobs` is shown to
implement `JobLifecycle`; so every step the queue allows the server is one the server
model takes, torn answers included (`TornError`). Of what must happen the queue assumes
less than the server model shows: that a job is begun, not that it ends (section 4).

How actions correspond to code. In `ScrapeJobs` an action is the stretch of a coroutine
up to its next await; past the browser, where nothing is awaited, `loop` names the only
job that may move, and each statement is an action because a poll can come between them
(`MarkDone` and `FillResult` are the two assignments of `set_done`). In `ScrapeQueue`
JavaScript runs to completion: the queue is one record and each function of the page
(`pump`, `enqueue`, `notifyJobs`, `haltQueue`...) an operator from records to records of
the same name. In `LibraryView` a track object is shared by a row, a like in flight and
the dock, until a new list replaces the objects of the rows; `objects` and `shared` keep
track of that, because `toggleFavorite` writes into the object it started from while
hearts are painted by track id. `Listed` is what one statement of the list query
returns, and an empty page has a second one (`CountTracks`), between which and the first
anything may happen. `EtagCache` is the middleware together with the cache on the other
side: a request carries the body known for its url, and the answer is that one or a new
one. In `LogRotation` `files` are the files there have been and `names` says which of
them a name stands for: a process holds its log open by the file and rotates it by the
name. Names ending in `_Something` under a comment that begins with "Slip" are not part
of any specification: each is a way the definition after it could have been got wrong,
and is used to see that the properties notice.

Data is abstract throughout: a url, a genre or a title is a model value, a filter is
a set of tracks, time is the order of events (`ScrapeJobs.now` counts creations;
`WarehouseLoads.clock` counts seconds, the resolution of a lake key).

## 3. Runs

| run | instance | what it shows |
| --- | --- | --- |
| `jobs` | 3 jobs, 1 discovery, a table of 2 | the safety and action properties of `ScrapeJobs`, and that it implements `JobLifecycle`; everybody gets the browser; polling ends unless an untyped exception ended the task |
| `jobs_hears_back` | 2 jobs, 1 discovery, a table of 1 | a violation: without that exception to the rule, polling may never end |
| `loads` | the API with one page, a CronJob with that page and another, 2 urls and a track without one, 2 seconds, either lake backend, a list of one source | `AllOrNothing`, `OneWinner`, `RowsTraceToLake`, `ExitCodeHonest`, `StatsOnlyGrow`, `LoadsEnd` |
| `loads_raw_kept` | the API and the CronJob with a page each, of one flattened path | a violation: a raw scrape that has landed is overwritten by another one of the same second |
| `refresh` | 4 tracks, batches of 2, 1 page gone, 1 killed run | nobody is overtaken, and the table cycles |
| `refresh_starves` | 3 tracks, batches of 2, 2 pages gone | a violation: the table does not cycle |
| `queue` | 2 jobs, 1 group of one or two, 2 attempts | the queue's invariants, and that it drains unless it polls one job for ever |
| `queue_groups` | the same | a violation: a group without a summary |
| `library` | 2 users, 2 tracks, pages of 1, 2 tokens, 3 clicks | rows, page, filter and login belong together, also when the rows come out of the browser's cache; likes reach the server as shown, loading ends |
| `player` | 2 tracks, 3 iframes, 2 messages each way | the dock shows what the widget does and blocks no track by mistake |
| `pages` | every page of up to 2 rows, 2 uploaders, 2 scrolls, scraped or browsed for playlists | records can be stored and credit nobody falsely; what was rendered is on the list, and a playlist once |
| `logs` | the API, a CronJob, or both; 2 backups of 2 lines, 7 lines, 3 faults | one writer leaves the latest lines without a gap; several keep the log within its size and an archive under one name |

Why the bounds are enough. Every table limit is exceeded (three jobs in a table of two,
so that eviction has to choose among ended jobs; more tracks than a batch; more tracks
than a page). Every pairing that matters exists twice: two scrapes with opposite upsert
orders deadlock, two pages flatten to one path, two users share a tab, two iframes of
different tracks overlap in the message queue, a group is started while a single job
runs, two processes rotate one log. Seven lines fill the log and both backups and push
the oldest out. Two attempts reach both the retry and the last refusal. Bounds named
`Max...` in the modules either model a constant of the code (`MaxJobs` in `ScrapeJobs`,
`MaxAttempts`, `MaxScroll`) or cap what the environment does (clicks, tokens, iframes,
kills, vanished pages, seconds, log lines, faults); the latter say "bound" in their
comment. No run uses symmetry, which would not be sound for liveness: ids of jobs are
given out in a fixed order instead (`FreshId`), as nothing tells two fresh ids apart. In
`loads` one page is scraped by both processes and shares its flattened path with the
other, so that a key is written twice by scrapes of one page and of two; one of the
CronJob's pages may fail while the other is done; and the list of sources is cut off as
soon as there are two. Two jobs are enough for the queue: one that ends, stays or is
cancelled, and one behind it.

Deadlock is checked except where the environment may really stop: in `LibraryView`
and `PlayerDock` the user stops clicking, in `PageScrape` the page has been
parsed, in `LogRotation` nothing more is logged.
In `PROJECT.json` each property of a passing run has a mutant, one slip under which
the same run finds it violated.

## 4. Fairness

* `ScrapeJobs`: the event loop runs every ready coroutine, Playwright calls have
  timeouts, the client polls (`pollScrapeJob` has no limit). Submissions, discoveries
  and restarts are not fair.
* `WarehouseLoads`: a process that is alive executes its next statement, and
  PostgreSQL breaks deadlocks. Kills are not fair, and fetches are not required to end.
* `MetadataRefresh`: the schedule starts runs again and again, a run goes through its
  batch, and (strong fairness) a page that is still there does not fail at every visit.
* `ScrapeQueue`: requests are answered or fail, reactions and timers run, the server
  begins what it accepted (`StartTask` of `ScrapeJobs` is fair). It need not end what it
  has begun: an untyped exception keeps it from that (`jobs_hears_back`). `QueueDrains`
  therefore excepts behaviours in which the pump goes on polling one such job for ever;
  without the exception the run refutes it. The user does nothing for sure.
* `LibraryView`: list and like requests are served and their reactions run.
  `/api/auth/me` need not be answered, and tokens need not expire.
* `PlayerDock`: messages are delivered and the grace timer fires. The widget owes nothing.
* `PageScrape`, `LogRotation`: none; their properties are invariants, and `MaxScroll`
  bounds the only loop.

## 5. Where the code does not do what its comments say

* `jobs_hears_back`: only four exception types are caught around `scrape_and_store`.
  A failing load (the commonest: the database is away) leaves the job on "running",
  the client polls for ever, and the entry can never be evicted. In the tab, the one
  pump polls on (`pollScrapeJob` has no limit), so that every job queued behind waits
  until the user cancels the one that is stuck, or reloads.
* `loads_raw_kept`: `lake.py:78-80` calls the raw scrape immutable and always
  recoverable, the repository's `README.md:31-32` a record "you can always replay from".
  But its key is a second and the path with `/` flattened to `_` (`_object_key`), and
  `put` overwrites.
  Two processes that scrape one page in one second, or two pages such as `/x/y_z` and
  `/x_y/z`, leave one payload, and of two overlapping file writes possibly a mix. Rows of
  the earlier scrape then name an object that is not theirs; `RowsTraceToLake` says so.
* `refresh_starves`: a track whose page yields nothing keeps its stamp and stays at
  the head of the order. As many of them as a batch holds stop the refresh of all
  others. `refresh` shows that with fewer the table does cycle.
* `queue_groups`: `startGroup` registers the group before its first job; the first
  `enqueue` notifies while the group is empty, an empty group has nothing active, so
  it is marked as reported, and its summary never comes.

Comments that the models contradict, or that no run is spent on:

* `parse_html` (`soundcloud.py:315-318`) says that the track list comes from the
  hydration and the document is the fallback. In the code the document decides as soon
  as it has a row (`Found`), and hydration only enriches: a hydrated track whose row is
  not rendered in time is left out. `RenderedListed` states what does hold.
* `_gzip_and_remove` (`logging_config.py:39-44`) says that the handler also shifts the
  backups through the rotator. It renames them itself, so the branch that moves a
  compressed file is never taken; in `LogRotation` the rotator is given the log only.
* `put_raw_scrape` (`lake.py:78-80`) says that the loader reads from the lake. It
  loads the tracks that were just parsed; the lake is written first all the same
  (`RawFirst`), which is what makes a row traceable.
* Nothing says that the log is written by one process, and the deployment mounts it
  into several. Then lines can be lost: a process goes on writing into a file that
  another one has already compressed and removed, and two that rotate at once overwrite
  each other's archive (`OpenBoth`). On a disk that stays full, each emit shifts the
  backups once more before it fails, until they are all pushed out; this is why
  `ReadsWhole` counts the lines only while nothing fails.

## 6. Proofs

A theorem holds for every value of the constants that satisfies the module's named
assumption; nothing else is assumed. Each module has one inductive invariant, `IInv`,
and the same outline: `Start` (`Init => IInv`), `Step` (`IInv` is kept by every action,
one step each), `Invariance` (`Spec => []IInv`), and a short theorem per property.
Where a run checks a fair specification, the theorem is about `Spec`, which it implies.
What follows says for each module what is proved and why the property alone is not
inductive.

**`ScrapeJobs_proofs`**: every finite set of jobs, any number of discoveries, any table
limit and any number of navigation attempts. Invariants: `TypeOK`, `WriterHasEntry`,
`PermitAccounted`, `StatusMatchesStores`, `RawFirst`, `ToldTheTruth`. Action properties:
`TrimmedOnCreate`, `EvictsOldestSurplus`.

`WriterHasEntry` says that an entry is there while it will still be written, but whether
eviction may take it depends on the status it shows, hence on where the task stands;
`StatusMatchesStores` depends on what was stored before the exception that is being
handled; and two stretches in parallel would break both. The strengthening therefore
lets the stage of a task determine everything else:

* `JobAgrees(j)`: the stage of `j` fixes whether its entry exists and what it shows
  (`EntryAgrees`), what of it is in the lake and the warehouse (`StoresAgree`), what
  an ended entry means (`EndAgrees`), and what a client can have been told
  (`SeenAgrees`);
* `LoopAgrees`: at most one task is in the await-free stretch, which is why between
  the two statements of `set_done` -- when the entry already counts as finished -- no
  creation can evict it;
* `PermitAccounted` and `QueueAgrees`: the holder is in the browser or about to be,
  waiters wait, each once, in the queue of a permit somebody holds.

Each group of actions has a lemma (`SubmitStep`, `WriteStep`, `RestartStep`...);
lemmas about what an operator does (`CreateJobEffect`, `AcquireEffect`,
`ReleaseEffect`...) keep definitions closed in them. `LoopFree` in the guard of `Submit`
is what the creation step needs: with it no task is between those two statements.

For the two action properties, lemmas about eviction (`EvictionTrims`, `EvictionSpares`,
`EvictionByAge`) count the entries before and after, and a second invariant,
`CreationOrder`, says that no two entries have the same `created_at`: without it "the
oldest" would not be one entry, and the count would not come out.

The last part, `Refinement`, proves `Spec => Lifecycle!Spec` under the mapping
`StatusFor`: a job is what its entry says, "unknown" before its task exists and
"forgotten" once the entry is gone. Creation maps to `Accept`, where the evicted jobs
are the forgotten ones; `StartTask` to `Begin`; the first statement of `set_done` or
`set_error` to `End`; `Restart` to `Restart`; everything else stutters. The
invariant is needed to know that a status is overwritten only from "running".

**`WarehouseLoads_proofs`**: every finite number of scrapes and tracks, pages of any
length in any order, either lake. Invariants: `TypeOK`, `AllOrNothing`, `OneWinner`,
`RowsTraceToLake`, `ExitCodeHonest`; action properties: `StatsOnlyGrow`,
`WritesUnderLock`. The heart is `HoldsWhatItUpserted`: an open transaction holds the
lock of every row it has upserted, and only open ones hold locks (`LockedByLoads`). So a
commit, which writes all of its rows at once, takes none from a load that could still
write it, and of two loads of the same tracks the later commit has them all. `Landed`
ties rows to the lake: under the key of a row there is its own scrape or, if another one
of that key has been at it, that one's or a torn object (`Objects` says that an object is
always one of its key). `TotalWasTrue` and `AllSources` tie the figures of `/api/stats` to
each other.

**`MetadataRefresh_proofs`**: every finite number of tracks, batches of any size.
Invariant: `NobodyOvertaken`. The stamps are a sequence, oldest first. `OlderComeFirst`
says of a run under way that whatever is older than a track it has still to visit comes
before it in its batch; a stamp that moves to the end keeps that true of the others, and
a batch is a prefix of the order by stamp (`OrdersList`).

**`PageScrape_proofs`**: pages of any length, any tracks, any number of scrolls.
Invariants: `TypeOK`, `NoFalseCredit`, `RenderedListed`. `ReadsWhatWasThere` says that
the document read is a prefix of the page, at least as long as what was shown when the
scrolling ended; lemmas say what `parse_html`'s choices (first, last, least) return.

**`ScrapeQueue_proofs`**: any urls and plans, any number of jobs, groups and attempts.
Invariants: `TypeOK`, `OnlyRunningLands`, `OneAtATime`, `ShowsTheTruth`,
`EndingsAnnounced`. None is inductive: what the server has of a job depends on the
request that is on the wire for it, and that on whether the pump awaits it. `Agrees` lets
the status of a job determine both, as `JobAgrees` does for the server: a queued job has
no POST and is unknown to the server, a waiting one is in its backoff and unknown, a
running one is bound to the answer under way (`Awaited`) -- or, if its error threw, is
over on the server and not the pump's any more. `Told` is the bookkeeping of
announcements, `Quiet` that none is outstanding, `RunnerRuns` that the pump awaits a job
that has not ended.

A handler passes through queues that nobody sees: a job has ended but the pump still
awaits it, a group is registered but empty. `Mid(q)` is what holds of all of these, with
`WireAfter` the requests that will be on the wire if the handler stops there. A lemma per
function of the page (`Notified`, `PumpTurns`, `Enqueued`, `Cancelled`, `Halted`,
`Finished`...) says that it keeps `Mid`, and `BecomesStep` that a handler that ends in a
quiet queue keeps `IInv`. `startGroup` needs an induction over its list of urls
(`AddingExists`, `AddedSound`), by the least index at which it would fail.

**`LibraryView_proofs`**: any accounts, any number of tracks and rows per page, any
favourites at the start, any number of logins and clicks. Invariants: `TypeOK`,
`WriteConfirmed`, `ListAsAsked`, `RowsOfThisLogin`. What the rows show was asked for
some time ago; so `AsksForTheView` and `AsksWithTheToken` say that the list request on
its way, if nothing aborted it, has the filter, the page and the token of the moment,
and `Loading` that an answer taken from the browser's cache is one the server gave to
the same url. Each action is one of three kinds: it starts a new list, it lets the one
on its way go on, or it ends it. `Likes` says that a track has at most one like in
flight.

**`PlayerDock_proofs`**: any tracks, any number of iframes, any number of messages on
their way. Invariants: `BlockedEarned`, `ShowsTheWidget`. Both relate the dock to a
widget it hears of late, so the invariant is about the messages in between:
`BadNewsIsTrue` (a message that says a track gave up is about one that did),
`PausesAreClear` (a pause for want of a stream is not mistaken for a user's), and
`TruthIsOnItsWay` (the last message of this iframe says what the widget does, or, if
none is left, the dock does).

**`LogRotation_proofs`**: any finite number of processes, backups of any number and any
size. Invariants: `TypeOK`, `SizeBounded`, `ReadsWhole`.

For `SizeBounded` the size of a file is not enough: a process looks at it, and may write
after others have. `RoomForAll` counts with the lines of a file those that are on their
way into it (`Pending`), and `TypeOK` needs that archives and logs never change places
(`BackupsAreArchives`, `RotatesFiles`).

`ReadsWhole` is about one process alone. Its invariant, `AloneIsWhole`, has three parts.
`RotatesAlone` says where a rotation stands: which name is free, that the log is full
and closed, what is being copied where. `Whole` says of what is read under the names that
each file holds lines in a row, that the files are in order and that of a line that is
found all later ones are; it is kept by every step, faults included. `Blocks` says where
each block of `Size` lines is while nothing has failed: up to `Lo` still in its place,
from `Hi` on one place further. The lemmas from `WholeMoved` to `BlocksWritten` are about
such contents alone, one for each thing a rotation does to them; a lemma per action then
says which one it is. `OldestKept` and `WholeIsLatest` count what is found.

## 7. What is only model-checked

All liveness properties, since they need fairness and ENABLED: `BrowserServesEveryone`,
`HearsBackUnlessCrashed`, `LoadsEnd`, `TableCycles`, `QueueDrains`, `ListSettles`,
`LeavesLoading`. Every invariant of the runs is proved, and every action property; the
four properties that the code violates (section 5) are left to TLC. No module
declares a RECURSIVE operator.

## 8. What is not modelled

* Text: LIKE escaping, genre normalisation, artwork sizes, url canonicalisation,
  cookie parsing, messages and formatting. Properties here do not depend on it.
* Gzip, CORS, request ids, the host and NUL checks: functions of one request. The rate
  limiter and the API key appear as the 429 and 401 the queue has to live with. Only the
  track list is followed through the HTTP cache; the catalogue's hour in it is ignored.
* The wording of log lines, levels and the console.
* The migration in `init.sql`, account creation, settings, the catalogue: constants,
  or run once and alone.
* The statistics header, facet chips, dialogs, minimising, focus, styles: drawing.
* Terraform, Compose, nginx and CI: declarative. Assumed of them: one API process
  (the job table is in memory), CronJobs that forbid overlap with themselves, pods
  that may be killed at any moment.
* Steps that models join: status and body of an HTTP answer arrive together; a
  discovery is one session in the browser; the answer of a login arrives with its
  token; a gzipped archive is complete or torn, with nothing in between.

* `get_stats`: the genre facet and the favourites. `StatsOnlyGrow` is about the total
  and a list of sources that the limit has not cut off.
* The player: a pause of the widget is taken to come with something loaded, unless its
  stream cannot be had. A pause before that, after a lost "play", is not covered.
* The log with `log_backup_count` 0: the handler then never rotates, so that the file
  grows without bound, as configured; `LogAssumption` asks for one backup.

## 9. Plan

Order so far: the server (`JobLifecycle`, `ScrapeJobs`), the stores (`WarehouseLoads`,
`MetadataRefresh`), the front end (`ScrapeQueue`, `LibraryView`, `PlayerDock`), pages
(`PageScrape`), the log (`LogRotation`), and then the proofs in the same order.

The model is complete as far as this code has state that several actors share. What
could still be added is small: the url field of the scrape form and the catalogue,
which only feed the queue; the statistics header with its favourite count; a record
without a url followed from `PageScrape` into the table of `WarehouseLoads`.

Every safety property that a run checks is proved. What the proofs could still add goes
beyond what the runs ask: action properties of the queue (an ended job stays as it ended,
an announcement is never taken back) and of the table `tracks`.
