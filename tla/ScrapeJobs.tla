----------------------------- MODULE ScrapeJobs -----------------------------
(***************************************************************************)
(* The API process of Apollo around POST /scrape:                          *)
(*                                                                         *)
(*   - the job table of jobs.py (create, set_running, set_done, set_error, *)
(*     eviction), touched by the event loop and read by threadpool threads *)
(*     (get_scrape_job is a plain `def`);                                  *)
(*   - the background task _run_scrape_job and scrape_and_store;           *)
(*   - the one-browser semaphore of soundcloud.py, which scrapes share     *)
(*     with POST /api/discover-playlists;                                  *)
(*   - a restart of the process, which loses the table and every task.     *)
(*                                                                         *)
(* A coroutine gives up the event loop only at an await.  From the release *)
(* of the semaphore to its end a scrape awaits nothing, so that stretch is *)
(* not interleaved with any other coroutine (the variable loop says whose  *)
(* stretch is running) -- but a poll, in its thread, can read the table    *)
(* between any two statements of it.                                       *)
(***************************************************************************)
EXTENDS Naturals, Sequences, FiniteSets

CONSTANTS
    Job,            \* job ids handed out by create_job
    Discover,       \* concurrent POST /api/discover-playlists requests
    MaxJobs,        \* jobs.py _MAX_JOBS
    NavAttempts,    \* soundcloud.py _NAV_RETRY_ATTEMPTS
    Nobody          \* no session

Session == Job \cup Discover     \* everything that may want the browser

ASSUME JobAssumption ==
    /\ IsFiniteSet(Job)
    /\ Job \cap Discover = {}
    /\ Nobody \notin Session
    /\ MaxJobs \in Nat
    /\ NavAttempts \in Nat \ {0}

VARIABLES
    jobs,       \* _jobs: id -> entry, a partial function on Job
    now,        \* time.time(), counting create_job calls
    task,       \* where the coroutine of a session stands
    holder,     \* who holds _browser_semaphore
    waiters,    \* the semaphore's FIFO of waiting coroutines
    attempt,    \* navigation attempt of the holder (_goto_with_retry)
    loop,       \* the job whose await-free stretch occupies the event loop
    raised,     \* the typed exception a job's task is handling
    lake,       \* jobs whose raw scrape is in the data lake
    rows,       \* jobs whose tracks are committed in the warehouse
    seen        \* what the client polling a job has been told

vars == <<jobs, now, task, holder, waiters, attempt, loop, raised, lake, rows, seen>>
browser == <<holder, waiters, attempt>>

Finals == {"done", "error"}
Errors == {"login", "fetch", "lake"}     \* 422 login wall, 502 fetch, 502 lake write

Entry == [status     : {"queued", "running"} \cup Finals,
          created_at : Nat,
          result     : {"none", "tracks"},
          error      : {"none"} \cup Errors]

\* Sessions with a browser of their own; stretches that run without an await.
InBrowser == {"launching", "navigating", "scrolling"}
InStretch == {"parsing", "landing", "loading", "marking done", "filling result",
              "marking error", "filling error"}
\* Tasks that still have statements to execute.
Live  == {"accepted", "waiting"} \cup InBrowser \cup InStretch
Gone  == {"returned", "crashed", "lost"}
Stage == {"none"} \cup Live \cup Gone
\* Stages between set_running and the final status; a crash leaves a task there.
Running == {"waiting", "parsing", "landing", "loading", "marking done",
            "marking error", "crashed"} \cup InBrowser

-----------------------------------------------------------------------------
(* The job table.                                                          *)

\* Slip: every entry counts as finished.
FinishedIn_All(tbl) == DOMAIN tbl

FinishedIn(tbl) == {j \in DOMAIN tbl : tbl[j].status \in Finals}

\* Slip: finished.sort(reverse=True).
OlderFinished_Reversed(tbl, j) ==
    {i \in FinishedIn(tbl) : tbl[i].created_at > tbl[j].created_at}

OlderFinished(tbl, j) ==
    {i \in FinishedIn(tbl) : tbl[i].created_at < tbl[j].created_at}

\* Slip: one entry too many is kept.
Evictable_OffByOne(tbl) ==
    {j \in FinishedIn(tbl) :
        MaxJobs + 1 + Cardinality(OlderFinished(tbl, j)) < Cardinality(DOMAIN tbl)}

\* finished[: len(_jobs) - _MAX_JOBS], oldest created first.
Evictable(tbl) ==
    {j \in FinishedIn(tbl) :
        MaxJobs + Cardinality(OlderFinished(tbl, j)) < Cardinality(DOMAIN tbl)}

EvictOldJobs(tbl) == [j \in DOMAIN tbl \ Evictable(tbl) |-> tbl[j]]

NewEntry == [status |-> "queued", created_at |-> now, result |-> "none", error |-> "none"]

CreateJob(j) ==
    /\ jobs' = EvictOldJobs([i \in DOMAIN jobs \cup {j} |->
                                IF i = j THEN NewEntry ELSE jobs[i]])
    /\ now' = now + 1

SetStatus(j, s) == jobs' = [jobs EXCEPT ![j].status = s]

-----------------------------------------------------------------------------
(* The semaphore: asyncio.Semaphore(1).  A release hands the permit to the *)
(* first waiter, which resumes when the loop next gets to it.              *)

Acquire(s) ==
    IF holder = Nobody
    THEN /\ holder' = s
         /\ attempt' = 1
         /\ task' = [task EXCEPT ![s] = "launching"]
         /\ UNCHANGED waiters
    ELSE /\ waiters' = Append(waiters, s)
         /\ task' = [task EXCEPT ![s] = "waiting"]
         /\ UNCHANGED <<holder, attempt>>

\* Slip: the permit is put back without waking a waiter.
Release_NoHandover == holder' = Nobody /\ attempt' = 1 /\ UNCHANGED waiters

Release ==
    /\ IF waiters = <<>>
       THEN holder' = Nobody /\ UNCHANGED waiters
       ELSE holder' = Head(waiters) /\ waiters' = Tail(waiters)
    /\ attempt' = 1

-----------------------------------------------------------------------------

Init ==
    /\ jobs = [j \in {} |-> NewEntry]
    /\ now = 0
    /\ task = [s \in Session |-> "none"]
    /\ holder = Nobody
    /\ waiters = <<>>
    /\ attempt = 1
    /\ loop = Nobody
    /\ raised = [j \in Job |-> "none"]
    /\ lake = {}
    /\ rows = {}
    /\ seen = [j \in Job |-> "polling"]

\* Slip: an await (or a worker thread) inside the stretch lets others in.
LoopFree_Shared == TRUE

LoopFree == loop = Nobody

\* uuid4: an id not given out before.  Which one does not matter -- ids are only told
\* apart, never compared -- so they are given out in a fixed order.
FreshId == CHOOSE j \in Job : task[j] = "none"

\* POST /scrape, host and api key accepted: the job is created, its task is
\* scheduled, and the 202 goes out.
Submit(j) ==
    /\ LoopFree
    /\ task[j] = "none" /\ j = FreshId
    /\ CreateJob(j)
    /\ task' = [task EXCEPT ![j] = "accepted"]
    /\ UNCHANGED <<browser, loop, raised, lake, rows, seen>>

\* _run_scrape_job up to its first await: set_running, then the semaphore.
StartTask(j) ==
    /\ LoopFree
    /\ task[j] = "accepted"
    /\ SetStatus(j, "running")
    /\ Acquire(j)
    /\ UNCHANGED <<now, loop, raised, lake, rows, seen>>

\* POST /api/discover-playlists reaches fetch_html.
StartDiscover(d) ==
    /\ LoopFree
    /\ task[d] = "none"
    /\ Acquire(d)
    /\ UNCHANGED <<jobs, now, loop, raised, lake, rows, seen>>

\* A session moves on inside the browser without letting it go.
Advance(s, from, to) ==
    /\ LoopFree
    /\ holder = s
    /\ task[s] = from
    /\ task' = [task EXCEPT ![s] = to]
    /\ UNCHANGED <<jobs, now, holder, waiters, loop, raised, lake, rows, seen>>

\* The waiter that was handed the permit runs again.
Resume(s) == Advance(s, "waiting", "launching") /\ UNCHANGED attempt

Launched(s) == Advance(s, "launching", "navigating") /\ UNCHANGED attempt

Navigated(s) == Advance(s, "navigating", "scrolling") /\ UNCHANGED attempt

\* Slip: range(1, _NAV_RETRY_ATTEMPTS + 2).
RetryNavigation_OffByOne(s) ==
    /\ attempt <= NavAttempts
    /\ attempt' = attempt + 1
    /\ Advance(s, "navigating", "navigating")

\* page.goto failed and there are attempts left: sleep, then try again.
RetryNavigation(s) ==
    /\ attempt < NavAttempts
    /\ attempt' = attempt + 1
    /\ Advance(s, "navigating", "navigating")

\* fetch_html leaves its `async with`: the browser is closed and the permit
\* released.  A scrape goes on, without an await, to next; a discovery answers.
LeaveBrowser(s, next, exc) ==
    /\ LoopFree
    /\ holder = s
    /\ Release
    /\ IF s \in Job
       THEN /\ loop' = s
            /\ task' = [task EXCEPT ![s] = next]
            /\ raised' = [raised EXCEPT ![s] = exc]
       ELSE /\ task' = [task EXCEPT ![s] = "none"]
            /\ UNCHANGED <<loop, raised>>
    /\ UNCHANGED <<jobs, now, lake, rows, seen>>

FetchOk(s) ==
    /\ task[s] = "scrolling"
    /\ LeaveBrowser(s, "parsing", "none")

\* Slip: the permit is released on the way out of a success only.
FetchFails_KeepsPermit(s) ==
    /\ LoopFree
    /\ holder = s
    /\ task[s] \in InBrowser
    /\ task' = [task EXCEPT ![s] = IF s \in Job THEN "marking error" ELSE "none"]
    /\ loop' = IF s \in Job THEN s ELSE loop
    /\ raised' = [j \in Job |-> IF j = s THEN "fetch" ELSE raised[j]]
    /\ UNCHANGED <<jobs, now, browser, lake, rows, seen>>

\* Launching or driving the browser raised, or the last navigation attempt did.
FetchFails(s) ==
    /\ task[s] \in InBrowser
    /\ task[s] = "navigating" => attempt = NavAttempts
    /\ LeaveBrowser(s, "marking error", "fetch")

-----------------------------------------------------------------------------
(* The await-free stretch of scrape_and_store and _run_scrape_job.         *)

Step(j, from, to) ==
    /\ loop = j
    /\ task[j] = from
    /\ task' = [task EXCEPT ![j] = to]
    /\ UNCHANGED <<now, browser, seen>>

Raise(j, from, exc) ==
    /\ Step(j, from, "marking error")
    /\ raised' = [raised EXCEPT ![j] = exc]
    /\ UNCHANGED <<jobs, loop, rows>>

\* An exception that is none of the four typed ones leaves _run_scrape_job:
\* the server logs it, and the table keeps saying "running".
Crash(j, from) ==
    /\ Step(j, from, "crashed")
    /\ loop' = Nobody
    /\ UNCHANGED <<jobs, raised, lake>>

ParseOk(j) ==
    /\ Step(j, "parsing", "landing")
    /\ UNCHANGED <<jobs, loop, raised, lake, rows>>

\* Slip: except LoginRequiredError: return, without set_error.
LoginWall_Dropped(j) ==
    /\ Step(j, "parsing", "returned")
    /\ loop' = Nobody
    /\ UNCHANGED <<jobs, raised, lake, rows>>

LoginWall(j) == Raise(j, "parsing", "login") /\ UNCHANGED lake

ParseFails(j) == Crash(j, "parsing") /\ UNCHANGED rows

LandRaw(j) ==
    /\ Step(j, "landing", "loading")
    /\ lake' = lake \cup {j}
    /\ UNCHANGED <<jobs, loop, raised, rows>>

\* Slip: a failed lake write is only logged.
LandFails_Ignored(j) ==
    /\ Step(j, "landing", "loading")
    /\ UNCHANGED <<jobs, loop, raised, lake, rows>>

\* A put that raises may have stored the object all the same (a timeout).
LandFails(j) ==
    /\ Raise(j, "landing", "lake")
    /\ lake' \in {lake, lake \cup {j}}

LoadTracks(j) ==
    /\ Step(j, "loading", "marking done")
    /\ rows' = rows \cup {j}
    /\ UNCHANGED <<jobs, loop, raised, lake>>

\* Slip: a failed load is only logged.
LoadFails_Ignored(j) ==
    /\ Step(j, "loading", "marking done")
    /\ UNCHANGED <<jobs, loop, raised, lake, rows>>

\* The database is away, the pool times out, a value does not fit its column:
\* the transaction is rolled back -- or the connection broke after its commit.
LoadFails(j) ==
    /\ Crash(j, "loading")
    /\ rows' \in {rows, rows \cup {j}}

\* set_done and set_error are two statements each; a poll may fall between.
MarkDone(j) ==
    /\ Step(j, "marking done", "filling result")
    /\ SetStatus(j, "done")
    /\ UNCHANGED <<loop, raised, lake, rows>>

FillResult(j) ==
    /\ Step(j, "filling result", "returned")
    /\ jobs' = [jobs EXCEPT ![j].result = "tracks"]
    /\ loop' = Nobody
    /\ UNCHANGED <<raised, lake, rows>>

MarkError(j) ==
    /\ Step(j, "marking error", "filling error")
    /\ SetStatus(j, "error")
    /\ UNCHANGED <<loop, raised, lake, rows>>

FillError(j) ==
    /\ Step(j, "filling error", "returned")
    /\ jobs' = [jobs EXCEPT ![j].error = raised[j]]
    /\ loop' = Nobody
    /\ UNCHANGED <<raised, lake, rows>>

-----------------------------------------------------------------------------
(* The client, and the pod.                                                *)

\* The job's entry as get_scrape_job copies it.
Answer(j) ==
    IF j \notin DOMAIN jobs THEN "not found"
    ELSE LET e == jobs[j]
         IN CASE e.status = "done"  -> IF e.result = "none" THEN "torn" ELSE "done"
              [] e.status = "error" -> IF e.error = "none" THEN "torn" ELSE "error"
              [] OTHER              -> "polling"

\* GET /api/scrape/jobs/{id}, from a thread, whatever the loop is doing.
Poll(j) ==
    /\ task[j] # "none"
    /\ seen[j] = "polling"
    /\ seen' = [seen EXCEPT ![j] = Answer(j)]
    /\ UNCHANGED <<jobs, now, task, browser, loop, raised, lake, rows>>

\* The pod is replaced at any moment: table, tasks and browser are gone; the
\* lake and the warehouse are not.
Restart ==
    /\ jobs' = [j \in {} |-> NewEntry]
    /\ task' = [s \in Session |->
                    IF s \in Job /\ task[s] # "none" THEN "lost" ELSE "none"]
    /\ holder' = Nobody
    /\ waiters' = <<>>
    /\ attempt' = 1
    /\ loop' = Nobody
    /\ raised' = [j \in Job |-> "none"]
    /\ UNCHANGED <<now, lake, rows, seen>>

InTheBrowser(s) ==
    \/ Resume(s) \/ Launched(s) \/ Navigated(s)
    \/ RetryNavigation(s) \/ FetchOk(s) \/ FetchFails(s)

Stretch(j) ==
    \/ ParseOk(j)    \/ LoginWall(j)  \/ ParseFails(j)
    \/ LandRaw(j)    \/ LandFails(j)
    \/ LoadTracks(j) \/ LoadFails(j)
    \/ MarkDone(j)   \/ FillResult(j)
    \/ MarkError(j)  \/ FillError(j)

Next ==
    \/ \E j \in Job : Submit(j) \/ StartTask(j) \/ Stretch(j) \/ Poll(j)
    \/ \E d \in Discover : StartDiscover(d)
    \/ \E s \in Session : InTheBrowser(s)
    \/ Restart

Spec == Init /\ [][Next]_vars

(***************************************************************************)
(* Fairness: the event loop runs every ready coroutine, every browser call *)
(* has a timeout, and a client keeps polling.  Nothing makes a request     *)
(* arrive or the pod restart.                                              *)
(***************************************************************************)
FairSpec ==
    /\ Spec
    /\ \A j \in Job : /\ WF_vars(StartTask(j))
                      /\ WF_vars(Stretch(j))
                      /\ WF_vars(Poll(j))
    /\ \A s \in Session : WF_vars(InTheBrowser(s))

-----------------------------------------------------------------------------
(* Invariants.                                                             *)

\* Type correctness; the table is a partial function on Job.
TypeOK ==
    /\ DOMAIN jobs \subseteq Job
    /\ jobs \in [DOMAIN jobs -> Entry]
    /\ now \in Nat
    /\ task \in [Session -> Stage]
    /\ holder \in Session \cup {Nobody}
    /\ waiters \in Seq(Session)
    /\ attempt \in 1..NavAttempts
    /\ loop \in Job \cup {Nobody}
    /\ raised \in [Job -> {"none"} \cup Errors]
    /\ lake \subseteq Job
    /\ rows \subseteq Job
    /\ seen \in [Job -> {"polling", "torn", "not found"} \cup Finals]

\* The status the table shows while a task stands at a given stage.
Shows(stage, status) ==
    \/ stage = "accepted"       /\ status = "queued"
    \/ stage \in Running        /\ status = "running"
    \/ stage = "filling result" /\ status = "done"
    \/ stage = "filling error"  /\ status = "error"
    \/ stage = "returned"       /\ status \in Finals

\* A task that will still write its entry (jobs.py subscripts _jobs without a
\* check) finds it there, showing the status the task last gave it -- also
\* between the two statements of set_done and set_error, when the entry
\* already counts as finished and an eviction could drop it.
WriterHasEntry ==
    \A j \in Job : task[j] \in Live \cup {"crashed"} =>
        j \in DOMAIN jobs /\ Shows(task[j], jobs[j].status)

\* The browser permit is never lost and never doubled: whoever drives a browser
\* holds it, the holder is driving or about to, and a coroutine that waits is
\* in the queue of a permit somebody holds.
PermitAccounted ==
    /\ holder = Nobody => waiters = <<>>
    /\ holder # Nobody => task[holder] \in InBrowser \cup {"waiting"}
    /\ \A s \in Session : task[s] \in InBrowser => holder = s
    /\ \A s \in Session : task[s] = "waiting" =>
          holder = s \/ \E i \in 1..Len(waiters) : waiters[i] = s

\* What the table says of an ended job is what the stores hold: "done" only
\* with the tracks committed, "error" only with none of them committed, and an
\* error from before the lake write only with nothing in the lake either.
StatusMatchesStores ==
    \A j \in DOMAIN jobs :
        /\ jobs[j].status = "done" => j \in rows
        /\ jobs[j].status = "error" => j \notin rows
        /\ jobs[j].error \in {"login", "fetch"} => j \notin lake

\* Whatever stops a scrape, restart included, no tracks are committed whose raw
\* scrape was not landed first (pipeline.py: "the durable, replayable record").
RawFirst == rows \subseteq lake

\* The final status is set, or was when the process was lost.
Ending(j) == task[j] \in {"filling result", "filling error", "returned", "lost"}

\* What a client was told stays true: a result it got is in the warehouse, an
\* error means nothing of the scrape is, a 404 is only ever given for a job that
\* ended or was lost to a restart, and a final status that came without its payload,
\* between the two statements of set_done or set_error, is the final one all the same.
ToldTheTruth ==
    \A j \in Job :
        /\ seen[j] = "done" => j \in rows
        /\ seen[j] = "error" => j \notin rows
        /\ seen[j] = "not found" => task[j] \in {"returned", "lost"}
        /\ seen[j] = "torn" => Ending(j)

-----------------------------------------------------------------------------
(* The inductive strengthening: where a task stands determines what the    *)
(* table, the event loop, the semaphore and the stores say of it.          *)

BeforeLake == {"none", "accepted", "waiting", "parsing", "landing"} \cup InBrowser

EntryAgrees(j) ==
    /\ task[j] \in Live \cup {"crashed"} => j \in DOMAIN jobs
    /\ j \in DOMAIN jobs =>
          /\ Shows(task[j], jobs[j].status)
          /\ jobs[j].error # "none" => task[j] = "returned"

StoresAgree(j) ==
    /\ task[j] \in BeforeLake => j \notin lake /\ j \notin rows
    /\ task[j] = "loading" => j \in lake /\ j \notin rows
    /\ task[j] \in {"marking done", "filling result"} => j \in rows
    /\ task[j] \in {"marking error", "filling error"} =>
          /\ j \notin rows
          /\ raised[j] \in {"login", "fetch"} => j \notin lake
    /\ j \in rows => j \in lake

EndAgrees(j) ==
    j \in DOMAIN jobs =>
        /\ jobs[j].status = "done" => j \in rows
        /\ jobs[j].status = "error" => j \notin rows
        /\ jobs[j].error \in {"login", "fetch"} => j \notin lake

SeenAgrees(j) ==
    /\ seen[j] \in {"error", "not found"} => task[j] \in {"returned", "lost"}
    /\ seen[j] = "torn" => Ending(j)
    /\ seen[j] = "error" => j \notin rows
    /\ seen[j] = "done" => j \in rows

JobAgrees(j) == EntryAgrees(j) /\ StoresAgree(j) /\ EndAgrees(j) /\ SeenAgrees(j)

\* The await-free stretch belongs to one job at a time.
LoopAgrees ==
    /\ \A j \in Job : task[j] \in InStretch => loop = j
    /\ loop # Nobody => task[loop] \in InStretch

\* The semaphore's queue holds waiting coroutines, each once, and not the holder.
QueueAgrees ==
    \A i \in 1..Len(waiters) :
        /\ task[waiters[i]] = "waiting"
        /\ waiters[i] # holder
        /\ \A k \in 1..Len(waiters) : waiters[k] = waiters[i] => k = i

IInv ==
    /\ TypeOK
    /\ LoopAgrees
    /\ PermitAccounted
    /\ QueueAgrees
    /\ \A j \in Job : JobAgrees(j)

-----------------------------------------------------------------------------
(* Action properties.                                                      *)

\* Creating a job trims the table to _MAX_JOBS, unless only jobs that have not
\* ended are left in it.
TrimmedOnCreate ==
    [][ DOMAIN jobs' \subseteq DOMAIN jobs
        \/ Cardinality(DOMAIN jobs') <= MaxJobs
        \/ FinishedIn(jobs') = {} ]_vars

\* Eviction takes no more than the surplus and takes the oldest ended jobs: a
\* kept ended job is younger than every evicted one.  (A restart keeps none.)
EvictsOldestSurplus ==
    [][ LET gone == DOMAIN jobs \ DOMAIN jobs'
        IN  gone # {} /\ DOMAIN jobs' # {} =>
              /\ Cardinality(DOMAIN jobs') >= MaxJobs
              /\ \A g \in gone, k \in FinishedIn(jobs') :
                    jobs[g].created_at < jobs'[k].created_at ]_vars

\* The table implements the life cycle the API promises.
StatusFor(j) ==
    IF j \in DOMAIN jobs THEN jobs[j].status
    ELSE IF task[j] = "none" THEN "unknown" ELSE "forgotten"

Lifecycle == INSTANCE JobLifecycle WITH status <- [j \in Job |-> StatusFor(j)]

ImplementsLifecycle == Lifecycle!Spec

-----------------------------------------------------------------------------
(* Liveness.                                                               *)

\* Nobody waits for the browser forever, whatever fails in front of them.
BrowserServesEveryone ==
    \A s \in Session :
        task[s] = "waiting" ~> task[s] \notin InBrowser \cup {"waiting"}

\* Polling ends with an answer, unless an untyped exception ended the task.
HearsBackUnlessCrashed ==
    \A j \in Job :
        task[j] = "accepted" ~> seen[j] # "polling" \/ task[j] = "crashed"

-----------------------------------------------------------------------------
(* What the documentation says and the code does not do.                   *)

\* main.py, get_scrape_job: poll "until `status` is `done` (see `result` ...) or
\* `error`" -- every accepted job ends for its client.
ClientHearsBack ==
    \A j \in Job : task[j] = "accepted" ~> seen[j] # "polling"

=============================================================================
