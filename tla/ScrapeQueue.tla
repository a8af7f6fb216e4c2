---------------------------- MODULE ScrapeQueue ----------------------------
(***************************************************************************)
(* The scrape queue of the front end (index.html) against the job API of   *)
(* the server.  One tab: a list of jobs, one pump that works it off, a     *)
(* request of the pump's current job in flight, groups of jobs that are    *)
(* reported together.  The server is JobLifecycle, the abstraction that    *)
(* ScrapeJobs implements; its job ids are the tab's, as each of the tab's  *)
(* jobs has at most one POST accepted.                                     *)
(*                                                                         *)
(* JavaScript runs a handler and the promise reactions it causes without   *)
(* interruption: the queue is one record, and a handler is a function from *)
(* records to records, made of the functions it calls.                     *)
(***************************************************************************)
EXTENDS Integers, Sequences, FiniteSets, SequencesExt

CONSTANTS
    Url,            \* normalised page urls
    MaxJobs,        \* bound: jobs a tab ever queues
    MaxGroups,      \* bound: groups a tab ever starts
    Plans,          \* the url lists a "scrape all" may start
    MaxAttempts     \* MAX_ATTEMPTS

ASSUME QueueAssumption ==
    /\ MaxJobs \in Nat /\ MaxGroups \in Nat
    /\ Plans \subseteq Seq(Url) \ {<<>>}
    /\ MaxAttempts \in Nat \ {0}

JobId == 1..MaxJobs

VARIABLES
    queue,      \* jobs, groups, the job the pump is awaiting (0: not pumping), and,
                \* for the properties, whether an exception ever ended the pump
    wire,       \* the latest request of each job, or the answer on its way
    server      \* the job table of the API, as JobLifecycle sees it

vars == <<queue, wire, server>>

Api == INSTANCE JobLifecycle WITH Job <- JobId, status <- server

Active == {"queued", "running", "waiting"}
Statuses == Active \cup {"done", "error", "cancelled"}

NewJob(u, g) == [url |-> u, group |-> g, status |-> "queued", attempts |-> 0,
                 notified |-> FALSE, error |-> "none", cancelledWhile |-> "none",
                 toasts |-> 0]
NewGroup == [jobIds |-> <<>>, notified |-> FALSE, toasts |-> 0]

Ids(q) == DOMAIN q.jobs
IsActive(q, j) == q.jobs[j].status \in Active
Members(g) == {g.jobIds[i] : i \in DOMAIN g.jobIds}

-----------------------------------------------------------------------------
(* notifyJobs, which every change of the queue ends with.                  *)

Toasts(job) ==
    IF job.group # 0 THEN job.status = "error" /\ job.error = "key"
    ELSE job.status \in {"done", "error"}

\* Slip: notified is set before the job has ended.
TellJob_Early(job) ==
    IF job.notified THEN job
    ELSE [job EXCEPT !.notified = TRUE, !.toasts = IF Toasts(job) THEN @ + 1 ELSE @]

TellJob(job) ==
    IF job.notified \/ job.status \in Active THEN job
    ELSE [job EXCEPT !.notified = TRUE, !.toasts = IF Toasts(job) THEN @ + 1 ELSE @]

GroupActive(q, g) == \E j \in Members(g) : IsActive(q, j)
AllCancelled(q, g) == \A j \in Members(g) : q.jobs[j].status = "cancelled"

TellGroup(q, g) ==
    IF g.notified \/ GroupActive(q, g) THEN g
    ELSE [g EXCEPT !.notified = TRUE, !.toasts = IF AllCancelled(q, g) THEN @ ELSE @ + 1]

Notify(q) ==
    [q EXCEPT !.jobs = [j \in Ids(q) |-> TellJob(q.jobs[j])],
              !.groups = [i \in DOMAIN q.groups |-> TellGroup(q, q.groups[i])]]

-----------------------------------------------------------------------------
(* The pump.  Each of these gives the queue as it stands when the pump     *)
(* awaits again; whose POST it has then sent follows from runner.          *)

\* The next turn of the pump's loop: runJob starts the first queued job.
NextJob(q) ==
    LET Queued(job) == job.status = "queued"
        j == SelectInSeq(q.jobs, Queued)
    IN  IF j = 0 THEN Notify([q EXCEPT !.runner = 0])
        ELSE Notify([q EXCEPT !.runner = j, !.jobs[j].status = "running",
                              !.jobs[j].attempts = 1])

\* Slip: no check of pumping.
Pump_Again(q) == NextJob(q)

Pump(q) == IF q.runner # 0 THEN q ELSE NextJob(q)

\* Slip: what sleep(wait, signal) returned is not looked at.
Settle_Retries(q) ==
    IF q.runner = 0 \/ q.jobs[q.runner].status # "cancelled" THEN q
    ELSE IF q.jobs[q.runner].cancelledWhile = "waiting"
    THEN [q EXCEPT !.jobs[q.runner].status = "waiting"]
    ELSE NextJob(q)

\* After a handler that may have cancelled the job the pump awaits: the abort
\* signal settles its promise, runJob returns and the loop goes on.
Settle(q) ==
    IF q.runner # 0 /\ q.jobs[q.runner].status = "cancelled" THEN NextJob(q) ELSE q

FinishJob(q, j, status, error) ==
    Notify([q EXCEPT !.jobs[j].status = status, !.jobs[j].error = error])

-----------------------------------------------------------------------------
(* What the user can do.                                                   *)

LatestJobFor(q, u) ==
    LET SameUrl(job) == job.url = u IN SelectLastInSeq(q.jobs, SameUrl)

\* enqueue: an active job for the same page is returned instead of a new one.
Duplicate(q, u) == LatestJobFor(q, u) # 0 /\ IsActive(q, LatestJobFor(q, u))

Enqueue(q, u, g) ==
    IF Duplicate(q, u) THEN q
    ELSE Pump(Notify([q EXCEPT !.jobs = Append(@, NewJob(u, g))]))

\* startGroup: the group is registered before its first job is queued.
AddMember(q, u) ==
    LET g == Len(q.groups)
        r == Enqueue(q, u, g)
    IN  [r EXCEPT !.groups[g].jobIds = Append(@, LatestJobFor(r, u))]

StartGroup(q, plan) ==
    LET added[n \in 0..Len(plan)] ==
            IF n = 0 THEN [q EXCEPT !.groups = Append(@, NewGroup)]
            ELSE AddMember(added[n - 1], plan[n])
    IN  Notify(added[Len(plan)])

\* cancelJob for each of them.  Each notifies, but a group that is told of has no
\* active job left, and the jobs cancelled are not told of: once, at the end, is enough.
CancelJobs(q, ids) ==
    Notify([q EXCEPT !.jobs = [j \in Ids(q) |->
        IF j \in ids
        THEN [q.jobs[j] EXCEPT !.status = "cancelled", !.cancelledWhile = q.jobs[j].status,
                               !.notified = TRUE]
        ELSE q.jobs[j]]])

\* The summaries of unfinished groups are not wanted any more.
HushGroups(q) ==
    [q EXCEPT !.groups = [i \in DOMAIN q.groups |->
        IF GroupActive(q, q.groups[i]) THEN [q.groups[i] EXCEPT !.notified = TRUE]
        ELSE q.groups[i]]]

CancelAll(q) == CancelJobs(HushGroups(q), {j \in Ids(q) : IsActive(q, j)})

CancelGroup(q, g) ==
    CancelJobs([q EXCEPT !.groups[g].notified = TRUE],
               {j \in Members(q.groups[g]) : IsActive(q, j)})

\* haltQueue, after a 401: every later scrape would fail the same way.
HaltQueue(q) ==
    LET h == HushGroups(q)
    IN  Notify([h EXCEPT !.jobs = [j \in Ids(q) |->
            IF q.jobs[j].status = "queued"
            THEN [q.jobs[j] EXCEPT !.status = "error", !.error = "skipped", !.notified = TRUE]
            ELSE q.jobs[j]]])

-----------------------------------------------------------------------------

Init ==
    /\ queue = [jobs |-> <<>>, groups |-> <<>>, runner |-> 0, threw |-> FALSE]
    /\ wire = [j \in JobId |-> "none"]
    /\ server = [j \in JobId |-> "unknown"]

\* The handler leaves the queue as q.  A job that the pump has newly started has
\* sent its POST; the POST of a job just cancelled may still be on its way to the
\* server, but nobody waits for an answer or a timer of an ended job.
Becomes(q) ==
    /\ queue' = q
    /\ wire' = [j \in JobId |->
                  IF j = q.runner /\ q.runner # queue.runner THEN "POST"
                  ELSE IF wire[j] = "POST" \/ j = q.runner THEN wire[j] ELSE "none"]
    /\ UNCHANGED server

Scrape(u) ==
    /\ Len(queue.jobs) < MaxJobs
    /\ ~Duplicate(queue, u)
    /\ Becomes(Enqueue(queue, u, 0))

ScrapeAll(plan) ==
    /\ Len(queue.groups) < MaxGroups
    /\ Len(queue.jobs) + Len(plan) <= MaxJobs
    /\ Becomes(StartGroup(queue, plan))

UserCancelsJob(j) == IsActive(queue, j) /\ Becomes(Settle(CancelJobs(queue, {j})))

UserCancelsGroup(g) ==
    GroupActive(queue, queue.groups[g]) /\ Becomes(Settle(CancelGroup(queue, g)))

UserCancelsAll ==
    /\ \E j \in Ids(queue) : IsActive(queue, j)
    /\ Becomes(Settle(CancelAll(queue)))

-----------------------------------------------------------------------------
(* The awaits of runJob and pollScrapeJob, by the answer that ends them.   *)

Awaits(j, answers) ==
    /\ queue.runner = j
    /\ queue.jobs[j].status # "cancelled"
    /\ wire[j] \in answers

Send(j, request) ==
    /\ wire' = [wire EXCEPT ![j] = request]
    /\ UNCHANGED <<queue, server>>

\* 202, or a poll that says queued or running: the job is polled after a pause.
Accepted(j) == Awaits(j, {"pending"}) /\ Send(j, "pause")

PauseEnds(j) == Awaits(j, {"pause"}) /\ Send(j, "GET")

\* Slip: MAX_ATTEMPTS is not looked at.
RateLimited_Unbounded(j) ==
    /\ Awaits(j, {"429"})
    /\ queue' = Notify([queue EXCEPT !.jobs[j].status = "waiting"])
    /\ wire' = [wire EXCEPT ![j] = "backoff"]
    /\ UNCHANGED server

\* 429: wait out the rate limit, then start over -- MAX_ATTEMPTS times in all.
RateLimited(j) ==
    /\ Awaits(j, {"429"})
    /\ queue.jobs[j].attempts < MaxAttempts
    /\ queue' = Notify([queue EXCEPT !.jobs[j].status = "waiting"])
    /\ wire' = [wire EXCEPT ![j] = "backoff"]
    /\ UNCHANGED server

BackoffEnds(j) ==
    /\ Awaits(j, {"backoff"})
    /\ queue' = Notify([queue EXCEPT !.jobs[j].status = "running", !.jobs[j].attempts = @ + 1])
    /\ wire' = [wire EXCEPT ![j] = "POST"]
    /\ UNCHANGED server

\* Slip: the pump ends with its job.
Ends_Stops(j, status, error) ==
    Becomes([FinishJob(queue, j, status, error) EXCEPT !.runner = 0])

Ends(j, status, error) == Becomes(NextJob(FinishJob(queue, j, status, error)))

Refused(j) ==
    /\ \/ Awaits(j, {"refused"})
       \/ Awaits(j, {"429"}) /\ queue.jobs[j].attempts >= MaxAttempts
    /\ Ends(j, "error", "refused")

Unauthorized(j) ==
    /\ Awaits(j, {"401"})
    /\ Becomes(NextJob(HaltQueue(FinishJob(queue, j, "error", "key"))))

\* fetch rejected, the poll got an error status, or the job is not known there.
LostTouch(j) == Awaits(j, {"failed"}) /\ Ends(j, "error", "network")

\* Slip: a 202 is taken for the finished scrape it once was.
ScrapeDone_OnAccept(j) == Awaits(j, {"pending", "done"}) /\ Ends(j, "done", "none")

ScrapeDone(j) == Awaits(j, {"done"}) /\ Ends(j, "done", "none")

ScrapeFailed(j) == Awaits(j, {"error"}) /\ Ends(j, "error", "scrape")

\* status "error" without its error object, which a poll between the two
\* statements of set_error gets: body.error.status_code throws, the exception
\* passes through runJob, and pump ends in its finally.
TornError(j) ==
    /\ Awaits(j, {"torn"})
    /\ Becomes(Notify([queue EXCEPT !.runner = 0, !.threw = TRUE]))

-----------------------------------------------------------------------------
(* The network and the server.                                             *)

\* The answer of an aborted request reaches nobody.
Answer(j, answer) ==
    /\ wire' = [wire EXCEPT ![j] = IF queue.runner = j THEN answer ELSE "none"]
    /\ UNCHANGED queue

TakePost(j) ==
    /\ wire[j] = "POST"
    /\ \/ Api!Accept(j) /\ Answer(j, "pending")
       \/ \E refusal \in {"429", "401", "refused"} : Answer(j, refusal) /\ UNCHANGED server

TakeGet(j) ==
    /\ wire[j] = "GET"
    /\ \/ server[j] \in {"queued", "running"} /\ Answer(j, "pending")
       \/ server[j] = "done" /\ Answer(j, "done")
       \/ server[j] = "error" /\ (Answer(j, "error") \/ Answer(j, "torn"))
       \/ server[j] \in {"unknown", "forgotten"} /\ Answer(j, "failed")
    /\ UNCHANGED server

\* A request or an answer is lost; fetch rejects.
Lose(j) ==
    /\ Awaits(j, {"POST", "GET", "pending", "429", "401", "refused", "done", "error"})
    /\ Send(j, "failed")

ServerBegins(j) == Api!Begin(j) /\ UNCHANGED <<queue, wire>>

ServerEnds(j) == Api!End(j) /\ UNCHANGED <<queue, wire>>

ServerRestarts == Api!Restart /\ UNCHANGED <<queue, wire>>

-----------------------------------------------------------------------------

Handle(j) ==
    \/ Accepted(j)  \/ PauseEnds(j)    \/ RateLimited(j) \/ BackoffEnds(j)
    \/ Refused(j)   \/ Unauthorized(j) \/ LostTouch(j)
    \/ ScrapeDone(j) \/ ScrapeFailed(j) \/ TornError(j)

Respond(j) == TakePost(j) \/ TakeGet(j)

User ==
    \/ \E u \in Url : Scrape(u)
    \/ \E plan \in Plans : ScrapeAll(plan)
    \/ \E j \in Ids(queue) : UserCancelsJob(j)
    \/ \E g \in DOMAIN queue.groups : UserCancelsGroup(g)
    \/ UserCancelsAll

Next ==
    \/ User
    \/ \E j \in Ids(queue) : Handle(j) \/ Respond(j) \/ Lose(j)
                             \/ ServerBegins(j) \/ ServerEnds(j)
    \/ ServerRestarts

Spec == Init /\ [][Next]_vars

(***************************************************************************)
(* Fairness: the browser runs timers and reactions, the server answers,    *)
(* and it begins what it accepted (StartTask of ScrapeJobs).               *)
(* That it ends what it has begun is not assumed: it does not have to      *)
(* (ClientHearsBack of ScrapeJobs).                                        *)
(***************************************************************************)
FairSpec ==
    /\ Spec
    /\ \A j \in JobId : /\ WF_vars(j \in Ids(queue) /\ Handle(j))
                        /\ WF_vars(j \in Ids(queue) /\ Respond(j))
                        /\ WF_vars(j \in Ids(queue) /\ ServerBegins(j))

-----------------------------------------------------------------------------
(* Invariants.                                                             *)

\* Type correctness.
TypeOK ==
    /\ queue.threw \in BOOLEAN
    /\ queue.runner \in 0..Len(queue.jobs)
    /\ Len(queue.jobs) <= MaxJobs /\ Len(queue.groups) <= MaxGroups
    /\ \A j \in Ids(queue) :
          /\ queue.jobs[j].url \in Url
          /\ queue.jobs[j].group \in 0..Len(queue.groups)
          /\ queue.jobs[j].status \in Statuses
          /\ queue.jobs[j].attempts \in 0..MaxAttempts
          /\ queue.jobs[j].toasts \in 0..1
    /\ \A g \in DOMAIN queue.groups : /\ Members(queue.groups[g]) \subseteq Ids(queue)
                                      /\ queue.groups[g].toasts \in 0..1
    /\ server \in [JobId -> Api!States]

\* cancelJob: "only a 'running' one may still land server-side" -- no scrape of a
\* job that was cancelled while queued, or while it waited out the rate limit,
\* is ever accepted, nor will a request for it arrive later.
OnlyRunningLands ==
    \A j \in Ids(queue) :
        queue.jobs[j].cancelledWhile \in {"queued", "waiting"} =>
            server[j] = "unknown" /\ wire[j] # "POST"

\* One sequential queue: of the tab's jobs that the user did not cancel and the
\* network did not cut off, at most one is on the server at a time.
OneAtATime ==
    \A i, j \in Ids(queue) :
        /\ \A k \in {i, j} : /\ server[k] \in {"queued", "running"} \/ wire[k] = "POST"
                             /\ queue.jobs[k].status # "cancelled"
                             /\ queue.jobs[k].error # "network"
        => i = j

\* What the tab shows of a job is what became of it on the server: "done" only
\* for one that ended there, "scrape failed" likewise, and a refused or skipped
\* one never got there.
ShowsTheTruth ==
    \A j \in Ids(queue) :
        /\ queue.jobs[j].status = "done" => server[j] \in {"done", "forgotten"}
        /\ queue.jobs[j].error = "scrape" => server[j] \in {"error", "forgotten"}
        /\ queue.jobs[j].error \in {"refused", "key", "skipped"} => server[j] = "unknown"

\* A job of no group that ended by itself has been announced.
EndingsAnnounced ==
    \A j \in Ids(queue) :
        /\ queue.jobs[j].group = 0
        /\ queue.jobs[j].status \in {"done", "error"}
        /\ queue.jobs[j].error # "skipped"
        => queue.jobs[j].toasts = 1

-----------------------------------------------------------------------------
(* Liveness.                                                               *)

IsQueued(j) == j \in Ids(queue) /\ queue.jobs[j].status = "queued"

\* The pump polls a job that the server has begun and not ended.
PollsOn(j) == queue.runner = j /\ server[j] = "running"

\* The queue drains: through cancellations, lost touch, rate limits and restarts of the
\* server, a queued job gets its turn -- unless the pump polls one before it for ever,
\* as pollScrapeJob sets no limit, or an exception has ended the pump (TornError).
QueueDrains ==
    (\A i \in JobId : []<>~PollsOn(i))
        => \A j \in JobId : IsQueued(j) ~> ~IsQueued(j) \/ queue.threw

-----------------------------------------------------------------------------
(* What the comments say and the code does not do.                         *)

\* "Group members report through the group summary": a group that ended with
\* nobody cancelling or halting it has shown its summary.
GroupsSummarised ==
    \A g \in DOMAIN queue.groups :
        /\ Members(queue.groups[g]) # {}
        /\ \A j \in Members(queue.groups[g]) :
              queue.jobs[j].status = "done"
        => queue.groups[g].toasts = 1

=============================================================================
