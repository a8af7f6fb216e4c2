------------------------- MODULE ScrapeQueue_proofs -------------------------
(***************************************************************************)
(* Proofs about ScrapeQueue, for any urls, any number of jobs and groups,  *)
(* any plans and any number of attempts.                                   *)
(***************************************************************************)
EXTENDS ScrapeQueue, WellFoundedInduction, TLAPS

-----------------------------------------------------------------------------
(* The inductive invariant.                                                *)

Errors == {"none", "refused", "key", "skipped", "network", "scrape"}

JobRec == [url : Url, group : Nat, status : Statuses, attempts : 0..MaxAttempts,
           notified : BOOLEAN, error : Errors, cancelledWhile : Active \cup {"none"},
           toasts : 0..1]

GroupRec == [jobIds : Seq(JobId), notified : BOOLEAN, toasts : 0..1]

QueueRec == [jobs : Seq(JobRec), groups : Seq(GroupRec), runner : Nat, threw : BOOLEAN]

Requests == {"none", "POST", "GET", "pending", "pause", "backoff", "429", "401", "refused",
             "done", "error", "torn", "failed"}

\* What a job says of itself: told of at most once, and after it ended; a toast for
\* every ending that no group and no halt of the queue speaks for.
Told(job) ==
    /\ job.status \in Active => ~job.notified
    /\ ~job.notified => job.toasts = 0
    /\ job.notified /\ job.group = 0 /\ job.status \in {"done", "error"}
         /\ job.error # "skipped" => job.toasts = 1
    /\ job.status = "error" <=> job.error # "none"
    /\ job.status = "cancelled" <=> job.cancelledWhile # "none"
    /\ job.status = "waiting" => job.attempts < MaxAttempts

\* What the server may have of a running job, by the request or the answer the pump awaits.
Awaited(w, s) ==
    /\ w # "backoff"
    /\ w \in {"POST", "429", "401", "refused"} => s = "unknown"
    /\ w = "done" => s \in {"done", "forgotten"}
    /\ w \in {"error", "torn"} => s \in {"error", "forgotten"}

\* A job agrees with its request on the wire and with what the server has of it; a
\* job that runs without the pump is the one whose error threw.
Agrees(job, runs, w, s) ==
    /\ job.status = "queued" => ~runs /\ w # "POST" /\ s = "unknown"
    /\ job.status = "waiting" => runs /\ w = "backoff" /\ s = "unknown"
    /\ job.status = "running" =>
          IF runs THEN Awaited(w, s) ELSE w # "POST" /\ s \in {"error", "forgotten"}
    /\ job.status = "done" => w # "POST" /\ s \in {"done", "forgotten"}
    /\ job.status = "error" => w # "POST"
    /\ job.error = "scrape" => s \in {"error", "forgotten"}
    /\ job.error \in {"refused", "key", "skipped"} => s = "unknown"
    /\ job.cancelledWhile \in {"queued", "waiting"} => w # "POST" /\ s = "unknown"

\* The request of job j once a handler leaves the pump with job r (Becomes).
WireAfter(r, j) ==
    IF j = r /\ r # queue.runner THEN "POST"
    ELSE IF wire[j] = "POST" \/ j = r THEN wire[j] ELSE "none"

Shape(q) ==
    /\ q \in QueueRec
    /\ Len(q.jobs) <= MaxJobs /\ Len(q.groups) <= MaxGroups
    /\ q.runner <= Len(q.jobs) /\ queue.runner \in 0..Len(q.jobs)
    /\ \A j \in Ids(q) : q.jobs[j].group <= Len(q.groups)
    /\ \A g \in DOMAIN q.groups : Members(q.groups[g]) \subseteq Ids(q)

GroupsTold(q) == \A g \in DOMAIN q.groups : ~q.groups[g].notified => q.groups[g].toasts = 0

\* Job j in a queue q that a handler is about to leave, or is still working on.
JobFits(q, j) ==
    /\ Told(q.jobs[j])
    /\ Agrees(q.jobs[j], q.runner = j, WireAfter(q.runner, j), server[j])
    /\ q.jobs[j].status = "queued" => j # queue.runner

JobsFit(q) == \A j \in Ids(q) : JobFits(q, j)

Unsent(q) == \A j \in JobId \ Ids(q) : wire[j] # "POST" /\ server[j] = "unknown"

Mid(q) == Shape(q) /\ GroupsTold(q) /\ JobsFit(q) /\ Unsent(q)

\* Nobody waits to be told of.
Quiet(q) == \A j \in Ids(q) : q.jobs[j].status \notin Active => q.jobs[j].notified

RunnerRuns(q) == q.runner # 0 => q.jobs[q.runner].status \in {"running", "waiting"}

IInv ==
    /\ Mid(queue) /\ Quiet(queue) /\ RunnerRuns(queue)
    /\ wire \in [JobId -> Requests]
    /\ server \in [JobId -> Api!States]

-----------------------------------------------------------------------------
(* Queues and their parts.                                                 *)

LEMMA LeastNatural ==
    ASSUME NEW T, T \subseteq Nat, T # {}
    PROVE  \E m \in T : \A k \in T : m <= k
<1> DEFINE R == OpToRel(<, Nat)
<1>1. IsWellFoundedOn(R, Nat)
  BY NatLessThanWellFounded
<1>2. \A k, m \in Nat : k < m => <<k, m>> \in R
  BY DEF OpToRel
<1> HIDE DEF R
<1>3. PICK m \in T : \A k \in T : ~(<<k, m>> \in R)
  BY <1>1, WFMin
<1>4. ASSUME NEW k \in T
      PROVE  m <= k
  <2>1. k \in Nat /\ m \in Nat /\ ~(k < m)
    BY <1>2, <1>3, <1>4
  <2> QED
    BY <2>1
<1> QED
  BY <1>3, <1>4

LEMMA Parts ==
    ASSUME NEW q, Shape(q)
    PROVE  /\ q.jobs \in Seq(JobRec) /\ Len(q.jobs) \in 0..MaxJobs
           /\ Ids(q) = 1..Len(q.jobs) /\ Ids(q) \subseteq JobId
           /\ q.jobs \in [Ids(q) -> JobRec]
           /\ q.groups \in Seq(GroupRec) /\ Len(q.groups) \in 0..MaxGroups
           /\ DOMAIN q.groups = 1..Len(q.groups)
           /\ q.groups \in [DOMAIN q.groups -> GroupRec]
           /\ q.runner \in 0..Len(q.jobs) /\ queue.runner \in 0..Len(q.jobs)
           /\ q.threw \in BOOLEAN
           /\ q = [jobs |-> q.jobs, groups |-> q.groups, runner |-> q.runner,
                   threw |-> q.threw]
<1>1. MaxJobs \in Nat /\ MaxGroups \in Nat
  BY QueueAssumption
<1>2. /\ q.jobs \in Seq(JobRec) /\ q.groups \in Seq(GroupRec)
      /\ q.runner \in Nat /\ q.threw \in BOOLEAN
      /\ q = [jobs |-> q.jobs, groups |-> q.groups, runner |-> q.runner, threw |-> q.threw]
  BY DEF Shape, QueueRec
<1>3. Len(q.jobs) <= MaxJobs /\ Len(q.groups) <= MaxGroups /\ q.runner <= Len(q.jobs)
      /\ queue.runner \in 0..Len(q.jobs)
  BY DEF Shape
<1>4. Ids(q) = 1..Len(q.jobs) /\ DOMAIN q.groups = 1..Len(q.groups)
      /\ Len(q.jobs) \in Nat /\ Len(q.groups) \in Nat
      /\ q.jobs \in [1..Len(q.jobs) -> JobRec] /\ q.groups \in [1..Len(q.groups) -> GroupRec]
  BY <1>2 DEF Ids
<1>5. Len(q.jobs) \in 0..MaxJobs /\ Len(q.groups) \in 0..MaxGroups
      /\ Ids(q) \subseteq JobId /\ q.runner \in 0..Len(q.jobs)
  BY <1>1, <1>2, <1>3, <1>4 DEF JobId
<1> QED
  BY <1>2, <1>3, <1>4, <1>5

\* The queues that have the jobs and the groups of q, in whatever state.
SameJobs(q) == [jobs : [Ids(q) -> JobRec], groups : [DOMAIN q.groups -> GroupRec],
                runner : 0..Len(q.jobs), threw : BOOLEAN]

Alike(q, x) ==
    /\ \A j \in Ids(q) : x.jobs[j].group = q.jobs[j].group /\ x.jobs[j].url = q.jobs[j].url
    /\ \A g \in DOMAIN q.groups : x.groups[g].jobIds = q.groups[g].jobIds

\* x has as many jobs and groups as q, for the same pages.
SameSize(q, x) ==
    /\ Ids(x) = Ids(q) /\ Len(x.jobs) = Len(q.jobs)
    /\ DOMAIN x.groups = DOMAIN q.groups /\ Len(x.groups) = Len(q.groups)
    /\ \A j \in Ids(q) : x.jobs[j].url = q.jobs[j].url

LEMMA Rebuilt ==
    ASSUME NEW q, Shape(q), NEW x \in SameJobs(q), Alike(q, x)
    PROVE  Shape(x) /\ SameSize(q, x)
<1>1. /\ Len(q.jobs) \in 0..MaxJobs /\ Ids(q) = 1..Len(q.jobs)
      /\ Len(q.groups) \in 0..MaxGroups /\ DOMAIN q.groups = 1..Len(q.groups)
      /\ queue.runner \in 0..Len(q.jobs)
  BY Parts
<1>2. MaxJobs \in Nat /\ MaxGroups \in Nat
  BY QueueAssumption
<1>3. /\ x.jobs \in [1..Len(q.jobs) -> JobRec] /\ x.groups \in [1..Len(q.groups) -> GroupRec]
      /\ x.runner \in 0..Len(q.jobs) /\ x.threw \in BOOLEAN
      /\ x = [jobs |-> x.jobs, groups |-> x.groups, runner |-> x.runner, threw |-> x.threw]
  BY <1>1 DEF SameJobs
<1>4. Len(q.jobs) \in Nat /\ Len(q.groups) \in Nat
  BY <1>1
<1>5. x.jobs \in Seq(JobRec) /\ Len(x.jobs) = Len(q.jobs) /\ Ids(x) = Ids(q)
  BY <1>1, <1>3, <1>4 DEF Ids
<1>6. x.groups \in Seq(GroupRec) /\ Len(x.groups) = Len(q.groups)
      /\ DOMAIN x.groups = DOMAIN q.groups
  BY <1>1, <1>3, <1>4
<1>7. x \in QueueRec
  <2>1. x.runner \in Nat
    BY <1>3, <1>4
  <2> QED
    BY <1>3, <1>5, <1>6, <2>1 DEF QueueRec
<1>8. x.runner <= Len(x.jobs) /\ Len(x.jobs) <= MaxJobs /\ Len(x.groups) <= MaxGroups
  BY <1>1, <1>2, <1>3, <1>4, <1>5, <1>6
<1>9. \A j \in Ids(x) : x.jobs[j].group <= Len(x.groups)
  BY <1>5, <1>6 DEF Shape, Alike
<1>10. \A g \in DOMAIN x.groups : Members(x.groups[g]) \subseteq Ids(x)
  BY <1>5, <1>6 DEF Shape, Alike, Members
<1>11. SameSize(q, x)
  BY <1>5, <1>6 DEF SameSize, Alike
<1> QED
  BY <1>1, <1>5, <1>7, <1>8, <1>9, <1>10, <1>11 DEF Shape

-----------------------------------------------------------------------------
(* notifyJobs.                                                             *)

LEMMA JobTold ==
    ASSUME NEW job \in JobRec, Told(job)
    PROVE  /\ TellJob(job) \in JobRec /\ Told(TellJob(job))
           /\ TellJob(job).url = job.url /\ TellJob(job).group = job.group
           /\ TellJob(job).status = job.status /\ TellJob(job).error = job.error
           /\ TellJob(job).cancelledWhile = job.cancelledWhile
           /\ job.status \notin Active => TellJob(job).notified
<1>1. CASE job.notified \/ job.status \in Active
  <2>1. TellJob(job) = job
    BY <1>1 DEF TellJob
  <2>2. job.status \notin Active => job.notified
    BY <1>1
  <2> QED
    BY <2>1, <2>2
<1>2. CASE ~(job.notified \/ job.status \in Active)
  <2> DEFINE n == IF Toasts(job) THEN 1 ELSE 0
  <2>1. job.toasts = 0
    BY <1>2 DEF Told
  <2>2. TellJob(job) = [job EXCEPT !.notified = TRUE, !.toasts = n]
    <3>1. (IF Toasts(job) THEN job.toasts + 1 ELSE job.toasts) = n
      BY <2>1
    <3> QED
      BY <1>2, <3>1 DEF TellJob
  <2>3. n \in 0..1
    OBVIOUS
  <2>4. job.group = 0 /\ job.status \in {"done", "error"} => n = 1
    BY DEF Toasts
  <2> HIDE DEF n
  <2>5. /\ TellJob(job) \in JobRec /\ TellJob(job).notified = TRUE /\ TellJob(job).toasts = n
        /\ TellJob(job).url = job.url /\ TellJob(job).group = job.group
        /\ TellJob(job).status = job.status /\ TellJob(job).error = job.error
        /\ TellJob(job).cancelledWhile = job.cancelledWhile
        /\ TellJob(job).attempts = job.attempts
    BY <2>2, <2>3 DEF JobRec
  <2>6. Told(TellJob(job))
    BY <1>2, <2>4, <2>5 DEF Told
  <2> QED
    BY <2>5, <2>6
<1> QED
  BY <1>1, <1>2

LEMMA GroupTold ==
    ASSUME NEW q, NEW g \in GroupRec, ~g.notified => g.toasts = 0
    PROVE  /\ TellGroup(q, g) \in GroupRec /\ TellGroup(q, g).jobIds = g.jobIds
           /\ ~TellGroup(q, g).notified => TellGroup(q, g).toasts = 0
<1>1. CASE g.notified \/ GroupActive(q, g)
  BY <1>1 DEF TellGroup
<1>2. CASE ~(g.notified \/ GroupActive(q, g))
  <2> DEFINE n == IF AllCancelled(q, g) THEN 0 ELSE 1
  <2>1. TellGroup(q, g) = [g EXCEPT !.notified = TRUE, !.toasts = n]
    <3>1. (IF AllCancelled(q, g) THEN g.toasts ELSE g.toasts + 1) = n
      BY <1>2
    <3> QED
      BY <1>2, <3>1 DEF TellGroup
  <2>2. n \in 0..1
    OBVIOUS
  <2> HIDE DEF n
  <2> QED
    BY <2>1, <2>2 DEF GroupRec
<1> QED
  BY <1>1, <1>2

LEMMA MidOf ==
    ASSUME NEW q, Mid(q), NEW x \in SameJobs(q), Alike(q, x), GroupsTold(x),
           \A j \in Ids(q) : JobFits(x, j)
    PROVE  Mid(x) /\ SameSize(q, x)
<1>1. Shape(x) /\ SameSize(q, x)
  BY Rebuilt DEF Mid
<1>2. Ids(x) = Ids(q)
  BY <1>1 DEF SameSize
<1> QED
  BY <1>1, <1>2 DEF Mid, JobsFit, Unsent

LEMMA Notified ==
    ASSUME NEW q, Mid(q)
    PROVE  /\ Mid(Notify(q)) /\ Quiet(Notify(q)) /\ SameSize(q, Notify(q))
           /\ Notify(q).runner = q.runner
           /\ \A j \in Ids(q) : Notify(q).jobs[j].status = q.jobs[j].status
<1> DEFINE x == Notify(q)
<1>1. Shape(q) /\ q.jobs \in [Ids(q) -> JobRec] /\ q.groups \in [DOMAIN q.groups -> GroupRec]
      /\ q.runner \in 0..Len(q.jobs) /\ q.threw \in BOOLEAN
      /\ q = [jobs |-> q.jobs, groups |-> q.groups, runner |-> q.runner, threw |-> q.threw]
  BY Parts DEF Mid
<1>2. x = [jobs |-> [j \in Ids(q) |-> TellJob(q.jobs[j])],
           groups |-> [i \in DOMAIN q.groups |-> TellGroup(q, q.groups[i])],
           runner |-> q.runner, threw |-> q.threw]
  <2> DEFINE js == [j \in Ids(q) |-> TellJob(q.jobs[j])]
  <2> DEFINE gs == [i \in DOMAIN q.groups |-> TellGroup(q, q.groups[i])]
  <2>1. x = [q EXCEPT !.jobs = js, !.groups = gs]
    BY DEF Notify
  <2> HIDE DEF js, gs, x
  <2>2. x = [jobs |-> js, groups |-> gs, runner |-> q.runner, threw |-> q.threw]
    BY <1>1, <2>1
  <2> QED
    BY <2>2 DEF js, gs
<1>3. /\ x.jobs = [j \in Ids(q) |-> TellJob(q.jobs[j])]
      /\ x.groups = [i \in DOMAIN q.groups |-> TellGroup(q, q.groups[i])]
      /\ x.runner = q.runner /\ x.threw = q.threw
  BY <1>2
<1> HIDE DEF x
<1>4. \A j \in Ids(q) :
         /\ x.jobs[j] \in JobRec /\ Told(x.jobs[j])
         /\ x.jobs[j].url = q.jobs[j].url /\ x.jobs[j].group = q.jobs[j].group
         /\ x.jobs[j].status = q.jobs[j].status /\ x.jobs[j].error = q.jobs[j].error
         /\ x.jobs[j].cancelledWhile = q.jobs[j].cancelledWhile
         /\ q.jobs[j].status \notin Active => x.jobs[j].notified
  BY <1>1, <1>3, JobTold DEF Mid, JobsFit, JobFits
<1>5. \A g \in DOMAIN q.groups :
         /\ x.groups[g] \in GroupRec /\ x.groups[g].jobIds = q.groups[g].jobIds
         /\ ~x.groups[g].notified => x.groups[g].toasts = 0
  BY <1>1, <1>3, GroupTold DEF Mid, GroupsTold
<1>6. x \in SameJobs(q)
  BY <1>1, <1>2, <1>3, <1>4, <1>5 DEF SameJobs
<1>7. Alike(q, x)
  BY <1>4, <1>5 DEF Alike
<1>8. GroupsTold(x)
  BY <1>3, <1>5 DEF GroupsTold
<1>9. \A j \in Ids(q) : JobFits(x, j)
  BY <1>3, <1>4 DEF Mid, JobsFit, JobFits, Agrees
<1>10. Mid(x) /\ SameSize(q, x)
  BY <1>6, <1>7, <1>8, <1>9, MidOf
<1>11. Quiet(x)
  BY <1>4, <1>10 DEF Quiet, SameSize
<1> QED
  BY <1>3, <1>4, <1>10, <1>11 DEF x

-----------------------------------------------------------------------------
(* The pump.                                                               *)

Starts(q, j) == [q EXCEPT !.runner = j, !.jobs[j].status = "running", !.jobs[j].attempts = 1]

LEMMA TurnOfTheLoop ==
    ASSUME NEW q, Shape(q)
    PROVE  \/ NextJob(q) = Notify([q EXCEPT !.runner = 0])
           \/ \E j \in Ids(q) : /\ q.jobs[j].status = "queued"
                                /\ NextJob(q) = Notify(Starts(q, j))
<1> DEFINE I == {i \in 1..Len(q.jobs) : q.jobs[i].status = "queued"}
<1> DEFINE j == IF I # {} THEN Min(I) ELSE 0
<1>1. NextJob(q) = IF j = 0 THEN Notify([q EXCEPT !.runner = 0]) ELSE Notify(Starts(q, j))
  BY DEF NextJob, SelectInSeq, Starts
<1>2. I # {} => Min(I) \in I
  <2> SUFFICES ASSUME I # {}
               PROVE  Min(I) \in I
    OBVIOUS
  <2>1. Len(q.jobs) \in Nat
    BY Parts
  <2>2. I \subseteq Nat
    BY <2>1
  <2>3. \E m \in I : \A k \in I : m <= k
    BY <2>2, LeastNatural
  <2> QED
    BY <2>3 DEF Min
<1>3. Ids(q) = 1..Len(q.jobs)
  BY Parts
<1>4. I # {} => j \in I /\ j \in Ids(q) /\ q.jobs[j].status = "queued"
  BY <1>2, <1>3
<1>5. I = {} => j = 0
  OBVIOUS
<1> HIDE DEF I, j
<1> QED
  BY <1>1, <1>4, <1>5

\* The pump may look for another job once the one it awaited has ended.
Free(q) == q.runner # 0 => q.jobs[q.runner].status \notin Active

LEMMA PumpTurns ==
    ASSUME NEW q, Mid(q), Free(q)
    PROVE  /\ Mid(NextJob(q)) /\ Quiet(NextJob(q)) /\ RunnerRuns(NextJob(q))
           /\ SameSize(q, NextJob(q))
<1>1. Shape(q) /\ q.jobs \in [Ids(q) -> JobRec] /\ q.groups \in [DOMAIN q.groups -> GroupRec]
      /\ q.runner \in 0..Len(q.jobs) /\ q.threw \in BOOLEAN /\ Ids(q) = 1..Len(q.jobs)
      /\ Len(q.jobs) \in 0..MaxJobs
      /\ q = [jobs |-> q.jobs, groups |-> q.groups, runner |-> q.runner, threw |-> q.threw]
  BY Parts DEF Mid
<1>2. MaxJobs \in Nat /\ MaxAttempts \in Nat \ {0}
  BY QueueAssumption
<1>3. \A j \in Ids(q) : JobFits(q, j) /\ q.jobs[j] \in JobRec
  BY <1>1 DEF Mid, JobsFit
\* The job the pump leaves has ended, and keeps no request but a POST it was cancelled in.
<1>4. ASSUME NEW r \in 0..Len(q.jobs), NEW j \in Ids(q), j # r
      PROVE  /\ Told(q.jobs[j])
             /\ Agrees(q.jobs[j], r = j, WireAfter(r, j), server[j])
             /\ q.jobs[j].status = "queued" => j # queue.runner
  <2>1. JobFits(q, j)
    BY <1>3
  <2>2. q.jobs[j].status = "waiting" => FALSE
    <3>1. q.jobs[j].status = "waiting" => q.runner = j
      BY <2>1 DEF JobFits, Agrees
    <3>2. j # 0
      BY <1>1
    <3> QED
      BY <3>1, <3>2 DEF Free, Active
  <2>3. q.jobs[j].status = "running" => q.runner # j
    <3>1. j # 0
      BY <1>1
    <3> QED
      BY <3>1 DEF Free, Active
  <2>4. WireAfter(q.runner, j) # "POST" => WireAfter(r, j) # "POST"
    BY <1>4 DEF WireAfter
  <2> QED
    BY <2>1, <2>2, <2>3, <2>4, <1>4 DEF JobFits, Agrees
<1>5. ASSUME NEW x, x = [q EXCEPT !.runner = 0]
      PROVE  Mid(x) /\ RunnerRuns(x) /\ SameSize(q, x)
  <2>1. /\ x.jobs = q.jobs /\ x.groups = q.groups /\ x.runner = 0 /\ x.threw = q.threw
        /\ x = [jobs |-> x.jobs, groups |-> x.groups, runner |-> 0, threw |-> x.threw]
    BY <1>1, <1>5
  <2>2. 0 \in 0..Len(q.jobs) /\ \A j \in Ids(q) : j # 0
    BY <1>1
  <2>3. x \in SameJobs(q) /\ Alike(q, x)
    BY <1>1, <2>1, <2>2 DEF SameJobs, Alike
  <2>4. \A j \in Ids(q) : JobFits(x, j)
    BY <1>4, <2>1, <2>2 DEF JobFits
  <2>5. GroupsTold(x) /\ RunnerRuns(x)
    BY <2>1 DEF Mid, GroupsTold, RunnerRuns
  <2> QED
    BY <2>3, <2>4, <2>5, MidOf
<1>6. ASSUME NEW k \in Ids(q), q.jobs[k].status = "queued", NEW x, x = Starts(q, k)
      PROVE  Mid(x) /\ RunnerRuns(x) /\ SameSize(q, x)
  <2> DEFINE job == [q.jobs[k] EXCEPT !.status = "running", !.attempts = 1]
  <2>1. x = [jobs |-> [q.jobs EXCEPT ![k] = job], groups |-> q.groups, runner |-> k,
             threw |-> q.threw]
    BY <1>1, <1>6 DEF Starts
  <2>2. 1 \in 0..MaxAttempts
    BY <1>2
  <2>3. job \in JobRec
    BY <1>3, <2>2 DEF JobRec, Statuses, Active
  <2>4. /\ job.status = "running" /\ job.url = q.jobs[k].url /\ job.group = q.jobs[k].group
        /\ job.notified = q.jobs[k].notified /\ job.toasts = q.jobs[k].toasts
        /\ job.error = q.jobs[k].error /\ job.cancelledWhile = q.jobs[k].cancelledWhile
    BY <1>3 DEF JobRec
  <2> HIDE DEF job
  <2>5. /\ x.jobs = [q.jobs EXCEPT ![k] = job] /\ x.groups = q.groups /\ x.runner = k
        /\ x.threw = q.threw
    BY <2>1
  <2>6. x.jobs[k] = job /\ \A j \in Ids(q) : j # k => x.jobs[j] = q.jobs[j]
    BY <1>1, <2>5
  <2>7. x.jobs \in [Ids(q) -> JobRec]
    BY <1>1, <2>3, <2>5
  <2>8. x \in SameJobs(q)
    BY <1>1, <2>1, <2>5, <2>7 DEF SameJobs
  <2>9. Alike(q, x)
    BY <2>4, <2>5, <2>6 DEF Alike
  <2>10. JobFits(x, k)
    <3>1. Told(job)
      BY <1>3, <1>6, <2>4 DEF JobFits, Told, Active
    <3>2. k # queue.runner /\ server[k] = "unknown" /\ WireAfter(k, k) = "POST"
      BY <1>3, <1>6 DEF JobFits, Agrees, WireAfter
    <3>3. q.jobs[k].error = "none" /\ q.jobs[k].cancelledWhile = "none"
      BY <1>3, <1>6 DEF JobFits, Told, JobRec
    <3> QED
      BY <2>4, <2>5, <2>6, <3>1, <3>2, <3>3 DEF JobFits, Agrees, Awaited
  <2>11. ASSUME NEW j \in Ids(q), j # k
         PROVE  JobFits(x, j)
    BY <1>1, <1>4, <2>5, <2>6, <2>11 DEF JobFits
  <2>12. GroupsTold(x) /\ RunnerRuns(x)
    BY <2>4, <2>5, <2>6 DEF Mid, GroupsTold, RunnerRuns
  <2> QED
    BY <2>8, <2>9, <2>10, <2>11, <2>12, MidOf
<1>7. ASSUME NEW x, Mid(x), RunnerRuns(x), SameSize(q, x), NextJob(q) = Notify(x)
      PROVE  /\ Mid(NextJob(q)) /\ Quiet(NextJob(q)) /\ RunnerRuns(NextJob(q))
             /\ SameSize(q, NextJob(q))
  <2>1. /\ Mid(Notify(x)) /\ Quiet(Notify(x)) /\ SameSize(x, Notify(x))
        /\ Notify(x).runner = x.runner
        /\ \A j \in Ids(x) : Notify(x).jobs[j].status = x.jobs[j].status
    BY <1>7, Notified
  <2>2. x.runner # 0 => x.runner \in Ids(x)
    <3>1. Shape(x)
      BY <1>7 DEF Mid
    <3> QED
      BY <3>1, Parts
  <2>3. RunnerRuns(Notify(x))
    BY <1>7, <2>1, <2>2 DEF RunnerRuns
  <2>4. SameSize(q, Notify(x))
    BY <1>7, <2>1 DEF SameSize
  <2> QED
    BY <1>7, <2>1, <2>3, <2>4
<1> QED
  BY <1>1, <1>5, <1>6, <1>7, TurnOfTheLoop

LEMMA Pumped ==
    ASSUME NEW q, Mid(q), RunnerRuns(q), Quiet(q)
    PROVE  Mid(Pump(q)) /\ RunnerRuns(Pump(q)) /\ Quiet(Pump(q)) /\ SameSize(q, Pump(q))
<1>1. CASE q.runner # 0
  BY <1>1 DEF Pump, SameSize
<1>2. CASE q.runner = 0
  <2>1. Free(q) /\ Pump(q) = NextJob(q)
    BY <1>2 DEF Free, Pump
  <2> QED
    BY <2>1, PumpTurns
<1> QED
  BY <1>1, <1>2

-----------------------------------------------------------------------------
(* enqueue and startGroup.                                                 *)

LEMMA Latest ==
    ASSUME NEW q, Shape(q), NEW u
    PROVE  /\ LatestJobFor(q, u) \in Ids(q) \cup {0}
           /\ (\E j \in Ids(q) : q.jobs[j].url = u) => LatestJobFor(q, u) \in Ids(q)
<1> DEFINE I == {i \in 1..Len(q.jobs) : q.jobs[i].url = u}
<1>1. LatestJobFor(q, u) = IF I # {} THEN Max(I) ELSE 0
  BY DEF LatestJobFor, SelectLastInSeq
<1>2. Ids(q) = 1..Len(q.jobs) /\ Len(q.jobs) \in Nat
  BY Parts
<1>3. I # {} => Max(I) \in I
  <2> SUFFICES ASSUME I # {}
               PROVE  Max(I) \in I
    OBVIOUS
  <2> DEFINE T == {Len(q.jobs) - i : i \in I}
  <2>1. T \subseteq Nat /\ T # {} /\ I \subseteq Nat
    <3>1. I \subseteq Nat /\ \A i \in I : Len(q.jobs) - i \in Nat
      BY <1>2
    <3> HIDE DEF I
    <3> QED
      BY <3>1
  <2>2. PICK m \in T : \A k \in T : m <= k
    BY <2>1, LeastNatural
  <2>3. PICK i \in I : m = Len(q.jobs) - i
    BY <2>2
  <2>4. \A k \in I : Len(q.jobs) - i <= Len(q.jobs) - k
    BY <2>2, <2>3
  <2>5. \A k \in I : i >= k
    BY <1>2, <2>1, <2>3, <2>4
  <2> QED
    BY <2>5 DEF Max
<1>4. (\E j \in Ids(q) : q.jobs[j].url = u) => I # {}
  BY <1>2
<1>5. I \subseteq Ids(q)
  BY <1>2
<1> HIDE DEF I
<1> QED
  BY <1>1, <1>3, <1>4, <1>5

Longer(q, u, g) == [q EXCEPT !.jobs = Append(@, NewJob(u, g))]

LEMMA Appended ==
    ASSUME NEW q, Mid(q), RunnerRuns(q), Len(q.jobs) < MaxJobs,
           NEW u \in Url, NEW g \in 0..Len(q.groups),
           NEW x, x = Longer(q, u, g)
    PROVE  /\ Mid(x) /\ RunnerRuns(x)
           /\ Len(x.jobs) = Len(q.jobs) + 1 /\ x.groups = q.groups
           /\ \E j \in Ids(x) : x.jobs[j].url = u
<1> DEFINE n == Len(q.jobs) + 1
<1> DEFINE job == NewJob(u, g)
<1>1. /\ Shape(q) /\ q.jobs \in Seq(JobRec) /\ Ids(q) = 1..Len(q.jobs)
      /\ q.groups \in Seq(GroupRec) /\ DOMAIN q.groups = 1..Len(q.groups)
      /\ q.runner \in 0..Len(q.jobs) /\ q.threw \in BOOLEAN /\ Len(q.jobs) \in Nat
      /\ Len(q.groups) \in Nat /\ Len(q.groups) <= MaxGroups /\ queue.runner \in 0..Len(q.jobs)
      /\ q = [jobs |-> q.jobs, groups |-> q.groups, runner |-> q.runner, threw |-> q.threw]
  BY Parts DEF Mid, Shape
<1>2. MaxJobs \in Nat /\ MaxAttempts \in Nat
  BY QueueAssumption
<1>3. /\ job \in JobRec /\ Told(job) /\ job.url = u /\ job.group = g
      /\ job.status = "queued" /\ job.error = "none" /\ job.cancelledWhile = "none"
  <2>1. g \in Nat /\ 0 \in 0..MaxAttempts /\ 0 \in 0..1
    BY <1>1, <1>2
  <2>2. job \in JobRec
    BY <2>1 DEF NewJob, JobRec, Statuses, Active, Errors
  <2> QED
    BY <2>2 DEF NewJob, Told, Active
<1> HIDE DEF job
<1>4. /\ x.jobs = Append(q.jobs, job) /\ x.groups = q.groups
      /\ x.runner = q.runner /\ x.threw = q.threw
      /\ x = [jobs |-> x.jobs, groups |-> x.groups, runner |-> x.runner, threw |-> x.threw]
  BY <1>1 DEF Longer, job
<1>5. x.jobs \in Seq(JobRec) /\ Len(x.jobs) = n /\ n \in Nat /\ n \in 1..n
      /\ x.jobs[n] = job /\ \A j \in 1..Len(q.jobs) : x.jobs[j] = q.jobs[j]
  BY <1>1, <1>3, <1>4
<1>6. Ids(x) = 1..n /\ n \notin Ids(q) /\ \A j \in Ids(x) : j \in Ids(q) \/ j = n
  BY <1>1, <1>5 DEF Ids
<1>7. n <= MaxJobs /\ n \in JobId /\ n # q.runner /\ n # queue.runner /\ queue.runner \in 0..n
      /\ q.runner <= n
  BY <1>1, <1>2 DEF JobId
<1> HIDE DEF n
<1>8. Shape(x)
  <2>1. x \in QueueRec
    <3>1. x.runner \in Nat
      BY <1>1, <1>4
    <3> QED
      BY <1>1, <1>4, <1>5, <3>1 DEF QueueRec
  <2>2. \A j \in Ids(x) : x.jobs[j].group <= Len(x.groups)
    BY <1>1, <1>3, <1>4, <1>5, <1>6 DEF Shape
  <2>3. \A k \in DOMAIN x.groups : Members(x.groups[k]) \subseteq Ids(x)
    <3>1. Ids(q) \subseteq Ids(x)
      BY <1>1, <1>5, <1>6 DEF Ids
    <3> QED
      BY <1>1, <1>4, <3>1 DEF Shape
  <2> QED
    BY <1>1, <1>4, <1>5, <1>7, <2>1, <2>2, <2>3 DEF Shape
<1>9. JobFits(x, n)
  <2>1. wire[n] # "POST" /\ server[n] = "unknown"
    BY <1>6, <1>7 DEF Mid, Unsent
  <2>2. WireAfter(x.runner, n) # "POST"
    BY <1>4, <1>7, <2>1 DEF WireAfter
  <2> QED
    BY <1>3, <1>4, <1>5, <1>7, <2>1, <2>2 DEF JobFits, Agrees
<1>10. \A j \in Ids(q) : JobFits(x, j)
  BY <1>1, <1>4, <1>5 DEF Mid, JobsFit, JobFits
<1>11. JobsFit(x) /\ GroupsTold(x)
  BY <1>4, <1>6, <1>9, <1>10 DEF JobsFit, Mid, GroupsTold
<1>12. Unsent(x)
  <2>1. Ids(q) \subseteq Ids(x)
    BY <1>1, <1>5, <1>6 DEF Ids
  <2> QED
    BY <2>1 DEF Mid, Unsent
<1>13. RunnerRuns(x)
  BY <1>1, <1>4, <1>5 DEF RunnerRuns
<1>14. n \in Ids(x) /\ x.jobs[n].url = u
  BY <1>3, <1>5, <1>6
<1> QED
  BY <1>4, <1>5, <1>8, <1>11, <1>12, <1>13, <1>14 DEF Mid, n

LEMMA Enqueued ==
    ASSUME NEW q, Mid(q), RunnerRuns(q), Len(q.jobs) < MaxJobs,
           NEW u \in Url, NEW g \in 0..Len(q.groups)
    PROVE  /\ Mid(Enqueue(q, u, g)) /\ RunnerRuns(Enqueue(q, u, g))
           /\ Quiet(q) => Quiet(Enqueue(q, u, g))
           /\ Len(Enqueue(q, u, g).jobs) \in {Len(q.jobs), Len(q.jobs) + 1}
           /\ Len(Enqueue(q, u, g).groups) = Len(q.groups)
           /\ LatestJobFor(Enqueue(q, u, g), u) \in Ids(Enqueue(q, u, g))
<1>1. CASE Duplicate(q, u)
  <2>1. Enqueue(q, u, g) = q
    BY <1>1 DEF Enqueue
  <2>2. LatestJobFor(q, u) \in Ids(q)
    BY <1>1, Latest DEF Duplicate, Mid
  <2> QED
    BY <2>1, <2>2
<1>2. CASE ~Duplicate(q, u)
  <2> DEFINE x == Longer(q, u, g)
  <2> DEFINE r == Pump(Notify(x))
  <2>1. Enqueue(q, u, g) = r
    BY <1>2 DEF Enqueue, Longer
  <2>2. /\ Mid(x) /\ RunnerRuns(x)
        /\ Len(x.jobs) = Len(q.jobs) + 1 /\ x.groups = q.groups
        /\ \E j \in Ids(x) : x.jobs[j].url = u
    BY Appended
  <2> HIDE DEF x
  <2>3. /\ Mid(Notify(x)) /\ Quiet(Notify(x)) /\ SameSize(x, Notify(x))
        /\ RunnerRuns(Notify(x))
    <3>1. x.runner # 0 => x.runner \in Ids(x)
      <4>1. Shape(x)
        BY <2>2 DEF Mid
      <4> QED
        BY <4>1, Parts
    <3> QED
      BY <2>2, <3>1, Notified DEF RunnerRuns
  <2>4. Mid(r) /\ Quiet(r) /\ RunnerRuns(r) /\ SameSize(Notify(x), r)
    BY <2>3, Pumped
  <2> HIDE DEF r
  <2>5. SameSize(x, r)
    BY <2>3, <2>4 DEF SameSize
  <2>6. \E j \in Ids(r) : r.jobs[j].url = u
    BY <2>2, <2>5 DEF SameSize
  <2>7. LatestJobFor(r, u) \in Ids(r)
    BY <2>4, <2>6, Latest DEF Mid
  <2> QED
    BY <2>1, <2>2, <2>4, <2>5, <2>7 DEF SameSize
<1> QED
  BY <1>1, <1>2

LEMMA AppendFacts ==
    ASSUME NEW S, NEW s \in Seq(S), NEW e \in S
    PROVE  /\ Append(s, e) \in Seq(S) /\ Len(Append(s, e)) = Len(s) + 1
           /\ DOMAIN Append(s, e) = 1..(Len(s) + 1)
           /\ \A i \in 1..(Len(s) + 1) :
                 Append(s, e)[i] = e \/ (i \in DOMAIN s /\ Append(s, e)[i] = s[i])
<1>1. Len(s) \in Nat /\ DOMAIN s = 1..Len(s) /\ Append(s, e) \in Seq(S)
      /\ Len(Append(s, e)) = Len(s) + 1
  OBVIOUS
<1>2. \A i \in 1..(Len(s) + 1) : i = Len(s) + 1 \/ i \in 1..Len(s)
  BY <1>1
<1>3. Append(s, e)[Len(s) + 1] = e /\ \A i \in 1..Len(s) : Append(s, e)[i] = s[i]
  OBVIOUS
<1>4. DOMAIN Append(s, e) = 1..(Len(s) + 1)
  OBVIOUS
<1> QED
  BY <1>1, <1>2, <1>3, <1>4

LEMMA GroupsChanged ==
    ASSUME NEW q, Mid(q), NEW gs \in Seq(GroupRec),
           Len(q.groups) <= Len(gs), Len(gs) <= MaxGroups,
           \A g \in 1..Len(gs) : /\ Members(gs[g]) \subseteq Ids(q)
                                 /\ ~gs[g].notified => gs[g].toasts = 0,
           NEW x, x = [q EXCEPT !.groups = gs]
    PROVE  /\ Mid(x) /\ x.jobs = q.jobs /\ x.groups = gs /\ x.runner = q.runner
           /\ RunnerRuns(q) => RunnerRuns(x)
           /\ Quiet(q) => Quiet(x)
<1>1. Shape(q) /\ q \in QueueRec /\ Len(q.groups) \in Nat /\ MaxGroups \in Nat
  BY Parts, QueueAssumption DEF Mid, Shape
<1>2. /\ x.jobs = q.jobs /\ x.groups = gs /\ x.runner = q.runner /\ x.threw = q.threw
      /\ x \in QueueRec
  BY <1>1 DEF QueueRec
<1>3. Ids(x) = Ids(q) /\ DOMAIN gs = 1..Len(gs) /\ Len(gs) \in Nat
  BY <1>2 DEF Ids
<1>4. Shape(x)
  <2>1. \A j \in Ids(q) : q.jobs[j].group \in Nat /\ q.jobs[j].group <= Len(q.groups)
    <3>1. q.jobs \in [Ids(q) -> JobRec]
      BY <1>1, Parts
    <3> QED
      BY <1>1, <3>1 DEF Shape, JobRec
  <2>2. \A j \in Ids(x) : x.jobs[j].group <= Len(x.groups)
    BY <1>1, <1>2, <1>3, <2>1
  <2> QED
    BY <1>1, <1>2, <1>3, <2>2 DEF Shape
<1>5. GroupsTold(x) /\ JobsFit(x) /\ Unsent(x)
  BY <1>2, <1>3 DEF Mid, GroupsTold, JobsFit, JobFits, Unsent
<1>6. (RunnerRuns(q) => RunnerRuns(x)) /\ (Quiet(q) => Quiet(x))
  BY <1>2, <1>3 DEF RunnerRuns, Quiet
<1> QED
  BY <1>2, <1>4, <1>5, <1>6 DEF Mid

LEMMA GroupAdded ==
    ASSUME NEW q, Mid(q), RunnerRuns(q), Quiet(q), Len(q.groups) < MaxGroups
    PROVE  LET x == [q EXCEPT !.groups = Append(@, NewGroup)]
           IN  /\ Mid(x) /\ RunnerRuns(x) /\ Quiet(x)
               /\ Len(x.jobs) = Len(q.jobs) /\ Len(x.groups) = Len(q.groups) + 1
<1> DEFINE gs == Append(q.groups, NewGroup)
<1>1. /\ q.groups \in Seq(GroupRec) /\ Len(q.groups) \in Nat /\ MaxGroups \in Nat
      /\ DOMAIN q.groups = 1..Len(q.groups)
  BY Parts, QueueAssumption DEF Mid
<1>2. NewGroup \in GroupRec /\ ~NewGroup.notified /\ NewGroup.toasts = 0
      /\ Members(NewGroup) = {}
  BY DEF NewGroup, GroupRec, Members
<1>3. /\ gs \in Seq(GroupRec) /\ Len(gs) = Len(q.groups) + 1
      /\ \A g \in 1..Len(gs) : gs[g] = NewGroup \/ (g \in DOMAIN q.groups /\ gs[g] = q.groups[g])
  BY <1>1, <1>2, AppendFacts
<1>4. Len(q.groups) <= Len(gs) /\ Len(gs) <= MaxGroups
  BY <1>1, <1>3
<1>5. \A g \in 1..Len(gs) : /\ Members(gs[g]) \subseteq Ids(q)
                            /\ ~gs[g].notified => gs[g].toasts = 0
  BY <1>2, <1>3 DEF Mid, Shape, GroupsTold
<1>6. \A x : x = [q EXCEPT !.groups = gs] =>
         /\ Mid(x) /\ x.jobs = q.jobs /\ x.groups = gs /\ RunnerRuns(x) /\ Quiet(x)
  <2> HIDE DEF gs
  <2> QED
    BY <1>3, <1>4, <1>5, GroupsChanged
<1> QED
  BY <1>3, <1>6

LEMMA MemberAdded ==
    ASSUME NEW q, Mid(q), RunnerRuns(q), Quiet(q), Len(q.jobs) < MaxJobs,
           Len(q.groups) # 0, NEW u \in Url
    PROVE  /\ Mid(AddMember(q, u)) /\ RunnerRuns(AddMember(q, u)) /\ Quiet(AddMember(q, u))
           /\ Len(AddMember(q, u).jobs) \in {Len(q.jobs), Len(q.jobs) + 1}
           /\ Len(AddMember(q, u).groups) = Len(q.groups)
<1> DEFINE g == Len(q.groups)
<1> DEFINE r == Enqueue(q, u, g)
<1> DEFINE k == LatestJobFor(r, u)
<1> DEFINE new == [r.groups[g] EXCEPT !.jobIds = Append(@, k)]
<1> DEFINE gs == [r.groups EXCEPT ![g] = new]
<1>1. g \in Nat /\ g \in 1..g /\ g \in 0..Len(q.groups)
  BY Parts DEF Mid
<1>2. /\ Mid(r) /\ RunnerRuns(r) /\ Quiet(r)
      /\ Len(r.jobs) \in {Len(q.jobs), Len(q.jobs) + 1}
      /\ Len(r.groups) = g /\ k \in Ids(r)
  BY <1>1, Enqueued
<1>3. AddMember(q, u) = [r EXCEPT !.groups = gs]
  BY DEF AddMember
<1> HIDE DEF r, k
<1>4. /\ r.groups \in Seq(GroupRec) /\ Ids(r) \subseteq JobId
      /\ DOMAIN r.groups = 1..Len(r.groups) /\ Len(r.groups) <= MaxGroups
  BY <1>2, Parts DEF Mid, Shape
<1> HIDE DEF g
<1>5. /\ new \in GroupRec /\ new.notified = r.groups[g].notified
      /\ new.toasts = r.groups[g].toasts /\ Members(new) \subseteq Members(r.groups[g]) \cup {k}
  <2>1. r.groups[g] \in GroupRec
    BY <1>1, <1>2, <1>4
  <2> DEFINE ids == Append(r.groups[g].jobIds, k)
  <2>2. r.groups[g].jobIds \in Seq(JobId) /\ k \in JobId
    BY <1>2, <1>4, <2>1 DEF GroupRec
  <2>3. /\ ids \in Seq(JobId)
        /\ \A i \in DOMAIN ids : ids[i] = k
              \/ (i \in DOMAIN r.groups[g].jobIds /\ ids[i] = r.groups[g].jobIds[i])
    BY <2>2, AppendFacts
  <2> HIDE DEF ids
  <2>4. new = [r.groups[g] EXCEPT !.jobIds = ids]
    BY DEF ids
  <2> HIDE DEF new
  <2>5. /\ new \in GroupRec /\ new.notified = r.groups[g].notified
        /\ new.toasts = r.groups[g].toasts /\ new.jobIds = ids
    BY <2>1, <2>3, <2>4 DEF GroupRec
  <2> QED
    BY <2>3, <2>5 DEF Members
<1> HIDE DEF new
<1>6. /\ gs \in Seq(GroupRec) /\ Len(gs) = g
      /\ gs[g] = new /\ \A i \in 1..g : i # g => gs[i] = r.groups[i]
  BY <1>1, <1>2, <1>4, <1>5
<1> HIDE DEF gs
<1>7. Len(r.groups) <= Len(gs) /\ Len(gs) <= MaxGroups
  BY <1>1, <1>2, <1>4, <1>6
<1>8. \A i \in 1..Len(gs) : /\ Members(gs[i]) \subseteq Ids(r)
                            /\ ~gs[i].notified => gs[i].toasts = 0
  <2>1. \A i \in 1..g : /\ Members(r.groups[i]) \subseteq Ids(r)
                        /\ ~r.groups[i].notified => r.groups[i].toasts = 0
    BY <1>2, <1>4 DEF Mid, Shape, GroupsTold
  <2> QED
    BY <1>1, <1>2, <1>5, <1>6, <2>1
<1> DEFINE x == [r EXCEPT !.groups = gs]
<1>9. Mid(x) /\ RunnerRuns(x) /\ Quiet(x) /\ x.jobs = r.jobs /\ x.groups = gs
  <2>1. x = [r EXCEPT !.groups = gs]
    OBVIOUS
  <2> HIDE DEF x
  <2> QED
    BY <1>2, <1>6, <1>7, <1>8, <2>1, GroupsChanged
<1> QED
  BY <1>2, <1>3, <1>6, <1>9 DEF g

\* The queue after n jobs of the plan.
Added(q, plan, added, m) ==
    added = [n \in 0..m |-> IF n = 0 THEN [q EXCEPT !.groups = Append(@, NewGroup)]
                            ELSE AddMember(added[n - 1], plan[n])]

LEMMA AddingExists ==
    ASSUME NEW q, NEW plan, NEW m \in Nat
    PROVE  \E added : Added(q, plan, added, m)
<1> DEFINE T == {n \in Nat : ~\E added : Added(q, plan, added, n)}
<1> SUFFICES ASSUME T # {}
             PROVE  FALSE
  OBVIOUS
<1>1. PICK n \in T : \A k \in T : n <= k
  <2>1. T \subseteq Nat
    OBVIOUS
  <2> HIDE DEF T
  <2> QED
    BY <2>1, LeastNatural
<1>2. CASE n = 0
  <2> DEFINE f == [i \in 0..0 |-> [q EXCEPT !.groups = Append(@, NewGroup)]]
  <2>1. Added(q, plan, f, 0)
    BY DEF Added
  <2> QED
    BY <1>1, <1>2, <2>1
<1>3. CASE n # 0
  <2>1. n - 1 \in Nat /\ n - 1 \notin T /\ n \in Nat
    BY <1>1, <1>3
  <2>2. PICK f : Added(q, plan, f, n - 1)
    BY <2>1
  <2> DEFINE h == [i \in 0..n |-> IF i = n THEN AddMember(f[n - 1], plan[n]) ELSE f[i]]
  <2> DEFINE start == [q EXCEPT !.groups = Append(@, NewGroup)]
  <2>3. \A i \in 0..(n - 1) : f[i] = IF i = 0 THEN start ELSE AddMember(f[i - 1], plan[i])
    BY <2>2 DEF Added
  <2> HIDE DEF start
  <2>4. \A i \in 0..n : h[i] = IF i = 0 THEN start ELSE AddMember(h[i - 1], plan[i])
    <3> TAKE i \in 0..n
    <3>1. CASE i = n
      <4>1. n - 1 \in 0..n /\ n - 1 # n /\ h[n - 1] = f[n - 1]
        BY <2>1
      <4> QED
        BY <1>3, <3>1, <4>1
    <3>2. CASE i # n /\ i # 0
      <4>1. i \in 0..(n - 1) /\ i - 1 \in 0..n /\ i - 1 # n /\ h[i - 1] = f[i - 1]
        BY <2>1, <3>2
      <4> QED
        BY <2>3, <3>2, <4>1
    <3>3. CASE i # n /\ i = 0
      <4>1. i \in 0..(n - 1)
        BY <2>1, <3>3
      <4> QED
        BY <2>3, <3>3, <4>1
    <3> QED
      BY <3>1, <3>2, <3>3
  <2>5. h = [i \in 0..n |-> h[i]]
    OBVIOUS
  <2> HIDE DEF h
  <2>6. h = [i \in 0..n |-> IF i = 0 THEN start ELSE AddMember(h[i - 1], plan[i])]
    BY <2>4, <2>5
  <2>7. Added(q, plan, h, n)
    BY <2>6 DEF Added, start
  <2> QED
    BY <1>1, <2>7
<1> QED
  BY <1>2, <1>3

LEMMA AddedSound ==
    ASSUME NEW q, Mid(q), RunnerRuns(q), Quiet(q), Len(q.groups) < MaxGroups,
           NEW plan \in Seq(Url), Len(q.jobs) + Len(plan) <= MaxJobs,
           NEW added, Added(q, plan, added, Len(plan))
    PROVE  \A n \in 0..Len(plan) :
              /\ Mid(added[n]) /\ RunnerRuns(added[n]) /\ Quiet(added[n])
              /\ Len(added[n].jobs) <= Len(q.jobs) + n
              /\ Len(added[n].groups) = Len(q.groups) + 1
<1> DEFINE P(n) == /\ Mid(added[n]) /\ RunnerRuns(added[n]) /\ Quiet(added[n])
                   /\ Len(added[n].jobs) <= Len(q.jobs) + n
                   /\ Len(added[n].groups) = Len(q.groups) + 1
<1> DEFINE T == {n \in 0..Len(plan) : ~P(n)}
<1> SUFFICES ASSUME T # {}
             PROVE  FALSE
  OBVIOUS
<1>1. /\ Len(q.jobs) \in Nat /\ Len(q.groups) \in Nat /\ MaxJobs \in Nat /\ Len(plan) \in Nat
      /\ \A i \in 1..Len(plan) : plan[i] \in Url
  BY Parts, QueueAssumption DEF Mid
<1>2. PICK n \in T : \A k \in T : n <= k
  <2>1. T \subseteq Nat
    BY <1>1
  <2> HIDE DEF T
  <2> QED
    BY <2>1, LeastNatural
<1>3. n \in 0..Len(plan) /\ ~P(n) /\ n \in Nat
  BY <1>1, <1>2
<1>4. CASE n = 0
  <2> DEFINE x == [q EXCEPT !.groups = Append(@, NewGroup)]
  <2>1. added[n] = x
    BY <1>3, <1>4 DEF Added
  <2>2. /\ Mid(x) /\ RunnerRuns(x) /\ Quiet(x)
        /\ Len(x.jobs) = Len(q.jobs) /\ Len(x.groups) = Len(q.groups) + 1
    BY GroupAdded
  <2> HIDE DEF x
  <2> QED
    BY <1>1, <1>3, <1>4, <2>1, <2>2
<1>5. CASE n # 0
  <2>1. n - 1 \in 0..Len(plan) /\ n \in 1..Len(plan) /\ n - 1 \in Nat /\ ~(n <= n - 1)
    BY <1>1, <1>3, <1>5
  <2>2. P(n - 1)
    <3>1. n - 1 \notin T
      BY <1>2, <2>1
    <3> QED
      BY <2>1, <3>1
  <2> DEFINE r == added[n - 1]
  <2>3. added[n] = AddMember(r, plan[n])
    BY <1>3, <1>5 DEF Added
  <2>4. /\ Mid(r) /\ RunnerRuns(r) /\ Quiet(r) /\ Len(r.jobs) <= Len(q.jobs) + (n - 1)
        /\ Len(r.groups) = Len(q.groups) + 1
    BY <2>2
  <2> HIDE DEF r, P, T
  <2>5. Len(r.jobs) \in Nat
    BY <2>4, Parts DEF Mid
  <2>6. Len(r.jobs) < MaxJobs /\ Len(r.groups) # 0
    BY <1>1, <1>3, <2>1, <2>4, <2>5
  <2> DEFINE x == AddMember(r, plan[n])
  <2>7. /\ Mid(x) /\ RunnerRuns(x) /\ Quiet(x)
        /\ Len(x.jobs) \in {Len(r.jobs), Len(r.jobs) + 1}
        /\ Len(x.groups) = Len(r.groups)
    BY <1>1, <2>1, <2>4, <2>6, MemberAdded
  <2> HIDE DEF x
  <2>8. Len(x.jobs) <= Len(q.jobs) + n
    BY <1>1, <1>3, <2>4, <2>5, <2>7
  <2>9. P(n)
    BY <2>3, <2>4, <2>7, <2>8 DEF x, P
  <2> QED
    BY <1>3, <2>9
<1> QED
  BY <1>4, <1>5

LEMMA GroupStarted ==
    ASSUME NEW q, Mid(q), RunnerRuns(q), Quiet(q), Len(q.groups) < MaxGroups,
           NEW plan \in Seq(Url), Len(q.jobs) + Len(plan) <= MaxJobs
    PROVE  Mid(StartGroup(q, plan)) /\ RunnerRuns(StartGroup(q, plan))
           /\ Quiet(StartGroup(q, plan))
<1> DEFINE added == CHOOSE added : Added(q, plan, added, Len(plan))
<1>1. Len(plan) \in Nat /\ Len(plan) \in 0..Len(plan)
  OBVIOUS
<1>2. Added(q, plan, added, Len(plan))
  BY <1>1, AddingExists
<1>3. StartGroup(q, plan) = Notify(added[Len(plan)])
  BY DEF StartGroup, Added
<1> DEFINE x == added[Len(plan)]
<1> HIDE DEF added
<1>4. Mid(x) /\ RunnerRuns(x)
  BY <1>1, <1>2, AddedSound
<1> HIDE DEF x
<1>5. x.runner # 0 => x.runner \in Ids(x)
  BY <1>4, Parts DEF Mid
<1>6. Mid(Notify(x)) /\ Quiet(Notify(x)) /\ RunnerRuns(Notify(x))
  BY <1>4, <1>5, Notified DEF RunnerRuns
<1> QED
  BY <1>3, <1>6 DEF x

-----------------------------------------------------------------------------
(* Jobs that end: cancelled, halted, or by themselves.                     *)

LEMMA JobsChanged ==
    ASSUME NEW q, Mid(q), NEW f \in [Ids(q) -> JobRec],
           \A j \in Ids(q) :
              /\ f[j].group = q.jobs[j].group /\ f[j].url = q.jobs[j].url
              /\ f[j].status = "queued" => q.jobs[j].status = "queued"
              /\ Told(f[j])
              /\ Agrees(f[j], q.runner = j, WireAfter(q.runner, j), server[j]),
           NEW x, x = [q EXCEPT !.jobs = f]
    PROVE  /\ Mid(x) /\ SameSize(q, x)
           /\ x.jobs = f /\ x.groups = q.groups /\ x.runner = q.runner
<1>1. q.groups \in [DOMAIN q.groups -> GroupRec]
      /\ q.runner \in 0..Len(q.jobs) /\ q.threw \in BOOLEAN
      /\ q = [jobs |-> q.jobs, groups |-> q.groups, runner |-> q.runner, threw |-> q.threw]
  BY Parts DEF Mid
<1>2. /\ x.jobs = f /\ x.groups = q.groups /\ x.runner = q.runner /\ x.threw = q.threw
      /\ x = [jobs |-> x.jobs, groups |-> x.groups, runner |-> x.runner, threw |-> x.threw]
  BY <1>1
<1>3. x \in SameJobs(q) /\ Alike(q, x)
  BY <1>1, <1>2 DEF SameJobs, Alike
<1>4. \A j \in Ids(q) : JobFits(x, j)
  BY <1>2 DEF Mid, JobsFit, JobFits
<1>5. GroupsTold(x)
  BY <1>2 DEF Mid, GroupsTold
<1> QED
  BY <1>2, <1>3, <1>4, <1>5, MidOf

CancelledJob(job) ==
    [job EXCEPT !.status = "cancelled", !.cancelledWhile = job.status, !.notified = TRUE]

LEMMA Cancelled ==
    ASSUME NEW q, Mid(q), RunnerRuns(q),
           NEW ids \in SUBSET {j \in Ids(q) : IsActive(q, j)}
    PROVE  /\ Mid(Settle(CancelJobs(q, ids))) /\ Quiet(Settle(CancelJobs(q, ids)))
           /\ RunnerRuns(Settle(CancelJobs(q, ids)))
<1> DEFINE f == [j \in Ids(q) |-> IF j \in ids THEN CancelledJob(q.jobs[j]) ELSE q.jobs[j]]
<1> DEFINE x == [q EXCEPT !.jobs = f]
<1>1. CancelJobs(q, ids) = Notify(x)
  BY DEF CancelJobs, CancelledJob
<1>2. q.jobs \in [Ids(q) -> JobRec] /\ (q.runner # 0 => q.runner \in Ids(q))
  BY Parts DEF Mid
<1>3. ASSUME NEW j \in Ids(q)
      PROVE  /\ f[j] \in JobRec
             /\ f[j].group = q.jobs[j].group /\ f[j].url = q.jobs[j].url
             /\ f[j].status = "queued" => q.jobs[j].status = "queued"
             /\ Told(f[j])
             /\ Agrees(f[j], q.runner = j, WireAfter(q.runner, j), server[j])
             /\ f[j].status \in {"cancelled", q.jobs[j].status}
  <2>1. q.jobs[j] \in JobRec /\ Told(q.jobs[j])
        /\ Agrees(q.jobs[j], q.runner = j, WireAfter(q.runner, j), server[j])
    BY <1>2 DEF Mid, JobsFit, JobFits
  <2>2. CASE j \notin ids
    BY <2>1, <2>2
  <2>3. CASE j \in ids
    <3> DEFINE job == CancelledJob(q.jobs[j])
    <3>1. f[j] = job
      BY <2>3
    <3>2. q.jobs[j].status \in Active
      BY <2>3 DEF IsActive
    <3>3. q.jobs[j].error = "none"
      BY <2>1, <3>2 DEF Told, JobRec, Active
    <3>4. /\ job \in JobRec /\ job.status = "cancelled" /\ job.notified = TRUE
          /\ job.cancelledWhile = q.jobs[j].status /\ job.error = "none"
          /\ job.group = q.jobs[j].group /\ job.url = q.jobs[j].url
      BY <2>1, <3>2, <3>3 DEF CancelledJob, JobRec, Statuses
    <3> HIDE DEF f, job
    <3>5. Told(job)
      BY <3>2, <3>4 DEF Told, Active
    <3>6. Agrees(job, q.runner = j, WireAfter(q.runner, j), server[j])
      BY <2>1, <3>4 DEF Agrees
    <3> QED
      BY <3>1, <3>4, <3>5, <3>6
  <2> QED
    BY <2>2, <2>3
<1>4. f \in [Ids(q) -> JobRec]
  BY <1>3
<1>5. x = [q EXCEPT !.jobs = f]
  OBVIOUS
<1> HIDE DEF f, x
<1>6. Mid(x) /\ SameSize(q, x) /\ x.jobs = f /\ x.runner = q.runner
  BY <1>3, <1>4, <1>5, JobsChanged
<1> DEFINE y == Notify(x)
<1>7. /\ Mid(y) /\ Quiet(y) /\ y.runner = x.runner
      /\ \A j \in Ids(x) : y.jobs[j].status = x.jobs[j].status
  BY <1>6, Notified
<1> HIDE DEF y
<1>8. q.runner # 0 => y.jobs[q.runner].status \in {"cancelled", q.jobs[q.runner].status}
  BY <1>2, <1>3, <1>6, <1>7 DEF SameSize
<1>9. CASE y.runner # 0 /\ y.jobs[y.runner].status = "cancelled"
  <2>1. Settle(y) = NextJob(y)
    BY <1>9 DEF Settle
  <2>2. Free(y)
    BY <1>9 DEF Free, Active
  <2> QED
    BY <1>1, <1>7, <2>1, <2>2, PumpTurns DEF y
<1>10. CASE ~(y.runner # 0 /\ y.jobs[y.runner].status = "cancelled")
  <2>1. Settle(y) = y
    BY <1>10 DEF Settle
  <2>2. RunnerRuns(y)
    BY <1>6, <1>7, <1>8, <1>10 DEF RunnerRuns
  <2> QED
    BY <1>1, <1>7, <2>1, <2>2 DEF y
<1> QED
  BY <1>9, <1>10

LEMMA Hushed ==
    ASSUME NEW q, Mid(q)
    PROVE  LET h == HushGroups(q)
           IN  /\ Mid(h) /\ h.jobs = q.jobs /\ h.runner = q.runner
               /\ h = [q EXCEPT !.groups = h.groups]
               /\ RunnerRuns(q) => RunnerRuns(h)
<1> DEFINE gs == [i \in DOMAIN q.groups |->
                    IF GroupActive(q, q.groups[i]) THEN [q.groups[i] EXCEPT !.notified = TRUE]
                    ELSE q.groups[i]]
<1>1. /\ q.groups \in Seq(GroupRec) /\ DOMAIN q.groups = 1..Len(q.groups)
      /\ Len(q.groups) \in Nat /\ Len(q.groups) <= MaxGroups
  BY Parts DEF Mid, Shape
<1>2. ASSUME NEW i \in 1..Len(q.groups)
      PROVE  /\ gs[i] \in GroupRec /\ gs[i].jobIds = q.groups[i].jobIds
             /\ ~gs[i].notified => ~q.groups[i].notified /\ gs[i].toasts = q.groups[i].toasts
  <2>1. q.groups[i] \in GroupRec
    BY <1>1, <1>2
  <2> QED
    BY <1>1, <2>1 DEF GroupRec
<1>3. gs \in Seq(GroupRec) /\ Len(gs) = Len(q.groups)
  <2>1. DOMAIN gs = 1..Len(q.groups) /\ gs = [i \in 1..Len(q.groups) |-> gs[i]]
    BY <1>1
  <2> HIDE DEF gs
  <2>2. gs \in [1..Len(q.groups) -> GroupRec]
    BY <1>2, <2>1
  <2> QED
    BY <1>1, <2>2
<1>4. HushGroups(q) = [q EXCEPT !.groups = gs]
  BY DEF HushGroups
<1> HIDE DEF gs
<1>5. \A g \in 1..Len(gs) : /\ Members(gs[g]) \subseteq Ids(q)
                            /\ ~gs[g].notified => gs[g].toasts = 0
  BY <1>1, <1>2, <1>3 DEF Mid, Shape, GroupsTold, Members
<1>6. Len(q.groups) <= Len(gs) /\ Len(gs) <= MaxGroups
  BY <1>1, <1>3
<1> DEFINE h == HushGroups(q)
<1>7. /\ Mid(h) /\ h.jobs = q.jobs /\ h.groups = gs /\ h.runner = q.runner
      /\ RunnerRuns(q) => RunnerRuns(h)
  BY <1>3, <1>4, <1>5, <1>6, GroupsChanged
<1> HIDE DEF h
<1> QED
  BY <1>4, <1>7 DEF h

LEMMA AllCancelledBy ==
    ASSUME NEW q, Mid(q), RunnerRuns(q)
    PROVE  LET x == Settle(CancelAll(q)) IN Mid(x) /\ Quiet(x) /\ RunnerRuns(x)
<1> DEFINE h == HushGroups(q)
<1>1. Mid(h) /\ RunnerRuns(h) /\ h.jobs = q.jobs
  BY Hushed
<1>2. CancelAll(q) = CancelJobs(h, {j \in Ids(q) : IsActive(q, j)})
  BY DEF CancelAll
<1> HIDE DEF h
<1>3. {j \in Ids(q) : IsActive(q, j)} = {j \in Ids(h) : IsActive(h, j)}
  BY <1>1 DEF Ids, IsActive
<1> QED
  BY <1>1, <1>2, <1>3, Cancelled

LEMMA GroupCancelled ==
    ASSUME NEW q, Mid(q), RunnerRuns(q), NEW g \in DOMAIN q.groups
    PROVE  LET x == Settle(CancelGroup(q, g)) IN Mid(x) /\ Quiet(x) /\ RunnerRuns(x)
<1> DEFINE new == [q.groups[g] EXCEPT !.notified = TRUE]
<1> DEFINE gs == [q.groups EXCEPT ![g] = new]
<1> DEFINE h == [q EXCEPT !.groups = gs]
<1> DEFINE ids == {j \in Members(q.groups[g]) : IsActive(q, j)}
<1>1. /\ q.groups \in Seq(GroupRec) /\ DOMAIN q.groups = 1..Len(q.groups)
      /\ Len(q.groups) \in Nat /\ Len(q.groups) <= MaxGroups
  BY Parts DEF Mid, Shape
<1>2. new \in GroupRec /\ new.notified /\ new.jobIds = q.groups[g].jobIds
  <2>1. q.groups[g] \in GroupRec
    BY <1>1
  <2> QED
    BY <2>1 DEF GroupRec
<1>3. CancelGroup(q, g) = CancelJobs(h, ids)
  BY DEF CancelGroup
<1> HIDE DEF new
<1>4. /\ gs \in Seq(GroupRec) /\ Len(gs) = Len(q.groups)
      /\ gs[g] = new /\ \A i \in 1..Len(q.groups) : i # g => gs[i] = q.groups[i]
  BY <1>1, <1>2
<1> HIDE DEF gs
<1>5. \A i \in 1..Len(gs) : /\ Members(gs[i]) \subseteq Ids(q)
                            /\ ~gs[i].notified => gs[i].toasts = 0
  BY <1>1, <1>2, <1>4 DEF Mid, Shape, GroupsTold, Members
<1>6. Len(q.groups) <= Len(gs) /\ Len(gs) <= MaxGroups
  BY <1>1, <1>4
<1>7. h = [q EXCEPT !.groups = gs]
  OBVIOUS
<1> HIDE DEF h
<1>8. Mid(h) /\ RunnerRuns(h) /\ h.jobs = q.jobs
  BY <1>4, <1>5, <1>6, <1>7, GroupsChanged
<1>9. ids \in SUBSET {j \in Ids(h) : IsActive(h, j)}
  BY <1>8 DEF Ids, IsActive, Mid, Shape
<1> HIDE DEF ids
<1> QED
  BY <1>3, <1>8, <1>9, Cancelled

SkippedJob(job) == [job EXCEPT !.status = "error", !.error = "skipped", !.notified = TRUE]

LEMMA Halted ==
    ASSUME NEW q, Mid(q), q.runner \in Ids(q), q.jobs[q.runner].status = "error"
    PROVE  Mid(HaltQueue(q)) /\ Free(HaltQueue(q))
<1> DEFINE h == HushGroups(q)
<1>1. Mid(h) /\ h.jobs = q.jobs /\ h.runner = q.runner
  BY Hushed
<1> HIDE DEF h
<1> DEFINE f == [j \in Ids(h) |->
                   IF h.jobs[j].status = "queued" THEN SkippedJob(h.jobs[j]) ELSE h.jobs[j]]
<1> DEFINE x == [h EXCEPT !.jobs = f]
<1>2. HaltQueue(q) = Notify(x)
  BY <1>1 DEF HaltQueue, SkippedJob, Ids, h
<1>3. h.jobs \in [Ids(h) -> JobRec] /\ Ids(h) = Ids(q)
  BY <1>1, Parts DEF Mid, Ids
<1>4. ASSUME NEW j \in Ids(h)
      PROVE  /\ f[j] \in JobRec
             /\ f[j].group = h.jobs[j].group /\ f[j].url = h.jobs[j].url
             /\ f[j].status = "queued" => h.jobs[j].status = "queued"
             /\ Told(f[j])
             /\ Agrees(f[j], h.runner = j, WireAfter(h.runner, j), server[j])
  <2>1. h.jobs[j] \in JobRec /\ Told(h.jobs[j])
        /\ Agrees(h.jobs[j], h.runner = j, WireAfter(h.runner, j), server[j])
    BY <1>1, <1>3 DEF Mid, JobsFit, JobFits
  <2>2. CASE h.jobs[j].status # "queued"
    BY <2>1, <2>2
  <2>3. CASE h.jobs[j].status = "queued"
    <3> DEFINE job == SkippedJob(h.jobs[j])
    <3>1. f[j] = job
      BY <2>3
    <3>2. h.jobs[j].cancelledWhile = "none"
      BY <2>1, <2>3 DEF Told
    <3>3. /\ job \in JobRec /\ job.status = "error" /\ job.notified = TRUE
          /\ job.cancelledWhile = "none" /\ job.error = "skipped"
          /\ job.group = h.jobs[j].group /\ job.url = h.jobs[j].url
      BY <2>1, <3>2 DEF SkippedJob, JobRec, Statuses, Errors
    <3> HIDE DEF f, job
    <3>4. Told(job)
      BY <3>3 DEF Told, Active
    <3>5. Agrees(job, h.runner = j, WireAfter(h.runner, j), server[j])
      BY <2>1, <2>3, <3>3 DEF Agrees
    <3> QED
      BY <3>1, <3>3, <3>4, <3>5
  <2> QED
    BY <2>2, <2>3
<1>5. f \in [Ids(h) -> JobRec] /\ f[q.runner] = q.jobs[q.runner]
  BY <1>1, <1>3, <1>4
<1>6. x = [h EXCEPT !.jobs = f]
  OBVIOUS
<1> HIDE DEF f, x
<1>7. Mid(x) /\ SameSize(h, x) /\ x.jobs = f /\ x.runner = h.runner
  BY <1>1, <1>4, <1>5, <1>6, JobsChanged
<1>8. /\ Mid(Notify(x)) /\ Notify(x).runner = x.runner
      /\ \A j \in Ids(x) : Notify(x).jobs[j].status = x.jobs[j].status
  BY <1>7, Notified
<1>9. Free(Notify(x))
  BY <1>1, <1>3, <1>5, <1>7, <1>8 DEF Free, Active, SameSize
<1> QED
  BY <1>2, <1>8, <1>9

LEMMA Finished ==
    ASSUME NEW q, Mid(q), NEW j \in Ids(q), q.runner = j, q.jobs[j].status = "running",
           NEW status \in {"done", "error"}, NEW error \in Errors,
           error = "none" <=> status = "done", error # "skipped",
           WireAfter(j, j) # "POST",
           status = "done" => server[j] \in {"done", "forgotten"},
           error = "scrape" => server[j] \in {"error", "forgotten"},
           error \in {"refused", "key", "skipped"} => server[j] = "unknown"
    PROVE  LET x == FinishJob(q, j, status, error)
           IN  /\ Mid(x) /\ Free(x) /\ x.runner = j /\ j \in Ids(x)
               /\ x.jobs[j].status = status
<1> DEFINE job == [q.jobs[j] EXCEPT !.status = status, !.error = error]
<1> DEFINE f == [q.jobs EXCEPT ![j] = job]
<1> DEFINE x == [q EXCEPT !.jobs = f]
<1>1. q.jobs \in [Ids(q) -> JobRec]
  BY Parts DEF Mid
<1>2. q.jobs[j] \in JobRec /\ Told(q.jobs[j])
  BY <1>1 DEF Mid, JobsFit, JobFits
<1>3. FinishJob(q, j, status, error) = Notify(x)
  BY <1>1, <1>2 DEF FinishJob
<1>4. /\ job \in JobRec /\ job.status = status /\ job.error = error
      /\ job.notified = q.jobs[j].notified /\ job.toasts = q.jobs[j].toasts
      /\ job.cancelledWhile = q.jobs[j].cancelledWhile
      /\ job.group = q.jobs[j].group /\ job.url = q.jobs[j].url
  BY <1>2 DEF JobRec, Statuses
<1> HIDE DEF job
<1>5. Told(job)
  BY <1>2, <1>4 DEF Told, Active
<1>6. job.cancelledWhile = "none"
  BY <1>2, <1>4 DEF Told
<1>7. Agrees(job, q.runner = j, WireAfter(q.runner, j), server[j])
  BY <1>4, <1>6 DEF Agrees
<1>8. f \in [Ids(q) -> JobRec] /\ f[j] = job /\ \A i \in Ids(q) : i # j => f[i] = q.jobs[i]
  BY <1>1, <1>4
<1>9. x = [q EXCEPT !.jobs = f]
  OBVIOUS
<1> HIDE DEF f, x
<1>10. \A i \in Ids(q) :
          /\ f[i].group = q.jobs[i].group /\ f[i].url = q.jobs[i].url
          /\ f[i].status = "queued" => q.jobs[i].status = "queued"
          /\ Told(f[i])
          /\ Agrees(f[i], q.runner = i, WireAfter(q.runner, i), server[i])
  BY <1>4, <1>5, <1>7, <1>8 DEF Mid, JobsFit, JobFits
<1>11. Mid(x) /\ SameSize(q, x) /\ x.jobs = f /\ x.runner = q.runner
  BY <1>8, <1>9, <1>10, JobsChanged
<1> DEFINE y == Notify(x)
<1>12. /\ Mid(y) /\ y.runner = x.runner /\ SameSize(x, y)
       /\ \A i \in Ids(x) : y.jobs[i].status = x.jobs[i].status
  BY <1>11, Notified
<1> HIDE DEF y
<1>13. j \in Ids(y) /\ y.runner = j /\ y.jobs[j].status = status
  BY <1>4, <1>8, <1>11, <1>12 DEF SameSize
<1>14. Free(y)
  BY <1>13 DEF Free, Active
<1> QED
  BY <1>3, <1>12, <1>13, <1>14 DEF y

-----------------------------------------------------------------------------
(* The steps.                                                              *)

\* The request of a job that the pump does not await matters only if it is a POST.
LEMMA OnTheWire ==
    ASSUME NEW job, NEW j, NEW s
    PROVE  Agrees(job, queue.runner = j, WireAfter(queue.runner, j), s)
           <=> Agrees(job, queue.runner = j, wire[j], s)
BY DEF Agrees, WireAfter

LEMMA Inside ==
    ASSUME IInv
    PROVE  /\ queue.runner \in 0..Len(queue.jobs) /\ Ids(queue) = 1..Len(queue.jobs)
           /\ Ids(queue) \subseteq JobId
           /\ queue.runner # 0 => queue.runner \in Ids(queue)
           /\ queue.jobs \in [Ids(queue) -> JobRec]
           /\ \A j \in Ids(queue) : /\ queue.jobs[j] \in JobRec
                                    /\ Told(queue.jobs[j])
                                    /\ Agrees(queue.jobs[j], queue.runner = j, wire[j], server[j])
           /\ \A j \in JobId \ Ids(queue) : wire[j] # "POST" /\ server[j] = "unknown"
<1>1. Shape(queue) /\ JobsFit(queue) /\ Unsent(queue)
  BY DEF IInv, Mid
<1>2. queue.runner # 0 => queue.runner \in Ids(queue)
  BY <1>1, Parts
<1>3. \A j \in Ids(queue) : Agrees(queue.jobs[j], queue.runner = j, wire[j], server[j])
  BY <1>1, OnTheWire DEF JobsFit, JobFits
<1> QED
  BY <1>1, <1>2, <1>3, Parts DEF JobsFit, JobFits, Unsent

LEMMA BecomesStep ==
    ASSUME IInv, NEW q, Mid(q), Quiet(q), RunnerRuns(q), Becomes(q)
    PROVE  IInv'
<1>1. queue' = q /\ server' = server /\ wire' = [j \in JobId |-> WireAfter(q.runner, j)]
  BY DEF Becomes, WireAfter
<1>2. \A j \in JobId : wire'[j] = WireAfter(q.runner, j)
  BY <1>1
<1>3. Shape(q) /\ q.runner \in 0..Len(q.jobs) /\ Ids(q) \subseteq JobId
      /\ (q.runner # 0 => q.runner \in Ids(q))
  BY Parts DEF Mid
<1>4. Shape(queue)'
  BY <1>1, <1>3 DEF Shape, Ids, Members
<1>5. GroupsTold(queue)' /\ Quiet(queue)' /\ RunnerRuns(queue)'
  BY <1>1 DEF Mid, GroupsTold, Quiet, RunnerRuns, Ids
<1>6. JobsFit(queue)'
  <2> SUFFICES ASSUME NEW j \in Ids(q)
               PROVE  JobFits(queue, j)'
    BY <1>1 DEF JobsFit, Ids
  <2>1. JobFits(q, j) /\ j \in JobId
    BY <1>3 DEF Mid, JobsFit
  <2>2. WireAfter(queue.runner, j)' = WireAfter(q.runner, j)
    <3>1. WireAfter(queue.runner, j)' = IF wire'[j] = "POST" \/ j = q.runner
                                        THEN wire'[j] ELSE "none"
      BY <1>1 DEF WireAfter
    <3>2. WireAfter(q.runner, j) = "POST" \/ j = q.runner \/ WireAfter(q.runner, j) = "none"
      BY DEF WireAfter
    <3> QED
      BY <1>2, <2>1, <3>1, <3>2
  <2>3. queue'.jobs[j].status = "queued" => j # queue'.runner
    BY <1>1, <2>1 DEF JobFits, Agrees
  <2>4. Agrees(queue.jobs[j], queue.runner = j, WireAfter(queue.runner, j), server[j])'
    BY <1>1, <2>1, <2>2 DEF JobFits, Agrees, Awaited
  <2>5. Told(queue.jobs[j])'
    BY <1>1, <2>1 DEF JobFits, Told, Active
  <2> QED
    BY <2>3, <2>4, <2>5 DEF JobFits
<1>7. Unsent(queue)'
  <2>1. ASSUME NEW j \in JobId \ Ids(q)
        PROVE  wire'[j] # "POST" /\ server'[j] = "unknown"
    <3>1. wire[j] # "POST" /\ server[j] = "unknown"
      BY DEF Mid, Unsent
    <3>2. j # q.runner
      <4>1. j # 0
        BY DEF JobId
      <4> QED
        BY <1>3, <4>1
    <3> QED
      BY <1>1, <1>2, <3>1, <3>2 DEF WireAfter
  <2> QED
    BY <1>1, <2>1 DEF Unsent, Ids, JobId
<1>8. wire' \in [JobId -> Requests] /\ server' \in [JobId -> Api!States]
  <2>1. \A j \in JobId : WireAfter(q.runner, j) \in Requests
    BY DEF IInv, WireAfter, Requests
  <2> QED
    BY <1>1, <2>1 DEF IInv
<1> QED
  BY <1>4, <1>5, <1>6, <1>7, <1>8 DEF IInv, Mid, Requests, JobId, Api!States

\* A step that leaves the pump with the job it awaits.
LEMMA HandsOver ==
    ASSUME IInv, NEW x \in SameJobs(queue), Alike(queue, x), x.runner = queue.runner,
           queue' = x, GroupsTold(x), Quiet(x), RunnerRuns(x),
           wire' \in [JobId -> Requests], server' \in [JobId -> Api!States],
           \A j \in Ids(queue) :
              /\ Told(x.jobs[j])
              /\ Agrees(x.jobs[j], queue.runner = j, wire'[j], server'[j]),
           \A j \in JobId \ Ids(queue) : wire'[j] # "POST" /\ server'[j] = "unknown"
    PROVE  IInv'
<1>1. Shape(queue)
  BY DEF IInv, Mid
<1>2. Shape(x) /\ SameSize(queue, x)
  BY <1>1, Rebuilt
<1>3. Ids(x) = Ids(queue) /\ x.runner \in 0..Len(x.jobs)
  BY <1>2, Parts DEF SameSize
<1>4. Shape(queue)'
  BY <1>2, <1>3 DEF Shape, Ids, Members
<1>5. GroupsTold(queue)' /\ Quiet(queue)' /\ RunnerRuns(queue)'
  BY DEF GroupsTold, Quiet, RunnerRuns, Ids
<1>6. JobsFit(queue)'
  <2> SUFFICES ASSUME NEW j \in Ids(queue)
               PROVE  JobFits(queue, j)'
    BY <1>3 DEF JobsFit, Ids
  <2>1. Told(x.jobs[j]) /\ Agrees(x.jobs[j], x.runner = j, wire'[j], server'[j])
    OBVIOUS
  <2>2. WireAfter(queue.runner, j)' = IF wire'[j] = "POST" \/ j = x.runner
                                      THEN wire'[j] ELSE "none"
    BY DEF WireAfter
  <2>3. Agrees(queue.jobs[j], queue.runner = j, WireAfter(queue.runner, j), server[j])'
    BY <2>1, <2>2 DEF Agrees, Awaited
  <2>4. Told(queue.jobs[j])'
    BY <2>1 DEF Told, Active
  <2>5. queue'.jobs[j].status = "queued" => j # queue'.runner
    BY <2>1 DEF Agrees
  <2> QED
    BY <2>3, <2>4, <2>5 DEF JobFits
<1>7. Unsent(queue)'
  BY <1>3 DEF Unsent, Ids, JobId
<1> QED
  BY <1>4, <1>5, <1>6, <1>7 DEF IInv, Mid, Requests, JobId, Api!States

\* Of those, the ones that leave the queue alone.
LEMMA WireStep ==
    ASSUME IInv, UNCHANGED queue,
           wire' \in [JobId -> Requests], server' \in [JobId -> Api!States],
           \A j \in Ids(queue) : Agrees(queue.jobs[j], queue.runner = j, wire'[j], server'[j]),
           \A j \in JobId \ Ids(queue) : wire'[j] # "POST" /\ server'[j] = "unknown"
    PROVE  IInv'
<1>1. Shape(queue) /\ GroupsTold(queue) /\ Quiet(queue) /\ RunnerRuns(queue)
  BY DEF IInv, Mid
<1>2. queue \in SameJobs(queue) /\ Alike(queue, queue)
  BY <1>1, Parts DEF SameJobs, Alike
<1>3. \A j \in Ids(queue) : Told(queue.jobs[j])
  BY Inside
<1> QED
  BY <1>1, <1>2, <1>3, HandsOver

LEMMA UserStep ==
    ASSUME IInv, User
    PROVE  IInv'
<1>1. Mid(queue) /\ Quiet(queue) /\ RunnerRuns(queue)
  BY DEF IInv
<1>2. ASSUME NEW u \in Url, Scrape(u)
      PROVE  IInv'
  <2> DEFINE q == Enqueue(queue, u, 0)
  <2>1. Becomes(q) /\ Len(queue.jobs) < MaxJobs
    BY <1>2 DEF Scrape
  <2>2. 0 \in 0..Len(queue.groups)
    BY <1>1, Parts DEF Mid
  <2>3. Mid(q) /\ Quiet(q) /\ RunnerRuns(q)
    BY <1>1, <2>1, <2>2, Enqueued
  <2> HIDE DEF q
  <2> QED
    BY <2>1, <2>3, BecomesStep
<1>3. ASSUME NEW plan \in Plans, ScrapeAll(plan)
      PROVE  IInv'
  <2> DEFINE q == StartGroup(queue, plan)
  <2>1. /\ Becomes(q) /\ Len(queue.groups) < MaxGroups
        /\ Len(queue.jobs) + Len(plan) <= MaxJobs
    BY <1>3 DEF ScrapeAll
  <2>2. plan \in Seq(Url)
    BY QueueAssumption
  <2>3. Mid(q) /\ Quiet(q) /\ RunnerRuns(q)
    BY <1>1, <2>1, <2>2, GroupStarted
  <2> HIDE DEF q
  <2> QED
    BY <2>1, <2>3, BecomesStep
<1>4. ASSUME NEW j \in Ids(queue), UserCancelsJob(j)
      PROVE  IInv'
  <2> DEFINE q == Settle(CancelJobs(queue, {j}))
  <2>1. Becomes(q) /\ IsActive(queue, j)
    BY <1>4 DEF UserCancelsJob
  <2>2. {j} \in SUBSET {i \in Ids(queue) : IsActive(queue, i)}
    BY <2>1
  <2>3. Mid(q) /\ Quiet(q) /\ RunnerRuns(q)
    BY <1>1, <2>2, Cancelled
  <2> HIDE DEF q
  <2> QED
    BY <2>1, <2>3, BecomesStep
<1>5. ASSUME NEW g \in DOMAIN queue.groups, UserCancelsGroup(g)
      PROVE  IInv'
  <2> DEFINE q == Settle(CancelGroup(queue, g))
  <2>1. Becomes(q)
    BY <1>5 DEF UserCancelsGroup
  <2>2. Mid(q) /\ Quiet(q) /\ RunnerRuns(q)
    BY <1>1, GroupCancelled
  <2> HIDE DEF q
  <2> QED
    BY <2>1, <2>2, BecomesStep
<1>6. ASSUME UserCancelsAll
      PROVE  IInv'
  <2> DEFINE q == Settle(CancelAll(queue))
  <2>1. Becomes(q)
    BY <1>6 DEF UserCancelsAll
  <2>2. Mid(q) /\ Quiet(q) /\ RunnerRuns(q)
    BY <1>1, AllCancelledBy
  <2> HIDE DEF q
  <2> QED
    BY <2>1, <2>2, BecomesStep
<1> QED
  BY <1>2, <1>3, <1>4, <1>5, <1>6 DEF User

\* The pump awaits an answer only for a job that runs.
LEMMA AwaitsRunning ==
    ASSUME IInv, NEW j \in Ids(queue), NEW answers, "backoff" \notin answers,
           Awaits(j, answers)
    PROVE  /\ queue.runner = j /\ j # 0 /\ queue.jobs[j].status = "running"
           /\ Awaited(wire[j], server[j]) /\ wire[j] \in answers
           /\ queue.jobs[j].error = "none" /\ queue.jobs[j].cancelledWhile = "none"
<1>1. j # 0 /\ queue.jobs[j] \in JobRec /\ Told(queue.jobs[j])
      /\ Agrees(queue.jobs[j], queue.runner = j, wire[j], server[j])
  BY Inside DEF JobId
<1>2. queue.runner = j /\ wire[j] \in answers
  BY DEF Awaits
<1>3. queue.jobs[j].status \in {"running", "waiting"}
  BY <1>1, <1>2 DEF IInv, RunnerRuns
<1>4. queue.jobs[j].status = "running"
  BY <1>1, <1>2, <1>3 DEF Agrees
<1> QED
  BY <1>1, <1>2, <1>4 DEF Agrees, Told

LEMMA EndStep ==
    ASSUME IInv, NEW j \in Ids(queue), NEW answers, Awaits(j, answers),
           answers \cap {"backoff", "POST"} = {},
           NEW status \in {"done", "error"}, NEW error \in Errors,
           error = "none" <=> status = "done", error # "skipped",
           status = "done" => answers = {"done"},
           error = "scrape" => answers = {"error"},
           error \in {"refused", "key"} => answers \subseteq {"429", "401", "refused"}
    PROVE  LET x == FinishJob(queue, j, status, error)
           IN  /\ Mid(x) /\ Free(x) /\ x.runner = j /\ j \in Ids(x)
               /\ x.jobs[j].status = status
               /\ Becomes(NextJob(x)) => IInv'
<1>1. /\ queue.runner = j /\ queue.jobs[j].status = "running"
      /\ Awaited(wire[j], server[j]) /\ wire[j] \in answers
  BY AwaitsRunning
<1>2. WireAfter(j, j) # "POST"
  BY <1>1 DEF WireAfter
<1>3. /\ status = "done" => server[j] \in {"done", "forgotten"}
      /\ error = "scrape" => server[j] \in {"error", "forgotten"}
      /\ error \in {"refused", "key", "skipped"} => server[j] = "unknown"
  BY <1>1 DEF Awaited
<1>4. Mid(queue)
  BY DEF IInv
<1> DEFINE x == FinishJob(queue, j, status, error)
<1>5. /\ Mid(x) /\ Free(x) /\ x.runner = j /\ j \in Ids(x)
      /\ x.jobs[j].status = status
  BY <1>1, <1>2, <1>3, <1>4, Finished
<1> HIDE DEF x
<1>6. Mid(NextJob(x)) /\ Quiet(NextJob(x)) /\ RunnerRuns(NextJob(x))
  BY <1>5, PumpTurns
<1>7. Becomes(NextJob(x)) => IInv'
  BY <1>6, BecomesStep
<1> QED
  BY <1>5, <1>7 DEF x

LEMMA UnauthorizedStep ==
    ASSUME IInv, NEW j \in Ids(queue), Unauthorized(j)
    PROVE  IInv'
<1> DEFINE x == FinishJob(queue, j, "error", "key")
<1> DEFINE h == HaltQueue(x)
<1>1. Awaits(j, {"401"}) /\ Becomes(NextJob(h))
  BY DEF Unauthorized
<1>2. Mid(x) /\ x.runner = j /\ j \in Ids(x) /\ x.jobs[j].status = "error"
  <2>1. "key" \in Errors
    BY DEF Errors
  <2> QED
    BY <1>1, <2>1, EndStep
<1> HIDE DEF x
<1>3. Mid(h) /\ Free(h)
  BY <1>2, Halted
<1> HIDE DEF h
<1>4. Mid(NextJob(h)) /\ Quiet(NextJob(h)) /\ RunnerRuns(NextJob(h))
  BY <1>3, PumpTurns
<1> QED
  BY <1>1, <1>4, BecomesStep

LEMMA TornStep ==
    ASSUME IInv, NEW j \in Ids(queue), TornError(j)
    PROVE  IInv'
<1> DEFINE x == [queue EXCEPT !.runner = 0, !.threw = TRUE]
<1>1. Awaits(j, {"torn"}) /\ Becomes(Notify(x))
  BY DEF TornError
<1>2. /\ queue.runner = j /\ j # 0 /\ queue.jobs[j].status = "running"
      /\ server[j] \in {"error", "forgotten"} /\ wire[j] # "POST"
  <2>1. /\ queue.runner = j /\ j # 0 /\ queue.jobs[j].status = "running"
        /\ Awaited(wire[j], server[j]) /\ wire[j] \in {"torn"}
    BY <1>1, AwaitsRunning
  <2> QED
    BY <2>1 DEF Awaited
<1>3. /\ queue.jobs \in [Ids(queue) -> JobRec] /\ Len(queue.jobs) \in Nat
      /\ queue.groups \in [DOMAIN queue.groups -> GroupRec]
      /\ queue = [jobs |-> queue.jobs, groups |-> queue.groups, runner |-> queue.runner,
                  threw |-> queue.threw]
  BY Parts DEF IInv, Mid
<1>4. /\ x.jobs = queue.jobs /\ x.groups = queue.groups /\ x.runner = 0 /\ x.threw = TRUE
      /\ x = [jobs |-> x.jobs, groups |-> x.groups, runner |-> x.runner, threw |-> x.threw]
  <2>1. queue \in QueueRec
    BY DEF IInv, Mid, Shape
  <2>2. x = [queue EXCEPT !.runner = 0, !.threw = TRUE]
    OBVIOUS
  <2> HIDE DEF x
  <2>3. x = [jobs |-> queue.jobs, groups |-> queue.groups, runner |-> 0, threw |-> TRUE]
    BY <2>1, <2>2 DEF QueueRec
  <2> QED
    BY <2>3
<1> HIDE DEF x
<1>5. x \in SameJobs(queue) /\ Alike(queue, x)
  <2>1. x.runner \in 0..Len(queue.jobs)
    BY <1>3, <1>4
  <2>2. x.threw \in BOOLEAN
    BY <1>4, Zenon
  <2> QED
    BY <1>3, <1>4, <2>1, <2>2 DEF SameJobs, Alike
<1>6. ASSUME NEW i \in Ids(queue)
      PROVE  JobFits(x, i)
  <2>1. /\ i # 0 /\ Told(queue.jobs[i])
        /\ Agrees(queue.jobs[i], queue.runner = i, wire[i], server[i])
    BY Inside DEF JobId
  <2>2. /\ wire[i] # "POST" => WireAfter(0, i) = "none"
        /\ wire[i] = "POST" => WireAfter(0, i) = "POST"
    BY <2>1 DEF WireAfter
  <2>3. Agrees(queue.jobs[i], 0 = i, WireAfter(0, i), server[i])
    <3>1. CASE i = j
      BY <1>2, <2>1, <2>2, <3>1 DEF Agrees
    <3>2. CASE i # j
      BY <1>2, <2>1, <2>2, <3>2 DEF Agrees
    <3> QED
      BY <3>1, <3>2
  <2>4. queue.jobs[i].status = "queued" => i # queue.runner
    BY <2>1 DEF Agrees
  <2> QED
    BY <1>4, <2>1, <2>3, <2>4 DEF JobFits
<1>7. Mid(queue) /\ GroupsTold(x)
  BY <1>4 DEF IInv, Mid, GroupsTold
<1>8. Mid(x)
  BY <1>5, <1>6, <1>7, MidOf
<1>9. Mid(Notify(x)) /\ Quiet(Notify(x)) /\ RunnerRuns(Notify(x))
  BY <1>4, <1>8, Notified DEF RunnerRuns
<1> QED
  BY <1>1, <1>9, BecomesStep

\* The job of the pump goes on with the rate limit, or after it.
LEMMA Renewed ==
    ASSUME IInv, NEW j \in Ids(queue), queue.runner = j,
           NEW job \in JobRec, Told(job), job.status \in {"running", "waiting"},
           job.url = queue.jobs[j].url, job.group = queue.jobs[j].group,
           NEW y, y = [queue EXCEPT !.jobs = [queue.jobs EXCEPT ![j] = job]],
           queue' = Notify(y),
           wire' \in [JobId -> Requests], UNCHANGED server,
           \A i \in JobId : i # j => wire'[i] = wire[i],
           Agrees(job, TRUE, wire'[j], server[j])
    PROVE  IInv'
<1> DEFINE x == Notify(y)
<1> DEFINE f == [queue.jobs EXCEPT ![j] = job]
<1> DEFINE js == [i \in Ids(y) |-> TellJob(y.jobs[i])]
<1> DEFINE gs == [i \in DOMAIN y.groups |-> TellGroup(y, y.groups[i])]
<1>1. /\ Mid(queue) /\ Quiet(queue) /\ queue.jobs \in [Ids(queue) -> JobRec]
      /\ queue.groups \in [DOMAIN queue.groups -> GroupRec]
      /\ queue.runner \in 0..Len(queue.jobs) /\ queue.threw \in BOOLEAN
      /\ queue = [jobs |-> queue.jobs, groups |-> queue.groups, runner |-> queue.runner,
                  threw |-> queue.threw]
  BY Parts DEF IInv, Mid
<1>2. /\ y.jobs = f /\ y.groups = queue.groups /\ y.runner = queue.runner
      /\ y.threw = queue.threw
      /\ y = [jobs |-> y.jobs, groups |-> y.groups, runner |-> y.runner, threw |-> y.threw]
  BY <1>1
<1>3. f \in [Ids(queue) -> JobRec] /\ f[j] = job
      /\ \A i \in Ids(queue) : i # j => f[i] = queue.jobs[i]
  BY <1>1
<1> HIDE DEF f
<1>4. Ids(y) = Ids(queue)
  BY <1>1, <1>2, <1>3 DEF Ids
<1>5. x = [y EXCEPT !.jobs = js, !.groups = gs]
  BY DEF Notify
<1>6. \A i \in Ids(queue) : TellJob(f[i]) = f[i]
  BY <1>1, <1>3 DEF TellJob, Quiet, Active
<1>7. js = f
  BY <1>2, <1>3, <1>4, <1>6
<1>8. /\ gs \in [DOMAIN queue.groups -> GroupRec]
      /\ \A g \in DOMAIN queue.groups :
            /\ gs[g].jobIds = queue.groups[g].jobIds
            /\ ~gs[g].notified => gs[g].toasts = 0
  <2>1. \A g \in DOMAIN queue.groups :
            /\ gs[g] \in GroupRec
            /\ gs[g].jobIds = queue.groups[g].jobIds
            /\ ~gs[g].notified => gs[g].toasts = 0
    BY <1>1, <1>2, GroupTold DEF Mid, GroupsTold
  <2> QED
    BY <1>2, <2>1
<1> HIDE DEF js, gs, x
<1>9. /\ x.jobs = f /\ x.groups = gs /\ x.runner = queue.runner /\ x.threw = queue.threw
      /\ x = [jobs |-> x.jobs, groups |-> x.groups, runner |-> x.runner, threw |-> x.threw]
  BY <1>2, <1>5, <1>7
<1>10. x \in SameJobs(queue)
  BY <1>1, <1>3, <1>8, <1>9 DEF SameJobs
<1>11. Alike(queue, x)
  BY <1>1, <1>3, <1>8, <1>9 DEF Alike
<1>12. GroupsTold(x)
  BY <1>1, <1>8, <1>9 DEF GroupsTold, SameJobs
<1>13. Quiet(x) /\ RunnerRuns(x)
  BY <1>1, <1>3, <1>9 DEF Quiet, RunnerRuns, Ids, Active
<1>14. \A i \in Ids(queue) :
          /\ Told(x.jobs[i])
          /\ Agrees(x.jobs[i], queue.runner = i, wire'[i], server'[i])
  BY <1>3, <1>9, Inside
<1>15. \A i \in JobId \ Ids(queue) : wire'[i] # "POST" /\ server'[i] = "unknown"
  BY Inside
<1>16. server' \in [JobId -> Api!States] /\ queue' = x
  BY DEF IInv, x
<1> QED
  BY <1>9, <1>10, <1>11, <1>12, <1>13, <1>14, <1>15, <1>16, HandsOver

LEMMA RateLimitedStep ==
    ASSUME IInv, NEW j \in Ids(queue), RateLimited(j)
    PROVE  IInv'
<1> DEFINE job == [queue.jobs[j] EXCEPT !.status = "waiting"]
<1> DEFINE y == [queue EXCEPT !.jobs = [queue.jobs EXCEPT ![j] = job]]
<1>1. /\ queue.jobs \in [Ids(queue) -> JobRec] /\ queue.jobs[j] \in JobRec
      /\ Told(queue.jobs[j]) /\ j \in JobId
  BY Inside
<1>2. Awaits(j, {"429"}) /\ queue.jobs[j].attempts < MaxAttempts
      /\ wire' = [wire EXCEPT ![j] = "backoff"] /\ server' = server
  BY DEF RateLimited
<1>3. queue' = Notify(y)
  BY <1>1 DEF RateLimited
<1>4. /\ queue.runner = j /\ queue.jobs[j].status = "running" /\ server[j] = "unknown"
      /\ queue.jobs[j].error = "none" /\ queue.jobs[j].cancelledWhile = "none"
  <2>1. /\ queue.runner = j /\ queue.jobs[j].status = "running"
        /\ Awaited(wire[j], server[j]) /\ wire[j] \in {"429"}
        /\ queue.jobs[j].error = "none" /\ queue.jobs[j].cancelledWhile = "none"
    BY <1>2, AwaitsRunning
  <2> QED
    BY <2>1 DEF Awaited
<1>5. /\ job \in JobRec /\ job.status = "waiting" /\ job.attempts = queue.jobs[j].attempts
      /\ job.error = "none" /\ job.cancelledWhile = "none"
      /\ job.notified = queue.jobs[j].notified /\ job.toasts = queue.jobs[j].toasts
      /\ job.url = queue.jobs[j].url /\ job.group = queue.jobs[j].group
  BY <1>1, <1>4 DEF JobRec, Statuses, Active
<1>6. y = [queue EXCEPT !.jobs = [queue.jobs EXCEPT ![j] = job]]
  OBVIOUS
<1> HIDE DEF job, y
<1>7. Told(job)
  BY <1>1, <1>2, <1>4, <1>5 DEF Told, Active
<1>8. wire' \in [JobId -> Requests] /\ wire'[j] = "backoff"
      /\ \A i \in JobId : i # j => wire'[i] = wire[i]
  BY <1>1, <1>2 DEF IInv, Requests
<1>9. Agrees(job, TRUE, wire'[j], server[j])
  BY <1>4, <1>5, <1>8 DEF Agrees
<1> QED
  BY <1>2, <1>3, <1>4, <1>5, <1>6, <1>7, <1>8, <1>9, Renewed

LEMMA BackoffStep ==
    ASSUME IInv, NEW j \in Ids(queue), BackoffEnds(j)
    PROVE  IInv'
<1> DEFINE job == [queue.jobs[j] EXCEPT !.status = "running", !.attempts = @ + 1]
<1> DEFINE y == [queue EXCEPT !.jobs = [queue.jobs EXCEPT ![j] = job]]
<1>1. /\ queue.jobs \in [Ids(queue) -> JobRec] /\ queue.jobs[j] \in JobRec
      /\ Told(queue.jobs[j]) /\ j \in JobId /\ j # 0
      /\ Agrees(queue.jobs[j], queue.runner = j, wire[j], server[j])
  BY Inside DEF JobId
<1>2. /\ wire[j] = "backoff" /\ queue.runner = j /\ wire' = [wire EXCEPT ![j] = "POST"]
      /\ server' = server
  BY DEF BackoffEnds, Awaits
<1>3. queue' = Notify(y)
  BY <1>1 DEF BackoffEnds
<1>4. /\ queue.jobs[j].status = "waiting" /\ server[j] = "unknown"
      /\ queue.jobs[j].error = "none" /\ queue.jobs[j].cancelledWhile = "none"
      /\ queue.jobs[j].attempts < MaxAttempts
  <2>1. queue.jobs[j].status \in {"running", "waiting"}
    BY <1>1, <1>2 DEF IInv, RunnerRuns
  <2>2. queue.jobs[j].status = "waiting"
    BY <1>1, <1>2, <2>1 DEF Agrees, Awaited
  <2> QED
    BY <1>1, <2>2 DEF Agrees, Told
<1>5. queue.jobs[j].attempts + 1 \in 0..MaxAttempts
  <2>1. queue.jobs[j].attempts \in 0..MaxAttempts /\ MaxAttempts \in Nat
    BY <1>1, QueueAssumption DEF JobRec
  <2> QED
    BY <1>4, <2>1
<1>6. /\ job \in JobRec /\ job.status = "running"
      /\ job.error = "none" /\ job.cancelledWhile = "none"
      /\ job.notified = queue.jobs[j].notified /\ job.toasts = queue.jobs[j].toasts
      /\ job.url = queue.jobs[j].url /\ job.group = queue.jobs[j].group
  BY <1>1, <1>4, <1>5 DEF JobRec, Statuses, Active
<1>7. y = [queue EXCEPT !.jobs = [queue.jobs EXCEPT ![j] = job]]
  OBVIOUS
<1> HIDE DEF job, y
<1>8. Told(job)
  BY <1>1, <1>4, <1>6 DEF Told, Active
<1>9. wire' \in [JobId -> Requests] /\ wire'[j] = "POST"
      /\ \A i \in JobId : i # j => wire'[i] = wire[i]
  BY <1>1, <1>2 DEF IInv, Requests
<1>10. Agrees(job, TRUE, wire'[j], server[j])
  BY <1>4, <1>6, <1>9 DEF Agrees, Awaited
<1> QED
  BY <1>2, <1>3, <1>6, <1>7, <1>8, <1>9, <1>10, Renewed

\* A request or an answer that asks nothing of the server.
LEMMA SendStep ==
    ASSUME IInv, NEW j \in Ids(queue), NEW answers, "backoff" \notin answers,
           Awaits(j, answers), NEW request \in {"pause", "GET", "failed"}, Send(j, request)
    PROVE  IInv'
<1>1. /\ queue.runner = j /\ queue.jobs[j].status = "running"
      /\ queue.jobs[j].error = "none" /\ queue.jobs[j].cancelledWhile = "none"
  BY AwaitsRunning
<1>2. queue' = queue /\ server' = server /\ wire' = [wire EXCEPT ![j] = request]
  BY DEF Send
<1>3. /\ wire' \in [JobId -> Requests] /\ server' \in [JobId -> Api!States]
      /\ wire'[j] = request /\ \A i \in JobId : i # j => wire'[i] = wire[i]
  BY <1>2, Inside DEF IInv, Requests
<1>4. Agrees(queue.jobs[j], TRUE, wire'[j], server[j])
  BY <1>1, <1>3 DEF Agrees, Awaited
<1>5. \A i \in Ids(queue) : Agrees(queue.jobs[i], queue.runner = i, wire'[i], server'[i])
  BY <1>1, <1>2, <1>3, <1>4, Inside
<1>6. \A i \in JobId \ Ids(queue) : wire'[i] # "POST" /\ server'[i] = "unknown"
  BY <1>2, <1>3, Inside
<1> QED
  BY <1>2, <1>3, <1>5, <1>6, WireStep

LEMMA HandleStep ==
    ASSUME IInv, NEW j \in Ids(queue), Handle(j)
    PROVE  IInv'
<1>1. ASSUME Accepted(j) PROVE IInv'
  BY <1>1, SendStep DEF Accepted
<1>2. ASSUME PauseEnds(j) PROVE IInv'
  BY <1>2, SendStep DEF PauseEnds
<1>3. ASSUME Refused(j) PROVE IInv'
  <2>1. "refused" \in Errors
    BY DEF Errors
  <2>2. PICK answers \in {{"refused"}, {"429"}} : Awaits(j, answers)
    BY <1>3 DEF Refused
  <2>3. Becomes(NextJob(FinishJob(queue, j, "error", "refused")))
    BY <1>3 DEF Refused, Ends
  <2> QED
    BY <2>1, <2>2, <2>3, EndStep
<1>4. ASSUME LostTouch(j) PROVE IInv'
  <2>1. "network" \in Errors
    BY DEF Errors
  <2>2. Awaits(j, {"failed"}) /\ Becomes(NextJob(FinishJob(queue, j, "error", "network")))
    BY <1>4 DEF LostTouch, Ends
  <2> QED
    BY <2>1, <2>2, EndStep
<1>5. ASSUME ScrapeDone(j) PROVE IInv'
  <2>1. "none" \in Errors
    BY DEF Errors
  <2>2. Awaits(j, {"done"}) /\ Becomes(NextJob(FinishJob(queue, j, "done", "none")))
    BY <1>5 DEF ScrapeDone, Ends
  <2> QED
    BY <2>1, <2>2, EndStep
<1>6. ASSUME ScrapeFailed(j) PROVE IInv'
  <2>1. "scrape" \in Errors
    BY DEF Errors
  <2>2. Awaits(j, {"error"}) /\ Becomes(NextJob(FinishJob(queue, j, "error", "scrape")))
    BY <1>6 DEF ScrapeFailed, Ends
  <2> QED
    BY <2>1, <2>2, EndStep
<1> QED
  BY <1>1, <1>2, <1>3, <1>4, <1>5, <1>6, RateLimitedStep, BackoffStep, UnauthorizedStep,
     TornStep DEF Handle

-----------------------------------------------------------------------------
(* The network and the server.                                             *)

\* What the server forgets, no job of the tab minds.
LEMMA Forgets ==
    ASSUME NEW job, NEW runs, NEW w, NEW s, NEW t, Agrees(job, runs, w, s),
           t = s \/ (s # "unknown" /\ t = "forgotten")
    PROVE  Agrees(job, runs, w, t)
BY DEF Agrees, Awaited

LEMMA TakePostStep ==
    ASSUME IInv, NEW j \in Ids(queue), TakePost(j)
    PROVE  IInv'
<1>1. /\ queue.jobs[j] \in JobRec /\ Told(queue.jobs[j]) /\ j \in JobId
      /\ Agrees(queue.jobs[j], queue.runner = j, wire[j], server[j])
      /\ wire[j] = "POST" /\ UNCHANGED queue
  BY Inside DEF TakePost, Answer
\* Its job runs, or was cancelled while it ran.
<1>2. /\ \/ queue.jobs[j].status = "running" /\ queue.runner = j
         \/ queue.jobs[j].status = "cancelled" /\ queue.jobs[j].cancelledWhile = "running"
      /\ queue.jobs[j].error = "none"
      /\ queue.jobs[j].cancelledWhile \notin {"queued", "waiting"}
      /\ queue.jobs[j].status = "running" => server[j] = "unknown"
  <2>1. queue.jobs[j].status \in Statuses /\ queue.jobs[j].cancelledWhile \in Active \cup {"none"}
    BY <1>1 DEF JobRec
  <2> QED
    BY <1>1, <2>1 DEF Agrees, Awaited, Told, Statuses, Active
<1>3. ASSUME Api!Accept(j), Answer(j, "pending")
      PROVE  IInv'
  <2>1. PICK gone \in SUBSET Api!Ended :
           server' = [i \in JobId |-> IF i = j THEN "queued"
                                      ELSE IF i \in gone THEN "forgotten" ELSE server[i]]
    BY <1>3 DEF Api!Accept
  <2>2. /\ server' \in [JobId -> Api!States] /\ server'[j] = "queued"
        /\ \A i \in JobId : i # j =>
              server'[i] = server[i] \/ (server[i] # "unknown" /\ server'[i] = "forgotten")
    BY <1>1, <2>1 DEF IInv, Api!States, Api!Ended
  <2>3. /\ wire' \in [JobId -> Requests] /\ \A i \in JobId : i # j => wire'[i] = wire[i]
        /\ wire'[j] = IF queue.runner = j THEN "pending" ELSE "none"
    BY <1>1, <1>3 DEF IInv, Requests, Answer
  <2>4. Agrees(queue.jobs[j], queue.runner = j, wire'[j], server'[j])
    BY <1>2, <2>2, <2>3 DEF Agrees, Awaited
  <2>5. \A i \in Ids(queue) : Agrees(queue.jobs[i], queue.runner = i, wire'[i], server'[i])
    BY <2>2, <2>3, <2>4, Inside, Forgets
  <2>6. \A i \in JobId \ Ids(queue) : wire'[i] # "POST" /\ server'[i] = "unknown"
    BY <2>2, <2>3, Inside
  <2> QED
    BY <1>1, <2>2, <2>3, <2>5, <2>6, WireStep
<1>4. ASSUME NEW refusal \in {"429", "401", "refused"}, Answer(j, refusal), UNCHANGED server
      PROVE  IInv'
  <2>1. server' \in [JobId -> Api!States]
    BY <1>4 DEF IInv
  <2>2. /\ wire' \in [JobId -> Requests] /\ \A i \in JobId : i # j => wire'[i] = wire[i]
        /\ wire'[j] = IF queue.runner = j THEN refusal ELSE "none"
    BY <1>1, <1>4 DEF IInv, Requests, Answer
  <2>3. Agrees(queue.jobs[j], queue.runner = j, wire'[j], server[j])
    BY <1>2, <2>2 DEF Agrees, Awaited
  <2>4. \A i \in Ids(queue) : Agrees(queue.jobs[i], queue.runner = i, wire'[i], server'[i])
    BY <1>4, <2>2, <2>3, Inside
  <2>5. \A i \in JobId \ Ids(queue) : wire'[i] # "POST" /\ server'[i] = "unknown"
    BY <1>4, <2>2, Inside
  <2> QED
    BY <1>1, <2>1, <2>2, <2>4, <2>5, WireStep
<1> QED
  BY <1>3, <1>4 DEF TakePost

LEMMA TakeGetStep ==
    ASSUME IInv, NEW j \in Ids(queue), TakeGet(j)
    PROVE  IInv'
<1>1. /\ queue.jobs[j] \in JobRec /\ j \in JobId
      /\ Agrees(queue.jobs[j], queue.runner = j, wire[j], server[j])
      /\ wire[j] = "GET" /\ UNCHANGED <<queue, server>>
  BY Inside DEF TakeGet, Answer
<1>2. PICK answer \in {"pending", "done", "error", "torn", "failed"} :
         /\ Answer(j, answer)
         /\ answer = "done" => server[j] = "done"
         /\ answer \in {"error", "torn"} => server[j] = "error"
  BY DEF TakeGet
<1>3. /\ wire' \in [JobId -> Requests] /\ \A i \in JobId : i # j => wire'[i] = wire[i]
      /\ wire'[j] = IF queue.runner = j THEN answer ELSE "none"
  BY <1>1, <1>2 DEF IInv, Requests, Answer
<1>4. Agrees(queue.jobs[j], queue.runner = j, wire'[j], server[j])
  BY <1>1, <1>2, <1>3 DEF Agrees, Awaited
<1>5. \A i \in Ids(queue) : Agrees(queue.jobs[i], queue.runner = i, wire'[i], server'[i])
  BY <1>1, <1>3, <1>4, Inside
<1>6. \A i \in JobId \ Ids(queue) : wire'[i] # "POST" /\ server'[i] = "unknown"
  BY <1>1, <1>3, Inside
<1>7. server' \in [JobId -> Api!States]
  BY <1>1 DEF IInv
<1> QED
  BY <1>1, <1>3, <1>5, <1>6, <1>7, WireStep

LEMMA ServerStep ==
    ASSUME IInv, NEW j \in Ids(queue), ServerBegins(j) \/ ServerEnds(j)
    PROVE  IInv'
<1>1. /\ j \in JobId /\ UNCHANGED <<queue, wire>>
      /\ Agrees(queue.jobs[j], queue.runner = j, wire[j], server[j])
  BY Inside DEF ServerBegins, ServerEnds
<1>2. PICK s \in {"running", "done", "error"} :
         server[j] \in {"queued", "running"} /\ server' = [server EXCEPT ![j] = s]
  BY DEF ServerBegins, ServerEnds, Api!Begin, Api!End
<1>3. /\ server' \in [JobId -> Api!States] /\ server'[j] = s
      /\ \A i \in JobId : i # j => server'[i] = server[i]
  BY <1>1, <1>2 DEF IInv, Api!States
<1>4. Agrees(queue.jobs[j], queue.runner = j, wire[j], s)
  BY <1>1, <1>2 DEF Agrees, Awaited
<1>5. \A i \in Ids(queue) : Agrees(queue.jobs[i], queue.runner = i, wire'[i], server'[i])
  BY <1>1, <1>3, <1>4, Inside
<1>6. \A i \in JobId \ Ids(queue) : wire'[i] # "POST" /\ server'[i] = "unknown"
  BY <1>1, <1>3, Inside
<1>7. wire' \in [JobId -> Requests]
  BY <1>1 DEF IInv
<1> QED
  BY <1>1, <1>3, <1>5, <1>6, <1>7, WireStep

LEMMA RestartStep ==
    ASSUME IInv, ServerRestarts
    PROVE  IInv'
<1>1. UNCHANGED <<queue, wire>>
      /\ server' = [i \in JobId |-> IF i \in Api!Tracked THEN "forgotten" ELSE server[i]]
  BY DEF ServerRestarts, Api!Restart
<1>2. /\ server' \in [JobId -> Api!States]
      /\ \A i \in JobId : server'[i] = server[i]
                          \/ (server[i] # "unknown" /\ server'[i] = "forgotten")
  BY <1>1 DEF IInv, Api!States, Api!Tracked
<1>3. \A i \in Ids(queue) : Agrees(queue.jobs[i], queue.runner = i, wire'[i], server'[i])
  BY <1>1, <1>2, Inside, Forgets
<1>4. \A i \in JobId \ Ids(queue) : wire'[i] # "POST" /\ server'[i] = "unknown"
  BY <1>1, <1>2, Inside
<1>5. wire' \in [JobId -> Requests]
  BY <1>1 DEF IInv
<1> QED
  BY <1>1, <1>2, <1>3, <1>4, <1>5, WireStep

LEMMA StutterStep ==
    ASSUME IInv, UNCHANGED vars
    PROVE  IInv'
<1>1. UNCHANGED <<queue, wire, server>>
  BY DEF vars
<1>2. wire' \in [JobId -> Requests] /\ server' \in [JobId -> Api!States]
  BY <1>1 DEF IInv
<1> QED
  BY <1>1, <1>2, Inside, WireStep

-----------------------------------------------------------------------------
(* The theorems.                                                           *)

LEMMA Start ==
    ASSUME Init
    PROVE  IInv
<1>1. queue = [jobs |-> <<>>, groups |-> <<>>, runner |-> 0, threw |-> FALSE]
      /\ wire = [j \in JobId |-> "none"] /\ server = [j \in JobId |-> "unknown"]
  BY DEF Init
<1>2. /\ queue.jobs = <<>> /\ queue.groups = <<>> /\ queue.runner = 0
      /\ Len(queue.jobs) = 0 /\ Len(queue.groups) = 0 /\ DOMAIN queue.groups = {}
      /\ Ids(queue) = {}
  BY <1>1 DEF Ids
<1>3. queue \in QueueRec
  BY <1>1 DEF QueueRec
<1>4. Shape(queue)
  BY <1>2, <1>3, QueueAssumption DEF Shape
<1>5. GroupsTold(queue) /\ JobsFit(queue) /\ Quiet(queue) /\ RunnerRuns(queue)
  BY <1>2 DEF GroupsTold, JobsFit, Quiet, RunnerRuns
<1>6. Unsent(queue)
  BY <1>1 DEF Unsent
<1>7. wire \in [JobId -> Requests] /\ server \in [JobId -> Api!States]
  BY <1>1 DEF Requests, Api!States
<1> QED
  BY <1>4, <1>5, <1>6, <1>7 DEF IInv, Mid

LEMMA Step ==
    ASSUME IInv, [Next]_vars
    PROVE  IInv'
<1>1. ASSUME User PROVE IInv'
  BY <1>1, UserStep
<1>2. ASSUME NEW j \in Ids(queue), Handle(j) PROVE IInv'
  BY <1>2, HandleStep
<1>3. ASSUME NEW j \in Ids(queue), Respond(j) PROVE IInv'
  BY <1>3, TakePostStep, TakeGetStep DEF Respond
<1>4. ASSUME NEW j \in Ids(queue), Lose(j) PROVE IInv'
  BY <1>4, SendStep DEF Lose
<1>5. ASSUME NEW j \in Ids(queue), ServerBegins(j) \/ ServerEnds(j) PROVE IInv'
  BY <1>5, ServerStep
<1> QED
  BY <1>1, <1>2, <1>3, <1>4, <1>5, RestartStep, StutterStep DEF Next

\* The inductive invariant holds of every reachable state: the handlers of the page,
\* whole, and every answer of the server keep the queue and its requests in step.
THEOREM Invariance == Spec => []IInv
<1>1. Init => IInv
  BY Start
<1>2. IInv /\ [Next]_vars => IInv'
  BY Step
<1> QED
  BY <1>1, <1>2, PTL DEF Spec

\* Type correctness of queue, requests and the server's table.
THEOREM TypeCorrect == Spec => []TypeOK
<1>1. IInv => TypeOK
  <2> SUFFICES ASSUME IInv
               PROVE  TypeOK
    OBVIOUS
  <2>1. Shape(queue) /\ queue \in QueueRec /\ Len(queue.groups) \in Nat
    BY Parts DEF IInv, Mid, Shape
  <2>2. \A j \in Ids(queue) :
          /\ queue.jobs[j].url \in Url
          /\ queue.jobs[j].group \in 0..Len(queue.groups)
          /\ queue.jobs[j].status \in Statuses
          /\ queue.jobs[j].attempts \in 0..MaxAttempts
          /\ queue.jobs[j].toasts \in 0..1
    <3>1. \A j \in Ids(queue) : queue.jobs[j] \in JobRec
      BY Inside
    <3>2. \A j \in Ids(queue) : queue.jobs[j].group <= Len(queue.groups)
      BY <2>1 DEF Shape
    <3> QED
      BY <2>1, <3>1, <3>2 DEF JobRec
  <2>3. \A g \in DOMAIN queue.groups : /\ Members(queue.groups[g]) \subseteq Ids(queue)
                                       /\ queue.groups[g].toasts \in 0..1
    <3>1. queue.groups \in [DOMAIN queue.groups -> GroupRec]
      BY <2>1, Parts
    <3> QED
      BY <2>1, <3>1 DEF Shape, GroupRec
  <2>4. /\ queue.threw \in BOOLEAN /\ queue.runner \in 0..Len(queue.jobs)
        /\ Len(queue.jobs) <= MaxJobs /\ Len(queue.groups) <= MaxGroups
    BY <2>1, Parts DEF Shape
  <2> QED
    BY <2>2, <2>3, <2>4 DEF TypeOK, IInv
<1> QED
  BY <1>1, Invariance, PTL

\* A job cancelled while it was queued, or while it waited out the rate limit, is never
\* scraped and sends nothing more (cancelJob).
THEOREM CancelledStaysHome == Spec => []OnlyRunningLands
<1>1. IInv => OnlyRunningLands
  BY Inside DEF OnlyRunningLands, Agrees
<1> QED
  BY <1>1, Invariance, PTL

\* Of the jobs that were neither cancelled nor cut off by the network, one at most is on
\* the server or on its way there: the pump works one job off at a time.
THEOREM OneOnTheServer == Spec => []OneAtATime
<1>1. IInv => OneAtATime
  <2> SUFFICES ASSUME IInv
               PROVE  OneAtATime
    OBVIOUS
  <2>1. ASSUME NEW k \in Ids(queue), server[k] \in {"queued", "running"} \/ wire[k] = "POST",
               queue.jobs[k].status # "cancelled", queue.jobs[k].error # "network"
        PROVE  queue.runner = k
    <3>1. /\ queue.jobs[k] \in JobRec /\ Told(queue.jobs[k])
          /\ Agrees(queue.jobs[k], queue.runner = k, wire[k], server[k])
      BY Inside
    <3>2. queue.jobs[k].status \in Statuses /\ queue.jobs[k].error \in Errors
      BY <3>1 DEF JobRec
    <3>3. queue.jobs[k].status = "error" => FALSE
      BY <2>1, <3>1, <3>2 DEF Agrees, Told, Errors
    <3> QED
      BY <2>1, <3>1, <3>2, <3>3 DEF Agrees, Statuses, Active
  <2> QED
    BY <2>1 DEF OneAtATime
<1> QED
  BY <1>1, Invariance, PTL

\* What the tab shows of an ended job is what became of it on the server.
THEOREM TabTellsTheTruth == Spec => []ShowsTheTruth
<1>1. IInv => ShowsTheTruth
  BY Inside DEF ShowsTheTruth, Agrees
<1> QED
  BY <1>1, Invariance, PTL

\* Every job that ended by itself, outside a group, has been announced, once.
THEOREM AnnouncedOnce == Spec => []EndingsAnnounced
<1>1. IInv => EndingsAnnounced
  <2> SUFFICES ASSUME IInv
               PROVE  EndingsAnnounced
    OBVIOUS
  <2>1. \A j \in Ids(queue) : Told(queue.jobs[j])
    BY Inside
  <2>2. \A j \in Ids(queue) : queue.jobs[j].status \notin Active => queue.jobs[j].notified
    BY DEF IInv, Quiet
  <2> QED
    BY <2>1, <2>2 DEF EndingsAnnounced, Told, Active
<1> QED
  BY <1>1, Invariance, PTL

=============================================================================
