-------------------------- MODULE ScrapeJobs_proofs --------------------------
(***************************************************************************)
(* Proofs about ScrapeJobs, for any number of jobs and discovery requests, *)
(* any table size and any number of navigation attempts.                   *)
(***************************************************************************)
EXTENDS ScrapeJobs, FiniteSetTheorems, WellFoundedInduction, TLAPS

-----------------------------------------------------------------------------
(* What the helpers do.                                                    *)

\* Eviction only drops entries, only ended ones, and leaves the rest as it is.
LEMMA EvictionKeeps ==
    ASSUME NEW tbl, NEW j \in DOMAIN tbl, tbl[j].status \notin Finals
    PROVE  /\ j \in DOMAIN EvictOldJobs(tbl)
           /\ EvictOldJobs(tbl)[j] = tbl[j]
BY DEF EvictOldJobs, Evictable, FinishedIn

LEMMA EvictionShrinks ==
    ASSUME NEW tbl
    PROVE  /\ DOMAIN EvictOldJobs(tbl) \subseteq DOMAIN tbl
           /\ \A j \in DOMAIN EvictOldJobs(tbl) : EvictOldJobs(tbl)[j] = tbl[j]
BY DEF EvictOldJobs

\* What the table looks like after POST /scrape: some entries are gone, all of
\* them ended ones; the new job is queued; the others are as they were.
LEMMA CreateJobEffect ==
    ASSUME NEW j \in Job, TypeOK, j \notin DOMAIN jobs, CreateJob(j)
    PROVE  /\ DOMAIN jobs' \subseteq DOMAIN jobs \cup {j}
           /\ jobs' \in [DOMAIN jobs' -> Entry]
           /\ j \in DOMAIN jobs' /\ jobs'[j] = NewEntry
           /\ \A i \in DOMAIN jobs' : i # j => jobs'[i] = jobs[i]
           /\ \A i \in DOMAIN jobs \ DOMAIN jobs' : jobs[i].status \in Finals
<1> DEFINE tbl == [i \in DOMAIN jobs \cup {j} |-> IF i = j THEN NewEntry ELSE jobs[i]]
<1>1. jobs' = EvictOldJobs(tbl)
  BY DEF CreateJob
<1>2. /\ tbl \in [DOMAIN jobs \cup {j} -> Entry]
      /\ tbl[j] = NewEntry
      /\ NewEntry.status = "queued"
      /\ \A i \in DOMAIN jobs : i # j /\ tbl[i] = jobs[i]
  BY DEF TypeOK, NewEntry, Entry
<1> HIDE DEF tbl
<1>3. DOMAIN tbl = DOMAIN jobs \cup {j}
  BY <1>2
<1>4. \A i \in DOMAIN tbl : tbl[i].status \notin Finals => i \in DOMAIN jobs' /\ jobs'[i] = tbl[i]
  BY <1>1, EvictionKeeps
<1>5. /\ DOMAIN jobs' \subseteq DOMAIN tbl
      /\ \A i \in DOMAIN jobs' : jobs'[i] = tbl[i]
  BY <1>1, EvictionShrinks
<1>6. jobs' = [i \in DOMAIN jobs' |-> jobs'[i]]
  BY <1>1 DEF EvictOldJobs
<1>7. jobs' \in [DOMAIN jobs' -> Entry]
  BY <1>2, <1>3, <1>5, <1>6
<1> QED
  BY <1>2, <1>3, <1>4, <1>5, <1>7 DEF Finals

-----------------------------------------------------------------------------
(* Type correctness.                                                       *)

LEMMA InitTypeOK == Init => TypeOK
<1>1. ASSUME Init
      PROVE  DOMAIN jobs = {} /\ jobs \in [DOMAIN jobs -> Entry]
  BY <1>1 DEF Init
<1>2. ASSUME Init
      PROVE  /\ task \in [Session -> Stage]
             /\ attempt \in 1..NavAttempts /\ waiters \in Seq(Session)
  BY <1>2, JobAssumption DEF Init, Stage
<1> QED
  BY <1>1, <1>2 DEF Init, TypeOK

\* An entry stays an entry when one of its fields is assigned, and the other
\* entries stay as they are.
LEMMA SetStatusEffect ==
    ASSUME jobs \in [DOMAIN jobs -> Entry], NEW j \in DOMAIN jobs,
           NEW s \in {"queued", "running"} \cup Finals, SetStatus(j, s)
    PROVE  /\ DOMAIN jobs' = DOMAIN jobs
           /\ jobs' \in [DOMAIN jobs -> Entry]
           /\ jobs'[j] = [jobs[j] EXCEPT !.status = s]
           /\ \A i \in DOMAIN jobs : i # j => jobs'[i] = jobs[i]
<1>1. [jobs[j] EXCEPT !.status = s] \in Entry
  BY DEF Entry
<1>2. jobs' = [jobs EXCEPT ![j] = [jobs[j] EXCEPT !.status = s]]
  BY DEF SetStatus
<1> QED
  BY <1>1, <1>2

\* The fields result and error, likewise.
LEMMA SetPayloadEffect ==
    ASSUME jobs \in [DOMAIN jobs -> Entry], NEW j \in DOMAIN jobs
    PROVE  /\ jobs' = [jobs EXCEPT ![j].result = "tracks"] =>
                 /\ DOMAIN jobs' = DOMAIN jobs
                 /\ jobs' \in [DOMAIN jobs -> Entry]
                 /\ jobs'[j] = [jobs[j] EXCEPT !.result = "tracks"]
                 /\ \A i \in DOMAIN jobs : i # j => jobs'[i] = jobs[i]
           /\ \A e \in {"none"} \cup Errors : jobs' = [jobs EXCEPT ![j].error = e] =>
                 /\ DOMAIN jobs' = DOMAIN jobs
                 /\ jobs' \in [DOMAIN jobs -> Entry]
                 /\ jobs'[j] = [jobs[j] EXCEPT !.error = e]
                 /\ \A i \in DOMAIN jobs : i # j => jobs'[i] = jobs[i]
<1>1. ASSUME jobs' = [jobs EXCEPT ![j].result = "tracks"]
      PROVE  /\ DOMAIN jobs' = DOMAIN jobs
             /\ jobs' \in [DOMAIN jobs -> Entry]
             /\ jobs'[j] = [jobs[j] EXCEPT !.result = "tracks"]
             /\ \A i \in DOMAIN jobs : i # j => jobs'[i] = jobs[i]
  <2>1. [jobs[j] EXCEPT !.result = "tracks"] \in Entry
    BY DEF Entry
  <2>2. jobs' = [jobs EXCEPT ![j] = [jobs[j] EXCEPT !.result = "tracks"]]
    BY <1>1
  <2> QED
    BY <2>1, <2>2
<1>2. ASSUME NEW e \in {"none"} \cup Errors, jobs' = [jobs EXCEPT ![j].error = e]
      PROVE  /\ DOMAIN jobs' = DOMAIN jobs
             /\ jobs' \in [DOMAIN jobs -> Entry]
             /\ jobs'[j] = [jobs[j] EXCEPT !.error = e]
             /\ \A i \in DOMAIN jobs : i # j => jobs'[i] = jobs[i]
  <2>1. [jobs[j] EXCEPT !.error = e] \in Entry
    BY DEF Entry
  <2>2. jobs' = [jobs EXCEPT ![j] = [jobs[j] EXCEPT !.error = e]]
    BY <1>2
  <2> QED
    BY <2>1, <2>2
<1> QED
  BY <1>1, <1>2

\* Moving one task leaves the others where they are.
LEMMA MoveEffect ==
    ASSUME TypeOK, NEW s \in Session, NEW p \in Stage, task' = [task EXCEPT ![s] = p]
    PROVE  /\ task' \in [Session -> Stage]
           /\ task'[s] = p
           /\ \A t \in Session : t # s => task'[t] = task[t]
BY DEF TypeOK

LEMMA WaitersAreSessions ==
    ASSUME TypeOK
    PROVE  \A i \in 1..Len(waiters) : waiters[i] \in Session
<1>1. waiters \in Seq(Session)
  BY DEF TypeOK
<1> QED
  BY <1>1

LEMMA JobsAreSessions == Job \subseteq Session
BY DEF Session

\* The facts of the type invariant that the proofs below use one at a time.
LEMMA TypeFacts ==
    ASSUME TypeOK
    PROVE  /\ DOMAIN jobs \subseteq Job /\ jobs \in [DOMAIN jobs -> Entry]
           /\ now \in Nat /\ attempt \in 1..NavAttempts
           /\ task \in [Session -> Stage]
           /\ holder \in Session \cup {Nobody} /\ waiters \in Seq(Session)
           /\ loop \in Job \cup {Nobody}
           /\ lake \subseteq Job /\ rows \subseteq Job
           /\ raised \in [Job -> {"none"} \cup Errors]
           /\ seen \in [Job -> {"polling", "torn", "not found"} \cup Finals]
BY DEF TypeOK

\* A job that no assignment of a step touches keeps its part of the invariant.
LEMMA JobFrame ==
    ASSUME NEW j \in Job, JobAgrees(j),
           task'[j] = task[j], raised'[j] = raised[j], seen'[j] = seen[j],
           j \in DOMAIN jobs' <=> j \in DOMAIN jobs,
           j \in DOMAIN jobs => jobs'[j] = jobs[j],
           j \in lake' <=> j \in lake, j \in rows' <=> j \in rows
    PROVE  JobAgrees(j)'
BY DEF JobAgrees, EntryAgrees, StoresAgree, EndAgrees, SeenAgrees, Ending

\* A task that moves outside the browser and its queue does not disturb them.
LEMMA OffBrowser ==
    ASSUME IInv, UNCHANGED browser, NEW s \in Session,
           task[s] \notin InBrowser \cup {"waiting"}, task'[s] \notin InBrowser \cup {"waiting"},
           \A t \in Session : t # s => task'[t] = task[t]
    PROVE  PermitAccounted' /\ QueueAgrees'
<1>1. PermitAccounted /\ QueueAgrees /\ holder \in Session \cup {Nobody}
      /\ holder' = holder /\ waiters' = waiters
  BY DEF IInv, TypeOK, browser
<1>2. \A i \in 1..Len(waiters) : waiters[i] \in Session
  BY WaitersAreSessions DEF IInv
<1>3. \A i \in 1..Len(waiters) : task[waiters[i]] = "waiting" => waiters[i] # s
  OBVIOUS
<1>4. QueueAgrees'
  BY <1>1, <1>2, <1>3 DEF QueueAgrees
<1>5. PermitAccounted'
  <2>1. holder # Nobody => holder # s
    BY <1>1 DEF PermitAccounted
  <2> QED
    BY <1>1, <2>1 DEF PermitAccounted
<1> QED
  BY <1>4, <1>5

\* The loop is handed on, or given back, by the job that owned it.
LEMMA LoopStep ==
    ASSUME IInv, NEW j \in Job, loop = j,
           \A i \in Job : i # j => task'[i] = task[i],
           \/ task'[j] \in InStretch /\ loop' = j
           \/ task'[j] \notin InStretch /\ loop' = Nobody
    PROVE  LoopAgrees'
<1>1. j # Nobody
  BY JobAssumption DEF Session
<1>2. \A i \in Job : i # j => task[i] \notin InStretch
  BY <1>1 DEF IInv, LoopAgrees
<1> QED
  BY <1>1, <1>2 DEF LoopAgrees

\* Taking the permit or queueing for it.
LEMMA AcquireEffect ==
    ASSUME IInv, NEW s \in Session, task[s] \in {"none", "accepted"}, Acquire(s)
    PROVE  /\ task' \in [Session -> Stage]
           /\ task'[s] \in {"launching", "waiting"}
           /\ \A t \in Session : t # s => task'[t] = task[t]
           /\ holder' \in Session \cup {Nobody} /\ waiters' \in Seq(Session)
           /\ attempt' \in 1..NavAttempts
           /\ PermitAccounted' /\ QueueAgrees'
<1>1. /\ TypeOK /\ PermitAccounted /\ QueueAgrees
      /\ waiters \in Seq(Session) /\ holder \in Session \cup {Nobody}
      /\ attempt \in 1..NavAttempts
      /\ \A i \in 1..Len(waiters) : waiters[i] \in Session
  BY WaitersAreSessions, TypeFacts DEF IInv
<1>2. s # Nobody /\ 1 \in 1..NavAttempts
  BY JobAssumption
<1>3. "launching" \in Stage /\ "waiting" \in Stage
  BY DEF Stage, Live, InBrowser
<1>4. CASE holder = Nobody
  <2>1. /\ holder' = s /\ attempt' = 1 /\ waiters' = waiters
        /\ task' = [task EXCEPT ![s] = "launching"]
    BY <1>4 DEF Acquire
  <2>2. /\ task' \in [Session -> Stage] /\ task'[s] = "launching"
        /\ \A t \in Session : t # s => task'[t] = task[t]
    BY <1>1, <1>3, <2>1, MoveEffect
  <2>3. waiters = <<>> /\ Len(waiters) = 0
    BY <1>1, <1>4 DEF PermitAccounted
  <2>4. \A t \in Session : task[t] \notin InBrowser /\ task[t] # "waiting"
    BY <1>1, <1>4, <2>3, JobAssumption DEF PermitAccounted
  <2>5. PermitAccounted'
    BY <1>2, <2>1, <2>2, <2>4 DEF PermitAccounted, InBrowser
  <2>6. QueueAgrees'
    BY <2>1, <2>3 DEF QueueAgrees
  <2> QED
    BY <1>1, <1>2, <2>1, <2>2, <2>5, <2>6
<1>5. CASE holder # Nobody
  <2>1. /\ holder' = holder /\ attempt' = attempt /\ waiters' = Append(waiters, s)
        /\ task' = [task EXCEPT ![s] = "waiting"]
    BY <1>5 DEF Acquire
  <2>2. /\ task' \in [Session -> Stage] /\ task'[s] = "waiting"
        /\ \A t \in Session : t # s => task'[t] = task[t]
    BY <1>1, <1>3, <2>1, MoveEffect
  <2>3. /\ waiters' \in Seq(Session)
        /\ Len(waiters') = Len(waiters) + 1 /\ Len(waiters) \in Nat
        /\ \A i \in 1..Len(waiters) : waiters'[i] = waiters[i]
        /\ waiters'[Len(waiters) + 1] = s
    BY <1>1, <2>1
  <2>4. holder \in Session /\ holder # s
    BY <1>1, <1>5 DEF PermitAccounted, InBrowser
  <2>5. PermitAccounted'
    <3>1. waiters' # <<>>
      BY <2>3
    <3>2. task'[holder'] \in InBrowser \cup {"waiting"}
      BY <1>1, <1>5, <2>1, <2>2, <2>4 DEF PermitAccounted
    <3>3. \A t \in Session : task'[t] \in InBrowser => holder' = t
      BY <1>1, <2>1, <2>2 DEF PermitAccounted, InBrowser
    <3>4. ASSUME NEW t \in Session, task'[t] = "waiting"
          PROVE  holder' = t \/ \E i \in 1..Len(waiters') : waiters'[i] = t
      <4>1. CASE t = s
        BY <2>3, <4>1
      <4>2. CASE t # s
        <5>1. holder = t \/ \E i \in 1..Len(waiters) : waiters[i] = t
          BY <1>1, <2>2, <3>4, <4>2 DEF PermitAccounted
        <5> QED
          BY <2>1, <2>3, <5>1
      <4> QED
        BY <4>1, <4>2
    <3> QED
      BY <1>5, <2>1, <3>2, <3>3, <3>4 DEF PermitAccounted
  <2>6. QueueAgrees'
    <3>1. \A i \in 1..Len(waiters) : waiters[i] # s
      BY <1>1 DEF QueueAgrees
    <3>2. ASSUME NEW i \in 1..Len(waiters')
          PROVE  /\ task'[waiters'[i]] = "waiting"
                 /\ waiters'[i] # holder'
                 /\ \A k \in 1..Len(waiters') : waiters'[k] = waiters'[i] => k = i
      <4>1. CASE i = Len(waiters) + 1
        BY <2>1, <2>2, <2>3, <2>4, <3>1, <4>1
      <4>2. CASE i \in 1..Len(waiters)
        BY <1>1, <2>1, <2>2, <2>3, <3>1, <4>2 DEF QueueAgrees
      <4> QED
        BY <2>3, <4>1, <4>2
    <3> QED
      BY <3>2 DEF QueueAgrees
  <2> QED
    BY <1>1, <2>1, <2>2, <2>3, <2>5, <2>6
<1> QED
  BY <1>4, <1>5

\* Giving the permit up, or handing it to the first waiter.
LEMMA ReleaseEffect ==
    ASSUME IInv, NEW s \in Session, holder = s, task[s] \in InBrowser, Release,
           task'[s] \notin InBrowser \cup {"waiting"},
           \A t \in Session : t # s => task'[t] = task[t]
    PROVE  /\ holder' \in Session \cup {Nobody} /\ waiters' \in Seq(Session)
           /\ attempt' \in 1..NavAttempts
           /\ PermitAccounted' /\ QueueAgrees'
<1>1. /\ TypeOK /\ PermitAccounted /\ QueueAgrees
      /\ waiters \in Seq(Session) /\ Len(waiters) \in Nat
      /\ \A i \in 1..Len(waiters) : waiters[i] \in Session
  <2>1. waiters \in Seq(Session)
    BY TypeFacts DEF IInv
  <2>2. Len(waiters) \in Nat
    BY <2>1
  <2> QED
    BY <2>1, <2>2, WaitersAreSessions DEF IInv
<1>2. s # Nobody /\ 1 \in 1..NavAttempts
  BY JobAssumption
<1>3. \A t \in Session : t # s => task[t] \notin InBrowser
  BY <1>1 DEF PermitAccounted
<1>4. CASE waiters = <<>>
  <2>1. holder' = Nobody /\ waiters' = waiters /\ attempt' = 1
    BY <1>4 DEF Release
  <2>2. \A t \in Session : task'[t] \notin InBrowser \cup {"waiting"}
    BY <1>1, <1>3, <1>4 DEF PermitAccounted
  <2>3. PermitAccounted' /\ QueueAgrees'
    BY <1>4, <2>1, <2>2 DEF PermitAccounted, QueueAgrees
  <2> QED
    BY <1>1, <1>2, <2>1, <2>3
<1>5. CASE waiters # <<>>
  <2>1. holder' = Head(waiters) /\ waiters' = Tail(waiters) /\ attempt' = 1
    BY <1>5 DEF Release
  <2>2. /\ Len(waiters) >= 1 /\ holder' = waiters[1] /\ 1 \in 1..Len(waiters)
        /\ waiters' \in Seq(Session)
        /\ Len(waiters') = Len(waiters) - 1
        /\ \A i \in 1..Len(waiters') : waiters'[i] = waiters[i + 1]
    BY <1>1, <1>5, <2>1
  <2>3. \A i \in 1..Len(waiters) : waiters[i] # s /\ task'[waiters[i]] = "waiting"
    BY <1>1 DEF QueueAgrees
  <2>4. holder' \in Session /\ holder' # Nobody
    BY <1>1, <2>2, JobAssumption
  <2>5. PermitAccounted'
    <3>1. \A t \in Session : task'[t] \notin InBrowser
      BY <1>3
    <3>2. ASSUME NEW t \in Session, task'[t] = "waiting"
          PROVE  holder' = t \/ \E i \in 1..Len(waiters') : waiters'[i] = t
      <4>1. t # s
        BY <3>2
      <4>2. PICK i \in 1..Len(waiters) : waiters[i] = t
        BY <1>1, <3>2, <4>1 DEF PermitAccounted
      <4>3. CASE i = 1
        BY <2>2, <4>2, <4>3
      <4>4. CASE i # 1
        <5>1. i - 1 \in 1..Len(waiters') /\ waiters'[i - 1] = t
          BY <1>1, <2>2, <4>2, <4>4
        <5> QED
          BY <5>1
      <4> QED
        BY <4>3, <4>4
    <3> QED
      BY <2>2, <2>3, <2>4, <3>1, <3>2 DEF PermitAccounted
  <2>6. QueueAgrees'
    <3>1. ASSUME NEW i \in 1..Len(waiters')
          PROVE  /\ task'[waiters'[i]] = "waiting"
                 /\ waiters'[i] # holder'
                 /\ \A k \in 1..Len(waiters') : waiters'[k] = waiters'[i] => k = i
      <4>1. i + 1 \in 1..Len(waiters) /\ i + 1 # 1
        BY <1>1, <2>2
      <4>2. \A k \in 1..Len(waiters') : k + 1 \in 1..Len(waiters)
        BY <1>1, <2>2
      <4> QED
        BY <1>1, <2>2, <2>3, <4>1, <4>2 DEF QueueAgrees
    <3> QED
      BY <3>1 DEF QueueAgrees
  <2> QED
    BY <1>2, <2>1, <2>2, <2>4, <2>5, <2>6
<1> QED
  BY <1>4, <1>5

-----------------------------------------------------------------------------
(* One lemma per kind of step: it preserves the inductive invariant.       *)

\* POST /scrape.
LEMMA SubmitStep ==
    ASSUME IInv, NEW j \in Job, Submit(j)
    PROVE  IInv'
<1>1. /\ TypeOK /\ JobAgrees(j)
      /\ loop = Nobody /\ task[j] = "none"
      /\ j \notin DOMAIN jobs /\ DOMAIN jobs \subseteq Job
      /\ UNCHANGED <<browser, loop, raised, lake, rows, seen>>
  BY DEF IInv, JobAgrees, EntryAgrees, Shows, Running, InBrowser, Submit, LoopFree, TypeOK
<1>2. /\ DOMAIN jobs' \subseteq DOMAIN jobs \cup {j}
      /\ jobs' \in [DOMAIN jobs' -> Entry]
      /\ j \in DOMAIN jobs' /\ jobs'[j] = NewEntry
      /\ \A i \in DOMAIN jobs' : i # j => jobs'[i] = jobs[i]
      /\ \A i \in DOMAIN jobs \ DOMAIN jobs' : jobs[i].status \in Finals
  BY <1>1, CreateJobEffect DEF Submit
<1>3. NewEntry.status = "queued" /\ NewEntry.error = "none"
  BY DEF NewEntry
<1>4. /\ task' \in [Session -> Stage]
      /\ task'[j] = "accepted"
      /\ \A t \in Job : t # j => task'[t] = task[t]
      /\ \A t \in Session : t # j => task'[t] = task[t]
  <2>1. "accepted" \in Stage
    BY DEF Stage, Live
  <2> QED
    BY <1>1, <2>1, MoveEffect, JobsAreSessions DEF Submit
<1>5. TypeOK'
  <2>1. now' \in Nat
    <3>1. now' = now + 1
      BY DEF Submit, CreateJob
    <3>2. now \in Nat
      BY <1>1, TypeFacts
    <3> QED
      BY <3>1, <3>2
  <2>2. DOMAIN jobs' \subseteq Job
    BY <1>1, <1>2
  <2> QED
    BY <1>1, <1>2, <1>4, <2>1, <2>2, TypeFacts DEF TypeOK, browser
<1>6. LoopAgrees'
  BY <1>1, <1>4 DEF IInv, LoopAgrees, InStretch
<1>7. PermitAccounted' /\ QueueAgrees'
  BY <1>1, <1>4, OffBrowser, JobsAreSessions DEF InBrowser
<1>8. JobAgrees(j)'
  BY <1>1, <1>2, <1>3, <1>4
  DEF JobAgrees, EntryAgrees, StoresAgree, EndAgrees, SeenAgrees, Ending, Shows, BeforeLake
<1>9. ASSUME NEW i \in Job, i # j
      PROVE  JobAgrees(i)'
  <2>1. JobAgrees(i) /\ task[i] \notin InStretch
    BY <1>1, JobAssumption DEF IInv, LoopAgrees, Session
  <2>2. CASE i \in DOMAIN jobs \ DOMAIN jobs'
    <3>1. task[i] = "returned"
      BY <1>2, <2>1, <2>2 DEF JobAgrees, EntryAgrees, Shows, Finals, InStretch
    <3> QED
      BY <1>1, <1>4, <1>9, <2>1, <2>2, <3>1
      DEF JobAgrees, EntryAgrees, StoresAgree, EndAgrees, SeenAgrees, Ending, Live, InBrowser, InStretch
  <2>3. CASE i \notin DOMAIN jobs \ DOMAIN jobs'
    BY <1>1, <1>2, <1>4, <1>9, <2>1, <2>3, JobFrame
  <2> QED
    BY <2>2, <2>3
<1> QED
  BY <1>5, <1>6, <1>7, <1>8, <1>9 DEF IInv

\* set_running and the semaphore.
LEMMA StartTaskStep ==
    ASSUME IInv, NEW j \in Job, StartTask(j)
    PROVE  IInv'
<1>1. /\ TypeOK /\ JobAgrees(j) /\ task[j] = "accepted" /\ loop = Nobody
      /\ SetStatus(j, "running") /\ Acquire(j)
      /\ UNCHANGED <<now, loop, raised, lake, rows, seen>>
      /\ j \in Session
  BY JobsAreSessions DEF IInv, StartTask, LoopFree
<1>2. /\ j \in DOMAIN jobs
      /\ jobs[j].error = "none"
      /\ jobs \in [DOMAIN jobs -> Entry]
      /\ DOMAIN jobs \subseteq Job
  BY <1>1, TypeFacts DEF JobAgrees, EntryAgrees, Live
<1>3. /\ DOMAIN jobs' = DOMAIN jobs /\ jobs' \in [DOMAIN jobs -> Entry]
      /\ jobs'[j] = [jobs[j] EXCEPT !.status = "running"]
      /\ \A i \in DOMAIN jobs : i # j => jobs'[i] = jobs[i]
  BY <1>1, <1>2, SetStatusEffect
<1>4. jobs'[j].status = "running" /\ jobs'[j].error = "none"
  <2>1. jobs[j] \in Entry
    BY <1>2
  <2> QED
    BY <1>2, <1>3, <2>1 DEF Entry
<1>5. /\ task' \in [Session -> Stage]
      /\ task'[j] \in {"launching", "waiting"}
      /\ \A t \in Session : t # j => task'[t] = task[t]
      /\ holder' \in Session \cup {Nobody} /\ waiters' \in Seq(Session)
      /\ attempt' \in 1..NavAttempts
      /\ PermitAccounted' /\ QueueAgrees'
  BY <1>1, AcquireEffect
<1>6. TypeOK'
  BY <1>1, <1>2, <1>3, <1>5, TypeFacts DEF TypeOK
<1>7. LoopAgrees'
  BY <1>1, <1>5, JobsAreSessions DEF IInv, LoopAgrees, InStretch
<1>8. JobAgrees(j)'
  BY <1>1, <1>2, <1>3, <1>4, <1>5
  DEF JobAgrees, EntryAgrees, StoresAgree, EndAgrees, SeenAgrees, Ending, Shows, Running, BeforeLake, InBrowser
<1>9. ASSUME NEW i \in Job, i # j
      PROVE  JobAgrees(i)'
  BY <1>1, <1>3, <1>5, <1>9, JobFrame, JobsAreSessions DEF IInv
<1> QED
  BY <1>5, <1>6, <1>7, <1>8, <1>9 DEF IInv

\* A discovery request reaches the semaphore.
LEMMA StartDiscoverStep ==
    ASSUME IInv, NEW d \in Discover, StartDiscover(d)
    PROVE  IInv'
<1>1. /\ TypeOK /\ task[d] = "none" /\ loop = Nobody /\ Acquire(d)
      /\ UNCHANGED <<jobs, now, loop, raised, lake, rows, seen>>
      /\ d \in Session /\ d \notin Job
  BY JobAssumption DEF IInv, StartDiscover, LoopFree, Session
<1>2. /\ task' \in [Session -> Stage]
      /\ \A t \in Job : task'[t] = task[t]
      /\ holder' \in Session \cup {Nobody} /\ waiters' \in Seq(Session)
      /\ attempt' \in 1..NavAttempts
      /\ PermitAccounted' /\ QueueAgrees'
  BY <1>1, AcquireEffect, JobsAreSessions
<1>3. TypeOK'
  BY <1>1, <1>2, TypeFacts DEF TypeOK
<1>4. LoopAgrees'
  BY <1>1, <1>2 DEF IInv, LoopAgrees
<1>5. ASSUME NEW i \in Job
      PROVE  JobAgrees(i)'
  BY <1>1, <1>2, JobFrame DEF IInv
<1> QED
  BY <1>2, <1>3, <1>4, <1>5 DEF IInv

\* Moving on inside the browser, the permit in hand.
LEMMA AdvanceStep ==
    ASSUME IInv, NEW s \in Session, NEW from \in {"waiting"} \cup InBrowser,
           NEW to \in InBrowser, Advance(s, from, to), attempt' \in 1..NavAttempts
    PROVE  IInv'
<1>1. /\ TypeOK /\ loop = Nobody /\ holder = s /\ task[s] = from
      /\ task' = [task EXCEPT ![s] = to]
      /\ UNCHANGED <<jobs, now, holder, waiters, loop, raised, lake, rows, seen>>
      /\ from \in {"waiting"} \cup InBrowser /\ to \in InBrowser
  BY DEF IInv, Advance, LoopFree
<1>2. /\ task' \in [Session -> Stage] /\ task'[s] = to
      /\ \A t \in Session : t # s => task'[t] = task[t]
  <2>1. to \in Stage
    BY DEF Stage, Live
  <2> QED
    BY <1>1, <2>1, MoveEffect
<1>3. TypeOK'
  BY <1>1, <1>2, TypeFacts DEF TypeOK
<1>4. LoopAgrees'
  BY <1>1, <1>2, JobsAreSessions DEF IInv, LoopAgrees, InStretch, InBrowser
<1>5. QueueAgrees'
  <2>1. \A i \in 1..Len(waiters) : waiters[i] \in Session /\ waiters[i] # s
    BY <1>1, WaitersAreSessions DEF IInv, QueueAgrees
  <2> QED
    BY <1>1, <1>2, <2>1 DEF IInv, QueueAgrees
<1>6. PermitAccounted'
  BY <1>1, <1>2, JobAssumption DEF IInv, PermitAccounted, InBrowser
<1>7. ASSUME NEW i \in Job
      PROVE  JobAgrees(i)'
  <2>1. CASE i = s
    BY <1>1, <1>2, <2>1
    DEF IInv, JobAgrees, EntryAgrees, StoresAgree, EndAgrees, SeenAgrees, Ending, Shows, Running,
        Live, BeforeLake, InBrowser
  <2>2. CASE i # s
    BY <1>1, <1>2, <2>2, JobFrame, JobsAreSessions DEF IInv
  <2> QED
    BY <2>1, <2>2
<1> QED
  BY <1>3, <1>4, <1>5, <1>6, <1>7 DEF IInv

\* fetch_html ends: a scrape goes on with its tracks or with a FetchError, a
\* discovery answers.
LEMMA LeaveBrowserStep ==
    ASSUME IInv, NEW s \in Session, task[s] \in InBrowser,
           NEW next \in {"parsing", "marking error"}, NEW exc \in {"none", "fetch"},
           LeaveBrowser(s, next, exc)
    PROVE  IInv'
<1>1. /\ TypeOK /\ loop = Nobody /\ holder = s /\ Release
      /\ UNCHANGED <<jobs, now, lake, rows, seen>>
      /\ s # Nobody
  BY JobAssumption DEF IInv, LeaveBrowser, LoopFree
<1>2. next \in Stage /\ "none" \in Stage
  BY DEF Stage, Live, InStretch
<1>3. CASE s \in Job
  <2>1. /\ loop' = s /\ task' = [task EXCEPT ![s] = next]
        /\ raised' = [raised EXCEPT ![s] = exc]
    BY <1>3 DEF LeaveBrowser
  <2>2. /\ task' \in [Session -> Stage] /\ task'[s] = next
        /\ \A t \in Session : t # s => task'[t] = task[t]
    BY <1>1, <1>2, <2>1, MoveEffect
  <2>3. /\ raised' \in [Job -> {"none"} \cup Errors] /\ raised'[s] = exc
        /\ \A t \in Job : t # s => raised'[t] = raised[t]
    BY <1>1, <1>3, <2>1, TypeFacts DEF Errors
  <2>4. /\ holder' \in Session \cup {Nobody} /\ waiters' \in Seq(Session)
        /\ attempt' \in 1..NavAttempts
        /\ PermitAccounted' /\ QueueAgrees'
    BY <1>1, <2>2, ReleaseEffect DEF InBrowser
  <2>5. TypeOK'
    BY <1>1, <1>3, <2>1, <2>2, <2>3, <2>4, TypeFacts DEF TypeOK
  <2>6. LoopAgrees'
    BY <1>1, <1>3, <2>1, <2>2, JobAssumption, JobsAreSessions DEF IInv, LoopAgrees, InStretch
  <2>7. JobAgrees(s)'
    BY <1>1, <1>3, <2>2, <2>3
    DEF IInv, JobAgrees, EntryAgrees, StoresAgree, EndAgrees, SeenAgrees, Ending, Shows, Running,
        Live, BeforeLake, InBrowser
  <2>8. ASSUME NEW i \in Job, i # s
        PROVE  JobAgrees(i)'
    BY <1>1, <2>2, <2>3, <2>8, JobFrame, JobsAreSessions DEF IInv
  <2> QED
    BY <2>4, <2>5, <2>6, <2>7, <2>8 DEF IInv
<1>4. CASE s \notin Job
  <2>1. /\ loop' = loop /\ raised' = raised /\ task' = [task EXCEPT ![s] = "none"]
    BY <1>4 DEF LeaveBrowser
  <2>2. /\ task' \in [Session -> Stage] /\ task'[s] = "none"
        /\ \A t \in Session : t # s => task'[t] = task[t]
        /\ \A t \in Job : task'[t] = task[t]
    BY <1>1, <1>2, <1>4, <2>1, MoveEffect, JobsAreSessions
  <2>3. /\ holder' \in Session \cup {Nobody} /\ waiters' \in Seq(Session)
        /\ attempt' \in 1..NavAttempts
        /\ PermitAccounted' /\ QueueAgrees'
    BY <1>1, <2>2, ReleaseEffect DEF InBrowser
  <2>4. TypeOK'
    BY <1>1, <2>1, <2>2, <2>3, TypeFacts DEF TypeOK
  <2>5. LoopAgrees'
    BY <1>1, <2>1, <2>2 DEF IInv, LoopAgrees
  <2>6. ASSUME NEW i \in Job
        PROVE  JobAgrees(i)'
    BY <1>1, <2>1, <2>2, JobFrame DEF IInv
  <2> QED
    BY <2>3, <2>4, <2>5, <2>6 DEF IInv
<1> QED
  BY <1>3, <1>4

\* What every step of the await-free stretch has in common.
LEMMA StepEffect ==
    ASSUME IInv, NEW j \in Job, NEW from \in InStretch,
           NEW to \in InStretch \cup {"returned", "crashed"}, Step(j, from, to)
    PROVE  /\ TypeOK /\ JobAgrees(j) /\ loop = j /\ task[j] = from
           /\ j \in DOMAIN jobs /\ jobs[j] \in Entry /\ jobs[j].error = "none"
           /\ Shows(from, jobs[j].status)
           /\ task' \in [Session -> Stage] /\ task'[j] = to
           /\ \A t \in Session : t # j => task'[t] = task[t]
           /\ UNCHANGED <<now, holder, waiters, attempt, seen>>
           /\ PermitAccounted' /\ QueueAgrees'
<1>1. /\ TypeOK /\ JobAgrees(j) /\ loop = j /\ task[j] = from
      /\ task' = [task EXCEPT ![j] = to]
      /\ UNCHANGED <<now, browser, holder, waiters, attempt, seen>>
      /\ j \in Session
  BY JobsAreSessions DEF IInv, Step, browser
<1>2. to \in Stage
  BY DEF Stage, Live, Gone
<1>3. /\ task' \in [Session -> Stage] /\ task'[j] = to
      /\ \A t \in Session : t # j => task'[t] = task[t]
  BY <1>1, <1>2, MoveEffect
<1>4. PermitAccounted' /\ QueueAgrees'
  BY <1>1, <1>3, OffBrowser DEF InBrowser, InStretch
<1>5. /\ j \in DOMAIN jobs /\ Shows(from, jobs[j].status) /\ jobs[j].error = "none"
  BY <1>1 DEF JobAgrees, EntryAgrees, Live, InStretch
<1>6. jobs[j] \in Entry
  BY <1>1, <1>5, TypeFacts
<1> QED
  BY <1>1, <1>3, <1>4, <1>5, <1>6

\* Putting the invariant together again after a step of job j's stretch.
LEMMA StretchFrame ==
    ASSUME IInv, NEW j \in Job, loop = j,
           task' \in [Session -> Stage],
           \A t \in Session : t # j => task'[t] = task[t],
           UNCHANGED <<now, holder, waiters, attempt, seen>>,
           PermitAccounted' /\ QueueAgrees',
           \/ task'[j] \in InStretch /\ loop' = j
           \/ task'[j] \notin InStretch /\ loop' = Nobody,
           DOMAIN jobs' = DOMAIN jobs, jobs' \in [DOMAIN jobs -> Entry],
           \A i \in DOMAIN jobs : i # j => jobs'[i] = jobs[i],
           raised' \in [Job -> {"none"} \cup Errors],
           \A i \in Job : i # j => raised'[i] = raised[i],
           lake' \in {lake, lake \cup {j}}, rows' \in {rows, rows \cup {j}},
           JobAgrees(j)'
    PROVE  IInv'
<1>1. TypeOK'
  <2>1. lake' \subseteq Job /\ rows' \subseteq Job
    BY TypeFacts DEF IInv
  <2>2. loop' \in Job \cup {Nobody}
    OBVIOUS
  <2> QED
    BY <2>1, <2>2, TypeFacts DEF IInv, TypeOK
<1>2. LoopAgrees'
  BY LoopStep, JobsAreSessions
<1>3. ASSUME NEW i \in Job, i # j
      PROVE  JobAgrees(i)'
  BY <1>3, JobFrame, JobsAreSessions DEF IInv
<1> QED
  BY <1>1, <1>2, <1>3 DEF IInv

\* A step of the stretch that leaves the table alone.
LEMMA QuietFrame ==
    ASSUME IInv, NEW j \in Job, NEW from \in InStretch \cap Running, NEW to \in Running,
           to \in InStretch \cup {"crashed"}, Step(j, from, to),
           loop' = IF to \in InStretch THEN j ELSE Nobody,
           UNCHANGED jobs,
           raised' \in [Job -> {"none"} \cup Errors],
           \A i \in Job : i # j => raised'[i] = raised[i],
           lake' \in {lake, lake \cup {j}}, rows' \in {rows, rows \cup {j}},
           StoresAgree(j)'
    PROVE  IInv'
<1>1. /\ TypeOK /\ JobAgrees(j) /\ loop = j /\ task[j] = from
      /\ j \in DOMAIN jobs /\ jobs[j].error = "none" /\ Shows(from, jobs[j].status)
      /\ task' \in [Session -> Stage] /\ task'[j] = to
      /\ \A t \in Session : t # j => task'[t] = task[t]
      /\ UNCHANGED <<now, holder, waiters, attempt, seen>>
      /\ PermitAccounted' /\ QueueAgrees'
  BY StepEffect
<1>2. jobs[j].status = "running"
  BY <1>1 DEF Shows, InStretch, Running, InBrowser
<1>3. EntryAgrees(j)'
  BY <1>1, <1>2 DEF EntryAgrees, Shows
<1>4. EndAgrees(j)'
  BY <1>1, <1>2 DEF EndAgrees
<1>5. SeenAgrees(j)'
  BY <1>1 DEF JobAgrees, SeenAgrees, Ending, InStretch, Running, InBrowser
<1>6. JobAgrees(j)'
  BY <1>3, <1>4, <1>5 DEF JobAgrees
<1>7. DOMAIN jobs' = DOMAIN jobs /\ jobs' \in [DOMAIN jobs -> Entry]
  BY <1>1, TypeFacts
<1>8. \/ task'[j] \in InStretch /\ loop' = j
      \/ task'[j] \notin InStretch /\ loop' = Nobody
  BY <1>1
<1> QED
  BY <1>1, <1>6, <1>7, <1>8, StretchFrame

\* Parsing, the login wall, the lake and the load, and the ways they fail.
LEMMA QuietStep ==
    ASSUME IInv, NEW j \in Job,
           \/ ParseOk(j) \/ LoginWall(j) \/ ParseFails(j) \/ LandRaw(j) \/ LandFails(j)
           \/ LoadTracks(j) \/ LoadFails(j)
    PROVE  IInv'
<1>1. /\ TypeOK /\ StoresAgree(j) /\ raised \in [Job -> {"none"} \cup Errors]
      /\ task \in [Session -> Stage] /\ j \in Session
  BY TypeFacts, JobsAreSessions DEF IInv, JobAgrees
<1>2. /\ {"parsing", "landing", "loading", "marking error"} \subseteq InStretch \cap Running
      /\ {"marking done", "crashed"} \subseteq Running
      /\ "marking done" \in InStretch
      /\ "crashed" \notin InStretch
  BY DEF InStretch, Running
<1>3. ASSUME NEW from, NEW to \in Stage, Step(j, from, to)
      PROVE  task[j] = from /\ task'[j] = to /\ loop = j
  BY <1>1, <1>3 DEF Step
<1>4. {"landing", "loading", "marking done", "marking error", "crashed"} \subseteq Stage
  BY DEF Stage, Live, Gone, InStretch
<1>5. CASE ParseOk(j)
  <2>1. /\ Step(j, "parsing", "landing") /\ UNCHANGED <<jobs, loop, raised, lake, rows>>
    BY <1>5 DEF ParseOk
  <2>2. task[j] = "parsing" /\ task'[j] = "landing" /\ loop = j
    BY <1>3, <1>4, <2>1
  <2>3. StoresAgree(j)'
    BY <1>1, <2>1, <2>2 DEF StoresAgree, BeforeLake
  <2> QED
    BY <1>1, <1>2, <2>1, <2>2, <2>3, QuietFrame
<1>6. CASE LoginWall(j)
  <2>1. /\ Step(j, "parsing", "marking error") /\ UNCHANGED <<jobs, loop, lake, rows>>
        /\ raised' = [raised EXCEPT ![j] = "login"]
    BY <1>6 DEF LoginWall, Raise
  <2>2. task[j] = "parsing" /\ task'[j] = "marking error" /\ loop = j
    BY <1>3, <1>4, <2>1
  <2>3. /\ raised' \in [Job -> {"none"} \cup Errors]
        /\ \A i \in Job : i # j => raised'[i] = raised[i]
    BY <1>1, <2>1 DEF Errors
  <2>4. StoresAgree(j)'
    BY <1>1, <2>1, <2>2 DEF StoresAgree, BeforeLake, InBrowser
  <2> QED
    BY <1>2, <2>1, <2>2, <2>3, <2>4, QuietFrame
<1>7. CASE ParseFails(j)
  <2>1. /\ Step(j, "parsing", "crashed") /\ UNCHANGED <<jobs, raised, lake, rows>>
        /\ loop' = Nobody
    BY <1>7 DEF ParseFails, Crash
  <2>2. task[j] = "parsing" /\ task'[j] = "crashed"
    BY <1>3, <1>4, <2>1
  <2>3. StoresAgree(j)'
    BY <1>1, <2>1, <2>2 DEF StoresAgree, BeforeLake, InBrowser
  <2> QED
    BY <1>1, <1>2, <2>1, <2>2, <2>3, QuietFrame
<1>8. CASE LandRaw(j)
  <2>1. /\ Step(j, "landing", "loading") /\ UNCHANGED <<jobs, loop, raised, rows>>
        /\ lake' = lake \cup {j}
    BY <1>8 DEF LandRaw
  <2>2. task[j] = "landing" /\ task'[j] = "loading" /\ loop = j
    BY <1>3, <1>4, <2>1
  <2>3. StoresAgree(j)'
    BY <1>1, <2>1, <2>2 DEF StoresAgree, BeforeLake, InBrowser
  <2> QED
    BY <1>1, <1>2, <2>1, <2>2, <2>3, QuietFrame
<1>9. CASE LandFails(j)
  <2>1. /\ Step(j, "landing", "marking error") /\ UNCHANGED <<jobs, loop, rows>>
        /\ raised' = [raised EXCEPT ![j] = "lake"]
        /\ lake' \in {lake, lake \cup {j}}
    BY <1>9 DEF LandFails, Raise
  <2>2. task[j] = "landing" /\ task'[j] = "marking error" /\ loop = j
    BY <1>3, <1>4, <2>1
  <2>3. /\ raised' \in [Job -> {"none"} \cup Errors] /\ raised'[j] = "lake"
        /\ \A i \in Job : i # j => raised'[i] = raised[i]
    BY <1>1, <2>1 DEF Errors
  <2>4. StoresAgree(j)'
    BY <1>1, <2>1, <2>2, <2>3 DEF StoresAgree, BeforeLake, InBrowser
  <2> QED
    BY <1>2, <2>1, <2>2, <2>3, <2>4, QuietFrame
<1>10. CASE LoadTracks(j)
  <2>1. /\ Step(j, "loading", "marking done") /\ UNCHANGED <<jobs, loop, raised, lake>>
        /\ rows' = rows \cup {j}
    BY <1>10 DEF LoadTracks
  <2>2. task[j] = "loading" /\ task'[j] = "marking done" /\ loop = j
    BY <1>3, <1>4, <2>1
  <2>3. StoresAgree(j)'
    BY <1>1, <2>1, <2>2 DEF StoresAgree, BeforeLake, InBrowser
  <2> QED
    BY <1>1, <1>2, <2>1, <2>2, <2>3, QuietFrame
<1>11. CASE LoadFails(j)
  <2>1. /\ Step(j, "loading", "crashed") /\ UNCHANGED <<jobs, raised, lake>>
        /\ loop' = Nobody /\ rows' \in {rows, rows \cup {j}}
    BY <1>11 DEF LoadFails, Crash
  <2>2. task[j] = "loading" /\ task'[j] = "crashed"
    BY <1>3, <1>4, <2>1
  <2>3. StoresAgree(j)'
    BY <1>1, <2>1, <2>2 DEF StoresAgree, BeforeLake, InBrowser
  <2> QED
    BY <1>1, <1>2, <2>1, <2>2, <2>3, QuietFrame
<1> QED
  BY <1>5, <1>6, <1>7, <1>8, <1>9, <1>10, <1>11

\* The two statements of set_done, and the two of set_error.
LEMMA WriteStep ==
    ASSUME IInv, NEW j \in Job,
           MarkDone(j) \/ FillResult(j) \/ MarkError(j) \/ FillError(j)
    PROVE  IInv'
<1>1. /\ "marking done" \in InStretch /\ "filling result" \in InStretch
      /\ "marking error" \in InStretch /\ "filling error" \in InStretch
      /\ "returned" \notin InStretch
  BY DEF InStretch
<1>2. /\ jobs \in [DOMAIN jobs -> Entry] /\ raised \in [Job -> {"none"} \cup Errors]
  BY TypeFacts DEF IInv
<1>3. CASE MarkDone(j)
  <2>1. /\ Step(j, "marking done", "filling result") /\ SetStatus(j, "done")
        /\ UNCHANGED <<loop, raised, lake, rows>>
    BY <1>3 DEF MarkDone
  <2>2. /\ TypeOK /\ JobAgrees(j) /\ loop = j /\ task[j] = "marking done"
        /\ j \in DOMAIN jobs /\ jobs[j] \in Entry /\ jobs[j].error = "none"
        /\ task' \in [Session -> Stage] /\ task'[j] = "filling result"
        /\ \A t \in Session : t # j => task'[t] = task[t]
        /\ UNCHANGED <<now, holder, waiters, attempt, seen>>
        /\ PermitAccounted' /\ QueueAgrees'
    BY <1>1, <2>1, StepEffect
  <2>3. /\ DOMAIN jobs' = DOMAIN jobs /\ jobs' \in [DOMAIN jobs -> Entry]
        /\ jobs'[j] = [jobs[j] EXCEPT !.status = "done"]
        /\ \A i \in DOMAIN jobs : i # j => jobs'[i] = jobs[i]
    BY <1>2, <2>1, <2>2, SetStatusEffect DEF Finals
  <2>4. jobs'[j].status = "done" /\ jobs'[j].error = "none"
    BY <2>2, <2>3 DEF Entry
  <2>5. JobAgrees(j)'
    BY <2>1, <2>2, <2>3, <2>4
    DEF JobAgrees, EntryAgrees, StoresAgree, EndAgrees, SeenAgrees, Ending, Shows, BeforeLake, InBrowser
  <2> QED
    BY <1>1, <1>2, <2>1, <2>2, <2>3, <2>5, StretchFrame
<1>4. CASE FillResult(j)
  <2>1. /\ Step(j, "filling result", "returned")
        /\ jobs' = [jobs EXCEPT ![j].result = "tracks"]
        /\ loop' = Nobody /\ UNCHANGED <<raised, lake, rows>>
    BY <1>4 DEF FillResult
  <2>2. /\ TypeOK /\ JobAgrees(j) /\ loop = j /\ task[j] = "filling result"
        /\ j \in DOMAIN jobs /\ jobs[j] \in Entry /\ jobs[j].error = "none"
        /\ Shows("filling result", jobs[j].status)
        /\ task' \in [Session -> Stage] /\ task'[j] = "returned"
        /\ \A t \in Session : t # j => task'[t] = task[t]
        /\ UNCHANGED <<now, holder, waiters, attempt, seen>>
        /\ PermitAccounted' /\ QueueAgrees'
    BY <1>1, <2>1, StepEffect
  <2>3. /\ DOMAIN jobs' = DOMAIN jobs /\ jobs' \in [DOMAIN jobs -> Entry]
        /\ jobs'[j] = [jobs[j] EXCEPT !.result = "tracks"]
        /\ \A i \in DOMAIN jobs : i # j => jobs'[i] = jobs[i]
    BY <1>2, <2>1, <2>2, SetPayloadEffect
  <2>4. jobs'[j].status = "done" /\ jobs'[j].error = "none"
    BY <2>2, <2>3 DEF Entry, Shows, Running, InBrowser
  <2>5. JobAgrees(j)'
    BY <2>1, <2>2, <2>3, <2>4
    DEF JobAgrees, EntryAgrees, StoresAgree, EndAgrees, SeenAgrees, Ending, Shows, BeforeLake, InBrowser,
        Live, InStretch, Finals
  <2> QED
    BY <1>1, <1>2, <2>1, <2>2, <2>3, <2>5, StretchFrame
<1>5. CASE MarkError(j)
  <2>1. /\ Step(j, "marking error", "filling error") /\ SetStatus(j, "error")
        /\ UNCHANGED <<loop, raised, lake, rows>>
    BY <1>5 DEF MarkError
  <2>2. /\ TypeOK /\ JobAgrees(j) /\ loop = j /\ task[j] = "marking error"
        /\ j \in DOMAIN jobs /\ jobs[j] \in Entry /\ jobs[j].error = "none"
        /\ task' \in [Session -> Stage] /\ task'[j] = "filling error"
        /\ \A t \in Session : t # j => task'[t] = task[t]
        /\ UNCHANGED <<now, holder, waiters, attempt, seen>>
        /\ PermitAccounted' /\ QueueAgrees'
    BY <1>1, <2>1, StepEffect
  <2>3. /\ DOMAIN jobs' = DOMAIN jobs /\ jobs' \in [DOMAIN jobs -> Entry]
        /\ jobs'[j] = [jobs[j] EXCEPT !.status = "error"]
        /\ \A i \in DOMAIN jobs : i # j => jobs'[i] = jobs[i]
    BY <1>2, <2>1, <2>2, SetStatusEffect DEF Finals
  <2>4. jobs'[j].status = "error" /\ jobs'[j].error = "none"
    BY <2>2, <2>3 DEF Entry
  <2>5. JobAgrees(j)'
    BY <2>1, <2>2, <2>3, <2>4
    DEF JobAgrees, EntryAgrees, StoresAgree, EndAgrees, SeenAgrees, Ending, Shows, BeforeLake, InBrowser
  <2> QED
    BY <1>1, <1>2, <2>1, <2>2, <2>3, <2>5, StretchFrame
<1>6. CASE FillError(j)
  <2>1. /\ Step(j, "filling error", "returned")
        /\ jobs' = [jobs EXCEPT ![j].error = raised[j]]
        /\ loop' = Nobody /\ UNCHANGED <<raised, lake, rows>>
    BY <1>6 DEF FillError
  <2>2. /\ TypeOK /\ JobAgrees(j) /\ loop = j /\ task[j] = "filling error"
        /\ j \in DOMAIN jobs /\ jobs[j] \in Entry
        /\ Shows("filling error", jobs[j].status)
        /\ task' \in [Session -> Stage] /\ task'[j] = "returned"
        /\ \A t \in Session : t # j => task'[t] = task[t]
        /\ UNCHANGED <<now, holder, waiters, attempt, seen>>
        /\ PermitAccounted' /\ QueueAgrees'
    BY <1>1, <2>1, StepEffect
  <2>3. /\ DOMAIN jobs' = DOMAIN jobs /\ jobs' \in [DOMAIN jobs -> Entry]
        /\ jobs'[j] = [jobs[j] EXCEPT !.error = raised[j]]
        /\ \A i \in DOMAIN jobs : i # j => jobs'[i] = jobs[i]
    BY <1>2, <2>1, <2>2, SetPayloadEffect
  <2>4. jobs'[j].status = "error" /\ jobs'[j].error = raised[j]
    BY <2>2, <2>3 DEF Entry, Shows, Running, InBrowser
  <2>5. JobAgrees(j)'
    BY <2>1, <2>2, <2>3, <2>4
    DEF JobAgrees, EntryAgrees, StoresAgree, EndAgrees, SeenAgrees, Ending, Shows, BeforeLake, InBrowser,
        Live, InStretch, Finals
  <2> QED
    BY <1>1, <1>2, <2>1, <2>2, <2>3, <2>5, StretchFrame
<1> QED
  BY <1>3, <1>4, <1>5, <1>6

\* GET /api/scrape/jobs/{id}.
LEMMA PollStep ==
    ASSUME IInv, NEW j \in Job, Poll(j)
    PROVE  IInv'
<1>1. /\ TypeOK /\ JobAgrees(j) /\ task[j] # "none"
      /\ UNCHANGED <<jobs, now, task, holder, waiters, attempt, loop, raised, lake, rows>>
      /\ seen' = [seen EXCEPT ![j] = Answer(j)]
  BY DEF IInv, Poll, browser
<1>2. Answer(j) \in {"polling", "torn", "not found"} \cup Finals
  BY DEF Answer, Finals
<1>3. /\ seen' \in [Job -> {"polling", "torn", "not found"} \cup Finals]
      /\ seen'[j] = Answer(j)
      /\ \A i \in Job : i # j => seen'[i] = seen[i]
  BY <1>1, <1>2, TypeFacts
<1>4. TypeOK'
  BY <1>1, <1>3, TypeFacts DEF TypeOK
<1>5. LoopAgrees' /\ PermitAccounted' /\ QueueAgrees'
  BY <1>1 DEF IInv, LoopAgrees, PermitAccounted, QueueAgrees
<1>6. SeenAgrees(j)'
  <2>1. CASE j \notin DOMAIN jobs
    <3>1. Answer(j) = "not found"
      BY <2>1 DEF Answer
    <3>2. task[j] \in Stage
      BY <1>1, TypeFacts, JobsAreSessions
    <3>3. task[j] \in {"returned", "lost"}
      BY <1>1, <2>1, <3>2 DEF JobAgrees, EntryAgrees, Stage, Gone
    <3> QED
      BY <1>1, <1>3, <3>1, <3>3 DEF SeenAgrees
  <2>2. CASE j \in DOMAIN jobs
    <3>1. /\ Answer(j) # "not found"
          /\ Answer(j) = "done" => jobs[j].status = "done"
          /\ Answer(j) = "error" => jobs[j].status = "error" /\ jobs[j].error # "none"
          /\ Answer(j) = "torn" => jobs[j].status \in Finals
      BY <2>2 DEF Answer, Finals
    <3>2. Answer(j) = "torn" => Ending(j)
      BY <1>1, <2>2, <3>1 DEF Ending, JobAgrees, EntryAgrees, Shows, Finals
    <3> QED
      BY <1>1, <1>3, <2>2, <3>1, <3>2 DEF SeenAgrees, Ending, JobAgrees, EntryAgrees, EndAgrees
  <2> QED
    BY <2>1, <2>2
<1>7. JobAgrees(j)'
  BY <1>1, <1>6 DEF JobAgrees, EntryAgrees, StoresAgree, EndAgrees
<1>8. ASSUME NEW i \in Job, i # j
      PROVE  JobAgrees(i)'
  BY <1>1, <1>3, <1>8, JobFrame DEF IInv
<1> QED
  BY <1>4, <1>5, <1>7, <1>8 DEF IInv

\* The pod is replaced.
LEMMA RestartStep ==
    ASSUME IInv, Restart
    PROVE  IInv'
<1>1. /\ DOMAIN jobs' = {} /\ holder' = Nobody /\ waiters' = <<>> /\ attempt' = 1
      /\ loop' = Nobody /\ raised' = [j \in Job |-> "none"]
      /\ UNCHANGED <<now, lake, rows, seen>>
  BY DEF Restart
<1>2. /\ task' \in [Session -> Stage]
      /\ \A s \in Session : task'[s] \in {"none", "lost"}
      /\ \A j \in Job : task'[j] = IF task[j] = "none" THEN "none" ELSE "lost"
  BY JobsAreSessions DEF Restart, Stage, Gone
<1>3. TypeOK'
  <2>1. jobs' \in [DOMAIN jobs' -> Entry]
    BY DEF Restart
  <2>2. 1 \in 1..NavAttempts /\ <<>> \in Seq(Session)
    BY JobAssumption
  <2>3. raised' \in [Job -> {"none"} \cup Errors]
    BY <1>1
  <2> QED
    BY <1>1, <1>2, <2>1, <2>2, <2>3, TypeFacts DEF IInv, TypeOK
<1>4. LoopAgrees' /\ PermitAccounted' /\ QueueAgrees'
  <2>1. 1..Len(waiters') = {}
    BY <1>1
  <2>2. QueueAgrees'
    BY <2>1 DEF QueueAgrees
  <2>3. LoopAgrees'
    BY <1>1, <1>2, JobsAreSessions DEF LoopAgrees, InStretch
  <2>4. PermitAccounted'
    BY <1>1, <1>2 DEF PermitAccounted, InBrowser
  <2> QED
    BY <2>2, <2>3, <2>4
<1>5. ASSUME NEW j \in Job
      PROVE  JobAgrees(j)'
  <2>1. JobAgrees(j)
    BY DEF IInv
  <2> QED
    BY <1>1, <1>2, <2>1
    DEF JobAgrees, EntryAgrees, StoresAgree, EndAgrees, SeenAgrees, Ending, Live, InBrowser, InStretch,
        BeforeLake
<1> QED
  BY <1>3, <1>4, <1>5 DEF IInv

-----------------------------------------------------------------------------
(* The invariant holds, and what follows from it.                          *)

LEMMA InitIInv == Init => IInv
<1> SUFFICES ASSUME Init PROVE IInv
  OBVIOUS
<1>1. TypeOK
  BY InitTypeOK
<1>2. /\ DOMAIN jobs = {} /\ waiters = <<>> /\ holder = Nobody /\ loop = Nobody
      /\ \A s \in Session : task[s] = "none"
      /\ \A j \in Job : seen[j] = "polling" /\ j \notin lake /\ j \notin rows
  BY DEF Init
<1>3. LoopAgrees /\ PermitAccounted /\ QueueAgrees
  <2>1. 1..Len(waiters) = {}
    BY <1>2
  <2>2. QueueAgrees
    BY <2>1 DEF QueueAgrees
  <2>3. LoopAgrees
    BY <1>2, JobsAreSessions DEF LoopAgrees, InStretch
  <2>4. PermitAccounted
    BY <1>2 DEF PermitAccounted, InBrowser
  <2> QED
    BY <2>2, <2>3, <2>4
<1>4. ASSUME NEW j \in Job
      PROVE  JobAgrees(j)
  BY <1>2, JobsAreSessions
  DEF JobAgrees, EntryAgrees, StoresAgree, EndAgrees, SeenAgrees, Live, InBrowser, InStretch
<1> QED
  BY <1>1, <1>3, <1>4 DEF IInv

LEMMA NextIInv == IInv /\ [Next]_vars => IInv'
<1> SUFFICES ASSUME IInv, [Next]_vars PROVE IInv'
  OBVIOUS
<1>1. ASSUME NEW j \in Job, Submit(j) PROVE IInv'
  BY <1>1, SubmitStep
<1>2. ASSUME NEW j \in Job, StartTask(j) PROVE IInv'
  BY <1>2, StartTaskStep
<1>3. ASSUME NEW j \in Job, Stretch(j) PROVE IInv'
  BY <1>3, QuietStep, WriteStep DEF Stretch
<1>4. ASSUME NEW j \in Job, Poll(j) PROVE IInv'
  BY <1>4, PollStep
<1>5. ASSUME NEW d \in Discover, StartDiscover(d) PROVE IInv'
  BY <1>5, StartDiscoverStep
<1>6. ASSUME NEW s \in Session, InTheBrowser(s) PROVE IInv'
  <2>0. attempt \in 1..NavAttempts /\ NavAttempts \in Nat
    BY TypeFacts, JobAssumption DEF IInv
  <2>1. CASE Resume(s)
    BY <2>0, <2>1, AdvanceStep DEF Resume, InBrowser
  <2>2. CASE Launched(s)
    BY <2>0, <2>2, AdvanceStep DEF Launched, InBrowser
  <2>3. CASE Navigated(s)
    BY <2>0, <2>3, AdvanceStep DEF Navigated, InBrowser
  <2>4. CASE RetryNavigation(s)
    <3>1. attempt' \in 1..NavAttempts
      BY <2>0, <2>4 DEF RetryNavigation
    <3> QED
      BY <2>4, <3>1, AdvanceStep DEF RetryNavigation, InBrowser
  <2>5. CASE FetchOk(s)
    <3>1. task[s] \in InBrowser /\ LeaveBrowser(s, "parsing", "none")
      BY <2>5 DEF FetchOk, InBrowser
    <3> QED
      BY <3>1, LeaveBrowserStep
  <2>6. CASE FetchFails(s)
    <3>1. task[s] \in InBrowser /\ LeaveBrowser(s, "marking error", "fetch")
      BY <2>6 DEF FetchFails
    <3> QED
      BY <3>1, LeaveBrowserStep
  <2> QED
    BY <1>6, <2>1, <2>2, <2>3, <2>4, <2>5, <2>6 DEF InTheBrowser
<1>7. CASE Restart
  BY <1>7, RestartStep
<1>8. CASE UNCHANGED vars
  <2>1. UNCHANGED <<jobs, now, task, holder, waiters, attempt, loop, raised, lake, rows, seen>>
    BY <1>8 DEF vars
  <2>2. TypeOK'
    BY <2>1 DEF IInv, TypeOK
  <2>3. LoopAgrees' /\ PermitAccounted' /\ QueueAgrees'
    BY <2>1 DEF IInv, LoopAgrees, PermitAccounted, QueueAgrees
  <2>4. \A j \in Job : JobAgrees(j)'
    BY <2>1, JobFrame DEF IInv
  <2> QED
    BY <2>2, <2>3, <2>4 DEF IInv
<1> QED
  BY <1>1, <1>2, <1>3, <1>4, <1>5, <1>6, <1>7, <1>8 DEF Next

\* The inductive invariant: each task's stage fixes what the table, the event
\* loop, the semaphore and the two stores hold for it.
THEOREM Invariance == Spec => []IInv
BY InitIInv, NextIInv, PTL DEF Spec

\* Every variable of the API process keeps its type.
THEOREM TypeCorrect == Spec => []TypeOK
<1>1. IInv => TypeOK
  BY DEF IInv
<1> QED
  BY <1>1, Invariance, PTL

\* No task ever writes to an entry that was evicted (jobs.py would raise a
\* KeyError): an entry outlives the last write of its task.
THEOREM WriterSafe == Spec => []WriterHasEntry
<1>1. IInv => WriterHasEntry
  BY DEF IInv, JobAgrees, EntryAgrees, WriterHasEntry
<1> QED
  BY <1>1, Invariance, PTL

\* The one-browser permit is never lost or doubled, and no wakeup is lost.
THEOREM PermitSafe == Spec => []PermitAccounted
<1>1. IInv => PermitAccounted
  BY DEF IInv
<1> QED
  BY <1>1, Invariance, PTL

\* An ended job's status agrees with the lake and the warehouse.
THEOREM StatusSound == Spec => []StatusMatchesStores
<1>1. IInv => StatusMatchesStores
  BY TypeFacts DEF IInv, JobAgrees, EndAgrees, StatusMatchesStores
<1> QED
  BY <1>1, Invariance, PTL

\* Tracks are never committed before their raw scrape is landed.
THEOREM RawFirstHolds == Spec => []RawFirst
<1>1. IInv => RawFirst
  BY TypeFacts DEF IInv, JobAgrees, StoresAgree, RawFirst
<1> QED
  BY <1>1, Invariance, PTL

\* Nothing a polling client was told turns out wrong.
THEOREM AnswersSound == Spec => []ToldTheTruth
<1>1. IInv => ToldTheTruth
  BY DEF IInv, JobAgrees, SeenAgrees, ToldTheTruth
<1> QED
  BY <1>1, Invariance, PTL

-----------------------------------------------------------------------------
(* What eviction takes.                                                    *)

LEMMA LeastNatural ==
    ASSUME NEW T, T \subseteq Nat, T # {}
    PROVE  \E m \in T : \A k \in T : m <= k
<1> DEFINE R == OpToRel(<, Nat)
<1>1. IsWellFoundedOn(R, Nat)
  BY NatLessThanWellFounded
<1>2. \A k, m \in Nat : k < m => <<k, m>> \in R
  BY DEF OpToRel
<1> HIDE DEF R
<1>3. PICK m \in T : \A k \in T : ~(<<k, m>> \in R)
  BY <1>1, WFMin
<1>4. ASSUME NEW k \in T
      PROVE  m <= k
  <2>1. k \in Nat /\ m \in Nat /\ ~(k < m)
    BY <1>2, <1>3, <1>4
  <2> QED
    BY <2>1
<1> QED
  BY <1>3, <1>4

\* A table whose entries carry the time of their creation.
Stamped(tbl) == IsFiniteSet(DOMAIN tbl) /\ \A i \in DOMAIN tbl : tbl[i].created_at \in Nat

LEMMA TableSizes ==
    ASSUME NEW tbl, Stamped(tbl)
    PROVE  /\ Cardinality(DOMAIN tbl) \in Nat
           /\ \A S \in SUBSET (DOMAIN tbl) : IsFiniteSet(S) /\ Cardinality(S) \in Nat
           /\ \A S, T \in SUBSET (DOMAIN tbl) : S \subseteq T => Cardinality(S) <= Cardinality(T)
           /\ \A j : OlderFinished(tbl, j) \in SUBSET (DOMAIN tbl)
           /\ Evictable(tbl) \in SUBSET (DOMAIN tbl)
           /\ Cardinality(DOMAIN EvictOldJobs(tbl)) =
                 Cardinality(DOMAIN tbl) - Cardinality(Evictable(tbl))
           /\ MaxJobs \in Nat
<1>1. \A S \in SUBSET (DOMAIN tbl) : IsFiniteSet(S) /\ Cardinality(S) \in Nat
  BY FS_Subset, FS_CardinalityType DEF Stamped
<1>2. \A S, T \in SUBSET (DOMAIN tbl) : S \subseteq T => Cardinality(S) <= Cardinality(T)
  BY <1>1, FS_Subset
<1>3. /\ \A j : OlderFinished(tbl, j) \in SUBSET (DOMAIN tbl)
      /\ Evictable(tbl) \in SUBSET (DOMAIN tbl)
  BY DEF OlderFinished, Evictable, FinishedIn
<1>4. DOMAIN EvictOldJobs(tbl) = DOMAIN tbl \ Evictable(tbl)
  BY DEF EvictOldJobs
<1>5. DOMAIN tbl \cap Evictable(tbl) = Evictable(tbl)
  BY <1>3
<1>6. Cardinality(DOMAIN tbl \ Evictable(tbl)) =
         Cardinality(DOMAIN tbl) - Cardinality(DOMAIN tbl \cap Evictable(tbl))
  BY FS_Difference DEF Stamped
<1> QED
  BY <1>1, <1>2, <1>3, <1>4, <1>5, <1>6, JobAssumption

\* As long as an ended job is left, the surplus is gone: whatever ended before the
\* oldest that is left has been taken.
LEMMA EvictionTrims ==
    ASSUME NEW tbl, Stamped(tbl), FinishedIn(EvictOldJobs(tbl)) # {}
    PROVE  Cardinality(DOMAIN EvictOldJobs(tbl)) <= MaxJobs
<1> DEFINE Left == FinishedIn(EvictOldJobs(tbl))
           Stamps == {tbl[j].created_at : j \in Left}
<1>1. Left = FinishedIn(tbl) \ Evictable(tbl)
  BY DEF FinishedIn, EvictOldJobs
<1>2. Left \subseteq DOMAIN tbl
  BY <1>1 DEF FinishedIn
<1> HIDE DEF Left
<1>3. Stamps \subseteq Nat /\ Stamps # {}
  BY <1>2 DEF Stamped, Left
<1>4. PICK m \in Stamps : \A n \in Stamps : m <= n
  BY <1>3, LeastNatural
<1>5. PICK j \in Left : tbl[j].created_at = m
  BY <1>4
<1>6. OlderFinished(tbl, j) \subseteq Evictable(tbl)
  <2> SUFFICES ASSUME NEW i \in OlderFinished(tbl, j)
               PROVE  i \in Evictable(tbl)
    OBVIOUS
  <2>1. i \in FinishedIn(tbl) /\ tbl[i].created_at < tbl[j].created_at
    BY DEF OlderFinished
  <2>2. i \in Left => tbl[j].created_at <= tbl[i].created_at
    BY <1>4, <1>5
  <2>3. tbl[i].created_at \in Nat /\ tbl[j].created_at \in Nat
    BY <1>2, <1>5, <2>1 DEF Stamped, FinishedIn
  <2> QED
    BY <1>1, <2>1, <2>2, <2>3
<1>7. ~(MaxJobs + Cardinality(OlderFinished(tbl, j)) < Cardinality(DOMAIN tbl))
  BY <1>1, <1>5 DEF Evictable
<1>8. Cardinality(OlderFinished(tbl, j)) <= Cardinality(Evictable(tbl))
  BY <1>6, TableSizes
<1>9. Cardinality(OlderFinished(tbl, j)) \in Nat /\ Cardinality(Evictable(tbl)) \in Nat
  BY TableSizes
<1>10. /\ Cardinality(DOMAIN tbl) \in Nat /\ MaxJobs \in Nat
       /\ Cardinality(DOMAIN EvictOldJobs(tbl)) =
             Cardinality(DOMAIN tbl) - Cardinality(Evictable(tbl))
  BY TableSizes
<1> QED
  BY <1>7, <1>8, <1>9, <1>10

\* No more than the surplus is taken: whatever else is taken had ended before the
\* youngest of them was created, or that one would stay.
LEMMA EvictionSpares ==
    ASSUME NEW tbl, Stamped(tbl), Evictable(tbl) # {},
           NEW top \in Nat, \A i \in DOMAIN tbl : tbl[i].created_at <= top,
           \A i, j \in DOMAIN tbl : tbl[i].created_at = tbl[j].created_at => i = j
    PROVE  Cardinality(DOMAIN EvictOldJobs(tbl)) >= MaxJobs
<1> DEFINE Ages == {top - tbl[i].created_at : i \in Evictable(tbl)}
<1>1. Evictable(tbl) \subseteq FinishedIn(tbl) /\ FinishedIn(tbl) \subseteq DOMAIN tbl
  BY DEF Evictable, FinishedIn
<1>2. \A i \in DOMAIN tbl : tbl[i].created_at \in Nat
  BY DEF Stamped
<1>3. Ages \subseteq Nat /\ Ages # {}
  <2>1. \A i \in Evictable(tbl) : top - tbl[i].created_at \in Nat
    BY <1>1, <1>2
  <2> QED
    BY <2>1
<1>4. PICK m \in Ages : \A n \in Ages : m <= n
  <2> HIDE DEF Ages
  <2> QED
    BY <1>3, LeastNatural
<1>5. PICK j \in Evictable(tbl) : m = top - tbl[j].created_at
  BY <1>4
<1>6. Evictable(tbl) \ {j} \subseteq OlderFinished(tbl, j)
  <2> SUFFICES ASSUME NEW i \in Evictable(tbl), i # j
               PROVE  i \in OlderFinished(tbl, j)
    OBVIOUS
  <2>1. top - tbl[i].created_at \in Ages
    OBVIOUS
  <2>2. m <= top - tbl[i].created_at
    BY <1>4, <2>1
  <2>3. tbl[i].created_at \in Nat /\ tbl[j].created_at \in Nat
        /\ tbl[i].created_at # tbl[j].created_at
    BY <1>1, <1>2
  <2>4. tbl[i].created_at < tbl[j].created_at
    BY <1>5, <2>2, <2>3
  <2> QED
    BY <1>1, <2>4 DEF OlderFinished
<1> HIDE DEF Ages
<1>7. MaxJobs + Cardinality(OlderFinished(tbl, j)) < Cardinality(DOMAIN tbl)
  BY <1>5 DEF Evictable
<1>8. Cardinality(Evictable(tbl)) = Cardinality(Evictable(tbl) \ {j}) + 1
  <2>1. IsFiniteSet(Evictable(tbl)) /\ Cardinality(Evictable(tbl)) \in Nat
    BY TableSizes
  <2>2. Cardinality(Evictable(tbl) \ {j}) = Cardinality(Evictable(tbl)) - 1
    BY <2>1, FS_RemoveElement
  <2> QED
    BY <2>1, <2>2
<1>9. Evictable(tbl) \ {j} \in SUBSET (DOMAIN tbl)
  BY <1>1
<1>10. Cardinality(Evictable(tbl) \ {j}) <= Cardinality(OlderFinished(tbl, j))
  BY <1>6, <1>9, TableSizes
<1>11. /\ Cardinality(OlderFinished(tbl, j)) \in Nat /\ Cardinality(Evictable(tbl) \ {j}) \in Nat
  BY <1>9, TableSizes
<1>12. /\ Cardinality(DOMAIN tbl) \in Nat /\ MaxJobs \in Nat
       /\ Cardinality(DOMAIN EvictOldJobs(tbl)) =
             Cardinality(DOMAIN tbl) - Cardinality(Evictable(tbl))
  BY TableSizes
<1> QED
  BY <1>7, <1>8, <1>10, <1>11, <1>12

\* The ended jobs that are taken are the oldest.
LEMMA EvictionByAge ==
    ASSUME NEW tbl, Stamped(tbl), NEW g \in Evictable(tbl), NEW k \in FinishedIn(EvictOldJobs(tbl))
    PROVE  tbl[g].created_at < tbl[k].created_at
<1>1. k \in FinishedIn(tbl) /\ k \notin Evictable(tbl) /\ g \in FinishedIn(tbl)
  BY DEF FinishedIn, EvictOldJobs, Evictable
<1>2. tbl[g].created_at \in Nat /\ tbl[k].created_at \in Nat
  BY <1>1 DEF FinishedIn, Stamped
<1>3. /\ MaxJobs + Cardinality(OlderFinished(tbl, g)) < Cardinality(DOMAIN tbl)
      /\ ~(MaxJobs + Cardinality(OlderFinished(tbl, k)) < Cardinality(DOMAIN tbl))
  BY <1>1 DEF Evictable
<1>4. ASSUME tbl[k].created_at <= tbl[g].created_at
      PROVE  FALSE
  <2>1. OlderFinished(tbl, k) \subseteq OlderFinished(tbl, g)
    <3>1. \A i \in FinishedIn(tbl) : tbl[i].created_at \in Nat
      BY DEF FinishedIn, Stamped
    <3>2. \A i \in FinishedIn(tbl) :
             tbl[i].created_at < tbl[k].created_at => tbl[i].created_at < tbl[g].created_at
      BY <1>2, <1>4, <3>1
    <3> QED
      BY <3>2 DEF OlderFinished
  <2>2. Cardinality(OlderFinished(tbl, k)) <= Cardinality(OlderFinished(tbl, g))
    BY <2>1, TableSizes
  <2>3. /\ Cardinality(OlderFinished(tbl, k)) \in Nat /\ Cardinality(OlderFinished(tbl, g)) \in Nat
        /\ Cardinality(DOMAIN tbl) \in Nat /\ MaxJobs \in Nat
    BY TableSizes
  <2> QED
    BY <1>3, <2>2, <2>3
<1> QED
  BY <1>2, <1>4

-----------------------------------------------------------------------------
(* What a step does to the table.                                          *)

\* The entries are told apart by when they were created.
CreationOrder ==
    /\ \A i \in DOMAIN jobs : jobs[i].created_at < now
    /\ \A i, j \in DOMAIN jobs : jobs[i].created_at = jobs[j].created_at => i = j

\* Only POST /scrape brings a new entry, and nothing else takes some and leaves others.
TableKept ==
    /\ now' = now
    /\ DOMAIN jobs' \in {DOMAIN jobs, {}}
    /\ \A i \in DOMAIN jobs' : jobs'[i].created_at = jobs[i].created_at

LEMMA TableMoves ==
    ASSUME IInv, [Next]_vars
    PROVE  TableKept \/ \E j \in Job : j \notin DOMAIN jobs /\ CreateJob(j)
<1>1. jobs \in [DOMAIN jobs -> Entry] /\ DOMAIN jobs \subseteq Job
  BY TypeFacts DEF IInv
<1>2. ASSUME UNCHANGED <<jobs, now>>
      PROVE  TableKept
  BY <1>2 DEF TableKept
<1>3. ASSUME NEW j \in Job, task[j] \in Live, NEW s \in {"queued", "running"} \cup Finals,
             SetStatus(j, s), UNCHANGED now
      PROVE  TableKept
  <2>1. j \in DOMAIN jobs
    BY <1>3 DEF IInv, JobAgrees, EntryAgrees
  <2>2. /\ DOMAIN jobs' = DOMAIN jobs
        /\ jobs'[j] = [jobs[j] EXCEPT !.status = s]
        /\ \A i \in DOMAIN jobs : i # j => jobs'[i] = jobs[i]
    BY <1>1, <1>3, <2>1, SetStatusEffect
  <2>3. [jobs[j] EXCEPT !.status = s].created_at = jobs[j].created_at
    BY <1>1, <2>1 DEF Entry
  <2> QED
    BY <1>3, <2>2, <2>3 DEF TableKept
<1>4. ASSUME NEW j \in Job, task[j] \in Live, UNCHANGED now,
             \/ jobs' = [jobs EXCEPT ![j].result = "tracks"]
             \/ jobs' = [jobs EXCEPT ![j].error = raised[j]]
      PROVE  TableKept
  <2>1. j \in DOMAIN jobs
    BY <1>4 DEF IInv, JobAgrees, EntryAgrees
  <2>2. jobs[j] \in Entry /\ raised[j] \in {"none"} \cup Errors
    BY <1>1, <2>1, TypeFacts DEF IInv
  <2>3. /\ DOMAIN jobs' = DOMAIN jobs
        /\ jobs'[j] = [jobs[j] EXCEPT !.result = "tracks"] \/ jobs'[j] = [jobs[j] EXCEPT !.error = raised[j]]
        /\ \A i \in DOMAIN jobs : i # j => jobs'[i] = jobs[i]
    BY <1>1, <1>4, <2>1, <2>2, SetPayloadEffect
  <2>4. jobs'[j].created_at = jobs[j].created_at
    BY <2>2, <2>3 DEF Entry
  <2> QED
    BY <1>4, <2>3, <2>4 DEF TableKept
<1>5. ASSUME NEW j \in Job, Submit(j)
      PROVE  j \notin DOMAIN jobs /\ CreateJob(j)
  BY <1>5 DEF IInv, JobAgrees, EntryAgrees, Shows, Running, InBrowser, Submit
<1>6. ASSUME NEW j \in Job, StartTask(j)
      PROVE  TableKept
  BY <1>3, <1>6 DEF StartTask, Live
<1>7. ASSUME NEW j \in Job, Stretch(j)
      PROVE  TableKept
  <2>1. CASE MarkDone(j) \/ MarkError(j)
    BY <1>3, <2>1 DEF MarkDone, MarkError, Step, Live, InStretch, Finals
  <2>2. CASE FillResult(j) \/ FillError(j)
    BY <1>4, <2>2 DEF FillResult, FillError, Step, Live, InStretch
  <2>3. CASE ~(MarkDone(j) \/ MarkError(j) \/ FillResult(j) \/ FillError(j))
    BY <1>2, <1>7, <2>3
    DEF Stretch, ParseOk, LoginWall, ParseFails, LandRaw, LandFails, LoadTracks, LoadFails,
        Raise, Crash, Step
  <2> QED
    BY <2>1, <2>2, <2>3
<1>8. ASSUME NEW j \in Job, Poll(j)
      PROVE  TableKept
  BY <1>2, <1>8 DEF Poll
<1>9. ASSUME NEW d \in Discover, StartDiscover(d)
      PROVE  TableKept
  BY <1>2, <1>9 DEF StartDiscover
<1>10. ASSUME NEW s \in Session, InTheBrowser(s)
       PROVE  TableKept
  BY <1>2, <1>10 DEF InTheBrowser, Resume, Launched, Navigated, RetryNavigation, FetchOk,
                     FetchFails, Advance, LeaveBrowser
<1>11. CASE Restart
  BY <1>11 DEF Restart, TableKept
<1>12. CASE UNCHANGED vars
  BY <1>2, <1>12 DEF vars
<1> QED
  BY <1>5, <1>6, <1>7, <1>8, <1>9, <1>10, <1>11, <1>12 DEF Next

\* The table that a new entry is put in, before eviction.
Grown(tbl, j) ==
    /\ jobs' = EvictOldJobs(tbl) /\ Stamped(tbl)
    /\ DOMAIN tbl = DOMAIN jobs \cup {j}
    /\ \A i \in DOMAIN jobs : tbl[i] = jobs[i]
    /\ \A i \in DOMAIN tbl : tbl[i].created_at <= now
    /\ \A i, k \in DOMAIN tbl : tbl[i].created_at = tbl[k].created_at => i = k

LEMMA Creation ==
    ASSUME IInv, CreationOrder, NEW j \in Job, j \notin DOMAIN jobs, CreateJob(j)
    PROVE  \E tbl : Grown(tbl, j)
<1> DEFINE tbl == [i \in DOMAIN jobs \cup {j} |-> IF i = j THEN NewEntry ELSE jobs[i]]
<1>1. jobs' = EvictOldJobs(tbl)
  BY DEF CreateJob
<1>2. /\ DOMAIN tbl = DOMAIN jobs \cup {j} /\ tbl[j] = NewEntry
      /\ \A i \in DOMAIN jobs : i # j /\ tbl[i] = jobs[i]
  OBVIOUS
<1>3. NewEntry.status = "queued" /\ NewEntry.created_at = now /\ now \in Nat
  BY TypeFacts DEF NewEntry, IInv
<1> HIDE DEF tbl
<1>4. \A i \in DOMAIN jobs : jobs[i].created_at \in Nat /\ jobs[i].created_at < now
  BY TypeFacts DEF IInv, CreationOrder, Entry
<1>5. Stamped(tbl)
  <2>1. DOMAIN jobs \cup {j} \in SUBSET Job
    BY TypeFacts DEF IInv
  <2>2. IsFiniteSet(DOMAIN jobs \cup {j})
    BY <2>1, JobAssumption, FS_Subset
  <2> QED
    BY <1>2, <1>3, <1>4, <2>2 DEF Stamped
<1>6. \A i \in DOMAIN tbl : tbl[i].created_at <= now
  BY <1>2, <1>3, <1>4
<1>7. \A i, k \in DOMAIN tbl : tbl[i].created_at = tbl[k].created_at => i = k
  BY <1>2, <1>3, <1>4 DEF CreationOrder
<1> QED
  BY <1>1, <1>2, <1>5, <1>6, <1>7 DEF Grown

\* The clock of jobs.py tells all entries apart.
LEMMA CreationOrderHolds == Spec => []CreationOrder
<1>1. Init => CreationOrder
  BY DEF Init, CreationOrder
<1>2. ASSUME IInv, CreationOrder, [Next]_vars
      PROVE  CreationOrder'
  <2>1. CASE TableKept
    BY <1>2, <2>1 DEF TableKept, CreationOrder
  <2>2. ASSUME NEW j \in Job, j \notin DOMAIN jobs, CreateJob(j)
        PROVE  CreationOrder'
    <3>1. PICK tbl : Grown(tbl, j)
      BY <1>2, <2>2, Creation
    <3>2. \A i \in DOMAIN jobs' : i \in DOMAIN tbl /\ jobs'[i] = tbl[i]
      BY <3>1, EvictionShrinks DEF Grown
    <3>3. now' = now + 1 /\ now \in Nat
      BY <1>2, <2>2, TypeFacts DEF CreateJob, IInv
    <3>4. \A i \in DOMAIN tbl : tbl[i].created_at \in Nat
      BY <3>1 DEF Grown, Stamped
    <3>5. \A i \in DOMAIN jobs' : jobs'[i].created_at < now'
      BY <3>1, <3>2, <3>3, <3>4 DEF Grown
    <3> QED
      BY <3>1, <3>2, <3>5 DEF Grown, CreationOrder
  <2> QED
    BY <1>2, <2>1, <2>2, TableMoves
<1> QED
  BY <1>1, <1>2, Invariance, PTL DEF Spec

\* create_job trims the table to _MAX_JOBS, unless only jobs that have not ended are
\* left in it, for any table limit.
THEOREM TableBounded == Spec => TrimmedOnCreate
<1> DEFINE Trimmed == \/ DOMAIN jobs' \subseteq DOMAIN jobs
                      \/ Cardinality(DOMAIN jobs') <= MaxJobs
                      \/ FinishedIn(jobs') = {}
<1>1. ASSUME IInv, CreationOrder, [Next]_vars
      PROVE  Trimmed
  <2>1. CASE TableKept
    BY <2>1 DEF TableKept
  <2>2. ASSUME NEW j \in Job, j \notin DOMAIN jobs, CreateJob(j)
        PROVE  Trimmed
    <3>1. PICK tbl : Grown(tbl, j)
      BY <1>1, <2>2, Creation
    <3> QED
      BY <3>1, EvictionTrims DEF Grown
  <2> QED
    BY <1>1, <2>1, <2>2, TableMoves
<1>2. IInv /\ CreationOrder /\ [Next]_vars => [Trimmed]_vars
  BY <1>1
<1> QED
  BY <1>2, Invariance, CreationOrderHolds, PTL DEF Spec, TrimmedOnCreate

\* _evict_old_jobs takes no more than the surplus, and the oldest ended jobs first.
THEOREM OldestEvicted == Spec => EvictsOldestSurplus
<1> DEFINE Oldest ==
        LET gone == DOMAIN jobs \ DOMAIN jobs'
        IN  gone # {} /\ DOMAIN jobs' # {} =>
              /\ Cardinality(DOMAIN jobs') >= MaxJobs
              /\ \A g \in gone, k \in FinishedIn(jobs') :
                    jobs[g].created_at < jobs'[k].created_at
<1>1. ASSUME IInv, CreationOrder, [Next]_vars
      PROVE  Oldest
  <2>1. CASE TableKept
    BY <2>1 DEF TableKept
  <2>2. ASSUME NEW j \in Job, j \notin DOMAIN jobs, CreateJob(j),
               DOMAIN jobs \ DOMAIN jobs' # {}
        PROVE  Oldest
    <3>1. PICK tbl : Grown(tbl, j)
      BY <1>1, <2>2, Creation
    <3>2. DOMAIN jobs' = DOMAIN tbl \ Evictable(tbl)
      BY <3>1 DEF Grown, EvictOldJobs
    <3>3. \A g \in DOMAIN jobs \ DOMAIN jobs' : g \in Evictable(tbl) /\ tbl[g] = jobs[g]
      BY <3>1, <3>2 DEF Grown
    <3>4. now \in Nat /\ Evictable(tbl) # {}
      BY <1>1, <2>2, <3>3, TypeFacts DEF IInv
    <3>5. Cardinality(DOMAIN jobs') >= MaxJobs
      BY <3>1, <3>4, EvictionSpares DEF Grown
    <3>6. \A k \in FinishedIn(jobs') : jobs'[k] = tbl[k]
      BY <3>1, EvictionShrinks DEF Grown, FinishedIn
    <3>7. \A g \in DOMAIN jobs \ DOMAIN jobs', k \in FinishedIn(jobs') :
             jobs[g].created_at < jobs'[k].created_at
      BY <3>1, <3>3, <3>6, EvictionByAge DEF Grown
    <3> QED
      BY <3>5, <3>7
  <2>3. CASE DOMAIN jobs \ DOMAIN jobs' = {}
    BY <2>3
  <2> QED
    BY <1>1, <2>1, <2>2, <2>3, TableMoves
<1>2. IInv /\ CreationOrder /\ [Next]_vars => [Oldest]_vars
  BY <1>1
<1> QED
  BY <1>2, Invariance, CreationOrderHolds, PTL DEF Spec, EvictsOldestSurplus

-----------------------------------------------------------------------------
(* ScrapeJobs implements JobLifecycle: with StatusFor as the status of a   *)
(* job, every step of the process is a step of the life cycle or leaves    *)
(* every status alone.                                                     *)

statusMap == [j \in Job |-> StatusFor(j)]

\* A step that assigns neither statuses nor "none" stages changes no status.
LEMMA StatusFrame ==
    ASSUME IInv, NEW j \in Job,
           j \in DOMAIN jobs' <=> j \in DOMAIN jobs,
           j \in DOMAIN jobs => jobs'[j].status = jobs[j].status,
           task'[j] = "none" <=> task[j] = "none"
    PROVE  StatusFor(j)' = StatusFor(j)
BY DEF StatusFor

LEMMA StatusMapSame ==
    ASSUME \A j \in Job : StatusFor(j)' = StatusFor(j)
    PROVE  UNCHANGED statusMap
BY DEF statusMap

LEMMA InitRefines == Init => Lifecycle!Init
<1> SUFFICES ASSUME Init PROVE Lifecycle!Init
  OBVIOUS
<1>1. \A j \in Job : StatusFor(j) = "unknown"
  BY JobsAreSessions DEF Init, StatusFor
<1> QED
  BY <1>1 DEF Lifecycle!Init

\* POST /scrape accepts its job; the evicted ones had ended.
LEMMA SubmitRefines ==
    ASSUME IInv, NEW j \in Job, Submit(j)
    PROVE  Lifecycle!Accept(j)
<1> DEFINE gone == DOMAIN jobs \ DOMAIN jobs'
<1>1. /\ TypeOK /\ JobAgrees(j) /\ task[j] = "none"
      /\ j \notin DOMAIN jobs /\ DOMAIN jobs \subseteq Job
      /\ CreateJob(j) /\ task' = [task EXCEPT ![j] = "accepted"]
  BY DEF IInv, JobAgrees, EntryAgrees, Shows, Running, InBrowser, Submit, TypeOK
<1>2. /\ DOMAIN jobs' \subseteq DOMAIN jobs \cup {j}
      /\ j \in DOMAIN jobs' /\ jobs'[j] = NewEntry
      /\ \A i \in DOMAIN jobs' : i # j => jobs'[i] = jobs[i]
      /\ \A i \in gone : jobs[i].status \in Finals
  BY <1>1, CreateJobEffect
<1>3. /\ task'[j] = "accepted" /\ \A i \in Job : i # j => task'[i] = task[i]
  BY <1>1, TypeFacts, JobsAreSessions
<1>4. \A i \in DOMAIN jobs : task[i] # "none"
  BY <1>1 DEF IInv, JobAgrees, EntryAgrees, Shows, Running, InBrowser
<1>5. StatusFor(j) = "unknown"
  BY <1>1 DEF StatusFor
<1>6. \A i \in Job : StatusFor(i)' = IF i = j THEN "queued"
                                     ELSE IF i \in gone THEN "forgotten" ELSE StatusFor(i)
  <2>1. StatusFor(j)' = "queued"
    BY <1>2 DEF StatusFor, NewEntry
  <2>2. ASSUME NEW i \in Job, i # j, i \in gone
        PROVE  StatusFor(i)' = "forgotten"
    BY <1>3, <1>4, <2>2 DEF StatusFor
  <2>3. ASSUME NEW i \in Job, i # j, i \notin gone
        PROVE  StatusFor(i)' = StatusFor(i)
    BY <1>2, <1>3, <2>3 DEF StatusFor
  <2> QED
    BY <2>1, <2>2, <2>3
<1>7. gone \subseteq {i \in Job : StatusFor(i) \in {"done", "error"}}
  BY <1>1, <1>2 DEF StatusFor, Finals
<1> HIDE DEF gone
<1>8. gone \in SUBSET Lifecycle!Ended
  BY <1>7 DEF Lifecycle!Ended
<1>9. statusMap' = [i \in Job |-> IF i = j THEN "queued"
                                  ELSE IF i \in gone THEN "forgotten" ELSE statusMap[i]]
  BY <1>6 DEF statusMap
<1>10. statusMap[j] = "unknown"
  BY <1>5 DEF statusMap
<1> QED
  BY <1>8, <1>9, <1>10 DEF Lifecycle!Accept, statusMap

\* One job's status changes and no other's.
LEMMA OneStatus ==
    ASSUME NEW j \in Job, NEW s, StatusFor(j)' = s,
           \A i \in Job : i # j => StatusFor(i)' = StatusFor(i)
    PROVE  statusMap' = [statusMap EXCEPT ![j] = s]
BY DEF statusMap

LEMMA StartTaskRefines ==
    ASSUME IInv, NEW j \in Job, StartTask(j)
    PROVE  Lifecycle!Begin(j)
<1>1. /\ JobAgrees(j) /\ task[j] = "accepted" /\ SetStatus(j, "running") /\ Acquire(j)
      /\ j \in Session
      /\ jobs \in [DOMAIN jobs -> Entry]
  BY JobsAreSessions, TypeFacts DEF IInv, StartTask
<1>2. j \in DOMAIN jobs /\ jobs[j].status = "queued" /\ jobs[j] \in Entry
  BY <1>1 DEF JobAgrees, EntryAgrees, Live, Shows, Running, InBrowser
<1>3. /\ DOMAIN jobs' = DOMAIN jobs
      /\ jobs'[j] = [jobs[j] EXCEPT !.status = "running"]
      /\ \A i \in DOMAIN jobs : i # j => jobs'[i] = jobs[i]
  BY <1>1, <1>2, SetStatusEffect
<1>4. jobs'[j].status = "running"
  BY <1>2, <1>3 DEF Entry
<1>5. \A t \in Session : t # j => task'[t] = task[t]
  BY <1>1, AcquireEffect
<1>6. StatusFor(j) = "queued" /\ StatusFor(j)' = "running"
  BY <1>2, <1>3, <1>4 DEF StatusFor
<1>7. \A i \in Job : i # j => StatusFor(i)' = StatusFor(i)
  BY <1>3, <1>5, StatusFrame, JobsAreSessions
<1>8. statusMap' = [statusMap EXCEPT ![j] = "running"] /\ statusMap[j] = "queued"
  BY <1>6, <1>7, OneStatus DEF statusMap
<1> QED
  BY <1>8 DEF Lifecycle!Begin, statusMap

\* set_done and set_error end the job with their first statement.
LEMMA MarkRefines ==
    ASSUME IInv, NEW j \in Job, MarkDone(j) \/ MarkError(j)
    PROVE  Lifecycle!End(j)
<1>1. PICK s \in {"done", "error"}, from \in {"marking done", "marking error"},
           to \in {"filling result", "filling error"} :
        Step(j, from, to) /\ SetStatus(j, s)
  BY DEF MarkDone, MarkError
<1>2. from \in InStretch /\ to \in InStretch /\ from \in Running
  BY DEF InStretch, Running
<1>3. /\ TypeOK /\ j \in DOMAIN jobs /\ jobs[j] \in Entry
      /\ Shows(from, jobs[j].status)
      /\ task[j] = from /\ task'[j] = to
      /\ \A t \in Session : t # j => task'[t] = task[t]
  BY <1>1, <1>2, StepEffect
<1>4. jobs[j].status = "running"
  BY <1>2, <1>3 DEF Shows
<1>5. /\ DOMAIN jobs' = DOMAIN jobs
      /\ jobs'[j] = [jobs[j] EXCEPT !.status = s]
      /\ \A i \in DOMAIN jobs : i # j => jobs'[i] = jobs[i]
  BY <1>1, <1>3, SetStatusEffect, TypeFacts DEF Finals
<1>6. StatusFor(j) = "running" /\ StatusFor(j)' = s
  BY <1>3, <1>4, <1>5 DEF StatusFor, Entry
<1>7. \A i \in Job : i # j => StatusFor(i)' = StatusFor(i)
  BY <1>3, <1>5, StatusFrame, JobsAreSessions
<1>8. statusMap' = [statusMap EXCEPT ![j] = s] /\ statusMap[j] = "running"
  BY <1>6, <1>7, OneStatus DEF statusMap
<1> QED
  BY <1>8 DEF Lifecycle!End, statusMap

\* A restart forgets every job the table still knows.
LEMMA RestartRefines ==
    ASSUME IInv, Restart
    PROVE  Lifecycle!Restart
<1>1. /\ DOMAIN jobs' = {}
      /\ \A j \in Job : task'[j] = "none" <=> task[j] = "none"
  BY JobsAreSessions DEF Restart
<1>2. \A j \in DOMAIN jobs : task[j] # "none" /\ j \in Job
  BY TypeFacts DEF IInv, JobAgrees, EntryAgrees, Shows, Running, InBrowser
<1>3. \A j \in DOMAIN jobs : jobs[j].status \notin {"unknown", "forgotten"}
  BY TypeFacts DEF IInv, Entry, Finals
<1>4. \A j \in Job : StatusFor(j)' = IF StatusFor(j) \notin {"unknown", "forgotten"}
                                     THEN "forgotten" ELSE StatusFor(j)
  BY <1>1, <1>2, <1>3 DEF StatusFor
<1>5. \A j \in Job : j \in Lifecycle!Tracked <=> StatusFor(j) \notin {"unknown", "forgotten"}
  BY DEF Lifecycle!Tracked
<1>6. statusMap' = [j \in Job |-> IF j \in Lifecycle!Tracked THEN "forgotten" ELSE statusMap[j]]
  BY <1>4, <1>5 DEF statusMap
<1> QED
  BY <1>6 DEF Lifecycle!Restart, statusMap

-----------------------------------------------------------------------------
(* The steps the life cycle does not see.                                  *)

LEMMA DiscoverStutters ==
    ASSUME IInv, NEW d \in Discover, StartDiscover(d)
    PROVE  UNCHANGED statusMap
<1>1. /\ jobs' = jobs /\ task[d] = "none" /\ Acquire(d) /\ d \in Session /\ d \notin Job
  BY JobAssumption DEF StartDiscover, Session
<1>2. \A t \in Session : t # d => task'[t] = task[t]
  BY <1>1, AcquireEffect
<1>3. \A j \in Job : task'[j] = task[j]
  BY <1>1, <1>2, JobsAreSessions
<1> QED
  BY <1>1, <1>3, StatusFrame, StatusMapSame

LEMMA BrowserStutters ==
    ASSUME IInv, NEW s \in Session, InTheBrowser(s)
    PROVE  UNCHANGED statusMap
<1>1. TypeOK /\ task \in [Session -> Stage]
  BY TypeFacts DEF IInv
<1>2. /\ jobs' = jobs
      /\ \A j \in Job : task'[j] = "none" <=> task[j] = "none"
  <2>1. ASSUME NEW from \in {"waiting"} \cup InBrowser, NEW to \in InBrowser,
               Advance(s, from, to)
        PROVE  jobs' = jobs /\ \A j \in Job : task'[j] = "none" <=> task[j] = "none"
    BY <1>1, <2>1, JobsAreSessions DEF Advance, InBrowser
  <2>2. ASSUME NEW next \in {"parsing", "marking error"}, NEW exc,
               task[s] \in InBrowser, LeaveBrowser(s, next, exc)
        PROVE  jobs' = jobs /\ \A j \in Job : task'[j] = "none" <=> task[j] = "none"
    <3>1. CASE s \in Job
      BY <1>1, <2>2, <3>1, JobsAreSessions DEF LeaveBrowser, InBrowser
    <3>2. CASE s \notin Job
      BY <1>1, <2>2, <3>2, JobsAreSessions DEF LeaveBrowser
    <3> QED
      BY <3>1, <3>2
  <2>3. CASE Resume(s)
    BY <2>1, <2>3 DEF Resume, InBrowser
  <2>4. CASE Launched(s)
    BY <2>1, <2>4 DEF Launched, InBrowser
  <2>5. CASE Navigated(s)
    BY <2>1, <2>5 DEF Navigated, InBrowser
  <2>6. CASE RetryNavigation(s)
    BY <2>1, <2>6 DEF RetryNavigation, InBrowser
  <2>7. CASE FetchOk(s)
    <3>1. task[s] \in InBrowser /\ LeaveBrowser(s, "parsing", "none")
      BY <2>7 DEF FetchOk, InBrowser
    <3> QED
      BY <2>2, <3>1
  <2>8. CASE FetchFails(s)
    BY <2>2, <2>8 DEF FetchFails
  <2> QED
    BY <2>3, <2>4, <2>5, <2>6, <2>7, <2>8 DEF InTheBrowser
<1> QED
  BY <1>2, StatusFrame, StatusMapSame

\* A step of the stretch that leaves the table alone.
LEMMA QuietStutters ==
    ASSUME IInv, NEW j \in Job,
           \/ ParseOk(j) \/ LoginWall(j) \/ ParseFails(j) \/ LandRaw(j) \/ LandFails(j)
           \/ LoadTracks(j) \/ LoadFails(j)
    PROVE  UNCHANGED statusMap
<1>1. PICK from \in {"parsing", "landing", "loading"},
           to \in {"landing", "loading", "marking done", "marking error", "crashed"} :
        Step(j, from, to) /\ jobs' = jobs
  BY DEF ParseOk, LoginWall, ParseFails, LandRaw, LandFails, LoadTracks, LoadFails, Raise, Crash
<1>2. from \in InStretch /\ to \in InStretch \cup {"crashed"}
  BY DEF InStretch
<1>3. /\ task[j] = from /\ task'[j] = to
      /\ \A t \in Session : t # j => task'[t] = task[t]
  BY <1>1, <1>2, StepEffect
<1>4. \A i \in Job : task'[i] = "none" <=> task[i] = "none"
  BY <1>3, JobsAreSessions
<1> QED
  BY <1>1, <1>4, StatusFrame, StatusMapSame

\* The second statements of set_done and set_error.
LEMMA FillStutters ==
    ASSUME IInv, NEW j \in Job, FillResult(j) \/ FillError(j)
    PROVE  UNCHANGED statusMap
<1>1. PICK from \in {"filling result", "filling error"} :
        /\ Step(j, from, "returned")
        /\ \/ jobs' = [jobs EXCEPT ![j].result = "tracks"]
           \/ \E e \in {"none"} \cup Errors : jobs' = [jobs EXCEPT ![j].error = e]
  BY TypeFacts DEF IInv, FillResult, FillError
<1>2. from \in InStretch
  BY DEF InStretch
<1>3. /\ j \in DOMAIN jobs /\ jobs[j] \in Entry
      /\ task[j] = from /\ task'[j] = "returned"
      /\ \A t \in Session : t # j => task'[t] = task[t]
      /\ jobs \in [DOMAIN jobs -> Entry]
  BY <1>1, <1>2, StepEffect, TypeFacts DEF IInv
<1>4. /\ DOMAIN jobs' = DOMAIN jobs
      /\ \A i \in DOMAIN jobs : jobs'[i].status = jobs[i].status
  <2>1. CASE jobs' = [jobs EXCEPT ![j].result = "tracks"]
    BY <1>3, <2>1, SetPayloadEffect DEF Entry
  <2>2. CASE \E e \in {"none"} \cup Errors : jobs' = [jobs EXCEPT ![j].error = e]
    <3>1. PICK e \in {"none"} \cup Errors : jobs' = [jobs EXCEPT ![j].error = e]
      BY <2>2
    <3>2. /\ DOMAIN jobs' = DOMAIN jobs
          /\ jobs'[j] = [jobs[j] EXCEPT !.error = e]
          /\ \A i \in DOMAIN jobs : i # j => jobs'[i] = jobs[i]
      BY <1>3, <3>1, SetPayloadEffect
    <3> QED
      BY <1>3, <3>2 DEF Entry
  <2> QED
    BY <1>1, <2>1, <2>2
<1>5. \A i \in Job : task'[i] = "none" <=> task[i] = "none"
  BY <1>3, JobsAreSessions
<1> QED
  BY <1>4, <1>5, StatusFrame, StatusMapSame

-----------------------------------------------------------------------------

LEMMA NextRefines == IInv /\ [Next]_vars => [Lifecycle!Next]_statusMap
<1> SUFFICES ASSUME IInv, [Next]_vars PROVE Lifecycle!Next \/ UNCHANGED statusMap
  OBVIOUS
<1>1. ASSUME NEW j \in Job, Submit(j) PROVE Lifecycle!Next
  BY <1>1, SubmitRefines DEF Lifecycle!Next
<1>2. ASSUME NEW j \in Job, StartTask(j) PROVE Lifecycle!Next
  BY <1>2, StartTaskRefines DEF Lifecycle!Next
<1>3. ASSUME NEW j \in Job, Stretch(j) PROVE Lifecycle!Next \/ UNCHANGED statusMap
  <2>1. CASE MarkDone(j) \/ MarkError(j)
    BY <2>1, MarkRefines DEF Lifecycle!Next
  <2>2. CASE FillResult(j) \/ FillError(j)
    BY <2>2, FillStutters
  <2>3. CASE \/ ParseOk(j) \/ LoginWall(j) \/ ParseFails(j) \/ LandRaw(j) \/ LandFails(j)
             \/ LoadTracks(j) \/ LoadFails(j)
    BY <2>3, QuietStutters
  <2> QED
    BY <1>3, <2>1, <2>2, <2>3 DEF Stretch
<1>4. ASSUME NEW j \in Job, Poll(j) PROVE UNCHANGED statusMap
  BY <1>4, StatusFrame, StatusMapSame DEF Poll
<1>5. ASSUME NEW d \in Discover, StartDiscover(d) PROVE UNCHANGED statusMap
  BY <1>5, DiscoverStutters
<1>6. ASSUME NEW s \in Session, InTheBrowser(s) PROVE UNCHANGED statusMap
  BY <1>6, BrowserStutters
<1>7. CASE Restart
  BY <1>7, RestartRefines DEF Lifecycle!Next
<1>8. CASE UNCHANGED vars
  BY <1>8, StatusFrame, StatusMapSame DEF vars
<1> QED
  BY <1>1, <1>2, <1>3, <1>4, <1>5, <1>6, <1>7, <1>8 DEF Next

\* The job table, the task and the poll between them do no more and no less to
\* a job than the life cycle allows, for any number of jobs and any interleaving.
THEOREM Refinement == Spec => ImplementsLifecycle
<1>1. Init => Lifecycle!Init
  BY InitRefines
<1>2. IInv /\ [Next]_vars => [Lifecycle!Next]_statusMap
  BY NextRefines
<1>3. [Lifecycle!Next]_statusMap => [Lifecycle!Next]_([j \in Job |-> StatusFor(j)])
  BY DEF statusMap
<1> QED
  BY <1>1, <1>2, <1>3, Invariance, PTL DEF Spec, ImplementsLifecycle, Lifecycle!Spec

=============================================================================
