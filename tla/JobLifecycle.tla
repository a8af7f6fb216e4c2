---------------------------- MODULE JobLifecycle ----------------------------
(***************************************************************************)
(* What POST /scrape and GET /api/scrape/jobs/{id} promise about one job,  *)
(* without the table, the event loop or the browser: a job is accepted     *)
(* once, begins once, ends once as done or error, and may be forgotten     *)
(* only after it ended -- except that a restart of the API process         *)
(* forgets every job at once.  ScrapeJobs is shown to implement this.      *)
(***************************************************************************)
CONSTANT Job            \* job ids (uuid4: never reused)

VARIABLE status         \* what GET /api/scrape/jobs/{id} would say of each id

States == {"unknown", "queued", "running", "done", "error", "forgotten"}

Ended == {j \in Job : status[j] \in {"done", "error"}}

Tracked == {j \in Job : status[j] \notin {"unknown", "forgotten"}}

Init == status = [j \in Job |-> "unknown"]

-----------------------------------------------------------------------------

\* A new job is accepted; ended jobs may make room for it.
Accept(j) ==
    /\ status[j] = "unknown"
    /\ \E gone \in SUBSET Ended :
         status' = [i \in Job |-> IF i = j THEN "queued"
                                  ELSE IF i \in gone THEN "forgotten" ELSE status[i]]

Begin(j) ==
    /\ status[j] = "queued"
    /\ status' = [status EXCEPT ![j] = "running"]

End(j) ==
    /\ status[j] = "running"
    /\ \E s \in {"done", "error"} : status' = [status EXCEPT ![j] = s]

\* The process that holds the table is restarted.
Restart ==
    status' = [j \in Job |-> IF j \in Tracked THEN "forgotten" ELSE status[j]]

Next ==
    \/ \E j \in Job : Accept(j) \/ Begin(j) \/ End(j)
    \/ Restart

Spec == Init /\ [][Next]_status

=============================================================================
