-------------------------- MODULE MetadataRefresh --------------------------
(***************************************************************************)
(* The metadata-refresh CronJob: each run lists the tracks whose           *)
(* metadata_refreshed_at is oldest (never refreshed ones first), at most a *)
(* batch of them, and visits them one by one.  A track is stamped only     *)
(* when its page yielded data; a page that is gone, or a failed fetch,     *)
(* leaves the stamp as it was.  Only the order of the stamps matters, so   *)
(* the column is a sequence of the stamped tracks, oldest first.           *)
(***************************************************************************)
EXTENDS Integers, Sequences, FiniteSets

CONSTANTS
    Track,          \* track urls
    Batch,          \* APOLLO_METADATA_REFRESH_BATCH
    MaxGone,        \* bound: pages that disappear from SoundCloud
    MaxKills        \* bound: runs that are killed

ASSUME RefreshAssumption ==
    /\ IsFiniteSet(Track)
    /\ Batch \in Nat \ {0}
    /\ MaxGone \in Nat /\ MaxKills \in Nat

VARIABLES
    known,      \* urls in the tracks table
    stamped,    \* those with a metadata_refreshed_at, oldest first
    gone,       \* tracks whose page no longer yields hydration data
    running,    \* a run is going on (concurrency_policy Forbid: at most one)
    due,        \* what tracks_due_for_metadata_refresh returned to it
    visit,      \* the next of them to visit
    kills       \* runs killed so far

vars == <<known, stamped, gone, running, due, visit, kills>>

Elements(seq) == {seq[i] : i \in DOMAIN seq}

Never == known \ Elements(stamped)

\* All orders of a set of tracks: ORDER BY leaves ties, here the NULLs, open.
Orders(S) == {o \in [1..Cardinality(S) -> S] : Elements(o) = S}

Init ==
    /\ known = {}
    /\ stamped = <<>>
    /\ gone = {}
    /\ running = FALSE
    /\ due = <<>>
    /\ visit = 1
    /\ kills = 0

\* A scrape loads a track that was not in the table; its stamp is NULL.  (A
\* rescrape of a known track leaves the stamp alone.)
AddTrack(t) ==
    /\ t \notin known
    /\ known' = known \cup {t}
    /\ UNCHANGED <<stamped, gone, running, due, visit, kills>>

Vanish(t) ==
    /\ t \notin gone
    /\ Cardinality(gone) < MaxGone
    /\ gone' = gone \cup {t}
    /\ UNCHANGED <<known, stamped, running, due, visit, kills>>

Limited(seq) == SubSeq(seq, 1, IF Len(seq) < Batch THEN Len(seq) ELSE Batch)

\* Slip: ORDER BY metadata_refreshed_at DESC.
StartRun_Newest ==
    /\ ~running
    /\ running' = TRUE
    /\ due' \in {Limited(nulls \o [i \in DOMAIN stamped |-> stamped[Len(stamped) + 1 - i]]) :
                    nulls \in Orders(Never)}
    /\ visit' = 1
    /\ UNCHANGED <<known, stamped, gone, kills>>

\* The run starts: ORDER BY metadata_refreshed_at ASC NULLS FIRST LIMIT batch.
StartRun ==
    /\ ~running
    /\ running' = TRUE
    /\ due' \in {Limited(nulls \o stamped) : nulls \in Orders(Never)}
    /\ visit' = 1
    /\ UNCHANGED <<known, stamped, gone, kills>>

\* fetch_track_metadata: the page of a track hydrates the track itself, or nothing.
Yields(t) == t \notin gone

Visiting(t) == running /\ visit <= Len(due) /\ due[visit] = t

\* The stamped tracks without t, in their order.
Others(t) ==
    IF t \in Elements(stamped)
    THEN LET i == CHOOSE i \in DOMAIN stamped : stamped[i] = t
         IN  SubSeq(stamped, 1, i - 1) \o SubSeq(stamped, i + 1, Len(stamped))
    ELSE stamped

\* Slip: the UPDATE without metadata_refreshed_at = now().
RefreshTrack_Unstamped(t) ==
    /\ Visiting(t)
    /\ Yields(t)
    /\ visit' = visit + 1
    /\ UNCHANGED <<known, stamped, gone, running, due, kills>>

\* The page yielded data: the counters are updated and stamped now().
RefreshTrack(t) ==
    /\ Visiting(t)
    /\ Yields(t)
    /\ stamped' = Append(Others(t), t)
    /\ visit' = visit + 1
    /\ UNCHANGED <<known, gone, running, due, kills>>

\* None from a page without hydration data, or an exception: logged, next one.
SkipTrack(t) ==
    /\ Visiting(t)
    /\ visit' = visit + 1
    /\ UNCHANGED <<known, stamped, gone, running, due, kills>>

EndRun ==
    /\ running
    /\ visit > Len(due)
    /\ running' = FALSE
    /\ UNCHANGED <<known, stamped, gone, due, visit, kills>>

\* The pod is evicted; the job is not retried (backoff_limit = 0).
KillRun ==
    /\ running
    /\ kills < MaxKills
    /\ kills' = kills + 1
    /\ running' = FALSE
    /\ UNCHANGED <<known, stamped, gone, due, visit>>

Visit(t) == RefreshTrack(t) \/ SkipTrack(t)

Next ==
    \/ \E t \in Track : AddTrack(t) \/ Vanish(t) \/ Visit(t)
    \/ StartRun \/ EndRun \/ KillRun

Spec == Init /\ [][Next]_vars

(***************************************************************************)
(* Fairness: the schedule starts the job again and again, a run goes       *)
(* through its batch, and the page of a track that is still there does not *)
(* fail every time it is visited.                                          *)
(***************************************************************************)
FairSpec ==
    /\ Spec
    /\ WF_vars(StartRun) /\ WF_vars(EndRun)
    /\ \A t \in Track : WF_vars(Visit(t)) /\ SF_vars(RefreshTrack(t))

-----------------------------------------------------------------------------

Visited == {due[i] : i \in 1..visit - 1}

\* A track is refreshed only after this run has visited every track with an older
\* stamp: no track is overtaken (tracks_due_for_metadata_refresh:
\* "oldest-refreshed-first").
NobodyOvertaken ==
    \A t \in Track : Visiting(t) =>
        \A i, j \in DOMAIN stamped : stamped[j] = t /\ i < j => stamped[i] \in Visited

\* Every track whose page stays is refreshed again and again.  With a batch
\* larger than the number of pages that are gone this holds; with as many pages
\* gone as the batch holds it does not, although tracks_due_for_metadata_refresh
\* and refresh_metadata.py say that "the whole table cycles through gradually".
TableCycles ==
    \A t \in Track :
        <>[](t \in known /\ Yields(t)) => []<><<RefreshTrack(t)>>_vars

=============================================================================
