--------------------------- MODULE WarehouseLoads ---------------------------
(***************************************************************************)
(* Scrapes of several processes -- the API pod and the ingest CronJob --   *)
(* that land in one data lake and load into one PostgreSQL warehouse, and  *)
(* GET /api/stats reading that warehouse while they do.                    *)
(*                                                                         *)
(* Each process runs one scrape at a time past the browser (a coroutine    *)
(* that no longer awaits in the API, a sequential loop in ingest.py), so   *)
(* interleavings are between processes: over lake objects, whose key has   *)
(* the resolution of a second, and over row locks, which a load takes one  *)
(* upsert at a time and keeps until its transaction ends.                  *)
(***************************************************************************)
EXTENDS Integers, Sequences, FiniteSets

CONSTANTS
    Scrape,         \* calls of scrape_and_store
    Proc,           \* processes that make them (a restarted pod is another one)
    Ingest,         \* those of Proc that run ingest.py
    ProcOf,         \* which process makes which call
    Track,          \* track urls
    NoUrl,          \* a parsed track whose link the parser did not find
    Source,         \* scraped pages
    Targets,        \* which scrape may be asked for which page
    PathOf,         \* the path of a page as _object_key flattens it
    Pages,          \* what each page may parse to: sequences over Track and NoUrl
    SourceLimit,    \* source_limit of get_stats
    MaxClock,       \* bound: seconds that pass
    Torn,           \* contents of an object that is not written to its end
    Nobody          \* no lock holder

ASSUME LoadsAssumption ==
    /\ IsFiniteSet(Scrape)
    /\ Ingest \subseteq Proc
    /\ ProcOf \in [Scrape -> Proc]
    /\ IsFiniteSet(Track) /\ NoUrl \notin Track
    /\ DOMAIN PathOf = Source /\ Targets \subseteq [Scrape -> Source]
    /\ Pages \in [Source -> SUBSET Seq(Track \cup {NoUrl})]
    /\ SourceLimit \in Nat /\ MaxClock \in Nat
    /\ Torn \notin Scrape /\ Nobody \notin Scrape

VARIABLES
    clock,      \* datetime.now(), in whole seconds
    stage,      \* where each scrape stands
    backend,    \* settings.lake_backend, one for all processes
    source,     \* the page it scrapes
    page,       \* the tracks it parsed
    key,        \* the key of its lake object: second and path
    next,       \* the place on its page that is loaded next
    lake,       \* key -> the scrape whose payload is stored there, or Torn
    lock,       \* who holds the lock of a track's row
    table,      \* url -> the scrape that the committed row is credited to
    extra,      \* committed rows without url: <<scrape, how many-th>>
    exit,       \* exit code of each ingest process
    stats       \* GET /api/stats: statements executed, and the total the first returned

vars == <<clock, stage, backend, source, page, key, next, lake, lock, table, extra, exit, stats>>

Ended  == {"done", "failed"}
Active == {"parsed", "putting", "landed", "loading"}
Stages == {"todo"} \cup Active \cup Ended

Backends == {"filesystem", "s3"}

Key == [second : 0..MaxClock, path : {PathOf[u] : u \in Source}]

Extras(s) == {<<s, i>> : i \in {n \in DOMAIN page[s] : page[s][n] = NoUrl}}
TracksOf(s) == {page[s][i] : i \in DOMAIN page[s]} \ {NoUrl}

Unread == [statements |-> 0, total |-> 0]

Init ==
    /\ clock = 0
    /\ stage = [s \in Scrape |-> "todo"]
    /\ backend \in Backends
    /\ source \in Targets
    /\ page = [s \in Scrape |-> <<>>]
    /\ key = [s \in Scrape |-> [second |-> 0, path |-> PathOf[source[s]]]]
    /\ next = [s \in Scrape |-> 1]
    /\ lake = [k \in {} |-> Torn]
    /\ lock = [t \in Track |-> Nobody]
    /\ table = [t \in {} |-> Nobody]
    /\ extra = {}
    /\ exit = [p \in Ingest |-> "none"]
    /\ stats = Unread

Move(s, from, to) == stage[s] = from /\ stage' = [stage EXCEPT ![s] = to]

Tick ==
    /\ clock < MaxClock
    /\ clock' = clock + 1
    /\ UNCHANGED <<stage, backend, source, page, key, next, lake, lock, table, extra, exit, stats>>

-----------------------------------------------------------------------------
(* scrape_and_store.                                                       *)

NothingElseRuns(s) ==
    \A other \in Scrape : ProcOf[other] = ProcOf[s] => stage[other] \notin Active

\* The page was fetched and parsed; scraped_at is taken.
Parse(s) ==
    /\ NothingElseRuns(s)
    /\ Move(s, "todo", "parsed")
    /\ page' \in {[page EXCEPT ![s] = p] : p \in Pages[source[s]]}
    /\ key' = [key EXCEPT ![s].second = clock]
    /\ UNCHANGED <<clock, backend, source, next, lake, lock, table, extra, exit, stats>>

\* Not soundcloud.com, a failed fetch, a login wall, a parse error.
FetchFails(s) ==
    /\ NothingElseRuns(s)
    /\ Move(s, "todo", "failed")
    /\ UNCHANGED <<clock, backend, source, page, key, next, lake, lock, table, extra, exit, stats>>

Store(s, contents) ==
    lake' = [k \in DOMAIN lake \cup {key[s]} |-> IF k = key[s] THEN contents ELSE lake[k]]

\* FilesystemLake.put: write_bytes truncates whatever the key held, then writes.
BeginPut(s) ==
    /\ backend = "filesystem"
    /\ Move(s, "parsed", "putting")
    /\ Store(s, Torn)
    /\ UNCHANGED <<clock, backend, source, page, key, next, lock, table, extra, exit, stats>>

\* Another process has had the same file open in between, or has it open now.
Overlaps(s) ==
    \/ lake[key[s]] # Torn
    \/ \E other \in Scrape \ {s} : stage[other] = "putting" /\ key[other] = key[s]

\* Two that overlap may leave a mix of both.
EndPut(s) ==
    /\ Move(s, "putting", "landed")
    /\ Store(s, s) \/ (Overlaps(s) /\ Store(s, Torn))
    /\ UNCHANGED <<clock, backend, source, page, key, next, lock, table, extra, exit, stats>>

\* S3Lake.put: an object is replaced as a whole.
PutObject(s) ==
    /\ backend = "s3"
    /\ Move(s, "parsed", "landed")
    /\ Store(s, s)
    /\ UNCHANGED <<clock, backend, source, page, key, next, lock, table, extra, exit, stats>>

\* Slip: the exception of the lake write is swallowed.
PutFails_Ignored(s) ==
    /\ Move(s, "parsed", "landed") \/ Move(s, "putting", "landed")
    /\ UNCHANGED <<clock, backend, source, page, key, next, lake, lock, table, extra, exit, stats>>

\* LakeWriteError: no space, no permission -- before or while writing; or S3 does not
\* answer, and may have stored the object.
PutFails(s) ==
    /\ Move(s, "parsed", "failed") \/ Move(s, "putting", "failed")
    /\ UNCHANGED lake \/ (backend = "s3" /\ Store(s, s))
    /\ UNCHANGED <<clock, backend, source, page, key, next, lock, table, extra, exit, stats>>

-----------------------------------------------------------------------------
(* load_tracks: one transaction, upserts in page order, each taking its    *)
(* row's lock; READ COMMITTED, so a waiting upsert goes on with the row as *)
(* the other transaction left it.  The tracks without url, which it inserts*)
(* after the others, take no lock: next just passes their places.          *)

Loading(s) == stage[s] = "loading" /\ next[s] <= Len(page[s])

\* The url that is upserted next, if there is one there.
Current(s) == page[s][next[s]]

\* Nothing parsed: load_tracks returns without a connection.
LoadNothing(s) ==
    /\ page[s] = <<>>
    /\ Move(s, "landed", "done")
    /\ UNCHANGED <<clock, backend, source, page, key, next, lake, lock, table, extra, exit, stats>>

BeginLoad(s) ==
    /\ page[s] # <<>>
    /\ Move(s, "landed", "loading")
    /\ UNCHANGED <<clock, backend, source, page, key, next, lake, lock, table, extra, exit, stats>>

\* Slip: autocommit=True on the pool.
Upsert_Autocommit(s) ==
    /\ Loading(s)
    /\ table' = [u \in DOMAIN table \cup ({Current(s)} \ {NoUrl}) |->
                    IF u = Current(s) THEN s ELSE table[u]]
    /\ next' = [next EXCEPT ![s] = @ + 1]
    /\ UNCHANGED <<clock, stage, backend, source, page, key, lake, lock, extra, exit, stats>>

Upsert(s) ==
    /\ Loading(s)
    /\ \/ Current(s) = NoUrl /\ UNCHANGED lock
       \/ /\ Current(s) # NoUrl
          /\ lock[Current(s)] \in {Nobody, s}
          /\ lock' = [lock EXCEPT ![Current(s)] = s]
    /\ next' = [next EXCEPT ![s] = @ + 1]
    /\ UNCHANGED <<clock, stage, backend, source, page, key, lake, table, extra, exit, stats>>

\* The end of a transaction, whichever: its locks go, and the place it had come to.
Unlock(s) ==
    /\ lock' = [t \in Track |-> IF lock[t] = s THEN Nobody ELSE lock[t]]
    /\ next' = [next EXCEPT ![s] = 1]

\* Slip: the rows with a url are inserted a second time with those without.
Commit_InsertsAll(s) ==
    /\ next[s] > Len(page[s])
    /\ Move(s, "loading", "done") \/ Move(s, "loading", "failed")
    /\ table' = [t \in DOMAIN table \cup TracksOf(s) |->
                    IF t \in TracksOf(s) THEN s ELSE table[t]]
    /\ extra' = extra \cup {<<s, i>> : i \in DOMAIN page[s]}
    /\ Unlock(s)
    /\ UNCHANGED <<clock, backend, source, page, key, lake, exit, stats>>

\* Slip: the source's rows are replaced instead of upserted.
Commit_Replaces(s) ==
    /\ next[s] > Len(page[s])
    /\ Move(s, "loading", "done")
    /\ LET kept == {t \in DOMAIN table : source[table[t]] # source[s]} \cup TracksOf(s)
       IN  table' = [t \in kept |-> IF t \in TracksOf(s) THEN s ELSE table[t]]
    /\ extra' = {e \in extra : source[e[1]] # source[s]} \cup Extras(s)
    /\ Unlock(s)
    /\ UNCHANGED <<clock, backend, source, page, key, lake, exit, stats>>

\* The transaction commits; the connection may break before the client hears.
Commit(s) ==
    /\ next[s] > Len(page[s])
    /\ Move(s, "loading", "done") \/ Move(s, "loading", "failed")
    /\ table' = [t \in DOMAIN table \cup TracksOf(s) |->
                    IF t \in TracksOf(s) THEN s ELSE table[t]]
    /\ extra' = extra \cup Extras(s)
    /\ Unlock(s)
    /\ UNCHANGED <<clock, backend, source, page, key, lake, exit, stats>>

\* Slip: the exception is caught inside the `with`, which then commits what was
\* upserted so far.
Rollback_Commits(s) ==
    /\ Move(s, "loading", "failed")
    /\ LET upserted == {t \in Track : lock[t] = s}
       IN  table' = [t \in DOMAIN table \cup upserted |->
                        IF t \in upserted THEN s ELSE table[t]]
    /\ Unlock(s)
    /\ UNCHANGED <<clock, backend, source, page, key, lake, extra, exit, stats>>

\* Slip: the connection goes back to the pool with its transaction open.
Rollback_KeepsLocks(s) ==
    /\ Move(s, "loading", "failed")
    /\ UNCHANGED <<clock, backend, source, page, key, next, lake, lock, table, extra, exit, stats>>

Rollback(s) ==
    /\ Move(s, "loading", "failed") \/ Move(s, "landed", "failed")
    /\ Unlock(s)
    /\ UNCHANGED <<clock, backend, source, page, key, lake, table, extra, exit, stats>>

WaitsFor(s) ==
    IF Loading(s) /\ Current(s) # NoUrl THEN lock[Current(s)] ELSE Nobody

\* PostgreSQL finds a cycle of waiting transactions and makes one of them fail.
Deadlocked(s) ==
    \E cycle \in SUBSET Scrape :
        /\ s \in cycle
        /\ {WaitsFor(x) : x \in cycle} = cycle
        /\ \A x \in cycle : WaitsFor(x) # x

BreakDeadlock(s) == Deadlocked(s) /\ Rollback(s)

-----------------------------------------------------------------------------
(* The processes.                                                          *)

\* Slip: any page that succeeded makes the run one.
Finish_CountsAny(p) ==
    /\ exit[p] = "none"
    /\ \A s \in Scrape : ProcOf[s] = p => stage[s] \in Ended
    /\ exit' = [exit EXCEPT ![p] =
                    IF \E s \in Scrape : ProcOf[s] = p /\ stage[s] = "done"
                    THEN "succeeded" ELSE "failed"]
    /\ UNCHANGED <<clock, stage, backend, source, page, key, next, lake, lock, table, extra, stats>>

\* ingest.py has gone through its urls; the exit code is the CronJob's verdict.
Finish(p) ==
    /\ exit[p] = "none"
    /\ \A s \in Scrape : ProcOf[s] = p => stage[s] \in Ended
    /\ exit' = [exit EXCEPT ![p] =
                    IF \A s \in Scrape : ProcOf[s] = p => stage[s] = "done"
                    THEN "succeeded" ELSE "failed"]
    /\ UNCHANGED <<clock, stage, backend, source, page, key, next, lake, lock, table, extra, stats>>

\* The process dies: its transaction is rolled back, a half-written object stays.
Kill(p) ==
    /\ \E s \in Scrape : ProcOf[s] = p /\ stage[s] \notin Ended
    /\ stage' = [s \in Scrape |-> IF ProcOf[s] = p /\ stage[s] \notin Ended
                                  THEN "failed" ELSE stage[s]]
    /\ lock' = [t \in Track |-> IF lock[t] # Nobody /\ ProcOf[lock[t]] = p
                                THEN Nobody ELSE lock[t]]
    /\ next' = [s \in Scrape |-> IF ProcOf[s] = p THEN 1 ELSE next[s]]
    /\ exit' = [q \in Ingest |-> IF q = p THEN "failed" ELSE exit[q]]
    /\ UNCHANGED <<clock, backend, source, page, key, lake, table, extra, stats>>

-----------------------------------------------------------------------------
(* get_stats: two statements, each seeing what is committed when it runs   *)
(* (the genre facet, a third one between them, is left out).               *)

Credited == {table[t] : t \in DOMAIN table} \cup {e[1] : e \in extra}

Rows == Cardinality(DOMAIN table) + Cardinality(extra)

Statement(n) ==
    /\ stats.statements = n - 1
    /\ UNCHANGED <<clock, stage, backend, source, page, key, next, lake, lock, table, extra, exit>>

ReadTotals == Statement(1) /\ stats' = [statements |-> 1, total |-> Rows]

\* The pages that rows are credited to, and the rows of some of them.
Scraped == {source[s] : s \in Credited}

RowsFrom(list) ==
    Cardinality({t \in DOMAIN table : source[table[t]] \in list})
        + Cardinality({e \in extra : source[e[1]] \in list})

\* max(scraped_at) of u is not before that of v, to the second (inside a second the
\* order is open).
AsRecent(u, v) ==
    \A s \in Credited : source[s] = v =>
        \E r \in Credited : source[r] = u /\ key[r].second >= key[s].second

\* What the last statement may return: the pages scraped last, up to the limit.
SourceLists ==
    {list \in SUBSET Scraped :
        /\ Cardinality(list) <= SourceLimit
        /\ list = Scraped \/ Cardinality(list) = SourceLimit
        /\ \A u \in list, v \in Scraped \ list : AsRecent(u, v)}

\* It is answered, along with the total.
ReadSources(list) == Statement(2) /\ list \in SourceLists /\ stats' = Unread

Stats == ReadTotals \/ \E list \in SUBSET Source : ReadSources(list)

-----------------------------------------------------------------------------

Work(s) ==
    \/ BeginPut(s) \/ EndPut(s) \/ PutObject(s) \/ LoadNothing(s) \/ BeginLoad(s)
    \/ Upsert(s)   \/ Commit(s)

Next ==
    \/ Tick
    \/ \E s \in Scrape : \/ Parse(s) \/ FetchFails(s) \/ PutFails(s)
                         \/ Work(s) \/ Rollback(s) \/ BreakDeadlock(s)
    \/ \E p \in Proc : Kill(p)
    \/ \E p \in Ingest : Finish(p)
    \/ Stats

Spec == Init /\ [][Next]_vars

(***************************************************************************)
(* Fairness: a scrape past its fetch keeps executing statements, and the   *)
(* database breaks deadlocks.  (An upsert waiting for a lock is disabled;  *)
(* it needs the holder to end.)                                            *)
(***************************************************************************)
FairSpec ==
    /\ Spec
    /\ \A s \in Scrape : WF_vars(Work(s)) /\ WF_vars(BreakDeadlock(s))

-----------------------------------------------------------------------------
(* Invariants.                                                             *)

\* Type correctness.
TypeOK ==
    /\ clock \in 0..MaxClock
    /\ stage \in [Scrape -> Stages]
    /\ backend \in Backends
    /\ source \in [Scrape -> Source]
    /\ page \in [Scrape -> Seq(Track \cup {NoUrl})]
    /\ key \in [Scrape -> Key]
    /\ next \in [Scrape -> Nat \ {0}] /\ \A s \in Scrape : next[s] <= Len(page[s]) + 1
    /\ DOMAIN lake \subseteq Key
    /\ \A k \in DOMAIN lake : lake[k] \in Scrape \cup {Torn}
    /\ lock \in [Track -> Scrape \cup {Nobody}]
    /\ DOMAIN table \subseteq Track
    /\ \A t \in DOMAIN table : table[t] \in Scrape
    /\ extra \subseteq UNION {Extras(s) : s \in Scrape}
    /\ exit \in [Ingest -> {"none", "succeeded", "failed"}]
    /\ stats \in [statements : 0..1, total : Nat]

Visible(s) == s \in Credited

\* load_tracks is all or nothing whatever kills or blocks it: once any row of a
\* scrape can be seen, every track of its page has a row, its url-less tracks too.
AllOrNothing ==
    \A s \in Scrape : Visible(s) =>
        TracksOf(s) \subseteq DOMAIN table /\ Extras(s) \subseteq extra

\* Two loads that overlap in several tracks leave those rows to the same winner:
\* no mix of an older and a newer scrape of the same tracks.
OneWinner ==
    \A t, u \in DOMAIN table :
        {t, u} \subseteq TracksOf(table[t]) \cap TracksOf(table[u]) => table[t] = table[u]

SameKey(s, other) == other # s /\ key[other] = key[s] /\ stage[other] # "todo"

\* Every row can be traced to the lake: there is an object under the key it names, and
\* that is the raw scrape the row was loaded from -- or another scrape of the same key
\* (flattened path, second) has been at it, and it is that one's, or torn by it.
RowsTraceToLake ==
    \A s \in Scrape : Visible(s) =>
        /\ key[s] \in DOMAIN lake
        /\ \/ lake[key[s]] = s
           \/ \E other \in Scrape : SameKey(s, other) /\ lake[key[s]] \in {other, Torn}

\* The CronJob counts as succeeded only if every one of its pages was landed
\* and is in the warehouse.
ExitCodeHonest ==
    \A p \in Ingest : exit[p] = "succeeded" =>
        \A s \in Scrape : ProcOf[s] = p =>
            key[s] \in DOMAIN lake /\ TracksOf(s) \subseteq DOMAIN table

-----------------------------------------------------------------------------
(* What a step may never do.                                               *)

\* Two snapshots, one answer: the tracks of the sources that /api/stats lists add up
\* to at least the total it read before them, as what is committed in between only adds
\* rows -- unless there are more sources than the list takes.
StatsOnlyGrow ==
    [][ \A list \in SUBSET Source :
            ReadSources(list) /\ list = Scraped => RowsFrom(list) >= stats.total ]_vars

-----------------------------------------------------------------------------
(* Liveness.                                                               *)

\* Loads of overlapping pages in any order do not block each other for good.
LoadsEnd == \A s \in Scrape : stage[s] = "loading" ~> stage[s] # "loading"

-----------------------------------------------------------------------------
(* What the comments say and the code does not do.                         *)

\* put_raw_scrape: "Land an immutable, timestamped raw scrape ... so the raw payload is
\* always recoverable/replayable" -- what has landed is still there, whole.
RawScrapesKept ==
    \A s \in Scrape : stage[s] \in {"landed", "loading", "done"} =>
        key[s] \in DOMAIN lake /\ lake[key[s]] = s

=============================================================================
