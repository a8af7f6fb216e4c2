------------------------ MODULE WarehouseLoads_proofs ------------------------
(***************************************************************************)
(* Proofs about WarehouseLoads, for any finite number of scrapes and       *)
(* tracks, any processes, and pages of any length and in any order.        *)
(***************************************************************************)
EXTENDS WarehouseLoads, FiniteSetTheorems, TLAPS

-----------------------------------------------------------------------------
(* The inductive invariant.                                                *)

\* A load begins with the first track of its page.
BeginsAtFirst == \A s \in Scrape : stage[s] # "loading" => next[s] = 1

\* Only a transaction that is open holds row locks, ...
LockedByLoads ==
    \A t \in Track : lock[t] # Nobody => stage[lock[t]] = "loading"

\* ... and it holds those of all the rows it has upserted.
HoldsWhatItUpserted ==
    \A s \in Scrape : stage[s] = "loading" =>
        \A i \in 1..next[s] - 1 : page[s][i] # NoUrl => lock[page[s][i]] = s

\* What can be seen of a scrape was committed by a load that is over.
SeenIsOver == \A s \in Scrape : Visible(s) => stage[s] \in {"done", "failed"}

\* An object is of a scrape of that key, which is past its write; and a file that is
\* open for writing is there.
Objects ==
    /\ \A s \in Scrape : stage[s] = "putting" => key[s] \in DOMAIN lake
    /\ \A k \in DOMAIN lake : lake[k] # Torn =>
          key[lake[k]] = k /\ stage[lake[k]] \notin {"todo", "parsed", "putting"}

\* From landing on, the lake has the payload, or that of another scrape of the key.
Landed ==
    \A s \in Scrape : stage[s] \in {"landed", "loading", "done"} \/ Visible(s) =>
        /\ key[s] \in DOMAIN lake
        /\ \/ lake[key[s]] = s
           \/ \E other \in Scrape : SameKey(s, other) /\ lake[key[s]] \in {other, Torn}

DoneIsLoaded == \A s \in Scrape : stage[s] = "done" => TracksOf(s) \subseteq DOMAIN table

SucceededIsDone ==
    \A p \in Ingest : exit[p] = "succeeded" =>
        \A s \in Scrape : ProcOf[s] = p => stage[s] = "done"

\* The total was the number of rows when it was read.
TotalWasTrue == stats.statements = 1 => stats.total <= Rows

IInv ==
    /\ TypeOK
    /\ BeginsAtFirst /\ LockedByLoads /\ HoldsWhatItUpserted
    /\ SeenIsOver /\ AllOrNothing /\ OneWinner
    /\ Objects /\ Landed /\ DoneIsLoaded /\ SucceededIsDone
    /\ TotalWasTrue

-----------------------------------------------------------------------------
(* What a step may do, whichever it is.                                    *)

\* Committed rows change in a commit and nowhere else.
LEMMA OnlyCommitWrites ==
    ASSUME [Next]_vars
    PROVE  UNCHANGED <<table, extra>> \/ \E s \in Scrape : Commit(s)
BY DEF Next, Work, vars, Tick, Parse, FetchFails, PutFails, BeginPut, EndPut, PutObject,
       LoadNothing, BeginLoad, Upsert, Rollback, BreakDeadlock, Kill, Finish,
       Stats, Statement, ReadTotals, ReadSources

\* What was parsed, and the key it is stored under, stay as they are.
LEMMA ParsedStays ==
    ASSUME TypeOK, [Next]_vars, NEW s \in Scrape, stage[s] # "todo"
    PROVE  page'[s] = page[s] /\ key'[s] = key[s]
<1>1. (\E x \in Scrape : Parse(x)) \/ UNCHANGED <<page, key>>
  BY DEF Next, Work, vars, Tick, FetchFails, PutFails, BeginPut, EndPut, PutObject,
         LoadNothing, BeginLoad, Upsert, Commit, Rollback, BreakDeadlock, Kill, Finish,
         Stats, Statement, ReadTotals, ReadSources
<1>2. ASSUME NEW x \in Scrape, Parse(x)
      PROVE  page'[s] = page[s] /\ key'[s] = key[s]
  <2>1. x # s
    BY <1>2 DEF Parse, Move
  <2> QED
    BY <1>2, <2>1 DEF Parse, TypeOK
<1> QED
  BY <1>1, <1>2

\* A scrape that has ended stays ended, in the same way.
LEMMA EndedStays ==
    ASSUME TypeOK, [Next]_vars, NEW s \in Scrape, stage[s] \in Ended
    PROVE  stage'[s] = stage[s]
<1>1. ASSUME NEW x \in Scrape,
             \/ Parse(x) \/ FetchFails(x) \/ PutFails(x) \/ BeginPut(x) \/ EndPut(x)
             \/ PutObject(x) \/ LoadNothing(x) \/ BeginLoad(x) \/ Commit(x) \/ Rollback(x)
      PROVE  stage'[s] = stage[s]
  BY <1>1 DEF Parse, FetchFails, PutFails, BeginPut, EndPut, PutObject,
       LoadNothing, BeginLoad, Commit, Rollback, Move, Ended, TypeOK
<1>2. ASSUME NEW p \in Proc, Kill(p)
      PROVE  stage'[s] = stage[s]
  BY <1>2 DEF Kill
<1>3. ASSUME Tick \/ Stats \/ UNCHANGED vars \/ (\E p \in Ingest : Finish(p))
                 \/ (\E x \in Scrape : Upsert(x))
      PROVE  stage' = stage
  BY <1>3 DEF Tick, Stats, Statement, ReadTotals, ReadSources, Finish, Upsert, vars
<1> QED
  BY <1>1, <1>2, <1>3 DEF Next, Work, BreakDeadlock

\* The rows and the pages of what can be seen stay, so what holds of them does.
LEMMA PageFrame ==
    ASSUME NEW s, page'[s] = page[s]
    PROVE  Extras(s)' = Extras(s) /\ TracksOf(s)' = TracksOf(s)
BY DEF Extras, TracksOf

-----------------------------------------------------------------------------
(* Type correctness.                                                       *)

LEMMA InitTypeOK == Init => TypeOK
<1> SUFFICES ASSUME Init
             PROVE  TypeOK
  OBVIOUS
<1>1. /\ clock \in 0..MaxClock
      /\ key \in [Scrape -> Key]
  BY LoadsAssumption DEF Init, Key
<1>2. /\ stage \in [Scrape -> Stages] /\ backend \in Backends
      /\ source \in [Scrape -> Source]
      /\ page \in [Scrape -> Seq(Track \cup {NoUrl})]
      /\ lock \in [Track -> Scrape \cup {Nobody}]
      /\ exit \in [Ingest -> {"none", "succeeded", "failed"}]
      /\ stats \in [statements : 0..1, total : Nat]
  BY LoadsAssumption DEF Init, Stages, Unread
<1>3. DOMAIN lake = {} /\ DOMAIN table = {} /\ extra = {}
  BY DEF Init
<1>4. next \in [Scrape -> Nat \ {0}] /\ \A s \in Scrape : next[s] <= Len(page[s]) + 1
  BY DEF Init
<1> QED
  BY <1>1, <1>2, <1>3, <1>4 DEF TypeOK

\* Pages are sequences of tracks and of places without url.
LEMMA PageType ==
    ASSUME TypeOK, NEW s \in Scrape
    PROVE  page[s] \in Seq(Track \cup {NoUrl})
BY DEF TypeOK

\* The rows of a scrape stay among those its page may have: they do not change
\* with a page that is parsed, since that scrape has not committed any.
LEMMA ExtraType ==
    ASSUME TypeOK, SeenIsOver, [Next]_vars
    PROVE  extra' \subseteq UNION {Extras(s)' : s \in Scrape}
<1>1. ASSUME NEW e \in extra
      PROVE  \E s \in Scrape : e \in Extras(s)'
  <2>1. PICK s \in Scrape : e \in Extras(s)
    BY DEF TypeOK
  <2>2. Visible(s)
    BY <2>1 DEF Extras, Visible, Credited
  <2>3. stage[s] # "todo"
    BY <2>2 DEF SeenIsOver
  <2> QED
    BY <2>1, <2>3, ParsedStays, PageFrame
<1>2. ASSUME NEW s \in Scrape, Commit(s)
      PROVE  extra' \subseteq extra \cup Extras(s)'
  BY <1>2 DEF Commit, Extras
<1> QED
  BY <1>1, <1>2, OnlyCommitWrites

LEMMA TypeStep ==
    ASSUME TypeOK, SeenIsOver, BeginsAtFirst, TotalWasTrue, [Next]_vars, Rows \in Nat
    PROVE  TypeOK'
<1>1. extra' \subseteq UNION {Extras(s)' : s \in Scrape}
  BY ExtraType
<1> DEFINE Rest ==
        /\ clock \in 0..MaxClock
        /\ stage \in [Scrape -> Stages]
        /\ backend \in Backends
        /\ source \in [Scrape -> Source]
        /\ page \in [Scrape -> Seq(Track \cup {NoUrl})]
        /\ key \in [Scrape -> Key]
        /\ next \in [Scrape -> Nat \ {0}]
        /\ \A s \in Scrape : next[s] <= Len(page[s]) + 1
        /\ DOMAIN lake \subseteq Key
        /\ \A k \in DOMAIN lake : lake[k] \in Scrape \cup {Torn}
        /\ lock \in [Track -> Scrape \cup {Nobody}]
        /\ DOMAIN table \subseteq Track
        /\ \A t \in DOMAIN table : table[t] \in Scrape
        /\ exit \in [Ingest -> {"none", "succeeded", "failed"}]
        /\ stats \in [statements : 0..1, total : Nat]
<1>2. Rest
  BY DEF TypeOK
<1>3. \A s \in Scrape : page[s] \in Seq(Track \cup {NoUrl}) /\ Len(page[s]) \in Nat
  BY PageType
<1>4. ASSUME Tick
      PROVE  Rest'
  BY <1>2, <1>4, LoadsAssumption DEF Tick
<1>5. ASSUME NEW s \in Scrape, Parse(s)
      PROVE  Rest'
  <2>1. PICK tracks \in Pages[source[s]] : page' = [page EXCEPT ![s] = tracks]
    BY <1>5 DEF Parse
  <2>8. tracks \in Seq(Track \cup {NoUrl})
    BY <1>2, <2>1, LoadsAssumption
  <2>9. page' \in [Scrape -> Seq(Track \cup {NoUrl})] /\ page'[s] = tracks
    BY <1>2, <2>1, <2>8
  <2>10. stage' \in [Scrape -> Stages]
    BY <1>2, <1>5 DEF Parse, Move, Stages, Active
  <2>2. [key[s] EXCEPT !.second = clock] \in Key
    BY <1>2 DEF Key
  <2>3. key' = [key EXCEPT ![s] = [key[s] EXCEPT !.second = clock]]
    BY <1>5 DEF Parse
  <2>4. key' \in [Scrape -> Key]
    BY <1>2, <2>2, <2>3
  <2>6. Len(page'[s]) \in Nat
    BY <2>8, <2>9
  <2>7. \A x \in Scrape : next'[x] <= Len(page'[x]) + 1
    <3>1. \A x \in Scrape : x # s => page'[x] = page[x]
      BY <1>2, <1>5 DEF Parse
    <3>2. next[s] = 1
      BY <1>5 DEF BeginsAtFirst, Parse, Move
    <3>3. next' = next /\ \A x \in Scrape : next[x] <= Len(page[x]) + 1
      BY <1>2, <1>5 DEF Parse
    <3>4. next'[s] <= Len(page'[s]) + 1
      BY <2>6, <3>2, <3>3
    <3> QED
      BY <3>1, <3>3, <3>4
  <2> QED
    BY <1>2, <1>5, <2>4, <2>7, <2>9, <2>10 DEF Parse
<1>6. ASSUME NEW s \in Scrape,
             FetchFails(s) \/ LoadNothing(s) \/ BeginLoad(s)
      PROVE  Rest'
  BY <1>2, <1>6 DEF FetchFails, LoadNothing, BeginLoad, Move, Stages, Active, Ended
<1>7. ASSUME NEW s \in Scrape, NEW contents \in {s, Torn}, Store(s, contents)
      PROVE  /\ DOMAIN lake' \subseteq Key
             /\ \A k \in DOMAIN lake' : lake'[k] \in Scrape \cup {Torn}
  BY <1>2, <1>7 DEF Store
<1>8. ASSUME NEW s \in Scrape,
             BeginPut(s) \/ EndPut(s) \/ PutObject(s) \/ PutFails(s)
      PROVE  Rest'
  <2>1. stage' \in [Scrape -> Stages]
    BY <1>2, <1>8 DEF BeginPut, EndPut, PutObject, PutFails, Move, Stages, Active, Ended
  <2>2. UNCHANGED lake \/ Store(s, s) \/ Store(s, Torn)
    BY <1>8 DEF BeginPut, EndPut, PutObject, PutFails
  <2>3. UNCHANGED <<clock, backend, source, page, key, next, lock, table, exit, stats>>
    BY <1>8 DEF BeginPut, EndPut, PutObject, PutFails
  <2> QED
    BY <1>2, <1>7, <2>1, <2>2, <2>3
<1>9. ASSUME NEW s \in Scrape, Upsert(s)
      PROVE  Rest'
  <2>1. Current(s) # NoUrl => Current(s) \in Track
    BY <1>2, <1>3, <1>9 DEF Upsert, Loading, Current
  <2>2. lock' \in [Track -> Scrape \cup {Nobody}]
    BY <1>2, <1>9, <2>1 DEF Upsert
  <2>3. next' \in [Scrape -> Nat \ {0}]
    BY <1>2, <1>9 DEF Upsert
  <2>4. \A x \in Scrape : next'[x] <= Len(page'[x]) + 1
    BY <1>2, <1>3, <1>9 DEF Upsert, Loading
  <2> QED
    BY <1>2, <1>9, <2>2, <2>3, <2>4 DEF Upsert
<1>10. ASSUME NEW s \in Scrape, Commit(s)
       PROVE  Rest'
  <2>1. TracksOf(s) \subseteq Track
    BY <1>3 DEF TracksOf
  <2>2. /\ stage' \in [Scrape -> Stages]
        /\ lock' \in [Track -> Scrape \cup {Nobody}]
    BY <1>2, <1>10 DEF Commit, Move, Unlock, Stages, Ended
  <2>5. next' \in [Scrape -> Nat \ {0}]
    BY <1>2, <1>10 DEF Commit, Unlock
  <2>4. \A x \in Scrape : next'[x] <= Len(page'[x]) + 1
    BY <1>2, <1>3, <1>10 DEF Commit, Unlock
  <2>3. DOMAIN table' \subseteq Track /\ \A t \in DOMAIN table' : table'[t] \in Scrape
    BY <1>2, <1>10, <2>1 DEF Commit
  <2> QED
    BY <1>2, <1>10, <2>2, <2>3, <2>4, <2>5 DEF Commit
<1>11. ASSUME NEW s \in Scrape, Rollback(s)
       PROVE  Rest'
  <2>1. /\ stage' \in [Scrape -> Stages]
        /\ lock' \in [Track -> Scrape \cup {Nobody}]
        /\ next' \in [Scrape -> Nat \ {0}]
    BY <1>2, <1>11 DEF Rollback, Move, Unlock, Stages, Ended
  <2>2. \A x \in Scrape : next'[x] <= Len(page'[x]) + 1
    BY <1>2, <1>3, <1>11 DEF Rollback, Unlock
  <2> QED
    BY <1>2, <1>11, <2>1, <2>2 DEF Rollback
<1>12. ASSUME NEW p \in Proc, Kill(p)
       PROVE  Rest'
  <2>1. /\ stage' \in [Scrape -> Stages]
        /\ lock' \in [Track -> Scrape \cup {Nobody}]
        /\ exit' \in [Ingest -> {"none", "succeeded", "failed"}]
        /\ next' \in [Scrape -> Nat \ {0}]
    BY <1>2, <1>12 DEF Kill, Stages, Ended
  <2>2. \A x \in Scrape : next'[x] <= Len(page'[x]) + 1
    BY <1>2, <1>3, <1>12 DEF Kill
  <2> QED
    BY <1>2, <1>12, <2>1, <2>2 DEF Kill
<1>13. ASSUME NEW p \in Ingest, Finish(p)
       PROVE  Rest'
  BY <1>2, <1>13 DEF Finish
<1>14. ASSUME Stats
       PROVE  Rest'
  <2>1. stats' \in [statements : 0..1, total : Nat]
    BY <1>14 DEF Stats, ReadTotals, ReadSources, Unread
  <2> QED
    BY <1>2, <1>14, <2>1 DEF Stats, ReadTotals, ReadSources, Statement
<1>15. ASSUME UNCHANGED vars
       PROVE  Rest'
  BY <1>2, <1>15 DEF vars
<1>16. Rest'
  <2> HIDE DEF Rest
  <2> QED
    BY <1>4, <1>5, <1>6, <1>8, <1>9, <1>10, <1>11, <1>12, <1>13, <1>14, <1>15
    DEF Next, Work, BreakDeadlock
<1> QED
  BY <1>1, <1>16 DEF TypeOK

-----------------------------------------------------------------------------
(* Row locks.                                                              *)

LEMMA BeginsStep ==
    ASSUME TypeOK, BeginsAtFirst, [Next]_vars
    PROVE  BeginsAtFirst'
<1> SUFFICES ASSUME NEW s \in Scrape, stage'[s] # "loading"
             PROVE  next'[s] = 1
  BY DEF BeginsAtFirst
<1>1. stage[s] # "loading" => next[s] = 1
  BY DEF BeginsAtFirst
<1>2. ASSUME NEW x \in Scrape, Commit(x) \/ Rollback(x)
      PROVE  next'[s] = 1
  BY <1>1, <1>2 DEF Commit, Rollback, Move, Unlock, TypeOK
<1>3. ASSUME NEW x \in Scrape, Upsert(x)
      PROVE  next'[s] = 1
  BY <1>1, <1>3 DEF Upsert, Loading, TypeOK
<1>4. ASSUME NEW p \in Proc, Kill(p)
      PROVE  next'[s] = 1
  BY <1>1, <1>4 DEF Kill, TypeOK
<1>5. ASSUME NEW x \in Scrape,
             \/ Parse(x) \/ FetchFails(x) \/ PutFails(x) \/ BeginPut(x) \/ EndPut(x)
             \/ PutObject(x) \/ LoadNothing(x) \/ BeginLoad(x)
      PROVE  next'[s] = 1
  BY <1>1, <1>5 DEF Parse, FetchFails, PutFails, BeginPut, EndPut, PutObject,
       LoadNothing, BeginLoad, Move, TypeOK
<1>6. ASSUME Tick \/ Stats \/ UNCHANGED vars \/ \E p \in Ingest : Finish(p)
      PROVE  next'[s] = 1
  BY <1>1, <1>6 DEF Tick, Stats, Statement, ReadTotals, ReadSources, Finish, vars
<1> QED
  BY <1>2, <1>3, <1>4, <1>5, <1>6 DEF Next, Work, BreakDeadlock

\* A lock is taken by an upsert, and only if nobody else has it.
LEMMA LocksTaken ==
    ASSUME TypeOK, [Next]_vars, NEW t \in Track
    PROVE  \/ lock'[t] \in {lock[t], Nobody}
           \/ \E s \in Scrape : Upsert(s) /\ lock[t] = Nobody /\ lock'[t] = s
<1>1. ASSUME NEW s \in Scrape, Upsert(s), lock'[t] # lock[t]
      PROVE  lock[t] = Nobody /\ lock'[t] = s
  BY <1>1 DEF Upsert, TypeOK
<1> QED
  BY <1>1 DEF Next, Work, vars, Tick, Parse, FetchFails, PutFails, BeginPut, EndPut, PutObject,
       LoadNothing, BeginLoad, Commit, Rollback, BreakDeadlock, Kill, Finish, Unlock,
       Stats, Statement, ReadTotals, ReadSources, TypeOK

\* Locks are given up at the end of the transaction, and not before.
LEMMA LocksGivenUp ==
    ASSUME TypeOK, LockedByLoads, [Next]_vars, NEW t \in Track, lock[t] # Nobody
    PROVE  lock'[t] = IF stage'[lock[t]] = "loading" THEN lock[t] ELSE Nobody
<1> DEFINE s == lock[t]
<1>1. s \in Scrape /\ stage[s] = "loading"
  BY DEF TypeOK, LockedByLoads
<1>2. ASSUME NEW x \in Scrape, Commit(x) \/ Rollback(x)
      PROVE  lock'[t] = IF stage'[s] = "loading" THEN s ELSE Nobody
  BY <1>1, <1>2 DEF Commit, Rollback, Move, Unlock, TypeOK
<1>3. ASSUME NEW p \in Proc, Kill(p)
      PROVE  lock'[t] = IF stage'[s] = "loading" THEN s ELSE Nobody
  BY <1>1, <1>3 DEF Kill, Ended, TypeOK
<1>4. ASSUME NEW x \in Scrape, Upsert(x)
      PROVE  lock'[t] = s /\ stage'[s] = "loading"
  BY <1>1, <1>4 DEF Upsert, TypeOK
<1>5. ASSUME NEW x \in Scrape,
             Parse(x) \/ FetchFails(x) \/ PutFails(x) \/ BeginPut(x) \/ EndPut(x)
                 \/ PutObject(x) \/ LoadNothing(x) \/ BeginLoad(x)
      PROVE  lock'[t] = s /\ stage'[s] = "loading"
  BY <1>1, <1>5 DEF Parse, FetchFails, PutFails, BeginPut, EndPut, PutObject, LoadNothing,
       BeginLoad, Move, TypeOK
<1>6. ASSUME Tick \/ Stats \/ UNCHANGED vars \/ \E p \in Ingest : Finish(p)
      PROVE  lock'[t] = s /\ stage'[s] = "loading"
  BY <1>1, <1>6 DEF Tick, Stats, Statement, ReadTotals, ReadSources,
       Finish, vars
<1> QED
  BY <1>2, <1>3, <1>4, <1>5, <1>6 DEF Next, Work, BreakDeadlock

LEMMA LockedStep ==
    ASSUME TypeOK, LockedByLoads, [Next]_vars
    PROVE  LockedByLoads'
<1> SUFFICES ASSUME NEW t \in Track, lock'[t] # Nobody
             PROVE  stage'[lock'[t]] = "loading"
  BY DEF LockedByLoads
<1>1. CASE lock[t] # Nobody
  BY <1>1, LocksGivenUp
<1>2. CASE lock[t] = Nobody
  <2>1. PICK s \in Scrape : Upsert(s) /\ lock'[t] = s
    BY <1>2, LocksTaken
  <2> QED
    BY <2>1 DEF Upsert, Loading
<1> QED
  BY <1>1, <1>2

LEMMA HoldsStep ==
    ASSUME TypeOK, BeginsAtFirst, LockedByLoads, HoldsWhatItUpserted, [Next]_vars
    PROVE  HoldsWhatItUpserted'
<1> SUFFICES ASSUME NEW s \in Scrape, stage'[s] = "loading",
                    NEW i \in 1..next'[s] - 1, page'[s][i] # NoUrl
             PROVE  lock'[page'[s][i]] = s
  BY DEF HoldsWhatItUpserted
<1>1. \/ stage[s] = "loading" /\ next'[s] = next[s]
      \/ Upsert(s)
      \/ BeginLoad(s)
  <2>1. ASSUME NEW x \in Scrape, Upsert(x), x # s
        PROVE  stage[s] = "loading" /\ next'[s] = next[s]
    BY <2>1 DEF Upsert, TypeOK
  <2>2. ASSUME NEW x \in Scrape,
               Parse(x) \/ FetchFails(x) \/ PutFails(x) \/ BeginPut(x) \/ EndPut(x)
                   \/ PutObject(x) \/ LoadNothing(x) \/ Commit(x) \/ Rollback(x)
        PROVE  stage[s] = "loading" /\ next'[s] = next[s]
    BY <2>2 DEF Parse, FetchFails, PutFails, BeginPut, EndPut, PutObject,
         LoadNothing, Commit, Rollback, Move, Unlock, TypeOK
  <2>3. ASSUME NEW x \in Scrape, BeginLoad(x), x # s
        PROVE  stage[s] = "loading" /\ next'[s] = next[s]
    BY <2>3 DEF BeginLoad, Move, TypeOK
  <2>4. ASSUME NEW p \in Proc, Kill(p)
        PROVE  stage[s] = "loading" /\ next'[s] = next[s]
    BY <2>4 DEF Kill, Ended, TypeOK
  <2>5. ASSUME Tick \/ Stats \/ UNCHANGED vars \/ \E p \in Ingest : Finish(p)
        PROVE  stage[s] = "loading" /\ next'[s] = next[s]
    BY <2>5 DEF Tick, Stats, Statement, ReadTotals, ReadSources,
         Finish, vars
  <2> QED
    BY <2>1, <2>2, <2>3, <2>4, <2>5 DEF Next, Work, BreakDeadlock
<1>2. ASSUME stage[s] = "loading", i \in 1..next[s] - 1
      PROVE  lock'[page'[s][i]] = s
  <2>1. page'[s] = page[s]
    BY <1>2, ParsedStays
  <2>2. lock[page[s][i]] = s
    BY <1>2, <2>1 DEF HoldsWhatItUpserted
  <2>3. page[s][i] \in Track
    <3>1. page[s] \in Seq(Track \cup {NoUrl}) /\ next[s] \in Nat /\ next[s] <= Len(page[s]) + 1
      BY PageType DEF TypeOK
    <3>2. i \in 1..Len(page[s])
      BY <1>2, <3>1
    <3> QED
      BY <2>1, <3>1, <3>2
  <2> QED
    BY <2>1, <2>2, <2>3, LocksGivenUp, LoadsAssumption
<1>3. CASE stage[s] = "loading" /\ next'[s] = next[s]
  BY <1>2, <1>3
<1>4. CASE Upsert(s)
  <2>1. /\ page' = page /\ stage[s] = "loading"
        /\ next[s] \in Nat \ {0} /\ next[s] <= Len(page[s])
    BY <1>4 DEF Upsert, Loading, TypeOK
  <2>2. next'[s] = next[s] + 1
    BY <1>4 DEF Upsert, TypeOK
  <2>3. page[s] \in Seq(Track \cup {NoUrl}) /\ Len(page[s]) \in Nat
    BY PageType
  <2>4. CASE i = next[s]
    BY <1>4, <2>1, <2>3, <2>4 DEF Upsert, Loading, Current, TypeOK
  <2> QED
    BY <1>2, <2>1, <2>2, <2>3, <2>4
<1>5. CASE BeginLoad(s)
  BY <1>5 DEF BeginLoad, Move, BeginsAtFirst
<1> QED
  BY <1>1, <1>3, <1>4, <1>5

-----------------------------------------------------------------------------
(* What is committed.                                                      *)

\* A step shows at most the scrape that it commits.
LEMMA NewlySeen ==
    ASSUME [Next]_vars, NEW s \in Scrape, Visible(s)'
    PROVE  Visible(s) \/ Commit(s)
<1>1. CASE UNCHANGED <<table, extra>>
  BY <1>1 DEF Visible, Credited
<1>2. ASSUME NEW x \in Scrape, Commit(x), x # s
      PROVE  Visible(s)
  <2>1. CASE \E t \in DOMAIN table' : table'[t] = s
    BY <1>2, <2>1 DEF Commit, Visible, Credited
  <2>2. CASE \E e \in extra' : e[1] = s
    BY <1>2, <2>2 DEF Commit, Visible, Credited, Extras
  <2> QED
    BY <2>1, <2>2 DEF Visible, Credited
<1> QED
  BY <1>1, <1>2, OnlyCommitWrites

LEMMA SeenStep ==
    ASSUME TypeOK, SeenIsOver, [Next]_vars
    PROVE  SeenIsOver'
<1> SUFFICES ASSUME NEW s \in Scrape, Visible(s)'
             PROVE  stage'[s] \in {"done", "failed"}
  BY DEF SeenIsOver
<1>1. CASE Visible(s)
  BY <1>1, EndedStays DEF SeenIsOver, Ended
<1>2. CASE Commit(s)
  BY <1>2 DEF Commit, Move, TypeOK
<1> QED
  BY <1>1, <1>2, NewlySeen

\* Rows do not go away.
LEMMA RowsStay ==
    ASSUME [Next]_vars
    PROVE  DOMAIN table \subseteq DOMAIN table' /\ extra \subseteq extra'
<1>1. ASSUME NEW s \in Scrape, Commit(s)
      PROVE  DOMAIN table \subseteq DOMAIN table' /\ extra \subseteq extra'
  BY <1>1 DEF Commit
<1> QED
  BY <1>1, OnlyCommitWrites

LEMMA AllOrNothingStep ==
    ASSUME TypeOK, SeenIsOver, AllOrNothing, [Next]_vars
    PROVE  AllOrNothing'
<1> SUFFICES ASSUME NEW s \in Scrape, Visible(s)'
             PROVE  TracksOf(s)' \subseteq DOMAIN table' /\ Extras(s)' \subseteq extra'
  BY DEF AllOrNothing
<1>1. CASE Visible(s)
  <2>1. TracksOf(s)' = TracksOf(s) /\ Extras(s)' = Extras(s)
    BY <1>1, ParsedStays, PageFrame DEF SeenIsOver
  <2> QED
    BY <1>1, <2>1, RowsStay DEF AllOrNothing
<1>2. CASE Commit(s)
  <2>1. TracksOf(s)' = TracksOf(s) /\ Extras(s)' = Extras(s)
    BY <1>2, PageFrame DEF Commit
  <2> QED
    BY <1>2, <2>1 DEF Commit
<1> QED
  BY <1>1, <1>2, NewlySeen

LEMMA OneWinnerStep ==
    ASSUME TypeOK, SeenIsOver, OneWinner, [Next]_vars
    PROVE  OneWinner'
<1> SUFFICES ASSUME NEW t \in DOMAIN table', NEW u \in DOMAIN table',
                    {t, u} \subseteq TracksOf(table[t])' \cap TracksOf(table[u])'
             PROVE  table'[t] = table'[u]
  BY DEF OneWinner
<1>1. ASSUME NEW x \in Scrape, Visible(x)
      PROVE  page'[x] = page[x]
  BY <1>1, ParsedStays DEF SeenIsOver
<1>2. CASE UNCHANGED <<table, extra>>
  <2>1. Visible(table[t]) /\ Visible(table[u]) /\ table[t] \in Scrape /\ table[u] \in Scrape
    BY <1>2 DEF Visible, Credited, TypeOK
  <2>2. {t, u} \subseteq TracksOf(table[t]) \cap TracksOf(table[u])
    BY <1>1, <1>2, <2>1 DEF TracksOf
  <2> QED
    BY <1>2, <2>2 DEF OneWinner
<1>3. ASSUME NEW s \in Scrape, Commit(s)
      PROVE  table'[t] = table'[u]
  <2>1. page' = page
    BY <1>3 DEF Commit
  <2>2. {t, u} \subseteq TracksOf(table'[t]) \cap TracksOf(table'[u])
    BY <2>1 DEF TracksOf
  <2>3. \A x \in DOMAIN table' : table'[x] = IF x \in TracksOf(s) THEN s ELSE table[x]
    BY <1>3 DEF Commit
  <2>4. CASE table'[t] = s \/ table'[u] = s
    BY <2>2, <2>3, <2>4
  <2>5. CASE table'[t] # s /\ table'[u] # s
    <3>1. t \in DOMAIN table /\ u \in DOMAIN table
      BY <1>3, <2>3, <2>5 DEF Commit
    <3> QED
      BY <2>2, <2>3, <2>5, <3>1 DEF OneWinner
  <2> QED
    BY <2>4, <2>5
<1> QED
  BY <1>2, <1>3, OnlyCommitWrites

-----------------------------------------------------------------------------
(* The lake.                                                               *)

\* Who writes an object, and what it becomes.
LEMMA WhoWrites ==
    ASSUME TypeOK, [Next]_vars
    PROVE  \/ UNCHANGED lake
           \/ \E x \in Scrape :
                 /\ stage[x] \in {"parsed", "putting"}
                 /\ UNCHANGED key
                 /\ \/ Store(x, Torn) /\ stage' = [stage EXCEPT ![x] = "putting"]
                    \/ Store(x, Torn) /\ stage' = [stage EXCEPT ![x] = "landed"]
                    \/ Store(x, x) /\ stage' = [stage EXCEPT ![x] = "landed"]
                    \/ Store(x, x) /\ stage' = [stage EXCEPT ![x] = "failed"]
<1>1. (\E x \in Scrape : BeginPut(x) \/ EndPut(x) \/ PutObject(x) \/ PutFails(x))
      \/ UNCHANGED lake
  BY DEF Next, Work, vars, Tick, Parse, FetchFails, LoadNothing, BeginLoad, Upsert, Commit,
       Rollback, BreakDeadlock, Kill, Finish,
       Stats, Statement, ReadTotals, ReadSources
<1> QED
  BY <1>1 DEF BeginPut, EndPut, PutObject, PutFails, Move

\* Objects are overwritten, never removed; and only by a scrape that has parsed its
\* page and stores it under the same key.
LEMMA LakeStays ==
    ASSUME TypeOK, [Next]_vars
    PROVE  /\ DOMAIN lake \subseteq DOMAIN lake'
           /\ \A k \in DOMAIN lake : lake'[k] # lake[k] =>
                 \E x \in Scrape : /\ stage[x] \in {"parsed", "putting"}
                                   /\ key[x] = k /\ lake'[k] \in {x, Torn}
<1>1. ASSUME NEW x \in Scrape, NEW contents, Store(x, contents)
      PROVE  /\ DOMAIN lake \subseteq DOMAIN lake'
             /\ \A k \in DOMAIN lake : lake'[k] # lake[k] => key[x] = k /\ lake'[k] = contents
  BY <1>1 DEF Store
<1> QED
  BY <1>1, WhoWrites

\* What has begun does not become undone, and a write that is over is not begun again.
LEMMA StagesGoOn ==
    ASSUME TypeOK, [Next]_vars, NEW s \in Scrape
    PROVE  /\ stage[s] # "todo" => stage'[s] # "todo"
           /\ stage[s] \notin {"todo", "parsed", "putting"} =>
                 stage'[s] \notin {"todo", "parsed", "putting"}
<1>1. ASSUME NEW x \in Scrape,
             \/ Parse(x) \/ FetchFails(x) \/ PutFails(x) \/ BeginPut(x) \/ EndPut(x)
             \/ PutObject(x) \/ LoadNothing(x) \/ BeginLoad(x) \/ Commit(x) \/ Rollback(x)
      PROVE  \/ stage'[s] = stage[s]
             \/ stage[s] = "todo"
             \/ stage[s] \in {"parsed", "putting"} /\ stage'[s] # "todo"
             \/ stage'[s] \notin {"todo", "parsed", "putting"}
  BY <1>1 DEF Parse, FetchFails, PutFails, BeginPut, EndPut, PutObject,
       LoadNothing, BeginLoad, Commit, Rollback, Move, TypeOK
<1>2. ASSUME NEW p \in Proc, Kill(p)
      PROVE  stage'[s] \in {stage[s], "failed"}
  BY <1>2 DEF Kill
<1>3. ASSUME Tick \/ Stats \/ UNCHANGED vars \/ (\E p \in Ingest : Finish(p))
                 \/ (\E x \in Scrape : Upsert(x))
      PROVE  stage' = stage
  BY <1>3 DEF Tick, Stats, Statement, ReadTotals, ReadSources, Finish, Upsert, vars
<1> QED
  BY <1>1, <1>2, <1>3 DEF Next, Work, BreakDeadlock

LEMMA ObjectsStep ==
    ASSUME TypeOK, Objects, [Next]_vars
    PROVE  Objects'
<1>1. ASSUME NEW s \in Scrape, stage'[s] = "putting"
      PROVE  key'[s] \in DOMAIN lake'
  <2>1. CASE stage[s] = "putting"
    BY <2>1, ParsedStays, LakeStays DEF Objects
  <2>2. ASSUME NEW x \in Scrape, BeginPut(x), stage[s] # "putting"
        PROVE  key'[s] \in DOMAIN lake'
    BY <1>1, <2>2 DEF BeginPut, Move, Store, TypeOK
  <2>3. ASSUME NEW x \in Scrape,
               \/ Parse(x) \/ FetchFails(x) \/ PutFails(x) \/ EndPut(x) \/ PutObject(x)
               \/ LoadNothing(x) \/ BeginLoad(x) \/ Commit(x) \/ Rollback(x)
        PROVE  stage[s] = "putting"
    BY <1>1, <2>3 DEF Parse, FetchFails, PutFails, EndPut, PutObject,
         LoadNothing, BeginLoad, Commit, Rollback, Move, TypeOK
  <2>4. ASSUME NEW p \in Proc, Kill(p)
        PROVE  stage[s] = "putting"
    BY <1>1, <2>4 DEF Kill
  <2>5. ASSUME Tick \/ Stats \/ UNCHANGED vars \/ (\E p \in Ingest : Finish(p))
                   \/ (\E x \in Scrape : Upsert(x))
        PROVE  stage[s] = "putting"
    BY <1>1, <2>5 DEF Tick, Stats, Statement, ReadTotals, ReadSources, Finish, Upsert, vars
  <2> QED
    BY <2>1, <2>2, <2>3, <2>4, <2>5 DEF Next, Work, BreakDeadlock
<1>2. ASSUME NEW k \in DOMAIN lake', lake'[k] # Torn
      PROVE  key'[lake'[k]] = k /\ stage'[lake'[k]] \notin {"todo", "parsed", "putting"}
  <2>1. ASSUME k \in DOMAIN lake, lake'[k] = lake[k]
        PROVE  key'[lake'[k]] = k /\ stage'[lake'[k]] \notin {"todo", "parsed", "putting"}
    <3>1. lake[k] \in Scrape
      BY <1>2, <2>1 DEF TypeOK
    <3>2. key[lake[k]] = k /\ stage[lake[k]] \notin {"todo", "parsed", "putting"}
      BY <1>2, <2>1 DEF Objects
    <3> QED
      BY <2>1, <3>1, <3>2, ParsedStays, StagesGoOn
  <2>2. CASE UNCHANGED lake
    BY <2>1, <2>2
  <2>3. ASSUME NEW x \in Scrape, UNCHANGED key, Store(x, x),
               stage' = [stage EXCEPT ![x] = "landed"] \/ stage' = [stage EXCEPT ![x] = "failed"]
        PROVE  key'[lake'[k]] = k /\ stage'[lake'[k]] \notin {"todo", "parsed", "putting"}
    <3>1. CASE k = key[x]
      BY <2>3, <3>1 DEF Store, TypeOK
    <3>2. CASE k # key[x]
      <4>1. k \in DOMAIN lake /\ lake'[k] = lake[k]
        BY <2>3, <3>2 DEF Store
      <4> QED
        BY <2>1, <4>1
    <3> QED
      BY <3>1, <3>2
  <2>4. ASSUME NEW x \in Scrape, Store(x, Torn)
        PROVE  key'[lake'[k]] = k /\ stage'[lake'[k]] \notin {"todo", "parsed", "putting"}
    <3>1. k \in DOMAIN lake /\ lake'[k] = lake[k]
      BY <1>2, <2>4 DEF Store
    <3> QED
      BY <2>1, <3>1
  <2> QED
    BY <2>2, <2>3, <2>4, WhoWrites
<1> QED
  BY <1>1, <1>2 DEF Objects

\* What an object under the key of s may be, once s has stored its own there.
Traces(s) ==
    /\ key[s] \in DOMAIN lake
    /\ \/ lake[key[s]] = s
       \/ \E other \in Scrape : SameKey(s, other) /\ lake[key[s]] \in {other, Torn}

\* A write that ends leaves the payload, or a mix of it with that of another writer.
LEMMA WriteTraces ==
    ASSUME TypeOK, Objects, [Next]_vars, NEW s \in Scrape, EndPut(s) \/ PutObject(s)
    PROVE  Traces(s)'
<1>1. key' = key /\ stage[s] \in {"parsed", "putting"}
  BY DEF EndPut, PutObject, Move
<1>2. CASE Store(s, s)
  BY <1>1, <1>2 DEF Store, Traces
<1>3. ASSUME EndPut(s), Overlaps(s), Store(s, Torn)
      PROVE  Traces(s)'
  <2>1. key[s] \in DOMAIN lake
    BY <1>3 DEF EndPut, Move, Objects
  <2>2. PICK other \in Scrape : other # s /\ key[other] = key[s] /\ stage[other] # "todo"
    <3>1. ASSUME lake[key[s]] # Torn
          PROVE  \E other \in Scrape : other # s /\ key[other] = key[s] /\ stage[other] # "todo"
      <4>1. lake[key[s]] \in Scrape
        BY <2>1, <3>1 DEF TypeOK
      <4>2. key[lake[key[s]]] = key[s] /\ stage[lake[key[s]]] \notin {"todo", "parsed", "putting"}
        BY <2>1, <3>1 DEF Objects
      <4> QED
        BY <1>1, <4>1, <4>2
    <3> QED
      BY <1>3, <3>1 DEF Overlaps
  <2>3. SameKey(s, other)'
    BY <1>1, <2>2, StagesGoOn DEF SameKey
  <2>4. key'[s] \in DOMAIN lake' /\ lake'[key'[s]] = Torn
    BY <1>1, <1>3 DEF Store
  <2> QED
    BY <2>3, <2>4 DEF Traces
<1> QED
  BY <1>2, <1>3 DEF EndPut, PutObject

\* Who gets past the landing, and how.
LEMMA Lands ==
    ASSUME TypeOK, [Next]_vars, NEW s \in Scrape, stage'[s] \in {"landed", "loading", "done"}
    PROVE  stage[s] \in {"landed", "loading", "done"} \/ EndPut(s) \/ PutObject(s)
<1>1. ASSUME NEW x \in Scrape, EndPut(x) \/ PutObject(x), x # s
      PROVE  stage[s] \in {"landed", "loading", "done"}
  BY <1>1 DEF EndPut, PutObject, Move, TypeOK
<1>2. ASSUME NEW x \in Scrape,
             Parse(x) \/ FetchFails(x) \/ BeginPut(x) \/ PutFails(x) \/ LoadNothing(x)
                 \/ BeginLoad(x) \/ Upsert(x) \/ Commit(x) \/ Rollback(x)
      PROVE  stage[s] \in {"landed", "loading", "done"}
  BY <1>2 DEF Parse, FetchFails, BeginPut, PutFails, LoadNothing, BeginLoad, Upsert, Commit,
       Rollback, Move, TypeOK
<1>3. ASSUME NEW p \in Proc, Kill(p)
      PROVE  stage[s] \in {"landed", "loading", "done"}
  BY <1>3 DEF Kill
<1>4. ASSUME Tick \/ Stats \/ UNCHANGED vars \/ \E p \in Ingest : Finish(p)
      PROVE  stage[s] \in {"landed", "loading", "done"}
  BY <1>4 DEF Tick, Stats, Statement, ReadTotals, ReadSources, Finish, vars
<1> QED
  BY <1>1, <1>2, <1>3, <1>4 DEF Next, Work, BreakDeadlock

\* Once stored, only another scrape of the same key can write over it.
LEMMA TracesStays ==
    ASSUME TypeOK, [Next]_vars, NEW s \in Scrape, Traces(s),
           stage[s] \notin {"todo", "parsed", "putting"}
    PROVE  Traces(s)'
<1>1. key'[s] = key[s] /\ key[s] \in DOMAIN lake /\ key[s] \in DOMAIN lake'
  BY ParsedStays, LakeStays DEF Traces
<1>2. ASSUME NEW x \in Scrape, SameKey(s, x)
      PROVE  SameKey(s, x)'
  BY <1>1, <1>2, ParsedStays, StagesGoOn DEF SameKey
<1>3. CASE lake'[key[s]] = lake[key[s]]
  BY <1>1, <1>2, <1>3 DEF Traces
<1>4. CASE lake'[key[s]] # lake[key[s]]
  <2>1. PICK x \in Scrape : /\ stage[x] \in {"parsed", "putting"}
                            /\ key[x] = key[s] /\ lake'[key[s]] \in {x, Torn}
    BY <1>1, <1>4, LakeStays
  <2>2. SameKey(s, x)
    BY <2>1 DEF SameKey
  <2> QED
    BY <1>1, <1>2, <2>1, <2>2 DEF Traces
<1> QED
  BY <1>3, <1>4

LEMMA LandedStep ==
    ASSUME TypeOK, SeenIsOver, Objects, Landed, [Next]_vars
    PROVE  Landed'
<1> SUFFICES ASSUME NEW s \in Scrape,
                    stage'[s] \in {"landed", "loading", "done"} \/ Visible(s)'
             PROVE  Traces(s)'
  BY DEF Landed, Traces
<1>1. CASE stage[s] \in {"landed", "loading", "done"} \/ Visible(s)
  BY <1>1, TracesStays DEF SeenIsOver, Landed, Traces
<1>2. CASE EndPut(s) \/ PutObject(s)
  BY <1>2, WriteTraces
<1>3. CASE Commit(s)
  <2>1. stage[s] = "loading"
    BY <1>3 DEF Commit, Move
  <2> QED
    BY <1>1, <2>1
<1> QED
  BY <1>1, <1>2, <1>3, Lands, NewlySeen

-----------------------------------------------------------------------------
(* The exit codes.                                                         *)

LEMMA DoneStep ==
    ASSUME TypeOK, DoneIsLoaded, [Next]_vars
    PROVE  DoneIsLoaded'
<1> SUFFICES ASSUME NEW s \in Scrape, stage'[s] = "done"
             PROVE  TracksOf(s)' \subseteq DOMAIN table'
  BY DEF DoneIsLoaded
<1>1. CASE stage[s] = "done"
  BY <1>1, ParsedStays, PageFrame, RowsStay DEF DoneIsLoaded
<1>2. CASE LoadNothing(s)
  <2>1. page'[s] = <<>>
    BY <1>2 DEF LoadNothing
  <2> QED
    BY <2>1 DEF TracksOf
<1>3. CASE Commit(s)
  BY <1>3, PageFrame DEF Commit
<1>4. ASSUME NEW x \in Scrape, LoadNothing(x) \/ Commit(x), x # s
      PROVE  stage[s] = "done"
  BY <1>4 DEF LoadNothing, Commit, Move, TypeOK
<1>5. ASSUME NEW x \in Scrape,
             Parse(x) \/ FetchFails(x) \/ BeginPut(x) \/ EndPut(x) \/ PutObject(x)
                 \/ PutFails(x) \/ BeginLoad(x) \/ Upsert(x) \/ Rollback(x)
      PROVE  stage[s] = "done"
  BY <1>5 DEF Parse, FetchFails, BeginPut, EndPut, PutObject, PutFails, BeginLoad, Upsert,
       Rollback, Move, TypeOK
<1>6. ASSUME NEW p \in Proc, Kill(p)
      PROVE  stage[s] = "done"
  BY <1>6 DEF Kill
<1>7. ASSUME Tick \/ Stats \/ UNCHANGED vars \/ \E p \in Ingest : Finish(p)
      PROVE  stage[s] = "done"
  BY <1>7 DEF Tick, Stats, Statement, ReadTotals, ReadSources,
       Finish, vars
<1> QED
  BY <1>1, <1>2, <1>3, <1>4, <1>5, <1>6, <1>7 DEF Next, Work, BreakDeadlock

LEMMA SucceededStep ==
    ASSUME TypeOK, SucceededIsDone, [Next]_vars
    PROVE  SucceededIsDone'
<1> SUFFICES ASSUME NEW p \in Ingest, exit'[p] = "succeeded",
                    NEW s \in Scrape, ProcOf[s] = p
             PROVE  stage'[s] = "done"
  BY DEF SucceededIsDone
<1>1. CASE exit[p] = "succeeded"
  BY <1>1, EndedStays DEF SucceededIsDone, Ended
<1>2. ASSUME NEW q \in Ingest, Finish(q), exit[p] # "succeeded"
      PROVE  stage'[s] = "done"
  BY <1>2 DEF Finish, TypeOK
<1>3. ASSUME NEW q \in Proc, Kill(q)
      PROVE  exit[p] = "succeeded"
  BY <1>3 DEF Kill
<1>4. (\E q \in Ingest : Finish(q)) \/ (\E q \in Proc : Kill(q)) \/ UNCHANGED exit
  BY DEF Next, Work, vars, Tick, Parse, FetchFails, PutFails, BeginPut, EndPut, PutObject,
       LoadNothing, BeginLoad, Upsert, Commit, Rollback, BreakDeadlock,
       Stats, Statement, ReadTotals, ReadSources
<1> QED
  BY <1>1, <1>2, <1>3, <1>4

-----------------------------------------------------------------------------
(* GET /api/stats.                                                         *)

\* There are finitely many rows, so that they can be counted.
LEMMA ExtrasFinite ==
    ASSUME TypeOK, NEW s \in Scrape
    PROVE  IsFiniteSet(Extras(s))
<1>1. page[s] \in Seq(Track \cup {NoUrl})
  BY PageType
<1>2. IsFiniteSet(1..Len(page[s])) /\ IsFiniteSet({s})
  <2> DEFINE n == Len(page[s])
  <2>1. n \in Int
    BY <1>1
  <2> HIDE DEF n
  <2>2. IsFiniteSet(1..n)
    BY <2>1, FS_Interval
  <2>3. IsFiniteSet({s})
    BY FS_Singleton
  <2> QED
    BY <2>2, <2>3 DEF n
<1>3. IsFiniteSet({s} \X (1..Len(page[s])))
  BY <1>2, FS_Product
<1>4. \A i \in DOMAIN page[s] : <<s, i>> \in {s} \X (1..Len(page[s]))
  BY <1>1
<1>5. Extras(s) \subseteq {s} \X (1..Len(page[s]))
  BY <1>4 DEF Extras
<1> QED
  BY <1>3, <1>5, FS_Subset

LEMMA RowsFinite ==
    ASSUME TypeOK
    PROVE  IsFiniteSet(DOMAIN table) /\ IsFiniteSet(extra)
<1>1. IsFiniteSet(DOMAIN table)
  BY FS_Subset, LoadsAssumption DEF TypeOK
<1> DEFINE all == {Extras(s) : s \in Scrape}
           f == [s \in Scrape |-> Extras(s)]
<1>2. f \in Surjection(Scrape, all)
  BY DEF Surjection
<1>3. IsFiniteSet(all)
  <2> HIDE DEF f, all
  <2> QED
    BY <1>2, FS_Surjection, LoadsAssumption
<1>4. IsFiniteSet(UNION all)
  BY <1>3, ExtrasFinite, FS_UNION
<1> QED
  BY <1>1, <1>4, FS_Subset DEF TypeOK

LEMMA RowsCounted ==
    ASSUME TypeOK
    PROVE  Rows \in Nat
<1>1. Cardinality(DOMAIN table) \in Nat /\ Cardinality(extra) \in Nat
  BY RowsFinite, FS_CardinalityType
<1> QED
  BY <1>1 DEF Rows

\* Their number never goes down.
LEMMA RowsGrow ==
    ASSUME TypeOK, [Next]_vars
    PROVE  Rows \in Nat /\ Rows' \in Nat /\ Rows <= Rows'
<1>1. IsFiniteSet(DOMAIN table) /\ IsFiniteSet(extra)
  BY RowsFinite
<1>2. IsFiniteSet(DOMAIN table') /\ IsFiniteSet(extra')
  <2>1. ASSUME NEW s \in Scrape, Commit(s)
        PROVE  IsFiniteSet(DOMAIN table') /\ IsFiniteSet(extra')
    <3>1. DOMAIN table' = DOMAIN table \cup TracksOf(s) /\ extra' = extra \cup Extras(s)
      BY <2>1 DEF Commit
    <3>2. TracksOf(s) \subseteq Track
      BY PageType DEF TracksOf
    <3>3. IsFiniteSet(TracksOf(s))
      BY <3>2, FS_Subset, LoadsAssumption
    <3> QED
      BY <1>1, <3>1, <3>3, ExtrasFinite, FS_Union
  <2> QED
    BY <1>1, <2>1, OnlyCommitWrites
<1>3. /\ Cardinality(DOMAIN table) <= Cardinality(DOMAIN table')
      /\ Cardinality(extra) <= Cardinality(extra')
  BY <1>2, RowsStay, FS_Subset
<1>4. /\ Cardinality(DOMAIN table) \in Nat /\ Cardinality(extra) \in Nat
      /\ Cardinality(DOMAIN table') \in Nat /\ Cardinality(extra') \in Nat
  BY <1>1, <1>2, FS_CardinalityType
<1> QED
  BY <1>3, <1>4 DEF Rows

LEMMA TotalStep ==
    ASSUME TypeOK, TotalWasTrue, [Next]_vars
    PROVE  TotalWasTrue'
<1>1. Rows \in Nat /\ Rows' \in Nat /\ Rows <= Rows'
  BY RowsGrow
<1>2. stats \in [statements : 0..1, total : Nat]
  BY DEF TypeOK
<1>3. CASE Stats
  <2>1. Rows' = Rows
    BY <1>3 DEF Stats, Statement, ReadTotals, ReadSources, Rows
  <2> QED
    BY <1>1, <1>3, <2>1 DEF Stats, ReadTotals, ReadSources, Unread, TotalWasTrue
<1>4. CASE UNCHANGED stats
  BY <1>1, <1>2, <1>4 DEF TotalWasTrue
<1>5. Stats \/ UNCHANGED stats
  BY DEF Next, Work, vars, Tick, Parse, FetchFails, PutFails, BeginPut, EndPut, PutObject,
       LoadNothing, BeginLoad, Upsert, Commit, Rollback, BreakDeadlock, Kill, Finish
<1> QED
  BY <1>3, <1>4, <1>5

\* All the pages together have all the rows.
LEMMA AllSources ==
    ASSUME TypeOK
    PROVE  RowsFrom(Scraped) = Rows
<1>1. \A t \in DOMAIN table : source[table[t]] \in Scraped
  BY DEF Scraped, Credited
<1>2. \A e \in extra : source[e[1]] \in Scraped
  BY DEF Scraped, Credited
<1>3. /\ {t \in DOMAIN table : source[table[t]] \in Scraped} = DOMAIN table
      /\ {e \in extra : source[e[1]] \in Scraped} = extra
  BY <1>1, <1>2
<1> QED
  BY <1>3 DEF RowsFrom, Rows

-----------------------------------------------------------------------------
(* The theorems.                                                           *)

LEMMA InitIInv == Init => IInv
<1> SUFFICES ASSUME Init
             PROVE  IInv
  OBVIOUS
<1>1. TypeOK
  BY InitTypeOK
<1>2. \A s \in Scrape : stage[s] = "todo" /\ ~Visible(s)
  BY DEF Init, Visible, Credited
<1>3. BeginsAtFirst /\ LockedByLoads /\ HoldsWhatItUpserted /\ SeenIsOver /\ SucceededIsDone
  BY <1>2 DEF Init, BeginsAtFirst, LockedByLoads, HoldsWhatItUpserted, SeenIsOver, SucceededIsDone
<1>4. AllOrNothing /\ OneWinner /\ Objects /\ Landed /\ DoneIsLoaded
  BY <1>2 DEF Init, AllOrNothing, OneWinner, Objects, Landed, DoneIsLoaded
<1>5. TotalWasTrue
  BY DEF Init, Unread, TotalWasTrue
<1> QED
  BY <1>1, <1>3, <1>4, <1>5 DEF IInv

LEMMA NextIInv == IInv /\ [Next]_vars => IInv'
<1> SUFFICES ASSUME IInv, [Next]_vars
             PROVE  IInv'
  OBVIOUS
<1>1. TypeOK'
  BY RowsGrow, TypeStep DEF IInv
<1>2. (BeginsAtFirst /\ LockedByLoads /\ HoldsWhatItUpserted)'
  BY BeginsStep, LockedStep, HoldsStep DEF IInv
<1>3. (SeenIsOver /\ AllOrNothing /\ OneWinner)'
  BY SeenStep, AllOrNothingStep, OneWinnerStep DEF IInv
<1>4. (Objects /\ Landed /\ DoneIsLoaded /\ SucceededIsDone /\ TotalWasTrue)'
  BY ObjectsStep, LandedStep, DoneStep, SucceededStep, TotalStep DEF IInv
<1> QED
  BY <1>1, <1>2, <1>3, <1>4 DEF IInv

\* The invariant that the others follow from: what a load has upserted it has locked,
\* and what has been seen, stored or counted stays so.
THEOREM Invariance == Spec => []IInv
BY InitIInv, NextIInv, PTL DEF Spec

\* Whatever is loaded, killed or blocked in whatever order, the tables and the lake
\* hold what they should.
THEOREM TypeCorrect == Spec => []TypeOK
<1>1. IInv => TypeOK
  BY DEF IInv
<1> QED
  BY <1>1, Invariance, PTL

\* Once one row of a scrape can be seen, all of its page can (load_tracks is one
\* transaction, and a row once written stays).
THEOREM NothingHalf == Spec => []AllOrNothing
<1>1. IInv => AllOrNothing
  BY DEF IInv
<1> QED
  BY <1>1, Invariance, PTL

\* Overlapping loads, in any number and any order of their upserts, leave the tracks
\* that they share to one winner.
THEOREM NoMix == Spec => []OneWinner
<1>1. IInv => OneWinner
  BY DEF IInv
<1> QED
  BY <1>1, Invariance, PTL

\* Every row names an object that is there, with the raw scrape it was loaded from or
\* what another scrape of the same key (_object_key: path and second) has made of it.
THEOREM Traceable == Spec => []RowsTraceToLake
<1>1. IInv => RowsTraceToLake
  BY DEF IInv, Landed, RowsTraceToLake
<1> QED
  BY <1>1, Invariance, PTL

\* ingest.py exits with 0 only if all of its pages are in the lake and the warehouse.
THEOREM HonestExit == Spec => []ExitCodeHonest
<1>1. IInv => ExitCodeHonest
  BY DEF IInv, SucceededIsDone, DoneIsLoaded, Landed, ExitCodeHonest
<1> QED
  BY <1>1, Invariance, PTL

\* The sources that get_stats lists add up to at least its total, unless its LIMIT has
\* left some out.
THEOREM StatsAddUp == Spec => StatsOnlyGrow
<1> DEFINE AddsUp ==
        \A list \in SUBSET Source :
            ReadSources(list) /\ list = Scraped => RowsFrom(list) >= stats.total
<1>1. ASSUME IInv
      PROVE  AddsUp
  <2>1. ASSUME NEW list \in SUBSET Source, ReadSources(list), list = Scraped
        PROVE  RowsFrom(list) >= stats.total
    <3>1. RowsFrom(list) = Rows
      BY <1>1, <2>1, AllSources DEF IInv
    <3>2. stats.statements = 1 /\ stats \in [statements : 0..1, total : Nat]
      BY <1>1, <2>1 DEF IInv, TypeOK, ReadSources, Statement
    <3>3. Rows \in Nat /\ stats.total <= Rows
      BY <1>1, <3>2, RowsCounted DEF IInv, TotalWasTrue
    <3> QED
      BY <3>1, <3>2, <3>3
  <2> QED
    BY <2>1
<1>2. IInv /\ [Next]_vars => [AddsUp]_vars
  BY <1>1
<1> QED
  BY <1>2, Invariance, PTL DEF Spec, StatsOnlyGrow

\* A committed row changes hands only under its lock.
WritesUnderLock ==
    [][ \A t \in DOMAIN table' :
            t \notin DOMAIN table \/ table'[t] # table[t] => lock[t] = table'[t] ]_vars

\* What a commit of load_tracks writes, however many upserts before it ran next to other
\* loads, it has locked since.
THEOREM NoDirtyWrite == Spec => WritesUnderLock
<1>1. ASSUME IInv, [Next]_vars, NEW t \in DOMAIN table',
             t \notin DOMAIN table \/ table'[t] # table[t]
      PROVE  lock[t] = table'[t]
  <2>1. PICK s \in Scrape : Commit(s)
    BY <1>1, OnlyCommitWrites
  <2>2. t \in TracksOf(s) /\ table'[t] = s
    BY <1>1, <2>1 DEF Commit
  <2>3. PICK i \in DOMAIN page[s] : page[s][i] = t /\ t # NoUrl
    BY <2>2 DEF TracksOf
  <2>4. i \in 1..next[s] - 1
    <3>1. /\ page[s] \in Seq(Track \cup {NoUrl}) /\ next[s] \in Nat
          /\ next[s] > Len(page[s])
      BY <1>1, <2>1, PageType DEF IInv, TypeOK, Commit
    <3> QED
      BY <2>3, <3>1
  <2>5. stage[s] = "loading"
    BY <2>1 DEF Commit, Move
  <2> QED
    BY <1>1, <2>2, <2>3, <2>4, <2>5 DEF IInv, HoldsWhatItUpserted
<1> DEFINE UnderLock ==
        \A t \in DOMAIN table' :
            t \notin DOMAIN table \/ table'[t] # table[t] => lock[t] = table'[t]
<1>2. IInv /\ [Next]_vars => [UnderLock]_vars
  BY <1>1
<1> QED
  BY <1>2, Invariance, PTL DEF Spec, WritesUnderLock

=============================================================================
