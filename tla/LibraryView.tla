---------------------------- MODULE LibraryView ----------------------------
(***************************************************************************)
(* One tab of the front end (index.html) as its user browses the library,  *)
(* signs in and out and likes tracks: the stored token and the user shown  *)
(* in the header, the track list with its favourites filter and pages, the *)
(* player dock with a heart of its own, and the requests of all of them,   *)
(* whose answers come in any order.  The server checks a token whenever it *)
(* handles a request, and the token may expire at any moment.              *)
(*                                                                         *)
(* The browser keeps the answers by their urls, whoever was signed in, and *)
(* asks again with the ETag of the one it has; the server answers 304 if   *)
(* that is still the body (etag_cache in main.py).                         *)
(*                                                                         *)
(* Track objects matter.  A list that arrives replaces the objects behind  *)
(* the rows, but a like in flight, and the dock, keep the object they      *)
(* started from.  Hearts in rows are painted by track id, the dock's heart *)
(* only for the dock's own object.                                         *)
(***************************************************************************)
EXTENDS Integers, Sequences, FiniteSets

CONSTANTS
    User,           \* accounts
    Nobody,         \* no account
    NumTracks,      \* tracks in the warehouse, listed in the order of their ids
    Limit,          \* state.limit: rows per page
    Matches,        \* those that a search, genre or source filter leaves
    Liked,          \* the favourites at the start
    MaxLogins,      \* bound: tokens ever issued
    MaxClicks       \* bound: things the user does

Track == 1..NumTracks

ASSUME LibraryAssumption ==
    /\ Nobody \notin User
    /\ NumTracks \in Nat /\ Limit \in Nat \ {0}
    /\ Matches \subseteq Track /\ Liked \subseteq User \X Track
    /\ MaxLogins \in Nat \ {0} /\ MaxClicks \in Nat

VARIABLES
    token,      \* getAuthToken(): the number of a token, 0 for none
    authUser,   \* whom the header shows
    view,       \* state, and what of it is on the screen
    dock,       \* player.track
    list,       \* the request of the latest loadTracks
    toggles,    \* the likes in flight (favoritePending)
    asks,       \* GET /api/auth/me in flight
    cache,      \* the browser's HTTP cache of GET /api/tracks: url -> body
    issued,     \* whose tokens the server has issued
    expired,    \* those that do not verify any more
    favs,       \* table favorites
    clicks      \* bound: things done so far

server == <<issued, expired, favs>>
vars == <<token, authUser, view, dock, list, toggles, asks, cache, server, clicks>>

Row == [fav : BOOLEAN, heart : BOOLEAN]     \* t.favorited, and the heart as painted

NoRows == [t \in {} |-> [fav |-> FALSE, heart |-> FALSE]]
NoDock == [track |-> 0, fav |-> FALSE, heart |-> FALSE, shared |-> FALSE]
NoBody == [tracks |-> {}, favorited |-> {}, total |-> -1]

\* A request of loadTracks: its url, its token, the body that the browser has for the
\* url, the body that the server answers, and the body that the tab gets.
NoList == [stage |-> "none", url |-> [favoritesOnly |-> FALSE, filtered |-> FALSE, offset |-> 0],
           token |-> 0, known |-> NoBody, answer |-> NoBody, body |-> NoBody]

UrlOf(v) == [favoritesOnly |-> v.favoritesOnly, filtered |-> v.filtered, offset |-> v.offset]

\* What loadTracks sends, given the state and the token it reads.  It aborts the
\* request before it, whose answer then reaches nobody.
Request(v, tok) ==
    [NoList EXCEPT !.stage = "sent", !.url = UrlOf(v), !.token = tok,
                   !.known = IF UrlOf(v) \in DOMAIN cache THEN cache[UrlOf(v)] ELSE NoBody]

\* Slip: a load while another one is pending is dropped.
LoadTracks_Once(v, tok) == list' = IF list.stage = "none" THEN Request(v, tok) ELSE list

LoadTracks(v, tok) == list' = Request(v, tok)

Ask(tok, by) == [token |-> tok, by |-> by, handled |-> FALSE, user |-> Nobody]

\* The page has just been opened, with or without a token of an earlier visit.
Init ==
    /\ issued \in {<<u>> : u \in User}
    /\ token \in {0, 1}
    /\ authUser = Nobody
    /\ view = [favoritesOnly |-> FALSE, filtered |-> FALSE, offset |-> 0, total |-> 0,
               screen |-> "skeleton", rows |-> NoRows,
               of |-> NoList]
    /\ dock = NoDock
    /\ cache = [url \in {} |-> NoBody]
    /\ list = Request(view, token)
    /\ toggles = {}
    /\ asks = IF token = 0 THEN {} ELSE {Ask(token, "boot")}
    /\ expired = {}
    /\ favs = Liked
    /\ clicks = 0

Click == clicks < MaxClicks /\ clicks' = clicks + 1

-----------------------------------------------------------------------------
(* Signing in and out.                                                     *)

UserOf(tok) == IF tok = 0 THEN Nobody ELSE issued[tok]

Caller(tok) == IF tok \in expired THEN Nobody ELSE UserOf(tok)

\* POST /api/auth/login: a token for the user whose password it was.
Login(u) ==
    /\ Len(issued) < MaxLogins
    /\ issued' = Append(issued, u)
    /\ UNCHANGED <<expired, favs>>

\* The login form, answered.  It may have been open since before an answer to
\* GET /api/auth/me set authUser.
LogIn(u) ==
    /\ Click
    /\ Login(u)
    /\ token' = Len(issued')
    /\ asks' = asks \cup {Ask(token', "login")}
    /\ UNCHANGED <<authUser, view, dock, list, toggles, cache>>

\* GET /api/auth/me: the caller, or a 401.
Me(ask) ==
    /\ ~ask.handled
    /\ asks' = (asks \ {ask}) \cup {[ask EXCEPT !.handled = TRUE, !.user = Caller(ask.token)]}
    /\ UNCHANGED <<token, authUser, view, dock, list, toggles, cache, server, clicks>>

\* refreshAuthState, if the API was unreachable or failed, and if it answered.
Refreshed(ask) ==
    \/ UNCHANGED <<authUser, token>>
    \/ ask.handled /\ ask.user # Nobody /\ authUser' = ask.user /\ UNCHANGED token
    \/ ask.handled /\ ask.user = Nobody /\ authUser' = Nobody /\ token' = 0

\* After a login the list is loaded again.
MeAnswered(ask) ==
    /\ Refreshed(ask)
    /\ asks' = asks \ {ask}
    /\ IF ask.by = "login" THEN LoadTracks(view, token') ELSE UNCHANGED list
    /\ UNCHANGED <<view, dock, toggles, cache, server, clicks>>

LogOut ==
    /\ Click
    /\ authUser # Nobody
    /\ token' = 0
    /\ authUser' = Nobody
    /\ view' = [view EXCEPT !.favoritesOnly = FALSE]
    /\ LoadTracks(view', 0)
    /\ UNCHANGED <<dock, toggles, asks, cache, server>>

\* A token reaches its end, or the server restarts with another secret.
Expire(k) ==
    /\ k \in DOMAIN issued \ expired
    /\ expired' = expired \cup {k}
    /\ UNCHANGED <<token, authUser, view, dock, list, toggles, asks, cache, issued, favs, clicks>>

-----------------------------------------------------------------------------
(* The list.                                                               *)

FilterFavorites ==
    /\ Click
    /\ authUser # Nobody
    /\ view' = [view EXCEPT !.favoritesOnly = ~view.favoritesOnly, !.offset = 0]
    /\ LoadTracks(view', token)
    /\ UNCHANGED <<token, authUser, dock, toggles, asks, cache, server>>

\* setGenre, the source select, or the search once its pause is over; or their tags
\* are clicked away.
Filter ==
    /\ Click
    /\ view' = [view EXCEPT !.filtered = ~view.filtered, !.offset = 0]
    /\ LoadTracks(view', token)
    /\ UNCHANGED <<token, authUser, dock, toggles, asks, cache, server>>

ClearFilters ==
    /\ Click
    /\ view.filtered \/ view.favoritesOnly
    /\ view' = [view EXCEPT !.filtered = FALSE, !.favoritesOnly = FALSE, !.offset = 0]
    /\ LoadTracks(view', token)
    /\ UNCHANGED <<token, authUser, dock, toggles, asks, cache, server>>

\* The buttons are those drawn with the last list that arrived; the offset may have
\* moved on since, so that two quick clicks lead past the last page.
NextPage ==
    /\ view.of.url.offset + Limit < view.of.body.total
    /\ view' = [view EXCEPT !.offset = @ + Limit]

PrevPage ==
    /\ view.of.url.offset > 0
    /\ view' = [view EXCEPT !.offset = IF @ > Limit THEN @ - Limit ELSE 0]

TurnPage ==
    /\ Click
    /\ view.screen = "list"
    /\ NextPage \/ PrevPage
    /\ LoadTracks(view', token)
    /\ UNCHANGED <<token, authUser, dock, toggles, asks, cache, server>>

\* scheduleLibraryRefresh after a scrape, or the button of the error screen.
Reload ==
    /\ Click
    /\ LoadTracks(view, token)
    /\ UNCHANGED <<token, authUser, view, dock, toggles, asks, cache, server>>

-----------------------------------------------------------------------------
(* GET /api/tracks.                                                        *)

FavoritesOf(u) == {t \in Track : <<u, t>> \in favs}

Matching(url, u) ==
    (IF url.favoritesOnly THEN FavoritesOf(u) ELSE Track) \cap (IF url.filtered THEN Matches ELSE Track)

\* Slip: one row too many.
PageOf_OffByOne(matching, offset) ==
    LET Rank(t) == Cardinality({u \in matching : u <= t})
    IN  {t \in matching : Rank(t) \in offset..offset + Limit}

PageOf(matching, offset) ==
    LET Rank(t) == Cardinality({u \in matching : u <= t})
    IN  {t \in matching : Rank(t) \in offset + 1..offset + Limit}

\* Slip: of the rows, only which they are.
Etag_Rows(body) == <<body.tracks, body.total>>

\* A hash of the whole body, taken as free of collisions.
Etag(body) == body

\* etag_cache answers 304, and the browser takes the body that it has; or 200, and
\* the browser keeps the new one.
EtagCache(body) ==
    LET fresh == list.known # NoBody /\ Etag(list.known) = Etag(body)
    IN  /\ list' = [list EXCEPT !.stage = "page", !.answer = body,
                                !.body = IF fresh THEN list.known ELSE body]
        /\ cache' = IF fresh THEN cache
                    ELSE [url \in DOMAIN cache \cup {list.url} |->
                             IF url = list.url THEN body ELSE cache[url]]

\* A page with the favourites marked, in which the rows carry the total.
Listed(url, u) ==
    LET page == PageOf(Matching(url, u), url.offset)
    IN  [tracks |-> page, favorited |-> page \cap FavoritesOf(u),
         total |-> Cardinality(Matching(url, u))]

ListTracks ==
    /\ list.stage = "sent"
    /\ LET me == Caller(list.token)
           body == Listed(list.url, me)
       IN  IF list.url.favoritesOnly /\ me = Nobody
           THEN list' = [list EXCEPT !.stage = "refused"] /\ UNCHANGED cache
           ELSE IF body.tracks = {}
           THEN list' = [list EXCEPT !.stage = "counting"] /\ UNCHANGED cache
           ELSE EtagCache(body)
    /\ UNCHANGED <<token, authUser, view, dock, toggles, asks, server, clicks>>

\* No row to carry the total: a statement of its own counts what there is by now,
\* for the user id the first one was run with.
CountTracks ==
    /\ list.stage = "counting"
    /\ EtagCache([NoBody EXCEPT !.total = Cardinality(Matching(list.url, UserOf(list.token)))])
    /\ UNCHANGED <<token, authUser, view, dock, toggles, asks, server, clicks>>

-----------------------------------------------------------------------------
(* The list arrives.                                                       *)

\* The rows get other objects than the dock and the likes in flight have.
Detach ==
    /\ dock' = [dock EXCEPT !.shared = FALSE]
    /\ toggles' = {[g EXCEPT !.objects = @ \ {"row"}] : g \in toggles}

\* Slip: the page after the last one, if that is full.
LastPage_PastTheEnd(total) == (total \div Limit) * Limit

\* No such page any more: the last one there is, is loaded instead.
LastPage(total) == LET o == ((total - 1) \div Limit) * Limit IN IF o < 0 THEN 0 ELSE o

Shrunk == view.offset > 0 /\ view.offset >= list.body.total

PageGone ==
    /\ list.stage = "page"
    /\ Shrunk
    /\ view' = [view EXCEPT !.total = list.body.total, !.offset = LastPage(list.body.total)]
    /\ LoadTracks(view', token)
    /\ UNCHANGED <<token, authUser, dock, toggles, asks, cache, server, clicks>>

PageArrives ==
    /\ list.stage = "page"
    /\ ~Shrunk
    /\ view' = [view EXCEPT !.total = list.body.total, !.screen = "list",
                            !.rows = [t \in list.body.tracks |->
                                         [fav |-> t \in list.body.favorited,
                                          heart |-> t \in list.body.favorited]],
                            !.of = list]
    /\ Detach
    /\ list' = NoList
    /\ UNCHANGED <<token, authUser, asks, cache, server, clicks>>

\* 422: the token does not verify any more; the filter goes, and the login.
FilterRefused ==
    /\ list.stage = "refused"
    /\ token' = 0
    /\ authUser' = Nobody
    /\ view' = [view EXCEPT !.favoritesOnly = FALSE, !.offset = 0]
    /\ LoadTracks(view', 0)
    /\ UNCHANGED <<dock, toggles, asks, cache, server, clicks>>

ListFails ==
    /\ list.stage # "none"
    /\ view' = [view EXCEPT !.screen = "error", !.rows = NoRows]
    /\ Detach
    /\ list' = NoList
    /\ UNCHANGED <<token, authUser, asks, cache, server, clicks>>

-----------------------------------------------------------------------------
(* The dock.                                                               *)

\* The likes in flight, once the dock has let go of its object.
Undocked == {[g EXCEPT !.objects = @ \ {"dock"}] : g \in toggles}

Play(t) ==
    /\ Click
    /\ t \in DOMAIN view.rows
    /\ dock.track # t
    /\ dock' = [track |-> t, fav |-> view.rows[t].fav, heart |-> view.rows[t].fav, shared |-> TRUE]
    /\ toggles' = {IF g.track = t /\ "row" \in g.objects
                   THEN [g EXCEPT !.objects = {"row", "dock"}] ELSE g : g \in Undocked}
    /\ UNCHANGED <<token, authUser, view, list, asks, cache, server>>

ClosePlayer ==
    /\ Click
    /\ dock.track # 0
    /\ dock' = NoDock
    /\ toggles' = Undocked
    /\ UNCHANGED <<token, authUser, view, list, asks, cache, server>>

-----------------------------------------------------------------------------
(* Likes.                                                                  *)

\* t.favorited of an object is set, and syncFavoriteButtons paints it.
Paint(t, objects, value) ==
    /\ view' = [view EXCEPT !.rows = [u \in DOMAIN view.rows |->
                   IF u # t THEN view.rows[u]
                   ELSE [fav |-> IF "row" \in objects THEN value ELSE view.rows[u].fav,
                         heart |-> value]]]
    /\ dock' = IF "dock" \in objects THEN [dock EXCEPT !.fav = value, !.heart = value] ELSE dock

\* Slip: favoritePending is not looked at.
Idle_Always(t) == TRUE

Idle(t) == \A g \in toggles : g.track # t

\* A click on a heart: on a row's, or on the dock's.
Toggle(t, object, prev) ==
    /\ Click
    /\ Idle(t)
    /\ authUser # Nobody
    /\ LET objects == IF dock.track = t /\ dock.shared THEN {"row", "dock"} ELSE {object}
       IN  /\ toggles' = toggles \cup {[track |-> t, stage |-> "sent", next |-> ~prev,
                                        token |-> token, objects |-> objects]}
           /\ Paint(t, objects, ~prev)
    /\ UNCHANGED <<token, authUser, list, asks, cache, server>>

ToggleRow(t) == t \in DOMAIN view.rows /\ Toggle(t, "row", view.rows[t].fav)

ToggleDock(t) == dock.track = t /\ Toggle(t, "dock", dock.fav)

Becomes(g, stage) == toggles' = (toggles \ {g}) \cup {[g EXCEPT !.stage = stage]}

\* POST or DELETE /api/tracks/{id}/favorite.
ServeToggle(g) ==
    /\ g.stage = "sent"
    /\ LET me == Caller(g.token)
       IN  IF me = Nobody
           THEN Becomes(g, "unauthorized") /\ UNCHANGED favs
           ELSE /\ Becomes(g, "ok")
                /\ favs' = IF g.next THEN favs \cup {<<me, g.track>>} ELSE favs \ {<<me, g.track>>}
    /\ UNCHANGED <<token, authUser, view, dock, list, asks, cache, issued, expired, clicks>>

\* The request or its answer is lost, or the answer is a 5xx.
LoseToggle(g) ==
    /\ g.stage \in {"sent", "ok", "unauthorized"}
    /\ Becomes(g, "failed")
    /\ UNCHANGED <<token, authUser, view, dock, list, asks, cache, server, clicks>>

EndToggle(g, stage, value) ==
    /\ g.stage = stage
    /\ Paint(g.track, g.objects, value)
    /\ toggles' = toggles \ {g}
    /\ UNCHANGED <<asks, cache, server, clicks>>

ToggleOk(g) ==
    /\ EndToggle(g, "ok", g.next)
    /\ IF view.favoritesOnly /\ ~g.next THEN LoadTracks(view', token) ELSE UNCHANGED list
    /\ UNCHANGED <<token, authUser>>

ToggleFailed(g) ==
    /\ EndToggle(g, "failed", ~g.next)
    /\ UNCHANGED <<token, authUser, list>>

\* 401: the login does not hold any more.
ToggleUnauthorized(g) ==
    /\ EndToggle(g, "unauthorized", ~g.next)
    /\ token' = 0
    /\ authUser' = Nobody
    /\ UNCHANGED list

-----------------------------------------------------------------------------

ListMoves == ListTracks \/ CountTracks \/ PageGone \/ PageArrives \/ FilterRefused

ToggleMoves(g) == ServeToggle(g) \/ ToggleOk(g) \/ ToggleFailed(g) \/ ToggleUnauthorized(g)

Next ==
    \/ \E u \in User : LogIn(u)
    \/ LogOut \/ FilterFavorites \/ Filter \/ ClearFilters \/ TurnPage \/ Reload \/ ClosePlayer
    \/ \E t \in Track : Play(t) \/ ToggleRow(t) \/ ToggleDock(t)
    \/ \E ask \in asks : Me(ask) \/ MeAnswered(ask)
    \/ \E k \in DOMAIN issued : Expire(k)
    \/ ListMoves \/ ListFails
    \/ \E g \in toggles : ToggleMoves(g) \/ LoseToggle(g)

Spec == Init /\ [][Next]_vars

\* Fairness: the server answers, and the browser runs the reactions to it.
FairSpec ==
    /\ Spec
    /\ WF_vars(ListMoves)
    /\ WF_vars(\E g \in toggles : ToggleMoves(g))

-----------------------------------------------------------------------------
(* Invariants.                                                             *)

\* Type correctness.
TypeOK ==
    /\ token \in 0..Len(issued)
    /\ authUser \in User \cup {Nobody}
    /\ view.favoritesOnly \in BOOLEAN /\ view.filtered \in BOOLEAN
    /\ view.offset \in 0..MaxClicks * Limit /\ view.total \in 0..NumTracks
    /\ view.screen \in {"skeleton", "list", "error"}
    /\ DOMAIN view.rows \subseteq Track /\ view.rows \in [DOMAIN view.rows -> Row]
    /\ Cardinality(DOMAIN view.rows) <= Limit
    /\ dock.track \in Track \cup {0}
    /\ dock.shared => dock.track \in DOMAIN view.rows
    /\ list.stage \in {"none", "sent", "counting", "page", "refused"}
    /\ list.body.total \in -1..NumTracks /\ list.body.favorited \subseteq list.body.tracks
    /\ \A url \in DOMAIN cache : Cardinality(cache[url].tracks) <= Limit
    /\ \A g \in toggles : /\ g.track \in Track /\ g.token \in 0..Len(issued)
                          /\ g.stage \in {"sent", "ok", "unauthorized", "failed"}
                          /\ g.objects \subseteq {"row", "dock"}
    /\ \A ask \in asks : ask.token \in 1..Len(issued) /\ ask.user \in User \cup {Nobody}
    /\ issued \in Seq(User) /\ expired \subseteq DOMAIN issued
    /\ favs \subseteq User \X Track

\* The answer that will set a heart is the truth on the server: nothing else of
\* this tab has changed that favourite since, whatever was signed in, replayed or
\* reloaded meanwhile.
WriteConfirmed ==
    \A g \in toggles : g.stage = "ok" =>
        (g.next <=> <<issued[g.token], g.track>> \in favs)

\* Once nothing is being loaded, the rows on the screen are those of the filter and
\* the page that the controls show; and however the list has shrunk, that page is not
\* one behind its end.
ListAsAsked ==
    list.stage = "none" /\ view.screen = "list" =>
        /\ view.of.url = UrlOf(view)
        /\ view.offset = 0 \/ view.offset < view.total

\* After a login, and after whatever else answered late, the rows on the screen are
\* those that were asked for with the token the tab now has ("re-fetch so `favorited`
\* reflects this user"); and whoever else this browser has asked the same url for,
\* they are what the server answered to that token ("the library stays exactly
\* current").
RowsOfThisLogin ==
    list.stage = "none" /\ view.screen = "list" =>
        /\ asks = {} /\ token # 0 => view.of.token = token
        /\ view.of.body = view.of.answer

-----------------------------------------------------------------------------
(* Liveness.                                                               *)

\* Loading ends: the loads that a page which is gone, or a refused filter, start
\* again do not go round in circles.
ListSettles == list.stage # "none" ~> list.stage = "none"

=============================================================================
