-------------------------- MODULE LibraryView_proofs --------------------------
(***************************************************************************)
(* Proofs about LibraryView, for any accounts, any number of tracks and    *)
(* rows per page, any favourites at the start, and any number of logins    *)
(* and clicks.                                                             *)
(***************************************************************************)
EXTENDS LibraryView, FiniteSetTheorems, TLAPS

-----------------------------------------------------------------------------
(* The inductive invariant.                                                *)

Asking == [token : Nat, by : {"boot", "login"}, handled : BOOLEAN, user : User \cup {Nobody}]

\* The tokens, and who asks with them.
Accounts ==
    /\ issued \in Seq(User) /\ expired \subseteq DOMAIN issued
    /\ favs \subseteq User \X Track
    /\ token \in 0..Len(issued)
    /\ authUser \in User \cup {Nobody}
    /\ asks \subseteq Asking
    /\ \A ask \in asks : ask.token \in 1..Len(issued)

Like == [track : Track, stage : {"sent", "ok", "unauthorized", "failed"}, next : BOOLEAN,
         token : Nat, objects : SUBSET {"row", "dock"}]

\* The likes in flight: one of a track at most, and each that was served by a login.
Likes ==
    /\ toggles \subseteq Like
    /\ \A g \in toggles : g.token \in 0..Len(issued)
    /\ \A g, h \in toggles : g.track = h.track => g = h
    /\ \A g \in toggles : g.stage = "ok" => g.token # 0
    /\ WriteConfirmed

Url == [favoritesOnly : BOOLEAN, filtered : BOOLEAN, offset : Nat]

\* Answers of GET /api/tracks: no more rows than fit on a page.
Body == {b \in [tracks : SUBSET Track, favorited : SUBSET Track, total : -1..NumTracks] :
            b.favorited \subseteq b.tracks /\ Cardinality(b.tracks) <= Limit}

Load == [stage : {"none", "sent", "counting", "page", "refused"}, url : Url, token : Nat,
         known : Body, answer : Body, body : Body]

\* The list on its way, and what the browser has kept.
Loading ==
    /\ list \in Load
    /\ list.stage = "page" => list.body.total >= 0 /\ list.body = list.answer
    /\ DOMAIN cache \subseteq Url /\ \A url \in DOMAIN cache : cache[url] \in Body

Rows == {r \in UNION {[S -> Row] : S \in SUBSET Track} : Cardinality(DOMAIN r) <= Limit}

View == [favoritesOnly : BOOLEAN, filtered : BOOLEAN, offset : Nat, total : 0..NumTracks,
         screen : {"skeleton", "list", "error"}, rows : Rows, of : Load]

Docked == [track : Track \cup {0}, fav : BOOLEAN, heart : BOOLEAN, shared : BOOLEAN]

\* What is on the screen; every page turned takes a click.
Screen ==
    /\ view \in View
    /\ dock \in Docked
    /\ dock.shared => dock.track \in DOMAIN view.rows
    /\ clicks \in 0..MaxClicks
    /\ view.offset <= clicks * Limit

\* A list on its way is the one that the controls ask for, ...
AsksForTheView ==
    list.stage # "none" => list.url = UrlOf(view)

\* ... with the token of the tab, unless a login will have it loaded again.
AsksWithTheToken ==
    token # 0 /\ (\A ask \in asks : ask.by # "login") =>
        /\ list.stage # "none" => list.token = token
        /\ list.stage = "none" /\ view.screen = "list" => view.of.token = token

IInv ==
    /\ Accounts /\ Likes /\ Loading /\ Screen
    /\ AsksForTheView /\ AsksWithTheToken
    /\ ListAsAsked /\ RowsOfThisLogin

-----------------------------------------------------------------------------
(* Pages and answers.                                                      *)

LEMMA TracksFinite ==
    ASSUME NEW S \in SUBSET Track
    PROVE  IsFiniteSet(S) /\ Cardinality(S) \in 0..NumTracks
<1>1. NumTracks \in Nat
  BY LibraryAssumption
<1>2. IsFiniteSet(Track) /\ Cardinality(Track) = NumTracks
  <2>1. Cardinality(1..NumTracks) = IF 1 > NumTracks THEN 0 ELSE NumTracks - 1 + 1
    BY <1>1, FS_Interval
  <2>2. IsFiniteSet(1..NumTracks)
    BY <1>1, FS_Interval
  <2> QED
    BY <1>1, <2>1, <2>2 DEF Track
<1>3. IsFiniteSet(S) /\ Cardinality(S) <= Cardinality(Track)
  BY <1>2, FS_Subset
<1>4. Cardinality(S) \in Nat
  BY <1>3, FS_CardinalityType
<1> QED
  BY <1>1, <1>2, <1>3, <1>4

LEMMA Empty == NoBody \in Body
<1>1. Cardinality({}) = 0
  BY FS_EmptySet
<1> QED
  BY <1>1, LibraryAssumption DEF NoBody, Body

\* Different tracks have different ranks, so that a page holds as many as it has ranks.
LEMMA PageFits ==
    ASSUME NEW matching \in SUBSET Track, NEW offset \in Nat
    PROVE  /\ PageOf(matching, offset) \subseteq matching
           /\ Cardinality(PageOf(matching, offset)) <= Limit
<1> DEFINE Upto(t) == {u \in matching : u <= t}
           rank == [t \in PageOf(matching, offset) |-> Cardinality(Upto(t))]
           places == offset + 1..offset + Limit
<1>1. PageOf(matching, offset) = {t \in matching : Cardinality(Upto(t)) \in places}
  BY DEF PageOf
<1>2. \A t, u \in matching : t < u => Cardinality(Upto(t)) # Cardinality(Upto(u))
  <2> SUFFICES ASSUME NEW t \in matching, NEW u \in matching, t < u
               PROVE  Cardinality(Upto(t)) # Cardinality(Upto(u))
    OBVIOUS
  <2>1. matching \subseteq Int
    BY LibraryAssumption DEF Track
  <2>2. Upto(t) \subseteq Upto(u) /\ u \in Upto(u) /\ u \notin Upto(t)
    <3>1. t \in Int /\ u \in Int /\ \A w \in matching : w \in Int
      BY <2>1
    <3>2. u <= u /\ ~(u <= t) /\ \A w \in matching : w <= t => w <= u
      BY <3>1
    <3> QED
      BY <3>2
  <2>3. IsFiniteSet(Upto(u))
    BY TracksFinite
  <2>4. Upto(t) # Upto(u)
    BY <2>2
  <2> HIDE DEF Upto
  <2>5. Cardinality(Upto(t)) < Cardinality(Upto(u))
    BY <2>2, <2>3, <2>4, FS_Subset, FS_CardinalityType
  <2>6. Cardinality(Upto(u)) \in Nat /\ Cardinality(Upto(t)) \in Nat
    BY <2>2, <2>3, FS_Subset, FS_CardinalityType
  <2> QED
    BY <2>5, <2>6
<1>3. \A t, u \in matching : t # u => t < u \/ u < t
  BY LibraryAssumption DEF Track
<1>4. IsFiniteSet(places) /\ Cardinality(places) = Limit
  <2>1. Limit \in Nat \ {0}
    BY LibraryAssumption
  <2>2. offset + 1 \in Int /\ offset + Limit \in Int /\ ~(offset + 1 > offset + Limit)
        /\ (offset + Limit) - (offset + 1) + 1 = Limit
    BY <2>1
  <2> HIDE DEF places
  <2> QED
    BY <2>2, FS_Interval DEF places
<1> HIDE DEF Upto, places
<1>5. rank \in Injection(PageOf(matching, offset), places)
  BY <1>1, <1>2, <1>3 DEF Injection, IsInjective
<1>6. Cardinality(PageOf(matching, offset)) <= Cardinality(places)
  BY <1>4, <1>5, FS_Injection
<1> QED
  BY <1>1, <1>4, <1>6

LEMMA ListedIsBody ==
    ASSUME NEW url \in Url, NEW u
    PROVE  Listed(url, u) \in Body /\ Listed(url, u).total >= 0
<1>1. Matching(url, u) \in SUBSET Track
  BY LibraryAssumption DEF Matching, FavoritesOf
<1>2. url.offset \in Nat
  BY DEF Url
<1>3. /\ PageOf(Matching(url, u), url.offset) \subseteq Track
      /\ Cardinality(PageOf(Matching(url, u), url.offset)) <= Limit
  BY <1>1, <1>2, PageFits
<1>4. Cardinality(Matching(url, u)) \in 0..NumTracks
  BY <1>1, TracksFinite
<1>5. NumTracks \in Nat
  BY LibraryAssumption
<1> QED
  BY <1>3, <1>4, <1>5 DEF Listed, Body

LEMMA CountedIsBody ==
    ASSUME NEW url \in Url, NEW u
    PROVE  LET body == [NoBody EXCEPT !.total = Cardinality(Matching(url, u))]
           IN  body \in Body /\ body.total >= 0
<1> DEFINE n == Cardinality(Matching(url, u))
<1>1. Matching(url, u) \in SUBSET Track
  BY LibraryAssumption DEF Matching, FavoritesOf
<1>2. n \in 0..NumTracks
  BY <1>1, TracksFinite
<1>3. NumTracks \in Nat /\ Limit \in Nat /\ Cardinality({}) = 0
  BY LibraryAssumption, FS_EmptySet
<1> HIDE DEF n
<1>4. [NoBody EXCEPT !.total = n] = [tracks |-> {}, favorited |-> {}, total |-> n]
  BY DEF NoBody
<1>5. [NoBody EXCEPT !.total = n] \in Body /\ [NoBody EXCEPT !.total = n].total >= 0
  BY <1>2, <1>3, <1>4 DEF Body
<1> QED
  BY <1>5 DEF n

-----------------------------------------------------------------------------
(* Requests for the list.                                                  *)

LEMMA NoListIsLoad == NoList \in Load
BY Empty DEF NoList, Load, Url

LEMMA Requested ==
    ASSUME Loading, NEW v, NEW tok \in Nat, LoadTracks(v, tok),
           v.favoritesOnly \in BOOLEAN, v.filtered \in BOOLEAN, v.offset \in Nat
    PROVE  /\ list' \in Load
           /\ list'.stage = "sent" /\ list'.url = UrlOf(v) /\ list'.token = tok
<1> DEFINE known == IF UrlOf(v) \in DOMAIN cache THEN cache[UrlOf(v)] ELSE NoBody
<1>1. known \in Body
  BY Empty DEF Loading
<1>2. UrlOf(v) \in Url
  BY DEF UrlOf, Url
<1>3. list' = [NoList EXCEPT !.stage = "sent", !.url = UrlOf(v), !.token = tok, !.known = known]
  BY Zenon DEF LoadTracks, Request
<1> HIDE DEF known
<1> QED
  BY <1>1, <1>2, <1>3, NoListIsLoad DEF Load

LEMMA AnswerListed ==
    ASSUME Loading, NEW body \in Body, body.total >= 0, EtagCache(body)
    PROVE  /\ Loading'
           /\ list'.stage = "page" /\ list'.url = list.url /\ list'.token = list.token
<1> DEFINE fresh == list.known # NoBody /\ Etag(list.known) = Etag(body)
           got == IF fresh THEN list.known ELSE body
<1>1. got = body
  BY DEF Etag
<1>2. /\ list' = [list EXCEPT !.stage = "page", !.answer = body, !.body = got]
      /\ cache' = IF fresh THEN cache
                  ELSE [url \in DOMAIN cache \cup {list.url} |->
                           IF url = list.url THEN body ELSE cache[url]]
  BY Zenon DEF EtagCache
<1> HIDE DEF fresh, got
<1>3. list' \in Load /\ list'.body = body /\ list'.answer = body
      /\ list'.stage = "page" /\ list'.url = list.url /\ list'.token = list.token
  BY <1>1, <1>2 DEF Loading, Load
<1>4. list.url \in Url
  BY DEF Loading, Load
<1>5. DOMAIN cache' \subseteq Url /\ \A url \in DOMAIN cache' : cache'[url] \in Body
  BY <1>2, <1>4 DEF Loading
<1> QED
  BY <1>3, <1>5 DEF Loading

-----------------------------------------------------------------------------
(* The tokens.                                                             *)

\* Signing in, and what the server and the tab do about tokens.
LEMMA AccountsMove ==
    ASSUME Accounts
    PROVE  /\ \A u \in User : LogIn(u) => Accounts'
           /\ \A ask \in asks : Me(ask) \/ MeAnswered(ask) => Accounts'
           /\ \A k \in DOMAIN issued : Expire(k) => Accounts'
           /\ LogOut \/ FilterRefused => Accounts'
<1>1. issued \in Seq(User) /\ Len(issued) \in Nat /\ DOMAIN issued = 1..Len(issued)
  BY DEF Accounts
<1>2. ASSUME NEW u \in User, LogIn(u)
      PROVE  Accounts'
  <2>1. issued' = Append(issued, u)
    BY <1>2 DEF LogIn, Login
  <2>2. issued' \in Seq(User) /\ Len(issued') = Len(issued) + 1 /\ DOMAIN issued' = 1..Len(issued) + 1
    BY <1>1, <2>1
  <2>3. token' = Len(issued) + 1 /\ asks' = asks \cup {Ask(Len(issued) + 1, "login")}
    BY <1>2, <2>2 DEF LogIn
  <2>4. Ask(Len(issued) + 1, "login") \in Asking /\ Ask(Len(issued) + 1, "login").token = Len(issued) + 1
    BY <1>1 DEF Ask, Asking
  <2>5. asks' \subseteq Asking /\ \A ask \in asks' : ask.token \in 1..Len(issued')
    <3>1. \A ask \in asks : ask.token \in 1..Len(issued')
      BY <1>1, <2>2 DEF Accounts
    <3>2. Len(issued) + 1 \in 1..Len(issued')
      BY <1>1, <2>2
    <3> QED
      BY <2>3, <2>4, <3>1, <3>2 DEF Accounts
  <2>6. expired' = expired /\ favs' = favs /\ authUser' = authUser
    BY <1>2 DEF LogIn, Login
  <2>7. expired' \subseteq DOMAIN issued' /\ token' \in 0..Len(issued')
    BY <1>1, <2>2, <2>3, <2>6 DEF Accounts
  <2> QED
    BY <2>2, <2>5, <2>6, <2>7 DEF Accounts
<1>3. ASSUME NEW ask \in asks, Me(ask)
      PROVE  Accounts'
  <2> DEFINE me == Caller(ask.token)
  <2>1. ask \in Asking /\ ask.token \in 1..Len(issued)
    BY DEF Accounts
  <2>2. me \in User \cup {Nobody}
    BY <1>1, <2>1 DEF Caller, UserOf
  <2>3. asks' = (asks \ {ask}) \cup {[ask EXCEPT !.handled = TRUE, !.user = me]}
    BY <1>3 DEF Me
  <2> HIDE DEF me
  <2>4. [ask EXCEPT !.handled = TRUE, !.user = me] \in Asking
        /\ [ask EXCEPT !.handled = TRUE, !.user = me].token = ask.token
    BY <2>1, <2>2 DEF Asking
  <2>5. UNCHANGED <<token, authUser, issued, expired, favs>>
    BY <1>3 DEF Me, server
  <2> QED
    BY <2>1, <2>3, <2>4, <2>5 DEF Accounts
<1>4. ASSUME NEW ask \in asks, MeAnswered(ask)
      PROVE  Accounts'
  <2>1. ask.user \in User \cup {Nobody}
    BY DEF Accounts, Asking
  <2>2. authUser' \in User \cup {Nobody} /\ token' \in 0..Len(issued)
    BY <1>1, <1>4, <2>1 DEF MeAnswered, Refreshed, Accounts
  <2>3. asks' = asks \ {ask} /\ UNCHANGED <<issued, expired, favs>>
    BY <1>4 DEF MeAnswered, server
  <2> QED
    BY <2>2, <2>3 DEF Accounts
<1>5. ASSUME NEW k \in DOMAIN issued, Expire(k)
      PROVE  Accounts'
  BY <1>5 DEF Expire, Accounts
<1>6. ASSUME LogOut \/ FilterRefused
      PROVE  Accounts'
  <2>1. token' = 0 /\ authUser' = Nobody /\ UNCHANGED <<asks, issued, expired, favs>>
    BY <1>6 DEF LogOut, FilterRefused, server
  <2> QED
    BY <1>1, <2>1 DEF Accounts
<1> QED
  BY <1>2, <1>3, <1>4, <1>5, <1>6

LEMMA AccountsStep ==
    ASSUME Accounts, Likes, Next
    PROVE  Accounts'
<1>1. ASSUME UNCHANGED <<token, authUser, asks, issued, expired, favs>>
      PROVE  Accounts'
  BY <1>1 DEF Accounts
<1>2. CASE FilterFavorites \/ Filter \/ ClearFilters \/ TurnPage \/ Reload \/ ClosePlayer
  BY <1>1, <1>2 DEF FilterFavorites, Filter, ClearFilters, TurnPage, Reload, ClosePlayer, server
<1>3. CASE \E t \in Track : Play(t) \/ ToggleRow(t) \/ ToggleDock(t)
  BY <1>1, <1>3 DEF Play, ToggleRow, ToggleDock, Toggle, server
<1>4. CASE ListTracks \/ CountTracks \/ PageGone \/ PageArrives \/ ListFails
  BY <1>1, <1>4 DEF ListTracks, CountTracks, PageGone, PageArrives, ListFails, server
<1>5. ASSUME NEW g \in toggles, ServeToggle(g)
      PROVE  Accounts'
  <2> DEFINE me == Caller(g.token)
  <2>1. g.track \in Track /\ g.token \in 0..Len(issued)
    BY DEF Likes, Like
  <2>2. issued \in Seq(User)
    BY DEF Accounts
  <2>3. me \in User \cup {Nobody}
    BY <2>1, <2>2 DEF Caller, UserOf
  <2>4. favs' = favs \/ (me # Nobody /\ favs' \in {favs \cup {<<me, g.track>>}, favs \ {<<me, g.track>>}})
    BY <1>5 DEF ServeToggle
  <2> HIDE DEF me
  <2>5. favs' \subseteq User \X Track
    BY <2>1, <2>3, <2>4 DEF Accounts
  <2>6. UNCHANGED <<token, authUser, asks, issued, expired>>
    BY <1>5 DEF ServeToggle
  <2> QED
    BY <2>5, <2>6 DEF Accounts
<1>6. ASSUME NEW g \in toggles, ToggleOk(g) \/ ToggleFailed(g) \/ LoseToggle(g)
      PROVE  Accounts'
  BY <1>1, <1>6 DEF ToggleOk, ToggleFailed, LoseToggle, EndToggle, server
<1>7. ASSUME NEW g \in toggles, ToggleUnauthorized(g)
      PROVE  Accounts'
  <2>1. token' = 0 /\ authUser' = Nobody /\ UNCHANGED <<asks, issued, expired, favs>>
    BY <1>7 DEF ToggleUnauthorized, EndToggle, server
  <2>2. Len(issued) \in Nat
    BY DEF Accounts
  <2> QED
    BY <2>1, <2>2 DEF Accounts
<1> QED
  BY <1>2, <1>3, <1>4, <1>5, <1>6, <1>7, AccountsMove DEF Next, ListMoves, ToggleMoves

-----------------------------------------------------------------------------
(* The likes in flight.                                                    *)

\* Who has the object of a like in flight does not matter to what it will do.
LEMMA LikesMoved ==
    ASSUME Likes, UNCHANGED <<issued, favs>>,
           NEW f \in [toggles -> Like], toggles' = {f[g] : g \in toggles},
           \A g \in toggles : /\ f[g].track = g.track /\ f[g].stage = g.stage
                             /\ f[g].next = g.next /\ f[g].token = g.token
    PROVE  Likes'
<1>1. \A h \in toggles' : \E g \in toggles : h = f[g]
  OBVIOUS
<1>2. toggles' \subseteq Like
  BY <1>1
<1>3. \A h \in toggles' : h.token \in 0..Len(issued') /\ (h.stage = "ok" => h.token # 0)
  BY <1>1 DEF Likes
<1>4. \A h, i \in toggles' : h.track = i.track => h = i
  BY <1>1 DEF Likes
<1>5. WriteConfirmed'
  BY <1>1 DEF Likes, WriteConfirmed
<1> QED
  BY <1>2, <1>3, <1>4, <1>5 DEF Likes

LEMMA DetachKeepsLikes ==
    ASSUME Likes, UNCHANGED <<issued, favs>>, Detach
    PROVE  Likes'
<1> DEFINE f == [g \in toggles |-> [g EXCEPT !.objects = @ \ {"row"}]]
<1>1. \A g \in toggles : g \in Like
  BY DEF Likes
<1>2. f \in [toggles -> Like]
  BY <1>1 DEF Like
<1>3. \A g \in toggles : /\ f[g].track = g.track /\ f[g].stage = g.stage
                        /\ f[g].next = g.next /\ f[g].token = g.token
  BY <1>1 DEF Like
<1>4. toggles' = {f[g] : g \in toggles}
  BY DEF Detach
<1> HIDE DEF f
<1> QED
  BY <1>2, <1>3, <1>4, LikesMoved

LEMMA UndockKeepsLikes ==
    ASSUME Likes, UNCHANGED <<issued, favs>>, toggles' = Undocked
    PROVE  Likes'
<1> DEFINE f == [g \in toggles |-> [g EXCEPT !.objects = @ \ {"dock"}]]
<1>1. \A g \in toggles : g \in Like
  BY DEF Likes
<1>2. f \in [toggles -> Like]
  BY <1>1 DEF Like
<1>3. \A g \in toggles : /\ f[g].track = g.track /\ f[g].stage = g.stage
                        /\ f[g].next = g.next /\ f[g].token = g.token
  BY <1>1 DEF Like
<1>4. toggles' = {f[g] : g \in toggles}
  BY DEF Undocked
<1> HIDE DEF f
<1> QED
  BY <1>2, <1>3, <1>4, LikesMoved

LEMMA PlayKeepsLikes ==
    ASSUME Likes, NEW t \in Track, Play(t)
    PROVE  Likes'
<1> DEFINE off(g) == [g EXCEPT !.objects = @ \ {"dock"}]
           on(g) == [g EXCEPT !.objects = {"row", "dock"}]
           f == [g \in toggles |-> IF off(g).track = t /\ "row" \in off(g).objects
                                    THEN on(off(g)) ELSE off(g)]
<1>1. \A g \in toggles : g \in Like
  BY DEF Likes
<1>2. \A g \in Like : /\ off(g) \in Like
                     /\ off(g).track = g.track /\ off(g).stage = g.stage
                     /\ off(g).next = g.next /\ off(g).token = g.token
  BY DEF Like
<1>3. \A g \in Like : /\ on(g) \in Like
                     /\ on(g).track = g.track /\ on(g).stage = g.stage
                     /\ on(g).next = g.next /\ on(g).token = g.token
  BY DEF Like
<1>4. toggles' = {f[g] : g \in toggles}
  BY DEF Play, Undocked
<1>5. UNCHANGED <<issued, favs>>
  BY DEF Play, server
<1> HIDE DEF off, on
<1>6. f \in [toggles -> Like]
  BY <1>1, <1>2, <1>3
<1>7. \A g \in toggles : /\ f[g].track = g.track /\ f[g].stage = g.stage
                        /\ f[g].next = g.next /\ f[g].token = g.token
  BY <1>1, <1>2, <1>3
<1> HIDE DEF f
<1> QED
  BY <1>4, <1>5, <1>6, <1>7, LikesMoved

\* A click on a heart whose track has no like in flight.
LEMMA ToggleKeepsLikes ==
    ASSUME Accounts, Likes, NEW t \in Track, NEW object \in {"row", "dock"},
           NEW prev \in BOOLEAN, Toggle(t, object, prev)
    PROVE  Likes'
<1> DEFINE objects == IF dock.track = t /\ dock.shared THEN {"row", "dock"} ELSE {object}
           new == [track |-> t, stage |-> "sent", next |-> ~prev, token |-> token, objects |-> objects]
<1>1. toggles' = toggles \cup {new} /\ UNCHANGED <<issued, favs>>
  BY DEF Toggle, server
<1>2. objects \in SUBSET {"row", "dock"} /\ token \in 0..Len(issued) /\ Len(issued) \in Nat
  BY DEF Accounts
<1> HIDE DEF objects
<1>3. new \in Like /\ new.token \in 0..Len(issued) /\ new.track = t /\ new.stage = "sent"
  BY <1>2 DEF Like
<1> HIDE DEF new
<1>4. \A g \in toggles : g.track # t
  BY DEF Toggle, Idle
<1>5. toggles' \subseteq Like /\ \A g \in toggles' : g.token \in 0..Len(issued')
  BY <1>1, <1>3 DEF Likes
<1>6. \A g, h \in toggles' : g.track = h.track => g = h
  BY <1>1, <1>3, <1>4 DEF Likes
<1>7. (\A g \in toggles' : g.stage = "ok" => g.token # 0) /\ WriteConfirmed'
  BY <1>1, <1>3 DEF Likes, WriteConfirmed
<1> QED
  BY <1>5, <1>6, <1>7 DEF Likes

\* A like moves on; what it has written is its own track's favourite.
LEMMA StageKeepsLikes ==
    ASSUME Accounts, Likes, NEW g \in toggles, issued' = issued,
           NEW stage \in {"ok", "unauthorized", "failed"}, Becomes(g, stage),
           \/ stage # "ok" /\ favs' = favs
           \/ /\ g.token # 0
              /\ favs' = IF g.next THEN favs \cup {<<issued[g.token], g.track>>}
                                 ELSE favs \ {<<issued[g.token], g.track>>}
    PROVE  Likes'
<1> DEFINE new == [g EXCEPT !.stage = stage]
<1>1. toggles' = (toggles \ {g}) \cup {new}
  BY DEF Becomes
<1>2. new \in Like /\ new.track = g.track /\ new.stage = stage /\ new.next = g.next
      /\ new.token = g.token
  BY DEF Likes, Like
<1> HIDE DEF new
<1>3. \A h \in toggles \ {g} : h.track # g.track
  BY DEF Likes
<1>4. toggles' \subseteq Like /\ \A h \in toggles' : h.token \in 0..Len(issued')
  BY <1>1, <1>2 DEF Likes
<1>5. \A h, i \in toggles' : h.track = i.track => h = i
  BY <1>1, <1>2, <1>3 DEF Likes
<1>6. \A h \in toggles' : h.stage = "ok" => h.token # 0
  BY <1>1, <1>2 DEF Likes
<1>7. \A h \in toggles \ {g} : h.stage = "ok" => (h.next <=> <<issued[h.token], h.track>> \in favs')
  <2> SUFFICES ASSUME NEW h \in toggles \ {g}, h.stage = "ok"
               PROVE  h.next <=> <<issued[h.token], h.track>> \in favs'
    OBVIOUS
  <2>1. <<issued[h.token], h.track>> # <<issued[g.token], g.track>>
    BY <1>3
  <2>2. <<issued[h.token], h.track>> \in favs' <=> <<issued[h.token], h.track>> \in favs
    BY <2>1
  <2> QED
    BY <2>2 DEF Likes, WriteConfirmed
<1>8. stage = "ok" => (g.next <=> <<issued[g.token], g.track>> \in favs')
  OBVIOUS
<1>9. WriteConfirmed'
  BY <1>1, <1>2, <1>7, <1>8 DEF WriteConfirmed
<1> QED
  BY <1>4, <1>5, <1>6, <1>9 DEF Likes

LEMMA LikesStep ==
    ASSUME Accounts, Likes, Screen, Next
    PROVE  Likes'
<1>1. ASSUME UNCHANGED <<toggles, issued, favs>>
      PROVE  Likes'
  BY <1>1 DEF Likes, WriteConfirmed
<1>2. ASSUME NEW u \in User, LogIn(u)
      PROVE  Likes'
  <2>1. issued' = Append(issued, u) /\ UNCHANGED <<toggles, favs>>
    BY <1>2 DEF LogIn, Login
  <2>2. issued \in Seq(User) /\ Len(issued) \in Nat
    BY DEF Accounts
  <2>3. Len(issued') = Len(issued) + 1 /\ \A i \in 1..Len(issued) : issued'[i] = issued[i]
    BY <2>1, <2>2
  <2>4. \A g \in toggles : g.token \in 0..Len(issued')
    BY <2>2, <2>3 DEF Likes
  <2>5. \A g \in toggles : g.stage = "ok" => issued'[g.token] = issued[g.token]
    <3> SUFFICES ASSUME NEW g \in toggles, g.stage = "ok"
                 PROVE  issued'[g.token] = issued[g.token]
      OBVIOUS
    <3>1. g.token \in 0..Len(issued) /\ g.token # 0
      BY DEF Likes
    <3>2. g.token \in 1..Len(issued)
      BY <2>2, <3>1
    <3> QED
      BY <2>3, <3>2
  <2>6. WriteConfirmed'
    BY <2>1, <2>5 DEF Likes, WriteConfirmed
  <2> QED
    BY <2>1, <2>4, <2>6 DEF Likes
<1>3. CASE LogOut \/ FilterFavorites \/ Filter \/ ClearFilters \/ TurnPage \/ Reload
  BY <1>1, <1>3 DEF LogOut, FilterFavorites, Filter, ClearFilters, TurnPage, Reload, server
<1>4. CASE ClosePlayer
  BY <1>4, UndockKeepsLikes DEF ClosePlayer, server
<1>5. ASSUME NEW t \in Track, Play(t)
      PROVE  Likes'
  BY <1>5, PlayKeepsLikes
<1>6. ASSUME NEW t \in Track, ToggleRow(t) \/ ToggleDock(t)
      PROVE  Likes'
  <2>1. dock.fav \in BOOLEAN /\ \A u \in DOMAIN view.rows : view.rows[u].fav \in BOOLEAN
    BY DEF Screen, Docked, View, Rows, Row
  <2> QED
    BY <1>6, <2>1, ToggleKeepsLikes DEF ToggleRow, ToggleDock
<1>7. ASSUME NEW ask \in asks, Me(ask) \/ MeAnswered(ask)
      PROVE  Likes'
  BY <1>1, <1>7 DEF Me, MeAnswered, server
<1>8. ASSUME NEW k \in DOMAIN issued, Expire(k)
      PROVE  Likes'
  BY <1>1, <1>8 DEF Expire
<1>9. CASE ListTracks \/ CountTracks \/ PageGone \/ FilterRefused
  BY <1>1, <1>9 DEF ListTracks, CountTracks, PageGone, FilterRefused, server
<1>10. CASE PageArrives \/ ListFails
  BY <1>10, DetachKeepsLikes DEF PageArrives, ListFails, server
<1>11. ASSUME NEW g \in toggles, ServeToggle(g)
      PROVE  Likes'
  <2>1. CASE Caller(g.token) = Nobody
    BY <1>11, <2>1, StageKeepsLikes DEF ServeToggle
  <2>2. CASE Caller(g.token) # Nobody
    <3>1. g.token # 0 /\ Caller(g.token) = issued[g.token]
      BY <2>2 DEF Caller, UserOf
    <3> QED
      BY <1>11, <2>2, <3>1, StageKeepsLikes DEF ServeToggle
  <2> QED
    BY <2>1, <2>2
<1>12. ASSUME NEW g \in toggles, LoseToggle(g)
      PROVE  Likes'
  BY <1>12, StageKeepsLikes DEF LoseToggle, server
<1>13. ASSUME NEW g \in toggles, ToggleOk(g) \/ ToggleFailed(g) \/ ToggleUnauthorized(g)
      PROVE  Likes'
  <2>1. toggles' = toggles \ {g} /\ UNCHANGED <<issued, favs>>
    BY <1>13 DEF ToggleOk, ToggleFailed, ToggleUnauthorized, EndToggle, server
  <2> QED
    BY <2>1 DEF Likes, WriteConfirmed
<1> QED
  BY <1>2, <1>3, <1>4, <1>5, <1>6, <1>7, <1>8, <1>9, <1>10, <1>11, <1>12, <1>13
  DEF Next, ListMoves, ToggleMoves

-----------------------------------------------------------------------------
(* The screen.                                                             *)

LEMMA Clicks ==
    ASSUME Screen
    PROVE  /\ clicks \in Nat /\ MaxClicks \in Nat /\ Limit \in Nat \ {0}
           /\ clicks * Limit \in Nat
           /\ Click => clicks' \in 0..MaxClicks /\ clicks' * Limit = clicks * Limit + Limit
<1>1. clicks \in 0..MaxClicks /\ MaxClicks \in Nat /\ Limit \in Nat \ {0}
  BY LibraryAssumption DEF Screen
<1>2. clicks \in Nat /\ clicks * Limit \in Nat
  BY <1>1
<1>3. (clicks + 1) * Limit = clicks * Limit + Limit
  BY <1>1, <1>2
<1>4. ASSUME Click
      PROVE  clicks' \in 0..MaxClicks /\ clicks' * Limit = clicks * Limit + Limit
  <2>1. clicks < MaxClicks /\ clicks' = clicks + 1
    BY <1>4 DEF Click
  <2>2. clicks' * Limit = (clicks + 1) * Limit
    BY <2>1
  <2> QED
    BY <1>1, <1>3, <2>1, <2>2
<1> QED
  BY <1>1, <1>2, <1>4

\* The controls change, the rows do not.
LEMMA Controls ==
    ASSUME Screen, UNCHANGED dock, clicks' \in 0..MaxClicks,
           NEW fo \in BOOLEAN, NEW fi \in BOOLEAN, NEW o \in Nat, NEW n \in 0..NumTracks,
           o <= clicks' * Limit,
           view' = [view EXCEPT !.favoritesOnly = fo, !.filtered = fi, !.offset = o, !.total = n]
    PROVE  Screen'
<1>1. view' \in View /\ view'.rows = view.rows /\ view'.offset = o
  BY DEF Screen, View
<1> QED
  BY <1>1 DEF Screen

\* A heart is painted, the controls stay.
LEMMA Painted ==
    ASSUME Screen, NEW t, NEW objects, NEW value \in BOOLEAN, Paint(t, objects, value),
           clicks' \in 0..MaxClicks, view.offset <= clicks' * Limit
    PROVE  /\ Screen'
           /\ UrlOf(view') = UrlOf(view) /\ view'.favoritesOnly = view.favoritesOnly
           /\ view'.total = view.total /\ view'.screen = view.screen /\ view'.of = view.of
           /\ view'.offset = view.offset
<1> DEFINE rows == [u \in DOMAIN view.rows |->
                      IF u # t THEN view.rows[u]
                      ELSE [fav |-> IF "row" \in objects THEN value ELSE view.rows[u].fav,
                            heart |-> value]]
<1>1. view' = [view EXCEPT !.rows = rows]
  BY DEF Paint
<1>2. dock' \in {dock, [dock EXCEPT !.fav = value, !.heart = value]}
  BY DEF Paint
<1>3. rows \in Rows /\ DOMAIN rows = DOMAIN view.rows
  <2>1. view.rows \in Rows
    BY DEF Screen, View
  <2>2. PICK S \in SUBSET Track : view.rows \in [S -> Row] /\ Cardinality(S) <= Limit
    BY <2>1 DEF Rows
  <2>3. rows \in [S -> Row]
    BY <2>2 DEF Row
  <2> HIDE DEF rows
  <2> QED
    BY <2>2, <2>3 DEF Rows
<1> HIDE DEF rows
<1>4. /\ view' \in View /\ view'.rows = rows /\ view'.offset = view.offset
      /\ view'.favoritesOnly = view.favoritesOnly /\ view'.filtered = view.filtered
      /\ view'.total = view.total /\ view'.screen = view.screen /\ view'.of = view.of
  BY <1>1, <1>3 DEF Screen, View
<1>5. dock' \in Docked /\ dock'.track = dock.track /\ dock'.shared = dock.shared
  BY <1>2 DEF Screen, Docked
<1>6. Screen'
  BY <1>3, <1>4, <1>5 DEF Screen
<1> QED
  BY <1>4, <1>6 DEF UrlOf

\* The list arrived, or failed.
LEMMA NewRows ==
    ASSUME Screen, NEW S \in SUBSET Track, Cardinality(S) <= Limit, NEW rows \in [S -> Row],
           NEW n \in 0..NumTracks, NEW screen \in {"list", "error"}, NEW of \in Load,
           view' = [view EXCEPT !.total = n, !.screen = screen, !.rows = rows, !.of = of],
           dock' = [dock EXCEPT !.shared = FALSE], UNCHANGED clicks
    PROVE  Screen'
<1>1. rows \in Rows
  BY DEF Rows
<1>2. view' \in View /\ view'.offset = view.offset
  BY <1>1 DEF Screen, View
<1>3. dock' \in Docked /\ ~dock'.shared
  BY DEF Screen, Docked
<1> QED
  BY <1>2, <1>3 DEF Screen

\* The last page there is, is not behind the page that is gone.
LEMMA LastPageIsBefore ==
    ASSUME NEW total \in Nat, NEW offset \in Nat, offset >= total
    PROVE  LastPage(total) \in Nat /\ LastPage(total) <= offset
<1> DEFINE o == ((total - 1) \div Limit) * Limit
<1>1. Limit \in Nat \ {0}
  BY LibraryAssumption
<1>2. o \in Int /\ o <= total - 1
  BY <1>1
<1>3. LastPage(total) = IF o < 0 THEN 0 ELSE o
  BY DEF LastPage
<1> HIDE DEF o
<1> QED
  BY <1>2, <1>3

LEMMA ScreenStep ==
    ASSUME Accounts, Likes, Loading, Screen, Next
    PROVE  Screen'
<1>1. /\ view.favoritesOnly \in BOOLEAN /\ view.filtered \in BOOLEAN /\ view.offset \in Nat
      /\ view.total \in 0..NumTracks /\ view.offset <= clicks * Limit
  BY DEF Screen, View
<1>2. ASSUME UNCHANGED <<view, dock, clicks>>
      PROVE  Screen'
  BY <1>2 DEF Screen
<1>3. ASSUME Click
      PROVE  /\ clicks' \in 0..MaxClicks /\ 0 <= clicks' * Limit
             /\ view.offset <= clicks' * Limit /\ view.offset + Limit <= clicks' * Limit
  BY <1>1, <1>3, Clicks
<1>4. ASSUME NEW u \in User, LogIn(u)
      PROVE  Screen'
  BY <1>3, <1>4 DEF LogIn, Screen
<1>5. CASE LogOut
  <2>1. view' = [view EXCEPT !.favoritesOnly = FALSE, !.filtered = view.filtered,
                             !.offset = view.offset, !.total = view.total]
    BY <1>1, <1>5 DEF LogOut
  <2> QED
    BY <1>1, <1>3, <1>5, <2>1, Controls DEF LogOut
<1>6. CASE FilterFavorites
  <2>1. view' = [view EXCEPT !.favoritesOnly = ~view.favoritesOnly, !.filtered = view.filtered,
                             !.offset = 0, !.total = view.total]
    BY <1>1, <1>6 DEF FilterFavorites
  <2> QED
    BY <1>1, <1>3, <1>6, <2>1, Controls DEF FilterFavorites
<1>7. CASE Filter
  <2>1. view' = [view EXCEPT !.favoritesOnly = view.favoritesOnly, !.filtered = ~view.filtered,
                             !.offset = 0, !.total = view.total]
    BY <1>1, <1>7 DEF Filter
  <2> QED
    BY <1>1, <1>3, <1>7, <2>1, Controls DEF Filter
<1>8. CASE ClearFilters
  <2>1. view' = [view EXCEPT !.favoritesOnly = FALSE, !.filtered = FALSE,
                             !.offset = 0, !.total = view.total]
    BY <1>1, <1>8 DEF ClearFilters
  <2> QED
    BY <1>1, <1>3, <1>8, <2>1, Controls DEF ClearFilters
<1>9. CASE TurnPage
  <2>1. PICK o \in Nat : /\ o <= view.offset + Limit
                        /\ view' = [view EXCEPT !.offset = o]
    <3>1. Limit \in Nat /\ view.offset \in Nat
      BY <1>1, LibraryAssumption
    <3>2. CASE NextPage
      BY <3>1, <3>2 DEF NextPage
    <3>3. CASE PrevPage
      BY <3>1, <3>3 DEF PrevPage
    <3> QED
      BY <1>9, <3>2, <3>3 DEF TurnPage
  <2>2. view' = [view EXCEPT !.favoritesOnly = view.favoritesOnly, !.filtered = view.filtered,
                             !.offset = o, !.total = view.total]
    BY <1>1, <2>1
  <2>3. Click /\ UNCHANGED dock
    BY <1>9 DEF TurnPage
  <2>4. o <= clicks' * Limit
    BY <1>1, <1>3, <2>1, <2>3, Clicks
  <2> QED
    BY <1>1, <1>3, <2>2, <2>3, <2>4, Controls
<1>10. CASE Reload
  BY <1>3, <1>10 DEF Reload, Screen
<1>11. CASE ClosePlayer
  <2>1. NoDock \in Docked /\ ~NoDock.shared
    BY DEF NoDock, Docked
  <2> QED
    BY <1>3, <1>11, <2>1 DEF ClosePlayer, Screen
<1>12. ASSUME NEW t \in Track, Play(t)
      PROVE  Screen'
  <2>1. t \in DOMAIN view.rows /\ view.rows[t].fav \in BOOLEAN
    BY <1>12 DEF Play, Screen, View, Rows, Row
  <2>2. dock' \in Docked /\ dock'.track = t
    BY <1>12, <2>1 DEF Play, Docked
  <2> QED
    BY <1>3, <1>12, <2>1, <2>2 DEF Play, Screen
<1>13. ASSUME NEW t \in Track, ToggleRow(t) \/ ToggleDock(t)
      PROVE  Screen'
  BY <1>3, <1>13, Painted DEF ToggleRow, ToggleDock, Toggle
<1>14. ASSUME NEW ask \in asks, Me(ask) \/ MeAnswered(ask)
      PROVE  Screen'
  BY <1>2, <1>14 DEF Me, MeAnswered
<1>15. ASSUME NEW k \in DOMAIN issued, Expire(k)
      PROVE  Screen'
  BY <1>2, <1>15 DEF Expire
<1>16. CASE ListTracks \/ CountTracks
  BY <1>2, <1>16 DEF ListTracks, CountTracks
<1>17. CASE PageGone
  <2>1. list.body.total \in 0..NumTracks /\ NumTracks \in Nat
    BY <1>17, LibraryAssumption DEF PageGone, Loading, Load, Body
  <2>2. LastPage(list.body.total) \in Nat /\ LastPage(list.body.total) <= view.offset
    BY <1>1, <1>17, <2>1, LastPageIsBefore DEF PageGone, Shrunk
  <2>3. view' = [view EXCEPT !.favoritesOnly = view.favoritesOnly, !.filtered = view.filtered,
                             !.offset = LastPage(list.body.total), !.total = list.body.total]
    BY <1>1, <1>17 DEF PageGone
  <2>4. LastPage(list.body.total) <= clicks' * Limit /\ UNCHANGED <<clicks, dock>>
    BY <1>1, <1>17, <2>2, Clicks DEF PageGone
  <2>5. clicks' \in 0..MaxClicks
    BY <2>4 DEF Screen
  <2> QED
    BY <1>1, <2>1, <2>2, <2>3, <2>4, <2>5, Controls
<1>18. CASE PageArrives
  <2>1. /\ list.body.total \in 0..NumTracks /\ list \in Load
        /\ list.body.tracks \in SUBSET Track /\ Cardinality(list.body.tracks) <= Limit
    BY <1>18, LibraryAssumption DEF PageArrives, Loading, Load, Body
  <2> DEFINE rows == [t \in list.body.tracks |-> [fav |-> t \in list.body.favorited,
                                                  heart |-> t \in list.body.favorited]]
  <2>2. rows \in [list.body.tracks -> Row]
    BY DEF Row
  <2>3. view' = [view EXCEPT !.total = list.body.total, !.screen = "list", !.rows = rows, !.of = list]
    BY <1>18 DEF PageArrives
  <2>4. dock' = [dock EXCEPT !.shared = FALSE] /\ UNCHANGED clicks
    BY <1>18 DEF PageArrives, Detach
  <2> HIDE DEF rows
  <2> QED
    BY <2>1, <2>2, <2>3, <2>4, NewRows
<1>19. CASE FilterRefused
  <2>1. view' = [view EXCEPT !.favoritesOnly = FALSE, !.filtered = view.filtered,
                             !.offset = 0, !.total = view.total]
    BY <1>1, <1>19 DEF FilterRefused
  <2>2. 0 <= clicks' * Limit /\ UNCHANGED <<clicks, dock>> /\ clicks' \in 0..MaxClicks
    BY <1>19, Clicks DEF FilterRefused, Screen
  <2> QED
    BY <1>1, <2>1, <2>2, Controls
<1>20. CASE ListFails
  <2>1. NoRows \in [{} -> Row] /\ Cardinality({}) <= Limit
    BY FS_EmptySet, LibraryAssumption DEF NoRows
  <2>2. view.of \in Load /\ view' = [view EXCEPT !.total = view.total, !.screen = "error",
                                                 !.rows = NoRows, !.of = view.of]
    BY <1>20 DEF ListFails, Screen, View
  <2>3. dock' = [dock EXCEPT !.shared = FALSE] /\ UNCHANGED clicks
    BY <1>20 DEF ListFails, Detach
  <2>4. {} \in SUBSET Track
    OBVIOUS
  <2> QED
    BY <1>1, <2>1, <2>2, <2>3, <2>4, NewRows
<1>21. ASSUME NEW g \in toggles, ServeToggle(g) \/ LoseToggle(g)
      PROVE  Screen'
  BY <1>2, <1>21 DEF ServeToggle, LoseToggle
<1>22. ASSUME NEW g \in toggles, ToggleOk(g) \/ ToggleFailed(g) \/ ToggleUnauthorized(g)
      PROVE  Screen'
  <2>1. g.next \in BOOLEAN
    BY DEF Likes, Like
  <2>2. \E value \in BOOLEAN : Paint(g.track, g.objects, value)
    BY <1>22, <2>1 DEF ToggleOk, ToggleFailed, ToggleUnauthorized, EndToggle
  <2>3. UNCHANGED clicks
    BY <1>22 DEF ToggleOk, ToggleFailed, ToggleUnauthorized, EndToggle
  <2>4. clicks' \in 0..MaxClicks /\ view.offset <= clicks' * Limit
    BY <1>1, <2>3 DEF Screen
  <2> QED
    BY <2>2, <2>4, Painted
<1> QED
  BY <1>4, <1>5, <1>6, <1>7, <1>8, <1>9, <1>10, <1>11, <1>12, <1>13, <1>14, <1>15, <1>16,
     <1>17, <1>18, <1>19, <1>20, <1>21, <1>22
  DEF Next, ListMoves, ToggleMoves

-----------------------------------------------------------------------------
(* The list on its way.                                                    *)

\* A step that asks for the list anew, ...
Anew ==
    /\ list' \in Load /\ list'.stage = "sent" /\ list'.url = UrlOf(view') /\ list'.token = token'

\* ... one that leaves the list, or its request, to what it was, the tab perhaps
\* signed out or about to load it again, ...
GoesOn ==
    /\ list'.stage = "none" <=> list.stage = "none"
    /\ list'.url = list.url /\ list'.token = list.token
    /\ UrlOf(view') = UrlOf(view)
    /\ UNCHANGED <<view.offset, view.total, view.screen, view.of>>
    /\ token' # 0 /\ (\A ask \in asks' : ask.by # "login") =>
          token' = token /\ \A ask \in asks : ask.by # "login"

\* ... and one that puts it on the screen, or the error.
Ends ==
    /\ list' = NoList /\ UNCHANGED <<token, asks>>
    /\ view'.screen = "error" \/ PageArrives

LEMMA LoadsAnew ==
    ASSUME Accounts', Loading, Screen', LoadTracks(view', token')
    PROVE  Anew
<1>1. token' \in Nat
  BY DEF Accounts
<1>2. view'.favoritesOnly \in BOOLEAN /\ view'.filtered \in BOOLEAN /\ view'.offset \in Nat
  BY DEF Screen, View
<1> QED
  BY <1>1, <1>2, Requested DEF Anew

\* The server's answers.
LEMMA AnswersKeepLoading ==
    ASSUME Loading, ListTracks \/ CountTracks
    PROVE  Loading' /\ (list'.stage = "none" <=> list.stage = "none")
           /\ list'.url = list.url /\ list'.token = list.token
<1>1. list \in Load /\ list.url \in Url
  BY DEF Loading, Load
<1>2. ASSUME NEW stage \in {"refused", "counting"}, list' = [list EXCEPT !.stage = stage],
             UNCHANGED cache
      PROVE  Loading' /\ list'.stage = stage /\ list'.url = list.url /\ list'.token = list.token
  BY <1>1, <1>2 DEF Loading, Load
<1>3. CASE ListTracks
  <2> DEFINE body == Listed(list.url, Caller(list.token))
  <2>1. body \in Body /\ body.total >= 0
    BY <1>1, ListedIsBody
  <2>2. list.stage = "sent"
    BY <1>3 DEF ListTracks
  <2>3. \/ list' = [list EXCEPT !.stage = "refused"] /\ UNCHANGED cache
        \/ list' = [list EXCEPT !.stage = "counting"] /\ UNCHANGED cache
        \/ EtagCache(body)
    BY <1>3 DEF ListTracks
  <2> HIDE DEF body
  <2> QED
    BY <1>2, <2>1, <2>2, <2>3, AnswerListed
<1>4. CASE CountTracks
  <2> DEFINE body == [NoBody EXCEPT !.total = Cardinality(Matching(list.url, UserOf(list.token)))]
  <2>1. body \in Body /\ body.total >= 0
    BY <1>1, CountedIsBody
  <2>2. list.stage = "counting" /\ EtagCache(body)
    BY <1>4 DEF CountTracks
  <2> HIDE DEF body
  <2> QED
    BY <2>1, <2>2, AnswerListed
<1> QED
  BY <1>3, <1>4

LEMMA Classified ==
    ASSUME Accounts, Likes, Loading, Screen, Accounts', Screen', Next
    PROVE  \/ Anew /\ UNCHANGED cache
           \/ GoesOn /\ (UNCHANGED <<list, cache>> \/ ListTracks \/ CountTracks)
           \/ Ends /\ UNCHANGED cache
<1> DEFINE P == \/ Anew /\ UNCHANGED cache
                \/ GoesOn /\ (UNCHANGED <<list, cache>> \/ ListTracks \/ CountTracks)
                \/ Ends /\ UNCHANGED cache
<1>1. ASSUME LoadTracks(view', token'), UNCHANGED cache
      PROVE  P
  BY <1>1, LoadsAnew
<1>2. ASSUME UNCHANGED <<list, cache, view, token, asks>>
      PROVE  P
  BY <1>2 DEF GoesOn
<1>3. ASSUME NEW u \in User, LogIn(u)
      PROVE  P
  <2>1. PICK k : asks' = asks \cup {Ask(k, "login")} /\ UNCHANGED <<view, list, cache>>
    BY <1>3 DEF LogIn
  <2>2. Ask(k, "login") \in asks' /\ Ask(k, "login").by = "login"
    BY <2>1 DEF Ask
  <2> QED
    BY <2>1, <2>2 DEF GoesOn
<1>4. CASE LogOut \/ FilterRefused
  BY <1>1, <1>4 DEF LogOut, FilterRefused
<1>5. CASE FilterFavorites \/ Filter \/ ClearFilters \/ TurnPage \/ Reload \/ PageGone
  <2>1. LoadTracks(view', token) /\ UNCHANGED <<token, cache>>
    BY <1>5 DEF FilterFavorites, Filter, ClearFilters, TurnPage, Reload, PageGone
  <2> QED
    BY <1>1, <2>1
<1>6. CASE ClosePlayer \/ \E t \in Track : Play(t)
  BY <1>2, <1>6 DEF ClosePlayer, Play
<1>7. ASSUME NEW t \in Track, ToggleRow(t) \/ ToggleDock(t)
      PROVE  P
  <2>1. PICK objects \in SUBSET {"row", "dock"}, value \in BOOLEAN : Paint(t, objects, value)
    BY <1>7 DEF ToggleRow, ToggleDock, Toggle
  <2>2. Click /\ UNCHANGED <<token, list, asks, cache>>
    BY <1>7 DEF ToggleRow, ToggleDock, Toggle
  <2>3. view.offset <= clicks' * Limit /\ clicks' \in 0..MaxClicks
    BY <2>2, Clicks DEF Screen, View
  <2> QED
    BY <2>1, <2>2, <2>3, Painted DEF GoesOn
<1>8. ASSUME NEW ask \in asks, Me(ask)
      PROVE  P
  <2>1. asks' = (asks \ {ask}) \cup {[ask EXCEPT !.handled = TRUE, !.user = Caller(ask.token)]}
    BY <1>8 DEF Me
  <2>2. [ask EXCEPT !.handled = TRUE, !.user = Caller(ask.token)].by = ask.by
    BY DEF Accounts, Asking
  <2>3. (\A a \in asks' : a.by # "login") => \A a \in asks : a.by # "login"
    BY <2>1, <2>2
  <2>4. UNCHANGED <<token, view, list, cache>>
    BY <1>8 DEF Me
  <2> QED
    BY <2>3, <2>4 DEF GoesOn
<1>9. ASSUME NEW ask \in asks, MeAnswered(ask)
      PROVE  P
  <2>1. CASE ask.by = "login"
    <3>1. LoadTracks(view, token') /\ UNCHANGED <<view, cache>>
      BY <1>9, <2>1 DEF MeAnswered
    <3> QED
      BY <1>1, <3>1
  <2>2. CASE ask.by # "login"
    <3>1. asks' = asks \ {ask} /\ UNCHANGED <<list, view, cache>>
      BY <1>9, <2>2 DEF MeAnswered
    <3>2. token' # 0 => token' = token
      BY <1>9 DEF MeAnswered, Refreshed
    <3> QED
      BY <2>2, <3>1, <3>2 DEF GoesOn
  <2> QED
    BY <2>1, <2>2
<1>10. ASSUME NEW k \in DOMAIN issued, Expire(k)
      PROVE  P
  BY <1>2, <1>10 DEF Expire
<1>11. CASE ListTracks \/ CountTracks
  <2>1. UNCHANGED <<view, token, asks>>
    BY <1>11 DEF ListTracks, CountTracks
  <2> QED
    BY <1>11, <2>1, AnswersKeepLoading DEF GoesOn
<1>12. CASE PageArrives
  BY <1>12 DEF PageArrives, Ends
<1>13. CASE ListFails
  <2>1. view'.screen = "error"
    BY <1>13 DEF ListFails, Screen, View
  <2> QED
    BY <1>13, <2>1 DEF ListFails, Ends
<1>14. ASSUME NEW g \in toggles, ServeToggle(g) \/ LoseToggle(g)
      PROVE  P
  BY <1>2, <1>14 DEF ServeToggle, LoseToggle
<1>15. ASSUME NEW g \in toggles, ToggleOk(g) \/ ToggleFailed(g) \/ ToggleUnauthorized(g)
      PROVE  P
  <2>1. g.next \in BOOLEAN
    BY DEF Likes, Like
  <2>2. PICK value \in BOOLEAN : Paint(g.track, g.objects, value)
    BY <1>15, <2>1 DEF ToggleOk, ToggleFailed, ToggleUnauthorized, EndToggle
  <2>3. clicks' = clicks /\ UNCHANGED <<asks, cache>>
    BY <1>15 DEF ToggleOk, ToggleFailed, ToggleUnauthorized, EndToggle
  <2>4. view.offset <= clicks' * Limit /\ clicks' \in 0..MaxClicks
    BY <2>3 DEF Screen
  <2>5. /\ UrlOf(view') = UrlOf(view) /\ view'.offset = view.offset /\ view'.total = view.total
        /\ view'.screen = view.screen /\ view'.of = view.of
    BY <2>2, <2>4, Painted
  <2>6. \/ token' \in {token, 0} /\ UNCHANGED list
        \/ LoadTracks(view', token) /\ UNCHANGED token
    BY <1>15 DEF ToggleOk, ToggleFailed, ToggleUnauthorized
  <2>7. CASE token' \in {token, 0} /\ UNCHANGED list
    BY <2>3, <2>5, <2>7 DEF GoesOn
  <2>8. CASE LoadTracks(view', token) /\ UNCHANGED token
    BY <1>1, <2>3, <2>8
  <2> QED
    BY <2>6, <2>7, <2>8
<1> QED
  <2>1. P
    BY <1>3, <1>4, <1>5, <1>6, <1>7, <1>8, <1>9, <1>10, <1>11, <1>12, <1>13, <1>14, <1>15
    DEF Next, ListMoves, ToggleMoves
  <2> QED
    BY <2>1

\* What a step does to the list and to whom it is asked for.
LEMMA ListStep ==
    ASSUME IInv, Accounts', Screen', Next
    PROVE  Loading' /\ AsksForTheView' /\ AsksWithTheToken' /\ ListAsAsked' /\ RowsOfThisLogin'
<1> DEFINE P == Loading' /\ AsksForTheView' /\ AsksWithTheToken' /\ ListAsAsked'
                /\ (list'.stage = "none" /\ view'.screen = "list" => view'.of.body = view'.of.answer)
<1>1. ASSUME Anew, UNCHANGED cache
      PROVE  P
  <2>1. Loading'
    BY <1>1 DEF IInv, Loading, Anew
  <2> QED
    BY <1>1, <2>1 DEF Anew, AsksForTheView, AsksWithTheToken, ListAsAsked
<1>2. ASSUME GoesOn, UNCHANGED <<list, cache>> \/ ListTracks \/ CountTracks
      PROVE  P
  <2>1. Loading'
    BY <1>2, AnswersKeepLoading DEF IInv, Loading
  <2>2. AsksForTheView'
    BY <1>2 DEF IInv, GoesOn, AsksForTheView
  <2>3. AsksWithTheToken'
    BY <1>2 DEF IInv, GoesOn, AsksWithTheToken
  <2>4. ListAsAsked'
    BY <1>2 DEF IInv, GoesOn, ListAsAsked
  <2>5. list'.stage = "none" /\ view'.screen = "list" => view'.of.body = view'.of.answer
    BY <1>2 DEF IInv, GoesOn, RowsOfThisLogin
  <2> QED
    BY <2>1, <2>2, <2>3, <2>4, <2>5
<1>3. ASSUME Ends, UNCHANGED cache
      PROVE  P
  <2>1. list' = NoList /\ list'.stage = "none" /\ NoList.stage # "page"
    BY <1>3 DEF Ends, NoList
  <2>2. Loading'
    BY <1>3, <2>1, NoListIsLoad DEF IInv, Loading
  <2>3. CASE view'.screen = "error"
    BY <2>1, <2>2, <2>3 DEF AsksForTheView, AsksWithTheToken, ListAsAsked
  <2>4. CASE PageArrives
    <3>1. /\ view'.of = list /\ UrlOf(view') = UrlOf(view) /\ view'.offset = view.offset
          /\ view'.total = list.body.total
      BY <2>4 DEF PageArrives, UrlOf, IInv, Screen, View
    <3>2. list.stage = "page" /\ ~Shrunk
      BY <2>4 DEF PageArrives
    <3>3. AsksForTheView' /\ view'.of.body = view'.of.answer
      BY <2>1, <3>1, <3>2 DEF IInv, AsksForTheView, Loading
    <3>4. AsksWithTheToken'
      BY <1>3, <2>1, <3>1, <3>2 DEF IInv, Ends, AsksWithTheToken
    <3>5. ListAsAsked'
      <4>1. list.url = UrlOf(view)
        BY <3>2 DEF IInv, AsksForTheView
      <4>2. view.offset \in Nat /\ list.body.total \in Int
        BY LibraryAssumption DEF IInv, Screen, View, Loading, Load, Body
      <4>3. view.offset = 0 \/ view.offset < list.body.total
        BY <3>2, <4>2 DEF Shrunk
      <4> QED
        BY <3>1, <4>1, <4>3 DEF ListAsAsked
    <3> QED
      BY <2>2, <3>3, <3>4, <3>5
  <2> QED
    BY <1>3, <2>3, <2>4 DEF Ends
<1>4. P
  BY <1>1, <1>2, <1>3, Classified DEF IInv
<1>5. RowsOfThisLogin'
  BY <1>4 DEF AsksWithTheToken, RowsOfThisLogin
<1> QED
  BY <1>4, <1>5

-----------------------------------------------------------------------------
(* Theorems.                                                               *)

\* The page has just been opened.
LEMMA Initially == Init => IInv
<1> SUFFICES ASSUME Init
             PROVE  IInv
  OBVIOUS
<1>1. PICK u \in User : issued = <<u>>
  BY DEF Init
<1>2. issued \in Seq(User) /\ Len(issued) = 1 /\ DOMAIN issued = {1}
  BY <1>1
<1>3. Accounts
  <2>1. token \in {0, 1} /\ asks \in {{}, {Ask(token, "boot")}} /\ (asks # {} => token = 1)
    BY DEF Init
  <2>2. Ask(1, "boot") \in Asking /\ Ask(1, "boot").token = 1
    BY DEF Ask, Asking
  <2>3. asks \subseteq Asking /\ \A ask \in asks : ask.token \in 1..Len(issued)
    BY <1>2, <2>1, <2>2
  <2>4. expired = {} /\ authUser = Nobody /\ favs \subseteq User \X Track
    BY LibraryAssumption DEF Init
  <2> QED
    BY <1>2, <2>1, <2>3, <2>4 DEF Accounts
<1>4. Likes
  BY DEF Init, Likes, WriteConfirmed
<1>5. Screen
  <2>1. NoRows \in Rows
    BY FS_EmptySet, LibraryAssumption DEF NoRows, Rows
  <2>2. view \in View /\ view.offset = 0 /\ view.screen = "skeleton"
    BY <2>1, NoListIsLoad, LibraryAssumption DEF Init, View
  <2>3. dock \in Docked /\ ~dock.shared
    BY DEF Init, NoDock, Docked
  <2>4. clicks = 0 /\ MaxClicks \in Nat /\ Limit \in Nat
    BY LibraryAssumption DEF Init
  <2>5. 0 <= 0 * Limit
    BY <2>4
  <2> QED
    BY <2>2, <2>3, <2>4, <2>5 DEF Screen
<1>6. /\ list \in Load /\ list.stage = "sent" /\ list.url = UrlOf(view) /\ list.token = token
  <2>1. UrlOf(view) \in Url /\ token \in Nat
    BY <1>2, <1>3, <1>5 DEF Accounts, Screen, View, UrlOf, Url
  <2>2. DOMAIN cache = {}
    BY DEF Init
  <2>3. list = [NoList EXCEPT !.stage = "sent", !.url = UrlOf(view), !.token = token, !.known = NoBody]
    BY <2>2 DEF Init, Request
  <2> QED
    BY <2>1, <2>3, NoListIsLoad, Empty DEF Load
<1>7. Loading
  BY <1>6 DEF Loading, Init
<1> QED
  BY <1>3, <1>4, <1>5, <1>6, <1>7
  DEF IInv, AsksForTheView, AsksWithTheToken, ListAsAsked, RowsOfThisLogin

\* The inductive invariant holds in every state.
THEOREM Invariance == Spec => []IInv
<1>1. IInv /\ [Next]_vars => IInv'
  <2> SUFFICES ASSUME IInv, [Next]_vars
               PROVE  IInv'
    OBVIOUS
  <2>1. CASE Next
    <3>1. Accounts' /\ Likes' /\ Screen'
      BY <2>1, AccountsStep, LikesStep, ScreenStep DEF IInv
    <3> QED
      BY <2>1, <3>1, ListStep DEF IInv
  <2>2. CASE UNCHANGED vars
    BY <2>2 DEF vars, server, IInv, Accounts, Likes, WriteConfirmed, Loading, Screen,
                AsksForTheView, AsksWithTheToken, ListAsAsked, RowsOfThisLogin
  <2> QED
    BY <2>1, <2>2
<1> QED
  BY Initially, <1>1, PTL DEF Spec

\* Types; and that no list, kept or painted, is longer than a page.
THEOREM TypeCorrect == Spec => []TypeOK
<1>1. IInv => TypeOK
  <2> SUFFICES ASSUME IInv
               PROVE  TypeOK
    OBVIOUS
  <2>1. view.offset \in 0..MaxClicks * Limit
    <3>1. clicks \in 0..MaxClicks /\ view.offset <= clicks * Limit /\ view.offset \in Nat
      BY DEF IInv, Screen, View
    <3>2. MaxClicks \in Nat /\ Limit \in Nat
      BY LibraryAssumption
    <3>3. clicks * Limit <= MaxClicks * Limit /\ clicks * Limit \in Nat /\ MaxClicks * Limit \in Nat
      BY <3>1, <3>2
    <3> QED
      BY <3>1, <3>3
  <2>2. /\ view.favoritesOnly \in BOOLEAN /\ view.filtered \in BOOLEAN
        /\ view.total \in 0..NumTracks /\ view.screen \in {"skeleton", "list", "error"}
        /\ view.rows \in Rows
    BY DEF IInv, Screen, View
  <2>3. /\ DOMAIN view.rows \subseteq Track /\ view.rows \in [DOMAIN view.rows -> Row]
        /\ Cardinality(DOMAIN view.rows) <= Limit
    BY <2>2 DEF Rows
  <2>4. dock.track \in Track \cup {0} /\ (dock.shared => dock.track \in DOMAIN view.rows)
    BY DEF IInv, Screen, Docked
  <2>5. /\ list.stage \in {"none", "sent", "counting", "page", "refused"}
        /\ list.body.total \in -1..NumTracks /\ list.body.favorited \subseteq list.body.tracks
        /\ \A url \in DOMAIN cache : Cardinality(cache[url].tracks) <= Limit
    BY DEF IInv, Loading, Load, Body
  <2>6. \A g \in toggles : /\ g.track \in Track /\ g.token \in 0..Len(issued)
                          /\ g.stage \in {"sent", "ok", "unauthorized", "failed"}
                          /\ g.objects \subseteq {"row", "dock"}
    BY DEF IInv, Likes, Like
  <2>7. \A ask \in asks : ask.token \in 1..Len(issued) /\ ask.user \in User \cup {Nobody}
    BY DEF IInv, Accounts, Asking
  <2> QED
    BY <2>1, <2>2, <2>3, <2>4, <2>5, <2>6, <2>7 DEF TypeOK, IInv, Accounts
<1> QED
  BY <1>1, Invariance, PTL

\* The answer that will set a heart is the truth on the server, whatever was signed in,
\* replayed or reloaded since the click (toggleFavorite and its favoritePending).
THEOREM HeartIsTrue == Spec => []WriteConfirmed
<1>1. IInv => WriteConfirmed
  BY DEF IInv, Likes
<1> QED
  BY <1>1, Invariance, PTL

\* Once nothing is being loaded, the screen shows the filter and the page that the
\* controls show, and not one behind the end (loadTracks and its AbortController).
THEOREM ControlsTellTheList == Spec => []ListAsAsked
<1>1. IInv => ListAsAsked
  BY DEF IInv
<1> QED
  BY <1>1, Invariance, PTL

\* The rows on the screen are those asked for with the token of the tab, and what the
\* server answered to it, whoever else has asked for the same url (etag_cache, authFetch).
THEOREM NobodyElsesRows == Spec => []RowsOfThisLogin
<1>1. IInv => RowsOfThisLogin
  BY DEF IInv
<1> QED
  BY <1>1, Invariance, PTL

=============================================================================
