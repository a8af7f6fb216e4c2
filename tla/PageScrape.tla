----------------------------- MODULE PageScrape -----------------------------
(***************************************************************************)
(* One page in the headless browser and what is read off it: the tracks of *)
(* a scrape (fetch_html and parse_html), or the playlists of a profile     *)
(* (fetch_html and discover_playlists).  The page renders rows and         *)
(* hydrates tracks on its own, while fetch_html scrolls until the height   *)
(* stays or the iterations are used up, then reads the document and, a     *)
(* little later, the hydration.  parse_html puts the two together;         *)
(* discover_playlists looks at the document only.                          *)
(***************************************************************************)
EXTENDS Integers, Sequences

CONSTANTS
    Track,          \* tracks, or playlists, as canonical urls
    NoUrl,          \* None in the field url
    Uploader,       \* whose each track is; the first segment of its path
    Nameless,       \* None in the field artist
    Unknown,        \* "Unknown Artist"
    MaxScroll,      \* settings.max_scroll_iterations
    MaxRows         \* bound: rows of a page

ASSUME PageAssumption ==
    /\ NoUrl \notin Track
    /\ MaxScroll \in Nat \ {0} /\ MaxRows \in Nat

Artist == {Uploader[t] : t \in Track}

\* A place on the page.  Its row: with a username, without one (bare), without a
\* title, or without a link; its hydrated track: with a user or without.  On a
\* profile's /sets page the rows are cards, some of which link to no playlist.
Entry == [track : Track, row : {"full", "bare", "untitled", "unlinked"}, user : BOOLEAN]

Pages == UNION {[1..n -> Entry] : n \in 0..MaxRows}

VARIABLES
    use,        \* what the page is fetched for: "scrape" or "discover"
    page,       \* the places of the page
    hydratable, \* the entries of its hydration that parse_html looks at
    owner,      \* the user of its user entry
    endless,    \* a stream whose height grows with every scroll
    shown,      \* rows rendered so far
    filled,     \* tracks hydrated so far; the others are stubs, ids only
    pc,         \* where fetch_html and parse_html stand
    lastHeight, iterations,
    html,       \* page.content()
    hydration,  \* window.__sc_hydration: its tracks, and whether each is filled
    records     \* what parse_html or discover_playlists returns, in the order of its
                \* indices: the places on the page, or in the hydration

site == <<use, page, hydratable, owner, endless>>
vars == <<site, shown, filled, pc, lastHeight, iterations, html, hydration, records>>

Init ==
    /\ use \in {"scrape", "discover"}
    /\ page \in Pages
    /\ hydratable \in IF use = "scrape" THEN SUBSET {"playlist", "user"} ELSE {{"user"}}
    /\ owner \in Artist
    /\ endless \in BOOLEAN
    /\ shown \in 0..Len(page)
    /\ filled \in 0..Len(page)
    /\ pc = "navigated"
    /\ lastHeight = 0 /\ iterations = 0
    /\ html = <<>> /\ hydration = <<>> /\ records = <<>>

-----------------------------------------------------------------------------
(* The page.                                                               *)

Renders ==
    /\ shown < Len(page)
    /\ shown' = shown + 1
    /\ UNCHANGED <<site, filled, pc, lastHeight, iterations, html, hydration, records>>

Hydrates ==
    /\ filled < Len(page)
    /\ filled' = filled + 1
    /\ UNCHANGED <<site, shown, pc, lastHeight, iterations, html, hydration, records>>

-----------------------------------------------------------------------------
(* fetch_html.                                                             *)

MeasureFirst ==
    /\ pc = "navigated"
    /\ lastHeight' = shown
    /\ pc' = "scrolling"
    /\ UNCHANGED <<site, shown, filled, iterations, html, hydration, records>>

Grown == endless \/ shown # lastHeight

\* An iteration: scroll, wait, measure.
Scroll ==
    /\ pc = "scrolling"
    /\ lastHeight' = shown
    /\ iterations' = iterations + 1
    /\ pc' = IF Grown /\ iterations' < MaxScroll THEN "scrolling" ELSE "settled"
    /\ UNCHANGED <<site, shown, filled, html, hydration, records>>

ReadContent ==
    /\ pc = "settled"
    /\ html' = SubSeq(page, 1, shown)
    /\ pc' = "content"
    /\ UNCHANGED <<site, shown, filled, lastHeight, iterations, hydration, records>>

ReadHydration ==
    /\ pc = "content"
    /\ hydration' = IF "playlist" \in hydratable
                    THEN [i \in DOMAIN page |-> [track |-> page[i].track, user |-> page[i].user,
                                                 full |-> i <= filled]]
                    ELSE <<>>
    /\ pc' = "fetched"
    /\ UNCHANGED <<site, shown, filled, lastHeight, iterations, html, records>>

-----------------------------------------------------------------------------
(* parse_html.                                                             *)

\* The rows with a title, each at its place.
ParseDom ==
    [i \in {j \in DOMAIN html : html[j].row # "untitled"} |->
        [url |-> IF html[i].row = "unlinked" THEN NoUrl ELSE html[i].track,
         artist |-> IF html[i].row = "bare" THEN Nameless ELSE Uploader[html[i].track],
         titled |-> TRUE, counted |-> FALSE]]

TrackFromHydration(h) ==
    [url |-> IF h.full THEN h.track ELSE NoUrl,
     artist |-> IF h.full /\ h.user THEN Uploader[h.track] ELSE Unknown,
     titled |-> h.full, counted |-> h.full]

\* _hydration_track_info: no stubs, and the last of two with one url.
Entries(url) == {i \in DOMAIN hydration : hydration[i].full /\ hydration[i].track = url}

Last(S) == CHOOSE i \in S : \A j \in S : j <= i

\* Slip: the owner of the page is taken for the uploader.
OwnedByProfile_Blindly(r) == "user" \in hydratable

OwnedByProfile(r) == "user" \in hydratable /\ r.url # NoUrl /\ Uploader[r.url] = owner

\* Slip: what is left without an artist stays so.
Attributed_OwnersOnly(r) ==
    IF r.artist # Nameless THEN r
    ELSE IF OwnedByProfile(r) THEN [r EXCEPT !.artist = owner] ELSE r

Attributed(r) ==
    IF r.artist # Nameless THEN r
    ELSE [r EXCEPT !.artist = IF OwnedByProfile(r) THEN owner ELSE Unknown]

Enriched(r) ==
    IF r.url # NoUrl /\ Entries(r.url) # {}
    THEN [r EXCEPT !.artist = TrackFromHydration(hydration[Last(Entries(r.url))]).artist,
                   !.counted = TRUE]
    ELSE Attributed(r)

\* Slip: what is hydrated is listed, the document is the fallback.
Found_HydrationFirst ==
    IF hydration = <<>> THEN ParseDom
    ELSE [i \in DOMAIN hydration |-> TrackFromHydration(hydration[i])]

\* The hydrated tracks, stubs included, only if the document has none.
Found ==
    IF DOMAIN ParseDom # {} THEN ParseDom
    ELSE [i \in DOMAIN hydration |-> TrackFromHydration(hydration[i])]

ParseHtml ==
    /\ pc = "fetched" /\ use = "scrape"
    /\ records' = [i \in DOMAIN Found |-> Enriched(Found[i])]
    /\ pc' = "parsed"
    /\ UNCHANGED <<site, shown, filled, lastHeight, iterations, html, hydration>>

\* The cards that link to a playlist no card before them links to.
New == {i \in DOMAIN html :
            /\ html[i].row # "unlinked"
            /\ \A j \in 1..i - 1 : html[j].row # "unlinked" => html[j].track # html[i].track}

DiscoverPlaylists ==
    /\ pc = "fetched" /\ use = "discover"
    /\ records' = [i \in New |-> [url |-> html[i].track]]
    /\ pc' = "parsed"
    /\ UNCHANGED <<site, shown, filled, lastHeight, iterations, html, hydration>>

-----------------------------------------------------------------------------

Scraper == MeasureFirst \/ Scroll \/ ReadContent \/ ReadHydration
           \/ ParseHtml \/ DiscoverPlaylists

Next == Scraper \/ Renders \/ Hydrates

Spec == Init /\ [][Next]_vars

-----------------------------------------------------------------------------

\* Type correctness; tracks.artist is NOT NULL, so no record may be Nameless.
TypeOK ==
    /\ page \in Pages
    /\ shown \in 0..Len(page) /\ filled \in 0..Len(page)
    /\ lastHeight \in 0..Len(page)
    /\ iterations \in 0..MaxScroll
    /\ \A i \in DOMAIN records :
          records[i] \in IF use = "discover" THEN [url : Track]
                        ELSE [url : Track \cup {NoUrl}, artist : Artist \cup {Unknown},
                              titled : BOOLEAN, counted : BOOLEAN]

\* No track is credited to anybody but its uploader, reposts on somebody's profile
\* included, however much of the page had been rendered and hydrated; and the counters
\* of a row are those of its own track.
NoFalseCredit ==
    use = "scrape" /\ pc = "parsed" =>
        \A i \in DOMAIN records : LET r == records[i] IN
            /\ r.url # NoUrl => r.artist \in {Uploader[r.url], Unknown}
            /\ r.counted => r.url # NoUrl /\ Entries(r.url) # {}

\* What was on the page when the scrolling ended is on the list, whatever has been
\* hydrated by then and whatever is rendered afterwards; a playlist only once, however
\* often a profile shows it.
RenderedListed ==
    pc = "parsed" => \A i \in 1..lastHeight :
        LET listed == {k \in DOMAIN records : records[k].url = page[i].track}
        IN  IF use = "scrape" THEN page[i].row \in {"full", "bare"} => listed # {}
            ELSE page[i].row # "unlinked" => \E k \in DOMAIN records : listed = {k}

=============================================================================
