-------------------------- MODULE PageScrape_proofs --------------------------
(***************************************************************************)
(* Proofs about PageScrape, for pages of any length over any tracks, and   *)
(* any number of scrolls.                                                  *)
(***************************************************************************)
EXTENDS PageScrape, SequenceTheorems, WellFoundedInduction, TLAPS

-----------------------------------------------------------------------------
(* The inductive invariant.                                                *)

Hydrated == [track : Track, user : BOOLEAN, full : BOOLEAN]

\* What the page and the scraper are made of.
Shape ==
    /\ use \in {"scrape", "discover"}
    /\ owner \in Artist
    /\ pc \in {"navigated", "scrolling", "settled", "content", "fetched", "parsed"}
    /\ hydration \in Seq(Hydrated)

\* The scrolling stays within its iterations.
ScrollBounded ==
    /\ pc = "navigated" => iterations = 0
    /\ pc = "scrolling" => iterations < MaxScroll

\* The document that is read has at least what was there when the scrolling ended.
ReadsWhatWasThere ==
    /\ lastHeight <= shown
    /\ pc \in {"navigated", "scrolling", "settled"} => html = <<>>
    /\ pc \in {"content", "fetched", "parsed"} =>
          \E n \in lastHeight..Len(page) : html = SubSeq(page, 1, n)

NothingYet == pc # "parsed" => DOMAIN records = {}

IInv ==
    /\ TypeOK /\ Shape
    /\ ScrollBounded /\ ReadsWhatWasThere /\ NothingYet
    /\ NoFalseCredit /\ RenderedListed

-----------------------------------------------------------------------------
(* Least and greatest elements.                                            *)

LEMMA LeastNatural ==
    ASSUME NEW T, T \subseteq Nat, T # {}
    PROVE  \E m \in T : \A k \in T : m <= k
<1> DEFINE R == OpToRel(<, Nat)
<1>1. IsWellFoundedOn(R, Nat)
  BY NatLessThanWellFounded
<1>2. \A k, m \in Nat : k < m => <<k, m>> \in R
  BY DEF OpToRel
<1> HIDE DEF R
<1>3. PICK m \in T : \A k \in T : ~(<<k, m>> \in R)
  BY <1>1, WFMin
<1>4. ASSUME NEW k \in T
      PROVE  m <= k
  <2>1. k \in Nat /\ m \in Nat /\ ~(k < m)
    BY <1>2, <1>3, <1>4
  <2> QED
    BY <2>1
<1> QED
  BY <1>3, <1>4

LEMMA LastOfSome ==
    ASSUME NEW n \in Nat, NEW S, S \subseteq 1..n, S # {}
    PROVE  Last(S) \in S /\ \A j \in S : j <= Last(S)
<1> DEFINE T == {n - i : i \in S}
<1>1. T \subseteq Nat /\ T # {}
  <2>1. \A i \in S : n - i \in Nat
    OBVIOUS
  <2>2. PICK i \in S : TRUE
    OBVIOUS
  <2>3. n - i \in T
    BY <2>2
  <2> QED
    BY <2>1, <2>3
<1>2. PICK m \in T : \A k \in T : m <= k
  <2> HIDE DEF T
  <2> QED
    BY <1>1, LeastNatural
<1>3. PICK i \in S : m = n - i
  BY <1>2
<1>4. \A j \in S : j <= i
  <2> TAKE j \in S
  <2>1. n - j \in T
    OBVIOUS
  <2>2. m <= n - j
    BY <1>2, <2>1
  <2>3. j \in Int /\ i \in Int
    OBVIOUS
  <2> QED
    BY <1>3, <2>2, <2>3
<1> QED
  BY <1>4 DEF Last

-----------------------------------------------------------------------------
(* What is read off the page.                                              *)

LEMMA PageType ==
    ASSUME page \in Pages
    PROVE  page \in Seq(Entry)
<1>1. PICK n \in 0..MaxRows : page \in [1..n -> Entry]
  BY DEF Pages
<1>2. n \in Nat
  BY PageAssumption
<1> QED
  BY <1>1, <1>2, SeqDef

\* The document is a beginning of the page, with all that was there when the
\* scrolling ended.
LEMMA HtmlIsPrefix ==
    ASSUME TypeOK, Shape, ReadsWhatWasThere
    PROVE  /\ html \in Seq(Entry)
           /\ \A i \in DOMAIN html : i \in DOMAIN page /\ html[i] = page[i]
           /\ pc = "fetched" => lastHeight <= Len(html)
<1>1. page \in Seq(Entry)
  BY PageType DEF TypeOK
<1>2. CASE html = <<>>
  BY <1>2 DEF ReadsWhatWasThere, TypeOK, Shape
<1>3. CASE pc \in {"content", "fetched", "parsed"}
  <2>1. PICK n \in lastHeight..Len(page) : html = SubSeq(page, 1, n)
    BY <1>3 DEF ReadsWhatWasThere
  <2>2. n \in 0..Len(page) /\ Len(page) \in Nat /\ lastHeight <= n
    BY <1>1, <2>1, LenProperties DEF TypeOK
  <2>3. /\ html \in Seq(Entry) /\ Len(html) = n
        /\ \A i \in 1..n : html[i] = page[i]
    BY <1>1, <2>1, <2>2, SubSeqProperties
  <2> QED
    BY <1>1, <2>2, <2>3
<1> QED
  BY <1>2, <1>3 DEF ReadsWhatWasThere, Shape

\* What the places of the document or of the hydration say of a track.
Raw == [url : Track \cup {NoUrl}, artist : Artist \cup {Unknown, Nameless},
        titled : BOOLEAN, counted : BOOLEAN]

Sound(r) ==
    /\ r.url # NoUrl => r.artist \in {Uploader[r.url], Unknown, Nameless}
    /\ r.counted => r.url # NoUrl /\ Entries(r.url) # {}

LEMMA FoundSound ==
    ASSUME Shape, html \in Seq(Entry), NEW i \in DOMAIN Found
    PROVE  Found[i] \in Raw /\ Sound(Found[i])
<1>1. CASE Found = ParseDom
  <2>1. i \in DOMAIN html
    BY <1>1 DEF ParseDom
  <2>2. html[i] \in Entry
    BY <2>1
  <2>3. Uploader[html[i].track] \in Artist
    BY <2>2 DEF Entry, Artist
  <2>4. Found[i] = [url |-> IF html[i].row = "unlinked" THEN NoUrl ELSE html[i].track,
                    artist |-> IF html[i].row = "bare" THEN Nameless
                               ELSE Uploader[html[i].track],
                    titled |-> TRUE, counted |-> FALSE]
    BY <1>1 DEF ParseDom
  <2> QED
    BY <2>2, <2>3, <2>4 DEF Entry, Raw, Sound
<1>2. CASE Found = [k \in DOMAIN hydration |-> TrackFromHydration(hydration[k])]
  <2>1. i \in DOMAIN hydration /\ Found[i] = TrackFromHydration(hydration[i])
    BY <1>2
  <2>2. hydration[i] \in Hydrated
    BY <2>1 DEF Shape
  <2>3. Uploader[hydration[i].track] \in Artist
    BY <2>2 DEF Hydrated, Artist
  <2>4. hydration[i].full => i \in Entries(hydration[i].track)
    BY <2>1 DEF Entries
  <2> QED
    BY <2>1, <2>2, <2>3, <2>4, PageAssumption
       DEF TrackFromHydration, Hydrated, Raw, Sound
<1> QED
  BY <1>1, <1>2 DEF Found

\* A record of the scrape.
Listed == [url : Track \cup {NoUrl}, artist : Artist \cup {Unknown},
           titled : BOOLEAN, counted : BOOLEAN]

\* Putting the two together names the uploader of the track or nobody, and leaves
\* the url alone.
LEMMA EnrichedSound ==
    ASSUME Shape, NEW r \in Raw, Sound(r)
    PROVE  /\ Enriched(r) \in Listed
           /\ Enriched(r).url = r.url
           /\ r.url # NoUrl => Enriched(r).artist \in {Uploader[r.url], Unknown}
           /\ Enriched(r).counted => r.url # NoUrl /\ Entries(r.url) # {}
<1>1. CASE r.url # NoUrl /\ Entries(r.url) # {}
  <2> DEFINE E == Entries(r.url)
             a == TrackFromHydration(hydration[Last(E)]).artist
  <2>1. Len(hydration) \in Nat /\ E \subseteq 1..Len(hydration)
    BY DEF Entries, Shape
  <2>2. Last(E) \in E
    BY <1>1, <2>1, LastOfSome
  <2>3. hydration[Last(E)].track = r.url
    BY <2>2 DEF Entries
  <2>4. a \in {Uploader[r.url], Unknown}
    BY <2>3 DEF TrackFromHydration
  <2>5. r.url \in Track /\ Uploader[r.url] \in Artist
    BY <1>1 DEF Raw, Artist
  <2>6. Enriched(r) = [r EXCEPT !.artist = a, !.counted = TRUE]
    BY <1>1 DEF Enriched
  <2> HIDE DEF a
  <2>7. Enriched(r) = [url |-> r.url, artist |-> a, titled |-> r.titled, counted |-> TRUE]
    BY <2>6 DEF Raw
  <2> QED
    BY <1>1, <2>4, <2>5, <2>7 DEF Listed, Raw
<1>2. CASE ~(r.url # NoUrl /\ Entries(r.url) # {})
  <2>1. Enriched(r) = Attributed(r) /\ ~r.counted
    BY <1>2 DEF Enriched, Sound
  <2>2. CASE r.artist # Nameless
    BY <2>1, <2>2 DEF Attributed, Sound, Raw, Listed
  <2>3. CASE r.artist = Nameless
    <3> DEFINE a == IF OwnedByProfile(r) THEN owner ELSE Unknown
    <3>1. a \in Artist \cup {Unknown} /\ (r.url # NoUrl => a \in {Uploader[r.url], Unknown})
      BY DEF OwnedByProfile, Shape
    <3>2. Enriched(r) = [r EXCEPT !.artist = a]
      BY <2>1, <2>3 DEF Attributed
    <3> HIDE DEF a
    <3>3. Enriched(r) = [url |-> r.url, artist |-> a,
                         titled |-> r.titled, counted |-> r.counted]
      BY <3>2 DEF Raw
    <3> QED
      BY <2>1, <3>1, <3>3 DEF Listed, Raw
  <2> QED
    BY <2>2, <2>3
<1> QED
  BY <1>1, <1>2

-----------------------------------------------------------------------------
(* Parsing the tracks of a scrape.                                         *)

LEMMA ParseHtmlRecords ==
    ASSUME IInv, ParseHtml
    PROVE  /\ DOMAIN records' = DOMAIN Found
           /\ \A i \in DOMAIN records' :
                 /\ records'[i] = Enriched(Found[i])
                 /\ records'[i] \in Listed
                 /\ records'[i].url = Found[i].url
                 /\ records'[i].url # NoUrl =>
                       records'[i].artist \in {Uploader[records'[i].url], Unknown}
                 /\ records'[i].counted =>
                       records'[i].url # NoUrl /\ Entries(records'[i].url) # {}
<1>1. html \in Seq(Entry) /\ Shape
  BY HtmlIsPrefix DEF IInv
<1>2. records' = [i \in DOMAIN Found |-> Enriched(Found[i])]
  BY DEF ParseHtml
<1>3. ASSUME NEW i \in DOMAIN Found
      PROVE  Found[i] \in Raw /\ Sound(Found[i])
  BY <1>1, FoundSound
<1>4. ASSUME NEW i \in DOMAIN Found
      PROVE  /\ Enriched(Found[i]) \in Listed
             /\ Enriched(Found[i]).url = Found[i].url
             /\ Found[i].url # NoUrl =>
                   Enriched(Found[i]).artist \in {Uploader[Found[i].url], Unknown}
             /\ Enriched(Found[i]).counted =>
                   Found[i].url # NoUrl /\ Entries(Found[i].url) # {}
  BY <1>1, <1>3, EnrichedSound
<1> QED
  BY <1>2, <1>4

LEMMA ParseHtmlSafe ==
    ASSUME IInv, ParseHtml
    PROVE  (NoFalseCredit /\ RenderedListed)'
<1>1. UNCHANGED <<site, shown, filled, lastHeight, iterations, html, hydration>>
  BY DEF ParseHtml
<1>2. \A url : Entries(url)' = Entries(url)
  BY <1>1 DEF Entries
<1>3. NoFalseCredit'
  BY <1>2, ParseHtmlRecords DEF NoFalseCredit
<1>4. ASSUME NEW i \in 1..lastHeight, page[i].row \in {"full", "bare"}
      PROVE  \E k \in DOMAIN records' : records'[k].url = page[i].track
  <2>1. i \in DOMAIN html /\ html[i] = page[i]
    <3>1. html \in Seq(Entry) /\ lastHeight <= Len(html) /\ lastHeight \in Nat
      BY HtmlIsPrefix DEF IInv, TypeOK, ParseHtml, Shape
    <3>2. \A k \in DOMAIN html : html[k] = page[k]
      BY HtmlIsPrefix DEF IInv
    <3> QED
      BY <3>1, <3>2
  <2>2. i \in DOMAIN ParseDom /\ ParseDom[i].url = page[i].track
    BY <1>4, <2>1 DEF ParseDom
  <2>3. Found = ParseDom
    BY <2>2 DEF Found
  <2>4. i \in DOMAIN records' /\ records'[i].url = page[i].track
    BY <2>2, <2>3, ParseHtmlRecords
  <2> QED
    BY <2>4
<1>5. RenderedListed'
  BY <1>1, <1>4 DEF RenderedListed, ParseHtml, site
<1> QED
  BY <1>3, <1>5

-----------------------------------------------------------------------------
(* Discovering the playlists of a profile.                                 *)

\* Of the cards that link to a playlist exactly one is New.
LEMMA OneIsNew ==
    ASSUME html \in Seq(Entry), NEW i \in DOMAIN html, html[i].row # "unlinked"
    PROVE  \E k \in New : {j \in New : html[j].track = html[i].track} = {k}
<1> DEFINE T == {j \in DOMAIN html : html[j].row # "unlinked" /\ html[j].track = html[i].track}
<1>1. T \subseteq Nat /\ T # {}
  OBVIOUS
<1>2. PICK k \in T : \A j \in T : k <= j
  <2> HIDE DEF T
  <2> QED
    BY <1>1, LeastNatural
<1>3. k \in New
  <2>1. k \in DOMAIN html /\ html[k].row # "unlinked" /\ html[k].track = html[i].track
    OBVIOUS
  <2>2. ASSUME NEW j \in 1..k - 1, html[j].row # "unlinked", html[j].track = html[k].track
        PROVE  FALSE
    <3>1. j \in DOMAIN html /\ j < k
      BY <2>1
    <3>2. j \in T
      BY <2>1, <2>2, <3>1
    <3> QED
      BY <1>2, <3>1, <3>2
  <2> QED
    BY <2>1, <2>2 DEF New
<1>4. ASSUME NEW j \in New, html[j].track = html[i].track
      PROVE  j = k
  <2>1. j \in T
    BY <1>4 DEF New
  <2>2. k <= j /\ j \in Nat /\ k \in Nat
    BY <1>1, <1>2, <2>1
  <2>3. ~(k < j)
    <3> SUFFICES ASSUME k < j
                 PROVE  FALSE
      OBVIOUS
    <3>1. k \in 1..j - 1
      BY <1>2, <2>2
    <3>2. html[k].row # "unlinked" /\ html[k].track = html[j].track
      BY <1>4
    <3> QED
      BY <3>1, <3>2 DEF New
  <2> QED
    BY <2>2, <2>3
<1>5. html[k].track = html[i].track
  OBVIOUS
<1> QED
  BY <1>3, <1>4, <1>5

LEMMA DiscoverSafe ==
    ASSUME IInv, DiscoverPlaylists
    PROVE  (NoFalseCredit /\ RenderedListed)'
<1>1. UNCHANGED <<site, lastHeight, html>> /\ use = "discover"
      /\ records' = [k \in New |-> [url |-> html[k].track]]
  BY DEF DiscoverPlaylists
<1>2. html \in Seq(Entry) /\ lastHeight <= Len(html) /\ lastHeight \in Nat
  BY HtmlIsPrefix DEF IInv, TypeOK, DiscoverPlaylists, Shape
<1>3. \A k \in DOMAIN html : html[k] = page[k]
  BY HtmlIsPrefix DEF IInv
<1>4. ASSUME NEW i \in 1..lastHeight, page[i].row # "unlinked"
      PROVE  \E k \in DOMAIN records' :
                {j \in DOMAIN records' : records'[j].url = page[i].track} = {k}
  <2>1. i \in DOMAIN html /\ html[i] = page[i]
    BY <1>2, <1>3
  <2>2. PICK k \in New : {j \in New : html[j].track = html[i].track} = {k}
    BY <1>2, <1>4, <2>1, OneIsNew
  <2>3. /\ DOMAIN records' = New
        /\ {j \in New : records'[j].url = page[i].track}
              = {j \in New : html[j].track = html[i].track}
    BY <1>1, <2>1
  <2> QED
    BY <2>2, <2>3
<1>5. RenderedListed'
  <2>1. page' = page /\ lastHeight' = lastHeight /\ use' = "discover"
    BY <1>1 DEF site
  <2> SUFFICES ASSUME NEW i \in 1..lastHeight, page[i].row # "unlinked"
               PROVE  \E k \in DOMAIN records' :
                         {j \in DOMAIN records' : records'[j].url = page[i].track} = {k}
    BY <2>1, Zenon DEF RenderedListed
  <2> QED
    BY <1>4
<1>6. NoFalseCredit'
  BY <1>1 DEF NoFalseCredit, site
<1> QED
  BY <1>5, <1>6

-----------------------------------------------------------------------------
(* The invariant is inductive.                                             *)

LEMMA Start == Init => IInv
<1> SUFFICES ASSUME Init
             PROVE  IInv
  OBVIOUS
<1>1. page \in Seq(Entry) /\ Len(page) \in Nat
  BY PageType DEF Init
<1>2. TypeOK
  BY <1>1, PageAssumption DEF Init, TypeOK
<1>3. Shape
  BY DEF Init, Shape
<1>4. ScrollBounded /\ NothingYet /\ NoFalseCredit /\ RenderedListed
  BY DEF Init, ScrollBounded, NothingYet, NoFalseCredit, RenderedListed
<1>5. ReadsWhatWasThere
  BY <1>1 DEF Init, ReadsWhatWasThere
<1> QED
  BY <1>2, <1>3, <1>4, <1>5 DEF IInv

LEMMA TypeStep == IInv /\ Next => TypeOK'
<1> SUFFICES ASSUME IInv, Next
             PROVE  TypeOK'
  OBVIOUS
<1>1. page \in Seq(Entry) /\ Len(page) \in Nat
  BY PageType DEF IInv, TypeOK
<1>2. page' = page /\ use' = use /\ page \in Pages
  BY DEF IInv, TypeOK, Next, Scraper, Renders, Hydrates, MeasureFirst, Scroll, ReadContent,
     ReadHydration, ParseHtml, DiscoverPlaylists, site
<1>3. /\ shown' \in 0..Len(page) /\ filled' \in 0..Len(page)
      /\ lastHeight' \in 0..Len(page)
  BY <1>1 DEF IInv, TypeOK, Next, Scraper, Renders, Hydrates, MeasureFirst, Scroll,
     ReadContent, ReadHydration, ParseHtml, DiscoverPlaylists
<1>4. iterations' \in 0..MaxScroll
  BY PageAssumption DEF IInv, TypeOK, ScrollBounded, Next, Scraper, Renders, Hydrates,
     MeasureFirst, Scroll, ReadContent, ReadHydration, ParseHtml, DiscoverPlaylists
<1>5. \A i \in DOMAIN records' :
          records'[i] \in IF use = "discover" THEN [url : Track] ELSE Listed
  <2>1. CASE ParseHtml
    BY <2>1, ParseHtmlRecords DEF ParseHtml
  <2>2. CASE DiscoverPlaylists
    <3>1. html \in Seq(Entry)
      BY HtmlIsPrefix DEF IInv
    <3>2. \A i \in New : html[i].track \in Track
      <4> TAKE i \in New
      <4>1. html[i] \in Entry
        BY <3>1 DEF New
      <4> QED
        BY <4>1 DEF Entry
    <3> QED
      BY <2>2, <3>2 DEF DiscoverPlaylists
  <2>3. CASE UNCHANGED records
    BY <2>3 DEF IInv, TypeOK, Listed
  <2> QED
    BY <2>1, <2>2, <2>3 DEF Next, Scraper, Renders, Hydrates, MeasureFirst, Scroll,
       ReadContent, ReadHydration
<1>6. \A i \in DOMAIN records' :
          records'[i] \in IF use' = "discover" THEN [url : Track]
                          ELSE [url : Track \cup {NoUrl}, artist : Artist \cup {Unknown},
                                titled : BOOLEAN, counted : BOOLEAN]
  BY <1>2, <1>5, Zenon DEF Listed
<1> QED
  BY <1>2, <1>3, <1>4, <1>6, Zenon DEF TypeOK

LEMMA ShapeStep == IInv /\ Next => Shape'
<1> SUFFICES ASSUME IInv, Next
             PROVE  Shape'
  OBVIOUS
<1>1. use' = use /\ owner' = owner /\ use \in {"scrape", "discover"} /\ owner \in Artist
  BY DEF IInv, Shape, Next, Scraper, Renders, Hydrates, MeasureFirst, Scroll, ReadContent,
     ReadHydration, ParseHtml, DiscoverPlaylists, site
<1>2. pc' \in {"navigated", "scrolling", "settled", "content", "fetched", "parsed"}
  BY DEF IInv, Shape, Next, Scraper, Renders, Hydrates, MeasureFirst, Scroll, ReadContent,
     ReadHydration, ParseHtml, DiscoverPlaylists
<1>3. CASE ReadHydration
  <2>1. page \in Seq(Entry)
    BY PageType DEF IInv, TypeOK
  <2>2. filled \in Nat
    BY <2>1 DEF IInv, TypeOK
  <2>3. \A i \in DOMAIN page :
           [track |-> page[i].track, user |-> page[i].user, full |-> i <= filled] \in Hydrated
    <3> TAKE i \in DOMAIN page
    <3>1. page[i] \in Entry
      BY <2>1
    <3>2. page[i].track \in Track /\ page[i].user \in BOOLEAN
      BY <3>1 DEF Entry
    <3>3. (i <= filled) \in BOOLEAN
      BY <2>1, <2>2
    <3> QED
      BY <3>2, <3>3 DEF Hydrated
  <2>4. hydration' = <<>> \/
        hydration' = [i \in 1..Len(page) |-> [track |-> page[i].track, user |-> page[i].user,
                                              full |-> i <= filled]]
    BY <1>3, <2>1 DEF ReadHydration
  <2>5. hydration' \in Seq(Hydrated)
    <3>1. Len(page) \in Nat /\ DOMAIN page = 1..Len(page)
      BY <2>1
    <3>2. CASE hydration' = <<>>
      BY <3>2
    <3> DEFINE h == [i \in 1..Len(page) |-> [track |-> page[i].track, user |-> page[i].user,
                                             full |-> i <= filled]]
    <3>3. h \in [1..Len(page) -> Hydrated]
      BY <2>3, <3>1, Zenon
    <3>4. h \in Seq(Hydrated)
      <4> HIDE DEF h
      <4> QED
        BY <3>1, <3>3, SeqDef
    <3> QED
      BY <2>4, <3>2, <3>4
  <2> QED
    BY <1>1, <1>2, <2>5 DEF Shape
<1>4. CASE UNCHANGED hydration
  BY <1>1, <1>2, <1>4 DEF IInv, Shape
<1> QED
  BY <1>3, <1>4 DEF Next, Scraper, Renders, Hydrates, MeasureFirst, Scroll, ReadContent,
     ParseHtml, DiscoverPlaylists

LEMMA ReadStep == IInv /\ Next => (ScrollBounded /\ ReadsWhatWasThere /\ NothingYet)'
<1> SUFFICES ASSUME IInv, Next
             PROVE  (ScrollBounded /\ ReadsWhatWasThere /\ NothingYet)'
  OBVIOUS
<1>1. page \in Seq(Entry) /\ Len(page) \in Nat /\ page' = page
  BY PageType DEF IInv, TypeOK, Next, Scraper, Renders, Hydrates, MeasureFirst, Scroll,
     ReadContent, ReadHydration, ParseHtml, DiscoverPlaylists, site
<1>2. ScrollBounded'
  BY PageAssumption DEF IInv, TypeOK, ScrollBounded, Next, Scraper, Renders, Hydrates,
     MeasureFirst, Scroll, ReadContent, ReadHydration, ParseHtml, DiscoverPlaylists
<1>3. NothingYet'
  BY DEF IInv, NothingYet, Shape, Next, Scraper, Renders, Hydrates,
     MeasureFirst, Scroll, ReadContent, ReadHydration, ParseHtml, DiscoverPlaylists
<1>4. ReadsWhatWasThere'
  <2>1. CASE ReadContent
    <3>1. /\ pc' = "content" /\ lastHeight' = lastHeight /\ shown' = shown
          /\ html' = SubSeq(page', 1, shown)
      BY <1>1, <2>1 DEF ReadContent
    <3>2. shown \in lastHeight..Len(page')
      BY <1>1 DEF IInv, TypeOK, ReadsWhatWasThere
    <3> QED
      BY <3>1, <3>2 DEF ReadsWhatWasThere
  <2>2. CASE MeasureFirst \/ Scroll
    BY <2>2, <1>1 DEF MeasureFirst, Scroll, IInv, TypeOK, ReadsWhatWasThere
  <2>3. CASE Renders \/ Hydrates
    <3>1. pc' = pc /\ html' = html /\ lastHeight' = lastHeight /\ shown <= shown'
      BY <2>3, <1>1 DEF Renders, Hydrates, IInv, TypeOK
    <3>2. lastHeight' <= shown'
      BY <1>1, <2>3 DEF IInv, TypeOK, ReadsWhatWasThere, Renders, Hydrates
    <3> QED
      BY <1>1, <3>1, <3>2 DEF IInv, ReadsWhatWasThere
  <2>4. CASE ReadHydration \/ ParseHtml \/ DiscoverPlaylists
    <3>1. /\ html' = html /\ lastHeight' = lastHeight /\ shown' = shown
          /\ pc \in {"content", "fetched"} /\ pc' \in {"fetched", "parsed"}
      BY <2>4 DEF ReadHydration, ParseHtml, DiscoverPlaylists
    <3> QED
      BY <1>1, <3>1 DEF IInv, ReadsWhatWasThere
  <2> QED
    BY <2>1, <2>2, <2>3, <2>4 DEF Next, Scraper
<1> QED
  BY <1>2, <1>3, <1>4

LEMMA SafeStep == IInv /\ Next => (NoFalseCredit /\ RenderedListed)'
<1> SUFFICES ASSUME IInv, Next
             PROVE  (NoFalseCredit /\ RenderedListed)'
  OBVIOUS
<1>1. CASE ParseHtml
  BY <1>1, ParseHtmlSafe
<1>2. CASE DiscoverPlaylists
  BY <1>2, DiscoverSafe
<1>3. CASE MeasureFirst \/ Scroll \/ ReadContent \/ ReadHydration
  <2>1. pc' # "parsed"
    BY <1>3 DEF MeasureFirst, Scroll, ReadContent, ReadHydration
  <2> QED
    BY <2>1 DEF NoFalseCredit, RenderedListed
<1>4. CASE Renders \/ Hydrates
  <2>1. UNCHANGED <<use, page, pc, lastHeight, hydration, records>>
    BY <1>4 DEF Renders, Hydrates, site
  <2>2. NoFalseCredit' = NoFalseCredit
    BY <2>1 DEF NoFalseCredit, Entries
  <2>3. RenderedListed' = RenderedListed
    BY <2>1 DEF RenderedListed
  <2> QED
    BY <2>2, <2>3 DEF IInv
<1> QED
  BY <1>1, <1>2, <1>3, <1>4 DEF Next, Scraper

LEMMA Step == IInv /\ [Next]_vars => IInv'
<1> SUFFICES ASSUME IInv, [Next]_vars
             PROVE  IInv'
  OBVIOUS
<1>1. CASE Next
  BY <1>1, TypeStep, ShapeStep, ReadStep, SafeStep DEF IInv
<1>2. CASE UNCHANGED vars
  BY <1>2 DEF vars, site, IInv, TypeOK, Shape, ScrollBounded, ReadsWhatWasThere, NothingYet,
     NoFalseCredit, RenderedListed, Entries
<1> QED
  BY <1>1, <1>2

\* The invariant that the others follow from: the document read has what was there
\* when fetch_html stopped scrolling, and parse_html only puts together what it read.
THEOREM Invariance == Spec => []IInv
BY Start, Step, PTL DEF Spec

\* The scrolling of fetch_html stays within max_scroll_iterations, and no record of
\* parse_html or discover_playlists lacks what the NOT NULL columns need.
THEOREM TypeCorrect == Spec => []TypeOK
<1>1. IInv => TypeOK
  BY DEF IInv
<1> QED
  BY <1>1, Invariance, PTL

\* parse_html credits no track to anybody but its uploader, whatever of the page was
\* hydrated when it was read, and no counters but those of the track itself.
THEOREM CreditIsTrue == Spec => []NoFalseCredit
<1>1. IInv => NoFalseCredit
  BY DEF IInv
<1> QED
  BY <1>1, Invariance, PTL

\* parse_html lists every track that was rendered when the scrolling ended, and
\* discover_playlists every playlist, exactly once.
THEOREM NothingRenderedIsLost == Spec => []RenderedListed
<1>1. IInv => RenderedListed
  BY DEF IInv
<1> QED
  BY <1>1, Invariance, PTL

=============================================================================
