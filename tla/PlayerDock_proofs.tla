-------------------------- MODULE PlayerDock_proofs --------------------------
(***************************************************************************)
(* Proofs about PlayerDock, for any tracks, any number of iframes and any  *)
(* number of messages on their way.                                        *)
(***************************************************************************)
EXTENDS PlayerDock, SequenceTheorems, TLAPS

-----------------------------------------------------------------------------
(* The inductive invariant.                                                *)

Methods == {"ready", "play", "pause", "finish", "error"}

Sent == [source : Nat, method : Methods, loaded : BOOLEAN]

Statuses == {"idle", "loading", "ready", "playing", "paused", "finished", "blocked"}

Dock == [url : Url \cup {NoUrl}, frame : Nat, status : Statuses, everPlayed : BOOLEAN,
         grace : Nat, nudge : BOOLEAN]

Widget == [up : BOOLEAN, ready : BOOLEAN, subscribed : BOOLEAN,
           state : {"idle", "playing", "paused", "finished", "dead"}, told : BOOLEAN]

Shape ==
    /\ player \in Dock /\ widget \in Widget
    /\ frames \in Nat /\ player.frame <= frames
    /\ toPage \in Seq(Sent)
    /\ toWidget \in Seq({"subscribe", "play", "pause"})

\* A message is of an iframe there has been, and a widget needs one.
Sources ==
    /\ \A i \in DOMAIN toPage : toPage[i].source \in 1..frames
    /\ widget.up \/ widget.ready \/ widget.state # "idle" => player.frame # 0

\* The places of the messages the dock will listen to.
Mine == {i \in DOMAIN toPage : toPage[i].source = player.frame}

\* Giving up, as it is told.
NoStream(m) == m.method = "error" \/ (m.method = "pause" /\ ~m.loaded)

\* The track of the dock has given up if a message says so.
BadNewsIsTrue == \A i \in Mine : NoStream(toPage[i]) => player.url \in gaveUp

\* Those of them that say what the widget does.
Telling == {i \in Mine : toPage[i].method # "ready"}

\* A pause for want of a stream is not one after a play.
PausesAreClear ==
    /\ widget.state = "idle" => Telling = {} /\ (player.frame # 0 => ~player.everPlayed)
    /\ \A i \in Mine : toPage[i].method = "pause" /\ ~toPage[i].loaded =>
          /\ ~player.everPlayed
          /\ \A j \in Mine : j < i => toPage[j].method # "play"

\* What a message says that the widget does.
Says(m, state) ==
    \/ state = "playing" /\ m.method = "play"
    \/ state = "paused" /\ m.method = "pause" /\ m.loaded
    \/ state = "finished" /\ m.method = "finish"
    \/ state = "dead" /\ NoStream(m)

\* What the widget has told is what the last message says, or, if none is left, what
\* the dock shows.
TruthIsOnItsWay ==
    widget.told /\ widget.state # "idle" =>
        \/ \E i \in Telling : Says(toPage[i], widget.state) /\ \A j \in Telling : j <= i
        \/ Telling = {} /\ player.status = ShownFor[widget.state]

IInv ==
    /\ Shape /\ Sources
    /\ BadNewsIsTrue /\ PausesAreClear /\ TruthIsOnItsWay
    /\ BlockedEarned

-----------------------------------------------------------------------------
(* The dock, and the messages on their way.                                *)

LEMMA StatusSet ==
    ASSUME NEW p \in Dock, NEW st \in Statuses
    PROVE  /\ SetPlayerStatus(p, st) \in Dock
           /\ SetPlayerStatus(p, st).status = st
           /\ SetPlayerStatus(p, st).url = p.url
           /\ SetPlayerStatus(p, st).frame = p.frame
           /\ SetPlayerStatus(p, st).everPlayed = p.everPlayed
<1>1. PICK nudge \in BOOLEAN :
         SetPlayerStatus(p, st) = [p EXCEPT !.status = st, !.grace = 0, !.nudge = nudge]
  <2> DEFINE nudge == p.nudge /\ ~(st = "playing" /\ p.status # "playing")
  <2>1. nudge \in BOOLEAN
    BY DEF Dock
  <2> WITNESS nudge \in BOOLEAN
  <2> QED
    BY Zenon DEF SetPlayerStatus
<1>2. SetPlayerStatus(p, st) = [url |-> p.url, frame |-> p.frame, status |-> st,
                                everPlayed |-> p.everPlayed, grace |-> 0, nudge |-> nudge]
  BY <1>1 DEF Dock
<1> QED
  BY <1>2 DEF Dock

LEMMA MessagesType ==
    ASSUME Shape
    PROVE  /\ toPage \in Seq(Sent) /\ Len(toPage) \in Nat /\ DOMAIN toPage = 1..Len(toPage)
           /\ \A i \in DOMAIN toPage : toPage[i] \in Sent
BY DEF Shape

\* Steps that leave alone the messages to the page, what the widget does, and of the
\* dock its track, its iframe and a status that says more than "loading".
LEMMA QuietStep ==
    ASSUME IInv, UNCHANGED <<blocked, frames, toPage, gaveUp>>,
           player' \in Dock, widget' \in Widget,
           toWidget' \in Seq({"subscribe", "play", "pause"}),
           player'.url = player.url, player'.frame = player.frame,
           player'.everPlayed = player.everPlayed,
           player'.status = player.status \/ player.status = "loading",
           widget'.state = widget.state, widget'.told = widget.told,
           widget'.up \/ widget'.ready => player.frame # 0
    PROVE  IInv'
<1>1. Mine' = Mine /\ Telling' = Telling
  BY DEF Mine, Telling
<1>2. Shape' /\ Sources'
  BY DEF IInv, Shape, Sources
<1>3. BadNewsIsTrue' /\ PausesAreClear' /\ BlockedEarned'
  BY <1>1 DEF IInv, BadNewsIsTrue, PausesAreClear, BlockedEarned
<1>4. player.status = ShownFor[widget.state] /\ widget.state # "idle" =>
         player'.status = player.status
  BY DEF ShownFor, IInv, Shape, Widget
<1>5. TruthIsOnItsWay'
  BY <1>1, <1>4 DEF IInv, TruthIsOnItsWay
<1> QED
  BY <1>2, <1>3, <1>5 DEF IInv

\* A new iframe, or none: no message on its way is from there.
LEMMA FreshFrame ==
    ASSUME IInv, UNCHANGED <<blocked, toPage, gaveUp>>, frames' \in Nat, frames <= frames',
           player' \in Dock, player'.frame = 0 \/ player'.frame = frames + 1,
           player'.frame <= frames', player'.frame # 0 => ~player'.everPlayed,
           widget' = NoWidget, toWidget' = <<>>
    PROVE  IInv'
<1>1. \A i \in DOMAIN toPage : toPage[i].source \in 1..frames /\ frames \in Nat
  BY DEF IInv, Shape, Sources
<1>2. Mine' = {}
  <2>1. \A i \in DOMAIN toPage : toPage[i].source # player'.frame
    BY <1>1
  <2> QED
    BY <2>1 DEF Mine
<1>3. Telling' = {}
  BY <1>2 DEF Telling
<1>4. Shape'
  BY DEF IInv, Shape, NoWidget, Widget
<1>5. Sources'
  <2>1. \A i \in DOMAIN toPage' : toPage'[i].source \in 1..frames'
    BY <1>1
  <2> QED
    BY <2>1 DEF Sources, NoWidget
<1>6. BadNewsIsTrue' /\ PausesAreClear' /\ TruthIsOnItsWay' /\ BlockedEarned'
  BY <1>2, <1>3 DEF BadNewsIsTrue, PausesAreClear, TruthIsOnItsWay, NoWidget, IInv, BlockedEarned
<1> QED
  BY <1>4, <1>5, <1>6 DEF IInv

\* What a message that is posted adds.
LEMMA Posted ==
    ASSUME Shape, NEW method \in Methods, NEW loaded \in BOOLEAN, Post(method, loaded),
           player' = player
    PROVE  LET n == Len(toPage) + 1 IN
           /\ toPage' \in Seq(Sent) /\ DOMAIN toPage' = DOMAIN toPage \cup {n}
           /\ n \notin DOMAIN toPage /\ \A i \in DOMAIN toPage : i < n /\ n > i /\ i <= n
           /\ \A i \in DOMAIN toPage : toPage'[i] = toPage[i]
           /\ toPage'[n] = [source |-> player.frame, method |-> method, loaded |-> loaded]
           /\ Mine' = Mine \cup {n}
           /\ Telling' = Telling \cup (IF method = "ready" THEN {} ELSE {n})
<1> DEFINE n == Len(toPage) + 1
           e == [source |-> player.frame, method |-> method, loaded |-> loaded]
<1>1. e \in Sent /\ toPage' = Append(toPage, e)
  BY DEF Post, Shape, Dock, Sent
<1>2. toPage \in Seq(Sent) /\ Len(toPage) \in Nat /\ DOMAIN toPage = 1..Len(toPage)
  BY MessagesType
<1>3. e.source = player.frame /\ e.method = method
  OBVIOUS
<1> HIDE DEF e
<1>4. /\ toPage' \in Seq(Sent) /\ Len(toPage') = n
      /\ \A i \in 1..Len(toPage) : toPage'[i] = toPage[i]
      /\ toPage'[n] = e
  BY <1>1, <1>2, AppendProperties
<1>5. DOMAIN toPage' = DOMAIN toPage \cup {n}
  BY <1>2, <1>4
<1>6. n \notin DOMAIN toPage /\ \A i \in DOMAIN toPage : i < n /\ n > i /\ i <= n
  BY <1>2
<1> HIDE DEF n
<1>7. Mine' = Mine \cup {n}
  BY <1>2, <1>3, <1>4, <1>5 DEF Mine
<1>8. Telling' = Telling \cup (IF method = "ready" THEN {} ELSE {n})
  BY <1>2, <1>3, <1>4, <1>5, <1>6, <1>7 DEF Telling, Mine
<1> QED
  BY <1>2, <1>4, <1>5, <1>6, <1>7, <1>8 DEF n, e

-----------------------------------------------------------------------------
(* The widget's steps.                                                     *)

LEMMA ReadyStep ==
    ASSUME IInv, WidgetReady
    PROVE  IInv'
<1> DEFINE n == Len(toPage) + 1
<1>1. /\ UNCHANGED <<player, blocked, frames, toWidget, gaveUp>> /\ Post("ready", FALSE)
      /\ widget' = [widget EXCEPT !.ready = TRUE] /\ widget.up /\ Shape
  BY DEF WidgetReady, IInv
<1>2. /\ toPage' \in Seq(Sent) /\ DOMAIN toPage' = DOMAIN toPage \cup {n}
      /\ \A i \in DOMAIN toPage : i < n /\ toPage'[i] = toPage[i]
      /\ toPage'[n] = [source |-> player.frame, method |-> "ready", loaded |-> FALSE]
      /\ Mine' = Mine \cup {n}
      /\ Telling' = Telling
  BY <1>1, Posted DEF Methods
<1>11. n \in Int
  BY <1>1, MessagesType
<1> HIDE DEF n
<1>3. /\ widget' \in Widget /\ widget'.state = widget.state /\ widget'.told = widget.told
      /\ player.frame # 0
  BY <1>1 DEF IInv, Shape, Sources, Widget
<1>4. Shape'
  BY <1>1, <1>2, <1>3 DEF Shape
<1>5. Sources'
  <2>1. player.frame \in 1..frames
    BY <1>3 DEF IInv, Shape, Dock
  <2> QED
    BY <1>1, <1>2, <1>3, <2>1 DEF IInv, Sources
<1>6. Mine \subseteq DOMAIN toPage /\ Telling \subseteq DOMAIN toPage
  BY DEF Mine, Telling
<1>7. BadNewsIsTrue'
  BY <1>1, <1>2, <1>6 DEF IInv, BadNewsIsTrue, NoStream
<1>8. PausesAreClear'
  <2>1. \A i \in DOMAIN toPage : ~(n < i)
    BY <1>1, <1>2, <1>11, MessagesType
  <2> QED
    BY <1>1, <1>2, <1>3, <1>6, <2>1 DEF IInv, PausesAreClear
<1>9. TruthIsOnItsWay'
  BY <1>1, <1>2, <1>3, <1>6 DEF IInv, TruthIsOnItsWay, Says, NoStream
<1>10. BlockedEarned'
  BY <1>1 DEF IInv, BlockedEarned
<1> QED
  BY <1>4, <1>5, <1>7, <1>8, <1>9, <1>10 DEF IInv

\* What the widget does changes, and is told if it is subscribed to.
LEMMA TurnsStep ==
    ASSUME IInv, NEW state \in {"playing", "paused", "finished", "dead"},
           NEW method \in Methods \ {"ready"}, NEW loaded \in BOOLEAN,
           WidgetTurns(state, method, loaded),
           Says([source |-> player.frame, method |-> method, loaded |-> loaded], state),
           state = "dead" => gaveUp' = gaveUp \cup {player.url},
           state # "dead" => gaveUp' = gaveUp,
           method = "pause" /\ ~loaded => widget.state = "idle",
           widget.ready \/ widget.state # "idle",
           toWidget' \in Seq({"subscribe", "play", "pause"})
    PROVE  IInv'
<1>1. /\ UNCHANGED <<player, blocked, frames>>
      /\ widget' = [widget EXCEPT !.state = state, !.told = widget.subscribed]
      /\ Shape
  BY DEF WidgetTurns, IInv
<1>2. /\ widget' \in Widget /\ widget'.state = state /\ widget'.told = widget.subscribed
      /\ widget'.up = widget.up /\ widget'.ready = widget.ready
  BY <1>1 DEF Shape, Widget
<1>3. player.frame \in 1..frames /\ frames \in Nat
  BY <1>1 DEF IInv, Shape, Sources, Dock
<1>4. BlockedEarned'
  BY <1>1 DEF IInv, BlockedEarned
<1>5. CASE ~widget.subscribed
  <2>1. toPage' = toPage
    BY <1>5 DEF WidgetTurns
  <2>2. Mine' = Mine /\ Telling' = Telling
    BY <1>1, <2>1 DEF Mine, Telling
  <2>3. Shape' /\ Sources'
    BY <1>1, <1>2, <1>3, <2>1 DEF IInv, Shape, Sources
  <2>4. BadNewsIsTrue' /\ PausesAreClear' /\ TruthIsOnItsWay'
    BY <1>1, <1>2, <1>5, <2>1, <2>2
       DEF IInv, BadNewsIsTrue, PausesAreClear, TruthIsOnItsWay
  <2> QED
    BY <1>4, <2>3, <2>4 DEF IInv
<1>6. CASE widget.subscribed
  <2> DEFINE n == Len(toPage) + 1
             e == [source |-> player.frame, method |-> method, loaded |-> loaded]
  <2>1. Post(method, loaded)
    BY <1>6 DEF WidgetTurns
  <2>2. /\ toPage' \in Seq(Sent) /\ DOMAIN toPage' = DOMAIN toPage \cup {n}
        /\ \A i \in DOMAIN toPage : i < n /\ n > i /\ i <= n /\ toPage'[i] = toPage[i]
        /\ n \notin DOMAIN toPage
        /\ toPage'[n] = e
        /\ Mine' = Mine \cup {n} /\ Telling' = Telling \cup {n}
    BY <1>1, <2>1, Posted
  <2>3. /\ e.source = player.frame /\ e.method = method /\ e.loaded = loaded
        /\ Says(e, state)
    OBVIOUS
  <2>4. NoStream(e) => player.url \in gaveUp'
    BY <2>3 DEF Says, NoStream
  <2>5. n \in Int
    BY <1>1, MessagesType
  <2> HIDE DEF n, e
  <2>6. Shape' /\ Sources'
    BY <1>1, <1>2, <1>3, <2>2, <2>3 DEF IInv, Shape, Sources
  <2>7. Mine \subseteq DOMAIN toPage /\ Telling \subseteq Mine
    BY DEF Mine, Telling
  <2>8. BadNewsIsTrue'
    BY <1>1, <2>2, <2>4, <2>7 DEF IInv, BadNewsIsTrue, NoStream
  <2>9. PausesAreClear'
    <3>1. \A i \in DOMAIN toPage : ~(n < i)
      BY <1>1, <2>2, <2>5, MessagesType
    <3>2. \A i \in Mine : i \notin Telling => toPage[i].method = "ready"
      BY DEF Telling
    <3>3. method = "pause" /\ ~loaded => ~player.everPlayed /\ \A j \in Mine : toPage[j].method # "play"
      BY <1>3, <3>2 DEF IInv, PausesAreClear
    <3> QED
      BY <1>1, <1>2, <2>2, <2>3, <2>5, <2>7, <3>1, <3>3 DEF IInv, PausesAreClear
  <2>10. TruthIsOnItsWay'
    BY <1>2, <2>2, <2>3, <2>5, <2>7 DEF TruthIsOnItsWay
  <2> QED
    BY <1>4, <2>6, <2>8, <2>9, <2>10 DEF IInv
<1> QED
  BY <1>1, <1>5, <1>6 DEF Shape, Widget

LEMMA OnItsOwnStep ==
    ASSUME IInv, Plays \/ Pauses \/ Finishes \/ GivesUp,
           toWidget' \in Seq({"subscribe", "play", "pause"})
    PROVE  IInv'
<1>1. CASE Plays
  BY <1>1, TurnsStep DEF Plays, Says, Methods
<1>2. CASE Pauses
  BY <1>2, TurnsStep DEF Pauses, Says, Methods
<1>3. CASE Finishes
  BY <1>3, TurnsStep DEF Finishes, Says, Methods
<1>4. CASE GivesUp
  <2>1. widget.ready /\ gaveUp' = gaveUp \cup {player.url}
    BY <1>4 DEF GivesUp
  <2>2. CASE widget.state = "idle" /\ WidgetTurns("dead", "pause", FALSE)
    BY <2>1, <2>2, TurnsStep DEF Says, NoStream, Methods
  <2>3. CASE WidgetTurns("dead", "error", FALSE)
    BY <2>1, <2>3, TurnsStep DEF Says, NoStream, Methods
  <2> QED
    BY <1>4, <2>2, <2>3 DEF GivesUp
<1> QED
  BY <1>1, <1>2, <1>3, <1>4

-----------------------------------------------------------------------------
(* A message comes.                                                        *)

\* What is left of the messages: those behind the first, one place further ahead.
LEMMA Taken ==
    ASSUME Shape, Message, player'.frame = player.frame
    PROVE  /\ toPage' \in Seq(Sent) /\ 1 \in DOMAIN toPage /\ Head(toPage) = toPage[1]
           /\ \A i \in DOMAIN toPage' : i + 1 \in DOMAIN toPage /\ 1 < i + 1
                                        /\ toPage'[i] = toPage[i + 1]
           /\ \A i \in DOMAIN toPage' : /\ i \in Mine' <=> i + 1 \in Mine
                                        /\ i \in Telling' <=> i + 1 \in Telling
           /\ \A i \in DOMAIN toPage : i # 1 => i - 1 \in DOMAIN toPage'
<1>1. toPage \in Seq(Sent) /\ toPage # <<>> /\ toPage' = Tail(toPage)
  BY DEF Shape, Message
<1>2. /\ Len(toPage) \in Nat \ {0} /\ DOMAIN toPage = 1..Len(toPage)
      /\ toPage' \in Seq(Sent) /\ Len(toPage') = Len(toPage) - 1
      /\ \A i \in 1..Len(toPage) - 1 : toPage'[i] = toPage[i + 1]
      /\ Head(toPage) = toPage[1]
  BY <1>1, HeadTailProperties, EmptySeq
<1>3. DOMAIN toPage' = 1..Len(toPage) - 1
  BY <1>2
<1>4. /\ \A i \in DOMAIN toPage' : i + 1 \in DOMAIN toPage /\ 1 < i + 1
      /\ \A i \in DOMAIN toPage : i # 1 => i - 1 \in DOMAIN toPage'
      /\ 1 \in DOMAIN toPage
  BY <1>2, <1>3
<1>5. \A i \in DOMAIN toPage' : i \in Mine' <=> i + 1 \in Mine
  BY <1>2, <1>3, <1>4 DEF Mine
<1>6. \A i \in DOMAIN toPage' : i \in Telling' <=> i + 1 \in Telling
  BY <1>2, <1>3, <1>4, <1>5 DEF Telling
<1> QED
  BY <1>2, <1>3, <1>4, <1>5, <1>6

\* What the dock makes of a message of its own iframe.
LEMMA Reacts ==
    ASSUME Shape, NEW m \in Sent, React(m), widget.up \in BOOLEAN
    PROVE  /\ player' \in Dock /\ player'.frame = player.frame /\ player'.url = player.url
           /\ toWidget' \in Seq({"subscribe", "play", "pause"})
           /\ m.method = "ready" => player'.status = player.status
           /\ m.method = "play" => player'.status = "playing"
           /\ m.method = "finish" => player'.status = "finished"
           /\ m.method \in {"pause", "error"} =>
                 player'.status = IF Failed(m) THEN "blocked" ELSE "paused"
           /\ m.method # "play" => player'.everPlayed = player.everPlayed
           /\ blocked' \subseteq blocked \cup (IF NoStream(m) THEN {player.url} ELSE {})
<1>1. player \in Dock /\ toWidget \in Seq({"subscribe", "play", "pause"})
  BY DEF Shape
<1>2. CASE m.method = "ready"
  <2>1. \/ player' = player
        \/ player' = [player EXCEPT !.grace = player.frame]
    BY <1>2 DEF React
  <2>2. toWidget' \in {toWidget, Append(toWidget, "subscribe")} /\ blocked' = blocked
    BY <1>2 DEF React, WidgetPost
  <2>3. toWidget' \in Seq({"subscribe", "play", "pause"})
    BY <1>1, <2>2
  <2> QED
    BY <1>1, <1>2, <2>1, <2>2, <2>3 DEF Dock
<1>3. CASE m.method = "play"
  <2> DEFINE p == [player EXCEPT !.everPlayed = TRUE]
  <2>1. p \in Dock /\ p.url = player.url /\ p.frame = player.frame
    BY <1>1 DEF Dock
  <2>2. player' = SetPlayerStatus(p, "playing") /\ blocked' = blocked /\ toWidget' = toWidget
    BY <1>3 DEF React
  <2> HIDE DEF p
  <2>3. "playing" \in Statuses
    BY DEF Statuses
  <2> QED
    BY <1>1, <1>3, <2>1, <2>2, <2>3, StatusSet
<1>4. CASE m.method \in {"pause", "error"}
  <2> DEFINE st == IF Failed(m) THEN "blocked" ELSE "paused"
  <2>1. player' = SetPlayerStatus(player, st) /\ toWidget' = toWidget
    BY <1>4 DEF React
  <2>2. st \in Statuses
    BY DEF Statuses
  <2>3. blocked' = IF Failed(m) THEN blocked \cup {player.url} ELSE blocked
    BY <1>4 DEF React
  <2>4. Failed(m) => NoStream(m)
    BY <1>4 DEF Failed, NoStream
  <2>5. st = IF Failed(m) THEN "blocked" ELSE "paused"
    OBVIOUS
  <2> HIDE DEF st
  <2>6. /\ player' \in Dock /\ player'.frame = player.frame /\ player'.url = player.url
        /\ player'.status = st /\ player'.everPlayed = player.everPlayed
    BY <1>1, <2>1, <2>2, StatusSet
  <2> QED
    BY <1>1, <1>4, <2>1, <2>3, <2>4, <2>5, <2>6
<1>5. CASE m.method = "finish"
  <2>1. player' = SetPlayerStatus(player, "finished") /\ blocked' = blocked /\ toWidget' = toWidget
    BY <1>5 DEF React
  <2>2. "finished" \in Statuses
    BY DEF Statuses
  <2> QED
    BY <1>1, <1>5, <2>1, <2>2, StatusSet
<1> QED
  BY <1>2, <1>3, <1>4, <1>5 DEF React

LEMMA MessageStep ==
    ASSUME IInv, Message
    PROVE  IInv'
<1> DEFINE m == toPage[1]
<1>1. /\ UNCHANGED <<frames, widget, gaveUp>> /\ Shape
      /\ toPage \in Seq(Sent) /\ toPage # <<>>
  BY DEF Message, IInv, Shape
<1>2. m \in Sent /\ Head(toPage) = m
  BY <1>1
<1>3. /\ player' \in Dock /\ player'.frame = player.frame /\ player'.url = player.url
      /\ toWidget' \in Seq({"subscribe", "play", "pause"})
  BY <1>1, <1>2, Reacts DEF Message, Shape, Widget
<1>4. /\ toPage' \in Seq(Sent) /\ 1 \in DOMAIN toPage
      /\ \A i \in DOMAIN toPage' : i + 1 \in DOMAIN toPage /\ 1 < i + 1
                                   /\ toPage'[i] = toPage[i + 1] /\ i \in Int
      /\ \A i \in DOMAIN toPage' : /\ i \in Mine' <=> i + 1 \in Mine
                                   /\ i \in Telling' <=> i + 1 \in Telling
      /\ \A i \in DOMAIN toPage : i # 1 => i - 1 \in DOMAIN toPage' /\ i - 1 + 1 = i
      /\ Mine \subseteq DOMAIN toPage /\ Telling \subseteq Mine
      /\ Mine' \subseteq DOMAIN toPage' /\ Telling' \subseteq Mine'
      /\ \A i \in DOMAIN toPage : i \in Int
  <2>1. toPage' \in Seq(Sent)
    BY <1>1, <1>3, Taken
  <2>2. \A i \in DOMAIN toPage' : i \in Int
    BY <2>1
  <2>3. \A i \in DOMAIN toPage : i \in Int
    BY <1>1
  <2>4. /\ Mine \subseteq DOMAIN toPage /\ Telling \subseteq Mine
        /\ Mine' \subseteq DOMAIN toPage' /\ Telling' \subseteq Mine'
    BY DEF Mine, Telling
  <2>5. \A i \in DOMAIN toPage : i - 1 + 1 = i
    BY <2>3
  <2> QED
    BY <1>1, <1>3, <2>1, <2>2, <2>3, <2>4, <2>5, Taken
<1> HIDE DEF m
<1>5. Shape' /\ Sources'
  BY <1>1, <1>3, <1>4 DEF IInv, Shape, Sources
<1>6. BadNewsIsTrue'
  BY <1>1, <1>3, <1>4 DEF IInv, BadNewsIsTrue, NoStream
<1>7. CASE m.source # player.frame
  <2>1. /\ player' = player /\ blocked' = blocked
        /\ 1 \notin Mine
    BY <1>2, <1>7 DEF Message, Ours, Mine, m
  <2>2. PausesAreClear'
    BY <1>1, <1>4, <2>1 DEF IInv, PausesAreClear
  <2>3. TruthIsOnItsWay'
    <3> SUFFICES ASSUME widget.told, widget.state # "idle"
                 PROVE  \/ \E i \in Telling' : /\ Says(toPage'[i], widget.state)
                                               /\ \A j \in Telling' : j <= i
                        \/ Telling' = {} /\ player'.status = ShownFor[widget.state]
      BY <1>1 DEF TruthIsOnItsWay
    <3>1. CASE Telling = {} /\ player.status = ShownFor[widget.state]
      BY <1>4, <2>1, <3>1
    <3>2. ASSUME NEW i \in Telling, Says(toPage[i], widget.state), \A j \in Telling : j <= i
          PROVE  \E k \in Telling' : /\ Says(toPage'[k], widget.state)
                                     /\ \A j \in Telling' : j <= k
      <4>1. i # 1 /\ i - 1 \in DOMAIN toPage' /\ i - 1 + 1 = i /\ i \in Int
        BY <1>4, <2>1, <3>2
      <4>2. i - 1 \in Telling' /\ toPage'[i - 1] = toPage[i]
        BY <1>4, <3>2, <4>1
      <4>3. \A j \in Telling' : j <= i - 1
        BY <1>4, <3>2, <4>1
      <4> QED
        BY <3>2, <4>2, <4>3
    <3> QED
      BY <3>1, <3>2 DEF IInv, TruthIsOnItsWay
  <2>4. BlockedEarned'
    BY <1>1, <2>1 DEF IInv, BlockedEarned
  <2> QED
    BY <1>5, <1>6, <2>2, <2>3, <2>4 DEF IInv
<1>8. CASE m.source = player.frame
  <2>1. React(m) /\ 1 \in Mine
    BY <1>2, <1>4, <1>8 DEF Message, Ours, Mine, m
  <2>2. /\ m.method = "ready" => player'.status = player.status
        /\ m.method = "play" => player'.status = "playing"
        /\ m.method = "finish" => player'.status = "finished"
        /\ m.method \in {"pause", "error"} =>
              player'.status = IF Failed(m) THEN "blocked" ELSE "paused"
        /\ m.method # "play" => player'.everPlayed = player.everPlayed
        /\ blocked' \subseteq blocked \cup (IF NoStream(m) THEN {player.url} ELSE {})
    BY <1>1, <1>2, <2>1, Reacts DEF Shape, Widget
  <2>3. BlockedEarned'
    BY <1>1, <2>1, <2>2 DEF IInv, BlockedEarned, BadNewsIsTrue, m
  <2>4. PausesAreClear'
    <3>1. ASSUME widget.state = "idle"
          PROVE  Telling' = {} /\ (player.frame # 0 => ~player'.everPlayed)
      <4>1. Telling = {} /\ (player.frame # 0 => ~player.everPlayed)
        BY <3>1 DEF IInv, PausesAreClear
      <4>2. m.method = "ready"
        BY <2>1, <4>1 DEF Telling, m
      <4> QED
        BY <1>4, <2>2, <4>1, <4>2
    <3>2. ASSUME NEW i \in Mine', toPage'[i].method = "pause", ~toPage'[i].loaded
          PROVE  /\ ~player'.everPlayed
                 /\ \A j \in Mine' : j < i => toPage'[j].method # "play"
      <4>1. i + 1 \in Mine /\ 1 < i + 1 /\ toPage'[i] = toPage[i + 1]
        BY <1>4
      <4>2. /\ ~player.everPlayed
            /\ \A j \in Mine : j < i + 1 => toPage[j].method # "play"
        BY <3>2, <4>1 DEF IInv, PausesAreClear
      <4>3. m.method # "play"
        BY <2>1, <4>1, <4>2 DEF m
      <4>4. \A j \in Mine' : j < i => j + 1 \in Mine /\ j + 1 < i + 1 /\ toPage'[j] = toPage[j + 1]
        BY <1>4
      <4> QED
        BY <2>2, <4>2, <4>3, <4>4
    <3> QED
      BY <1>1, <1>3, <3>1, <3>2 DEF PausesAreClear
  <2>5. TruthIsOnItsWay'
    <3> SUFFICES ASSUME widget.told, widget.state # "idle"
                 PROVE  \/ \E i \in Telling' : /\ Says(toPage'[i], widget.state)
                                               /\ \A j \in Telling' : j <= i
                        \/ Telling' = {} /\ player'.status = ShownFor[widget.state]
      BY <1>1 DEF TruthIsOnItsWay
    <3>1. CASE Telling = {} /\ player.status = ShownFor[widget.state]
      <4>1. m.method = "ready"
        BY <2>1, <3>1 DEF Telling, m
      <4> QED
        BY <1>4, <2>2, <3>1, <4>1
    <3>2. ASSUME NEW i \in Telling, i # 1, Says(toPage[i], widget.state),
                 \A j \in Telling : j <= i
          PROVE  \E k \in Telling' : /\ Says(toPage'[k], widget.state)
                                     /\ \A j \in Telling' : j <= k
      <4>1. i - 1 \in DOMAIN toPage' /\ i - 1 + 1 = i /\ i \in Int
        BY <1>4, <3>2
      <4>2. i - 1 \in Telling' /\ toPage'[i - 1] = toPage[i]
        BY <1>4, <3>2, <4>1
      <4>3. \A j \in Telling' : j <= i - 1
        BY <1>4, <3>2, <4>1
      <4> QED
        BY <3>2, <4>2, <4>3
    <3>3. ASSUME 1 \in Telling, Says(toPage[1], widget.state), \A j \in Telling : j <= 1
          PROVE  Telling' = {} /\ player'.status = ShownFor[widget.state]
      <4>1. Telling' = {}
        <5> SUFFICES ASSUME NEW j \in Telling'
                     PROVE  FALSE
          OBVIOUS
        <5>1. j + 1 \in Telling /\ 1 < j + 1 /\ j \in Int
          BY <1>4
        <5> QED
          BY <3>3, <5>1
      <4>2. Says(m, widget.state)
        BY <3>3 DEF m
      <4>3. m.method = "pause" /\ ~m.loaded => ~player.everPlayed
        BY <2>1 DEF IInv, PausesAreClear, m
      <4>4. player'.status = ShownFor[widget.state]
        BY <2>2, <4>2, <4>3 DEF Says, NoStream, Failed, ShownFor
      <4> QED
        BY <4>1, <4>4
    <3> QED
      BY <3>1, <3>2, <3>3 DEF IInv, TruthIsOnItsWay
  <2> QED
    BY <1>5, <1>6, <2>3, <2>4, <2>5 DEF IInv
<1> QED
  BY <1>7, <1>8

-----------------------------------------------------------------------------
(* The theorems.                                                           *)

LEMMA Start == Init => IInv
<1> SUFFICES ASSUME Init
             PROVE  IInv
  OBVIOUS
<1>1. Shape
  BY DEF Init, Shape, Idle, Dock, Statuses, NoWidget, Widget
<1>2. DOMAIN toPage = {}
  BY DEF Init
<1>3. Mine = {} /\ Telling = {}
  BY <1>2 DEF Mine, Telling
<1>4. Sources /\ BadNewsIsTrue /\ PausesAreClear /\ TruthIsOnItsWay /\ BlockedEarned
  BY <1>2, <1>3 DEF Init, Idle, NoWidget, Sources, BadNewsIsTrue, PausesAreClear,
                    TruthIsOnItsWay, BlockedEarned
<1> QED
  BY <1>1, <1>4 DEF IInv

LEMMA UserStep ==
    ASSUME IInv, User
    PROVE  IInv'
<1>1. /\ player \in Dock /\ widget \in Widget /\ frames \in Nat
      /\ toWidget \in Seq({"subscribe", "play", "pause"}) /\ toPage \in Seq(Sent)
      /\ player.frame # 0 \/ ~(widget.up \/ widget.ready)
  BY DEF IInv, Shape, Sources
<1>2. CASE PlayThis
  <2>1. \/ player' = player
        \/ player' = [player EXCEPT !.nudge = TRUE]
    BY <1>2 DEF PlayThis
  <2>2. toWidget' \in {toWidget, Append(toWidget, "pause"), Append(toWidget, "play")}
    BY <1>2 DEF PlayThis, WidgetPost
  <2>3. toWidget' \in Seq({"subscribe", "play", "pause"})
    BY <1>1, <2>2
  <2>4. player' \in Dock /\ player'.url = player.url /\ player'.frame = player.frame
        /\ player'.everPlayed = player.everPlayed /\ player'.status = player.status
    BY <1>1, <2>1 DEF Dock
  <2> QED
    BY <1>1, <1>2, <2>3, <2>4, QuietStep DEF PlayThis
<1>3. CASE StopPlayback
  <2> DEFINE p == SetPlayerStatus(player, "idle")
  <2>1. p \in Dock
    BY <1>1, StatusSet DEF Statuses
  <2>2. player' = [p EXCEPT !.url = NoUrl, !.frame = 0, !.nudge = FALSE]
    BY <1>3 DEF StopPlayback
  <2> HIDE DEF p
  <2>3. player' \in Dock /\ player'.frame = 0
    BY <2>1, <2>2 DEF Dock
  <2> QED
    BY <1>1, <1>3, <2>3, FreshFrame DEF StopPlayback
<1>4. ASSUME NEW u \in Url, PlayAnother(u)
      PROVE  IInv'
  <2> DEFINE p == [player EXCEPT !.url = u, !.frame = frames + 1, !.everPlayed = FALSE]
  <2>1. p \in Dock /\ p.frame = frames + 1 /\ ~p.everPlayed
    <3>1. PICK n \in Nat : n = frames + 1
      BY <1>1
    <3>2. p = [player EXCEPT !.url = u, !.frame = n, !.everPlayed = FALSE]
      BY <3>1, Zenon
    <3> HIDE DEF p
    <3>3. p \in Dock /\ p.frame = n /\ ~p.everPlayed
      BY <1>1, <3>2 DEF Dock
    <3> QED
      BY <3>1, <3>3
  <2>2. player' = SetPlayerStatus(p, "loading")
    BY <1>4 DEF PlayAnother, Load
  <2> HIDE DEF p
  <2>3. player' \in Dock /\ player'.frame = frames + 1 /\ ~player'.everPlayed
    BY <2>1, <2>2, StatusSet DEF Statuses
  <2>4. frames' = frames + 1
    BY <1>4 DEF PlayAnother
  <2> QED
    BY <1>1, <1>4, <2>3, <2>4, FreshFrame DEF PlayAnother
<1> QED
  BY <1>2, <1>3, <1>4 DEF User

LEMMA HearsStep ==
    ASSUME IInv, Hears
    PROVE  IInv'
<1>1. /\ player \in Dock /\ widget \in Widget
      /\ toWidget \in Seq({"subscribe", "play", "pause"})
      /\ player.frame # 0 \/ ~(widget.up \/ widget.ready)
  BY DEF IInv, Shape, Sources
<1>2. toWidget' \in Seq({"subscribe", "play", "pause"})
  BY <1>1, HeadTailProperties DEF Hears
<1>3. CASE UNCHANGED <<player, blocked, frames, toPage, gaveUp>> /\ widget' = [widget EXCEPT !.subscribed = TRUE]
  <2>1. widget' \in Widget /\ widget'.state = widget.state /\ widget'.told = widget.told
        /\ widget'.up = widget.up /\ widget'.ready = widget.ready
    BY <1>1, <1>3 DEF Widget
  <2> QED
    BY <1>1, <1>2, <1>3, <2>1, QuietStep
<1>4. CASE Plays \/ Pauses
  BY <1>2, <1>4, OnItsOwnStep
<1>5. CASE UNCHANGED <<player, blocked, frames, widget, toPage, gaveUp>>
  BY <1>1, <1>2, <1>5, QuietStep
<1> QED
  BY <1>3, <1>4, <1>5 DEF Hears

LEMMA Step == IInv /\ [Next]_vars => IInv'
<1> SUFFICES ASSUME IInv, [Next]_vars
             PROVE  IInv'
  OBVIOUS
<1>1. /\ player \in Dock /\ widget \in Widget /\ frames \in Nat
      /\ toWidget \in Seq({"subscribe", "play", "pause"})
      /\ player.frame # 0 \/ ~(widget.up \/ widget.ready)
  BY DEF IInv, Shape, Sources
<1>2. CASE NudgeOver
  <2>1. player' = [player EXCEPT !.nudge = FALSE]
    BY <1>2 DEF NudgeOver
  <2>2. player' \in Dock /\ player'.url = player.url /\ player'.frame = player.frame
        /\ player'.everPlayed = player.everPlayed /\ player'.status = player.status
    BY <1>1, <2>1 DEF Dock
  <2> QED
    BY <1>1, <1>2, <2>2, QuietStep DEF NudgeOver
<1>3. CASE GraceOver
  <2>1. PICK st \in Statuses : /\ player' = [player EXCEPT !.grace = 0, !.status = st]
                               /\ st = player.status \/ player.status = "loading"
    <3> DEFINE st == IF player.grace = player.frame /\ player.status = "loading"
                     THEN "ready" ELSE player.status
    <3>1. st \in Statuses /\ (st = player.status \/ player.status = "loading")
      BY <1>1 DEF Dock, Statuses
    <3>2. player' = [player EXCEPT !.grace = 0, !.status = st]
      BY <1>1, <1>3 DEF GraceOver, Dock
    <3> QED
      BY <3>1, <3>2
  <2>2. player' \in Dock /\ player'.url = player.url /\ player'.frame = player.frame
        /\ player'.everPlayed = player.everPlayed
        /\ (player'.status = player.status \/ player.status = "loading")
    BY <1>1, <2>1 DEF Dock
  <2> QED
    BY <1>1, <1>3, <2>2, QuietStep DEF GraceOver
<1>4. CASE WidgetLoads
  <2>1. PICK early \in BOOLEAN : widget' = [widget EXCEPT !.up = TRUE, !.subscribed = ~early]
    BY <1>4 DEF WidgetLoads
  <2>2. widget' \in Widget /\ widget'.state = widget.state /\ widget'.told = widget.told
    BY <1>1, <2>1 DEF Widget
  <2> QED
    BY <1>1, <1>4, <2>2, QuietStep DEF WidgetLoads
<1>5. CASE OnItsOwn
  BY <1>1, <1>5, OnItsOwnStep DEF OnItsOwn
<1>6. CASE UNCHANGED vars
  BY <1>1, <1>6, QuietStep DEF vars
<1> QED
  BY <1>2, <1>3, <1>4, <1>5, <1>6, MessageStep, UserStep, HearsStep, ReadyStep
     DEF Next, Page

\* The invariant that the others follow from: messages of a past iframe are told from
\* those of the one in the dock, and the last of these says what the widget does.
THEOREM Invariance == Spec => []IInv
BY Start, Step, PTL DEF Spec

\* onSoundcloudWidgetMessage takes a track for one without a stream only if a widget of
\* that track gave up.
THEOREM NoPlayButtonLostUnfairly == Spec => []BlockedEarned
<1>1. IInv => BlockedEarned
  BY DEF IInv
<1> QED
  BY <1>1, Invariance, PTL

\* When the messages are through the dock shows what the widget does.
THEOREM DockIsTruthful == Spec => []ShowsTheWidget
<1>1. IInv => ShowsTheWidget
  <2> SUFFICES ASSUME IInv, toPage = <<>>, widget.told, widget.state # "idle"
               PROVE  player.status = ShownFor[widget.state]
    BY DEF ShowsTheWidget
  <2>1. DOMAIN toPage = {}
    OBVIOUS
  <2>2. Telling = {}
    BY <2>1 DEF Telling, Mine
  <2> QED
    BY <2>2 DEF IInv, TruthIsOnItsWay
<1> QED
  BY <1>1, Invariance, PTL

=============================================================================
