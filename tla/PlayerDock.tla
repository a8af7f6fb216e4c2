----------------------------- MODULE PlayerDock -----------------------------
(***************************************************************************)
(* The player dock of the front end: one SoundCloud widget in an iframe,   *)
(* replaced when another track is played.  What the dock shows comes from  *)
(* the messages of the widget only.  They are posted, so that messages of  *)
(* an iframe that is gone may still be on their way; and the widget sends  *)
(* none but "ready" before it is subscribed to.                            *)
(***************************************************************************)
EXTENDS Integers, Sequences

CONSTANTS
    Url,            \* pages of tracks
    NoUrl,          \* player.url is null
    MaxFrames,      \* bound: iframes ever created
    MaxPosts        \* bound: messages on their way, in each direction

ASSUME DockAssumption ==
    /\ NoUrl \notin Url
    /\ MaxFrames \in Nat \ {0} /\ MaxPosts \in Nat \ {0}

VARIABLES
    player,     \* player: its track, its iframe (0 for none), status, timers
    blocked,    \* embedBlocked, and its copy in localStorage
    frames,     \* iframes created so far
    widget,     \* the document in the current iframe
    toPage,     \* messages posted by widgets, each with its source
    toWidget,   \* messages posted to the current widget
    gaveUp      \* history: tracks a widget could not get the stream of

vars == <<player, blocked, frames, widget, toPage, toWidget, gaveUp>>

NoWidget == [up |-> FALSE, ready |-> FALSE, subscribed |-> FALSE, state |-> "idle", told |-> TRUE]

Idle == [url |-> NoUrl, frame |-> 0, status |-> "idle", everPlayed |-> FALSE,
         grace |-> 0, nudge |-> FALSE]

Init ==
    /\ player = Idle
    /\ blocked \in SUBSET Url           \* from an earlier visit
    /\ frames = 0
    /\ widget = NoWidget
    /\ toPage = <<>>
    /\ toWidget = <<>>
    /\ gaveUp = blocked

-----------------------------------------------------------------------------
(* The page.                                                               *)

\* Slip: the grace timer goes on.
SetPlayerStatus_KeepsTimer(p, status) == [p EXCEPT !.status = status]

\* Every change of the status cancels the grace timer; the first "playing", the nudge.
SetPlayerStatus(p, status) ==
    [p EXCEPT !.status = status, !.grace = 0,
              !.nudge = @ /\ ~(status = "playing" /\ p.status # "playing")]

WidgetPost(method) ==
    toWidget' = IF widget.up THEN Append(toWidget, method) ELSE toWidget

\* Slip: the flag of the track before stays set.
Load_KeepsEverPlayed(u) ==
    player' = SetPlayerStatus([player EXCEPT !.url = u, !.frame = frames + 1], "loading")

Load(u) ==
    player' = SetPlayerStatus([player EXCEPT !.url = u, !.frame = frames + 1,
                                             !.everPlayed = FALSE], "loading")

\* togglePlay of another track than that of the dock: its iframe is replaced.
PlayAnother(u) ==
    /\ u # player.url
    /\ frames < MaxFrames
    /\ Load(u)
    /\ frames' = frames + 1
    /\ widget' = NoWidget
    /\ toWidget' = <<>>
    /\ UNCHANGED <<blocked, toPage, gaveUp>>

\* togglePlay of the track of the dock: the widget is asked, nothing is shown yet.
PlayThis ==
    /\ player.url # NoUrl
    /\ player.status # "blocked"
    /\ Len(toWidget) < MaxPosts
    /\ IF player.status = "playing"
       THEN WidgetPost("pause") /\ UNCHANGED player
       ELSE WidgetPost("play") /\ player' = [player EXCEPT !.nudge = TRUE]
    /\ UNCHANGED <<blocked, frames, widget, toPage, gaveUp>>

NudgeOver ==
    /\ player.nudge
    /\ player' = [player EXCEPT !.nudge = FALSE]
    /\ UNCHANGED <<blocked, frames, widget, toPage, toWidget, gaveUp>>

StopPlayback ==
    /\ player.url # NoUrl
    /\ player' = [SetPlayerStatus(player, "idle") EXCEPT !.url = NoUrl, !.frame = 0, !.nudge = FALSE]
    /\ widget' = NoWidget
    /\ toWidget' = <<>>
    /\ UNCHANGED <<blocked, frames, toPage, gaveUp>>

\* The grace period of an iframe is over without a "play".
GraceOver ==
    /\ player.grace # 0
    /\ player' = [player EXCEPT !.grace = 0,
                    !.status = IF player.grace = player.frame /\ @ = "loading" THEN "ready" ELSE @]
    /\ UNCHANGED <<blocked, frames, widget, toPage, toWidget, gaveUp>>

Ours(m) == m.source = player.frame

\* Slip: what the widget has loaded is not looked at.
Failed_Unplayed(m) == m.method = "error" \/ ~player.everPlayed

\* A pause before any play, with nothing loaded, or an error.
Failed(m) == m.method = "error" \/ (~player.everPlayed /\ ~m.loaded)

React(m) ==
    \/ /\ m.method = "ready"
       /\ player' = IF player.status = "loading" /\ player.grace = 0
                    THEN [player EXCEPT !.grace = player.frame] ELSE player
       /\ WidgetPost("subscribe")
       /\ UNCHANGED blocked
    \/ /\ m.method = "play"
       /\ player' = SetPlayerStatus([player EXCEPT !.everPlayed = TRUE], "playing")
       /\ UNCHANGED <<blocked, toWidget>>
    \/ /\ m.method \in {"pause", "error"}
       /\ player' = SetPlayerStatus(player, IF Failed(m) THEN "blocked" ELSE "paused")
       /\ blocked' = IF Failed(m) THEN blocked \cup {player.url} ELSE blocked
       /\ UNCHANGED toWidget
    \/ /\ m.method = "finish"
       /\ player' = SetPlayerStatus(player, "finished")
       /\ UNCHANGED <<blocked, toWidget>>

Message ==
    /\ toPage # <<>>
    /\ toPage' = Tail(toPage)
    /\ IF Ours(Head(toPage)) THEN React(Head(toPage)) ELSE UNCHANGED <<player, blocked, toWidget>>
    /\ UNCHANGED <<frames, widget, gaveUp>>

-----------------------------------------------------------------------------
(* The widget.                                                             *)

Post(method, loaded) ==
    /\ Len(toPage) < MaxPosts
    /\ toPage' = Append(toPage, [source |-> player.frame, method |-> method, loaded |-> loaded])

\* The document is there.  Its load event subscribes to it too, but may be too early.
WidgetLoads ==
    /\ player.frame # 0 /\ ~widget.up
    /\ \E early \in BOOLEAN : widget' = [widget EXCEPT !.up = TRUE, !.subscribed = ~early]
    /\ UNCHANGED <<player, blocked, frames, toPage, toWidget, gaveUp>>

WidgetReady ==
    /\ widget.up /\ ~widget.ready
    /\ widget' = [widget EXCEPT !.ready = TRUE]
    /\ Post("ready", FALSE)
    /\ UNCHANGED <<player, blocked, frames, toWidget, gaveUp>>

\* Its state changes, and it tells so if it is subscribed to.
WidgetTurns(state, method, loaded) ==
    /\ widget' = [widget EXCEPT !.state = state, !.told = widget.subscribed]
    /\ IF widget.subscribed THEN Post(method, loaded) ELSE UNCHANGED toPage
    /\ UNCHANGED <<player, blocked, frames>>

Plays ==
    /\ widget.ready
    /\ widget.state \in {"idle", "paused", "finished"}
    /\ WidgetTurns("playing", "play", TRUE)
    /\ UNCHANGED gaveUp

Pauses ==
    /\ widget.state = "playing"
    /\ WidgetTurns("paused", "pause", TRUE)
    /\ UNCHANGED gaveUp

Finishes ==
    /\ widget.state = "playing"
    /\ WidgetTurns("finished", "finish", TRUE)
    /\ UNCHANGED gaveUp

\* The stream cannot be had: a pause before anything is loaded, or an error.
GivesUp ==
    /\ widget.ready
    /\ \/ widget.state = "idle" /\ WidgetTurns("dead", "pause", FALSE)
       \/ widget.state \in {"idle", "playing"} /\ WidgetTurns("dead", "error", FALSE)
    /\ gaveUp' = gaveUp \cup {player.url}

\* Autoplay, or the listener inside the iframe.
OnItsOwn == (Plays \/ Pauses \/ Finishes \/ GivesUp) /\ UNCHANGED toWidget

\* A message of the page; a "play" without a gesture may be refused by the browser.
Hears ==
    /\ toWidget # <<>>
    /\ toWidget' = Tail(toWidget)
    /\ \/ /\ Head(toWidget) = "subscribe"
          /\ widget' = [widget EXCEPT !.subscribed = TRUE]
          /\ UNCHANGED <<player, blocked, frames, toPage, gaveUp>>
       \/ Head(toWidget) = "play" /\ Plays
       \/ Head(toWidget) = "pause" /\ Pauses
       \/ /\ Head(toWidget) \in {"play", "pause"}
          /\ UNCHANGED <<player, blocked, frames, widget, toPage, gaveUp>>

-----------------------------------------------------------------------------

Page == NudgeOver \/ GraceOver \/ Message

User == PlayThis \/ StopPlayback \/ \E u \in Url : PlayAnother(u)

Next == Page \/ User \/ WidgetLoads \/ WidgetReady \/ OnItsOwn \/ Hears

Spec == Init /\ [][Next]_vars

\* Fairness: the browser delivers messages and runs timers.
FairSpec == Spec /\ WF_vars(Message) /\ WF_vars(GraceOver)

-----------------------------------------------------------------------------

\* A row loses its Play button for good only if a widget of that very track gave up,
\* whatever late messages of other iframes, lost "play"s and quick taps there were.
BlockedEarned == blocked \subseteq gaveUp

ShownFor == [playing |-> "playing", paused |-> "paused", finished |-> "finished", dead |-> "blocked"]

\* Once its messages are through, the dock shows what the widget does, provided it
\* was subscribed to when the widget last changed ("the UI only changes when the
\* widget reports the real state back").
ShowsTheWidget ==
    toPage = <<>> /\ widget.told /\ widget.state # "idle" =>
        player.status = ShownFor[widget.state]

\* "Loading player" does not stay for good once the widget has said it is ready.
LeavesLoading ==
    player.status = "loading" /\ widget.ready ~> player.status # "loading" \/ ~widget.ready

=============================================================================
