---------------------------- MODULE BrowserWatch ----------------------------
(***************************************************************************)
(* Watching in a browser tab: the single player and the tiles of multiview *)
(* (ui/player.js, ui/multiview.js and the playback parts of ui/app.js),    *)
(* with the watch sessions they ask the server for.                        *)
(*                                                                         *)
(* A handler runs up to its next await; everything between two awaits is   *)
(* one action.  The attempt counters the handlers compare after an await   *)
(* are kept as a flag per call in flight: raising a counter clears the     *)
(* flag of every call that remembers the old value.                        *)
(***************************************************************************)
EXTENDS Naturals, FiniteSets, Functions

CONSTANTS
    Channels,    \* live channels
    Titles,      \* films, episodes and replays: they need no watch session
    Tiles,       \* identities of multiview tiles
    Calls,       \* calls of playChannel and playOnDemand in flight
    Sessions,    \* identities of watch sessions
    TileLimit,   \* multiviewConnectionLimit
    MaxPicks,    \* how often the viewer chooses something to play
    MaxRenders,  \* renders of the page that the viewer did not cause
    None

Items == Channels \cup Titles

ASSUME WatchConstants ==
    /\ None \notin Items \cup Tiles \cup Sessions
    /\ Channels \cap Titles = {}
    /\ TileLimit \in Nat \ {0}
    /\ MaxPicks \in Nat
    /\ MaxRenders \in Nat

VARIABLES
    view,        \* state.view: a browse page, the player or multiview
    context,     \* state.playerReturnContext
    shown,       \* state.currentChannel
    error,       \* the item the error panel of the player tells of
    attachment,  \* state.videoAttachment: what it plays, and whether the
                 \* video element it plays on is still in the page
    session,     \* state.currentSession
    heartbeat,   \* state.heartbeat
    calls,       \* the calls in flight, each with what it remembers
    tiles,       \* state.multiviewTiles; their order matters to nothing here
    tile,        \* the tile objects, also of tiles that are gone
    attach,      \* attachMultiviewPlayers is to run for the tiles rendered
    tileBeat,    \* state.multiviewHeartbeat
    server,      \* what the server has of a session: nothing, a request, a stream
    stops,       \* stop requests on their way
    lost,        \* sessions with a lost answer or stop: left to the timeout
    picks,       \* choices left
    renders      \* renders left

player == <<view, context, shown, error, attachment, session, heartbeat, calls>>
multi  == <<tiles, tile, attach, tileBeat>>
net    == <<server, stops, lost>>
vars   == <<player, multi, net, picks, renders>>

NoCall == [pc |-> "idle", item |-> None, current |-> FALSE,
           watching |-> FALSE, session |-> None]
NoTile == [channel |-> None, session |-> None, asked |-> None,
           attached |-> FALSE, attaching |-> FALSE, inPage |-> FALSE]

Held == ({session} \cup {tile[t].session : t \in tiles}) \ {None}
Pending == ({calls[c].session : c \in Calls} \cup {tile[t].asked : t \in Tiles}) \ {None}
Free == {s \in Sessions : server[s] = "none"} \ (Held \cup Pending \cup stops)

Init ==
    /\ view = "browse"
    /\ context = None
    /\ shown = None
    /\ error = None
    /\ attachment = None
    /\ session = None
    /\ heartbeat = FALSE
    /\ calls = [c \in Calls |-> NoCall]
    /\ tiles = {}
    /\ tile = [t \in Tiles |-> NoTile]
    /\ attach = FALSE
    /\ tileBeat = FALSE
    /\ server = [s \in Sessions |-> "none"]
    /\ stops = {}
    /\ lost = {}
    /\ picks = MaxPicks
    /\ renders = MaxRenders

(***************************************************************************)
(* Pieces of the handlers                                                  *)
(***************************************************************************)
\* stopTimeShiftSession: calls that compare timeShiftAttempt are out of date.
Outdated(cs) == [c \in Calls |-> [cs[c] EXCEPT !.current = FALSE]]

\* watchAttempt + 1: the starts in flight are superseded.
Superseded(cs) == [c \in Calls |-> [cs[c] EXCEPT !.watching = FALSE]]

\* stopPlayback, and stopCurrentWatch when the player is left; "also" are the
\* sessions that are stopped in the same handler.
LeavePlayer(also) ==
    /\ attachment' = None
    /\ error' = None
    /\ IF view = "player"
       THEN /\ calls' = Superseded(Outdated(calls))
            /\ stops' = stops \cup also \cup ({session} \ {None})
            /\ session' = None
            /\ heartbeat' = (heartbeat /\ session = None)
       ELSE /\ calls' = Outdated(calls)
            /\ stops' = stops \cup also
            /\ UNCHANGED <<session, heartbeat>>

\* renderPlayerPage: a new video element, and the error panel is empty.
RenderPlayer ==
    /\ error' = None
    /\ attachment' = IF attachment = None THEN None
                     ELSE [attachment EXCEPT !.inPage = FALSE]

\* setVideoSource: nothing without a player in the page.
SetSource(item) ==
    attachment' = IF view = "player" THEN [of |-> item, inPage |-> TRUE] ELSE attachment

\* showPlayerError: without a player in the page there is no panel.
ShowError(item) == error' = IF view = "player" THEN item ELSE error

\* renderMultiviewPage: new video elements; resetMultiviewMedia forgets what
\* played on the old ones.
RenderTiles(ts, tl) ==
    /\ attach' = TRUE
    /\ tiles' = ts
    /\ tile' = [t \in Tiles |->
                   IF t \in ts
                   THEN [tl[t] EXCEPT !.attached = FALSE, !.attaching = FALSE, !.inPage = FALSE]
                   ELSE tl[t]]

\* destroyMultiviewMedia and stopMultiviewWatch: a start in flight remains.
Dropped(ts) ==
    [t \in Tiles |-> IF t \in ts THEN [NoTile EXCEPT !.asked = tile[t].asked] ELSE tile[t]]

SessionsOf(ts) == {tile[t].session : t \in ts} \ {None}

\* stopAllMultiview, with SessionsOf(tiles) stopped by the caller.
CloseTiles ==
    /\ tile' = Dropped(tiles)
    /\ tiles' = {}
    /\ tileBeat' = FALSE
    /\ UNCHANGED attach

\* Sessions whose answer or stop gets lost; those that never came to be do not
\* matter.
Lose(ss) == lost \cup {s \in ss : server[s] # "none"}

(***************************************************************************)
(* Choosing something to play                                              *)
(***************************************************************************)
\* The common beginning of playChannel and playOnDemand.
Pick(c, item) ==
    /\ picks > 0
    /\ calls[c] = NoCall
    /\ picks' = picks - 1
    /\ context' = IF view = "player" THEN context ELSE view
    /\ calls' = [Outdated(calls) EXCEPT
                    ![c] = [NoCall EXCEPT !.pc = "libraries", !.item = item, !.current = TRUE]]
    /\ shown' = item
    /\ view' = "player"
    /\ RenderPlayer
    /\ UNCHANGED <<session, heartbeat, server, lost, renders>>

\* The lists of the browse pages, the guide and the sports drawer of the player,
\* and Try again.
PlayChannel(c, channel) ==
    /\ view # "multiview"
    /\ Pick(c, channel)
    /\ UNCHANGED <<multi, stops>>

\* The player offers no titles but the one shown, to try again.
PlayOnDemand(c, title) ==
    /\ view = "browse" \/ (view = "player" /\ shown = title)
    /\ Pick(c, title)
    /\ UNCHANGED <<multi, stops>>

\* openMultiviewTileSingle
OpenSingle(c, t) ==
    /\ view = "multiview"
    /\ t \in tiles
    /\ CloseTiles
    /\ stops' = stops \cup SessionsOf(tiles)
    /\ Pick(c, tile[t].channel)

\* Mutant: the session that is stopped is kept until the next one is there.
StartWatchKeeping(c) ==
    \E s \in Free :
        /\ calls' = [Superseded(calls) EXCEPT
                        ![c].pc = "start", ![c].watching = TRUE, ![c].session = s]
        /\ server' = [server EXCEPT ![s] = "asked"]
        /\ stops' = stops \cup ({session} \ {None})
        /\ UNCHANGED <<session, lost>>

\* startWatch, up to the request.
StartWatch(c) ==
    \E s \in Free :
        /\ calls' = [Superseded(calls) EXCEPT
                        ![c].pc = "start", ![c].watching = TRUE, ![c].session = s]
        /\ server' = [server EXCEPT ![s] = "asked"]
        /\ stops' = stops \cup ({session} \ {None})
        /\ session' = None
        /\ UNCHANGED lost

Valid(c) == calls[c].current /\ shown = calls[c].item

Return(c) == calls' = [calls EXCEPT ![c] = NoCall]

\* After ensurePlayerLibraries.
LibrariesReady(c) ==
    /\ calls[c].pc = "libraries"
    /\ \/ /\ calls[c].item \in Titles
          /\ calls' = [calls EXCEPT ![c].pc = "probe"]
          /\ UNCHANGED <<session, net>>
       \/ /\ calls[c].item \in Channels
          /\ Valid(c)
          /\ StartWatch(c)
       \/ /\ calls[c].item \in Channels
          /\ ~Valid(c)
          /\ Return(c)
          /\ UNCHANGED <<session, net>>
    /\ UNCHANGED <<view, context, shown, error, attachment, heartbeat, multi, picks, renders>>

LibrariesFail(c) ==
    /\ calls[c].pc = "libraries"
    /\ ShowError(calls[c].item)
    /\ Return(c)
    /\ UNCHANGED <<view, context, shown, attachment, session, heartbeat, multi, net,
                   picks, renders>>

\* playOnDemand after the probe of the gateway: the stream is blocked, or is
\* set without another look at what is shown by now.
Probed(c) ==
    /\ calls[c].pc = "probe"
    /\ \/ ShowError(calls[c].item) /\ UNCHANGED attachment
       \/ SetSource(calls[c].item) /\ UNCHANGED error
    /\ Return(c)
    /\ UNCHANGED <<view, context, shown, session, heartbeat, multi, net, picks, renders>>

\* Mutant: the attempt is not compared, so the last answer wins.
StartedLate(c) ==
    /\ calls[c].pc = "start"
    /\ server[calls[c].session] = "live"
    /\ session' = calls[c].session
    /\ heartbeat' = TRUE
    /\ IF Valid(c) THEN SetSource(calls[c].item) ELSE UNCHANGED attachment
    /\ Return(c)
    /\ UNCHANGED <<view, context, shown, error, multi, net, picks, renders>>

\* The answer of a start: a late one is stopped.
Started(c) ==
    /\ calls[c].pc = "start"
    /\ server[calls[c].session] = "live"
    /\ IF calls[c].watching
       THEN /\ session' = calls[c].session
            /\ heartbeat' = TRUE
            /\ IF Valid(c) THEN SetSource(calls[c].item) ELSE UNCHANGED attachment
            /\ UNCHANGED stops
       ELSE /\ stops' = stops \cup {calls[c].session}
            /\ UNCHANGED <<session, heartbeat, attachment>>
    /\ Return(c)
    /\ UNCHANGED <<view, context, shown, error, multi, server, lost, picks, renders>>

\* Mutant: a start that fails is dropped like one that was superseded.
StartFailsSilently(c) ==
    /\ calls[c].pc = "start"
    /\ lost' = Lose({calls[c].session})
    /\ Return(c)
    /\ UNCHANGED <<view, context, shown, error, attachment, session, heartbeat, multi,
                   server, stops, picks, renders>>

\* A refused start, and one whose answer is lost, is an error of the channel.
StartFails(c) ==
    /\ calls[c].pc = "start"
    /\ lost' = Lose({calls[c].session})
    /\ ShowError(calls[c].item)
    /\ Return(c)
    /\ UNCHANGED <<view, context, shown, attachment, session, heartbeat, multi,
                   server, stops, picks, renders>>

\* sharedPlaybackMode: compatible playback and Live Rewind from the menu.
SharedMode ==
    /\ view = "player"
    /\ calls' = Outdated(calls)
    /\ SetSource(shown)
    /\ UNCHANGED <<view, context, shown, error, session, heartbeat, multi, net, picks, renders>>

\* The video element and the media manager report.
Playing ==
    /\ attachment # None
    /\ attachment.inPage
    /\ error # None
    /\ error' = None
    /\ UNCHANGED <<view, context, shown, attachment, session, heartbeat, calls, multi, net,
                   picks, renders>>

PlaybackFatal ==
    /\ attachment # None
    /\ ShowError(attachment.of)
    /\ UNCHANGED <<view, context, shown, attachment, session, heartbeat, calls, multi, net,
                   picks, renders>>

(***************************************************************************)
(* Moving between the pages                                                *)
(***************************************************************************)
\* setView for every page but the player.
SetView(v) ==
    /\ IF v = "multiview"
       THEN /\ LeavePlayer({})
            /\ RenderTiles(tiles, tile)
            /\ UNCHANGED tileBeat
       ELSE IF view = "multiview"
       THEN LeavePlayer(SessionsOf(tiles)) /\ CloseTiles
       ELSE LeavePlayer({}) /\ UNCHANGED multi
    /\ view' = v
    /\ UNCHANGED <<shown, server, lost, picks, renders>>

\* The buttons of the pages; the player leads to the search.
Navigate(v) ==
    /\ view = "player" => v = "browse"
    /\ SetView(v)
    /\ UNCHANGED context

\* returnFromPlayer: Back, Escape, and Back of the error panel.
Back ==
    /\ view = "player"
    /\ context' = None
    /\ SetView(IF context = None THEN "browse" ELSE context)

(***************************************************************************)
(* Multiview                                                               *)
(***************************************************************************)
\* addChannelToMultiview, from the player, its guide or the picker.
AddToMultiview(channel) ==
    /\ view \in {"player", "multiview"}
    /\ IF view = "player" THEN LeavePlayer({})
                          ELSE UNCHANGED <<attachment, error, calls, stops, session, heartbeat>>
    /\ \/ /\ \/ \E t \in tiles : tile[t].channel = channel
             \/ Cardinality(tiles) >= TileLimit
          /\ RenderTiles(tiles, tile)
       \/ /\ \A t \in tiles : tile[t].channel # channel
          /\ Cardinality(tiles) < TileLimit
          /\ \E t \in Tiles \ tiles :
                /\ tile[t].asked = None
                /\ RenderTiles(tiles \cup {t},
                               [tile EXCEPT ![t] = [NoTile EXCEPT !.channel = channel]])
    /\ view' = "multiview"
    /\ UNCHANGED <<context, shown, tileBeat, server, lost, picks, renders>>

\* Mutant: the heartbeat stops with the first tile that is removed.
RemoveTileAndBeat(t) ==
    /\ view = "multiview"
    /\ t \in tiles
    /\ stops' = stops \cup SessionsOf({t})
    /\ RenderTiles(tiles \ {t}, Dropped({t}))
    /\ tileBeat' = FALSE
    /\ UNCHANGED <<player, server, lost, picks, renders>>

\* removeMultiviewTile
RemoveTile(t) ==
    /\ view = "multiview"
    /\ t \in tiles
    /\ stops' = stops \cup SessionsOf({t})
    /\ RenderTiles(tiles \ {t}, Dropped({t}))
    /\ UNCHANGED <<player, tileBeat, server, lost, picks, renders>>

\* The button Clear.
ClearTiles ==
    /\ view = "multiview"
    /\ tiles # {}
    /\ stops' = stops \cup SessionsOf(tiles)
    /\ CloseTiles
    /\ UNCHANGED <<player, server, lost, picks, renders>>

\* attachMultiviewPlayers, once the libraries are there: a tile with a session
\* is attached, one whose start is in flight waits for it, the others start.
AttachTiles ==
    LET todo == {t \in tiles : ~tile[t].attached /\ ~tile[t].attaching}
        ask  == {t \in todo : tile[t].session = None /\ tile[t].asked = None}
    IN  /\ attach
        /\ attach' = FALSE
        /\ \E f \in Injection(ask, Free) :
              /\ tile' = [t \in Tiles |->
                    IF t \in ask
                    THEN [tile[t] EXCEPT !.asked = f[t], !.attaching = TRUE, !.inPage = TRUE]
                    ELSE IF t \in todo /\ tile[t].session # None
                    THEN [tile[t] EXCEPT !.attached = TRUE]
                    ELSE IF t \in todo
                    THEN [tile[t] EXCEPT !.attaching = TRUE, !.inPage = TRUE]
                    ELSE tile[t]]
              /\ server' = [s \in Sessions |-> IF s \in Range(f) THEN "asked" ELSE server[s]]
        /\ UNCHANGED <<player, tiles, tileBeat, stops, lost, picks, renders>>

AttachFails ==
    /\ attach
    /\ attach' = FALSE
    /\ UNCHANGED <<player, tiles, tile, tileBeat, net, picks, renders>>

\* The answer of a tile's start: stopped when the tile is gone; attached when
\* the video that waits is still in the page.
TileStarted(t) ==
    LET s == tile[t].asked
    IN  /\ s # None
        /\ server[s] = "live"
        /\ \/ /\ t \in tiles
              /\ tile' = [tile EXCEPT ![t].session = s, ![t].asked = None,
                                      ![t].attached = tile[t].inPage, ![t].attaching = FALSE]
              /\ tileBeat' = TRUE
              /\ UNCHANGED stops
           \/ /\ t \notin tiles
              /\ tile' = [tile EXCEPT ![t].asked = None]
              /\ stops' = stops \cup {s}
              /\ UNCHANGED tileBeat
        /\ UNCHANGED <<player, tiles, attach, server, lost, picks, renders>>

TileFails(t) ==
    LET s == tile[t].asked
    IN  /\ s # None
        /\ tile' = [tile EXCEPT ![t].asked = None, ![t].attaching = FALSE]
        /\ lost' = Lose({s})
        /\ UNCHANGED <<player, tiles, attach, tileBeat, server, stops, picks, renders>>

(***************************************************************************)
(* The page and the server                                                 *)
(***************************************************************************)
\* loadApp renders again when the catalog and then the guide have arrived,
\* whatever the viewer has opened meanwhile from the cached catalog.
LateRender ==
    /\ renders > 0
    /\ renders' = renders - 1
    /\ \/ view = "player" /\ RenderPlayer /\ UNCHANGED multi
       \/ /\ view = "multiview"
          /\ RenderTiles(tiles, tile)
          /\ UNCHANGED <<tileBeat, error, attachment>>
    /\ UNCHANGED <<view, context, shown, session, heartbeat, calls, net, picks>>

\* pagehide: the sessions in hand are stopped; the answers of the starts in
\* flight find nobody.  The next page starts anew.
PageHide ==
    /\ stops' = stops \cup Held
    /\ lost' = Lose(Pending)
    /\ view' = "browse"
    /\ context' = None
    /\ shown' = None
    /\ error' = None
    /\ attachment' = None
    /\ session' = None
    /\ heartbeat' = FALSE
    /\ calls' = [c \in Calls |-> NoCall]
    /\ tiles' = {}
    /\ tile' = [t \in Tiles |-> NoTile]
    /\ attach' = FALSE
    /\ tileBeat' = FALSE
    /\ UNCHANGED <<server, picks, renders>>

Answer(s) ==
    /\ server[s] = "asked"
    /\ \/ server' = [server EXCEPT ![s] = "live"] /\ UNCHANGED lost
       \/ server' = [server EXCEPT ![s] = "none"] /\ lost' = lost \ {s}
    /\ UNCHANGED <<player, multi, stops, picks, renders>>

\* A stop arrives, late and in any order, or is lost.
StopArrives(s) ==
    /\ s \in stops
    /\ stops' = stops \ {s}
    /\ \/ /\ server' = [server EXCEPT ![s] = "none"]
          /\ lost' = lost \ {s}
       \/ /\ lost' = Lose({s})
          /\ UNCHANGED server
    /\ UNCHANGED <<player, multi, picks, renders>>

\* The heartbeats that the page sends.
Beaten == {s \in Sessions : \/ heartbeat /\ s = session
                            \/ tileBeat /\ s \in SessionsOf(tiles)}

\* The server ends a session that nobody beats.
Expire(s) ==
    /\ server[s] = "live"
    /\ s \notin Beaten
    /\ s \notin Pending \ lost
    /\ server' = [server EXCEPT ![s] = "none"]
    /\ lost' = lost \ {s}
    /\ UNCHANGED <<player, multi, stops, picks, renders>>

Chosen ==
    \E c \in Calls :
        \/ \E channel \in Channels : PlayChannel(c, channel)
        \/ \E title \in Titles : PlayOnDemand(c, title)
        \/ \E t \in Tiles : OpenSingle(c, t)

CallReturns(c) ==
    \/ LibrariesReady(c) \/ LibrariesFail(c)
    \/ Probed(c)
    \/ Started(c) \/ StartFails(c)

Next ==
    \/ Chosen
    \/ \E c \in Calls : CallReturns(c)
    \/ SharedMode \/ Playing \/ PlaybackFatal
    \/ \E v \in {"browse", "multiview"} : Navigate(v)
    \/ Back
    \/ \E channel \in Channels : AddToMultiview(channel)
    \/ \E t \in Tiles : RemoveTile(t) \/ TileStarted(t) \/ TileFails(t)
    \/ ClearTiles \/ AttachTiles \/ AttachFails
    \/ LateRender \/ PageHide
    \/ \E s \in Sessions : Answer(s) \/ StopArrives(s) \/ Expire(s)

Spec == Init /\ [][Next]_vars

\* Requests are answered or fail, and so does the loading of a library.
Fairness ==
    /\ \A c \in Calls : WF_vars(CallReturns(c))
    /\ \A s \in Sessions : WF_vars(Answer(s)) /\ WF_vars(StopArrives(s)) /\ WF_vars(Expire(s))

FairSpec == Spec /\ Fairness

(***************************************************************************)
(* Properties                                                              *)
(***************************************************************************)
CallType ==
    [pc : {"idle", "libraries", "probe", "start"}, item : Items \cup {None},
     current : BOOLEAN, watching : BOOLEAN, session : Sessions \cup {None}]

TileType ==
    [channel : Channels \cup {None}, session : Sessions \cup {None},
     asked : Sessions \cup {None}, attached : BOOLEAN, attaching : BOOLEAN, inPage : BOOLEAN]

\* Type invariant; the tiles shown are pairwise different channels and no more
\* than the connection allows (addChannelToMultiview).
TypeOK ==
    /\ view \in {"browse", "player", "multiview"}
    /\ context \in {None, "browse", "multiview"}
    /\ {shown, error} \subseteq Items \cup {None}
    /\ attachment = None \/ attachment \in [of : Items, inPage : BOOLEAN]
    /\ session \in Sessions \cup {None}
    /\ {heartbeat, attach, tileBeat} \subseteq BOOLEAN
    /\ calls \in [Calls -> CallType]
    /\ tile \in [Tiles -> TileType]
    /\ tiles \subseteq Tiles
    /\ Cardinality(tiles) <= TileLimit
    /\ \A t, u \in tiles : tile[t].channel = tile[u].channel => t = u
    /\ server \in [Sessions -> {"none", "asked", "live"}]
    /\ stops \subseteq Sessions
    /\ lost \subseteq Sessions
    /\ picks \in 0 .. MaxPicks
    /\ renders \in 0 .. MaxRenders

\* A provider connection is never orphaned: a live session is one the page
\* holds, one whose answer is on its way to a call that will adopt or stop it,
\* or one whose stop is on its way, unless an answer or a stop was lost or the
\* page went away first.  (The comments of startWatch and startMultiviewWatch.)
NothingOrphaned ==
    \A s \in Sessions :
        server[s] = "live" => s \in Held \cup Pending \cup stops \cup lost

\* A session in use is kept alive: the page beats the one of the player and
\* those of its tiles, however starts, removals and renders interleave.
KeptAlive ==
    /\ session # None => heartbeat
    /\ SessionsOf(tiles) # {} => tileBeat

\* One connection for one thing watched: no two tiles, calls or players share a
\* session, and the page holds none that is being stopped.
OneHolderEach ==
    /\ Held \cap stops = {}
    /\ session \notin SessionsOf(tiles) \cup Pending
    /\ \A t, u \in tiles : t # u /\ tile[t].session # None => tile[t].session # tile[u].session
    /\ SessionsOf(tiles) \cap Pending = {}

\* Whatever the viewer chose last is played or its failure is shown, unless the
\* viewer moves on: a call that is superseded, whatever its fate, never makes the
\* latest one end in silence.
ChoiceIsAnswered ==
    \A i \in Items :
        (view = "player" /\ \E c \in Calls : Valid(c) /\ calls[c].item = i)
            ~> \/ error = i
               \/ attachment # None /\ attachment.of = i
               \/ view # "player" \/ shown # i

=============================================================================
