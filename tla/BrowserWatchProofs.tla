-------------------------- MODULE BrowserWatchProofs --------------------------
(***************************************************************************)
(* For any number of channels, tiles, calls and sessions: every session of *)
(* the server has one owner in the page, or its stop is on its way, or a   *)
(* message about it was lost.                                              *)
(***************************************************************************)
EXTENDS BrowserWatch, TLAPS

\* A call has a session from its request on.
CallTable ==
    {cs \in [Calls -> CallType] :
        \A c \in Calls : cs[c].session # None <=> cs[c].pc = "start"}

Types ==
    /\ calls \in CallTable
    /\ tile \in [Tiles -> TileType]
    /\ tiles \subseteq Tiles
    /\ session \in Sessions \cup {None}
    /\ heartbeat \in BOOLEAN
    /\ tileBeat \in BOOLEAN
    /\ server \in [Sessions -> {"none", "asked", "live"}]
    /\ stops \subseteq Sessions
    /\ lost \subseteq Sessions

\* The owners of sessions are the player, the tiles shown, and the starts in
\* flight of calls and of tiles.  No two own the same, and none owns a session
\* whose stop is on its way.
PlayerApart ==
    session # None =>
        /\ session \notin stops
        /\ \A c \in Calls : calls[c].session # session
        /\ \A t \in Tiles : tile[t].asked # session
        /\ \A t \in tiles : tile[t].session # session

CallsApart ==
    \A c \in Calls : calls[c].session # None =>
        /\ calls[c].session \notin stops
        /\ \A d \in Calls \ {c} : calls[d].session # calls[c].session
        /\ \A t \in Tiles : tile[t].asked # calls[c].session
        /\ \A t \in tiles : tile[t].session # calls[c].session

AskedApart ==
    \A t \in Tiles : tile[t].asked # None =>
        /\ tile[t].asked \notin stops
        /\ \A u \in Tiles \ {t} : tile[u].asked # tile[t].asked
        /\ \A u \in tiles : tile[u].session # tile[t].asked

TilesApart ==
    \A t \in tiles : tile[t].session # None =>
        /\ tile[t].session \notin stops
        /\ \A u \in tiles \ {t} : tile[u].session # tile[t].session

\* One start at most will be adopted, and the player owns nothing meanwhile.
OneWatches ==
    \A c \in Calls : calls[c].watching =>
        /\ session = None
        /\ \A d \in Calls \ {c} : ~calls[d].watching

\* A tile that waits for a session has none.
AskedHasNone ==
    \A t \in tiles : tile[t].asked # None => tile[t].session = None

\* NothingOrphaned, from the request on.
Owned ==
    \A s \in Sessions : server[s] # "none" => s \in Held \cup Pending \cup stops \cup lost

WatchInv ==
    /\ Types
    /\ PlayerApart
    /\ CallsApart
    /\ AskedApart
    /\ TilesApart
    /\ OneWatches
    /\ AskedHasNone
    /\ Owned
    /\ KeptAlive

LEMMA HeldMeans ==
    ASSUME NEW s \in Sessions
    PROVE  /\ s \in Held <=> s = session \/ \E t \in tiles : tile[t].session = s
           /\ s \in Pending <=> \/ \E c \in Calls : calls[c].session = s
                                \/ \E t \in Tiles : tile[t].asked = s
BY WatchConstants DEF Held, Pending

LEMMA HeldThen ==
    ASSUME NEW s \in Sessions
    PROVE  /\ s \in Held' <=> s = session' \/ \E t \in tiles' : tile'[t].session = s
           /\ s \in Pending' <=> \/ \E c \in Calls : calls'[c].session = s
                                 \/ \E t \in Tiles : tile'[t].asked = s
BY WatchConstants DEF Held, Pending

LEMMA BeatMeans ==
    KeptAlive <=> /\ session # None => heartbeat
                  /\ \A t \in tiles : tile[t].session # None => tileBeat
BY DEF KeptAlive, SessionsOf

LEMMA BeatThen ==
    KeptAlive' <=> /\ session' # None => heartbeat'
                   /\ \A t \in tiles' : tile'[t].session # None => tileBeat'
BY DEF KeptAlive, SessionsOf

-----------------------------------------------------------------------------
\* No start is made, answered or dropped, though some may be superseded.
SameStarts ==
    \A c \in Calls : /\ calls'[c].session = calls[c].session
                     /\ calls'[c].watching => calls[c].watching

\* Most steps take sessions from the player or from tiles, and send a stop for
\* each of those.
Taken ==
    {s \in Sessions :
        \/ s = session /\ session' = None
        \/ \E t \in tiles : tile[t].session = s /\ (t \notin tiles' \/ tile'[t].session = None)}

LEMMA Taking ==
    ASSUME WatchInv, Types',
           SameStarts,
           \A t \in Tiles : tile'[t].asked = tile[t].asked,
           session' \in {session, None},
           \A t \in tiles' : tile'[t].session # None =>
               t \in tiles /\ tile'[t].session = tile[t].session,
           stops' = stops \cup Taken,
           UNCHANGED <<server, lost>>,
           KeptAlive'
    PROVE  WatchInv'
<1>1. PlayerApart'
    BY WatchConstants DEF WatchInv, Types, PlayerApart, TilesApart, Taken, SameStarts
<1>2. CallsApart'
    BY WatchConstants DEF WatchInv, Types, PlayerApart, CallsApart, Taken, SameStarts
<1>3. AskedApart'
    BY WatchConstants DEF WatchInv, Types, PlayerApart, AskedApart, Taken
<1>4. TilesApart'
    BY WatchConstants DEF WatchInv, Types, PlayerApart, TilesApart, Taken
<1>5. Owned'
    <2>1. ASSUME NEW s \in Sessions, server'[s] # "none"
          PROVE  s \in Held' \cup Pending' \cup stops' \cup lost'
        <3>1. s \in Held \cup Pending \cup stops \cup lost
            BY <2>1 DEF WatchInv, Owned
        <3>2. s \in Held => s \in Held' \cup Taken
            BY WatchConstants, HeldMeans, HeldThen DEF Taken
        <3>3. s \in Pending => s \in Pending'
            BY HeldMeans, HeldThen DEF SameStarts
        <3> QED
            BY <3>1, <3>2, <3>3
    <2> QED
        BY <2>1 DEF Owned
<1>6. OneWatches'
    BY DEF WatchInv, OneWatches, SameStarts
<1>7. AskedHasNone'
    BY DEF WatchInv, AskedHasNone, Types
<1> QED
    BY <1>1, <1>2, <1>3, <1>4, <1>5, <1>6, <1>7 DEF WatchInv

\* Steps that leave all owners alone.
LEMMA Keeping ==
    ASSUME WatchInv, Types',
           SameStarts,
           \A t \in Tiles : tile'[t].asked = tile[t].asked /\ tile'[t].session = tile[t].session,
           UNCHANGED <<session, heartbeat, tiles, tileBeat, server, stops, lost>>
    PROVE  WatchInv'
<1>1. Taken = {}
    BY WatchConstants DEF Taken, WatchInv, Types
<1>2. KeptAlive'
    BY DEF WatchInv, Types, KeptAlive, SessionsOf
<1> QED
    BY <1>1, <1>2, Taking DEF WatchInv, Types

-----------------------------------------------------------------------------
\* Pieces of the handlers.
LEMMA Changed ==
    ASSUME Types
    PROVE  /\ Outdated(calls) \in CallTable
           /\ Superseded(calls) \in CallTable
           /\ Superseded(Outdated(calls)) \in CallTable
           /\ \A c \in Calls :
                 /\ Outdated(calls)[c].session = calls[c].session
                 /\ Superseded(calls)[c].session = calls[c].session
                 /\ Superseded(Outdated(calls))[c].session = calls[c].session
                 /\ Outdated(calls)[c].watching = calls[c].watching
                 /\ ~Superseded(calls)[c].watching
                 /\ ~Superseded(Outdated(calls))[c].watching
<1>1. ASSUME NEW cs \in CallTable
      PROVE  /\ Outdated(cs) \in CallTable
             /\ Superseded(cs) \in CallTable
             /\ \A c \in Calls : /\ Outdated(cs)[c].session = cs[c].session
                                 /\ Outdated(cs)[c].watching = cs[c].watching
                                 /\ Superseded(cs)[c].session = cs[c].session
                                 /\ ~Superseded(cs)[c].watching
    BY ZenonT(60) DEF Outdated, Superseded, CallType, CallTable
<1> QED
    BY <1>1 DEF Types

LEMMA Renders ==
    ASSUME NEW ts \in SUBSET Tiles, NEW tl \in [Tiles -> TileType], RenderTiles(ts, tl)
    PROVE  /\ tiles' = ts
           /\ tile' \in [Tiles -> TileType]
           /\ \A t \in Tiles : tile'[t].session = tl[t].session /\ tile'[t].asked = tl[t].asked
BY DEF RenderTiles, TileType

LEMMA Drops ==
    ASSUME Types, NEW ts \in SUBSET Tiles
    PROVE  /\ Dropped(ts) \in [Tiles -> TileType]
           /\ \A t \in Tiles :
                 /\ Dropped(ts)[t].asked = tile[t].asked
                 /\ Dropped(ts)[t].session = IF t \in ts THEN None ELSE tile[t].session
BY DEF Types, Dropped, NoTile, TileType

\* What leaving a page does to the player's session.
LEMMA Leaves ==
    ASSUME WatchInv, NEW also \in SUBSET Sessions, LeavePlayer(also)
    PROVE  /\ calls' \in CallTable
           /\ SameStarts
           /\ session' \in {session, None}
           /\ stops' = stops \cup also \cup {s \in Sessions : s = session /\ session' = None}
           /\ heartbeat' \in BOOLEAN
           /\ session' # None => heartbeat'
<1>1. Types /\ KeptAlive
    BY DEF WatchInv
<1>2. CASE view = "player"
    BY <1>1, <1>2, Changed, WatchConstants DEF LeavePlayer, Types, SameStarts
<1>3. CASE view # "player"
    BY <1>1, <1>3, Changed, WatchConstants DEF LeavePlayer, Types, SameStarts, KeptAlive
<1> QED
    BY <1>2, <1>3

LEMMA NewCall ==
    ASSUME WatchInv, NEW c \in Calls, NEW item \in Items \cup {None}, Pick(c, item)
    PROVE  /\ calls' \in CallTable
           /\ SameStarts
           /\ UNCHANGED <<session, heartbeat, server, lost>>
<1> DEFINE call == [NoCall EXCEPT !.pc = "libraries", !.item = item, !.current = TRUE]
<1>1. call \in CallType /\ call.session = None /\ call.pc = "libraries" /\ ~call.watching
    BY DEF NoCall, CallType
<1>2. calls' = [Outdated(calls) EXCEPT ![c] = call] /\ calls[c].session = None
    BY DEF Pick, NoCall
<1> HIDE DEF call
<1>3. Types
    BY DEF WatchInv
<1> QED
    BY <1>1, <1>2, <1>3, Changed DEF Pick, CallTable, SameStarts

-----------------------------------------------------------------------------
LEMMA Choosing ==
    ASSUME WatchInv, NEW c \in Calls, NEW item \in Items, Pick(c, item), UNCHANGED <<multi, stops>>
    PROVE  WatchInv'
<1>1. Types'
    BY NewCall DEF WatchInv, Types, multi
<1> QED
    BY <1>1, NewCall, Keeping DEF multi

LEMMA ClosingTiles ==
    ASSUME WatchInv, CloseTiles
    PROVE  /\ tile' \in [Tiles -> TileType]
           /\ \A t \in Tiles : tile'[t].asked = tile[t].asked
           /\ tiles' = {} /\ tileBeat' = FALSE
           /\ SessionsOf(tiles) = {s \in Sessions : \E t \in tiles : tile[t].session = s}
<1>1. tiles \in SUBSET Tiles /\ Types
    BY DEF WatchInv, Types
<1>2. SessionsOf(tiles) = {s \in Sessions : \E t \in tiles : tile[t].session = s}
    BY <1>1, WatchConstants DEF SessionsOf, Types, TileType
<1> QED
    BY <1>1, <1>2, Drops DEF CloseTiles

LEMMA Opening ==
    ASSUME WatchInv, NEW c \in Calls, NEW t \in Tiles, OpenSingle(c, t)
    PROVE  WatchInv'
<1>1. t \in tiles /\ tile[t].channel \in Items \cup {None}
    BY DEF OpenSingle, WatchInv, Types, TileType, Items
<1>2. Types'
    BY <1>1, NewCall, ClosingTiles DEF OpenSingle, WatchInv, Types
<1>3. stops' = stops \cup Taken
    BY <1>1, NewCall, ClosingTiles, WatchConstants DEF OpenSingle, Taken
<1>4. KeptAlive'
    BY <1>1, NewCall, ClosingTiles DEF OpenSingle, WatchInv, KeptAlive, SessionsOf
<1> QED
    BY <1>1, <1>2, <1>3, <1>4, NewCall, ClosingTiles, Taking DEF OpenSingle

LEMMA Viewing ==
    ASSUME WatchInv, NEW v, SetView(v)
    PROVE  WatchInv'
<1>1. CASE v = "multiview"
    <2>1. LeavePlayer({}) /\ RenderTiles(tiles, tile) /\ UNCHANGED tileBeat
        BY <1>1 DEF SetView
    <2>2. /\ tiles' = tiles
          /\ tile' \in [Tiles -> TileType]
          /\ \A t \in Tiles : tile'[t].session = tile[t].session /\ tile'[t].asked = tile[t].asked
        BY <2>1, Renders DEF WatchInv, Types
    <2>3. Types'
        BY <2>1, <2>2, Leaves DEF WatchInv, Types, SetView
    <2>4. stops' = stops \cup Taken
        BY <2>1, <2>2, Leaves, WatchConstants DEF WatchInv, Types, Taken
    <2>5. KeptAlive'
        BY <2>1, <2>2, Leaves, BeatMeans, BeatThen DEF WatchInv, Types
    <2> QED
        BY <2>1, <2>2, <2>3, <2>4, <2>5, Leaves, Taking DEF SetView, WatchInv, Types
<1>2. CASE v # "multiview" /\ view = "multiview"
    <2>1. LeavePlayer(SessionsOf(tiles)) /\ CloseTiles
        BY <1>2 DEF SetView
    <2>2. SessionsOf(tiles) \in SUBSET Sessions
        BY <2>1, ClosingTiles
    <2>3. Types'
        BY <2>1, <2>2, ClosingTiles, Leaves DEF WatchInv, Types, SetView
    <2>4. stops' = stops \cup Taken
        BY <2>1, <2>2, ClosingTiles, Leaves, WatchConstants DEF Taken
    <2>5. KeptAlive'
        BY <2>1, <2>2, ClosingTiles, Leaves DEF KeptAlive, SessionsOf
    <2> QED
        BY <2>1, <2>2, <2>3, <2>4, <2>5, ClosingTiles, Leaves, Taking DEF SetView
<1>3. CASE v # "multiview" /\ view # "multiview"
    <2>1. LeavePlayer({}) /\ UNCHANGED multi
        BY <1>3 DEF SetView
    <2>2. Types'
        BY <2>1, Leaves DEF WatchInv, Types, SetView, multi
    <2>3. stops' = stops \cup Taken
        BY <2>1, Leaves, WatchConstants DEF WatchInv, Types, Taken, multi
    <2>4. KeptAlive'
        BY <2>1, Leaves DEF WatchInv, KeptAlive, SessionsOf, multi
    <2> QED
        BY <2>1, <2>2, <2>3, <2>4, Leaves, Taking DEF SetView, multi
<1> QED
    BY <1>1, <1>2, <1>3

-----------------------------------------------------------------------------
LEMMA Adding ==
    ASSUME WatchInv, NEW channel \in Channels, AddToMultiview(channel)
    PROVE  WatchInv'
<1>1. Types
    BY DEF WatchInv
<1>2. /\ calls' \in CallTable
      /\ SameStarts
      /\ session' \in {session, None}
      /\ stops' = stops \cup {s \in Sessions : s = session /\ session' = None}
      /\ heartbeat' \in BOOLEAN
      /\ session' # None => heartbeat'
    <2>1. CASE view = "player"
        BY <2>1, Leaves DEF AddToMultiview
    <2>2. CASE view # "player"
        BY <2>2, <1>1, WatchConstants, BeatMeans DEF AddToMultiview, WatchInv, Types, SameStarts
    <2> QED
        BY <2>1, <2>2
<1>3. /\ tile' \in [Tiles -> TileType]
      /\ tiles' \in SUBSET Tiles
      /\ tiles \subseteq tiles'
      /\ \A t \in Tiles : tile'[t].asked = tile[t].asked
      /\ \A t \in tiles : tile'[t].session = tile[t].session
      /\ \A t \in tiles' \ tiles : tile'[t].session = None
    <2>1. CASE RenderTiles(tiles, tile)
        BY <1>1, <2>1, Renders DEF Types
    <2>2. ASSUME NEW t \in Tiles \ tiles, tile[t].asked = None,
                 RenderTiles(tiles \cup {t}, [tile EXCEPT ![t] = [NoTile EXCEPT !.channel = channel]])
          PROVE  <1>3!:
        <3> DEFINE new == [NoTile EXCEPT !.channel = channel]
        <3>1. new \in TileType /\ new.session = None /\ new.asked = None
            BY DEF NoTile, TileType
        <3> HIDE DEF new
        <3>2. [tile EXCEPT ![t] = new] \in [Tiles -> TileType] /\ tiles \cup {t} \in SUBSET Tiles
            BY <1>1, <3>1 DEF Types
        <3>3. RenderTiles(tiles \cup {t}, [tile EXCEPT ![t] = new])
            BY <2>2 DEF new
        <3> DEFINE tl == [tile EXCEPT ![t] = new]
        <3>4. \A u \in Tiles : tl[u] = IF u = t THEN new ELSE tile[u]
            BY <1>1 DEF Types
        <3>5. tl \in [Tiles -> TileType] /\ RenderTiles(tiles \cup {t}, tl)
            BY <3>2, <3>3
        <3> HIDE DEF tl
        <3>6. /\ tiles' = tiles \cup {t}
              /\ tile' \in [Tiles -> TileType]
              /\ \A u \in Tiles : tile'[u].session = tl[u].session /\ tile'[u].asked = tl[u].asked
            BY <3>2, <3>5, Renders
        <3> QED
            BY <1>1, <2>2, <3>1, <3>2, <3>4, <3>6 DEF Types
    <2> QED
        BY <2>1, <2>2 DEF AddToMultiview
<1>4. UNCHANGED <<tileBeat, server, lost>>
    BY DEF AddToMultiview
<1>5. Types'
    BY <1>1, <1>2, <1>3, <1>4 DEF Types
<1>6. stops' = stops \cup Taken
    BY <1>1, <1>2, <1>3, WatchConstants DEF Taken, Types
<1>7. KeptAlive'
    BY <1>2, <1>3, <1>4, BeatMeans, BeatThen DEF WatchInv
<1> QED
    BY <1>2, <1>3, <1>4, <1>5, <1>6, <1>7, Taking

LEMMA Removing ==
    ASSUME WatchInv, NEW t \in Tiles, RemoveTile(t)
    PROVE  WatchInv'
<1>1. Types /\ t \in tiles /\ {t} \in SUBSET Tiles /\ tiles \ {t} \in SUBSET Tiles
    BY DEF WatchInv, Types, RemoveTile
<1>2. /\ tiles' = tiles \ {t}
      /\ tile' \in [Tiles -> TileType]
      /\ \A u \in Tiles : /\ tile'[u].asked = tile[u].asked
                          /\ u # t => tile'[u].session = tile[u].session
    <2>1. /\ Dropped({t}) \in [Tiles -> TileType]
          /\ \A u \in Tiles :
                /\ Dropped({t})[u].asked = tile[u].asked
                /\ u # t => Dropped({t})[u].session = tile[u].session
        BY <1>1, Drops
    <2>2. RenderTiles(tiles \ {t}, Dropped({t}))
        BY DEF RemoveTile
    <2> QED
        BY <1>1, <2>1, <2>2, Renders
<1>3. UNCHANGED <<calls, session, heartbeat, tileBeat, server, lost>>
    BY DEF RemoveTile, player
<1>4. stops' = stops \cup ({tile[t].session} \ {None})
    BY DEF RemoveTile, SessionsOf
<1>5. Types'
    BY <1>1, <1>2, <1>3, <1>4 DEF Types, TileType
<1>6. stops' = stops \cup Taken
    BY <1>1, <1>2, <1>3, <1>4, WatchConstants DEF Taken, Types, TileType
<1>7. KeptAlive'
    BY <1>1, <1>2, <1>3, BeatMeans, BeatThen DEF WatchInv, Types
<1> QED
    BY <1>1, <1>2, <1>3, <1>5, <1>6, <1>7, Taking DEF Types, SameStarts

LEMMA Clearing ==
    ASSUME WatchInv, ClearTiles
    PROVE  WatchInv'
<1>1. CloseTiles /\ UNCHANGED <<calls, session, heartbeat, server, lost>>
    BY DEF ClearTiles, player
<1>2. stops' = stops \cup SessionsOf(tiles)
    BY DEF ClearTiles
<1>3. Types'
    BY <1>1, <1>2, ClosingTiles DEF WatchInv, Types
<1>4. stops' = stops \cup Taken
    BY <1>1, <1>2, ClosingTiles, WatchConstants DEF Taken
<1>5. KeptAlive'
    BY <1>1, ClosingTiles, BeatMeans, BeatThen DEF WatchInv
<1> QED
    BY <1>1, <1>3, <1>4, <1>5, ClosingTiles, Taking DEF SameStarts

-----------------------------------------------------------------------------
\* A start: the old session is given up, the new one is the call's.
LEMMA Starting ==
    ASSUME WatchInv, NEW c \in Calls, calls[c].session = None, StartWatch(c),
           UNCHANGED <<heartbeat, multi>>
    PROVE  WatchInv'
<1>1. PICK s \in Free :
         /\ calls' = [Superseded(calls) EXCEPT
                         ![c].pc = "start", ![c].watching = TRUE, ![c].session = s]
         /\ server' = [server EXCEPT ![s] = "asked"]
         /\ stops' = stops \cup ({session} \ {None})
         /\ session' = None
         /\ UNCHANGED lost
    BY DEF StartWatch
<1>2. Types
    BY DEF WatchInv
<1>3. /\ s \in Sessions /\ s # None /\ s \notin stops /\ s # session
      /\ \A d \in Calls : calls[d].session # s
      /\ \A t \in Tiles : tile[t].asked # s
      /\ \A t \in tiles : tile[t].session # s
    BY HeldMeans, WatchConstants DEF Free
<1>4. /\ calls' \in CallTable
      /\ \A d \in Calls : calls'[d].session = IF d = c THEN s ELSE calls[d].session
      /\ \A d \in Calls \ {c} : ~calls'[d].watching
    <2> DEFINE new == [Superseded(calls)[c] EXCEPT !.pc = "start", !.watching = TRUE, !.session = s]
    <2>1. new \in CallType /\ new.session = s /\ new.pc = "start"
        <3>1. Superseded(calls)[c] \in CallType
            BY <1>2, Changed DEF CallTable
        <3> QED
            BY <1>3, <3>1 DEF CallType
    <2>2. calls' = [Superseded(calls) EXCEPT ![c] = new]
        BY <1>1
    <2> HIDE DEF new
    <2> QED
        BY <1>2, <1>3, <2>1, <2>2, Changed DEF CallTable
<1>5. Types'
    BY <1>1, <1>2, <1>3, <1>4 DEF Types, multi
<1>6. UNCHANGED <<tiles, tile, tileBeat, heartbeat>>
    BY DEF multi
<1>7. PlayerApart' /\ TilesApart'
    BY <1>1, <1>2, <1>3, <1>4, <1>6, WatchConstants
    DEF WatchInv, Types, PlayerApart, TilesApart
<1>8. CallsApart'
    <2>1. stops' \subseteq stops \cup {session} /\ s \notin stops'
        BY <1>1, <1>3
    <2>2. ASSUME NEW d \in Calls, d # c, calls'[d].session # None
          PROVE  /\ calls'[d].session = calls[d].session
                 /\ calls[d].session \notin stops'
                 /\ calls[d].session # s
        BY <1>3, <1>4, <2>1, <2>2, WatchConstants DEF WatchInv, CallsApart, PlayerApart
    <2> QED
        BY <1>3, <1>4, <1>6, <2>1, <2>2 DEF WatchInv, Types, CallsApart
<1>9. AskedApart'
    BY <1>1, <1>2, <1>3, <1>4, <1>6, WatchConstants
    DEF WatchInv, Types, PlayerApart, AskedApart
<1>10. Owned'
    <2>1. ASSUME NEW r \in Sessions, server'[r] # "none"
          PROVE  r \in Held' \cup Pending' \cup stops' \cup lost'
        <3>1. CASE r = s
            BY <1>4, <3>1, HeldThen
        <3>2. CASE r # s
            <4>1. r \in Held \cup Pending \cup stops \cup lost
                BY <1>1, <1>2, <2>1, <3>2 DEF WatchInv, Owned, Types
            <4>2. r \in Held => r \in Held' \cup stops'
                BY <1>1, <1>6, HeldMeans, HeldThen, WatchConstants
            <4>3. r \in Pending => r \in Pending'
                BY <1>4, <1>6, HeldMeans, HeldThen, WatchConstants
            <4> QED
                BY <1>1, <4>1, <4>2, <4>3
        <3> QED
            BY <3>1, <3>2
    <2> QED
        BY <2>1 DEF Owned
<1>11. KeptAlive'
    BY <1>1, <1>6, BeatMeans, BeatThen DEF WatchInv
<1>12. OneWatches'
    BY <1>1, <1>4 DEF OneWatches
<1>13. AskedHasNone'
    BY <1>6 DEF WatchInv, AskedHasNone
<1> QED
    BY <1>5, <1>7, <1>8, <1>9, <1>10, <1>11, <1>12, <1>13 DEF WatchInv

LEMMA Returns ==
    ASSUME WatchInv, NEW c \in Calls, Return(c)
    PROVE  /\ calls' \in CallTable
           /\ \A d \in Calls : calls'[d].session = IF d = c THEN None ELSE calls[d].session
           /\ \A d \in Calls : calls'[d].watching => d # c /\ calls[d].watching
<1>1. NoCall \in CallType /\ NoCall.session = None /\ NoCall.pc = "idle" /\ ~NoCall.watching
    BY DEF NoCall, CallType
<1> QED
    BY <1>1 DEF Return, WatchInv, Types, CallTable

\* A call that has no session ends, or goes on without one.
LEMMA Passing ==
    ASSUME WatchInv, NEW c \in Calls,
           UNCHANGED <<session, heartbeat, multi, net>>,
           \/ calls[c].pc # "start" /\ Return(c)
           \/ calls[c].pc # "start" /\ calls' = [calls EXCEPT ![c].pc = "probe"]
           \/ calls' = Outdated(calls)
           \/ UNCHANGED calls
    PROVE  WatchInv'
<1>1. Types
    BY DEF WatchInv
<1>2. calls' \in CallTable /\ SameStarts
    <2>1. CASE calls[c].pc # "start" /\ Return(c)
        BY <1>1, <2>1, Returns DEF Types, CallTable, SameStarts
    <2>2. CASE calls[c].pc # "start" /\ calls' = [calls EXCEPT ![c].pc = "probe"]
        BY <1>1, <2>2 DEF Types, CallTable, CallType, SameStarts
    <2>3. CASE calls' = Outdated(calls) \/ UNCHANGED calls
        BY <1>1, <2>3, Changed DEF Types, SameStarts
    <2> QED
        BY <2>1, <2>2, <2>3
<1>3. Types'
    BY <1>1, <1>2 DEF Types, multi, net
<1> QED
    BY <1>2, <1>3, Keeping DEF multi, net

LEMMA Libraries ==
    ASSUME WatchInv, NEW c \in Calls, LibrariesReady(c) \/ LibrariesFail(c)
    PROVE  WatchInv'
<1>1. calls[c].pc = "libraries" /\ calls[c].session = None
    BY DEF LibrariesReady, LibrariesFail, WatchInv, Types, CallTable
<1>2. UNCHANGED <<heartbeat, multi>>
    BY DEF LibrariesReady, LibrariesFail
<1>3. CASE StartWatch(c)
    BY <1>1, <1>2, <1>3, Starting
<1>4. CASE LibrariesFail(c)
    BY <1>1, <1>2, <1>4, Passing DEF LibrariesFail
<1>5. CASE /\ LibrariesReady(c)
           /\ ~StartWatch(c)
    BY <1>1, <1>2, <1>5, Passing DEF LibrariesReady
<1> QED
    BY <1>3, <1>4, <1>5

\* The session of a start becomes the player's, or is stopped.
LEMMA StartAnswered ==
    ASSUME WatchInv, NEW c \in Calls, Started(c)
    PROVE  WatchInv'
<1> DEFINE s == calls[c].session
<1>1. Types
    BY DEF WatchInv
<1>2. s \in Sessions /\ s # None
    BY <1>1, WatchConstants DEF Started, Types, CallTable, CallType
<1>3. /\ calls' \in CallTable
      /\ \A d \in Calls : calls'[d].session = IF d = c THEN None ELSE calls[d].session
      /\ \A d \in Calls : calls'[d].watching => d # c /\ calls[d].watching
    BY Returns DEF Started
<1>4. UNCHANGED <<tiles, tile, tileBeat, server, lost>>
    BY DEF Started, multi
<1>5. \/ /\ session' = s /\ heartbeat' = TRUE /\ stops' = stops
         /\ session = None /\ \A d \in Calls : ~calls'[d].watching
      \/ session' = session /\ heartbeat' = heartbeat /\ stops' = stops \cup {s}
    BY <1>3 DEF Started, WatchInv, OneWatches
<1>6. /\ s \notin stops /\ s # session
      /\ \A d \in Calls \ {c} : calls[d].session # s
      /\ \A t \in Tiles : tile[t].asked # s
      /\ \A t \in tiles : tile[t].session # s
    BY <1>2, WatchConstants DEF WatchInv, CallsApart, PlayerApart
<1> HIDE DEF s
<1>7. Types'
    BY <1>1, <1>2, <1>3, <1>4, <1>5 DEF Types
<1>8. PlayerApart' /\ TilesApart'
    BY <1>1, <1>2, <1>3, <1>4, <1>5, <1>6 DEF WatchInv, Types, PlayerApart, TilesApart
<1>9. CallsApart' /\ AskedApart'
    BY <1>1, <1>2, <1>3, <1>4, <1>5, <1>6 DEF WatchInv, Types, CallsApart, AskedApart
<1>10. Owned'
    <2>1. ASSUME NEW r \in Sessions, server'[r] # "none"
          PROVE  r \in Held' \cup Pending' \cup stops' \cup lost'
        <3>1. r \in Held \cup Pending \cup stops \cup lost
            BY <1>4, <2>1 DEF WatchInv, Owned
        <3> QED
            BY <3>1, <1>3, <1>4, <1>5, HeldMeans, HeldThen, WatchConstants DEF s
    <2> QED
        BY <2>1 DEF Owned
<1>11. KeptAlive'
    BY <1>4, <1>5, BeatMeans, BeatThen DEF WatchInv
<1>12. OneWatches'
    BY <1>3, <1>5 DEF WatchInv, OneWatches
<1>13. AskedHasNone'
    BY <1>4 DEF WatchInv, AskedHasNone
<1> QED
    BY <1>7, <1>8, <1>9, <1>10, <1>11, <1>12, <1>13 DEF WatchInv

LEMMA StartFailing ==
    ASSUME WatchInv, NEW c \in Calls, StartFails(c)
    PROVE  WatchInv'
<1> DEFINE s == calls[c].session
<1>1. Types
    BY DEF WatchInv
<1>2. s \in Sessions
    BY <1>1, WatchConstants DEF StartFails, Types, CallTable, CallType
<1>3. /\ calls' \in CallTable
      /\ \A d \in Calls : calls'[d].session = IF d = c THEN None ELSE calls[d].session
      /\ \A d \in Calls : calls'[d].watching => d # c /\ calls[d].watching
    BY Returns DEF StartFails
<1>4. UNCHANGED <<session, heartbeat, tiles, tile, tileBeat, server, stops>>
    BY DEF StartFails, multi
<1>5. lost' = lost \cup {r \in {s} : server[r] # "none"}
    BY DEF StartFails, Lose
<1> HIDE DEF s
<1>6. Types'
    BY <1>1, <1>2, <1>3, <1>4, <1>5 DEF Types
<1>7. PlayerApart' /\ TilesApart'
    BY <1>1, <1>3, <1>4, WatchConstants DEF WatchInv, Types, PlayerApart, TilesApart
<1>8. CallsApart' /\ AskedApart'
    BY <1>1, <1>3, <1>4 DEF WatchInv, Types, CallsApart, AskedApart
<1>9. Owned'
    <2>1. ASSUME NEW r \in Sessions, server'[r] # "none"
          PROVE  r \in Held' \cup Pending' \cup stops' \cup lost'
        <3>1. r \in Held \cup Pending \cup stops \cup lost
            BY <1>4, <2>1 DEF WatchInv, Owned
        <3>2. r \in Held => r \in Held'
            BY <1>4, HeldMeans, HeldThen
        <3>3. r \in Pending /\ r # s => r \in Pending'
            BY <1>3, <1>4, HeldMeans, HeldThen DEF s
        <3> QED
            BY <1>4, <1>5, <2>1, <3>1, <3>2, <3>3
    <2> QED
        BY <2>1 DEF Owned
<1>10. OneWatches' /\ AskedHasNone' /\ KeptAlive'
    BY <1>3, <1>4, BeatMeans, BeatThen DEF WatchInv, OneWatches, AskedHasNone
<1> QED
    BY <1>6, <1>7, <1>8, <1>9, <1>10 DEF WatchInv

-----------------------------------------------------------------------------
LEMMA TileAnswered ==
    ASSUME WatchInv, NEW t \in Tiles, TileStarted(t)
    PROVE  WatchInv'
<1> DEFINE s == tile[t].asked
<1>1. Types
    BY DEF WatchInv
<1>2. s \in Sessions /\ s # None
    BY <1>1 DEF TileStarted, Types, TileType
<1>3. UNCHANGED <<calls, session, heartbeat, tiles, server, lost>>
    BY DEF TileStarted, player
<1>4. /\ tile' \in [Tiles -> TileType]
      /\ \A u \in Tiles : tile'[u].asked = IF u = t THEN None ELSE tile[u].asked
    <2> DEFINE there == [tile[t] EXCEPT !.session = s, !.asked = None,
                                        !.attached = tile[t].inPage, !.attaching = FALSE]
               gone == [tile[t] EXCEPT !.asked = None]
    <2>1. /\ there \in TileType /\ there.asked = None
          /\ gone \in TileType /\ gone.asked = None
        BY <1>1, <1>2 DEF Types, TileType
    <2>2. tile' = [tile EXCEPT ![t] = there] \/ tile' = [tile EXCEPT ![t] = gone]
        BY DEF TileStarted
    <2> HIDE DEF there, gone
    <2> QED
        BY <1>1, <2>1, <2>2 DEF Types
<1>5. \/ /\ t \in tiles
         /\ \A u \in Tiles : tile'[u].session = IF u = t THEN s ELSE tile[u].session
         /\ tileBeat' = TRUE
         /\ stops' = stops
      \/ /\ t \notin tiles
         /\ \A u \in Tiles : tile'[u].session = tile[u].session
         /\ tileBeat' = tileBeat
         /\ stops' = stops \cup {s}
    BY <1>1 DEF TileStarted, Types, TileType
<1>6. /\ s \notin stops /\ s # session
      /\ \A c \in Calls : calls[c].session # s
      /\ \A u \in Tiles \ {t} : tile[u].asked # s
      /\ \A u \in tiles : tile[u].session # s
    BY <1>2, WatchConstants DEF WatchInv, AskedApart, CallsApart, PlayerApart
<1>7. t \in tiles => tile[t].session = None
    BY <1>2 DEF WatchInv, AskedHasNone
<1> HIDE DEF s
<1>8. Types'
    BY <1>1, <1>2, <1>3, <1>4, <1>5 DEF Types
<1>9. PlayerApart' /\ TilesApart'
    BY <1>1, <1>2, <1>3, <1>4, <1>5, <1>6 DEF WatchInv, Types, PlayerApart, TilesApart
<1>10. CallsApart' /\ AskedApart'
    BY <1>1, <1>2, <1>3, <1>4, <1>5, <1>6 DEF WatchInv, Types, CallsApart, AskedApart
<1>11. Owned'
    <2>1. ASSUME NEW r \in Sessions, server'[r] # "none"
          PROVE  r \in Held' \cup Pending' \cup stops' \cup lost'
        <3>1. r \in Held \cup Pending \cup stops \cup lost
            BY <1>3, <2>1 DEF WatchInv, Owned
        <3>2. r \in Held => r \in Held'
            BY <1>1, <1>3, <1>5, <1>7, HeldMeans, HeldThen, WatchConstants DEF Types
        <3>3. r \in Pending => r \in Pending' \cup Held' \cup stops'
            BY <1>1, <1>3, <1>4, <1>5, HeldMeans, HeldThen, WatchConstants DEF Types, s
        <3> QED
            BY <1>3, <1>5, <3>1, <3>2, <3>3
    <2> QED
        BY <2>1 DEF Owned
<1>12. OneWatches' /\ KeptAlive'
    BY <1>1, <1>3, <1>5, BeatMeans, BeatThen DEF WatchInv, OneWatches, Types
<1>13. AskedHasNone'
    BY <1>1, <1>3, <1>4, <1>5, <1>7 DEF WatchInv, AskedHasNone, Types
<1> QED
    BY <1>8, <1>9, <1>10, <1>11, <1>12, <1>13 DEF WatchInv

LEMMA TileFailing ==
    ASSUME WatchInv, NEW t \in Tiles, TileFails(t)
    PROVE  WatchInv'
<1> DEFINE s == tile[t].asked
<1>1. Types
    BY DEF WatchInv
<1>2. s \in Sessions
    BY <1>1 DEF TileFails, Types, TileType
<1>3. UNCHANGED <<calls, session, heartbeat, tiles, tileBeat, server, stops>>
    BY DEF TileFails, player
<1>4. /\ tile' \in [Tiles -> TileType]
      /\ \A u \in Tiles : /\ tile'[u].asked = IF u = t THEN None ELSE tile[u].asked
                          /\ tile'[u].session = tile[u].session
    BY <1>1 DEF TileFails, Types, TileType
<1>5. lost' = lost \cup {r \in {s} : server[r] # "none"}
    BY DEF TileFails, Lose
<1> HIDE DEF s
<1>6. Types'
    BY <1>1, <1>2, <1>3, <1>4, <1>5 DEF Types
<1>7. PlayerApart' /\ TilesApart'
    BY <1>1, <1>3, <1>4, WatchConstants DEF WatchInv, Types, PlayerApart, TilesApart
<1>8. CallsApart' /\ AskedApart'
    BY <1>1, <1>3, <1>4 DEF WatchInv, Types, CallsApart, AskedApart
<1>9. Owned'
    <2>1. ASSUME NEW r \in Sessions, server'[r] # "none"
          PROVE  r \in Held' \cup Pending' \cup stops' \cup lost'
        <3>1. r \in Held \cup Pending \cup stops \cup lost
            BY <1>3, <2>1 DEF WatchInv, Owned
        <3>2. r \in Held => r \in Held'
            BY <1>1, <1>3, <1>4, HeldMeans, HeldThen DEF Types
        <3>3. r \in Pending /\ r # s => r \in Pending'
            BY <1>3, <1>4, HeldMeans, HeldThen DEF s
        <3> QED
            BY <1>3, <1>5, <2>1, <3>1, <3>2, <3>3
    <2> QED
        BY <2>1 DEF Owned
<1>10. OneWatches' /\ KeptAlive'
    BY <1>1, <1>3, <1>4, BeatMeans, BeatThen DEF WatchInv, OneWatches, Types
<1>11. AskedHasNone'
    BY <1>1, <1>3, <1>4 DEF WatchInv, AskedHasNone, Types
<1> QED
    BY <1>6, <1>7, <1>8, <1>9, <1>10, <1>11 DEF WatchInv

\* Every tile that asks gets a session of its own that nobody knows.
LEMMA Attaching ==
    ASSUME WatchInv, AttachTiles
    PROVE  WatchInv'
<1> DEFINE todo == {t \in tiles : ~tile[t].attached /\ ~tile[t].attaching}
           ask  == {t \in todo : tile[t].session = None /\ tile[t].asked = None}
<1>1. Types
    BY DEF WatchInv
<1>2. PICK f \in Injection(ask, Free) :
         /\ tile' = [t \in Tiles |->
               IF t \in ask
               THEN [tile[t] EXCEPT !.asked = f[t], !.attaching = TRUE, !.inPage = TRUE]
               ELSE IF t \in todo /\ tile[t].session # None
               THEN [tile[t] EXCEPT !.attached = TRUE]
               ELSE IF t \in todo
               THEN [tile[t] EXCEPT !.attaching = TRUE, !.inPage = TRUE]
               ELSE tile[t]]
         /\ server' = [s \in Sessions |-> IF s \in Range(f) THEN "asked" ELSE server[s]]
    BY DEF AttachTiles
<1>3. UNCHANGED <<calls, session, heartbeat, tiles, tileBeat, stops, lost>>
    BY DEF AttachTiles, player
<1>4. /\ f \in [ask -> Free]
      /\ \A t, u \in ask : f[t] = f[u] => t = u
      /\ Range(f) = {f[t] : t \in ask}
    BY DEF Injection, Range, IsInjective
<1>5. \A t \in ask : t \in Tiles /\ t \in tiles /\ tile[t].session = None /\ tile[t].asked = None
    BY <1>1 DEF Types
<1>6. \A s \in Free : /\ s \in Sessions /\ s # None /\ s \notin stops /\ s # session
                      /\ \A c \in Calls : calls[c].session # s
                      /\ \A t \in Tiles : tile[t].asked # s
                      /\ \A t \in tiles : tile[t].session # s
    BY HeldMeans, WatchConstants DEF Free
<1>7. /\ tile' \in [Tiles -> TileType]
      /\ \A t \in Tiles : /\ tile'[t].session = tile[t].session
                          /\ tile'[t].asked = IF t \in ask THEN f[t] ELSE tile[t].asked
    <2>1. ASSUME NEW t \in Tiles
          PROVE  /\ tile'[t] \in TileType
                 /\ tile'[t].session = tile[t].session
                 /\ tile'[t].asked = IF t \in ask THEN f[t] ELSE tile[t].asked
        <3>1. tile[t] \in TileType
            BY <1>1 DEF Types
        <3>2. t \in ask => f[t] \in Sessions
            BY <1>4, <1>6
        <3> HIDE DEF ask, todo
        <3> QED
            BY <1>2, <3>1, <3>2 DEF TileType
    <2>2. tile' = [t \in Tiles |-> tile'[t]]
        BY <1>2
    <2> QED
        BY <2>1, <2>2
<1> HIDE DEF todo, ask
<1>8. \A s \in Sessions : server'[s] = IF s \in Range(f) THEN "asked" ELSE server[s]
    BY <1>2
<1>9. Types'
    BY <1>1, <1>2, <1>3, <1>7 DEF Types
<1>10. PlayerApart' /\ TilesApart'
    BY <1>1, <1>3, <1>4, <1>6, <1>7 DEF WatchInv, Types, PlayerApart, TilesApart
<1>11. CallsApart'
    BY <1>1, <1>3, <1>4, <1>6, <1>7 DEF WatchInv, Types, CallsApart
<1>12. AskedApart'
    <2>1. ASSUME NEW t \in Tiles, tile'[t].asked # None
          PROVE  /\ tile'[t].asked \notin stops'
                 /\ \A u \in Tiles \ {t} : tile'[u].asked # tile'[t].asked
                 /\ \A u \in tiles' : tile'[u].session # tile'[t].asked
        <3>1. CASE t \in ask
            BY <1>1, <1>3, <1>4, <1>6, <1>7, <3>1 DEF Types
        <3>2. CASE t \notin ask
            BY <1>1, <1>3, <1>4, <1>6, <1>7, <2>1, <3>2 DEF WatchInv, Types, AskedApart
        <3> QED
            BY <3>1, <3>2
    <2> QED
        BY <2>1 DEF AskedApart
<1>13. Owned'
    <2>1. ASSUME NEW r \in Sessions, server'[r] # "none"
          PROVE  r \in Held' \cup Pending' \cup stops' \cup lost'
        <3>1. CASE r \in Range(f)
            BY <1>4, <1>5, <1>7, <3>1, HeldThen
        <3>2. CASE r \notin Range(f)
            <4>1. r \in Held \cup Pending \cup stops \cup lost
                BY <1>8, <2>1, <3>2 DEF WatchInv, Owned
            <4>2. r \in Held => r \in Held'
                BY <1>1, <1>3, <1>7, HeldMeans, HeldThen DEF Types
            <4>3. r \in Pending => r \in Pending'
                BY <1>3, <1>5, <1>7, HeldMeans, HeldThen, WatchConstants
            <4> QED
                BY <1>3, <4>1, <4>2, <4>3
        <3> QED
            BY <3>1, <3>2
    <2> QED
        BY <2>1 DEF Owned
<1>14. OneWatches' /\ KeptAlive'
    BY <1>1, <1>3, <1>7, BeatMeans, BeatThen DEF WatchInv, OneWatches, Types
<1>15. AskedHasNone'
    BY <1>1, <1>3, <1>5, <1>7 DEF WatchInv, AskedHasNone, Types
<1> QED
    BY <1>9, <1>10, <1>11, <1>12, <1>13, <1>14, <1>15 DEF WatchInv

LEMMA Rendering ==
    ASSUME WatchInv, LateRender
    PROVE  WatchInv'
<1>1. UNCHANGED <<session, heartbeat, calls, tiles, tileBeat, server, stops, lost>>
    BY DEF LateRender, multi, net, RenderTiles
<1>2. /\ tile' \in [Tiles -> TileType]
      /\ \A t \in Tiles : tile'[t].session = tile[t].session /\ tile'[t].asked = tile[t].asked
    BY Renders DEF LateRender, multi, WatchInv, Types
<1>3. Types'
    BY <1>1, <1>2 DEF WatchInv, Types
<1> QED
    BY <1>1, <1>2, <1>3, Keeping DEF SameStarts

-----------------------------------------------------------------------------
\* The page is gone: what it held is stopped, what it awaited is lost.
LEMMA Hiding ==
    ASSUME WatchInv, PageHide
    PROVE  WatchInv'
<1>1. Types
    BY DEF WatchInv
<1>2. /\ calls' = [c \in Calls |-> NoCall] /\ tile' = [t \in Tiles |-> NoTile]
      /\ tiles' = {} /\ session' = None /\ heartbeat' = FALSE /\ tileBeat' = FALSE
      /\ server' = server
      /\ stops' = stops \cup Held
      /\ lost' = lost \cup {s \in Pending : server[s] # "none"}
    BY DEF PageHide, Lose
<1>3. NoCall \in CallType /\ NoCall.session = None /\ NoCall.pc = "idle" /\ ~NoCall.watching
    BY DEF NoCall, CallType
<1>4. NoTile \in TileType /\ NoTile.session = None /\ NoTile.asked = None
    BY DEF NoTile, TileType
<1>5. Held \subseteq Sessions /\ Pending \subseteq Sessions
    BY <1>1 DEF Held, Pending, Types, CallTable, CallType, TileType
<1>6. Types'
    BY <1>1, <1>2, <1>3, <1>4, <1>5 DEF Types, CallTable
<1>7. PlayerApart' /\ CallsApart' /\ AskedApart' /\ TilesApart'
    BY <1>2, <1>3, <1>4 DEF PlayerApart, CallsApart, AskedApart, TilesApart
<1>8. OneWatches' /\ AskedHasNone' /\ KeptAlive'
    BY <1>2, <1>3, BeatThen DEF OneWatches, AskedHasNone
<1>9. Owned'
    <2>1. ASSUME NEW r \in Sessions, server'[r] # "none"
          PROVE  r \in stops' \cup lost'
        BY <1>2, <2>1 DEF WatchInv, Owned
    <2> QED
        BY <2>1 DEF Owned
<1> QED
    BY <1>6, <1>7, <1>8, <1>9 DEF WatchInv

\* The server answers or ends a session, or a stop reaches it.
LEMMA ServerSteps ==
    ASSUME WatchInv, NEW s \in Sessions, Answer(s) \/ StopArrives(s) \/ Expire(s)
    PROVE  WatchInv'
<1>1. Types
    BY DEF WatchInv
<1>2. UNCHANGED <<session, heartbeat, calls, tiles, tile, tileBeat>>
    BY DEF Answer, StopArrives, Expire, player, multi
<1>3. /\ stops' \subseteq stops
      /\ server' \in [Sessions -> {"none", "asked", "live"}]
      /\ lost' \subseteq Sessions
    BY <1>1 DEF Answer, StopArrives, Expire, Types, Lose
<1>4. ASSUME NEW r \in Sessions, server'[r] # "none"
      PROVE  /\ server[r] # "none"
             /\ r \in stops \cup lost => r \in stops' \cup lost'
    BY <1>1, <1>4 DEF Answer, StopArrives, Expire, Types, Lose
<1>5. Types'
    BY <1>1, <1>2, <1>3 DEF Types
<1>6. PlayerApart' /\ CallsApart' /\ AskedApart' /\ TilesApart'
    BY <1>2, <1>3 DEF WatchInv, PlayerApart, CallsApart, AskedApart, TilesApart
<1>7. Owned'
    <2>1. Held' = Held /\ Pending' = Pending
        BY <1>2 DEF Held, Pending
    <2> QED
        BY <1>4, <2>1 DEF WatchInv, Owned
<1>8. OneWatches' /\ AskedHasNone' /\ KeptAlive'
    BY <1>2, BeatMeans, BeatThen DEF WatchInv, OneWatches, AskedHasNone
<1> QED
    BY <1>5, <1>6, <1>7, <1>8 DEF WatchInv

-----------------------------------------------------------------------------
LEMMA Initially ==
    ASSUME Init
    PROVE  WatchInv
<1>1. NoCall \in CallType /\ NoCall.session = None /\ NoCall.pc = "idle" /\ ~NoCall.watching
    BY DEF NoCall, CallType
<1>2. NoTile \in TileType /\ NoTile.session = None /\ NoTile.asked = None
    BY DEF NoTile, TileType
<1>3. Types
    BY <1>1, <1>2 DEF Init, Types, CallTable
<1>4. PlayerApart /\ CallsApart /\ AskedApart /\ TilesApart
    BY <1>1, <1>2 DEF Init, PlayerApart, CallsApart, AskedApart, TilesApart
<1>5. OneWatches /\ AskedHasNone /\ KeptAlive /\ Owned
    BY <1>1, BeatMeans DEF Init, OneWatches, AskedHasNone, Owned
<1> QED
    BY <1>3, <1>4, <1>5 DEF WatchInv

\* The steps that do not concern sessions.
LEMMA OtherSteps ==
    ASSUME WatchInv, UNCHANGED <<session, heartbeat, multi, net, calls>>
    PROVE  WatchInv'
<1>1. Types'
    BY DEF WatchInv, Types, multi, net
<1> QED
    BY <1>1, Keeping DEF SameStarts, multi, net

LEMMA WatchSteps ==
    ASSUME WatchInv, [Next]_vars
    PROVE  WatchInv'
<1>1. CASE Chosen
    <2>1. ASSUME NEW c \in Calls, NEW channel \in Channels, PlayChannel(c, channel) PROVE WatchInv'
        BY <2>1, Choosing DEF PlayChannel, Items
    <2>2. ASSUME NEW c \in Calls, NEW title \in Titles, PlayOnDemand(c, title) PROVE WatchInv'
        BY <2>2, Choosing DEF PlayOnDemand, Items
    <2>3. ASSUME NEW c \in Calls, NEW t \in Tiles, OpenSingle(c, t) PROVE WatchInv'
        BY <2>3, Opening
    <2> QED
        BY <1>1, <2>1, <2>2, <2>3 DEF Chosen
<1>2. ASSUME NEW c \in Calls, CallReturns(c) PROVE WatchInv'
    <2>1. CASE Probed(c)
        BY <2>1, Passing DEF Probed
    <2> QED
        BY <1>2, <2>1, Libraries, StartAnswered, StartFailing DEF CallReturns
<1>3. CASE SharedMode
    <2>1. /\ calls' = Outdated(calls)
          /\ UNCHANGED <<session, heartbeat, multi, net>>
        BY <1>3 DEF SharedMode
    <2>2. calls' \in CallTable /\ SameStarts
        BY <2>1, Changed DEF WatchInv, Types, SameStarts
    <2>3. Types'
        BY <2>1, <2>2 DEF WatchInv, Types, multi, net
    <2> QED
        BY <2>1, <2>2, <2>3, Keeping DEF multi, net
<1>4. CASE Playing \/ PlaybackFatal \/ UNCHANGED vars
    BY <1>4, OtherSteps DEF Playing, PlaybackFatal, vars, player
<1>5. CASE Back
    BY <1>5, Viewing DEF Back
<1>6. ASSUME NEW v, Navigate(v) PROVE WatchInv'
    BY <1>6, Viewing DEF Navigate
<1>7. ASSUME NEW channel \in Channels, AddToMultiview(channel) PROVE WatchInv'
    BY <1>7, Adding
<1>8. ASSUME NEW t \in Tiles, RemoveTile(t) \/ TileStarted(t) \/ TileFails(t) PROVE WatchInv'
    BY <1>8, Removing, TileAnswered, TileFailing
<1>9. CASE ClearTiles \/ AttachTiles \/ LateRender \/ PageHide
    BY <1>9, Clearing, Attaching, Rendering, Hiding
<1>10. CASE AttachFails
    <2>1. UNCHANGED <<player, tiles, tile, tileBeat, net>>
        BY <1>10 DEF AttachFails
    <2>2. Types'
        BY <2>1 DEF WatchInv, Types, player, net
    <2> QED
        BY <2>1, <2>2, Keeping DEF SameStarts, player, net
<1>11. ASSUME NEW s \in Sessions, Answer(s) \/ StopArrives(s) \/ Expire(s) PROVE WatchInv'
    BY <1>11, ServerSteps
<1> QED
    BY <1>1, <1>2, <1>3, <1>4, <1>5, <1>6, <1>7, <1>8, <1>9, <1>10, <1>11 DEF Next

THEOREM WatchesAreOwned == Spec => []WatchInv
BY Initially, WatchSteps, PTL DEF Spec

\* A provider connection that is open is in the page's hands, or about to be,
\* or about to be stopped, unless a message was lost (startWatch and
\* startMultiviewWatch stop what arrives late; stopCurrentWatch and
\* removeMultiviewTile stop what is given up).
THEOREM NoOrphans == Spec => []NothingOrphaned
<1>1. WatchInv => NothingOrphaned
    BY DEF WatchInv, Owned, NothingOrphaned
<1> QED
    BY <1>1, WatchesAreOwned, PTL

\* Nothing the page holds runs into the server's timeout for want of a heartbeat
\* (the timers of startWatch and startMultiviewWatch, and where they are cleared).
THEOREM HeartbeatsGoOn == Spec => []KeptAlive
<1>1. WatchInv => KeptAlive
    BY DEF WatchInv
<1> QED
    BY <1>1, WatchesAreOwned, PTL

\* No two players share a session and none plays one that is being stopped.
THEOREM OwnersAreApart == Spec => []OneHolderEach
<1>1. ASSUME WatchInv PROVE OneHolderEach
    <2>1. Types
        BY <1>1 DEF WatchInv
    <2>2. SessionsOf(tiles) = {tile[t].session : t \in tiles} \ {None}
        BY DEF SessionsOf
    <2>3. Held \cap stops = {}
        BY <1>1 DEF WatchInv, Held, PlayerApart, TilesApart
    <2>4. session \notin SessionsOf(tiles) \cup Pending
        BY <1>1 DEF WatchInv, SessionsOf, Pending, PlayerApart
    <2>5. \A t, u \in tiles :
              t # u /\ tile[t].session # None => tile[t].session # tile[u].session
        BY <1>1 DEF WatchInv, TilesApart
    <2>6. SessionsOf(tiles) \cap Pending = {}
        BY <1>1, <2>1 DEF WatchInv, SessionsOf, Pending, CallsApart, AskedApart
    <2> QED
        BY <2>3, <2>4, <2>5, <2>6 DEF OneHolderEach
<1> QED
    BY <1>1, WatchesAreOwned, PTL
=============================================================================
