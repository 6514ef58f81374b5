------------------------------ MODULE SportsPage ------------------------------
(***************************************************************************)
(* The sports page (ui/sports.js): the payload of scores and its polling   *)
(* while the server prepares it, the game or the league the viewer opened, *)
(* the rosters of leagues, and the live stats of a game.  Sports are on;   *)
(* the replays' own loading and the order of the scores are left out.      *)
(***************************************************************************)
EXTENDS Naturals, FiniteSetsExt

CONSTANTS
    Games,         \* the games a payload may hold
    StatGames,     \* those of leagues that have live stats
    Leagues,       \* the leagues of every payload that arrives
    MaxAttempts,   \* 48 polls in scheduleSportsPoll
    MaxAsked,      \* bound on the requests for stats in flight
    NoGame, NoLeague, NoPayload

ASSUME SportsAssumption ==
    /\ StatGames \subseteq Games
    /\ NoGame \notin Games
    /\ NoPayload \notin [events : SUBSET Games, refreshing : BOOLEAN, error : BOOLEAN,
                         leagues : SUBSET Leagues, teams : SUBSET Leagues]
    /\ MaxAttempts \in Nat

VARIABLES
    sportsView,      \* state.view is "sports"
    sportsTab,       \* state.sportsTab: the replays or one of the others
    payload,         \* state.sports, with the rosters its leagues carry
    sportsLoading,
    pollTimer,       \* state.sportsPollTimer is armed
    attempts,        \* state.sportsPollAttempts
    selected,        \* state.sportsSelectedEventID
    sportsLeague,
    rosters,         \* state.sportsLeagueTeams
    rosterLoads,     \* sportsLeagueTeamsLoading: whose league is to get the answer
    stats,           \* sportsGameStatsState
    asked            \* the requests for stats in flight

loads == <<payload, sportsLoading, pollTimer, attempts>>
leagueVars == <<sportsLeague, rosters, rosterLoads>>
sportsVars == <<sportsView, sportsTab, loads, selected, leagueVars, stats, asked>>

StatsOf(g) == [id |-> g, data |-> NoGame, completed |-> FALSE, loading |-> FALSE,
               fresh |-> FALSE, timer |-> NoGame]

\* sportsTabButtonsHTML: the tabs beside the replays differ in what they list.
Tabs == {"scores", "replays"}

\* The games of state.sports || {events: []}.
PayloadEvents == IF payload' = NoPayload THEN {} ELSE payload'.events

SportsInit ==
    /\ sportsView = FALSE
    /\ sportsTab = "scores"
    /\ payload = NoPayload
    /\ sportsLoading = FALSE
    /\ pollTimer = FALSE
    /\ attempts = 0
    /\ selected = NoGame
    /\ sportsLeague = NoLeague
    /\ rosters = {}
    /\ rosterLoads = [l \in Leagues |-> "no"]
    /\ stats = StatsOf(NoGame)
    /\ asked = [g \in Games |-> 0]

-----------------------------------------------------------------------------
\* loadSports up to its request; stopSportsPoll(true) before a forced one.
LoadSports(force, preparedOnly) ==
    /\ payload' = payload
    /\ IF sportsLoading \/ (payload # NoPayload /\ ~force)
       THEN UNCHANGED <<sportsLoading, pollTimer, attempts>>
       ELSE /\ sportsLoading' = TRUE
            /\ IF force /\ ~preparedOnly
               THEN pollTimer' = FALSE /\ attempts' = 0
               ELSE UNCHANGED <<pollTimer, attempts>>

\* syncSportsGameStats: the game it is called with, and what it starts from.
Synced(game) ==
    IF stats.id = game THEN stats ELSE StatsOf(game)

FetchNeeded(s) == s.id # NoGame /\ ~s.loading /\ ~s.fresh

SyncSportsGameStats(game, s) ==
    IF FetchNeeded(s)
    THEN /\ MapThenSumSet(LAMBDA g : asked[g], Games) < MaxAsked
         /\ asked' = [asked EXCEPT ![game] = @ + 1]
         /\ stats' = [s EXCEPT !.loading = TRUE]
    ELSE stats' = s /\ UNCHANGED asked

\* renderSportsPage with `chosen` as the selected game: the replays return
\* early, a game the payload lacks is dropped, the stats follow.  The page is
\* only shown with a payload or a load of it under way: its own loadSports(false)
\* changes nothing.
RenderSportsPage(chosen) ==
    IF sportsTab' = "replays"
    THEN selected' = chosen /\ UNCHANGED <<stats, asked>>
    ELSE /\ selected' = IF chosen \in PayloadEvents THEN chosen ELSE NoGame
         /\ LET game == IF selected' \in StatGames THEN selected' ELSE NoGame
            IN SyncSportsGameStats(game, Synced(game))

\* loadSportsLeagueTeams(sportsLeagueByID(state.sports, l)).
LoadSportsLeagueTeams(l) ==
    IF payload = NoPayload \/ l \notin payload.leagues \/ l \in rosters
    THEN UNCHANGED rosterLoads
    ELSE rosterLoads' = [rosterLoads EXCEPT ![l] = IF @ = "no" THEN "current" ELSE @]

\* The league object of the payload gets a roster that is already there.
WithRoster(p, l) ==
    IF l \in rosters /\ l \in p.leagues THEN [p EXCEPT !.teams = @ \cup {l}] ELSE p

-----------------------------------------------------------------------------
\* setView("sports"), and leaving for another view.
ShowSports ==
    /\ sportsView' = TRUE
    /\ LoadSports(FALSE, FALSE)
    /\ UNCHANGED <<sportsTab, leagueVars>>
    /\ RenderSportsPage(selected)

LeaveSports ==
    /\ sportsView
    /\ sportsView' = FALSE
    /\ UNCHANGED <<sportsTab, loads, selected, leagueVars, stats, asked>>

\* The player's drawer, the settings and My TV load the scores as well.
LoadElsewhere ==
    /\ ~sportsView
    /\ \E force, preparedOnly \in BOOLEAN : LoadSports(force, preparedOnly)
    /\ UNCHANGED <<sportsView, sportsTab, selected, leagueVars, stats, asked>>

\* "Refresh scores", offered while nothing is loading or being prepared, and
\* the page's refresh button.
RefreshScores ==
    /\ sportsView
    /\ LoadSports(TRUE, FALSE)
    /\ UNCHANGED <<sportsView, sportsTab, leagueVars>>
    /\ RenderSportsPage(selected)

\* The error panel's button.
RetrySports ==
    /\ sportsView
    /\ payload # NoPayload
    /\ payload.error
    /\ LoadSports(TRUE, FALSE)
    /\ UNCHANGED <<sportsView, sportsTab, selected, leagueVars, stats, asked>>

\* scheduleSportsPoll, called while no load runs.
ScheduleSportsPoll ==
    IF pollTimer \/ attempts >= MaxAttempts
    THEN UNCHANGED <<pollTimer, attempts>>
    ELSE pollTimer' = TRUE /\ attempts' = attempts + 1

\* The finally of loadSports, after its answer or its failure.
Loaded ==
    /\ sportsLoading' = FALSE
    /\ UNCHANGED <<sportsView, sportsTab, sportsLeague, rosters>>
    /\ IF sportsView THEN RenderSportsPage(selected) ELSE UNCHANGED <<selected, stats, asked>>

\* The answer: new league objects, without the rosters the old ones had; the
\* open league's roster is asked for again unless a request for it is out.
LoadAnswers ==
    /\ sportsLoading
    /\ \E events \in SUBSET Games, refreshing \in BOOLEAN :
          LET fresh == [events |-> events, refreshing |-> refreshing, error |-> FALSE,
                        leagues |-> Leagues, teams |-> {}]
          IN /\ payload' = WithRoster(fresh, sportsLeague)
             /\ IF refreshing THEN ScheduleSportsPoll ELSE pollTimer' = FALSE /\ attempts' = 0
    /\ rosterLoads' = [l \in Leagues |->
          CASE rosterLoads[l] # "no" -> "replaced"
            [] rosterLoads[l] = "no" /\ l = sportsLeague /\ l \notin rosters -> "current"
            [] OTHER -> "no"]
    /\ Loaded

\* The request fails or takes longer than 12 seconds.
LoadFails ==
    /\ sportsLoading
    /\ payload' = IF payload = NoPayload
                  THEN [events |-> {}, refreshing |-> FALSE, error |-> TRUE,
                        leagues |-> {}, teams |-> {}]
                  ELSE [payload EXCEPT !.error = TRUE]
    /\ UNCHANGED <<pollTimer, attempts, rosterLoads>>
    /\ Loaded

\* The timer of a poll that is not forced returns what is there.
PollTimerUnforced ==
    /\ pollTimer
    /\ pollTimer' = FALSE
    /\ sportsLoading' = (sportsLoading \/ payload = NoPayload)
    /\ UNCHANGED <<sportsView, sportsTab, payload, attempts, selected, leagueVars, stats, asked>>

\* The poll's timer asks for what is prepared.
PollTimer ==
    /\ pollTimer
    /\ pollTimer' = FALSE
    /\ sportsLoading' = TRUE
    /\ UNCHANGED <<sportsView, sportsTab, payload, attempts, selected, leagueVars, stats, asked>>

-----------------------------------------------------------------------------
\* The tab, and any other repaint of the page.
SetSportsTab ==
    /\ sportsView
    /\ sportsTab' \in Tabs
    /\ UNCHANGED <<sportsView, loads, leagueVars>>
    /\ RenderSportsPage(selected)

\* A game of the page, or of a card on another page.
OpenSportsEvent ==
    /\ payload # NoPayload
    /\ sportsView' = TRUE
    /\ sportsTab' = IF sportsView THEN sportsTab ELSE "scores"
    /\ UNCHANGED <<loads, leagueVars>>
    /\ \E g \in Games : RenderSportsPage(g)

OpenSportsLeague ==
    /\ sportsView
    /\ \E l \in Leagues :
          /\ sportsLeague' = l
          /\ LoadSportsLeagueTeams(l)
          /\ payload' = IF payload = NoPayload THEN payload ELSE WithRoster(payload, l)
    /\ UNCHANGED <<sportsView, sportsTab, sportsLoading, pollTimer, attempts, rosters>>
    /\ RenderSportsPage(NoGame)

BackFromSportsDetail ==
    /\ sportsView
    /\ IF selected # NoGame
       THEN UNCHANGED <<sportsLeague, sportsTab>>
       ELSE sportsLeague' = NoLeague /\ sportsTab' = "scores"
    /\ UNCHANGED <<sportsView, loads, rosters, rosterLoads>>
    /\ RenderSportsPage(NoGame)

\* The answer about a roster; a failure leaves none.
RosterAnswers ==
    \E l \in Leagues, ok \in BOOLEAN :
       /\ rosterLoads[l] # "no"
       /\ rosterLoads' = [rosterLoads EXCEPT ![l] = "no"]
       /\ rosters' = IF ok THEN rosters \cup {l} ELSE rosters
       /\ payload' = IF ok /\ rosterLoads[l] = "current"
                     THEN [payload EXCEPT !.teams = @ \cup {l}] ELSE payload
       /\ UNCHANGED <<sportsView, sportsTab, sportsLoading, pollTimer, attempts, sportsLeague>>
       /\ IF sportsView /\ sportsLeague = l
          THEN RenderSportsPage(selected)
          ELSE UNCHANGED <<selected, stats, asked>>

-----------------------------------------------------------------------------
\* An answer that is taken for the game of the page.
StatsAnswerUnchecked ==
    \E g \in Games, completed \in BOOLEAN :
       /\ asked[g] > 0
       /\ asked' = [asked EXCEPT ![g] = @ - 1]
       /\ stats' = [stats EXCEPT !.data = g, !.completed = completed, !.loading = FALSE,
                                 !.fresh = TRUE, !.timer = IF completed THEN NoGame ELSE g]
       /\ UNCHANGED <<sportsView, sportsTab, loads, selected, leagueVars>>

\* The answer or the failure of a request for stats: one about another game
\* than the page's is dropped; a failure or an empty answer keeps what is shown.
\* The repaint finds the stats fresh and changes nothing.
StatsAnswer ==
    \E g \in Games, ok, completed \in BOOLEAN :
       /\ asked[g] > 0
       /\ asked' = [asked EXCEPT ![g] = @ - 1]
       /\ stats' = IF stats.id # g THEN stats
                   ELSE LET over == IF ok THEN completed ELSE stats.completed
                        IN [stats EXCEPT !.data = g, !.completed = over, !.loading = FALSE,
                                         !.fresh = TRUE,
                                         !.timer = IF over THEN NoGame ELSE g]
       /\ UNCHANGED <<sportsView, sportsTab, loads, selected, leagueVars>>

\* A timer that ends when the document is hidden.
StatsTimerOnce ==
    /\ stats.timer # NoGame
    /\ UNCHANGED <<sportsView, sportsTab, loads, selected, leagueVars>>
    /\ \E documentHidden \in BOOLEAN :
          LET due == [stats EXCEPT !.fresh = FALSE, !.timer = NoGame]
          IN IF sportsView /\ selected = stats.timer /\ ~documentHidden /\ sportsTab # "replays"
             THEN SyncSportsGameStats(due.id, due)
             ELSE stats' = due /\ UNCHANGED asked

\* Thirty seconds later: armed again while the document is hidden, else a
\* repaint of the page the game is still open on.
StatsTimer ==
    /\ stats.timer # NoGame
    /\ UNCHANGED <<sportsView, sportsTab, loads, selected, leagueVars>>
    /\ \E documentHidden \in BOOLEAN :
          LET due == [stats EXCEPT !.fresh = FALSE, !.timer = NoGame]
              open == sportsView /\ selected = stats.timer
          IN IF open /\ ~documentHidden /\ sportsTab # "replays"
             THEN SyncSportsGameStats(due.id, due)
             ELSE /\ stats' = IF open /\ documentHidden THEN [stats EXCEPT !.fresh = FALSE] ELSE due
                  /\ UNCHANGED asked

\* The stats of a completed game are asked for again on a later visit.
StatsAge ==
    /\ stats.fresh
    /\ stats.timer = NoGame
    /\ stats' = [stats EXCEPT !.fresh = FALSE]
    /\ UNCHANGED <<sportsView, sportsTab, loads, selected, leagueVars, asked>>

SportsNext ==
    \/ ShowSports \/ LeaveSports \/ LoadElsewhere \/ RefreshScores \/ RetrySports
    \/ LoadAnswers \/ LoadFails \/ PollTimer
    \/ SetSportsTab \/ OpenSportsEvent \/ OpenSportsLeague \/ BackFromSportsDetail
    \/ RosterAnswers \/ StatsAnswer \/ StatsTimer \/ StatsAge

-----------------------------------------------------------------------------
\* While the server says it is preparing the scores and the last load did not
\* fail, one is running or a poll is armed, until MaxAttempts polls are used
\* (sports.js: "keep polling while the backend reports it is refreshing").
PolledUntilReady ==
    payload # NoPayload /\ payload.refreshing /\ ~payload.error =>
       sportsLoading \/ pollTimer \/ attempts = MaxAttempts

\* The stats of the open game keep coming: they are being loaded, or a timer
\* will ask for them, until the game is over.
StatsKeepComing ==
    sportsView /\ sportsTab # "replays" /\ selected \in StatGames =>
       /\ stats.id = selected
       /\ stats.loading \/ stats.timer = selected \/ stats.completed

\* The stats shown are those of the game they are shown for, whatever order
\* the answers come in, and a request is out while they are said to load.
StatsAreOfTheirGame ==
    /\ stats.data \in {NoGame, stats.id}
    /\ stats.loading => asked[stats.id] > 0

=============================================================================
