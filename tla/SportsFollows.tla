----------------------------- MODULE SportsFollows -----------------------------
(***************************************************************************)
(* The teams that a viewer follows (ui/sports.js, ui/prefs.js, cards of    *)
(* ui/app.js).  A follow is an id: the team's own, one that it had before, *)
(* or the built-in game pass of a team with that name.  Teams come from    *)
(* the scores and from a league's roster; some have an id but no name.     *)
(*                                                                         *)
(* A team is a record of its id, "" for none, all the ids it answers to    *)
(* and its name, as sportsGamePassSlug writes it, "" for none.  Names      *)
(* without a Latin letter, and passes for teams that are no longer built   *)
(* in, are left out.                                                       *)
(***************************************************************************)
EXTENDS Naturals

CONSTANTS
    Payloads,        \* what the scores may bring: sets of teams
    Roster,          \* the teams of the league
    BuiltIn,         \* myTVBuiltInSportsPeople: the passes
    RemoteFollows,   \* what may be stored for the viewer: sets of ids
    Labelled,        \* ids with a saved label
    KnownPhantoms,   \* knownPhantomSportsFollowIDs
    MaxToggles       \* bound on the buttons pressed

HasName(team) == team.name # ""
AllTeams == UNION Payloads \cup Roster

\* The server reports the same of every copy of a team, and no id of a team for
\* one with another name.
ASSUME ConsistentTeams ==
    /\ MaxToggles \in Nat
    /\ \A t \in AllTeams \cup BuiltIn : t.ids = t.ids \cup ({t.id} \ {""})
    /\ \A t, u \in {x \in AllTeams \cup BuiltIn : HasName(x)} :
          /\ t.id = u.id /\ t.id # "" => t = u
          /\ t.ids \cap u.ids # {} => t.name = u.name
    /\ \A t \in BuiltIn : t.ids = {t.id} /\ HasName(t)

VARIABLES
    follows,       \* preferences.sportsFavoriteTeams
    storedFollows, \* ... as stored remotely
    prefsLoaded,   \* prefsSync.loaded
    pending,       \* ids edited before the preferences were loaded
    scores,        \* the teams of state.sports, or NoScores
    roster,        \* the teams of state.sportsLeagueTeams
    toggles

followVars == <<follows, storedFollows, prefsLoaded, pending, scores, roster, toggles>>

NoScores == {}

FollowsInit ==
    /\ follows = {}
    /\ storedFollows \in RemoteFollows
    /\ prefsLoaded = FALSE
    /\ pending = {}
    /\ scores = NoScores
    /\ roster = {}
    /\ toggles = MaxToggles

(***************************************************************************)
(* Who is who                                                              *)
(***************************************************************************)
\* sportsKnownTeamEntities
KnownTeams == scores \cup roster

PassesOf(name) == {p \in BuiltIn : p.name = name}

\* sportsFavoriteTeamMatches, by an id or by the name in a pass.
Matches(team, ids) ==
    /\ HasName(team)
    /\ \/ team.ids \cap ids # {}
       \/ \E p \in PassesOf(team.name) : p.id \in ids

\* myTVSportsPeople: the known teams, and the passes for other names.
SportsPeople ==
    LET found == {t \in KnownTeams : t.id # "" /\ HasName(t)}
    IN  found \cup {p \in BuiltIn : \A t \in found : t.name # p.name}

\* dropPhantomSportsFollows: ids that only nameless teams answer to.
Phantoms(ids, teams) ==
    {id \in ids \ (Labelled \cup {p.id : p \in BuiltIn}) :
        /\ \E t \in teams : id \in t.ids /\ ~HasName(t)
        /\ ~\E t \in teams : id \in t.ids /\ HasName(t)}

(***************************************************************************)
(* What is loaded                                                          *)
(***************************************************************************)
DropPhantoms(teams) ==
    follows' = IF prefsLoaded THEN follows \ Phantoms(follows, teams) ELSE follows

\* loadSports
LoadScores(teams) ==
    /\ scores' = teams
    /\ DropPhantoms(teams \cup roster)
    /\ UNCHANGED <<storedFollows, prefsLoaded, pending, roster, toggles>>

\* loadSportsLeagueTeams; the scores name the league.
LoadRoster ==
    /\ scores # NoScores
    /\ roster' = Roster
    /\ DropPhantoms(scores \cup Roster)
    /\ UNCHANGED <<storedFollows, prefsLoaded, pending, scores, toggles>>

\* adoptLoadedPrefs: what is stored, without phantoms, and with the edits made
\* meanwhile.
LoadPrefs ==
    /\ ~prefsLoaded
    /\ LET known == storedFollows \ KnownPhantoms
           kept == IF scores = NoScores THEN known ELSE known \ Phantoms(known, KnownTeams)
       IN  follows' = ((kept \ pending) \cup (follows \cap pending)) \ KnownPhantoms
    /\ prefsLoaded' = TRUE
    /\ pending' = {}
    /\ UNCHANGED <<storedFollows, scores, roster, toggles>>

(***************************************************************************)
(* The buttons                                                             *)
(***************************************************************************)
\* Mutant: only the one id is forgotten.
UnfollowedOneID(id) == follows \ {id}

\* toggleSportsTeamFavorite, to off: every id of those with the team's name.
Unfollowed(id) ==
    LET people == BuiltIn \cup SportsPeople
        names == {p.name : p \in {q \in people : id \in q.ids}}
    IN  follows \ ({id} \cup UNION {p.ids : p \in {q \in people : q.name \in names}})

\* toggleSportsTeamFavorite
Toggle(id, enabled) ==
    /\ toggles > 0
    /\ toggles' = toggles - 1
    /\ follows' = IF enabled THEN follows \cup {id} ELSE Unfollowed(id)
    /\ pending' = IF prefsLoaded THEN {}
                  ELSE pending \cup {x \in follows \cup follows' : (x \in follows) # (x \in follows')}
    /\ UNCHANGED <<storedFollows, prefsLoaded, scores, roster>>

\* sportsTeamFavoriteButton: the id already followed, else the pass, else the
\* team's own.
HeartID(team) ==
    LET passes == {p.id : p \in PassesOf(team.name)}
    IN  IF team.id \in follows THEN team.id
        ELSE IF passes \cap follows # {} THEN CHOOSE id \in passes \cap follows : TRUE
        ELSE IF passes # {} THEN CHOOSE id \in passes : TRUE
        ELSE team.id

\* The button on the tile of a game.
PressHeart(team) ==
    /\ team \in scores /\ team.id # "" /\ HasName(team)
    /\ Toggle(HeartID(team), ~Matches(team, follows))

\* The button on a card: of a game, of the roster, or of what a search found.
PressCard(team) ==
    /\ team \in KnownTeams \cup SportsPeople /\ team.id # ""
    /\ Toggle(team.id, ~Matches(team, follows))

\* The cross on the card of something followed.
RemovePass(id) == id \in follows /\ Toggle(id, FALSE)

FollowsNext ==
    \/ \E teams \in Payloads : LoadScores(teams)
    \/ LoadRoster \/ LoadPrefs
    \/ \E team \in AllTeams : PressHeart(team)
    \/ \E team \in AllTeams \cup BuiltIn : PressCard(team)
    \/ \E id \in follows : RemovePass(id)

(***************************************************************************)
(* Properties                                                              *)
(***************************************************************************)
\* A button does what it says: pressed on a team that is shown as followed, the
\* team is shown as not followed, and the other way round, whichever of its ids
\* the follow was stored under and on whichever card the button is.
ButtonsTakeEffect ==
    [][toggles' # toggles =>
          \A team \in AllTeams \cup BuiltIn :
             HasName(team) /\ (PressHeart(team) \/ PressCard(team))
                => (Matches(team, follows') <=> ~Matches(team, follows))]_followVars
=============================================================================
