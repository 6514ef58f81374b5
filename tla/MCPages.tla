------------------------------ MODULE MCPages ------------------------------
(***************************************************************************)
(* The pages that share no state, checked in one run: a behaviour is of    *)
(* one page, and the variables of the others keep one initial value.       *)
(***************************************************************************)
EXTENDS Lineup, SourceManager, PlayerOverlays, MediaSource, GuideGrid, SportsPage, SportsFollows,
        CoreSession, AdminSettings, TLC

CONSTANTS
    a, b, c, d, e,  \* channels of the guide
    g1, g2          \* games of the sports page

VARIABLE page

-----------------------------------------------------------------------------
\* The lineup
EveryWord ==
    {"USA", "US TV", "Local", "Locals", "LOCALS", "TV", "International TV", "International News",
     "News / World", "News", "World", "Movies", "CA", "Los Angeles", "KABC", "FR", "Info", "Kino",
     "family", "kids"}
SplitAt(word) == IF word = "News / World" THEN <<"News", "World">> ELSE <<word>>
SameWord(x, y) == x = y \/ {x, y} = {"Locals", "LOCALS"}
USLocals == [starred |-> FALSE, parts |-> <<"USA", "Locals">>]
World == [starred |-> TRUE, parts |-> <<"News / World">>]
Movies == [starred |-> FALSE, parts |-> <<"Movies">>]
TwoCatalogs ==
    { [channels |-> (1 :> [category |-> USLocals, name |-> <<"LOCALS", "CA", "KABC">>,
                           profiles |-> {"family"}] @@
                     2 :> [category |-> World, name |-> <<"FR", "Info">>,
                           profiles |-> {"family", "kids"}] @@
                     3 :> [category |-> Movies, name |-> <<"Kino">>, profiles |-> {}]),
       profiles |-> {"family", "kids"}],
      [channels |-> (1 :> [category |-> USLocals, name |-> <<"CA", "Los Angeles", "KABC">>,
                           profiles |-> {"kids"}] @@
                     4 :> [category |-> Movies, name |-> <<"Kino">>, profiles |-> {"kids"}]),
       profiles |-> {"kids"}] }
RootOf == (1 :> "International TV" @@ 2 :> "International News" @@
           3 :> "International TV" @@ 4 :> "International TV")
Alias == [from |-> <<"USA", "Locals">>, to |-> <<"Local", "TV">>]
FourSettings ==
    { [source |-> "group", collapse |-> TRUE, aliases |-> {}, delimiter |-> FALSE],
      [source |-> "group_channel", collapse |-> TRUE, aliases |-> {Alias}, delimiter |-> TRUE],
      [source |-> "channel", collapse |-> FALSE, aliases |-> {}, delimiter |-> TRUE],
      [source |-> "profile_group", collapse |-> TRUE, aliases |-> {Alias}, delimiter |-> TRUE] }

\* The guide: programs that overlap, a row without, and the guide a slot later.
FiveRows == <<a, b, c, d, e>>
Airing(i, from, to, found) == [id |-> i, start |-> from, end |-> to, match |-> found]
Overlapping ==
    (a :> {Airing("p", 1, 3, TRUE), Airing("q", 2, 5, FALSE)}) @@ (b :> {}) @@
    (c :> {Airing("s", 2, 3, FALSE), Airing("t", 3, 6, FALSE)}) @@ (d :> {}) @@ (e :> {})
Moved ==
    (a :> {Airing("q", 2, 4, FALSE)}) @@ (b :> {Airing("u", 3, 5, FALSE)}) @@
    (c :> {Airing("t", 3, 6, FALSE)}) @@ (d :> {}) @@ (e :> {})
TwoGuides == <<Overlapping, Moved>>

\* Teams: one with a built-in pass and a former id, in the scores also by its
\* name alone; one that is nameless in one of the answers; and two that always are.
Pass == [id |-> "gamepass:mlb:cubs", ids |-> {"gamepass:mlb:cubs"}, name |-> "cubs"]
Cubs == [id |-> "team:1", ids |-> {"team:1", "old:1"}, name |-> "cubs"]
CubsByName == [id |-> "", ids |-> {}, name |-> "cubs"]
Wings == [id |-> "team:2", ids |-> {"team:2"}, name |-> "wings"]
NamelessWings == [Wings EXCEPT !.name = ""]
Phantom(id) == [id |-> id, ids |-> {id}, name |-> ""]
OnePass == {Pass}
TwoPayloads == {{Cubs, Phantom("team:3"), NamelessWings}, {CubsByName, Wings, Phantom("team:4")}}
TwoTeams == {Cubs, Wings}
ThreeFollows == {{"gamepass:mlb:cubs", "old:1"}, {"team:1", "team:2", "team:3", "team:4", "known"}, {}}

\* The administrator's settings: legacy ones with spellings that are normalised,
\* and categories taken from the profiles.
Spelled == [n \in {1, 2, 3, 11} |-> IF n = 11 THEN 1 ELSE n]
Lowered == [w \in {"oscars", "emmys", "ufc", "UFC", "mma", "fair"} |-> IF w = "UFC" THEN "ufc" ELSE w]
TwoKeywords == << [category |-> 1, words |-> <<"oscars">>, series |-> FALSE, window |-> 0],
                  [category |-> 2, words |-> <<"ufc">>, series |-> TRUE, window |-> 60] >>
LegacyRows == << [category |-> 3, words |-> <<"fair">>, series |-> TRUE, window |-> 5],
                 [category |-> 11, words |-> <<"emmys", "oscars">>, series |-> FALSE, window |-> 0],
                 [category |-> 2, words |-> <<"UFC", "mma">>, series |-> TRUE, window |-> 90] >>
Legacy == [DefaultSettings EXCEPT !.mode = "custom", !.source = "", !.infer = TRUE, !.label = 1,
                                  !.aliases = <<[from |-> "News", to |-> "World"]>>,
                                  !.keywords = LegacyRows]
ByProfile == [DefaultSettings EXCEPT !.source = "profile_group"]
TwoStored == {Legacy, ByProfile}

-----------------------------------------------------------------------------
\* One page is open; of the others, one initial state.
PagesInit ==
    /\ page \in {"lineup", "sources", "player", "media", "guide", "sports", "follows",
                 "session", "settings"}
    /\ LineupInit
    /\ page # "lineup" =>
          app = (CHOOSE x \in Catalogs : TRUE) /\ settings = (CHOOSE x \in Settings : TRUE)
    /\ SourcesInit
    /\ page # "sources" => stored = [s \in Sources |-> "absent"] /\ sources = stored /\
          posts = [r \in Requests |-> NoPost]
    /\ OverlaysInit
    /\ page # "player" => ~sportsFirst
    /\ MediaInit
    /\ page # "media" => scripts = "no"
    /\ GridInit
    /\ page # "guide" => guide = 1
    /\ SportsInit
    /\ FollowsInit
    /\ page # "follows" => storedFollows = {}
    /\ SessionInit
    /\ page # "session" => ~refreshToken /\ ~cookie
    /\ AdminInit
    /\ page # "settings" => plugin = ByProfile /\ LoadedWith(plugin)

PagesNext ==
    /\ UNCHANGED page
    /\ IF page = "lineup" THEN TRUE ELSE UNCHANGED lineupVars
    /\ IF page = "sources" THEN TRUE ELSE UNCHANGED sourceVars
    /\ IF page = "player" THEN TRUE ELSE UNCHANGED overlayVars
    /\ IF page = "media" THEN TRUE ELSE UNCHANGED mediaVars
    /\ IF page = "guide" THEN TRUE ELSE UNCHANGED gridVars
    /\ IF page = "sports" THEN TRUE ELSE UNCHANGED sportsVars
    /\ IF page = "follows" THEN TRUE ELSE UNCHANGED followVars
    /\ IF page = "session" THEN TRUE ELSE UNCHANGED sessionVars
    /\ IF page = "settings" THEN TRUE ELSE UNCHANGED adminVars
    /\ \/ page = "lineup" /\ LineupNext
       \/ page = "sources" /\ SourcesNext
       \/ page = "player" /\ OverlaysNext
       \/ page = "media" /\ MediaNext
       \/ page = "guide" /\ GridNext
       \/ page = "sports" /\ SportsNext
       \/ page = "follows" /\ FollowsNext
       \/ page = "session" /\ SessionNext
       \/ page = "settings" /\ AdminNext

pagesVars == <<page, lineupVars, sourceVars, overlayVars, mediaVars, gridVars, sportsVars,
               followVars, sessionVars, adminVars>>

\* The view: the variables of the open page, as the others keep their one value.
OpenPage ==
    CASE page = "lineup"   -> <<page, lineupVars>>
      [] page = "sources"  -> <<page, sourceVars>>
      [] page = "player"   -> <<page, overlayVars>>
      [] page = "media"    -> <<page, mediaVars>>
      [] page = "guide"    -> <<page, gridVars>>
      [] page = "sports"   -> <<page, sportsVars>>
      [] page = "follows"  -> <<page, followVars>>
      [] page = "session"  -> <<page, sessionVars>>
      [] page = "settings" -> <<page, adminVars>>

PagesSpec == PagesInit /\ [][PagesNext]_pagesVars
=============================================================================
