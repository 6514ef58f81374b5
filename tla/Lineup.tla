------------------------------- MODULE Lineup -------------------------------
(***************************************************************************)
(* How the browser files channels under categories and folders             *)
(* (ui/app.js, ui/lineup.js), and the profile filter over all of it with   *)
(* its two cached maps (ui/core.js).                                       *)
(*                                                                         *)
(* A name is the sequence of the words between its delimiters.  A path is  *)
(* kept in the code as one string joined by " / ", so a word that holds a  *)
(* slash itself becomes several parts of the path: Split does that.        *)
(***************************************************************************)
EXTENDS Naturals, Sequences, FiniteSets, SequencesExt

CONSTANTS
    Catalogs,     \* possible answers of /api/app: [channels, profiles]
    Settings,     \* admin settings: [source, collapse, aliases, delimiter]
    StateCodes,   \* words that are US state codes
    LocalNames,   \* words that call a group local
    Roots,        \* inferredInternationalRoot of a channel
    MaxChanges,   \* bound on the viewer's changes and on the loads
    Words,        \* the words of names and paths
    Split(_),     \* the parts that " / " makes of a word
    Same(_, _),   \* two words are equal but for their case
    None, All

ASSUME LineupConstants ==
    /\ MaxChanges \in Nat
    /\ {"US TV", "Locals"} \subseteq Words
    /\ \A w \in Words : Split(w) \in Seq(Words)
    /\ \A s \in Settings :
          /\ s.source \in {"group", "group_channel", "channel", "profile_group"}
          /\ \A alias \in s.aliases : {alias.from, alias.to} \subseteq Seq(Words)
    /\ \A a \in Catalogs : IsFiniteSet(DOMAIN a.channels)
    /\ \A a \in Catalogs : \A c \in DOMAIN a.channels :
          /\ a.channels[c].name \in Seq(Words) \ {<<>>}
          /\ a.channels[c].category.parts \in Seq(Words) \ {<<>>}
          /\ a.channels[c].profiles \subseteq Words
          /\ Roots[c] \in Words

VARIABLES
    app,          \* state.app: its channels and the provider's profiles
    settings,     \* the administrator's settings
    byPipe,       \* groupCategoriesByPipe of the viewer
    hidden,       \* hiddenCategories
    selection,    \* profileSelection: a set of profiles, {} for all of them
    selectedMap,  \* state.profileSelectionIDMap: None, All, or a set
    channelMap,   \* state.profileChannelFilterMap: None, All, or a set
    category,     \* state.category: a kind and a category or path
    hydrating,    \* hydrateApp waits for the preferences
    changes       \* what is left of MaxChanges

lineupVars == <<app, settings, byPipe, hidden, selection, selectedMap, channelMap,
                category, hydrating, changes>>

Channel(c) == app.channels[c]
AllChannels == DOMAIN app.channels

\* The preferences in force: those of the server are not there while a load
\* waits for them, and nothing is hidden or selected.
HiddenNow == IF hydrating THEN {} ELSE hidden

\* normalizeProfileSelection: what the provider does not list is not selected.
SelectedNow ==
    IF hydrating THEN {}
    ELSE IF app.profiles = {} THEN selection ELSE selection \cap app.profiles

\* categoryParsing
Parsing == (byPipe /\ ~hydrating) \/ settings.delimiter

(***************************************************************************)
(* Paths                                                                   *)
(***************************************************************************)
Path(parts) == FlattenSeq([i \in 1 .. Len(parts) |-> Split(parts[i])])

\* appendUnduplicatedPathParts: what repeats the end of the base is left out.
AppendUnduplicated(base, extra) ==
    LET repeated == {i \in 1 .. Len(extra) : \A j \in 1 .. i : Same(Last(base), extra[j])}
        additions == SubSeq(extra, Cardinality(repeated) + 1, Len(extra))
    IN  IF additions = <<>> THEN <<>> ELSE base \o additions

\* appendVirtualPathParts: <<>> when nothing is appended.
AppendVirtual(base, extra) ==
    IF base = <<>> \/ extra = <<>> THEN <<>>
    ELSE IF ~settings.collapse THEN base \o extra
    ELSE AppendUnduplicated(base, extra)

\* parsedCategoryPath: only a name with a delimiter is a path.
ParsedCategoryPath(name) ==
    IF Parsing /\ Len(name) > 1 THEN Path(name) ELSE <<>>

\* sourceGroupPathForChannel, and categoryPathFromDisplayName for a starred one
SourceGroupPath(c) ==
    LET name == Channel(c).category.parts
    IN  IF ParsedCategoryPath(name) # <<>> THEN ParsedCategoryPath(name) ELSE Path(name)

\* aliasVirtualPathsForSourcePath
AliasPaths(path) ==
    {Path(alias.to) \o SubSeq(path, Len(Path(alias.from)) + 1, Len(path)) :
        alias \in {a \in settings.aliases : path # <<>> /\ IsPrefix(Path(a.from), path)}}

\* featuredPathsForChannel: the category of the channel has a star.
FeaturedPaths(c) ==
    IF Channel(c).category.starred THEN {SourceGroupPath(c)} ELSE {}

\* inferredChannelNameGroupPaths
InferredPaths(c) ==
    LET parts == Channel(c).name
    IN  IF Len(parts) < 2 THEN {}
        ELSE LET base == IF parts[1] \in StateCodes THEN <<"US TV", "Locals", parts[1]>>
                         ELSE <<Roots[c]>> \o Split(parts[1])
             IN  {base, base \o Split(parts[2])}

\* localMarketPathPartsForChannel
LocalMarket(c, sourceParts) ==
    LET parts == Channel(c).name
    IN  IF sourceParts = <<>> \/ Last(sourceParts) \notin LocalNames \/ Len(parts) < 2 THEN <<>>
        ELSE IF parts[1] \in StateCodes THEN <<parts[2]>> ELSE <<parts[1]>>

\* profilePathsForChannel
ProfilePaths(c) ==
    {Split(p) : p \in IF selectedMap = All THEN Channel(c).profiles
                       ELSE Channel(c).profiles \cap selectedMap}

\* profileVirtualPathsForChannel
ProfileVirtualPaths(c) ==
    LET source == SourceGroupPath(c)
        UnderGroup(profile, group) ==
            LET combined == AppendVirtual(profile, group)
            IN  {combined, AppendVirtual(IF combined # <<>> THEN combined ELSE profile \o group,
                                         LocalMarket(c, source))}
    IN  UNION {{profile} \cup UNION {UnderGroup(profile, g) : g \in {source} \cup AliasPaths(source)} :
                  profile \in ProfilePaths(c)}

\* virtualPathsForChannel
VirtualPaths(c) ==
    LET source == ParsedCategoryPath(Channel(c).category.parts)
        combined == AppendVirtual(source, Front(Channel(c).name))
        bySource == IF source = <<>> \/ settings.source = "channel" THEN {}
                    ELSE {source} \cup AliasPaths(source) \cup
                         (IF settings.source = "group_channel"
                          THEN {combined} \cup AliasPaths(combined) ELSE {})
        byName == IF settings.source = "group" THEN {} ELSE InferredPaths(c)
    IN  (IF settings.source = "profile_group" THEN ProfileVirtualPaths(c)
         ELSE bySource \cup byName) \ {<<>>}

(***************************************************************************)
(* The profile filter                                                      *)
(***************************************************************************)
SelectedMapNow == IF SelectedNow = {} THEN All ELSE SelectedNow
ChannelMapNow ==
    IF SelectedNow = {} THEN All
    ELSE {c \in AllChannels : Channel(c).profiles \cap SelectedNow # {}}

\* selectedProfileMap and selectedProfileChannelMap: a map that is missing is
\* computed when a page asks for it.
Drawn == selectedMap # None /\ channelMap # None
DrawMaps ==
    /\ ~Drawn
    /\ selectedMap' = IF selectedMap = None THEN SelectedMapNow ELSE selectedMap
    /\ channelMap' = IF channelMap = None THEN ChannelMapNow ELSE channelMap
    /\ UNCHANGED <<app, settings, byPipe, hidden, selection, category, hydrating, changes>>

\* invalidateProfileSelectionCache
InvalidateMaps == selectedMap' = None /\ channelMap' = None

\* channelMatchesProfileSelection
Allowed == IF channelMap = All THEN AllChannels ELSE channelMap \cap AllChannels

(***************************************************************************)
(* Categories                                                              *)
(***************************************************************************)
Shown == {c \in Allowed : Channel(c).category \notin HiddenNow}

PathsOf(kind, c) == IF kind = "featured" THEN FeaturedPaths(c) ELSE VirtualPaths(c)

Under(paths, path) == \E q \in paths : IsPrefix(path, q)

\* Mutant: a folder shows only the channels filed right in it.
InCategoryExactly(c, id) ==
    CASE id.kind = "source"   -> Channel(c).category = id.of
      [] OTHER -> id.of \in PathsOf(id.kind, c)

\* channelInSelectedCategory
InCategory(c, id) ==
    CASE id.kind = "source"   -> Channel(c).category = id.of
      [] OTHER -> Under(PathsOf(id.kind, c), id.of)

\* visibleChannels, on the page of category id.
VisibleChannels(id) == {c \in Shown : InCategory(c, id)}

\* categoriesFromChannelPaths for all descendants: a folder for every prefix
\* of a path, with the channels that have one.
FoldersFromPaths(kind) ==
    LET paths == UNION {PathsOf(kind, c) : c \in Shown}
        prefixes == UNION {{SubSeq(q, 1, n) : n \in 1 .. Len(q)} : q \in paths}
        Counted(path) == {c \in Shown : \E q \in PathsOf(kind, c) :
                            Len(q) >= Len(path) /\ \A i \in 1 .. Len(path) : q[i] = path[i]}
    IN  {[id |-> [kind |-> kind, of |-> path], count |-> Cardinality(Counted(path))] : path \in prefixes}

\* sourceCategoriesWithChannels without the starred ones.
SourceCategories ==
    {[id |-> [kind |-> "source", of |-> s], count |-> Cardinality({c \in Shown : Channel(c).category = s})] :
        s \in {Channel(c).category : c \in Shown}}

\* allDiscoveryGroups and the filter of the guide, but for the viewer's groups.
OfferedCategories ==
    FoldersFromPaths("virtual") \cup FoldersFromPaths("featured")
        \cup SourceCategories

\* childCategoriesFromChannelPaths: the folders right under a path.
ChildCategories(kind, path) ==
    {folder \in FoldersFromPaths(kind) :
        Len(folder.id.of) = Len(path) + 1 /\ IsPrefix(path, folder.id.of)}

\* categoryName finds a category of the catalog and the top of the listing
\* (adminListingCategories), not a folder inside one or a starred one.
NamedCategories ==
    {[kind |-> "source", of |-> Channel(c).category] : c \in AllChannels}
        \cup (IF Parsing THEN {f.id : f \in ChildCategories("virtual", <<>>)} ELSE {})

(***************************************************************************)
(* The viewer                                                              *)
(***************************************************************************)
LineupInit ==
    /\ app \in Catalogs
    /\ settings \in Settings
    /\ byPipe = FALSE
    /\ hidden = {}
    /\ selection = {}
    /\ selectedMap = None
    /\ channelMap = None
    /\ category = None
    /\ hydrating = FALSE
    /\ changes = MaxChanges

\* The viewer's changes need the preferences, and a drawn page.
Change == changes > 0 /\ changes' = changes - 1
ViewerChange == Change /\ Drawn /\ ~hydrating

\* setCategory, for a category that some page offers.
SetCategory ==
    /\ Drawn
    /\ \E offered \in OfferedCategories : category' = offered.id
    /\ UNCHANGED <<app, settings, byPipe, hidden, selection, selectedMap, channelMap,
                   hydrating, changes>>

\* The change of a box of the settings page.
HideCategory(s) ==
    /\ ViewerChange
    /\ hidden' = IF s \in hidden THEN hidden \ {s} ELSE hidden \cup {s}
    /\ UNCHANGED <<app, settings, byPipe, selection, selectedMap, channelMap, category, hydrating>>

GroupByPipe ==
    /\ ViewerChange
    /\ byPipe' = ~byPipe
    /\ category' = None
    /\ UNCHANGED <<app, settings, hidden, selection, selectedMap, channelMap, hydrating>>

\* applyProfileSelection: the maps are dropped, and those of the new
\* selection say whether the category still has a name.
ApplyProfileSelection(S) ==
    /\ ViewerChange
    /\ UNCHANGED <<app, settings, byPipe, hidden, hydrating>>
    /\ selection' = S
    /\ selectedMap' = SelectedMapNow'
    /\ channelMap' = ChannelMapNow'
    /\ LET named == NamedCategories'
       IN  category' = IF category \in named THEN category ELSE None

\* updateSelectedProfile: with all profiles selected none is, and a selection
\* is never left empty.
UpdateSelectedProfile(p) ==
    LET selected == IF SelectedNow = {} THEN app.profiles ELSE SelectedNow
        next == (IF p \in selected THEN selected \ {p} ELSE selected \cup {p}) \cap app.profiles
    IN  /\ next # {}
        /\ ApplyProfileSelection(IF next = app.profiles THEN {} ELSE next)

\* hydrateApp: the catalog is there before the preferences are.
HydrateApp(catalog) ==
    /\ Change
    /\ ~hydrating
    /\ app' = catalog
    /\ hydrating' = TRUE
    /\ UNCHANGED <<settings, byPipe, hidden, selection, selectedMap, channelMap, category>>

\* ... and its end, with the preferences of the server.
Hydrated(S) ==
    /\ hydrating
    /\ hydrating' = FALSE
    /\ selection' = S
    /\ InvalidateMaps
    /\ UNCHANGED <<app, settings, byPipe, hidden, category, changes>>

\* hydrateApp of a refresh, which keeps the preferences.
HydrateReusing(catalog) ==
    /\ Change
    /\ ~hydrating
    /\ app' = catalog
    /\ InvalidateMaps
    /\ UNCHANGED <<settings, byPipe, hidden, selection, category, hydrating>>

LineupNext ==
    \/ SetCategory \/ DrawMaps \/ GroupByPipe
    \/ \E s \in {Channel(c).category : c \in AllChannels} : HideCategory(s)
    \/ \E p \in app.profiles : UpdateSelectedProfile(p)
    \/ \E S \in SUBSET app.profiles : Hydrated(S)
    \/ \E catalog \in Catalogs : HydrateApp(catalog) \/ HydrateReusing(catalog)

(***************************************************************************)
(* Properties                                                              *)
(***************************************************************************)
\* Two pieces of code decide what is in a folder, one to count its channels
\* and offer it (categoriesFromChannelPaths), the other to show it
\* (channelInSelectedCategory): they agree, so no folder that is offered is
\* empty or shows other channels than it counts.
OfferedIsShown ==
    Drawn => \A offered \in OfferedCategories :
                /\ offered.count > 0
                /\ offered.count = Cardinality(VisibleChannels(offered.id))

=============================================================================
