------------------------------ MODULE PrefsSync ------------------------------
(***************************************************************************)
(* The synchronisation of a viewer's preferences between browser tabs and  *)
(* the Silo settings store (ui/prefs.js, with the edits of ui/app.js).     *)
(*                                                                         *)
(* Of the stored keys the model keeps one that belongs to a profile, the   *)
(* favorites with their order, and one shared by all profiles that is      *)
(* replaced as a whole, the profile selection.  The store is read and      *)
(* written as a whole, without a version: a write lands when it lands.     *)
(***************************************************************************)
EXTENDS Lists

CONSTANTS
    Tabs, Channels,
    Viewers,      \* Silo profiles
    NoProfile,    \* the viewer without a profile id
    Selections,   \* values of profileSelection
    AllProfiles,  \* its default
    Legacy,       \* favoriteOrder of the legacy top level
    MaxEdits,     \* edits of the viewers
    MaxSwitches,  \* profile switches inside a tab
    MaxFailures,  \* failed requests
    None

ASSUME PrefsConstants ==
    /\ AllProfiles \in Selections
    /\ NoProfile \notin Viewers
    /\ Legacy \in Seq(Channels) /\ IsInjective(Legacy)
    /\ MaxEdits \in Nat
    /\ {MaxSwitches, MaxFailures} \subseteq Nat

VARIABLES
    cloud,     \* the stored preferences: legacy top level and sections
    tab,       \* what each tab knows (prefsSync and state.app.preferences)
    save,      \* the save at the head of a tab's write queue
    reload,    \* prefsSync.loading of each tab
    edits, switches,
    failures,  \* failed requests left
    made,      \* history: <<profile, channel>> made a favorite on its view
    unmade,    \* history: <<profile, channel>> dropped on its view
    fresh      \* history: no load reached the tab since its save began

vars == <<cloud, tab, save, reload, edits, switches, failures, made, unmade, fresh>>

(***************************************************************************)
(* The merge                                                               *)
(***************************************************************************)
DefaultPrefs == [favorites |-> {}, favoriteOrder |-> <<>>, profileSelection |-> AllProfiles]

UniqueIDs(s) == FoldLeft(LAMBDA acc, x : IF Contains(acc, x) THEN acc ELSE Append(acc, x), <<>>, s)

\* mergePrefsList for favoriteOrder: the additions go behind, unless this tab
\* reordered the list; then its order wins.
MergePrefsList(remote, baseline, local) ==
    LET B == ToSet(baseline)
        L == ToSet(local)
        added == Only(local, L \ B)
        kept == Only(remote, (ToSet(remote) \ B) \cup L)
    IN  UniqueIDs(IF Only(local, B) # Only(baseline, L) THEN local \o kept ELSE kept \o added)

\* Mutant: the order keeps what the favorites have lost.
ApplyPrefsDiffUnfiltered(remote, baseline, local) ==
    [favorites |-> (remote.favorites \ (baseline.favorites \ local.favorites))
                       \cup (local.favorites \ baseline.favorites),
     favoriteOrder |-> IF local.favoriteOrder = baseline.favoriteOrder
                       THEN remote.favoriteOrder
                       ELSE MergePrefsList(remote.favoriteOrder, baseline.favoriteOrder,
                                           local.favoriteOrder),
     profileSelection |-> IF local.profileSelection = baseline.profileSelection
                          THEN remote.profileSelection ELSE local.profileSelection]

\* applyPrefsDiff: what changed from baseline to local, done to remote.
ApplyPrefsDiff(remote, baseline, local) ==
    LET favorites == (remote.favorites \ (baseline.favorites \ local.favorites))
                         \cup (local.favorites \ baseline.favorites)
        order == IF local.favoriteOrder = baseline.favoriteOrder
                 THEN remote.favoriteOrder
                 ELSE MergePrefsList(remote.favoriteOrder, baseline.favoriteOrder,
                                     local.favoriteOrder)
    IN  [favorites |-> favorites,
         favoriteOrder |-> Only(order, favorites),
         profileSelection |-> IF local.profileSelection = baseline.profileSelection
                              THEN remote.profileSelection ELSE local.profileSelection]

\* normalizePreferences: the order is completed with the favorites it misses.
NormalizePreferences(view) ==
    [view EXCEPT !.favoriteOrder =
        UniqueIDs(Only(@, view.favorites) \o SetToSeq(view.favorites \ ToSet(@)))]

\* profileView
ProfileView(remote, profile) ==
    IF profile = NoProfile \/ remote.sections[profile] = None THEN remote.top
    ELSE [remote.top EXCEPT !.favorites = remote.sections[profile].favorites,
                            !.favoriteOrder = remote.sections[profile].favoriteOrder]

\* Mutant: the view of a profile is written to the top level as well.
MergeProfileViewLegacy(remote, merged, profile) ==
    IF profile = NoProfile THEN [remote EXCEPT !.top = merged]
    ELSE [remote EXCEPT
            !.top = merged,
            !.sections[profile] = [favorites |-> merged.favorites,
                                   favoriteOrder |-> merged.favoriteOrder]]

\* mergeProfileView: the scoped keys go into the section of the profile, and the
\* legacy ones keep their stored values.
MergeProfileView(remote, merged, profile) ==
    IF profile = NoProfile THEN [remote EXCEPT !.top = merged]
    ELSE [remote EXCEPT
            !.top.profileSelection = merged.profileSelection,
            !.sections[profile] = [favorites |-> merged.favorites,
                                   favoriteOrder |-> merged.favoriteOrder]]

(***************************************************************************)
(* States                                                                  *)
(***************************************************************************)
Profiles == Viewers \cup {NoProfile}

LegacyPrefs == [DefaultPrefs EXCEPT !.favorites = ToSet(Legacy), !.favoriteOrder = Legacy]

NoSave == [pc |-> "idle", baseline |-> None, local |-> None, profile |-> None, values |-> None]
NoReload == [values |-> None, retries |-> FALSE]

\* What hydrateApp leaves: the preferences are there, or their load has failed.
Init ==
    /\ cloud = [top |-> LegacyPrefs, sections |-> [p \in Viewers |-> None]]
    /\ \E p \in Profiles, loaded \in BOOLEAN :
          tab = [t \in Tabs |->
                   [active |-> p, loaded |-> loaded, profile |-> IF loaded THEN p ELSE NoProfile,
                    baseline |-> IF loaded THEN LegacyPrefs ELSE DefaultPrefs,
                    local |-> IF loaded THEN LegacyPrefs ELSE DefaultPrefs,
                    dirty |-> FALSE, timer |-> FALSE, retryTimer |-> IF loaded THEN "none" ELSE "load",
                    queued |-> FALSE, notice |-> FALSE]]
    /\ save = [t \in Tabs |-> NoSave]
    /\ reload = [t \in Tabs |-> NoReload]
    /\ edits = MaxEdits
    /\ switches = MaxSwitches
    /\ failures = MaxFailures
    /\ made = {NoProfile} \X ToSet(Legacy)
    /\ unmade = {}
    /\ fresh = [t \in Tabs |-> TRUE]

PrefsProfileSwitched(t) == tab[t].loaded /\ tab[t].profile # tab[t].active

\* The helpers below take the record x of a tab and give the next one.
DiscardPendingPrefsEdits(x) == [x EXCEPT !.timer = FALSE, !.dirty = FALSE]

SchedulePrefsLoadRetry(x) ==
    IF (x.loaded /\ x.profile = x.active) \/ x.retryTimer # "none" THEN x
    ELSE [x EXCEPT !.retryTimer = "load"]

SchedulePrefsFlush(x) == [x EXCEPT !.dirty = TRUE, !.timer = TRUE]

FlushPrefsSave(x) == [x EXCEPT !.timer = FALSE, !.queued = TRUE]

SavePrefs(x) ==
    IF x.loaded THEN SchedulePrefsFlush(x)
    ELSE SchedulePrefsLoadRetry([x EXCEPT !.dirty = TRUE])

\* adoptLoadedPrefs: view replaces what the tab had; the edits made to
\* previousLocal before are made again, unless they were another profile's.
AdoptLoadedPrefs(x, view, previousLocal, profile) ==
    LET y == IF x.loaded /\ x.profile # profile THEN DiscardPendingPrefsEdits(x) ELSE x
        z == [y EXCEPT !.loaded = TRUE, !.profile = profile, !.baseline = view,
                       !.local = view, !.retryTimer = "none"]
    IN  IF y.dirty /\ previousLocal # None
        THEN SchedulePrefsFlush(
                [z EXCEPT !.local =
                    NormalizePreferences(ApplyPrefsDiff(view, x.baseline, previousLocal))])
        ELSE z

LoadedView(values, profile) == NormalizePreferences(ProfileView(values, profile))

Stale(t) == fresh' = [fresh EXCEPT ![t] = FALSE]

\* reloadPrefsFromRemote: a load in flight is shared.  What it reads arrives
\* later, whatever is written meanwhile.
Reloading(t, retries) ==
    reload' = [reload EXCEPT ![t].values = IF @ = None THEN cloud ELSE @,
                             ![t].retries = @ \/ retries]

(***************************************************************************)
(* The viewer                                                              *)
(***************************************************************************)
\* Edits made before a load are for whichever profile gets loaded.
EditedFor(t) == IF tab[t].loaded THEN {tab[t].profile} ELSE Profiles

Edit(t, local) ==
    /\ edits > 0
    /\ edits' = edits - 1
    /\ local # tab[t].local
    /\ tab' = [tab EXCEPT ![t] = SavePrefs([@ EXCEPT !.local = local])]
    /\ UNCHANGED <<cloud, save, reload, switches, failures, fresh>>

\* setChannelFavorite
AddFavorite(t, c) ==
    /\ c \notin tab[t].local.favorites
    /\ Edit(t, NormalizePreferences(
                [tab[t].local EXCEPT !.favorites = @ \cup {c},
                                     !.favoriteOrder = UniqueIDs(Append(@, c))]))
    /\ made' = made \cup (EditedFor(t) \X {c})
    /\ UNCHANGED unmade

DropFavorite(t, c) ==
    /\ c \in tab[t].local.favorites
    /\ Edit(t, NormalizePreferences(
                [tab[t].local EXCEPT !.favorites = @ \ {c}, !.favoriteOrder = Only(@, Channels \ {c})]))
    /\ unmade' = unmade \cup (EditedFor(t) \X {c})
    /\ UNCHANGED made

\* moveFavorite: a favorite changes places with its neighbour.
MoveFavorite(t, i) ==
    LET order == tab[t].local.favoriteOrder
    IN  /\ i \in 1 .. Len(order) - 1
        /\ Edit(t, [tab[t].local EXCEPT !.favoriteOrder =
                       [order EXCEPT ![i] = order[i + 1], ![i + 1] = order[i]]])
        /\ UNCHANGED <<made, unmade>>

\* applyProfileSelection
SelectProfiles(t, s) ==
    /\ Edit(t, [tab[t].local EXCEPT !.profileSelection = s])
    /\ UNCHANGED <<made, unmade>>

\* Silo switches the profile inside its page.
SwitchProfile(t, p) ==
    /\ switches > 0
    /\ switches' = switches - 1
    /\ p # tab[t].active
    /\ tab' = [tab EXCEPT ![t].active = p]
    /\ UNCHANGED <<cloud, save, reload, edits, failures, made, unmade, fresh>>

(***************************************************************************)
(* Loading                                                                 *)
(***************************************************************************)
\* visibilitychange, and the message of another tab.
BecomeVisible(t) ==
    /\ Reloading(t, TRUE)
    /\ UNCHANGED <<cloud, tab, save, edits, switches, failures, made, unmade, fresh>>

HandlePrefsSyncMessage(t) ==
    /\ tab[t].notice
    /\ tab' = [tab EXCEPT ![t].notice = FALSE]
    /\ Reloading(t, FALSE)
    /\ UNCHANGED <<cloud, save, edits, switches, failures, made, unmade, fresh>>

\* A load leaves edits that wait for their save alone, unless the profile has
\* changed: then they are dropped.
ReloadDone(t) ==
    /\ reload[t].values # None
    /\ reload' = [reload EXCEPT ![t] = NoReload]
    /\ LET view == LoadedView(reload[t].values, tab[t].active)
       IN  \/ /\ PrefsProfileSwitched(t)
              /\ tab' = [tab EXCEPT ![t] = AdoptLoadedPrefs(DiscardPendingPrefsEdits(@), view,
                                                            None, tab[t].active)]
              /\ Stale(t)
           \/ /\ ~PrefsProfileSwitched(t)
              /\ tab[t].loaded /\ tab[t].dirty
              /\ UNCHANGED <<tab, fresh>>
           \/ /\ ~PrefsProfileSwitched(t)
              /\ ~(tab[t].loaded /\ tab[t].dirty)
              /\ tab' = [tab EXCEPT ![t] = AdoptLoadedPrefs(@, view, tab[t].local, tab[t].active)]
              /\ Stale(t)
    /\ UNCHANGED <<cloud, save, edits, switches, failures, made, unmade>>

ReloadFails(t) ==
    /\ failures > 0
    /\ failures' = failures - 1
    /\ reload[t].values # None
    /\ reload' = [reload EXCEPT ![t] = NoReload]
    /\ tab' = IF reload[t].retries THEN [tab EXCEPT ![t] = SchedulePrefsLoadRetry(@)] ELSE tab
    /\ UNCHANGED <<cloud, save, edits, switches, made, unmade, fresh>>

\* The one retry timer serves loads and saves.
RetryTimer(t) ==
    /\ tab[t].retryTimer # "none"
    /\ LET x == [tab[t] EXCEPT !.retryTimer = "none"]
       IN  \/ /\ tab[t].retryTimer = "load"
              /\ tab' = [tab EXCEPT ![t] = x]
              /\ Reloading(t, TRUE)
           \/ /\ tab[t].retryTimer = "save"
              /\ tab' = [tab EXCEPT ![t] = IF x.dirty THEN FlushPrefsSave(x) ELSE x]
              /\ UNCHANGED reload
    /\ UNCHANGED <<cloud, save, edits, switches, failures, made, unmade, fresh>>

(***************************************************************************)
(* Saving                                                                  *)
(***************************************************************************)
\* The debounce timer, or the page is hidden with edits to save.
Flush(t) ==
    /\ tab[t].timer \/ (tab[t].dirty /\ tab[t].loaded)
    /\ tab' = [tab EXCEPT ![t] = FlushPrefsSave(@)]
    /\ UNCHANGED <<cloud, save, reload, edits, switches, failures, made, unmade, fresh>>

\* dropEditsForSwitchedProfile, of the tab record x.
DropEdits(t, x) ==
    /\ tab' = [tab EXCEPT ![t] = DiscardPendingPrefsEdits(x)]
    /\ Reloading(t, TRUE)

\* runPrefsSave up to the read of the store.
RunPrefsSave(t) ==
    /\ tab[t].queued
    /\ save[t].pc = "idle"
    /\ LET x == [tab[t] EXCEPT !.queued = FALSE]
       IN  \/ /\ ~tab[t].dirty \/ ~tab[t].loaded
              /\ tab' = [tab EXCEPT ![t] = x]
              /\ UNCHANGED <<save, reload, fresh>>
           \/ /\ tab[t].dirty
              /\ PrefsProfileSwitched(t)
              /\ DropEdits(t, x)
              /\ UNCHANGED <<save, fresh>>
           \/ /\ tab[t].dirty /\ tab[t].loaded
              /\ ~PrefsProfileSwitched(t)
              /\ tab' = [tab EXCEPT ![t] = [x EXCEPT !.dirty = FALSE]]
              /\ save' = [save EXCEPT ![t] = [NoSave EXCEPT
                            !.pc = "read", !.baseline = x.baseline, !.local = x.local,
                            !.profile = x.profile]]
              /\ fresh' = [fresh EXCEPT ![t] = TRUE]
              /\ UNCHANGED reload
    /\ UNCHANGED <<cloud, edits, switches, failures, made, unmade>>

\* The store is read and, if the profile is still the same, the write is sent.
WritePluginSettingsValues(t) ==
    LET s == save[t]
        merged == ApplyPrefsDiff(ProfileView(cloud, s.profile), s.baseline, s.local)
    IN  /\ s.pc = "read"
        /\ \/ /\ tab[t].active = s.profile
              /\ save' = [save EXCEPT ![t].pc = "put", ![t].baseline = None,
                                      ![t].values = MergeProfileView(cloud, merged, s.profile)]
              /\ UNCHANGED <<tab, reload>>
           \/ /\ tab[t].active # s.profile
              /\ save' = [save EXCEPT ![t] = NoSave]
              /\ DropEdits(t, tab[t])
        /\ UNCHANGED <<cloud, edits, switches, failures, made, unmade, fresh>>

PutLands(t) ==
    /\ save[t].pc = "put"
    /\ cloud' = save[t].values
    /\ save' = [save EXCEPT ![t].pc = "landed"]
    /\ UNCHANGED <<tab, reload, edits, switches, failures, made, unmade, fresh>>

\* A read or a write fails, or the answer of a write that landed is lost.
SaveFails(t) ==
    /\ failures > 0
    /\ failures' = failures - 1
    /\ save[t].pc # "idle"
    /\ save' = [save EXCEPT ![t] = NoSave]
    /\ tab' = [tab EXCEPT ![t].dirty = TRUE,
                          ![t].retryTimer = IF @ = "none" THEN "save" ELSE @]
    /\ UNCHANGED <<cloud, reload, edits, switches, made, unmade, fresh>>

\* Mutant: what was edited while the save was on its way is overwritten.
SaveDoneOver(t) ==
    LET s == save[t]
        merged == NormalizePreferences(ProfileView(s.values, s.profile))
    IN  /\ s.pc = "landed"
        /\ save' = [save EXCEPT ![t] = NoSave]
        /\ tab' = [u \in Tabs |->
                     IF u = t THEN [tab[t] EXCEPT !.baseline = merged, !.local = merged]
                     ELSE [tab[u] EXCEPT !.notice = TRUE]]
        /\ UNCHANGED <<cloud, reload, edits, switches, failures, made, unmade, fresh>>

\* The save is answered: what is stored now is the baseline, and the edits made
\* since the save began are made to it.  The other tabs are told.
SaveDone(t) ==
    LET s == save[t]
        merged == NormalizePreferences(ProfileView(s.values, s.profile))
    IN  /\ s.pc = "landed"
        /\ save' = [save EXCEPT ![t] = NoSave]
        /\ tab' = [u \in Tabs |->
                     IF u = t
                     THEN [tab[t] EXCEPT !.baseline = merged,
                                         !.local = ApplyPrefsDiff(merged, s.local, tab[t].local)]
                     ELSE [tab[u] EXCEPT !.notice = TRUE]]
        /\ UNCHANGED <<cloud, reload, edits, switches, failures, made, unmade, fresh>>

\* A viewer p edits the favorites on another device, and the save meets no other
\* one: the tabs here see the store change, and are told if they share a browser.
SavedElsewhere(p, c) ==
    LET view == ProfileView(cloud, p)
        local == NormalizePreferences(
                    IF c \in view.favorites
                    THEN [view EXCEPT !.favorites = @ \ {c}, !.favoriteOrder = Only(@, Channels \ {c})]
                    ELSE [view EXCEPT !.favorites = @ \cup {c}, !.favoriteOrder = Append(@, c)])
    IN  /\ edits > 0
        /\ edits' = edits - 1
        /\ cloud' = MergeProfileView(cloud, ApplyPrefsDiff(view, view, local), p)
        /\ made' = IF c \in local.favorites THEN made \cup {<<p, c>>} ELSE made
        /\ unmade' = IF c \in local.favorites THEN unmade ELSE unmade \cup {<<p, c>>}
        /\ \E told \in SUBSET Tabs :
              tab' = [t \in Tabs |-> IF t \in told THEN [tab[t] EXCEPT !.notice = TRUE] ELSE tab[t]]
        /\ UNCHANGED <<save, reload, switches, failures, fresh>>

Next ==
    \/ \E p \in Profiles, c \in Channels : SavedElsewhere(p, c)
    \/ \E t \in Tabs :
          \/ \E c \in Channels : AddFavorite(t, c) \/ DropFavorite(t, c)
          \/ \E i \in 1 .. Cardinality(Channels) : MoveFavorite(t, i)
          \/ \E s \in Selections : SelectProfiles(t, s)
          \/ \E p \in Profiles : SwitchProfile(t, p)
          \/ BecomeVisible(t) \/ HandlePrefsSyncMessage(t)
          \/ ReloadDone(t) \/ ReloadFails(t)
          \/ RetryTimer(t) \/ Flush(t) \/ RunPrefsSave(t)
          \/ WritePluginSettingsValues(t) \/ PutLands(t) \/ SaveFails(t) \/ SaveDone(t)

Spec == Init /\ [][Next]_vars

(***************************************************************************)
(* Properties                                                              *)
(***************************************************************************)
FavoritesOf(p) == ProfileView(cloud, p).favorites

OrderFits(view) ==
    /\ ToSet(view.favoriteOrder) = view.favorites
    /\ Len(view.favoriteOrder) = Cardinality(view.favorites)

\* Type invariant.
TypeOK ==
    /\ \A t \in Tabs :
          /\ tab[t].active \in Profiles /\ tab[t].profile \in Profiles
          /\ tab[t].local.favorites \subseteq Channels
          /\ tab[t].local.profileSelection \in Selections
          /\ tab[t].retryTimer \in {"none", "load", "save"}
          /\ tab[t].timer => tab[t].loaded
          /\ save[t].pc \in {"idle", "read", "put", "landed"}
          /\ reload[t].retries \in BOOLEAN
    /\ cloud.top.favorites \subseteq Channels
    /\ made \cup unmade \subseteq Profiles \X Channels

\* "Local edits ... into that profile's section": a channel becomes a favorite
\* of a profile only by an edit made on the view of that profile, or on the
\* legacy view it starts from, whatever is switched, loaded, saved or retried
\* meanwhile.
ProfilesApart ==
    \A p \in Profiles : \A c \in FavoritesOf(p) : {<<p, c>>, <<NoProfile, c>>} \cap made # {}

\* The order and the favorites agree, in every view and in the store, however
\* additions, removals and moves of several tabs are merged.
OrderMatchesFavorites ==
    /\ \A p \in Profiles : OrderFits(ProfileView(cloud, p))
    /\ \A t \in Tabs : OrderFits(tab[t].local) /\ OrderFits(tab[t].baseline)

\* The end of a save keeps what was edited while it was on its way, provided no
\* load has replaced the view in between.
InFlightEditsAreKept ==
    [][ \A t \in Tabs :
            LET then == save[t].local.favorites
                now == tab[t].local.favorites
            IN  save[t].pc = "landed" /\ save'[t].pc = "idle" /\ fresh[t]
                    => \A c \in Channels :
                          (c \in then) # (c \in now)
                              => (c \in tab'[t].local.favorites) = (c \in now) ]_vars

\* "every save re-reads the remote blob and applies only that diff, so
\* concurrent tabs/devices do not overwrite each other": a favorite of a profile
\* disappears from the store only if a viewer has dropped it.
OnlyTheViewerDrops ==
    [][ \A p \in Profiles : \A c \in FavoritesOf(p) :
            c \in (FavoritesOf(p))' \/ {<<p, c>>, <<NoProfile, c>>} \cap unmade' # {} ]_vars

=============================================================================
