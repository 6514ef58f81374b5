--------------------------- MODULE PrefsSyncProofs ---------------------------
(***************************************************************************)
(* Proofs about PrefsSync, for any tabs, channels, viewers and selections, *)
(* and however many edits, switches and failures: the favorites of the     *)
(* profiles stay apart, the stored order lists each favorite once, and the *)
(* end of a save keeps what was edited while it was on its way.            *)
(***************************************************************************)
EXTENDS PrefsSync, FoldFacts

(***************************************************************************)
(* The lists: what UniqueIDs leaves of a list of channels.  It is a fold;  *)
(* FoldFacts gives its results place by place, and has what Only leaves.   *)
(***************************************************************************)
UniqueStep(acc, x) == IF Contains(acc, x) THEN acc ELSE Append(acc, x)

UniqueFold(s, g) ==
    [u \in SUBSET (DOMAIN s) |->
        IF u = {} THEN <<>> ELSE UniqueStep(g[u \ {Max(u)}], s[Max(u)])]

UniqueResults(s) == CHOOSE g : g = UniqueFold(s, g)

\* UniqueIDs keeps the elements of a list, each once.
LEMMA UniqueList ==
    ASSUME NEW s \in Seq(Channels)
    PROVE  /\ UniqueIDs(s) \in Seq(Channels)
           /\ IsInjective(UniqueIDs(s))
           /\ ToSet(UniqueIDs(s)) = ToSet(s)
<1> DEFINE C == Channels
           V == Seq(C)
           h == [p \in V \X C |-> UniqueStep(p[1], p[2])]
<1>1. PICK n \in Nat : n = Len(s)
  OBVIOUS
<1>2. PICK r \in [1 .. n -> C] : r = s
  BY <1>1
<1>3. n = Len(s) /\ r = s
  BY <1>1, <1>2
<1>4. n \in Nat /\ r \in [1 .. n -> C] /\ DOMAIN r = 1 .. n /\ <<>> \in V
  OBVIOUS
<1> DEFINE f == UniqueResults(r)
<1>5. UniqueIDs(r) = f[DOMAIN r]
  BY DEF UniqueIDs, FoldLeft, MapThenFoldSet, UniqueResults, UniqueFold, UniqueStep
<1>6. \A a \in V, x \in C : UniqueStep(a, x) \in V BY DEF UniqueStep
<1>7. h \in [V \X C -> V] BY <1>6
<1>8. \A a \in V, x \in C : h[<<a, x>>] = UniqueStep(a, x)
  OBVIOUS
<1> HIDE DEF h
<1>9. f = UniqueFold(r, f)
  <2>1. FoldsOf(V, <<>>, h, n, r) # {}
    <3> HIDE DEF V, C
    <3> QED BY <1>4, <1>7, FoldExists
  <2>2. PICK g : g \in FoldsOf(V, <<>>, h, n, r)
    BY <2>1
  <2>3. /\ g \in [SUBSET (1 .. n) -> V]
        /\ \A u \in SUBSET (1 .. n) :
              g[u] = IF u = {} THEN <<>> ELSE h[<<g[u \ {Max(u)}], r[Max(u)]>>]
    BY <2>2 DEF FoldsOf
  <2>4. ASSUME NEW u \in SUBSET (1 .. n), u # {}
        PROVE  h[<<g[u \ {Max(u)}], r[Max(u)]>>] = UniqueStep(g[u \ {Max(u)}], r[Max(u)])
    <3>1. Max(u) \in 1 .. n BY <1>4, <2>4, MaxOfInterval
    <3>2. r[Max(u)] \in C /\ g[u \ {Max(u)}] \in V BY <1>4, <2>3, <3>1
    <3> QED BY <1>8, <3>2
  <2>5. g = UniqueFold(r, g) BY <1>4, <2>3, <2>4 DEF UniqueFold
  <2> QED BY <2>5 DEF UniqueResults
<1>10. \A u \in SUBSET (1 .. n) :
         f[u] = IF u = {} THEN <<>> ELSE UniqueStep(f[u \ {Max(u)}], r[Max(u)])
  <2> HIDE DEF f
  <2> QED BY <1>4, <1>9 DEF UniqueFold
<1> HIDE DEF f
<1>11. f[{}] = <<>> BY <1>10
<1>12. ASSUME NEW u \in SUBSET (1 .. n), u # {}, f[u \ {Max(u)}] \in V
      PROVE  f[u] = h[<<f[u \ {Max(u)}], r[Max(u)]>>]
  <2>1. Max(u) \in 1 .. n BY <1>4, <1>12, MaxOfInterval
  <2>2. r[Max(u)] \in C BY <1>4, <2>1
  <2> QED BY <1>8, <1>10, <1>12, <2>2
<1>13. PICK acc \in [0 .. n -> V] :
         /\ acc[0] = <<>>
         /\ acc[n] = f[1 .. n]
         /\ \A k \in 0 .. n : k < n => acc[k + 1] = h[<<acc[k], r[k + 1]>>]
  <2> HIDE DEF V, C
  <2>1. Computes(f, V, <<>>, h, n, r) BY <1>11, <1>12 DEF Computes
  <2>2. ResultsOf(f, V, <<>>, h, n, r) # {}
    BY <1>4, <1>7, <2>1, FoldResults
  <2> QED BY <2>2 DEF ResultsOf
<1> DEFINE S == {k \in 0 .. n : IsInjective(acc[k]) /\ ToSet(acc[k]) = Beginning(s, k)}
<1>14. 0 \in S
  <2>1. 1 .. 0 = {} /\ DOMAIN <<>> = {} /\ 0 \in 0 .. n OBVIOUS
  <2>2. IsInjective(<<>>) /\ ToSet(<<>>) = {} /\ Beginning(s, 0) = {}
    BY <2>1 DEF IsInjective, ToSet, Beginning
  <2> QED BY <1>13, <2>1, <2>2
<1>15. ASSUME NEW k \in 0 .. n, k < n, k \in S
       PROVE  k + 1 \in S
  <2>1. /\ Beginning(s, k + 1) = Beginning(s, k) \cup {s[k + 1]}
        /\ s[k + 1] \in C
        /\ k + 1 \in 0 .. n
    BY <1>3, <1>15, BeginningGrows
  <2>2. acc[k] \in V /\ acc[k + 1] = UniqueStep(acc[k], s[k + 1])
    BY <1>3, <1>8, <1>13, <1>15, <2>1
  <2>3. /\ ToSet(Append(acc[k], s[k + 1])) = ToSet(acc[k]) \cup {s[k + 1]}
        /\ IsInjective(acc[k]) /\ s[k + 1] \notin ToSet(acc[k])
              => IsInjective(Append(acc[k], s[k + 1]))
        /\ Contains(acc[k], s[k + 1]) <=> s[k + 1] \in ToSet(acc[k])
    BY <2>1, <2>2, AppendedTo
  <2> QED BY <1>15, <2>1, <2>2, <2>3 DEF UniqueStep
<1> HIDE DEF S
<1>16. n \in S
  <2>1. 0 .. n \subseteq S BY <1>4, <1>14, <1>15, BoundedInduction
  <2> QED BY <1>4, <2>1
<1>17. Beginning(s, n) = ToSet(s) BY <1>3, <1>4 DEF Beginning, ToSet
<1> QED BY <1>3, <1>4, <1>5, <1>13, <1>16, <1>17 DEF S

(***************************************************************************)
(* The inductive invariant.  What a tab shows may hold favorites of any    *)
(* profile (a save that ends after a switch of the profile shows what it   *)
(* wrote until the next load); what is apart are the differences that a    *)
(* tab or a save is going to make to a view.                               *)
(***************************************************************************)
\* The channels that the edits in the history m allow on the view of p.
Allowed(m, p) == {c \in Channels : <<p, c>> \in m \/ <<NoProfile, c>> \in m}

\* The profiles that the edits of a tab x may be for.
ProfilesOf(x) == IF x.loaded THEN {x.profile} ELSE Profiles

Difference(local, baseline) == local.favorites \ baseline.favorites

\* The order o lists the favorites F, each once.
Fits(F, o) == o \in Seq(Channels) /\ IsInjective(o) /\ ToSet(o) = F

\* A view: its order fits its favorites.
IsView(v) ==
    /\ v \in [favorites : SUBSET Channels, favoriteOrder : {v.favoriteOrder},
              profileSelection : Selections]
    /\ Fits(v.favorites, v.favoriteOrder)

\* The type of a tab; dirty and the marks of the queue are read as conditions
\* only.
IsTab(x) ==
    /\ x \in [active : Profiles, loaded : BOOLEAN, profile : Profiles,
              baseline : {x.baseline}, local : {x.local}, dirty : BOOLEAN, timer : BOOLEAN,
              retryTimer : {"none", "load", "save"}, queued : BOOLEAN, notice : BOOLEAN]
    /\ x.timer => x.loaded
    /\ IsView(x.local) /\ IsView(x.baseline)

TabApart(m, x) ==
    \A p \in ProfilesOf(x) : Difference(x.local, x.baseline) \subseteq Allowed(m, p)

BlobApart(m, r) ==
    /\ r = [top |-> r.top, sections |-> r.sections]
    /\ IsView(r.top)
    /\ r.top.favorites \subseteq Allowed(m, NoProfile)
    /\ r.sections = [p \in Viewers |-> r.sections[p]]
    /\ \A p \in Viewers :
          r.sections[p] # None =>
             /\ r.sections[p].favorites \subseteq Allowed(m, p)
             /\ Fits(r.sections[p].favorites, r.sections[p].favoriteOrder)

\* What a tab x and its save s have between them.
SaveApart(m, x, s) ==
    /\ s \in [pc : {"idle", "read", "put", "landed"}, baseline : {s.baseline},
              local : {s.local}, profile : {s.profile}, values : {s.values}]
    /\ s.pc # "idle" =>
          /\ s.profile \in Profiles
          /\ IsView(s.local)
          /\ \A p \in ProfilesOf(x) : Difference(x.local, s.local) \subseteq Allowed(m, p)
    /\ s.pc = "read" =>
          /\ IsView(s.baseline)
          /\ Difference(s.local, s.baseline) \subseteq Allowed(m, s.profile)
    /\ s.pc \in {"put", "landed"} => BlobApart(m, s.values)

ReloadApart(m, l) ==
    /\ l \in [values : {l.values}, retries : BOOLEAN]
    /\ l.values # None => BlobApart(m, l.values)

IInv ==
    /\ tab = [t \in Tabs |-> tab[t]]
    /\ save = [t \in Tabs |-> save[t]]
    /\ reload = [t \in Tabs |-> reload[t]]
    /\ made \in SUBSET (Profiles \X Channels)
    /\ unmade \in SUBSET (Profiles \X Channels)
    /\ BlobApart(made, cloud)
    /\ \A t \in Tabs : /\ IsTab(tab[t])
                       /\ TabApart(made, tab[t])
                       /\ SaveApart(made, tab[t], save[t])
                       /\ ReloadApart(made, reload[t])

(***************************************************************************)
(* The operators on views                                                  *)
(***************************************************************************)
LEMMA AllowedGrows ==
    ASSUME NEW m, NEW n, m \subseteq n, NEW p
    PROVE  /\ Allowed(m, p) \subseteq Allowed(n, p)
           /\ Allowed(m, NoProfile) \subseteq Allowed(m, p)
BY DEF Allowed

LEMMA MadeView ==
    ASSUME NEW F \in SUBSET Channels, NEW o, Fits(F, o), NEW s \in Selections,
           NEW G \in SUBSET Channels, NEW u, Fits(G, u)
    PROVE  LET v == [favorites |-> F, favoriteOrder |-> o, profileSelection |-> s]
           IN  /\ IsView(v)
               /\ IsView([v EXCEPT !.favorites = G, !.favoriteOrder = u])
               /\ [v EXCEPT !.favorites = G, !.favoriteOrder = u].favorites = G
BY DEF IsView

LEMMA NormalizeKeepsFavorites ==
    ASSUME NEW v, IsView(v)
    PROVE  /\ IsView(NormalizePreferences(v))
           /\ NormalizePreferences(v).favorites = v.favorites
           /\ NormalizePreferences(v).profileSelection = v.profileSelection
<1> DEFINE o == UniqueIDs(Only(v.favoriteOrder, v.favorites)
                             \o SetToSeq(v.favorites \ ToSet(v.favoriteOrder)))
<1>1. NormalizePreferences(v) = [favorites |-> v.favorites, favoriteOrder |-> o,
                                 profileSelection |-> v.profileSelection]
  BY DEF IsView, NormalizePreferences
<1>2. Fits(v.favorites, o)
  <2> DEFINE kept == Only(v.favoriteOrder, v.favorites)
             missed == SetToSeq({})
  <2>1. v.favorites \ ToSet(v.favoriteOrder) = {} BY DEF IsView, Fits
  <2>2. kept \in Seq(Channels) /\ ToSet(kept) = v.favorites
    <3>1. v.favoriteOrder \in Seq(Channels) /\ ToSet(v.favoriteOrder) = v.favorites
      BY DEF IsView, Fits
    <3>2. kept \in Seq(Channels) /\ ToSet(kept) = ToSet(v.favoriteOrder) \cap v.favorites
      BY <3>1, OnlyList
    <3> HIDE DEF kept
    <3> QED BY <3>1, <3>2
  <2>3. missed \in Seq({}) /\ ToSet(missed) = {} BY SetListed, FS_EmptySet
  <2>4. missed \in Seq(Channels) BY <2>3
  <2>5. o = UniqueIDs(kept \o missed) BY <2>1
  <2> HIDE DEF kept, missed, o
  <2>6. kept \o missed \in Seq(Channels) /\ ToSet(kept \o missed) = v.favorites
    <3>1. /\ kept \o missed \in Seq(Channels)
          /\ ToSet(kept \o missed) = ToSet(kept) \cup ToSet(missed)
      BY <2>2, <2>4, Concatenated
    <3> QED BY <2>2, <2>3, <3>1
  <2> QED BY <2>5, <2>6, UniqueList DEF Fits
<1> HIDE DEF o
<1> QED BY <1>1, <1>2 DEF IsView

\* A merged list has every element that is not dropped, once.
LEMMA MergedList ==
    ASSUME NEW R \in Seq(Channels), NEW B \in Seq(Channels), NEW L \in Seq(Channels)
    PROVE  LET m == MergePrefsList(R, B, L)
           IN  /\ m \in Seq(Channels) /\ IsInjective(m)
               /\ (ToSet(R) \ (ToSet(B) \ ToSet(L))) \cup (ToSet(L) \ ToSet(B)) \subseteq ToSet(m)
<1> DEFINE added == Only(L, ToSet(L) \ ToSet(B))
           kept == Only(R, (ToSet(R) \ ToSet(B)) \cup ToSet(L))
           all == IF Only(L, ToSet(B)) # Only(B, ToSet(L)) THEN L \o kept ELSE kept \o added
<1>1. MergePrefsList(R, B, L) = UniqueIDs(all)
  BY DEF MergePrefsList
<1>2. /\ added \in Seq(Channels) /\ ToSet(added) = ToSet(L) \ ToSet(B)
      /\ kept \in Seq(Channels)
      /\ ToSet(kept) = (ToSet(R) \ ToSet(B)) \cup (ToSet(R) \cap ToSet(L))
  BY OnlyList
<1> HIDE DEF added, kept
<1>3. /\ L \o kept \in Seq(Channels) /\ ToSet(L \o kept) = ToSet(L) \cup ToSet(kept)
      /\ kept \o added \in Seq(Channels) /\ ToSet(kept \o added) = ToSet(kept) \cup ToSet(added)
  BY <1>2, Concatenated
<1>4. /\ all \in Seq(Channels)
      /\ (ToSet(R) \ (ToSet(B) \ ToSet(L))) \cup (ToSet(L) \ ToSet(B)) \subseteq ToSet(all)
  BY <1>2, <1>3
<1> HIDE DEF all
<1> QED BY <1>1, <1>4, UniqueList

\* A merge takes nothing but the remote favorites and what was added since the
\* baseline.
LEMMA DiffFavorites ==
    ASSUME NEW remote, NEW baseline, NEW local,
           IsView(remote), IsView(baseline), IsView(local)
    PROVE  LET v == ApplyPrefsDiff(remote, baseline, local)
           IN  /\ IsView(v)
               /\ v.favorites = (remote.favorites \ Difference(baseline, local))
                                    \cup Difference(local, baseline)
<1> DEFINE v == ApplyPrefsDiff(remote, baseline, local)
           F == (remote.favorites \ (baseline.favorites \ local.favorites))
                    \cup (local.favorites \ baseline.favorites)
           order == IF local.favoriteOrder = baseline.favoriteOrder
                    THEN remote.favoriteOrder
                    ELSE MergePrefsList(remote.favoriteOrder, baseline.favoriteOrder,
                                        local.favoriteOrder)
           S == IF local.profileSelection = baseline.profileSelection
                THEN remote.profileSelection ELSE local.profileSelection
<1>1. v = [favorites |-> F, favoriteOrder |-> Only(order, F), profileSelection |-> S]
  BY DEF ApplyPrefsDiff
<1>2. F \subseteq Channels /\ S \in Selections
  BY DEF IsView
<1>3. F = (remote.favorites \ Difference(baseline, local)) \cup Difference(local, baseline)
  BY DEF Difference
<1>4. Fits(F, Only(order, F))
  <2> DEFINE R == remote.favoriteOrder
             B == baseline.favoriteOrder
             L == local.favoriteOrder
  <2>1. /\ Fits(remote.favorites, R) /\ Fits(baseline.favorites, B) /\ Fits(local.favorites, L)
    BY DEF IsView
  <2>2. order \in Seq(Channels) /\ IsInjective(order) /\ F \subseteq ToSet(order)
    <3>1. CASE L = B
      BY <2>1, <3>1 DEF Fits
    <3>2. CASE L # B
      <4> HIDE DEF R, B, L
      <4>1. order = MergePrefsList(R, B, L) BY <3>2 DEF R, B, L
      <4> HIDE DEF order
      <4>2. /\ MergePrefsList(R, B, L) \in Seq(Channels)
            /\ IsInjective(MergePrefsList(R, B, L))
            /\ (ToSet(R) \ (ToSet(B) \ ToSet(L))) \cup (ToSet(L) \ ToSet(B))
                  \subseteq ToSet(MergePrefsList(R, B, L))
        BY <2>1, MergedList DEF Fits
      <4> QED BY <2>1, <4>1, <4>2 DEF Fits
    <3> QED BY <3>1, <3>2
  <2> HIDE DEF order, F
  <2>3. /\ Only(order, F) \in Seq(Channels) /\ IsInjective(Only(order, F))
        /\ ToSet(Only(order, F)) = ToSet(order) \cap F
    BY <2>2, OnlyList
  <2> QED BY <2>2, <2>3 DEF Fits
<1> HIDE DEF v, F, S, order
<1>5. v.favorites = F /\ v.favoriteOrder = Only(order, F) /\ v.profileSelection = S
  BY <1>1
<1>6. IsView(v) BY <1>1, <1>2, <1>5, <1>4 DEF IsView
<1> QED BY <1>3, <1>5, <1>6 DEF v

LEMMA ViewApart ==
    ASSUME NEW m, NEW r, BlobApart(m, r), NEW p \in Profiles
    PROVE  /\ IsView(ProfileView(r, p))
           /\ ProfileView(r, p).favorites \subseteq Allowed(m, p)
           /\ IsView(LoadedView(r, p))
           /\ LoadedView(r, p).favorites \subseteq Allowed(m, p)
<1>1. r.top.favorites \subseteq Allowed(m, p)
  BY AllowedGrows DEF BlobApart
<1>2. IsView(ProfileView(r, p)) /\ ProfileView(r, p).favorites \subseteq Allowed(m, p)
  <2>1. CASE p = NoProfile \/ r.sections[p] = None
    BY <1>1, <2>1 DEF ProfileView, BlobApart
  <2>2. CASE p # NoProfile /\ r.sections[p] # None
    <3> DEFINE s == r.sections[p]
    <3>1. p \in Viewers BY <2>2 DEF Profiles
    <3>2. s.favorites \subseteq Allowed(m, p) BY <2>2, <3>1 DEF BlobApart
    <3>3. ProfileView(r, p) = [r.top EXCEPT !.favorites = s.favorites,
                                            !.favoriteOrder = s.favoriteOrder]
      BY <2>2 DEF ProfileView
    <3>4. ProfileView(r, p) = [favorites |-> s.favorites, favoriteOrder |-> s.favoriteOrder,
                               profileSelection |-> r.top.profileSelection]
      BY <3>3 DEF BlobApart, IsView
    <3>5. s.favorites \subseteq Channels BY <3>2 DEF Allowed
    <3>6. r.top.profileSelection \in Selections BY DEF BlobApart, IsView
    <3>7. Fits(s.favorites, s.favoriteOrder) BY <2>2, <3>1 DEF BlobApart
    <3> QED BY <3>2, <3>4, <3>5, <3>6, <3>7 DEF IsView
  <2> QED BY <2>1, <2>2
<1> QED BY <1>2, NormalizeKeepsFavorites DEF LoadedView

LEMMA MergedApart ==
    ASSUME NEW m, NEW r, BlobApart(m, r), NEW p \in Profiles, NEW v, IsView(v),
           v.favorites \subseteq Allowed(m, p)
    PROVE  BlobApart(m, MergeProfileView(r, v, p))
<1> DEFINE new == MergeProfileView(r, v, p)
<1>1. CASE p = NoProfile
  <2>1. new = [top |-> v, sections |-> r.sections]
    BY <1>1 DEF MergeProfileView, BlobApart
  <2> QED BY <1>1, <2>1 DEF BlobApart
<1>2. CASE p # NoProfile
  <2>1. p \in Viewers BY <1>2 DEF Profiles
  <2> DEFINE top == [favorites |-> r.top.favorites, favoriteOrder |-> r.top.favoriteOrder,
                     profileSelection |-> v.profileSelection]
             own == [favorites |-> v.favorites, favoriteOrder |-> v.favoriteOrder]
             sections == [q \in Viewers |-> IF q = p THEN own ELSE r.sections[q]]
  <2>2. new = [r EXCEPT !.top.profileSelection = v.profileSelection, !.sections[p] = own]
    BY <1>2 DEF MergeProfileView
  <2>3. [r.top EXCEPT !.profileSelection = v.profileSelection] = top
    BY DEF BlobApart, IsView
  <2>4. [r.sections EXCEPT ![p] = own] = sections
    BY DEF BlobApart
  <2>5. new = [top |-> top, sections |-> sections]
    BY <2>2, <2>3, <2>4 DEF BlobApart
  <2>6. IsView(top) /\ top.favorites \subseteq Allowed(m, NoProfile)
    BY DEF BlobApart, IsView
  <2>7. ASSUME NEW q \in Viewers, sections[q] # None
        PROVE  /\ sections[q].favorites \subseteq Allowed(m, q)
               /\ Fits(sections[q].favorites, sections[q].favoriteOrder)
    BY <2>7 DEF BlobApart, IsView
  <2> HIDE DEF top, sections
  <2>8. new.top = top /\ new.sections = sections BY <2>5
  <2> QED BY <2>5, <2>6, <2>7, <2>8 DEF BlobApart, sections
<1> QED BY <1>1, <1>2

LEMMA BlobGrows ==
    ASSUME NEW m, NEW n, m \subseteq n, NEW r, BlobApart(m, r)
    PROVE  BlobApart(n, r)
<1>1. \A p : Allowed(m, p) \subseteq Allowed(n, p) BY AllowedGrows
<1> QED BY <1>1 DEF BlobApart

(***************************************************************************)
(* The operators on the record of a tab                                    *)
(***************************************************************************)
\* y knows the same as x.
Alike(x, y) ==
    /\ IsTab(y)
    /\ y.loaded = x.loaded /\ y.profile = x.profile
    /\ y.local = x.local /\ y.baseline = x.baseline

LEMMA TabHelpers ==
    ASSUME NEW x, IsTab(x)
    PROVE  /\ Alike(x, DiscardPendingPrefsEdits(x))
           /\ DiscardPendingPrefsEdits(x).dirty = FALSE
           /\ DiscardPendingPrefsEdits(x).active = x.active
           /\ Alike(x, SchedulePrefsLoadRetry(x))
           /\ x.loaded => Alike(x, SchedulePrefsFlush(x))
           /\ Alike(x, FlushPrefsSave(x))
           /\ Alike(x, SavePrefs(x))
           /\ Alike(x, [x EXCEPT !.retryTimer = "none"])
           /\ Alike(x, [x EXCEPT !.notice = FALSE])
           /\ Alike(x, [x EXCEPT !.notice = TRUE])
           /\ Alike(x, [x EXCEPT !.queued = FALSE])
           /\ Alike(x, [x EXCEPT !.dirty = FALSE])
           /\ Alike(x, [x EXCEPT !.dirty = TRUE])
<1>1. Alike(x, DiscardPendingPrefsEdits(x)) /\ DiscardPendingPrefsEdits(x).dirty = FALSE
      /\ DiscardPendingPrefsEdits(x).active = x.active
  BY DEF IsTab, Alike, DiscardPendingPrefsEdits
<1>2. Alike(x, SchedulePrefsLoadRetry(x))
  BY DEF IsTab, Alike, SchedulePrefsLoadRetry
<1>3. x.loaded => Alike(x, SchedulePrefsFlush(x))
  BY DEF IsTab, Alike, SchedulePrefsFlush
<1>4. Alike(x, FlushPrefsSave(x))
  BY DEF IsTab, Alike, FlushPrefsSave
<1>5. ASSUME NEW b \in BOOLEAN PROVE Alike(x, [x EXCEPT !.dirty = b])
  BY DEF IsTab, Alike
<1>6. Alike(x, SavePrefs(x))
  <2> DEFINE y == [x EXCEPT !.dirty = TRUE]
  <2>1. y.loaded = x.loaded /\ IsTab(y) BY <1>5 DEF Alike
  <2>2. Alike(y, SchedulePrefsLoadRetry(y))
    BY <2>1 DEF IsTab, Alike, SchedulePrefsLoadRetry
  <2>3. Alike(x, SchedulePrefsLoadRetry(y)) BY <1>5, <2>2 DEF Alike
  <2> QED BY <1>3, <2>3 DEF SavePrefs
<1>7. Alike(x, [x EXCEPT !.retryTimer = "none"])
  BY DEF IsTab, Alike
<1>8. ASSUME NEW b \in BOOLEAN PROVE Alike(x, [x EXCEPT !.notice = b])
  BY DEF IsTab, Alike
<1>9. Alike(x, [x EXCEPT !.queued = FALSE])
  BY DEF IsTab, Alike
<1> QED BY <1>1, <1>2, <1>3, <1>4, <1>5, <1>6, <1>7, <1>8, <1>9

\* What a tab and its save have between them survives a tab that knows the same
\* and a longer history.
LEMMA AlikeApart ==
    ASSUME NEW m, NEW n, m \subseteq n, NEW x, NEW y, NEW s,
           TabApart(m, x), SaveApart(m, x, s), Alike(x, y)
    PROVE  TabApart(n, y) /\ SaveApart(n, y, s)
<1>1. \A p : Allowed(m, p) \subseteq Allowed(n, p) BY AllowedGrows
<1>2. ProfilesOf(y) = ProfilesOf(x) BY DEF Alike, ProfilesOf
<1>3. TabApart(n, y) BY <1>1, <1>2 DEF TabApart, Alike
<1>4. s.pc \in {"put", "landed"} => BlobApart(n, s.values)
  BY BlobGrows DEF SaveApart
<1>5. s.pc # "idle" =>
          \A p \in ProfilesOf(y) : Difference(y.local, s.local) \subseteq Allowed(n, p)
  BY <1>1, <1>2 DEF SaveApart, Alike
<1>6. s.pc = "read" => Difference(s.local, s.baseline) \subseteq Allowed(n, s.profile)
  BY <1>1 DEF SaveApart
<1>7. SaveApart(n, y, s) BY <1>4, <1>5, <1>6 DEF SaveApart
<1> QED BY <1>3, <1>7

LEMMA ReloadGrows ==
    ASSUME NEW m, NEW n, m \subseteq n, NEW l, ReloadApart(m, l)
    PROVE  ReloadApart(n, l)
BY BlobGrows DEF ReloadApart

\* A load is adopted: the tab shows what it read for a profile, with the edits
\* that were not saved if they were for any profile or for this one.
LEMMA Adopted ==
    ASSUME NEW m, NEW x, IsTab(x), TabApart(m, x), NEW s, SaveApart(m, x, s),
           NEW p \in Profiles, NEW view, IsView(view), view.favorites \subseteq Allowed(m, p),
           NEW previous, previous = None \/ previous = x.local,
           previous # None /\ x.loaded => x.profile = p
    PROVE  LET z == AdoptLoadedPrefs(x, view, previous, p)
           IN  IsTab(z) /\ TabApart(m, z) /\ SaveApart(m, z, s)
<1> DEFINE y == IF x.loaded /\ x.profile # p THEN DiscardPendingPrefsEdits(x) ELSE x
           z == [y EXCEPT !.loaded = TRUE, !.profile = p, !.baseline = view,
                          !.local = view, !.retryTimer = "none"]
           again == NormalizePreferences(ApplyPrefsDiff(view, x.baseline, previous))
           w == [z EXCEPT !.local = again]
           new == AdoptLoadedPrefs(x, view, previous, p)
<1>1. new = IF y.dirty /\ previous # None THEN SchedulePrefsFlush(w) ELSE z
  BY DEF AdoptLoadedPrefs
<1>2. IsTab(y) BY TabHelpers DEF Alike
<1>3. IsTab(z) /\ z.loaded = TRUE /\ z.profile = p /\ z.local = view /\ z.baseline = view
  <2> HIDE DEF y
  <2> QED BY <1>2 DEF IsTab
<1>4. SUFFICES ASSUME NEW u, IsTab(u), u.loaded = TRUE, u.profile = p, u.baseline = view,
                      u.local.favorites \subseteq Allowed(m, p), u = new
               PROVE  TabApart(m, u) /\ SaveApart(m, u, s)
  <2>1. CASE ~(y.dirty /\ previous # None)
    <3>1. new = z BY <1>1, <2>1
    <3> HIDE DEF z, new, y
    <3> QED BY <1>3, <1>4, <3>1 DEF new
  <2>2. CASE y.dirty /\ previous # None
    <3>1. previous = x.local BY <2>2
    <3>2. IsView(ApplyPrefsDiff(view, x.baseline, previous))
          /\ ApplyPrefsDiff(view, x.baseline, previous).favorites
                = (view.favorites \ Difference(x.baseline, previous))
                       \cup Difference(previous, x.baseline)
      BY <3>1, DiffFavorites DEF IsTab
    <3>3. p \in ProfilesOf(x) BY <2>2 DEF ProfilesOf
    <3>4. Difference(previous, x.baseline) \subseteq Allowed(m, p)
      BY <3>1, <3>3 DEF TabApart
    <3>5. IsView(again) /\ again.favorites \subseteq Allowed(m, p)
      BY <3>2, <3>4, NormalizeKeepsFavorites
    <3> HIDE DEF z, y, again
    <3>6. IsTab(w) /\ w.loaded = TRUE /\ w.profile = p /\ w.local = again /\ w.baseline = view
      BY <1>3, <3>5 DEF IsTab
    <3> HIDE DEF w
    <3>7. Alike(w, SchedulePrefsFlush(w)) BY <3>6, TabHelpers
    <3>8. new = SchedulePrefsFlush(w) BY <1>1, <2>2
    <3> HIDE DEF new
    <3> QED BY <1>4, <3>5, <3>6, <3>7, <3>8 DEF Alike, new
  <2> QED BY <2>1, <2>2
<1>5. ProfilesOf(u) = {p} BY <1>4 DEF ProfilesOf
<1>6. TabApart(m, u) BY <1>4, <1>5 DEF TabApart, Difference
<1>7. SaveApart(m, u, s) BY <1>4, <1>5 DEF SaveApart, Difference
<1> QED BY <1>6, <1>7

(***************************************************************************)
(* The steps                                                               *)
(***************************************************************************)
\* A step of one tab is checked on that tab, its save and its load.
LEMMA OneTab ==
    ASSUME IInv, NEW t \in Tabs, NEW x, NEW s, NEW l,
           tab' = [tab EXCEPT ![t] = x],
           save' = [save EXCEPT ![t] = s],
           reload' = [reload EXCEPT ![t] = l],
           made \subseteq made', made' \in SUBSET (Profiles \X Channels),
           unmade' \in SUBSET (Profiles \X Channels),
           BlobApart(made', cloud'),
           IsTab(x), TabApart(made', x), SaveApart(made', x, s), ReloadApart(made', l)
    PROVE  IInv'
<1>1. /\ tab' = [u \in Tabs |-> tab'[u]]
      /\ save' = [u \in Tabs |-> save'[u]]
      /\ reload' = [u \in Tabs |-> reload'[u]]
  BY DEF IInv
<1>2. tab'[t] = x /\ save'[t] = s /\ reload'[t] = l
  BY DEF IInv
<1>3. ASSUME NEW u \in Tabs, u # t
      PROVE  tab'[u] = tab[u] /\ save'[u] = save[u] /\ reload'[u] = reload[u]
  BY <1>3 DEF IInv
<1>4. ASSUME NEW u \in Tabs
      PROVE  /\ IsTab(tab'[u]) /\ TabApart(made', tab'[u])
             /\ SaveApart(made', tab'[u], save'[u]) /\ ReloadApart(made', reload'[u])
  <2>1. CASE u = t BY <1>2, <2>1
  <2>2. CASE u # t
    <3>1. Alike(tab[u], tab[u]) BY DEF IInv, Alike
    <3> QED BY <1>3, <2>2, <3>1, AlikeApart, ReloadGrows DEF IInv
  <2> QED BY <2>1, <2>2
<1> QED BY <1>1, <1>4 DEF IInv

\* What does not change is "changed" to what it is.
LEMMA Kept ==
    ASSUME IInv, NEW t \in Tabs
    PROVE  /\ tab = [tab EXCEPT ![t] = tab[t]]
           /\ save = [save EXCEPT ![t] = save[t]]
           /\ reload = [reload EXCEPT ![t] = reload[t]]
           /\ IsTab(tab[t]) /\ TabApart(made, tab[t])
           /\ SaveApart(made, tab[t], save[t]) /\ ReloadApart(made, reload[t])
           /\ BlobApart(made, cloud)
           /\ Alike(tab[t], tab[t])
BY DEF IInv, Alike

LEMMA ReloadingApart ==
    ASSUME IInv, NEW t \in Tabs, NEW retries \in BOOLEAN, Reloading(t, retries)
    PROVE  \E l : reload' = [reload EXCEPT ![t] = l] /\ ReloadApart(made, l)
<1> DEFINE V == IF reload[t].values = None THEN cloud ELSE reload[t].values
           R == reload[t].retries \/ retries
           l == [[reload[t] EXCEPT !.values = V] EXCEPT !.retries = R]
<1>1. ReloadApart(made, reload[t]) /\ BlobApart(made, cloud) BY DEF IInv
<1>2. R \in BOOLEAN BY <1>1 DEF ReloadApart
<1>3. reload' = [reload EXCEPT ![t] = l]
  BY <1>1 DEF Reloading, IInv, ReloadApart
<1> HIDE DEF R
<1>4. V # None => BlobApart(made, V) BY <1>1 DEF ReloadApart
<1> HIDE DEF V
<1>5. ReloadApart(made, l)
  BY <1>1, <1>2, <1>4 DEF ReloadApart
<1> QED BY <1>3, <1>5

LEMMA NoSaveApart ==
    ASSUME NEW m, NEW x
    PROVE  SaveApart(m, x, NoSave)
BY DEF SaveApart, NoSave

LEMMA BegunSave ==
    ASSUME NEW b, NEW l, NEW p
    PROVE  [NoSave EXCEPT !.pc = "read", !.baseline = b, !.local = l, !.profile = p]
           \in [pc : {"read"}, baseline : {b}, local : {l}, profile : {p}, values : {None}]
<1>1. NoSave \in [pc : {"idle"}, baseline : {None}, local : {None}, profile : {None},
                  values : {None}]
  BY DEF NoSave
<1> QED BY <1>1

LEMMA NoReloadApart ==
    ASSUME NEW m
    PROVE  ReloadApart(m, NoReload)
BY DEF ReloadApart, NoReload

LEMMA Initially ==
    ASSUME Init
    PROVE  IInv
<1>1. AllProfiles \in Selections /\ ToSet(Legacy) \subseteq Channels
  BY PrefsConstants DEF ToSet
<1>2. Fits({}, <<>>) /\ Fits(ToSet(Legacy), Legacy)
  <2>1. DOMAIN <<>> = {} /\ <<>> \in Seq(Channels) OBVIOUS
  <2> QED BY <2>1, PrefsConstants DEF Fits, IsInjective, ToSet
<1>3. IsView(DefaultPrefs) /\ IsView(LegacyPrefs) /\ LegacyPrefs.favorites = ToSet(Legacy)
  BY <1>1, <1>2, MadeView DEF DefaultPrefs, LegacyPrefs
<1>4. BlobApart(made, cloud)
  <2>1. LegacyPrefs.favorites \subseteq Allowed(made, NoProfile)
    BY <1>1, <1>3 DEF Init, Allowed
  <2> QED BY <1>3, <2>1 DEF Init, BlobApart
<1>5. made \in SUBSET (Profiles \X Channels) /\ unmade \in SUBSET (Profiles \X Channels)
  BY <1>1 DEF Init, Profiles
<1>6. ASSUME NEW t \in Tabs
      PROVE  /\ IsTab(tab[t]) /\ TabApart(made, tab[t])
             /\ save[t] = NoSave /\ reload[t] = NoReload
  <2>1. save[t] = NoSave /\ reload[t] = NoReload BY DEF Init
  <2>2. IsTab(tab[t]) /\ tab[t].local = tab[t].baseline
    BY <1>3 DEF Init, IsTab, Profiles
  <2>3. TabApart(made, tab[t]) BY <2>2 DEF TabApart, Difference
  <2> QED BY <2>1, <2>2, <2>3
<1>7. tab = [t \in Tabs |-> tab[t]] /\ save = [t \in Tabs |-> save[t]]
      /\ reload = [t \in Tabs |-> reload[t]]
  BY DEF Init
<1> QED BY <1>4, <1>5, <1>6, <1>7, NoSaveApart, NoReloadApart DEF IInv

\* An edit of the favorites leaves an order that fits.
LEMMA Appended ==
    ASSUME NEW F \in SUBSET Channels, NEW o, Fits(F, o), NEW c \in Channels
    PROVE  /\ Fits(F \cup {c}, UniqueIDs(Append(o, c)))
           /\ c \notin F => Fits(F \cup {c}, Append(o, c))
<1>1. /\ Append(o, c) \in Seq(Channels) /\ ToSet(Append(o, c)) = F \cup {c}
      /\ c \notin F => IsInjective(Append(o, c))
  BY AppendedTo DEF Fits
<1> QED BY <1>1, UniqueList DEF Fits

LEMMA Dropped ==
    ASSUME NEW F \in SUBSET Channels, NEW o, Fits(F, o), NEW c \in Channels
    PROVE  Fits(F \ {c}, Only(o, Channels \ {c}))
<1>1. F \cap (Channels \ {c}) = F \ {c} OBVIOUS
<1> QED BY <1>1, OnlyList DEF Fits

LEMMA Moved ==
    ASSUME NEW F \in SUBSET Channels, NEW o, Fits(F, o), NEW i \in 1 .. Len(o) - 1
    PROVE  Fits(F, [o EXCEPT ![i] = o[i + 1], ![i + 1] = o[i]])
<1> DEFINE w == [o EXCEPT ![i] = o[i + 1], ![i + 1] = o[i]]
<1>1. /\ o \in Seq(Channels) /\ DOMAIN o = 1 .. Len(o) /\ Len(o) \in Nat
      /\ i \in DOMAIN o /\ i + 1 \in DOMAIN o /\ i # i + 1
  BY DEF Fits
<1>2. /\ w \in Seq(Channels) /\ DOMAIN w = DOMAIN o
      /\ w[i] = o[i + 1] /\ w[i + 1] = o[i]
      /\ \A j \in DOMAIN o : j # i /\ j # i + 1 => w[j] = o[j]
  BY <1>1
<1> HIDE DEF w
<1>3. IsInjective(w)
  <2> SUFFICES ASSUME NEW j \in DOMAIN o, NEW k \in DOMAIN o, w[j] = w[k] PROVE j = k
    BY <1>2 DEF IsInjective
  <2>1. \A a, b \in DOMAIN o : o[a] = o[b] => a = b BY DEF Fits, IsInjective
  <2> QED BY <1>1, <1>2, <2>1
<1>4. ToSet(w) = ToSet(o)
  BY <1>1, <1>2 DEF ToSet
<1> QED BY <1>2, <1>3, <1>4 DEF Fits, w

\* The edits: the history grows with what the view grows by.
LEMMA Editing ==
    ASSUME IInv, NEW t \in Tabs, NEW local, IsView(local), Edit(t, local),
           made \subseteq made', made' \in SUBSET (Profiles \X Channels),
           unmade' \in SUBSET (Profiles \X Channels),
           \A p \in ProfilesOf(tab[t]) :
               local.favorites \ tab[t].local.favorites \subseteq Allowed(made', p)
    PROVE  IInv'
<1> DEFINE y == [tab[t] EXCEPT !.local = local]
           x == SavePrefs(y)
<1>1. \A p : Allowed(made, p) \subseteq Allowed(made', p) BY AllowedGrows
<1>2. IsTab(y) /\ y.local = local /\ y.baseline = tab[t].baseline
      /\ y.loaded = tab[t].loaded /\ y.profile = tab[t].profile
  BY Kept DEF IsTab
<1> HIDE DEF y
<1>3. ProfilesOf(y) = ProfilesOf(tab[t]) BY <1>2 DEF ProfilesOf
<1>4. TabApart(made', y)
  BY <1>1, <1>2, <1>3, Kept DEF TabApart, Difference
<1>5. SaveApart(made', y, save[t])
  <2>1. SaveApart(made', tab[t], save[t]) BY Kept, AlikeApart
  <2>2. save[t].pc # "idle" =>
            \A p \in ProfilesOf(y) :
                Difference(y.local, save[t].local) \subseteq Allowed(made', p)
    BY <1>2, <1>3, <2>1 DEF SaveApart, Difference
  <2> QED BY <2>1, <2>2 DEF SaveApart
<1>6. Alike(y, x) BY <1>2, TabHelpers
<1>7. IsTab(x) /\ TabApart(made', x) /\ SaveApart(made', x, save[t])
  BY <1>4, <1>5, <1>6, AlikeApart DEF Alike
<1>8. /\ tab' = [tab EXCEPT ![t] = x]
      /\ save' = [save EXCEPT ![t] = save[t]]
      /\ reload' = [reload EXCEPT ![t] = reload[t]]
      /\ BlobApart(made', cloud') /\ ReloadApart(made', reload[t])
  BY Kept, BlobGrows, ReloadGrows DEF Edit, y
<1> QED BY <1>7, <1>8, OneTab

LEMMA Viewing ==
    ASSUME IInv, NEW t \in Tabs,
           \/ \E c \in Channels : AddFavorite(t, c) \/ DropFavorite(t, c)
           \/ \E i \in 1 .. Cardinality(Channels) : MoveFavorite(t, i)
           \/ \E s \in Selections : SelectProfiles(t, s)
    PROVE  IInv'
<1> DEFINE v == tab[t].local
<1>1. IsView(v) BY DEF IInv, IsTab
<1>2. made \in SUBSET (Profiles \X Channels) /\ unmade \in SUBSET (Profiles \X Channels)
  BY DEF IInv
<1>3. EditedFor(t) = ProfilesOf(tab[t]) /\ ProfilesOf(tab[t]) \subseteq Profiles
  BY DEF IInv, IsTab, EditedFor, ProfilesOf
<1>4. ASSUME NEW c \in Channels, AddFavorite(t, c)
      PROVE  IInv'
  <2> DEFINE o == UniqueIDs(Append(v.favoriteOrder, c))
             w == [v EXCEPT !.favorites = @ \cup {c}, !.favoriteOrder = o]
  <2>1. w = [v EXCEPT !.favorites = @ \cup {c}, !.favoriteOrder = UniqueIDs(Append(@, c))]
    BY <1>1 DEF IsView
  <2>2. Fits(v.favorites \cup {c}, o) BY <1>1, Appended DEF IsView
  <2> HIDE DEF o
  <2>3. IsView(w) /\ w.favorites = v.favorites \cup {c} BY <1>1, <2>2 DEF IsView
  <2>4. IsView(NormalizePreferences(w)) /\ NormalizePreferences(w).favorites = w.favorites
    BY <2>3, NormalizeKeepsFavorites
  <2>5. Edit(t, NormalizePreferences(w)) /\ unmade' = unmade
        /\ made' = made \cup (ProfilesOf(tab[t]) \X {c})
    BY <1>3, <1>4, <2>1 DEF AddFavorite
  <2> HIDE DEF w
  <2>6. \A p \in ProfilesOf(tab[t]) : c \in Allowed(made', p)
    BY <2>5 DEF Allowed
  <2>7. made' \in SUBSET (Profiles \X Channels) /\ made \subseteq made'
    <3>1. ProfilesOf(tab[t]) \X {c} \in SUBSET (Profiles \X Channels) BY <1>3
    <3> QED BY <1>2, <2>5, <3>1
  <2>8. NormalizePreferences(w).favorites \ v.favorites \subseteq {c} BY <2>3, <2>4
  <2> QED BY <1>2, <2>4, <2>5, <2>6, <2>7, <2>8, Editing
<1>5. ASSUME NEW c \in Channels, DropFavorite(t, c)
      PROVE  IInv'
  <2> DEFINE o == Only(v.favoriteOrder, Channels \ {c})
             w == [v EXCEPT !.favorites = @ \ {c}, !.favoriteOrder = o]
  <2>1. w = [v EXCEPT !.favorites = @ \ {c}, !.favoriteOrder = Only(@, Channels \ {c})]
    BY <1>1 DEF IsView
  <2>2. Fits(v.favorites \ {c}, o) BY <1>1, Dropped DEF IsView
  <2> HIDE DEF o
  <2>3. IsView(w) /\ w.favorites = v.favorites \ {c} BY <1>1, <2>2 DEF IsView
  <2>4. IsView(NormalizePreferences(w)) /\ NormalizePreferences(w).favorites = w.favorites
    BY <2>3, NormalizeKeepsFavorites
  <2>5. Edit(t, NormalizePreferences(w)) /\ made' = made
        /\ unmade' = unmade \cup (ProfilesOf(tab[t]) \X {c})
    BY <1>3, <1>5, <2>1 DEF DropFavorite
  <2> HIDE DEF w
  <2>6. NormalizePreferences(w).favorites \ v.favorites = {} BY <2>3, <2>4
  <2>7. unmade' \in SUBSET (Profiles \X Channels)
    <3>1. ProfilesOf(tab[t]) \X {c} \in SUBSET (Profiles \X Channels) BY <1>3
    <3> QED BY <1>2, <2>5, <3>1
  <2> QED BY <1>2, <2>4, <2>5, <2>6, <2>7, Editing
<1>6. ASSUME NEW i \in 1 .. Cardinality(Channels), MoveFavorite(t, i)
      PROVE  IInv'
  <2> DEFINE o == [v.favoriteOrder EXCEPT ![i] = v.favoriteOrder[i + 1],
                                          ![i + 1] = v.favoriteOrder[i]]
             w == [v EXCEPT !.favoriteOrder = o]
  <2>1. Edit(t, w) /\ UNCHANGED <<made, unmade>> /\ i \in 1 .. Len(v.favoriteOrder) - 1
    BY <1>6 DEF MoveFavorite
  <2>2. Fits(v.favorites, o) BY <1>1, <2>1, Moved DEF IsView
  <2> HIDE DEF o
  <2>3. IsView(w) /\ w.favorites = v.favorites BY <1>1, <2>2 DEF IsView
  <2> QED BY <1>2, <2>1, <2>3, Editing
<1>7. ASSUME NEW s \in Selections, SelectProfiles(t, s)
      PROVE  IInv'
  <2> DEFINE w == [v EXCEPT !.profileSelection = s]
  <2>1. Edit(t, w) /\ UNCHANGED <<made, unmade>> BY <1>7 DEF SelectProfiles
  <2>2. IsView(w) /\ w.favorites = v.favorites BY <1>1 DEF IsView
  <2> QED BY <1>2, <2>1, <2>2, Editing
<1> QED BY <1>4, <1>5, <1>6, <1>7

LEMMA Switching ==
    ASSUME IInv, NEW t \in Tabs, NEW p \in Profiles, SwitchProfile(t, p)
    PROVE  IInv'
<1> DEFINE x == [tab[t] EXCEPT !.active = p]
<1>1. Alike(tab[t], x) BY Kept DEF IsTab, Alike
<1>2. tab' = [tab EXCEPT ![t] = x] BY Kept DEF SwitchProfile, IsTab
<1>3. IsTab(x) BY <1>1 DEF Alike
<1>4. TabApart(made, x) /\ SaveApart(made, x, save[t]) BY <1>1, Kept, AlikeApart
<1>5. /\ save' = [save EXCEPT ![t] = save[t]]
      /\ reload' = [reload EXCEPT ![t] = reload[t]]
      /\ UNCHANGED <<cloud, made, unmade>>
  BY Kept DEF SwitchProfile
<1>6. made \in SUBSET (Profiles \X Channels) /\ unmade \in SUBSET (Profiles \X Channels)
  BY DEF IInv
<1> HIDE DEF x
<1> QED BY <1>2, <1>3, <1>4, <1>5, <1>6, Kept, OneTab

\* A step that changes what waits in one tab, and may ask for a load.
LEMMA Waiting ==
    ASSUME IInv, NEW t \in Tabs, NEW y, Alike(tab[t], y),
           tab' = [tab EXCEPT ![t] = y],
           \/ UNCHANGED reload
           \/ \E retries \in BOOLEAN : Reloading(t, retries)
           \/ reload' = [reload EXCEPT ![t] = NoReload],
           \/ UNCHANGED save
           \/ save' = [save EXCEPT ![t] = NoSave],
           UNCHANGED <<cloud, made, unmade>>
    PROVE  IInv'
<1>1. PICK l : reload' = [reload EXCEPT ![t] = l] /\ ReloadApart(made, l)
  BY Kept, ReloadingApart, NoReloadApart
<1>2. PICK s : save' = [save EXCEPT ![t] = s] /\ SaveApart(made, y, s)
  BY Kept, NoSaveApart, AlikeApart
<1>3. IsTab(y) /\ TabApart(made, y) BY Kept, AlikeApart DEF Alike
<1>4. made \in SUBSET (Profiles \X Channels) /\ unmade \in SUBSET (Profiles \X Channels)
  BY DEF IInv
<1> QED BY <1>1, <1>2, <1>3, <1>4, Kept, OneTab

LEMMA Loading ==
    ASSUME IInv, NEW t \in Tabs,
           BecomeVisible(t) \/ HandlePrefsSyncMessage(t) \/ ReloadDone(t) \/ ReloadFails(t)
    PROVE  IInv'
<1> DEFINE x == tab[t]
<1>1. IsTab(x) BY Kept
<1>2. CASE BecomeVisible(t)
  <2>1. Reloading(t, TRUE) /\ UNCHANGED <<cloud, tab, save, made, unmade>>
    BY <1>2 DEF BecomeVisible
  <2> QED BY <2>1, Kept, Waiting
<1>3. CASE HandlePrefsSyncMessage(t)
  <2> DEFINE y == [x EXCEPT !.notice = FALSE]
  <2>1. Alike(x, y) BY <1>1, TabHelpers
  <2>2. /\ tab' = [tab EXCEPT ![t] = y] /\ Reloading(t, FALSE)
        /\ UNCHANGED <<cloud, save, made, unmade>>
    BY <1>3 DEF HandlePrefsSyncMessage
  <2> HIDE DEF y
  <2> QED BY <2>1, <2>2, Waiting
<1>4. CASE ReloadFails(t)
  <2> DEFINE y == IF reload[t].retries THEN SchedulePrefsLoadRetry(x) ELSE x
  <2>1. Alike(x, y) BY <1>1, Kept, TabHelpers
  <2>2. /\ tab' = [tab EXCEPT ![t] = y] /\ reload' = [reload EXCEPT ![t] = NoReload]
        /\ UNCHANGED <<cloud, save, made, unmade>>
    BY <1>4, Kept DEF ReloadFails
  <2> HIDE DEF y
  <2> QED BY <2>1, <2>2, Waiting
<1>5. CASE ReloadDone(t)
  <2> DEFINE p == x.active
             view == LoadedView(reload[t].values, p)
  <2>1. /\ reload' = [reload EXCEPT ![t] = NoReload]
        /\ UNCHANGED <<cloud, save, made, unmade>>
        /\ reload[t].values # None
    BY <1>5 DEF ReloadDone
  <2>2. IsView(view) /\ view.favorites \subseteq Allowed(made, p) /\ p \in Profiles
    <3>1. BlobApart(made, reload[t].values) BY <2>1, Kept DEF ReloadApart
    <3>2. p \in Profiles BY <1>1 DEF IsTab
    <3> QED BY <3>1, <3>2, ViewApart
  <2>3. ASSUME NEW z, IsTab(z), TabApart(made, z), SaveApart(made, z, save[t]),
               tab' = [tab EXCEPT ![t] = z]
        PROVE  IInv'
    <3>1. ReloadApart(made, NoReload) BY NoReloadApart
    <3>2. made \in SUBSET (Profiles \X Channels) /\ unmade \in SUBSET (Profiles \X Channels)
      BY DEF IInv
    <3> QED BY <2>1, <2>3, <3>1, <3>2, Kept, OneTab
  <2>4. CASE PrefsProfileSwitched(t)
    <3> DEFINE y == DiscardPendingPrefsEdits(x)
    <3>1. Alike(x, y) /\ y.active = p BY <1>1, TabHelpers
    <3>2. IsTab(y) /\ TabApart(made, y) /\ SaveApart(made, y, save[t])
      BY <3>1, Kept, AlikeApart DEF Alike
    <3>3. tab' = [tab EXCEPT ![t] = AdoptLoadedPrefs(y, view, None, p)]
      BY <1>5, <2>4 DEF ReloadDone
    <3> HIDE DEF y, view, p
    <3> QED BY <2>2, <2>3, <3>2, <3>3, Adopted
  <2>5. CASE ~PrefsProfileSwitched(t) /\ x.loaded /\ x.dirty
    <3>1. UNCHANGED tab BY <1>5, <2>5 DEF ReloadDone
    <3> QED BY <2>1, <3>1, Kept, Waiting
  <2>6. CASE ~PrefsProfileSwitched(t) /\ ~(x.loaded /\ x.dirty)
    <3>1. tab' = [tab EXCEPT ![t] = AdoptLoadedPrefs(x, view, x.local, p)]
      BY <1>5, <2>6 DEF ReloadDone
    <3>2. x.loaded => x.profile = p BY <2>6 DEF PrefsProfileSwitched
    <3>3. TabApart(made, x) /\ SaveApart(made, x, save[t]) BY Kept
    <3> HIDE DEF view, p, x
    <3>4. LET z == AdoptLoadedPrefs(x, view, x.local, p)
          IN  IsTab(z) /\ TabApart(made, z) /\ SaveApart(made, z, save[t])
      BY <1>1, <2>2, <3>2, <3>3, Adopted
    <3> QED BY <2>3, <3>1, <3>4
  <2> QED BY <2>4, <2>5, <2>6
<1> QED BY <1>2, <1>3, <1>4, <1>5

LEMMA Retrying ==
    ASSUME IInv, NEW t \in Tabs, RetryTimer(t)
    PROVE  IInv'
<1> DEFINE x == [tab[t] EXCEPT !.retryTimer = "none"]
<1>1. Alike(tab[t], x) BY Kept, TabHelpers
<1>2. UNCHANGED <<cloud, save, made, unmade>> BY DEF RetryTimer
<1>3. CASE tab' = [tab EXCEPT ![t] = x] /\ Reloading(t, TRUE)
  <2> HIDE DEF x
  <2> QED BY <1>1, <1>2, <1>3, Waiting
<1>4. CASE tab' = [tab EXCEPT ![t] = IF x.dirty THEN FlushPrefsSave(x) ELSE x]
           /\ UNCHANGED reload
  <2> DEFINE y == IF x.dirty THEN FlushPrefsSave(x) ELSE x
  <2> HIDE DEF x
  <2>1. Alike(x, FlushPrefsSave(x)) BY <1>1, TabHelpers DEF Alike
  <2>2. Alike(tab[t], y) BY <1>1, <2>1 DEF Alike
  <2> HIDE DEF y
  <2> QED BY <1>2, <1>4, <2>2, Waiting DEF y
<1> QED BY <1>3, <1>4 DEF RetryTimer

LEMMA Dropping ==
    ASSUME IInv, NEW t \in Tabs, NEW x, Alike(tab[t], x), DropEdits(t, x),
           UNCHANGED save \/ save' = [save EXCEPT ![t] = NoSave],
           UNCHANGED <<cloud, made, unmade>>
    PROVE  IInv'
<1> DEFINE y == DiscardPendingPrefsEdits(x)
<1>1. Alike(x, y) BY TabHelpers DEF Alike
<1>2. Alike(tab[t], y) BY <1>1 DEF Alike
<1>3. tab' = [tab EXCEPT ![t] = y] /\ Reloading(t, TRUE) BY DEF DropEdits
<1> HIDE DEF y
<1> QED BY <1>2, <1>3, Waiting

LEMMA Flushing ==
    ASSUME IInv, NEW t \in Tabs, Flush(t) \/ RunPrefsSave(t)
    PROVE  IInv'
<1>1. CASE Flush(t)
  <2> DEFINE y == FlushPrefsSave(tab[t])
  <2>1. Alike(tab[t], y) BY Kept, TabHelpers
  <2>2. /\ tab' = [tab EXCEPT ![t] = y]
        /\ UNCHANGED <<cloud, save, reload, made, unmade>>
    BY <1>1 DEF Flush
  <2> HIDE DEF y
  <2> QED BY <2>1, <2>2, Waiting
<1>2. CASE RunPrefsSave(t)
  <2> DEFINE x == [tab[t] EXCEPT !.queued = FALSE]
  <2>1. Alike(tab[t], x) BY Kept, TabHelpers
  <2>2. UNCHANGED <<cloud, made, unmade>> BY <1>2 DEF RunPrefsSave
  <2>3. CASE tab' = [tab EXCEPT ![t] = x] /\ UNCHANGED <<save, reload, fresh>>
    <3> HIDE DEF x
    <3> QED BY <2>1, <2>2, <2>3, Waiting
  <2>4. CASE DropEdits(t, x) /\ UNCHANGED <<save, fresh>>
    <3> HIDE DEF x
    <3> QED BY <2>1, <2>2, <2>4, Dropping
  <2>5. CASE /\ tab[t].loaded
             /\ tab' = [tab EXCEPT ![t] = [x EXCEPT !.dirty = FALSE]]
             /\ save' = [save EXCEPT ![t] = [NoSave EXCEPT
                            !.pc = "read", !.baseline = x.baseline, !.local = x.local,
                            !.profile = x.profile]]
             /\ UNCHANGED reload
    <3> DEFINE y == [x EXCEPT !.dirty = FALSE]
               s == [NoSave EXCEPT !.pc = "read", !.baseline = x.baseline,
                                   !.local = x.local, !.profile = x.profile]
    <3>1. s \in [pc : {"read"}, baseline : {x.baseline}, local : {x.local},
                 profile : {x.profile}, values : {None}]
      BY BegunSave
    <3> HIDE DEF x
    <3>2. Alike(x, y) BY <2>1, TabHelpers DEF Alike
    <3>3. Alike(tab[t], y) BY <2>1, <3>2 DEF Alike
    <3>4. TabApart(made, y) /\ IsTab(y) BY <3>3, Kept, AlikeApart DEF Alike
    <3>5. /\ x.loaded /\ x.profile \in Profiles /\ IsView(x.local) /\ IsView(x.baseline)
          /\ y.local = x.local
      BY <2>1, <2>5, <3>2 DEF Alike, IsTab
    <3>6. Difference(x.local, x.baseline) \subseteq Allowed(made, x.profile)
      BY <3>5, <2>1, Kept, AlikeApart DEF TabApart, ProfilesOf
    <3>7. Difference(y.local, x.local) = {} BY <3>5 DEF Difference
    <3> HIDE DEF s, y
    <3>8. SaveApart(made, y, s)
      BY <3>1, <3>5, <3>6, <3>7 DEF SaveApart
    <3>9. made \in SUBSET (Profiles \X Channels) /\ unmade \in SUBSET (Profiles \X Channels)
      BY DEF IInv
    <3> QED BY <2>2, <2>5, <3>4, <3>8, <3>9, Kept, OneTab DEF s, y
  <2> QED BY <1>2, <2>3, <2>4, <2>5 DEF RunPrefsSave
<1> QED BY <1>1, <1>2

LEMMA Writing ==
    ASSUME IInv, NEW t \in Tabs,
           WritePluginSettingsValues(t) \/ PutLands(t) \/ SaveFails(t)
    PROVE  IInv'
<1>1. made \in SUBSET (Profiles \X Channels) /\ unmade \in SUBSET (Profiles \X Channels)
  BY DEF IInv
<1>2. SaveApart(made, tab[t], save[t]) BY Kept
<1>3. CASE WritePluginSettingsValues(t)
  <2> DEFINE s == save[t]
             p == s.profile
             view == ProfileView(cloud, p)
             merged == ApplyPrefsDiff(view, s.baseline, s.local)
             values == MergeProfileView(cloud, merged, p)
             new == [[[s EXCEPT !.pc = "put"] EXCEPT !.baseline = None] EXCEPT !.values = values]
  <2>1. s.pc = "read" BY <1>3 DEF WritePluginSettingsValues
  <2>2. /\ p \in Profiles /\ IsView(s.local) /\ IsView(s.baseline)
        /\ Difference(s.local, s.baseline) \subseteq Allowed(made, p)
        /\ \A q \in ProfilesOf(tab[t]) :
              Difference(tab[t].local, s.local) \subseteq Allowed(made, q)
    BY <1>2, <2>1 DEF SaveApart
  <2>3. IsView(view) /\ view.favorites \subseteq Allowed(made, p)
    BY <2>2, Kept, ViewApart
  <2>4. IsView(merged) /\ merged.favorites \subseteq Allowed(made, p)
    <3> HIDE DEF s, p, view
    <3> QED BY <2>2, <2>3, DiffFavorites
  <2>5. BlobApart(made, values)
    <3> HIDE DEF merged, p
    <3> QED BY <2>2, <2>4, Kept, MergedApart
  <2>6. CASE /\ save' = [save EXCEPT ![t].pc = "put", ![t].baseline = None,
                                     ![t].values = values]
             /\ UNCHANGED <<tab, reload>>
    <3> HIDE DEF values
    <3>1. save' = [save EXCEPT ![t] = new]
      BY <2>6, <1>2 DEF IInv, SaveApart
    <3>2. new \in [pc : {"put"}, baseline : {None}, local : {s.local}, profile : {p},
                   values : {values}]
      BY <1>2 DEF SaveApart
    <3> HIDE DEF new
    <3>3. SaveApart(made, tab[t], new)
      BY <2>2, <2>5, <3>2 DEF SaveApart
    <3>4. UNCHANGED <<cloud, made, unmade>> BY <1>3 DEF WritePluginSettingsValues
    <3> QED BY <1>1, <2>6, <3>1, <3>3, <3>4, Kept, OneTab
  <2>7. CASE save' = [save EXCEPT ![t] = NoSave] /\ DropEdits(t, tab[t])
    <3>1. UNCHANGED <<cloud, made, unmade>> BY <1>3 DEF WritePluginSettingsValues
    <3> QED BY <2>7, <3>1, Kept, Dropping
  <2> QED BY <1>3, <2>6, <2>7 DEF WritePluginSettingsValues
<1>4. CASE PutLands(t)
  <2> DEFINE s == save[t]
             new == [s EXCEPT !.pc = "landed"]
  <2>1. s.pc = "put" /\ cloud' = s.values BY <1>4 DEF PutLands
  <2>2. save' = [save EXCEPT ![t] = new] BY <1>2, <1>4 DEF PutLands, IInv, SaveApart
  <2>3. BlobApart(made, s.values) BY <1>2, <2>1 DEF SaveApart
  <2>4. new \in [pc : {"landed"}, baseline : {s.baseline}, local : {s.local},
                 profile : {s.profile}, values : {s.values}]
    BY <1>2 DEF SaveApart
  <2> HIDE DEF new
  <2>5. SaveApart(made, tab[t], new) BY <1>2, <2>1, <2>3, <2>4 DEF SaveApart
  <2>6. UNCHANGED <<tab, reload, made, unmade>> BY <1>4 DEF PutLands
  <2> QED BY <1>1, <2>1, <2>2, <2>3, <2>5, <2>6, Kept, OneTab
<1>5. CASE SaveFails(t)
  <2> DEFINE x == tab[t]
             timer == IF x.retryTimer = "none" THEN "save" ELSE x.retryTimer
             y == [[x EXCEPT !.dirty = TRUE] EXCEPT !.retryTimer = timer]
  <2>1. IsTab(x) BY Kept
  <2>2. timer \in {"none", "load", "save"} BY <2>1 DEF IsTab
  <2>3. tab' = [tab EXCEPT ![t] = y] BY <1>5, <2>1 DEF SaveFails, IInv, IsTab
  <2> HIDE DEF timer
  <2>4. Alike(x, y) BY <2>1, <2>2 DEF Alike, IsTab
  <2>5. save' = [save EXCEPT ![t] = NoSave] /\ UNCHANGED <<cloud, reload, made, unmade>>
    BY <1>5 DEF SaveFails
  <2> HIDE DEF y
  <2> QED BY <2>3, <2>4, <2>5, Waiting
<1> QED BY <1>3, <1>4, <1>5

\* The end of a save: the tab shows what it wrote with what was edited since,
\* and the others are told.
LEMMA Ending ==
    ASSUME IInv, NEW t \in Tabs, SaveDone(t)
    PROVE  /\ IInv'
           /\ tab'[t].local.favorites
                 = (ProfileView(save[t].values, save[t].profile).favorites
                       \ Difference(save[t].local, tab[t].local))
                   \cup Difference(tab[t].local, save[t].local)
<1> DEFINE s == save[t]
           x == tab[t]
           view == ProfileView(s.values, s.profile)
           merged == NormalizePreferences(view)
           local == ApplyPrefsDiff(merged, s.local, x.local)
           y == [[x EXCEPT !.baseline = merged] EXCEPT !.local = local]
<1>1. /\ IsTab(x) /\ SaveApart(made, x, s) /\ TabApart(made, x)
  BY Kept
<1>2. s.pc = "landed" BY DEF SaveDone
<1>3. s.profile \in Profiles /\ IsView(s.local) /\ BlobApart(made, s.values)
  BY <1>1, <1>2 DEF SaveApart
<1>4. IsView(merged) /\ merged.favorites = view.favorites
  BY <1>3, ViewApart, NormalizeKeepsFavorites
<1>5. /\ IsView(local)
      /\ local.favorites = (merged.favorites \ Difference(s.local, x.local))
                               \cup Difference(x.local, s.local)
  <2> HIDE DEF merged, s
  <2> QED BY <1>1, <1>3, <1>4, DiffFavorites DEF IsTab
<1>6. /\ UNCHANGED <<cloud, reload, made, unmade>>
      /\ save' = [save EXCEPT ![t] = NoSave]
      /\ tab' = [u \in Tabs |-> IF u = t THEN y ELSE [tab[u] EXCEPT !.notice = TRUE]]
  BY DEF SaveDone
<1> HIDE DEF local, merged
<1>7. IsTab(y) /\ y.local = local /\ y.baseline = merged
      /\ y.loaded = x.loaded /\ y.profile = x.profile
  BY <1>1, <1>4, <1>5 DEF IsTab
<1>8. TabApart(made, y)
  <2>1. \A p \in ProfilesOf(x) : Difference(x.local, s.local) \subseteq Allowed(made, p)
    BY <1>1, <1>2 DEF SaveApart
  <2>2. Difference(local, merged) \subseteq Difference(x.local, s.local)
    BY <1>5 DEF Difference
  <2>3. ProfilesOf(y) = ProfilesOf(x) BY <1>7 DEF ProfilesOf
  <2> QED BY <1>7, <2>1, <2>2, <2>3 DEF TabApart
<1> HIDE DEF y
<1>9. ASSUME NEW u \in Tabs
      PROVE  /\ IsTab(tab'[u]) /\ TabApart(made', tab'[u])
             /\ SaveApart(made', tab'[u], save'[u]) /\ ReloadApart(made', reload'[u])
  <2>1. CASE u = t
    <3>1. tab'[u] = y /\ save'[u] = NoSave /\ reload'[u] = reload[u]
      BY <1>6, <2>1 DEF IInv
    <3>2. SaveApart(made, y, NoSave) /\ ReloadApart(made, reload[u]) BY Kept, NoSaveApart
    <3> QED BY <1>6, <1>7, <1>8, <3>1, <3>2
  <2>2. CASE u # t
    <3>1. tab'[u] = [tab[u] EXCEPT !.notice = TRUE]
      BY <1>6, <2>2
    <3>2. save'[u] = save[u] /\ reload'[u] = reload[u]
      BY <1>6, <2>2 DEF IInv
    <3>3. Alike(tab[u], tab'[u])
      <4>1. IsTab(tab[u]) BY Kept
      <4>2. Alike(tab[u], [tab[u] EXCEPT !.notice = TRUE]) BY <4>1, TabHelpers
      <4> QED BY <3>1, <4>2
    <3>4. /\ TabApart(made, tab[u]) /\ SaveApart(made, tab[u], save[u])
          /\ ReloadApart(made, reload[u])
      BY Kept
    <3> QED BY <1>6, <3>2, <3>3, <3>4, AlikeApart DEF Alike
  <2> QED BY <2>1, <2>2
<1>10. tab'[t].local = local BY <1>6, <1>7
<1>11. tab' = [u \in Tabs |-> tab'[u]] /\ save' = [u \in Tabs |-> save'[u]] BY <1>6 DEF IInv
<1> QED BY <1>4, <1>5, <1>6, <1>9, <1>10, <1>11 DEF IInv

LEMMA Elsewhere ==
    ASSUME IInv, NEW p \in Profiles, NEW c \in Channels, SavedElsewhere(p, c)
    PROVE  IInv'
<1> DEFINE view == ProfileView(cloud, p)
           dropped == [view EXCEPT !.favorites = @ \ {c},
                                   !.favoriteOrder = Only(@, Channels \ {c})]
           added == [view EXCEPT !.favorites = @ \cup {c}, !.favoriteOrder = Append(@, c)]
           local == NormalizePreferences(IF c \in view.favorites THEN dropped ELSE added)
           merged == ApplyPrefsDiff(view, view, local)
<1>1. IsView(view) /\ view.favorites \subseteq Allowed(made, p)
  BY ViewApart DEF IInv
<1>2. IsView(local) /\ local.favorites = IF c \in view.favorites THEN view.favorites \ {c}
                                         ELSE view.favorites \cup {c}
  <2> HIDE DEF view
  <2>1. IsView(dropped) /\ dropped.favorites = view.favorites \ {c}
    <3> DEFINE o == Only(view.favoriteOrder, Channels \ {c})
    <3>1. dropped = [view EXCEPT !.favorites = @ \ {c}, !.favoriteOrder = o]
      BY <1>1 DEF IsView
    <3>2. Fits(view.favorites \ {c}, o) BY <1>1, Dropped DEF IsView
    <3> HIDE DEF dropped, o
    <3> QED BY <1>1, <3>1, <3>2 DEF IsView
  <2>2. ASSUME c \notin view.favorites
        PROVE  IsView(added) /\ added.favorites = view.favorites \cup {c}
    <3> DEFINE o == Append(view.favoriteOrder, c)
    <3>1. added = [view EXCEPT !.favorites = @ \cup {c}, !.favoriteOrder = o]
      BY <1>1 DEF IsView
    <3>2. Fits(view.favorites \cup {c}, o) BY <1>1, <2>2, Appended DEF IsView
    <3> HIDE DEF added, o
    <3> QED BY <1>1, <3>1, <3>2 DEF IsView
  <2> HIDE DEF added, dropped
  <2> QED BY <2>1, <2>2, NormalizeKeepsFavorites
<1>3. /\ cloud' = MergeProfileView(cloud, merged, p)
      /\ made' = IF c \in local.favorites THEN made \cup {<<p, c>>} ELSE made
      /\ unmade' = IF c \in local.favorites THEN unmade ELSE unmade \cup {<<p, c>>}
      /\ \E told \in SUBSET Tabs :
            tab' = [t \in Tabs |-> IF t \in told THEN [tab[t] EXCEPT !.notice = TRUE] ELSE tab[t]]
      /\ UNCHANGED <<save, reload>>
  BY DEF SavedElsewhere
<1>4. made \in SUBSET (Profiles \X Channels) /\ unmade \in SUBSET (Profiles \X Channels)
  BY DEF IInv
<1> HIDE DEF local, view
<1>5. made \subseteq made' /\ made' \in SUBSET (Profiles \X Channels)
      /\ unmade' \in SUBSET (Profiles \X Channels)
  BY <1>3, <1>4
<1>6. IsView(merged) /\ merged.favorites = local.favorites
  <2>1. IsView(merged) /\ merged.favorites = (view.favorites \ Difference(view, local))
                                                 \cup Difference(local, view)
    BY <1>1, <1>2, DiffFavorites
  <2> HIDE DEF merged
  <2> QED BY <2>1 DEF Difference
<1>7. local.favorites \subseteq Allowed(made', p)
  <2>1. view.favorites \subseteq Allowed(made', p) BY <1>1, <1>5, AllowedGrows
  <2>2. CASE c \in local.favorites
    <3>1. <<p, c>> \in made' BY <1>3, <2>2
    <3>2. c \in Allowed(made', p) BY <3>1 DEF Allowed
    <3> QED BY <1>2, <2>1, <3>2
  <2>3. CASE c \notin local.favorites
    BY <1>2, <2>1, <2>3
  <2> QED BY <2>2, <2>3
<1>8. BlobApart(made', cloud')
  <2>1. BlobApart(made', cloud) BY <1>5, Kept, BlobGrows DEF IInv
  <2> HIDE DEF merged
  <2> QED BY <1>3, <1>6, <1>7, <2>1, MergedApart
<1>9. ASSUME NEW t \in Tabs
      PROVE  /\ IsTab(tab'[t]) /\ TabApart(made', tab'[t])
             /\ SaveApart(made', tab'[t], save'[t]) /\ ReloadApart(made', reload'[t])
  <2>1. PICK told \in SUBSET Tabs :
            tab' = [u \in Tabs |-> IF u \in told THEN [tab[u] EXCEPT !.notice = TRUE] ELSE tab[u]]
    BY <1>3
  <2>2. tab'[t] = IF t \in told THEN [tab[t] EXCEPT !.notice = TRUE] ELSE tab[t] BY <2>1
  <2>3. Alike(tab[t], tab'[t])
    <3>1. IsTab(tab[t]) /\ Alike(tab[t], tab[t]) BY Kept
    <3>2. Alike(tab[t], [tab[t] EXCEPT !.notice = TRUE]) BY <3>1, TabHelpers
    <3> QED BY <2>2, <3>1, <3>2
  <2>4. TabApart(made, tab[t]) /\ SaveApart(made, tab[t], save[t])
        /\ ReloadApart(made, reload[t])
    BY Kept
  <2> QED BY <1>3, <1>5, <2>3, <2>4, AlikeApart, ReloadGrows DEF Alike
<1>10. tab' = [t \in Tabs |-> tab'[t]] BY <1>3
<1> QED BY <1>3, <1>5, <1>8, <1>9, <1>10 DEF IInv

LEMMA Unchanged ==
    ASSUME IInv, UNCHANGED vars
    PROVE  IInv'
BY DEF IInv, vars

LEMMA Inductive ==
    ASSUME IInv, [Next]_vars
    PROVE  IInv'
BY Viewing, Switching, Loading, Retrying, Flushing, Writing, Ending, Elsewhere, Unchanged
   DEF Next

(***************************************************************************)
(* Theorems                                                                *)
(***************************************************************************)
LEMMA Invariance == Spec => []IInv
<1>1. Init => IInv BY Initially
<1>2. IInv /\ [Next]_vars => IInv' BY Inductive
<1> QED BY <1>1, <1>2, PTL DEF Spec

\* The types of the preferences, of the tabs and of the saves.
THEOREM Types == Spec => []TypeOK
<1>1. ASSUME IInv PROVE TypeOK
  <2>1. ASSUME NEW t \in Tabs
        PROVE  /\ IsTab(tab[t]) /\ SaveApart(made, tab[t], save[t])
               /\ ReloadApart(made, reload[t])
    BY <1>1 DEF IInv
  <2>2. ASSUME NEW t \in Tabs
        PROVE  /\ tab[t].active \in Profiles /\ tab[t].profile \in Profiles
               /\ tab[t].local.favorites \subseteq Channels
               /\ tab[t].local.profileSelection \in Selections
               /\ tab[t].retryTimer \in {"none", "load", "save"}
               /\ tab[t].timer => tab[t].loaded
    BY <2>1 DEF IsTab, IsView
  <2>3. ASSUME NEW t \in Tabs
        PROVE  /\ save[t].pc \in {"idle", "read", "put", "landed"}
               /\ reload[t].retries \in BOOLEAN
    BY <2>1 DEF SaveApart, ReloadApart
  <2>4. cloud.top.favorites \subseteq Channels BY <1>1 DEF IInv, BlobApart, IsView
  <2>5. made \cup unmade \subseteq Profiles \X Channels BY <1>1 DEF IInv
  <2> QED BY <2>2, <2>3, <2>4, <2>5 DEF TypeOK
<1> QED BY <1>1, Invariance, PTL

\* A channel becomes a favorite of a profile only by an edit made on the view of
\* that profile, or on the legacy view it starts from (applyPrefsDiff and
\* mergeProfileView, with the switches of the profile that loads, saves and
\* retries meet).
THEOREM FavoritesStayApart == Spec => []ProfilesApart
<1>1. ASSUME IInv PROVE ProfilesApart
  <2>1. ASSUME NEW p \in Profiles, NEW c \in FavoritesOf(p)
        PROVE  {<<p, c>>, <<NoProfile, c>>} \cap made # {}
    <3>1. c \in Allowed(made, p) BY <1>1, <2>1, ViewApart DEF IInv, FavoritesOf
    <3> QED BY <3>1 DEF Allowed
  <2> QED BY <2>1 DEF ProfilesApart
<1> QED BY <1>1, Invariance, PTL

\* The order and the favorites agree in every view and in the store, however
\* additions, removals and moves of several tabs are merged (mergePrefsList,
\* applyPrefsDiff and normalizePreferences): each favorite has one place.
THEOREM OrderKept == Spec => []OrderMatchesFavorites
<1>1. ASSUME NEW v, IsView(v) PROVE OrderFits(v)
  BY <1>1, InjectiveSeq DEF IsView, Fits, OrderFits
<1>2. ASSUME IInv PROVE OrderMatchesFavorites
  <2>1. ASSUME NEW p \in Profiles PROVE IsView(ProfileView(cloud, p))
    BY <1>2, ViewApart DEF IInv
  <2>2. ASSUME NEW t \in Tabs PROVE IsView(tab[t].local) /\ IsView(tab[t].baseline)
    BY <1>2 DEF IInv, IsTab
  <2> QED BY <1>1, <2>1, <2>2 DEF OrderMatchesFavorites
<1> QED BY <1>2, Invariance, PTL

\* The end of a save keeps what was edited while it was on its way.
THEOREM EditsInFlightKept == Spec => InFlightEditsAreKept
<1> DEFINE Keeps ==
        \A t \in Tabs :
            LET then == save[t].local.favorites
                now == tab[t].local.favorites
            IN  save[t].pc = "landed" /\ save'[t].pc = "idle" /\ fresh[t]
                    => \A c \in Channels :
                          (c \in then) # (c \in now)
                              => (c \in tab'[t].local.favorites) = (c \in now)
<1>1. ASSUME IInv, [Next]_vars PROVE [Keeps]_vars
  <2> SUFFICES ASSUME NEW t \in Tabs, save[t].pc = "landed", save'[t].pc = "idle"
               PROVE  \A c \in Channels :
                          (c \in save[t].local.favorites) # (c \in tab[t].local.favorites)
                              => (c \in tab'[t].local.favorites)
                                     = (c \in tab[t].local.favorites)
    OBVIOUS
  <2>1. CASE SaveDone(t)
    <3>1. tab'[t].local.favorites
              = (ProfileView(save[t].values, save[t].profile).favorites
                    \ (save[t].local.favorites \ tab[t].local.favorites))
                \cup (tab[t].local.favorites \ save[t].local.favorites)
      BY <1>1, <2>1, Ending DEF Difference
    <3> QED BY <3>1
  <2>2. CASE SaveFails(t)
    BY <1>1, <2>2, Kept DEF SaveFails, IInv, IsTab
  <2>3. save'[t] # save[t] OBVIOUS
  <2>4. CASE \E u \in Tabs : \/ SaveDone(u) \/ SaveFails(u) \/ RunPrefsSave(u)
                             \/ WritePluginSettingsValues(u) \/ PutLands(u)
    <3>1. PICK u \in Tabs : \/ SaveDone(u) \/ SaveFails(u) \/ RunPrefsSave(u)
                            \/ WritePluginSettingsValues(u) \/ PutLands(u)
      BY <2>4
    <3>2. save = [v \in Tabs |-> save[v]] /\ SaveApart(made, tab[u], save[u])
      BY <1>1 DEF IInv
    <3>3. PICK s : save' = [save EXCEPT ![u] = s]
      <4>1. CASE WritePluginSettingsValues(u)
        BY <3>2, <4>1 DEF WritePluginSettingsValues, SaveApart
      <4>2. CASE RunPrefsSave(u)
        BY <3>2, <4>2 DEF RunPrefsSave
      <4>3. CASE PutLands(u)
        BY <3>2, <4>3 DEF PutLands
      <4> QED BY <3>1, <4>1, <4>2, <4>3 DEF SaveDone, SaveFails
    <3>4. u = t BY <2>3, <3>2, <3>3
    <3>5. ~RunPrefsSave(t) \/ save[t].pc = "idle" BY DEF RunPrefsSave
    <3>6. ~WritePluginSettingsValues(t) BY DEF WritePluginSettingsValues
    <3>7. ~PutLands(t) BY DEF PutLands
    <3> QED BY <2>1, <2>2, <3>1, <3>4, <3>5, <3>6, <3>7
  <2>5. CASE ~\E u \in Tabs : \/ SaveDone(u) \/ SaveFails(u) \/ RunPrefsSave(u)
                              \/ WritePluginSettingsValues(u) \/ PutLands(u)
    <3>1. UNCHANGED save
      BY <1>1, <2>5, ZenonT(60) DEF Next, vars, SavedElsewhere, AddFavorite, DropFavorite, MoveFavorite,
         SelectProfiles, Edit, SwitchProfile, BecomeVisible, HandlePrefsSyncMessage,
         ReloadDone, ReloadFails, RetryTimer, Flush
    <3> QED BY <2>3, <3>1
  <2> QED BY <2>4, <2>5
<1> QED BY <1>1, Invariance, PTL DEF Spec, InFlightEditsAreKept
=============================================================================
