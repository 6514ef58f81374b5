---------------------------- MODULE AdminSettings ----------------------------
(***************************************************************************)
(* The Organization tab of the administrator's page (ui/admin.js, with the *)
(* normalisation of ui/core.js and the listeners of ui/app.js): a draft of *)
(* the settings, what has been saved, and a save in two steps: the plugin  *)
(* stores and answers, then the answer goes to Silo's configuration.       *)
(*                                                                         *)
(* Settings are a record of those fields that some control of the tab      *)
(* changes in a way of its own, or whose normalisation is more than a      *)
(* default or a bound:                                                     *)
(*   mode, source, infer   the folder structure, and what legacy settings  *)
(*                         say of the source                               *)
(*   flag       any of the check boxes                                     *)
(*   label      the words "Virtual" before the name of the collection      *)
(*   aliases    the alternate paths, rows [from, to], "" for empty         *)
(*   guide      the sports guide: enabled, groups and overrides            *)
(*   keywords   the rows of event keywords; categories are numbers in the  *)
(*              order of their names                                       *)
(*   extra      the field sportsGuideEnabled, which the input event of     *)
(*              that check box adds                                        *)
(* Controls that no page renders (ECM, recordings, Live Rewind, keywords)  *)
(* are left out, and so are other tabs of the browser.                     *)
(***************************************************************************)
EXTENDS Lists

CONSTANTS
    StoredSettings,     \* what may be stored when the page is opened
    NoSettings,         \* the answer of a load that failed
    DefaultKeywords,    \* defaultEventKeywordRules
    CategoryOf,         \* normalizeEventCategoryId, of every category
    WordKey,            \* every keyword in lower case
    GroupNames,         \* providers' categories that aliases and hints name
    Paths,              \* alternate paths
    MaxSaves,           \* bound on the saves in flight
    MaxEdits            \* bound on the edits

KeywordRow ==
    [category : DOMAIN CategoryOf, words : Seq(DOMAIN WordKey), series : BOOLEAN, window : Nat]
AliasRow == [from : GroupNames \cup {""}, to : Paths \cup {""}]
GuideRule == [key : GroupNames, value : {"auto", "off"}]
SportsGuide == [enabled : BOOLEAN, groups : Seq(GuideRule), overrides : Seq(GuideRule)]
Modes == {"normal", "delimiter", "custom", "admin_delimiter"}
GroupSources == {"", "group", "group_channel", "channel", "profile_group"}
Extras == {"absent", "on", "off"}

SettingsType ==
    [mode : Modes, source : GroupSources, infer : BOOLEAN, flag : BOOLEAN, label : 0 .. 2,
     aliases : Seq(AliasRow), guide : SportsGuide, keywords : Seq(KeywordRow), extra : Extras]

\* The name of a category is normalised once; those of the defaults are, and
\* each of the defaults has keywords.
ASSUME AdminSettingsConstants ==
    /\ MaxEdits \in Nat
    /\ MaxSaves \in Nat
    /\ DOMAIN CategoryOf \subseteq Nat
    /\ \A c \in DOMAIN CategoryOf : CategoryOf[c] \in DOMAIN CategoryOf
    /\ \A c \in DOMAIN CategoryOf : CategoryOf[CategoryOf[c]] = CategoryOf[c]
    /\ DefaultKeywords \in Seq(KeywordRow)
    /\ \A row \in ToSet(DefaultKeywords) : CategoryOf[row.category] = row.category /\ row.words # <<>>
    /\ StoredSettings \subseteq SettingsType
    /\ NoSettings \notin SettingsType

VARIABLES
    draft,         \* state.adminCategorySettings
    saved,         \* state.savedAdminCategorySettings
    saveStatus,    \* state.adminSaveStatus
    shown,         \* the settings that the controls on the page show
    maySave,       \* the buttons Save and Discard are enabled
    plugin, silo,  \* what the two stores hold
    saves,         \* the saves in flight: their stage and what they send
    edits

adminVars == <<draft, saved, saveStatus, shown, maySave, plugin, silo, saves, edits>>

Saves == 1 .. MaxSaves
NoSave == [stage |-> "none", body |-> NoSettings]

(***************************************************************************)
(* Normalisation                                                           *)
(***************************************************************************)
\* defaultAdminCategorySettings
DefaultSettings ==
    [mode |-> "normal", source |-> "group", infer |-> FALSE, flag |-> FALSE, label |-> 0,
     aliases |-> <<>>, guide |-> [enabled |-> TRUE, groups |-> <<>>, overrides |-> <<>>],
     keywords |-> DefaultKeywords, extra |-> "absent"]

\* readAdminSettingsValue
ReadSettings(answer) == IF answer = NoSettings THEN DefaultSettings ELSE answer

\* normalizeVirtualGroupSource
VirtualGroupSource(value, inferLegacy) ==
    CASE value \in {"group", "group_channel", "channel", "profile_group"} -> value
      [] OTHER -> IF inferLegacy THEN "group_channel" ELSE "group"

\* normalizeCategoryAliases
CategoryAliases(rows) ==
    Firsts(Only(rows, {row \in ToSet(rows) : row.from # "" /\ row.to # ""}),
           [row \in ToSet(rows) |-> row])

\* Mutant: keywords that come again are kept.
KeywordListRepeated(words) == words

\* normalizeKeywordList
KeywordList(words) == Firsts(words, WordKey)

\* The minutes of a series, 0 when nothing is said.
SeriesWindow(minutes) ==
    CASE minutes = 0 -> 60 [] minutes \in 1 .. 14 -> 15 [] minutes > 360 -> 360 [] OTHER -> minutes

\* A row of what is stored, on its own.
EventKeywordRow(row) ==
    [category |-> CategoryOf[row.category],
     words |-> KeywordList(row.words),
     series |-> row.series,
     window |-> IF row.series THEN SeriesWindow(row.window) ELSE 0]

\* A further row of the same category.
Joined(row, next) ==
    LET series == row.series \/ next.series
    IN  [category |-> row.category,
         words |-> KeywordList(row.words \o next.words),
         series |-> series,
         window |-> IF ~series THEN 0
                    ELSE SeriesWindow(IF next.window # 0 THEN next.window ELSE row.window)]

\* normalizeEventKeywordRows: the defaults are always there.
EventKeywordRows(rows) ==
    LET normal == [i \in DOMAIN rows |-> EventKeywordRow(rows[i])]
        all == DefaultKeywords \o Only(normal, {row \in ToSet(normal) : row.words # <<>>})
        Of(c) == Only(all, {row \in ToSet(all) : row.category = c})
        NoRow(c) == [category |-> c, words |-> <<>>, series |-> FALSE, window |-> 0]
        ids == Sorted({row.category : row \in ToSet(all)}, <)
    IN  [i \in DOMAIN ids |-> FoldLeft(Joined, NoRow(ids[i]), Of(ids[i]))]

\* virtualGroupLabelSuffix takes one "Virtual" off.
LabelSuffix(label) == IF label = 0 THEN 0 ELSE label - 1

\* normalizeAdminCategorySettings
Normalize(s) ==
    LET source == VirtualGroupSource(s.source, s.infer)
    IN  [mode |-> IF \/ s.mode \in {"delimiter", "custom", "admin_delimiter"}
                     \/ source = "profile_group"
                  THEN "delimiter" ELSE "normal",
         source |-> source,
         infer |-> source # "group",
         flag |-> s.flag,
         label |-> LabelSuffix(s.label),
         aliases |-> CategoryAliases(s.aliases),
         guide |-> s.guide,
         keywords |-> EventKeywordRows(s.keywords),
         extra |-> s.extra]

(***************************************************************************)
(* The page                                                                *)
(***************************************************************************)
\* adminSettingsDirty
Dirty(settings, stored) == settings # stored

\* markAdminSettingsDraft
MarkDraft(settings) ==
    saveStatus' = IF saveStatus = "saving" THEN "saving"
                  ELSE IF Dirty(settings, saved) THEN "dirty" ELSE "idle"

\* Mutant: the buttons know nothing of a save on its way.
SaveButtonsWhileSaving(settings) == maySave' = Dirty(settings, saved')

\* renderAdminTopbarActions
SaveButtons(settings) == maySave' = (Dirty(settings, saved') /\ saveStatus' # "saving")

\* renderAdminPage, with "settings" in the draft.
RenderAdminPage(settings) ==
    /\ draft' = Normalize(settings)
    /\ shown' = draft'
    /\ SaveButtons(draft')

\* loadAdminApp: what cannot be loaded is taken for the defaults.
LoadedWith(answer) ==
    LET settings == Normalize(ReadSettings(answer))
    IN  /\ draft = settings
        /\ saved = settings
        /\ shown = settings

AdminInit ==
    /\ plugin \in StoredSettings
    /\ silo = plugin
    /\ LoadedWith(plugin) \/ LoadedWith(NoSettings)
    /\ saveStatus = "idle"
    /\ maySave = FALSE
    /\ saves = [i \in Saves |-> NoSave]
    /\ edits = MaxEdits

\* Anything that draws the page again: the other tab and back, scores that come.
Redraw ==
    /\ UNCHANGED <<saved, saveStatus, plugin, silo, saves, edits>>
    /\ RenderAdminPage(draft)

(***************************************************************************)
(* Edits                                                                   *)
(***************************************************************************)
Edit ==
    /\ edits > 0
    /\ edits' = edits - 1
    /\ UNCHANGED <<saved, plugin, silo, saves>>

\* The edit is drawn ...
EditAndDraw(settings, marked) == Edit /\ MarkDraft(marked) /\ RenderAdminPage(settings)

\* ... or it is in its control only.
Undrawn(settings) == Edit /\ draft' = settings /\ UNCHANGED <<shown, maySave>>

\* renderAdminCategorySettings has no more controls for folders as supplied.
Offered(field) == field \in {"mode", "flag"} \/ shown.mode = "delimiter"

\* updateCategoryParsingField, for the change event.
UpdateField(field, value) ==
    LET settings == Normalize([draft EXCEPT ![field] = value])
    IN  Offered(field) /\ EditAndDraw(settings, settings)

\* The input event, while the label is typed: nothing is marked.
TypeField(value) ==
    /\ Offered("label")
    /\ Undrawn(Normalize([draft EXCEPT !.label = value]))
    /\ UNCHANGED saveStatus

\* The check box of the sports guide: its input event adds a field, and its
\* change event does not draw.
ToggleSportsGuide(enabled) ==
    LET settings == [Normalize([draft EXCEPT !.extra = IF enabled THEN "on" ELSE "off"])
                        EXCEPT !.guide.enabled = enabled]
    IN  Undrawn(settings) /\ MarkDraft(settings)

\* addAdminCategoryAlias
AddAlias(from, to) ==
    /\ shown.mode = "delimiter"
    /\ LET settings == [draft EXCEPT !.aliases =
                            CategoryAliases(Append(@, [from |-> from, to |-> to]))]
       IN  EditAndDraw(settings, settings)

\* removeAdminCategoryAlias, of the row shown as i.
RemoveAlias(i) ==
    /\ shown.mode = "delimiter"
    /\ i \in DOMAIN shown.aliases
    /\ LET settings == Normalize([draft EXCEPT !.aliases =
                                      IF i \in DOMAIN @ THEN RemoveAt(@, i) ELSE @])
       IN  EditAndDraw(settings, settings)

\* updateAdminCategoryAlias: neither normalised nor drawn.
UpdateAlias(i, to) ==
    /\ shown.mode = "delimiter"
    /\ i \in DOMAIN shown.aliases
    /\ LET rows == draft.aliases
           padded == [j \in 1 .. (IF i > Len(rows) THEN i ELSE Len(rows)) |->
                         IF j \in DOMAIN rows THEN rows[j] ELSE [from |-> "", to |-> ""]]
           settings == [draft EXCEPT !.aliases = [padded EXCEPT ![i].to = to]]
       IN  Undrawn(settings) /\ MarkDraft(settings)

\* updateAdminSportsGuide, a hint for a group or a link of a channel: the rule
\* replaces the one with the same key.
AddGuideRule(list, key, value) ==
    LET settings == [draft EXCEPT !.guide[list] =
                        Append(Only(@, {rule \in ToSet(@) : rule.key # key}),
                               [key |-> key, value |-> value])]
    IN  EditAndDraw(settings, settings)

\* ... and the removal of the rule shown as i.
RemoveGuideRule(list, i) ==
    /\ i \in DOMAIN shown.guide[list]
    /\ i \in DOMAIN draft.guide[list]
    /\ LET settings == [draft EXCEPT !.guide[list] = RemoveAt(@, i)]
       IN  EditAndDraw(settings, settings)

\* discardAdminCategorySettings
Discard ==
    /\ maySave
    /\ saveStatus' = "idle"
    /\ UNCHANGED <<saved, plugin, silo, saves, edits>>
    /\ RenderAdminPage(saved)

(***************************************************************************)
(* The save                                                                *)
(***************************************************************************)
\* saveAdminCategorySettings up to its first await.
SaveSettings ==
    /\ maySave
    /\ \E i \in Saves :
          /\ saves[i] = NoSave /\ \A j \in 1 .. (i - 1) : saves[j] # NoSave
          /\ saves' = [saves EXCEPT ![i] = [stage |-> "post", body |-> Normalize(draft)]]
    /\ saveStatus' = "saving"
    /\ UNCHANGED <<saved, plugin, silo, edits>>
    /\ RenderAdminPage(Normalize(draft))

\* The plugin stores what it knows of the settings, and answers it.
Accepted(body) == [body EXCEPT !.extra = "absent"]

\* Its answer is installed, and persistAdminCategorySettingsInSilo sends it on.
PluginAnswers(i) ==
    /\ saves[i].stage = "post"
    /\ plugin' = Accepted(saves[i].body)
    /\ draft' = Normalize(ReadSettings(plugin'))
    /\ saves' = [saves EXCEPT ![i] = [stage |-> "put", body |-> draft']]
    /\ UNCHANGED <<saved, saveStatus, shown, maySave, silo, edits>>

\* Silo has stored it: whatever the draft is by now counts as saved.
SaveEnds(i) ==
    /\ saves[i].stage = "put"
    /\ silo' = saves[i].body
    /\ saves' = [saves EXCEPT ![i] = NoSave]
    /\ saved' = draft
    /\ saveStatus' = "saved"
    /\ UNCHANGED <<plugin, edits>>
    /\ RenderAdminPage(draft)

\* One of the two requests fails, its effect had or not.
SaveFails(i) ==
    /\ saves[i].stage # "none"
    /\ plugin' \in IF saves[i].stage = "post" THEN {plugin, Accepted(saves[i].body)} ELSE {plugin}
    /\ silo' \in IF saves[i].stage = "put" THEN {silo, saves[i].body} ELSE {silo}
    /\ saves' = [saves EXCEPT ![i] = NoSave]
    /\ saveStatus' = "error"
    /\ UNCHANGED <<saved, edits>>
    /\ RenderAdminPage(draft)

AdminNext ==
    \/ Redraw
    \/ \E on \in BOOLEAN : UpdateField("flag", on) \/ ToggleSportsGuide(on)
    \/ \E v \in {"normal", "delimiter"} : UpdateField("mode", v)
    \/ \E v \in {"group", "group_channel", "channel"} : UpdateField("source", v)
    \/ \E n \in 0 .. 2 : UpdateField("label", n) \/ TypeField(n)
    \/ \E g \in GroupNames, p \in Paths : AddAlias(g, p)
    \/ \E i \in DOMAIN shown.aliases : RemoveAlias(i) \/ \E p \in Paths \cup {""} : UpdateAlias(i, p)
    \/ \E list \in {"groups", "overrides"} :
          \/ \E g \in GroupNames, v \in {"auto", "off"} : AddGuideRule(list, g, v)
          \/ \E i \in DOMAIN shown.guide[list] : RemoveGuideRule(list, i)
    \/ Discard \/ SaveSettings
    \/ \E i \in Saves : PluginAnswers(i) \/ SaveEnds(i) \/ SaveFails(i)

(***************************************************************************)
(* Properties                                                              *)
(***************************************************************************)
\* When the page says that the settings are saved, the plugin and Silo hold the
\* same ones, whatever was edited while the two requests were on their way.
StoresAgree == saveStatus = "saved" => plugin = silo

\* The page normalises its draft whenever it is drawn, loaded or sent: doing it
\* again changes nothing, or settings nobody touched would look edited.  (Asked
\* of the draft before and after each edit of it.  A label with more than two
\* "Virtual" is left out: every drawing takes one more off.)
DrawingIsStable ==
    [][draft' # draft
          => \A d \in {draft, draft'} : Normalize(Normalize(d)) = Normalize(d)]_adminVars
=============================================================================
