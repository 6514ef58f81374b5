---------------------------- MODULE PlayerOverlays ----------------------------
(***************************************************************************)
(* What opens over the player (ui/player.js, with the sports drawer of     *)
(* ui/sports.js and the keyboard of ui/app.js): three menus, the channel   *)
(* guide, the sports drawer and the error panel; the control that has the  *)
(* focus; and the chrome, which hides when nobody touches anything.        *)
(***************************************************************************)
EXTENDS Naturals, FiniteSets

\* Controls of the top and the bottom of the player that can have the focus.
Controls == {"audio", "language", "volume", "more", "guide", "exit"}

\* playerOverlayOpenerActions: the menu, guide and sports actions.
Menus == {"audio", "volume", "more"}

VARIABLES
    watching,     \* state.view is the player
    sportsFirst,  \* sportsFirstPlayerEnabled
    menus,        \* audioMenuOpen, volumeMenuOpen and moreMenuOpen
    guideOpen,    \* state.playerGuideOpen
    drawerOpen,   \* state.playerSportsOpen
    polling,      \* state.playerSportsTimer
    failed,       \* state.playerErrorMessage
    opener,       \* playerOverlayOpener: a control, a gone one, or none
    focus,        \* a control, the guide panel, the error panel or neither
    idle,         \* state.playerChromeIdle
    timer,        \* state.playerChromeTimer
    chromeHidden  \* the class is-idle of the shell

overlayVars == <<watching, sportsFirst, menus, guideOpen, drawerOpen, polling, failed,
                 opener, focus, idle, timer, chromeHidden>>

OverlaysInit ==
    /\ watching = FALSE
    /\ sportsFirst \in BOOLEAN
    /\ menus = {}
    /\ guideOpen = FALSE
    /\ drawerOpen = FALSE
    /\ polling = FALSE
    /\ failed = FALSE
    /\ opener = "none"
    /\ focus = "elsewhere"
    /\ idle = FALSE
    /\ timer = FALSE
    /\ chromeHidden = FALSE

\* playerChromeHasFocus
ChromeHasFocus == focus \in Controls \cup {"guide panel"}

\* updatePlayerChrome, with the chrome idle; the sports drawer does not count.
MayHide == menus = {} /\ ~guideOpen /\ ~ChromeHasFocus /\ ~failed

\* wakePlayerChrome
Wake == idle' = FALSE /\ timer' = TRUE /\ chromeHidden' = FALSE

(***************************************************************************)
(* The page                                                                *)
(***************************************************************************)
\* renderPlayerPage: what was open stays open, on new elements.
RenderPlayerPage ==
    /\ watching' = TRUE
    /\ failed' = FALSE
    /\ opener' = IF opener = "none" THEN "none" ELSE "gone"
    /\ focus' = "elsewhere"
    /\ Wake
    /\ UNCHANGED <<sportsFirst, menus, guideOpen, drawerOpen, polling>>

\* stopPlayback
StopPlayback ==
    /\ drawerOpen' = FALSE
    /\ polling' = FALSE
    /\ idle' = FALSE
    /\ timer' = FALSE

\* setView to another page, after "open" is left of the menus.
LeavePlayerFor(open) ==
    /\ watching
    /\ StopPlayback
    /\ watching' = FALSE
    /\ menus' = open
    /\ opener' = IF opener = "none" THEN "none" ELSE "gone"
    /\ focus' = "elsewhere"
    /\ chromeHidden' = FALSE
    /\ UNCHANGED <<sportsFirst, guideOpen, failed>>

ShowPlayerError ==
    /\ watching
    /\ failed' = TRUE
    /\ focus' = IF focus \in Controls THEN focus ELSE "error panel"
    /\ Wake
    /\ UNCHANGED <<watching, sportsFirst, menus, guideOpen, drawerOpen, polling, opener>>

ClearPlayerError ==
    /\ watching
    /\ failed
    /\ failed' = FALSE
    /\ focus' = IF focus = "error panel" THEN "elsewhere" ELSE focus
    /\ UNCHANGED <<watching, sportsFirst, menus, guideOpen, drawerOpen, polling, opener,
                   idle, timer, chromeHidden>>

(***************************************************************************)
(* handlePlayerAction: "control" has been clicked, "open" is what is left  *)
(* of the menus                                                            *)
(***************************************************************************)
Clicked(control, open, guide) ==
    /\ watching
    /\ menus' = open
    /\ guideOpen' = guide
    /\ focus' \in {control, "elsewhere"}
    /\ Wake
    /\ UNCHANGED <<watching, sportsFirst, failed>>

\* Mutant: the language button is forgotten as an opener.
RememberButLanguage(control) == opener' = IF control = "language" THEN opener ELSE control

\* rememberPlayerOverlayOpener: an item of the More menu counts as its button.
Remember(control) == opener' = control

ToggleMenu(menu, control) ==
    /\ Clicked(control, IF menu \in menus THEN {} ELSE {menu}, guideOpen)
    /\ Remember(control)
    /\ UNCHANGED <<drawerOpen, polling>>

\* toggleLanguageMenu without a second language.
NoLanguages ==
    /\ Clicked("language", {}, guideOpen)
    /\ Remember("language")
    /\ UNCHANGED <<drawerOpen, polling>>

\* The guide, by its button or from the More menu.
ToggleGuide(control) ==
    /\ control = "guide" \/ (control = "more" /\ "more" \in menus)
    /\ Clicked(control, {}, ~guideOpen)
    /\ Remember(control)
    /\ drawerOpen' = FALSE
    /\ polling' = FALSE

GuideClose ==
    /\ guideOpen
    /\ Clicked("guide panel", menus, FALSE)
    /\ UNCHANGED <<opener, drawerOpen, polling>>

\* togglePlayerSports with the timer of the drawer.
TogglePlayerSports(open) ==
    /\ sportsFirst
    /\ drawerOpen' = open
    /\ polling' = open
    /\ menus' = {}
    /\ guideOpen' = FALSE

SportsAction ==
    /\ watching
    /\ "more" \in menus
    /\ TogglePlayerSports(~drawerOpen)
    /\ Remember("more")
    /\ focus' \in {"more", "elsewhere"}
    /\ Wake
    /\ UNCHANGED <<watching, sportsFirst, failed>>

\* Its close button, which is not an opener, and the key Down.
SportsByOther(open) ==
    /\ watching
    /\ open = ~drawerOpen
    /\ TogglePlayerSports(open)
    /\ focus' \in {focus, "elsewhere"}
    /\ Wake
    /\ UNCHANGED <<watching, sportsFirst, failed, opener>>

\* Fullscreen, cast, picture in picture, subtitles, play and pause, an audio
\* track and most items of the More menu close the menus; the aspect ratio, the
\* favorite and the buttons of Live Rewind do not.
OtherAction(control, open) ==
    /\ Clicked(control, open, guideOpen)
    /\ UNCHANGED <<opener, drawerOpen, polling>>

\* Back, and the actions that lead to the search and to multiview.
BackAction == LeavePlayerFor(menus)
LeavingAction == LeavePlayerFor(menus \ {"more"})

\* A channel of the drawer: it closes, and the player is rendered for the channel.
SportsChannel ==
    /\ watching
    /\ drawerOpen
    /\ drawerOpen' = FALSE
    /\ polling' = FALSE
    /\ failed' = FALSE
    /\ opener' = IF opener = "none" THEN "none" ELSE "gone"
    /\ focus' = "elsewhere"
    /\ Wake
    /\ UNCHANGED <<watching, sportsFirst, menus, guideOpen>>

(***************************************************************************)
(* The keyboard, the focus and the clock                                   *)
(***************************************************************************)
\* focusPlayerOverlayOpener, with the wakePlayerChrome that follows.
FocusOpener(fallback) ==
    /\ opener' = "none"
    /\ focus' = IF opener \in Controls THEN opener ELSE fallback
    /\ Wake

\* Escape: closeTopPlayerOverlay closes the menus, then the guide, then the
\* drawer; with none of them open the player is left.
EscapeMenus ==
    /\ menus # {}
    /\ menus' = {}
    /\ FocusOpener(CHOOSE m \in menus : TRUE)
    /\ UNCHANGED <<guideOpen, drawerOpen, polling>>

EscapeGuide ==
    /\ menus = {}
    /\ guideOpen
    /\ guideOpen' = FALSE
    /\ FocusOpener("guide")
    /\ UNCHANGED <<menus, drawerOpen, polling>>

EscapeDrawer ==
    /\ menus = {}
    /\ ~guideOpen
    /\ drawerOpen
    /\ TogglePlayerSports(FALSE)
    /\ FocusOpener("more")

EscapeKey ==
    \/ /\ watching
       /\ EscapeMenus \/ EscapeGuide \/ EscapeDrawer
       /\ UNCHANGED <<watching, sportsFirst, failed>>
    \/ /\ menus = {} /\ ~guideOpen /\ ~drawerOpen
       /\ LeavePlayerFor({})

\* Tab and the mouse: focusin, mousemove and the keys wake the chrome, and so
\* does everything but the focus getting lost.
FocusMoves(to) ==
    /\ watching
    /\ to = "guide panel" => guideOpen
    /\ to = "error panel" => failed
    /\ focus' = to
    /\ IF to = "elsewhere" THEN UNCHANGED <<idle, timer, chromeHidden>> ELSE Wake
    /\ UNCHANGED <<watching, sportsFirst, menus, guideOpen, drawerOpen, polling, failed, opener>>

MouseMoves ==
    /\ watching
    /\ Wake
    /\ UNCHANGED <<watching, sportsFirst, menus, guideOpen, drawerOpen, polling, failed,
                   opener, focus>>

\* The timer of wakePlayerChrome.
IdleTimer ==
    /\ timer
    /\ IF ChromeHasFocus THEN Wake
       ELSE idle' = TRUE /\ timer' = FALSE /\ chromeHidden' = MayHide
    /\ UNCHANGED <<watching, sportsFirst, menus, guideOpen, drawerOpen, polling, failed,
                   opener, focus>>

\* The tracks of the stream change: updateAudioMenu looks at the chrome.
TracksChange ==
    /\ watching
    /\ chromeHidden' = (idle /\ MayHide)
    /\ UNCHANGED <<watching, sportsFirst, menus, guideOpen, drawerOpen, polling, failed,
                   opener, focus, idle, timer>>

\* setVideoSource, for a channel that has started: the menus close.
SourceIsSet ==
    /\ watching
    /\ menus' = {}
    /\ focus' \in {focus, "elsewhere"}
    /\ chromeHidden' = (idle /\ ~guideOpen /\ ~ChromeHasFocus /\ ~failed)
    /\ UNCHANGED <<watching, sportsFirst, guideOpen, drawerOpen, polling, failed,
                   opener, idle, timer>>

OverlaysNext ==
    \/ RenderPlayerPage \/ ShowPlayerError \/ ClearPlayerError
    \/ \E m \in Menus : ToggleMenu(m, m)
    \/ ToggleMenu("audio", "language") \/ NoLanguages
    \/ ToggleGuide("guide") \/ ToggleGuide("more") \/ GuideClose
    \/ SportsAction \/ SportsByOther(TRUE) \/ SportsByOther(FALSE) \/ SportsChannel
    \/ \E c \in Controls : OtherAction(c, {}) \/ OtherAction(c, menus)
    \/ BackAction \/ LeavingAction
    \/ EscapeKey
    \/ \E to \in Controls \cup {"guide panel", "error panel", "elsewhere"} : FocusMoves(to)
    \/ MouseMoves \/ IdleTimer \/ TracksChange \/ SourceIsSet

(***************************************************************************)
(* Properties                                                              *)
(***************************************************************************)
\* Escape out of a menu leads back to the button that opened it, also after the
\* page was rendered anew under the open menu.
EscapeLeadsBack ==
    [][(EscapeKey /\ menus # {})
          => \/ focus' \in menus
             \/ menus = {"audio"} /\ focus' = "language"]_overlayVars
=============================================================================
