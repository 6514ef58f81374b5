------------------------------- MODULE AppData -------------------------------
(***************************************************************************)
(* How a browser tab loads the catalog and fills its guide (ui/app.js,     *)
(* ui/guide.js, ui/core.js): the bootstrap, the saved copy of it, the      *)
(* guide windows fetched by five tasks that share the programs and what    *)
(* guideCoverage says of them, and the polling of a manual refresh.        *)
(*                                                                         *)
(* Time is counted in slots.  A program is a pair [from, to]; Guide is     *)
(* what the provider has, the same all the while: a provider that moves a  *)
(* program while the tab is open is left out.                              *)
(***************************************************************************)
EXTENDS Integers, FiniteSets

CONSTANTS
    Guide,            \* the programs of the provider
    Lookbehind,       \* guideLookbehindSeconds
    Lookahead,        \* guideInitialLookaheadSeconds
    GridAhead,        \* guideWindow().end
    SearchAhead,      \* guideSearchLookaheadSeconds
    CacheBehind, CacheAhead,   \* cacheProgramWindow
    CacheMaxAge,      \* 72 hours
    Start, MaxNow,    \* the clock, and the bound on it
    MaxAttempts,      \* 300 rounds of pollGuideRefresh
    MaxRefreshes,     \* bound on the manual refreshes and the warm pings
    MaxFailures       \* bound on the requests that fail

ASSUME AppDataConstants ==
    /\ {Lookbehind, Lookahead, GridAhead, SearchAhead, CacheBehind, CacheAhead,
        CacheMaxAge, Start, MaxNow, MaxAttempts, MaxRefreshes, MaxFailures} \subseteq Nat
    /\ \A p \in Guide : p.from \in Nat /\ p.to \in Nat /\ p.from < p.to
    /\ Start > Lookbehind /\ Start > CacheMaxAge + CacheBehind /\ Start <= MaxNow

VARIABLES
    now,
    windowed,    \* the backend honours the window of a guide request
    loaded,      \* state.app is there
    fromCache,   \* state.appLoadedFromCache
    programs,    \* state.app.programs
    index,       \* state.sortedPrograms and state.programsByChannel
    coverage,    \* guideCoverage: start, end, full
    view,        \* state.view
    task,        \* what each task waits for
    window,      \* the guide window a task has asked for
    refreshing,  \* state.refreshing
    attempt,     \* the round of pollGuideRefresh
    refreshes,   \* what is left of MaxRefreshes
    failures     \* what is left of MaxFailures

data == <<loaded, fromCache, programs, index, coverage>>
poll == <<refreshing, attempt, refreshes>>
appVars == <<now, windowed, data, view, task, window, poll, failures>>

Tasks == {"load", "refresh", "tick", "warm", "ensure"}
Waits == {"none", "bootstrap", "prefs", "capability", "post", "ping", "timer", "status", "guide"}
Views == {"home", "guide", "search"}

AppTypeOK ==
    /\ now \in Start .. MaxNow
    /\ {windowed, loaded, fromCache, refreshing} \subseteq BOOLEAN
    /\ programs \subseteq Guide /\ index \subseteq Guide
    /\ coverage.start \in Nat /\ coverage.end \in Nat /\ coverage.full \in BOOLEAN
    /\ view \in Views
    /\ task \in [Tasks -> Waits]
    /\ attempt \in 0 .. MaxAttempts

\* programOverlapsWindow
Overlaps(p, from, to) == p.to > from /\ p.from < to

(***************************************************************************)
(* Guide windows                                                           *)
(***************************************************************************)
\* fetchGuideWindow up to its await, by task t.
AskGuide(t, from, to) ==
    /\ window' = [window EXCEPT ![t] = [from |-> from, to |-> to, full |-> coverage.full]]
    /\ task' = [task EXCEPT ![t] = "guide"]

\* refreshSupplementalData: the window around now.
AskNearWindow(t) == AskGuide(t, now - Lookbehind, now + Lookahead)

Answer(w) ==
    IF windowed /\ ~w.full THEN {p \in Guide : Overlaps(p, w.from, w.to)} ELSE Guide

\* guideWindowIgnoredByBackend
Ignored(answer, w) == \E p \in answer : p.from >= w.to \/ p.to <= w.from

\* mergeGuideWindowPrograms
Merged(existing, fresh, w) ==
    {p \in existing : p.to >= now - Lookbehind - 1 /\ ~Overlaps(p, w.from, w.to)} \cup fresh

\* Mutant: the index is left to those who draw.
InstallGuideUnindexed(w) ==
    LET answer == Answer(w)
        whole == coverage.full \/ Ignored(answer, w)
    IN  /\ programs' = IF whole THEN answer ELSE Merged(programs, answer, w)
        /\ coverage' = IF whole THEN [coverage EXCEPT !.full = TRUE]
                       ELSE [coverage EXCEPT
                                !.start = IF @ = 0 \/ w.from < @ THEN w.from ELSE @,
                                !.end = IF w.to > @ THEN w.to ELSE @]
        /\ UNCHANGED <<loaded, fromCache, index>>

\* fetchGuideWindow from its answer on.
InstallGuide(w) ==
    LET answer == Answer(w)
        whole == coverage.full \/ Ignored(answer, w)
    IN  /\ programs' = IF whole THEN answer ELSE Merged(programs, answer, w)
        /\ index' = programs'
        /\ coverage' = IF whole THEN [coverage EXCEPT !.full = TRUE]
                       ELSE [coverage EXCEPT
                                !.start = IF @ = 0 \/ w.from < @ THEN w.from ELSE @,
                                !.end = IF w.to > @ THEN w.to ELSE @]
        /\ UNCHANGED <<loaded, fromCache>>

\* The end of the loaded guide that view v needs, 0 for none.
Until(v) ==
    CASE v = "guide"  -> now + GridAhead
      [] v = "search" -> now + SearchAhead
      [] OTHER -> 0

\* ensureGuideCoverage asks for nothing when the window is loaded, or when
\* some window is on the way.
LacksGuide(cov, v) ==
    loaded /\ ~cov.full /\ cov.end # 0 /\ Until(v) > cov.end /\ task["ensure"] = "none"

\* Mutant: only the end of what the view lacks is asked for.
MissingFromTheEnd(cov, v) == [from |-> Until(v) - 1, to |-> Until(v), full |-> FALSE]

\* ensureGuideCoverage asks for what comes after the loaded guide.
Missing(cov, v) == [from |-> cov.end, to |-> Until(v), full |-> FALSE]

NoWindow == [from |-> 0, to |-> 0, full |-> FALSE]

\* ensureGuideCoverageForView, by the end of task t if that is not "ensure".
AskCoverage(t, cov, v) ==
    LET ended == IF t = "ensure" THEN task ELSE [task EXCEPT ![t] = "none"]
        freed == IF t = "ensure" THEN window ELSE [window EXCEPT ![t] = NoWindow]
    IN  IF LacksGuide(cov, v)
        THEN /\ task' = [ended EXCEPT !["ensure"] = "guide"]
             /\ window' = [freed EXCEPT !["ensure"] = Missing(cov, v)]
        ELSE task' = ended /\ window' = freed

Ends(t) == task' = [task EXCEPT ![t] = "none"] /\ window' = [window EXCEPT ![t] = NoWindow]
Awaits(t, what) == task' = [task EXCEPT ![t] = what] /\ UNCHANGED window

\* refreshing is reset in the finally of a refresh.
RefreshEndsWith(t) ==
    /\ refreshing' = (refreshing /\ t # "refresh")
    /\ attempt' = IF t = "refresh" THEN 0 ELSE attempt
    /\ UNCHANGED refreshes

Fails == failures > 0 /\ failures' = failures - 1

\* Mutant: a refresh asks for the near window only.
GuideAnswersNear(t) ==
    /\ task[t] = "guide"
    /\ InstallGuide(window[t])
    /\ Ends(t)
    /\ RefreshEndsWith(t)
    /\ UNCHANGED <<now, windowed, view, failures>>

\* The guide window of task t is answered, and what followed it done: the
\* tasks that run refreshSupplementalData ask for the rest of the view.
GuideAnswers(t) ==
    /\ task[t] = "guide"
    /\ InstallGuide(window[t])
    /\ IF t = "ensure" THEN Ends(t) ELSE AskCoverage(t, coverage', view)
    /\ RefreshEndsWith(t)
    /\ UNCHANGED <<now, windowed, view, failures>>

\* ... or not answered: the guide stays as it is.
GuideFails(t) ==
    /\ task[t] = "guide"
    /\ Fails
    /\ IF t = "ensure" THEN Ends(t) ELSE AskCoverage(t, coverage, view)
    /\ RefreshEndsWith(t)
    /\ UNCHANGED <<now, windowed, data, view>>

(***************************************************************************)
(* The load of the app                                                     *)
(***************************************************************************)
\* compactProgramsForCache: what the copy saved age slots ago has.
CachedPrograms(age) ==
    {p \in Guide : p.to >= now - age - CacheBehind /\ p.from <= now - age + CacheAhead}

\* writeLocalAppCache: a copy that does not fit is saved without its programs.
SavedPrograms(age) == {CachedPrograms(age), {}}

\* loadApp: a saved copy is shown at once, and covers nothing.
LoadApp ==
    /\ task["load"] = "none" /\ ~loaded
    /\ Awaits("load", "bootstrap")
    /\ \/ UNCHANGED data
       \/ \E age \in 0 .. CacheMaxAge :
             /\ loaded' = TRUE
             /\ fromCache' = TRUE
             /\ programs' \in SavedPrograms(age)
             /\ index' = programs'
             /\ UNCHANGED coverage
    /\ UNCHANGED <<now, windowed, view, poll, failures>>

\* hydrateApp, of a payload without programs, up to its wait for preferences.
HydrateApp ==
    /\ task["load"] = "bootstrap"
    /\ loaded' = TRUE
    /\ Awaits("load", "prefs")
    /\ UNCHANGED <<now, windowed, fromCache, programs, index, coverage, view, poll, failures>>

\* ... and the rest of it: a failed load of preferences is caught there.
Hydrated ==
    /\ task["load"] = "prefs"
    /\ index' = programs
    /\ fromCache' = FALSE
    /\ Awaits("load", "capability")
    /\ UNCHANGED <<now, windowed, loaded, programs, coverage, view, poll, failures>>

\* loadRecordingCapability never fails; the guide is next.
CapabilityKnown ==
    /\ task["load"] = "capability"
    /\ AskNearWindow("load")
    /\ UNCHANGED <<now, windowed, data, view, poll, failures>>

\* The saved copy stays; without one the page offers to try again.
BootstrapFails ==
    /\ task["load"] = "bootstrap"
    /\ Fails
    /\ Ends("load")
    /\ UNCHANGED <<now, windowed, data, view, poll>>

(***************************************************************************)
(* The refreshes                                                           *)
(***************************************************************************)
\* refreshGuideBlockData by an administrator.
StartRefresh ==
    /\ loaded /\ ~refreshing /\ refreshes > 0
    /\ refreshing' = TRUE
    /\ attempt' = 0
    /\ refreshes' = refreshes - 1
    /\ Awaits("refresh", "post")
    /\ UNCHANGED <<now, windowed, data, view, failures>>

\* The guide is behind (guideNeedsFollowupRefresh): another round is due, or
\* all rounds are used up.
PollAgain ==
    IF attempt < MaxAttempts THEN Awaits("refresh", "timer") /\ UNCHANGED poll
    ELSE Ends("refresh") /\ RefreshEndsWith("refresh")

PollDone == AskNearWindow("refresh") /\ UNCHANGED poll
PollThrows == Ends("refresh") /\ RefreshEndsWith("refresh")

\* POST /api/refresh is answered; hydrateApp keeps settings and programs, and
\* waits for nothing.
RefreshPosted(behind) ==
    /\ task["refresh"] = "post"
    /\ index' = programs
    /\ UNCHANGED <<loaded, fromCache, programs, coverage>>
    /\ IF behind THEN PollAgain ELSE PollDone
    /\ UNCHANGED <<now, windowed, view, failures>>

\* The two seconds of a round are over.
PollRound ==
    /\ task["refresh"] = "timer"
    /\ attempt' = attempt + 1
    /\ Awaits("refresh", "status")
    /\ UNCHANGED <<now, windowed, data, view, refreshing, refreshes, failures>>

\* Mutant: the rounds of a refresh that goes on are not counted.
PollAnsweredUncounted(status) ==
    /\ task["refresh"] = "status"
    /\ CASE status = "running" -> Awaits("refresh", "timer") /\ attempt' = 0 /\ UNCHANGED <<refreshing, refreshes>>
         [] status = "done" -> PollDone
         [] OTHER -> PollThrows
    /\ UNCHANGED <<now, windowed, data, view, failures>>

\* pollGuideRefresh with the status of a round.
PollAnswered(status) ==
    /\ task["refresh"] = "status"
    /\ CASE status = "running" -> PollAgain
         [] status = "done" -> PollDone
         [] OTHER -> PollThrows
    /\ UNCHANGED <<now, windowed, data, view, failures>>

\* tickGuideAutoRefresh, on the guide and not while another one runs; the
\* minutes between two of them are left out.
StartTick ==
    /\ loaded /\ view = "guide" /\ task["tick"] = "none" /\ ~refreshing
    /\ Awaits("tick", "status")
    /\ UNCHANGED <<now, windowed, data, view, poll, failures>>

\* maybeWarmGuideForChannels, for channels of the page without a guide near.
StartWarm ==
    /\ loaded /\ ~fromCache /\ task["warm"] = "none" /\ refreshes > 0
    /\ refreshes' = refreshes - 1
    /\ Awaits("warm", "ping")
    /\ UNCHANGED <<now, windowed, data, view, refreshing, attempt, failures>>

PingAnswers ==
    /\ task["warm"] = "ping"
    /\ Awaits("warm", "status")
    /\ UNCHANGED <<now, windowed, data, view, poll, failures>>

\* refreshStatusData before refreshSupplementalData.
StatusAnswers(t) ==
    /\ t \in {"tick", "warm"} /\ task[t] = "status"
    /\ AskNearWindow(t)
    /\ UNCHANGED <<now, windowed, data, view, poll, failures>>

\* A request before the guide's fails, and ends its task.
RequestFails(t) ==
    /\ t # "load" /\ task[t] \in {"post", "ping", "status"}
    /\ Fails
    /\ Ends(t)
    /\ RefreshEndsWith(t)
    /\ UNCHANGED <<now, windowed, data, view>>

\* setView, setCategory and navigateGuideCategory.
SetView(v) ==
    /\ loaded /\ v # view
    /\ view' = v
    /\ AskCoverage("ensure", coverage, v)
    /\ UNCHANGED <<now, windowed, data, poll, failures>>

Advance ==
    /\ now < MaxNow
    /\ now' = now + 1
    /\ UNCHANGED <<windowed, data, view, task, window, poll, failures>>

AppInit ==
    /\ now = Start
    /\ windowed \in BOOLEAN
    /\ loaded = FALSE /\ fromCache = FALSE
    /\ programs = {} /\ index = {}
    /\ coverage = [start |-> 0, end |-> 0, full |-> FALSE]
    /\ view = "home"
    /\ task = [t \in Tasks |-> "none"]
    /\ window = [t \in Tasks |-> NoWindow]
    /\ refreshing = FALSE /\ attempt = 0 /\ refreshes = MaxRefreshes
    /\ failures = MaxFailures

\* What is on its way arrives.
Arrives ==
    \/ HydrateApp \/ Hydrated \/ CapabilityKnown \/ PollRound \/ PingAnswers
    \/ \E behind \in BOOLEAN : RefreshPosted(behind)
    \/ \E status \in {"running", "done", "failed"} : PollAnswered(status)
    \/ \E t \in Tasks : StatusAnswers(t) \/ GuideAnswers(t)

AppNext ==
    \/ LoadApp \/ BootstrapFails \/ StartRefresh \/ StartTick \/ StartWarm \/ Advance
    \/ Arrives
    \/ \E t \in Tasks : GuideFails(t) \/ RequestFails(t)
    \/ \E v \in Views : SetView(v)

Spec == AppInit /\ [][AppNext]_appVars

\* A request that was sent is answered or fails, the timers fire, and the
\* page stays visible, so the tick of the guide does too.
FairSpec ==
    /\ Spec
    /\ WF_appVars(PollRound)
    /\ WF_appVars((\E behind \in BOOLEAN : RefreshPosted(behind)) \/ (task["refresh"] = "post" /\ RequestFails("refresh")))
    /\ WF_appVars((\E status \in {"running", "done", "failed"} : PollAnswered(status))
                     \/ (task["refresh"] = "status" /\ RequestFails("refresh")))
    /\ WF_appVars(StartTick)
    /\ \A t \in Tasks : WF_appVars(GuideAnswers(t)) /\ WF_appVars(StatusAnswers(t))

(***************************************************************************)
(* Properties                                                              *)
(***************************************************************************)
\* Whatever guideCoverage says is loaded is there, so the page never takes an
\* hour it has not asked for, or whose request failed, for an empty one.
CoverageIsLoaded ==
    \A p \in Guide :
        \/ p \in programs
        \/ p.to <= now - Lookbehind
        \/ IF coverage.full THEN FALSE ELSE ~Overlaps(p, coverage.start, coverage.end)

\* The index by channel, which the pages read, is that of the programs, also
\* while one load waits and another has answered.
IndexIsCurrent == index = programs

\* A manual refresh ends, also when the server never finishes its own.
RefreshEnds == refreshing ~> ~refreshing

\* Who stays on the guide gets the whole of its window, whatever was lost on
\* the way: the tick asks for it again.
GuideFillsUp ==
    <>[](loaded /\ view = "guide") => <>(coverage.full \/ coverage.end >= now + GridAhead)

=============================================================================
