---------------------------- MODULE AppDataProofs ----------------------------
(***************************************************************************)
(* Proofs about AppData, for any guide, window and clock: what             *)
(* guideCoverage says is loaded is there, and the index is that of the     *)
(* programs.                                                               *)
(***************************************************************************)
EXTENDS AppData, TLAPS

(***************************************************************************)
(* The inductive invariant.  Windows arrive in any order, so the loaded    *)
(* hull [start, end] may have a gap; a gap is harmless because it lies     *)
(* before the lookbehind: the hull starts before it, a window around some  *)
(* earlier now starts before it, and a window that completes a view starts *)
(* no later than the hull ends.                                            *)
(***************************************************************************)
Windows == [from : Int, to : Int, full : BOOLEAN]

\* What is true of a window w that task t waits for, when the loaded hull has
\* this end, at this time; honours says whether the backend honours windows.
Asked(t, w, end, time, honours) ==
    /\ w \in Windows
    /\ honours => ~w.full
    /\ 0 < w.from
    /\ IF t = "ensure" THEN end # 0 /\ w.from <= end ELSE w.from <= time - Lookbehind

CoverageFacts ==
    /\ coverage \in [start : Nat, end : Nat, full : BOOLEAN]
    /\ coverage.start <= now - Lookbehind
    /\ coverage.start = 0 => coverage.end = 0
    /\ windowed => ~coverage.full

\* Before the page has the app, no guide was asked for.
NothingAsked ==
    /\ coverage = [start |-> 0, end |-> 0, full |-> FALSE]
    /\ task["load"] \in {"none", "bootstrap"}
    /\ \A t \in Tasks \ {"load"} : task[t] = "none"

DataInv ==
    /\ now \in Start .. MaxNow /\ windowed \in BOOLEAN
    /\ programs \subseteq Guide
    /\ CoverageFacts /\ IndexIsCurrent /\ CoverageIsLoaded

AskedInv ==
    /\ task \in [Tasks -> Waits]
    /\ window \in [Tasks -> Windows]
    /\ \A t \in Tasks : task[t] = "guide" => Asked(t, window[t], coverage.end, now, windowed)

PageInv ==
    /\ loaded \in BOOLEAN /\ fromCache \in BOOLEAN /\ refreshing \in BOOLEAN
    /\ view \in Views
    /\ attempt \in 0 .. MaxAttempts
    /\ task["refresh"] = "timer" => attempt < MaxAttempts
    /\ ~loaded => NothingAsked

IInv == DataInv /\ AskedInv /\ PageInv

(***************************************************************************)
(* The guide                                                               *)
(***************************************************************************)
LEMMA Constants ==
    /\ Lookbehind \in Nat /\ Lookahead \in Nat /\ GridAhead \in Nat /\ SearchAhead \in Nat
    /\ Start \in Nat /\ MaxNow \in Nat /\ MaxAttempts \in Nat
    /\ Start > Lookbehind /\ Start <= MaxNow
    /\ \A p \in Guide : p.from \in Nat /\ p.to \in Nat /\ p.from < p.to
BY AppDataConstants

LEMMA Hours ==
    ASSUME now \in Start .. MaxNow
    PROVE  now \in Nat /\ now - Lookbehind \in Nat /\ 0 < now - Lookbehind
BY Constants

\* A window is answered: the programs it replaces come with the answer, and
\* those it neither replaces nor keeps are over.
LEMMA Installing ==
    ASSUME DataInv, NEW t \in Tasks, NEW w, Asked(t, w, coverage.end, now, windowed),
           InstallGuide(w),
           UNCHANGED <<now, windowed>>
    PROVE  /\ DataInv'
           /\ coverage.end <= coverage'.end
           /\ UNCHANGED <<loaded, fromCache>>
<1> DEFINE answer == Answer(w)
           whole == coverage.full \/ Ignored(answer, w)
<1>1. /\ now \in Nat /\ now - Lookbehind \in Nat /\ 0 < now - Lookbehind
      /\ coverage \in [start : Nat, end : Nat, full : BOOLEAN]
      /\ coverage.start <= now - Lookbehind
      /\ coverage.start = 0 => coverage.end = 0
      /\ windowed => ~coverage.full
      /\ w \in Windows /\ (windowed => ~w.full)
      /\ programs \subseteq Guide
  BY Hours DEF DataInv, CoverageFacts, Asked
<1>2. answer \subseteq Guide BY DEF Answer
<1>3. UNCHANGED <<now, windowed, loaded, fromCache>> /\ index' = programs'
  BY DEF InstallGuide
<1>4. CASE whole
  <2>1. programs' = answer /\ coverage' = [coverage EXCEPT !.full = TRUE]
    BY <1>4 DEF InstallGuide
  <2>2. ~windowed
    <3>1. windowed => ~Ignored(answer, w)
      BY <1>1, Constants DEF Ignored, Answer, Overlaps, Windows
    <3> QED BY <1>1, <1>4, <3>1
  <2>3. answer = Guide BY <2>2 DEF Answer
  <2>4. CoverageFacts'
    <3>1. coverage' \in [start : {coverage.start}, end : {coverage.end}, full : {TRUE}]
      BY <1>1, <2>1
    <3>2. coverage'.start = coverage.start /\ coverage'.end = coverage.end BY <3>1
    <3>3. coverage' \in [start : Nat, end : Nat, full : BOOLEAN] BY <1>1, <3>1
    <3>4. ~windowed' /\ now' = now BY <1>3, <2>2
    <3> QED BY <1>1, <3>2, <3>3, <3>4 DEF CoverageFacts
  <2>5. CoverageIsLoaded' BY <2>1, <2>3 DEF CoverageIsLoaded
  <2>6. coverage'.end = coverage.end BY <1>1, <2>1
  <2> QED BY <1>1, <1>3, <2>1, <2>3, <2>4, <2>5, <2>6 DEF DataInv, IndexIsCurrent
<1>5. CASE ~whole
  <2> DEFINE start == IF coverage.start = 0 \/ w.from < coverage.start THEN w.from
                      ELSE coverage.start
             end == IF w.to > coverage.end THEN w.to ELSE coverage.end
             kept == {p \in programs : p.to >= now - Lookbehind - 1 /\ ~Overlaps(p, w.from, w.to)}
  <2>1. /\ programs' = kept \cup answer
        /\ coverage' = [[coverage EXCEPT !.start = start] EXCEPT !.end = end]
    BY <1>1, <1>5 DEF InstallGuide, Merged
  <2>2. w.from \in Int /\ w.to \in Int BY <1>1 DEF Windows
  <2>3. /\ 0 < w.from
        /\ IF t = "ensure" THEN coverage.end # 0 /\ w.from <= coverage.end
           ELSE w.from <= now - Lookbehind
    BY DEF Asked
  <2>4. /\ start \in Nat /\ start <= now - Lookbehind /\ 0 < start
        /\ coverage.start = 0 => start = w.from
        /\ coverage.start # 0 => start <= coverage.start
    <3>1. coverage.start \in Nat /\ coverage.end \in Nat BY <1>1
    <3>2. coverage.start = 0 => t # "ensure" BY <1>1, <2>3
    <3>3. CASE coverage.start = 0 BY <1>1, <2>2, <2>3, <3>1, <3>2, <3>3
    <3>4. CASE coverage.start # 0 /\ ~(w.from < coverage.start) BY <1>1, <3>1, <3>4
    <3>5. CASE coverage.start # 0 /\ w.from < coverage.start
      BY <1>1, <2>2, <2>3, <3>1, <3>5
    <3> QED BY <3>3, <3>4, <3>5
  <2>5. end \in Nat /\ coverage.end <= end /\ w.to <= end
        /\ (end = coverage.end \/ end = w.to)
    BY <1>1, <2>2
  <2> HIDE DEF start, end
  <2>6. coverage' \in [start : {start}, end : {end}, full : {coverage.full}]
    BY <1>1, <2>1
  <2>7. CoverageFacts' BY <1>1, <1>3, <2>4, <2>5, <2>6 DEF CoverageFacts
  <2>8. CoverageIsLoaded'
    <3> SUFFICES ASSUME NEW p \in Guide, p.to > now - Lookbehind, p \notin programs'
                 PROVE  ~coverage'.full /\ ~Overlaps(p, start, end)
      BY <1>1, <1>3, <2>6, Constants DEF CoverageIsLoaded
    <3>1. p.from \in Nat /\ p.to \in Nat /\ p.from < p.to BY Constants
    <3>2. ~Overlaps(p, w.from, w.to)
      <4>1. p \notin answer BY <2>1
      <4> QED BY <4>1 DEF Answer
    <3>3. p \notin programs BY <1>1, <2>1, <3>1, <3>2
    <3>4. ~coverage.full /\ ~Overlaps(p, coverage.start, coverage.end)
      BY <1>1, <3>1, <3>3 DEF DataInv, CoverageIsLoaded
    <3>5. p.from >= coverage.end
      <4>1. p.to > coverage.start BY <1>1, <3>1
      <4> QED BY <1>1, <3>1, <3>4, <4>1 DEF Overlaps
    <3>6. p.to > w.from BY <1>1, <2>2, <2>3, <3>1, <3>5
    <3>7. p.from >= w.to BY <2>2, <3>1, <3>2, <3>6 DEF Overlaps
    <3>8. p.from >= end BY <2>5, <3>5, <3>7
    <3> QED BY <1>1, <2>5, <2>6, <3>1, <3>4, <3>8 DEF Overlaps
  <2>9. programs' \subseteq Guide BY <1>1, <1>2, <2>1
  <2> QED BY <1>3, <2>5, <2>6, <2>7, <2>8, <2>9 DEF DataInv, IndexIsCurrent
<1> QED BY <1>4, <1>5

(***************************************************************************)
(* The windows on their way                                                *)
(***************************************************************************)
\* What makes a window fit goes on doing so.
LEMMA StillAsked ==
    ASSUME DataInv, DataInv', NEW t \in Tasks, NEW w, Asked(t, w, coverage.end, now, windowed),
           windowed' = windowed, now <= now', coverage.end <= coverage'.end
    PROVE  Asked(t, w, coverage'.end, now', windowed')
BY Constants DEF DataInv, CoverageFacts, Asked, Windows

LEMMA Ending ==
    ASSUME DataInv, DataInv', AskedInv, windowed' = windowed, now <= now',
           coverage.end <= coverage'.end, NEW t \in Tasks,
           \/ Ends(t)
           \/ \E what \in Waits \ {"guide"} : Awaits(t, what)
           \/ UNCHANGED <<task, window>>
    PROVE  AskedInv'
<1>1. /\ task' \in [Tasks -> Waits] /\ window' \in [Tasks -> Windows]
  <2>1. NoWindow \in Windows BY DEF NoWindow, Windows
  <2>2. "none" \in Waits BY DEF Waits
  <2> QED BY <2>1, <2>2 DEF AskedInv, Ends, Awaits
<1>2. ASSUME NEW u \in Tasks, task'[u] = "guide"
      PROVE  task[u] = "guide" /\ window'[u] = window[u]
  BY <1>2 DEF AskedInv, Ends, Awaits, Waits
<1>3. ASSUME NEW u \in Tasks, task'[u] = "guide" 
      PROVE  Asked(u, window'[u], coverage'.end, now', windowed')
  BY <1>2, <1>3, StillAsked DEF AskedInv
<1> QED BY <1>1, <1>3 DEF AskedInv

LEMMA AskingNear ==
    ASSUME DataInv, DataInv', AskedInv, UNCHANGED <<now, windowed, coverage>>,
           NEW t \in Tasks, t # "ensure", AskNearWindow(t)
    PROVE  AskedInv'
<1> DEFINE w == [from |-> now - Lookbehind, to |-> now + Lookahead, full |-> coverage.full]
<1>1. now \in Nat /\ now - Lookbehind \in Nat /\ 0 < now - Lookbehind /\ now + Lookahead \in Nat
      /\ coverage.full \in BOOLEAN
  BY Hours, Constants DEF DataInv, CoverageFacts
<1>2. w \in Windows BY <1>1 DEF Windows
<1>3. Asked(t, w, coverage'.end, now', windowed') BY <1>1, <1>2 DEF Asked, DataInv, CoverageFacts
<1>4. window' = [window EXCEPT ![t] = w] /\ task' = [task EXCEPT ![t] = "guide"]
  BY DEF AskNearWindow, AskGuide
<1> HIDE DEF w
<1>5. task' \in [Tasks -> Waits] /\ window' \in [Tasks -> Windows]
  BY <1>2, <1>4 DEF AskedInv, Waits
<1>6. ASSUME NEW u \in Tasks, task'[u] = "guide" PROVE Asked(u, window'[u], coverage'.end, now', windowed')
  <2>1. CASE u = t BY <1>3, <1>4, <2>1 DEF AskedInv
  <2>2. CASE u # t
    <3>1. window'[u] = window[u] /\ task'[u] = task[u] BY <1>4, <2>2 DEF AskedInv
    <3> QED BY <1>1, <1>6, <3>1, StillAsked DEF AskedInv, DataInv, CoverageFacts
  <2> QED BY <2>1, <2>2
<1> QED BY <1>5, <1>6 DEF AskedInv

LEMMA AskingRest ==
    ASSUME DataInv, DataInv', AskedInv, UNCHANGED <<now, windowed>>,
           coverage.end <= coverage'.end, NEW t \in Tasks, NEW v \in Views,
           AskCoverage(t, coverage', v)
    PROVE  /\ AskedInv'
           /\ \A u \in Tasks \ {t, "ensure"} : task'[u] = task[u]
           /\ t # "ensure" => task'[t] = "none"
<1> DEFINE w == Missing(coverage', v)
           ended == IF t = "ensure" THEN task ELSE [task EXCEPT ![t] = "none"]
           freed == IF t = "ensure" THEN window ELSE [window EXCEPT ![t] = NoWindow]
<1>1. /\ now \in Nat /\ now <= now' /\ coverage' \in [start : Nat, end : Nat, full : BOOLEAN]
      /\ Until(v) \in Nat
  BY Hours, Constants DEF DataInv, CoverageFacts, Until
<1>2. ended \in [Tasks -> Waits] /\ freed \in [Tasks -> Windows]
  BY DEF AskedInv, Waits, Windows, NoWindow
<1>3. \A u \in Tasks : ended[u] = "guide" => task[u] = "guide" /\ freed[u] = window[u]
  BY DEF AskedInv
<1>4. /\ \A u \in Tasks \ {t, "ensure"} : ended[u] = task[u]
      /\ t # "ensure" => ended[t] = "none"
  BY DEF AskedInv
<1>5. \A u \in Tasks : ended[u] = "guide" => Asked(u, freed[u], coverage'.end, now', windowed')
  BY <1>1, <1>3, StillAsked DEF AskedInv
<1>6. CASE LacksGuide(coverage', v)
  <2>1. w \in Windows BY <1>1 DEF Missing, Windows
  <2>2. Asked("ensure", w, coverage'.end, now', windowed') BY <1>1, <1>6, <2>1 DEF Asked, Missing, LacksGuide
  <2>3. task' = [ended EXCEPT !["ensure"] = "guide"] /\ window' = [freed EXCEPT !["ensure"] = w]
    BY <1>6 DEF AskCoverage
  <2> HIDE DEF w, ended, freed
  <2>4. "ensure" \in Tasks BY DEF Tasks
  <2>5. task' \in [Tasks -> Waits] /\ window' \in [Tasks -> Windows]
    BY <1>2, <2>1, <2>3 DEF Waits
  <2>6. ASSUME NEW u \in Tasks, task'[u] = "guide" PROVE Asked(u, window'[u], coverage'.end, now', windowed')
    <3>1. CASE u = "ensure" BY <1>2, <2>2, <2>3, <3>1
    <3>2. CASE u # "ensure"
      <4>1. task'[u] = ended[u] /\ window'[u] = freed[u] BY <1>2, <2>3, <3>2
      <4> QED BY <1>5, <2>6, <4>1
    <3> QED BY <3>1, <3>2
  <2>7. \A u \in Tasks \ {"ensure"} : task'[u] = ended[u] BY <1>2, <2>3
  <2> QED BY <1>4, <2>5, <2>6, <2>7 DEF AskedInv
<1>7. CASE ~LacksGuide(coverage', v)
  <2>1. task' = ended /\ window' = freed BY <1>7 DEF AskCoverage
  <2> HIDE DEF ended, freed
  <2> QED BY <1>2, <1>4, <1>5, <2>1 DEF AskedInv
<1> QED BY <1>6, <1>7

(***************************************************************************)
(* The steps                                                               *)
(***************************************************************************)
LEMMA Initially ==
    ASSUME AppInit
    PROVE  IInv
<1>1. DataInv
  <2>1. coverage.start = 0 /\ coverage.end = 0 /\ coverage.full = FALSE BY DEF AppInit
  <2>2. coverage \in [start : Nat, end : Nat, full : BOOLEAN] BY DEF AppInit
  <2>3. now = Start /\ programs = {} /\ index = {} /\ windowed \in BOOLEAN BY DEF AppInit
  <2>4. CoverageFacts BY <2>1, <2>2, <2>3, Constants DEF CoverageFacts
  <2>5. CoverageIsLoaded
    <3>1. \A p \in Guide : ~Overlaps(p, 0, 0) BY Constants DEF Overlaps
    <3> QED BY <2>1, <3>1 DEF CoverageIsLoaded
  <2> QED BY <2>3, <2>4, <2>5, Constants DEF DataInv, IndexIsCurrent
<1>2. AskedInv
  <2>1. NoWindow \in Windows BY DEF NoWindow, Windows
  <2> QED BY <2>1 DEF AppInit, AskedInv, Waits
<1>3. PageInv
  <2>1. \A t \in Tasks : task[t] = "none" BY DEF AppInit
  <2>2. task["load"] = "none" /\ task["refresh"] = "none" BY <2>1 DEF Tasks
  <2>3. NothingAsked BY <2>1, <2>2 DEF AppInit, NothingAsked
  <2>4. view \in Views /\ attempt \in 0 .. MaxAttempts BY Constants DEF AppInit, Views
  <2> QED BY <2>2, <2>3, <2>4 DEF AppInit, PageInv
<1> QED BY <1>1, <1>2, <1>3 DEF IInv

\* A step that leaves the guide, the clock and the backend alone.
LEMMA DataKept ==
    ASSUME IInv, UNCHANGED <<now, windowed, programs, index, coverage>>
    PROVE  /\ DataInv' /\ now \in Nat /\ coverage.end \in Nat
           /\ now <= now' /\ coverage.end <= coverage'.end /\ windowed' = windowed
<1>1. DataInv' BY DEF IInv, DataInv, CoverageFacts, IndexIsCurrent, CoverageIsLoaded
<1>2. now \in Nat /\ coverage.end \in Nat BY Hours DEF IInv, DataInv, CoverageFacts
<1> QED BY <1>1, <1>2

LEMMA Loading ==
    ASSUME IInv, LoadApp \/ HydrateApp \/ Hydrated \/ CapabilityKnown \/ BootstrapFails
    PROVE  IInv'
<1>0. "load" \in Tasks /\ task \in [Tasks -> Waits] /\ "refresh" \in Tasks
  BY DEF IInv, AskedInv, Tasks
<1>1. CASE LoadApp
  <2>1. /\ ~loaded /\ NothingAsked /\ UNCHANGED <<now, windowed, view, poll, coverage, failures>>
        /\ Awaits("load", "bootstrap")
    BY <1>1 DEF LoadApp, IInv, PageInv, data
  <2>2. programs' \subseteq Guide /\ index' = programs' /\ loaded' \in BOOLEAN
        /\ fromCache' \in BOOLEAN
    BY <1>1 DEF LoadApp, SavedPrograms, CachedPrograms, IInv, DataInv, PageInv, data,
       IndexIsCurrent
  <2>3. now \in Nat /\ now' = now /\ windowed' = windowed /\ coverage' = coverage
        /\ coverage.end = 0 /\ coverage.end <= coverage'.end /\ now <= now'
    BY <2>1, Hours DEF IInv, DataInv, NothingAsked
  <2>4. DataInv'
    <3>1. CoverageFacts' BY <2>3 DEF IInv, DataInv, CoverageFacts
    <3>2. CoverageIsLoaded'
      <4>1. \A p \in Guide : ~Overlaps(p, 0, 0) BY Constants DEF Overlaps
      <4>2. coverage'.start = 0 /\ coverage'.end = 0 /\ ~coverage'.full
        BY <2>1, <2>3 DEF NothingAsked
      <4> QED BY <4>1, <4>2 DEF CoverageIsLoaded
    <3> QED BY <2>2, <2>3, <3>1, <3>2 DEF IInv, DataInv, IndexIsCurrent
  <2>5. AskedInv' BY <2>1, <2>3, <2>4, <1>0, Ending DEF IInv, Waits
  <2>6. PageInv'
    <3>1. task' = [task EXCEPT !["load"] = "bootstrap"] BY <2>1 DEF Awaits
    <3>2. NothingAsked' BY <1>0, <2>1, <2>3, <3>1 DEF NothingAsked
    <3>3. task'["refresh"] = task["refresh"] BY <1>0, <3>1
    <3> QED BY <2>1, <2>2, <3>2, <3>3 DEF IInv, PageInv, poll
  <2> QED BY <2>4, <2>5, <2>6 DEF IInv
<1>2. CASE HydrateApp \/ Hydrated
  <2>1. /\ UNCHANGED <<now, windowed, programs, coverage, view, poll>>
        /\ index' = programs
        /\ loaded' = TRUE /\ fromCache' \in BOOLEAN
        /\ \E what \in Waits \ {"guide"} : Awaits("load", what)
        /\ task'["refresh"] = task["refresh"]
    <3>1. index = programs /\ fromCache \in BOOLEAN
      BY DEF IInv, DataInv, IndexIsCurrent, PageInv
    <3>2. CASE HydrateApp BY <1>0, <3>1, <3>2 DEF HydrateApp, Awaits, Waits
    <3>3. CASE Hydrated
      <4>1. loaded
        BY <3>3, <1>0 DEF Hydrated, IInv, PageInv, NothingAsked
      <4>2. loaded' = TRUE BY <3>3, <4>1 DEF Hydrated, IInv, PageInv
      <4> QED BY <1>0, <3>1, <3>3, <4>2 DEF Hydrated, Awaits, Waits
    <3> QED BY <1>2, <3>2, <3>3
  <2>2. index' = index BY <2>1 DEF IInv, DataInv, IndexIsCurrent
  <2>3. DataInv' /\ AskedInv' BY <1>0, <2>1, <2>2, DataKept, Ending DEF IInv
  <2>4. PageInv' BY <2>1 DEF IInv, PageInv, poll
  <2> QED BY <2>3, <2>4 DEF IInv
<1>3. CASE CapabilityKnown
  <2>1. AskNearWindow("load") /\ UNCHANGED <<now, windowed, data, view, poll>>
    BY <1>3 DEF CapabilityKnown
  <2>2. loaded BY <1>3 DEF CapabilityKnown, IInv, PageInv, NothingAsked
  <2>3. DataInv' BY <2>1, DataKept DEF data
  <2>4. AskedInv' BY <1>0, <2>1, <2>3, AskingNear DEF IInv, data
  <2>5. task'["refresh"] = task["refresh"] BY <1>0, <2>1 DEF AskNearWindow, AskGuide
  <2>6. PageInv' BY <2>1, <2>2, <2>5 DEF IInv, PageInv, poll, data
  <2> QED BY <2>3, <2>4, <2>6 DEF IInv
<1>4. CASE BootstrapFails
  <2>1. Ends("load") /\ UNCHANGED <<now, windowed, data, view, poll>>
    BY <1>4 DEF BootstrapFails
  <2>2. DataInv' /\ AskedInv' BY <1>0, <2>1, DataKept, Ending DEF data, IInv
  <2>3. task' = [task EXCEPT !["load"] = "none"] BY <2>1 DEF Ends
  <2>4. PageInv' BY <1>0, <2>1, <2>3 DEF IInv, PageInv, poll, data, NothingAsked
  <2> QED BY <2>2, <2>4 DEF IInv
<1> QED BY <1>1, <1>2, <1>3, <1>4

\* The page has the app whenever a task other than the load waits for anything.
LEMMA HasApp ==
    ASSUME IInv, NEW t \in Tasks, task[t] # "none", t = "load" => task[t] # "bootstrap"
    PROVE  loaded = TRUE
BY DEF IInv, PageInv, NothingAsked

\* The steps of a refresh, a tick or a warm ping before the guide's request.
LEMMA Refreshing ==
    ASSUME IInv,
           \/ StartRefresh \/ PollRound \/ StartTick \/ StartWarm \/ PingAnswers
           \/ \E behind \in BOOLEAN : RefreshPosted(behind)
           \/ \E status \in {"running", "done", "failed"} : PollAnswered(status)
           \/ \E t \in Tasks : StatusAnswers(t) \/ RequestFails(t)
    PROVE  IInv'
<1>1. /\ loaded = TRUE
      /\ UNCHANGED <<now, windowed, loaded, fromCache, programs, coverage, view>>
      /\ index' = index
  BY HasApp DEF StartRefresh, PollRound, StartTick, StartWarm, PingAnswers, RefreshPosted,
     PollAnswered, StatusAnswers, RequestFails, Tasks, data, IInv, DataInv, IndexIsCurrent,
     PageInv
<1>2. DataInv' BY <1>1, DataKept
<1>3. /\ \/ \E t \in Tasks : Ends(t)
         \/ \E t \in Tasks : \E what \in Waits \ {"guide"} : Awaits(t, what)
         \/ \E t \in Tasks \ {"ensure"} : AskNearWindow(t)
  BY DEF StartRefresh, PollRound, StartTick, StartWarm, PingAnswers, RefreshPosted,
     PollAnswered, StatusAnswers, RequestFails, PollAgain, PollDone, PollThrows, Tasks, Waits
<1>4. AskedInv' BY <1>1, <1>2, <1>3, DataKept, Ending, AskingNear DEF IInv
<1>5. /\ refreshing' \in BOOLEAN /\ attempt' \in 0 .. MaxAttempts
      /\ task'["refresh"] = "timer" => attempt' < MaxAttempts
  <2>0. /\ task \in [Tasks -> Waits] /\ refreshing \in BOOLEAN /\ attempt \in 0 .. MaxAttempts
        /\ task["refresh"] = "timer" => attempt < MaxAttempts
        /\ MaxAttempts \in Nat /\ "refresh" \in Tasks
    BY Constants DEF IInv, AskedInv, PageInv, Tasks
  <2>1. CASE StartRefresh BY <2>0, <2>1 DEF StartRefresh, Awaits
  <2>2. CASE PollRound BY <2>0, <2>2 DEF PollRound, Awaits
  <2>3. CASE StartTick \/ StartWarm \/ PingAnswers \/ \E t \in Tasks : StatusAnswers(t)
    <3>1. refreshing' = refreshing /\ attempt' = attempt
      BY <2>3 DEF StartTick, StartWarm, PingAnswers, StatusAnswers, poll
    <3>2. task'["refresh"] = task["refresh"]
      BY <2>0, <2>3 DEF StartTick, StartWarm, PingAnswers, StatusAnswers, Awaits,
         AskNearWindow, AskGuide
    <3> QED BY <2>0, <3>1, <3>2
  <2>4. CASE PollAgain \/ PollDone \/ PollThrows
    <3>1. CASE PollDone BY <2>0, <3>1 DEF PollDone, poll, AskNearWindow, AskGuide
    <3>2. CASE PollThrows BY <2>0, <3>2 DEF PollThrows, Ends, RefreshEndsWith
    <3>3. CASE attempt < MaxAttempts /\ Awaits("refresh", "timer") /\ UNCHANGED poll
      BY <2>0, <3>3 DEF Awaits, poll
    <3>4. CASE Ends("refresh") /\ RefreshEndsWith("refresh")
      BY <2>0, <3>4 DEF Ends, RefreshEndsWith
    <3> QED BY <2>4, <3>1, <3>2, <3>3, <3>4 DEF PollAgain
  <2>5. ASSUME NEW t \in Tasks, RequestFails(t)
        PROVE  /\ refreshing' \in BOOLEAN /\ attempt' \in 0 .. MaxAttempts
               /\ task'["refresh"] = "timer" => attempt' < MaxAttempts
    BY <2>0, <2>5 DEF RequestFails, Ends, RefreshEndsWith
  <2> QED BY <2>1, <2>2, <2>3, <2>4, <2>5 DEF RefreshPosted, PollAnswered
<1>6. PageInv' BY <1>1, <1>5 DEF IInv, PageInv
<1> QED BY <1>2, <1>4, <1>6 DEF IInv

\* The guide's request ends, with what follows it.
LEMMA GuideEnding ==
    ASSUME IInv, NEW t \in Tasks, GuideAnswers(t) \/ GuideFails(t)
    PROVE  IInv'
<1>1. task[t] = "guide" /\ Asked(t, window[t], coverage.end, now, windowed)
  BY DEF GuideAnswers, GuideFails, IInv, AskedInv
<1>2. /\ UNCHANGED <<now, windowed, view>> /\ RefreshEndsWith(t)
      /\ IF t = "ensure" THEN Ends(t) ELSE AskCoverage(t, coverage', view)
  BY DEF GuideAnswers, GuideFails, data
<1>3. /\ DataInv' /\ coverage.end <= coverage'.end /\ UNCHANGED <<loaded, fromCache>>
  <2>1. CASE GuideAnswers(t) BY <1>1, <1>2, <2>1, Installing DEF GuideAnswers, IInv
  <2>2. CASE GuideFails(t) BY <2>2, DataKept DEF GuideFails, data
  <2> QED BY <2>1, <2>2
<1>4. now \in Nat /\ now <= now' /\ view \in Views /\ windowed' = windowed
  BY <1>2, Hours DEF IInv, DataInv, PageInv
<1>5. /\ AskedInv'
      /\ task'["refresh"] = "timer" => task["refresh"] = "timer" /\ t # "refresh"
  <2>1. CASE t = "ensure"
    <3>1. Ends(t) BY <1>2, <2>1
    <3>2. AskedInv' BY <1>2, <1>3, <1>4, <3>1, Ending DEF IInv
    <3> QED BY <2>1, <3>1, <3>2 DEF Ends, IInv, AskedInv, Tasks
  <2>2. CASE t # "ensure"
    <3>1. AskCoverage(t, coverage', view) BY <1>2, <2>2
    <3>2. /\ AskedInv'
          /\ \A u \in Tasks \ {t, "ensure"} : task'[u] = task[u]
          /\ task'[t] = "none"
      BY <1>2, <1>3, <1>4, <2>2, <3>1, AskingRest DEF IInv
    <3> QED BY <3>2 DEF Tasks
  <2> QED BY <2>1, <2>2
<1>6. loaded = TRUE BY <1>1, HasApp
<1>7. PageInv'
  BY <1>2, <1>3, <1>5, <1>6, Constants DEF IInv, PageInv, RefreshEndsWith
<1> QED BY <1>3, <1>5, <1>7 DEF IInv

LEMMA Viewing ==
    ASSUME IInv, NEW v \in Views, SetView(v)
    PROVE  IInv'
<1>1. /\ loaded = TRUE /\ view' = v /\ AskCoverage("ensure", coverage', v)
      /\ UNCHANGED <<now, windowed, data, poll>>
  BY DEF SetView, IInv, PageInv, data
<1>2. DataInv' /\ coverage.end <= coverage'.end BY <1>1, DataKept DEF data
<1>3. /\ AskedInv'
      /\ \A u \in Tasks \ {"ensure"} : task'[u] = task[u]
  BY <1>1, <1>2, AskingRest DEF IInv, Tasks
<1>4. PageInv' BY <1>1, <1>3 DEF IInv, PageInv, data, poll, Tasks
<1> QED BY <1>2, <1>3, <1>4 DEF IInv

LEMMA Advancing ==
    ASSUME IInv, Advance
    PROVE  IInv'
<1>1. /\ now \in Nat /\ now' = now + 1 /\ now' \in Start .. MaxNow
      /\ UNCHANGED <<windowed, data, view, task, window, poll>>
      /\ Lookbehind \in Nat /\ coverage.end <= coverage'.end /\ now <= now'
  BY Hours, Constants DEF IInv, DataInv, CoverageFacts, Advance, data
<1>2. DataInv'
  <2>1. coverage' = coverage /\ programs' = programs /\ index' = index BY <1>1 DEF data
  <2>2. CoverageFacts' BY <1>1, <2>1 DEF IInv, DataInv, CoverageFacts
  <2>3. CoverageIsLoaded'
    <3> SUFFICES ASSUME NEW p \in Guide
                 PROVE  \/ p \in programs
                        \/ p.to <= now' - Lookbehind
                        \/ IF coverage.full THEN FALSE
                           ELSE ~Overlaps(p, coverage.start, coverage.end)
      BY <2>1 DEF CoverageIsLoaded
    <3>1. p.to \in Nat BY Constants
    <3> QED BY <1>1, <3>1 DEF IInv, DataInv, CoverageIsLoaded
  <2> QED BY <1>1, <2>1, <2>2, <2>3 DEF IInv, DataInv, IndexIsCurrent
<1>3. AskedInv' BY <1>1, <1>2, Ending DEF IInv, Tasks
<1>4. PageInv' BY <1>1 DEF IInv, PageInv, NothingAsked, data, poll
<1> QED BY <1>2, <1>3, <1>4 DEF IInv

LEMMA Unchanged ==
    ASSUME IInv, UNCHANGED appVars
    PROVE  IInv'
BY DEF IInv, DataInv, CoverageFacts, IndexIsCurrent, CoverageIsLoaded, AskedInv, PageInv,
   NothingAsked, appVars, data, poll

LEMMA Inductive ==
    ASSUME IInv, [AppNext]_appVars
    PROVE  IInv'
BY Loading, Refreshing, GuideEnding, Viewing, Advancing, Unchanged DEF AppNext, Arrives

(***************************************************************************)
(* Theorems                                                                *)
(***************************************************************************)
LEMMA Invariance == Spec => []IInv
<1>1. AppInit => IInv BY Initially
<1>2. IInv /\ [AppNext]_appVars => IInv' BY Inductive
<1> QED BY <1>1, <1>2, PTL DEF Spec

\* The types of the tab's state; no more rounds are counted than are allowed.
THEOREM Types == Spec => []AppTypeOK
<1>1. IInv => AppTypeOK
  BY DEF IInv, DataInv, CoverageFacts, AskedInv, PageInv, AppTypeOK, IndexIsCurrent
<1> QED BY <1>1, Invariance, PTL

\* Whatever guideCoverage says is loaded is there: five tasks fetch windows, in
\* any order and with any of them lost, a cached copy goes before them, and a
\* backend may ignore the window (fetchGuideWindow, mergeGuideWindowPrograms).
THEOREM CoverageSound == Spec => []CoverageIsLoaded
<1>1. IInv => CoverageIsLoaded BY DEF IInv, DataInv
<1> QED BY <1>1, Invariance, PTL

\* The pages never read the index of programs that were replaced.
THEOREM IndexKept == Spec => []IndexIsCurrent
<1>1. IInv => IndexIsCurrent BY DEF IInv, DataInv
<1> QED BY <1>1, Invariance, PTL
=============================================================================
