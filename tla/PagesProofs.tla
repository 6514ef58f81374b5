------------------------------- MODULE PagesProofs -------------------------------
(***************************************************************************)
(* What holds of the browser's pages for every value of their constants:   *)
(* any number of sources, requests, games, channels and saves.  The pages  *)
(* share no state, so each has a specification, an invariant and theorems  *)
(* of its own.                                                             *)
(***************************************************************************)
EXTENDS MediaSource, CoreSession, SourceManager, PlayerOverlays, SportsFollows, SportsPage,
        AdminSettings, Lineup, GuideGrid, FoldFacts

(***************************************************************************)
(* The source of the video: only the one set last plays, however late its  *)
(* scripts arrive                                                          *)
(***************************************************************************)
MediaSpec == MediaInit /\ [][MediaNext]_mediaVars

Attachment ==
    [kind : Kinds, engine : {"waiting", "playing", "gone"},
     cancelled : BOOLEAN, recoveries : Nat, handled : BOOLEAN]

MediaTypeOK ==
    /\ attachments \in Seq(Attachment)
    /\ current \in 0 .. Len(attachments)

\* OnlyCurrentPlays is not inductive: an attachment that still waits for the
\* scripts plays as soon as they are there, unless it was cancelled.
MediaInv ==
    /\ MediaTypeOK
    /\ OnlyCurrentPlays
    /\ \A i \in DOMAIN attachments :
          attachments[i].engine = "waiting" /\ ~attachments[i].cancelled => i = current

-----------------------------------------------------------------------------
\* After destroy of the current attachment nothing plays, nor ever will.
LEMMA DestroyedFacts ==
    ASSUME MediaInv
    PROVE  /\ Destroyed(current) \in Seq(Attachment)
           /\ Len(Destroyed(current)) = Len(attachments)
           /\ \A i \in DOMAIN attachments :
                 /\ Destroyed(current)[i].engine # "playing"
                 /\ Destroyed(current)[i].engine = "waiting" => Destroyed(current)[i].cancelled
<1> DEFINE after == Destroyed(current)
<1>1. DOMAIN attachments = 1 .. Len(attachments)
    BY DEF MediaInv, MediaTypeOK
<1>2. after = [j \in 1 .. Len(attachments) |-> after[j]]
    BY <1>1 DEF Destroyed
<1>3. ASSUME NEW i \in DOMAIN attachments
      PROVE  /\ after[i] \in Attachment
             /\ after[i].engine # "playing"
             /\ after[i].engine = "waiting" => after[i].cancelled
    <2>1. attachments[i] \in Attachment
        BY DEF MediaInv, MediaTypeOK
    <2>2. CASE i = current
        BY <2>1, <2>2 DEF Destroyed, Attachment
    <2>3. CASE i # current
        BY <2>1, <2>3 DEF Destroyed, MediaInv, OnlyCurrentPlays
    <2> QED
        BY <2>2, <2>3
<1>4. after \in Seq(Attachment) /\ Len(after) = Len(attachments)
    <2>1. Len(attachments) \in Nat
        BY DEF MediaInv, MediaTypeOK
    <2> HIDE DEF after
    <2> QED
        BY <1>1, <1>2, <1>3, <2>1
<1> QED
    BY <1>3, <1>4

LEMMA NewSourceKept ==
    ASSUME MediaInv, NEW kind \in Kinds, SetVideoSource(kind)
    PROVE  MediaInv'
<1> DEFINE before == Destroyed(current)
<1>1. Attached(kind) \in Attachment
    BY DEF Attached, Attachment, Kinds
<1>2. /\ before \in Seq(Attachment)
      /\ Len(before) = Len(attachments)
      /\ \A i \in 1 .. Len(before) :
            before[i].engine # "playing" /\ (before[i].engine = "waiting" => before[i].cancelled)
    BY DestroyedFacts DEF MediaInv, MediaTypeOK
<1>3. attachments' = Append(before, Attached(kind)) /\ current' = Len(attachments')
    BY DEF SetVideoSource
<1> HIDE DEF before
<1>4. /\ attachments' \in Seq(Attachment)
      /\ Len(attachments') = Len(before) + 1
      /\ current' = Len(before) + 1
      /\ \A i \in 1 .. Len(before) : attachments'[i] = before[i]
    BY <1>1, <1>2, <1>3
<1> QED
    BY <1>2, <1>4 DEF MediaInv, MediaTypeOK, OnlyCurrentPlays

LEMMA SourceIsDropped ==
    ASSUME MediaInv, DropSource
    PROVE  MediaInv'
<1> DEFINE before == Destroyed(current)
<1>1. attachments' = before /\ current' = 0
    BY DEF DropSource
<1>2. /\ before \in Seq(Attachment)
      /\ Len(before) = Len(attachments)
      /\ \A i \in 1 .. Len(before) :
            before[i].engine # "playing" /\ (before[i].engine = "waiting" => before[i].cancelled)
    BY DestroyedFacts DEF MediaInv, MediaTypeOK
<1> HIDE DEF before
<1> QED
    BY <1>1, <1>2 DEF MediaInv, MediaTypeOK, OnlyCurrentPlays

\* The scripts that arrive start a manager only for a source that nobody has
\* cancelled, which is the current one.
LEMMA ManagerStarts ==
    ASSUME MediaInv, NEW i \in DOMAIN attachments, StartManager(i)
    PROVE  MediaInv'
<1>1. i \in 1 .. Len(attachments) /\ attachments[i] \in Attachment
    BY DEF MediaInv, MediaTypeOK
<1> DEFINE engine == IF attachments[i].cancelled THEN "gone" ELSE "playing"
           changed == [attachments[i] EXCEPT !.engine = engine]
<1>2. changed \in Attachment /\ changed.engine = engine
    BY <1>1 DEF Attachment
<1>3. attachments' = [attachments EXCEPT ![i] = changed] /\ current' = current
    BY DEF StartManager
<1>4. engine = "playing" => i = current
    BY <1>1 DEF StartManager, MediaInv
<1>5. engine \in {"gone", "playing"}
    OBVIOUS
<1> HIDE DEF changed, engine
<1>6. attachments' \in Seq(Attachment) /\ Len(attachments') = Len(attachments)
    BY <1>1, <1>2, <1>3 DEF MediaInv, MediaTypeOK
<1> QED
    BY <1>1, <1>2, <1>3, <1>4, <1>5, <1>6 DEF MediaInv, MediaTypeOK, OnlyCurrentPlays

LEMMA ScriptsFailing ==
    ASSUME MediaInv, ScriptsFail
    PROVE  MediaInv'
<1>1. DOMAIN attachments = 1 .. Len(attachments) /\ Len(attachments) \in Nat
    BY DEF MediaInv, MediaTypeOK
<1>2. attachments' = [j \in 1 .. Len(attachments) |-> attachments'[j]] /\ current' = current
    BY <1>1 DEF ScriptsFail
<1>3. ASSUME NEW j \in 1 .. Len(attachments)
      PROVE  /\ attachments'[j] \in Attachment
             /\ attachments'[j].engine # "waiting"
             /\ attachments'[j].engine = "playing" => attachments[j].engine = "playing"
    <2>1. attachments[j] \in Attachment
        BY DEF MediaInv, MediaTypeOK
    <2> QED
        BY <1>1, <2>1 DEF ScriptsFail, Attachment
<1>4. attachments' \in Seq(Attachment) /\ Len(attachments') = Len(attachments)
    BY <1>1, <1>2, <1>3
<1> QED
    BY <1>1, <1>2, <1>3, <1>4 DEF MediaInv, MediaTypeOK, OnlyCurrentPlays

\* What hls.js reports changes neither engines nor cancellations.
LEMMA EngineReports ==
    ASSUME MediaInv, NEW i \in DOMAIN attachments,
           \/ FragmentLoaded(i)
           \/ \E recoverable \in BOOLEAN, status \in {0, 403, 409, 503} :
                 HlsError(i, recoverable, status)
    PROVE  MediaInv'
<1>1. DOMAIN attachments = 1 .. Len(attachments) /\ Len(attachments) \in Nat
    BY DEF MediaInv, MediaTypeOK
<1>2. attachments[i] \in Attachment
    BY DEF MediaInv, MediaTypeOK
<1>3. PICK changed \in Attachment :
         /\ attachments' = [attachments EXCEPT ![i] = changed]
         /\ changed.engine = attachments[i].engine
         /\ changed.cancelled = attachments[i].cancelled
    <2>1. ASSUME FragmentLoaded(i)
          PROVE  \E changed \in Attachment :
                    /\ attachments' = [attachments EXCEPT ![i] = changed]
                    /\ changed.engine = attachments[i].engine
                    /\ changed.cancelled = attachments[i].cancelled
        <3> DEFINE changed == [attachments[i] EXCEPT !.recoveries = 0]
        <3>1. attachments' = [attachments EXCEPT ![i] = changed]
            BY <2>1 DEF FragmentLoaded
        <3>2. changed \in Attachment
            BY <1>2 DEF Attachment
        <3>3. changed.engine = attachments[i].engine /\ changed.cancelled = attachments[i].cancelled
            BY <1>2 DEF Attachment
        <3> HIDE DEF changed
        <3> QED
            BY <3>1, <3>2, <3>3, ZenonT(60)
    <2>2. ASSUME NEW recoverable \in BOOLEAN, NEW status \in {0, 403, 409, 503},
                 HlsError(i, recoverable, status)
          PROVE  \E changed \in Attachment :
                    /\ attachments' = [attachments EXCEPT ![i] = changed]
                    /\ changed.engine = attachments[i].engine
                    /\ changed.cancelled = attachments[i].cancelled
        <3> DEFINE tries == attachments[i].recoveries < 2
                   changed == [attachments[i] EXCEPT
                                  !.recoveries = IF tries THEN @ + 1 ELSE @,
                                  !.handled = @ \/ ~(tries /\ recoverable)]
        <3>1. attachments' = [attachments EXCEPT ![i] = changed]
            BY <2>2, ZenonT(60) DEF HlsError
        <3>2. changed \in Attachment
            <4>1. attachments[i].recoveries \in Nat /\ tries \in BOOLEAN
                BY <1>2 DEF Attachment
            <4>2. (IF tries THEN attachments[i].recoveries + 1 ELSE attachments[i].recoveries) \in Nat
                BY <4>1
            <4>3. (attachments[i].handled \/ ~(tries /\ recoverable)) \in BOOLEAN
                OBVIOUS
            <4> HIDE DEF tries
            <4> QED
                BY <1>2, <4>2, <4>3, ZenonT(60) DEF Attachment
        <3>3. changed.engine = attachments[i].engine /\ changed.cancelled = attachments[i].cancelled
            BY <1>2 DEF Attachment
        <3> HIDE DEF changed
        <3> QED
            BY <3>1, <3>2, <3>3, ZenonT(60)
    <2> QED
        BY <2>1, <2>2
<1>4. current' = current
    BY DEF FragmentLoaded, HlsError
<1>5. attachments' \in Seq(Attachment) /\ Len(attachments') = Len(attachments)
    BY <1>1, <1>3 DEF MediaInv, MediaTypeOK
<1> QED
    BY <1>1, <1>3, <1>4, <1>5 DEF MediaInv, MediaTypeOK, OnlyCurrentPlays

-----------------------------------------------------------------------------
\* Whatever is set, dropped, cancelled or reported, in any order, no source but
\* the current one plays (the look at attachment.cancelled in
\* attachSharedVideoSource).
THEOREM OldSourcesStaySilent == MediaSpec => []OnlyCurrentPlays
<1>1. MediaInit => MediaInv
    BY DEF MediaInit, MediaInv, MediaTypeOK, OnlyCurrentPlays
<1>2. ASSUME MediaInv, [MediaNext]_mediaVars PROVE MediaInv'
    <2>1. ASSUME NEW kind \in Kinds, SetVideoSource(kind) PROVE MediaInv'
        BY <1>2, <2>1, NewSourceKept
    <2>2. CASE ScriptsFail
        BY <1>2, <2>2, ScriptsFailing
    <2>3. ASSUME NEW i \in DOMAIN attachments, StartManager(i) PROVE MediaInv'
        BY <1>2, <2>3, ManagerStarts
    <2>4. ASSUME NEW i \in DOMAIN attachments,
                 \/ FragmentLoaded(i)
                 \/ \E recoverable \in BOOLEAN, status \in {0, 403, 409, 503} :
                       HlsError(i, recoverable, status)
          PROVE  MediaInv'
        BY <1>2, <2>4, EngineReports
    <2>5. CASE LeavePlayer
        BY <1>2, <2>5, SourceIsDropped DEF LeavePlayer
    <2>6. ASSUME UNCHANGED <<attachments, current>> PROVE MediaInv'
        BY <1>2, <2>6 DEF MediaInv, MediaTypeOK, OnlyCurrentPlays
    <2>7. CASE ScriptsLoaded \/ VideoPlays \/ OpenPlayer \/ UNCHANGED mediaVars
        BY <2>6, <2>7 DEF ScriptsLoaded, VideoPlays, OpenPlayer, mediaVars
    <2>8. ASSUME NEW i, ManagerError(i) PROVE MediaInv'
        BY <2>6, <2>8 DEF ManagerError
    <2>9. ASSUME NEW code, VideoError(code) PROVE MediaInv'
        BY <2>6, <2>9 DEF VideoError
    <2> QED
        BY <1>2, <2>1, <2>2, <2>3, <2>4, <2>5, <2>7, <2>8, <2>9 DEF MediaNext
<1>3. MediaInv => OnlyCurrentPlays
    BY DEF MediaInv
<1> QED
    BY <1>1, <1>2, <1>3, PTL DEF MediaSpec

(***************************************************************************)
(* The session: a request that is sent again carries a newer token         *)
(***************************************************************************)
SessionSpec == SessionInit /\ [][SessionNext]_sessionVars

Places == {"idle", "awaits token", "sent", "refused", "awaits renewal", "sent again", "answered"}

CallsOf(n) == [at : Places, carries : 0 .. n, refused : 0 .. n]

\* RetryCarriesNewToken, of one call.
Fresh(call) == call.at = "sent again" => call.carries > call.refused

\* No call knows of a token that the host has not handed out yet.
SessionInv ==
    /\ issued \in Nat
    /\ coreAccessToken \in 0 .. issued
    /\ coreCalls \in [Calls -> CallsOf(issued)]
    /\ \A c \in Calls : Fresh(coreCalls[c])

-----------------------------------------------------------------------------
LEMMA Sessions ==
    ASSUME SessionInit
    PROVE  SessionInv
<1> DEFINE unused == [at |-> "idle", carries |-> 0, refused |-> 0]
<1>1. unused \in CallsOf(0) /\ Fresh(unused)
    BY DEF CallsOf, Places, Fresh
<1>2. coreCalls = [c \in Calls |-> unused] /\ issued = 0 /\ coreAccessToken = 0
    BY DEF SessionInit
<1> HIDE DEF unused
<1> QED
    BY <1>1, <1>2 DEF SessionInv

\* A step of one call, which leaves the tokens alone.
LEMMA OneCall ==
    ASSUME SessionInv, NEW c \in Calls, NEW call \in CallsOf(issued), Fresh(call),
           coreCalls' = [coreCalls EXCEPT ![c] = call],
           UNCHANGED <<issued, coreAccessToken>>
    PROVE  SessionInv'
<1>1. coreCalls' \in [Calls -> CallsOf(issued)]
    BY DEF SessionInv
<1>2. ASSUME NEW d \in Calls PROVE Fresh(coreCalls'[d])
    <2>1. coreCalls'[d] = IF d = c THEN call ELSE coreCalls[d]
        BY DEF SessionInv
    <2> QED
        BY <2>1 DEF SessionInv
<1> QED
    BY <1>1, <1>2 DEF SessionInv, Fresh

LEMMA CallSteps ==
    ASSUME SessionInv, NEW c \in Calls,
           CoreFetch(c) \/ HostAnswers(c) \/ Refused(c) \/ AskAgain(c)
    PROVE  SessionInv'
<1>1. coreCalls[c] \in CallsOf(issued) /\ coreAccessToken \in 0 .. issued /\ 0 \in 0 .. issued
    BY DEF SessionInv
<1> DEFINE moved(p) == [coreCalls[c] EXCEPT !.at = p]
           sent == [coreCalls[c] EXCEPT !.at = "sent", !.carries = coreAccessToken]
           unused == [at |-> "idle", carries |-> 0, refused |-> 0]
           held(p) == [at |-> p, carries |-> coreCalls[c].carries, refused |-> coreCalls[c].carries]
<1>2. ASSUME NEW p \in Places \ {"sent again"}
      PROVE  /\ moved(p) \in CallsOf(issued) /\ Fresh(moved(p))
             /\ held(p) \in CallsOf(issued) /\ Fresh(held(p))
    BY <1>1 DEF CallsOf, Fresh
<1>3. sent \in CallsOf(issued) /\ Fresh(sent) /\ unused \in CallsOf(issued) /\ Fresh(unused)
    BY <1>1 DEF CallsOf, Fresh, Places
<1>4. PICK call \in CallsOf(issued) : Fresh(call) /\ coreCalls' = [coreCalls EXCEPT ![c] = call]
    <2>1. CASE CoreFetch(c)
        <3>1. \/ coreCalls' = [coreCalls EXCEPT ![c] = moved("awaits token")]
              \/ coreCalls' = [coreCalls EXCEPT ![c] = sent]
            BY <2>1 DEF CoreFetch, Fetched
        <3> HIDE DEF moved, sent
        <3> QED
            BY <1>2, <1>3, <3>1 DEF Places
    <2>2. CASE HostAnswers(c)
        <3>1. \E p \in {"answered", "refused"} : coreCalls' = [coreCalls EXCEPT ![c] = moved(p)]
            BY <2>2 DEF HostAnswers
        <3> HIDE DEF moved
        <3> QED
            BY <1>2, <3>1 DEF Places
    <2>3. CASE Refused(c)
        <3>1. \E p \in {"awaits renewal", "answered"} : coreCalls' = [coreCalls EXCEPT ![c] = held(p)]
            BY <2>3 DEF Refused
        <3> HIDE DEF held
        <3> QED
            BY <1>2, <3>1 DEF Places
    <2>4. CASE AskAgain(c)
        <3>1. coreCalls' = [coreCalls EXCEPT ![c] = unused]
            BY <2>4 DEF AskAgain
        <3> HIDE DEF unused
        <3> QED
            BY <1>3, <3>1
    <2> QED
        BY <2>1, <2>2, <2>3, <2>4
<1>5. UNCHANGED <<issued, coreAccessToken>>
    BY DEF CoreFetch, HostAnswers, Refused, AskAgain
<1> QED
    BY <1>4, <1>5, OneCall

\* The calls that go on after a renewal carry its token, newer than all others.
LEMMA Renewal ==
    ASSUME SessionInv, Renewed
    PROVE  SessionInv'
<1>1. /\ issued \in Nat /\ issued' = issued + 1 /\ coreAccessToken' = issued'
      /\ coreCalls' = [c \in Calls |-> coreCalls'[c]]
    BY DEF SessionInv, Renewed
<1>2. issued' \in 0 .. issued' /\ \A n \in 0 .. issued : n \in 0 .. issued' /\ issued' > n
    BY <1>1
<1>3. ASSUME NEW c \in Calls
      PROVE  coreCalls'[c] \in CallsOf(issued') /\ Fresh(coreCalls'[c])
    <2>1. coreCalls[c] \in CallsOf(issued) /\ Fresh(coreCalls[c])
        BY DEF SessionInv
    <2>2. CASE coreCalls[c].at = "awaits token"
        <3>1. coreCalls'[c] = [coreCalls[c] EXCEPT !.at = "sent", !.carries = issued']
            BY <2>2 DEF Renewed, Fetched
        <3> QED
            BY <1>2, <2>1, <3>1 DEF CallsOf, Places, Fresh
    <2>3. CASE coreCalls[c].at = "awaits renewal"
        <3>1. coreCalls'[c] = [coreCalls[c] EXCEPT !.at = "sent again", !.carries = issued']
            BY <2>3 DEF Renewed, Fetched
        <3> QED
            BY <1>2, <2>1, <3>1 DEF CallsOf, Places, Fresh
    <2>4. CASE coreCalls[c].at \notin {"awaits token", "awaits renewal"}
        <3>1. coreCalls'[c] = coreCalls[c]
            BY <2>4 DEF Renewed
        <3> QED
            BY <1>2, <2>1, <3>1 DEF CallsOf
    <2> QED
        BY <2>2, <2>3, <2>4
<1>4. coreCalls' \in [Calls -> CallsOf(issued')]
    BY <1>1, <1>3
<1>5. \A c \in Calls : Fresh(coreCalls[c])'
    BY <1>3 DEF Fresh
<1>6. issued' \in Nat /\ coreAccessToken' \in 0 .. issued'
    BY <1>1
<1> QED
    BY <1>4, <1>5, <1>6 DEF SessionInv

LEMMA NoRenewal ==
    ASSUME SessionInv, NotRenewed
    PROVE  SessionInv'
<1>1. PICK unreachable \in BOOLEAN :
         coreCalls' = [c \in Calls |->
            CASE coreCalls[c].at = "awaits token" /\ ~unreachable ->
                    Fetched(coreCalls[c], "sent", coreAccessToken)
              [] \/ coreCalls[c].at = "awaits token" /\ unreachable
                 \/ coreCalls[c].at = "awaits renewal" ->
                    [coreCalls[c] EXCEPT !.at = "answered"]
              [] OTHER -> coreCalls[c]]
    BY DEF NotRenewed
<1>2. /\ issued' = issued /\ coreAccessToken' = coreAccessToken
      /\ coreCalls' = [c \in Calls |-> coreCalls'[c]]
    BY <1>1 DEF NotRenewed
<1>3. ASSUME NEW c \in Calls
      PROVE  coreCalls'[c] \in CallsOf(issued) /\ Fresh(coreCalls'[c])
    <2>1. coreCalls[c] \in CallsOf(issued) /\ Fresh(coreCalls[c]) /\ coreAccessToken \in 0 .. issued
        BY DEF SessionInv
    <2>2. \/ coreCalls'[c] = [coreCalls[c] EXCEPT !.at = "sent", !.carries = coreAccessToken]
          \/ coreCalls'[c] = [coreCalls[c] EXCEPT !.at = "answered"]
          \/ coreCalls'[c] = coreCalls[c]
        <3>1. CASE coreCalls[c].at = "awaits token" /\ ~unreachable
            <4>1. unreachable = FALSE
                BY <3>1
            <4>2. coreCalls'[c] = Fetched(coreCalls[c], "sent", coreAccessToken)
                BY <1>1, <3>1, <4>1
            <4> QED
                BY <4>2 DEF Fetched
        <3>2. CASE ~(coreCalls[c].at = "awaits token" /\ ~unreachable)
            BY <1>1, <3>2
        <3> QED
            BY <3>1, <3>2
    <2> QED
        BY <2>1, <2>2 DEF CallsOf, Places, Fresh
<1> QED
    BY <1>2, <1>3 DEF SessionInv, Fresh

-----------------------------------------------------------------------------
\* Every retry follows a renewal that it awaited (coreFetch and
\* refreshCoreSession), so it never repeats the token that was refused.
THEOREM RetriesAreWorthIt == SessionSpec => []RetryCarriesNewToken
<1>1. SessionInit => SessionInv
    BY Sessions
<1>2. ASSUME SessionInv, [SessionNext]_sessionVars PROVE SessionInv'
    <2>1. CASE Expire \/ UNCHANGED sessionVars
        BY <1>2, <2>1 DEF Expire, sessionVars, SessionInv, Fresh
    <2> QED
        BY <1>2, <2>1, CallSteps, Renewal, NoRenewal DEF SessionNext
<1>3. SessionInv => RetryCarriesNewToken
    BY DEF SessionInv, RetryCarriesNewToken, Fresh
<1> QED
    BY <1>1, <1>2, <1>3, PTL DEF SessionSpec

(***************************************************************************)
(* The sources: an answer closes no editor but the one it was asked from   *)
(***************************************************************************)
SourcesSpec == SourcesInit /\ [][SourcesNext]_sourceVars

States == {"absent", "on", "off"}

Post ==
    [pc : {"idle", "sent", "listing", "listed", "done", "failed"},
     action : {"none", "refresh", "save", "toggle", "delete"} \cup Tests,
     source : Sources \cup {New, NoSource}, on : {"on", "off"},
     latest : BOOLEAN, from : Nat, list : [Sources -> States] \cup {NoSource}]

SourceTypeOK ==
    /\ stored \in [Sources -> States]
    /\ editor \in Editor \cup {NoEditor}
    /\ posts \in [Requests -> Post]
    /\ confirm \in Sources \cup {NoSource}
    /\ editors \in Nat

\* The latest request comes from the editor that is open, or from no editor.
FromHere(p) == p.latest => p.from = 0 \/ (editor # NoEditor /\ p.from = editor.number)

OneLatest == \A r, q \in Requests : posts[r].latest /\ posts[q].latest => r = q

SourceInv ==
    /\ SourceTypeOK
    /\ \A r \in Requests : FromHere(posts[r])
    /\ OneLatest

-----------------------------------------------------------------------------
LEMMA Empty ==
    /\ NoPost \in Post
    /\ ~NoPost.latest
BY DEF NoPost, Post

LEMMA Overtakes ==
    ASSUME SourceTypeOK
    PROVE  /\ Overtaken \in [Requests -> Post]
           /\ \A r \in Requests : ~Overtaken[r].latest /\ Overtaken[r].pc = posts[r].pc
<1>1. ASSUME NEW p \in Post
      PROVE  /\ [p EXCEPT !.latest = FALSE] \in Post
             /\ ~[p EXCEPT !.latest = FALSE].latest
             /\ [p EXCEPT !.latest = FALSE].pc = p.pc
    BY DEF Post
<1>2. \A r \in Requests : posts[r] \in Post /\ Overtaken[r] = [posts[r] EXCEPT !.latest = FALSE]
    BY DEF SourceTypeOK, Overtaken
<1>3. Overtaken = [r \in Requests |-> Overtaken[r]]
    BY DEF Overtaken
<1> QED
    BY <1>1, <1>2, <1>3

\* A request becomes the latest one.
LEMMA Submitting ==
    ASSUME SourceInv, NEW action \in {"save", "toggle", "delete"} \cup Tests,
           NEW source \in Sources \cup {New, NoSource}, NEW on \in {"on", "off"}, NEW from \in Nat,
           from = 0 \/ (editor # NoEditor /\ from = editor.number),
           SubmitAdminSource(action, source, on, from),
           UNCHANGED <<stored, editor, editors>>,
           confirm' = NoSource
    PROVE  SourceInv'
<1> DEFINE new == [pc |-> "sent", action |-> action, source |-> source, on |-> on,
                   latest |-> TRUE, from |-> from, list |-> NoSource]
<1>1. new \in Post /\ new.from = from
    BY DEF Post
<1>2. PICK r \in Requests : posts' = [Overtaken EXCEPT ![r] = new]
    BY DEF SubmitAdminSource
<1> HIDE DEF new
<1>3. SourceTypeOK
    BY DEF SourceInv
<1>4. /\ posts' \in [Requests -> Post]
      /\ \A q \in Requests : IF q = r THEN posts'[q] = new ELSE ~posts'[q].latest
    BY <1>1, <1>2, <1>3, Overtakes
<1>5. SourceTypeOK'
    BY <1>3, <1>4 DEF SourceTypeOK
<1>6. \A q \in Requests : FromHere(posts[q])'
    BY <1>1, <1>4 DEF FromHere
<1>7. OneLatest'
    BY <1>4 DEF OneLatest
<1> QED
    BY <1>5, <1>6, <1>7 DEF SourceInv

\* One request moves on, and is the latest only if it was; the editor stays open
\* unless that request was the latest.
LEMMA OnePost ==
    ASSUME SourceInv, NEW r \in Requests, NEW p \in Post,
           posts' = [posts EXCEPT ![r] = p],
           p.latest => posts[r].latest /\ p.from = posts[r].from,
           \/ editor' = editor
           \/ posts[r].latest /\ ~p.latest /\ editor' = NoEditor,
           stored' \in [Sources -> States],
           confirm' \in Sources \cup {NoSource},
           editors' = editors
    PROVE  SourceInv'
<1>1. SourceTypeOK
    BY DEF SourceInv
<1>2. /\ posts' \in [Requests -> Post]
      /\ \A q \in Requests : posts'[q] = IF q = r THEN p ELSE posts[q]
    BY <1>1 DEF SourceTypeOK
<1>3. SourceTypeOK'
    BY <1>1, <1>2 DEF SourceTypeOK
<1>4. ASSUME NEW q \in Requests PROVE FromHere(posts[q])'
    <2>1. CASE editor' = editor
        BY <1>2, <2>1 DEF SourceInv, FromHere
    <2>2. CASE posts[r].latest /\ ~p.latest
        BY <1>2, <2>2 DEF SourceInv, OneLatest, FromHere
    <2> QED
        BY <2>1, <2>2
<1>5. OneLatest'
    BY <1>2 DEF SourceInv, OneLatest
<1> QED
    BY <1>3, <1>4, <1>5 DEF SourceInv

LEMMA EditorRows ==
    ASSUME SourceInv, NEW s \in Sources, RowAction("test", s) \/ RowAction("toggle", s)
    PROVE  SourceInv'
BY Submitting DEF RowAction, Tests

LEMMA Deleting ==
    ASSUME SourceInv, DeleteConfirmed
    PROVE  SourceInv'
<1>1. confirm \in Sources
    BY DEF DeleteConfirmed, SourceInv, SourceTypeOK
<1> QED
    BY <1>1, Submitting DEF DeleteConfirmed

LEMMA Refreshing ==
    ASSUME SourceInv, RefreshSources
    PROVE  SourceInv'
<1>1. PICK r \in Requests :
         posts[r] = NoPost /\ posts' = [posts EXCEPT ![r].pc = "sent", ![r].action = "refresh"]
    BY DEF RefreshSources
<1> DEFINE p == [NoPost EXCEPT !.pc = "sent", !.action = "refresh"]
<1>2. p \in Post /\ ~p.latest
    BY DEF NoPost, Post
<1>3. posts' = [posts EXCEPT ![r] = p]
    BY <1>1
<1> HIDE DEF p
<1> QED
    BY <1>2, <1>3, OnePost DEF RefreshSources, SourceInv, SourceTypeOK

\* The next editor has a number of its own; nothing is asked from it yet.
LEMMA Opening ==
    ASSUME SourceInv, NEW of \in Sources \cup {New}, OpenEditor(of)
    PROVE  SourceInv'
<1>1. editor' \in Editor /\ editors' \in Nat
    BY DEF OpenEditor, Editor, SourceInv, SourceTypeOK
<1>2. editor = NoEditor /\ UNCHANGED <<stored, posts>> /\ confirm' = NoSource
    BY DEF OpenEditor
<1>3. SourceTypeOK'
    BY <1>1, <1>2 DEF SourceInv, SourceTypeOK
<1> QED
    BY <1>2, <1>3 DEF SourceInv, FromHere, OneLatest

LEMMA Editing ==
    ASSUME SourceInv, NEW valid \in BOOLEAN, NEW dirty \in BOOLEAN, NEW guideField,
           EditField(valid, dirty, guideField)
    PROVE  SourceInv' /\ editor' # NoEditor
<1>1. editor \in Editor /\ editor # NoEditor
    BY DEF EditField, SourceInv, SourceTypeOK
<1>2. editor' \in Editor /\ editor'.number = editor.number
    BY <1>1 DEF EditField, Editor
<1>3. editor' # NoEditor
    BY <1>2, SourceConstants
<1>4. UNCHANGED <<stored, posts, confirm, editors>>
    BY DEF EditField
<1>5. SourceTypeOK'
    BY <1>2, <1>4 DEF SourceInv, SourceTypeOK
<1> QED
    BY <1>1, <1>2, <1>3, <1>4, <1>5 DEF SourceInv, FromHere, OneLatest

\* What overtakes all requests leaves none that could close an editor.
LEMMA Overtaking ==
    ASSUME SourceInv, posts' = Overtaken,
           editor' \in {editor, NoEditor}, confirm' = NoSource, UNCHANGED <<stored, editors>>
    PROVE  SourceInv'
<1>1. SourceTypeOK'
    BY Overtakes DEF SourceInv, SourceTypeOK
<1> QED
    BY <1>1, Overtakes DEF SourceInv, FromHere, OneLatest

LEMMA Asking ==
    ASSUME SourceInv, NEW action \in {"save"} \cup Tests, EditorAction(action)
    PROVE  SourceInv'
<1>1. editor \in Editor /\ editor # NoEditor
    BY DEF EditorAction, SourceInv, SourceTypeOK
<1>2. editor.of \in Sources \cup {New} /\ editor.number \in Nat
    BY <1>1 DEF Editor
<1>3. UNCHANGED <<stored, editor, editors>> /\ confirm' = NoSource
    BY DEF EditorAction
<1>4. CASE SubmitAdminSource(action, editor.of, "on", editor.number)
    BY <1>1, <1>2, <1>3, <1>4, Submitting
<1>5. CASE posts' = Overtaken
    BY <1>3, <1>5, Overtaking
<1> QED
    BY <1>4, <1>5 DEF EditorAction

LEMMA Handling ==
    ASSUME SourceInv, NEW r \in Requests, Handled(r)
    PROVE  SourceInv'
<1>1. SourceTypeOK /\ posts[r] \in Post
    BY DEF SourceInv, SourceTypeOK
<1>2. UNCHANGED <<editor, confirm, editors>>
    BY DEF Handled
<1>3. CASE posts' = [posts EXCEPT ![r].pc = "failed"] /\ UNCHANGED stored
    <2> DEFINE p == [posts[r] EXCEPT !.pc = "failed"]
    <2>1. p \in Post /\ p.latest = posts[r].latest /\ p.from = posts[r].from
        BY <1>1 DEF Post
    <2>2. posts' = [posts EXCEPT ![r] = p]
        BY <1>3
    <2> HIDE DEF p
    <2> QED
        BY <1>1, <1>2, <1>3, <2>1, <2>2, OnePost DEF SourceTypeOK
<1>4. ASSUME NEW after \in AfterRequest(posts[r]),
             stored' = after,
             posts' = [posts EXCEPT ![r].pc = IF @ = "sent" THEN "done" ELSE "listed",
                                    ![r].list = after]
      PROVE  SourceInv'
    <2>1. after \in [Sources -> States]
        <3>1. stored \in [Sources -> States] /\ posts[r].on \in States
            BY <1>1 DEF SourceTypeOK, Post, States
        <3> QED
            BY <3>1 DEF AfterRequest, States
    <2> DEFINE p == [posts[r] EXCEPT !.pc = IF @ = "sent" THEN "done" ELSE "listed",
                                     !.list = after]
    <2>2. p \in Post /\ p.latest = posts[r].latest /\ p.from = posts[r].from
        BY <1>1, <2>1 DEF Post
    <2>3. posts' = [posts EXCEPT ![r] = p]
        BY <1>4
    <2> HIDE DEF p
    <2> QED
        BY <1>1, <1>2, <1>4, <2>1, <2>2, <2>3, OnePost, ZenonT(60) DEF SourceTypeOK
<1> QED
    BY <1>3, <1>4 DEF Handled

LEMMA Answering ==
    ASSUME SourceInv, NEW r \in Requests, Answered(r)
    PROVE  SourceInv'
<1>1. /\ posts' = [posts EXCEPT ![r] = NoPost]
      /\ stored' = stored /\ editors' = editors
      /\ editor' = editor \/ (posts[r].latest /\ editor' = NoEditor)
    BY DEF Answered
<1>2. confirm' \in Sources \cup {NoSource}
    BY DEF Answered, Rerendered, SourceInv, SourceTypeOK
<1> QED
    BY <1>1, <1>2, Empty, OnePost DEF SourceInv, SourceTypeOK

LEMMA RefreshEnding ==
    ASSUME SourceInv, NEW r \in Requests, RefreshAnswered(r)
    PROVE  SourceInv'
<1> DEFINE listing == [NoPost EXCEPT !.pc = "listing"]
<1>1. listing \in Post /\ ~listing.latest
    BY DEF NoPost, Post
<1>2. \E p \in {listing, NoPost} : posts' = [posts EXCEPT ![r] = p]
    BY DEF RefreshAnswered
<1>3. confirm' \in Sources \cup {NoSource} /\ UNCHANGED <<stored, editor, editors>>
    BY DEF RefreshAnswered, Rerendered, SourceInv, SourceTypeOK
<1> HIDE DEF listing
<1> QED
    BY <1>1, <1>2, <1>3, Empty, OnePost DEF SourceInv, SourceTypeOK

-----------------------------------------------------------------------------
LEMMA Initially ==
    ASSUME SourcesInit
    PROVE  SourceInv
<1> DEFINE listing == [NoPost EXCEPT !.pc = "listing"]
<1>1. listing \in Post /\ ~listing.latest
    BY DEF NoPost, Post
<1>2. posts \in [Requests -> Post] /\ \A r \in Requests : ~posts[r].latest
    <2>1. CASE posts = [r \in Requests |-> NoPost]
        BY <2>1, Empty
    <2>2. ASSUME NEW r \in Requests, posts = [x \in Requests |-> IF x = r THEN listing ELSE NoPost]
          PROVE  <1>2!:
        <3> HIDE DEF listing
        <3> QED
            BY <1>1, <2>2, Empty
    <2> QED
        BY <2>1, <2>2 DEF SourcesInit
<1>3. SourceTypeOK
    BY <1>2 DEF SourcesInit, SourceTypeOK, States
<1> QED
    BY <1>2, <1>3 DEF SourceInv, FromHere, OneLatest

LEMMA SourceSteps ==
    ASSUME SourceInv, [SourcesNext]_sourceVars
    PROVE  SourceInv'
<1>1. ASSUME NEW s \in Sources,
             \/ RowAction("test", s) \/ RowAction("toggle", s) \/ OpenEditor(s)
      PROVE  SourceInv'
    BY <1>1, EditorRows, Opening
<1>2. CASE OpenEditor(New)
    BY <1>2, Opening
<1>3. ASSUME NEW valid \in BOOLEAN, NEW dirty \in BOOLEAN, NEW guideField \in BOOLEAN,
             EditField(valid, dirty, guideField)
      PROVE  SourceInv'
    BY <1>3, Editing
<1>4. ASSUME NEW action \in {"save"} \cup Tests, EditorAction(action) PROVE SourceInv'
    BY <1>4, Asking
<1>5. CASE Cancel \/ DismissSourceEditor
    BY <1>5, Overtaking DEF Cancel, DismissSourceEditor
<1>6. ASSUME UNCHANGED <<stored, editor, posts, editors>>, confirm' \in Sources \cup {NoSource}
      PROVE  SourceInv'
    <2>1. SourceTypeOK'
        BY <1>6 DEF SourceInv, SourceTypeOK
    <2> QED
        BY <1>6, <2>1 DEF SourceInv, FromHere, OneLatest
<1>7. CASE CloseInlineConfirm \/ UNCHANGED sourceVars
    BY <1>6, <1>7 DEF CloseInlineConfirm, sourceVars, SourceInv, SourceTypeOK
<1>8. ASSUME NEW s \in Sources, OpenInlineConfirm(s) PROVE SourceInv'
    BY <1>6, <1>8 DEF OpenInlineConfirm
<1>9. CASE DeleteConfirmed \/ RefreshSources
    BY <1>9, Deleting, Refreshing
<1>10. ASSUME NEW r \in Requests, Handled(r) \/ Answered(r) \/ RefreshAnswered(r) PROVE SourceInv'
    BY <1>10, Handling, Answering, RefreshEnding
<1> QED
    BY <1>1, <1>2, <1>3, <1>4, <1>5, <1>7, <1>8, <1>9, <1>10 DEF SourcesNext

\* What closes an editor: Cancel, Escape, or the answer of the latest request.
LEMMA Closing ==
    ASSUME SourceInv, SourcesNext, editor # NoEditor, editor' = NoEditor
    PROVE  \/ \A r \in Requests : ~posts'[r].latest /\ posts'[r].pc = posts[r].pc
           \/ \E r \in Requests : /\ posts[r].latest
                                  /\ posts'[r] = NoPost
                                  /\ posts[r].from \in {0, editor.number}
<1>1. CASE Cancel \/ DismissSourceEditor
    BY <1>1, Overtakes DEF Cancel, DismissSourceEditor, SourceInv
<1>2. ASSUME NEW r \in Requests, Answered(r)
      PROVE  posts[r].latest /\ posts'[r] = NoPost /\ posts[r].from \in {0, editor.number}
    <2>1. posts[r].latest
        BY <1>2 DEF Answered
    <2>2. posts'[r] = NoPost
        BY <1>2 DEF Answered, SourceInv, SourceTypeOK
    <2> QED
        BY <2>1, <2>2 DEF SourceInv, FromHere
<1>3. ASSUME NEW valid \in BOOLEAN, NEW dirty \in BOOLEAN, NEW guideField \in BOOLEAN,
             EditField(valid, dirty, guideField)
      PROVE  FALSE
    BY <1>3, Editing
<1>4. ASSUME NEW of, OpenEditor(of) PROVE FALSE
    BY <1>4 DEF OpenEditor
<1>5. ASSUME UNCHANGED editor PROVE FALSE
    BY <1>5
<1>6. ASSUME NEW s, NEW action, RowAction(action, s) PROVE FALSE
    BY <1>6 DEF RowAction
<1>7. ASSUME NEW s, OpenInlineConfirm(s) PROVE FALSE
    BY <1>7 DEF OpenInlineConfirm
<1>8. ASSUME NEW action, EditorAction(action) PROVE FALSE
    BY <1>8 DEF EditorAction
<1>9. ASSUME NEW r, Handled(r) \/ RefreshAnswered(r) PROVE FALSE
    BY <1>9 DEF Handled, RefreshAnswered
<1>10. CASE DeleteConfirmed \/ CloseInlineConfirm \/ RefreshSources
    BY <1>5, <1>10 DEF DeleteConfirmed, CloseInlineConfirm, RefreshSources
<1> QED
    BY <1>1, <1>2, <1>3, <1>4, <1>6, <1>7, <1>8, <1>9, <1>10 DEF SourcesNext

\* What an editor has sent never closes a later one (adminSourceRequestID, which
\* closeAdminSourceEditor and every request raise and submitAdminSource compares).
THEOREM AnswersCloseTheirEditor == SourcesSpec => EditorsAreApart
<1>1. SourcesInit => SourceInv
    BY Initially
<1>2. SourceInv /\ [SourcesNext]_sourceVars => SourceInv'
    BY SourceSteps
<1>3. SourceInv /\ [SourcesNext]_sourceVars =>
          [(editor # NoEditor /\ editor' = NoEditor)
              => \/ \A r \in Requests : ~posts'[r].latest /\ posts'[r].pc = posts[r].pc
                 \/ \E r \in Requests : /\ posts[r].latest
                                        /\ posts'[r] = NoPost
                                        /\ posts[r].from \in {0, editor.number}]_sourceVars
    BY Closing
<1> QED
    BY <1>1, <1>2, <1>3, PTL DEF SourcesSpec, EditorsAreApart

(***************************************************************************)
(* The follows: a button does what it says                                 *)
(***************************************************************************)
FollowsSpec == FollowsInit /\ [][FollowsNext]_followVars

\* A team is told to be a member of AllTeams or BuiltIn, so it answers to its id.
LEMMA AnswersToItsID ==
    ASSUME NEW team \in AllTeams \cup BuiltIn, team.id # ""
    PROVE  team.id \in team.ids
BY ConsistentTeams

\* A follow of the id makes a team with a name one that is followed.
LEMMA FollowShows ==
    ASSUME NEW team \in AllTeams \cup BuiltIn, HasName(team), team.id # "",
           NEW id, id = team.id \/ \E p \in PassesOf(team.name) : p.id = id
    PROVE  Matches(team, follows \cup {id})
BY AnswersToItsID DEF Matches

\* Taking back a follow by an id that someone with the team's name answers to
\* leaves none of the ids that make the team one that is followed.
LEMMA UnfollowShows ==
    ASSUME NEW team \in BuiltIn \cup SportsPeople,
           NEW q \in BuiltIn \cup SportsPeople, q.name = team.name,
           NEW id \in q.ids
    PROVE  ~Matches(team, Unfollowed(id))
<1> DEFINE people == BuiltIn \cup SportsPeople
           names == {p.name : p \in {x \in people : id \in x.ids}}
           gone == UNION {p.ids : p \in {x \in people : x.name \in names}}
<1>1. team.name \in names
    OBVIOUS
<1>2. \A p \in people : p.name = team.name => p.ids \subseteq gone
    BY <1>1
<1>3. team.ids \subseteq gone
    BY <1>2
<1>4. \A p \in PassesOf(team.name) : p \in people /\ p.name = team.name /\ p.ids = {p.id}
    BY ConsistentTeams DEF PassesOf
<1>5. \A p \in PassesOf(team.name) : p.id \in gone
    BY <1>2, <1>4
<1>6. Unfollowed(id) = follows \ ({id} \cup gone)
    BY DEF Unfollowed
<1> HIDE DEF gone
<1> QED
    BY <1>3, <1>5, <1>6 DEF Matches

\* The id that the heart stands for is the team's own or that of a pass for it.
LEMMA HeartStandsFor ==
    ASSUME NEW team
    PROVE  HeartID(team) = team.id \/ \E p \in PassesOf(team.name) : p.id = HeartID(team)
<1> DEFINE passes == {p.id : p \in PassesOf(team.name)}
<1>1. CASE passes \cap follows # {}
    <2>1. (CHOOSE id \in passes \cap follows : TRUE) \in passes
        BY <1>1
    <2> QED
        BY <2>1 DEF HeartID
<1>2. CASE passes \cap follows = {} /\ passes # {}
    <2>1. (CHOOSE id \in passes : TRUE) \in passes
        BY <1>2
    <2> QED
        BY <1>2, <2>1 DEF HeartID
<1>3. CASE passes = {}
    BY <1>3 DEF HeartID
<1> QED
    BY <1>1, <1>2, <1>3

\* What a button is pressed on is among the people that unfollowing looks at.
LEMMA PressedIsKnown ==
    ASSUME NEW team, HasName(team), PressHeart(team) \/ PressCard(team)
    PROVE  team.id # "" /\ team \in BuiltIn \cup SportsPeople
BY DEF PressHeart, PressCard, KnownTeams, SportsPeople

LEMMA ButtonWorks ==
    ASSUME NEW team \in AllTeams \cup BuiltIn, HasName(team), NEW id,
           team.id # "", team \in BuiltIn \cup SportsPeople,
           id = team.id \/ \E p \in PassesOf(team.name) : p.id = id,
           Toggle(id, ~Matches(team, follows))
    PROVE  Matches(team, follows') <=> ~Matches(team, follows)
<1>1. CASE Matches(team, follows)
    <2>1. follows' = Unfollowed(id)
        BY <1>1 DEF Toggle
    <2>2. PICK q \in BuiltIn \cup SportsPeople : q.name = team.name /\ id \in q.ids
        <3>1. CASE id = team.id
            BY <3>1, AnswersToItsID
        <3>2. ASSUME NEW p \in PassesOf(team.name), p.id = id
              PROVE  p \in BuiltIn /\ p.name = team.name /\ id \in p.ids
            BY <3>2, ConsistentTeams DEF PassesOf
        <3> QED
            BY <3>1, <3>2
    <2> QED
        BY <1>1, <2>1, <2>2, UnfollowShows
<1>2. CASE ~Matches(team, follows)
    <2>1. follows' = follows \cup {id}
        BY <1>2 DEF Toggle
    <2> QED
        BY <1>2, <2>1, FollowShows
<1> QED
    BY <1>1, <1>2

\* A button does what it says (toggleSportsTeamFavorite, sportsTeamFavoriteButton):
\* for any teams, passes and follows that the server and the storage may bring,
\* a team shown as followed is shown as not followed afterwards, and the other
\* way round, whichever of its ids the follow was stored under.
THEOREM ButtonsWork == FollowsSpec => ButtonsTakeEffect
<1> DEFINE Pressed == \A team \in AllTeams \cup BuiltIn :
              HasName(team) /\ (PressHeart(team) \/ PressCard(team))
                 => (Matches(team, follows') <=> ~Matches(team, follows))
<1>1. Pressed
    <2> SUFFICES ASSUME NEW team \in AllTeams \cup BuiltIn, HasName(team),
                        PressHeart(team) \/ PressCard(team)
                 PROVE  Matches(team, follows') <=> ~Matches(team, follows)
        OBVIOUS
    <2>1. team.id # "" /\ team \in BuiltIn \cup SportsPeople
        BY PressedIsKnown
    <2>2. CASE PressHeart(team)
        BY <2>1, <2>2, HeartStandsFor, ButtonWorks DEF PressHeart
    <2>3. CASE PressCard(team)
        BY <2>1, <2>3, ButtonWorks DEF PressCard
    <2> QED
        BY <2>2, <2>3
<1>2. [toggles' # toggles => Pressed]_followVars
    BY <1>1
<1> QED
    BY <1>2, PTL DEF ButtonsTakeEffect, FollowsSpec

(***************************************************************************)
(* The player's overlays: Escape leads back to the button                  *)
(***************************************************************************)
OverlaysSpec == OverlaysInit /\ [][OverlaysNext]_overlayVars

\* The buttons that open a menu.
OpenersOf(menu) == {menu} \cup (IF menu = "audio" THEN {"language"} ELSE {})

\* At most one menu is open, and the button remembered, if it is still on the
\* page, is one that opens this menu.
OneMenu(unfolded, button) ==
    \/ unfolded = {}
    \/ \E m \in Menus : unfolded = {m} /\ (button \in Controls => button \in OpenersOf(m))

OverlaysInv == OneMenu(menus, opener)

\* A step under which the menus stay, or close, and no other button is remembered.
LEMMA MenusStay ==
    ASSUME OverlaysInv, menus' \subseteq menus, opener' = opener \/ opener' \notin Controls
    PROVE  OverlaysInv'
BY DEF OverlaysInv, OneMenu

LEMMA MenuOpens ==
    ASSUME OverlaysInv, NEW m \in Menus, NEW control \in OpenersOf(m), ToggleMenu(m, control)
    PROVE  OverlaysInv'
BY DEF OverlaysInv, OneMenu, ToggleMenu, Clicked, Remember

\* The buttons that close every menu, and what follows is remembered.
LEMMA MenusClose ==
    ASSUME menus' = {}
    PROVE  OverlaysInv'
BY DEF OverlaysInv, OneMenu

LEMMA NotControls == "none" \notin Controls /\ "gone" \notin Controls
BY DEF Controls

LEMMA OverlaySteps ==
    ASSUME OverlaysInv, [OverlaysNext]_overlayVars
    PROVE  OverlaysInv'
<1>1. CASE RenderPlayerPage \/ BackAction \/ LeavingAction \/ SportsChannel
    BY <1>1, MenusStay, NotControls
       DEF RenderPlayerPage, BackAction, LeavingAction, LeavePlayerFor, SportsChannel
<1>2. CASE ShowPlayerError \/ ClearPlayerError \/ GuideClose \/ MouseMoves \/ TracksChange
    BY <1>2, MenusStay
       DEF ShowPlayerError, ClearPlayerError, GuideClose, Clicked, MouseMoves, TracksChange
<1>3. ASSUME NEW m \in Menus, ToggleMenu(m, m)
      PROVE  OverlaysInv'
    BY <1>3, MenuOpens DEF OpenersOf
<1>4. CASE ToggleMenu("audio", "language")
    BY <1>4, MenuOpens DEF OpenersOf, Menus
<1>5. CASE NoLanguages \/ ToggleGuide("guide") \/ ToggleGuide("more")
    BY <1>5, MenusClose DEF NoLanguages, ToggleGuide, Clicked
<1>6. CASE SportsAction \/ SportsByOther(TRUE) \/ SportsByOther(FALSE)
    BY <1>6, MenusClose DEF SportsAction, SportsByOther, TogglePlayerSports
<1>7. ASSUME NEW c \in Controls, OtherAction(c, {}) \/ OtherAction(c, menus)
      PROVE  OverlaysInv'
    BY <1>7, MenusStay DEF OtherAction, Clicked
<1>8. CASE EscapeKey
    <2>1. menus' = {}
        BY <1>8 DEF EscapeKey, EscapeMenus, EscapeGuide, EscapeDrawer, LeavePlayerFor,
                    TogglePlayerSports
    <2> QED
        BY <2>1, MenusClose
<1>9. ASSUME NEW to, FocusMoves(to)
      PROVE  OverlaysInv'
    BY <1>9, MenusStay DEF FocusMoves
<1>10. CASE IdleTimer
    BY <1>10, MenusStay DEF IdleTimer
<1>11. CASE SourceIsSet
    BY <1>11, MenusClose DEF SourceIsSet
<1>12. CASE UNCHANGED overlayVars
    BY <1>12, MenusStay DEF overlayVars
<1> QED
    BY <1>1, <1>2, <1>3, <1>4, <1>5, <1>6, <1>7, <1>8, <1>9, <1>10, <1>11, <1>12 DEF OverlaysNext

\* Escape out of a menu (closeTopPlayerOverlay) leads back to the button that
\* opened it, or to the menu's own one when the page was drawn anew meanwhile:
\* at most one menu is open, and the button remembered is one of that menu.
THEOREM EscapeGoesBack == OverlaysSpec => EscapeLeadsBack
<1>1. OverlaysInit => OverlaysInv
    BY DEF OverlaysInit, OverlaysInv, OneMenu
<1>2. OverlaysInv /\ [OverlaysNext]_overlayVars => OverlaysInv'
    BY OverlaySteps
<1>3. OverlaysInv => [(EscapeKey /\ menus # {})
                         => \/ focus' \in menus
                            \/ menus = {"audio"} /\ focus' = "language"]_overlayVars
    <2> SUFFICES ASSUME OverlaysInv, EscapeKey, menus # {}
                 PROVE  focus' \in menus \/ (menus = {"audio"} /\ focus' = "language")
        OBVIOUS
    <2>1. EscapeMenus
        BY DEF EscapeKey, EscapeGuide, EscapeDrawer
    <2>2. focus' = IF opener \in Controls THEN opener ELSE CHOOSE m \in menus : TRUE
        BY <2>1 DEF EscapeMenus, FocusOpener
    <2>3. (CHOOSE m \in menus : TRUE) \in menus
        OBVIOUS
    <2>4. PICK m \in Menus : menus = {m} /\ (opener \in Controls => opener \in OpenersOf(m))
        BY DEF OverlaysInv, OneMenu
    <2> QED
        BY <2>2, <2>3, <2>4 DEF OpenersOf
<1> QED
    BY <1>1, <1>2, <1>3, PTL DEF EscapeLeadsBack, OverlaysSpec

(***************************************************************************)
(* The sports page: polling goes on until the scores are ready, and the    *)
(* stats of the open game keep coming and are that game's                  *)
(***************************************************************************)
SportsSpec == SportsInit /\ [][SportsNext]_sportsVars

GameOrNone == Games \cup {NoGame}

PayloadRecord ==
    [events : SUBSET Games, refreshing : BOOLEAN, error : BOOLEAN,
     leagues : SUBSET Leagues, teams : SUBSET Leagues]

StatsRecord ==
    [id : GameOrNone, data : GameOrNone, completed : BOOLEAN, loading : BOOLEAN,
     fresh : BOOLEAN, timer : GameOrNone]

SportsTypeOK ==
    /\ sportsView \in BOOLEAN
    /\ sportsTab \in Tabs
    /\ payload \in PayloadRecord \cup {NoPayload}
    /\ sportsLoading \in BOOLEAN
    /\ pollTimer \in BOOLEAN
    /\ attempts \in 0 .. MaxAttempts
    /\ selected \in GameOrNone
    /\ sportsLeague \in Leagues \cup {NoLeague}
    /\ rosters \subseteq Leagues
    /\ rosterLoads \in [Leagues -> {"no", "current", "replaced"}]
    /\ stats \in StatsRecord
    /\ asked \in [Games -> Nat]

\* Stats that are in order, with the requests that are out: the timer is for
\* their game, fresh ones are asked for again unless the game is over, and a
\* request is out while they load.
InOrder(s, out) ==
    /\ s.timer \in {NoGame, s.id}
    /\ s.data \in {NoGame, s.id}
    /\ s.fresh /\ s.id # NoGame => s.timer = s.id \/ s.completed
    /\ s.loading => s.id \in Games /\ out[s.id] > 0

\* A roster is awaited for a league of the payload that is there.
RostersHavePayload ==
    \A l \in Leagues : rosterLoads[l] = "current" => payload \in PayloadRecord

SportsInv ==
    /\ SportsTypeOK
    /\ InOrder(stats, asked)
    /\ RostersHavePayload
    /\ PolledUntilReady
    /\ StatsKeepComing

StatsPart ==
    /\ stats \in StatsRecord
    /\ asked \in [Games -> Nat]
    /\ InOrder(stats, asked)

\* The part about the payload.
LoadsPart ==
    /\ payload \in PayloadRecord \cup {NoPayload}
    /\ sportsLoading \in BOOLEAN
    /\ pollTimer \in BOOLEAN
    /\ attempts \in 0 .. MaxAttempts
    /\ sportsLeague \in Leagues \cup {NoLeague}
    /\ rosters \subseteq Leagues
    /\ rosterLoads \in [Leagues -> {"no", "current", "replaced"}]
    /\ RostersHavePayload
    /\ PolledUntilReady

\* The part about the page.
PagePart ==
    /\ sportsView \in BOOLEAN
    /\ sportsTab \in Tabs
    /\ selected \in GameOrNone
    /\ StatsPart
    /\ StatsKeepComing

LEMMA SportsParts ==
    /\ SportsInv <=> LoadsPart /\ PagePart
    /\ SportsInv' <=> LoadsPart' /\ PagePart'
BY DEF SportsInv, SportsTypeOK, LoadsPart, PagePart, StatsPart

LEMMA NewStats ==
    ASSUME NEW g \in GameOrNone
    PROVE  /\ StatsOf(g) \in StatsRecord
           /\ \A out : InOrder(StatsOf(g), out)
           /\ StatsOf(g).id = g
BY DEF StatsOf, StatsRecord, InOrder, GameOrNone

\* syncSportsGameStats for stats that are in order.
LEMMA Syncing ==
    ASSUME asked \in [Games -> Nat],
           NEW s \in StatsRecord, InOrder(s, asked),
           SyncSportsGameStats(s.id, s)
    PROVE  /\ StatsPart'
           /\ stats'.id = s.id
           /\ s.id # NoGame => stats'.loading \/ stats'.timer = s.id \/ stats'.completed
<1>1. CASE FetchNeeded(s)
    <2>1. s.id \in Games
        BY <1>1 DEF FetchNeeded, StatsRecord, GameOrNone
    <2>2. asked' = [asked EXCEPT ![s.id] = @ + 1] /\ stats' = [s EXCEPT !.loading = TRUE]
        BY <1>1 DEF SyncSportsGameStats
    <2>3. asked' \in [Games -> Nat] /\ asked'[s.id] > 0
        BY <2>1, <2>2
    <2>4. /\ stats' \in StatsRecord
          /\ stats'.id = s.id /\ stats'.loading
          /\ stats'.timer = s.timer /\ stats'.data = s.data
          /\ stats'.fresh = s.fresh /\ stats'.completed = s.completed
        BY <2>2 DEF StatsRecord
    <2> QED
        BY <2>1, <2>3, <2>4 DEF StatsPart, InOrder
<1>2. CASE ~FetchNeeded(s)
    <2>1. stats' = s /\ asked' = asked
        BY <1>2 DEF SyncSportsGameStats
    <2>2. s.id # NoGame => s.loading \/ s.fresh
        BY <1>2 DEF FetchNeeded
    <2> QED
        BY <2>1, <2>2 DEF StatsPart, InOrder
<1> QED
    BY <1>1, <1>2

\* Whatever is drawn: the stats follow the game that the page is left with.
LEMMA Rendering ==
    ASSUME StatsPart, NEW chosen \in GameOrNone, RenderSportsPage(chosen),
           sportsView' \in BOOLEAN, sportsTab' \in Tabs
    PROVE  PagePart'
<1>1. CASE sportsTab' = "replays"
    BY <1>1 DEF RenderSportsPage, PagePart, StatsPart, StatsKeepComing, InOrder
<1>2. CASE sportsTab' # "replays"
    <2> DEFINE game == IF selected' \in StatGames THEN selected' ELSE NoGame
    <2>1. selected' \in GameOrNone /\ SyncSportsGameStats(game, Synced(game))
        BY <1>2 DEF RenderSportsPage, GameOrNone
    <2>2. game \in GameOrNone
        BY SportsAssumption DEF GameOrNone
    <2>3. selected' \in StatGames => game = selected' /\ game # NoGame
        BY SportsAssumption
    <2> HIDE DEF game
    <2>4. Synced(game) \in StatsRecord /\ InOrder(Synced(game), asked) /\ Synced(game).id = game
        BY <2>2, NewStats DEF Synced, StatsPart
    <2>5. /\ StatsPart'
          /\ stats'.id = game
          /\ game # NoGame => stats'.loading \/ stats'.timer = game \/ stats'.completed
        BY <2>1, <2>4, Syncing DEF StatsPart
    <2> QED
        BY <2>1, <2>3, <2>5 DEF PagePart, StatsKeepComing
<1> QED
    BY <1>1, <1>2

\* What leaves the page and the stats alone.
LEMMA PageStays ==
    ASSUME PagePart, UNCHANGED <<sportsView, sportsTab, selected, stats, asked>>
    PROVE  PagePart'
BY DEF PagePart, StatsPart, InOrder, StatsKeepComing

LEMMA LoadsStay ==
    ASSUME LoadsPart, UNCHANGED <<loads, leagueVars>>
    PROVE  LoadsPart'
BY DEF LoadsPart, loads, leagueVars, RostersHavePayload, PolledUntilReady

LEMMA NoAttempts == 0 \in 0 .. MaxAttempts
BY SportsAssumption

LEMMA Loading ==
    ASSUME LoadsPart, NEW force \in BOOLEAN, NEW preparedOnly \in BOOLEAN,
           LoadSports(force, preparedOnly), UNCHANGED leagueVars
    PROVE  LoadsPart'
<1>1. UNCHANGED <<payload, sportsLeague, rosters, rosterLoads>>
    BY DEF LoadSports, leagueVars
<1>2. CASE sportsLoading \/ (payload # NoPayload /\ ~force)
    BY <1>1, <1>2 DEF LoadsPart, LoadSports, RostersHavePayload, PolledUntilReady
<1>3. CASE ~(sportsLoading \/ (payload # NoPayload /\ ~force))
    <2>1. sportsLoading' = TRUE
        BY <1>3 DEF LoadSports
    <2>2. pollTimer' \in BOOLEAN /\ attempts' \in 0 .. MaxAttempts
        BY <1>3, NoAttempts DEF LoadSports, LoadsPart
    <2> QED
        BY <1>1, <2>1, <2>2 DEF LoadsPart, RostersHavePayload, PolledUntilReady
<1> QED
    BY <1>2, <1>3

LEMMA RosterIntoPayload ==
    ASSUME NEW p \in PayloadRecord, NEW l
    PROVE  /\ WithRoster(p, l) \in PayloadRecord
           /\ WithRoster(p, l).refreshing = p.refreshing
           /\ WithRoster(p, l).error = p.error
BY DEF WithRoster, PayloadRecord

\* The answer to a load, and its failure, for the payload.
LEMMA PayloadAnswers ==
    ASSUME LoadsPart, LoadAnswers
    PROVE  LoadsPart'
<1>1. PICK events \in SUBSET Games, refreshing \in BOOLEAN :
         LET fresh == [events |-> events, refreshing |-> refreshing, error |-> FALSE,
                       leagues |-> Leagues, teams |-> {}]
         IN  /\ payload' = WithRoster(fresh, sportsLeague)
             /\ IF refreshing THEN ScheduleSportsPoll ELSE pollTimer' = FALSE /\ attempts' = 0
    BY DEF LoadAnswers
<1> DEFINE fresh == [events |-> events, refreshing |-> refreshing, error |-> FALSE,
                     leagues |-> Leagues, teams |-> {}]
<1>2. fresh \in PayloadRecord /\ fresh.refreshing = refreshing
    BY DEF PayloadRecord
<1>3. payload' = WithRoster(fresh, sportsLeague)
    BY <1>1
<1> HIDE DEF fresh
<1>4. payload' \in PayloadRecord /\ payload'.refreshing = refreshing
    BY <1>2, <1>3, RosterIntoPayload
<1>5. /\ pollTimer' \in BOOLEAN
      /\ attempts' \in 0 .. MaxAttempts
      /\ refreshing => pollTimer' \/ attempts' = MaxAttempts
    <2>1. CASE ~refreshing
        BY <1>1, <2>1, NoAttempts
    <2>2. CASE refreshing /\ pollTimer
        BY <1>1, <2>2 DEF ScheduleSportsPoll, LoadsPart
    <2>3. CASE refreshing /\ ~pollTimer /\ attempts >= MaxAttempts
        <3>1. UNCHANGED <<pollTimer, attempts>>
            BY <1>1, <2>3 DEF ScheduleSportsPoll
        <3>2. attempts = MaxAttempts
            BY <2>3, SportsAssumption DEF LoadsPart
        <3> QED
            BY <3>1, <3>2 DEF LoadsPart
    <2>4. CASE refreshing /\ ~pollTimer /\ ~(attempts >= MaxAttempts)
        <3>1. pollTimer' = TRUE /\ attempts' = attempts + 1
            BY <1>1, <2>4 DEF ScheduleSportsPoll
        <3>2. attempts + 1 \in 0 .. MaxAttempts
            BY <2>4, SportsAssumption DEF LoadsPart
        <3> QED
            BY <3>1, <3>2
    <2> QED
        BY <2>1, <2>2, <2>3, <2>4
<1>6. /\ sportsLoading' = FALSE
      /\ UNCHANGED <<sportsLeague, rosters>>
    BY DEF LoadAnswers, Loaded
<1>7. rosterLoads' \in [Leagues -> {"no", "current", "replaced"}]
    BY DEF LoadAnswers
<1> QED
    BY <1>4, <1>5, <1>6, <1>7 DEF LoadsPart, RostersHavePayload, PolledUntilReady

LEMMA PayloadFails ==
    ASSUME LoadsPart, LoadFails
    PROVE  LoadsPart'
<1>1. payload' \in PayloadRecord /\ payload'.error
    <2>1. CASE payload = NoPayload
        BY <2>1 DEF LoadFails, PayloadRecord
    <2>2. CASE payload # NoPayload
        BY <2>2 DEF LoadFails, PayloadRecord, LoadsPart
    <2> QED
        BY <2>1, <2>2
<1>2. /\ sportsLoading' = FALSE
      /\ UNCHANGED <<pollTimer, attempts, rosterLoads, sportsLeague, rosters>>
    BY DEF LoadFails, Loaded
<1> QED
    BY <1>1, <1>2 DEF LoadsPart, RostersHavePayload, PolledUntilReady

\* ... and for the page.
LEMMA PageAfterLoad ==
    ASSUME PagePart, Loaded
    PROVE  PagePart'
BY Rendering, PageStays DEF Loaded, PagePart

LEMMA LeagueOpens ==
    ASSUME LoadsPart, OpenSportsLeague
    PROVE  LoadsPart'
<1>1. PICK l \in Leagues :
         /\ sportsLeague' = l
         /\ LoadSportsLeagueTeams(l)
         /\ payload' = IF payload = NoPayload THEN payload ELSE WithRoster(payload, l)
    BY DEF OpenSportsLeague
<1>2. UNCHANGED <<sportsLoading, pollTimer, attempts, rosters>>
    BY DEF OpenSportsLeague
<1>3. CASE payload = NoPayload
    BY <1>1, <1>2, <1>3
       DEF LoadsPart, RostersHavePayload, PolledUntilReady, LoadSportsLeagueTeams
<1>4. CASE payload # NoPayload
    <2>1. payload \in PayloadRecord
        BY <1>4 DEF LoadsPart
    <2>2. /\ payload' \in PayloadRecord
          /\ payload'.refreshing = payload.refreshing
          /\ payload'.error = payload.error
        BY <1>1, <1>4, <2>1, RosterIntoPayload
    <2>3. rosterLoads' \in [Leagues -> {"no", "current", "replaced"}]
        BY <1>1 DEF LoadSportsLeagueTeams, LoadsPart
    <2> QED
        BY <1>1, <1>2, <1>4, <2>2, <2>3 DEF LoadsPart, RostersHavePayload, PolledUntilReady
<1> QED
    BY <1>3, <1>4

LEMMA RosterComes ==
    ASSUME LoadsPart, RosterAnswers
    PROVE  LoadsPart'
<1>1. PICK l \in Leagues, ok \in BOOLEAN :
         /\ rosterLoads' = [rosterLoads EXCEPT ![l] = "no"]
         /\ rosters' = IF ok THEN rosters \cup {l} ELSE rosters
         /\ payload' = IF ok /\ rosterLoads[l] = "current"
                       THEN [payload EXCEPT !.teams = @ \cup {l}] ELSE payload
         /\ UNCHANGED <<sportsLoading, pollTimer, attempts, sportsLeague>>
    BY DEF RosterAnswers
<1>2. /\ rosterLoads' \in [Leagues -> {"no", "current", "replaced"}]
      /\ \A m \in Leagues : rosterLoads'[m] = "current" => rosterLoads[m] = "current"
    BY <1>1 DEF LoadsPart
<1>3. CASE ok /\ rosterLoads[l] = "current"
    <2>1. payload \in PayloadRecord
        BY <1>3 DEF LoadsPart, RostersHavePayload
    <2>2. /\ payload' \in PayloadRecord
          /\ payload'.refreshing = payload.refreshing
          /\ payload'.error = payload.error
        BY <1>1, <1>3, <2>1 DEF PayloadRecord
    <2>3. payload # NoPayload
        BY <2>1, SportsAssumption DEF PayloadRecord
    <2> QED
        BY <1>1, <1>2, <2>2, <2>3 DEF LoadsPart, RostersHavePayload, PolledUntilReady
<1>4. CASE ~(ok /\ rosterLoads[l] = "current")
    <2>1. payload' = payload
        BY <1>1, <1>4
    <2> QED
        BY <1>1, <1>2, <2>1 DEF LoadsPart, RostersHavePayload, PolledUntilReady
<1> QED
    BY <1>3, <1>4

\* A poll falls due: the load that it starts takes its place.
LEMMA PollEnds ==
    ASSUME SportsInv, PollTimer
    PROVE  SportsInv'
<1>1. LoadsPart'
    BY SportsParts DEF PollTimer, leagueVars, LoadsPart, RostersHavePayload, PolledUntilReady
<1>2. PagePart'
    BY SportsParts, PageStays DEF PollTimer
<1> QED
    BY <1>1, <1>2, SportsParts

\* The answer about a game's stats, whichever game is open by now.
LEMMA StatsCome ==
    ASSUME PagePart, StatsAnswer
    PROVE  PagePart'
<1>1. PICK g \in Games, ok \in BOOLEAN, completed \in BOOLEAN :
         /\ asked[g] > 0
         /\ asked' = [asked EXCEPT ![g] = @ - 1]
         /\ stats' = IF stats.id # g THEN stats
                     ELSE LET over == IF ok THEN completed ELSE stats.completed
                          IN [stats EXCEPT !.data = g, !.completed = over, !.loading = FALSE,
                                           !.fresh = TRUE,
                                           !.timer = IF over THEN NoGame ELSE g]
    BY DEF StatsAnswer
<1>2. UNCHANGED <<sportsView, sportsTab, selected>>
    BY DEF StatsAnswer
<1>3. asked' \in [Games -> Nat] /\ \A h \in Games : h # g => asked'[h] = asked[h]
    BY <1>1 DEF PagePart, StatsPart
<1>4. CASE stats.id # g
    BY <1>1, <1>2, <1>3, <1>4 DEF PagePart, StatsPart, InOrder, StatsKeepComing
<1>5. CASE stats.id = g
    <2> DEFINE over == IF ok THEN completed ELSE stats.completed
    <2>1. over \in BOOLEAN /\ g \in GameOrNone /\ NoGame \in GameOrNone
        BY DEF PagePart, StatsPart, StatsRecord, GameOrNone
    <2>2. stats' = [stats EXCEPT !.data = g, !.completed = over, !.loading = FALSE,
                                 !.fresh = TRUE, !.timer = IF over THEN NoGame ELSE g]
        BY <1>1, <1>5
    <2> HIDE DEF over
    <2>3. /\ stats' \in StatsRecord
          /\ stats'.id = g /\ stats'.data = g
          /\ stats'.loading = FALSE
          /\ stats'.completed = over
          /\ stats'.timer = IF over THEN NoGame ELSE g
        BY <1>5, <2>1, <2>2 DEF PagePart, StatsPart, StatsRecord
    <2> QED
        BY <1>2, <1>3, <1>5, <2>1, <2>3 DEF PagePart, StatsPart, InOrder, StatsKeepComing
<1> QED
    BY <1>4, <1>5

\* Thirty seconds after an answer.
LEMMA StatsFallDue ==
    ASSUME PagePart, StatsTimer
    PROVE  PagePart'
<1> DEFINE due == [stats EXCEPT !.fresh = FALSE, !.timer = NoGame]
           looked == sportsView /\ selected = stats.timer
<1>1. PICK documentHidden \in BOOLEAN :
         IF looked /\ ~documentHidden /\ sportsTab # "replays"
         THEN SyncSportsGameStats(due.id, due)
         ELSE /\ stats' = IF looked /\ documentHidden THEN [stats EXCEPT !.fresh = FALSE] ELSE due
              /\ UNCHANGED asked
    BY DEF StatsTimer
<1>2. UNCHANGED <<sportsView, sportsTab, selected>> /\ stats.timer # NoGame
    BY DEF StatsTimer
<1>3. /\ due \in StatsRecord
      /\ due.id = stats.id /\ due.data = stats.data /\ due.loading = stats.loading
      /\ due.completed = stats.completed /\ due.fresh = FALSE /\ due.timer = NoGame
    BY DEF PagePart, StatsPart, StatsRecord, GameOrNone
<1> HIDE DEF due
<1>4. InOrder(due, asked) /\ stats.timer = stats.id
    BY <1>2, <1>3 DEF PagePart, StatsPart, InOrder
<1>5. CASE looked /\ ~documentHidden /\ sportsTab # "replays"
    BY <1>1, <1>2, <1>3, <1>4, <1>5, Syncing DEF PagePart, StatsPart, StatsKeepComing
<1>6. CASE looked /\ documentHidden
    <2>1. stats' = [stats EXCEPT !.fresh = FALSE] /\ asked' = asked
        BY <1>1, <1>6
    <2>2. /\ stats' \in StatsRecord
          /\ stats'.id = stats.id /\ stats'.data = stats.data /\ stats'.loading = stats.loading
          /\ stats'.completed = stats.completed /\ stats'.fresh = FALSE
          /\ stats'.timer = stats.timer
        BY <2>1 DEF PagePart, StatsPart, StatsRecord
    <2> QED
        BY <1>2, <2>1, <2>2 DEF PagePart, StatsPart, InOrder, StatsKeepComing
<1>7. CASE (~looked \/ sportsTab = "replays") /\ ~(looked /\ documentHidden)
    <2>1. stats' = due /\ asked' = asked
        BY <1>1, <1>7
    <2> QED
        BY <1>2, <1>3, <1>4, <1>7, <2>1 DEF PagePart, StatsPart, StatsKeepComing
<1> QED
    BY <1>5, <1>6, <1>7

LEMMA StatsGrowOld ==
    ASSUME PagePart, StatsAge
    PROVE  PagePart'
<1>1. /\ stats' = [stats EXCEPT !.fresh = FALSE]
      /\ UNCHANGED <<sportsView, sportsTab, selected, asked>>
    BY DEF StatsAge
<1>2. /\ stats' \in StatsRecord
      /\ stats'.id = stats.id /\ stats'.data = stats.data /\ stats'.loading = stats.loading
      /\ stats'.completed = stats.completed /\ stats'.fresh = FALSE
      /\ stats'.timer = stats.timer
    BY <1>1 DEF PagePart, StatsPart, StatsRecord
<1> QED
    BY <1>1, <1>2 DEF PagePart, StatsPart, InOrder, StatsKeepComing

\* What the viewer does with the page.
LEMMA PageActions ==
    ASSUME SportsInv,
           \/ ShowSports \/ LeaveSports \/ LoadElsewhere \/ RefreshScores \/ RetrySports
           \/ SetSportsTab \/ OpenSportsEvent \/ BackFromSportsDetail
    PROVE  SportsInv'
<1>1. LoadsPart /\ PagePart
    BY SportsParts
<1>2. StatsPart /\ selected \in GameOrNone /\ NoGame \in GameOrNone /\ Games \subseteq GameOrNone
    BY <1>1 DEF PagePart, GameOrNone
<1>3. TRUE \in BOOLEAN /\ FALSE \in BOOLEAN
    OBVIOUS
<1>4. LoadsPart'
    <2>1. CASE ShowSports \/ RefreshScores \/ RetrySports
        BY <1>1, <1>3, <2>1, Loading DEF ShowSports, RefreshScores, RetrySports
    <2>2. CASE LoadElsewhere
        BY <1>1, <2>2, Loading DEF LoadElsewhere
    <2>3. CASE LeaveSports \/ SetSportsTab \/ OpenSportsEvent
        BY <1>1, <2>3, LoadsStay DEF LeaveSports, SetSportsTab, OpenSportsEvent
    <2>4. CASE BackFromSportsDetail
        BY <1>1, <2>4
           DEF BackFromSportsDetail, loads, LoadsPart, RostersHavePayload, PolledUntilReady
    <2> QED
        BY <2>1, <2>2, <2>3, <2>4
<1>5. PagePart'
    <2>1. CASE ShowSports \/ RefreshScores
        BY <1>1, <1>2, <2>1, Rendering DEF ShowSports, RefreshScores, PagePart
    <2>2. CASE LoadElsewhere \/ RetrySports
        BY <1>1, <2>2, PageStays DEF LoadElsewhere, RetrySports
    <2>3. CASE LeaveSports
        BY <1>1, <2>3 DEF LeaveSports, PagePart, StatsPart, InOrder, StatsKeepComing
    <2>4. CASE SetSportsTab
        BY <1>1, <1>2, <2>4, Rendering DEF SetSportsTab, PagePart
    <2>5. CASE OpenSportsEvent
        BY <1>1, <1>2, <2>5, Rendering DEF OpenSportsEvent, PagePart, Tabs
    <2>6. CASE BackFromSportsDetail
        BY <1>1, <1>2, <2>6, Rendering DEF BackFromSportsDetail, PagePart, Tabs
    <2> QED
        BY <2>1, <2>2, <2>3, <2>4, <2>5, <2>6
<1> QED
    BY <1>4, <1>5, SportsParts

\* What comes from the server.
LEMMA PageAnswers ==
    ASSUME SportsInv,
           \/ LoadAnswers \/ LoadFails \/ OpenSportsLeague \/ RosterAnswers
           \/ StatsAnswer \/ StatsTimer \/ StatsAge
    PROVE  SportsInv'
<1>1. LoadsPart /\ PagePart
    BY SportsParts
<1>2. StatsPart /\ selected \in GameOrNone /\ NoGame \in GameOrNone
    BY <1>1 DEF PagePart, GameOrNone
<1>3. CASE LoadAnswers
    BY <1>1, <1>3, PayloadAnswers, PageAfterLoad, SportsParts DEF LoadAnswers
<1>4. CASE LoadFails
    BY <1>1, <1>4, PayloadFails, PageAfterLoad, SportsParts DEF LoadFails
<1>5. CASE OpenSportsLeague
    <2>1. PagePart'
        BY <1>1, <1>2, <1>5, Rendering DEF OpenSportsLeague, PagePart
    <2> QED
        BY <1>1, <1>5, <2>1, LeagueOpens, SportsParts
<1>6. CASE RosterAnswers
    <2>1. /\ UNCHANGED <<sportsView, sportsTab>>
          /\ RenderSportsPage(selected) \/ UNCHANGED <<selected, stats, asked>>
        BY <1>6 DEF RosterAnswers
    <2>2. PagePart'
        BY <1>1, <1>2, <2>1, Rendering, PageStays DEF PagePart
    <2> QED
        BY <1>1, <1>6, <2>2, RosterComes, SportsParts
<1>7. CASE StatsAnswer
    BY <1>1, <1>7, StatsCome, LoadsStay, SportsParts DEF StatsAnswer
<1>8. CASE StatsTimer
    BY <1>1, <1>8, StatsFallDue, LoadsStay, SportsParts DEF StatsTimer
<1>9. CASE StatsAge
    BY <1>1, <1>9, StatsGrowOld, LoadsStay, SportsParts DEF StatsAge
<1> QED
    BY <1>3, <1>4, <1>5, <1>6, <1>7, <1>8, <1>9

LEMMA SportsBegins ==
    ASSUME SportsInit
    PROVE  SportsInv
<1>1. StatsPart
    BY NewStats, 0 \in Nat DEF SportsInit, StatsPart, GameOrNone
<1>2. PagePart
    BY <1>1, SportsAssumption DEF SportsInit, PagePart, Tabs, GameOrNone, StatsKeepComing
<1>3. LoadsPart
    BY NoAttempts DEF SportsInit, LoadsPart, RostersHavePayload, PolledUntilReady
<1> QED
    BY <1>2, <1>3, SportsParts

\* The invariant of the sports page.
THEOREM SportsInvariant == SportsSpec => []SportsInv
<1>1. SportsInv /\ [SportsNext]_sportsVars => SportsInv'
    <2> SUFFICES ASSUME SportsInv, [SportsNext]_sportsVars
                 PROVE  SportsInv'
        OBVIOUS
    <2>1. CASE UNCHANGED sportsVars
        BY <2>1, SportsParts, PageStays, LoadsStay DEF sportsVars, loads
    <2> QED
        BY <2>1, PageActions, PageAnswers, PollEnds DEF SportsNext
<1> QED
    BY <1>1, SportsBegins, PTL DEF SportsSpec

\* However many games, leagues and requests there are, the variables of the
\* page have the types that sports.js gives them.
THEOREM SportsTypes == SportsSpec => []SportsTypeOK
<1>1. SportsInv => SportsTypeOK
    BY DEF SportsInv
<1> QED
    BY <1>1, SportsInvariant, PTL

\* While the server prepares the scores a load runs or a poll is armed, until
\* the polls are used up (loadSports, scheduleSportsPoll), whatever the viewer,
\* the drawer and the settings ask for meanwhile.
THEOREM PollingGoesOn == SportsSpec => []PolledUntilReady
<1>1. SportsInv => PolledUntilReady
    BY DEF SportsInv
<1> QED
    BY <1>1, SportsInvariant, PTL

\* The stats of the open game are being loaded, or a timer will ask for them,
\* until it is over (syncSportsGameStats, loadSportsGameStats).  The invariant
\* adds that a timer is never one for another game.
THEOREM StatsGoOn == SportsSpec => []StatsKeepComing
<1>1. SportsInv => StatsKeepComing
    BY DEF SportsInv
<1> QED
    BY <1>1, SportsInvariant, PTL

\* The stats shown are those of the game they are shown for, in whatever order
\* any number of answers comes in, and a request is out while they load.
THEOREM StatsMatchGame == SportsSpec => []StatsAreOfTheirGame
<1>1. SportsInv => StatsAreOfTheirGame
    BY DEF SportsInv, InOrder, StatsAreOfTheirGame
<1> QED
    BY <1>1, SportsInvariant, PTL

(***************************************************************************)
(* The administrator's settings: one save at a time, and what Silo stores  *)
(* is what the plugin holds                                                *)
(***************************************************************************)
AdminSpec == AdminInit /\ [][AdminNext]_adminVars

InFlight(i) == saves[i].stage # "none"

\* At most one save is on its way, and the page says so.
OneSave ==
    /\ \A i, j \in Saves : InFlight(i) /\ InFlight(j) => i = j
    /\ saveStatus = "saving" <=> \E i \in Saves : InFlight(i)

\* Silo holds what the page shows after loading from the plugin.
SiloFollowsPlugin == saveStatus = "saved" => silo = Normalize(ReadSettings(plugin))

AdminInv ==
    /\ DOMAIN saves = Saves
    /\ \A i \in Saves : saves[i].stage \in {"none", "post", "put"}
    /\ maySave \in BOOLEAN
    /\ saveStatus = "saving" => ~maySave
    /\ OneSave
    /\ \A i \in Saves : saves[i].stage = "put" => saves[i].body = Normalize(ReadSettings(plugin))
    /\ SiloFollowsPlugin

-----------------------------------------------------------------------------
\* What draws or marks the draft: the stores and the saves stay, and while a
\* save is on its way the page says so and offers no other.
LEMMA EditsKeep ==
    ASSUME AdminInv,
           UNCHANGED <<plugin, silo, saves>>,
           saveStatus' = saveStatus \/ (saveStatus # "saving" /\ saveStatus' \in {"dirty", "idle"}),
           maySave' = maySave \/ maySave' \in {FALSE, saveStatus' # "saving"}
    PROVE  AdminInv'
<1>1. saveStatus' = "saving" <=> saveStatus = "saving"
    OBVIOUS
<1>2. saveStatus' = "saved" => saveStatus = "saved"
    OBVIOUS
<1>3. OneSave'
    BY <1>1 DEF AdminInv, OneSave, InFlight
<1>4. SiloFollowsPlugin'
    BY <1>2 DEF AdminInv, SiloFollowsPlugin
<1>5. CASE maySave' = maySave
    BY <1>1, <1>3, <1>4, <1>5 DEF AdminInv
<1>6. CASE maySave' = FALSE
    BY <1>3, <1>4, <1>6 DEF AdminInv
<1>7. CASE maySave' = (saveStatus' # "saving")
    <2>1. maySave' \in BOOLEAN /\ (saveStatus' = "saving" => ~maySave')
        BY <1>7
    <2> QED
        BY <2>1, <1>3, <1>4 DEF AdminInv
<1> QED
    BY <1>5, <1>6, <1>7

LEMMA Drawing ==
    ASSUME NEW settings_, RenderAdminPage(settings_)
    PROVE  maySave' \in {FALSE, saveStatus' # "saving"}
BY DEF RenderAdminPage, SaveButtons, Dirty

LEMMA Marking ==
    ASSUME NEW settings_, MarkDraft(settings_)
    PROVE  saveStatus' = saveStatus \/ (saveStatus # "saving" /\ saveStatus' \in {"dirty", "idle"})
BY DEF MarkDraft

LEMMA EditsDrawn ==
    ASSUME AdminInv, NEW x, NEW y, EditAndDraw(x, y)
    PROVE  AdminInv'
BY EditsKeep, Drawing, Marking DEF EditAndDraw, Edit

LEMMA EditsUndrawn ==
    ASSUME AdminInv, NEW x, Undrawn(x), saveStatus' = saveStatus \/ \E y : MarkDraft(y)
    PROVE  AdminInv'
BY EditsKeep, Marking DEF Undrawn, Edit

LEMMA SaveBegins ==
    ASSUME AdminInv, SaveSettings
    PROVE  AdminInv'
<1>1. PICK i \in Saves :
         saves' = [saves EXCEPT ![i] = [stage |-> "post", body |-> Normalize(draft)]]
    BY DEF SaveSettings
<1>2. \A j \in Saves : ~InFlight(j)
    BY DEF SaveSettings, AdminInv, OneSave
<1>3. /\ DOMAIN saves' = Saves
      /\ saves'[i].stage = "post"
      /\ \A j \in Saves : j # i => saves'[j].stage = "none"
    BY <1>1, <1>2 DEF AdminInv, InFlight
<1>4. saveStatus' = "saving" /\ ~maySave' /\ maySave' \in BOOLEAN
    BY DEF SaveSettings, RenderAdminPage, SaveButtons
<1> QED
    BY <1>3, <1>4 DEF AdminInv, OneSave, InFlight, SiloFollowsPlugin

LEMMA PluginStores ==
    ASSUME AdminInv, NEW i \in Saves, PluginAnswers(i)
    PROVE  AdminInv'
<1>1. /\ saves' = [saves EXCEPT ![i] = [stage |-> "put", body |-> draft']]
      /\ draft' = Normalize(ReadSettings(plugin'))
      /\ UNCHANGED <<saveStatus, maySave>>
    BY DEF PluginAnswers
<1>2. InFlight(i) /\ \A j \in Saves : j # i => ~InFlight(j)
    BY DEF PluginAnswers, AdminInv, OneSave, InFlight
<1>3. /\ DOMAIN saves' = Saves
      /\ saves'[i].stage = "put" /\ saves'[i].body = draft'
      /\ \A j \in Saves : j # i => saves'[j].stage = "none"
    BY <1>1, <1>2 DEF AdminInv, InFlight
<1> QED
    BY <1>1, <1>2, <1>3 DEF AdminInv, OneSave, InFlight, SiloFollowsPlugin

\* The end of a save, whether or not it succeeded.
LEMMA NoneLeft ==
    ASSUME AdminInv, NEW i \in Saves, InFlight(i), saves' = [saves EXCEPT ![i] = NoSave]
    PROVE  DOMAIN saves' = Saves /\ \A j \in Saves : saves'[j].stage = "none"
BY DEF AdminInv, OneSave, InFlight, NoSave

LEMMA SaveStops ==
    ASSUME AdminInv, NEW i \in Saves, SaveEnds(i) \/ SaveFails(i)
    PROVE  AdminInv'
<1>1. DOMAIN saves' = Saves /\ \A j \in Saves : saves'[j].stage = "none"
    BY NoneLeft DEF SaveEnds, SaveFails, InFlight
<1>2. maySave' \in BOOLEAN
    BY Drawing DEF SaveEnds, SaveFails
<1>3. CASE SaveEnds(i)
    <2>1. silo' = Normalize(ReadSettings(plugin)) /\ plugin' = plugin /\ saveStatus' = "saved"
        BY <1>3 DEF SaveEnds, AdminInv
    <2> QED
        BY <1>1, <1>2, <2>1 DEF AdminInv, OneSave, InFlight, SiloFollowsPlugin
<1>4. CASE SaveFails(i)
    <2>1. saveStatus' = "error"
        BY <1>4 DEF SaveFails
    <2> QED
        BY <1>1, <1>2, <2>1 DEF AdminInv, OneSave, InFlight, SiloFollowsPlugin
<1> QED
    BY <1>3, <1>4

LEMMA AdminEdits ==
    ASSUME AdminInv,
           \/ \E f, v : UpdateField(f, v)
           \/ \E n : TypeField(n) \/ ToggleSportsGuide(n)
           \/ \E g, p : AddAlias(g, p)
           \/ \E i : RemoveAlias(i) \/ \E p : UpdateAlias(i, p)
           \/ \E l, g, v : AddGuideRule(l, g, v) \/ RemoveGuideRule(l, g)
    PROVE  AdminInv'
<1>1. CASE \/ \E f, v : UpdateField(f, v)
           \/ \E g, p : AddAlias(g, p)
           \/ \E i : RemoveAlias(i)
           \/ \E l, g, v : AddGuideRule(l, g, v) \/ RemoveGuideRule(l, g)
    BY <1>1, EditsDrawn DEF UpdateField, AddAlias, RemoveAlias, AddGuideRule, RemoveGuideRule
<1>2. CASE \E n : TypeField(n) \/ ToggleSportsGuide(n)
    BY <1>2, EditsUndrawn DEF TypeField, ToggleSportsGuide
<1>3. CASE \E i, p : UpdateAlias(i, p)
    BY <1>3, EditsUndrawn DEF UpdateAlias
<1> QED
    BY <1>1, <1>2, <1>3

LEMMA AdminSteps ==
    ASSUME AdminInv, [AdminNext]_adminVars
    PROVE  AdminInv'
<1>1. CASE Redraw
    BY <1>1, EditsKeep, Drawing DEF Redraw
<1>2. CASE Discard
    <2>1. saveStatus # "saving"
        BY <1>2 DEF Discard, AdminInv
    <2> QED
        BY <1>2, <2>1, EditsKeep, Drawing DEF Discard
<1>3. CASE UNCHANGED adminVars
    BY <1>3, EditsKeep DEF adminVars
<1> QED
    BY <1>1, <1>2, <1>3, AdminEdits, SaveBegins, PluginStores, SaveStops DEF AdminNext

\* The invariant of the administrator's settings.
THEOREM AdminInvariant == AdminSpec => []AdminInv
<1>1. AdminInit => AdminInv
    <2> SUFFICES ASSUME AdminInit PROVE AdminInv
        OBVIOUS
    <2>1. DOMAIN saves = Saves /\ \A i \in Saves : saves[i].stage = "none"
        BY DEF AdminInit, NoSave
    <2>2. saveStatus = "idle" /\ maySave = FALSE
        BY DEF AdminInit
    <2> QED
        BY <2>1, <2>2 DEF AdminInv, OneSave, InFlight, SiloFollowsPlugin
<1>2. AdminInv /\ [AdminNext]_adminVars => AdminInv'
    BY AdminSteps
<1> QED
    BY <1>1, <1>2, PTL DEF AdminSpec

\* saveAdminCategorySettings never runs twice at a time, however the buttons
\* are drawn while a save is on its way; and when the page says that the
\* settings are saved, Silo holds what the plugin's stored settings are once
\* they are read and normalised, whatever was edited meanwhile.
THEOREM SavesAreOrdered == AdminSpec => [](OneSave /\ SiloFollowsPlugin)
<1>1. AdminInv => OneSave /\ SiloFollowsPlugin
    BY DEF AdminInv
<1> QED
    BY <1>1, AdminInvariant, PTL

(***************************************************************************)
(* Normalising settings twice: rows of event keywords first, as they are   *)
(* joined one by one                                                       *)
(***************************************************************************)
\* What has been joined of a category.
Accumulated(row) ==
    /\ row \in KeywordRow
    /\ Distinct(row.words, WordKey)
    /\ row.series => row.window \in 15 .. 360
    /\ ~row.series => row.window = 0

\* r is p and what was joined to it.
Extends(r, p) ==
    /\ r.category = p.category
    /\ \E c \in Seq(DOMAIN WordKey) : r.words = p.words \o c
    /\ p.series => r.series

LEMMA Windows ==
    ASSUME NEW n \in Nat
    PROVE  SeriesWindow(n) \in 15 .. 360 /\ (n \in 15 .. 360 => SeriesWindow(n) = n)
<1>1. CASE n = 0
    BY <1>1 DEF SeriesWindow
<1>2. CASE n \in 1 .. 14
    BY <1>2 DEF SeriesWindow
<1>3. CASE n > 360
    BY <1>3 DEF SeriesWindow
<1>4. CASE n \in 15 .. 360
    BY <1>4 DEF SeriesWindow
<1> QED
    BY <1>1, <1>2, <1>3, <1>4

LEMMA KeywordLists ==
    ASSUME NEW w \in Seq(DOMAIN WordKey)
    PROVE  /\ KeywordList(w) \in Seq(DOMAIN WordKey)
           /\ Distinct(KeywordList(w), WordKey)
           /\ w # <<>> => KeywordList(w) # <<>>
           /\ Distinct(w, WordKey) => KeywordList(w) = w
BY FirstsList, FirstsSame DEF KeywordList

LEMMA JoinedFields ==
    ASSUME NEW row \in KeywordRow, NEW next \in KeywordRow
    PROVE  /\ Joined(row, next) \in KeywordRow
           /\ Joined(row, next).category = row.category
           /\ Joined(row, next).words = KeywordList(row.words \o next.words)
           /\ Joined(row, next).series = (row.series \/ next.series)
           /\ Joined(row, next).window =
                 IF ~(row.series \/ next.series) THEN 0
                 ELSE SeriesWindow(IF next.window # 0 THEN next.window ELSE row.window)
<1> DEFINE words == KeywordList(row.words \o next.words)
           window == IF ~(row.series \/ next.series) THEN 0
                     ELSE SeriesWindow(IF next.window # 0 THEN next.window ELSE row.window)
           series == row.series \/ next.series
<1>1. words \in Seq(DOMAIN WordKey)
    <2>1. row.words \o next.words \in Seq(DOMAIN WordKey)
        BY DEF KeywordRow
    <2> QED
        BY <2>1, KeywordLists
<1>2. window \in Nat
    <2>1. row.window \in Nat /\ next.window \in Nat
        BY DEF KeywordRow
    <2>2. (IF next.window # 0 THEN next.window ELSE row.window) \in Nat
        BY <2>1
    <2>3. SeriesWindow(IF next.window # 0 THEN next.window ELSE row.window) \in 15 .. 360
        BY <2>2, Windows
    <2> QED
        BY <2>3
<1>3. series \in BOOLEAN
    OBVIOUS
<1>4. Joined(row, next) =
         [category |-> row.category, words |-> words, series |-> series, window |-> window]
    BY DEF Joined
<1> HIDE DEF words, window, series
<1>5. row.category \in DOMAIN CategoryOf
    BY DEF KeywordRow
<1>6. /\ Joined(row, next) \in KeywordRow
      /\ Joined(row, next).category = row.category
      /\ Joined(row, next).words = words
      /\ Joined(row, next).series = series
      /\ Joined(row, next).window = window
    BY <1>1, <1>2, <1>3, <1>4, <1>5 DEF KeywordRow
<1> QED
    BY <1>6 DEF words, window, series

\* Joining a row adds to what there is, and leaves it in order.
LEMMA JoinedGrows ==
    ASSUME NEW row, Accumulated(row), NEW next \in KeywordRow
    PROVE  /\ Accumulated(Joined(row, next))
           /\ Extends(Joined(row, next), row)
           /\ next.words # <<>> \/ row.words # <<>> => Joined(row, next).words # <<>>
<1>1. /\ row \in KeywordRow /\ Distinct(row.words, WordKey)
      /\ row.series \in BOOLEAN /\ next.series \in BOOLEAN
      /\ row.window \in Nat /\ next.window \in Nat
      /\ row.words \in Seq(DOMAIN WordKey) /\ next.words \in Seq(DOMAIN WordKey)
    BY DEF Accumulated, KeywordRow
<1> DEFINE both == row.words \o next.words
<1>2. both \in Seq(DOMAIN WordKey)
    BY <1>1
<1>3. next.words # <<>> \/ row.words # <<>> => both # <<>>
    <2>1. Len(both) = Len(row.words) + Len(next.words)
        BY <1>1
    <2>2. next.words # <<>> => Len(next.words) > 0
        BY <1>1
    <2>3. row.words # <<>> => Len(row.words) > 0
        BY <1>1
    <2>4. Len(row.words) \in Nat /\ Len(next.words) \in Nat
        BY <1>1
    <2> QED
        BY <2>1, <2>2, <2>3, <2>4
<1> HIDE DEF both
<1>4. /\ Joined(row, next) \in KeywordRow
      /\ Joined(row, next).category = row.category
      /\ Joined(row, next).words = KeywordList(both)
      /\ Joined(row, next).series = (row.series \/ next.series)
      /\ Joined(row, next).window =
            IF ~(row.series \/ next.series) THEN 0
            ELSE SeriesWindow(IF next.window # 0 THEN next.window ELSE row.window)
    BY <1>1, JoinedFields DEF both
<1>5. Distinct(Joined(row, next).words, WordKey) /\ (both # <<>> => Joined(row, next).words # <<>>)
    BY <1>2, <1>4, KeywordLists
<1>6. \E c \in Seq(DOMAIN WordKey) : Joined(row, next).words = row.words \o c
    <2>1. PICK c \in Seq(DOMAIN WordKey) : Firsts(Glue(row.words, next.words), WordKey) = Glue(row.words, c)
        BY <1>1, FirstsBegins
    <2>2. Joined(row, next).words = row.words \o c
        BY <1>4, <2>1 DEF KeywordList, both, Glue
    <2> QED
        BY <2>2
<1>7. Joined(row, next).series => Joined(row, next).window \in 15 .. 360
    <2>1. (IF next.window # 0 THEN next.window ELSE row.window) \in Nat
        BY <1>1
    <2>2. SeriesWindow(IF next.window # 0 THEN next.window ELSE row.window) \in 15 .. 360
        BY <2>1, Windows
    <2> QED
        BY <1>4, <2>2
<1>8. ~Joined(row, next).series => Joined(row, next).window = 0
    BY <1>4
<1>9. row.series => Joined(row, next).series
    BY <1>4
<1>10. Accumulated(Joined(row, next))
    BY <1>4, <1>5, <1>7, <1>8 DEF Accumulated
<1>11. Extends(Joined(row, next), row)
    BY <1>4, <1>6, <1>9 DEF Extends
<1> QED
    BY <1>3, <1>5, <1>10, <1>11

\* What a row was joined to joins nothing new.
LEMMA JoinedAgain ==
    ASSUME NEW p, Accumulated(p), NEW r, Accumulated(r), Extends(r, p)
    PROVE  Joined(p, r) = r
<1>1. /\ p \in KeywordRow /\ r \in KeywordRow
      /\ p.words \in Seq(DOMAIN WordKey) /\ r.words \in Seq(DOMAIN WordKey)
      /\ p.series \in BOOLEAN /\ r.series \in BOOLEAN
      /\ p.window \in Nat /\ r.window \in Nat
      /\ Distinct(r.words, WordKey)
    BY DEF Accumulated, KeywordRow
<1>2. PICK c \in Seq(DOMAIN WordKey) : r.words = p.words \o c
    BY DEF Extends
<1>3. Len(p.words) \in 0 .. Len(r.words) /\ p.words = Prefix(r.words, Len(p.words))
    <2>1. Len(p.words) \in 0 .. Len(r.words)
        BY <1>1, <1>2
    <2>2. \A i \in 1 .. Len(p.words) : p.words[i] = r.words[i]
        BY <1>1, <1>2
    <2>3. Prefix(r.words, Len(p.words)) \in Seq(DOMAIN WordKey)
        BY <1>1, <2>1, PrefixStep
    <2>4. Len(Prefix(r.words, Len(p.words))) = Len(p.words)
        BY <1>1, <2>3 DEF Prefix
    <2>5. \A i \in 1 .. Len(p.words) : p.words[i] = Prefix(r.words, Len(p.words))[i]
        BY <2>2 DEF Prefix
    <2>6. p.words = Prefix(r.words, Len(p.words))
        BY <1>1, <2>3, <2>4, <2>5, SameList
    <2> QED
        BY <2>1, <2>6
<1>4. KeywordList(p.words \o r.words) = r.words
    <2>1. Firsts(Prefix(r.words, Len(p.words)) \o r.words, WordKey) = r.words
        BY <1>1, <1>3, FirstsAgain
    <2> QED
        BY <1>3, <2>1 DEF KeywordList
<1>5. (p.series \/ r.series) = r.series
    BY <1>1 DEF Extends
<1>6. (IF ~(p.series \/ r.series) THEN 0
       ELSE SeriesWindow(IF r.window # 0 THEN r.window ELSE p.window)) = r.window
    <2>1. CASE r.series
        <3>1. r.window \in 15 .. 360
            BY <2>1 DEF Accumulated
        <3> HIDE DEF Accumulated
        <3>2. SeriesWindow(r.window) = r.window
            BY <1>1, <3>1, Windows
        <3>3. p.series \/ r.series
            BY <2>1
        <3>4. r.window # 0
            <4>1. PICK w \in 15 .. 360 : w = r.window
                BY <3>1
            <4>2. w # 0
                OBVIOUS
            <4> QED
                BY <4>1, <4>2
        <3> QED
            BY <3>2, <3>3, <3>4
    <2>2. CASE ~r.series
        BY <1>5, <2>2 DEF Accumulated
    <2> QED
        BY <2>1, <2>2
<1>7. /\ Joined(p, r) \in KeywordRow
      /\ Joined(p, r).category = r.category
      /\ Joined(p, r).words = r.words
      /\ Joined(p, r).series = r.series
      /\ Joined(p, r).window = r.window
    BY <1>1, <1>4, <1>5, <1>6, JoinedFields DEF Extends
<1> QED
    BY <1>1, <1>7 DEF KeywordRow

(***************************************************************************)
(* What is joined of a list of rows                                        *)
(***************************************************************************)
Folded(base, s) == FoldLeft(Joined, base, s)

JoinedFold(s, base, g) ==
    [u \in SUBSET (DOMAIN s) |->
        IF u = {} THEN base ELSE Joined(g[u \ {Max(u)}], s[Max(u)])]

JoinedResults(s, base) == CHOOSE g : g = JoinedFold(s, base, g)

\* The results of the fold, place by place.
JoinedRuns(base, s) ==
    {acc \in [0 .. Len(s) -> KeywordRow] :
        /\ acc[0] = base
        /\ acc[Len(s)] = Folded(base, s)
        /\ \A k \in 0 .. Len(s) : k < Len(s) => acc[k + 1] = Joined(acc[k], s[k + 1])}

LEMMA JoinedRun ==
    ASSUME NEW base \in KeywordRow, NEW s \in Seq(KeywordRow)
    PROVE  JoinedRuns(base, s) # {}
<1> DEFINE V == KeywordRow
           h == [p \in V \X KeywordRow |-> Joined(p[1], p[2])]
<1>1. PICK n \in Nat : n = Len(s)
    OBVIOUS
<1>2. PICK r \in [1 .. n -> KeywordRow] : r = s
    BY <1>1
<1>3. n = Len(s) /\ r = s
    BY <1>1, <1>2
<1>4. n \in Nat /\ r \in [1 .. n -> KeywordRow] /\ DOMAIN r = 1 .. n /\ base \in V
    OBVIOUS
<1> DEFINE f == JoinedResults(r, base)
<1>5. Folded(base, r) = f[DOMAIN r]
    BY DEF Folded, FoldLeft, MapThenFoldSet, JoinedResults, JoinedFold
<1>6. \A a \in V, x \in KeywordRow : Joined(a, x) \in V
    BY JoinedFields
<1>7. h \in [V \X KeywordRow -> V]
    BY <1>6
<1>8. \A a \in V, x \in KeywordRow : h[<<a, x>>] = Joined(a, x)
    OBVIOUS
<1> HIDE DEF h
<1>9. f = JoinedFold(r, base, f)
    <2>1. FoldsOf(V, base, h, n, r) # {}
        <3> HIDE DEF V
        <3> QED
            BY <1>4, <1>7, FoldExists
    <2>2. PICK g : g \in FoldsOf(V, base, h, n, r)
        BY <2>1
    <2>3. /\ g \in [SUBSET (1 .. n) -> V]
          /\ \A u \in SUBSET (1 .. n) :
                g[u] = IF u = {} THEN base ELSE h[<<g[u \ {Max(u)}], r[Max(u)]>>]
        BY <2>2 DEF FoldsOf
    <2>4. ASSUME NEW u \in SUBSET (1 .. n), u # {}
          PROVE  h[<<g[u \ {Max(u)}], r[Max(u)]>>] = Joined(g[u \ {Max(u)}], r[Max(u)])
        <3>1. Max(u) \in 1 .. n
            BY <1>4, <2>4, MaxOfInterval
        <3>2. r[Max(u)] \in KeywordRow /\ g[u \ {Max(u)}] \in V
            BY <1>4, <2>3, <3>1
        <3> QED
            BY <1>8, <3>2
    <2>5. g = JoinedFold(r, base, g)
        BY <1>4, <2>3, <2>4 DEF JoinedFold
    <2> QED
        BY <2>5 DEF JoinedResults
<1>10. \A u \in SUBSET (1 .. n) :
          f[u] = IF u = {} THEN base ELSE Joined(f[u \ {Max(u)}], r[Max(u)])
    <2> HIDE DEF f
    <2> QED
        BY <1>4, <1>9 DEF JoinedFold
<1> HIDE DEF f
<1>11. f[{}] = base
    BY <1>10
<1>12. ASSUME NEW u \in SUBSET (1 .. n), u # {}, f[u \ {Max(u)}] \in V
       PROVE  f[u] = h[<<f[u \ {Max(u)}], r[Max(u)]>>]
    <2>1. Max(u) \in 1 .. n
        BY <1>4, <1>12, MaxOfInterval
    <2>2. r[Max(u)] \in KeywordRow
        BY <1>4, <2>1
    <2> QED
        BY <1>8, <1>10, <1>12, <2>2
<1>13. PICK acc \in [0 .. n -> V] :
          /\ acc[0] = base
          /\ acc[n] = f[1 .. n]
          /\ \A k \in 0 .. n : k < n => acc[k + 1] = h[<<acc[k], r[k + 1]>>]
    <2> HIDE DEF V
    <2>1. Computes(f, V, base, h, n, r)
        BY <1>11, <1>12 DEF Computes
    <2>2. ResultsOf(f, V, base, h, n, r) # {}
        BY <1>4, <1>7, <2>1, FoldResults
    <2> QED
        BY <2>2 DEF ResultsOf
<1>14. ASSUME NEW k \in 0 .. n, k < n
       PROVE  acc[k + 1] = Joined(acc[k], s[k + 1])
    <2>1. k + 1 \in 1 .. n /\ r[k + 1] \in KeywordRow /\ acc[k] \in V
        BY <1>4, <1>14
    <2> QED
        BY <1>3, <1>8, <1>13, <1>14, <2>1
<1>15. acc[n] = Folded(base, s)
    BY <1>3, <1>4, <1>5, <1>13
<1>16. acc \in JoinedRuns(base, s)
    BY <1>3, <1>13, <1>14, <1>15 DEF JoinedRuns
<1> QED
    BY <1>16

\* One list after another, and a list of one row.
LEMMA FoldedOn ==
    ASSUME NEW base \in KeywordRow, NEW a \in Seq(KeywordRow), NEW b \in Seq(KeywordRow)
    PROVE  /\ Folded(base, a) \in KeywordRow
           /\ Folded(base, a \o b) = Folded(Folded(base, a), b)
<1> DEFINE s == a \o b
<1>1. PICK n \in Nat : n = Len(a)
    OBVIOUS
<1>2. PICK m \in Nat : m = Len(b)
    OBVIOUS
<1>3. /\ s \in Seq(KeywordRow) /\ Len(s) = n + m
      /\ \A k \in 0 .. n : k < n => s[k + 1] = a[k + 1]
      /\ \A k \in 0 .. m : k < m => s[(n + k) + 1] = b[k + 1]
    BY <1>1, <1>2
<1> HIDE DEF s
<1>4. PICK left \in JoinedRuns(base, a) : TRUE
    BY JoinedRun
<1>5. /\ left \in [0 .. n -> KeywordRow] /\ left[0] = base /\ left[n] = Folded(base, a)
      /\ \A k \in 0 .. n : k < n => left[k + 1] = Joined(left[k], a[k + 1])
    BY <1>1, <1>4 DEF JoinedRuns
<1>6. Folded(base, a) \in KeywordRow
    <2>1. n \in 0 .. n
        BY <1>1
    <2>2. left[n] \in KeywordRow
        BY <1>5, <2>1
    <2> QED
        BY <1>5, <2>2
<1>7. PICK acc \in JoinedRuns(base, s) : TRUE
    BY <1>3, JoinedRun
<1>8. PICK right \in JoinedRuns(Folded(base, a), b) : TRUE
    BY <1>6, JoinedRun
<1>9. /\ acc[0] = base /\ acc[n + m] = Folded(base, s)
      /\ \A k \in 0 .. n + m : k < n + m => acc[k + 1] = Joined(acc[k], s[k + 1])
    BY <1>3, <1>7 DEF JoinedRuns
<1>10. /\ right[0] = Folded(base, a) /\ right[m] = Folded(Folded(base, a), b)
       /\ \A k \in 0 .. m : k < m => right[k + 1] = Joined(right[k], b[k + 1])
    BY <1>2, <1>8 DEF JoinedRuns
<1>11. acc[n] = left[n]
    <2> DEFINE begun == [k \in 0 .. n |-> acc[k]]
    <2>1. ASSUME NEW k \in 0 .. n, k < n, begun[k] = left[k]
          PROVE  begun[k + 1] = left[k + 1]
        <3>1. k \in 0 .. n + m /\ k < n + m /\ k + 1 \in 0 .. n
            BY <1>1, <1>2, <2>1
        <3>2. acc[k + 1] = Joined(acc[k], s[k + 1])
            BY <1>9, <3>1
        <3> QED
            BY <1>3, <1>5, <2>1, <3>1, <3>2
    <2>2. begun[0] = left[0] /\ begun[n] = acc[n]
        <3>1. 0 \in 0 .. n /\ n \in 0 .. n
            BY <1>1
        <3>2. begun[0] = acc[0] /\ begun[n] = acc[n]
            BY <3>1
        <3> QED
            BY <1>5, <1>9, <3>2
    <2> HIDE DEF begun
    <2>3. \A k \in 0 .. n : begun[k] = left[k]
        <3>1. RunsAlike(n, begun, left)
            BY <2>1, <2>2 DEF RunsAlike
        <3> QED
            BY <3>1, AlikeRuns
    <2>4. n \in 0 .. n
        BY <1>1
    <2> QED
        BY <2>2, <2>3, <2>4
<1> DEFINE rest == [k \in 0 .. m |-> acc[n + k]]
<1>12. rest[0] = acc[n] /\ rest[m] = acc[n + m]
    <2>1. 0 \in 0 .. m /\ m \in 0 .. m /\ n + 0 = n
        BY <1>1, <1>2
    <2>2. rest[0] = acc[n + 0]
        BY <2>1
    <2>3. rest[m] = acc[n + m]
        BY <2>1
    <2> QED
        BY <2>1, <2>2, <2>3
<1>13. \A k \in 0 .. m : k < m /\ rest[k] = right[k] => rest[k + 1] = right[k + 1]
    <2> SUFFICES ASSUME NEW k \in 0 .. m, k < m, acc[n + k] = right[k]
                 PROVE  acc[n + (k + 1)] = right[k + 1]
        <3>1. \A k \in 0 .. m : k < m => k + 1 \in 0 .. m
            BY <1>2
        <3> QED
            BY <3>1
    <2>1. n + k \in 0 .. n + m /\ n + k < n + m /\ n + (k + 1) = (n + k) + 1
        BY <1>1, <1>2
    <2>2. acc[n + (k + 1)] = Joined(acc[n + k], s[(n + k) + 1])
        BY <1>9, <2>1
    <2> QED
        BY <1>3, <1>10, <2>2
<1> HIDE DEF rest
<1>14. rest[0] = right[0]
    BY <1>5, <1>10, <1>11, <1>12
<1>15. \A k \in 0 .. m : rest[k] = right[k]
    BY <1>13, <1>14, RunsAgree, ZenonT(60)
<1>16. rest[m] = right[m]
    <2>1. m \in 0 .. m
        BY <1>2
    <2> QED
        BY <1>15, <2>1
<1> QED
    BY <1>6, <1>9, <1>10, <1>12, <1>16 DEF s

LEMMA FoldedOne ==
    ASSUME NEW base \in KeywordRow, NEW x \in KeywordRow
    PROVE  Folded(base, <<x>>) = Joined(base, x)
<1>1. <<x>> \in Seq(KeywordRow) /\ Len(<<x>>) = 1 /\ <<x>>[1] = x
    OBVIOUS
<1>2. PICK s \in Seq(KeywordRow) : s = <<x>>
    BY <1>1
<1>3. PICK acc \in JoinedRuns(base, s) : TRUE
    BY JoinedRun
<1>4. /\ acc[0] = base /\ acc[1] = Folded(base, s)
      /\ \A k \in 0 .. 1 : k < 1 => acc[k + 1] = Joined(acc[k], s[k + 1])
    BY <1>1, <1>2, <1>3 DEF JoinedRuns
<1>5. acc[0 + 1] = Joined(acc[0], s[0 + 1])
    <2>1. 0 \in 0 .. 1 /\ 0 < 1
        OBVIOUS
    <2> QED
        BY <1>4, <2>1
<1> QED
    BY <1>1, <1>2, <1>4, <1>5

\* Joining rows adds to what there is, and leaves it in order.
LEMMA FoldedGrows ==
    ASSUME NEW base, Accumulated(base), NEW s \in Seq(KeywordRow)
    PROVE  /\ Accumulated(Folded(base, s))
           /\ Extends(Folded(base, s), base)
           /\ s # <<>> /\ (\A x \in ToSet(s) : x.words # <<>>) => Folded(base, s).words # <<>>
<1>1. PICK n \in Nat : n = Len(s)
    OBVIOUS
<1>2. base \in KeywordRow
    BY DEF Accumulated
<1>3. PICK acc \in JoinedRuns(base, s) : TRUE
    BY <1>2, JoinedRun
<1>4. /\ acc[0] = base /\ acc[n] = Folded(base, s)
      /\ \A k \in 0 .. n : k < n => acc[k + 1] = Joined(acc[k], s[k + 1])
    BY <1>1, <1>3 DEF JoinedRuns
<1> DEFINE Full == \A x \in ToSet(s) : x.words # <<>>
           T == {k \in 0 .. n : /\ Accumulated(acc[k]) /\ Extends(acc[k], base)
                                /\ (k # 0 /\ Full => acc[k].words # <<>>)}
<1>5. 0 \in T
    <2>1. base.words \o <<>> = base.words /\ <<>> \in Seq(DOMAIN WordKey)
        BY <1>2, GluedOn DEF KeywordRow
    <2>2. Extends(base, base)
        BY <2>1 DEF Extends
    <2> QED
        BY <1>1, <1>4, <2>2
<1>6. ASSUME NEW k \in 0 .. n, k < n, k \in T
      PROVE  k + 1 \in T
    <2>1. s[k + 1] \in KeywordRow /\ s[k + 1] \in ToSet(s) /\ k + 1 \in 0 .. n
        BY <1>1, <1>6 DEF ToSet
    <2>2. acc[k + 1] = Joined(acc[k], s[k + 1]) /\ Accumulated(acc[k]) /\ Extends(acc[k], base)
        BY <1>4, <1>6
    <2>3. /\ Accumulated(acc[k + 1])
          /\ Extends(acc[k + 1], acc[k])
          /\ s[k + 1].words # <<>> => acc[k + 1].words # <<>>
        BY <2>1, <2>2, JoinedGrows
    <2>4. Extends(acc[k + 1], base)
        <3>1. PICK c \in Seq(DOMAIN WordKey) : acc[k].words = base.words \o c
            BY <2>2 DEF Extends
        <3>2. PICK d \in Seq(DOMAIN WordKey) : acc[k + 1].words = acc[k].words \o d
            BY <2>3 DEF Extends
        <3>3. acc[k + 1].words = base.words \o (c \o d) /\ c \o d \in Seq(DOMAIN WordKey)
            <4>1. base.words \in Seq(DOMAIN WordKey)
                BY <1>2 DEF KeywordRow
            <4>2. Glue(Glue(base.words, c), d) = Glue(base.words, Glue(c, d))
                  /\ Glue(c, d) \in Seq(DOMAIN WordKey)
                BY <4>1, GluedTwice
            <4> QED
                BY <3>1, <3>2, <4>2 DEF Glue
        <3> QED
            BY <2>2, <2>3, <3>3 DEF Extends
    <2> HIDE DEF Full
    <2>5. Full => s[k + 1].words # <<>>
        BY <2>1 DEF Full
    <2> QED
        BY <2>1, <2>3, <2>4, <2>5
<1> HIDE DEF T
<1>7. n \in T
    <2>1. 0 .. n \subseteq T
        BY <1>5, <1>6, BoundedInduction
    <2> QED
        BY <1>1, <2>1
<1>8. s # <<>> => n # 0
    BY <1>1
<1> QED
    BY <1>4, <1>7, <1>8 DEF T

(***************************************************************************)
(* The rows of event keywords, in parts                                    *)
(***************************************************************************)
NoRowOf(c) == [category |-> c, words |-> <<>>, series |-> FALSE, window |-> 0]
OfCategory(all, c) == Only(all, {row \in ToSet(all) : row.category = c})
CategoriesIn(all) == {row.category : row \in ToSet(all)}
CategoryList(all) == Sorted(CategoriesIn(all), <)
Collected(all) ==
    [i \in DOMAIN CategoryList(all) |->
        Folded(NoRowOf(CategoryList(all)[i]), OfCategory(all, CategoryList(all)[i]))]
Supplied(rows) == [i \in DOMAIN rows |-> EventKeywordRow(rows[i])]
Further(rows) == Only(Supplied(rows), {row \in ToSet(Supplied(rows)) : row.words # <<>>})

LEMMA RowsInParts == \A rows : EventKeywordRows(rows) = Collected(DefaultKeywords \o Further(rows))
BY DEF EventKeywordRows, Collected, Folded, NoRowOf, OfCategory, CategoryList, CategoriesIn,
       Supplied, Further

\* A row that normalisation leaves alone.
Proper(row) == CategoryOf[row.category] = row.category /\ row.words # <<>>
NormalRow(row) == Accumulated(row) /\ Proper(row)

LEMMA RowsAlone ==
    ASSUME NEW row \in KeywordRow
    PROVE  /\ EventKeywordRow(row) \in KeywordRow
           /\ CategoryOf[EventKeywordRow(row).category] = EventKeywordRow(row).category
           /\ NormalRow(row) => EventKeywordRow(row) = row
<1>1. /\ row.category \in DOMAIN CategoryOf /\ row.words \in Seq(DOMAIN WordKey)
      /\ row.series \in BOOLEAN /\ row.window \in Nat
    BY DEF KeywordRow
<1> DEFINE window == IF row.series THEN SeriesWindow(row.window) ELSE 0
<1>2. window \in Nat
    <2>1. SeriesWindow(row.window) \in 15 .. 360
        BY <1>1, Windows
    <2> QED
        BY <2>1
<1>3. KeywordList(row.words) \in Seq(DOMAIN WordKey)
    BY <1>1, KeywordLists
<1>4. CategoryOf[row.category] \in DOMAIN CategoryOf
      /\ CategoryOf[CategoryOf[row.category]] = CategoryOf[row.category]
    BY <1>1, AdminSettingsConstants
<1>5. EventKeywordRow(row) =
         [category |-> CategoryOf[row.category], words |-> KeywordList(row.words),
          series |-> row.series, window |-> window]
    BY DEF EventKeywordRow
<1>6. NormalRow(row) => KeywordList(row.words) = row.words
    BY <1>1, KeywordLists DEF NormalRow, Accumulated
<1>7. NormalRow(row) => window = row.window
    <2>1. CASE row.series
        <3>1. NormalRow(row) => row.window \in 15 .. 360
            BY <2>1 DEF NormalRow, Accumulated
        <3>2. NormalRow(row) => SeriesWindow(row.window) = row.window
            BY <1>1, <3>1, Windows
        <3> QED
            BY <2>1, <3>2
    <2>2. CASE ~row.series
        BY <2>2 DEF NormalRow, Accumulated
    <2> QED
        BY <2>1, <2>2
<1> HIDE DEF window
<1>8. EventKeywordRow(row) \in KeywordRow
    BY <1>1, <1>2, <1>3, <1>4, <1>5 DEF KeywordRow
<1>9. CategoryOf[EventKeywordRow(row).category] = EventKeywordRow(row).category
    BY <1>4, <1>5
<1>10. NormalRow(row) => EventKeywordRow(row) = row
    <2> SUFFICES ASSUME NormalRow(row) PROVE EventKeywordRow(row) = row
        OBVIOUS
    <2>1. /\ EventKeywordRow(row).category = row.category
          /\ EventKeywordRow(row).words = row.words
          /\ EventKeywordRow(row).series = row.series
          /\ EventKeywordRow(row).window = row.window
        BY <1>5, <1>6, <1>7 DEF NormalRow, Proper
    <2> QED
        BY <1>8, <2>1 DEF KeywordRow
<1> QED
    BY <1>8, <1>9, <1>10

LEMMA FurtherRows ==
    ASSUME NEW rows \in Seq(KeywordRow)
    PROVE  /\ Further(rows) \in Seq(KeywordRow)
           /\ \A x \in ToSet(Further(rows)) : Proper(x)
           /\ (\A i \in DOMAIN rows : NormalRow(rows[i])) => Further(rows) = rows
<1>1. /\ Supplied(rows) \in Seq(KeywordRow)
      /\ DOMAIN Supplied(rows) = DOMAIN rows
      /\ Len(Supplied(rows)) = Len(rows)
    <2>1. DOMAIN rows = 1 .. Len(rows) /\ Len(rows) \in Nat
        OBVIOUS
    <2>2. \A i \in 1 .. Len(rows) : EventKeywordRow(rows[i]) \in KeywordRow
        BY <2>1, RowsAlone
    <2> QED
        BY <2>1, <2>2 DEF Supplied
<1>2. \A x \in ToSet(Supplied(rows)) : CategoryOf[x.category] = x.category
    <2> SUFFICES ASSUME NEW i \in DOMAIN rows
                 PROVE  CategoryOf[Supplied(rows)[i].category] = Supplied(rows)[i].category
        BY <1>1 DEF ToSet
    <2>1. rows[i] \in KeywordRow /\ Supplied(rows)[i] = EventKeywordRow(rows[i])
        BY DEF Supplied
    <2> QED
        BY <2>1, RowsAlone
<1> DEFINE full == {row \in ToSet(Supplied(rows)) : row.words # <<>>}
<1>3. Further(rows) \in Seq(KeywordRow) /\ ToSet(Further(rows)) = ToSet(Supplied(rows)) \cap full
    BY <1>1, OnlyList DEF Further
<1>4. \A x \in ToSet(Further(rows)) : Proper(x)
    BY <1>2, <1>3 DEF Proper
<1>5. ASSUME \A i \in DOMAIN rows : NormalRow(rows[i])
      PROVE  Further(rows) = rows
    <2>1. \A i \in DOMAIN rows : Supplied(rows)[i] = rows[i]
        <3> SUFFICES ASSUME NEW i \in DOMAIN rows
                     PROVE  EventKeywordRow(rows[i]) = rows[i]
            BY DEF Supplied
        <3>1. rows[i] \in KeywordRow /\ NormalRow(rows[i])
            BY <1>5
        <3> QED
            BY <3>1, RowsAlone
    <2>2. Supplied(rows) = rows
        <3>1. \A i \in 1 .. Len(Supplied(rows)) : Supplied(rows)[i] = rows[i]
            BY <1>1, <2>1
        <3> QED
            BY <1>1, <3>1, SameList
    <2>3. \A i \in DOMAIN rows : rows[i].words # <<>>
        BY <1>5 DEF NormalRow, Proper
    <2>4. ToSet(Supplied(rows)) \subseteq full
        BY <2>2, <2>3 DEF ToSet
    <2> HIDE DEF full
    <2>5. Only(Supplied(rows), full) = Supplied(rows)
        BY <1>1, <2>4, OnlyAll
    <2> QED
        BY <2>2, <2>5 DEF Further, full
<1> QED
    BY <1>3, <1>4, <1>5

LEMMA CategoryLists ==
    ASSUME NEW all \in Seq(KeywordRow)
    PROVE  /\ CategoryList(all) \in Seq(CategoriesIn(all))
           /\ CategoriesIn(all) \subseteq DOMAIN CategoryOf
           /\ IsInjective(CategoryList(all))
           /\ ToSet(CategoryList(all)) = CategoriesIn(all)
<1> DEFINE S == CategoriesIn(all)
           R == {p \in S \X S : p[1] < p[2]}
<1>1. S \subseteq DOMAIN CategoryOf /\ S \subseteq Nat
    <2>1. ToSet(all) \subseteq KeywordRow
        BY DEF ToSet
    <2>2. \A row \in KeywordRow : row.category \in DOMAIN CategoryOf
        BY DEF KeywordRow
    <2> QED
        BY <2>1, <2>2, AdminSettingsConstants DEF CategoriesIn
<1>2. IsFiniteSet(S)
    <2> DEFINE f == [i \in 1 .. Len(all) |-> all[i].category]
    <2>1. Len(all) \in Nat /\ DOMAIN all = 1 .. Len(all)
        OBVIOUS
    <2>2. \A i \in 1 .. Len(all) : all[i].category \in S
        BY <2>1 DEF ToSet, CategoriesIn
    <2>3. f \in [1 .. Len(all) -> S]
        BY <2>2
    <2>4. \A c \in S : \E i \in 1 .. Len(all) : f[i] = c
        BY <2>1 DEF ToSet, CategoriesIn
    <2> HIDE DEF f, S
    <2>5. f \in Surjection(1 .. Len(all), S)
        BY <2>3, <2>4 DEF Surjection
    <2>6. IsFiniteSet(1 .. Len(all))
        BY <2>1, FS_Interval
    <2> QED
        BY <2>5, <2>6, FS_Surjection
<1> HIDE DEF S
<1>3. StrictOrder(R, S)
    <2>1. \A x, y \in S : <<x, y>> \in R <=> x < y
        OBVIOUS
    <2>2. \A x \in S : ~(x < x)
        BY <1>1
    <2>3. \A x, y, z \in S : x < y /\ y < z => x < z
        BY <1>1
    <2> HIDE DEF R
    <2> QED
        BY <2>1, <2>2, <2>3 DEF StrictOrder
<1>4. SortedLists(S, R) # {}
    <2> HIDE DEF R
    <2> QED
        BY <1>2, <1>3, SortedExists
<1>5. PICK s \in [1 .. Cardinality(S) -> S] :
          /\ IsInjective(s)
          /\ \A i, j \in DOMAIN s : i < j => <<s[j], s[i]>> \notin R
    BY <1>4 DEF SortedLists
<1>6. \A i, j \in DOMAIN s : i < j => ~(s[j] < s[i])
    <2>1. \A i \in DOMAIN s : s[i] \in S
        BY <1>5
    <2> QED
        BY <1>5, <2>1
<1> HIDE DEF R
<1>7. /\ CategoryList(all) \in [1 .. Cardinality(S) -> S]
      /\ IsInjective(CategoryList(all))
    BY <1>5, <1>6 DEF CategoryList, Sorted, S
<1>8. CategoryList(all) \in Seq(S) /\ ToSet(CategoryList(all)) = S
    BY <1>2, <1>7, Enumerates
<1> QED
    BY <1>1, <1>7, <1>8 DEF S

AllProper(all) == \A x \in ToSet(all) : Proper(x)

LEMMA NoRowAccumulated ==
    ASSUME NEW c \in DOMAIN CategoryOf
    PROVE  Accumulated(NoRowOf(c)) /\ NoRowOf(c) \in KeywordRow
<1>1. <<>> \in Seq(DOMAIN WordKey) /\ Distinct(<<>>, WordKey)
    BY DistinctEmpty
<1>2. NoRowOf(c) \in KeywordRow
    BY <1>1 DEF NoRowOf, KeywordRow
<1> QED
    BY <1>1, <1>2 DEF NoRowOf, Accumulated

LEMMA RowsOfCategory ==
    ASSUME NEW all \in Seq(KeywordRow), NEW c
    PROVE  /\ OfCategory(all, c) \in Seq(KeywordRow)
           /\ ToSet(OfCategory(all, c)) = {row \in ToSet(all) : row.category = c}
<1> DEFINE S == {row \in ToSet(all) : row.category = c}
<1>1. S \subseteq ToSet(all)
    OBVIOUS
<1> HIDE DEF S
<1>2. Only(all, S) \in Seq(KeywordRow) /\ ToSet(Only(all, S)) = ToSet(all) \cap S
    BY OnlyList
<1> QED
    BY <1>1, <1>2 DEF OfCategory, S

LEMMA CollectedRows ==
    ASSUME NEW all \in Seq(KeywordRow), AllProper(all)
    PROVE  /\ Collected(all) \in Seq(KeywordRow)
           /\ DOMAIN Collected(all) = DOMAIN CategoryList(all)
           /\ \A i \in DOMAIN Collected(all) :
                 /\ NormalRow(Collected(all)[i])
                 /\ Collected(all)[i].category = CategoryList(all)[i]
                 /\ Collected(all)[i].category \in CategoriesIn(all)
<1> DEFINE ids == CategoryList(all)
<1>1. /\ ids \in Seq(CategoriesIn(all)) /\ CategoriesIn(all) \subseteq DOMAIN CategoryOf
      /\ DOMAIN ids = 1 .. Len(ids) /\ Len(ids) \in Nat
    <2>1. ids \in Seq(CategoriesIn(all)) /\ CategoriesIn(all) \subseteq DOMAIN CategoryOf
        BY CategoryLists
    <2> QED
        BY <2>1
<1>2. /\ DOMAIN Collected(all) = DOMAIN ids
      /\ \A i \in DOMAIN ids :
            Collected(all)[i] = Folded(NoRowOf(ids[i]), OfCategory(all, ids[i]))
    BY DEF Collected
<1> HIDE DEF ids
<1>3. ASSUME NEW i \in DOMAIN ids
      PROVE  /\ Collected(all)[i] \in KeywordRow
             /\ NormalRow(Collected(all)[i])
             /\ Collected(all)[i].category = ids[i]
             /\ ids[i] \in CategoriesIn(all)
    <2>1. ids[i] \in CategoriesIn(all) /\ ids[i] \in DOMAIN CategoryOf
        BY <1>1
    <2>2. PICK c : c = ids[i]
        OBVIOUS
    <2>3. /\ OfCategory(all, c) \in Seq(KeywordRow)
          /\ ToSet(OfCategory(all, c)) = {row \in ToSet(all) : row.category = c}
        BY RowsOfCategory
    <2>4. PICK row \in ToSet(all) : row.category = c
        BY <2>1, <2>2 DEF CategoriesIn
    <2>5. Proper(row) /\ CategoryOf[c] = c
        BY <2>4 DEF AllProper, Proper
    <2>6. OfCategory(all, c) # <<>>
        <3>1. row \in ToSet(OfCategory(all, c))
            BY <2>3, <2>4
        <3>2. PICK j \in DOMAIN OfCategory(all, c) : TRUE
            BY <3>1 DEF ToSet
        <3> QED
            BY <3>2
    <2>7. \A x \in ToSet(OfCategory(all, c)) : x.words # <<>>
        BY <2>3 DEF AllProper, Proper
    <2>8. Accumulated(NoRowOf(c))
        BY <2>1, <2>2, NoRowAccumulated
    <2> DEFINE r == Folded(NoRowOf(c), OfCategory(all, c))
    <2>9. Accumulated(r) /\ Extends(r, NoRowOf(c)) /\ r.words # <<>>
        BY <2>3, <2>6, <2>7, <2>8, FoldedGrows
    <2>10. r.category = c
        BY <2>9 DEF Extends, NoRowOf
    <2>11. Collected(all)[i] = r
        BY <1>2, <2>2
    <2> HIDE DEF r
    <2> QED
        BY <2>1, <2>2, <2>5, <2>9, <2>10, <2>11 DEF NormalRow, Proper, Accumulated
<1>4. Collected(all) \in Seq(KeywordRow)
    <2>1. Collected(all) = [i \in DOMAIN ids |-> Collected(all)[i]]
        BY DEF Collected, ids
    <2> QED
        BY <1>1, <1>3, <2>1
<1> QED
    BY <1>2, <1>3, <1>4 DEF ids

\* The rows of a category in two lists, one after the other.
LEMMA OfCategoryJoined ==
    ASSUME NEW a \in Seq(KeywordRow), NEW b \in Seq(KeywordRow), NEW c
    PROVE  OfCategory(a \o b, c) = OfCategory(a, c) \o OfCategory(b, c)
<1> DEFINE S == {row \in ToSet(a \o b) : row.category = c}
           A == {row \in ToSet(a) : row.category = c}
           B == {row \in ToSet(b) : row.category = c}
<1>1. ToSet(a \o b) = ToSet(a) \cup ToSet(b)
    BY Concatenated
<1>2. ToSet(a) \cap S = ToSet(a) \cap A /\ ToSet(b) \cap S = ToSet(b) \cap B
    BY <1>1
<1> HIDE DEF S, A, B
<1>3. Only(a, S) = Only(a, A)
    BY <1>2, OnlySame
<1>4. Only(b, S) = Only(b, B)
    BY <1>2, OnlySame
<1>5. Only(a \o b, S) = Only(a, S) \o Only(b, S)
    BY OnlyJoined
<1> QED
    BY <1>3, <1>4, <1>5 DEF OfCategory, S, A, B

\* Rows that have been collected, collected again after the first of them.
LEMMA CollectedAgain ==
    ASSUME NEW first \in Seq(KeywordRow), NEW rest \in Seq(KeywordRow), AllProper(first \o rest)
    PROVE  Collected(first \o Collected(first \o rest)) = Collected(first \o rest)
<1> DEFINE all == first \o rest
           R == Collected(all)
           again == first \o R
           ids == CategoryList(all)
<1>1. all \in Seq(KeywordRow)
    OBVIOUS
<1>2. /\ R \in Seq(KeywordRow)
      /\ DOMAIN R = DOMAIN ids
      /\ \A i \in DOMAIN R : /\ NormalRow(R[i]) /\ R[i].category = ids[i]
                             /\ R[i].category \in CategoriesIn(all)
    BY <1>1, CollectedRows
<1>3. /\ IsInjective(ids) /\ ToSet(ids) = CategoriesIn(all)
      /\ CategoriesIn(all) \subseteq DOMAIN CategoryOf
    BY <1>1, CategoryLists
<1>4. \A i \in DOMAIN R : R[i] = Folded(NoRowOf(ids[i]), OfCategory(all, ids[i]))
    BY DEF Collected
<1>5. ToSet(all) = ToSet(first) \cup ToSet(rest)
    BY Concatenated
<1> HIDE DEF all, R, ids
<1>6. again \in Seq(KeywordRow) /\ ToSet(again) = ToSet(first) \cup ToSet(R)
    BY <1>2, Concatenated
<1>7. CategoriesIn(again) = CategoriesIn(all)
    <2>1. \A x \in ToSet(R) : x.category \in CategoriesIn(all)
        BY <1>2 DEF ToSet
    <2>2. \A c \in CategoriesIn(all) : \E x \in ToSet(R) : x.category = c
        <3>1. \A c \in CategoriesIn(all) : \E i \in DOMAIN R : ids[i] = c
            BY <1>2, <1>3 DEF ToSet
        <3> QED
            BY <1>2, <3>1 DEF ToSet
    <2>3. \A x \in ToSet(first) : x.category \in CategoriesIn(all)
        BY <1>5 DEF CategoriesIn
    <2> QED
        BY <1>6, <2>1, <2>2, <2>3 DEF CategoriesIn
<1>8. CategoryList(again) = ids
    BY <1>7 DEF CategoryList, ids
<1>9. ASSUME NEW i \in DOMAIN ids
      PROVE  Folded(NoRowOf(ids[i]), OfCategory(again, ids[i])) = R[i]
    <2>1. PICK c : c = ids[i]
        OBVIOUS
    <2>2. PICK r \in KeywordRow : r = R[i]
        BY <1>2
    <2>3. c \in DOMAIN CategoryOf /\ r = Folded(NoRowOf(c), OfCategory(all, c)) /\ r.category = c
        BY <1>2, <1>3, <1>4, <2>1, <2>2
    <2> DEFINE none == NoRowOf(c)
               old == OfCategory(first, c)
               p == Folded(none, old)
    <2>4. none \in KeywordRow /\ Accumulated(none)
        BY <2>3, NoRowAccumulated
    <2>5. old \in Seq(KeywordRow) /\ OfCategory(rest, c) \in Seq(KeywordRow)
        BY RowsOfCategory
    <2>6. OfCategory(all, c) = old \o OfCategory(rest, c)
        BY OfCategoryJoined DEF all
    <2>7. OfCategory(again, c) = old \o OfCategory(R, c)
        BY <1>2, OfCategoryJoined
    <2>8. OfCategory(R, c) = <<r>>
        <3> DEFINE S == {row \in ToSet(R) : row.category = c}
        <3>1. \A j \in DOMAIN R : R[j] \in S <=> j = i
            <4>1. \A j \in DOMAIN R : R[j] \in S <=> ids[j] = ids[i]
                BY <1>2, <2>1 DEF ToSet
            <4> QED
                BY <1>2, <1>3, <4>1 DEF IsInjective
        <3>2. i \in DOMAIN R
            BY <1>2
        <3> HIDE DEF S
        <3>3. Only(R, S) = <<R[i]>>
            BY <1>2, <3>1, <3>2, OnlyOne
        <3> QED
            BY <2>2, <3>3 DEF S, OfCategory
    <2> HIDE DEF none, old
    <2>9. Accumulated(p) /\ p \in KeywordRow
        BY <2>4, <2>5, FoldedGrows DEF Accumulated
    <2>10. r = Folded(p, OfCategory(rest, c))
        BY <2>3, <2>4, <2>5, <2>6, FoldedOn DEF none
    <2>11. Accumulated(r) /\ Extends(r, p)
        BY <2>5, <2>9, <2>10, FoldedGrows
    <2>12. Folded(none, old \o <<r>>) = Folded(p, <<r>>)
        <3>1. <<r>> \in Seq(KeywordRow)
            OBVIOUS
        <3> QED
            BY <2>4, <2>5, <3>1, FoldedOn
    <2>13. Folded(p, <<r>>) = Joined(p, r)
        BY <2>9, FoldedOne
    <2>14. Joined(p, r) = r
        BY <2>9, <2>11, JoinedAgain
    <2> QED
        BY <2>1, <2>2, <2>7, <2>8, <2>12, <2>13, <2>14 DEF none
<1>10. Collected(again) = [i \in DOMAIN ids |-> Folded(NoRowOf(ids[i]), OfCategory(again, ids[i]))]
    BY <1>8 DEF Collected
<1>11. R = [i \in DOMAIN ids |-> R[i]]
    BY <1>2
<1>12. Collected(again) = R
    BY <1>9, <1>10, <1>11
<1> QED
    BY <1>12 DEF R, all

\* Normalising the rows of keywords twice changes nothing.
LEMMA KeywordRowsAgain ==
    ASSUME NEW rows \in Seq(KeywordRow)
    PROVE  /\ EventKeywordRows(rows) \in Seq(KeywordRow)
           /\ EventKeywordRows(EventKeywordRows(rows)) = EventKeywordRows(rows)
<1> DEFINE all == DefaultKeywords \o Further(rows)
           R == Collected(all)
<1>1. /\ DefaultKeywords \in Seq(KeywordRow) /\ \A x \in ToSet(DefaultKeywords) : Proper(x)
    BY AdminSettingsConstants DEF Proper
<1>2. Further(rows) \in Seq(KeywordRow) /\ \A x \in ToSet(Further(rows)) : Proper(x)
    BY FurtherRows
<1>3. all \in Seq(KeywordRow) /\ ToSet(all) = ToSet(DefaultKeywords) \cup ToSet(Further(rows))
    BY <1>1, <1>2, Concatenated
<1>4. AllProper(all)
    BY <1>1, <1>2, <1>3 DEF AllProper
<1>5. EventKeywordRows(rows) = R
    BY RowsInParts
<1>6. R \in Seq(KeywordRow) /\ \A i \in DOMAIN R : NormalRow(R[i])
    BY <1>3, <1>4, CollectedRows
<1>7. Collected(DefaultKeywords \o R) = R
    BY <1>1, <1>2, <1>4, CollectedAgain
<1> HIDE DEF R, all
<1>8. Further(R) = R
    BY <1>6, FurtherRows
<1>9. EventKeywordRows(R) = R
    BY <1>7, <1>8, RowsInParts
<1> QED
    BY <1>5, <1>6, <1>9

LEMMA AliasesAgain ==
    ASSUME NEW rows \in Seq(AliasRow)
    PROVE  /\ CategoryAliases(rows) \in Seq(AliasRow)
           /\ CategoryAliases(CategoryAliases(rows)) = CategoryAliases(rows)
<1> DEFINE V == {row \in ToSet(rows) : row.from # "" /\ row.to # ""}
           key == [row \in ToSet(rows) |-> row]
           whole == Only(rows, V)
           F == Firsts(whole, key)
           W == {row \in ToSet(F) : row.from # "" /\ row.to # ""}
           again == [row \in ToSet(F) |-> row]
<1>1. whole \in Seq(AliasRow) /\ ToSet(whole) = V
    <2>1. V \subseteq ToSet(rows)
        OBVIOUS
    <2> HIDE DEF V
    <2>2. Only(rows, V) \in Seq(AliasRow) /\ ToSet(Only(rows, V)) = ToSet(rows) \cap V
        BY OnlyList
    <2> QED
        BY <2>1, <2>2
<1>2. CategoryAliases(rows) = F
    BY DEF CategoryAliases
<1>3. \A x \in V : key[x] = x
    OBVIOUS
<1>4. \A x \in V : x.from # "" /\ x.to # ""
    OBVIOUS
<1> HIDE DEF whole, key
<1>5. whole \in Seq(V)
    <2>1. \A i \in DOMAIN whole : whole[i] \in V
        BY <1>1 DEF ToSet
    <2> HIDE DEF V
    <2> QED
        BY <1>1, <2>1
<1>6. F \in Seq(V) /\ F \in Seq(AliasRow) /\ Distinct(F, key)
    <2> HIDE DEF V
    <2> QED
        BY <1>1, <1>5, FirstsList
<1> HIDE DEF F
<1>7. \A i \in DOMAIN F : F[i] \in V
    <2> HIDE DEF V
    <2> QED
        BY <1>6
<1>8. \A i, j \in DOMAIN F : F[i] = F[j] => i = j
    BY <1>3, <1>6, <1>7 DEF Distinct
<1>9. Distinct(F, again)
    <2>1. \A i \in DOMAIN F : again[F[i]] = F[i]
        BY DEF ToSet
    <2> HIDE DEF again
    <2> QED
        BY <1>8, <2>1 DEF Distinct
<1>10. ToSet(F) \subseteq W
    BY <1>4, <1>7 DEF ToSet
<1>11. CategoryAliases(F) = Firsts(Only(F, W), again)
    BY DEF CategoryAliases
<1> HIDE DEF V, W, again
<1>12. Only(F, W) = F
    BY <1>6, <1>10, OnlyAll
<1>13. Firsts(F, again) = F
    BY <1>6, <1>9, FirstsSame
<1> QED
    BY <1>2, <1>6, <1>11, <1>12, <1>13

\* Normalised settings, in their fields.
LEMMA NormalFields ==
    ASSUME NEW s \in SettingsType
    PROVE  /\ Normalize(s) \in SettingsType
           /\ Normalize(s).mode =
                 IF \/ s.mode \in {"delimiter", "custom", "admin_delimiter"}
                    \/ Normalize(s).source = "profile_group"
                 THEN "delimiter" ELSE "normal"
           /\ Normalize(s).source = VirtualGroupSource(s.source, s.infer)
           /\ Normalize(s).infer = (Normalize(s).source # "group")
           /\ Normalize(s).flag = s.flag
           /\ Normalize(s).label = LabelSuffix(s.label) /\ Normalize(s).label <= 1
           /\ Normalize(s).aliases = CategoryAliases(s.aliases)
           /\ Normalize(s).guide = s.guide
           /\ Normalize(s).keywords = EventKeywordRows(s.keywords)
           /\ Normalize(s).extra = s.extra
<1>1. /\ s.aliases \in Seq(AliasRow) /\ s.keywords \in Seq(KeywordRow) /\ s.label \in 0 .. 2
      /\ s.flag \in BOOLEAN /\ s.extra \in Extras /\ s.guide \in SportsGuide
    BY DEF SettingsType
<1> DEFINE source == VirtualGroupSource(s.source, s.infer)
           mode == IF \/ s.mode \in {"delimiter", "custom", "admin_delimiter"}
                      \/ source = "profile_group"
                   THEN "delimiter" ELSE "normal"
           infer == source # "group"
           label == LabelSuffix(s.label)
           aliases == CategoryAliases(s.aliases)
           keywords == EventKeywordRows(s.keywords)
<1>2. source \in {"group", "group_channel", "channel", "profile_group"}
    BY DEF VirtualGroupSource
<1>3. mode \in Modes /\ source \in GroupSources /\ infer \in BOOLEAN
    BY <1>2 DEF Modes, GroupSources
<1>4. label \in 0 .. 2 /\ label <= 1
    BY <1>1 DEF LabelSuffix
<1>5. aliases \in Seq(AliasRow) /\ keywords \in Seq(KeywordRow)
    BY <1>1, AliasesAgain, KeywordRowsAgain
<1>6. Normalize(s) =
         [mode |-> mode, source |-> source, infer |-> infer, flag |-> s.flag, label |-> label,
          aliases |-> aliases, guide |-> s.guide, keywords |-> keywords, extra |-> s.extra]
    BY DEF Normalize
<1> HIDE DEF mode, source, infer, label, aliases, keywords
<1>7. Normalize(s) \in SettingsType
    BY <1>1, <1>3, <1>4, <1>5, <1>6 DEF SettingsType
<1>8. /\ Normalize(s).mode = mode
      /\ Normalize(s).source = source
      /\ Normalize(s).infer = infer
      /\ Normalize(s).flag = s.flag
      /\ Normalize(s).label = label
      /\ Normalize(s).aliases = aliases
      /\ Normalize(s).guide = s.guide
      /\ Normalize(s).keywords = keywords
      /\ Normalize(s).extra = s.extra
    BY <1>6
<1> QED
    BY <1>4, <1>7, <1>8 DEF mode, source, infer, label, aliases, keywords

\* Settings of the same fields are the same.
LEMMA SameSettings ==
    ASSUME NEW s \in SettingsType, NEW t \in SettingsType,
           s.mode = t.mode, s.source = t.source, s.infer = t.infer, s.flag = t.flag,
           s.label = t.label, s.aliases = t.aliases, s.guide = t.guide,
           s.keywords = t.keywords, s.extra = t.extra
    PROVE  s = t
BY DEF SettingsType

\* Settings with at most one "Virtual" are normalised once and for all.
LEMMA NormalAgain ==
    ASSUME NEW s \in SettingsType, s.label <= 1
    PROVE  Normalize(Normalize(s)) = Normalize(s)
<1> DEFINE t == Normalize(s)
           u == Normalize(t)
<1>1. t \in SettingsType
    BY NormalFields
<1>2. s.aliases \in Seq(AliasRow) /\ s.keywords \in Seq(KeywordRow) /\ s.label \in 0 .. 2
    BY DEF SettingsType
<1>3. /\ t.mode = (IF \/ s.mode \in {"delimiter", "custom", "admin_delimiter"}
                      \/ t.source = "profile_group"
                   THEN "delimiter" ELSE "normal")
      /\ t.source = VirtualGroupSource(s.source, s.infer)
      /\ t.infer = (t.source # "group")
      /\ t.label = LabelSuffix(s.label)
      /\ t.aliases = CategoryAliases(s.aliases)
      /\ t.keywords = EventKeywordRows(s.keywords)
    BY NormalFields
<1>4. /\ u \in SettingsType
      /\ u.mode = (IF \/ t.mode \in {"delimiter", "custom", "admin_delimiter"}
                      \/ u.source = "profile_group"
                   THEN "delimiter" ELSE "normal")
      /\ u.source = VirtualGroupSource(t.source, t.infer)
      /\ u.infer = (u.source # "group")
      /\ u.flag = t.flag
      /\ u.label = LabelSuffix(t.label)
      /\ u.aliases = CategoryAliases(t.aliases)
      /\ u.guide = t.guide
      /\ u.keywords = EventKeywordRows(t.keywords)
      /\ u.extra = t.extra
    BY <1>1, NormalFields
<1> HIDE DEF t, u
<1>5. t.source \in {"group", "group_channel", "channel", "profile_group"}
    BY <1>3 DEF VirtualGroupSource
<1>6. u.source = t.source
    BY <1>4, <1>5 DEF VirtualGroupSource
<1>7. u.infer = t.infer
    BY <1>3, <1>4, <1>6
<1>8. u.mode = t.mode
    BY <1>3, <1>4, <1>6
<1>9. u.label = t.label
    <2>1. s.label = 0 \/ s.label = 1
        BY <1>2
    <2>2. t.label = 0
        BY <1>3, <2>1 DEF LabelSuffix
    <2> QED
        BY <1>4, <2>2 DEF LabelSuffix
<1>10. u.aliases = t.aliases
    BY <1>2, <1>3, <1>4, AliasesAgain
<1>11. u.keywords = t.keywords
    BY <1>2, <1>3, <1>4, KeywordRowsAgain
<1>12. u = t
    BY <1>1, <1>4, <1>6, <1>7, <1>8, <1>9, <1>10, <1>11, SameSettings
<1> QED
    BY <1>12 DEF t, u

\* What the plugin keeps of normal settings is normal.
LEMMA AcceptedNormal ==
    ASSUME NEW s \in SettingsType, Normalize(s) = s
    PROVE  Accepted(s) \in SettingsType /\ Normalize(Accepted(s)) = Accepted(s)
<1> DEFINE t == Accepted(s)
           u == Normalize(t)
<1>1. /\ t \in SettingsType /\ t.extra = "absent"
      /\ t.mode = s.mode /\ t.source = s.source /\ t.infer = s.infer /\ t.flag = s.flag
      /\ t.label = s.label /\ t.aliases = s.aliases /\ t.guide = s.guide
      /\ t.keywords = s.keywords
    <2>1. "absent" \in Extras
        BY DEF Extras
    <2>2. t = [s EXCEPT !.extra = "absent"]
        BY DEF Accepted
    <2>3. t \in SettingsType
        BY <2>1, <2>2 DEF SettingsType
    <2>4. /\ t.extra = "absent"
          /\ t.mode = s.mode /\ t.source = s.source /\ t.infer = s.infer /\ t.flag = s.flag
          /\ t.label = s.label /\ t.aliases = s.aliases /\ t.guide = s.guide
          /\ t.keywords = s.keywords
        BY <2>2 DEF SettingsType
    <2> QED
        BY <2>3, <2>4
<1>2. /\ s.mode = (IF \/ s.mode \in {"delimiter", "custom", "admin_delimiter"}
                      \/ s.source = "profile_group"
                   THEN "delimiter" ELSE "normal")
      /\ s.source = VirtualGroupSource(s.source, s.infer)
      /\ s.infer = (s.source # "group")
      /\ s.label = LabelSuffix(s.label)
      /\ s.aliases = CategoryAliases(s.aliases)
      /\ s.keywords = EventKeywordRows(s.keywords)
    <2> DEFINE n == Normalize(s)
    <2>1. /\ n.mode = (IF \/ s.mode \in {"delimiter", "custom", "admin_delimiter"}
                          \/ n.source = "profile_group"
                       THEN "delimiter" ELSE "normal")
          /\ n.source = VirtualGroupSource(s.source, s.infer)
          /\ n.infer = (n.source # "group")
          /\ n.label = LabelSuffix(s.label)
          /\ n.aliases = CategoryAliases(s.aliases)
          /\ n.keywords = EventKeywordRows(s.keywords)
        BY NormalFields
    <2>2. n = s
        OBVIOUS
    <2> HIDE DEF n
    <2> QED
        BY <2>1, <2>2
<1> HIDE DEF t
<1>3. /\ u \in SettingsType
      /\ u.mode = (IF \/ t.mode \in {"delimiter", "custom", "admin_delimiter"}
                      \/ u.source = "profile_group"
                   THEN "delimiter" ELSE "normal")
      /\ u.source = VirtualGroupSource(t.source, t.infer)
      /\ u.infer = (u.source # "group")
      /\ u.flag = t.flag
      /\ u.label = LabelSuffix(t.label)
      /\ u.aliases = CategoryAliases(t.aliases)
      /\ u.guide = t.guide
      /\ u.keywords = EventKeywordRows(t.keywords)
      /\ u.extra = t.extra
    BY <1>1, NormalFields
<1> HIDE DEF u
<1>4. u = t
    <2>1. u.source = t.source
        BY <1>1, <1>2, <1>3
    <2>2. u.mode = t.mode /\ u.infer = t.infer
        BY <1>1, <1>2, <1>3, <2>1
    <2>3. u.label = t.label /\ u.aliases = t.aliases /\ u.keywords = t.keywords
        BY <1>1, <1>2, <1>3
    <2> QED
        BY <1>1, <1>3, <2>1, <2>2, <2>3, SameSettings
<1> QED
    BY <1>1, <1>4 DEF t, u

(***************************************************************************)
(* What the page and the stores hold is normalised                         *)
(***************************************************************************)
\* What the page and the stores hold has at most one "Virtual" left to take
\* off, and what is sent to the plugin, or has been stored with the page
\* saying so, is normalised.
Draftable(s) == s \in SettingsType /\ s.label <= 1
Normal(s) == s \in SettingsType /\ Normalize(s) = s

SettingsInv ==
    /\ Draftable(draft)
    /\ Draftable(saved)
    /\ shown \in SettingsType
    /\ plugin \in SettingsType
    /\ \A i \in Saves : InFlight(i) => Normal(saves[i].body)
    /\ saveStatus = "saved" => Normal(plugin)
    /\ \A i \in Saves : saves[i].stage = "put" => Normal(plugin)

LEMMA NormalizeKeeps ==
    ASSUME NEW s \in SettingsType
    PROVE  Draftable(Normalize(s)) /\ (s.label <= 1 => Normal(Normalize(s)))
BY NormalFields, NormalAgain DEF Draftable, Normal

LEMMA DefaultsTyped == DefaultSettings \in SettingsType /\ DefaultSettings.label = 0
<1>1. DefaultKeywords \in Seq(KeywordRow)
    BY AdminSettingsConstants
<1>2. [enabled |-> TRUE, groups |-> <<>>, overrides |-> <<>>] \in SportsGuide
    BY DEF SportsGuide
<1>3. "normal" \in Modes /\ "group" \in GroupSources /\ "absent" \in Extras
    BY DEF Modes, GroupSources, Extras
<1>4. <<>> \in Seq(AliasRow)
    OBVIOUS
<1>5. 0 \in 0 .. 2
    OBVIOUS
<1> QED
    BY <1>1, <1>2, <1>3, <1>4, <1>5 DEF DefaultSettings, SettingsType

LEMMA ReadTyped ==
    ASSUME NEW s, s \in SettingsType \/ s = NoSettings
    PROVE  /\ ReadSettings(s) \in SettingsType
           /\ s \in SettingsType => ReadSettings(s) = s
BY DefaultsTyped, AdminSettingsConstants DEF ReadSettings

LEMMA DrawnTyped ==
    ASSUME NEW s \in SettingsType, RenderAdminPage(s)
    PROVE  Draftable(draft') /\ shown' \in SettingsType /\ draft' = Normalize(s)
BY NormalizeKeeps DEF RenderAdminPage, Draftable

\* One field of the settings.
LEMMA FieldTyped ==
    ASSUME NEW s \in SettingsType
    PROVE  /\ \A v \in Modes : [s EXCEPT !.mode = v] \in SettingsType
           /\ \A v \in GroupSources : [s EXCEPT !.source = v] \in SettingsType
           /\ \A v \in BOOLEAN : [s EXCEPT !.flag = v] \in SettingsType
           /\ \A v \in 0 .. 2 : [s EXCEPT !.label = v] \in SettingsType
           /\ \A v \in Extras : [s EXCEPT !.extra = v] \in SettingsType
           /\ \A v \in Seq(AliasRow) : /\ [s EXCEPT !.aliases = v] \in SettingsType
                                       /\ [s EXCEPT !.aliases = v].label = s.label
           /\ \A v \in SportsGuide : /\ [s EXCEPT !.guide = v] \in SettingsType
                                     /\ [s EXCEPT !.guide = v].label = s.label
<1>1. \A v \in Modes : [s EXCEPT !.mode = v] \in SettingsType
    BY DEF SettingsType
<1>2. \A v \in GroupSources : [s EXCEPT !.source = v] \in SettingsType
    BY DEF SettingsType
<1>3. \A v \in BOOLEAN : [s EXCEPT !.flag = v] \in SettingsType
    BY DEF SettingsType
<1>4. \A v \in 0 .. 2 : [s EXCEPT !.label = v] \in SettingsType
    BY DEF SettingsType
<1>5. \A v \in Extras : [s EXCEPT !.extra = v] \in SettingsType
    BY DEF SettingsType
<1>6. \A v \in Seq(AliasRow) : /\ [s EXCEPT !.aliases = v] \in SettingsType
                               /\ [s EXCEPT !.aliases = v].label = s.label
    BY DEF SettingsType
<1>7. \A v \in SportsGuide : /\ [s EXCEPT !.guide = v] \in SettingsType
                             /\ [s EXCEPT !.guide = v].label = s.label
    BY DEF SettingsType
<1> QED
    BY <1>1, <1>2, <1>3, <1>4, <1>5, <1>6, <1>7

LEMMA RemovedTyped ==
    ASSUME NEW C, NEW s \in Seq(C), NEW i \in DOMAIN s
    PROVE  RemoveAt(s, i) \in Seq(C)
<1>1. SubSeq(s, 1, i - 1) \in Seq(C) /\ SubSeq(s, i + 1, Len(s)) \in Seq(C)
    <2>1. Len(s) \in Nat /\ i \in 1 .. Len(s) /\ \A j \in 1 .. Len(s) : s[j] \in C
        OBVIOUS
    <2> QED
        BY <2>1
<1> QED
    BY <1>1, Concatenated DEF RemoveAt

-----------------------------------------------------------------------------
\* The administrator's edits leave the stores and what has been saved.
LEMMA EditsTyped ==
    ASSUME SettingsInv, UNCHANGED <<saved, plugin, saves>>,
           saveStatus' = "saved" => saveStatus = "saved",
           Draftable(draft'), shown' \in SettingsType
    PROVE  SettingsInv'
BY DEF SettingsInv, InFlight, Draftable, Normal

LEMMA EditsDrawnTyped ==
    ASSUME SettingsInv, NEW s \in SettingsType, NEW m, EditAndDraw(s, m)
    PROVE  SettingsInv'
<1>1. Draftable(draft') /\ shown' \in SettingsType
    BY DrawnTyped DEF EditAndDraw
<1>2. saveStatus' = "saved" => saveStatus = "saved"
    BY Marking DEF EditAndDraw
<1>3. UNCHANGED <<saved, plugin, saves>>
    BY DEF EditAndDraw, Edit
<1> QED
    BY <1>1, <1>2, <1>3, EditsTyped

LEMMA EditsUndrawnTyped ==
    ASSUME SettingsInv, NEW s, Draftable(s), Undrawn(s),
           saveStatus' = saveStatus \/ \E m : MarkDraft(m)
    PROVE  SettingsInv'
<1>1. Draftable(draft') /\ shown' \in SettingsType
    BY DEF Undrawn, SettingsInv
<1>2. saveStatus' = "saved" => saveStatus = "saved"
    BY Marking
<1>3. UNCHANGED <<saved, plugin, saves>>
    BY DEF Undrawn, Edit
<1> QED
    BY <1>1, <1>2, <1>3, EditsTyped

LEMMA FieldsTyped ==
    ASSUME SettingsInv,
           \/ \E on \in BOOLEAN : UpdateField("flag", on)
           \/ \E v \in {"normal", "delimiter"} : UpdateField("mode", v)
           \/ \E v \in {"group", "group_channel", "channel"} : UpdateField("source", v)
           \/ \E n \in 0 .. 2 : UpdateField("label", n)
    PROVE  SettingsInv'
<1>1. draft \in SettingsType
    BY DEF SettingsInv, Draftable
<1>2. ASSUME NEW s \in SettingsType, EditAndDraw(Normalize(s), Normalize(s))
      PROVE  SettingsInv'
    BY <1>2, NormalFields, EditsDrawnTyped
<1>3. CASE \E on \in BOOLEAN : UpdateField("flag", on)
    <2>1. PICK on \in BOOLEAN : UpdateField("flag", on)
        BY <1>3
    <2>2. [draft EXCEPT !.flag = on] \in SettingsType
        BY <1>1, FieldTyped
    <2> QED
        BY <1>2, <2>1, <2>2 DEF UpdateField
<1>4. CASE \E v \in {"normal", "delimiter"} : UpdateField("mode", v)
    <2>1. PICK v \in Modes : UpdateField("mode", v)
        BY <1>4 DEF Modes
    <2>2. [draft EXCEPT !.mode = v] \in SettingsType
        BY <1>1, FieldTyped
    <2> QED
        BY <1>2, <2>1, <2>2 DEF UpdateField
<1>5. CASE \E v \in {"group", "group_channel", "channel"} : UpdateField("source", v)
    <2>1. PICK v \in GroupSources : UpdateField("source", v)
        BY <1>5 DEF GroupSources
    <2>2. [draft EXCEPT !.source = v] \in SettingsType
        BY <1>1, FieldTyped
    <2> QED
        BY <1>2, <2>1, <2>2 DEF UpdateField
<1>6. CASE \E n \in 0 .. 2 : UpdateField("label", n)
    <2>1. PICK n \in 0 .. 2 : UpdateField("label", n)
        BY <1>6
    <2>2. [draft EXCEPT !.label = n] \in SettingsType
        BY <1>1, FieldTyped
    <2> QED
        BY <1>2, <2>1, <2>2 DEF UpdateField
<1> QED
    BY <1>3, <1>4, <1>5, <1>6

LEMMA TypingTyped ==
    ASSUME SettingsInv, NEW n \in 0 .. 2, TypeField(n)
    PROVE  SettingsInv'
<1>1. draft \in SettingsType
    BY DEF SettingsInv, Draftable
<1>2. [draft EXCEPT !.label = n] \in SettingsType
    BY <1>1, FieldTyped
<1>3. Draftable(Normalize([draft EXCEPT !.label = n]))
    BY <1>2, NormalizeKeeps
<1> QED
    BY <1>3, EditsUndrawnTyped DEF TypeField

LEMMA ToggleTyped ==
    ASSUME SettingsInv, NEW on \in BOOLEAN, ToggleSportsGuide(on)
    PROVE  SettingsInv'
<1>1. draft \in SettingsType
    BY DEF SettingsInv, Draftable
<1> DEFINE extra == IF on THEN "on" ELSE "off"
           s == [draft EXCEPT !.extra = extra]
           t == Normalize(s)
           u == [t EXCEPT !.guide.enabled = on]
<1>2. extra \in Extras
    BY DEF Extras
<1> HIDE DEF extra
<1>3. s \in SettingsType
    BY <1>1, <1>2, FieldTyped
<1> HIDE DEF s
<1>4. t \in SettingsType /\ t.label <= 1
    BY <1>3, NormalFields
<1> HIDE DEF t
<1>5. [t.guide EXCEPT !.enabled = on] \in SportsGuide
    BY <1>4 DEF SettingsType, SportsGuide
<1>6. u = [t EXCEPT !.guide = [t.guide EXCEPT !.enabled = on]]
    OBVIOUS
<1>7. u \in SettingsType /\ u.label = t.label
    BY <1>4, <1>5, <1>6, FieldTyped
<1>8. Undrawn(u) /\ MarkDraft(u)
    BY DEF ToggleSportsGuide, t, s, extra
<1> HIDE DEF u
<1>9. Draftable(u)
    BY <1>4, <1>7 DEF Draftable
<1> QED
    BY <1>8, <1>9, EditsUndrawnTyped

LEMMA DraftFacts ==
    ASSUME SettingsInv
    PROVE  /\ draft \in SettingsType
           /\ draft.label <= 1
           /\ draft.aliases \in Seq(AliasRow)
           /\ draft.guide \in SportsGuide
           /\ \A i \in DOMAIN shown.aliases : i \in Nat \ {0}
<1>1. shown.aliases \in Seq(AliasRow)
    BY DEF SettingsInv, SettingsType
<1>2. \A i \in DOMAIN shown.aliases : i \in Nat \ {0}
    BY <1>1
<1>3. draft \in SettingsType /\ draft.label <= 1
    BY DEF SettingsInv, Draftable
<1> QED
    BY <1>2, <1>3 DEF SettingsType

LEMMA AddAliasTyped ==
    ASSUME SettingsInv, NEW from \in GroupNames, NEW to \in Paths, AddAlias(from, to)
    PROVE  SettingsInv'
<1> DEFINE rows == Append(draft.aliases, [from |-> from, to |-> to])
           s == [draft EXCEPT !.aliases = CategoryAliases(rows)]
<1>1. [from |-> from, to |-> to] \in AliasRow
    BY DEF AliasRow
<1>2. rows \in Seq(AliasRow)
    BY <1>1, DraftFacts
<1>3. EditAndDraw(s, s)
    BY DEF AddAlias
<1> HIDE DEF rows
<1>4. CategoryAliases(rows) \in Seq(AliasRow)
    BY <1>2, AliasesAgain
<1>5. s \in SettingsType
    BY <1>4, DraftFacts, FieldTyped
<1> HIDE DEF s
<1> QED
    BY <1>3, <1>5, EditsDrawnTyped

LEMMA RemoveAliasTyped ==
    ASSUME SettingsInv, NEW i, RemoveAlias(i)
    PROVE  SettingsInv'
<1> DEFINE rows == IF i \in DOMAIN draft.aliases THEN RemoveAt(draft.aliases, i) ELSE draft.aliases
           s == [draft EXCEPT !.aliases = rows]
<1>1. rows \in Seq(AliasRow)
    BY DraftFacts, RemovedTyped
<1>2. EditAndDraw(Normalize(s), Normalize(s))
    BY DEF RemoveAlias
<1> HIDE DEF rows
<1>3. s \in SettingsType
    BY <1>1, DraftFacts, FieldTyped
<1> HIDE DEF s
<1>4. Normalize(s) \in SettingsType
    BY <1>3, NormalFields
<1> QED
    BY <1>2, <1>4, EditsDrawnTyped

LEMMA PaddedTyped ==
    ASSUME NEW rows \in Seq(AliasRow), NEW i \in Nat \ {0}, NEW none \in AliasRow,
           NEW path, \A row \in AliasRow : [row EXCEPT !.to = path] \in AliasRow
    PROVE  [[j \in 1 .. (IF i > Len(rows) THEN i ELSE Len(rows)) |->
                IF j \in DOMAIN rows THEN rows[j] ELSE none] EXCEPT ![i].to = path]
           \in Seq(AliasRow)
<1>1. PICK m \in Nat : m = Len(rows)
    OBVIOUS
<1>2. PICK n \in Nat : n = (IF i > m THEN i ELSE m)
    BY <1>1
<1>3. i \in 1 .. n
    BY <1>2
<1>4. PICK f \in [1 .. n -> AliasRow] : f = [j \in 1 .. n |-> IF j \in DOMAIN rows THEN rows[j] ELSE none]
    <2>1. \A j \in DOMAIN rows : rows[j] \in AliasRow
        OBVIOUS
    <2> QED
        BY <2>1
<1>5. PICK row \in AliasRow : row = f[i]
    BY <1>3, <1>4
<1>6. PICK new \in AliasRow : new = [row EXCEPT !.to = path]
    BY <1>5
<1>7. [f EXCEPT ![i] = new] \in [1 .. n -> AliasRow]
    BY <1>3, <1>4, <1>6
<1>8. [f EXCEPT ![i] = new] \in Seq(AliasRow)
    BY <1>2, <1>7
<1>9. [f EXCEPT ![i].to = path] = [f EXCEPT ![i] = new]
    BY <1>5, <1>6
<1> QED
    BY <1>1, <1>2, <1>4, <1>8, <1>9

LEMMA UpdateAliasTyped ==
    ASSUME SettingsInv, NEW i \in DOMAIN shown.aliases, NEW to \in Paths \cup {""}, UpdateAlias(i, to)
    PROVE  SettingsInv'
<1> DEFINE rows == draft.aliases
           edited == [[j \in 1 .. (IF i > Len(rows) THEN i ELSE Len(rows)) |->
                          IF j \in DOMAIN rows THEN rows[j] ELSE [from |-> "", to |-> ""]]
                         EXCEPT ![i].to = to]
           s == [draft EXCEPT !.aliases = edited]
<1>1. Undrawn(s) /\ MarkDraft(s)
    BY DEF UpdateAlias
<1>2. [from |-> "", to |-> ""] \in AliasRow
    BY DEF AliasRow
<1>3. rows \in Seq(AliasRow) /\ i \in Nat \ {0}
    BY DraftFacts
<1>4. edited \in Seq(AliasRow)
    <2>1. \A row \in AliasRow : [row EXCEPT !.to = to] \in AliasRow
        BY DEF AliasRow
    <2> QED
        BY <1>2, <1>3, <2>1, PaddedTyped
<1> HIDE DEF edited
<1>5. s \in SettingsType /\ s.label = draft.label
    BY <1>4, DraftFacts, FieldTyped
<1> HIDE DEF s
<1>6. Draftable(s)
    BY <1>5, DraftFacts DEF Draftable
<1> QED
    BY <1>1, <1>6, EditsUndrawnTyped

LEMMA RuleListed ==
    ASSUME NEW g \in SportsGuide, NEW list \in {"groups", "overrides"}, NEW rules \in Seq(GuideRule)
    PROVE  g[list] \in Seq(GuideRule) /\ [g EXCEPT ![list] = rules] \in SportsGuide
BY DEF SportsGuide

LEMMA AddRuleTyped ==
    ASSUME SettingsInv, NEW list \in {"groups", "overrides"},
           NEW g \in GroupNames, NEW v \in {"auto", "off"}, AddGuideRule(list, g, v)
    PROVE  SettingsInv'
<1> DEFINE old == draft.guide[list]
           others == {rule \in ToSet(old) : rule.key # g}
           rules == Append(Only(old, others), [key |-> g, value |-> v])
           guides == [draft.guide EXCEPT ![list] = rules]
           s == [draft EXCEPT !.guide = guides]
<1>1. old \in Seq(GuideRule)
    <2>1. <<>> \in Seq(GuideRule)
        OBVIOUS
    <2> QED
        BY <2>1, DraftFacts, RuleListed
<1>2. EditAndDraw(s, s)
    BY DEF AddGuideRule
<1> HIDE DEF old, others
<1>3. Only(old, others) \in Seq(GuideRule)
    BY <1>1, OnlyList
<1>4. [key |-> g, value |-> v] \in GuideRule
    BY DEF GuideRule
<1>5. rules \in Seq(GuideRule)
    BY <1>3, <1>4
<1> HIDE DEF rules
<1>6. guides \in SportsGuide
    BY <1>5, DraftFacts, RuleListed
<1> HIDE DEF guides
<1>7. s \in SettingsType
    BY <1>6, DraftFacts, FieldTyped
<1> HIDE DEF s
<1> QED
    BY <1>2, <1>7, EditsDrawnTyped

LEMMA RemoveRuleTyped ==
    ASSUME SettingsInv, NEW list \in {"groups", "overrides"}, NEW i, RemoveGuideRule(list, i)
    PROVE  SettingsInv'
<1> DEFINE rules == RemoveAt(draft.guide[list], i)
           guides == [draft.guide EXCEPT ![list] = rules]
           s == [draft EXCEPT !.guide = guides]
<1>1. draft.guide[list] \in Seq(GuideRule)
    <2>1. <<>> \in Seq(GuideRule)
        OBVIOUS
    <2> QED
        BY <2>1, DraftFacts, RuleListed
<1>2. i \in DOMAIN draft.guide[list] /\ EditAndDraw(s, s)
    BY DEF RemoveGuideRule
<1>3. rules \in Seq(GuideRule)
    BY <1>1, <1>2, RemovedTyped
<1> HIDE DEF rules
<1>4. guides \in SportsGuide
    BY <1>3, DraftFacts, RuleListed
<1> HIDE DEF guides
<1>5. s \in SettingsType
    BY <1>4, DraftFacts, FieldTyped
<1> HIDE DEF s
<1> QED
    BY <1>2, <1>5, EditsDrawnTyped

-----------------------------------------------------------------------------
LEMMA RedrawTyped ==
    ASSUME SettingsInv, Redraw
    PROVE  SettingsInv'
<1>1. RenderAdminPage(draft) /\ UNCHANGED <<saved, saveStatus, plugin, saves>>
    BY DEF Redraw
<1>2. Draftable(draft') /\ shown' \in SettingsType
    BY <1>1, DraftFacts, DrawnTyped
<1> QED
    BY <1>1, <1>2, EditsTyped

LEMMA DiscardTyped ==
    ASSUME SettingsInv, Discard
    PROVE  SettingsInv'
<1>1. RenderAdminPage(saved) /\ saveStatus' = "idle" /\ UNCHANGED <<saved, plugin, saves>>
    BY DEF Discard
<1>2. saved \in SettingsType
    BY DEF SettingsInv, Draftable
<1>3. Draftable(draft') /\ shown' \in SettingsType
    BY <1>1, <1>2, DrawnTyped
<1> QED
    BY <1>1, <1>3, EditsTyped

LEMMA SaveTyped ==
    ASSUME AdminInv, SettingsInv, SaveSettings
    PROVE  SettingsInv'
<1>1. PICK i \in Saves :
         saves' = [saves EXCEPT ![i] = [stage |-> "post", body |-> Normalize(draft)]]
    BY DEF SaveSettings
<1>2. \A j \in Saves : ~InFlight(j)
    BY DEF SaveSettings, AdminInv, OneSave
<1>3. Normal(Normalize(draft)) /\ Normalize(draft) \in SettingsType
    BY DraftFacts, NormalizeKeeps DEF Normal
<1>4. /\ saves'[i].stage = "post" /\ saves'[i].body = Normalize(draft)
      /\ \A j \in Saves : j # i => saves'[j].stage = "none"
    BY <1>1, <1>2 DEF AdminInv, InFlight
<1>5. /\ saveStatus' = "saving" /\ UNCHANGED <<saved, plugin>>
      /\ RenderAdminPage(Normalize(draft))
    BY DEF SaveSettings
<1>6. Draftable(draft') /\ shown' \in SettingsType
    BY <1>3, <1>5, DrawnTyped
<1>7. \A j \in Saves : InFlight(j)' => Normal(saves'[j].body)
    BY <1>3, <1>4 DEF InFlight
<1>8. \A j \in Saves : saves'[j].stage # "put"
    BY <1>4
<1>9. Draftable(saved') /\ plugin' \in SettingsType
    BY <1>5 DEF SettingsInv, Draftable
<1> HIDE DEF Normal, Draftable, InFlight
<1> QED
    BY <1>5, <1>6, <1>7, <1>8, <1>9 DEF SettingsInv, InFlight, Normal, Draftable

LEMMA PluginAnswerTyped ==
    ASSUME AdminInv, SettingsInv, NEW i \in Saves, PluginAnswers(i)
    PROVE  SettingsInv'
<1>1. /\ plugin' = Accepted(saves[i].body)
      /\ draft' = Normalize(ReadSettings(plugin'))
      /\ saves' = [saves EXCEPT ![i] = [stage |-> "put", body |-> draft']]
      /\ UNCHANGED <<saved, saveStatus, shown>>
    BY DEF PluginAnswers
<1>2. InFlight(i) /\ \A j \in Saves : j # i => ~InFlight(j)
    BY DEF PluginAnswers, AdminInv, OneSave, InFlight
<1>3. Normal(saves[i].body)
    BY <1>2 DEF SettingsInv
<1>4. Normal(plugin') /\ plugin' \in SettingsType
    BY <1>1, <1>3, AcceptedNormal DEF Normal
<1>5. draft' = plugin'
    BY <1>1, <1>4, ReadTyped DEF Normal
<1>6. plugin'.label <= 1
    BY <1>4, NormalFields DEF Normal
<1>7. /\ saves'[i].stage = "put" /\ saves'[i].body = draft'
      /\ \A j \in Saves : j # i => saves'[j].stage = "none"
    BY <1>1, <1>2 DEF AdminInv, InFlight
<1>8. \A j \in Saves : InFlight(j)' => Normal(saves'[j].body)
    BY <1>4, <1>5, <1>7 DEF InFlight
<1>9. Draftable(draft')
    BY <1>4, <1>5, <1>6 DEF Draftable
<1>10. Draftable(saved') /\ shown' \in SettingsType
    BY <1>1 DEF SettingsInv, Draftable
<1> QED
    BY <1>4, <1>8, <1>9, <1>10 DEF SettingsInv, InFlight, Normal, Draftable

LEMMA SaveEndTyped ==
    ASSUME AdminInv, SettingsInv, NEW i \in Saves, SaveEnds(i) \/ SaveFails(i)
    PROVE  SettingsInv'
<1>1. \A j \in Saves : saves'[j].stage = "none"
    BY NoneLeft DEF SaveEnds, SaveFails, InFlight
<1>2. RenderAdminPage(draft)
    BY DEF SaveEnds, SaveFails
<1>3. Draftable(draft') /\ shown' \in SettingsType
    BY <1>2, DraftFacts, DrawnTyped
<1>4. CASE SaveEnds(i)
    <2>1. saved' = draft /\ plugin' = plugin /\ saves[i].stage = "put"
        BY <1>4 DEF SaveEnds
    <2>2. Draftable(saved') /\ plugin' \in SettingsType /\ Normal(plugin')
        BY <2>1 DEF SettingsInv, Draftable, Normal
    <2> QED
        BY <1>1, <1>3, <2>2 DEF SettingsInv, InFlight, Normal, Draftable
<1>5. CASE SaveFails(i)
    <2>1. saved' = saved /\ saveStatus' = "error" /\ saves[i].stage # "none"
        BY <1>5 DEF SaveFails
    <2>2. plugin' \in {plugin, Accepted(saves[i].body)}
        BY <1>5 DEF SaveFails
    <2>3. Normal(saves[i].body)
        BY <2>1 DEF SettingsInv, InFlight
    <2>4. plugin' \in SettingsType
        <3>1. Accepted(saves[i].body) \in SettingsType
            BY <2>3, AcceptedNormal DEF Normal
        <3> QED
            BY <2>2, <3>1 DEF SettingsInv
    <2>5. Draftable(saved')
        BY <2>1 DEF SettingsInv, Draftable
    <2> QED
        BY <1>1, <1>3, <2>1, <2>4, <2>5 DEF SettingsInv, InFlight, Normal, Draftable
<1> QED
    BY <1>4, <1>5

LEMMA SettingsSteps ==
    ASSUME AdminInv, SettingsInv, [AdminNext]_adminVars
    PROVE  SettingsInv'
<1>1. CASE UNCHANGED adminVars
    <2>1. UNCHANGED <<saved, plugin, saves, saveStatus, draft, shown>>
        BY <1>1 DEF adminVars
    <2>2. Draftable(draft') /\ shown' \in SettingsType
        BY <2>1 DEF SettingsInv, Draftable
    <2> QED
        BY <2>1, <2>2, EditsTyped
<1>2. CASE \/ \E on \in BOOLEAN : UpdateField("flag", on)
           \/ \E v \in {"normal", "delimiter"} : UpdateField("mode", v)
           \/ \E v \in {"group", "group_channel", "channel"} : UpdateField("source", v)
           \/ \E n \in 0 .. 2 : UpdateField("label", n)
    BY <1>2, FieldsTyped
<1>3. CASE \/ \E on \in BOOLEAN : ToggleSportsGuide(on)
           \/ \E n \in 0 .. 2 : TypeField(n)
    BY <1>3, ToggleTyped, TypingTyped
<1>4. CASE \/ \E g \in GroupNames, p \in Paths : AddAlias(g, p)
           \/ \E i \in DOMAIN shown.aliases :
                 RemoveAlias(i) \/ \E p \in Paths \cup {""} : UpdateAlias(i, p)
    BY <1>4, AddAliasTyped, RemoveAliasTyped, UpdateAliasTyped
<1>5. CASE \E list \in {"groups", "overrides"} :
              \/ \E g \in GroupNames, v \in {"auto", "off"} : AddGuideRule(list, g, v)
              \/ \E i \in DOMAIN shown.guide[list] : RemoveGuideRule(list, i)
    BY <1>5, AddRuleTyped, RemoveRuleTyped
<1>6. CASE Redraw \/ Discard \/ SaveSettings
    BY <1>6, RedrawTyped, DiscardTyped, SaveTyped
<1>7. CASE \E i \in Saves : PluginAnswers(i) \/ SaveEnds(i) \/ SaveFails(i)
    BY <1>7, PluginAnswerTyped, SaveEndTyped
<1> QED
    BY <1>1, <1>2, <1>3, <1>4, <1>5, <1>6, <1>7 DEF AdminNext

\* The invariant of the settings themselves.
THEOREM SettingsInvariant == AdminSpec => []SettingsInv
<1>1. AdminInit => SettingsInv
    <2> SUFFICES ASSUME AdminInit PROVE SettingsInv
        OBVIOUS
    <2>1. plugin \in SettingsType /\ (LoadedWith(plugin) \/ LoadedWith(NoSettings))
        BY AdminSettingsConstants DEF AdminInit
    <2>2. ReadSettings(plugin) \in SettingsType /\ ReadSettings(NoSettings) \in SettingsType
        BY <2>1, ReadTyped
    <2>3. \E s \in SettingsType : draft = Normalize(s) /\ saved = Normalize(s) /\ shown = Normalize(s)
        BY <2>1, <2>2 DEF LoadedWith
    <2>4. Draftable(draft) /\ Draftable(saved) /\ shown \in SettingsType
        BY <2>3, NormalizeKeeps DEF Draftable
    <2>5. saveStatus = "idle" /\ \A i \in Saves : saves[i].stage = "none"
        BY DEF AdminInit, NoSave
    <2> QED
        BY <2>1, <2>4, <2>5 DEF SettingsInv, InFlight
<1>2. AdminInv /\ SettingsInv /\ [AdminNext]_adminVars => SettingsInv'
    BY SettingsSteps
<1> QED
    BY <1>1, <1>2, AdminInvariant, PTL DEF AdminSpec

\* When the page says that the settings are saved, the plugin and Silo hold the
\* same ones (saveAdminCategorySettings installs what the plugin answers, and
\* sends that on): Silo holds the plugin's settings normalised, and the plugin
\* was sent normalised ones, which normalising again leaves alone.
THEOREM BothStoresAgree == AdminSpec => []StoresAgree
<1>1. AdminInv /\ SettingsInv => StoresAgree
    <2> SUFFICES ASSUME AdminInv, SettingsInv, saveStatus = "saved"
                 PROVE  plugin = silo
        BY DEF StoresAgree
    <2>1. silo = Normalize(ReadSettings(plugin))
        BY DEF AdminInv, SiloFollowsPlugin
    <2>2. plugin \in SettingsType /\ Normalize(plugin) = plugin
        BY DEF SettingsInv, Normal
    <2> QED
        BY <2>1, <2>2, ReadTyped
<1> QED
    BY <1>1, AdminInvariant, SettingsInvariant, PTL

\* The page normalises its draft over and over (normalizeAdminCategorySettings,
\* whenever it loads, draws or sends it): from any draft there can be, a second
\* time changes nothing.
THEOREM DrawingSettles == AdminSpec => DrawingIsStable
<1>1. SettingsInv /\ SettingsInv' /\ [AdminNext]_adminVars =>
         [draft' # draft
             => \A d \in {draft, draft'} : Normalize(Normalize(d)) = Normalize(d)]_adminVars
    BY NormalAgain DEF SettingsInv, Draftable
<1> QED
    BY <1>1, SettingsInvariant, PTL DEF AdminSpec, DrawingIsStable

(***************************************************************************)
(* The lineup: two pieces of code agree on what is in a folder             *)
(***************************************************************************)
LineupSpec == LineupInit /\ [][LineupNext]_lineupVars

LineupTyped == app \in Catalogs /\ settings \in Settings

-----------------------------------------------------------------------------
LEMMA SplitWords == \A w \in Words : Split(w) \in Seq(Words)
BY LineupConstants

\* A list of words makes a path.
LEMMA PathOfWords ==
    ASSUME NEW parts \in Seq(Words)
    PROVE  Path(parts) \in Seq(Words)
<1> DEFINE split == [i \in 1 .. Len(parts) |-> Split(parts[i])]
<1>1. \A i \in 1 .. Len(parts) : Split(parts[i]) \in Seq(Words)
    <2>1. \A i \in 1 .. Len(parts) : parts[i] \in Words
        OBVIOUS
    <2> QED
        BY <2>1, SplitWords
<1>2. split \in Seq(Seq(Words))
    <2>1. Len(parts) \in Nat
        OBVIOUS
    <2> QED
        BY <1>1, <2>1
<1> HIDE DEF split
<1>3. FlattenSeq(split) \in Seq(Words)
    BY <1>2, Flattened
<1> QED
    BY <1>3 DEF Path, split

\* What follows the first n words of a path, if it has as many.
LEMMA Rest ==
    ASSUME NEW path \in Seq(Words), NEW n \in 0 .. Len(path)
    PROVE  SubSeq(path, n + 1, Len(path)) \in Seq(Words)
OBVIOUS

LEMMA AppendedPath ==
    ASSUME NEW base \in Seq(Words), NEW extra \in Seq(Words)
    PROVE  AppendVirtual(base, extra) \in Seq(Words)
<1> DEFINE repeated == {i \in 1 .. Len(extra) : \A j \in 1 .. i : Same(Last(base), extra[j])}
           n == Cardinality(repeated)
           additions == SubSeq(extra, n + 1, Len(extra))
<1>1. n \in 0 .. Len(extra)
    <2>1. Len(extra) \in Nat /\ repeated \subseteq 1 .. Len(extra)
        OBVIOUS
    <2> HIDE DEF repeated
    <2>2. IsFiniteSet(1 .. Len(extra)) /\ Cardinality(1 .. Len(extra)) = Len(extra)
        <3>1. PICK len \in Nat : len = Len(extra)
            BY <2>1
        <3>2. IsFiniteSet(1 .. len) /\ Cardinality(1 .. len) = len
            BY FS_Interval
        <3> QED
            BY <3>1, <3>2
    <2>3. IsFiniteSet(repeated) /\ Cardinality(repeated) <= Cardinality(1 .. Len(extra))
        BY <2>1, <2>2, FS_Subset
    <2>4. Cardinality(repeated) \in Nat
        BY <2>3, FS_CardinalityType
    <2> QED
        BY <2>1, <2>2, <2>3, <2>4
<1> HIDE DEF n
<1>2. additions \in Seq(Words)
    BY <1>1, Rest
<1>3. AppendUnduplicated(base, extra) = IF additions = <<>> THEN <<>> ELSE base \o additions
    BY DEF AppendUnduplicated, n
<1> HIDE DEF additions
<1>4. base \o additions \in Seq(Words) /\ base \o extra \in Seq(Words) /\ <<>> \in Seq(Words)
    BY <1>2
<1> QED
    BY <1>3, <1>4 DEF AppendVirtual

LEMMA AliasesOfWords ==
    ASSUME LineupTyped, NEW path \in Seq(Words)
    PROVE  AliasPaths(path) \subseteq Seq(Words)
<1> SUFFICES ASSUME NEW alias \in settings.aliases, IsPrefix(Path(alias.from), path)
             PROVE  Path(alias.to) \o SubSeq(path, Len(Path(alias.from)) + 1, Len(path))
                        \in Seq(Words)
    BY DEF AliasPaths
<1>1. {alias.from, alias.to} \subseteq Seq(Words)
    BY LineupConstants DEF LineupTyped
<1>2. Path(alias.from) \in Seq(Words) /\ Path(alias.to) \in Seq(Words)
    BY <1>1, PathOfWords
<1>3. Len(Path(alias.from)) \in 0 .. Len(path)
    <2>1. Len(Path(alias.from)) <= Len(path)
        BY DEF IsPrefix
    <2>2. Len(Path(alias.from)) \in Nat /\ Len(path) \in Nat
        BY <1>2
    <2> QED
        BY <2>1, <2>2
<1>4. SubSeq(path, Len(Path(alias.from)) + 1, Len(path)) \in Seq(Words)
    BY <1>3, Rest
<1> QED
    BY <1>2, <1>4

-----------------------------------------------------------------------------
\* What the proofs use of a channel.
LEMMA ChannelWords ==
    ASSUME LineupTyped, NEW c \in AllChannels
    PROVE  /\ Channel(c).name \in Seq(Words) /\ Channel(c).name # <<>>
           /\ Channel(c).category.parts \in Seq(Words)
           /\ Channel(c).profiles \subseteq Words
           /\ Roots[c] \in Words
<1>1. c \in DOMAIN app.channels
    BY DEF AllChannels
<1> QED
    BY <1>1, LineupConstants DEF LineupTyped, Channel

LEMMA WordsOfName ==
    ASSUME NEW name \in Seq(Words), Len(name) >= 2
    PROVE  name[1] \in Words /\ name[2] \in Words
OBVIOUS

LEMMA GroupPath ==
    ASSUME LineupTyped, NEW c \in AllChannels
    PROVE  /\ SourceGroupPath(c) \in Seq(Words)
           /\ ParsedCategoryPath(Channel(c).category.parts) \in Seq(Words)
<1>1. Channel(c).category.parts \in Seq(Words)
    BY ChannelWords
<1>2. Path(Channel(c).category.parts) \in Seq(Words) /\ <<>> \in Seq(Words)
    BY <1>1, PathOfWords
<1>3. ParsedCategoryPath(Channel(c).category.parts) \in Seq(Words)
    BY <1>2 DEF ParsedCategoryPath
<1> QED
    BY <1>2, <1>3 DEF SourceGroupPath

LEMMA ThreeWords ==
    ASSUME NEW x \in Words, NEW y \in Words, NEW z \in Words
    PROVE  <<x, y, z>> \in Seq(Words)
OBVIOUS

LEMMA NamePaths ==
    ASSUME LineupTyped, NEW c \in AllChannels
    PROVE  InferredPaths(c) \subseteq Seq(Words)
<1> DEFINE parts == Channel(c).name
<1>1. parts \in Seq(Words) /\ Roots[c] \in Words
    BY ChannelWords
<1> HIDE DEF parts
<1>2. CASE Len(parts) < 2
    BY <1>2 DEF InferredPaths, parts
<1>3. CASE ~ (Len(parts) < 2)
    <2>1. parts[1] \in Words /\ parts[2] \in Words
        <3>1. Len(parts) >= 2
            BY <1>1, <1>3
        <3> QED
            BY <1>1, <3>1, WordsOfName
    <2>2. Split(parts[1]) \in Seq(Words) /\ Split(parts[2]) \in Seq(Words)
        BY <2>1, LineupConstants
    <2> DEFINE base == IF parts[1] \in StateCodes THEN <<"US TV", "Locals", parts[1]>>
                       ELSE <<Roots[c]>> \o Split(parts[1])
    <2>3. base \in Seq(Words)
        <3>1. "US TV" \in Words /\ "Locals" \in Words
            BY LineupConstants
        <3>2. <<"US TV", "Locals", parts[1]>> \in Seq(Words)
            BY <2>1, <3>1, ThreeWords
        <3>3. <<Roots[c]>> \o Split(parts[1]) \in Seq(Words)
            BY <1>1, <2>2
        <3> QED
            BY <3>2, <3>3
    <2>4. InferredPaths(c) = {base, base \o Split(parts[2])}
        BY <1>3 DEF InferredPaths, parts
    <2> HIDE DEF base
    <2>5. base \o Split(parts[2]) \in Seq(Words)
        BY <2>2, <2>3
    <2> QED
        BY <2>3, <2>4, <2>5
<1> QED
    BY <1>2, <1>3

LEMMA MarketPath ==
    ASSUME LineupTyped, NEW c \in AllChannels, NEW source
    PROVE  LocalMarket(c, source) \in Seq(Words)
<1> DEFINE parts == Channel(c).name
<1>1. parts \in Seq(Words)
    BY ChannelWords
<1> HIDE DEF parts
<1>2. LocalMarket(c, source) = <<>> \/ Len(parts) >= 2
    <2>1. Len(parts) < 2 => LocalMarket(c, source) = <<>>
        BY DEF LocalMarket, parts
    <2>2. Len(parts) < 2 \/ Len(parts) >= 2
        BY <1>1
    <2> QED
        BY <2>1, <2>2
<1>3. ASSUME Len(parts) >= 2
      PROVE  LocalMarket(c, source) \in {<<>>, <<parts[1]>>, <<parts[2]>>}
    BY DEF LocalMarket, parts
<1>4. ASSUME Len(parts) >= 2
      PROVE  <<parts[1]>> \in Seq(Words) /\ <<parts[2]>> \in Seq(Words)
    <2>1. parts[1] \in Words /\ parts[2] \in Words
        BY <1>1, <1>4, WordsOfName
    <2> QED
        BY <2>1
<1>5. <<>> \in Seq(Words)
    OBVIOUS
<1> QED
    BY <1>2, <1>3, <1>4, <1>5

LEMMA ProfileFolders ==
    ASSUME LineupTyped, NEW c \in AllChannels
    PROVE  ProfileVirtualPaths(c) \subseteq Seq(Words)
<1> DEFINE source == SourceGroupPath(c)
           market == LocalMarket(c, source)
           Under1(profile, group) == AppendVirtual(profile, group)
           Under2(profile, group) ==
               AppendVirtual(IF Under1(profile, group) # <<>> THEN Under1(profile, group)
                             ELSE profile \o group, market)
           groups == {source} \cup AliasPaths(source)
<1>1. source \in Seq(Words) /\ market \in Seq(Words)
    BY GroupPath, MarketPath
<1>2. groups \subseteq Seq(Words)
    <2>1. AliasPaths(source) \subseteq Seq(Words)
        BY <1>1, AliasesOfWords
    <2> QED
        BY <1>1, <2>1
<1>3. ProfilePaths(c) \subseteq Seq(Words)
    <2>1. Channel(c).profiles \subseteq Words
        BY ChannelWords
    <2>2. \A p \in Channel(c).profiles : Split(p) \in Seq(Words)
        BY <2>1, LineupConstants
    <2> QED
        BY <2>2 DEF ProfilePaths
<1> HIDE DEF source, market
<1>4. ASSUME NEW profile \in Seq(Words), NEW group \in Seq(Words)
      PROVE  Under1(profile, group) \in Seq(Words) /\ Under2(profile, group) \in Seq(Words)
    <2>1. Under1(profile, group) \in Seq(Words)
        BY AppendedPath
    <2>2. profile \o group \in Seq(Words)
        OBVIOUS
    <2> DEFINE first == IF Under1(profile, group) # <<>> THEN Under1(profile, group)
                        ELSE profile \o group
    <2>3. first \in Seq(Words)
        BY <2>1, <2>2
    <2> HIDE DEF first
    <2>4. AppendVirtual(first, market) \in Seq(Words)
        BY <1>1, <2>3, AppendedPath
    <2> QED
        BY <2>1, <2>4 DEF first
<1>5. ProfileVirtualPaths(c) =
          UNION {{profile} \cup UNION {{Under1(profile, g), Under2(profile, g)} : g \in groups} :
                    profile \in ProfilePaths(c)}
    BY DEF ProfileVirtualPaths, source, market
<1> HIDE DEF Under1, Under2, groups
<1> QED
    BY <1>2, <1>3, <1>4, <1>5

\* Every path under which a channel is filed is a list of words.
LEMMA PathsAreLists ==
    ASSUME LineupTyped, NEW c \in AllChannels, NEW kind
    PROVE  PathsOf(kind, c) \subseteq Seq(Words)
<1>1. FeaturedPaths(c) \subseteq Seq(Words)
    BY GroupPath DEF FeaturedPaths
<1> DEFINE source == ParsedCategoryPath(Channel(c).category.parts)
           front == Front(Channel(c).name)
           combined == AppendVirtual(source, front)
           bySource == IF source = <<>> \/ settings.source = "channel" THEN {}
                       ELSE {source} \cup AliasPaths(source) \cup
                            (IF settings.source = "group_channel"
                             THEN {combined} \cup AliasPaths(combined) ELSE {})
           byName == IF settings.source = "group" THEN {} ELSE InferredPaths(c)
<1>2. source \in Seq(Words)
    BY GroupPath
<1>3. front \in Seq(Words)
    <2>1. Channel(c).name \in Seq(Words) /\ Channel(c).name # <<>>
        BY ChannelWords
    <2> QED
        BY <2>1 DEF Front
<1> HIDE DEF source, front
<1>4. combined \in Seq(Words)
    BY <1>2, <1>3, AppendedPath
<1> HIDE DEF combined
<1>5. AliasPaths(source) \subseteq Seq(Words) /\ AliasPaths(combined) \subseteq Seq(Words)
    BY <1>2, <1>4, AliasesOfWords
<1>6. bySource \subseteq Seq(Words)
    BY <1>2, <1>4, <1>5
<1>7. byName \subseteq Seq(Words)
    BY NamePaths
<1>8. ProfileVirtualPaths(c) \subseteq Seq(Words)
    BY ProfileFolders
<1>9. VirtualPaths(c) \subseteq (ProfileVirtualPaths(c) \cup bySource \cup byName)
    BY DEF VirtualPaths, source, front, combined
<1> HIDE DEF bySource, byName
<1>10. VirtualPaths(c) \subseteq Seq(Words)
    BY <1>6, <1>7, <1>8, <1>9
<1> QED
    BY <1>1, <1>10 DEF PathsOf

-----------------------------------------------------------------------------
\* The two ways to compare a path with the beginning of another one.
LEMMA PrefixByPlaces ==
    ASSUME NEW path \in Seq(Words), NEW q \in Seq(Words)
    PROVE  IsPrefix(path, q) <=>
               Len(q) >= Len(path) /\ \A i \in 1 .. Len(path) : q[i] = path[i]
<1>1. Len(path) \in Nat /\ Len(q) \in Nat
    OBVIOUS
<1>2. SubSeq(path, 1, Len(path)) = path
    OBVIOUS
<1>3. ASSUME Len(q) >= Len(path)
      PROVE  /\ Len(SubSeq(q, 1, Len(path))) = Len(path)
             /\ SubSeq(q, 1, Len(path)) \in Seq(Words)
             /\ \A i \in 1 .. Len(path) : SubSeq(q, 1, Len(path))[i] = q[i]
    BY <1>1, <1>3
<1>4. ASSUME Len(q) >= Len(path)
      PROVE  SubSeq(q, 1, Len(path)) = path <=> \A i \in 1 .. Len(path) : q[i] = path[i]
    <2> DEFINE start == SubSeq(q, 1, Len(path))
    <2>1. /\ start \in Seq(Words) /\ Len(start) = Len(path)
          /\ \A i \in 1 .. Len(path) : start[i] = q[i]
        BY <1>3, <1>4
    <2> HIDE DEF start
    <2>2. start = path <=> \A i \in 1 .. Len(path) : start[i] = path[i]
        BY <2>1
    <2> QED
        BY <2>1, <2>2 DEF start
<1> QED
    BY <1>1, <1>2, <1>4 DEF IsPrefix

\* The first words of a path begin it.
LEMMA PrefixOfPath ==
    ASSUME NEW q \in Seq(Words), NEW n \in 1 .. Len(q)
    PROVE  /\ SubSeq(q, 1, n) \in Seq(Words)
           /\ IsPrefix(SubSeq(q, 1, n), q)
<1>1. SubSeq(q, 1, n) \in Seq(Words) /\ Len(SubSeq(q, 1, n)) = n /\ n <= Len(q)
    OBVIOUS
<1>2. \A i \in 1 .. n : SubSeq(q, 1, n)[i] = q[i]
    OBVIOUS
<1> QED
    BY <1>1, <1>2, PrefixByPlaces

LEMMA ShownAreFinite ==
    ASSUME LineupTyped
    PROVE  /\ Shown \subseteq AllChannels
           /\ \A S \in SUBSET Shown : S # {} => Cardinality(S) > 0
<1>1. Shown \subseteq AllChannels
    BY DEF Shown, Allowed
<1>2. IsFiniteSet(AllChannels)
    BY LineupConstants DEF LineupTyped, AllChannels
<1>3. ASSUME NEW S \in SUBSET Shown, S # {}
      PROVE  Cardinality(S) > 0
    <2>1. IsFiniteSet(S)
        BY <1>1, <1>2, FS_Subset
    <2>2. Cardinality(S) \in Nat /\ Cardinality(S) # 0
        BY <1>3, <2>1, FS_CardinalityType, FS_EmptySet
    <2> QED
        BY <2>2
<1> QED
    BY <1>1, <1>3

\* A folder counts the channels that its page shows, and there are some.
LEMMA FolderIsShown ==
    ASSUME LineupTyped, NEW kind \in {"virtual", "featured"}, NEW offered \in FoldersFromPaths(kind)
    PROVE  /\ offered.count > 0
           /\ offered.count = Cardinality(VisibleChannels(offered.id))
<1> DEFINE Counted(path) == {c \in Shown : \E q \in PathsOf(kind, c) :
                               Len(q) >= Len(path) /\ \A i \in 1 .. Len(path) : q[i] = path[i]}
<1>1. PICK c \in Shown : \E q \in PathsOf(kind, c) : \E n \in 1 .. Len(q) :
          offered = [id |-> [kind |-> kind, of |-> SubSeq(q, 1, n)],
                     count |-> Cardinality(Counted(SubSeq(q, 1, n)))]
    <2> DEFINE paths == UNION {PathsOf(kind, c) : c \in Shown}
               prefixes == UNION {{SubSeq(q, 1, n) : n \in 1 .. Len(q)} : q \in paths}
               Folder(path) == [id |-> [kind |-> kind, of |-> path],
                                count |-> Cardinality(Counted(path))]
    <2>1. FoldersFromPaths(kind) = {Folder(path) : path \in prefixes}
        BY DEF FoldersFromPaths
    <2> HIDE DEF Folder
    <2>2. PICK path \in prefixes : offered = Folder(path)
        BY <2>1
    <2>3. PICK q \in paths : path \in {SubSeq(q, 1, n) : n \in 1 .. Len(q)}
        BY <2>2
    <2>4. PICK n \in 1 .. Len(q) : path = SubSeq(q, 1, n)
        BY <2>3
    <2>5. PICK c \in Shown : q \in PathsOf(kind, c)
        BY <2>3
    <2>6. offered = Folder(SubSeq(q, 1, n))
        BY <2>2, <2>4
    <2> HIDE DEF Counted, paths, prefixes
    <2> QED
        BY <2>4, <2>5, <2>6 DEF Folder
<1>2. PICK q \in PathsOf(kind, c) : \E n \in 1 .. Len(q) :
          offered = [id |-> [kind |-> kind, of |-> SubSeq(q, 1, n)],
                     count |-> Cardinality(Counted(SubSeq(q, 1, n)))]
    BY <1>1
<1>3. PICK n \in 1 .. Len(q) :
          offered = [id |-> [kind |-> kind, of |-> SubSeq(q, 1, n)],
                     count |-> Cardinality(Counted(SubSeq(q, 1, n)))]
    BY <1>2
<1>4. PICK path : path = SubSeq(q, 1, n)
    OBVIOUS
<1>5. /\ offered.count = Cardinality(Counted(path))
      /\ offered.id.kind = kind
      /\ offered.id.of = path
    BY <1>3, <1>4
<1>6. \A d \in Shown : PathsOf(kind, d) \subseteq Seq(Words)
    BY ShownAreFinite, PathsAreLists
<1>7. path \in Seq(Words) /\ IsPrefix(path, q)
    BY <1>6, <1>4, PrefixOfPath
<1>8. Counted(path) = {d \in Shown : Under(PathsOf(kind, d), path)}
    BY <1>6, <1>7, PrefixByPlaces DEF Under
<1>9. c \in Counted(path)
    BY <1>7, <1>8 DEF Under
<1>10. VisibleChannels(offered.id) = {d \in Shown : Under(PathsOf(kind, d), path)}
    BY <1>5 DEF VisibleChannels, InCategory
<1> HIDE DEF Counted
<1>11. Counted(path) \in SUBSET Shown
    BY <1>8
<1> QED
    BY <1>5, <1>8, <1>9, <1>10, <1>11, ShownAreFinite

LEMMA SourceIsShown ==
    ASSUME LineupTyped, NEW offered \in SourceCategories
    PROVE  /\ offered.count > 0
           /\ offered.count = Cardinality(VisibleChannels(offered.id))
<1>1. PICK s \in {Channel(c).category : c \in Shown} :
          offered = [id |-> [kind |-> "source", of |-> s],
                     count |-> Cardinality({c \in Shown : Channel(c).category = s})]
    BY DEF SourceCategories
<1>2. {c \in Shown : Channel(c).category = s} # {}
    BY <1>1
<1>3. VisibleChannels(offered.id) = {c \in Shown : Channel(c).category = s}
    BY <1>1 DEF VisibleChannels, InCategory
<1> QED
    BY <1>1, <1>2, <1>3, ShownAreFinite

LEMMA StaysLoaded == LineupTyped /\ [LineupNext]_lineupVars => LineupTyped'
<1> USE DEF LineupTyped
<1> SUFFICES ASSUME LineupTyped, [LineupNext]_lineupVars
             PROVE  LineupTyped'
    OBVIOUS
<1>1. CASE UNCHANGED lineupVars
    BY <1>1 DEF lineupVars
<1>2. CASE SetCategory \/ DrawMaps \/ GroupByPipe
    BY <1>2 DEF SetCategory, DrawMaps, GroupByPipe
<1>3. ASSUME NEW s, HideCategory(s) PROVE LineupTyped'
    BY <1>3 DEF HideCategory
<1>4. ASSUME NEW p, UpdateSelectedProfile(p) PROVE LineupTyped'
    BY <1>4 DEF UpdateSelectedProfile, ApplyProfileSelection
<1>5. ASSUME NEW S, Hydrated(S) PROVE LineupTyped'
    BY <1>5 DEF Hydrated
<1>6. ASSUME NEW catalog \in Catalogs, HydrateApp(catalog) \/ HydrateReusing(catalog)
      PROVE  LineupTyped'
    BY <1>6 DEF HydrateApp, HydrateReusing
<1> QED
    BY <1>1, <1>2, <1>3, <1>4, <1>5, <1>6 DEF LineupNext

\* For any catalog, settings and words, any split at delimiters and any changes
\* of the viewer: a folder or category that is offered shows the channels that
\* it counts, and is not empty.
THEOREM FoldersShowWhatTheyCount == LineupSpec => []OfferedIsShown
<1>1. LineupInit => LineupTyped
    BY DEF LineupInit, LineupTyped
<1>2. LineupTyped => OfferedIsShown
    BY FolderIsShown, SourceIsShown DEF OfferedIsShown, OfferedCategories
<1> QED
    BY <1>1, <1>2, StaysLoaded, PTL DEF LineupSpec

(***************************************************************************)
(* The grid of the guide: the rows in the viewport are in the page, the    *)
(* cells of a row leave no hole, and the keys that change the row keep the *)
(* column                                                                  *)
(***************************************************************************)
GridSpec == GridInit /\ [][GridNext]_gridVars

(***************************************************************************)
(* The cells of a row                                                      *)
(***************************************************************************)
GridChannels == ToSet(GuideRows)

ProgramIDs ==
    {""} \cup UNION {UNION {{p.id : p \in Guides[g][c]} : c \in GridChannels} : g \in DOMAIN Guides}

Cell == [kind : {"gap", "program"}, program : ProgramIDs, start : Int, end : Int]

\* The cells fill the time from one end to the other, one after the other.
Filled(cells, from, to) ==
    /\ cells \in Seq(Cell)
    /\ cells = <<>> => from = to
    /\ cells # <<>> => cells[1].start = from /\ cells[Len(cells)].end = to
    /\ \A i \in 1 .. Len(cells) - 1 : cells[i].end = cells[i + 1].start
    /\ \A i \in 1 .. Len(cells) : cells[i].start < cells[i].end

\* The sizes of the grid are numbers.
LEMMA Geometry ==
    /\ HeaderHeight \in Nat /\ ViewHeight \in Nat /\ MostRows \in Nat
    /\ Slots \in Nat \ {0} /\ RowHeight \in Nat \ {0} /\ Overscan \in Nat \ {0}
    /\ HeaderHeight < ViewHeight
    /\ VisibleRows + Overscan < MostRows
    /\ Times \subseteq Int
BY GridConstants DEF Times

\* What the assumptions on the guides say, fact by fact.
LEMMA GuideFacts ==
    /\ GuideRows \in Seq(GridChannels) /\ IsInjective(GuideRows)
    /\ \A g \in DOMAIN Guides : DOMAIN Guides[g] = GridChannels
    /\ \A g \in DOMAIN Guides : \A c \in GridChannels :
          /\ IsFiniteSet(Guides[g][c])
          /\ \A p \in Guides[g][c] : p.start \in Int /\ p.end \in Int /\ p.id \in ProgramIDs
<1>1. GuideRows \in Seq(GridChannels) /\ IsInjective(GuideRows)
    BY GridConstants DEF GridChannels
<1>2. \A g \in DOMAIN Guides : DOMAIN Guides[g] = GridChannels
    BY GridConstants DEF GridChannels
<1>3. ASSUME NEW g \in DOMAIN Guides, NEW c \in GridChannels
      PROVE  /\ IsFiniteSet(Guides[g][c])
             /\ \A p \in Guides[g][c] : p.start \in Int /\ p.end \in Int
    BY GridConstants DEF GridChannels
<1>4. ASSUME NEW g \in DOMAIN Guides, NEW c \in GridChannels, NEW p \in Guides[g][c]
      PROVE  p.id \in ProgramIDs
    <2> DEFINE IDs(h, d) == {q.id : q \in Guides[h][d]}
               OfGuide(h) == UNION {IDs(h, d) : d \in GridChannels}
    <2>1. p.id \in IDs(g, c)
        OBVIOUS
    <2>2. p.id \in OfGuide(g)
        <3> HIDE DEF IDs
        <3> QED
            BY <2>1
    <2> HIDE DEF OfGuide
    <2>3. p.id \in UNION {OfGuide(h) : h \in DOMAIN Guides}
        BY <2>2
    <2> QED
        BY <2>3 DEF OfGuide, ProgramIDs
<1> QED
    BY <1>1, <1>2, <1>3, <1>4

\* A cell that begins where the last one ends extends what is filled.
LEMMA OneMore ==
    ASSUME NEW cells, NEW from, NEW to, Filled(cells, from, to),
           NEW x \in Cell, x.start = to, x.start < x.end
    PROVE  /\ Filled(cells \o <<x>>, from, x.end)
           /\ cells \o <<x>> # <<>>
<1> DEFINE more == cells \o <<x>>
<1>1. PICK n \in Nat : n = Len(cells)
    BY DEF Filled
<1>2. /\ more \in Seq(Cell) /\ Len(more) = n + 1
      /\ \A i \in 1 .. n : more[i] = cells[i]
      /\ more[n + 1] = x
    BY <1>1 DEF Filled
<1> HIDE DEF more
<1>3. more # <<>>
    BY <1>2
<1>4. more[1].start = from
    <2>1. CASE n = 0
        <3>1. cells = <<>>
            <4>1. cells \in Seq(Cell) /\ Len(cells) = 0
                BY <1>1, <2>1 DEF Filled
            <4> QED
                BY <4>1
        <3> QED
            BY <1>2, <2>1, <3>1 DEF Filled
    <2>2. CASE n # 0
        <3>1. 1 \in 1 .. n /\ cells # <<>>
            BY <1>1, <2>2
        <3> QED
            BY <1>2, <3>1 DEF Filled
    <2> QED
        BY <2>1, <2>2
<1>5. ASSUME NEW i \in 1 .. n
      PROVE  more[i].end = more[i + 1].start
    <2>1. CASE i = n
        <3>1. cells # <<>>
            BY <1>1, <1>5
        <3>2. cells[n].end = to
            BY <1>1, <3>1 DEF Filled
        <3> QED
            BY <1>2, <2>1, <3>2
    <2>2. CASE i # n
        <3>1. i \in 1 .. n - 1 /\ i + 1 \in 1 .. n
            BY <2>2
        <3>2. cells[i].end = cells[i + 1].start
            BY <1>1, <3>1 DEF Filled
        <3> QED
            BY <1>2, <3>1, <3>2
    <2> QED
        BY <2>1, <2>2
<1>6. ASSUME NEW i \in 1 .. n + 1
      PROVE  more[i].start < more[i].end
    <2>1. CASE i = n + 1
        BY <1>2, <2>1
    <2>2. CASE i # n + 1
        <3>1. i \in 1 .. n
            BY <2>2
        <3> QED
            BY <1>1, <1>2, <3>1 DEF Filled
    <2> QED
        BY <2>1, <2>2
<1>7. Len(more) - 1 = n
    BY <1>2
<1> QED
    BY <1>2, <1>3, <1>4, <1>5, <1>6, <1>7 DEF Filled, more

\* A gap fills the time up to the next program.
LEMMA OneGap ==
    ASSUME NEW cells, NEW from, NEW to \in Int, Filled(cells, from, to), NEW until \in Int
    PROVE  Filled(cells \o Gap(to, until), from, Larger(to, until))
<1>1. CASE until <= to
    <2>1. Larger(to, until) = to
        BY <1>1 DEF Larger
    <2>2. Gap(to, until) = <<>>
        BY <1>1 DEF Gap
    <2>3. cells \o <<>> = cells
        BY DEF Filled
    <2> QED
        BY <2>1, <2>2, <2>3
<1>2. CASE ~ (until <= to)
    <2> DEFINE x == [kind |-> "gap", program |-> "", start |-> to, end |-> until]
    <2>1. Gap(to, until) = <<x>>
        BY <1>2 DEF Gap
    <2>2. Larger(to, until) = until
        BY <1>2 DEF Larger
    <2>3. x \in Cell /\ x.start = to /\ x.end = until /\ x.start < x.end
        BY <1>2 DEF Cell, ProgramIDs
    <2> HIDE DEF x
    <2> QED
        BY <2>1, <2>2, <2>3, OneMore
<1> QED
    BY <1>1, <1>2

-----------------------------------------------------------------------------
Entry(at) == [program : ProgramIDs, start : Int, end : at + 1 .. at + Slots]

\* A row that is filled from the beginning of the window to its cursor.
RowsAt(at) ==
    {row \in [cursor : at .. at + Slots, cells : Seq(Cell)] : Filled(row.cells, at, row.cursor)}

\* One turn of the loop of renderEPGCells keeps a row filled up to its cursor.
LEMMA CellAdded ==
    ASSUME NEW at \in Int, NEW row \in RowsAt(at), NEW e \in Entry(at)
    PROVE  AddCell(row, e) \in RowsAt(at)
<1> DEFINE start == Larger(e.start, row.cursor)
           x == [kind |-> "program", program |-> e.program, start |-> start, end |-> e.end]
           cells == row.cells \o Gap(row.cursor, start)
<1>1. /\ row.cursor \in at .. at + Slots /\ row.cells \in Seq(Cell)
      /\ Filled(row.cells, at, row.cursor)
      /\ row.cursor \in Int
    BY Geometry DEF RowsAt
<1>2. e.start \in Int /\ e.end \in at .. at + Slots /\ e.program \in ProgramIDs /\ e.end \in Int
    BY Geometry DEF Entry
<1>3. start \in Int /\ Larger(row.cursor, start) = start
    BY <1>1, <1>2 DEF Larger
<1>4. Filled(cells, at, start)
    BY <1>1, <1>3, OneGap
<1>5. CASE e.end <= start
    BY <1>5 DEF AddCell
<1>6. CASE ~ (e.end <= start)
    <2>1. AddCell(row, e) = [cursor |-> e.end, cells |-> cells \o <<x>>]
        BY <1>6 DEF AddCell
    <2>2. x \in Cell /\ x.start = start /\ x.end = e.end /\ x.start < x.end
        BY <1>2, <1>3, <1>6 DEF Cell
    <2> HIDE DEF x, cells, start
    <2>3. Filled(cells \o <<x>>, at, e.end)
        BY <1>4, <2>2, OneMore
    <2> DEFINE more == cells \o <<x>>
               next == [cursor |-> e.end, cells |-> more]
    <2>4. more \in Seq(Cell)
        BY <2>3 DEF Filled
    <2> HIDE DEF more
    <2>5. next \in [cursor : at .. at + Slots, cells : Seq(Cell)]
        BY <1>2, <2>4
    <2>6. Filled(next.cells, at, next.cursor)
        BY <2>3 DEF more
    <2>7. next \in RowsAt(at)
        <3> HIDE DEF next
        <3> QED
            BY <2>5, <2>6 DEF RowsAt
    <2> QED
        BY <2>1, <2>7 DEF more
<1> QED
    BY <1>5, <1>6

RowFold(s, at, g) ==
    [u \in SUBSET (DOMAIN s) |->
        IF u = {} THEN [cursor |-> at, cells |-> <<>>] ELSE AddCell(g[u \ {Max(u)}], s[Max(u)])]

RowResults(s, at) == CHOOSE g : g = RowFold(s, at, g)

\* The loop over the entries of a row, in whatever order.
LEMMA RowOfEntries ==
    ASSUME NEW at \in Int, NEW s \in Seq(Entry(at))
    PROVE  FoldLeft(AddCell, [cursor |-> at, cells |-> <<>>], s) \in RowsAt(at)
<1> DEFINE C == Entry(at)
           V == RowsAt(at)
           base == [cursor |-> at, cells |-> <<>>]
           h == [p \in V \X C |-> AddCell(p[1], p[2])]
<1>1. PICK n \in Nat : n = Len(s)
    OBVIOUS
<1>2. PICK r \in [1 .. n -> C] : r = s
    BY <1>1
<1>3. n = Len(s) /\ r = s
    BY <1>1, <1>2
<1>4. n \in Nat /\ r \in [1 .. n -> C] /\ DOMAIN r = 1 .. n
    OBVIOUS
<1>5. base \in V
    <2>1. Filled(<<>>, at, at)
        BY DEF Filled
    <2>2. at \in at .. at + Slots
        BY Geometry
    <2> QED
        BY <2>1, <2>2 DEF RowsAt
<1> DEFINE f == RowResults(r, at)
<1>6. FoldLeft(AddCell, base, r) = f[DOMAIN r]
    BY DEF FoldLeft, MapThenFoldSet, RowResults, RowFold
<1>7. \A a \in V, x \in C : AddCell(a, x) \in V
    BY CellAdded
<1> HIDE DEF V, C
<1>8. h \in [V \X C -> V]
    BY <1>7
<1>9. \A a \in V, x \in C : h[<<a, x>>] = AddCell(a, x)
    OBVIOUS
<1> HIDE DEF h
<1>10. f = RowFold(r, at, f)
    <2>1. FoldsOf(V, base, h, n, r) # {}
        <3> HIDE DEF base
        <3> QED
            BY <1>4, <1>5, <1>8, FoldExists
    <2>2. PICK g : g \in FoldsOf(V, base, h, n, r)
        BY <2>1
    <2>3. /\ g \in [SUBSET (1 .. n) -> V]
          /\ \A u \in SUBSET (1 .. n) :
                g[u] = IF u = {} THEN base ELSE h[<<g[u \ {Max(u)}], r[Max(u)]>>]
        BY <2>2 DEF FoldsOf
    <2>4. ASSUME NEW u \in SUBSET (1 .. n), u # {}
          PROVE  h[<<g[u \ {Max(u)}], r[Max(u)]>>] = AddCell(g[u \ {Max(u)}], r[Max(u)])
        <3>1. Max(u) \in 1 .. n
            BY <1>4, <2>4, MaxOfInterval
        <3>2. r[Max(u)] \in C /\ g[u \ {Max(u)}] \in V
            BY <1>4, <2>3, <3>1
        <3> QED
            BY <1>9, <3>2
    <2>5. g = RowFold(r, at, g)
        BY <1>4, <2>3, <2>4 DEF RowFold
    <2> QED
        BY <2>5 DEF RowResults
<1>11. \A u \in SUBSET (1 .. n) :
          f[u] = IF u = {} THEN base ELSE AddCell(f[u \ {Max(u)}], r[Max(u)])
    <2> HIDE DEF f
    <2> QED
        BY <1>4, <1>10 DEF RowFold
<1> HIDE DEF f
<1>12. f[{}] = base
    BY <1>11
<1>13. ASSUME NEW u \in SUBSET (1 .. n), u # {}, f[u \ {Max(u)}] \in V
       PROVE  f[u] = h[<<f[u \ {Max(u)}], r[Max(u)]>>]
    <2>1. Max(u) \in 1 .. n
        BY <1>4, <1>13, MaxOfInterval
    <2>2. r[Max(u)] \in C
        BY <1>4, <2>1
    <2> QED
        BY <1>9, <1>11, <1>13, <2>2
<1> HIDE DEF base
<1>14. Computes(f, V, base, h, n, r)
    BY <1>12, <1>13 DEF Computes
<1>15. ResultsOf(f, V, base, h, n, r) # {}
    BY <1>4, <1>5, <1>8, <1>14, FoldResults
<1>16. f[1 .. n] \in V
    BY <1>15 DEF ResultsOf
<1> QED
    BY <1>3, <1>4, <1>6, <1>16 DEF V, base

-----------------------------------------------------------------------------
\* The image of a finite set.
LEMMA FiniteImage ==
    ASSUME NEW S, IsFiniteSet(S), NEW f, DOMAIN f = S
    PROVE  IsFiniteSet({f[x] : x \in S})
<1> DEFINE g == [x \in S |-> f[x]]
           T == {f[x] : x \in S}
<1>1. g \in [S -> T]
    OBVIOUS
<1>2. \A t \in T : \E x \in S : g[x] = t
    OBVIOUS
<1> HIDE DEF g, T
<1>3. g \in Surjection(S, T)
    BY <1>1, <1>2 DEF Surjection
<1>4. IsFiniteSet(T)
    BY <1>3, FS_Surjection
<1> QED
    BY <1>4 DEF T

\* The entries of a row are clipped to its window.
LEMMA EntriesListed ==
    ASSUME NEW at \in Int, NEW programs, IsFiniteSet(programs),
           \A p \in programs : p.start \in Int /\ p.end \in Int /\ p.id \in ProgramIDs
    PROVE  Entries(programs, at) \in Seq(Entry(at))
<1> DEFINE clip == [p \in programs |-> [program |-> p.id, start |-> Larger(p.start, at),
                                        end |-> Smaller(p.end, at + Slots)]]
           clipped == {clip[p] : p \in programs}
           within == {e \in clipped : e.end > at /\ e.start < at + Slots}
           before(a, b) == a.start < b.start \/ (a.start = b.start /\ a.end < b.end)
           R == {q \in within \X within : before(q[1], q[2])}
<1>1. IsFiniteSet(clipped)
    <2>1. DOMAIN clip = programs
        OBVIOUS
    <2> HIDE DEF clip
    <2> QED
        BY <2>1, FiniteImage
<1>2. IsFiniteSet(within)
    <2>1. within \in SUBSET clipped
        OBVIOUS
    <2> HIDE DEF within, clipped
    <2> QED
        BY <1>1, <2>1, FS_Subset
<1>3. \A e \in within : e.start \in Int /\ e.end \in Int /\ e \in Entry(at)
    <2> SUFFICES ASSUME NEW p \in programs,
                        clip[p].end > at, clip[p].start < at + Slots
                 PROVE  clip[p].start \in Int /\ clip[p].end \in Int /\ clip[p] \in Entry(at)
        BY DEF within, clipped
    <2>1. /\ clip[p].program = p.id
          /\ clip[p].start = Larger(p.start, at)
          /\ clip[p].end = Smaller(p.end, at + Slots)
          /\ clip[p] = [program |-> clip[p].program, start |-> clip[p].start, end |-> clip[p].end]
        OBVIOUS
    <2>2. Larger(p.start, at) \in Int /\ Smaller(p.end, at + Slots) \in Int
          /\ Smaller(p.end, at + Slots) <= at + Slots
        BY Geometry DEF Larger, Smaller
    <2> HIDE DEF clip
    <2>3. clip[p].end \in at + 1 .. at + Slots
        BY <2>1, <2>2, Geometry
    <2> QED
        BY <2>1, <2>2, <2>3 DEF Entry
<1>4. Entries(programs, at) = Sorted(within, before)
    BY DEF Entries
<1> HIDE DEF within
<1>5. StrictOrder(R, within)
    <2>1. \A a, b \in within : <<a, b>> \in R <=> before(a, b)
        OBVIOUS
    <2>2. \A a \in within : ~ before(a, a)
        BY <1>3
    <2>3. ASSUME NEW a \in within, NEW b \in within, NEW c \in within, before(a, b), before(b, c)
          PROVE  before(a, c)
        BY <1>3, <2>3
    <2> HIDE DEF R, before
    <2> QED
        BY <2>1, <2>2, <2>3 DEF StrictOrder
<1>6. SortedLists(within, R) # {}
    <2> HIDE DEF R
    <2> QED
        BY <1>2, <1>5, SortedExists
<1>7. PICK s \in [1 .. Cardinality(within) -> within] :
          /\ IsInjective(s)
          /\ \A i, j \in DOMAIN s : i < j => <<s[j], s[i]>> \notin R
    BY <1>6 DEF SortedLists
<1>8. \A i, j \in DOMAIN s : i < j => ~ before(s[j], s[i])
    <2>1. \A i \in DOMAIN s : s[i] \in within
        BY <1>7
    <2> QED
        BY <1>7, <2>1
<1>9. Sorted(within, before) \in [1 .. Cardinality(within) -> within]
    <2> HIDE DEF before
    <2> QED
        BY <1>7, <1>8 DEF Sorted
<1>10. Cardinality(within) \in Nat
    BY <1>2, FS_CardinalityType
<1>11. within \subseteq Entry(at)
    BY <1>3
<1> HIDE DEF before
<1>12. Sorted(within, before) \in Seq(Entry(at))
    BY <1>9, <1>10, <1>11
<1> QED
    BY <1>4, <1>12

\* The cells of any row fill the window.
LEMMA RowIsFilled ==
    ASSUME NEW g \in DOMAIN Guides, NEW at \in Times, NEW searched \in BOOLEAN, NEW c \in GridChannels
    PROVE  Filled(EPGCells[g][at][searched][c], at, at + Slots)
<1> DEFINE matching == {p \in ProgramsFor(g, at, c) : ~searched \/ c \in Named \/ p.match}
           row == FoldLeft(AddCell, [cursor |-> at, cells |-> <<>>], Entries(matching, at))
<1>1. at \in Int /\ c \in DOMAIN Guides[g]
    BY Geometry, GuideFacts
<1>2. matching \in SUBSET Guides[g][c]
    BY DEF ProgramsFor
<1> HIDE DEF matching
<1>3. /\ IsFiniteSet(matching)
      /\ \A p \in matching : p.start \in Int /\ p.end \in Int /\ p.id \in ProgramIDs
    BY <1>2, GuideFacts, FS_Subset
<1>4. row \in RowsAt(at)
    BY <1>1, <1>3, EntriesListed, RowOfEntries
<1>5. EPGCells[g][at][searched][c] = row.cells \o Gap(row.cursor, at + Slots)
    BY <1>1 DEF EPGCells, matching
<1> HIDE DEF row
<1>6. row.cursor \in Int /\ row.cursor <= at + Slots /\ Filled(row.cells, at, row.cursor)
    BY <1>1, <1>4, Geometry DEF RowsAt
<1>7. at + Slots \in Int /\ Larger(row.cursor, at + Slots) = at + Slots
    BY <1>1, <1>6, Geometry DEF Larger
<1> QED
    BY <1>5, <1>6, <1>7, OneGap

(***************************************************************************)
(* The rows drawn                                                          *)
(***************************************************************************)
LEMMA Quotient ==
    ASSUME NEW a \in Nat, NEW b \in Nat \ {0}
    PROVE  /\ a \div b \in Nat
           /\ (a \div b) * b <= a
           /\ a < ((a \div b) + 1) * b
<1>1. a \div b \in Int /\ a \div b >= 0
    OBVIOUS
<1>2. (a \div b) * b <= a
    OBVIOUS
<1>3. a < ((a \div b) + 1) * b
    OBVIOUS
<1> QED
    BY <1>1, <1>2, <1>3

\* What is needed of products: they grow, and distribute over sums.
LEMMA Products ==
    /\ \A a, b, c \in Nat : a * c < b * c => a < b
    /\ \A a, b, c \in Int : a * c \in Int /\ (a + b) * c = a * c + b * c
    /\ \A a \in Int, b \in Int, c \in Nat : a <= b => a * c <= b * c
    /\ \A a \in Nat, c \in Nat : a * c \in Nat
<1>1. ASSUME NEW a \in Nat, NEW b \in Nat, NEW c \in Nat, a * c < b * c
      PROVE  a < b
    BY <1>1
<1>2. ASSUME NEW a \in Int, NEW b \in Int, NEW c \in Int
      PROVE  a * c \in Int /\ (a + b) * c = a * c + b * c
    OBVIOUS
<1>3. ASSUME NEW a \in Int, NEW b \in Int, NEW c \in Nat, a <= b
      PROVE  a * c <= b * c
    BY <1>3
<1>4. ASSUME NEW a \in Nat, NEW c \in Nat
      PROVE  a * c \in Nat
    OBVIOUS
<1> QED
    BY <1>1, <1>2, <1>3, <1>4

\* So many rows fill the height of the grid.
LEMMA RowsFit ==
    /\ VisibleRows \in Nat
    /\ ViewHeight > 0 => VisibleRows >= 1
    /\ ViewHeight <= VisibleRows * RowHeight
<1>1. RowHeight \in Nat \ {0} /\ ViewHeight \in Nat
    BY Geometry
<1> DEFINE a == ViewHeight + RowHeight - 1
<1>2. a \in Nat
    BY <1>1
<1>3. /\ VisibleRows \in Nat
      /\ VisibleRows * RowHeight <= a
      /\ a < (VisibleRows + 1) * RowHeight
    <2> HIDE DEF a
    <2>1. VisibleRows = a \div RowHeight
        BY DEF VisibleRows, a
    <2> QED
        BY <1>1, <1>2, <2>1, Quotient
<1>4. (VisibleRows + 1) * RowHeight = VisibleRows * RowHeight + RowHeight
    BY <1>1, <1>3, Products
<1>5. VisibleRows * RowHeight \in Nat
    BY <1>1, <1>3, Products
<1>6. ViewHeight <= VisibleRows * RowHeight
    BY <1>1, <1>3, <1>4, <1>5
<1>7. VisibleRows = 0 => ViewHeight <= 0
    BY <1>1, <1>6
<1> QED
    BY <1>1, <1>3, <1>6, <1>7

\* The range drawn at a scroll position: every row in the viewport is in it.
LEMMA ViewportInRange ==
    ASSUME NEW total \in Nat, NEW top \in Nat
    PROVE  LET range == VisibleRange(total, top)
           IN  /\ range.start \in Nat /\ range.end \in Nat
               /\ range.end <= total
               /\ range.start <= range.end
               /\ total # 0 => range.start < range.end
               /\ \A i \in 1 .. total :
                     /\ (i - 1) * RowHeight < top + ViewHeight - HeaderHeight
                     /\ i * RowHeight > top
                     => i > range.start /\ i <= range.end
<1>1. /\ RowHeight \in Nat \ {0} /\ ViewHeight \in Nat /\ HeaderHeight \in Nat
      /\ Overscan \in Nat \ {0} /\ MostRows \in Nat /\ HeaderHeight < ViewHeight
      /\ VisibleRows \in Nat /\ VisibleRows >= 1
      /\ VisibleRows + Overscan < MostRows
      /\ ViewHeight <= VisibleRows * RowHeight
    BY Geometry, RowsFit
<1> DEFINE a == Larger(0, top - HeaderHeight)
           q == a \div RowHeight
           start == Smaller(Larger(0, total - VisibleRows), Larger(0, q - Overscan))
           end == Smaller(total, start + Smaller(MostRows, VisibleRows + 2 * Overscan))
<1>2. Larger(1, VisibleRows) = VisibleRows
    BY <1>1 DEF Larger
<1>3. VisibleRange(total, top).start = start /\ VisibleRange(total, top).end = end
    BY <1>2 DEF VisibleRange
<1>4. a \in Nat /\ a >= top - HeaderHeight /\ (a = 0 \/ a = top - HeaderHeight)
    BY <1>1 DEF Larger
<1> HIDE DEF a
<1>5. q \in Nat /\ q * RowHeight <= a /\ a < (q + 1) * RowHeight
    BY <1>1, <1>4, Quotient
<1> HIDE DEF q
<1>6. start \in Nat /\ start <= q /\ start <= total
      /\ (start = 0 \/ start = q - Overscan \/ start = total - VisibleRows)
      /\ (start < q - Overscan => start >= total - VisibleRows)
      /\ (total # 0 => start < total)
    BY <1>1, <1>5 DEF Larger, Smaller
<1> DEFINE most == Smaller(MostRows, VisibleRows + 2 * Overscan)
<1>7. most \in Nat /\ most >= VisibleRows /\ most >= VisibleRows + Overscan + 1
    BY <1>1 DEF Smaller
<1> HIDE DEF start
<1>8. end = Smaller(total, start + most)
    OBVIOUS
<1> HIDE DEF most, end
<1>9. end \in Nat /\ end <= total /\ start <= end /\ (total # 0 => start < end)
      /\ (end = total \/ end = start + most)
    BY <1>1, <1>6, <1>7, <1>8 DEF Smaller
<1>10. ASSUME NEW i \in 1 .. total,
              (i - 1) * RowHeight < top + ViewHeight - HeaderHeight,
              i * RowHeight > top
       PROVE  i > start /\ i <= end
    <2>1. i \in Nat /\ i - 1 \in Nat /\ i <= total
        OBVIOUS
    <2>2. i > q
        <3>1. q * RowHeight < i * RowHeight \/ a = 0
            BY <1>1, <1>4, <1>5, <1>10, <2>1, Products
        <3>2. CASE a = 0
            <4>1. q = 0
                <5>1. q # 0 => 1 * RowHeight <= q * RowHeight
                    BY <1>1, <1>5, Products
                <5> QED
                    BY <1>1, <1>5, <3>2, <5>1
            <4> QED
                BY <4>1
        <3>3. CASE q * RowHeight < i * RowHeight
            BY <1>1, <1>5, <2>1, <3>3, Products
        <3> QED
            BY <3>1, <3>2, <3>3
    <2>3. i <= q + VisibleRows + 1
        <3>1. (i - 1) * RowHeight < (q + 1) * RowHeight + VisibleRows * RowHeight
            <4>1. /\ (i - 1) * RowHeight \in Nat /\ (q + 1) * RowHeight \in Nat
                  /\ VisibleRows * RowHeight \in Nat
                BY <1>1, <1>5, <2>1, Products
            <4> QED
                BY <1>1, <1>4, <1>5, <1>10, <4>1
        <3>2. (q + 1) * RowHeight + VisibleRows * RowHeight = (q + 1 + VisibleRows) * RowHeight
            BY <1>1, <1>5, Products
        <3>3. i - 1 < q + 1 + VisibleRows
            <4>1. q + 1 + VisibleRows \in Nat
                BY <1>1, <1>5
            <4> QED
                BY <1>1, <2>1, <3>1, <3>2, <4>1, Products
        <3> QED
            BY <1>1, <1>5, <2>1, <3>3
    <2>4. i > start
        BY <1>6, <2>1, <2>2, <1>5
    <2>5. i <= end
        <3>1. CASE end = total
            BY <2>1, <3>1
        <3>2. CASE start >= total - VisibleRows
            BY <1>1, <1>6, <1>7, <1>9, <2>1, <3>2
        <3>3. CASE end = start + most /\ start >= q - Overscan
            BY <1>1, <1>5, <1>6, <1>7, <2>1, <2>3, <3>3
        <3> QED
            BY <1>1, <1>5, <1>6, <1>9, <3>1, <3>2, <3>3
    <2> QED
        BY <2>4, <2>5
<1> QED
    BY <1>3, <1>6, <1>9, <1>10

\* The rows drawn for a time: of channels of the guide, filled.
RowAt(at) == {row \in [channel : GridChannels, cells : Seq(Cell)] : Filled(row.cells, at, at + Slots)}

\* The rows of a page, of different channels.
IsDrawn(d) ==
    /\ d.start \in Int /\ d.end \in Int /\ d.at \in Int
    /\ d.rows \in Seq(RowAt(d.at))
    /\ Len(d.rows) = d.end - d.start
    /\ \A i, j \in DOMAIN d.rows : d.rows[i].channel = d.rows[j].channel => i = j

\* They are those of a range of the channels listed.
DrawnOf(d, channels, top, at) ==
    /\ d.start = VisibleRange(Len(channels), top).start
    /\ d.end = VisibleRange(Len(channels), top).end
    /\ d.at = at
    /\ \A i \in 1 .. Len(d.rows) : d.rows[i].channel = channels[d.start + i]

\* A part of a list.
LEMMA Part ==
    ASSUME NEW C, NEW s \in Seq(C), NEW m \in Nat, NEW n \in Nat, m <= n, n <= Len(s)
    PROVE  /\ SubSeq(s, m + 1, n) \in Seq(C)
           /\ Len(SubSeq(s, m + 1, n)) = n - m
           /\ DOMAIN SubSeq(s, m + 1, n) = 1 .. n - m
           /\ \A i \in 1 .. n - m : SubSeq(s, m + 1, n)[i] = s[m + i]
OBVIOUS

LEMMA NothingIsDrawn == IsDrawn(NothingDrawn)
<1> DEFINE d == NothingDrawn
<1>1. d.start = -1 /\ d.end = -1 /\ d.at = 0 /\ d.rows = <<>>
    BY DEF NothingDrawn
<1> HIDE DEF d
<1>2. d.rows \in Seq(RowAt(d.at)) /\ Len(d.rows) = 0 /\ DOMAIN d.rows = {}
    BY <1>1
<1>3. d.start \in Int /\ d.end \in Int /\ d.at \in Int
    BY <1>1
<1>4. Len(d.rows) = d.end - d.start
    BY <1>1
<1> HIDE DEF d
<1> QED
    BY <1>2, <1>3, <1>4 DEF IsDrawn, d

\* renderGuideWindow draws the rows of the range, each filled, or nothing if there are none.
LEMMA RowsDrawn ==
    ASSUME NEW top \in Nat, DrawRows(top),
           guide' \in DOMAIN Guides, now' \in Times, query' \in BOOLEAN,
           guideChannels' \in Seq(GridChannels), IsInjective(guideChannels')
    PROVE  /\ IsDrawn(drawn')
           /\ guideChannels' # <<>> => /\ DrawnOf(drawn', guideChannels', top, now')
                                       /\ drawn'.rows # <<>>
<1> DEFINE channels == guideChannels'
           range == VisibleRange(Len(channels), top)
           part == SubSeq(channels, range.start + 1, range.end)
           row(i) == [channel |-> part[i], cells |-> EPGCells[guide'][now'][query'][part[i]]]
           d == [start |-> range.start, end |-> range.end, at |-> now',
                 rows |-> [i \in DOMAIN part |-> row(i)]]
<1>1. drawn' = IF part = <<>> THEN NothingDrawn ELSE d
    BY DEF DrawRows
<1>2. /\ channels \in Seq(GridChannels) /\ Len(channels) \in Nat /\ IsInjective(channels)
      /\ DOMAIN channels = 1 .. Len(channels)
      /\ Len(channels) = 0 => channels = <<>>
      /\ channels = <<>> => Len(channels) = 0
    OBVIOUS
<1> HIDE DEF channels
<1>3. /\ range.start \in Nat /\ range.end \in Nat /\ range.end <= Len(channels)
      /\ range.start <= range.end
      /\ Len(channels) # 0 => range.start < range.end
    BY <1>2, ViewportInRange
<1>4. PICK m \in Nat : m = range.start
    BY <1>3
<1>5. PICK n \in Nat : n = range.end
    BY <1>3
<1>6. /\ part \in Seq(GridChannels) /\ Len(part) = n - m /\ DOMAIN part = 1 .. n - m
      /\ \A i \in 1 .. n - m : part[i] = channels[m + i]
    <2> HIDE DEF range
    <2>1. part = SubSeq(channels, m + 1, n)
        BY <1>4, <1>5
    <2>2. m <= n /\ n <= Len(channels)
        BY <1>3, <1>4, <1>5
    <2> HIDE DEF part
    <2>3. /\ SubSeq(channels, m + 1, n) \in Seq(GridChannels)
          /\ Len(SubSeq(channels, m + 1, n)) = n - m
          /\ DOMAIN SubSeq(channels, m + 1, n) = 1 .. n - m
          /\ \A i \in 1 .. n - m : SubSeq(channels, m + 1, n)[i] = channels[m + i]
        BY <1>2, <2>2, Part
    <2> QED
        BY <2>1, <2>3
<1>7. m <= n /\ n <= Len(channels) /\ (Len(channels) # 0 => m < n)
    BY <1>3, <1>4, <1>5
<1> HIDE DEF part
<1>8. CASE part = <<>>
    <2>1. n - m = 0
        BY <1>6, <1>8
    <2>2. channels = <<>>
        BY <1>2, <1>7, <2>1
    <2> QED
        BY <1>1, <1>8, <2>2, NothingIsDrawn DEF channels
<1>9. CASE part # <<>>
    <2>1. drawn' = d
        BY <1>1, <1>9
    <2>2. d.start = m /\ d.end = n /\ d.at = now' /\ DOMAIN d.rows = 1 .. n - m
        BY <1>4, <1>5, <1>6
    <2>3. now' \in Int
        BY Geometry
    <2>4. ASSUME NEW i \in 1 .. n - m
          PROVE  /\ d.rows[i] \in RowAt(now')
                 /\ d.rows[i].channel = channels[m + i]
        <3>1. d.rows[i] = row(i) /\ row(i).channel = part[i]
              /\ row(i).cells = EPGCells[guide'][now'][query'][part[i]]
            BY <1>6
        <3>2. part[i] \in GridChannels
            BY <1>6
        <3>3. Filled(EPGCells[guide'][now'][query'][part[i]], now', now' + Slots)
            BY <3>2, RowIsFilled
        <3>4. EPGCells[guide'][now'][query'][part[i]] \in Seq(Cell)
            BY <3>3 DEF Filled
        <3>5. row(i) \in [channel : GridChannels, cells : Seq(Cell)]
            BY <3>2, <3>4
        <3> HIDE DEF d, row
        <3> QED
            BY <1>6, <3>1, <3>3, <3>5 DEF RowAt
    <2> HIDE DEF row
    <2>5. d.rows \in [1 .. n - m -> RowAt(now')]
        BY <1>6, <2>4
    <2> HIDE DEF d
    <2>6. d.rows \in Seq(RowAt(now')) /\ Len(d.rows) = n - m
        <3>1. n - m \in Nat
            BY <1>7
        <3> QED
            BY <2>2, <2>5, <3>1
    <2>7. ASSUME NEW i \in 1 .. n - m, NEW j \in 1 .. n - m,
                 d.rows[i].channel = d.rows[j].channel
          PROVE  i = j
        <3>1. m + i \in DOMAIN channels /\ m + j \in DOMAIN channels
            BY <1>2, <1>7
        <3>2. channels[m + i] = channels[m + j]
            BY <2>4, <2>7
        <3>3. m + i = m + j
            BY <1>2, <3>1, <3>2 DEF IsInjective
        <3> QED
            BY <3>3
    <2>8. IsDrawn(d)
        BY <2>2, <2>3, <2>6, <2>7 DEF IsDrawn
    <2>9. DrawnOf(d, channels, top, now')
        BY <1>4, <1>5, <2>2, <2>4, <2>6 DEF DrawnOf
    <2>10. d.rows # <<>>
        <3>1. n - m # 0
            BY <1>6, <1>9
        <3> QED
            BY <2>2, <3>1, <1>7
    <2> QED
        BY <2>1, <2>8, <2>9, <2>10 DEF channels
<1> QED
    BY <1>8, <1>9

-----------------------------------------------------------------------------
(***************************************************************************)
(* The focus                                                               *)
(***************************************************************************)
FocusKinds == {"none", "search", "result", "channel", "gap", "program"}

Focus == [channel : GridChannels \cup {""}, kind : FocusKinds, program : ProgramIDs, start : Int]

FocusCell == [channel : GridChannels, kind : {"channel", "gap", "program"}, program : ProgramIDs,
              start : Int, end : Int]

\* The cells of a row that can have the focus.
LEMMA CellsOfRow ==
    ASSUME NEW at \in Int, NEW row \in RowAt(at)
    PROVE  /\ RowCells(row, at) \in Seq(FocusCell)
           /\ Len(RowCells(row, at)) = Len(row.cells) + 1
           /\ \A i \in 1 .. Len(row.cells) + 1 : RowCells(row, at)[i].channel = row.channel
           /\ RowCells(row, at)[1].kind = "channel"
           /\ \A i \in 1 .. Len(row.cells) :
                 /\ RowCells(row, at)[i + 1].kind = row.cells[i].kind
                 /\ RowCells(row, at)[i + 1].start = row.cells[i].start
                 /\ RowCells(row, at)[i + 1].end = row.cells[i].end
<1> DEFINE button == [channel |-> row.channel, kind |-> "channel", program |-> "",
                      start |-> at, end |-> at]
           cell(i) == [channel |-> row.channel, kind |-> row.cells[i].kind,
                       program |-> row.cells[i].program,
                       start |-> row.cells[i].start, end |-> row.cells[i].end]
           rest == [i \in DOMAIN row.cells |-> cell(i)]
<1>1. RowCells(row, at) = <<button>> \o rest
    BY DEF RowCells
<1>2. row.channel \in GridChannels /\ row.cells \in Seq(Cell)
    BY DEF RowAt
<1>3. PICK n \in Nat : n = Len(row.cells) /\ DOMAIN row.cells = 1 .. n
    BY <1>2
<1>4. button \in FocusCell /\ button.channel = row.channel /\ button.kind = "channel"
    BY <1>2 DEF FocusCell, ProgramIDs
<1>5. ASSUME NEW i \in 1 .. n
      PROVE  /\ cell(i) \in FocusCell
             /\ cell(i).channel = row.channel
             /\ cell(i).kind = row.cells[i].kind
             /\ cell(i).start = row.cells[i].start
             /\ cell(i).end = row.cells[i].end
    <2>1. row.cells[i] \in Cell
        BY <1>2, <1>3
    <2> QED
        BY <1>2, <2>1 DEF FocusCell, Cell
<1> HIDE DEF button, cell
<1>6. rest \in Seq(FocusCell) /\ Len(rest) = n /\ \A i \in 1 .. n : rest[i] = cell(i)
    BY <1>3, <1>5
<1> HIDE DEF rest
<1> DEFINE cells == <<button>> \o rest
<1>7. /\ cells \in Seq(FocusCell) /\ Len(cells) = n + 1 /\ cells[1] = button
      /\ \A i \in 1 .. n : cells[i + 1] = rest[i]
    BY <1>4, <1>6
<1> HIDE DEF cells
<1>8. ASSUME NEW i \in 1 .. n + 1
      PROVE  cells[i].channel = row.channel
    <2>1. CASE i = 1
        BY <1>4, <1>7, <2>1
    <2>2. CASE i # 1
        <3>1. PICK j \in 1 .. n : i = j + 1
            <4>1. i - 1 \in 1 .. n /\ i = (i - 1) + 1
                BY <2>2
            <4> QED
                BY <4>1
        <3>2. cells[i] = cell(j)
            BY <1>6, <1>7, <3>1
        <3> QED
            BY <1>5, <3>2
    <2> QED
        BY <2>1, <2>2
<1> QED
    BY <1>1, <1>3, <1>4, <1>5, <1>6, <1>7, <1>8 DEF cells

LEMMA InfoTyped ==
    ASSUME NEW cell \in FocusCell
    PROVE  /\ Info(cell) \in Focus
           /\ Info(cell).channel = cell.channel
           /\ Info(cell).kind = cell.kind
           /\ Info(cell).start = cell.start
BY DEF Info, Focus, FocusCell, FocusKinds

LEMMA ElementTyped ==
    ASSUME NEW kind \in {"none", "search", "result"}
    PROVE  Element(kind) \in Focus /\ Element(kind).kind = kind /\ ~IsCell(Element(kind))
<1>1. Element(kind) \in Focus
    BY DEF Element, Focus, FocusKinds, ProgramIDs
<1>2. Element(kind).kind = kind
    BY DEF Element
<1> QED
    BY <1>1, <1>2 DEF IsCell

\* What has the focus, when it is a cell, is one of a row that is drawn.
FocusIn(f, d) ==
    /\ f \in Focus
    /\ IsCell(f) => \E i \in DOMAIN d.rows : d.rows[i].channel = f.channel

\* A set of numbers has a least.
LEMMA LeastOf ==
    ASSUME NEW n \in Nat, NEW S \in SUBSET (1 .. n), S # {}
    PROVE  \E i \in S : \A j \in S : i <= j
<1> DEFINE N == {k \in Nat : \A T \in SUBSET (1 .. k) : T # {} => \E i \in T : \A j \in T : i <= j}
<1>1. 0 \in N
    <2>1. 1 .. 0 = {}
        OBVIOUS
    <2> QED
        BY <2>1
<1>2. ASSUME NEW k \in N
      PROVE  k + 1 \in N
    <2> SUFFICES ASSUME NEW T \in SUBSET (1 .. k + 1), T # {}
                 PROVE  \E i \in T : \A j \in T : i <= j
        OBVIOUS
    <2>1. CASE T \cap (1 .. k) = {}
        <3>1. \A j \in T : j = k + 1
            BY <2>1
        <3> QED
            BY <3>1
    <2>2. CASE T \cap (1 .. k) # {}
        <3>1. PICK i \in T \cap (1 .. k) : \A j \in T \cap (1 .. k) : i <= j
            BY <2>2
        <3>2. \A j \in T : j \in 1 .. k \/ j = k + 1
            OBVIOUS
        <3> QED
            BY <3>1, <3>2
    <2> QED
        BY <2>1, <2>2
<1>3. N = Nat
    <2>1. N \subseteq Nat
        OBVIOUS
    <2> HIDE DEF N
    <2> QED
        BY <1>1, <1>2, <2>1, SetInduction
<1> QED
    BY <1>3

\* The cell that matches is one of a row that is drawn.
LEMMA MatchingDrawn ==
    ASSUME NEW d, IsDrawn(d), NEW f, Matching(d, f) # <<>>
    PROVE  FocusIn(Matching(d, f)[1], d)
<1> DEFINE rows == {r \in DOMAIN d.rows : d.rows[r].channel = f.channel}
           chosen == CHOOSE r \in rows : TRUE
           cells == IF rows = {} THEN <<>> ELSE RowCells(d.rows[chosen], d.at)
           matching == {i \in DOMAIN cells : FocusMatches(Info(cells[i]), f)}
           least == CHOOSE i \in matching : \A j \in matching : i <= j
<1>1. matching # {} /\ Matching(d, f)[1] = Info(cells[least])
    <2>1. Matching(d, f) = IF matching = {} THEN <<>> ELSE <<Info(cells[least])>>
        BY DEF Matching
    <2> HIDE DEF matching
    <2> QED
        BY <2>1
<1>2. rows # {}
    <2>1. cells = <<>> => matching = {}
        <3> HIDE DEF cells
        <3> QED
            OBVIOUS
    <2>2. rows = {} => cells = <<>>
        OBVIOUS
    <2> QED
        BY <1>1, <2>1, <2>2
<1>3. chosen \in DOMAIN d.rows
    BY <1>2
<1> HIDE DEF chosen
<1>4. cells = RowCells(d.rows[chosen], d.at)
    BY <1>2
<1>5. d.at \in Int /\ d.rows[chosen] \in RowAt(d.at)
    BY <1>3 DEF IsDrawn
<1> HIDE DEF rows, cells
<1>6. /\ cells \in Seq(FocusCell)
      /\ \A i \in 1 .. Len(cells) : cells[i].channel = d.rows[chosen].channel
    BY <1>4, <1>5, CellsOfRow
<1>7. least \in 1 .. Len(cells)
    <2>1. matching \in SUBSET (1 .. Len(cells)) /\ Len(cells) \in Nat
        BY <1>6
    <2> HIDE DEF matching
    <2>2. \E i \in matching : \A j \in matching : i <= j
        BY <1>1, <2>1, LeastOf
    <2>3. least \in matching
        BY <2>2
    <2> QED
        BY <2>1, <2>3
<1> HIDE DEF least
<1>8. cells[least] \in FocusCell
    BY <1>6, <1>7
<1>9. Info(cells[least]) \in Focus /\ Info(cells[least]).channel = d.rows[chosen].channel
    BY <1>6, <1>7, <1>8, InfoTyped
<1> QED
    BY <1>1, <1>3, <1>9 DEF FocusIn

\* Of places with distances, one is nearest, and the first of these.
LEMMA NearestOf ==
    ASSUME NEW n \in Nat, NEW S \in SUBSET (1 .. n), S # {}, NEW dist \in [S -> Nat]
    PROVE  \E i \in S : \A j \in S : dist[i] < dist[j] \/ (dist[i] = dist[j] /\ i <= j)
<1> DEFINE Nearest(T, i) == \A j \in T : dist[i] < dist[j] \/ (dist[i] = dist[j] /\ i <= j)
           N == {k \in Nat : \A T \in SUBSET S :
                    T # {} /\ T \subseteq 1 .. k => \E i \in T : Nearest(T, i)}
<1>1. 0 \in N
    <2>1. 1 .. 0 = {}
        OBVIOUS
    <2> QED
        BY <2>1
<1>2. ASSUME NEW k \in N
      PROVE  k + 1 \in N
    <2> SUFFICES ASSUME NEW T \in SUBSET S, T # {}, T \subseteq 1 .. k + 1
                 PROVE  \E i \in T : Nearest(T, i)
        OBVIOUS
    <2> DEFINE R == T \cap (1 .. k)
    <2>1. \A j \in T : dist[j] \in Nat /\ (j \in R \/ j = k + 1)
        OBVIOUS
    <2>2. CASE R = {}
        <3>1. \A j \in T : j = k + 1
            BY <2>1, <2>2
        <3> QED
            BY <2>1, <3>1
    <2>3. CASE R # {}
        <3>1. R \in SUBSET S /\ R \subseteq 1 .. k
            OBVIOUS
        <3>2. PICK i \in R : Nearest(R, i)
            BY <2>3, <3>1
        <3>3. CASE k + 1 \in T /\ dist[k + 1] < dist[i]
            <4>1. \A j \in R : dist[k + 1] < dist[j]
                BY <2>1, <3>2, <3>3
            <4>2. Nearest(T, k + 1)
                BY <2>1, <4>1
            <4> QED
                BY <3>3, <4>2
        <3>4. CASE ~ (k + 1 \in T /\ dist[k + 1] < dist[i])
            <4>1. i <= k + 1
                OBVIOUS
            <4>2. Nearest(T, i)
                BY <2>1, <3>2, <3>4, <4>1
            <4> QED
                BY <4>2
        <3> QED
            BY <3>3, <3>4
    <2> QED
        BY <2>2, <2>3
<1>3. N = Nat
    <2>1. N \subseteq Nat
        OBVIOUS
    <2> HIDE DEF N
    <2> QED
        BY <1>1, <1>2, <2>1, SetInduction
<1> QED
    BY <1>3

\* The cells of a row cover its window.
LEMMA RowCovers ==
    ASSUME NEW cells, NEW from \in Int, NEW to \in Int, Filled(cells, from, to),
           NEW time \in Int, from <= time, time < to
    PROVE  \E i \in 1 .. Len(cells) : cells[i].start <= time /\ time < cells[i].end
<1>1. PICK n \in Nat : n = Len(cells)
    BY DEF Filled
<1>2. \A i \in 1 .. n : cells[i].start \in Int /\ cells[i].end \in Int
    <2>1. \A i \in 1 .. n : cells[i] \in Cell
        BY <1>1 DEF Filled
    <2> QED
        BY <2>1 DEF Cell
<1>3. cells # <<>> /\ n # 0
    BY <1>1 DEF Filled
<1> DEFINE S == {i \in 1 .. n : time < cells[i].end}
<1>4. n \in S
    BY <1>1, <1>3 DEF Filled
<1>5. PICK i \in S : \A j \in S : i <= j
    BY <1>4, LeastOf
<1>6. CASE i = 1
    BY <1>1, <1>3, <1>5, <1>6 DEF Filled
<1>7. CASE i # 1
    <2>1. i - 1 \in 1 .. n /\ i - 1 \in 1 .. n - 1 /\ i - 1 < i
        BY <1>7
    <2>2. i - 1 \notin S
        BY <1>5, <2>1
    <2>3. cells[i - 1].end <= time
        BY <1>2, <2>1, <2>2
    <2>4. cells[i - 1].end = cells[(i - 1) + 1].start
        BY <1>1, <2>1 DEF Filled
    <2> QED
        BY <1>1, <1>5, <2>3, <2>4
<1> QED
    BY <1>6, <1>7

\* The cell for a time is one of the guide, and the one that is on at that time
\* if the window has it.
LEMMA CellForTimeFound ==
    ASSUME NEW at \in Int, NEW row \in RowAt(at), NEW time \in Int
    PROVE  \E i \in 1 .. Len(row.cells) :
              /\ CellForTime(RowCells(row, at), time) = RowCells(row, at)[i + 1]
              /\ at <= time /\ time < at + Slots
                    => row.cells[i].start <= time /\ time < row.cells[i].end
<1> DEFINE cells == RowCells(row, at)
           programs == {i \in DOMAIN cells : cells[i].kind # "channel"}
           nearest == CHOOSE i \in programs : \A j \in programs :
                         \/ Distance(cells[i], time) < Distance(cells[j], time)
                         \/ Distance(cells[i], time) = Distance(cells[j], time) /\ i <= j
<1>1. CellForTime(cells, time) = cells[nearest]
    BY DEF CellForTime
<1>2. /\ row.cells \in Seq(Cell) /\ Filled(row.cells, at, at + Slots)
      /\ at + Slots \in Int /\ at < at + Slots
    BY Geometry DEF RowAt
<1>3. PICK n \in Nat : n = Len(row.cells) /\ n # 0
    <2>1. row.cells # <<>>
        BY <1>2 DEF Filled
    <2> QED
        BY <1>2, <2>1
<1>4. /\ cells \in Seq(FocusCell) /\ Len(cells) = n + 1 /\ cells[1].kind = "channel"
      /\ \A i \in 1 .. n : /\ cells[i + 1].kind = row.cells[i].kind
                           /\ cells[i + 1].start = row.cells[i].start
                           /\ cells[i + 1].end = row.cells[i].end
    BY <1>3, CellsOfRow
<1> HIDE DEF cells
<1>5. DOMAIN cells = 1 .. n + 1 /\ \A i \in 1 .. n + 1 : cells[i].start \in Int /\ cells[i].end \in Int
    <2>1. DOMAIN cells = 1 .. n + 1
        BY <1>4
    <2>2. \A i \in 1 .. n + 1 : cells[i] \in FocusCell
        BY <1>4
    <2>3. \A c \in FocusCell : c.start \in Int /\ c.end \in Int
        BY DEF FocusCell
    <2> QED
        BY <2>1, <2>2, <2>3
<1>6. ASSUME NEW i \in 1 .. n
      PROVE  i + 1 \in programs
    <2>1. row.cells[i] \in Cell
        BY <1>2, <1>3
    <2>2. row.cells[i].kind # "channel"
        BY <2>1 DEF Cell
    <2> QED
        BY <1>4, <1>5, <2>2
<1>7. ASSUME NEW i \in programs
      PROVE  i - 1 \in 1 .. n
    BY <1>4, <1>5
<1> DEFINE dist == [i \in programs |-> Distance(cells[i], time)]
<1>8. dist \in [programs -> Nat]
    <2> SUFFICES ASSUME NEW i \in 1 .. n + 1
                 PROVE  Distance(cells[i], time) \in Nat
        BY <1>5
    <2> QED
        BY <1>5 DEF Distance
<1>9. programs \in SUBSET (1 .. n + 1) /\ programs # {} /\ n + 1 \in Nat
    BY <1>3, <1>5, <1>6
<1> HIDE DEF programs
<1>10. \E i \in programs : \A j \in programs : dist[i] < dist[j] \/ (dist[i] = dist[j] /\ i <= j)
    <2> HIDE DEF dist
    <2> QED
        BY <1>8, <1>9, NearestOf
<1>11. /\ nearest \in programs
       /\ \A j \in programs : \/ Distance(cells[nearest], time) < Distance(cells[j], time)
                              \/ Distance(cells[nearest], time) = Distance(cells[j], time)
    BY <1>10
<1> HIDE DEF nearest
<1>12. PICK k \in 1 .. n : k = nearest - 1
    BY <1>7, <1>11
<1>13. nearest = k + 1
    BY <1>9, <1>11, <1>12
<1>14. ASSUME at <= time, time < at + Slots
       PROVE  row.cells[k].start <= time /\ time < row.cells[k].end
    <2>1. PICK i \in 1 .. n : row.cells[i].start <= time /\ time < row.cells[i].end
        BY <1>2, <1>3, <1>14, RowCovers
    <2>2. i + 1 \in programs /\ i + 1 \in 1 .. n + 1
        BY <1>6
    <2>3. Distance(cells[i + 1], time) = 0
        BY <1>4, <1>5, <2>1, <2>2, SMTT(30) DEF Distance
    <2>4. Distance(cells[k + 1], time) \in Nat
        BY <1>8, <1>11, <1>13
    <2>5. Distance(cells[k + 1], time) = 0
        BY <1>11, <1>13, <2>2, <2>3, <2>4
    <2>6. cells[k + 1].start \in Int /\ cells[k + 1].end \in Int
        BY <1>5
    <2>7. cells[k + 1].start <= time /\ time < cells[k + 1].end
        BY <2>5, <2>6 DEF Distance
    <2> QED
        BY <1>4, <2>7
<1> QED
    BY <1>1, <1>3, <1>13, <1>14 DEF cells

\* The cell chosen in a row is one of it.
LEMMA CellChosen ==
    ASSUME NEW at \in Int, NEW row \in RowAt(at), NEW anchor \in Int, NEW where, NEW program
    PROVE  /\ CellOf(RowCells(row, at), anchor, where, program) \in FocusCell
           /\ CellOf(RowCells(row, at), anchor, where, program).channel = row.channel
<1> DEFINE cells == RowCells(row, at)
           chosen == CellOf(cells, anchor, where, program)
           wanted == {i \in DOMAIN cells : program # "" /\ cells[i].program = program}
<1>1. PICK n \in Nat : n = Len(row.cells)
    <2>1. row.cells \in Seq(Cell)
        BY DEF RowAt
    <2> QED
        BY <2>1
<1>2. /\ cells \in Seq(FocusCell) /\ Len(cells) = n + 1
      /\ \A i \in 1 .. n + 1 : cells[i].channel = row.channel
    BY <1>1, CellsOfRow
<1>3. \E i \in 1 .. n : CellForTime(cells, anchor) = cells[i + 1]
    BY <1>1, CellForTimeFound
<1> HIDE DEF cells
<1>4. DOMAIN cells = 1 .. n + 1
    BY <1>2
<1>5. \E i \in 1 .. n + 1 : chosen = cells[i]
    <2>1. CASE wanted # {}
        <3>1. wanted \in SUBSET (1 .. n + 1) /\ n + 1 \in Nat
            <4>1. wanted \in SUBSET DOMAIN cells
                OBVIOUS
            <4> HIDE DEF wanted
            <4> QED
                BY <1>4, <4>1
        <3>2. chosen = cells[CHOOSE i \in wanted : \A j \in wanted : i <= j]
            BY <2>1 DEF CellOf
        <3> HIDE DEF wanted
        <3>3. \E i \in wanted : \A j \in wanted : i <= j
            BY <2>1, <3>1, LeastOf
        <3> QED
            BY <3>1, <3>2, <3>3
    <2>2. CASE wanted = {} /\ where = "last"
        <3>1. chosen = Last(cells)
            BY <2>2 DEF CellOf
        <3> QED
            BY <1>2, <3>1 DEF Last
    <2>3. CASE wanted = {} /\ where \in {"channel", "first"}
        <3>1. chosen = cells[1]
            BY <2>3 DEF CellOf
        <3> QED
            BY <3>1
    <2>4. CASE wanted = {} /\ where # "last" /\ where \notin {"channel", "first"}
        <3>1. chosen = CellForTime(cells, anchor)
            BY <2>4 DEF CellOf
        <3>2. PICK i \in 1 .. n : CellForTime(cells, anchor) = cells[i + 1]
            BY <1>3
        <3>3. i + 1 \in 1 .. n + 1
            OBVIOUS
        <3> QED
            BY <3>1, <3>2, <3>3
    <2> QED
        BY <2>1, <2>2, <2>3, <2>4
<1>6. PICK i \in 1 .. n + 1 : chosen = cells[i]
    BY <1>5
<1> QED
    BY <1>2, <1>6 DEF cells

-----------------------------------------------------------------------------
\* Where focusGuideRow scrolls to has the row in the viewport.
LEMMA RowIsScrolledTo ==
    ASSUME NEW index \in Nat, index # 0, scrollTop \in Nat
    PROVE  /\ TopFor(index) \in Nat
           /\ (index - 1) * RowHeight < TopFor(index) + ViewHeight - HeaderHeight
           /\ index * RowHeight > TopFor(index)
<1> DEFINE top == (index - 1) * RowHeight
           lowest == top + RowHeight + HeaderHeight - ViewHeight
<1>1. /\ RowHeight \in Nat \ {0} /\ ViewHeight \in Nat /\ HeaderHeight \in Nat
      /\ HeaderHeight < ViewHeight
    BY Geometry
<1>2. top \in Nat
    BY <1>1, Products
<1>3. index * RowHeight = top + RowHeight
    <2>1. index = (index - 1) + 1 /\ 1 * RowHeight = RowHeight
        BY <1>1
    <2> QED
        BY <1>1, <2>1, Products
<1>4. TopFor(index) = IF top < scrollTop THEN top
                      ELSE IF lowest > scrollTop THEN Larger(0, lowest) ELSE scrollTop
    BY DEF TopFor
<1> HIDE DEF top
<1>5. lowest \in Int
    BY <1>1, <1>2
<1> QED
    BY <1>1, <1>2, <1>3, <1>4, <1>5 DEF Larger, top

\* What every action leaves of the page, as far as the rows are concerned.
RowsTyped ==
    /\ now \in Times /\ guide \in DOMAIN Guides /\ query \in BOOLEAN
    /\ guideChannels \in Seq(GridChannels) /\ IsInjective(guideChannels)

PageTyped ==
    /\ scrollTop \in Nat /\ frame \in BOOLEAN
    /\ IsDrawn(drawn)
    /\ FocusIn(focused, drawn)
    /\ guideFocus.anchor \in Int
    /\ \A r \in results : r[1] \in GridChannels /\ r[2].start \in Int

\* Once no frame is awaited, the rows drawn are those for the scroll position.
FrameDone ==
    ~frame /\ guideChannels # <<>> =>
        /\ drawn.start = VisibleRange(Len(guideChannels), scrollTop).start
        /\ drawn.end = VisibleRange(Len(guideChannels), scrollTop).end

GridInv == RowsTyped /\ PageTyped /\ FrameDone

\* The rows listed are channels, each once.
LEMMA ListOfRows ==
    ASSUME NEW g \in DOMAIN Guides, NEW at \in Times, NEW searched \in BOOLEAN
    PROVE  Rows[g][at][searched] \in Seq(GridChannels) /\ IsInjective(Rows[g][at][searched])
<1> DEFINE S == {c \in ToSet(GuideRows) : GuideMatches(g, at, searched, c)}
<1>1. Rows[g][at][searched] = Only(GuideRows, S)
    BY DEF Rows
<1> HIDE DEF S
<1> QED
    BY <1>1, GuideFacts, OnlyList

LEMMA ResultsTyped ==
    ASSUME NEW g \in DOMAIN Guides, NEW at \in Times, NEW r \in SearchPrograms[g][at]
    PROVE  r[1] \in GridChannels /\ r[2].start \in Int
<1> DEFINE pairs == UNION {{<<c, p>> : p \in Guides[g][c]} : c \in DOMAIN Guides[g]}
<1>1. r \in pairs
    BY DEF SearchPrograms
<1>2. PICK c \in DOMAIN Guides[g] : r \in {<<c, p>> : p \in Guides[g][c]}
    BY <1>1
<1>3. PICK p \in Guides[g][c] : r = <<c, p>>
    BY <1>2
<1>4. c \in GridChannels
    BY GuideFacts
<1>5. p.start \in Int
    BY <1>4, GuideFacts
<1> QED
    BY <1>3, <1>4, <1>5

\* rememberGuideFocus keeps an anchor that is a time.
LEMMA Remembered ==
    ASSUME NEW f \in Focus, guideFocus.anchor \in Int, Remembering(f)
    PROVE  guideFocus'.anchor \in Int
<1> DEFINE anchor == IF guideFocus.kind # "none" /\ FocusMatches(f, guideFocus)
                     THEN guideFocus.anchor ELSE f.start
<1>1. guideFocus' = WithAnchor(f, anchor)
    BY DEF Remembering
<1>2. f.start \in Int
    BY DEF Focus
<1>3. anchor \in Int
    BY <1>2
<1> HIDE DEF anchor
<1> QED
    BY <1>1, <1>3 DEF WithAnchor

\* After the rows were drawn anew the focus is on one of them, or on no cell.
LEMMA StaysInRows ==
    ASSUME NEW d, IsDrawn(d), focused \in Focus, guideFocus.anchor \in Int, Refocused(d)
    PROVE  FocusIn(focused', d) /\ guideFocus'.anchor \in Int
<1>1. CASE ~ IsCell(focused)
    BY <1>1 DEF Refocused, FocusIn
<1>2. CASE IsCell(focused) /\ Matching(d, focused) = <<>>
    <2>1. focused' = Element("none") /\ guideFocus' = guideFocus
        BY <1>2 DEF Refocused
    <2> QED
        BY <2>1, ElementTyped DEF FocusIn
<1>3. CASE IsCell(focused) /\ Matching(d, focused) # <<>>
    <2>1. focused' = Matching(d, focused)[1] /\ Remembering(Matching(d, focused)[1])
        BY <1>3 DEF Refocused
    <2>2. FocusIn(Matching(d, focused)[1], d)
        BY <1>3, MatchingDrawn
    <2>3. Matching(d, focused)[1] \in Focus
        BY <2>2 DEF FocusIn
    <2> QED
        BY <2>1, <2>2, <2>3, Remembered
<1> QED
    BY <1>1, <1>2, <1>3

\* focusGuideRow: the row is drawn, the focus is on the cell chosen in it.
LEMMA RowFocused ==
    ASSUME scrollTop \in Nat, frame \in BOOLEAN, RowsTyped',
           NEW index \in 1 .. Len(guideChannels'), NEW anchor \in Int, NEW where, NEW program,
           FocusGuideRow(index, anchor, where, program)
    PROVE  /\ scrollTop' \in Nat /\ frame' \in BOOLEAN
           /\ IsDrawn(drawn')
           /\ DrawnOf(drawn', guideChannels', scrollTop', now')
           /\ FocusIn(focused', drawn')
           /\ guideFocus'.anchor = anchor
           /\ \E i \in DOMAIN drawn'.rows :
                 focused' = Info(CellOf(RowCells(drawn'.rows[i], now'), anchor, where, program))
<1>1. /\ guideChannels' \in Seq(GridChannels) /\ IsInjective(guideChannels') /\ guideChannels' # <<>>
      /\ guide' \in DOMAIN Guides /\ now' \in Times /\ query' \in BOOLEAN
      /\ Len(guideChannels') \in Nat
    BY DEF RowsTyped
<1>2. /\ scrollTop' = TopFor(index) /\ frame' = (frame \/ scrollTop' # scrollTop)
      /\ DrawRows(scrollTop')
      /\ focused' = Info(CellOf(RowCells(drawn'.rows[index - drawn'.start], now'),
                                anchor, where, program))
      /\ guideFocus' = WithAnchor(focused', anchor)
    BY DEF FocusGuideRow
<1>3. PICK top \in Nat : top = scrollTop'
    BY <1>2, RowIsScrolledTo
<1>4. /\ (index - 1) * RowHeight < top + ViewHeight - HeaderHeight
      /\ index * RowHeight > top
    BY <1>2, <1>3, RowIsScrolledTo
<1>5. /\ IsDrawn(drawn') /\ DrawnOf(drawn', guideChannels', top, now')
    <2>1. DrawRows(top)
        BY <1>2, <1>3
    <2> QED
        BY <1>1, <2>1, RowsDrawn
<1>6. /\ VisibleRange(Len(guideChannels'), top).start \in Nat
      /\ VisibleRange(Len(guideChannels'), top).end \in Nat
      /\ index > VisibleRange(Len(guideChannels'), top).start
      /\ index <= VisibleRange(Len(guideChannels'), top).end
    BY <1>1, <1>4, ViewportInRange
<1>7. /\ drawn'.start \in Int /\ drawn'.end \in Int
      /\ drawn'.start < index /\ index <= drawn'.end
    BY <1>5, <1>6 DEF DrawnOf
<1> DEFINE i == index - drawn'.start
<1>8. i \in DOMAIN drawn'.rows
    <2>1. drawn'.rows \in Seq(RowAt(drawn'.at)) /\ Len(drawn'.rows) = drawn'.end - drawn'.start
        BY <1>5 DEF IsDrawn
    <2>2. i \in 1 .. Len(drawn'.rows)
        BY <1>7, <2>1
    <2> QED
        BY <2>1, <2>2
<1>9. drawn'.rows[i] \in RowAt(now') /\ now' \in Int
    BY <1>5, <1>8 DEF IsDrawn, DrawnOf
<1>10. focused' \in Focus /\ focused'.channel = drawn'.rows[i].channel
    <2> DEFINE cell == CellOf(RowCells(drawn'.rows[i], now'), anchor, where, program)
    <2>1. cell \in FocusCell /\ cell.channel = drawn'.rows[i].channel
        BY <1>9, CellChosen
    <2>2. focused' = Info(cell)
        BY <1>2
    <2> HIDE DEF cell
    <2> QED
        BY <2>1, <2>2, InfoTyped
<1>11. FocusIn(focused', drawn')
    BY <1>8, <1>10 DEF FocusIn
<1>12. guideFocus'.anchor = anchor
    BY <1>2 DEF WithAnchor
<1> QED
    BY <1>2, <1>3, <1>5, <1>8, <1>11, <1>12

\* What drawing the rows anew for a scroll position leaves.
LEMMA Redrawn ==
    ASSUME RowsTyped', NEW top \in Nat, DrawRows(top)
    PROVE  /\ IsDrawn(drawn')
           /\ guideChannels' # <<>> =>
                 /\ drawn'.start = VisibleRange(Len(guideChannels'), top).start
                 /\ drawn'.end = VisibleRange(Len(guideChannels'), top).end
                 /\ drawn'.rows # <<>>
<1>1. /\ guideChannels' \in Seq(GridChannels) /\ IsInjective(guideChannels')
      /\ guide' \in DOMAIN Guides /\ now' \in Times /\ query' \in BOOLEAN
    BY DEF RowsTyped
<1> QED
    BY <1>1, RowsDrawn DEF DrawnOf

\* The list of rows made anew.
LEMMA Rebuilt ==
    ASSUME now' \in Times, guide' \in DOMAIN Guides, query' \in BOOLEAN,
           guideChannels' = Rows[guide'][now'][query']
    PROVE  RowsTyped'
BY ListOfRows DEF RowsTyped

LEMMA ResultsRendered ==
    ASSUME NEW f, RenderResults(f), now' \in Times, guide' \in DOMAIN Guides,
           \A r \in results : r[1] \in GridChannels /\ r[2].start \in Int
    PROVE  \A r \in results' : r[1] \in GridChannels /\ r[2].start \in Int
<1>1. results' = {} \/ results' = results \/ results' = SearchPrograms[guide'][now']
    BY DEF RenderResults
<1>2. \A r \in SearchPrograms[guide'][now'] : r[1] \in GridChannels /\ r[2].start \in Int
    BY ResultsTyped
<1> QED
    BY <1>1, <1>2

\* renderGuidePage
LEMMA PageRendered ==
    ASSUME GridInv, RenderGuidePage, now' = now, guide' \in DOMAIN Guides
    PROVE  GridInv'
<1>1. /\ now' \in Times /\ query' \in BOOLEAN /\ guideFocus.anchor \in Int
      /\ \A r \in results : r[1] \in GridChannels /\ r[2].start \in Int
    BY DEF GridInv, RowsTyped, PageTyped, RenderGuidePage
<1>2. /\ guideChannels' = Rows[guide'][now'][query']
      /\ scrollTop' = 0 /\ frame' = FALSE /\ DrawRows(0)
      /\ focused' = Element("none") /\ RenderResults(focused')
      /\ guideFocus' = guideFocus
    BY DEF RenderGuidePage
<1>3. RowsTyped'
    BY <1>1, <1>2, Rebuilt
<1>4. /\ IsDrawn(drawn')
      /\ guideChannels' # <<>> =>
            /\ drawn'.start = VisibleRange(Len(guideChannels'), 0).start
            /\ drawn'.end = VisibleRange(Len(guideChannels'), 0).end
    BY <1>2, <1>3, Redrawn
<1>5. FocusIn(focused', drawn')
    BY <1>2, ElementTyped DEF FocusIn
<1>6. \A r \in results' : r[1] \in GridChannels /\ r[2].start \in Int
    BY <1>1, <1>2, ResultsRendered
<1>7. PageTyped'
    BY <1>1, <1>2, <1>4, <1>5, <1>6 DEF PageTyped
<1>8. FrameDone'
    BY <1>2, <1>4 DEF FrameDone
<1> QED
    BY <1>3, <1>7, <1>8 DEF GridInv

\* resetGuideRows and renderEPG
LEMMA GridReset ==
    ASSUME GridInv, ResetAndRender, now' = now, guide' \in DOMAIN Guides,
           query' = query, results' = results
    PROVE  GridInv'
<1>1. /\ now' \in Times /\ query' \in BOOLEAN /\ guideFocus.anchor \in Int /\ scrollTop \in Nat
      /\ focused \in Focus
      /\ \A r \in results : r[1] \in GridChannels /\ r[2].start \in Int
    BY DEF GridInv, RowsTyped, PageTyped, FocusIn
<1>2. /\ guideChannels' = Rows[guide'][now'][query']
      /\ scrollTop' = Smaller(scrollTop, LastTop)
      /\ frame' = (scrollTop > LastTop)
      /\ DrawRows(scrollTop) /\ Refocused(drawn')
    BY DEF ResetAndRender
<1>3. RowsTyped'
    BY <1>1, <1>2, Rebuilt
<1>4. /\ IsDrawn(drawn')
      /\ guideChannels' # <<>> =>
            /\ drawn'.start = VisibleRange(Len(guideChannels'), scrollTop).start
            /\ drawn'.end = VisibleRange(Len(guideChannels'), scrollTop).end
    BY <1>1, <1>2, <1>3, Redrawn
<1>5. FocusIn(focused', drawn') /\ guideFocus'.anchor \in Int
    BY <1>1, <1>2, <1>4, StaysInRows
<1>6. LastTop \in Nat
    <2>1. Len(guideChannels') \in Nat
        BY <1>3 DEF RowsTyped
    <2>2. Len(guideChannels') * RowHeight \in Nat
        BY <2>1, Geometry, Products
    <2> QED
        BY <2>2, Geometry DEF LastTop, Larger
<1>7. scrollTop' \in Nat /\ frame' \in BOOLEAN
    BY <1>1, <1>2, <1>6 DEF Smaller
<1>8. PageTyped'
    BY <1>1, <1>4, <1>5, <1>7 DEF PageTyped
<1>9. ~ frame' => scrollTop' = scrollTop
    <2>1. ~ frame' => ~ (scrollTop > LastTop)
        BY <1>2
    <2>2. ~ (scrollTop > LastTop) => Smaller(scrollTop, LastTop) = scrollTop
        BY <1>1, <1>6 DEF Smaller
    <2> QED
        BY <1>2, <2>1, <2>2
<1>10. FrameDone'
    BY <1>4, <1>9 DEF FrameDone
<1> QED
    BY <1>3, <1>8, <1>10 DEF GridInv

\* What the search leaves, its focus aside.
LEMMA SearchRendered ==
    ASSUME GridInv, ApplyGuideSearch
    PROVE  /\ RowsTyped'
           /\ scrollTop' \in Nat /\ frame' \in BOOLEAN
           /\ IsDrawn(drawn')
           /\ \A r \in results' : r[1] \in GridChannels /\ r[2].start \in Int
           /\ FrameDone'
           /\ guideChannels' # <<>> => drawn'.rows # <<>>
<1>1. /\ now' \in Times /\ guide' \in DOMAIN Guides /\ query' \in BOOLEAN /\ scrollTop \in Nat
      /\ \A r \in results : r[1] \in GridChannels /\ r[2].start \in Int
    BY DEF GridInv, RowsTyped, PageTyped, ApplyGuideSearch
<1>2. /\ guideChannels' = Rows[guide'][now'][query']
      /\ scrollTop' = 0 /\ frame' = (scrollTop # 0) /\ DrawRows(0)
      /\ RenderResults(focused)
    BY DEF ApplyGuideSearch
<1>3. RowsTyped'
    BY <1>1, <1>2, Rebuilt
<1>4. /\ IsDrawn(drawn')
      /\ guideChannels' # <<>> =>
            /\ drawn'.start = VisibleRange(Len(guideChannels'), 0).start
            /\ drawn'.end = VisibleRange(Len(guideChannels'), 0).end
            /\ drawn'.rows # <<>>
    BY <1>2, <1>3, Redrawn
<1>5. \A r \in results' : r[1] \in GridChannels /\ r[2].start \in Int
    BY <1>1, <1>2, ResultsRendered
<1>6. FrameDone'
    BY <1>2, <1>4 DEF FrameDone
<1> QED
    BY <1>2, <1>3, <1>4, <1>5, <1>6

LEMMA SearchAppliedStep ==
    ASSUME GridInv, NEW escape \in BOOLEAN, SearchApplied(escape)
    PROVE  GridInv'
<1>1. /\ RowsTyped' /\ scrollTop' \in Nat /\ frame' \in BOOLEAN /\ IsDrawn(drawn') /\ FrameDone'
      /\ \A r \in results' : r[1] \in GridChannels /\ r[2].start \in Int
    BY SearchRendered DEF SearchApplied
<1>2. focused \in Focus
    BY DEF GridInv, PageTyped, FocusIn
<1>3. FocusIn(focused', drawn')
    <2>1. focused' = IF IsCell(focused)
                     THEN LET cell == Matching(drawn', focused)
                          IN  IF cell = <<>> THEN Element("none") ELSE cell[1]
                     ELSE IF focused.kind = "result" /\ results' = {} THEN Element("none")
                     ELSE focused
        BY DEF SearchApplied
    <2>2. CASE IsCell(focused) /\ Matching(drawn', focused) # <<>>
        <3>1. focused' = Matching(drawn', focused)[1]
            BY <2>1, <2>2
        <3> QED
            BY <1>1, <2>2, <3>1, MatchingDrawn
    <2>3. CASE focused' = Element("none")
        BY <2>3, ElementTyped DEF FocusIn
    <2>4. CASE ~ IsCell(focused) /\ focused' = focused
        BY <1>2, <2>4 DEF FocusIn
    <2> QED
        BY <2>1, <2>2, <2>3, <2>4
<1>4. guideFocus'.anchor \in Int
    <2>1. guideFocus' = IF IsCell(focused') THEN WithAnchor(focused', focused'.start) ELSE NoFocus
        BY DEF SearchApplied
    <2>2. focused'.start \in Int
        BY <1>3 DEF FocusIn, Focus
    <2> QED
        BY <2>1, <2>2 DEF WithAnchor, NoFocus
<1> QED
    BY <1>1, <1>3, <1>4 DEF GridInv, PageTyped

\* The first cell of a row, the channel's button.
LEMMA ChannelButton ==
    ASSUME NEW at \in Int, NEW row \in RowAt(at)
    PROVE  RowCells(row, at)[1] \in FocusCell /\ RowCells(row, at)[1].channel = row.channel
<1>1. PICK n \in Nat : n = Len(row.cells)
    <2>1. row.cells \in Seq(Cell)
        BY DEF RowAt
    <2> QED
        BY <2>1
<1>2. /\ RowCells(row, at) \in Seq(FocusCell) /\ Len(RowCells(row, at)) = n + 1
      /\ \A i \in 1 .. n + 1 : RowCells(row, at)[i].channel = row.channel
    BY <1>1, CellsOfRow
<1> QED
    BY <1>2

LEMMA SearchEnteredStep ==
    ASSUME GridInv, SearchEntered
    PROVE  GridInv'
<1>1. /\ RowsTyped' /\ scrollTop' \in Nat /\ frame' \in BOOLEAN /\ IsDrawn(drawn') /\ FrameDone'
      /\ \A r \in results' : r[1] \in GridChannels /\ r[2].start \in Int
      /\ guideChannels' # <<>> => drawn'.rows # <<>>
    BY SearchRendered DEF SearchEntered
<1>2. focused \in Focus /\ ~ IsCell(focused) /\ now \in Int /\ now' = now
    BY Geometry DEF GridInv, PageTyped, RowsTyped, FocusIn, SearchEntered, IsCell, ApplyGuideSearch
<1>3. FocusIn(focused', drawn')
    <2>1. focused' = IF results' # {} THEN Element("result")
                     ELSE IF guideChannels' = <<>> THEN focused
                     ELSE Info(RowCells(drawn'.rows[1], now)[1])
        BY DEF SearchEntered
    <2>2. CASE focused' = Element("result")
        BY <2>2, ElementTyped DEF FocusIn
    <2>3. CASE focused' = focused
        BY <1>2, <2>3 DEF FocusIn
    <2>4. CASE guideChannels' # <<>> /\ focused' = Info(RowCells(drawn'.rows[1], now)[1])
        <3>1. 1 \in DOMAIN drawn'.rows /\ drawn'.rows[1] \in RowAt(drawn'.at) /\ drawn'.at = now
            <4>1. drawn'.rows \in Seq(RowAt(drawn'.at)) /\ drawn'.rows # <<>>
                BY <1>1, <2>4 DEF IsDrawn
            <4>2. 1 \in DOMAIN drawn'.rows /\ drawn'.rows[1] \in RowAt(drawn'.at)
                BY <4>1
            <4>3. DrawRows(0)
                BY DEF SearchEntered, ApplyGuideSearch
            <4>4. drawn'.rows = <<>> \/ drawn'.at = now'
                BY <4>3 DEF DrawRows, NothingDrawn
            <4> QED
                BY <1>2, <4>1, <4>2, <4>4
        <3>2. /\ RowCells(drawn'.rows[1], now)[1] \in FocusCell
              /\ RowCells(drawn'.rows[1], now)[1].channel = drawn'.rows[1].channel
            BY <1>2, <3>1, ChannelButton
        <3> QED
            BY <2>4, <3>1, <3>2, InfoTyped DEF FocusIn
    <2> QED
        BY <2>1, <2>2, <2>3, <2>4
<1>4. guideFocus'.anchor \in Int
    <2>1. guideFocus' = IF IsCell(focused') THEN WithAnchor(focused', now) ELSE NoFocus
        BY DEF SearchEntered
    <2> QED
        BY <1>2, <2>1 DEF WithAnchor, NoFocus
<1> QED
    BY <1>1, <1>3, <1>4 DEF GridInv, PageTyped

LEMMA GridStarts == GridInit => GridInv
<1> SUFFICES ASSUME GridInit PROVE GridInv
    OBVIOUS
<1>1. FirstNow \in Times
    BY GridConstants DEF Times
<1>2. guideChannels = <<>> /\ DOMAIN guideChannels = {}
    BY DEF GridInit
<1>3. guideChannels \in Seq(GridChannels) /\ IsInjective(guideChannels)
    BY <1>2 DEF IsInjective
<1>4. FocusIn(focused, drawn)
    BY ElementTyped DEF GridInit, FocusIn
<1>5. guideFocus.anchor \in Int
    BY DEF GridInit, NoFocus, WithAnchor
<1> QED
    BY <1>1, <1>2, <1>3, <1>4, <1>5, NothingIsDrawn
    DEF GridInit, GridInv, RowsTyped, PageTyped, FrameDone

LEMMA ScrollStepKeeps ==
    ASSUME GridInv, NEW top \in ScrollTops, Scroll(top)
    PROVE  GridInv'
<1>1. top \in Nat
    <2>1. Len(guideChannels) \in Nat
        BY DEF GridInv, RowsTyped
    <2>2. Len(guideChannels) * RowHeight \in Nat
        BY <2>1, Geometry, Products
    <2>3. HeaderHeight + Len(guideChannels) * RowHeight - ViewHeight \in Int
        BY <2>2, Geometry
    <2>4. Larger(0, HeaderHeight + Len(guideChannels) * RowHeight - ViewHeight) \in Nat
        BY <2>3 DEF Larger
    <2> QED
        BY <2>4 DEF ScrollTops
<1>2. RowsTyped'
    BY DEF GridInv, RowsTyped, Scroll
<1>3. PageTyped'
    BY <1>1 DEF GridInv, PageTyped, Scroll
<1>4. FrameDone'
    BY DEF FrameDone, Scroll
<1> QED
    BY <1>2, <1>3, <1>4 DEF GridInv

LEMMA RenderFrameStep ==
    ASSUME GridInv, RenderFrame
    PROVE  GridInv'
<1> DEFINE range == VisibleRange(Len(guideChannels), scrollTop)
<1>1. /\ frame' = FALSE
      /\ UNCHANGED <<now, guide, query, results, guideChannels, scrollTop>>
    BY DEF RenderFrame
<1>2. RowsTyped' /\ scrollTop' \in Nat /\ scrollTop \in Nat
      /\ \A r \in results' : r[1] \in GridChannels /\ r[2].start \in Int
    BY <1>1 DEF GridInv, RowsTyped, PageTyped
<1>3. CASE /\ guideChannels # <<>> /\ range.start = drawn.start /\ range.end = drawn.end
           /\ UNCHANGED <<drawn, focused, guideFocus>>
    <2>1. PageTyped'
        BY <1>1, <1>2, <1>3 DEF GridInv, PageTyped
    <2>2. FrameDone'
        BY <1>1, <1>3 DEF FrameDone
    <2> QED
        BY <1>2, <2>1, <2>2 DEF GridInv
<1>4. CASE DrawRows(scrollTop) /\ Refocused(drawn')
    <2>1. /\ IsDrawn(drawn')
          /\ guideChannels' # <<>> =>
                /\ drawn'.start = VisibleRange(Len(guideChannels'), scrollTop).start
                /\ drawn'.end = VisibleRange(Len(guideChannels'), scrollTop).end
        BY <1>2, <1>4, Redrawn
    <2>2. FocusIn(focused', drawn') /\ guideFocus'.anchor \in Int
        BY <1>4, <2>1, StaysInRows DEF GridInv, PageTyped, FocusIn
    <2>3. PageTyped'
        BY <1>1, <1>2, <2>1, <2>2 DEF PageTyped
    <2>4. FrameDone'
        BY <1>1, <2>1 DEF FrameDone
    <2> QED
        BY <1>2, <2>3, <2>4 DEF GridInv
<1> QED
    BY <1>3, <1>4 DEF RenderFrame

\* Whatever goes to a row by focusGuideRow keeps the invariant.
LEMMA FocusGuideRowStep ==
    ASSUME GridInv, RowsTyped',
           \A r \in results' : r[1] \in GridChannels /\ r[2].start \in Int,
           NEW index \in 1 .. Len(guideChannels'), NEW anchor \in Int, NEW where, NEW program,
           FocusGuideRow(index, anchor, where, program)
    PROVE  GridInv'
<1>1. scrollTop \in Nat /\ frame \in BOOLEAN
    BY DEF GridInv, PageTyped
<1>2. /\ scrollTop' \in Nat /\ frame' \in BOOLEAN
      /\ IsDrawn(drawn')
      /\ DrawnOf(drawn', guideChannels', scrollTop', now')
      /\ FocusIn(focused', drawn')
      /\ guideFocus'.anchor = anchor
    BY <1>1, RowFocused
<1>3. PageTyped'
    BY <1>2 DEF PageTyped
<1>4. FrameDone'
    BY <1>2 DEF FrameDone, DrawnOf
<1> QED
    BY <1>3, <1>4 DEF GridInv

LEMMA JumpToProgramStep ==
    ASSUME GridInv, NEW r \in results, JumpGuideToProgram(r)
    PROVE  GridInv'
<1> DEFINE index == CHOOSE i \in DOMAIN GuideRows : GuideRows[i] = r[1]
<1>1. r[1] \in GridChannels /\ r[2].start \in Int
    BY DEF GridInv, PageTyped
<1>2. index \in DOMAIN GuideRows
    BY <1>1 DEF GridChannels, ToSet
<1> HIDE DEF index
<1>3. RowsTyped'
    BY GuideFacts DEF GridInv, RowsTyped, JumpGuideToProgram
<1>4. index \in 1 .. Len(guideChannels')
    BY <1>2, GuideFacts DEF JumpGuideToProgram
<1>5. results' = {} /\ FocusGuideRow(index, r[2].start, "program", r[2].id)
    BY DEF JumpGuideToProgram, index
<1> QED
    BY <1>1, <1>3, <1>4, <1>5, FocusGuideRowStep

LEMMA JumpToNowStep ==
    ASSUME GridInv, JumpGuideToNow
    PROVE  GridInv'
<1> DEFINE own == {i \in DOMAIN guideChannels : guideChannels[i] = guideFocus.channel}
           visible == Smaller(Len(guideChannels), scrollTop \div RowHeight + 1)
           index == IF own # {} THEN CHOOSE i \in own : TRUE ELSE visible
<1>1. /\ guideChannels \in Seq(GridChannels) /\ guideChannels # <<>> /\ scrollTop \in Nat
      /\ now \in Int /\ Len(guideChannels) \in Nat /\ Len(guideChannels) # 0
      /\ DOMAIN guideChannels = 1 .. Len(guideChannels)
    <2>1. /\ guideChannels \in Seq(GridChannels) /\ guideChannels # <<>> /\ scrollTop \in Nat
          /\ now \in Int
        BY Geometry DEF GridInv, RowsTyped, PageTyped, JumpGuideToNow
    <2> QED
        BY <2>1
<1>2. visible \in 1 .. Len(guideChannels)
    <2>1. scrollTop \div RowHeight \in Nat
        BY <1>1, Geometry, Quotient
    <2> QED
        BY <1>1, <2>1 DEF Smaller
<1>3. index \in 1 .. Len(guideChannels)
    <2>1. own \subseteq 1 .. Len(guideChannels)
        BY <1>1
    <2> HIDE DEF own, visible
    <2> QED
        BY <1>2, <2>1
<1>4. RowsTyped'
    BY DEF GridInv, RowsTyped, JumpGuideToNow
<1>5. results' = {} /\ FocusGuideRow(index, now, "program", "") /\ guideChannels' = guideChannels
    BY DEF JumpGuideToNow
<1> HIDE DEF index
<1> QED
    BY <1>1, <1>3, <1>4, <1>5, FocusGuideRowStep

\* The row of the focused cell.
LEMMA FocusedRowDrawn ==
    ASSUME GridInv, IsCell(focused)
    PROVE  /\ FocusedRow \in DOMAIN drawn.rows
           /\ drawn.rows[FocusedRow] \in RowAt(drawn.at)
           /\ drawn.at \in Int /\ drawn.start \in Int /\ FocusedRow \in Int
<1>1. IsDrawn(drawn) /\ \E i \in DOMAIN drawn.rows : drawn.rows[i].channel = focused.channel
    BY DEF GridInv, PageTyped, FocusIn
<1>2. FocusedRow \in DOMAIN drawn.rows
    BY <1>1 DEF FocusedRow
<1>3. drawn.rows \in Seq(RowAt(drawn.at)) /\ drawn.at \in Int /\ drawn.start \in Int
    BY <1>1 DEF IsDrawn
<1> QED
    BY <1>2, <1>3

LEMMA AnchorTyped ==
    ASSUME GridInv
    PROVE  Anchor \in Int
BY DEF GridInv, PageTyped, FocusIn, Focus, Anchor

\* Where a vertical key goes: a row that is listed.
LEMMA KeyGoesToRow ==
    ASSUME GridInv, NEW step \in Int, NEW edge, VerticalKey(step, edge)
    PROVE  /\ RowsTyped' /\ results' = results
           /\ \E index \in 1 .. Len(guideChannels') :
                 FocusGuideRow(index, Anchor, IF edge = "none" THEN focused.kind ELSE edge, "")
<1> DEFINE row == drawn.start + FocusedRow
           to == IF edge = "first" THEN 1 ELSE IF edge = "last" THEN Len(guideChannels)
                 ELSE Larger(1, Smaller(Len(guideChannels), row + step))
<1>1. /\ FocusGuideRow(to, Anchor, IF edge = "none" THEN focused.kind ELSE edge, "")
      /\ guideChannels # <<>> /\ IsCell(focused)
      /\ UNCHANGED <<now, guide, query, results, guideChannels>>
    BY DEF VerticalKey
<1>2. RowsTyped'
    BY <1>1 DEF GridInv, RowsTyped
<1>3. Len(guideChannels) \in Nat /\ Len(guideChannels) # 0
    <2>1. guideChannels \in Seq(GridChannels) /\ guideChannels # <<>>
        BY <1>1 DEF GridInv, RowsTyped
    <2> QED
        BY <2>1
<1>4. row \in Int
    <2>1. IsCell(focused)
        BY <1>1
    <2>2. drawn.start \in Int /\ FocusedRow \in Int
        BY <2>1, FocusedRowDrawn
    <2> QED
        BY <2>2
<1> HIDE DEF row
<1>5. to \in 1 .. Len(guideChannels)
    BY <1>3, <1>4 DEF Larger, Smaller
<1> HIDE DEF to
<1> QED
    BY <1>1, <1>2, <1>5

\* Keys that change the row, and those within a row.
LEMMA VerticalKeyStep ==
    ASSUME GridInv, NEW step \in Int, NEW edge, VerticalKey(step, edge)
    PROVE  GridInv'
<1>1. Anchor \in Int
    BY AnchorTyped
<1>2. \A r \in results : r[1] \in GridChannels /\ r[2].start \in Int
    BY DEF GridInv, PageTyped
<1> QED
    BY <1>1, <1>2, KeyGoesToRow, FocusGuideRowStep

LEMMA HorizontalKeyStep ==
    ASSUME GridInv, NEW index, HorizontalKey(index)
    PROVE  GridInv'
<1>1. /\ IsCell(focused) /\ index \in DOMAIN FocusedCells
      /\ focused' = Info(FocusedCells[index])
      /\ guideFocus' = WithAnchor(focused', focused'.start)
      /\ UNCHANGED <<now, guide, query, results, guideChannels, scrollTop, frame, drawn>>
    BY DEF HorizontalKey
<1>2. /\ FocusedRow \in DOMAIN drawn.rows /\ drawn.rows[FocusedRow] \in RowAt(drawn.at)
      /\ drawn.at \in Int
    BY <1>1, FocusedRowDrawn
<1>3. PICK n \in Nat : n = Len(drawn.rows[FocusedRow].cells)
    <2>1. drawn.rows[FocusedRow].cells \in Seq(Cell)
        BY <1>2 DEF RowAt
    <2> QED
        BY <2>1
<1>4. /\ FocusedCells \in Seq(FocusCell) /\ Len(FocusedCells) = n + 1
      /\ \A i \in 1 .. n + 1 : FocusedCells[i].channel = drawn.rows[FocusedRow].channel
    BY <1>2, <1>3, CellsOfRow DEF FocusedCells
<1>5. FocusedCells[index] \in FocusCell
      /\ FocusedCells[index].channel = drawn.rows[FocusedRow].channel
    BY <1>1, <1>4
<1>6. focused' \in Focus /\ focused'.channel = drawn.rows[FocusedRow].channel
    BY <1>1, <1>5, InfoTyped
<1>7. FocusIn(focused', drawn')
    BY <1>1, <1>2, <1>6 DEF FocusIn
<1>8. guideFocus'.anchor \in Int
    BY <1>1, <1>6 DEF WithAnchor, Focus
<1> QED
    BY <1>1, <1>7, <1>8 DEF GridInv, RowsTyped, PageTyped, FrameDone

LEMMA TabStep ==
    ASSUME GridInv, NEW kind, TabTo(kind)
    PROVE  GridInv'
<1>1. /\ UNCHANGED <<now, guide, query, results, guideChannels, scrollTop, frame, drawn>>
      /\ IsDrawn(drawn) /\ guideFocus.anchor \in Int
    BY DEF GridInv, PageTyped, TabTo
<1>2. CASE focused' = Element("search") /\ guideFocus' = guideFocus
    <2>1. FocusIn(focused', drawn')
        BY <1>2, ElementTyped DEF FocusIn
    <2> QED
        BY <1>1, <1>2, <2>1 DEF GridInv, RowsTyped, PageTyped, FrameDone
<1>3. CASE /\ drawn.rows # <<>> /\ Remembering(focused')
           /\ LET stop == Matching(drawn, guideFocus)
              IN  focused' = IF stop # <<>> THEN stop[1] ELSE Info(RowCells(drawn.rows[1], drawn.at)[1])
    <2>1. FocusIn(focused', drawn)
        <3>1. CASE Matching(drawn, guideFocus) # <<>>
            BY <1>1, <1>3, <3>1, MatchingDrawn
        <3>2. CASE Matching(drawn, guideFocus) = <<>>
            <4>1. drawn.rows \in Seq(RowAt(drawn.at)) /\ drawn.at \in Int
                BY <1>1 DEF IsDrawn
            <4>2. 1 \in DOMAIN drawn.rows /\ drawn.rows[1] \in RowAt(drawn.at)
                BY <1>3, <4>1
            <4>3. /\ RowCells(drawn.rows[1], drawn.at)[1] \in FocusCell
                  /\ RowCells(drawn.rows[1], drawn.at)[1].channel = drawn.rows[1].channel
                BY <4>1, <4>2, ChannelButton
            <4>4. focused' = Info(RowCells(drawn.rows[1], drawn.at)[1])
                BY <1>3, <3>2
            <4> QED
                BY <4>2, <4>3, <4>4, InfoTyped DEF FocusIn
        <3> QED
            BY <3>1, <3>2
    <2>2. guideFocus'.anchor \in Int
        <3>1. focused' \in Focus
            BY <2>1 DEF FocusIn
        <3> QED
            BY <1>1, <1>3, <3>1, Remembered
    <2> QED
        BY <1>1, <2>1, <2>2 DEF GridInv, RowsTyped, PageTyped, FrameDone
<1> QED
    BY <1>2, <1>3 DEF TabTo

\* PageRows is a number, so is its negation.
LEMMA KeySteps == {-1, 1, -PageRows, PageRows} \subseteq Int
<1>1. ViewHeight \div RowHeight \in Int
    BY Geometry, Quotient
<1>2. PageRows \in Int
    BY <1>1 DEF PageRows, Larger
<1> QED
    BY <1>2

\* Every step keeps the invariant.
LEMMA GridStep == GridInv /\ [GridNext]_gridVars => GridInv'
<1> SUFFICES ASSUME GridInv, [GridNext]_gridVars
             PROVE  GridInv'
    OBVIOUS
<1>1. CASE UNCHANGED gridVars
    BY <1>1 DEF gridVars, GridInv, RowsTyped, PageTyped, FrameDone
<1>2. ASSUME NEW top \in ScrollTops, Scroll(top)
      PROVE  GridInv'
    BY <1>2, ScrollStepKeeps
<1>3. CASE RenderFrame
    BY <1>3, RenderFrameStep
<1>4. CASE SlotPasses
    <2>1. now' \in Times
        BY <1>4, GridConstants DEF GridInv, RowsTyped, SlotPasses, Times
    <2> QED
        BY <1>4, <2>1 DEF GridInv, RowsTyped, PageTyped, FrameDone, SlotPasses
<1>5. CASE TickGuide
    <2>1. RenderGuidePage /\ now' = now /\ guide' \in DOMAIN Guides
        BY <1>5 DEF TickGuide, GridInv, RowsTyped
    <2> QED
        BY <2>1, PageRendered
<1>6. ASSUME NEW newPage \in BOOLEAN, GuideArrives(newPage)
      PROVE  GridInv'
    <2>1. now' = now /\ guide' \in DOMAIN Guides
        BY <1>6 DEF GuideArrives
    <2>2. CASE newPage
        <3>1. RenderGuidePage
            BY <1>6, <2>2 DEF GuideArrives
        <3> QED
            BY <2>1, <3>1, PageRendered
    <2>3. CASE ~ newPage
        <3>1. ResetAndRender /\ query' = query /\ results' = results
            BY <1>6, <2>3 DEF GuideArrives
        <3> QED
            BY <2>1, <3>1, GridReset
    <2> QED
        BY <2>2, <2>3
<1>7. ASSUME NEW text \in BOOLEAN, ScheduleGuideSearch(text)
      PROVE  GridInv'
    BY <1>7 DEF GridInv, RowsTyped, PageTyped, FrameDone, ScheduleGuideSearch
<1>8. ASSUME NEW escape \in BOOLEAN, SearchApplied(escape)
      PROVE  GridInv'
    BY <1>8, SearchAppliedStep
<1>9. CASE SearchEntered
    BY <1>9, SearchEnteredStep
<1>10. ASSUME NEW escape \in BOOLEAN, LeaveResults(escape)
       PROVE  GridInv'
    <2>1. /\ focused' = Element("search") /\ (results' = {} \/ results' = results)
          /\ UNCHANGED <<now, guide, query, guideChannels, scrollTop, frame, drawn, guideFocus>>
        BY <1>10 DEF LeaveResults
    <2>2. FocusIn(focused', drawn')
        BY <2>1, ElementTyped DEF FocusIn
    <2> QED
        BY <2>1, <2>2 DEF GridInv, RowsTyped, PageTyped, FrameDone
<1>11. ASSUME NEW r \in results, JumpGuideToProgram(r)
       PROVE  GridInv'
    BY <1>11, JumpToProgramStep
<1>12. CASE JumpGuideToNow
    BY <1>12, JumpToNowStep
<1>13. ASSUME NEW kind, TabTo(kind)
       PROVE  GridInv'
    BY <1>13, TabStep
<1>14. ASSUME NEW index, HorizontalKey(index)
       PROVE  GridInv'
    BY <1>14, HorizontalKeyStep
<1>15. ASSUME NEW step \in Int, NEW edge, VerticalKey(step, edge)
       PROVE  GridInv'
    BY <1>15, VerticalKeyStep
<1> QED
    <2>1. \A step \in {-1, 1, -PageRows, PageRows} : VerticalKey(step, "none") => GridInv'
        BY <1>15, KeySteps
    <2>2. (VerticalKey(0, "first") => GridInv') /\ (VerticalKey(0, "last") => GridInv')
        BY <1>15
    <2>3. (TabTo("search") => GridInv') /\ (TabTo("grid") => GridInv')
        BY <1>13
    <2>4. (GuideArrives(TRUE) => GridInv') /\ (GuideArrives(FALSE) => GridInv')
        BY <1>6
    <2>5. (SearchApplied(TRUE) => GridInv') /\ (SearchApplied(FALSE) => GridInv')
        BY <1>8
    <2>6. (LeaveResults(TRUE) => GridInv') /\ (LeaveResults(FALSE) => GridInv')
        BY <1>10
    <2> QED
        BY <1>1, <1>2, <1>3, <1>4, <1>5, <1>7, <1>9, <1>11, <1>12, <1>14,
           <2>1, <2>2, <2>3, <2>4, <2>5, <2>6
        DEF GridNext

\* The invariant has that nothing is missing.
LEMMA GridInvImplies == GridInv => GridIsComplete
<1> SUFFICES ASSUME GridInv PROVE GridIsComplete
    OBVIOUS
<1>1. ASSUME ~ frame, NEW i \in InViewport
      PROVE  i > drawn.start /\ i <= drawn.end
    <2>1. /\ guideChannels \in Seq(GridChannels) /\ scrollTop \in Nat
          /\ FrameDone
        BY DEF GridInv, RowsTyped, PageTyped
    <2>2. /\ i \in 1 .. Len(guideChannels) /\ Len(guideChannels) \in Nat
          /\ (i - 1) * RowHeight < scrollTop + ViewHeight - HeaderHeight
          /\ i * RowHeight > scrollTop
        BY <2>1 DEF InViewport
    <2>3. guideChannels # <<>>
        BY <2>1, <2>2
    <2>4. /\ i > VisibleRange(Len(guideChannels), scrollTop).start
          /\ i <= VisibleRange(Len(guideChannels), scrollTop).end
        BY <2>1, <2>2, ViewportInRange
    <2> QED
        BY <1>1, <2>1, <2>3, <2>4 DEF FrameDone
<1>2. ASSUME NEW r \in DOMAIN drawn.rows
      PROVE  LET cells == drawn.rows[r].cells
             IN  /\ cells[1].start = drawn.at
                 /\ cells[Len(cells)].end = drawn.at + Slots
                 /\ \A i \in 1..(Len(cells) - 1) : cells[i].end = cells[i + 1].start
                 /\ \A i \in DOMAIN cells : cells[i].start < cells[i].end
    <2> DEFINE cells == drawn.rows[r].cells
    <2>1. IsDrawn(drawn)
        BY DEF GridInv, PageTyped
    <2>2. drawn.at \in Int /\ drawn.rows[r] \in RowAt(drawn.at)
        BY <2>1 DEF IsDrawn
    <2>3. Filled(cells, drawn.at, drawn.at + Slots)
        BY <2>2 DEF RowAt
    <2>4. drawn.at # drawn.at + Slots
        BY <2>2, Geometry
    <2> HIDE DEF cells
    <2>5. cells \in Seq(Cell) /\ cells # <<>>
        BY <2>3, <2>4 DEF Filled
    <2>6. DOMAIN cells = 1 .. Len(cells)
        BY <2>5
    <2> QED
        BY <2>3, <2>5, <2>6 DEF Filled, cells
<1> QED
    BY <1>1, <1>2 DEF GridIsComplete

\* A key that changes the row goes to the cell that is on at the anchor.
LEMMA KeyKeepsColumn ==
    ASSUME GridInv, NEW step \in Int, VerticalKey(step, "none"), focused.kind # "channel"
    PROVE  /\ guideFocus'.anchor = Anchor
           /\ Anchor >= drawn'.at /\ Anchor < drawn'.at + Slots
                => LET row == CHOOSE i \in DOMAIN drawn'.rows : drawn'.rows[i].channel = focused'.channel
                   IN  \E cell \in ToSet(drawn'.rows[row].cells) :
                          /\ cell.start = focused'.start
                          /\ cell.start <= Anchor /\ Anchor < cell.end
<1>1. PICK anchor \in Int : anchor = Anchor
    BY AnchorTyped
<1>2. /\ RowsTyped'
      /\ \E index \in 1 .. Len(guideChannels') :
            FocusGuideRow(index, Anchor, focused.kind, "")
    BY KeyGoesToRow
<1>3. PICK where : where = focused.kind
    OBVIOUS
<1>30. PICK index \in 1 .. Len(guideChannels') : FocusGuideRow(index, anchor, where, "")
    BY <1>1, <1>2, <1>3
<1>4. /\ IsCell(focused) /\ scrollTop \in Nat /\ frame \in BOOLEAN
    BY DEF VerticalKey, GridInv, PageTyped
<1>5. /\ IsDrawn(drawn')
      /\ DrawnOf(drawn', guideChannels', scrollTop', now')
      /\ FocusIn(focused', drawn')
      /\ guideFocus'.anchor = anchor
      /\ \E i \in DOMAIN drawn'.rows :
            focused' = Info(CellOf(RowCells(drawn'.rows[i], now'), anchor, where, ""))
    <2>1. RowsTyped'
        BY <1>2
    <2>2. scrollTop \in Nat /\ frame \in BOOLEAN
        BY <1>4
    <2> QED
        BY <1>30, <2>1, <2>2, RowFocused, ZenonT(60)
<1>6. PICK i \in DOMAIN drawn'.rows :
         focused' = Info(CellOf(RowCells(drawn'.rows[i], now'), anchor, where, ""))
    BY <1>5
<1>7. drawn'.at = now' /\ now' \in Int /\ drawn'.rows[i] \in RowAt(now')
    <2>1. drawn'.at = now' /\ drawn'.rows \in Seq(RowAt(drawn'.at))
        BY <1>5 DEF IsDrawn, DrawnOf
    <2>2. now' \in Int
        BY <1>2, Geometry DEF RowsTyped
    <2>3. drawn'.rows[i] \in RowAt(drawn'.at)
        <3>1. i \in DOMAIN drawn'.rows
            BY <1>6
        <3> QED
            BY <2>1, <3>1
    <2> QED
        BY <2>1, <2>2, <2>3
<1> DEFINE row == drawn'.rows[i]
           cells == RowCells(row, now')
<1>8. CellOf(cells, anchor, where, "") = CellForTime(cells, anchor)
    <2>1. where \in {"gap", "program"}
        BY <1>3, <1>4 DEF IsCell
    <2> HIDE DEF cells
    <2> QED
        BY <2>1 DEF CellOf
<1>9. PICK k \in 1 .. Len(row.cells) :
         /\ CellForTime(cells, anchor) = cells[k + 1]
         /\ now' <= anchor /\ anchor < now' + Slots
               => row.cells[k].start <= anchor /\ anchor < row.cells[k].end
    BY <1>7, CellForTimeFound
<1>10. cells[k + 1] \in FocusCell /\ cells[k + 1].start = row.cells[k].start
       /\ cells[k + 1].channel = row.channel
       /\ row.cells[k] \in ToSet(row.cells)
    <2>1. PICK n \in Nat : n = Len(row.cells) /\ DOMAIN row.cells = 1 .. n
        <3>1. row.cells \in Seq(Cell)
            BY <1>7 DEF RowAt
        <3> QED
            BY <3>1
    <2>2. /\ cells \in Seq(FocusCell) /\ Len(cells) = n + 1
          /\ \A j \in 1 .. n + 1 : cells[j].channel = row.channel
          /\ \A j \in 1 .. n : cells[j + 1].start = row.cells[j].start
        BY <1>7, <2>1, CellsOfRow
    <2>3. k \in 1 .. n /\ k + 1 \in 1 .. n + 1
        BY <1>9, <2>1
    <2>4. row.cells[k] \in ToSet(row.cells)
        BY <2>1, <2>3 DEF ToSet
    <2> HIDE DEF cells
    <2> QED
        BY <2>2, <2>3, <2>4
<1>11. focused'.channel = row.channel /\ focused'.start = row.cells[k].start
    <2>1. focused' = Info(cells[k + 1])
        BY <1>6, <1>8, <1>9
    <2> HIDE DEF cells
    <2> QED
        BY <1>10, <2>1, InfoTyped
<1>12. (CHOOSE j \in DOMAIN drawn'.rows : drawn'.rows[j].channel = focused'.channel) = i
    <2>1. \A j \in DOMAIN drawn'.rows : drawn'.rows[j].channel = focused'.channel => j = i
        BY <1>5, <1>6, <1>11 DEF IsDrawn
    <2> QED
        BY <1>6, <1>11, <2>1
<1>13. Anchor >= drawn'.at /\ Anchor < drawn'.at + Slots
         => row.cells[k].start <= Anchor /\ Anchor < row.cells[k].end
    BY <1>1, <1>7, <1>9
<1> QED
    BY <1>1, <1>5, <1>10, <1>11, <1>12, <1>13

\* Every row in the viewport is in the page once no frame is awaited, and the
\* cells of a row fill its window (guideVisibleRange, renderGuideWindow,
\* renderEPGCells), however many channels and programs there are, however the
\* programs overlap and wherever the grid is scrolled to.
THEOREM NoRowIsMissing == GridSpec => []GridIsComplete
<1> QED
    BY GridStarts, GridStep, GridInvImplies, PTL DEF GridSpec

\* The keys that change the row keep the anchor, and the focus goes to the cell
\* that is on at the anchor (focusGuideRow, guideCellForTime).  The invariant
\* adds that the row of the focused cell is drawn, and focusGuideRow's scrolling
\* brings the row that it goes to into the range that is drawn.
THEOREM ColumnIsKept == GridSpec => KeysKeepColumn
<1>1. GridInv /\ [GridNext]_gridVars =>
          [(IsCell(focused) /\ focused.kind # "channel"
               /\ \E step \in {-1, 1, -PageRows, PageRows} : VerticalKey(step, "none"))
              => /\ guideFocus'.anchor = Anchor
                 /\ (Anchor >= drawn'.at /\ Anchor < drawn'.at + Slots)
                       => LET row == CHOOSE i \in DOMAIN drawn'.rows : drawn'.rows[i].channel = focused'.channel
                          IN  \E cell \in ToSet(drawn'.rows[row].cells) :
                                 /\ cell.start = focused'.start
                                 /\ cell.start <= Anchor /\ Anchor < cell.end]_gridVars
    BY KeyKeepsColumn, KeySteps
<1> QED
    BY <1>1, GridStarts, GridStep, PTL DEF GridSpec, KeysKeepColumn

=============================================================================
