------------------------------ MODULE MediaSource ------------------------------
(***************************************************************************)
(* What plays in the player's video element (ui/player.js, the script      *)
(* loader of ui/core.js): every source that is set gets an attachment, and *)
(* only the last one may play.  A live channel's attachment waits for the  *)
(* scripts before it creates its media manager; the viewer may have gone   *)
(* on by then.  The three scripts are taken for one, and the engines they  *)
(* bring (hls.js, mpegts.js, the media manager) for what they report.      *)
(***************************************************************************)
EXTENDS Naturals, Sequences

CONSTANT MaxSources     \* bound on the sources set

ASSUME MediaSourceConstants == MaxSources \in Nat

VARIABLES
    open,         \* the player is the page, and has its video element
    attachments,  \* in the order in which they were made
    current,      \* state.videoAttachment, 0 for none
    scripts,      \* playerLibraryPromises: no, loading or loaded
    panel         \* state.playerErrorMessage, by its kind

mediaVars == <<open, attachments, current, scripts, panel>>

\* What the URL and the format of a source make of it.
Kinds == {"shared", "hls", "ts", "plain"}

MediaInit ==
    /\ open = FALSE
    /\ attachments = <<>>
    /\ current = 0
    /\ scripts \in {"no", "loaded"}
    /\ panel = "none"

(***************************************************************************)
(* Errors                                                                  *)
(***************************************************************************)
\* playbackErrorStatus: the first HTTP status among what an error says.
ErrorStatus(values) ==
    LET statuses == SelectSeq(values, LAMBDA v : v \in 100 .. 599)
    IN  IF statuses = <<>> THEN 0 ELSE Head(statuses)

Explanation(status) ==
    CASE status \in {401, 403} -> "authorization"
      [] status = 409 -> "connections"
      [] status = 503 -> "unavailable"
      [] OTHER -> "offline"

\* handlePlaybackFatalError
Fatal(values) == panel' = IF open THEN Explanation(ErrorStatus(values)) ELSE panel

(***************************************************************************)
(* Attachments                                                             *)
(***************************************************************************)
\* destroy of attachment i, which may be none.
Destroyed(i) ==
    [j \in DOMAIN attachments |->
        IF j # i THEN attachments[j]
        ELSE [attachments[j] EXCEPT !.cancelled = TRUE,
                                    !.engine = IF @ = "playing" THEN "gone" ELSE @]]

\* attachVideoSource: without the scripts the element plays on its own.
Attached(kind) ==
    [kind |-> IF kind \in {"hls", "ts"} /\ scripts # "loaded" THEN "plain" ELSE kind,
     engine |-> IF kind = "shared" THEN "waiting" ELSE "playing",
     cancelled |-> FALSE, recoveries |-> 0, handled |-> FALSE]

\* setVideoSource
SetVideoSource(kind) ==
    /\ open
    /\ Len(attachments) < MaxSources
    /\ attachments' = Append(Destroyed(current), Attached(kind))
    /\ current' = Len(attachments')
    /\ scripts' = IF kind = "shared" /\ scripts = "no" THEN "loading" ELSE scripts
    /\ UNCHANGED <<open, panel>>

\* loadPlayerLibrary: the scripts are there ...
ScriptsLoaded ==
    /\ scripts = "loading"
    /\ scripts' = "loaded"
    /\ UNCHANGED <<open, attachments, current, panel>>

\* Mutant: the manager starts whatever became of its attachment.
StartManagerAnyhow(i) ==
    /\ attachments[i].engine = "waiting"
    /\ scripts = "loaded"
    /\ attachments' = [attachments EXCEPT ![i].engine = "playing"]
    /\ UNCHANGED <<open, current, scripts, panel>>

\* ... and attachSharedVideoSource goes on, unless it was cancelled.
StartManager(i) ==
    /\ attachments[i].engine = "waiting"
    /\ scripts = "loaded"
    /\ attachments' = [attachments EXCEPT ![i].engine =
                          IF attachments[i].cancelled THEN "gone" ELSE "playing"]
    /\ UNCHANGED <<open, current, scripts, panel>>

\* They cannot be loaded: the next source tries again.
ScriptsFail ==
    /\ scripts = "loading"
    /\ scripts' = "no"
    /\ attachments' = [i \in DOMAIN attachments |->
                          [attachments[i] EXCEPT !.engine = IF @ = "waiting" THEN "gone" ELSE @]]
    /\ IF \E i \in DOMAIN attachments :
              attachments[i].engine = "waiting" /\ ~attachments[i].cancelled
       THEN Fatal(<<>>) ELSE UNCHANGED panel
    /\ UNCHANGED <<open, current>>

(***************************************************************************)
(* What the engines report                                                 *)
(***************************************************************************)
Plays(i, kind) == attachments[i].engine = "playing" /\ attachments[i].kind = kind

FragmentLoaded(i) ==
    /\ Plays(i, "hls")
    /\ attachments' = [attachments EXCEPT ![i].recoveries = 0]
    /\ UNCHANGED <<open, current, scripts, panel>>

\* A fatal error of hls.js: of those that can be recovered from, two in a row
\* are, and one that is not recovered from is reported once.
HlsError(i, recoverable, status) ==
    LET tries == attachments[i].recoveries < 2
    IN  /\ Plays(i, "hls")
        /\ attachments' = [attachments EXCEPT
                              ![i].recoveries = IF tries THEN @ + 1 ELSE @,
                              ![i].handled = @ \/ ~(tries /\ recoverable)]
        /\ IF attachments'[i].handled /\ ~attachments[i].handled
           THEN Fatal(<<status>>) ELSE UNCHANGED panel
        /\ UNCHANGED <<open, current, scripts>>

\* onError of the media manager has a message but no status.
ManagerError(i) ==
    /\ Plays(i, "shared")
    /\ Fatal(<<>>)
    /\ UNCHANGED <<open, attachments, current, scripts>>

\* The error event of the element, with code 3 or 4: a manager deals with it.
VideoError(code) ==
    /\ open /\ current # 0
    /\ ~Plays(current, "shared")
    /\ Fatal(<<code>>)
    /\ UNCHANGED <<open, attachments, current, scripts>>

\* The event "playing" clears the error.
VideoPlays ==
    /\ open /\ current # 0
    /\ attachments[current].engine = "playing"
    /\ panel' = "none"
    /\ UNCHANGED <<open, attachments, current, scripts>>

(***************************************************************************)
(* The page                                                                *)
(***************************************************************************)
\* renderPlayerPage, for the first channel or another one.
OpenPlayer ==
    /\ open' = TRUE
    /\ panel' = "none"
    /\ UNCHANGED <<attachments, current, scripts>>

\* stopPlayback, as far as the source goes.
DropSource ==
    /\ attachments' = Destroyed(current)
    /\ current' = 0

LeavePlayer ==
    /\ open
    /\ open' = FALSE
    /\ DropSource
    /\ UNCHANGED <<scripts, panel>>

MediaNext ==
    \/ \E kind \in Kinds : SetVideoSource(kind)
    \/ ScriptsLoaded \/ ScriptsFail
    \/ \E i \in DOMAIN attachments :
          \/ StartManager(i) \/ FragmentLoaded(i) \/ ManagerError(i)
          \/ \E recoverable \in BOOLEAN, status \in {0, 403, 409, 503} :
                HlsError(i, recoverable, status)
    \/ \E code \in {3, 4} : VideoError(code)
    \/ VideoPlays \/ OpenPlayer \/ LeavePlayer

(***************************************************************************)
(* Properties                                                              *)
(***************************************************************************)
\* Nothing but the source that was set last plays, and nothing at all once the
\* player was left, however late the scripts of an earlier source arrive.
OnlyCurrentPlays ==
    \A i \in DOMAIN attachments : attachments[i].engine = "playing" => i = current
=============================================================================
