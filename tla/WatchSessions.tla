---------------------------- MODULE WatchSessions ----------------------------
(***************************************************************************)
(* A watch and the stream it pays for.  The browser starts, renews and     *)
(* stops a watch session (handleWatchStart, handleWatchHeartbeat and       *)
(* handleWatchStop in internal/plugin/routes.go); the media controller     *)
(* opens an input for it (Resolve, Heartbeat, Fallback and Release in      *)
(* internal/plugin/media.go); both share one lease of the account pool,    *)
(* named by the watch.  An input without a reservation has a lease of its  *)
(* own, and so has a play of the live TV contract (livetv_contract.go).    *)
(*                                                                         *)
(* Each handler runs in a goroutine and takes store.watchMu, watchOwnerMu  *)
(* and the pool's mutex one after the other: every critical section is one *)
(* step.  The controller itself is a library; it calls Heartbeat while an  *)
(* input is open, Fallback only then, and Release once at the end.         *)
(***************************************************************************)
EXTENDS AccountPool, Sequences

CONSTANTS
    Watches,    \* IDs of watch sessions
    Inputs,     \* IDs of the media controller's inputs
    Plays,      \* session IDs of the live TV contract
    Stations,   \* StationOrder of the channel: per candidate the offers its
                \* source may make, none for a channel without accounts
    SeenTTL,    \* after how long a silent owner is forgotten: two minutes
    RowTTL,     \* watchSessionTTLSeconds
    MaxRows     \* maximumWatchSessionRows

ASSUME WatchAssumption ==
    /\ Watches \cup Inputs \cup Plays = Sessions
    /\ Watches \cap (Inputs \cup Plays) = {} /\ Inputs \cap Plays = {}
    /\ None \notin Sessions
    /\ Stations \in Seq(SUBSET Offers) /\ Stations # << >>
    /\ SeenTTL \in Nat /\ RowTTL \in Nat
    /\ LeaseTTL < SeenTTL /\ SeenTTL < RowTTL
    /\ MaxRows \in Nat \ {0}

VARIABLES
    row,        \* store.sessions: "none", "live", "ended" or "gone"
    quiet,      \* how long ago the row's LastHeartbeatUnix is
    owner,      \* domain of watchOwners and of watchSeen
    seen,       \* how long ago watchSeen is
    binding,    \* watchBindings: the input that adopted the watch
    start,      \* where the handlers of each watch are
    beat,
    stop,
    failed,     \* candidates a start has tried in vain
    input       \* the controller's inputs

table == <<row, quiet>>
owners == <<owner, seen, binding>>
handlers == <<start, beat, stop, failed>>
vars == <<pool, table, owners, handlers, input>>

Candidates == DOMAIN Stations
PoolID(i) == IF input[i].watch = None THEN i ELSE input[i].watch
NewInput == [pc |-> "none", watch |-> None, tried |-> {}, account |-> None]

Init ==
    /\ PoolInit
    /\ row = [w \in Watches |-> "none"]
    /\ quiet = [w \in Watches |-> 0]
    /\ owner = {}
    /\ seen = [w \in Watches |-> 0]
    /\ binding = [w \in Watches |-> None]
    /\ start = [w \in Watches |-> "idle"]
    /\ beat = [w \in Watches |-> "idle"]
    /\ stop = [w \in Watches |-> "idle"]
    /\ failed = [w \in Watches |-> {}]
    /\ input = [i \in Inputs |-> NewInput]

(***************************************************************************)
(* handleWatchStart                                                        *)
(***************************************************************************)
\* pruneWatchSessionsLocked: which rows may go when a row is added.  Rows
\* that ended an hour ago are among the ended ones, rows that have been quiet
\* for too long go, and the quietest ones make room.
Prunable(gone) ==
    LET rows == {x \in Watches : row[x] \in {"live", "ended"}}
        old  == {x \in rows : row[x] = "live" /\ quiet[x] > RowTTL}
        left == rows \ gone
    IN  /\ gone \subseteq rows
        /\ old \subseteq gone
        /\ Cardinality(left) < MaxRows
        /\ \A x \in gone \ old :
              \/ row[x] = "ended"
              \/ /\ Cardinality(left) = MaxRows - 1
                 /\ \A y \in left : quiet[x] >= quiet[y]

StartWatch(w) ==
    /\ start[w] = "idle"
    /\ \E gone \in SUBSET Watches :
          /\ Prunable(gone)
          /\ row' = [x \in Watches |-> IF x = w THEN "live"
                                       ELSE IF x \in gone THEN "gone"
                                       ELSE row[x]]
    /\ quiet' = [quiet EXCEPT ![w] = 0]
    /\ start' = [start EXCEPT ![w] = "reserve"]
    /\ UNCHANGED <<pool, owners, beat, stop, failed, input>>

\* reserveMappedWatch: the first candidate, in order, that needs no account
\* or has one to spare.
Reserve(w) ==
    LET k == Cardinality(failed[w]) + 1
    IN  /\ start[w] = "reserve"
        /\ k \in Candidates
        /\ \/ /\ Stations[k] = {}
              /\ start' = [start EXCEPT ![w] = "register"]
              /\ UNCHANGED <<pool, failed>>
           \/ \E offer \in Stations[k] :
              \/ /\ Granted(w, offer)
                 /\ start' = [start EXCEPT ![w] = "register"]
                 /\ UNCHANGED failed
              \/ /\ Refused(w, offer)
                 /\ failed' = [failed EXCEPT ![w] = @ \cup {k}]
                 /\ UNCHANGED start
        /\ UNCHANGED <<table, owners, beat, stop, input>>

End(w) == IF row[w] = "live" THEN "ended" ELSE row[w]

StartFails(w) ==
    /\ start[w] = "reserve"
    /\ failed[w] = Candidates
    /\ row' = [row EXCEPT ![w] = End(w)]
    /\ start' = [start EXCEPT ![w] = "failed"]
    /\ UNCHANGED <<pool, quiet, owners, beat, stop, failed, input>>

\* The owners that have been silent for two minutes are forgotten, together
\* with their bindings, and the new watch gets its owner.
Register(w) ==
    /\ start[w] = "register"
    /\ LET silent == {x \in owner : seen[x] > SeenTTL}
       IN  /\ owner' = (owner \ silent) \cup {w}
           /\ binding' = [x \in Watches |-> IF x \in silent THEN None
                                            ELSE binding[x]]
    /\ seen' = [seen EXCEPT ![w] = 0]
    /\ start' = [start EXCEPT ![w] = "done"]
    /\ UNCHANGED <<pool, table, beat, stop, failed, input>>

(***************************************************************************)
(* handleWatchHeartbeat                                                    *)
(***************************************************************************)
Seen(w) == seen' = IF w \in owner THEN [seen EXCEPT ![w] = 0] ELSE seen

Beat(w) ==
    /\ start[w] = "done"
    /\ beat[w] = "idle"
    /\ Seen(w)
    /\ beat' = [beat EXCEPT ![w] = "store"]
    /\ UNCHANGED <<pool, table, owner, binding, start, stop, failed, input>>

\* Mutant: HeartbeatWatch does not look at EndedAtUnix.
BeatStoreRevives(w) ==
    /\ beat[w] = "store"
    /\ row[w] \in {"live", "ended"}
    /\ row' = [row EXCEPT ![w] = "live"]
    /\ quiet' = [quiet EXCEPT ![w] = 0]
    /\ beat' = [beat EXCEPT ![w] = "touch"]
    /\ UNCHANGED <<pool, owners, start, stop, failed, input>>

\* HeartbeatWatch: 404 unless the row is there and has not ended.
BeatStore(w) ==
    /\ beat[w] = "store"
    /\ IF row[w] = "live"
       THEN /\ quiet' = [quiet EXCEPT ![w] = 0]
            /\ beat' = [beat EXCEPT ![w] = "touch"]
       ELSE /\ beat' = [beat EXCEPT ![w] = "idle"]
            /\ UNCHANGED quiet
    /\ UNCHANGED <<pool, row, owners, start, stop, failed, input>>

BeatTouch(w) ==
    /\ beat[w] = "touch"
    /\ Touch(w)
    /\ beat' = [beat EXCEPT ![w] = "idle"]
    /\ UNCHANGED <<table, owners, start, stop, failed, input>>

(***************************************************************************)
(* handleWatchStop                                                         *)
(***************************************************************************)
Stop(w) ==
    /\ start[w] = "done"
    /\ stop[w] = "idle"
    /\ Seen(w)
    /\ stop' = [stop EXCEPT ![w] = "store"]
    /\ UNCHANGED <<pool, table, owner, binding, start, beat, failed, input>>

\* StopWatch: 404, and nothing else happens, when the row is gone.
StopStore(w) ==
    /\ stop[w] = "store"
    /\ row' = [row EXCEPT ![w] = End(w)]
    /\ stop' = [stop EXCEPT ![w] = IF row[w] = "gone" THEN "idle" ELSE "media"]
    /\ UNCHANGED <<pool, quiet, owners, start, beat, failed, input>>

\* StopReservation ends the inputs the controller has for the watch.  One
\* that is still being resolved is not among them yet.
StopMedia(w) ==
    /\ stop[w] = "media"
    /\ input' = [i \in Inputs |->
                   IF input[i].watch = w /\ input[i].pc = "live"
                   THEN [input[i] EXCEPT !.pc = "release"] ELSE input[i]]
    /\ stop' = [stop EXCEPT ![w] = "forget"]
    /\ UNCHANGED <<pool, table, owners, start, beat, failed>>

StopForget(w) ==
    /\ stop[w] = "forget"
    /\ owner' = owner \ {w}
    /\ stop' = [stop EXCEPT ![w] = "release"]
    /\ UNCHANGED <<pool, table, seen, binding, start, beat, failed, input>>

\* Mutant: handleWatchStop leaves the lease to the controller.
StopWithoutRelease(w) ==
    /\ stop[w] = "release"
    /\ stop' = [stop EXCEPT ![w] = "over"]
    /\ UNCHANGED <<pool, table, owners, start, beat, failed, input>>

StopRelease(w) ==
    /\ stop[w] = "release"
    /\ Release(w)
    /\ stop' = [stop EXCEPT ![w] = "over"]
    /\ UNCHANGED <<table, owners, start, beat, failed, input>>

(***************************************************************************)
(* The controller's input: Resolve                                         *)
(***************************************************************************)
\* Mutant: the reservation is not adopted exclusively.
AdoptAgain(i, w) ==
    /\ input[i].pc = "none"
    /\ w \in owner
    /\ binding' = [binding EXCEPT ![w] = i]
    /\ input' = [input EXCEPT ![i].pc = "resolve", ![i].watch = w]
    /\ UNCHANGED <<pool, table, owner, seen, handlers>>

\* A reservation is adopted by its owner only, and only once.
Adopt(i, w) ==
    /\ input[i].pc = "none"
    /\ w \in owner
    /\ binding[w] = None
    /\ binding' = [binding EXCEPT ![w] = i]
    /\ input' = [input EXCEPT ![i].pc = "resolve", ![i].watch = w]
    /\ UNCHANGED <<pool, table, owner, seen, handlers>>

OpenAlone(i) ==
    /\ input[i].pc = "none"
    /\ input' = [input EXCEPT ![i].pc = "resolve"]
    /\ UNCHANGED <<pool, table, owners, handlers>>

Play(i, account) == [input EXCEPT ![i].pc = "live", ![i].account = account]
Tried(i, k) == [input EXCEPT ![i].tried = @ \cup {k}]

\* One candidate after the other, in an order that mediaBackoff changes; the
\* first that resolves is played.
Resolve(i) ==
    /\ input[i].pc = "resolve"
    /\ \E k \in Candidates \ input[i].tried :
       \/ /\ Stations[k] = {}
          /\ input' = Play(i, None)
          /\ UNCHANGED pool
       \/ \E offer \in Stations[k] :
          \/ /\ Granted(PoolID(i), offer)
             /\ input' = Play(i, leases'[PoolID(i)].account)
          \/ /\ Refused(PoolID(i), offer)
             /\ input' = Tried(i, k)
    /\ UNCHANGED <<table, owners, handlers>>

Unbind(i) ==
    binding' = [w \in Watches |-> IF w = input[i].watch /\ binding[w] = i
                                  THEN None ELSE binding[w]]

ResolveFails(i) ==
    /\ input[i].pc = "resolve"
    /\ input[i].tried = Candidates
    /\ Unbind(i)
    /\ input' = [input EXCEPT ![i].pc = "over"]
    /\ UNCHANGED <<pool, table, owner, seen, handlers>>

(***************************************************************************)
(* The open input: Heartbeat, Fallback and Release                         *)
(***************************************************************************)
\* Heartbeat reports an error when the source needs an account and its lease
\* is gone; the controller then ends the input.
InputBeat(i) ==
    /\ input[i].pc = "live"
    /\ seen' = IF input[i].watch \in owner
               THEN [seen EXCEPT ![input[i].watch] = 0] ELSE seen
    /\ Touch(PoolID(i))
    /\ input' = IF HasLease(PoolID(i)) \/ input[i].account = None THEN input
                ELSE [input EXCEPT ![i].pc = "release"]
    /\ UNCHANGED <<table, owner, binding, handlers>>

Fallback(i) ==
    /\ input[i].pc = "live"
    /\ Reject(PoolID(i))
    /\ input' = [input EXCEPT ![i].pc = "retry", ![i].account = None]
    /\ UNCHANGED <<table, owners, handlers>>

\* The candidate that failed is asked once more, the others after it.  One
\* that resolves to another format is passed over, and its lease stays until
\* the next one replaces it.
Retry(i) ==
    /\ input[i].pc = "retry"
    /\ \E k \in Candidates \ input[i].tried, sameFormat \in BOOLEAN :
       \/ /\ Stations[k] = {}
          /\ input' = IF sameFormat THEN Play(i, None) ELSE Tried(i, k)
          /\ UNCHANGED pool
       \/ \E offer \in Stations[k] :
          \/ /\ Granted(PoolID(i), offer)
             /\ input' = IF sameFormat
                         THEN Play(i, leases'[PoolID(i)].account) ELSE Tried(i, k)
          \/ /\ Refused(PoolID(i), offer)
             /\ input' = Tried(i, k)
    /\ UNCHANGED <<table, owners, handlers>>

\* The controller ends an input: no alternative is left, its viewer is gone
\* or has abandoned it.
EndInput(i) ==
    /\ \/ input[i].pc = "live"
       \/ input[i].pc = "retry" /\ input[i].tried = Candidates
    /\ input' = [input EXCEPT ![i].pc = "release"]
    /\ UNCHANGED <<pool, table, owners, handlers>>

\* Mutant: the end of an input is handled like a failure of its stream.
ReleaseFallsBack(i) ==
    /\ input[i].pc = "release"
    /\ Release(PoolID(i))
    /\ input' = [input EXCEPT ![i].pc = "retry", ![i].account = None]
    /\ UNCHANGED <<table, owners, handlers>>

\* Release: first the lease, then the binding.
ReleaseInput(i) ==
    /\ input[i].pc = "release"
    /\ Release(PoolID(i))
    /\ input' = [input EXCEPT ![i].pc = "unbind", ![i].account = None]
    /\ UNCHANGED <<table, owners, handlers>>

UnbindInput(i) ==
    /\ input[i].pc = "unbind"
    /\ Unbind(i)
    /\ input' = [input EXCEPT ![i].pc = "over"]
    /\ UNCHANGED <<pool, table, owner, seen, handlers>>

(***************************************************************************)
(* handleLiveTVStream and handleLiveTVSession: a play of the contract      *)
(***************************************************************************)
Others == <<table, owners, handlers, input>>

PlayStream(p) ==
    /\ \E k \in Candidates : \E offer \in Stations[k] :
          Granted(p, offer) \/ Refused(p, offer)
    /\ UNCHANGED Others

PlayBeat(p) == Touch(p) /\ UNCHANGED Others
PlayStop(p) == Release(p) /\ UNCHANGED Others

\* handleAdminSources reports the usage of every source.
ReportUsage == Usage /\ UNCHANGED Others

Pass ==
    /\ Tick
    /\ quiet' = [w \in Watches |-> IF row[w] \in {"live", "ended"} /\ quiet[w] <= RowTTL
                                   THEN quiet[w] + 1 ELSE quiet[w]]
    /\ seen' = [w \in Watches |-> IF w \in owner /\ seen[w] <= SeenTTL
                                  THEN seen[w] + 1 ELSE seen[w]]
    /\ UNCHANGED <<row, owner, binding, handlers, input>>

-----------------------------------------------------------------------------
\* What a handler or the controller does once it has begun.
Handle(w) ==
    \/ Reserve(w) \/ StartFails(w) \/ Register(w)
    \/ BeatStore(w) \/ BeatTouch(w)
    \/ StopStore(w) \/ StopMedia(w) \/ StopForget(w) \/ StopRelease(w)

Control(i) ==
    \/ Resolve(i) \/ ResolveFails(i) \/ Retry(i)
    \/ ReleaseInput(i) \/ UnbindInput(i)

Next ==
    \/ \E w \in Watches : StartWatch(w) \/ Beat(w) \/ Stop(w) \/ Handle(w)
    \/ \E i \in Inputs :
          \/ \E w \in Watches : Adopt(i, w)
          \/ OpenAlone(i) \/ Control(i)
          \/ InputBeat(i) \/ Fallback(i) \/ EndInput(i)
    \/ \E p \in Plays : PlayStream(p) \/ PlayBeat(p) \/ PlayStop(p)
    \/ ReportUsage
    \/ Pass

Spec == Init /\ [][Next]_vars

\* Handlers and the controller go on, the clock does, and the controller ends
\* an input nobody asks for any more (abandoned shared leases expire after
\* 75 seconds): strongly fair, since the input may fall back to another
\* connection again and again and its age goes on all the while.  Nobody has
\* to start, renew or stop a watch.
Abandoned(i) == input[i].watch # None /\ stop[input[i].watch] = "over"

Fairness ==
    /\ \A w \in Watches : WF_vars(Handle(w))
    /\ \A i \in Inputs : /\ WF_vars(Control(i))
                         /\ SF_vars(EndInput(i) /\ Abandoned(i))
    /\ WF_vars(Pass)

FairSpec == Spec /\ Fairness

-----------------------------------------------------------------------------
(***************************************************************************)
(* Properties                                                              *)
(***************************************************************************)
\* The types of the tables and of the handlers' local state.
TypeOK ==
    /\ PoolTypeOK
    /\ row \in [Watches -> {"none", "live", "ended", "gone"}]
    /\ quiet \in [Watches -> 0 .. RowTTL + 1]
    /\ owner \subseteq Watches
    /\ seen \in [Watches -> 0 .. SeenTTL + 1]
    /\ binding \in [Watches -> Inputs \cup {None}]
    /\ start \in [Watches -> {"idle", "reserve", "register", "done", "failed"}]
    /\ beat \in [Watches -> {"idle", "store", "touch"}]
    /\ stop \in [Watches -> {"idle", "store", "media", "forget", "release", "over"}]
    /\ failed \in [Watches -> SUBSET Candidates]
    /\ input \in [Inputs -> [pc : {"none", "resolve", "live", "retry", "release",
                                   "unbind", "over"},
                             watch : Watches \cup {None},
                             tried : SUBSET Candidates,
                             account : Accounts \cup {None}]]

Using(i) == input[i].pc \in {"resolve", "live", "retry", "release"}

\* Two inputs never live on the lease of one watch, though the bindings of
\* silent watches are dropped while their inputs are still open.
OneInputPerWatch ==
    \A i, j \in Inputs :
        Using(i) /\ Using(j) /\ input[i].watch = input[j].watch
            => i = j \/ input[i].watch = None

\* The lease an open stream is counted under is never one of another account:
\* it is the account the stream uses, or it is gone and the next heartbeat
\* of the input notices.
StreamIsCounted ==
    \A i \in Inputs :
        input[i].pc = "live" /\ input[i].account # None =>
            leases[PoolID(i)].account \in {input[i].account, None}

\* A watch whose stop was answered, and whose inputs are closed, holds no
\* connection, in whatever order the heartbeat, the stop and the controller
\* took their steps.
NothingLeftBehind ==
    /\ \A w \in Watches :
          stop[w] = "over" /\ (\A i \in Inputs : input[i].watch = w => ~Using(i))
              => leases[w].account = None
    /\ \A i \in Inputs :
          input[i].pc \in {"unbind", "over"} => leases[i].account = None

\* The table of watches keeps its limit, whatever mixture of live, silent and
\* ended rows is in the way of a new one.
RowsAreBounded ==
    Cardinality({w \in Watches : row[w] \in {"live", "ended"}}) <= MaxRows

\* A watch that has ended stays ended: a heartbeat that was on its way does
\* not revive it.
EndedStaysEnded ==
    [][\A w \in Watches :
          row[w] \in {"ended", "gone"} => row'[w] \in {"ended", "gone"}]_table

\* After a stop was answered the connection of the watch becomes free for
\* good.
StoppedWatchFreesAccount ==
    \A w \in Watches : stop[w] = "over" ~> []~Live(w)
=============================================================================
