--------------------------- MODULE CatalogRefresh ---------------------------
(***************************************************************************)
(* Everything that rewrites the catalog: the handlers, tasks and fills     *)
(* that ask for a refresh (internal/plugin/routes.go, tasks.go,            *)
(* livetv_guide_fill.go), the coordinator that admits one refresh at a     *)
(* time, the service of CatalogSync and the store of CatalogStore, with a  *)
(* change of the settings or a restart between any two steps.              *)
(*                                                                         *)
(* The coordinator is reduced to what RefreshCoordinator says of it: one   *)
(* current job, which a newer one cancels and replaces, and one call at a  *)
(* time inside the service.  A replaced job that has not begun never does. *)
(* Deadlines are left out: they only make a call fail where the provider   *)
(* may fail anyway.                                                        *)
(***************************************************************************)
EXTENDS CatalogSync

CONSTANTS
    PlainSource,    \* Configs -> LiveTVSource(mode), without profile access
    Hydrators,      \* requests inside ensureCatalogHydrated
    Tasks,          \* runs of a scheduled task
    Operations,     \* what the tasks refresh
    Asks,           \* what the handlers start
    Batches,        \* the guide batches: "ping", "fill"
    Changes,        \* the changes of the settings that may happen
    Visible,        \* the sets of channels that a batch is about
    MaxTime         \* bound of the clock

Runners == Hydrators \cup Tasks

ASSUME RefreshAssumption ==
    /\ PlainSource \in [Configs -> Sources]
    /\ Hydrators \cap Tasks = {}
    /\ Operations \subseteq {"catalog", "channels", "guide"}
    /\ Asks \subseteq {"force", "catalog", "channels"}
    /\ Batches \subseteq {"ping", "fill"}
    /\ Changes \subseteq Configs \X Configs
    /\ Visible \subseteq SUBSET Channels
    /\ MaxTime \in Nat

VARIABLES
    settings,   \* the configuration in the settings
    now,        \* time.Now
    job,        \* c.job
    holder,     \* who is inside the service: "none", "job", "old" (a job that
                \* has been replaced) or "batch"
    batch,      \* the guide ping or the batch of a guide fill
    ask,        \* the handler that starts a job and does not wait for it
    runner      \* the requests and tasks that call Run and wait

requests == <<holder, batch, ask, runner>>
vars == <<served, disk, call, settings, now, job, requests>>

NoJob == [op |-> "", config |-> None, at |-> 0, state |-> "idle"]
NoBatch == [kind |-> "", config |-> None, at |-> 0, wanted |-> {}, pc |-> "idle",
            canceled |-> FALSE]
NoAsk == [op |-> "", config |-> None]
NoRun == [pc |-> "idle", op |-> "", config |-> None, again |-> FALSE]

NoRuns == [r \in Runners |-> NoRun]

Init ==
    /\ served = NoSnapshot /\ disk = NoSnapshot
    /\ settings \in Configs /\ now = 1
    /\ call = NoCall /\ job = NoJob /\ holder = "none"
    /\ batch = NoBatch /\ ask = NoAsk /\ runner = NoRuns

(***************************************************************************)
(* The coordinator                                                         *)
(***************************************************************************)
Active == job.state \in {"queued", "running"}

OpCovers(active, requested) ==
    \/ active \in {requested, "force"}
    \/ active = "catalog" /\ requested # "force"

Priority == [force |-> 4, catalog |-> 3, channels |-> 2, guide |-> 1]

\* A runner whose wait is over.  After a job that did not cover its operation
\* it starts again; a request that has hydrated the catalog goes on.
Awake(r, result) ==
    IF result = "error" THEN NoRun
    ELSE IF runner[r].again THEN [runner[r] EXCEPT !.pc = "run"]
    ELSE IF r \in Hydrators THEN [runner[r] EXCEPT !.pc = "done"]
    ELSE NoRun

\* The waiters of a job that is replaced: it fails once it gets its turn, or
\* ends the way its call ends.
Abandoned(runners) ==
    [r \in Runners |->
        IF runners[r].pc # "wait" THEN runners[r]
        ELSE [runners[r] EXCEPT !.pc = IF job.state = "running" THEN "old"
                                       ELSE "canceled"]]

\* c.cancel() and nextJobLocked: the current job is replaced; batches end with
\* a change of configuration.
Supersede(op, k) ==
    /\ job' = [op |-> op, config |-> k, at |-> now, state |-> "queued"]
    /\ holder' = IF holder = "job" THEN "old" ELSE holder
    /\ call' = IF holder = "job" \/ (holder = "batch" /\ job.config # k)
               THEN [call EXCEPT !.canceled = TRUE] ELSE call
    /\ batch' = IF batch.pc = "queued" /\ job.config # k
                THEN [batch EXCEPT !.canceled = TRUE] ELSE batch

\* Start, by a caller that is or is not one of the runners.
Start(op, k, runners) ==
    IF /\ Active /\ job.config = k
       /\ OpCovers(job.op, op) \/ Priority[job.op] >= Priority[op]
    THEN runner' = runners /\ UNCHANGED <<job, holder, call, batch>>
    ELSE runner' = Abandoned(runners) /\ Supersede(op, k)

\* Run, up to the wait for an execution: of the current job if that has the
\* same configuration, of a new one otherwise.
Run(r) ==
    /\ runner[r].pc = "run"
    /\ IF Active /\ job.config = runner[r].config
       THEN /\ runner' = [runner EXCEPT ![r].pc = "wait",
                             ![r].again = ~OpCovers(job.op, runner[r].op)]
            /\ UNCHANGED <<job, holder, call, batch>>
       ELSE /\ runner' = [Abandoned(runner) EXCEPT ![r].pc = "wait", ![r].again = FALSE]
            /\ Supersede(runner[r].op, runner[r].config)
    /\ UNCHANGED <<served, disk, settings, now, ask>>

\* A waiter of a job that was replaced before it got its turn.
Refused(r) ==
    /\ runner[r].pc = "canceled"
    /\ holder = "none"
    /\ runner' = [runner EXCEPT ![r] = NoRun]
    /\ UNCHANGED <<served, disk, call, settings, now, job, holder, batch, ask>>

\* execute takes runMu and enters the service.
AdmitJob ==
    /\ holder = "none"
    /\ job.state = "queued"
    /\ job' = [job EXCEPT !.state = "running"]
    /\ holder' = "job"
    /\ Enter(job.op, job.config, job.at, {})
    /\ UNCHANGED <<served, disk, settings, now, batch, ask, runner>>

\* execute: finish and complete.
FinishJob ==
    /\ call.pc = "returned"
    /\ holder \in {"job", "old"}
    /\ job' = IF holder = "job"
              THEN [NoJob EXCEPT !.config = job.config, !.state = "over"] ELSE job
    /\ runner' = LET waiting == IF holder = "job" THEN "wait" ELSE "old"
                 IN  [r \in Runners |-> IF runner[r].pc = waiting
                                        THEN Awake(r, call.result) ELSE runner[r]]
    /\ holder' = "none"
    /\ call' = NoCall
    /\ UNCHANGED <<served, disk, settings, now, batch, ask>>

(***************************************************************************)
(* Handlers that start a job: a forced refresh, a refresh after a change   *)
(* of the sources, a channel refresh or profile warm                       *)
(***************************************************************************)
HydrateLocked == \E h \in Hydrators : runner[h].pc \notin {"idle", "captured"}

\* A forced refresh holds hydrateMu until it has started its job.
Ask(op) ==
    /\ ask = NoAsk
    /\ IF op = "force" THEN ~HydrateLocked /\ MarkEPGLoading
       ELSE UNCHANGED <<served, disk>>
    /\ ask' = [op |-> op, config |-> settings]
    /\ UNCHANGED <<call, settings, now, job, holder, batch, runner>>

StartAsked ==
    /\ ask # NoAsk
    /\ Start(ask.op, ask.config, runner)
    /\ ask' = NoAsk
    /\ UNCHANGED <<served, disk, settings, now>>

(***************************************************************************)
(* RunGuideChannels, for a guide ping or one batch of a guide fill         *)
(***************************************************************************)
AskBatch(kind, wanted) ==
    /\ batch = NoBatch
    /\ kind = "fill" => Kind[settings] = "xtream"
    /\ IF kind = "ping" THEN MarkEPGLoading ELSE UNCHANGED <<served, disk>>
    /\ batch' = [NoBatch EXCEPT !.kind = kind, !.config = settings, !.at = now,
                                !.wanted = wanted, !.pc = "register"]
    /\ UNCHANGED <<call, settings, now, job, holder, ask, runner>>

\* A failed ping is recorded, a failed batch of a fill is not.
BatchEnds(result) ==
    batch' = IF result = "error" /\ batch.kind = "ping"
             THEN [batch EXCEPT !.pc = "failed"] ELSE NoBatch

Register ==
    /\ batch.pc = "register"
    /\ IF job.config \in {None, batch.config}
       THEN /\ batch' = [batch EXCEPT !.pc = "queued"]
            /\ job' = [job EXCEPT !.config = batch.config]
       ELSE BatchEnds("error") /\ UNCHANGED job
    /\ UNCHANGED <<served, disk, call, settings, now, holder, ask, runner>>

AdmitBatch ==
    /\ holder = "none"
    /\ batch.pc = "queued"
    /\ IF batch.canceled
       THEN BatchEnds("error") /\ UNCHANGED <<call, holder>>
       ELSE /\ Enter("batch", batch.config, batch.at, batch.wanted)
            /\ holder' = "batch"
            /\ batch' = [batch EXCEPT !.pc = "inside"]
    /\ UNCHANGED <<served, disk, settings, now, job, ask, runner>>

FinishBatch ==
    /\ call.pc = "returned"
    /\ holder = "batch"
    /\ BatchEnds(call.result)
    /\ holder' = "none"
    /\ call' = NoCall
    /\ UNCHANGED <<served, disk, settings, now, job, ask, runner>>

RecordPing ==
    /\ batch.pc = "failed"
    /\ RecordEPGFailure
    /\ batch' = NoBatch
    /\ UNCHANGED <<call, settings, now, job, holder, ask, runner>>

(***************************************************************************)
(* Scheduled tasks and ensureCatalogHydrated                               *)
(***************************************************************************)
Task(r, op) ==
    /\ runner[r] = NoRun
    /\ runner' = [runner EXCEPT ![r] = [NoRun EXCEPT !.pc = "run", !.op = op,
                                                     !.config = settings]]
    /\ UNCHANGED <<served, disk, call, settings, now, job, holder, batch, ask>>

Matches(k) == served.channels # {} /\ served.config = k

\* The settings are read before hydrateMu is taken.
Capture(r) ==
    /\ runner[r] = NoRun
    /\ ~Matches(settings)
    /\ runner' = [runner EXCEPT ![r] = [NoRun EXCEPT !.pc = "captured", !.op = "catalog",
                                                     !.config = settings]]
    /\ UNCHANGED <<served, disk, call, settings, now, job, holder, batch, ask>>

\* A lineup of another configuration is dropped, outside of the coordinator.
Hydrate(r) ==
    /\ runner[r].pc = "captured"
    /\ ~HydrateLocked /\ ask.op # "force"
    /\ LET k     == runner[r].config
           empty == [NoSnapshot EXCEPT !.config = k, !.source = PlainSource[k]]
       IN  IF Matches(k)
           THEN runner' = [runner EXCEPT ![r] = NoRun] /\ UNCHANGED <<served, disk>>
           ELSE /\ runner' = [runner EXCEPT ![r].pc = "run"]
                /\ IF served.channels = {} THEN UNCHANGED <<served, disk>>
                   ELSE Commit(Merged(served, empty, FALSE, now))
    /\ UNCHANGED <<call, settings, now, job, holder, batch, ask>>

\* Without a guide, or with the cooldown over, one is asked for.
Hydrated(r) ==
    /\ runner[r].pc = "done"
    /\ \/ /\ served.programs = {}
          /\ MarkEPGLoading
          /\ runner' = [runner EXCEPT ![r].pc = "warm"]
       \/ /\ runner' = [runner EXCEPT ![r] = NoRun]
          /\ UNCHANGED <<served, disk>>
    /\ UNCHANGED <<call, settings, now, job, holder, batch, ask>>

Warm(r) ==
    /\ runner[r].pc = "warm"
    /\ Start("guide", runner[r].config, [runner EXCEPT ![r] = NoRun])
    /\ UNCHANGED <<served, disk, settings, now, ask>>

(***************************************************************************)
(* The rest of the world                                                   *)
(***************************************************************************)
ChangeSettings ==
    /\ settings' \in Configs
    /\ <<settings, settings'>> \in Changes
    /\ UNCHANGED <<served, disk, call, now, job, requests>>

Tick ==
    /\ now < MaxTime
    /\ now' = now + 1
    /\ UNCHANGED <<served, disk, call, settings, job, requests>>

\* The process ends at any point; a new one loads what is stored.
Restart ==
    /\ Restore
    /\ call' = NoCall /\ job' = NoJob /\ holder' = "none"
    /\ batch' = NoBatch /\ ask' = NoAsk /\ runner' = NoRuns
    /\ UNCHANGED <<settings, now>>

Serve == Service /\ UNCHANGED <<settings, now, job, requests>>

Progress ==
    \/ AdmitJob \/ FinishJob \/ StartAsked
    \/ Register \/ AdmitBatch \/ FinishBatch \/ RecordPing
    \/ \E r \in Runners : Run(r) \/ Refused(r)
    \/ \E h \in Hydrators : Hydrate(h) \/ Hydrated(h) \/ Warm(h)

Requests ==
    \/ \E op \in Asks : Ask(op)
    \/ \E kind \in Batches, wanted \in Visible : AskBatch(kind, wanted)
    \/ \E t \in Tasks, op \in Operations : Task(t, op)
    \/ \E h \in Hydrators : Capture(h)

Next == Serve \/ Progress \/ Requests \/ ChangeSettings \/ Tick \/ Restart

Spec == Init /\ [][Next]_vars

\* With hydrations that reset the store only while no call is in the service.
ResetsAlone ==
    \A h \in Hydrators :
        runner[h].pc = "captured" /\ runner'[h].pc = "run" => holder = "none"

SerialSpec == Init /\ [][Next /\ ResetsAlone]_vars

(***************************************************************************)
(* Properties                                                              *)
(***************************************************************************)
CallPcs == {"out", "sync", "health", "publish", "save", "read", "fetch", "check",
            "write", "record", "recorded", "split", "channels", "short", "returned"}
RunnerPcs == {"idle", "captured", "run", "wait", "old", "canceled", "done", "warm"}

\* Every variable has its type, and somebody is in the service exactly when
\* the call is not out.
TypeOK ==
    /\ served \in Snapshots /\ disk \in Snapshots
    /\ settings \in Configs /\ now \in 1 .. MaxTime
    /\ job.config \in Configs \cup {None}
    /\ job.state \in {"idle", "queued", "running", "over"}
    /\ call.pc \in CallPcs /\ call.programs \subseteq Programs
    /\ holder \in {"none", "job", "old", "batch"}
    /\ holder = "none" <=> call.pc = "out"
    /\ holder = "job" => job.state = "running"
    /\ holder = "batch" <=> batch.pc = "inside"
    /\ \A r \in Runners : /\ runner[r].pc \in RunnerPcs
                          /\ runner[r].pc = "wait" => Active

\* store.go: what is served has been stored first, so that a restart serves
\* the same lineup and the same guide again.
ServedIsStored ==
    served.channels # {} =>
        <<disk.config, disk.source, disk.channels, disk.programs>>
            = <<served.config, served.source, served.channels, served.programs>>

\* README, "Guide data": a guide is served under the configuration it was
\* fetched with, whatever guides, lineups and health a refresh keeps.
GuideWithinScope ==
    served.config # None => \A p \in served.programs : p.config = served.config

\* The programs of a guide that somebody can still watch, and their channels.
Watchable(programs, at) == {p \in programs : p.end = 0 \/ p.end > at}
Halved(old, new) == 2 * Cardinality(new) < Cardinality(old)

SameScope == served.config = served'.config /\ served.source = served'.source
SameLineup == served.channels # {} /\ Covers(served, served'.channels)

\* store.go: while configuration and lineup stay, no refresh, failure, late
\* writer or restart leaves an empty guide for one with programs, nor one that
\* has fewer programs and less than half of what can still be watched.  (A
\* guide that arrives where no lineup is served is lost with the process: Save
\* only stores snapshots with channels.)
GuideKept ==
    [][SameScope /\ SameLineup /\ served.programs # {} =>
          /\ served'.programs # {}
          /\ LET old == Watchable(served.programs, call.at)
                 new == Watchable(served'.programs, call.at)
             IN  Halved(old, new) \/ Halved(ChannelsOf(old), ChannelsOf(new)) =>
                     Cardinality(served'.programs) >= Cardinality(served.programs)]_vars

=============================================================================
