------------------------ MODULE CatalogRefreshProofs ------------------------
(***************************************************************************)
(* Proofs about CatalogRefresh: what is served has been stored, in every   *)
(* behaviour; a guide stays within its configuration when hydration resets *)
(* the store while no call is in the service; and a guide is kept against  *)
(* an empty or a collapsed one.                                            *)
(***************************************************************************)
EXTENDS CatalogRefresh, FiniteSetTheorems, TLAPS

(***************************************************************************)
(* What the operations of the store make of a snapshot                     *)
(***************************************************************************)
IsSnapshot(x) ==
    DOMAIN x = {"config", "source", "channels", "programs", "durable", "synced",
                "status", "count", "inner"}

LEMMA EmptyIsSnapshot == IsSnapshot(NoSnapshot)
BY DEF IsSnapshot, NoSnapshot

\* Merging takes everything but the guide and its health from the new snapshot,
\* and a guide that it keeps is one of the same scope.
LEMMA MergedFields ==
    ASSUME NEW current, NEW next, NEW exact, NEW at,
           IsSnapshot(current), IsSnapshot(next)
    PROVE  LET result == Merged(current, next, exact, at)
           IN  /\ IsSnapshot(result)
               /\ result.config = next.config
               /\ result.source = next.source
               /\ result.channels = next.channels
               /\ \/ result.programs = next.programs
                  \/ /\ result.programs = current.programs
                     /\ current.programs # {}
                     /\ SameGuideScope(current, next)
<1> DEFINE kept == KeepGuide(current, next)
           mirrored == Mirror(current, kept)
<1>1. /\ IsSnapshot(kept)
      /\ kept.config = next.config
      /\ kept.source = next.source
      /\ kept.channels = next.channels
      /\ kept.programs = current.programs
  BY DEF KeepGuide, IsSnapshot
<1>2. /\ IsSnapshot(mirrored)
      /\ mirrored.config = next.config
      /\ mirrored.source = next.source
      /\ mirrored.channels = next.channels
      /\ mirrored.programs = current.programs
  <2> HIDE DEF kept
  <2> QED BY <1>1 DEF Mirror, IsSnapshot
<1>3. ASSUME NEW x, IsSnapshot(x)
      PROVE  LET y == Described(current, x)
             IN  /\ IsSnapshot(y)
                 /\ y.config = x.config
                 /\ y.source = x.source
                 /\ y.channels = x.channels
                 /\ y.programs = x.programs
  BY <1>3 DEF Described, IsSnapshot
<1>4. RejectsGuide(current, next, at) =>
          SameGuideScope(current, next) /\ current.programs # {}
  BY DEF RejectsGuide, Regressed, Relevant
<1>5. ShouldPreserveGuide(current, next) =>
          SameGuideScope(current, next) /\ current.programs # {}
  BY DEF ShouldPreserveGuide
<1> HIDE DEF kept, mirrored
<1>6. CASE exact /\ RejectsGuide(current, next, at)
  <2>1. Merged(current, next, exact, at) = Described(current, mirrored)
    BY <1>6 DEF Merged, mirrored, kept
  <2> QED BY <2>1, <1>2, <1>3, <1>4, <1>6
<1>7. CASE ~exact /\ ShouldPreserveGuide(current, next)
  <2>1. Merged(current, next, exact, at) = Described(current, kept)
    BY <1>7 DEF Merged, kept
  <2> QED BY <2>1, <1>1, <1>3, <1>5, <1>7
<1>8. CASE /\ ~(exact /\ RejectsGuide(current, next, at))
           /\ ~(~exact /\ ShouldPreserveGuide(current, next))
  <2>1. Merged(current, next, exact, at) = Described(current, next)
    BY <1>8 DEF Merged
  <2> QED BY <2>1, <1>3
<1> QED BY <1>6, <1>7, <1>8

\* A guide refresh changes nothing but the guide and its health.
LEMMA WithGuideFields ==
    ASSUME NEW current, NEW programs, NEW at, IsSnapshot(current)
    PROVE  LET result == WithGuide(current, programs, at)
           IN  /\ IsSnapshot(result)
               /\ result.config = current.config
               /\ result.source = current.source
               /\ result.channels = current.channels
               /\ result.programs \in {current.programs, programs}
BY DEF WithGuide, Mirror, IsSnapshot

(***************************************************************************)
(* What is served has been stored                                          *)
(***************************************************************************)
StoreInv == IsSnapshot(served) /\ IsSnapshot(disk) /\ ServedIsStored

LEMMA CommitStores ==
    ASSUME NEW x, IsSnapshot(x), Commit(x), IsSnapshot(disk)
    PROVE  StoreInv'
BY DEF Commit, StoreInv, ServedIsStored, IsSnapshot

LEMMA MarksStore ==
    ASSUME StoreInv, MarkEPGLoading \/ RecordEPGFailure
    PROVE  StoreInv'
BY DEF MarkEPGLoading, RecordEPGFailure, StoreInv, ServedIsStored, IsSnapshot

LEMMA RestoreStores ==
    ASSUME StoreInv, Restore
    PROVE  StoreInv'
<1>1. CASE disk = NoSnapshot
  BY <1>1, EmptyIsSnapshot DEF Restore, StoreInv, ServedIsStored, NoSnapshot
<1>2. CASE disk # NoSnapshot
  <2> DEFINE loaded == Merged(NoSnapshot, disk, FALSE, 0)
  <2>1. NoSnapshot.programs = {}
    BY DEF NoSnapshot
  <2>2. /\ IsSnapshot(loaded)
        /\ loaded.config = disk.config
        /\ loaded.source = disk.source
        /\ loaded.channels = disk.channels
        /\ loaded.programs = disk.programs
    <3> DEFINE exact == FALSE
               merged == Merged(NoSnapshot, disk, exact, 0)
    <3>1. IsSnapshot(disk) BY DEF StoreInv
    <3>2. loaded = merged OBVIOUS
    <3> HIDE DEF exact
    <3>3. /\ IsSnapshot(merged)
          /\ merged.config = disk.config
          /\ merged.source = disk.source
          /\ merged.channels = disk.channels
          /\ merged.programs = disk.programs \/ NoSnapshot.programs # {}
      BY <3>1, EmptyIsSnapshot, MergedFields
    <3> HIDE DEF merged, loaded
    <3> QED BY <3>2, <3>3, <2>1
  <2>3. served' = loaded /\ disk' = disk
    BY <1>2 DEF Restore
  <2> HIDE DEF loaded
  <2> QED BY <2>2, <2>3 DEF StoreInv, ServedIsStored
<1> QED BY <1>1, <1>2

LEMMA UnchangedStores ==
    ASSUME StoreInv, UNCHANGED <<served, disk>>
    PROVE  StoreInv'
BY DEF StoreInv, ServedIsStored, IsSnapshot

LEMMA ServiceStores ==
    ASSUME StoreInv, Service
    PROVE  StoreInv'
<1> USE UnchangedStores DEF store
<1>1. ASSUME NEW p \in Providers, LoadProvider(p) PROVE StoreInv'
  BY <1>1 DEF LoadProvider
<1>2. CASE LoadedAll BY <1>2 DEF LoadedAll
<1>3. CASE LoadOther BY <1>3 DEF LoadOther
<1>4. CASE DescribeHealth BY <1>4 DEF DescribeHealth
<1>5. CASE Publish
  <2>1. PICK source \in SourceOf[call.config] :
            LET exact == call.op = "force" /\ call.programs # {}
                next  == [config |-> call.config, source |-> source,
                          channels |-> call.channels, programs |-> call.programs,
                          durable |-> FALSE, synced |-> TRUE, status |-> call.status,
                          count |-> call.count, inner |-> call.status]
                result == Merged(served, next, exact, call.at)
            IN  Commit(result) \/ CommitFails(result)
    BY <1>5 DEF Publish
  <2> DEFINE next == [config |-> call.config, source |-> source,
                      channels |-> call.channels, programs |-> call.programs,
                      durable |-> FALSE, synced |-> TRUE, status |-> call.status,
                      count |-> call.count, inner |-> call.status]
             result == Merged(served, next, call.op = "force" /\ call.programs # {}, call.at)
  <2>2. IsSnapshot(next) BY DEF IsSnapshot
  <2> HIDE DEF next
  <2>3. IsSnapshot(result) BY <2>2, MergedFields DEF StoreInv
  <2>4. Commit(result) \/ CommitFails(result) BY <2>1 DEF next
  <2> HIDE DEF result
  <2> QED BY <2>3, <2>4, CommitStores DEF CommitFails, StoreInv
<1>6. CASE Save BY <1>6, CommitStores DEF Save, CommitFails, StoreInv
<1>7. CASE Read BY <1>7 DEF Read
<1>8. CASE FetchProviders BY <1>8 DEF FetchProviders
<1>9. CASE FetchOther BY <1>9 DEF FetchOther
<1>10. CASE Check BY <1>10 DEF Check
<1>11. CASE Write
  <2> DEFINE result == WithGuide(served, call.programs, call.at)
  <2>1. IsSnapshot(result) BY WithGuideFields DEF StoreInv
  <2>2. UNCHANGED store \/ Commit(result) \/ CommitFails(result)
    BY <1>11 DEF Write
  <2> HIDE DEF result
  <2> QED BY <2>1, <2>2, CommitStores DEF CommitFails, StoreInv
<1>12. CASE Record BY <1>12, MarksStore DEF Record
<1>13. CASE Recorded BY <1>13, CommitStores DEF Recorded, CommitFails, StoreInv
<1>14. CASE Split BY <1>14 DEF Split
<1>15. CASE ReadChannels BY <1>15 DEF ReadChannels
<1>16. CASE FetchChannels BY <1>16 DEF FetchChannels
<1> QED BY <1>1, <1>2, <1>3, <1>4, <1>5, <1>6, <1>7, <1>8, <1>9, <1>10, <1>11,
           <1>12, <1>13, <1>14, <1>15, <1>16 DEF Service

LEMMA HydrateStores ==
    ASSUME StoreInv, NEW h \in Hydrators, Hydrate(h)
    PROVE  StoreInv'
<1> DEFINE empty == [NoSnapshot EXCEPT !.config = runner[h].config,
                                       !.source = PlainSource[runner[h].config]]
           result == Merged(served, empty, FALSE, now)
<1>1. IsSnapshot(empty) BY DEF IsSnapshot, NoSnapshot
<1>2. UNCHANGED <<served, disk>> \/ Commit(result)
  BY DEF Hydrate
<1> HIDE DEF empty
<1>3. IsSnapshot(result) BY <1>1, MergedFields DEF StoreInv
<1> HIDE DEF result
<1> QED BY <1>2, <1>3, CommitStores, UnchangedStores DEF StoreInv

LEMMA StepStores ==
    ASSUME StoreInv, [Next]_vars
    PROVE  StoreInv'
<1> USE UnchangedStores
<1>1. CASE Serve BY <1>1, ServiceStores DEF Serve
<1>2. CASE Progress
  <2>1. CASE AdmitJob BY <2>1 DEF AdmitJob
  <2>2. CASE FinishJob BY <2>2 DEF FinishJob
  <2>3. CASE StartAsked BY <2>3 DEF StartAsked
  <2>4. CASE Register BY <2>4 DEF Register
  <2>5. CASE AdmitBatch BY <2>5 DEF AdmitBatch
  <2>6. CASE FinishBatch BY <2>6 DEF FinishBatch
  <2>7. CASE RecordPing BY <2>7, MarksStore DEF RecordPing
  <2>8. ASSUME NEW r \in Runners, Run(r) \/ Refused(r) PROVE StoreInv'
    BY <2>8 DEF Run, Refused
  <2>9. ASSUME NEW h \in Hydrators, Hydrate(h) \/ Hydrated(h) \/ Warm(h) PROVE StoreInv'
    BY <2>9, HydrateStores, MarksStore DEF Hydrated, Warm
  <2> QED BY <1>2, <2>1, <2>2, <2>3, <2>4, <2>5, <2>6, <2>7, <2>8, <2>9 DEF Progress
<1>3. CASE Requests
  <2>1. ASSUME NEW op \in Asks, Ask(op) PROVE StoreInv'
    BY <2>1, MarksStore DEF Ask
  <2>2. ASSUME NEW kind \in Batches, NEW wanted \in Visible, AskBatch(kind, wanted)
        PROVE  StoreInv'
    BY <2>2, MarksStore DEF AskBatch
  <2>3. ASSUME NEW t \in Tasks, NEW op \in Operations, Task(t, op) PROVE StoreInv'
    BY <2>3 DEF Task
  <2>4. ASSUME NEW h \in Hydrators, Capture(h) PROVE StoreInv'
    BY <2>4 DEF Capture
  <2> QED BY <1>3, <2>1, <2>2, <2>3, <2>4 DEF Requests
<1>4. CASE ChangeSettings BY <1>4 DEF ChangeSettings
<1>5. CASE Tick BY <1>5 DEF Tick
<1>6. CASE Restart BY <1>6, RestoreStores DEF Restart
<1>7. CASE UNCHANGED vars BY <1>7 DEF vars
<1> QED BY <1>1, <1>2, <1>3, <1>4, <1>5, <1>6, <1>7 DEF Next

\* Whatever fails, is late, or ends with the process: a lineup and a guide that
\* are served are also what a restart serves (store.go, replace and Save).
THEOREM StoredFirst == Spec => []ServedIsStored
<1>1. Init => StoreInv
  BY EmptyIsSnapshot DEF Init, StoreInv, ServedIsStored
<1>2. StoreInv /\ [Next]_vars => StoreInv'
  BY StepStores
<1>3. StoreInv => ServedIsStored
  BY DEF StoreInv
<1> QED BY <1>1, <1>2, <1>3, PTL DEF Spec

(***************************************************************************)
(* A guide stays within its configuration                                  *)
(***************************************************************************)
OfConfig(programs, k) == \A p \in programs : p.config = k

\* A snapshot without a configuration has no source either, so that none of
\* its programs pass for those of a configuration.
ScopedSnapshot(x) ==
    /\ IsSnapshot(x)
    /\ x.config # None => OfConfig(x.programs, x.config)
    /\ x.config = None => x.source = None /\ x.channels = {}

\* Whoever asks for a refresh has read a configuration from the settings.
JobOps == {"force", "catalog", "channels", "guide"}

Requested(x) == x.op \in JobOps /\ x.config \in Configs

RequestInv ==
    /\ settings \in Configs
    /\ DOMAIN job = {"op", "config", "at", "state"}
    /\ job.state = "queued" => Requested(job)
    /\ DOMAIN batch = {"kind", "config", "at", "wanted", "pc", "canceled"}
    /\ batch.pc \in {"register", "queued"} => batch.config \in Configs
    /\ ask # NoAsk => Requested(ask)
    /\ DOMAIN runner = Runners
    /\ \A r \in Runners : /\ DOMAIN runner[r] = {"pc", "op", "config", "again"}
                          /\ runner[r].pc # "idle" => Requested(runner[r])

\* Where a call holds programs, and of which configuration they and the store
\* are while it refreshes a guide.
CallInv ==
    /\ DOMAIN call = {"op", "config", "at", "pc", "canceled", "wanted", "only", "todo",
                      "good", "failed", "base", "channels", "programs", "status",
                      "count", "result"}
    /\ call.pc \notin {"out", "returned"} => call.config \in Configs
    /\ call.pc \in {"sync", "health", "publish"} => OfConfig(call.programs, call.config)
    /\ call.pc \in {"read", "fetch", "check", "write", "split", "channels", "short"} =>
          served.config \in {call.config, None}
    /\ call.pc \in {"check", "write"} /\ served.config # None =>
          OfConfig(call.programs, call.config)
    /\ call.pc \in {"split", "channels"} => call.programs = {}
    /\ call.pc = "short" \/ (call.pc = "fetch" /\ IsXtream) =>
          ScopedSnapshot(call.base) /\ call.base.config = served.config

StoreScoped == ScopedSnapshot(served) /\ ScopedSnapshot(disk)

ScopeInv ==
    /\ StoreScoped
    /\ CallInv
    /\ RequestInv
    /\ holder = "none" => call.pc = "out"

LEMMA EmptyIsScoped == ScopedSnapshot(NoSnapshot)
BY EmptyIsSnapshot DEF ScopedSnapshot, NoSnapshot

LEMMA CommitScoped ==
    ASSUME NEW x, ScopedSnapshot(x), ScopedSnapshot(disk), Commit(x)
    PROVE  /\ ScopedSnapshot(served)' /\ ScopedSnapshot(disk)'
           /\ served'.config = x.config
BY DEF Commit, ScopedSnapshot, IsSnapshot

LEMMA MarksScoped ==
    ASSUME ScopedSnapshot(served), ScopedSnapshot(disk),
           MarkEPGLoading \/ RecordEPGFailure
    PROVE  /\ ScopedSnapshot(served)' /\ ScopedSnapshot(disk)'
           /\ served'.config = served.config
BY DEF MarkEPGLoading, RecordEPGFailure, ScopedSnapshot, IsSnapshot

LEMMA MergedScoped ==
    ASSUME NEW next, NEW exact, NEW at, ScopedSnapshot(served), ScopedSnapshot(next),
           next.config # None, next.source # None
    PROVE  /\ ScopedSnapshot(Merged(served, next, exact, at))
           /\ Merged(served, next, exact, at).config = next.config
<1> DEFINE result == Merged(served, next, exact, at)
<1>1. /\ IsSnapshot(result)
      /\ result.config = next.config
      /\ \/ result.programs = next.programs
         \/ result.programs = served.programs /\ SameGuideScope(served, next)
  BY MergedFields DEF ScopedSnapshot
<1> HIDE DEF result
<1>2. SameGuideScope(served, next) => served.config = next.config
  BY DEF SameGuideScope, ScopedSnapshot
<1>3. OfConfig(result.programs, next.config)
  BY <1>1, <1>2 DEF ScopedSnapshot, OfConfig
<1>4. ScopedSnapshot(result)
  BY <1>1, <1>3 DEF ScopedSnapshot
<1> QED BY <1>1, <1>4 DEF result

LEMMA RestoreScoped ==
    ASSUME ScopedSnapshot(disk), Restore
    PROVE  ScopedSnapshot(served)' /\ ScopedSnapshot(disk)'
<1>1. disk' = disk BY DEF Restore
<1>2. CASE disk = NoSnapshot
  BY <1>1, <1>2, EmptyIsScoped DEF Restore, ScopedSnapshot, IsSnapshot
<1>3. CASE disk # NoSnapshot
  <2> DEFINE exact == FALSE
             loaded == Merged(NoSnapshot, disk, exact, 0)
  <2>1. served' = loaded BY <1>3 DEF Restore
  <2> HIDE DEF exact
  <2>2. /\ IsSnapshot(loaded)
        /\ loaded.config = disk.config
        /\ loaded.source = disk.source
        /\ loaded.channels = disk.channels
        /\ loaded.programs = disk.programs \/ NoSnapshot.programs # {}
    BY EmptyIsSnapshot, MergedFields DEF ScopedSnapshot
  <2>3. NoSnapshot.programs = {} BY DEF NoSnapshot
  <2> HIDE DEF loaded
  <2> QED BY <1>1, <2>1, <2>2, <2>3 DEF ScopedSnapshot
<1> QED BY <1>2, <1>3
(***************************************************************************)
(* Requests                                                                *)
(***************************************************************************)
IsRun(x) == DOMAIN x = {"pc", "op", "config", "again"} /\ (x.pc # "idle" => Requested(x))

RunsInv(runners) == DOMAIN runners = Runners /\ \A r \in Runners : IsRun(runners[r])

LEMMA AbandonedRuns ==
    ASSUME NEW runners, RunsInv(runners)
    PROVE  RunsInv(Abandoned(runners))
BY DEF RunsInv, IsRun, Abandoned, Requested

LEMMA IdleRuns == IsRun(NoRun)
BY DEF IsRun, NoRun

\* Starting a job leaves the requests as they are, or is one of them.
LEMMA StartRequests ==
    ASSUME RequestInv, NEW op \in JobOps, NEW k \in Configs, NEW runners,
           RunsInv(runners), Start(op, k, runners)
    PROVE  /\ RunsInv(runner')
           /\ DOMAIN job' = {"op", "config", "at", "state"}
           /\ job'.state = "queued" => Requested(job')
           /\ DOMAIN batch' = {"kind", "config", "at", "wanted", "pc", "canceled"}
           /\ batch'.pc \in {"register", "queued"} => batch'.config \in Configs
<1>1. CASE UNCHANGED <<job, batch>> /\ runner' = runners
  BY <1>1 DEF RequestInv
<1>2. CASE runner' = Abandoned(runners) /\ Supersede(op, k)
  <2>1. RunsInv(runner') BY <1>2, AbandonedRuns
  <2>2. /\ job' = [op |-> op, config |-> k, at |-> now, state |-> "queued"]
        /\ batch' \in {batch, [batch EXCEPT !.canceled = TRUE]}
    BY <1>2 DEF Supersede
  <2> QED BY <2>1, <2>2 DEF RequestInv, Requested
<1> QED BY <1>1, <1>2 DEF Start

LEMMA RequestsKept ==
    ASSUME RequestInv, Next
    PROVE  RequestInv'
<1> DEFINE JobInv == /\ DOMAIN job = {"op", "config", "at", "state"}
                     /\ job.state = "queued" => Requested(job)
           BatchInv == /\ DOMAIN batch = {"kind", "config", "at", "wanted", "pc", "canceled"}
                       /\ batch.pc \in {"register", "queued"} => batch.config \in Configs
           AskInv == ask # NoAsk => Requested(ask)
<1>1. RequestInv <=> settings \in Configs /\ JobInv /\ BatchInv /\ AskInv /\ RunsInv(runner)
  BY DEF RequestInv, RunsInv, IsRun
<1>2. RequestInv' <=> /\ settings' \in Configs /\ JobInv' /\ BatchInv' /\ AskInv'
                      /\ RunsInv(runner')
  BY DEF RequestInv, RunsInv, IsRun, Requested
<1>3. JobInv /\ UNCHANGED job => JobInv' BY DEF Requested
<1>4. BatchInv /\ UNCHANGED batch => BatchInv' OBVIOUS
<1>5. AskInv /\ UNCHANGED ask => AskInv' BY DEF Requested
<1>6. ASSUME NEW r \in Runners, NEW x, RunsInv(runner), IsRun(x),
             runner' = [runner EXCEPT ![r] = x]
      PROVE  RunsInv(runner')
  BY <1>6 DEF RunsInv
<1>7. ASSUME NEW op \in JobOps, NEW k \in Configs, NEW runners,
             RunsInv(runners), Start(op, k, runners)
      PROVE  JobInv' /\ BatchInv' /\ RunsInv(runner')
  BY <1>7, StartRequests DEF Requested
<1> HIDE DEF JobInv, BatchInv, AskInv
<1>8. CASE Serve BY <1>8, <1>1, <1>2, <1>3, <1>4, <1>5 DEF Serve, requests
<1>9. CASE ChangeSettings \/ Tick
  BY <1>9, <1>1, <1>2, <1>3, <1>4, <1>5 DEF ChangeSettings, Tick, requests
<1>10. CASE Restart
  <2>1. JobInv' /\ BatchInv' /\ AskInv'
    BY <1>10 DEF Restart, JobInv, BatchInv, AskInv, NoJob, NoBatch
  <2>2. RunsInv(runner') BY <1>10, IdleRuns DEF Restart, RunsInv, NoRuns
  <2> QED BY <1>10, <1>1, <1>2, <2>1, <2>2 DEF Restart
<1>11. ASSUME NEW op \in Asks, Ask(op) PROVE RequestInv'
  <2>1. AskInv'
    BY <1>11, <1>1, RefreshAssumption DEF Ask, AskInv, Requested, JobOps
  <2> QED BY <1>11, <1>1, <1>2, <1>3, <1>4, <2>1 DEF Ask
<1>12. ASSUME NEW kind \in Batches, NEW wanted \in Visible, AskBatch(kind, wanted)
       PROVE  RequestInv'
  <2>1. BatchInv' BY <1>12, <1>1 DEF AskBatch, BatchInv, NoBatch
  <2> QED BY <1>12, <1>1, <1>2, <1>3, <1>5, <2>1 DEF AskBatch
<1>13. ASSUME NEW r \in Tasks, NEW op \in Operations, Task(r, op) PROVE RequestInv'
  <2> DEFINE x == [NoRun EXCEPT !.pc = "run", !.op = op, !.config = settings]
  <2>1. IsRun(x) BY <1>1, RefreshAssumption DEF IsRun, NoRun, Requested, JobOps
  <2>2. runner' = [runner EXCEPT ![r] = x] /\ r \in Runners BY <1>13 DEF Task, Runners
  <2> HIDE DEF x
  <2>3. RunsInv(runner') BY <1>1, <1>6, <2>1, <2>2
  <2> QED BY <1>13, <1>1, <1>2, <1>3, <1>4, <1>5, <2>3 DEF Task
<1>14. ASSUME NEW r \in Hydrators, Capture(r) PROVE RequestInv'
  <2> DEFINE x == [NoRun EXCEPT !.pc = "captured", !.op = "catalog", !.config = settings]
  <2>1. IsRun(x) BY <1>1 DEF IsRun, NoRun, Requested, JobOps
  <2>2. runner' = [runner EXCEPT ![r] = x] /\ r \in Runners BY <1>14 DEF Capture, Runners
  <2> HIDE DEF x
  <2>3. RunsInv(runner') BY <1>1, <1>6, <2>1, <2>2
  <2> QED BY <1>14, <1>1, <1>2, <1>3, <1>4, <1>5, <2>3 DEF Capture
<1>15. ASSUME NEW r \in Runners, Run(r) PROVE RequestInv'
  <2>1. Requested(runner[r]) BY <1>15, <1>1 DEF Run, RunsInv, IsRun
  <2>2. CASE runner' = [runner EXCEPT ![r].pc = "wait",
                           ![r].again = ~OpCovers(job.op, runner[r].op)]
             /\ UNCHANGED <<job, batch>>
    <3>1. RunsInv(runner') BY <2>1, <2>2, <1>1 DEF RunsInv, IsRun, Requested
    <3> QED BY <1>15, <1>1, <1>2, <1>3, <1>4, <1>5, <2>2, <3>1 DEF Run
  <2>3. CASE runner' = [Abandoned(runner) EXCEPT ![r].pc = "wait", ![r].again = FALSE]
             /\ Supersede(runner[r].op, runner[r].config)
    <3> DEFINE runners == Abandoned(runner)
    <3>1. RunsInv(runners) BY <1>1, AbandonedRuns
    <3>2. runners[r].op = runner[r].op /\ runners[r].config = runner[r].config
      BY <1>1 DEF Abandoned, RunsInv, IsRun
    <3>3. runner' = [runners EXCEPT ![r].pc = "wait", ![r].again = FALSE] BY <2>3
    <3> HIDE DEF runners
    <3>4. RunsInv(runner') BY <2>1, <3>1, <3>2, <3>3 DEF RunsInv, IsRun, Requested
    <3>5. JobInv' BY <2>1, <2>3 DEF Supersede, JobInv, Requested
    <3>6. BatchInv' BY <2>3, <1>1 DEF Supersede, BatchInv
    <3> QED BY <1>15, <1>1, <1>2, <1>5, <3>4, <3>5, <3>6 DEF Run
  <2> QED BY <1>15, <2>2, <2>3 DEF Run
<1>16. ASSUME NEW r \in Runners, Refused(r) PROVE RequestInv'
  <2>1. RunsInv(runner') BY <1>16, <1>1, <1>6, IdleRuns DEF Refused
  <2> QED BY <1>16, <1>1, <1>2, <1>3, <1>4, <1>5, <2>1 DEF Refused
<1>17. ASSUME NEW r \in Hydrators, Hydrate(r) \/ Hydrated(r) PROVE RequestInv'
  <2>1. r \in Runners BY DEF Runners
  <2>2. CASE runner' = [runner EXCEPT ![r] = NoRun]
    <3>1. RunsInv(runner') BY <2>1, <2>2, <1>1, <1>6, IdleRuns
    <3> QED BY <1>17, <1>1, <1>2, <1>3, <1>4, <1>5, <3>1 DEF Hydrate, Hydrated
  <2>3. CASE \/ runner[r].pc = "captured" /\ runner' = [runner EXCEPT ![r].pc = "run"]
             \/ runner[r].pc = "done" /\ runner' = [runner EXCEPT ![r].pc = "warm"]
    <3>1. RunsInv(runner') BY <2>1, <2>3, <1>1 DEF RunsInv, IsRun, Requested
    <3> QED BY <1>17, <1>1, <1>2, <1>3, <1>4, <1>5, <3>1 DEF Hydrate, Hydrated
  <2> QED BY <1>17, <2>2, <2>3 DEF Hydrate, Hydrated
<1>18. ASSUME NEW r \in Hydrators, Warm(r) PROVE RequestInv'
  <2> DEFINE runners == [runner EXCEPT ![r] = NoRun]
  <2>1. r \in Runners BY DEF Runners
  <2>2. RunsInv(runners) BY <2>1, <1>1, IdleRuns DEF RunsInv
  <2>3. runner[r].config \in Configs BY <1>18, <2>1, <1>1 DEF Warm, RunsInv, IsRun, Requested
  <2>4. Start("guide", runner[r].config, runners) BY <1>18 DEF Warm
  <2> HIDE DEF runners
  <2>5. JobInv' /\ BatchInv' /\ RunsInv(runner') BY <1>7, <2>2, <2>3, <2>4 DEF JobOps
  <2> QED BY <1>18, <1>1, <1>2, <1>5, <2>5 DEF Warm
<1>19. CASE StartAsked
  <2>1. ask.op \in JobOps /\ ask.config \in Configs
    BY <1>19, <1>1 DEF StartAsked, AskInv, Requested
  <2>2. JobInv' /\ BatchInv' /\ RunsInv(runner') BY <1>19, <1>1, <1>7, <2>1 DEF StartAsked
  <2>3. AskInv' BY <1>19 DEF StartAsked, AskInv
  <2> QED BY <1>19, <1>1, <1>2, <2>2, <2>3 DEF StartAsked
<1>20. CASE AdmitJob
  <2>1. JobInv' BY <1>20, <1>1 DEF AdmitJob, JobInv, Requested
  <2> QED BY <1>20, <1>1, <1>2, <1>4, <1>5, <2>1 DEF AdmitJob
<1>21. CASE FinishJob
  <2>1. JobInv' BY <1>21, <1>1, <1>3 DEF FinishJob, JobInv, NoJob, Requested
  <2>2. ASSUME NEW r \in Runners, NEW result, runner[r].pc \in {"wait", "old"}
        PROVE  IsRun(Awake(r, result))
    <3>1. IsRun(runner[r]) BY <1>1 DEF RunsInv
    <3>2. Requested(runner[r]) BY <2>2, <3>1 DEF IsRun
    <3>3. ASSUME NEW pc
          PROVE  IsRun([runner[r] EXCEPT !.pc = pc])
      BY <3>1, <3>2 DEF IsRun, Requested
    <3> QED BY <3>3, IdleRuns DEF Awake
  <2>3. RunsInv(runner') BY <1>21, <1>1, <2>2 DEF FinishJob, RunsInv
  <2> QED BY <1>21, <1>1, <1>2, <1>4, <1>5, <2>1, <2>3 DEF FinishJob
<1>22. ASSUME NEW result, BatchInv, BatchEnds(result) PROVE BatchInv'
  <2>1. CASE batch' = NoBatch BY <2>1 DEF BatchInv, NoBatch
  <2>2. CASE batch' = [batch EXCEPT !.pc = "failed"] BY <2>2, <1>22 DEF BatchInv
  <2> QED BY <2>1, <2>2, <1>22 DEF BatchEnds
<1>23. CASE Register
  <2>1. JobInv' BY <1>23, <1>1, <1>3 DEF Register, JobInv, BatchInv, Requested
  <2>2. BatchInv' BY <1>23, <1>1, <1>22 DEF Register, BatchInv
  <2> QED BY <1>23, <1>1, <1>2, <1>5, <2>1, <2>2 DEF Register
<1>24. CASE AdmitBatch \/ FinishBatch \/ RecordPing
  <2>1. ASSUME NEW result, BatchEnds(result) PROVE BatchInv' BY <2>1, <1>1, <1>22
  <2>2. ASSUME batch' = NoBatch PROVE BatchInv' BY <2>2 DEF BatchInv, NoBatch
  <2>3. ASSUME batch' = [batch EXCEPT !.pc = "inside"] PROVE BatchInv'
    BY <2>3, <1>1 DEF BatchInv
  <2>4. BatchInv'
    BY <1>24, <2>1, <2>2, <2>3 DEF AdmitBatch, FinishBatch, RecordPing
  <2> QED BY <1>24, <1>1, <1>2, <1>3, <1>5, <2>4 DEF AdmitBatch, FinishBatch, RecordPing
<1> QED BY <1>8, <1>9, <1>10, <1>11, <1>12, <1>13, <1>14, <1>15, <1>16, <1>17, <1>18,
           <1>19, <1>20, <1>21, <1>23, <1>24 DEF Next, Progress, Requests
(***************************************************************************)
(* The service                                                             *)
(***************************************************************************)
InService == call.pc \notin {"out", "returned"}

LEMMA OutOfServiceScoped ==
    ASSUME call'.pc \in {"out", "returned"},
           call' \in {NoCall, [NoCall EXCEPT !.pc = "returned", !.result = call'.result]}
    PROVE  CallInv'
BY DEF CallInv, NoCall

LEMMA ReturnScoped ==
    ASSUME NEW result, Return(result)
    PROVE  CallInv'
<1>1. call'.result = result /\ call'.pc = "returned"
  BY DEF Return, NoCall
<1> QED BY <1>1, OutOfServiceScoped DEF Return

\* The last steps of a call need nothing of the programs it holds.
LEMMA LastStepsScoped ==
    ASSUME CallInv, InService, NEW pc \in {"save", "record", "recorded"}, Goto(pc)
    PROVE  CallInv'
<1>1. /\ DOMAIN call' = DOMAIN call
      /\ call'.pc = pc
      /\ call'.config = call.config
  BY DEF Goto, CallInv
<1> QED BY <1>1 DEF CallInv, InService, IsXtream

LEMMA FailScoped ==
    ASSUME CallInv, InService, Fail
    PROVE  CallInv'
BY ReturnScoped, LastStepsScoped DEF Fail

\* A step with no program of another configuration on the way to the store.
LEMMA LoadingScoped ==
    ASSUME CallInv, InService, NEW pc \in {"sync", "health", "publish"},
           DOMAIN call' = DOMAIN call, call'.pc = pc, call'.config = call.config,
           OfConfig(call'.programs, call.config)
    PROVE  CallInv'
BY DEF CallInv, InService, IsXtream, OfConfig

LEMMA KeptScoped ==
    ASSUME ScopedSnapshot(served), NEW k \in Configs, NEW channels
    PROVE  OfConfig(Kept(served, k, channels), k)
BY StoreAssumption DEF Kept, OnChannels, OfConfig, ScopedSnapshot

LEMMA FeedScoped ==
    ASSUME CallInv, InService, NEW guide \in Guides, NEW channels
    PROVE  OfConfig(OnChannels(guide, channels), call.config)
BY SyncAssumption DEF CallInv, InService, Guides, OnChannels, OfConfig

LEMMA SyncScoped ==
    ASSUME StoreScoped, CallInv,
           \/ \E p \in Providers : LoadProvider(p)
           \/ LoadedAll \/ LoadOther \/ DescribeHealth
    PROVE  CallInv'
<1>1. ASSUME NEW p \in Providers, LoadProvider(p) PROVE CallInv'
  <2>1. /\ InService /\ call.config \in Configs /\ OfConfig(call.programs, call.config)
        /\ call.pc = "sync"
    BY <1>1 DEF LoadProvider, InService, CallInv
  <2>2. PICK channels, programs, good, failed :
            /\ call' = [call EXCEPT !.todo = @ \ {p}, !.good = good, !.failed = failed,
                                    !.channels = @ \cup channels,
                                    !.programs = @ \cup programs]
            /\ OfConfig(programs, call.config)
    <3>1. ASSUME NEW lineup \in Lineups[call.config], NEW guide \in Guides,
                 call' = [call EXCEPT !.todo = @ \ {p}, !.good = TRUE,
                            !.channels = @ \cup OfProvider(lineup, p),
                            !.programs = @ \cup
                               IF call.op = "channels"
                               THEN Kept(served, call.config, OfProvider(lineup, p))
                               ELSE OnChannels(guide, OfProvider(lineup, p))]
          PROVE  \E channels, programs, good, failed :
                    /\ call' = [call EXCEPT !.todo = @ \ {p}, !.good = good,
                                    !.failed = failed,
                                    !.channels = @ \cup channels,
                                    !.programs = @ \cup programs]
                    /\ OfConfig(programs, call.config)
      <4> DEFINE channels == OfProvider(lineup, p)
                 programs == IF call.op = "channels"
                             THEN Kept(served, call.config, channels)
                             ELSE OnChannels(guide, channels)
      <4>1. OfConfig(programs, call.config)
        BY <2>1, KeptScoped, FeedScoped DEF StoreScoped
      <4>2. call' = [call EXCEPT !.todo = @ \ {p}, !.good = TRUE,
                        !.channels = @ \cup channels, !.programs = @ \cup programs]
        BY <3>1
      <4> HIDE DEF channels, programs
      <4>3. call' = [call EXCEPT !.todo = @ \ {p}, !.good = TRUE, !.failed = call.failed,
                        !.channels = @ \cup channels, !.programs = @ \cup programs]
        BY <4>2 DEF CallInv
      <4> QED BY <4>1, <4>3
    <3>2. ASSUME NEW channels,
                 call' = [call EXCEPT !.todo = @ \ {p}, !.failed = TRUE,
                            !.channels = @ \cup channels,
                            !.programs = @ \cup Kept(served, call.config, channels)]
          PROVE  \E chs, programs, good, failed :
                    /\ call' = [call EXCEPT !.todo = @ \ {p}, !.good = good,
                                    !.failed = failed,
                                    !.channels = @ \cup chs,
                                    !.programs = @ \cup programs]
                    /\ OfConfig(programs, call.config)
      <4> DEFINE programs == Kept(served, call.config, channels)
      <4>1. OfConfig(programs, call.config)
        BY <2>1, KeptScoped DEF StoreScoped
      <4> HIDE DEF programs
      <4>2. call' = [call EXCEPT !.todo = @ \ {p}, !.good = call.good, !.failed = TRUE,
                        !.channels = @ \cup channels, !.programs = @ \cup programs]
        BY <3>2 DEF CallInv, programs
      <4> QED BY <4>1, <4>2
    <3> QED BY <1>1, <3>1, <3>2 DEF LoadProvider
  <2>3. /\ DOMAIN call' = DOMAIN call /\ call'.pc = "sync"
        /\ call'.config = call.config
        /\ call'.programs = call.programs \cup programs
    BY <2>1, <2>2 DEF CallInv
  <2>4. OfConfig(call'.programs, call.config)
    BY <2>1, <2>2, <2>3 DEF OfConfig
  <2> QED BY <2>1, <2>3, <2>4, LoadingScoped
<1>2. CASE LoadedAll
  <2>1. InService /\ OfConfig(call.programs, call.config)
    BY <1>2 DEF LoadedAll, InService, CallInv
  <2>2. CASE Goto("health")
    <3>1. /\ DOMAIN call' = DOMAIN call /\ call'.pc = "health"
          /\ call'.config = call.config /\ call'.programs = call.programs
      BY <2>2 DEF Goto, CallInv
    <3> QED BY <2>1, <3>1, LoadingScoped
  <2> QED BY <1>2, <2>1, <2>2, FailScoped DEF LoadedAll
<1>3. CASE LoadOther
  <2>1. InService /\ call.config \in Configs
    BY <1>3 DEF LoadOther, InService, CallInv
  <2>2. ASSUME NEW lineup, NEW guide \in Guides,
               call' = [call EXCEPT !.pc = "health", !.channels = lineup,
                           !.programs = IF call.op = "channels" THEN Preserved(lineup)
                                        ELSE OnChannels(guide, lineup)]
        PROVE  CallInv'
    <3> DEFINE programs == IF call.op = "channels" THEN Preserved(lineup)
                           ELSE OnChannels(guide, lineup)
    <3>1. OfConfig({}, call.config) BY DEF OfConfig
    <3>2. OfConfig(programs, call.config)
      BY <2>1, <3>1, KeptScoped, FeedScoped DEF Preserved, StoreScoped
    <3> HIDE DEF programs
    <3>3. /\ DOMAIN call' = DOMAIN call /\ call'.pc = "health"
          /\ call'.config = call.config /\ call'.programs = programs
      BY <2>2 DEF CallInv, programs
    <3> QED BY <2>1, <3>2, <3>3, LoadingScoped
  <2> QED BY <1>3, <2>1, <2>2, FailScoped DEF LoadOther
<1>4. CASE DescribeHealth
  <2>1. InService /\ OfConfig(call.programs, call.config)
    BY <1>4 DEF DescribeHealth, InService, CallInv
  <2>2. PICK status, count : call' = [call EXCEPT !.pc = "publish", !.status = status,
                                                  !.count = count]
    BY <1>4 DEF DescribeHealth
  <2>3. /\ DOMAIN call' = DOMAIN call /\ call'.pc = "publish"
        /\ call'.config = call.config /\ call'.programs = call.programs
    BY <2>2 DEF CallInv
  <2> QED BY <2>1, <2>3, LoadingScoped
<1> QED BY <1>1, <1>2, <1>3, <1>4
LEMMA StoredScoped ==
    ASSUME StoreScoped, NEW x, ScopedSnapshot(x), Commit(x) \/ CommitFails(x)
    PROVE  StoreScoped'
BY CommitScoped DEF StoreScoped, CommitFails, store, ScopedSnapshot, IsSnapshot

LEMMA PublishScoped ==
    ASSUME StoreScoped, CallInv, Publish \/ Save
    PROVE  StoreScoped' /\ CallInv'
<1>1. InService /\ call.config \in Configs
  BY DEF Publish, Save, InService, CallInv
<1>2. CASE Publish
  <2>1. PICK source \in SourceOf[call.config] :
            LET exact == call.op = "force" /\ call.programs # {}
                next  == [config |-> call.config, source |-> source,
                          channels |-> call.channels, programs |-> call.programs,
                          durable |-> FALSE, synced |-> TRUE, status |-> call.status,
                          count |-> call.count, inner |-> call.status]
                result == Merged(served, next, exact, call.at)
            IN  \/ /\ Commit(result)
                   /\ IF call.failed THEN Goto("save") ELSE Return("ok")
                \/ CommitFails(result) /\ Fail
    BY <1>2 DEF Publish
  <2> DEFINE exact == call.op = "force" /\ call.programs # {}
             next == [config |-> call.config, source |-> source,
                      channels |-> call.channels, programs |-> call.programs,
                      durable |-> FALSE, synced |-> TRUE, status |-> call.status,
                      count |-> call.count, inner |-> call.status]
             result == Merged(served, next, exact, call.at)
  <2>2. source \in Sources BY <1>1, SyncAssumption
  <2>3. OfConfig(call.programs, call.config) BY <1>2 DEF Publish, CallInv
  <2>4. ScopedSnapshot(next) /\ next.config # None /\ next.source # None
    BY <1>1, <2>2, <2>3, StoreAssumption DEF ScopedSnapshot, IsSnapshot
  <2>5. \/ Commit(result) /\ IF call.failed THEN Goto("save") ELSE Return("ok")
        \/ CommitFails(result) /\ Fail
    BY <2>1
  <2> HIDE DEF next, exact
  <2>6. ScopedSnapshot(result) BY <2>4, MergedScoped DEF StoreScoped
  <2> HIDE DEF result
  <2>7. StoreScoped' BY <2>5, <2>6, StoredScoped
  <2>8. CallInv' BY <1>1, <2>5, FailScoped, ReturnScoped, LastStepsScoped
  <2> QED BY <2>7, <2>8
<1>3. CASE Save
  <2>1. StoreScoped' BY <1>3, StoredScoped DEF Save, StoreScoped
  <2>2. CallInv' BY <1>1, <1>3, FailScoped, ReturnScoped DEF Save
  <2> QED BY <2>1, <2>2
<1> QED BY <1>2, <1>3

GuidePcs == {"read", "fetch", "check", "write", "split", "channels", "short"}

LEMMA GuidePcsOf ==
    CallInv /\ call.pc \in GuidePcs =>
        /\ InService /\ call.config \in Configs
        /\ served.config \in {call.config, None}
BY DEF CallInv, GuidePcs, InService

\* A refresh of the guide has fetched, and goes on to check and write.
LEMMA CheckedScoped ==
    ASSUME CallInv, call.pc \in GuidePcs, NEW pc \in {"check", "write"},
           UNCHANGED store,
           DOMAIN call' = DOMAIN call, call'.pc = pc, call'.config = call.config,
           served.config # None => OfConfig(call'.programs, call.config)
    PROVE  CallInv'
BY GuidePcsOf DEF CallInv, InService, IsXtream, OfConfig, store

LEMMA UnionOfConfig ==
    ASSUME NEW S, NEW k, \A programs \in S : OfConfig(programs, k)
    PROVE  OfConfig(UNION S, k)
BY DEF OfConfig

LEMMA FetchProvidersScoped ==
    ASSUME StoreScoped, CallInv, FetchProviders
    PROVE  CallInv'
<1>1. /\ call.pc \in GuidePcs /\ InService /\ call.config \in Configs
      /\ ScopedSnapshot(call.base) /\ call.base.config = served.config
      /\ UNCHANGED store
  BY GuidePcsOf DEF FetchProviders, GuidePcs, CallInv, IsXtream
<1>2. CASE Return("error") BY <1>2, ReturnScoped
<1>3. CASE ~Return("error")
  <2> DEFINE base == call.base
             asked == {p \in Providers : /\ call.only = {} \/ p \in call.only
                                         /\ OfProvider(base.channels, p) # {}}
             others == {c \in base.channels : call.only # {} /\ Owner[c] \notin call.only}
             Fetched(fresh, guide) ==
                {OnChannels(guide[p], OfProvider(base.channels, p)) : p \in fresh}
             Stale(fresh) ==
                {Kept(base, call.config, OfProvider(base.channels, p)) : p \in asked \ fresh}
             Together(fresh, guide) == OnChannels(base.programs, others)
                \cup (UNION Fetched(fresh, guide)) \cup (UNION Stale(fresh))
  <2>1. PICK fresh \in SUBSET asked : \E guide \in [fresh -> Feeds[call.config]] :
           call' = [call EXCEPT !.pc = "check", !.programs = Together(fresh, guide)]
    BY <1>3 DEF FetchProviders
  <2>2. PICK guide \in [fresh -> Feeds[call.config]] :
           call' = [call EXCEPT !.pc = "check", !.programs = Together(fresh, guide)]
    BY <2>1
  <2> HIDE DEF Together
  <2>3. /\ DOMAIN call' = DOMAIN call /\ call'.pc = "check" /\ call'.config = call.config
        /\ call'.programs = Together(fresh, guide)
    BY <2>2 DEF CallInv
  <2>4. ASSUME served.config # None PROVE OfConfig(Together(fresh, guide), call.config)
    <3>1. OfConfig(base.programs, call.config)
      BY <1>1, <2>4, GuidePcsOf DEF ScopedSnapshot
    <3>2. ASSUME NEW channels PROVE OfConfig(OnChannels(base.programs, channels), call.config)
      BY <3>1 DEF OfConfig, OnChannels
    <3>3. OfConfig({}, call.config) BY DEF OfConfig
    <3>4. ASSUME NEW programs \in Stale(fresh) PROVE OfConfig(programs, call.config)
      BY <3>2, <3>3 DEF Kept
    <3>5. ASSUME NEW p \in fresh, NEW channels
          PROVE  OfConfig(OnChannels(guide[p], channels), call.config)
      BY <1>1, SyncAssumption DEF OfConfig, OnChannels
    <3>6. ASSUME NEW programs \in Fetched(fresh, guide) PROVE OfConfig(programs, call.config)
      BY <3>5
    <3> HIDE DEF Fetched, Stale
    <3>7. /\ OfConfig(UNION Fetched(fresh, guide), call.config)
          /\ OfConfig(UNION Stale(fresh), call.config)
      BY <3>4, <3>6, UnionOfConfig
    <3> QED BY <3>2, <3>7 DEF Together, OfConfig
  <2> QED BY <1>1, <2>3, <2>4, CheckedScoped
<1> QED BY <1>2, <1>3

LEMMA GuideScoped ==
    ASSUME StoreScoped, CallInv,
           Read \/ FetchProviders \/ FetchOther \/ Check
    PROVE  CallInv'
<1>1. call.pc \in GuidePcs /\ InService /\ UNCHANGED store
  BY GuidePcsOf DEF Read, FetchProviders, FetchOther, Check, GuidePcs
<1>2. CASE Read
  <2>1. /\ DOMAIN call' = DOMAIN call /\ call'.pc = "fetch"
        /\ call'.config = call.config /\ call'.base = served
    BY <1>2 DEF Read, CallInv
  <2>2. ScopedSnapshot(served)' BY <1>1 DEF StoreScoped, store, ScopedSnapshot, IsSnapshot
  <2>3. ScopedSnapshot(call'.base) BY <2>1 DEF StoreScoped
  <2> QED BY <1>1, <2>1, <2>3, GuidePcsOf DEF CallInv, IsXtream, store, InService
<1>3. CASE FetchProviders BY <1>3, FetchProvidersScoped
<1>4. CASE FetchOther
  <2>1. ASSUME NEW guide \in Guides, NEW channels, NEW pc \in {"check", "write"},
               call' = [call EXCEPT !.pc = pc, !.programs = OnChannels(guide, channels)]
        PROVE  CallInv'
    <3> DEFINE programs == OnChannels(guide, channels)
    <3>1. OfConfig(programs, call.config) BY <1>1, FeedScoped
    <3> HIDE DEF programs
    <3>2. /\ DOMAIN call' = DOMAIN call /\ call'.pc = pc
          /\ call'.config = call.config /\ call'.programs = programs
      BY <2>1 DEF CallInv, programs
    <3> QED BY <1>1, <3>1, <3>2, CheckedScoped
  <2>2. CASE Goto("record") BY <1>1, <2>2, LastStepsScoped
  <2> QED BY <1>4, <2>1, <2>2 DEF FetchOther
<1>5. CASE Check
  <2>1. CASE Goto("write")
    <3>1. /\ DOMAIN call' = DOMAIN call /\ call'.pc = "write"
          /\ call'.config = call.config /\ call'.programs = call.programs
      BY <2>1 DEF Goto, CallInv
    <3>2. served.config # None => OfConfig(call.programs, call.config)
      BY <1>5 DEF Check, CallInv
    <3> QED BY <1>1, <3>1, <3>2, CheckedScoped
  <2> QED BY <1>1, <1>5, <2>1, ReturnScoped, LastStepsScoped DEF Check
<1> QED BY <1>2, <1>3, <1>4, <1>5

LEMMA WriteScoped ==
    ASSUME StoreScoped, CallInv, Write
    PROVE  StoreScoped' /\ CallInv'
<1>1. /\ call.pc \in GuidePcs /\ InService
      /\ served.config # None => OfConfig(call.programs, call.config)
      /\ served.config \in {call.config, None}
  BY GuidePcsOf DEF Write, GuidePcs, CallInv
<1>2. CASE call.programs = {}
  BY <1>1, <1>2, LastStepsScoped
     DEF Write, StoreScoped, store, ScopedSnapshot, IsSnapshot
<1>3. CASE call.programs # {}
  <2> DEFINE result == WithGuide(served, call.programs, call.at)
             after == [call EXCEPT !.pc = "channels", !.only = {}, !.programs = {}]
  <2>1. /\ IsSnapshot(result)
        /\ result.config = served.config
        /\ result.source = served.source
        /\ result.channels = served.channels
        /\ result.programs \in {served.programs, call.programs}
    BY WithGuideFields DEF StoreScoped, ScopedSnapshot
  <2>2. \/ Commit(result) /\ (call' = after \/ Return("ok"))
        \/ CommitFails(result) /\ (Goto("record") \/ Return("error"))
    BY <1>3 DEF Write
  <2> HIDE DEF result, after
  <2>3. ScopedSnapshot(result)
    BY <1>1, <2>1 DEF StoreScoped, ScopedSnapshot, OfConfig
  <2>4. StoreScoped' BY <2>2, <2>3, StoredScoped
  <2>5. ASSUME Commit(result), call' = after PROVE CallInv'
    <3>1. served'.config = served.config BY <2>1, <2>3, <2>5, CommitScoped DEF StoreScoped
    <3>2. /\ DOMAIN call' = DOMAIN call /\ call'.pc = "channels"
          /\ call'.config = call.config /\ call'.programs = {}
      BY <2>5 DEF after, CallInv
    <3> QED BY <1>1, <3>1, <3>2 DEF CallInv, InService, IsXtream
  <2>6. CallInv' BY <1>1, <2>2, <2>5, ReturnScoped, LastStepsScoped
  <2> QED BY <2>4, <2>6
<1> QED BY <1>2, <1>3

LEMMA BatchScoped ==
    ASSUME StoreScoped, CallInv, Split \/ ReadChannels \/ FetchChannels
    PROVE  CallInv'
<1>1. call.pc \in GuidePcs /\ InService /\ call.config \in Configs /\ UNCHANGED store
  BY GuidePcsOf DEF Split, ReadChannels, FetchChannels, GuidePcs
<1>2. CASE Split
  <2>1. /\ DOMAIN call' = DOMAIN call /\ call'.pc \in {"channels", "read"}
        /\ call'.config = call.config /\ call'.programs = call.programs
    BY <1>2 DEF Split, CallInv
  <2>2. call.programs = {} BY <1>2 DEF Split, CallInv
  <2> QED BY <1>1, <2>1, <2>2, GuidePcsOf DEF CallInv, InService, IsXtream, store
<1>3. CASE ReadChannels
  <2>1. call.programs = {} BY <1>3 DEF ReadChannels, CallInv
  <2>2. CASE call' = [call EXCEPT !.pc = "sync", !.op = "catalog", !.todo = Providers]
    <3>1. /\ DOMAIN call' = DOMAIN call /\ call'.pc = "sync"
          /\ call'.config = call.config /\ call'.programs = {}
      BY <2>1, <2>2 DEF CallInv
    <3> QED BY <1>1, <3>1, LoadingScoped DEF OfConfig
  <2>3. CASE call' = [call EXCEPT !.pc = "short", !.base = served]
    <3>1. /\ DOMAIN call' = DOMAIN call /\ call'.pc = "short"
          /\ call'.config = call.config /\ call'.base = served
      BY <2>3 DEF CallInv
    <3>2. ScopedSnapshot(call'.base) BY <3>1 DEF StoreScoped
    <3> QED BY <1>1, <3>1, <3>2, GuidePcsOf DEF CallInv, InService, IsXtream, store
  <2> QED BY <1>3, <2>2, <2>3 DEF ReadChannels
<1>4. CASE FetchChannels
  <2>1. ScopedSnapshot(call.base) /\ call.base.config = served.config
    BY <1>4 DEF FetchChannels, CallInv
  <2>2. ASSUME NEW answered, NEW guide \in Guides,
               call' = [call EXCEPT !.pc = "check",
                  !.programs = OnChannels(call.base.programs,
                                          call.base.channels \ call.wanted)
                                  \cup OnChannels(guide, answered)]
        PROVE  CallInv'
    <3> DEFINE old == OnChannels(call.base.programs, call.base.channels \ call.wanted)
               new == OnChannels(guide, answered)
    <3>1. OfConfig(new, call.config) BY <1>1, FeedScoped
    <3>2. served.config # None => OfConfig(old, call.config)
      BY <1>1, <2>1, GuidePcsOf DEF ScopedSnapshot, OfConfig, OnChannels
    <3> HIDE DEF old, new
    <3>3. /\ DOMAIN call' = DOMAIN call /\ call'.pc = "check"
          /\ call'.config = call.config /\ call'.programs = old \cup new
      BY <2>2 DEF CallInv, old, new
    <3>4. served.config # None => OfConfig(call'.programs, call.config)
      BY <3>1, <3>2, <3>3 DEF OfConfig
    <3> QED BY <1>1, <3>3, <3>4, CheckedScoped
  <2>3. CASE Return("error") BY <2>3, ReturnScoped
  <2> QED BY <1>4, <2>2, <2>3 DEF FetchChannels
<1> QED BY <1>2, <1>3, <1>4

LEMMA ServiceScoped ==
    ASSUME StoreScoped, CallInv, Service
    PROVE  StoreScoped' /\ CallInv' /\ call.pc # "out"
<1>1. UNCHANGED store => StoreScoped'
  BY DEF StoreScoped, store, ScopedSnapshot, IsSnapshot
<1>2. CASE (\E p \in Providers : LoadProvider(p)) \/ LoadedAll \/ LoadOther \/ DescribeHealth
  BY <1>1, <1>2, SyncScoped DEF LoadProvider, LoadedAll, LoadOther, DescribeHealth
<1>3. CASE Publish \/ Save BY <1>3, PublishScoped DEF Publish, Save
<1>4. CASE Read \/ FetchProviders \/ FetchOther \/ Check
  BY <1>1, <1>4, GuideScoped DEF Read, FetchProviders, FetchOther, Check
<1>5. CASE Write BY <1>5, WriteScoped DEF Write
<1>6. CASE Record \/ Recorded
  <2>1. InService BY <1>6 DEF Record, Recorded, InService
  <2>2. CallInv'
    BY <1>6, <2>1, LastStepsScoped, ReturnScoped DEF Record, Recorded
  <2>3. StoreScoped'
    BY <1>6, MarksScoped, StoredScoped DEF Record, Recorded, StoreScoped
  <2> QED BY <1>6, <2>2, <2>3 DEF Record, Recorded
<1>7. CASE Split \/ ReadChannels \/ FetchChannels
  BY <1>1, <1>7, BatchScoped DEF Split, ReadChannels, FetchChannels
<1> QED BY <1>2, <1>3, <1>4, <1>5, <1>6, <1>7 DEF Service
(***************************************************************************)
(* A guide stays within its configuration: the steps                       *)
(***************************************************************************)
LEMMA EnterScoped ==
    ASSUME StoreScoped, UNCHANGED store, NEW op \in JobOps \cup {"batch"},
           NEW k \in Configs, NEW at, NEW wanted, Enter(op, k, at, wanted)
    PROVE  CallInv'
<1> DEFINE new == [NoCall EXCEPT !.op = op, !.config = k, !.at = at, !.wanted = wanted]
           other == served.config \notin {k, None}
<1>1. CASE other \/ op \in {"catalog", "channels", "force"}
  <2>1. CASE call' = [new EXCEPT !.pc = "returned", !.result = "error"]
    BY <2>1 DEF CallInv, NoCall
  <2>2. ASSUME NEW op2, call' = [new EXCEPT !.pc = "sync", !.todo = Providers, !.op = op2]
        PROVE  CallInv'
    BY <2>2 DEF CallInv, NoCall, OfConfig
  <2>3. call' = [new EXCEPT !.pc = "sync", !.todo = Providers] =>
            call' = [new EXCEPT !.pc = "sync", !.todo = Providers, !.op = op]
    BY DEF NoCall
  <2>4. \/ call' = [new EXCEPT !.pc = "returned", !.result = "error"]
        \/ call' = [new EXCEPT !.pc = "sync", !.todo = Providers]
        \/ call' = [new EXCEPT !.pc = "sync", !.todo = Providers, !.op = "catalog"]
    BY <1>1 DEF Enter, JobOps
  <2> QED BY <2>1, <2>2, <2>3, <2>4
<1>2. CASE ~other /\ op \in {"guide", "batch"}
  <2>1. PICK pc, op2 : /\ call' = [new EXCEPT !.pc = pc, !.op = op2]
                       /\ \/ pc \in {"split", "read"}
                          \/ pc = "fetch" /\ Kind[k] # "xtream"
    <3>1. CASE op = "batch" /\ Kind[k] = "xtream" /\ wanted # {}
      <4>1. call' = [new EXCEPT !.pc = "split"] BY <1>2, <3>1 DEF Enter
      <4>2. call' = [new EXCEPT !.pc = "split", !.op = op] BY <4>1 DEF NoCall
      <4> QED BY <4>2
    <3>2. CASE ~(op = "batch" /\ Kind[k] = "xtream" /\ wanted # {})
      <4> DEFINE guide == IF Kind[k] = "xtream" THEN "read" ELSE "fetch"
      <4>1. \/ call' = [new EXCEPT !.pc = guide]
            \/ call' = [new EXCEPT !.pc = guide, !.op = "guide"]
        BY <1>2, <3>2 DEF Enter
      <4>2. call' = [new EXCEPT !.pc = guide] =>
                call' = [new EXCEPT !.pc = guide, !.op = op]
        BY DEF NoCall
      <4>3. guide = "read" \/ (guide = "fetch" /\ Kind[k] # "xtream")
        OBVIOUS
      <4> HIDE DEF guide, new
      <4> QED BY <4>1, <4>2, <4>3
    <3> QED BY <3>1, <3>2
  <2>2. served' = served BY DEF store
  <2>3. /\ DOMAIN call' = DOMAIN NoCall
        /\ call'.pc = pc /\ call'.config = k /\ call'.programs = {}
    BY <2>1 DEF NoCall
  <2> QED BY <1>2, <2>1, <2>2, <2>3 DEF CallInv, NoCall, IsXtream
<1> QED BY <1>1, <1>2 DEF JobOps

LEMMA CanceledScoped ==
    ASSUME CallInv, UNCHANGED store, call' \in {call, [call EXCEPT !.canceled = TRUE]}
    PROVE  CallInv' /\ call'.pc = call.pc
<1>1. /\ DOMAIN call' = DOMAIN call
      /\ call'.pc = call.pc /\ call'.config = call.config
      /\ call'.programs = call.programs /\ call'.base = call.base
  BY DEF CallInv
<1> QED BY <1>1 DEF CallInv, IsXtream, store, OfConfig, ScopedSnapshot, IsSnapshot

LEMMA MarkedCallScoped ==
    ASSUME CallInv, UNCHANGED call, served'.config = served.config
    PROVE  CallInv'
BY DEF CallInv, IsXtream, OfConfig, ScopedSnapshot, IsSnapshot

LEMMA UnchangedScoped ==
    ASSUME StoreScoped, UNCHANGED <<served, disk>>
    PROVE  StoreScoped'
BY DEF StoreScoped, ScopedSnapshot, IsSnapshot

LEMMA HydrateScoped ==
    ASSUME ScopeInv, ResetsAlone, NEW h \in Hydrators, Hydrate(h)
    PROVE  StoreScoped' /\ CallInv'
<1>1. UNCHANGED <<served, disk>> => StoreScoped' /\ CallInv'
  BY UnchangedScoped, MarkedCallScoped DEF ScopeInv, Hydrate
<1>2. CASE ~UNCHANGED <<served, disk>>
  <2> DEFINE k == runner[h].config
             empty == [NoSnapshot EXCEPT !.config = k, !.source = PlainSource[k]]
             exact == FALSE
             result == Merged(served, empty, exact, now)
  <2>1. runner' = [runner EXCEPT ![h].pc = "run"] /\ Commit(result)
    BY <1>2 DEF Hydrate
  <2>2. runner[h].pc = "captured" /\ k \in Configs /\ runner'[h].pc = "run"
    BY <2>1 DEF Hydrate, ScopeInv, RequestInv, Requested, Runners
  <2>3. call.pc = "out"
    BY <2>2 DEF ResetsAlone, ScopeInv
  <2>4. PlainSource[k] \in Sources
    BY <2>2, RefreshAssumption
  <2>5. ScopedSnapshot(empty) /\ empty.config # None /\ empty.source # None
    BY <2>2, <2>4, StoreAssumption DEF ScopedSnapshot, IsSnapshot, NoSnapshot, OfConfig
  <2> HIDE DEF empty, exact
  <2>6. ScopedSnapshot(result)
    BY <2>5, MergedScoped DEF ScopeInv, StoreScoped
  <2>7. StoreScoped' BY <2>1, <2>6, StoredScoped DEF ScopeInv
  <2>8. CallInv' BY <2>3 DEF Hydrate, ScopeInv, CallInv, IsXtream
  <2> QED BY <2>7, <2>8
<1> QED BY <1>1, <1>2

LEMMA StepScoped ==
    ASSUME ScopeInv, [Next /\ ResetsAlone]_vars
    PROVE  ScopeInv'
<1> DEFINE Alone == holder = "none" => call.pc = "out"
           Rest == StoreScoped' /\ CallInv' /\ Alone'
<1>1. StoreScoped /\ CallInv /\ RequestInv /\ Alone
  BY DEF ScopeInv
<1>2. SUFFICES ASSUME Next, ResetsAlone PROVE Rest
  <2>1. ASSUME UNCHANGED vars PROVE ScopeInv'
    BY <1>1, <2>1, UnchangedScoped, MarkedCallScoped
       DEF vars, requests, ScopeInv, RequestInv, Requested
  <2> QED BY <1>1, <2>1, RequestsKept DEF ScopeInv
<1>3. ASSUME UNCHANGED <<served, disk, call, holder>> PROVE Rest
  BY <1>1, <1>3, UnchangedScoped, MarkedCallScoped
<1>4. ASSUME MarkEPGLoading \/ RecordEPGFailure, UNCHANGED <<call, holder>> PROVE Rest
  BY <1>1, <1>4, MarksScoped, MarkedCallScoped DEF StoreScoped
<1>5. ASSUME NEW op, NEW k, Supersede(op, k), UNCHANGED <<served, disk>> PROVE Rest
  <2>1. call' \in {call, [call EXCEPT !.canceled = TRUE]}
    BY <1>5 DEF Supersede
  <2>2. holder' = "none" => holder = "none"
    BY <1>5 DEF Supersede
  <2> QED BY <1>1, <1>5, <2>1, <2>2, CanceledScoped, UnchangedScoped DEF store
<1>6. ASSUME NEW op, NEW k, NEW runners, Start(op, k, runners), UNCHANGED <<served, disk>>
      PROVE  Rest
  BY <1>3, <1>5, <1>6 DEF Start
<1>7. ASSUME call' = NoCall, UNCHANGED <<served, disk>> PROVE Rest
  <2>1. CallInv' /\ Alone' BY <1>7 DEF CallInv, NoCall
  <2> QED BY <1>1, <1>7, <2>1, UnchangedScoped
<1>8. CASE Serve
  BY <1>1, <1>8, ServiceScoped DEF Serve, requests
<1>9. CASE Progress
  <2>1. CASE AdmitJob
    <3>1. CallInv'
      BY <1>1, <2>1, EnterScoped DEF AdmitJob, RequestInv, Requested, store
    <3> QED BY <1>1, <2>1, <3>1, UnchangedScoped DEF AdmitJob
  <2>2. CASE FinishJob \/ FinishBatch BY <1>7, <2>2 DEF FinishJob, FinishBatch
  <2>3. CASE StartAsked BY <1>6, <2>3 DEF StartAsked
  <2>4. CASE Register BY <1>3, <2>4 DEF Register
  <2>5. CASE AdmitBatch
    <3>1. CASE UNCHANGED <<call, holder>> BY <1>3, <2>5, <3>1 DEF AdmitBatch
    <3>2. CASE Enter("batch", batch.config, batch.at, batch.wanted) /\ holder' = "batch"
      <4>1. CallInv'
        BY <1>1, <2>5, <3>2, EnterScoped DEF AdmitBatch, RequestInv, store
      <4> QED BY <1>1, <2>5, <3>2, <4>1, UnchangedScoped DEF AdmitBatch
    <3> QED BY <2>5, <3>1, <3>2 DEF AdmitBatch
  <2>6. CASE RecordPing BY <1>4, <2>6 DEF RecordPing
  <2>7. ASSUME NEW r \in Runners, Run(r) \/ Refused(r) PROVE Rest
    BY <1>3, <1>5, <2>7 DEF Run, Refused
  <2>8. ASSUME NEW h \in Hydrators, Hydrate(h) PROVE Rest
    <3>1. StoreScoped' /\ CallInv' BY <1>2, <2>8, HydrateScoped
    <3> QED BY <1>1, <2>8, <3>1 DEF Hydrate
  <2>9. ASSUME NEW h \in Hydrators, Hydrated(h) \/ Warm(h) PROVE Rest
    BY <1>3, <1>4, <1>6, <2>9 DEF Hydrated, Warm
  <2> QED BY <1>9, <2>1, <2>2, <2>3, <2>4, <2>5, <2>6, <2>7, <2>8, <2>9 DEF Progress
<1>10. CASE Requests
  BY <1>3, <1>4, <1>10 DEF Requests, Ask, AskBatch, Task, Capture
<1>11. CASE ChangeSettings \/ Tick
  BY <1>3, <1>11 DEF ChangeSettings, Tick, requests
<1>12. CASE Restart
  <2>1. StoreScoped' BY <1>1, <1>12, RestoreScoped DEF Restart, StoreScoped
  <2>2. CallInv' /\ Alone' BY <1>12 DEF Restart, CallInv, NoCall
  <2> QED BY <2>1, <2>2
<1> QED BY <1>2, <1>8, <1>9, <1>10, <1>11, <1>12 DEF Next

\* As long as hydration resets the store while no call is in the service, no
\* refresh, retry, failure or restart ever serves the programs of one
\* configuration under another (sync.go, preservedPrograms; store.go, replace).
THEOREM GuideStaysInScope == SerialSpec => []GuideWithinScope
<1>1. Init => ScopeInv
  <2> SUFFICES ASSUME Init PROVE ScopeInv
    OBVIOUS
  <2>1. StoreScoped BY EmptyIsScoped DEF Init, StoreScoped
  <2>2. CallInv BY DEF Init, CallInv, NoCall
  <2>3. RequestInv
    BY DEF Init, RequestInv, NoJob, NoBatch, NoAsk, NoRuns, NoRun
  <2> QED BY <2>1, <2>2, <2>3 DEF Init, ScopeInv, NoCall
<1>2. ScopeInv /\ [Next /\ ResetsAlone]_vars => ScopeInv'
  BY StepScoped
<1>3. ScopeInv => GuideWithinScope
  BY DEF ScopeInv, StoreScoped, ScopedSnapshot, GuideWithinScope, OfConfig
<1> QED BY <1>1, <1>2, <1>3, PTL DEF SerialSpec

(***************************************************************************)
(* A guide with programs is kept against an empty or a collapsed one       *)
(***************************************************************************)
CallFields == {"op", "config", "at", "pc", "canceled", "wanted", "only", "todo", "good",
               "failed", "base", "channels", "programs", "status", "count", "result"}

\* All programs on their way to the store are programs, so that guides are
\* finite and can be counted.
StoreTyped == served.programs \subseteq Programs /\ disk.programs \subseteq Programs

CallTyped ==
    /\ DOMAIN call = CallFields
    /\ InService => call.config \in Configs
    /\ call.programs \subseteq Programs
    /\ call.base.programs \subseteq Programs

GuideInv == StoreInv /\ StoreTyped /\ CallTyped /\ RequestInv

\* A guide is finite.
LEMMA GuidesAreFinite ==
    ASSUME NEW guide \in SUBSET Programs
    PROVE  IsFiniteSet(guide) /\ Cardinality(guide) \in Nat
<1> DEFINE Keys == (Configs \X Channels) \X Ends
           Program == [x \in Keys |-> [config |-> x[1][1], channel |-> x[1][2], end |-> x[2]]]
<1>1. IsFiniteSet(Keys)
    BY FS_Product, StoreAssumption
<1>2. \A p \in Programs : Program[<<<<p.config, p.channel>>, p.end>>] = p
    BY DEF Programs
<1>3. IsFiniteSet(Programs)
    <2>1. Program \in [Keys -> Programs]
        BY DEF Programs
    <2>2. \A p \in Programs : <<<<p.config, p.channel>>, p.end>> \in Keys
        BY DEF Programs
    <2> HIDE DEF Keys, Program
    <2>3. Program \in Surjection(Keys, Programs)
        BY <1>2, <2>1, <2>2 DEF Surjection
    <2> QED
        BY <1>1, <2>3, FS_Surjection
<1>4. IsFiniteSet(guide)
    BY <1>3, FS_Subset
<1> QED
    BY <1>4, FS_CardinalityType

-----------------------------------------------------------------------------
\* Nothing that selects programs adds one.
LEMMA SelectedPrograms ==
    ASSUME NEW programs, NEW channels, NEW snapshot, NEW k
    PROVE  /\ OnChannels(programs, channels) \subseteq programs
           /\ Kept(snapshot, k, channels) \subseteq snapshot.programs
BY DEF OnChannels, Kept

LEMMA FetchedPrograms ==
    ASSUME CallTyped, InService, NEW guide \in Guides
    PROVE  guide \subseteq Programs
BY SyncAssumption DEF CallTyped, Guides

LEMMA CallGoesOn ==
    ASSUME CallTyped, InService, DOMAIN call' = CallFields, call'.config = call.config,
           call'.programs \subseteq Programs, call'.base.programs \subseteq Programs
    PROVE  CallTyped'
BY DEF CallTyped, InService

LEMMA CallIsOver ==
    ASSUME \/ \E result : Return(result)
           \/ call' = NoCall
    PROVE  CallTyped'
<1>1. NoCall.programs = {} /\ NoCall.base.programs = {}
    BY DEF NoCall, NoSnapshot
<1>2. ASSUME NEW result, Return(result)
      PROVE  /\ DOMAIN call' = CallFields /\ call'.pc = "returned"
             /\ call'.programs = NoCall.programs /\ call'.base = NoCall.base
    BY <1>2 DEF Return, NoCall, CallFields
<1>3. ASSUME call' = NoCall
      PROVE  /\ DOMAIN call' = CallFields /\ call'.pc = "out"
             /\ call'.programs = NoCall.programs /\ call'.base = NoCall.base
    BY <1>3 DEF NoCall, CallFields
<1> QED
    BY <1>1, <1>2, <1>3 DEF CallTyped, InService

LEMMA CallGoesTo ==
    ASSUME CallTyped, InService, \/ \E pc : Goto(pc)
                                 \/ Fail
    PROVE  CallTyped'
<1>1. ASSUME NEW pc, Goto(pc)
      PROVE  CallTyped'
    <2>1. /\ DOMAIN call' = CallFields /\ call'.config = call.config
          /\ call'.programs = call.programs /\ call'.base = call.base
        BY <1>1 DEF Goto, CallTyped, CallFields
    <2> QED
        BY <2>1, CallGoesOn DEF CallTyped
<1> QED
    BY <1>1, CallIsOver DEF Fail

\* What the service fetches is made of programs.
LEMMA SyncTyped ==
    ASSUME GuideInv,
           \/ \E p \in Providers : LoadProvider(p)
           \/ LoadedAll \/ LoadOther \/ DescribeHealth
    PROVE  CallTyped'
<1>1. InService /\ CallTyped /\ served.programs \subseteq Programs
    BY DEF LoadProvider, LoadedAll, LoadOther, DescribeHealth, InService, GuideInv, StoreTyped
<1>2. ASSUME NEW p \in Providers, LoadProvider(p)
      PROVE  CallTyped'
    <2>1. ASSUME NEW channels, NEW programs, programs \subseteq Programs,
                 \/ call' = [call EXCEPT !.todo = @ \ {p}, !.good = TRUE,
                                         !.channels = @ \cup channels,
                                         !.programs = @ \cup programs]
                 \/ call' = [call EXCEPT !.todo = @ \ {p}, !.failed = TRUE,
                                         !.channels = @ \cup channels,
                                         !.programs = @ \cup programs]
          PROVE  CallTyped'
        <3>1. /\ DOMAIN call' = CallFields /\ call'.config = call.config
              /\ call'.programs = call.programs \cup programs /\ call'.base = call.base
            BY <2>1, <1>1 DEF CallTyped, CallFields
        <3> QED
            BY <1>1, <2>1, <3>1, CallGoesOn DEF CallTyped
    <2>2. ASSUME NEW lineup \in Lineups[call.config], NEW guide \in Guides,
                 call' = [call EXCEPT !.todo = @ \ {p}, !.good = TRUE,
                    !.channels = @ \cup OfProvider(lineup, p),
                    !.programs = @ \cup
                       (IF call.op = "channels"
                        THEN Kept(served, call.config, OfProvider(lineup, p))
                        ELSE OnChannels(guide, OfProvider(lineup, p)))]
          PROVE  CallTyped'
        <3> DEFINE channels == OfProvider(lineup, p)
                   programs == IF call.op = "channels"
                               THEN Kept(served, call.config, channels)
                               ELSE OnChannels(guide, channels)
        <3>1. programs \subseteq Programs
            BY <1>1, FetchedPrograms, SelectedPrograms
        <3>2. call' = [call EXCEPT !.todo = @ \ {p}, !.good = TRUE,
                          !.channels = @ \cup channels, !.programs = @ \cup programs]
            BY <2>2
        <3> HIDE DEF channels, programs
        <3> QED
            BY <3>1, <3>2, <2>1
    <2>3. ASSUME NEW channels,
                 call' = [call EXCEPT !.todo = @ \ {p}, !.failed = TRUE,
                    !.channels = @ \cup channels,
                    !.programs = @ \cup Kept(served, call.config, channels)]
          PROVE  CallTyped'
        <3>1. Kept(served, call.config, channels) \subseteq Programs
            BY <1>1, SelectedPrograms
        <3> QED
            BY <3>1, <2>3, <2>1
    <2> QED
        BY <1>2, <2>2, <2>3 DEF LoadProvider
<1>3. CASE LoadedAll
    BY <1>1, <1>3, CallGoesTo DEF LoadedAll
<1>4. CASE LoadOther
    <2>1. ASSUME NEW lineup, NEW guide \in Guides,
                 call' = [call EXCEPT !.pc = "health", !.channels = lineup,
                             !.programs = IF call.op = "channels" THEN Preserved(lineup)
                                          ELSE OnChannels(guide, lineup)]
          PROVE  CallTyped'
        <3> DEFINE programs == IF call.op = "channels" THEN Preserved(lineup)
                               ELSE OnChannels(guide, lineup)
        <3>1. programs \subseteq Programs
            BY <1>1, FetchedPrograms, SelectedPrograms DEF Preserved
        <3> HIDE DEF programs
        <3>2. /\ DOMAIN call' = CallFields /\ call'.config = call.config
              /\ call'.programs = programs /\ call'.base = call.base
            BY <1>1, <2>1 DEF CallTyped, CallFields, programs
        <3> QED
            BY <1>1, <3>1, <3>2, CallGoesOn DEF CallTyped
    <2> QED
        BY <1>1, <1>4, <2>1, CallGoesTo DEF LoadOther
<1>5. CASE DescribeHealth
    <2>1. PICK status, count : call' = [call EXCEPT !.pc = "publish", !.status = status,
                                                    !.count = count]
        BY <1>5 DEF DescribeHealth
    <2>2. /\ DOMAIN call' = CallFields /\ call'.config = call.config
          /\ call'.programs = call.programs /\ call'.base = call.base
        BY <1>1, <2>1 DEF CallTyped, CallFields
    <2> QED
        BY <1>1, <2>2, CallGoesOn DEF CallTyped
<1> QED
    BY <1>2, <1>3, <1>4, <1>5

\* Reading, fetching and checking a guide.
LEMMA FetchTyped ==
    ASSUME GuideInv,
           \/ Read \/ FetchProviders \/ FetchOther \/ Check
           \/ Split \/ ReadChannels \/ FetchChannels
    PROVE  CallTyped'
<1>1. InService /\ CallTyped /\ served.programs \subseteq Programs /\ call.config \in Configs
    BY DEF Read, FetchProviders, FetchOther, Check, Split, ReadChannels, FetchChannels,
           InService, GuideInv, StoreTyped, CallTyped
<1>2. CASE Read
    <2>1. /\ DOMAIN call' = CallFields /\ call'.config = call.config
          /\ call'.programs = call.programs /\ call'.base = served
        BY <1>1, <1>2 DEF Read, CallTyped, CallFields
    <2> QED
        BY <1>1, <2>1, CallGoesOn DEF CallTyped
<1>3. CASE FetchProviders
    <2> DEFINE base == call.base
               k == call.config
               asked == {p \in Providers : /\ call.only = {} \/ p \in call.only
                                           /\ OfProvider(base.channels, p) # {}}
               others == {c \in base.channels : call.only # {} /\ Owner[c] \notin call.only}
               Fetched(fresh, guide) ==
                  {OnChannels(guide[p], OfProvider(base.channels, p)) : p \in fresh}
               Stale(fresh) ==
                  {Kept(base, k, OfProvider(base.channels, p)) : p \in asked \ fresh}
               Together(fresh, guide) == OnChannels(base.programs, others)
                  \cup (UNION Fetched(fresh, guide)) \cup (UNION Stale(fresh))
    <2>1. ASSUME NEW fresh \in SUBSET asked, NEW guide \in [fresh -> Feeds[k]],
                 call' = [call EXCEPT !.pc = "check", !.programs = Together(fresh, guide)]
          PROVE  CallTyped'
        <3>1. OnChannels(base.programs, others) \subseteq Programs
            BY <1>1, SelectedPrograms DEF CallTyped
        <3>2. \A programs \in Fetched(fresh, guide) : programs \subseteq Programs
            <4>1. \A p \in fresh : guide[p] \subseteq Programs
                BY <1>1, SyncAssumption
            <4>2. ASSUME NEW p \in fresh
                  PROVE  OnChannels(guide[p], OfProvider(base.channels, p)) \subseteq Programs
                BY <4>1, SelectedPrograms
            <4> QED
                BY <4>2
        <3>3. \A programs \in Stale(fresh) : programs \subseteq Programs
            <4>1. ASSUME NEW p
                  PROVE  Kept(base, k, OfProvider(base.channels, p)) \subseteq Programs
                BY <1>1, SelectedPrograms DEF CallTyped
            <4> QED
                BY <4>1
        <3> HIDE DEF Fetched, Stale
        <3>4. Together(fresh, guide) \subseteq Programs
            BY <3>1, <3>2, <3>3
        <3> HIDE DEF Together
        <3>5. /\ DOMAIN call' = CallFields /\ call'.config = call.config
              /\ call'.programs = Together(fresh, guide) /\ call'.base = call.base
            BY <1>1, <2>1 DEF CallTyped, CallFields
        <3> QED
            BY <1>1, <3>4, <3>5, CallGoesOn DEF CallTyped
    <2>2. \/ Return("error")
          \/ \E fresh \in SUBSET asked : \E guide \in [fresh -> Feeds[k]] :
                call' = [call EXCEPT !.pc = "check", !.programs = Together(fresh, guide)]
        BY <1>3 DEF FetchProviders
    <2> HIDE DEF asked, Together, k
    <2> QED
        BY <2>1, <2>2, CallIsOver
<1>4. ASSUME NEW programs \in SUBSET Programs, NEW pc,
             call' = [call EXCEPT !.pc = pc, !.programs = programs]
      PROVE  CallTyped'
    <2>1. /\ DOMAIN call' = CallFields /\ call'.config = call.config
          /\ call'.programs = programs /\ call'.base = call.base
        BY <1>1, <1>4 DEF CallTyped, CallFields
    <2> QED
        BY <1>1, <2>1, CallGoesOn DEF CallTyped
<1>5. CASE FetchOther
    <2>1. ASSUME NEW guide \in Guides, NEW channels
          PROVE  OnChannels(guide, channels) \in SUBSET Programs
        BY <1>1, FetchedPrograms, SelectedPrograms
    <2>2. \/ Goto("record")
          \/ \E guide \in Guides : \E channels, pc :
                call' = [call EXCEPT !.pc = pc, !.programs = OnChannels(guide, channels)]
        BY <1>5 DEF FetchOther
    <2> QED
        BY <1>1, <1>4, <2>1, <2>2, CallGoesTo
<1>6. CASE Check
    BY <1>1, <1>6, CallGoesTo, CallIsOver DEF Check
<1>7. CASE Split
    <2>1. /\ DOMAIN call' = CallFields /\ call'.config = call.config
          /\ call'.programs = call.programs /\ call'.base = call.base
        BY <1>1, <1>7 DEF Split, CallTyped, CallFields
    <2> QED
        BY <1>1, <2>1, CallGoesOn DEF CallTyped
<1>8. CASE ReadChannels
    <2>1. /\ DOMAIN call' = CallFields /\ call'.config = call.config
          /\ call'.programs = call.programs /\ call'.base \in {call.base, served}
        BY <1>1, <1>8 DEF ReadChannels, CallTyped, CallFields
    <2> QED
        BY <1>1, <2>1, CallGoesOn DEF CallTyped
<1>9. CASE FetchChannels
    <2>1. ASSUME NEW answered, NEW guide \in Guides
          PROVE  OnChannels(call.base.programs, call.base.channels \ call.wanted)
                     \cup OnChannels(guide, answered) \in SUBSET Programs
        BY <1>1, FetchedPrograms, SelectedPrograms DEF CallTyped
    <2> QED
        BY <1>4, <1>9, <2>1, CallIsOver DEF FetchChannels
<1> QED
    BY <1>2, <1>3, <1>5, <1>6, <1>7, <1>8, <1>9

-----------------------------------------------------------------------------
\* What GuideKept says of one step.
Keeps ==
    SameScope /\ SameLineup /\ served.programs # {} =>
        /\ served'.programs # {}
        /\ LET old == Watchable(served.programs, call.at)
               new == Watchable(served'.programs, call.at)
           IN  Halved(old, new) \/ Halved(ChannelsOf(old), ChannelsOf(new)) =>
                   Cardinality(served'.programs) >= Cardinality(served.programs)

LEMMA SameGuideKept ==
    ASSUME StoreTyped, served'.programs = served.programs
    PROVE  Keeps
<1>1. Cardinality(served.programs) \in Nat
    BY GuidesAreFinite DEF StoreTyped
<1> QED
    BY <1>1 DEF Keeps

\* A guide that is not smaller than the one it replaces.
LEMMA LargerGuideKept ==
    ASSUME StoreTyped, served'.programs \subseteq Programs,
           ~(Cardinality(served'.programs) < Cardinality(served.programs))
    PROVE  Keeps
<1>1. Cardinality(served.programs) \in Nat /\ Cardinality(served'.programs) \in Nat
    BY GuidesAreFinite DEF StoreTyped
<1>2. Cardinality(served'.programs) >= Cardinality(served.programs)
    BY <1>1
<1>3. CASE served'.programs = {}
    <2>1. Cardinality(served.programs) = 0
        BY <1>1, <1>2, <1>3, FS_EmptySet
    <2>2. served.programs = {}
        BY <2>1, GuidesAreFinite, FS_EmptySet DEF StoreTyped
    <2> QED
        BY <2>2 DEF Keeps
<1> QED
    BY <1>2, <1>3 DEF Keeps

\* A guide that has not regressed is not halved.
LEMMA OtherGuideKept ==
    ASSUME StoreTyped, served'.programs \subseteq Programs, served'.programs # {},
           ~Regressed(served.programs, served'.programs, call.at)
    PROVE  Keeps
<1> DEFINE old == Watchable(served.programs, call.at)
           new == Watchable(served'.programs, call.at)
<1>1. old = Relevant(served.programs, call.at) /\ new = Relevant(served'.programs, call.at)
    BY DEF Watchable, Relevant
<1>2. ~Halved(old, new) /\ ~Halved(ChannelsOf(old), ChannelsOf(new))
    <2>1. CASE old = {}
        <3>1. new \subseteq Programs
            BY DEF Watchable
        <3>2. Cardinality(new) \in Nat
            BY <3>1, GuidesAreFinite
        <3>3. Cardinality(ChannelsOf(new)) \in Nat
            <4>1. ChannelsOf(new) \subseteq Channels
                BY <3>1 DEF ChannelsOf, Programs
            <4> QED
                BY <4>1, StoreAssumption, FS_Subset, FS_CardinalityType
        <3>4. ChannelsOf(old) = {} /\ Cardinality(old) = 0 /\ Cardinality(ChannelsOf(old)) = 0
            BY <2>1, FS_EmptySet DEF ChannelsOf
        <3> QED
            BY <3>2, <3>3, <3>4 DEF Halved
    <2>2. CASE old # {}
        BY <2>2, <1>1 DEF Regressed, Halved
    <2> QED
        BY <2>1, <2>2
<1> QED
    BY <1>2 DEF Keeps

-----------------------------------------------------------------------------
\* Which guide replace and ReplacePrograms leave.
LEMMA MergedGuide ==
    ASSUME NEW current, NEW next, NEW exact \in BOOLEAN, NEW at,
           IsSnapshot(current), IsSnapshot(next)
    PROVE  Merged(current, next, exact, at).programs =
               IF \/ exact /\ RejectsGuide(current, next, at)
                  \/ ~exact /\ ShouldPreserveGuide(current, next)
               THEN current.programs ELSE next.programs
<1> DEFINE kept == KeepGuide(current, next)
           mirrored == Mirror(current, kept)
<1>1. IsSnapshot(kept) /\ kept.programs = current.programs
    BY DEF KeepGuide, IsSnapshot
<1>2. IsSnapshot(mirrored) /\ mirrored.programs = current.programs
    <2> HIDE DEF kept
    <2> QED
        BY <1>1 DEF Mirror, IsSnapshot
<1>3. ASSUME NEW x, IsSnapshot(x)
      PROVE  Described(current, x).programs = x.programs
    BY <1>3 DEF Described, IsSnapshot
<1> HIDE DEF kept, mirrored
<1>4. CASE exact /\ RejectsGuide(current, next, at)
    <2>1. Merged(current, next, exact, at) = Described(current, mirrored)
        BY <1>4 DEF Merged, mirrored, kept
    <2> QED
        BY <1>2, <1>3, <1>4, <2>1
<1>5. CASE ~exact /\ ShouldPreserveGuide(current, next)
    <2>1. Merged(current, next, exact, at) = Described(current, kept)
        BY <1>5 DEF Merged, kept
    <2> QED
        BY <1>1, <1>3, <1>5, <2>1
<1>6. CASE /\ ~(exact /\ RejectsGuide(current, next, at))
           /\ ~(~exact /\ ShouldPreserveGuide(current, next))
    <2>1. Merged(current, next, exact, at) = Described(current, next)
        BY <1>6 DEF Merged
    <2> QED
        BY <1>3, <1>6, <2>1
<1> QED
    BY <1>4, <1>5, <1>6

LEMMA CommittedFields ==
    ASSUME NEW x, IsSnapshot(x), Commit(x)
    PROVE  /\ served'.config = x.config /\ served'.source = x.source
           /\ served'.channels = x.channels /\ served'.programs = x.programs
           /\ disk' = disk \/ disk'.programs = x.programs
BY DEF Commit, IsSnapshot

\* Publishing a snapshot keeps the guide, or has a better one.
LEMMA MergeKeeps ==
    ASSUME StoreInv, StoreTyped, NEW next, IsSnapshot(next), next.programs \subseteq Programs,
           NEW exact \in BOOLEAN, exact => next.programs # {},
           Commit(Merged(served, next, exact, call.at))
    PROVE  StoreTyped' /\ Keeps
<1> DEFINE result == Merged(served, next, exact, call.at)
<1>1. IsSnapshot(served)
    BY DEF StoreInv
<1>2. /\ IsSnapshot(result)
      /\ result.config = next.config /\ result.source = next.source
      /\ result.channels = next.channels
    BY <1>1, MergedFields
<1>3. result.programs = IF \/ exact /\ RejectsGuide(served, next, call.at)
                           \/ ~exact /\ ShouldPreserveGuide(served, next)
                        THEN served.programs ELSE next.programs
    BY <1>1, MergedGuide
<1> HIDE DEF result
<1>4. /\ served'.config = next.config /\ served'.source = next.source
      /\ served'.channels = next.channels /\ served'.programs = result.programs
      /\ disk' = disk \/ disk'.programs = result.programs
    BY <1>2, CommittedFields DEF result
<1>5. StoreTyped'
    BY <1>3, <1>4 DEF StoreTyped
<1>6. Keeps
    <2> SUFFICES ASSUME SameScope, SameLineup, served.programs # {}
                 PROVE  Keeps
        BY DEF Keeps
    <2>1. SameGuideScope(served, next) /\ Covers(served, next.channels)
        BY <1>4 DEF SameScope, SameLineup, SameGuideScope
    <2>2. CASE result.programs = served.programs
        BY <1>4, <2>2, SameGuideKept
    <2>3. CASE exact /\ ~RejectsGuide(served, next, call.at)
        <3>1. served'.programs = next.programs
            BY <1>3, <1>4, <2>3
        <3>2. ~Regressed(served.programs, served'.programs, call.at)
            BY <2>1, <2>3, <3>1 DEF RejectsGuide
        <3> QED
            BY <2>3, <3>1, <3>2, OtherGuideKept
    <2>4. CASE ~exact /\ ~ShouldPreserveGuide(served, next)
        <3>1. served'.programs = next.programs
            BY <1>3, <1>4, <2>4
        <3>2. ~(Cardinality(next.programs) < Cardinality(served.programs))
            BY <2>1, <2>4 DEF ShouldPreserveGuide
        <3> QED
            BY <3>1, <3>2, LargerGuideKept
    <2> QED
        BY <1>3, <2>2, <2>3, <2>4
<1> QED
    BY <1>5, <1>6

\* So does a refresh of the guide.
LEMMA WithGuideKeeps ==
    ASSUME StoreInv, StoreTyped, NEW programs \in SUBSET Programs, programs # {},
           Commit(WithGuide(served, programs, call.at))
    PROVE  StoreTyped' /\ Keeps
<1> DEFINE result == WithGuide(served, programs, call.at)
<1>1. IsSnapshot(served)
    BY DEF StoreInv
<1>2. IsSnapshot(result)
    BY <1>1, WithGuideFields
<1>3. result.programs = IF Regressed(served.programs, programs, call.at)
                        THEN served.programs ELSE programs
    BY <1>1 DEF WithGuide, Mirror, IsSnapshot
<1> HIDE DEF result
<1>4. served'.programs = result.programs /\ (disk' = disk \/ disk'.programs = result.programs)
    BY <1>2, CommittedFields DEF result
<1>5. StoreTyped'
    BY <1>3, <1>4 DEF StoreTyped
<1>6. CASE Regressed(served.programs, programs, call.at)
    BY <1>3, <1>4, <1>5, <1>6, SameGuideKept
<1>7. CASE ~Regressed(served.programs, programs, call.at)
    BY <1>3, <1>4, <1>5, <1>7, OtherGuideKept
<1> QED
    BY <1>6, <1>7

-----------------------------------------------------------------------------
LEMMA UnchangedGuide ==
    ASSUME StoreTyped, UNCHANGED <<served, disk>>
    PROVE  StoreTyped' /\ Keeps
BY SameGuideKept DEF StoreTyped

LEMMA MarkedGuide ==
    ASSUME StoreInv, StoreTyped, MarkEPGLoading \/ RecordEPGFailure
    PROVE  StoreTyped' /\ Keeps
<1>1. served'.programs = served.programs /\ disk' = disk
    BY DEF MarkEPGLoading, RecordEPGFailure, StoreInv, IsSnapshot
<1> QED
    BY <1>1, SameGuideKept DEF StoreTyped

\* What is served is stored once more, or that fails.
LEMMA StoredAgain ==
    ASSUME StoreInv, StoreTyped, Commit(served) \/ CommitFails(served)
    PROVE  StoreTyped' /\ Keeps
<1>1. CASE Commit(served)
    <2>1. served'.programs = served.programs /\ (disk' = disk \/ disk'.programs = served.programs)
        BY <1>1, CommittedFields DEF StoreInv
    <2> QED
        BY <2>1, SameGuideKept DEF StoreTyped
<1>2. CASE CommitFails(served)
    BY <1>2, UnchangedGuide DEF CommitFails, store
<1> QED
    BY <1>1, <1>2

LEMMA PublishKeeps ==
    ASSUME GuideInv, Publish
    PROVE  StoreTyped' /\ CallTyped' /\ Keeps
<1>1. InService /\ StoreInv /\ StoreTyped /\ CallTyped
    BY DEF Publish, InService, GuideInv
<1>2. PICK source \in SourceOf[call.config] :
          LET exact == call.op = "force" /\ call.programs # {}
              next  == [config |-> call.config, source |-> source,
                        channels |-> call.channels, programs |-> call.programs,
                        durable |-> FALSE, synced |-> TRUE, status |-> call.status,
                        count |-> call.count, inner |-> call.status]
              result == Merged(served, next, exact, call.at)
          IN  \/ /\ Commit(result)
                 /\ IF call.failed THEN Goto("save") ELSE Return("ok")
              \/ CommitFails(result) /\ Fail
    BY DEF Publish
<1> DEFINE exact == call.op = "force" /\ call.programs # {}
           next == [config |-> call.config, source |-> source,
                    channels |-> call.channels, programs |-> call.programs,
                    durable |-> FALSE, synced |-> TRUE, status |-> call.status,
                    count |-> call.count, inner |-> call.status]
<1>3. /\ IsSnapshot(next) /\ next.programs = call.programs
      /\ exact \in BOOLEAN /\ (exact => call.programs # {})
    BY DEF IsSnapshot
<1>4. \/ /\ Commit(Merged(served, next, exact, call.at))
         /\ Goto("save") \/ Return("ok")
      \/ CommitFails(Merged(served, next, exact, call.at)) /\ Fail
    BY <1>2
<1> HIDE DEF next, exact
<1>5. CallTyped'
    BY <1>1, <1>4, CallGoesTo, CallIsOver
<1>6. CASE Commit(Merged(served, next, exact, call.at))
    BY <1>1, <1>3, <1>5, <1>6, MergeKeeps DEF CallTyped
<1>7. CASE CommitFails(Merged(served, next, exact, call.at))
    BY <1>1, <1>5, <1>7, UnchangedGuide DEF CommitFails, store
<1> QED
    BY <1>4, <1>6, <1>7

LEMMA WriteKeeps ==
    ASSUME GuideInv, Write
    PROVE  StoreTyped' /\ CallTyped' /\ Keeps
<1>1. InService /\ StoreInv /\ StoreTyped /\ CallTyped
    BY DEF Write, InService, GuideInv
<1>2. CASE call.programs = {}
    BY <1>1, <1>2, CallGoesTo, UnchangedGuide DEF Write, store
<1>3. CASE call.programs # {}
    <2> DEFINE result == WithGuide(served, call.programs, call.at)
               after == [call EXCEPT !.pc = "channels", !.only = {}, !.programs = {}]
    <2>1. \/ Commit(result) /\ (call' = after \/ Return("ok"))
          \/ CommitFails(result) /\ (Goto("record") \/ Return("error"))
        BY <1>3 DEF Write
    <2>2. /\ DOMAIN after = CallFields /\ after.config = call.config
          /\ after.programs = {} /\ after.base = call.base
        BY <1>1 DEF CallTyped, CallFields
    <2>3. Commit(result) => StoreTyped' /\ Keeps
        BY <1>1, <1>3, WithGuideKeeps DEF CallTyped
    <2>4. CommitFails(result) => StoreTyped' /\ Keeps
        BY <1>1, UnchangedGuide DEF CommitFails, store
    <2> HIDE DEF result, after
    <2>5. call' = after => CallTyped'
        BY <1>1, <2>2, CallGoesOn DEF CallTyped
    <2>6. CallTyped'
        BY <1>1, <2>1, <2>5, CallGoesTo, CallIsOver
    <2> QED
        BY <2>1, <2>3, <2>4, <2>6
<1> QED
    BY <1>2, <1>3

LEMMA ServiceKeeps ==
    ASSUME GuideInv, Service
    PROVE  StoreTyped' /\ CallTyped' /\ Keeps
<1>1. StoreInv /\ StoreTyped /\ CallTyped
    BY DEF GuideInv
<1>2. UNCHANGED store => StoreTyped' /\ Keeps
    BY <1>1, UnchangedGuide DEF store
<1>3. CASE (\E p \in Providers : LoadProvider(p)) \/ LoadedAll \/ LoadOther \/ DescribeHealth
    BY <1>2, <1>3, SyncTyped DEF LoadProvider, LoadedAll, LoadOther, DescribeHealth
<1>4. CASE Publish
    BY <1>4, PublishKeeps
<1>5. CASE Write
    BY <1>5, WriteKeeps
<1>6. CASE \/ Read \/ FetchProviders \/ FetchOther \/ Check
           \/ Split \/ ReadChannels \/ FetchChannels
    BY <1>2, <1>6, FetchTyped
       DEF Read, FetchProviders, FetchOther, Check, Split, ReadChannels, FetchChannels
<1>7. CASE Save
    <2>1. InService
        BY <1>7 DEF Save, InService
    <2> QED
        BY <1>1, <1>7, <2>1, StoredAgain, CallGoesTo, CallIsOver DEF Save
<1>8. CASE Record
    <2>1. InService
        BY <1>8 DEF Record, InService
    <2> QED
        BY <1>1, <1>8, <2>1, MarkedGuide, CallGoesTo DEF Record
<1>9. CASE Recorded
    BY <1>1, <1>9, StoredAgain, CallIsOver DEF Recorded
<1> QED
    BY <1>3, <1>4, <1>5, <1>6, <1>7, <1>8, <1>9 DEF Service

-----------------------------------------------------------------------------
LEMMA EntryTyped ==
    ASSUME NEW op \in JobOps \cup {"batch"}, NEW k \in Configs, NEW at, NEW wanted,
           Enter(op, k, at, wanted)
    PROVE  CallTyped'
<1> DEFINE new == [NoCall EXCEPT !.op = op, !.config = k, !.at = at, !.wanted = wanted]
           Entered(x) == /\ DOMAIN x = CallFields /\ x.config = k
                         /\ x.programs = {} /\ x.base = NoSnapshot
<1>1. /\ Entered([new EXCEPT !.pc = "sync", !.todo = Providers])
      /\ Entered([new EXCEPT !.pc = "sync", !.todo = Providers, !.op = "catalog"])
      /\ Entered([new EXCEPT !.pc = "returned", !.result = "error"])
      /\ Entered([new EXCEPT !.pc = "split"])
      /\ \A pc : Entered([new EXCEPT !.pc = pc]) /\ Entered([new EXCEPT !.pc = pc, !.op = "guide"])
    BY DEF NoCall, CallFields
<1>2. Entered(call')
    BY <1>1 DEF Enter, JobOps
<1>3. NoSnapshot.programs = {}
    BY DEF NoSnapshot
<1> HIDE DEF new
<1> QED
    BY <1>2, <1>3 DEF CallTyped

LEMMA CanceledTyped ==
    ASSUME CallTyped, call' \in {call, [call EXCEPT !.canceled = TRUE]}
    PROVE  CallTyped'
<1>1. /\ DOMAIN call' = CallFields /\ call'.pc = call.pc /\ call'.config = call.config
      /\ call'.programs = call.programs /\ call'.base = call.base
    BY DEF CallTyped, CallFields
<1> QED
    BY <1>1 DEF CallTyped, InService

\* A lineup of another configuration is dropped with its guide.
LEMMA HydrateKeeps ==
    ASSUME GuideInv, NEW h \in Hydrators, Hydrate(h)
    PROVE  StoreTyped' /\ Keeps
<1>1. StoreInv /\ StoreTyped
    BY DEF GuideInv
<1> DEFINE k == runner[h].config
           empty == [NoSnapshot EXCEPT !.config = k, !.source = PlainSource[k]]
           exact == FALSE
           result == Merged(served, empty, exact, now)
<1>2. CASE UNCHANGED <<served, disk>>
    BY <1>1, <1>2, UnchangedGuide
<1>3. CASE Commit(result) /\ served.channels # {} /\ ~Matches(k)
    <2>1. IsSnapshot(empty) /\ empty.config = k /\ empty.programs = {}
        BY DEF NoSnapshot, IsSnapshot
    <2> HIDE DEF empty, exact
    <2>2. IsSnapshot(result) /\ result.config = k
        BY <1>1, <2>1, MergedFields DEF StoreInv
    <2>3. result.programs \in {served.programs, {}}
        BY <1>1, <2>1, MergedFields DEF StoreInv
    <2> HIDE DEF result
    <2>4. /\ served'.config = k /\ served'.programs = result.programs
          /\ disk' = disk \/ disk'.programs = result.programs
        BY <1>3, <2>2, CommittedFields
    <2>5. StoreTyped'
        BY <1>1, <2>3, <2>4 DEF StoreTyped
    <2>6. ~SameScope
        BY <1>3, <2>4 DEF Matches, SameScope
    <2> QED
        BY <2>5, <2>6 DEF Keeps
<1> QED
    BY <1>2, <1>3 DEF Hydrate

\* A restart serves what was served, if there was a lineup.
LEMMA RestoreKeeps ==
    ASSUME GuideInv, Restore
    PROVE  StoreTyped' /\ Keeps
<1>1. /\ StoreTyped /\ IsSnapshot(disk) /\ ServedIsStored
      /\ IsSnapshot(NoSnapshot) /\ NoSnapshot.programs = {} /\ NoSnapshot.channels = {}
    BY EmptyIsSnapshot DEF GuideInv, StoreInv, NoSnapshot
<1> DEFINE exact == FALSE
           loaded == Merged(NoSnapshot, disk, exact, 0)
<1>2. ~ShouldPreserveGuide(NoSnapshot, disk)
    BY <1>1 DEF ShouldPreserveGuide
<1>3. exact \in BOOLEAN /\ ~exact
    OBVIOUS
<1> HIDE DEF exact
<1>4. loaded.programs = disk.programs
    BY <1>1, <1>2, <1>3, MergedGuide
<1> HIDE DEF loaded
<1>5. served'.programs \in {{}, disk.programs} /\ disk' = disk
    BY <1>1, <1>4 DEF Restore, loaded, exact
<1>6. StoreTyped'
    BY <1>1, <1>5 DEF StoreTyped
<1>7. CASE served.channels = {}
    BY <1>6, <1>7 DEF Keeps, SameLineup
<1>8. CASE served.channels # {}
    <2>1. disk.channels = served.channels /\ disk.programs = served.programs
        BY <1>1, <1>8 DEF ServedIsStored
    <2>2. disk # NoSnapshot
        BY <1>1, <1>8, <2>1
    <2>3. served'.programs = served.programs
        BY <1>4, <2>1, <2>2 DEF Restore, loaded, exact
    <2> QED
        BY <1>1, <1>6, <2>3, SameGuideKept
<1> QED
    BY <1>7, <1>8

LEMMA GuideStep ==
    ASSUME GuideInv, Next
    PROVE  StoreTyped' /\ CallTyped' /\ Keeps
<1> DEFINE Goal == StoreTyped' /\ CallTyped' /\ Keeps
<1>1. StoreInv /\ StoreTyped /\ CallTyped /\ RequestInv
    BY DEF GuideInv
<1>2. UNCHANGED call => CallTyped'
    BY <1>1 DEF CallTyped, InService
<1>3. UNCHANGED <<served, disk>> => StoreTyped' /\ Keeps
    BY <1>1, UnchangedGuide
<1>4. ASSUME MarkEPGLoading \/ RecordEPGFailure, UNCHANGED call
      PROVE  Goal
    BY <1>1, <1>2, <1>4, MarkedGuide
<1>5. ASSUME NEW op, NEW k, Supersede(op, k), UNCHANGED <<served, disk>>
      PROVE  Goal
    BY <1>1, <1>3, <1>5, CanceledTyped DEF Supersede
<1>6. ASSUME NEW op, NEW k, NEW runners, Start(op, k, runners), UNCHANGED <<served, disk>>
      PROVE  Goal
    BY <1>2, <1>3, <1>5, <1>6 DEF Start
<1>7. ASSUME call' = NoCall, UNCHANGED <<served, disk>>
      PROVE  Goal
    BY <1>3, <1>7, CallIsOver
<1> HIDE DEF Goal
<1>8. CASE Serve
    BY <1>8, ServiceKeeps DEF Serve, Goal
<1>9. CASE Progress
    <2>1. CASE AdmitJob
        BY <1>1, <1>3, <2>1, EntryTyped DEF AdmitJob, RequestInv, Requested, Goal
    <2>2. CASE FinishJob \/ FinishBatch
        BY <1>7, <2>2 DEF FinishJob, FinishBatch, Goal
    <2>3. CASE StartAsked
        BY <1>6, <2>3 DEF StartAsked, Goal
    <2>4. CASE Register
        BY <1>2, <1>3, <2>4 DEF Register, Goal
    <2>5. CASE AdmitBatch
        <3>1. CASE UNCHANGED call
            BY <1>2, <1>3, <2>5, <3>1 DEF AdmitBatch, Goal
        <3>2. CASE Enter("batch", batch.config, batch.at, batch.wanted)
            BY <1>1, <1>3, <2>5, <3>2, EntryTyped DEF AdmitBatch, RequestInv, Goal
        <3> QED
            BY <2>5, <3>1, <3>2 DEF AdmitBatch
    <2>6. CASE RecordPing
        BY <1>4, <2>6 DEF RecordPing, Goal
    <2>7. ASSUME NEW r \in Runners, Run(r) \/ Refused(r)
          PROVE  Goal
        BY <1>2, <1>3, <1>5, <2>7 DEF Run, Refused, Goal
    <2>8. ASSUME NEW h \in Hydrators, Hydrate(h)
          PROVE  Goal
        BY <1>2, <2>8, HydrateKeeps DEF Hydrate, Goal
    <2>9. ASSUME NEW h \in Hydrators, Hydrated(h) \/ Warm(h)
          PROVE  Goal
        BY <1>2, <1>3, <1>4, <1>6, <2>9 DEF Hydrated, Warm, Goal
    <2> QED
        BY <1>9, <2>1, <2>2, <2>3, <2>4, <2>5, <2>6, <2>7, <2>8, <2>9 DEF Progress, Goal
<1>10. CASE Requests
    BY <1>2, <1>3, <1>4, <1>10 DEF Requests, Ask, AskBatch, Task, Capture, Goal
<1>11. CASE ChangeSettings \/ Tick
    BY <1>2, <1>3, <1>11 DEF ChangeSettings, Tick, Goal
<1>12. CASE Restart
    BY <1>12, RestoreKeeps, CallIsOver DEF Restart, Goal
<1> QED
    BY <1>8, <1>9, <1>10, <1>11, <1>12 DEF Next, Goal

\* No step leaves an empty guide for one with programs, nor a smaller one that
\* has lost half of what can be watched, as long as configuration and lineup
\* stay (store.go, shouldPreserveGuide and the regression warnings).
THEOREM GuidesAreKept == Spec => GuideKept
<1>1. Init => GuideInv
    <2> SUFFICES ASSUME Init
                 PROVE  GuideInv
        OBVIOUS
    <2>1. StoreInv
        BY EmptyIsSnapshot DEF Init, StoreInv, ServedIsStored
    <2>2. StoreTyped
        BY DEF Init, StoreTyped, NoSnapshot
    <2>3. CallTyped
        BY DEF Init, CallTyped, NoCall, NoSnapshot, CallFields, InService
    <2>4. RequestInv
        BY DEF Init, RequestInv, NoJob, NoBatch, NoAsk, NoRuns, NoRun
    <2> QED
        BY <2>1, <2>2, <2>3, <2>4 DEF GuideInv
<1>2. GuideInv /\ [Next]_vars => GuideInv'
    <2>1. ASSUME GuideInv, Next
          PROVE  GuideInv'
        BY <2>1, GuideStep, StepStores, RequestsKept DEF GuideInv
    <2>2. ASSUME GuideInv, UNCHANGED vars
          PROVE  GuideInv'
        BY <2>2 DEF vars, requests, GuideInv, StoreInv, IsSnapshot, ServedIsStored, StoreTyped,
                    CallTyped, InService, RequestInv, Requested
    <2> QED
        BY <2>1, <2>2
<1>3. GuideInv /\ [Next]_vars =>
          [SameScope /\ SameLineup /\ served.programs # {} =>
              /\ served'.programs # {}
              /\ LET old == Watchable(served.programs, call.at)
                     new == Watchable(served'.programs, call.at)
                 IN  Halved(old, new) \/ Halved(ChannelsOf(old), ChannelsOf(new)) =>
                         Cardinality(served'.programs) >= Cardinality(served.programs)]_vars
    BY GuideStep DEF Keeps
<1> QED
    BY <1>1, <1>2, <1>3, PTL DEF Spec, GuideKept
=============================================================================
