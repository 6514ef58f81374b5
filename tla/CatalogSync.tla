----------------------------- MODULE CatalogSync -----------------------------
(***************************************************************************)
(* The service that fetches from the provider and publishes to the store   *)
(* (internal/app/sync.go and service.go).  The coordinator admits one call *)
(* at a time.  A call reads the store, waits for the provider and writes   *)
(* the store in separate steps, and others use the store in between; what  *)
(* the provider answers is any of the lineups and guides of the            *)
(* configuration, or an error.                                             *)
(*                                                                         *)
(* A call of RefreshGuideOnlyNow or of a batch may turn into SyncNow on    *)
(* its way; op then changes.  RecordFailure only sets texts and times that *)
(* the model leaves out.                                                   *)
(***************************************************************************)
EXTENDS CatalogStore

CONSTANTS
    Kind,       \* Configs -> "xtream", "dispatcharr" or "m3u"
    SourceOf,   \* Configs -> what Catalog.Source may be
    Providers,  \* the sources of an Xtream configuration
    Owner,      \* Channels -> Providers: xtreamChannelSourceID
    Alternate,  \* providers with an alternate guide
    Lineups,    \* Configs -> the lineups a provider may answer with
    Feeds       \* Configs -> the guides a provider may answer with

ASSUME SyncAssumption ==
    /\ Kind \in [Configs -> {"xtream", "dispatcharr", "m3u"}]
    /\ SourceOf \in [Configs -> SUBSET Sources]
    /\ Owner \in [Channels -> Providers]
    /\ Alternate \subseteq Providers
    /\ Lineups \in [Configs -> SUBSET SUBSET Channels]
    /\ Feeds \in [Configs -> SUBSET SUBSET Programs]
    /\ \A k \in Configs : \A feed \in Feeds[k] : \A p \in feed : p.config = k

VARIABLE call   \* the call inside the service

NoCall == [op |-> "", config |-> None, at |-> 0, pc |-> "out", canceled |-> FALSE,
           wanted |-> {}, only |-> {}, todo |-> {}, good |-> FALSE,
           failed |-> FALSE, base |-> NoSnapshot, channels |-> {},
           programs |-> {}, status |-> "", count |-> 0, result |-> ""]

IsXtream == Kind[call.config] = "xtream"
OfProvider(channels, p) == {c \in channels : Owner[c] = p}

\* A guide may be empty: nothing matched, or the deadline is too tight for it.
Guides == Feeds[call.config] \cup {{}}

\* Mutant: what is kept of a failed provider is not tied to a configuration.
KeptOfAny(snapshot, k, channels) == OnChannels(snapshot.programs, channels)

\* preservedProgramsForChannels
Kept(snapshot, k, channels) ==
    IF snapshot.config = k THEN OnChannels(snapshot.programs, channels) ELSE {}

Return(result) == call' = [NoCall EXCEPT !.pc = "returned", !.result = result]
Goto(pc) == call' = [call EXCEPT !.pc = pc]

(***************************************************************************)
(* Entry: SyncNow, RefreshChannelsNow, ForceSyncNow, RefreshGuideOnlyNow   *)
(* and RefreshGuideChannelsNow                                             *)
(***************************************************************************)
Enter(op, k, at, wanted) ==
    LET new   == [NoCall EXCEPT !.op = op, !.config = k, !.at = at, !.wanted = wanted]
        other == served.config \notin {k, None}
        guide == IF Kind[k] = "xtream" THEN "read" ELSE "fetch"
    IN  call' = CASE op \in {"catalog", "channels", "force"} ->
                        [new EXCEPT !.pc = "sync", !.todo = Providers]
                  [] op = "guide" /\ other ->
                        [new EXCEPT !.pc = "sync", !.todo = Providers, !.op = "catalog"]
                  [] op = "guide" /\ ~other -> [new EXCEPT !.pc = guide]
                  [] op = "batch" /\ other ->
                        [new EXCEPT !.pc = "returned", !.result = "error"]
                  [] op = "batch" /\ ~other ->
                        IF Kind[k] = "xtream" /\ wanted # {}
                        THEN [new EXCEPT !.pc = "split"]
                        ELSE [new EXCEPT !.pc = guide, !.op = "guide"]

(***************************************************************************)
(* syncNow                                                                 *)
(***************************************************************************)
Fail == IF call.op = "force" THEN Goto("record") ELSE Return("error")

\* loadXtreamSource, and appendStaleXtreamSource when it fails: the providers
\* one by one, each with its own look at the store.
LoadProvider(p) ==
    /\ call.pc = "sync" /\ IsXtream
    /\ p \in call.todo
    /\ \/ \E lineup \in Lineups[call.config], guide \in Guides :
             LET channels == OfProvider(lineup, p)
                 programs == IF call.op = "channels"
                             THEN Kept(served, call.config, channels)
                             ELSE OnChannels(guide, channels)
             IN  call' = [call EXCEPT !.todo = @ \ {p}, !.good = TRUE,
                                      !.channels = @ \cup channels,
                                      !.programs = @ \cup programs]
       \/ LET channels == IF served.config = call.config
                          THEN OfProvider(served.channels, p) ELSE {}
          IN  call' = [call EXCEPT !.todo = @ \ {p}, !.failed = TRUE,
                                   !.channels = @ \cup channels,
                                   !.programs = @ \cup Kept(served, call.config, channels)]
    /\ UNCHANGED store

LoadedAll ==
    /\ call.pc = "sync" /\ IsXtream
    /\ call.todo = {}
    /\ IF call.good THEN Goto("health") ELSE Fail
    /\ UNCHANGED store

\* preservedPrograms: a durable guide that the lineup covers stays where it
\* is, as if there were none.
Preserved(channels) ==
    IF served.durable /\ Covers(served, channels) THEN {}
    ELSE Kept(served, call.config, channels)

\* The other two kinds of provider: one lineup and one guide.
LoadOther ==
    /\ call.pc = "sync" /\ ~IsXtream
    /\ \/ Fail
       \/ \E lineup \in Lineups[call.config], guide \in Guides :
             call' = [call EXCEPT !.pc = "health", !.channels = lineup,
                                  !.programs = IF call.op = "channels"
                                               THEN Preserved(lineup)
                                               ELSE OnChannels(guide, lineup)]
    /\ UNCHANGED store

\* syncHealthForOperation: a channel refresh copies the health it finds.
DescribeHealth ==
    /\ call.pc = "health"
    /\ LET count  == Cardinality(call.programs)
           fresh  == [status |-> IF count > 0 THEN "ok" ELSE "", count |-> count]
           copied == IF served.config = call.config
                     THEN [status |-> served.status, count |-> count]
                     ELSE [status |-> "", count |-> 0]
           health == IF call.op = "channels" THEN copied ELSE fresh
       IN  call' = [call EXCEPT !.pc = "publish", !.status = health.status,
                                !.count = health.count]
    /\ UNCHANGED store

\* replaceSnapshotAfterSync.  With providers that failed, the failure is
\* recorded and stored once more.
Publish ==
    /\ call.pc = "publish"
    /\ \E source \in SourceOf[call.config] :
       LET exact == call.op = "force" /\ call.programs # {}
           next  == [config |-> call.config, source |-> source,
                     channels |-> call.channels, programs |-> call.programs,
                     durable |-> FALSE, synced |-> TRUE, status |-> call.status,
                     count |-> call.count, inner |-> call.status]
           result == Merged(served, next, exact, call.at)
       IN  \/ /\ Commit(result)
              /\ IF call.failed THEN Goto("save") ELSE Return("ok")
           \/ CommitFails(result) /\ Fail

Save ==
    /\ call.pc = "save"
    /\ \/ Commit(served) /\ Return("ok")
       \/ CommitFails(served) /\ Fail

(***************************************************************************)
(* refreshXtreamEPGSources, dispatcharrGuidePrograms and refreshEPG        *)
(***************************************************************************)
Read ==
    /\ call.pc = "read"
    /\ call' = [call EXCEPT !.pc = "fetch", !.base = served]
    /\ UNCHANGED store

\* A provider without an answer, or with an empty one, keeps its guide; a
\* refresh of some providers keeps the guide of the others.
FetchProviders ==
    /\ call.pc = "fetch" /\ IsXtream
    /\ LET k     == call.config
           base  == call.base
           asked == {p \in Providers : /\ call.only = {} \/ p \in call.only
                                       /\ OfProvider(base.channels, p) # {}}
           others == {c \in base.channels : call.only # {} /\ Owner[c] \notin call.only}
       IN  \E fresh \in SUBSET asked : \E guide \in [fresh -> Feeds[k]] :
              LET answer(p) == OnChannels(guide[p], OfProvider(base.channels, p))
              IN  /\ \A p \in fresh : answer(p) # {}
                  /\ IF fresh = {} /\ asked # {} THEN Return("error")
                     ELSE call' = [call EXCEPT
                            !.pc = "check",
                            !.programs = OnChannels(base.programs, others)
                               \cup (UNION {answer(p) : p \in fresh})
                               \cup (UNION {Kept(base, k, OfProvider(base.channels, p)) :
                                               p \in asked \ fresh})]
    /\ UNCHANGED store

\* M3U maps the guide to the lineup that is served when the guide is there,
\* Dispatcharr to the lineup it has just fetched.
FetchOther ==
    /\ call.pc = "fetch" /\ ~IsXtream
    /\ \/ Goto("record")
       \/ \E lineup \in Lineups[call.config], guide \in Guides :
             call' = IF Kind[call.config] = "m3u"
                     THEN [call EXCEPT !.pc = "check",
                                       !.programs = OnChannels(guide, served.channels)]
                     ELSE [call EXCEPT !.pc = "write",
                                       !.programs = OnChannels(guide, lineup)]
    /\ UNCHANGED store

\* ctx.Err before the guide is written.
Check ==
    /\ call.pc = "check"
    /\ IF ~call.canceled THEN Goto("write")
       ELSE IF IsXtream THEN Return("error") ELSE Goto("record")
    /\ UNCHANGED store

\* replacePrograms.  A batch that has refreshed the providers with an
\* alternate guide goes on with the channels of the others.
Write ==
    /\ call.pc = "write"
    /\ IF call.programs = {} THEN Goto("record") /\ UNCHANGED store
       ELSE LET result == WithGuide(served, call.programs, call.at)
            IN  \/ /\ Commit(result)
                   /\ IF call.only # {} /\ call.wanted # {}
                      THEN call' = [call EXCEPT !.pc = "channels", !.only = {},
                                                !.programs = {}]
                      ELSE Return("ok")
                \/ /\ CommitFails(result)
                   /\ IF Kind[call.config] = "m3u" THEN Goto("record")
                      ELSE Return("error")

\* RecordEPGFailure, and what persistSnapshot makes of it does not matter.
Record ==
    /\ call.pc = "record"
    /\ RecordEPGFailure
    /\ Goto("recorded")

Recorded ==
    /\ call.pc = "recorded"
    /\ Commit(served) \/ CommitFails(served)
    /\ Return("error")

(***************************************************************************)
(* RefreshGuideChannelsNow of an Xtream configuration                      *)
(***************************************************************************)
\* Channels of a provider with an alternate guide are refreshed as a whole,
\* and first.
Split ==
    /\ call.pc = "split"
    /\ LET alternate == {c \in call.wanted \cap served.channels : Owner[c] \in Alternate}
       IN  call' = [call EXCEPT !.only = {Owner[c] : c \in alternate},
                                !.wanted = @ \ alternate,
                                !.pc = IF alternate = {} THEN "channels" ELSE "read"]
    /\ UNCHANGED store

\* refreshXtreamEPGChannels
ReadChannels ==
    /\ call.pc = "channels"
    /\ call' = IF served.channels = {}
               THEN [call EXCEPT !.pc = "sync", !.op = "catalog", !.todo = Providers]
               ELSE [call EXCEPT !.pc = "short", !.base = served]
    /\ UNCHANGED store

\* The channels that answer get their guide; all others that were asked for
\* lose theirs, unless none answers.
FetchChannels ==
    /\ call.pc = "short"
    /\ LET base == call.base
       IN  \/ Return("error")
           \/ \E answered \in (SUBSET (call.wanted \cap base.channels)) \ {{}} :
              \E guide \in Guides :
                 call' = [call EXCEPT
                     !.pc = "check",
                     !.programs = OnChannels(base.programs, base.channels \ call.wanted)
                                     \cup OnChannels(guide, answered)]
    /\ UNCHANGED store

Service ==
    \/ \E p \in Providers : LoadProvider(p)
    \/ LoadedAll \/ LoadOther \/ DescribeHealth \/ Publish \/ Save
    \/ Read \/ FetchProviders \/ FetchOther \/ Check \/ Write
    \/ Record \/ Recorded
    \/ Split \/ ReadChannels \/ FetchChannels
=============================================================================
