---------------------------- MODULE CatalogStore ----------------------------
(***************************************************************************)
(* The catalog snapshot that all readers share (internal/cache/store.go)   *)
(* and its copy in the local database (internal/cache/snapshot_store.go).  *)
(* Every operation holds s.mu, saving included, and is one step; readers   *)
(* get the last published snapshot and never wait.                         *)
(*                                                                         *)
(* A guide is a set of programs.  A program carries the configuration it   *)
(* was fetched under, which the code does not record, so that properties   *)
(* can tell whose guide is served.  Times and texts of failures and the    *)
(* warning of a kept guide are left out; what is kept of the health is     *)
(* what the code decides on or the status reports of the guide.            *)
(***************************************************************************)
EXTENDS Naturals, FiniteSets

CONSTANTS
    Configs,    \* catalog configurations (config.CatalogCacheKey)
    Sources,    \* what Catalog.Source may be: mode and channel profile
    Channels,   \* channel IDs, which two configurations may share
    Ends,       \* when programs end, 0 for one without an end
    None        \* no configuration, no source, nothing stored

Programs == [config : Configs, channel : Channels, end : Ends]
Statuses == {"", "ok", "loading", "failed"}

Snapshots ==
    [config : Configs \cup {None},      \* ConfigKey
     source : Sources \cup {None},      \* Catalog.Source
     channels : SUBSET Channels,        \* Catalog.Channels
     programs : SUBSET Programs,        \* Catalog.Programs or the durable Guide
     durable : BOOLEAN,                 \* Guide # nil: the programs are stored
     synced : BOOLEAN,                  \* Health.LastSuccessUnix # 0
     status : Statuses,                 \* Health.EPGStatus
     count : Nat,                       \* Health.EPGProgramCount
     inner : Statuses]                  \* Catalog.Health.EPGStatus

ASSUME StoreAssumption ==
    /\ IsFiniteSet(Channels) /\ IsFiniteSet(Configs)
    /\ IsFiniteSet(Ends) /\ Ends \subseteq Nat
    /\ None \notin Configs /\ None \notin Sources

VARIABLES
    served,     \* s.snapshot and s.current
    disk        \* the stored snapshot, or NoSnapshot

store == <<served, disk>>

NoSnapshot ==
    [config |-> None, source |-> None, channels |-> {}, programs |-> {},
     durable |-> FALSE, synced |-> FALSE, status |-> "", count |-> 0, inner |-> ""]

(***************************************************************************)
(* Which guide a new snapshot or a new guide leaves                        *)
(***************************************************************************)
ChannelsOf(programs) == {p.channel : p \in programs}
OnChannels(programs, channels) == {p \in programs : p.channel \in channels}
Covers(snapshot, channels) == ChannelsOf(snapshot.programs) \subseteq channels

SameGuideScope(current, next) ==
    /\ current.config = next.config \/ None \in {current.config, next.config}
    /\ current.source = next.source

\* relevantGuideCoverage: the programs that have not ended.
Relevant(programs, at) == {p \in programs : p.end = 0 \/ p.end > at}

\* Mutant: the programs are counted and the channels they cover are not.
RegressedByCount(previous, next, at) ==
    LET old == Relevant(previous, at)
    IN  old # {} /\ 2 * Cardinality(Relevant(next, at)) < Cardinality(old)

\* guideRegressionWarning and snapshotRegressionWarning: more than half of
\* the programs or of the channels are gone.
Regressed(previous, next, at) ==
    LET old == Relevant(previous, at)
        new == Relevant(next, at)
    IN  /\ old # {}
        /\ \/ 2 * Cardinality(new) < Cardinality(old)
           \/ 2 * Cardinality(ChannelsOf(new)) < Cardinality(ChannelsOf(old))

\* Mutant: a guide is kept whatever configuration it belongs to.
ShouldPreserveAnyGuide(current, next) ==
    /\ current.programs # {}
    /\ Cardinality(next.programs) < Cardinality(current.programs)
    /\ Covers(current, next.channels)

ShouldPreserveGuide(current, next) ==
    /\ SameGuideScope(current, next)
    /\ current.programs # {}
    /\ Cardinality(next.programs) < Cardinality(current.programs)
    /\ Covers(current, next.channels)

\* An exact snapshot replaces any guide but one that it would collapse.
RejectsGuide(current, next, at) ==
    /\ next.programs # {}
    /\ SameGuideScope(current, next)
    /\ Covers(current, next.channels)
    /\ Regressed(current.programs, next.programs, at)

PreservedStatus(current) ==
    LET status == IF current.inner \in {"", "loading"} THEN current.status
                  ELSE current.inner
    IN  IF status \in {"", "loading"} /\ current.programs # {} THEN "ok" ELSE status

KeepGuide(current, next) ==
    [next EXCEPT !.programs = current.programs, !.durable = current.durable,
                 !.inner = PreservedStatus(current)]

Mirror(current, next) ==
    [next EXCEPT !.status = PreservedStatus(current),
                 !.count = Cardinality(current.programs)]

\* A snapshot that says nothing of its guide is given a status.
Described(current, next) ==
    IF next.status # "" THEN next
    ELSE IF next.synced /\ next.programs # {}
    THEN [next EXCEPT !.status = "ok", !.inner = "ok",
                      !.count = Cardinality(next.programs)]
    ELSE [next EXCEPT !.status = current.status, !.count = current.count]

\* replace, up to the point where the result is stored.
Merged(current, next, exact, at) ==
    Described(current,
        IF exact THEN IF RejectsGuide(current, next, at)
                      THEN Mirror(current, KeepGuide(current, next)) ELSE next
        ELSE IF ShouldPreserveGuide(current, next)
             THEN KeepGuide(current, next) ELSE next)

\* ReplacePrograms, up to the point where the result is stored.
WithGuide(current, programs, at) ==
    IF Regressed(current.programs, programs, at)
    THEN [Mirror(current, current) EXCEPT !.inner = PreservedStatus(current)]
    ELSE [current EXCEPT !.programs = programs, !.durable = FALSE, !.inner = "ok",
                         !.status = "ok", !.count = Cardinality(programs)]

(***************************************************************************)
(* Storing and publishing                                                  *)
(***************************************************************************)
\* Save stores a snapshot in one transaction, unless it has no channels, and
\* returns it with the stored guide in place of the programs.
Commit(snapshot) ==
    IF snapshot.channels = {}
    THEN served' = snapshot /\ UNCHANGED disk
    ELSE /\ served' = [snapshot EXCEPT !.durable = TRUE]
         /\ disk' = served'

\* Mutant: the snapshot is not rolled back when it cannot be stored.
CommitFailsDirty(snapshot) ==
    /\ snapshot.channels # {}
    /\ served' = snapshot
    /\ UNCHANGED disk

\* Save fails: the caller gets an error, what is served stays.
CommitFails(snapshot) ==
    /\ snapshot.channels # {}
    /\ UNCHANGED store

MarkEPGLoading ==
    /\ served' = [served EXCEPT !.status = "loading"]
    /\ UNCHANGED disk

RecordEPGFailure ==
    /\ served' = [served EXCEPT !.status = "failed", !.inner = "failed"]
    /\ UNCHANGED disk

\* A new process loads what is stored into an empty store.
Restore ==
    /\ served' = IF disk = NoSnapshot THEN NoSnapshot
                 ELSE Merged(NoSnapshot, disk, FALSE, 0)
    /\ UNCHANGED disk
=============================================================================
