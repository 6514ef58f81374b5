------------------------- MODULE RefreshCoordinator -------------------------
(***************************************************************************)
(* The refresh coordinator (internal/plugin/refresh_coordinator.go): the   *)
(* one gate through which web handlers, scheduled tasks and the background *)
(* guide fill reach the provider and rewrite the catalog snapshot.         *)
(*                                                                         *)
(* A call is one invocation of Start, Run or RunGuideChannels together     *)
(* with the goroutine that executes it.  Each invocation creates at most   *)
(* one execution, so a call also names its refreshExecution and, for Start *)
(* and Run, its job ID.  c.job and c.run are assigned together and only in *)
(* nextJobLocked: job.id names both.                                       *)
(*                                                                         *)
(* What holds c.mu is one atomic step.  c.runMu is held across steps; the  *)
(* call that holds it is runMu.                                            *)
(***************************************************************************)
EXTENDS Naturals, FiniteSets

CONSTANTS
    Calls,      \* invocations of the coordinator's API
    Keys,       \* catalog configurations (config.CatalogCacheKey)
    Requests,   \* what a call may ask: [kind, op, key]
    None        \* no call, no configuration

Kinds == {"start", "run", "batch"}
Ops == {"force", "catalog", "channels", "guide"}

ASSUME ConstantsAssumption ==
    /\ Requests \subseteq [kind : Kinds, op : Ops, key : Keys]
    /\ None \notin Calls
    /\ None \notin Keys

VARIABLES
    job,        \* c.job: the job Status reports, and c.run
    cancel,     \* the call whose context c.cancel ends, or None
    closing,    \* progress of Close: c.closed is closing # "open"
    drain,      \* the executions Close waits for
    guides,     \* c.guides: the registered guide batches
    runMu,      \* the holder of c.runMu, or None
    pc,         \* where each call is
    req,        \* what each call asked
    ended,      \* the calls whose context has ended
    waitOn,     \* the execution a call waits for, or None
    outcome,    \* the error value of a call's execution or wait
    done,       \* the executions whose done channel is closed
    published   \* configuration of the snapshot last published, or None

vars == <<job, cancel, closing, drain, guides, runMu, pc, req, ended, waitOn,
          outcome, done, published>>

coordinator == <<job, cancel, closing, drain, guides>>

JobStates == {"idle", "queued", "running", "succeeded", "failed", "canceled"}
NoRequest == [kind |-> "none", op |-> "none", key |-> None]

\* isActiveRefresh
Active == job.state \in {"queued", "running"}

Covers(active, requested) ==
    \/ active = requested
    \/ active = "force"
    \/ active = "catalog" /\ requested # "force"

Priority == [force |-> 4, catalog |-> 3, channels |-> 2, guide |-> 1]

\* The steps on which a call holds c.runMu, and those inside the target.
InTarget(c) == pc[c] \in {"target", "published"}
Holding(c) == InTarget(c) \/ pc[c] \in {"finish", "complete", "unlock"}
IsBatch(c) == req[c].kind = "batch"

Init ==
    /\ job = [id |-> None, op |-> "none", state |-> "idle", key |-> None]
    /\ cancel = None
    /\ closing = "open"
    /\ drain = {}
    /\ guides = {}
    /\ runMu = None
    /\ pc = [c \in Calls |-> "idle"]
    /\ req = [c \in Calls |-> NoRequest]
    /\ ended = {}
    /\ waitOn = [c \in Calls |-> None]
    /\ outcome = [c \in Calls |-> "none"]
    /\ done = {}
    \* The store restores the snapshot of an earlier process, or nothing.
    /\ published \in Keys \cup {None}

(***************************************************************************)
(* Entry: what the three API methods do under c.mu                         *)
(***************************************************************************)
Return(c, result) ==
    /\ pc' = [pc EXCEPT ![c] = "done"]
    /\ outcome' = [outcome EXCEPT ![c] = result]

\* Mutant: nextJobLocked without the c.cancel() before it.
SupersedeWithoutCancel(c, r, live) ==
    /\ job' = [id |-> c, op |-> r.op, state |-> "queued", key |-> r.key]
    /\ cancel' = c
    /\ ended' = IF live THEN ended \ {c} ELSE ended
    /\ pc' = [pc EXCEPT ![c] = "queued"]
    /\ UNCHANGED <<closing, drain, guides, runMu, waitOn, outcome, done,
                   published>>

\* nextJobLocked behind c.cancel(): the newest job replaces the current one.
\* A new configuration also cancels the guide batches of the old one.
Supersede(c, r, live) ==
    /\ job' = [id |-> c, op |-> r.op, state |-> "queued", key |-> r.key]
    /\ cancel' = c
    /\ LET canceled == {x \in Calls : \/ x = cancel
                                      \/ x \in guides /\ job.key # r.key}
       IN  ended' = IF live THEN (ended \cup canceled) \ {c}
                            ELSE ended \cup canceled
    /\ pc' = [pc EXCEPT ![c] = "queued"]
    /\ UNCHANGED <<closing, drain, guides, runMu, waitOn, outcome, done,
                   published>>

\* Start: a closed coordinator or an active job that covers or outranks the
\* request answers with the current job, anything else is superseded.  The
\* new job has a context of its own, with a ten minute timeout.
Start(c, r) ==
    /\ pc[c] = "idle"
    /\ r.kind = "start"
    /\ req' = [req EXCEPT ![c] = r]
    /\ IF \/ closing # "open"
          \/ /\ Active /\ job.key = r.key
             /\ \/ Covers(job.op, r.op)
                \/ Priority[job.op] >= Priority[r.op]
       THEN /\ Return(c, "joined")
            /\ UNCHANGED <<coordinator, runMu, ended, waitOn, done, published>>
       ELSE Supersede(c, r, TRUE)

\* The body of Run, also taken by its recursive call: wait for an active job
\* of the same configuration, otherwise supersede the current one.
RunBody(c, r) ==
    \/ /\ closing # "open"
       /\ Return(c, "closed")
       /\ UNCHANGED <<coordinator, runMu, ended, waitOn, done, published>>
    \/ /\ closing = "open"
       /\ Active /\ job.key = r.key
       /\ waitOn' = [waitOn EXCEPT ![c] = job.id]
       /\ pc' = [pc EXCEPT ![c] = "waiting"]
       /\ UNCHANGED <<coordinator, runMu, ended, outcome, done, published>>
    \/ /\ closing = "open"
       /\ ~(Active /\ job.key = r.key)
       /\ Supersede(c, r, FALSE)

Run(c, r) ==
    /\ pc[c] = "idle"
    /\ r.kind = "run"
    /\ req' = [req EXCEPT ![c] = r]
    /\ RunBody(c, r)

RunAgain(c) ==
    /\ pc[c] = "again"
    /\ RunBody(c, req[c])
    /\ UNCHANGED req

\* RunGuideChannels refuses when its context is already over, after Close and
\* when the coordinator has moved to another configuration.
RefuseBatch(c, r) ==
    /\ pc[c] = "idle"
    /\ r.kind = "batch"
    /\ req' = [req EXCEPT ![c] = r]
    /\ \/ Return(c, "canceled")
       \/ closing # "open" /\ Return(c, "closed")
    /\ UNCHANGED <<coordinator, runMu, ended, waitOn, done, published>>

RegisterBatch(c, r) ==
    /\ pc[c] = "idle"
    /\ r.kind = "batch"
    /\ closing = "open"
    /\ job.key \in {None, r.key}
    /\ req' = [req EXCEPT ![c] = r]
    /\ job' = [job EXCEPT !.key = r.key]
    /\ guides' = guides \cup {c}
    /\ pc' = [pc EXCEPT ![c] = "queued"]
    /\ UNCHANGED <<cancel, closing, drain, runMu, ended, waitOn, outcome, done,
                   published>>

(***************************************************************************)
(* Waiting on another call's execution (waitFor inside Run)                *)
(***************************************************************************)
\* Mutant: Run forgets refreshOperationCovers after the wait.
WakeAlwaysDone(c) ==
    /\ pc[c] = "waiting"
    /\ waitOn[c] \in done
    /\ Return(c, outcome[waitOn[c]])
    /\ UNCHANGED <<coordinator, runMu, req, ended, waitOn, done, published>>

\* The job waited for is over: its error is the waiter's error; a success
\* counts only if the operation covers the one asked, else Run starts over.
Wake(c) ==
    /\ pc[c] = "waiting"
    /\ waitOn[c] \in done
    /\ IF outcome[waitOn[c]] # "ok" \/ Covers(req[waitOn[c]].op, req[c].op)
       THEN Return(c, outcome[waitOn[c]])
       ELSE /\ pc' = [pc EXCEPT ![c] = "again"]
            /\ UNCHANGED outcome
    /\ UNCHANGED <<coordinator, runMu, req, ended, waitOn, done, published>>

GiveUp(c) ==
    /\ pc[c] = "waiting"
    /\ c \in ended
    /\ Return(c, "canceled")
    /\ UNCHANGED <<coordinator, runMu, req, ended, waitOn, done, published>>

\* A caller goes away, or the ten minutes of a started job are over.
Expire(c) ==
    /\ pc[c] \in {"queued", "target", "published", "waiting", "again"}
    /\ ended' = ended \cup {c}
    /\ UNCHANGED <<coordinator, runMu, pc, req, waitOn, outcome, done,
                   published>>

(***************************************************************************)
(* Execution                                                               *)
(***************************************************************************)
\* Mutant: markRunning and finish without the job ID check.
MarkNewestJob(c, state) ==
    job' = [job EXCEPT !.state = state]

\* finish and markRunning touch the job only while it is still their own.
Mark(c, state) ==
    job' = IF job.id = c THEN [job EXCEPT !.state = state] ELSE job

\* Mutant: execution without runMu.
EnterUnlocked(c) ==
    /\ pc[c] = "queued"
    /\ runMu' = c
    /\ c \notin ended
    /\ pc' = [pc EXCEPT ![c] = "target"]
    /\ IF IsBatch(c) THEN UNCHANGED job ELSE Mark(c, "running")
    /\ UNCHANGED <<cancel, closing, drain, guides, req, ended, waitOn, outcome,
                   done, published>>

\* Mutant: the context is not looked at once runMu is held.
EnterWithoutContext(c) ==
    /\ pc[c] = "queued"
    /\ runMu = None
    /\ runMu' = c
    /\ pc' = [pc EXCEPT ![c] = "target"]
    /\ IF IsBatch(c) THEN UNCHANGED job ELSE Mark(c, "running")
    /\ UNCHANGED <<cancel, closing, drain, guides, req, ended, waitOn, outcome,
                   done, published>>

\* Lock runMu, look at the context and enter the target.  A cancellation
\* that falls between the check and markRunning has the effect of one that
\* falls right after it, so the three are one step.
Enter(c) ==
    /\ pc[c] = "queued"
    /\ runMu = None
    /\ runMu' = c
    /\ IF c \in ended
       THEN /\ outcome' = [outcome EXCEPT ![c] = "canceled"]
            /\ pc' = [pc EXCEPT ![c] = IF IsBatch(c) THEN "unlock" ELSE "finish"]
            /\ UNCHANGED job
       ELSE /\ pc' = [pc EXCEPT ![c] = "target"]
            /\ IF IsBatch(c) THEN UNCHANGED job ELSE Mark(c, "running")
            /\ UNCHANGED outcome
    /\ UNCHANGED <<cancel, closing, drain, guides, req, ended, waitOn, done,
                   published>>

\* The target publishes a snapshot, whether or not its context has ended
\* meanwhile: the sync paths do not look at it before they replace the
\* snapshot.  A batch gives up on a snapshot of another configuration, and
\* a guide refresh of a store that never had a snapshot need not set its key.
Publish(c) ==
    /\ pc[c] = "target"
    /\ IsBatch(c) => published \in {None, req[c].key}
    /\ \/ published' = req[c].key
       \/ /\ published = None
          /\ IsBatch(c) \/ req[c].op = "guide"
          /\ UNCHANGED published
    /\ pc' = [pc EXCEPT ![c] = "published"]
    /\ UNCHANGED <<coordinator, runMu, req, ended, waitOn, outcome, done>>

\* The target returns: nil after publishing, an error at any time.  Once the
\* context has ended an error counts as the cancellation.
Leave(c) ==
    /\ InTarget(c)
    /\ \E nil \in BOOLEAN :
         /\ nil => pc[c] = "published"
         /\ outcome' = [outcome EXCEPT ![c] =
                          IF nil THEN "ok"
                          ELSE IF c \in ended THEN "canceled" ELSE "error"]
    /\ pc' = [pc EXCEPT ![c] = IF IsBatch(c) THEN "unlock" ELSE "finish"]
    /\ UNCHANGED <<coordinator, runMu, req, ended, waitOn, done, published>>

FinalState == [ok |-> "succeeded", canceled |-> "canceled", error |-> "failed"]

Finish(c) ==
    /\ pc[c] = "finish"
    /\ Mark(c, FinalState[outcome[c]])
    /\ cancel' = IF job.id = c THEN None ELSE cancel
    /\ pc' = [pc EXCEPT ![c] = "complete"]
    /\ UNCHANGED <<closing, drain, guides, runMu, req, ended, waitOn, outcome,
                   done, published>>

\* Mutant: an execution that returns without complete.
CompleteForgotten(c) ==
    /\ pc[c] = "complete"
    /\ pc' = [pc EXCEPT ![c] = "unlock"]
    /\ UNCHANGED <<coordinator, runMu, req, ended, waitOn, outcome, done,
                   published>>

\* complete, before runMu is released; a batch completes after it.
Complete(c) ==
    /\ pc[c] = "complete"
    /\ done' = done \cup {c}
    /\ pc' = [pc EXCEPT ![c] = "unlock"]
    /\ UNCHANGED <<coordinator, runMu, req, ended, waitOn, outcome, published>>

Unlock(c) ==
    /\ pc[c] = "unlock"
    /\ runMu' = None
    /\ pc' = [pc EXCEPT ![c] = IF IsBatch(c) THEN "unregister" ELSE "done"]
    /\ ended' = IF IsBatch(c) THEN ended ELSE ended \cup {c}
    /\ UNCHANGED <<coordinator, req, waitOn, outcome, done, published>>

Unregister(c) ==
    /\ pc[c] = "unregister"
    /\ guides' = guides \ {c}
    /\ ended' = ended \cup {c}
    /\ pc' = [pc EXCEPT ![c] = "notify"]
    /\ UNCHANGED <<job, cancel, closing, drain, runMu, req, waitOn, outcome,
                   done, published>>

\* Mutant: a batch that returns without complete.
NotifyForgotten(c) ==
    /\ pc[c] = "notify"
    /\ pc' = [pc EXCEPT ![c] = "done"]
    /\ UNCHANGED <<coordinator, runMu, req, ended, waitOn, outcome, done,
                   published>>

Notify(c) ==
    /\ pc[c] = "notify"
    /\ done' = done \cup {c}
    /\ pc' = [pc EXCEPT ![c] = "done"]
    /\ UNCHANGED <<coordinator, runMu, req, ended, waitOn, outcome, published>>

(***************************************************************************)
(* Close: stop admission, cancel, and wait for the newest run and for the  *)
(* registered batches.  Superseded runs are not waited for.                *)
(***************************************************************************)
BeginClose ==
    /\ closing = "open"
    /\ closing' = "draining"
    /\ ended' = ended \cup {x \in Calls : x = cancel \/ x \in guides}
    /\ drain' = guides \cup ({job.id} \ {None})
    /\ UNCHANGED <<job, cancel, guides, runMu, pc, req, waitOn, outcome, done,
                   published>>

EndClose ==
    /\ closing = "draining"
    /\ drain \subseteq done
    /\ closing' = "closed"
    /\ UNCHANGED <<job, cancel, drain, guides, runMu, pc, req, ended, waitOn,
                   outcome, done, published>>

-----------------------------------------------------------------------------
Call(c) ==
    \E r \in Requests :
        Start(c, r) \/ Run(c, r) \/ RefuseBatch(c, r) \/ RegisterBatch(c, r)

\* The steps a goroutine takes by itself once its call has been made.
Progress(c) ==
    \/ RunAgain(c) \/ Wake(c) \/ GiveUp(c)
    \/ Enter(c) \/ Publish(c) \/ Leave(c)
    \/ Finish(c) \/ Complete(c) \/ Unlock(c)
    \/ Unregister(c) \/ Notify(c)

Next ==
    \/ \E c \in Calls : Call(c) \/ Expire(c) \/ Progress(c)
    \/ BeginClose
    \/ EndClose

Spec == Init /\ [][Next]_vars

\* Goroutines are scheduled, runMu is handed over (sync.Mutex does not starve
\* a waiter), and a target call returns: its HTTP requests have timeouts.
\* Nobody has to call, to close or to go away.
Fairness ==
    /\ \A c \in Calls : WF_vars(Progress(c))
    /\ WF_vars(EndClose)

FairSpec == Spec /\ Fairness

-----------------------------------------------------------------------------
(***************************************************************************)
(* Properties                                                              *)
(***************************************************************************)
CallStates ==
    {"idle", "waiting", "again", "queued", "target", "published", "finish",
     "complete", "unlock", "unregister", "notify", "done"}
Outcomes == {"none", "ok", "canceled", "error", "joined", "closed"}

\* The types of the coordinator's fields and of the calls' local state.
TypeOK ==
    /\ job \in [id : Calls \cup {None}, op : Ops \cup {"none"},
               state : JobStates, key : Keys \cup {None}]
    /\ cancel \in Calls \cup {None}
    /\ closing \in {"open", "draining", "closed"}
    /\ drain \subseteq Calls
    /\ guides \subseteq Calls
    /\ runMu \in Calls \cup {None}
    /\ pc \in [Calls -> CallStates]
    /\ req \in [Calls -> Requests \cup {NoRequest}]
    /\ ended \subseteq Calls
    /\ waitOn \in [Calls -> Calls \cup {None}]
    /\ outcome \in [Calls -> Outcomes]
    /\ done \subseteq Calls
    /\ published \in Keys \cup {None}

\* What each operation of the target refreshes (Service.RefreshChannelsNow,
\* RefreshGuideOnlyNow, SyncNow, and ForceSyncNow with an exact guide).
WorkOf == [force    |-> {"lineup", "content", "guide", "exact"},
           catalog  |-> {"lineup", "content", "guide"},
           channels |-> {"lineup"},
           guide    |-> {"guide"}]

\* Every refresh that may still do work with a live context is the newest job
\* or a batch of the newest job's configuration, and none is after Close: a
\* replaced refresh was told to stop before its replacement was queued.
OnlyNewestIsLive ==
    \A c \in Calls :
        (pc[c] = "queued" \/ InTarget(c)) /\ c \notin ended =>
            /\ closing = "open"
            /\ IF IsBatch(c) THEN req[c].key = job.key ELSE c = job.id

\* Once the status route reports the job as over, no refresh job, not even a
\* replaced one, is still rewriting the snapshot.
QuietWhenSettled ==
    ~Active => \A c \in Calls : InTarget(c) => IsBatch(c)

\* A job reported as succeeded is the last to have published: a replaced
\* refresh that ignored its cancellation did not overwrite its result.
LastWriteWins ==
    job.state = "succeeded" =>
        \/ published = job.key
        \/ published = None /\ job.op = "guide"

\* After Close has returned no call is inside the target, so nobody touches
\* the store that is closed next, although Close waits neither for replaced
\* jobs nor for calls that still queue for runMu.
NoTargetAfterClose ==
    closing = "closed" => \A c \in Calls : ~InTarget(c)

\* A job the status route shows as queued or running has an execution that
\* will finish it and a cancel function that reaches it.
ActiveJobHasExecution ==
    Active =>
        /\ cancel = job.id
        /\ pc[job.id] \in {"queued", "target", "published", "finish"}
        /\ job.state = "running" => runMu = job.id

\* Run answers nil only after an execution for the same configuration did at
\* least the work that was asked, whoever's execution it was.
SuccessCoversRequest ==
    \A c \in Calls :
        req[c].kind = "run" /\ outcome[c] = "ok" =>
            \E e \in Calls :
                /\ outcome[e] = "ok"
                /\ e \in done \/ pc[e] = "finish" \/ pc[e] = "complete"
                /\ ~IsBatch(e)
                /\ req[e].key = req[c].key
                /\ WorkOf[req[c].op] \subseteq WorkOf[req[e].op]

StateRank == [idle |-> 0, queued |-> 1, running |-> 2,
              succeeded |-> 3, failed |-> 3, canceled |-> 3]

\* The status of one job only moves forward, ends in one final state and
\* keeps its configuration: a late finish of a replaced job never shows.
StatusMovesForward ==
    [][(job'.id = job.id /\ job.id # None) =>
          /\ job'.key = job.key
          /\ job'.state # job.state =>
                StateRank[job'.state] > StateRank[job.state]]_job

\* Every call returns: no waiter is left behind by a replaced job, and Run's
\* recursion ends.
CallsReturn ==
    \A c \in Calls : pc[c] # "idle" ~> pc[c] = "done"

\* Close returns: everything it waits for completes.
CloseReturns == closing = "draining" ~> closing = "closed"

\* The coordinator is the gate of CatalogWriter: the writer is the holder of
\* runMu while it is inside the target, and the gate is shut when Close has
\* returned.
Gate == INSTANCE CatalogWriter WITH
    Writers <- Calls,
    writer <- IF runMu # None /\ InTarget(runMu)
              THEN [who |-> runMu, key |-> req[runMu].key]
              ELSE [who |-> None, key |-> None],
    snapshot <- published,
    shut <- closing = "closed"

\* The target is entered by one call at a time, publishes only for the call
\* that is inside and under its configuration, and is never entered again
\* once Close has returned.
ImplementsGate == Gate!Spec
=============================================================================
