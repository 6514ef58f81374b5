---------------------- MODULE RefreshCoordinatorProofs ----------------------
(***************************************************************************)
(* The inductive invariant of RefreshCoordinator and the theorems that     *)
(* follow from it, for any calls, configurations and requests.             *)
(***************************************************************************)
EXTENDS RefreshCoordinator, TLAPS

\* runMu is held by exactly the call that is between Enter and Unlock.
LockInv == \A c \in Calls : Holding(c) <=> runMu = c

\* Where a call is says what kind of call it is and whether it is registered
\* and completed.
CallInv ==
    \A c \in Calls :
        /\ pc[c] = "idle" <=> req[c] = NoRequest
        /\ pc[c] = "idle" => outcome[c] = "none"
        /\ pc[c] \in {"finish", "complete"} =>
              ~IsBatch(c) /\ outcome[c] \in {"ok", "canceled", "error"}
        /\ c \in guides =>
              IsBatch(c) /\ (pc[c] \in {"queued", "unlock", "unregister"} \/ InTarget(c))
        /\ IsBatch(c) /\ (pc[c] = "queued" \/ InTarget(c)) => c \in guides
        /\ c \in done => pc[c] \in {"unlock", "done"}
        /\ c \in done /\ pc[c] = "unlock" => ~IsBatch(c)
        /\ pc[c] \in {"waiting", "again"} => req[c].kind = "run"

\* The job record, the cancel function and the position of the job's own
\* execution agree.
JobInv ==
    /\ job.id = None => job.state = "idle" /\ cancel = None
    /\ job.id # None =>
          /\ pc[job.id] \notin {"idle", "waiting", "again"}
          /\ ~IsBatch(job.id)
          /\ req[job.id].key = job.key
          /\ req[job.id].op = job.op
          /\ job.state # "idle"
          /\ job.state = "queued" => pc[job.id] \in {"queued", "finish"}
          /\ job.state = "running" =>
                pc[job.id] \in {"target", "published", "finish"}
          /\ ~Active =>
                pc[job.id] \in {"complete", "unlock", "done"} /\ cancel = None
          /\ Active => cancel = job.id

\* A batch inside the target works for the configuration of a settled job.
SettledBatchInv ==
    ~Active => \A c \in Calls : InTarget(c) /\ IsBatch(c) => req[c].key = job.key

\* What the call between Publish and Finish has published.
PublishInv ==
    \A c \in Calls :
        \/ pc[c] = "published"
        \/ pc[c] = "finish" /\ outcome[c] = "ok"
        => \/ published = req[c].key
           \/ published = None /\ (IsBatch(c) \/ req[c].op = "guide")

\* Close waits for the newest job and for every batch still registered.
DrainInv ==
    closing # "open" =>
        /\ job.id # None => job.id \in drain
        /\ guides \subseteq drain

IndInv ==
    /\ TypeOK
    /\ LockInv
    /\ CallInv
    /\ JobInv
    /\ OnlyNewestIsLive
    /\ QuietWhenSettled
    /\ SettledBatchInv
    /\ PublishInv
    /\ LastWriteWins
    /\ DrainInv
    /\ NoTargetAfterClose

-----------------------------------------------------------------------------
(***************************************************************************)
(* IndInv is preserved: one lemma per action, or per kind of step several  *)
(* actions share.                                                          *)
(***************************************************************************)

\* A request is told apart from the absence of one by its kind, and names one
\* of the configurations.
LEMMA RequestTypes ==
    \A r \in Requests :
        /\ r # NoRequest
        /\ r.kind \in Kinds /\ r.op \in Ops /\ r.key \in Keys
        /\ r.key # None
BY ConstantsAssumption DEF NoRequest, Kinds

\* A newer job takes over: whatever was live before is canceled by it.
LEMMA SupersedeStep ==
    ASSUME IndInv, NEW c \in Calls, NEW r \in Requests, NEW live \in BOOLEAN,
           pc[c] \in {"idle", "again"}, r.kind # "batch", closing = "open",
           req' = [req EXCEPT ![c] = r], Supersede(c, r, live)
    PROVE  IndInv'
<1> USE RequestTypes, ConstantsAssumption DEF IndInv, TypeOK, InTarget,
        Holding, IsBatch, Supersede
<1>1. TypeOK'
    BY DEF CallStates, Outcomes, JobStates, CallInv, NoRequest
<1>2. (LockInv /\ CallInv /\ JobInv)'
    BY DEF LockInv, CallInv, JobInv, NoRequest, Active
<1>3. (OnlyNewestIsLive /\ QuietWhenSettled /\ SettledBatchInv)'
    BY DEF OnlyNewestIsLive, QuietWhenSettled, SettledBatchInv,
        LockInv, CallInv, JobInv, Active
<1>4. (PublishInv /\ LastWriteWins)'
    BY DEF PublishInv, LastWriteWins, LockInv, CallInv, JobInv,
        QuietWhenSettled, SettledBatchInv, OnlyNewestIsLive, Active
<1>5. (DrainInv /\ NoTargetAfterClose)'
    BY DEF DrainInv, NoTargetAfterClose, CallInv, JobInv,
        OnlyNewestIsLive, QuietWhenSettled, Active
<1> QED
    BY <1>1, <1>2, <1>3, <1>4, <1>5

\* A call that holds no execution of its own is answered, waits or starts
\* over.
LEMMA AsideStep ==
    ASSUME IndInv, NEW c \in Calls, NEW r \in Requests, NEW o \in Outcomes,
           NEW p \in {"done", "waiting", "again"}, NEW w \in Calls \cup {None},
           pc[c] \in {"idle", "waiting", "again"},
           p # "done" => r.kind = "run",
           req' = [req EXCEPT ![c] = r], pc' = [pc EXCEPT ![c] = p],
           outcome' = [outcome EXCEPT ![c] = o],
           waitOn' = [waitOn EXCEPT ![c] = w],
           UNCHANGED <<coordinator, runMu, ended, done, published>>
    PROVE  IndInv'
<1> USE RequestTypes, ConstantsAssumption DEF IndInv, TypeOK, InTarget,
        Holding, IsBatch, coordinator
<1>1. TypeOK'
    BY DEF CallStates, Outcomes, JobStates, CallInv, NoRequest
<1>2. (LockInv /\ CallInv /\ JobInv)'
    BY DEF LockInv, CallInv, JobInv, NoRequest, Active
<1>3. (OnlyNewestIsLive /\ QuietWhenSettled /\ SettledBatchInv)'
    BY DEF OnlyNewestIsLive, QuietWhenSettled, SettledBatchInv,
        LockInv, CallInv, JobInv, Active
<1>4. (PublishInv /\ LastWriteWins)'
    BY DEF PublishInv, LastWriteWins, LockInv, CallInv, JobInv,
        QuietWhenSettled, SettledBatchInv, OnlyNewestIsLive, Active
<1>5. (DrainInv /\ NoTargetAfterClose)'
    BY DEF DrainInv, NoTargetAfterClose, CallInv, JobInv,
        OnlyNewestIsLive, QuietWhenSettled, Active
<1> QED
    BY <1>1, <1>2, <1>3, <1>4, <1>5

\* A batch is admitted for the current configuration only.
LEMMA RegisterBatchStep ==
    ASSUME IndInv, NEW c \in Calls, NEW r \in Requests, RegisterBatch(c, r)
    PROVE  IndInv'
<1> USE RequestTypes, ConstantsAssumption DEF IndInv, TypeOK, InTarget,
        Holding, IsBatch, RegisterBatch
<1>1. TypeOK'
    BY DEF CallStates, Outcomes, JobStates, CallInv, NoRequest
<1>2. (LockInv /\ CallInv /\ JobInv)'
    BY DEF LockInv, CallInv, JobInv, NoRequest, Active
<1>3. (OnlyNewestIsLive /\ QuietWhenSettled /\ SettledBatchInv)'
    BY DEF OnlyNewestIsLive, QuietWhenSettled, SettledBatchInv,
        LockInv, CallInv, JobInv, Active
<1>4. (PublishInv /\ LastWriteWins)'
    BY DEF PublishInv, LastWriteWins, LockInv, CallInv, JobInv,
        QuietWhenSettled, SettledBatchInv, OnlyNewestIsLive, Active
<1>5. (DrainInv /\ NoTargetAfterClose)'
    BY DEF DrainInv, NoTargetAfterClose, CallInv, JobInv,
        OnlyNewestIsLive, QuietWhenSettled, Active
<1> QED
    BY <1>1, <1>2, <1>3, <1>4, <1>5

\* A context that ends makes fewer calls live.
LEMMA ExpireStep ==
    ASSUME IndInv, NEW c \in Calls, Expire(c)
    PROVE  IndInv'
<1> USE RequestTypes, ConstantsAssumption DEF IndInv, TypeOK, InTarget,
        Holding, IsBatch, Expire, coordinator
<1>1. TypeOK'
    BY DEF CallStates, Outcomes, JobStates, CallInv, NoRequest
<1>2. (LockInv /\ CallInv /\ JobInv)'
    BY DEF LockInv, CallInv, JobInv, NoRequest, Active
<1>3. (OnlyNewestIsLive /\ QuietWhenSettled /\ SettledBatchInv)'
    BY DEF OnlyNewestIsLive, QuietWhenSettled, SettledBatchInv,
        LockInv, CallInv, JobInv, Active
<1>4. (PublishInv /\ LastWriteWins)'
    BY DEF PublishInv, LastWriteWins, LockInv, CallInv, JobInv,
        QuietWhenSettled, SettledBatchInv, OnlyNewestIsLive, Active
<1>5. (DrainInv /\ NoTargetAfterClose)'
    BY DEF DrainInv, NoTargetAfterClose, CallInv, JobInv,
        OnlyNewestIsLive, QuietWhenSettled, Active
<1> QED
    BY <1>1, <1>2, <1>3, <1>4, <1>5

\* Only a live call enters the target, and only when nobody is inside.
LEMMA EnterStep ==
    ASSUME IndInv, NEW c \in Calls, Enter(c)
    PROVE  IndInv'
<1> USE RequestTypes, ConstantsAssumption DEF IndInv, TypeOK, InTarget,
        Holding, IsBatch, Enter, Mark
<1>1. TypeOK'
    BY DEF CallStates, Outcomes, JobStates, CallInv, NoRequest
<1>2. (LockInv /\ CallInv /\ JobInv)'
    BY DEF LockInv, CallInv, JobInv, NoRequest, Active
<1>3. (OnlyNewestIsLive /\ QuietWhenSettled /\ SettledBatchInv)'
    BY DEF OnlyNewestIsLive, QuietWhenSettled, SettledBatchInv,
        LockInv, CallInv, JobInv, Active
<1>4. (PublishInv /\ LastWriteWins)'
    BY DEF PublishInv, LastWriteWins, LockInv, CallInv, JobInv,
        QuietWhenSettled, SettledBatchInv, OnlyNewestIsLive, Active
<1>5. (DrainInv /\ NoTargetAfterClose)'
    BY DEF DrainInv, NoTargetAfterClose, CallInv, JobInv,
        OnlyNewestIsLive, QuietWhenSettled, Active
<1> QED
    BY <1>1, <1>2, <1>3, <1>4, <1>5

\* The call inside the target publishes for its own configuration.
LEMMA PublishStep ==
    ASSUME IndInv, NEW c \in Calls, Publish(c)
    PROVE  IndInv'
<1> USE RequestTypes, ConstantsAssumption DEF IndInv, TypeOK, InTarget,
        Holding, IsBatch, Publish, coordinator
<1>1. TypeOK'
    BY DEF CallStates, Outcomes, JobStates, CallInv, NoRequest
<1>2. (LockInv /\ CallInv /\ JobInv)'
    BY DEF LockInv, CallInv, JobInv, NoRequest, Active
<1>3. (OnlyNewestIsLive /\ QuietWhenSettled /\ SettledBatchInv)'
    BY DEF OnlyNewestIsLive, QuietWhenSettled, SettledBatchInv,
        LockInv, CallInv, JobInv, Active
<1>4. (PublishInv /\ LastWriteWins)'
    BY DEF PublishInv, LastWriteWins, LockInv, CallInv, JobInv,
        QuietWhenSettled, SettledBatchInv, OnlyNewestIsLive, Active
<1>5. (DrainInv /\ NoTargetAfterClose)'
    BY DEF DrainInv, NoTargetAfterClose, CallInv, JobInv,
        OnlyNewestIsLive, QuietWhenSettled, Active
<1> QED
    BY <1>1, <1>2, <1>3, <1>4, <1>5

\* The call inside the target goes on to report its outcome.
LEMMA LeaveStep ==
    ASSUME IndInv, NEW c \in Calls, Leave(c)
    PROVE  IndInv'
<1> USE RequestTypes, ConstantsAssumption DEF IndInv, TypeOK, InTarget,
        Holding, IsBatch, Leave, coordinator
<1>1. TypeOK'
    BY DEF CallStates, Outcomes, JobStates, CallInv, NoRequest
<1>2. (LockInv /\ CallInv /\ JobInv)'
    BY DEF LockInv, CallInv, JobInv, NoRequest, Active
<1>3. (OnlyNewestIsLive /\ QuietWhenSettled /\ SettledBatchInv)'
    BY DEF OnlyNewestIsLive, QuietWhenSettled, SettledBatchInv,
        LockInv, CallInv, JobInv, Active
<1>4. (PublishInv /\ LastWriteWins)'
    BY DEF PublishInv, LastWriteWins, LockInv, CallInv, JobInv,
        QuietWhenSettled, SettledBatchInv, OnlyNewestIsLive, Active
<1>5. (DrainInv /\ NoTargetAfterClose)'
    BY DEF DrainInv, NoTargetAfterClose, CallInv, JobInv,
        OnlyNewestIsLive, QuietWhenSettled, Active
<1> QED
    BY <1>1, <1>2, <1>3, <1>4, <1>5

\* The newest job settles while it holds the lock.
LEMMA FinishStep ==
    ASSUME IndInv, NEW c \in Calls, Finish(c)
    PROVE  IndInv'
<1> USE RequestTypes, ConstantsAssumption DEF IndInv, TypeOK, InTarget,
        Holding, IsBatch, Finish, Mark, FinalState
<1>1. TypeOK'
    BY DEF CallStates, Outcomes, JobStates, CallInv, NoRequest
<1>2. (LockInv /\ CallInv /\ JobInv)'
    BY DEF LockInv, CallInv, JobInv, NoRequest, Active
<1>3. (OnlyNewestIsLive /\ QuietWhenSettled /\ SettledBatchInv)'
    BY DEF OnlyNewestIsLive, QuietWhenSettled, SettledBatchInv,
        LockInv, CallInv, JobInv, Active
<1>4. (PublishInv /\ LastWriteWins)'
    BY DEF PublishInv, LastWriteWins, LockInv, CallInv, JobInv,
        QuietWhenSettled, SettledBatchInv, OnlyNewestIsLive, Active
<1>5. (DrainInv /\ NoTargetAfterClose)'
    BY DEF DrainInv, NoTargetAfterClose, CallInv, JobInv,
        OnlyNewestIsLive, QuietWhenSettled, Active
<1> QED
    BY <1>1, <1>2, <1>3, <1>4, <1>5

\* A finished job is announced to its waiters.
LEMMA CompleteStep ==
    ASSUME IndInv, NEW c \in Calls, Complete(c)
    PROVE  IndInv'
<1> USE RequestTypes, ConstantsAssumption DEF IndInv, TypeOK, InTarget,
        Holding, IsBatch, Complete, coordinator
<1>1. TypeOK'
    BY DEF CallStates, Outcomes, JobStates, CallInv, NoRequest
<1>2. (LockInv /\ CallInv /\ JobInv)'
    BY DEF LockInv, CallInv, JobInv, NoRequest, Active
<1>3. (OnlyNewestIsLive /\ QuietWhenSettled /\ SettledBatchInv)'
    BY DEF OnlyNewestIsLive, QuietWhenSettled, SettledBatchInv,
        LockInv, CallInv, JobInv, Active
<1>4. (PublishInv /\ LastWriteWins)'
    BY DEF PublishInv, LastWriteWins, LockInv, CallInv, JobInv,
        QuietWhenSettled, SettledBatchInv, OnlyNewestIsLive, Active
<1>5. (DrainInv /\ NoTargetAfterClose)'
    BY DEF DrainInv, NoTargetAfterClose, CallInv, JobInv,
        OnlyNewestIsLive, QuietWhenSettled, Active
<1> QED
    BY <1>1, <1>2, <1>3, <1>4, <1>5

\* The lock is released by its holder.
LEMMA UnlockStep ==
    ASSUME IndInv, NEW c \in Calls, Unlock(c)
    PROVE  IndInv'
<1> USE RequestTypes, ConstantsAssumption DEF IndInv, TypeOK, InTarget,
        Holding, IsBatch, Unlock, coordinator
<1>1. TypeOK'
    BY DEF CallStates, Outcomes, JobStates, CallInv, NoRequest
<1>2. (LockInv /\ CallInv /\ JobInv)'
    BY DEF LockInv, CallInv, JobInv, NoRequest, Active
<1>3. (OnlyNewestIsLive /\ QuietWhenSettled /\ SettledBatchInv)'
    BY DEF OnlyNewestIsLive, QuietWhenSettled, SettledBatchInv,
        LockInv, CallInv, JobInv, Active
<1>4. (PublishInv /\ LastWriteWins)'
    BY DEF PublishInv, LastWriteWins, LockInv, CallInv, JobInv,
        QuietWhenSettled, SettledBatchInv, OnlyNewestIsLive, Active
<1>5. (DrainInv /\ NoTargetAfterClose)'
    BY DEF DrainInv, NoTargetAfterClose, CallInv, JobInv,
        OnlyNewestIsLive, QuietWhenSettled, Active
<1> QED
    BY <1>1, <1>2, <1>3, <1>4, <1>5

\* A batch leaves the registry after it left the target.
LEMMA UnregisterStep ==
    ASSUME IndInv, NEW c \in Calls, Unregister(c)
    PROVE  IndInv'
<1> USE RequestTypes, ConstantsAssumption DEF IndInv, TypeOK, InTarget,
        Holding, IsBatch, Unregister
<1>1. TypeOK'
    BY DEF CallStates, Outcomes, JobStates, CallInv, NoRequest
<1>2. (LockInv /\ CallInv /\ JobInv)'
    BY DEF LockInv, CallInv, JobInv, NoRequest, Active
<1>3. (OnlyNewestIsLive /\ QuietWhenSettled /\ SettledBatchInv)'
    BY DEF OnlyNewestIsLive, QuietWhenSettled, SettledBatchInv,
        LockInv, CallInv, JobInv, Active
<1>4. (PublishInv /\ LastWriteWins)'
    BY DEF PublishInv, LastWriteWins, LockInv, CallInv, JobInv,
        QuietWhenSettled, SettledBatchInv, OnlyNewestIsLive, Active
<1>5. (DrainInv /\ NoTargetAfterClose)'
    BY DEF DrainInv, NoTargetAfterClose, CallInv, JobInv,
        OnlyNewestIsLive, QuietWhenSettled, Active
<1> QED
    BY <1>1, <1>2, <1>3, <1>4, <1>5

\* A batch is announced as complete.
LEMMA NotifyStep ==
    ASSUME IndInv, NEW c \in Calls, Notify(c)
    PROVE  IndInv'
<1> USE RequestTypes, ConstantsAssumption DEF IndInv, TypeOK, InTarget,
        Holding, IsBatch, Notify, coordinator
<1>1. TypeOK'
    BY DEF CallStates, Outcomes, JobStates, CallInv, NoRequest
<1>2. (LockInv /\ CallInv /\ JobInv)'
    BY DEF LockInv, CallInv, JobInv, NoRequest, Active
<1>3. (OnlyNewestIsLive /\ QuietWhenSettled /\ SettledBatchInv)'
    BY DEF OnlyNewestIsLive, QuietWhenSettled, SettledBatchInv,
        LockInv, CallInv, JobInv, Active
<1>4. (PublishInv /\ LastWriteWins)'
    BY DEF PublishInv, LastWriteWins, LockInv, CallInv, JobInv,
        QuietWhenSettled, SettledBatchInv, OnlyNewestIsLive, Active
<1>5. (DrainInv /\ NoTargetAfterClose)'
    BY DEF DrainInv, NoTargetAfterClose, CallInv, JobInv,
        OnlyNewestIsLive, QuietWhenSettled, Active
<1> QED
    BY <1>1, <1>2, <1>3, <1>4, <1>5

\* Close cancels the newest job and every batch: nothing is live any more.
LEMMA BeginCloseStep ==
    ASSUME IndInv, BeginClose
    PROVE  IndInv'
<1> USE RequestTypes, ConstantsAssumption DEF IndInv, TypeOK, InTarget,
        Holding, IsBatch, BeginClose
<1>1. TypeOK'
    BY DEF CallStates, Outcomes, JobStates, CallInv, NoRequest
<1>2. (LockInv /\ CallInv /\ JobInv)'
    BY DEF LockInv, CallInv, JobInv, NoRequest, Active
<1>3. (OnlyNewestIsLive /\ QuietWhenSettled /\ SettledBatchInv)'
    BY DEF OnlyNewestIsLive, QuietWhenSettled, SettledBatchInv,
        LockInv, CallInv, JobInv, Active
<1>4. (PublishInv /\ LastWriteWins)'
    BY DEF PublishInv, LastWriteWins, LockInv, CallInv, JobInv,
        QuietWhenSettled, SettledBatchInv, OnlyNewestIsLive, Active
<1>5. (DrainInv /\ NoTargetAfterClose)'
    BY DEF DrainInv, NoTargetAfterClose, CallInv, JobInv,
        OnlyNewestIsLive, QuietWhenSettled, Active
<1> QED
    BY <1>1, <1>2, <1>3, <1>4, <1>5

\* Close returns when the target is empty: a batch inside would be
\* registered, a replaced job inside would keep the newest one from being
\* done.
LEMMA EndCloseStep ==
    ASSUME IndInv, EndClose
    PROVE  IndInv'
<1> USE RequestTypes, ConstantsAssumption DEF IndInv, TypeOK, InTarget,
        Holding, IsBatch, EndClose
<1>1. TypeOK'
    BY DEF CallStates, Outcomes, JobStates, CallInv, NoRequest
<1>2. (LockInv /\ CallInv /\ JobInv)'
    BY DEF LockInv, CallInv, JobInv, NoRequest, Active
<1>3. (OnlyNewestIsLive /\ QuietWhenSettled /\ SettledBatchInv)'
    BY DEF OnlyNewestIsLive, QuietWhenSettled, SettledBatchInv,
        LockInv, CallInv, JobInv, Active
<1>4. (PublishInv /\ LastWriteWins)'
    BY DEF PublishInv, LastWriteWins, LockInv, CallInv, JobInv,
        QuietWhenSettled, SettledBatchInv, OnlyNewestIsLive, Active
<1>5. (DrainInv /\ NoTargetAfterClose)'
    BY DEF DrainInv, NoTargetAfterClose, CallInv, JobInv,
        OnlyNewestIsLive, QuietWhenSettled, Active
<1> QED
    BY <1>1, <1>2, <1>3, <1>4, <1>5

\* Start, Run and its recursion, the refusal of a batch and the end of a wait
\* are steps of the two kinds above.
LEMMA StartStep ==
    ASSUME IndInv, NEW c \in Calls, NEW r \in Requests, Start(c, r)
    PROVE  IndInv'
<1>1. CASE Supersede(c, r, TRUE)
    <2>1. closing = "open" \/ pc' = [pc EXCEPT ![c] = "done"]
        BY DEF Start, Return
    <2>2. pc' = [pc EXCEPT ![c] = "queued"] /\ pc \in [Calls -> CallStates]
        BY <1>1 DEF Supersede, IndInv, TypeOK
    <2>3. closing = "open"
        BY <2>1, <2>2
    <2> QED
        BY <1>1, <2>3, SupersedeStep DEF Start
<1>2. CASE ~Supersede(c, r, TRUE)
    <2>1. Return(c, "joined") /\ UNCHANGED waitOn
        BY <1>2 DEF Start
    <2>2. waitOn' = [waitOn EXCEPT ![c] = waitOn[c]]
        BY <2>1 DEF IndInv, TypeOK
    <2> DEFINE o == "joined" p == "done"
    <2>3. o \in Outcomes /\ p \in {"done", "waiting", "again"}
             /\ waitOn[c] \in Calls \cup {None}
        BY DEF Outcomes, IndInv, TypeOK
    <2> QED
        BY <1>2, <2>1, <2>2, <2>3, AsideStep DEF Start, Return
<1> QED
    BY <1>1, <1>2

LEMMA RunBodyStep ==
    ASSUME IndInv, NEW c \in Calls, NEW r \in Requests, RunBody(c, r),
           pc[c] \in {"idle", "again"}, r.kind = "run",
           req' = [req EXCEPT ![c] = r]
    PROVE  IndInv'
<1> USE DEF IndInv, TypeOK
<1>1. CASE closing # "open"
    <2>1. /\ Return(c, "closed")
          /\ waitOn' = [waitOn EXCEPT ![c] = waitOn[c]]
          /\ UNCHANGED <<coordinator, runMu, ended, done, published>>
        BY <1>1 DEF RunBody
    <2>2. "closed" \in Outcomes /\ "done" \in {"done", "waiting", "again"}
             /\ waitOn[c] \in Calls \cup {None}
        BY DEF Outcomes
    <2> QED
        BY <2>1, <2>2, AsideStep DEF Return
<1>2. CASE closing = "open" /\ Active /\ job.key = r.key
    <2>1. /\ waitOn' = [waitOn EXCEPT ![c] = job.id]
          /\ pc' = [pc EXCEPT ![c] = "waiting"]
          /\ outcome' = [outcome EXCEPT ![c] = outcome[c]]
          /\ UNCHANGED <<coordinator, runMu, ended, done, published>>
        BY <1>2 DEF RunBody
    <2>2. outcome[c] \in Outcomes /\ "waiting" \in {"done", "waiting", "again"}
             /\ job.id \in Calls \cup {None}
        OBVIOUS
    <2> QED
        BY <2>1, <2>2, AsideStep, ZenonT(60)
<1>3. CASE closing = "open" /\ ~(Active /\ job.key = r.key)
    BY <1>3, SupersedeStep DEF RunBody
<1> QED
    BY <1>1, <1>2, <1>3

LEMMA RunAgainStep ==
    ASSUME IndInv, NEW c \in Calls, RunAgain(c)
    PROVE  IndInv'
<1>1. req[c] \in Requests /\ req[c].kind = "run"
    BY DEF IndInv, TypeOK, CallInv, RunAgain
<1>2. req' = [req EXCEPT ![c] = req[c]]
    BY DEF RunAgain, IndInv, TypeOK
<1> QED
    BY <1>1, <1>2, RunBodyStep DEF RunAgain

LEMMA RefuseBatchStep ==
    ASSUME IndInv, NEW c \in Calls, NEW r \in Requests, RefuseBatch(c, r)
    PROVE  IndInv'
<1> USE DEF IndInv, TypeOK
<1>1. PICK o \in {"canceled", "closed"} : Return(c, o)
    BY DEF RefuseBatch
<1>2. /\ o \in Outcomes /\ "done" \in {"done", "waiting", "again"}
      /\ waitOn[c] \in Calls \cup {None}
      /\ waitOn' = [waitOn EXCEPT ![c] = waitOn[c]]
    BY DEF RefuseBatch, Outcomes
<1> QED
    BY <1>1, <1>2, AsideStep DEF RefuseBatch, Return

LEMMA WaitStep ==
    ASSUME IndInv, NEW c \in Calls, Wake(c) \/ GiveUp(c)
    PROVE  IndInv'
<1> USE DEF IndInv, TypeOK
<1>1. /\ pc[c] = "waiting" /\ req[c] \in Requests /\ req[c].kind = "run"
      /\ req' = [req EXCEPT ![c] = req[c]]
      /\ waitOn' = [waitOn EXCEPT ![c] = waitOn[c]]
      /\ waitOn[c] \in Calls \cup {None}
      /\ UNCHANGED <<coordinator, runMu, ended, done, published>>
    BY DEF Wake, GiveUp, CallInv
<1>2. PICK p \in {"done", "again"}, o \in Outcomes :
        /\ pc' = [pc EXCEPT ![c] = p]
        /\ outcome' = [outcome EXCEPT ![c] = o]
    <2>1. CASE GiveUp(c)
        BY <2>1 DEF GiveUp, Return, Outcomes
    <2>2. CASE Wake(c) /\ pc' = [pc EXCEPT ![c] = "again"]
        <3>1. outcome[c] \in Outcomes
            OBVIOUS
        <3>2. outcome' = [outcome EXCEPT ![c] = outcome[c]] \/ Return(c, outcome[waitOn[c]])
            BY <2>2 DEF Wake
        <3>3. ~Return(c, outcome[waitOn[c]])
            BY <2>2 DEF Return
        <3> QED
            BY <2>2, <3>1, <3>2, <3>3
    <2>3. CASE Wake(c) /\ Return(c, outcome[waitOn[c]])
        <3>1. waitOn[c] \in Calls
            BY <2>3 DEF Wake
        <3> QED
            BY <2>3, <3>1 DEF Return
    <2> QED
        BY <2>1, <2>2, <2>3 DEF Wake
<1> QED
    BY <1>1, <1>2, AsideStep

-----------------------------------------------------------------------------
LEMMA InitInv == Init => IndInv
BY RequestTypes, ConstantsAssumption
   DEF Init, IndInv, TypeOK, LockInv, CallInv, JobInv, OnlyNewestIsLive,
       QuietWhenSettled, SettledBatchInv, PublishInv, LastWriteWins, DrainInv,
       NoTargetAfterClose, Holding, InTarget, IsBatch, Active, CallStates,
       Outcomes, JobStates, NoRequest

LEMMA StutterStep == IndInv /\ UNCHANGED vars => IndInv'
BY DEF vars, IndInv, TypeOK, LockInv, CallInv, JobInv, OnlyNewestIsLive,
       QuietWhenSettled, SettledBatchInv, PublishInv, LastWriteWins, DrainInv,
       NoTargetAfterClose, Holding, InTarget, IsBatch, Active

LEMMA NextStep == IndInv /\ [Next]_vars => IndInv'
<1> SUFFICES ASSUME IndInv, [Next]_vars PROVE IndInv'
    OBVIOUS
<1>1. ASSUME NEW c \in Calls, Call(c) PROVE IndInv'
    <2>1. PICK r \in Requests : \/ Start(c, r) \/ Run(c, r)
                               \/ RefuseBatch(c, r) \/ RegisterBatch(c, r)
        BY <1>1 DEF Call
    <2>2. CASE Run(c, r)
        BY <2>2, RunBodyStep DEF Run
    <2> QED
        BY <2>1, <2>2, StartStep, RefuseBatchStep, RegisterBatchStep
<1>2. ASSUME NEW c \in Calls, Progress(c) PROVE IndInv'
    BY <1>2, RunAgainStep, WaitStep, EnterStep, PublishStep, LeaveStep,
       FinishStep, CompleteStep, UnlockStep, UnregisterStep, NotifyStep
       DEF Progress
<1> QED
    BY <1>1, <1>2, ExpireStep, BeginCloseStep, EndCloseStep, StutterStep
       DEF Next

\* The inductive invariant holds in every reachable state.
THEOREM Invariance == Spec => []IndInv
BY InitInv, NextStep, PTL DEF Spec

\* The coordinator's fields and the calls' local state keep their types.
THEOREM TypeCorrect == Spec => []TypeOK
BY Invariance, PTL DEF IndInv

\* A refresh that can still work with a live context is the newest job or a
\* batch of its configuration (the cancel calls in nextJobLocked and Close).
THEOREM LiveCallsAreCurrent == Spec => []OnlyNewestIsLive
BY Invariance, PTL DEF IndInv

\* A settled status means that no refresh job is inside the target, and a
\* success that nothing has been published over it (runMu around finish).
THEOREM StatusIsTruthful == Spec => [](QuietWhenSettled /\ LastWriteWins)
BY Invariance, PTL DEF IndInv

\* An active status has an execution that will settle it.
THEOREM ActiveStatusIsServed == Spec => []ActiveJobHasExecution
<1>1. IndInv => ActiveJobHasExecution
    BY ConstantsAssumption
       DEF IndInv, TypeOK, JobInv, LockInv, ActiveJobHasExecution, Active,
           Holding, InTarget
<1> QED
    BY <1>1, Invariance, PTL

\* Nobody is inside the target once Close has returned.
THEOREM CloseIsFinal == Spec => []NoTargetAfterClose
BY Invariance, PTL DEF IndInv

\* The status of a job moves forward only: finish and markRunning leave a
\* newer job alone.
THEOREM StatusIsMonotonic == Spec => StatusMovesForward
<1>1. ASSUME IndInv, [Next]_vars, job'.id = job.id, job.id # None
      PROVE  /\ job'.key = job.key
             /\ job'.state # job.state =>
                   StateRank[job'.state] > StateRank[job.state]
    <2> USE DEF IndInv, TypeOK
    <2>1. CASE UNCHANGED job
        BY <2>1
    <2>2. ASSUME NEW c \in Calls, NEW r \in Requests, NEW live \in BOOLEAN,
                 pc[c] \in {"idle", "again"}, Supersede(c, r, live)
          PROVE  FALSE
        BY <1>1, <2>2 DEF Supersede, JobInv
    <2>3. ASSUME NEW c \in Calls, NEW r \in Requests, RegisterBatch(c, r)
          PROVE  UNCHANGED job
        <3>1. job.key \in Keys
            BY <1>1, RequestTypes DEF JobInv, CallInv
        <3>2. job.key = r.key /\ job' = [job EXCEPT !.key = job.key]
            BY <2>3, <3>1, ConstantsAssumption DEF RegisterBatch
        <3> QED
            BY <1>1, <3>2
    <2>4. ASSUME NEW c \in Calls, Enter(c)
          PROVE  \/ UNCHANGED job
                 \/ /\ job' = [job EXCEPT !.state = "running"]
                    /\ job.state = "queued"
        BY <1>1, <2>4 DEF Enter, Mark, JobInv, Active, JobStates
    <2>5. ASSUME NEW c \in Calls, Finish(c)
          PROVE  \/ UNCHANGED job
                 \/ \E f \in {"succeeded", "failed", "canceled"} :
                       /\ job' = [job EXCEPT !.state = f]
                       /\ job.state \in {"queued", "running"}
        BY <1>1, <2>5 DEF Finish, Mark, FinalState, JobInv, CallInv, Active
    <2>6. job.state = "queued" /\ job' = [job EXCEPT !.state = "running"]
             => job'.key = job.key /\ StateRank[job'.state] > StateRank[job.state]
        BY DEF StateRank
    <2>7. ASSUME NEW f \in {"succeeded", "failed", "canceled"},
                 job' = [job EXCEPT !.state = f],
                 job.state \in {"queued", "running"}
          PROVE  job'.key = job.key /\ StateRank[job'.state] > StateRank[job.state]
        BY <2>7 DEF StateRank
    <2>8. ASSUME NEW c \in Calls, Call(c) \/ RunAgain(c) PROVE UNCHANGED job
        <3>1. CASE RunAgain(c)
            <4>1. ~Supersede(c, req[c], FALSE)
                BY <3>1, <2>2, <1>1 DEF RunAgain, CallInv
            <4> QED
                BY <3>1, <4>1 DEF RunAgain, RunBody, coordinator
        <3>2. ASSUME NEW r \in Requests, pc[c] = "idle",
                     Start(c, r) \/ Run(c, r) \/ RefuseBatch(c, r)
              PROVE  UNCHANGED job
            <4>1. ~Supersede(c, r, TRUE) /\ ~Supersede(c, r, FALSE)
                BY <3>2, <2>2
            <4> QED
                BY <3>2, <4>1 DEF Start, Run, RunBody, RefuseBatch, coordinator
        <3>3. Call(c) => pc[c] = "idle"
            BY DEF Call, Start, Run, RefuseBatch, RegisterBatch
        <3> QED
            BY <2>8, <2>3, <3>1, <3>2, <3>3 DEF Call
    <2>9. ASSUME NEW c \in Calls, Progress(c), ~RunAgain(c), ~Enter(c), ~Finish(c)
          PROVE  UNCHANGED job
        BY <2>9 DEF Progress, Wake, GiveUp, Publish, Leave, Complete, Unlock,
                    Unregister, Notify, coordinator
    <2>10. ASSUME NEW c \in Calls, Expire(c) PROVE UNCHANGED job
        BY <2>10 DEF Expire, coordinator
    <2>11. BeginClose \/ EndClose \/ UNCHANGED vars => UNCHANGED job
        BY DEF BeginClose, EndClose, vars
    <2> QED
        BY <1>1, <2>1, <2>4, <2>5, <2>6, <2>7, <2>8, <2>9, <2>10, <2>11
           DEF Next, Progress
<1> QED
    BY <1>1, Invariance, PTL DEF Spec, StatusMovesForward

-----------------------------------------------------------------------------
(***************************************************************************)
(* Run's nil means that the work was done.                                 *)
(***************************************************************************)
\* An execution of Start or Run that has ended without an error.
Executed(e) ==
    /\ outcome[e] = "ok"
    /\ e \in done \/ pc[e] = "finish" \/ pc[e] = "complete"
    /\ ~IsBatch(e)

\* A waiter waits for a job of its own configuration.
WaitInv ==
    \A c \in Calls : pc[c] = "waiting" =>
        /\ waitOn[c] \in Calls
        /\ ~IsBatch(waitOn[c])
        /\ pc[waitOn[c]] # "idle"
        /\ req[waitOn[c]].key = req[c].key

LEMMA CoversWork ==
    \A a, b \in Ops : Covers(a, b) => WorkOf[b] \subseteq WorkOf[a]
BY DEF Covers, WorkOf, Ops

\* What a call asked and what an ended execution answered do not change.
LEMMA ExecutedIsStable ==
    ASSUME IndInv, [Next]_vars, NEW e \in Calls
    PROVE  /\ pc[e] # "idle" => req'[e] = req[e] /\ pc'[e] # "idle"
           /\ Executed(e) => Executed(e)' /\ req'[e] = req[e]
<1> USE DEF IndInv, TypeOK, CallInv, Executed, IsBatch, InTarget, Return,
        Supersede, coordinator
<1>1. ASSUME NEW c \in Calls, Call(c) \/ RunAgain(c) \/ Wake(c) \/ GiveUp(c)
      PROVE  /\ pc[e] # "idle" => req'[e] = req[e] /\ pc'[e] # "idle"
             /\ Executed(e) => Executed(e)' /\ req'[e] = req[e]
    <2>1. ASSUME NEW r \in Requests, Start(c, r) \/ RefuseBatch(c, r)
                                       \/ RegisterBatch(c, r)
          PROVE  /\ pc[e] # "idle" => req'[e] = req[e] /\ pc'[e] # "idle"
                 /\ Executed(e) => Executed(e)' /\ req'[e] = req[e]
        BY <2>1 DEF Start, RefuseBatch, RegisterBatch
    <2>2. ASSUME NEW r \in Requests, Run(c, r)
          PROVE  /\ pc[e] # "idle" => req'[e] = req[e] /\ pc'[e] # "idle"
                 /\ Executed(e) => Executed(e)' /\ req'[e] = req[e]
        BY <2>2 DEF Run, RunBody
    <2>3. CASE RunAgain(c)
        BY <2>3 DEF RunAgain, RunBody
    <2>4. CASE Wake(c) \/ GiveUp(c)
        BY <2>4 DEF Wake, GiveUp
    <2> QED
        BY <1>1, <2>1, <2>2, <2>3, <2>4 DEF Call
<1>2. ASSUME NEW c \in Calls,
             Enter(c) \/ Publish(c) \/ Leave(c) \/ Finish(c) \/ Complete(c)
                \/ Unlock(c) \/ Unregister(c) \/ Notify(c) \/ Expire(c)
      PROVE  /\ pc[e] # "idle" => req'[e] = req[e] /\ pc'[e] # "idle"
             /\ Executed(e) => Executed(e)' /\ req'[e] = req[e]
    BY <1>2 DEF Enter, Publish, Leave, Finish, Complete, Unlock, Unregister,
                Notify, Expire
<1>3. CASE BeginClose \/ EndClose \/ UNCHANGED vars
    BY <1>3 DEF BeginClose, EndClose, vars
<1> QED
    BY <1>1, <1>2, <1>3 DEF Next, Progress

\* Who starts to wait, waits for the job that is active at that moment.
LEMMA WaitInvStep ==
    ASSUME IndInv, WaitInv, [Next]_vars
    PROVE  WaitInv'
<1> SUFFICES ASSUME NEW c \in Calls, pc'[c] = "waiting"
             PROVE  /\ waitOn'[c] \in Calls
                    /\ req'[waitOn'[c]].kind # "batch"
                    /\ pc'[waitOn'[c]] # "idle"
                    /\ req'[waitOn'[c]].key = req'[c].key
    BY DEF WaitInv, IsBatch
<1> USE DEF IndInv, TypeOK
<1>1. CASE pc[c] = "waiting" /\ waitOn'[c] = waitOn[c]
    BY <1>1, ExecutedIsStable DEF WaitInv, IsBatch
<1>2. ASSUME ~(pc[c] = "waiting" /\ waitOn'[c] = waitOn[c])
      PROVE  /\ Active /\ job.key = req'[c].key
             /\ waitOn'[c] = job.id
             /\ pc' = [pc EXCEPT ![c] = "waiting"]
             /\ pc[c] \in {"idle", "again"}
             /\ \A e \in Calls \ {c} : req'[e] = req[e]
    <2>1. ASSUME NEW d \in Calls, NEW r \in Requests, RunBody(d, r),
                 pc[d] \in {"idle", "again"}, req' = [req EXCEPT ![d] = r]
          PROVE  /\ Active /\ job.key = req'[c].key
                 /\ waitOn'[c] = job.id
                 /\ pc' = [pc EXCEPT ![c] = "waiting"]
                 /\ pc[c] \in {"idle", "again"}
                 /\ \A e \in Calls \ {c} : req'[e] = req[e]
        BY <1>2, <2>1 DEF RunBody, Return, Supersede
    <2>2. ASSUME NEW d \in Calls, RunAgain(d)
          PROVE  req[d] \in Requests /\ req' = [req EXCEPT ![d] = req[d]]
        BY <2>2 DEF RunAgain, CallInv
    <2>3. ASSUME NEW d \in Calls, NEW r \in Requests,
                 Start(d, r) \/ RefuseBatch(d, r) \/ RegisterBatch(d, r)
          PROVE  pc[c] = "waiting" /\ waitOn'[c] = waitOn[c]
        BY <2>3 DEF Start, RefuseBatch, RegisterBatch, Return, Supersede
    <2>4. ASSUME NEW d \in Calls, Wake(d) \/ GiveUp(d)
          PROVE  pc[c] = "waiting" /\ waitOn'[c] = waitOn[c]
        BY <2>4 DEF Wake, GiveUp, Return
    <2>5. ASSUME NEW d \in Calls,
                 Enter(d) \/ Publish(d) \/ Leave(d) \/ Finish(d) \/ Complete(d)
                    \/ Unlock(d) \/ Unregister(d) \/ Notify(d) \/ Expire(d)
          PROVE  pc[c] = "waiting" /\ waitOn'[c] = waitOn[c]
        BY <2>5 DEF Enter, Publish, Leave, Finish, Complete, Unlock,
                    Unregister, Notify, Expire
    <2>6. ~(BeginClose \/ EndClose \/ UNCHANGED vars)
        BY <1>2 DEF BeginClose, EndClose, vars
    <2> QED
        BY <1>2, <2>1, <2>2, <2>3, <2>4, <2>5, <2>6
           DEF Next, Call, Progress, Run, RunAgain
<1>3. CASE ~(pc[c] = "waiting" /\ waitOn'[c] = waitOn[c])
    <2>1. job.id \in Calls /\ job.id # c
        BY <1>2, <1>3, ConstantsAssumption DEF JobInv, Active
    <2> QED
        BY <1>2, <1>3, <2>1, ConstantsAssumption DEF JobInv, Active, IsBatch
<1> QED
    BY <1>1, <1>3

\* A nil from Run comes from its own execution or from the one it waited for.
LEMMA SuccessStep ==
    ASSUME IndInv, WaitInv, SuccessCoversRequest, [Next]_vars
    PROVE  SuccessCoversRequest'
<1> SUFFICES ASSUME NEW c \in Calls, req'[c].kind = "run", outcome'[c] = "ok"
             PROVE  \E e \in Calls :
                        /\ Executed(e)'
                        /\ req'[e].key = req'[c].key
                        /\ WorkOf[req'[c].op] \subseteq WorkOf[req'[e].op]
    BY DEF SuccessCoversRequest, Executed, IsBatch
<1> USE DEF IndInv, TypeOK
<1>1. CASE outcome[c] = "ok" /\ pc[c] # "idle"
    <2>1. req'[c] = req[c]
        BY <1>1, ExecutedIsStable
    <2>2. PICK e \in Calls : /\ Executed(e)
                             /\ req[e].key = req[c].key
                             /\ WorkOf[req[c].op] \subseteq WorkOf[req[e].op]
        BY <1>1, <2>1 DEF SuccessCoversRequest, Executed
    <2> QED
        BY <2>1, <2>2, ExecutedIsStable
<1>2. CASE ~(outcome[c] = "ok" /\ pc[c] # "idle")
    <2>1. CASE Leave(c)
        <3>1. pc'[c] = "finish" /\ req'[c] = req[c] /\ ~IsBatch(c)'
            BY <2>1 DEF Leave, IsBatch, InTarget
        <3>2. Executed(c)'
            BY <3>1 DEF Executed
        <3> QED
            BY <3>1, <3>2
    <2>2. CASE Wake(c)
        <3>1. /\ waitOn[c] \in done /\ outcome[waitOn[c]] = "ok"
              /\ Covers(req[waitOn[c]].op, req[c].op) /\ pc[c] = "waiting"
            BY <1>2, <2>2 DEF Wake, Return
        <3>2. /\ waitOn[c] \in Calls /\ Executed(waitOn[c])
              /\ req[waitOn[c]].key = req[c].key
              /\ req[waitOn[c]].op \in Ops /\ req[c].op \in Ops
            BY <3>1, RequestTypes DEF WaitInv, Executed, CallInv
        <3>3. req'[c] = req[c] /\ req'[waitOn[c]] = req[waitOn[c]]
            BY <3>1, <3>2, ExecutedIsStable
        <3> QED
            BY <3>1, <3>2, <3>3, CoversWork, ExecutedIsStable
    <2>3. CASE ~Leave(c) /\ ~Wake(c)
        <3>1. ASSUME NEW d \in Calls, Call(d) \/ RunAgain(d) \/ GiveUp(d)
              PROVE  outcome'[c] = outcome[c] \/ outcome'[c] # "ok"
            BY <3>1 DEF Call, Start, Run, RunAgain, RunBody, RefuseBatch,
                        RegisterBatch, GiveUp, Return, Supersede
        <3>2. ASSUME NEW d \in Calls, Leave(d) \/ Wake(d)
              PROVE  outcome'[c] = outcome[c]
            BY <2>3, <3>2 DEF Leave, Wake, Return
        <3>3. ASSUME NEW d \in Calls,
                     Enter(d) \/ Publish(d) \/ Finish(d) \/ Complete(d)
                        \/ Unlock(d) \/ Unregister(d) \/ Notify(d) \/ Expire(d)
              PROVE  outcome'[c] = outcome[c] \/ outcome'[c] # "ok"
            BY <3>3 DEF Enter, Publish, Finish, Complete, Unlock, Unregister,
                        Notify, Expire
        <3>4. BeginClose \/ EndClose \/ UNCHANGED vars => outcome' = outcome
            BY DEF BeginClose, EndClose, vars
        <3>5. outcome[c] = "ok"
            BY <3>1, <3>2, <3>3, <3>4 DEF Next, Progress
        <3> QED
            BY <1>2, <3>5 DEF CallInv
    <2> QED
        BY <2>1, <2>2, <2>3
<1> QED
    BY <1>1, <1>2

\* Run answers nil only when an execution for its configuration did the work.
THEOREM SuccessMeansWorkDone == Spec => []SuccessCoversRequest
<1>1. Init => WaitInv /\ SuccessCoversRequest
    BY DEF Init, WaitInv, SuccessCoversRequest, NoRequest
<1>2. IndInv /\ WaitInv /\ SuccessCoversRequest /\ [Next]_vars
        => (WaitInv /\ SuccessCoversRequest)'
    BY WaitInvStep, SuccessStep
<1> QED
    BY <1>1, <1>2, Invariance, PTL DEF Spec

-----------------------------------------------------------------------------
(***************************************************************************)
(* The coordinator implements CatalogWriter.                               *)
(***************************************************************************)
\* The writer of the abstract gate, as the refinement mapping defines it.
Writer == IF runMu # None /\ InTarget(runMu)
          THEN [who |-> runMu, key |-> req[runMu].key]
          ELSE [who |-> None, key |-> None]

\* A step of a call outside the target does not concern the writer.
LEMMA WriterUnchanged ==
    ASSUME IndInv, NEW c \in Calls, ~InTarget(c), NEW p \in CallStates,
           p \notin {"target", "published"},
           pc' = [pc EXCEPT ![c] = p],
           \/ UNCHANGED req
           \/ \E r \in Requests : req' = [req EXCEPT ![c] = r],
           \/ UNCHANGED runMu
           \/ runMu = None /\ runMu' = c
           \/ runMu = c /\ runMu' = None
    PROVE  UNCHANGED Writer
BY ConstantsAssumption DEF IndInv, TypeOK, InTarget, Writer

LEMMA OutsideSteps ==
    ASSUME IndInv, NEW c \in Calls,
           Call(c) \/ RunAgain(c) \/ Wake(c) \/ GiveUp(c) \/ Finish(c)
              \/ Complete(c) \/ Unlock(c) \/ Unregister(c) \/ Notify(c)
    PROVE  UNCHANGED <<Writer, published>>
<1> USE DEF IndInv, TypeOK, InTarget, CallStates
<1>1. ASSUME Call(c) PROVE UNCHANGED <<Writer, published>>
    <2>1. PICK r \in Requests : \/ Start(c, r) \/ Run(c, r)
                               \/ RefuseBatch(c, r) \/ RegisterBatch(c, r)
        BY <1>1 DEF Call
    <2>2. /\ ~InTarget(c) /\ req' = [req EXCEPT ![c] = r]
          /\ UNCHANGED <<runMu, published>>
          /\ \E p \in {"done", "waiting", "queued"} : pc' = [pc EXCEPT ![c] = p]
        BY <2>1 DEF Start, Run, RunBody, RefuseBatch, RegisterBatch, Return,
                    Supersede
    <2> QED
        BY <2>2, WriterUnchanged
<1>2. ASSUME RunAgain(c) PROVE UNCHANGED <<Writer, published>>
    <2>1. /\ ~InTarget(c) /\ UNCHANGED <<req, runMu, published>>
          /\ \E p \in {"done", "waiting", "queued"} : pc' = [pc EXCEPT ![c] = p]
        BY <1>2 DEF RunAgain, RunBody, Return, Supersede
    <2> QED
        BY <2>1, WriterUnchanged
<1>3. ASSUME Wake(c) \/ GiveUp(c) PROVE UNCHANGED <<Writer, published>>
    <2>1. /\ ~InTarget(c) /\ UNCHANGED <<req, runMu, published>>
          /\ \E p \in {"done", "again"} : pc' = [pc EXCEPT ![c] = p]
        BY <1>3 DEF Wake, GiveUp, Return
    <2> QED
        BY <2>1, WriterUnchanged
<1>4. ASSUME Finish(c) \/ Complete(c) \/ Unregister(c) \/ Notify(c)
      PROVE  UNCHANGED <<Writer, published>>
    <2>1. /\ ~InTarget(c) /\ UNCHANGED <<req, runMu, published>>
          /\ \E p \in {"complete", "unlock", "notify", "done"} :
                pc' = [pc EXCEPT ![c] = p]
        BY <1>4 DEF Finish, Complete, Unregister, Notify
    <2> QED
        BY <2>1, WriterUnchanged
<1>5. ASSUME Unlock(c) PROVE UNCHANGED <<Writer, published>>
    <2>1. /\ ~InTarget(c) /\ UNCHANGED <<req, published>>
          /\ runMu = c /\ runMu' = None
          /\ \E p \in {"unregister", "done"} : pc' = [pc EXCEPT ![c] = p]
        BY <1>5 DEF Unlock, LockInv, Holding
    <2> QED
        BY <2>1, WriterUnchanged
<1> QED
    BY <1>1, <1>2, <1>3, <1>4, <1>5

\* One call at a time is inside the target, it alone publishes, under its own
\* configuration, and none is admitted after Close has returned.
THEOREM ImplementsCatalogWriter == Spec => ImplementsGate
<1>1. Init => Gate!Init
    BY ConstantsAssumption DEF Init, Gate!Init, Gate!Nobody
<1>2. ASSUME IndInv, IndInv', [Next]_vars PROVE [Gate!Next]_(Gate!vars)
    <2> USE DEF IndInv, TypeOK
    <2>1. ASSUME NEW c \in Calls, Enter(c) PROVE [Gate!Next]_(Gate!vars)
        <3>1. CASE c \in ended
            <4>1. \E p \in {"unlock", "finish"} : pc' = [pc EXCEPT ![c] = p]
                BY <2>1, <3>1 DEF Enter
            <4>2. ~InTarget(c) /\ runMu = None /\ runMu' = c
                     /\ UNCHANGED <<req, published, closing>>
                BY <2>1 DEF Enter, InTarget
            <4>3. UNCHANGED Writer
                BY <1>2, <4>1, <4>2, WriterUnchanged DEF CallStates
            <4> QED
                BY <4>2, <4>3 DEF Gate!vars, Writer
        <3>2. CASE c \notin ended
            <4>1. req[c].key \in Keys /\ closing = "open"
                BY <1>2, <2>1, <3>2, RequestTypes
                   DEF Enter, CallInv, OnlyNewestIsLive
            <4>2. Gate!Admit(c, req[c].key)
                BY <1>2, <2>1, <3>2, <4>1, ConstantsAssumption
                   DEF Enter, Gate!Admit, Gate!Nobody, InTarget
            <4> QED
                BY <4>1, <4>2 DEF Gate!Next
        <3> QED
            BY <3>1, <3>2
    <2>2. ASSUME NEW c \in Calls, Publish(c) PROVE [Gate!Next]_(Gate!vars)
        <3>1. runMu = c /\ InTarget(c)
            BY <1>2, <2>2 DEF Publish, LockInv, Holding, InTarget
        <3>2. runMu' = c /\ InTarget(c)' /\ UNCHANGED <<req, closing>>
            BY <1>2, <2>2, <3>1 DEF Publish, InTarget, coordinator
        <3>3. CASE UNCHANGED published
            BY <3>1, <3>2, <3>3 DEF Gate!vars
        <3>4. CASE published' = req[c].key
            <4>1. Gate!Write
                BY <3>1, <3>2, <3>4, ConstantsAssumption DEF Gate!Write, Gate!Nobody
            <4> QED
                BY <4>1 DEF Gate!Next
        <3> QED
            BY <2>2, <3>3, <3>4 DEF Publish
    <2>3. ASSUME NEW c \in Calls, Leave(c) PROVE [Gate!Next]_(Gate!vars)
        <3>1. runMu = c /\ InTarget(c) /\ c # None
            BY <1>2, <2>3, ConstantsAssumption DEF Leave, LockInv, Holding
        <3>2. runMu' = c /\ ~InTarget(c)' /\ UNCHANGED <<req, closing, published>>
            BY <1>2, <2>3, <3>1 DEF Leave, InTarget, coordinator
        <3>3. Gate!Dismiss
            BY <3>1, <3>2, ConstantsAssumption DEF Gate!Dismiss, Gate!Nobody
        <3> QED
            BY <3>3 DEF Gate!Next
    <2>4. ASSUME EndClose PROVE [Gate!Next]_(Gate!vars)
        <3>1. closing' = "closed" /\ UNCHANGED <<runMu, pc, req, published>>
            BY <2>4 DEF EndClose
        <3>2. ~(runMu # None /\ InTarget(runMu))
            BY <1>2, <3>1 DEF NoTargetAfterClose, InTarget
        <3>3. Gate!Shut
            BY <3>1, <3>2 DEF Gate!Shut, Gate!Nobody, InTarget
        <3> QED
            BY <3>3 DEF Gate!Next
    <2>5. ASSUME UNCHANGED <<Writer, published>>,
                 (closing = "closed")' = (closing = "closed")
          PROVE  [Gate!Next]_(Gate!vars)
        BY <2>5 DEF Gate!vars, Writer
    <2>6. ASSUME NEW c \in Calls,
                 Call(c) \/ RunAgain(c) \/ Wake(c) \/ GiveUp(c) \/ Finish(c)
                    \/ Complete(c) \/ Unlock(c) \/ Unregister(c) \/ Notify(c)
          PROVE  [Gate!Next]_(Gate!vars)
        <3>1. UNCHANGED closing
            BY <2>6 DEF Call, Start, Run, RunAgain, RunBody, RefuseBatch,
                        RegisterBatch, Supersede, Wake, GiveUp, Finish,
                        Complete, Unlock, Unregister, Notify, coordinator
        <3> QED
            BY <1>2, <2>5, <2>6, <3>1, OutsideSteps
    <2>7. ASSUME NEW c \in Calls, Expire(c) PROVE [Gate!Next]_(Gate!vars)
        BY <2>5, <2>7 DEF Expire, coordinator, Writer, InTarget
    <2>8. ASSUME BeginClose \/ UNCHANGED vars PROVE [Gate!Next]_(Gate!vars)
        BY <2>5, <2>8 DEF BeginClose, vars, Writer, InTarget
    <2> QED
        BY <1>2, <2>1, <2>2, <2>3, <2>4, <2>6, <2>7, <2>8 DEF Next, Progress
<1> QED
    BY <1>1, <1>2, Invariance, PTL DEF Spec, ImplementsGate, Gate!Spec
=============================================================================
