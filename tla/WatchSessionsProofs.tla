------------------------ MODULE WatchSessionsProofs ------------------------
(***************************************************************************)
(* Proofs about AccountPool and WatchSessions, for any watches, inputs,    *)
(* plays, accounts, limits and stations, and whatever the admin changes:   *)
(* the pool keeps its limits, the handlers use it through its operations   *)
(* only, so that its theorems hold of them as well, and one watch never    *)
(* pays for two streams.                                                   *)
(***************************************************************************)
EXTENDS WatchSessions, FiniteSetTheorems, TLAPS

(***************************************************************************)
(* The pool of accounts                                                    *)
(***************************************************************************)
PoolInv == PoolTypeOK /\ WithinLimit

\* Pruning keeps the types and adds no lease.
LEMMA PrunedFacts ==
    ASSUME PoolTypeOK
    PROVE  /\ Pruned \in [Sessions -> [account : Accounts \cup {None},
                                       age : 0 .. LeaseTTL + 1]]
           /\ \A s \in Sessions : Pruned[s].account \in {leases[s].account, None}
BY PoolAssumption DEF Pruned, NoLease, PoolTypeOK

\* A step after which every lease is an old one, or none, keeps the limits.
LEMMA FewerLeases ==
    ASSUME WithinLimit,
           \A s \in Sessions : leases'[s].account \in {leases[s].account, None}
    PROVE  WithinLimit'
<1> SUFFICES ASSUME NEW a \in Accounts, NEW n \in 0 .. Cardinality(Sessions),
                    LimitedBy(a, n)
             PROVE  Cardinality(Holders(a))' <= n
    BY DEF WithinLimit, LimitedBy
<1>1. Holders(a)' \subseteq Holders(a) /\ Holders(a) \subseteq Sessions
    BY PoolAssumption DEF Holders
<1>2. IsFiniteSet(Holders(a))
    BY <1>1, FS_Subset, PoolAssumption
<1>3. /\ Cardinality(Holders(a)') <= Cardinality(Holders(a))
      /\ Cardinality(Holders(a)') \in Nat /\ Cardinality(Holders(a)) \in Nat
    BY <1>1, <1>2, FS_Subset, FS_CardinalityType
<1>4. Cardinality(Holders(a)) <= n
    BY DEF WithinLimit
<1>5. n \in Nat
    BY FS_CardinalityType, PoolAssumption
<1> QED
    BY <1>3, <1>4, <1>5

\* A session that moves to an account below its limit keeps the limits.
LEMMA GrantBelowLimit ==
    ASSUME PoolInv, NEW s \in Sessions, NEW offer \in Offers,
           NEW a \in DOMAIN offer,
           offer[a] > 0 => Used(a) < offer[a],
           Give(s, a)
    PROVE  WithinLimit'
<1> SUFFICES ASSUME NEW b \in Accounts, NEW n \in 0 .. Cardinality(Sessions),
                    LimitedBy(b, n)
             PROVE  Cardinality(Holders(b))' <= n
    BY DEF WithinLimit, LimitedBy
<1> DEFINE before == {t \in Sessions : Pruned[t].account = b}
<1> USE DEF PoolInv, Give
<1>1. before \subseteq Holders(b) /\ Holders(b) \subseteq Sessions
    BY PrunedFacts, PoolAssumption DEF Holders
<1>2. /\ IsFiniteSet(Holders(b)) /\ IsFiniteSet(before)
      /\ Cardinality(before) <= Cardinality(Holders(b))
    BY <1>1, FS_Subset, PoolAssumption
<1>3. /\ Cardinality(Holders(b)) <= n
      /\ n \in Nat /\ Cardinality(Holders(b)) \in Nat /\ Cardinality(before) \in Nat
    BY <1>2, FS_CardinalityType, PoolAssumption DEF WithinLimit
<1>4. CASE b # a
    <2>1. Holders(b)' \subseteq before
        BY <1>4, PrunedFacts DEF Holders
    <2>2. /\ Cardinality(Holders(b)') <= Cardinality(before)
          /\ Cardinality(Holders(b)') \in Nat
        BY <1>2, <2>1, FS_Subset, FS_CardinalityType
    <2> QED
        BY <1>2, <1>3, <2>2
<1>5. CASE b = a
    <2>1. Holders(b)' \subseteq before \cup {s}
        BY <1>5, PrunedFacts DEF Holders
    <2>2. /\ IsFiniteSet(before \cup {s})
          /\ Cardinality(before \cup {s}) <= Cardinality(before) + 1
        <3>1. Cardinality(before \cup {s})
                 = IF s \in before THEN Cardinality(before) ELSE Cardinality(before) + 1
            BY <1>2, FS_AddElement
        <3>2. IsFiniteSet(before \cup {s})
            BY <1>2, FS_AddElement
        <3> HIDE DEF before
        <3> QED
            BY <1>3, <3>1, <3>2
    <2>3. /\ Cardinality(Holders(b)') <= Cardinality(before \cup {s})
          /\ Cardinality(Holders(b)') \in Nat
          /\ Cardinality(before \cup {s}) \in Nat
        BY <2>1, <2>2, FS_Subset, FS_CardinalityType
    <2>4. offer[a] > 0 /\ offer[a] <= n /\ offer[a] \in Nat
        BY <1>5, PoolAssumption DEF LimitedBy
    <2>5. Cardinality(before) < offer[a]
        BY <1>5, <2>4 DEF Used
    <2> QED
        BY <1>3, <2>2, <2>3, <2>4, <2>5
<1> QED
    BY <1>4, <1>5

LEMMA LeaseStep ==
    ASSUME PoolInv, NEW s \in Sessions, NEW offer \in Offers,
           Granted(s, offer) \/ Refused(s, offer)
    PROVE  PoolInv'
<1> DEFINE kept == Pruned[s].account
<1> USE DEF PoolInv
<1>1. CASE kept \in DOMAIN offer /\ Give(s, kept)
    <2>1. \A t \in Sessions : leases'[t].account \in {leases[t].account, None}
        BY <1>1, PrunedFacts DEF Give
    <2>2. PoolTypeOK'
        BY <1>1, PrunedFacts, PoolAssumption DEF Give, PoolTypeOK
    <2> QED
        BY <2>1, <2>2, FewerLeases
<1>2. CASE Refused(s, offer)
    <2>1. \A t \in Sessions : leases'[t].account \in {leases[t].account, None}
        BY <1>2, PrunedFacts DEF Refused
    <2>2. PoolTypeOK'
        BY <1>2, PrunedFacts DEF Refused, PoolTypeOK
    <2> QED
        BY <2>1, <2>2, FewerLeases
<1>3. ASSUME NEW a \in LeastUsed(Free(offer)), Give(s, a)
      PROVE  PoolInv'
    <2>1. a \in DOMAIN offer /\ (offer[a] > 0 => Used(a) < offer[a])
        BY DEF LeastUsed, Free
    <2>2. a \in Accounts
        BY <2>1, PoolAssumption
    <2>3. PoolTypeOK'
        BY <1>3, <2>2, PrunedFacts, PoolAssumption DEF Give, PoolTypeOK
    <2>4. WithinLimit'
        BY <1>3, <2>1, <2>2, GrantBelowLimit
    <2> QED
        BY <2>3, <2>4
<1> QED
    BY <1>1, <1>2, <1>3 DEF Granted

\* Touch, Release, Usage, Reject and the clock hand nothing out.
LEMMA OtherSteps ==
    ASSUME PoolInv,
           \/ \E s \in Sessions : Touch(s) \/ Release(s) \/ Reject(s)
           \/ Usage \/ Tick \/ UNCHANGED pool
    PROVE  PoolInv'
<1> USE DEF PoolInv
<1>1. PoolTypeOK' /\ \A t \in Sessions : leases'[t].account \in {leases[t].account, None}
    <2>1. ASSUME NEW s \in Sessions, Touch(s) \/ Release(s)
          PROVE  /\ PoolTypeOK'
                 /\ \A t \in Sessions : leases'[t].account \in {leases[t].account, None}
        <3>1. CASE Touch(s)
            <4>1. CASE leases' = Pruned
                BY <3>1, <4>1, PrunedFacts DEF Touch, PoolTypeOK
            <4>2. CASE leases' = [Pruned EXCEPT ![s].age = 0]
                <5>1. 0 \in 0 .. LeaseTTL + 1
                    BY PoolAssumption
                <5>2. \A t \in Sessions :
                         /\ leases'[t].account = Pruned[t].account
                         /\ leases'[t] \in [account : Accounts \cup {None},
                                            age : 0 .. LeaseTTL + 1]
                    BY <4>2, <5>1, PrunedFacts
                <5>3. leases' = [t \in Sessions |-> leases'[t]]
                    BY <4>2, PrunedFacts
                <5>4. leases' \in [Sessions -> [account : Accounts \cup {None},
                                                age : 0 .. LeaseTTL + 1]]
                    BY <5>2, <5>3
                <5> QED
                    BY <3>1, <5>2, <5>4, PrunedFacts DEF Touch, PoolTypeOK
            <4> QED
                BY <3>1, <4>1, <4>2 DEF Touch
        <3>2. CASE Release(s)
            BY <3>2, PoolAssumption DEF Release, PoolTypeOK, NoLease
        <3> QED
            BY <2>1, <3>1, <3>2
    <2>2. ASSUME NEW s \in Sessions, Reject(s)
          PROVE  /\ PoolTypeOK'
                 /\ \A t \in Sessions : leases'[t].account \in {leases[t].account, None}
        <3>1. CASE leases[s].account = None
            BY <2>2, <3>1 DEF Reject, pool, PoolTypeOK
        <3>2. CASE leases[s].account # None
            <4>1. leases[s].account \in Accounts
                BY <3>2 DEF PoolTypeOK
            <4>2. cooldown' \in [Accounts -> 0 .. CooldownTime]
                BY <2>2, <3>2, <4>1, PoolAssumption DEF Reject, PoolTypeOK
            <4>3. leases' = [leases EXCEPT ![s] = NoLease]
                BY <2>2, <3>2 DEF Reject
            <4> QED
                BY <4>2, <4>3, PoolAssumption DEF PoolTypeOK, NoLease
        <3> QED
            BY <3>1, <3>2
    <2>3. CASE Usage
        BY <2>3, PrunedFacts DEF Usage, PoolTypeOK
    <2>4. CASE Tick
        BY <2>4, PoolAssumption DEF Tick, Older, PoolTypeOK
    <2>5. CASE UNCHANGED pool
        BY <2>5 DEF pool, PoolTypeOK
    <2> QED
        BY <2>1, <2>2, <2>3, <2>4, <2>5
<1> QED
    BY <1>1, FewerLeases

\* Nobody has a lease to begin with.
LEMMA PoolStarts == PoolInit => PoolInv
<1>1. ASSUME PoolInit PROVE PoolTypeOK
    BY <1>1, PoolAssumption DEF PoolInit, PoolTypeOK, NoLease
<1>2. ASSUME PoolInit, NEW a \in Accounts PROVE Holders(a) = {}
    BY <1>2, PoolAssumption DEF PoolInit, Holders, NoLease
<1>3. ASSUME PoolInit PROVE WithinLimit
    <2>1. Cardinality(Sessions) \in Nat
        BY FS_CardinalityType, PoolAssumption
    <2>2. \A a \in Accounts : Cardinality(Holders(a)) = 0
        BY <1>2, <1>3, FS_EmptySet
    <2> QED
        BY <2>1, <2>2 DEF WithinLimit
<1> QED
    BY <1>1, <1>3 DEF PoolInv

\* The leases and cooldowns keep their types, and the limit of an account is
\* never exceeded (Lease counts what is left after prune).
THEOREM PoolInvariance == PoolSpec => []PoolInv
<1>1. PoolInit => PoolInv
    BY PoolStarts
<1>2. PoolInv /\ [PoolNext]_pool => PoolInv'
    BY LeaseStep, OtherSteps DEF PoolNext
<1> QED
    BY <1>1, <1>2, PTL DEF PoolSpec

\* The types alone.
THEOREM PoolTypeCorrect == PoolSpec => []PoolTypeOK
BY PoolInvariance, PTL DEF PoolInv

\* However sessions come, move, are rejected and disappear, an account with a
\* limit never has more leases than that limit.
THEOREM LimitHolds == PoolSpec => []WithinLimit
BY PoolInvariance, PTL DEF PoolInv

\* Whoever is refused is refused because of sessions that still report (the
\* prune at the beginning of Lease).
THEOREM RefusalsAreJustified == PoolSpec => []RefusalIsJustified
<1>1. ASSUME PoolTypeOK PROVE RefusalIsJustified
    <2> SUFFICES ASSUME NEW s \in Sessions, NEW offer \in Offers,
                        CanRefuse(s, offer), NEW a \in DOMAIN offer,
                        cooldown[a] = 0
                 PROVE  /\ offer[a] > 0
                        /\ Cardinality({t \in Holders(a) : Live(t)}) >= offer[a]
        BY <1>1, PoolAssumption DEF RefusalIsJustified, PoolTypeOK
    <2> DEFINE using == {t \in Sessions : Pruned[t].account = a}
    <2>1. a \in Accounts /\ a # None /\ offer[a] \in Nat
        BY PoolAssumption
    <2>2. {t \in Holders(a) : Live(t)} = using
        BY <1>1, <2>1, PoolAssumption
           DEF Holders, Live, Pruned, NoLease, PoolTypeOK
    <2>3. IsFiniteSet(using) /\ Cardinality(using) \in Nat
        <3>1. using \subseteq Sessions
            OBVIOUS
        <3> QED
            BY <3>1, FS_Subset, FS_CardinalityType, PoolAssumption
    <2>4. offer[a] > 0 /\ ~(Used(a) < offer[a])
        BY DEF CanRefuse, Free
    <2>5. Used(a) = Cardinality(using)
        BY DEF Used
    <2> QED
        BY <2>1, <2>2, <2>3, <2>4, <2>5
<1> QED
    BY <1>1, PoolTypeCorrect, PTL

\* An operation of one session never takes the lease of another one.
THEOREM LeasesAreKept == PoolSpec => OthersKeepTheirLease
<1> DEFINE Kept(s) == \A t \in Sessions \ {s} :
                         Live(t) => leases'[t].account = leases[t].account
<1>1. ASSUME PoolTypeOK, [PoolNext]_pool
      PROVE  \E s \in Sessions : Kept(s)
    <2>1. ASSUME NEW t \in Sessions, Live(t) PROVE Pruned[t] = leases[t]
        BY <1>1, <2>1, PoolAssumption DEF Live, Pruned, PoolTypeOK
    <2>2. ASSUME NEW s \in Sessions, NEW a, Give(s, a) PROVE Kept(s)
        BY <1>1, <2>1, <2>2, PrunedFacts DEF Give
    <2>3. ASSUME NEW s \in Sessions, NEW offer \in Offers,
                 Granted(s, offer) \/ Refused(s, offer)
          PROVE  Kept(s)
        BY <2>1, <2>2, <2>3 DEF Granted, Refused
    <2>4. ASSUME NEW s \in Sessions, Touch(s) PROVE Kept(s)
        BY <1>1, <2>1, <2>4, PrunedFacts DEF Touch
    <2>5. ASSUME NEW s \in Sessions, Release(s) \/ Reject(s) PROVE Kept(s)
        BY <1>1, <2>5 DEF Release, Reject, pool, PoolTypeOK
    <2>6. ASSUME NEW s \in Sessions, Usage \/ Tick \/ UNCHANGED pool
          PROVE  Kept(s)
        BY <1>1, <2>1, <2>6 DEF Usage, Tick, Older, pool, PoolTypeOK
    <2> QED
        BY <1>1, <2>3, <2>4, <2>5, <2>6, PoolAssumption DEF PoolNext
<1> QED
    BY <1>1, PoolTypeCorrect, PTL DEF PoolSpec, OthersKeepTheirLease

(***************************************************************************)
(* The watches                                                             *)
(***************************************************************************)
InputPcs == {"none", "resolve", "live", "retry", "release", "unbind", "over"}

InputRecords == [pc : InputPcs, watch : Watches \cup {None},
                 tried : SUBSET Candidates, account : Accounts \cup {None}]

LEMMA TypeParts ==
    TypeOK <=>
    /\ PoolTypeOK
    /\ row \in [Watches -> {"none", "live", "ended", "gone"}]
    /\ quiet \in [Watches -> 0 .. RowTTL + 1]
    /\ owner \subseteq Watches
    /\ seen \in [Watches -> 0 .. SeenTTL + 1]
    /\ binding \in [Watches -> Inputs \cup {None}]
    /\ start \in [Watches -> {"idle", "reserve", "register", "done", "failed"}]
    /\ beat \in [Watches -> {"idle", "store", "touch"}]
    /\ stop \in [Watches -> {"idle", "store", "media", "forget", "release", "over"}]
    /\ failed \in [Watches -> SUBSET Candidates]
    /\ input \in [Inputs -> InputRecords]
BY DEF TypeOK, InputRecords, InputPcs

LEMMA OffersOfStations ==
    ASSUME NEW k \in Candidates
    PROVE  Stations[k] \subseteq Offers
BY WatchAssumption DEF Candidates

LEMMA PoolIDs ==
    ASSUME TypeOK, NEW i \in Inputs
    PROVE  PoolID(i) \in Sessions
BY TypeParts, WatchAssumption DEF PoolID, InputRecords

(***************************************************************************)
(* The handlers implement the pool                                         *)
(***************************************************************************)
\* Whatever a handler or the controller does with the leases is an operation
\* of the pool for one session.
LEMMA StepsOfPool ==
    ASSUME TypeOK, Next
    PROVE  PoolNext \/ UNCHANGED pool
<1>1. Watches \subseteq Sessions /\ Plays \subseteq Sessions
  BY WatchAssumption
<1>2. ASSUME NEW w \in Watches, StartWatch(w) \/ Beat(w) \/ Stop(w) \/ Handle(w)
      PROVE  PoolNext \/ UNCHANGED pool
  <2>1. CASE Reserve(w)
    BY <1>1, <2>1, OffersOfStations DEF Reserve, PoolNext
  <2>2. CASE BeatTouch(w) BY <1>1, <2>2 DEF BeatTouch, PoolNext
  <2>3. CASE StopRelease(w) BY <1>1, <2>3 DEF StopRelease, PoolNext
  <2> QED BY <1>2, <2>1, <2>2, <2>3
          DEF StartWatch, Beat, Stop, Handle, StartFails, Register, BeatStore,
              StopStore, StopMedia, StopForget
<1>3. ASSUME NEW i \in Inputs,
             \/ \E w \in Watches : Adopt(i, w)
             \/ OpenAlone(i) \/ Control(i)
             \/ InputBeat(i) \/ Fallback(i) \/ EndInput(i)
      PROVE  PoolNext \/ UNCHANGED pool
  <2>0. PoolID(i) \in Sessions BY PoolIDs
  <2>1. CASE Resolve(i)
    BY <2>0, <2>1, OffersOfStations DEF Resolve, PoolNext
  <2>2. CASE Retry(i)
    BY <2>0, <2>2, OffersOfStations DEF Retry, PoolNext
  <2>3. CASE ReleaseInput(i) BY <2>0, <2>3 DEF ReleaseInput, PoolNext
  <2>4. CASE InputBeat(i) BY <2>0, <2>4 DEF InputBeat, PoolNext
  <2>5. CASE Fallback(i) BY <2>0, <2>5 DEF Fallback, PoolNext
  <2> QED BY <1>3, <2>1, <2>2, <2>3, <2>4, <2>5
          DEF Adopt, OpenAlone, Control, ResolveFails, UnbindInput, EndInput
<1>4. ASSUME NEW p \in Plays, PlayStream(p) \/ PlayBeat(p) \/ PlayStop(p)
      PROVE  PoolNext \/ UNCHANGED pool
  BY <1>1, <1>4, OffersOfStations DEF PlayStream, PlayBeat, PlayStop, PoolNext
<1>5. CASE ReportUsage \/ Pass BY <1>5 DEF ReportUsage, Pass, PoolNext
<1> QED BY <1>2, <1>3, <1>4, <1>5 DEF Next

LEMMA PoolKept ==
    ASSUME TypeOK, WithinLimit, [Next]_vars
    PROVE  PoolTypeOK' /\ WithinLimit'
<1>1. PoolNext \/ UNCHANGED pool BY StepsOfPool DEF vars
<1>2. PoolInv BY TypeParts DEF PoolInv
<1> QED BY <1>1, <1>2, LeaseStep, OtherSteps DEF PoolNext, PoolInv

(***************************************************************************)
(* Types                                                                   *)
(***************************************************************************)
TableTypes ==
    /\ row \in [Watches -> {"none", "live", "ended", "gone"}]
    /\ quiet \in [Watches -> 0 .. RowTTL + 1]
    /\ owner \subseteq Watches
    /\ seen \in [Watches -> 0 .. SeenTTL + 1]
    /\ binding \in [Watches -> Inputs \cup {None}]
    /\ start \in [Watches -> {"idle", "reserve", "register", "done", "failed"}]
    /\ beat \in [Watches -> {"idle", "store", "touch"}]
    /\ stop \in [Watches -> {"idle", "store", "media", "forget", "release", "over"}]
    /\ failed \in [Watches -> SUBSET Candidates]

\* What a step may make of an input.
LEMMA InputTypes ==
    ASSUME input \in [Inputs -> InputRecords], PoolTypeOK', NEW i \in Inputs
    PROVE  /\ \A pc \in InputPcs : [input EXCEPT ![i].pc = pc] \in [Inputs -> InputRecords]
           /\ \A k \in Candidates : Tried(i, k) \in [Inputs -> InputRecords]
           /\ \A s \in Sessions : Play(i, leases'[s].account) \in [Inputs -> InputRecords]
           /\ Play(i, None) \in [Inputs -> InputRecords]
           /\ \A pc \in InputPcs :
                 [input EXCEPT ![i].pc = pc, ![i].account = None] \in [Inputs -> InputRecords]
           /\ \A pc \in InputPcs, w \in Watches :
                 [input EXCEPT ![i].pc = pc, ![i].watch = w] \in [Inputs -> InputRecords]
<1>1. \A s \in Sessions : leases'[s].account \in Accounts \cup {None}
  BY DEF PoolTypeOK
<1>2. /\ input[i] \in InputRecords
      /\ \A x \in InputRecords : [input EXCEPT ![i] = x] \in [Inputs -> InputRecords]
  OBVIOUS
<1>3. ASSUME NEW pc \in InputPcs, NEW account \in Accounts \cup {None}
      PROVE  [input EXCEPT ![i].pc = pc, ![i].account = account] \in [Inputs -> InputRecords]
  <2>1. [input[i] EXCEPT !.pc = pc, !.account = account] \in InputRecords
    BY <1>2 DEF InputRecords
  <2> QED BY <1>2, <2>1
<1>4. ASSUME NEW pc \in InputPcs
      PROVE  [input EXCEPT ![i].pc = pc] \in [Inputs -> InputRecords]
  <2>1. [input[i] EXCEPT !.pc = pc] \in InputRecords BY <1>2 DEF InputRecords
  <2> QED BY <1>2, <2>1
<1>5. ASSUME NEW pc \in InputPcs, NEW w \in Watches
      PROVE  [input EXCEPT ![i].pc = pc, ![i].watch = w] \in [Inputs -> InputRecords]
  <2>1. [input[i] EXCEPT !.pc = pc, !.watch = w] \in InputRecords
    BY <1>2 DEF InputRecords
  <2> QED BY <1>2, <2>1
<1>6. ASSUME NEW k \in Candidates PROVE Tried(i, k) \in [Inputs -> InputRecords]
  <2>1. [input[i] EXCEPT !.tried = @ \cup {k}] \in InputRecords
    BY <1>2 DEF InputRecords
  <2> QED BY <1>2, <2>1 DEF Tried
<1>7. "live" \in InputPcs BY DEF InputPcs
<1> QED BY <1>1, <1>3, <1>4, <1>5, <1>6, <1>7 DEF Play

LEMMA ControlTypes ==
    ASSUME TypeOK, PoolTypeOK', NEW i \in Inputs,
           \/ \E w \in Watches : Adopt(i, w)
           \/ OpenAlone(i) \/ Control(i)
           \/ InputBeat(i) \/ Fallback(i) \/ EndInput(i)
    PROVE  TableTypes' /\ input' \in [Inputs -> InputRecords]
<1> USE TypeParts
<1>1. PoolID(i) \in Sessions BY PoolIDs
<1>2. UNCHANGED <<table, owners, handlers>> => TableTypes'
  BY DEF table, owners, handlers, TableTypes
<1>2a. /\ \A k \in Candidates : Tried(i, k) \in [Inputs -> InputRecords]
       /\ Play(i, leases'[PoolID(i)].account) \in [Inputs -> InputRecords]
       /\ Play(i, None) \in [Inputs -> InputRecords]
       /\ [input EXCEPT ![i].pc = "release"] \in [Inputs -> InputRecords]
       /\ input \in [Inputs -> InputRecords]
  BY <1>1, InputTypes DEF InputPcs
<1>3. \A w \in Watches : [binding EXCEPT ![w] = i] \in [Watches -> Inputs \cup {None}]
  OBVIOUS
<1>4. Unbind(i) => binding' \in [Watches -> Inputs \cup {None}]
  BY DEF Unbind
<1>5. ASSUME NEW w \in Watches, Adopt(i, w) PROVE TableTypes' /\ input' \in [Inputs -> InputRecords]
  BY <1>3, <1>5, InputTypes DEF Adopt, table, handlers, TableTypes, InputPcs
<1>6. CASE OpenAlone(i) BY <1>2, <1>6, InputTypes DEF OpenAlone, InputPcs
<1>7. CASE Resolve(i)
  <2>1. TableTypes' BY <1>2, <1>7 DEF Resolve
  <2>2. \/ input' = Play(i, None) \/ input' = Play(i, leases'[PoolID(i)].account)
        \/ \E k \in Candidates : input' = Tried(i, k)
    BY <1>7 DEF Resolve
  <2>3. input' \in [Inputs -> InputRecords] BY <1>2a, <2>2
  <2> QED BY <2>1, <2>3
<1>8. CASE Retry(i)
  <2>1. TableTypes' BY <1>2, <1>8 DEF Retry
  <2>2. \/ input' = Play(i, None) \/ input' = Play(i, leases'[PoolID(i)].account)
        \/ \E k \in Candidates : input' = Tried(i, k)
    BY <1>8 DEF Retry
  <2>3. input' \in [Inputs -> InputRecords] BY <1>2a, <2>2
  <2> QED BY <2>1, <2>3
<1>9. CASE ResolveFails(i) \/ UnbindInput(i)
  <2>1. Unbind(i) /\ input' = [input EXCEPT ![i].pc = "over"]
        /\ UNCHANGED <<table, owner, seen, handlers>>
    BY <1>9 DEF ResolveFails, UnbindInput
  <2>2. TableTypes' BY <1>4, <2>1 DEF table, handlers, TableTypes
  <2> QED BY <2>1, <2>2, InputTypes DEF InputPcs
<1>10. CASE ReleaseInput(i) BY <1>2, <1>10, InputTypes DEF ReleaseInput, InputPcs
<1>11. CASE InputBeat(i)
  <2>1. seen' \in [Watches -> 0 .. SeenTTL + 1]
    BY <1>11, WatchAssumption DEF InputBeat
  <2>2. TableTypes' BY <1>11, <2>1 DEF InputBeat, table, handlers, TableTypes
  <2>3. input' = input \/ input' = [input EXCEPT ![i].pc = "release"]
    BY <1>11 DEF InputBeat
  <2> QED BY <2>2, <2>3, <1>2a
<1>12. CASE Fallback(i) BY <1>2, <1>12, InputTypes DEF Fallback, InputPcs
<1>13. CASE EndInput(i) BY <1>2, <1>13, InputTypes DEF EndInput, InputPcs
<1> QED BY <1>5, <1>6, <1>7, <1>8, <1>9, <1>10, <1>11, <1>12, <1>13 DEF Control

LEMMA HandlerTypes ==
    ASSUME TypeOK, NEW w \in Watches,
           StartWatch(w) \/ Beat(w) \/ Stop(w) \/ Handle(w)
    PROVE  TableTypes' /\ input' \in [Inputs -> InputRecords]
<1> USE TypeParts DEF TableTypes, table, owners, handlers
<1>0. 0 \in 0 .. RowTTL + 1 /\ 0 \in 0 .. SeenTTL + 1
  BY WatchAssumption
<1>1. CASE StartWatch(w) BY <1>0, <1>1 DEF StartWatch
<1>2. CASE Beat(w) \/ Stop(w) BY <1>0, <1>2 DEF Beat, Stop, Seen
<1>3. CASE Reserve(w)
  <2>1. /\ \/ start' = [start EXCEPT ![w] = "register"] /\ failed' = failed
           \/ \E k \in Candidates : /\ failed' = [failed EXCEPT ![w] = @ \cup {k}]
                                     /\ start' = start
        /\ UNCHANGED <<row, quiet, owner, seen, binding, beat, stop, input>>
    BY <1>3 DEF Reserve
  <2> QED BY <2>1
<1>4. CASE StartFails(w) \/ BeatTouch(w) \/ StopForget(w) \/ StopRelease(w)
  BY <1>4 DEF StartFails, End, BeatTouch, StopForget, StopRelease
<1>5. CASE Register(w) BY <1>0, <1>5 DEF Register
<1>6. CASE BeatStore(w) BY <1>0, <1>6 DEF BeatStore
<1>7. CASE StopStore(w) BY <1>7 DEF StopStore, End
<1>8. CASE StopMedia(w)
  <2>1. ASSUME NEW i \in Inputs
        PROVE  /\ input[i] \in InputRecords
               /\ [input[i] EXCEPT !.pc = "release"] \in InputRecords
    BY DEF InputRecords, InputPcs
  <2>2. input' \in [Inputs -> InputRecords] BY <1>8, <2>1 DEF StopMedia
  <2> QED BY <1>8, <2>2 DEF StopMedia
<1> QED BY <1>1, <1>2, <1>3, <1>4, <1>5, <1>6, <1>7, <1>8 DEF Handle

LEMMA TypeStep ==
    ASSUME TypeOK, WithinLimit, [Next]_vars
    PROVE  TypeOK'
<1>1. PoolTypeOK' BY PoolKept
<1>2. SUFFICES TableTypes' /\ input' \in [Inputs -> InputRecords]
  BY <1>1 DEF TypeOK, TableTypes, InputRecords, InputPcs
<1>3. UNCHANGED <<table, owners, handlers, input>> =>
          TableTypes' /\ input' \in [Inputs -> InputRecords]
  BY TypeParts DEF table, owners, handlers, TableTypes
<1>4. CASE Pass
  <2>1. quiet' \in [Watches -> 0 .. RowTTL + 1] /\ seen' \in [Watches -> 0 .. SeenTTL + 1]
    BY <1>4, TypeParts, WatchAssumption DEF Pass
  <2> QED BY <1>4, <2>1, TypeParts DEF Pass, handlers, TableTypes
<1>5. ASSUME NEW p \in Plays, PlayStream(p) \/ PlayBeat(p) \/ PlayStop(p)
      PROVE  TableTypes' /\ input' \in [Inputs -> InputRecords]
  BY <1>3, <1>5 DEF PlayStream, PlayBeat, PlayStop, Others
<1> QED BY <1>1, <1>3, <1>4, <1>5, ControlTypes, HandlerTypes
        DEF Next, ReportUsage, Others, vars

LEMMA InitTypes == Init => TypeOK /\ PoolInv
<1> SUFFICES ASSUME Init PROVE TypeOK /\ PoolInv
  OBVIOUS
<1>1. PoolInit => PoolInv BY PoolStarts
<1>2. 0 \in 0 .. RowTTL + 1 /\ 0 \in 0 .. SeenTTL + 1
  BY WatchAssumption
<1>3. NewInput \in InputRecords BY DEF NewInput, InputRecords, InputPcs
<1> QED BY <1>1, <1>2, <1>3, TypeParts DEF Init, PoolInv

WatchInv == TypeOK /\ WithinLimit

LEMMA WatchInvariance == Spec => []WatchInv
<1>1. Init => WatchInv BY InitTypes DEF WatchInv, PoolInv
<1>2. WatchInv /\ [Next]_vars => WatchInv' BY TypeStep, PoolKept DEF WatchInv
<1> QED BY <1>1, <1>2, PTL DEF Spec

\* The tables and the state of the handlers keep their types.
THEOREM WatchTypeCorrect == Spec => []TypeOK
BY WatchInvariance, PTL DEF WatchInv

\* All that routes.go, media.go and livetv_contract.go do with the leases is
\* what the pool allows.
THEOREM HandlersUseThePool == Spec => PoolSpec
<1>1. Init => PoolInit BY DEF Init
<1>2. TypeOK /\ [Next]_vars => [PoolNext]_pool BY StepsOfPool DEF vars
<1> QED BY <1>1, <1>2, WatchTypeCorrect, PTL DEF Spec, PoolSpec

\* No order of starts, stops, heartbeats, fallbacks and expirations puts more
\* streams on an account than its limit.
THEOREM WatchesStayWithinLimit == Spec => []WithinLimit
BY WatchInvariance, PTL DEF WatchInv

(***************************************************************************)
(* One input per watch                                                     *)
(***************************************************************************)
\* A watch has an owner and is stopped once its start was answered, and its
\* row is new.
StartInv ==
    \A w \in Watches : /\ start[w] = "idle" => row[w] = "none"
                       /\ stop[w] # "idle" \/ w \in owner => start[w] = "done"

\* The input that uses a watch is the one that is bound to it, unless the
\* watch has no owner any more: then no other input can adopt it.
Bound(i, w) == start[w] = "done" /\ (binding[w] = i \/ w \notin owner)

BoundInv ==
    \A i \in Inputs : /\ input[i].pc = "none" => input[i].watch = None
                      /\ Using(i) /\ input[i].watch # None => Bound(i, input[i].watch)

LEMMA BoundIsAlone == BoundInv /\ OneInputPerWatch <=>
    /\ BoundInv
    /\ \A i, j \in Inputs :
          Using(i) /\ Using(j) /\ input[i].watch = input[j].watch /\ i # j
             => input[i].watch = None
BY DEF OneInputPerWatch

\* The inputs that a step leaves to their watches.
LEMMA FewerUsing ==
    ASSUME TypeOK, BoundInv, OneInputPerWatch,
           \A i \in Inputs : Using(i)' => Using(i) /\ input'[i].watch = input[i].watch,
           \A i \in Inputs : input'[i].pc = "none" => input'[i].watch = None,
           \A i \in Inputs, w \in Watches : Using(i)' /\ Bound(i, w) => Bound(i, w)'
    PROVE  BoundInv' /\ OneInputPerWatch'
BY TypeParts DEF BoundInv, OneInputPerWatch, InputRecords

LEMMA StartStep ==
    ASSUME TypeOK, StartInv, Next
    PROVE  StartInv'
<1> USE TypeParts DEF StartInv
<1>1. ASSUME NEW w \in Watches, StartWatch(w) PROVE StartInv'
  <2>1. \A x \in Watches \ {w} : row[x] = "none" => row'[x] = "none"
    BY <1>1 DEF StartWatch, Prunable
  <2> QED BY <1>1, <2>1 DEF StartWatch, owners
<1>2. ASSUME NEW w \in Watches, Reserve(w) PROVE StartInv'
  <2>1. /\ start[w] = "reserve"
        /\ start' \in {start, [start EXCEPT ![w] = "register"]}
        /\ UNCHANGED <<row, owner, stop>>
    BY <1>2 DEF Reserve, table, owners
  <2> QED BY <2>1
<1>3. ASSUME NEW w \in Watches, Beat(w) \/ Stop(w) \/ Handle(w), ~Reserve(w)
      PROVE  StartInv'
  BY <1>3 DEF Beat, Stop, Handle, StartFails, Register, BeatStore, BeatTouch,
              StopStore, StopMedia, StopForget, StopRelease, End, table, owners
<1>4. ASSUME UNCHANGED <<row, owner, start, stop>> PROVE StartInv'
  BY <1>4
<1>5. ASSUME NEW i \in Inputs,
             \/ \E w \in Watches : Adopt(i, w)
             \/ OpenAlone(i) \/ Control(i)
             \/ InputBeat(i) \/ Fallback(i) \/ EndInput(i)
      PROVE  StartInv'
  BY <1>4, <1>5 DEF Adopt, OpenAlone, Control, Resolve, ResolveFails, Retry, ReleaseInput,
         UnbindInput, InputBeat, Fallback, EndInput, table, owners, handlers
<1>6. ASSUME NEW p \in Plays, PlayStream(p) \/ PlayBeat(p) \/ PlayStop(p)
      PROVE  StartInv'
  BY <1>4, <1>6 DEF PlayStream, PlayBeat, PlayStop, Others, table, owners, handlers
<1>7. CASE ReportUsage \/ Pass
  BY <1>4, <1>7 DEF ReportUsage, Pass, Others, table, owners, handlers
<1> QED BY <1>1, <1>2, <1>3, <1>5, <1>6, <1>7 DEF Next

LEMMA BoundStep ==
    ASSUME TypeOK, StartInv, BoundInv, OneInputPerWatch, Next
    PROVE  BoundInv' /\ OneInputPerWatch'
<1> USE TypeParts
<1> DEFINE Goal == BoundInv' /\ OneInputPerWatch'
           Same(i) == input'[i].watch = input[i].watch
<1>1. ASSUME UNCHANGED <<input, owner, binding>>,
             \A w \in Watches : start[w] = "done" => start'[w] = "done"
      PROVE  Goal
  BY <1>1, FewerUsing DEF Using, Bound, BoundInv
<1>2. ASSUME NEW w \in Watches, StartWatch(w) \/ Beat(w) \/ Stop(w) \/ Handle(w)
      PROVE  Goal
  <2>1. CASE Register(w)
    <3>1. \A i \in Inputs, x \in Watches : Bound(i, x) => Bound(i, x)'
      BY <2>1 DEF Register, Bound
    <3> QED BY <2>1, <3>1, FewerUsing DEF Register, Using, BoundInv
  <2>2. CASE StopMedia(w)
    <3>1. ASSUME NEW i \in Inputs
          PROVE  /\ Same(i)
                 /\ \/ input'[i].pc = input[i].pc
                    \/ input[i].pc = "live" /\ input'[i].pc = "release"
      <4>1. \/ input'[i] = input[i]
            \/ /\ input[i].pc = "live"
               /\ input'[i] = [input[i] EXCEPT !.pc = "release"]
        BY <2>2 DEF StopMedia
      <4>2. input[i] \in InputRecords OBVIOUS
      <4> QED BY <4>1, <4>2 DEF InputRecords
    <3>2. \A i \in Inputs, x \in Watches : Bound(i, x) => Bound(i, x)'
      BY <2>2 DEF StopMedia, Bound, owners
    <3> QED BY <3>1, <3>2, FewerUsing DEF Using, BoundInv
  <2>3. CASE StopForget(w)
    <3>1. \A i \in Inputs, x \in Watches : Bound(i, x) => Bound(i, x)'
      BY <2>3 DEF StopForget, Bound
    <3> QED BY <2>3, <3>1, FewerUsing DEF StopForget, Using, BoundInv
  <2>4. CASE Reserve(w)
    BY <1>1, <2>4 DEF Reserve, owners
  <2> QED BY <1>1, <1>2, <2>1, <2>2, <2>3, <2>4
          DEF StartWatch, Beat, Stop, Handle, StartFails, BeatStore, BeatTouch, StopStore,
              StopRelease, owners
<1>3. ASSUME NEW i \in Inputs, NEW w \in Watches, Adopt(i, w) PROVE Goal
  <2>1. /\ input'[i].pc = "resolve" /\ input'[i].watch = w
        /\ \A j \in Inputs \ {i} : input'[j] = input[j]
        /\ binding[w] = None /\ binding'[w] = i /\ w \in owner
        /\ \A x \in Watches \ {w} : binding'[x] = binding[x]
        /\ UNCHANGED <<owner, start>>
    BY <1>3 DEF Adopt, handlers, InputRecords
  <2>2. start[w] = "done" BY <2>1 DEF StartInv
  <2>3. ASSUME NEW j \in Inputs \ {i}, Using(j) PROVE input[j].watch # w
    <3>1. w # None /\ j # None BY WatchAssumption
    <3>2. input[j].watch = w => Bound(j, w) BY <2>3, <3>1 DEF BoundInv
    <3> QED BY <2>1, <3>1, <3>2 DEF Bound
  <2>4. BoundInv' BY <2>1, <2>2, <2>3 DEF BoundInv, Using, Bound
  <2>5. OneInputPerWatch' BY <2>1, <2>3 DEF OneInputPerWatch, Using
  <2> QED BY <2>4, <2>5
<1>4. ASSUME NEW i \in Inputs, Unbind(i), input' = [input EXCEPT ![i].pc = "over"],
             UNCHANGED <<owner, start>>
      PROVE  Goal
  <2>1. /\ \A j \in Inputs : Same(j)
        /\ \A j \in Inputs \ {i} : input'[j].pc = input[j].pc
        /\ input'[i].pc = "over"
    BY <1>4 DEF InputRecords
  <2>2. \A j \in Inputs, x \in Watches : j # i /\ Bound(j, x) => Bound(j, x)'
    BY <1>4 DEF Unbind, Bound
  <2> QED BY <2>1, <2>2, FewerUsing DEF Using, BoundInv
<1>5. ASSUME NEW i \in Inputs, UNCHANGED <<owner, binding, start>>,
             \A j \in Inputs \ {i} : input'[j] = input[j],
             Same(i), input[i].pc \in {"none", "resolve", "live", "retry", "release"},
             input'[i].pc # "none",
             input[i].pc = "none" => input'[i].pc = "resolve"
      PROVE  Goal
  <2>1. \A j \in Inputs : Using(j)' /\ input'[j].watch # None =>
                          Using(j) /\ input[j].watch # None
    BY <1>5 DEF Using, BoundInv
  <2> QED BY <1>5, <2>1 DEF Goal, BoundInv, OneInputPerWatch, Bound
<1>6. ASSUME NEW i \in Inputs, OpenAlone(i) \/ Control(i) \/ InputBeat(i) \/ Fallback(i)
                               \/ EndInput(i)
      PROVE  Goal
  <2>1. CASE ResolveFails(i) \/ UnbindInput(i)
    BY <1>4, <2>1 DEF ResolveFails, UnbindInput, handlers
  <2>2. CASE ~(ResolveFails(i) \/ UnbindInput(i))
    <3>1. /\ UNCHANGED <<owner, binding, start>>
          /\ input[i].pc \in {"none", "resolve", "live", "retry", "release"}
      BY <1>6, <2>2 DEF OpenAlone, Control, InputBeat, Fallback, EndInput, Resolve, Retry,
             ReleaseInput, owners, handlers
    <3>2. CASE input' = input BY <1>1, <3>1, <3>2
    <3>3. CASE input' # input
      <4>1. /\ \A j \in Inputs \ {i} : input'[j] = input[j]
            /\ Same(i) /\ input'[i].pc # "none"
            /\ input[i].pc = "none" => input'[i].pc = "resolve"
        BY <1>6, <2>2, <3>3 DEF OpenAlone, Control, InputBeat, Fallback, EndInput, Resolve,
               Retry, ReleaseInput, Play, Tried, InputRecords
      <4> QED BY <1>5, <3>1, <4>1
    <3> QED BY <3>2, <3>3
  <2> QED BY <2>1, <2>2
<1>7. ASSUME NEW p \in Plays, PlayStream(p) \/ PlayBeat(p) \/ PlayStop(p) PROVE Goal
  BY <1>1, <1>7 DEF PlayStream, PlayBeat, PlayStop, Others, owners, handlers
<1>8. CASE ReportUsage \/ Pass
  BY <1>1, <1>8 DEF ReportUsage, Pass, Others, owners, handlers
<1> HIDE DEF Goal
<1> QED BY <1>2, <1>3, <1>6, <1>7, <1>8 DEF Next, Goal

(***************************************************************************)
(* Leases of streams                                                       *)
(***************************************************************************)
Shrinks(t) == leases'[t].account \in {leases[t].account, None}

\* What the operations of the pool do to the leases of others, and to the own.
LEMMA LeaseMoves ==
    ASSUME TypeOK
    PROVE  /\ \A s \in Sessions, offer \in Offers :
                 /\ Granted(s, offer) => \A t \in Sessions \ {s} : Shrinks(t)
                 /\ Refused(s, offer) => \A t \in Sessions : Shrinks(t)
           /\ \A s \in Sessions :
                 /\ Touch(s) \/ Release(s) \/ Reject(s) => \A t \in Sessions : Shrinks(t)
                 /\ Release(s) => leases'[s].account = None
           /\ Usage \/ Tick \/ UNCHANGED pool => \A t \in Sessions : Shrinks(t)
<1>1. /\ Pruned \in [Sessions -> [account : Accounts \cup {None}, age : 0 .. LeaseTTL + 1]]
      /\ \A t \in Sessions : Pruned[t].account \in {leases[t].account, None}
      /\ leases \in [Sessions -> [account : Accounts \cup {None}, age : 0 .. LeaseTTL + 1]]
  BY TypeParts, PrunedFacts DEF PoolTypeOK
<1> USE DEF Shrinks
<1>2. ASSUME NEW s \in Sessions, NEW a, Give(s, a)
      PROVE  \A t \in Sessions \ {s} : Shrinks(t)
  BY <1>1, <1>2 DEF Give
<1>3. ASSUME NEW s \in Sessions, NEW offer \in Offers
      PROVE  /\ Granted(s, offer) => \A t \in Sessions \ {s} : Shrinks(t)
             /\ Refused(s, offer) => \A t \in Sessions : Shrinks(t)
  BY <1>1, <1>2 DEF Granted, Refused
<1>4. ASSUME NEW s \in Sessions, Touch(s) PROVE \A t \in Sessions : Shrinks(t)
  <2>1. \A t \in Sessions : leases'[t].account = Pruned[t].account
    BY <1>1, <1>4 DEF Touch
  <2> QED BY <1>1, <2>1
<1>5. ASSUME NEW s \in Sessions, Release(s)
      PROVE  leases'[s].account = None /\ \A t \in Sessions : Shrinks(t)
  BY <1>1, <1>5 DEF Release, NoLease
<1>6. ASSUME NEW s \in Sessions, Reject(s) PROVE \A t \in Sessions : Shrinks(t)
  BY <1>1, <1>6 DEF Reject, NoLease, pool
<1>7. Usage \/ UNCHANGED pool => \A t \in Sessions : Shrinks(t)
  BY <1>1 DEF Usage, pool
<1>8. Tick => \A t \in Sessions : Shrinks(t)
  BY <1>1 DEF Tick, Older
<1> QED BY <1>3, <1>4, <1>5, <1>6, <1>7, <1>8

\* A watch that was stopped and an input that is closed have no lease; an input
\* gets one of its own when it resolves, and none when it has adopted a watch.
Holding(i) == input[i].pc \in {"live", "retry", "release"}

LeftInv ==
    /\ \A w \in Watches :
          stop[w] = "over" /\ (\A i \in Inputs : input[i].watch = w => ~Holding(i))
              => leases[w].account = None
    /\ \A i \in Inputs :
          input[i].watch # None \/ ~Holding(i) => leases[i].account = None

\* A step that takes leases, if anything, and leaves inputs that hold one in
\* that state, with the account they have or without.
LEMMA FewerHeld ==
    ASSUME TypeOK, LeftInv, StreamIsCounted,
           \A t \in Sessions : Shrinks(t),
           \A i \in Inputs : /\ Holding(i) <=> Holding(i)'
                             /\ input'[i].watch = input[i].watch
                             /\ input'[i].pc = "live" => input[i].pc = "live"
                             /\ input'[i].account \in {input[i].account, None},
           \A w \in Watches : stop'[w] = "over" => stop[w] = "over" \/ leases'[w].account = None
    PROVE  LeftInv' /\ StreamIsCounted'
<1>1. Watches \subseteq Sessions /\ Inputs \subseteq Sessions
  BY WatchAssumption
<1>2. LeftInv' BY <1>1 DEF LeftInv, Shrinks
<1>3. \A i \in Inputs : PoolID(i) \in Sessions /\ PoolID(i)' = PoolID(i)
  BY PoolIDs DEF PoolID
<1>4. StreamIsCounted' BY <1>3 DEF StreamIsCounted, Shrinks
<1> QED BY <1>2, <1>4

LEMMA LeaseHandlers ==
    ASSUME TypeOK, StartInv, BoundInv, LeftInv, StreamIsCounted, NEW w \in Watches,
           StartWatch(w) \/ Beat(w) \/ Stop(w) \/ Handle(w)
    PROVE  LeftInv' /\ StreamIsCounted'
<1> USE TypeParts
<1> DEFINE Goal == LeftInv' /\ StreamIsCounted'
<1>1. w \in Sessions BY WatchAssumption
<1>2. UNCHANGED input =>
         \A i \in Inputs : /\ Holding(i) <=> Holding(i)'
                           /\ input'[i].watch = input[i].watch
                           /\ input'[i].pc = "live" => input[i].pc = "live"
                           /\ input'[i].account \in {input[i].account, None}
  BY DEF Holding
<1>3. CASE Reserve(w)
  <2>1. CASE \A t \in Sessions : Shrinks(t)
    BY <1>2, <1>3, <2>1, FewerHeld DEF Reserve
  <2>2. CASE \A t \in Sessions \ {w} : Shrinks(t)
    <3>1. start[w] = "reserve" /\ UNCHANGED <<stop, input>>
      BY <1>3 DEF Reserve
    <3>2. stop[w] # "over" BY <3>1 DEF StartInv
    <3>3. ASSUME NEW i \in Inputs, input[i].pc = "live" PROVE PoolID(i) \in Sessions \ {w}
      <4>1. input[i].watch # w
        BY <3>1, <3>3, WatchAssumption DEF BoundInv, Bound, Using
      <4>2. i # w BY WatchAssumption
      <4> QED BY <4>1, <4>2, PoolIDs DEF PoolID
    <3>4. StreamIsCounted'
      BY <2>2, <3>1, <3>3 DEF StreamIsCounted, Shrinks, PoolID
    <3>5. \A x \in (Watches \ {w}) \cup Inputs : x \in Sessions \ {w}
      BY WatchAssumption
    <3>6. LeftInv' BY <2>2, <3>1, <3>2, <3>5 DEF LeftInv, Shrinks, Holding
    <3> QED BY <3>4, <3>6
  <2>3. (\A t \in Sessions : Shrinks(t)) \/ (\A t \in Sessions \ {w} : Shrinks(t))
    BY <1>1, <1>3, LeaseMoves, OffersOfStations DEF Reserve
  <2> QED BY <2>1, <2>2, <2>3
<1>4. CASE StopRelease(w)
  <2>1. leases'[w].account = None /\ \A t \in Sessions : Shrinks(t)
    BY <1>1, <1>4, LeaseMoves DEF StopRelease
  <2>2. \A x \in Watches : stop'[x] = "over" => stop[x] = "over" \/ leases'[x].account = None
    BY <1>4, <2>1 DEF StopRelease
  <2> QED BY <1>2, <1>4, <2>1, <2>2, FewerHeld DEF StopRelease
<1>5. CASE BeatTouch(w)
  <2>1. \A t \in Sessions : Shrinks(t) BY <1>1, <1>5, LeaseMoves DEF BeatTouch
  <2> QED BY <1>2, <1>5, <2>1, FewerHeld DEF BeatTouch
<1>6. CASE StopMedia(w)
  <2>1. \A t \in Sessions : Shrinks(t) BY <1>6, LeaseMoves DEF StopMedia
  <2>2. ASSUME NEW i \in Inputs
        PROVE  /\ Holding(i) <=> Holding(i)'
               /\ input'[i].watch = input[i].watch
               /\ input'[i].pc = "live" => input[i].pc = "live"
               /\ input'[i].account \in {input[i].account, None}
    <3>1. \/ input'[i] = input[i]
          \/ /\ input[i].pc = "live"
             /\ input'[i] = [input[i] EXCEPT !.pc = "release"]
      BY <1>6 DEF StopMedia
    <3>2. input[i] \in InputRecords OBVIOUS
    <3> QED BY <3>1, <3>2 DEF InputRecords, Holding
  <2>3. \A x \in Watches : stop'[x] = "over" => stop[x] = "over"
    BY <1>6 DEF StopMedia
  <2> QED BY <2>1, <2>2, <2>3, FewerHeld
<1>7. CASE StartWatch(w) \/ Beat(w) \/ Stop(w) \/ StartFails(w) \/ Register(w)
           \/ BeatStore(w) \/ StopStore(w) \/ StopForget(w)
  <2>1. /\ UNCHANGED <<pool, input>>
        /\ \A x \in Watches : stop'[x] = "over" => stop[x] = "over"
    BY <1>7 DEF StartWatch, Beat, Stop, StartFails, Register, BeatStore, StopStore,
           StopForget
  <2> QED BY <1>2, <2>1, LeaseMoves, FewerHeld
<1> HIDE DEF Goal
<1> QED BY <1>3, <1>4, <1>5, <1>6, <1>7 DEF Handle, Goal

\* An input that gets a lease, its own or that of its watch, leaves those of
\* all others alone.
LEMMA OtherPoolIDs ==
    ASSUME TypeOK, OneInputPerWatch, NEW i \in Inputs, NEW j \in Inputs, i # j,
           Using(i), Using(j)
    PROVE  PoolID(i) # PoolID(j)
BY TypeParts, WatchAssumption DEF PoolID, OneInputPerWatch, InputRecords

LEMMA GrantHeld ==
    ASSUME TypeOK, OneInputPerWatch, LeftInv, StreamIsCounted, NEW i \in Inputs,
           \A t \in Sessions \ {PoolID(i)} : Shrinks(t),
           Using(i), Holding(i)', input'[i].watch = input[i].watch,
           \A j \in Inputs \ {i} : input'[j] = input[j],
           input'[i].pc = "live" => input'[i].account \in {leases'[PoolID(i)].account, None},
           UNCHANGED stop
    PROVE  LeftInv' /\ StreamIsCounted'
<1> USE TypeParts
<1>1. /\ PoolID(i) \in Sessions /\ \A j \in Inputs : PoolID(j)' = PoolID(j)
      /\ \A j \in Inputs \ {i} : j # PoolID(i)
      /\ input[i].watch # None => i # PoolID(i)
      /\ \A w \in Watches : w = PoolID(i) => input[i].watch = w
  BY PoolIDs, WatchAssumption, ZenonT(60) DEF PoolID, InputRecords
<1>2. Watches \subseteq Sessions /\ Inputs \subseteq Sessions
  BY WatchAssumption
<1>3. ASSUME NEW w \in Watches, stop'[w] = "over",
             \A j \in Inputs : input'[j].watch = w => ~Holding(j)'
      PROVE  leases'[w].account = None
  <2>1. input[i].watch # w BY <1>3
  <2>2. w # PoolID(i) BY <1>1, <2>1
  <2>3. \A j \in Inputs : input[j].watch = w => ~Holding(j)
    BY <1>3, <2>1 DEF Holding
  <2> QED BY <1>2, <1>3, <2>2, <2>3 DEF LeftInv, Shrinks
<1>4. ASSUME NEW j \in Inputs, input'[j].watch # None \/ ~Holding(j)'
      PROVE  leases'[j].account = None
  <2>1. j # PoolID(i) BY <1>1, <1>4
  <2>2. input[j].watch # None \/ ~Holding(j) BY <1>4 DEF Holding
  <2> QED BY <1>2, <2>1, <2>2 DEF LeftInv, Shrinks
<1>5. LeftInv' BY <1>3, <1>4 DEF LeftInv
<1>6. ASSUME NEW j \in Inputs \ {i}, input[j].pc = "live", input[j].account # None
      PROVE  leases'[PoolID(j)].account \in {input[j].account, None}
  <2>1. PoolID(j) # PoolID(i) BY <1>6, OtherPoolIDs DEF Using
  <2>2. PoolID(j) \in Sessions BY PoolIDs
  <2> QED BY <1>6, <2>1, <2>2 DEF StreamIsCounted, Shrinks
<1>7. StreamIsCounted' BY <1>1, <1>6 DEF StreamIsCounted
<1> QED BY <1>5, <1>7

LEMMA LeaseInputs ==
    ASSUME TypeOK, PoolTypeOK', OneInputPerWatch, BoundInv, LeftInv, StreamIsCounted,
           NEW i \in Inputs,
           \/ \E w \in Watches : Adopt(i, w)
           \/ OpenAlone(i) \/ Control(i)
           \/ InputBeat(i) \/ Fallback(i) \/ EndInput(i)
    PROVE  LeftInv' /\ StreamIsCounted'
<1> USE TypeParts
<1> DEFINE Goal == LeftInv' /\ StreamIsCounted'
<1>1. PoolID(i) \in Sessions BY PoolIDs
<1>2. ASSUME \A t \in Sessions : Shrinks(t), UNCHANGED stop,
             \A j \in Inputs \ {i} : input'[j] = input[j],
             input'[i].watch = input[i].watch,
             Holding(i) <=> Holding(i)',
             input'[i].pc = "live" => input[i].pc = "live",
             input'[i].account \in {input[i].account, None}
      PROVE  Goal
  <2>1. \A j \in Inputs : /\ Holding(j) <=> Holding(j)'
                          /\ input'[j].watch = input[j].watch
                          /\ input'[j].pc = "live" => input[j].pc = "live"
                          /\ input'[j].account \in {input[j].account, None}
    BY <1>2 DEF Holding
  <2> QED BY <1>2, <2>1, FewerHeld
<1>3. input[i] \in InputRecords OBVIOUS
<1>4. ASSUME NEW pc, NEW account \in {input[i].account, None},
             \/ input' = [input EXCEPT ![i].pc = pc] /\ account = input[i].account
             \/ input' = [input EXCEPT ![i].pc = pc, ![i].account = account]
      PROVE  /\ \A j \in Inputs \ {i} : input'[j] = input[j]
             /\ input'[i].watch = input[i].watch
             /\ input'[i].pc = pc /\ input'[i].account = account
  BY <1>3, <1>4 DEF InputRecords
<1>5. ASSUME NEW k \in Candidates, input' = Tried(i, k)
      PROVE  /\ \A j \in Inputs \ {i} : input'[j] = input[j]
             /\ input'[i].watch = input[i].watch
             /\ input'[i].pc = input[i].pc /\ input'[i].account = input[i].account
  BY <1>3, <1>5 DEF InputRecords, Tried
<1>7. ASSUME NEW w \in Watches, Adopt(i, w) PROVE Goal
  <2>0. input' = [input EXCEPT ![i].pc = "resolve", ![i].watch = w]
    BY <1>7 DEF Adopt
  <2>1. /\ input[i].pc = "none" /\ input[i].watch = None
        /\ input'[i].pc = "resolve" /\ input'[i].watch = w
        /\ \A j \in Inputs \ {i} : input'[j] = input[j]
        /\ UNCHANGED <<leases, stop>>
    BY <1>3, <1>7, <2>0, ZenonT(60) DEF Adopt, handlers, pool, BoundInv, InputRecords
  <2>2. LeftInv' BY <2>1 DEF LeftInv, Holding
  <2>3. StreamIsCounted' BY <2>1 DEF StreamIsCounted, PoolID
  <2> QED BY <2>2, <2>3
<1>8. ASSUME OpenAlone(i) \/ ResolveFails(i) \/ UnbindInput(i) \/ EndInput(i) PROVE Goal
  <2>1. UNCHANGED pool /\ UNCHANGED stop
    BY <1>8 DEF OpenAlone, ResolveFails, UnbindInput, EndInput, handlers
  <2>2. PICK pc : /\ input' = [input EXCEPT ![i].pc = pc]
                  /\ pc \in {"live", "retry", "release"} <=> Holding(i)
                  /\ pc # "live"
    BY <1>8 DEF OpenAlone, ResolveFails, UnbindInput, EndInput, Holding
  <2>3. /\ \A j \in Inputs \ {i} : input'[j] = input[j]
        /\ input'[i].watch = input[i].watch
        /\ input'[i].pc = pc /\ input'[i].account = input[i].account
    BY <1>4, <2>2
  <2>4. \A t \in Sessions : Shrinks(t) BY <2>1, LeaseMoves
  <2> QED BY <1>2, <2>1, <2>2, <2>3, <2>4 DEF Holding
<1>9. ASSUME InputBeat(i) PROVE Goal
  <2>1. \A t \in Sessions : Shrinks(t) BY <1>1, <1>9, LeaseMoves DEF InputBeat
  <2>2. /\ UNCHANGED stop /\ Holding(i)
        /\ input' = input \/ input' = [input EXCEPT ![i].pc = "release"]
    BY <1>9 DEF InputBeat, Holding, handlers
  <2>3. CASE input' = input BY <1>2, <2>1, <2>2, <2>3 DEF Holding
  <2> QED BY <1>2, <1>4, <2>1, <2>2, <2>3, ZenonT(60) DEF Holding
<1>10. ASSUME Fallback(i) PROVE Goal
  <2>1. \A t \in Sessions : Shrinks(t) BY <1>1, <1>10, LeaseMoves DEF Fallback
  <2>2. /\ UNCHANGED stop /\ Holding(i)
        /\ input' = [input EXCEPT ![i].pc = "retry", ![i].account = None]
    BY <1>10 DEF Fallback, Holding, handlers
  <2>3. /\ \A j \in Inputs \ {i} : input'[j] = input[j]
        /\ input'[i].watch = input[i].watch
        /\ input'[i].pc = "retry" /\ input'[i].account = None
    BY <1>4, <2>2
  <2> QED BY <1>2, <2>1, <2>2, <2>3 DEF Holding
<1>11. ASSUME Resolve(i) \/ Retry(i) PROVE Goal
  <2>1. Using(i) /\ UNCHANGED stop
    BY <1>11 DEF Resolve, Retry, Using, handlers
  <2>2. PICK k \in Candidates :
           \/ UNCHANGED pool /\ input' = Play(i, None)
           \/ UNCHANGED pool /\ input' = Tried(i, k)
           \/ \E offer \in Stations[k] :
                 \/ Granted(PoolID(i), offer) /\ input' = Play(i, leases'[PoolID(i)].account)
                 \/ Granted(PoolID(i), offer) /\ input' = Tried(i, k) /\ Holding(i)
                 \/ Refused(PoolID(i), offer) /\ input' = Tried(i, k)
    BY <1>11 DEF Resolve, Retry, Holding
  <2>3. ASSUME \A t \in Sessions : Shrinks(t), input' = Tried(i, k) PROVE Goal
    BY <1>2, <1>5, <2>1, <2>3 DEF Holding
  <2>4. ASSUME \A t \in Sessions \ {PoolID(i)} : Shrinks(t), NEW account,
               account \in {leases'[PoolID(i)].account, None}, input' = Play(i, account)
        PROVE  Goal
    <3>1. /\ input'[i].pc = "live" /\ input'[i].watch = input[i].watch
          /\ input'[i].account = account
          /\ \A j \in Inputs \ {i} : input'[j] = input[j]
      BY <1>3, <2>4 DEF Play, InputRecords
    <3> QED BY <2>1, <2>4, <3>1, GrantHeld DEF Holding
  <2>5. ASSUME \A t \in Sessions \ {PoolID(i)} : Shrinks(t), input' = Tried(i, k),
               Holding(i)
        PROVE  Goal
    <3>1. CASE input[i].pc = "live"
      BY <1>11, <3>1 DEF Resolve, Retry
    <3> QED BY <1>5, <2>1, <2>5, <3>1, GrantHeld DEF Holding
  <2> HIDE DEF Goal
  <2>6. CASE UNCHANGED pool /\ (input' = Play(i, None) \/ input' = Tried(i, k))
    <3>1. \A t \in Sessions : Shrinks(t) BY <2>6, LeaseMoves
    <3> QED BY <2>3, <2>4, <2>6, <3>1
  <2>7. ASSUME NEW offer \in Stations[k], Granted(PoolID(i), offer),
               \/ input' = Play(i, leases'[PoolID(i)].account)
               \/ input' = Tried(i, k) /\ Holding(i)
        PROVE  Goal
    <3>1. \A t \in Sessions \ {PoolID(i)} : Shrinks(t)
      BY <1>1, <2>7, LeaseMoves, OffersOfStations
    <3> QED BY <2>4, <2>5, <2>7, <3>1
  <2>8. ASSUME NEW offer \in Stations[k], Refused(PoolID(i), offer), input' = Tried(i, k)
        PROVE  Goal
    <3>1. \A t \in Sessions : Shrinks(t)
      BY <1>1, <2>8, LeaseMoves, OffersOfStations
    <3> QED BY <2>3, <2>8, <3>1
  <2> QED BY <2>2, <2>6, <2>7, <2>8
<1>12. ASSUME ReleaseInput(i) PROVE Goal
  <2>1. /\ \A t \in Sessions : Shrinks(t)
        /\ leases'[PoolID(i)].account = None
    BY <1>1, <1>12, LeaseMoves DEF ReleaseInput
  <2>2. /\ input[i].pc = "release" /\ input'[i].pc = "unbind"
        /\ input'[i].watch = input[i].watch
        /\ \A j \in Inputs \ {i} : input'[j] = input[j]
        /\ UNCHANGED stop
    BY <1>12 DEF ReleaseInput, handlers, InputRecords
  <2>3. PoolID(i) = IF input[i].watch = None THEN i ELSE input[i].watch
    BY DEF PoolID
  <2>4. Watches \subseteq Sessions /\ Inputs \subseteq Sessions
    BY WatchAssumption
  <2>5. LeftInv'
    <3>1. ASSUME NEW w \in Watches, stop[w] = "over",
                 \A j \in Inputs : input'[j].watch = w => ~Holding(j)'
          PROVE  leases'[w].account = None
      <4>1. CASE input[i].watch = w
        <5>1. w # None BY WatchAssumption
        <5> QED BY <2>1, <2>3, <4>1, <5>1
      <4>2. CASE input[i].watch # w
        <5>1. \A j \in Inputs : input[j].watch = w => ~Holding(j)
          BY <2>2, <3>1, <4>2 DEF Holding
        <5> QED BY <2>1, <2>4, <3>1, <5>1 DEF LeftInv, Shrinks
      <4> QED BY <4>1, <4>2
    <3>2. ASSUME NEW j \in Inputs, input'[j].watch # None \/ ~Holding(j)'
          PROVE  leases'[j].account = None
      <4>1. CASE j = i BY <2>1, <2>2, <2>3, <2>4, <4>1 DEF LeftInv, Shrinks
      <4>2. CASE j # i BY <2>1, <2>2, <2>4, <3>2, <4>2 DEF LeftInv, Shrinks, Holding
      <4> QED BY <4>1, <4>2
    <3> QED BY <2>2, <3>1, <3>2 DEF LeftInv
  <2>6. \A j \in Inputs : PoolID(j) \in Sessions /\ PoolID(j)' = PoolID(j)
    BY <2>2, PoolIDs DEF PoolID
  <2>7. StreamIsCounted' BY <2>1, <2>2, <2>6 DEF StreamIsCounted, Shrinks
  <2> QED BY <2>5, <2>7
<1> HIDE DEF Goal
<1> QED BY <1>7, <1>8, <1>9, <1>10, <1>11, <1>12 DEF Control, Goal

(***************************************************************************)
(* The table of watches                                                    *)
(***************************************************************************)
Rows == {w \in Watches : row[w] \in {"live", "ended"}}

LEMMA FiniteRows == \A S \in SUBSET Watches : IsFiniteSet(S) /\ Cardinality(S) \in Nat
<1>1. Watches \subseteq Sessions BY WatchAssumption
<1> QED BY <1>1, PoolAssumption, FS_Subset, FS_CardinalityType

LEMMA RowStep ==
    ASSUME TypeOK, StartInv, RowsAreBounded, Next
    PROVE  /\ RowsAreBounded'
           /\ \A w \in Watches : row[w] \in {"ended", "gone"} => row'[w] \in {"ended", "gone"}
<1> USE TypeParts
<1> DEFINE Ended == \A w \in Watches :
                       row[w] \in {"ended", "gone"} => row'[w] \in {"ended", "gone"}
<1>1. ASSUME \A x \in Watches : \/ row'[x] = row[x]
                                \/ row[x] = "live" /\ row'[x] = "ended"
      PROVE  RowsAreBounded' /\ Ended
  <2>1. Rows' = Rows BY <1>1 DEF Rows
  <2> QED BY <1>1, <2>1 DEF RowsAreBounded, Rows
<1>2. ASSUME NEW w \in Watches, StartWatch(w) PROVE RowsAreBounded' /\ Ended
  <2>1. PICK gone \in SUBSET Watches :
            /\ Cardinality(Rows \ gone) < MaxRows
            /\ row' = [x \in Watches |-> IF x = w THEN "live"
                                         ELSE IF x \in gone THEN "gone" ELSE row[x]]
    BY <1>2 DEF StartWatch, Prunable, Rows
  <2> DEFINE left == Rows \ gone
  <2>2. Rows' \subseteq left \cup {w} /\ left \subseteq Watches BY <2>1 DEF Rows
  <2>3. Rows' \subseteq Watches BY DEF Rows
  <2> HIDE DEF left
  <2>4. /\ IsFiniteSet(left \cup {w}) /\ Cardinality(left) \in Nat
        /\ Cardinality(left \cup {w}) <= Cardinality(left) + 1
        /\ Cardinality(left \cup {w}) \in Nat
    BY <2>2, FiniteRows, FS_AddElement
  <2>5. Cardinality(Rows') <= Cardinality(left \cup {w}) /\ Cardinality(Rows') \in Nat
    BY <2>2, <2>3, <2>4, FiniteRows, FS_Subset
  <2>6. Cardinality(left) < MaxRows BY <2>1 DEF left
  <2>7. RowsAreBounded' BY <2>4, <2>5, <2>6, WatchAssumption DEF RowsAreBounded, Rows
  <2>8. row[w] = "none" BY <1>2 DEF StartWatch, StartInv
  <2> QED BY <2>1, <2>7, <2>8
<1>3. ASSUME NEW w \in Watches, Beat(w) \/ Stop(w) \/ Handle(w)
      PROVE  RowsAreBounded' /\ Ended
  <2>1. CASE Reserve(w) BY <1>1, <2>1 DEF Reserve, table
  <2>2. CASE StartFails(w) \/ StopStore(w)
    <3>1. row' = [row EXCEPT ![w] = End(w)] BY <2>2 DEF StartFails, StopStore
    <3> QED BY <1>1, <3>1 DEF End
  <2> QED BY <1>1, <1>3, <2>1, <2>2
          DEF Beat, Stop, Handle, Register, BeatStore, BeatTouch, StopMedia, StopForget,
              StopRelease, table
<1>4. ASSUME NEW i \in Inputs,
             \/ \E w \in Watches : Adopt(i, w)
             \/ OpenAlone(i) \/ Control(i)
             \/ InputBeat(i) \/ Fallback(i) \/ EndInput(i)
      PROVE  RowsAreBounded' /\ Ended
  <2>1. row' = row
    BY <1>4 DEF Adopt, OpenAlone, Control, Resolve, ResolveFails, Retry, ReleaseInput,
           UnbindInput, InputBeat, Fallback, EndInput, table
  <2> QED BY <1>1, <2>1
<1>5. ASSUME NEW p \in Plays, PlayStream(p) \/ PlayBeat(p) \/ PlayStop(p)
      PROVE  RowsAreBounded' /\ Ended
  BY <1>1, <1>5 DEF PlayStream, PlayBeat, PlayStop, Others, table
<1>6. CASE ReportUsage \/ Pass
  BY <1>1, <1>6 DEF ReportUsage, Pass, Others, table
<1> QED BY <1>2, <1>3, <1>4, <1>5, <1>6 DEF Next

(***************************************************************************)
(* The theorems                                                            *)
(***************************************************************************)
StreamInv ==
    /\ WatchInv
    /\ StartInv /\ BoundInv /\ OneInputPerWatch
    /\ LeftInv /\ StreamIsCounted
    /\ RowsAreBounded

LEMMA StreamInvariance == Spec => []StreamInv
<1>1. Init => StreamInv
  <2> SUFFICES ASSUME Init PROVE StreamInv
    OBVIOUS
  <2>1. WatchInv BY InitTypes DEF WatchInv, PoolInv
  <2>2. StartInv BY DEF Init, StartInv
  <2>3. BoundInv /\ OneInputPerWatch
    BY DEF Init, NewInput, BoundInv, OneInputPerWatch, Using
  <2>4. LeftInv /\ StreamIsCounted
    <3>1. \A s \in Sessions : leases[s].account = None
      BY DEF Init, PoolInit, NoLease
    <3> QED BY <3>1, WatchAssumption DEF Init, NewInput, LeftInv, StreamIsCounted
  <2>5. RowsAreBounded
    <3>1. Rows = {} BY DEF Init, Rows
    <3>2. Cardinality(Rows) = 0 BY <3>1, FS_EmptySet
    <3> QED BY <3>2, WatchAssumption DEF RowsAreBounded, Rows
  <2> QED BY <2>1, <2>2, <2>3, <2>4, <2>5 DEF StreamInv
<1>2. ASSUME StreamInv, Next PROVE StreamInv'
  <2> USE DEF StreamInv, WatchInv
  <2>1. WatchInv' BY <1>2, TypeStep, PoolKept
  <2>2. StartInv' BY <1>2, StartStep
  <2>3. BoundInv' /\ OneInputPerWatch' BY <1>2, BoundStep
  <2>4. RowsAreBounded' BY <1>2, RowStep
  <2>5. LeftInv' /\ StreamIsCounted'
    <3>1. ASSUME UNCHANGED <<stop, input>>, \A t \in Sessions : Shrinks(t)
          PROVE  LeftInv' /\ StreamIsCounted'
      BY <1>2, <3>1, FewerHeld DEF Holding
    <3>2. ASSUME NEW w \in Watches, StartWatch(w) \/ Beat(w) \/ Stop(w) \/ Handle(w)
          PROVE  LeftInv' /\ StreamIsCounted'
      BY <1>2, <3>2, LeaseHandlers
    <3>3. ASSUME NEW i \in Inputs,
                 \/ \E w \in Watches : Adopt(i, w)
                 \/ OpenAlone(i) \/ Control(i)
                 \/ InputBeat(i) \/ Fallback(i) \/ EndInput(i)
          PROVE  LeftInv' /\ StreamIsCounted'
      BY <1>2, <2>1, <3>3, LeaseInputs DEF TypeOK
    <3>4. ASSUME NEW p \in Plays, PlayStream(p) \/ PlayBeat(p) \/ PlayStop(p)
          PROVE  LeftInv' /\ StreamIsCounted'
      <4>1. p \in Sessions /\ p \notin Watches /\ p \notin Inputs
        BY WatchAssumption
      <4>2. \A t \in Sessions \ {p} : Shrinks(t)
        BY <1>2, <3>4, <4>1, LeaseMoves, OffersOfStations DEF PlayStream, PlayBeat, PlayStop
      <4>3. UNCHANGED <<stop, input>>
        BY <3>4 DEF PlayStream, PlayBeat, PlayStop, Others, handlers
      <4>4. \A i \in Inputs : PoolID(i) \in Sessions \ {p} /\ PoolID(i)' = PoolID(i)
        BY <1>2, <4>1, <4>3, PoolIDs, TypeParts DEF PoolID, InputRecords
      <4>5. \A x \in Watches \cup Inputs : x \in Sessions \ {p}
        BY <4>1, WatchAssumption
      <4>6. LeftInv' BY <1>2, <4>2, <4>3, <4>5 DEF LeftInv, Holding, Shrinks
      <4>7. StreamIsCounted' BY <1>2, <4>2, <4>3, <4>4 DEF StreamIsCounted, Shrinks
      <4> QED BY <4>6, <4>7
    <3>5. CASE ReportUsage \/ Pass
      BY <1>2, <3>1, <3>5, LeaseMoves DEF ReportUsage, Pass, Others, handlers
    <3> QED BY <1>2, <3>2, <3>3, <3>4, <3>5 DEF Next
  <2> QED BY <2>1, <2>2, <2>3, <2>4, <2>5
<1>3. ASSUME StreamInv, UNCHANGED vars PROVE StreamInv'
  <2>1. WatchInv' BY <1>3, TypeStep, PoolKept DEF StreamInv, WatchInv
  <2>2. UNCHANGED <<leases, row, owner, binding, start, stop, input>>
    BY <1>3 DEF vars, pool, table, owners, handlers
  <2> QED BY <1>3, <2>1, <2>2
          DEF StreamInv, StartInv, BoundInv, Bound, OneInputPerWatch, Using, LeftInv,
              Holding, StreamIsCounted, PoolID, RowsAreBounded
<1> QED BY <1>2, <1>1, <1>3, PTL DEF Spec

\* Two inputs never live on the reservation of one watch (media.go, Resolve),
\* although handleWatchStart drops the bindings of silent watches.
THEOREM WatchHasOneInput == Spec => []OneInputPerWatch
BY StreamInvariance, PTL DEF StreamInv

\* The lease of an open stream is one of the account that the stream uses, or
\* it is gone.
THEOREM StreamsAreCounted == Spec => []StreamIsCounted
BY StreamInvariance, PTL DEF StreamInv

\* In whatever order stops, heartbeats, fallbacks and releases take their
\* steps, a stopped watch without an open input holds no connection, and no
\* closed input does.
THEOREM StopsLeaveNothing == Spec => []NothingLeftBehind
<1>1. LeftInv => NothingLeftBehind
  BY DEF LeftInv, NothingLeftBehind, Using, Holding
<1> QED BY <1>1, StreamInvariance, PTL DEF StreamInv

\* The table of watches keeps its limit (store.go, pruneWatchSessionsLocked).
THEOREM TableIsBounded == Spec => []RowsAreBounded
BY StreamInvariance, PTL DEF StreamInv

\* A heartbeat that is late does not revive a watch (store.go, HeartbeatWatch).
THEOREM EndIsFinal == Spec => EndedStaysEnded
<1> DEFINE Ended == \A w \in Watches :
                       row[w] \in {"ended", "gone"} => row'[w] \in {"ended", "gone"}
<1>1. StreamInv /\ [Next]_vars => [Ended]_table
  BY RowStep DEF StreamInv, WatchInv, vars, table
<1> QED BY <1>1, StreamInvariance, PTL DEF Spec, EndedStaysEnded
=============================================================================
