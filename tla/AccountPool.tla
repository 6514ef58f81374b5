----------------------------- MODULE AccountPool -----------------------------
(***************************************************************************)
(* The pool of provider accounts (internal/plugin/account_pool.go).  Every *)
(* stream occupies a connection of one account; an account has a limit set *)
(* by the admin, and a session that stops reporting loses its lease.       *)
(*                                                                         *)
(* Every operation holds p.mu and is one step.  An account is named by     *)
(* source and account ID together, the key the code builds for cooldowns.  *)
(* Instead of the time a lease was last seen and the time a cooldown ends, *)
(* the model keeps the age of the one and the rest of the other, which     *)
(* Tick advances; an age beyond LeaseTTL makes no difference any more.     *)
(***************************************************************************)
EXTENDS Naturals, FiniteSets

CONSTANTS
    Sessions,       \* session IDs
    Accounts,       \* playback accounts of all sources
    Offers,         \* EffectivePlaybackAccounts of a source: account -> limit
    LeaseTTL,       \* accountLeaseTTL
    CooldownTime,   \* how long Reject keeps an account back
    None            \* no account

ASSUME PoolAssumption ==
    /\ IsFiniteSet(Sessions) /\ Sessions # {}
    /\ None \notin Accounts
    /\ \A offer \in Offers : /\ DOMAIN offer \subseteq Accounts
                             /\ offer \in [DOMAIN offer -> Nat]
    /\ LeaseTTL \in Nat
    /\ CooldownTime \in Nat \ {0}

VARIABLES
    leases,     \* p.leases: account and age of each session's lease
    cooldown    \* p.cooldown: how long each account is still kept back

pool == <<leases, cooldown>>

NoLease == [account |-> None, age |-> 0]

PoolInit ==
    /\ leases = [s \in Sessions |-> NoLease]
    /\ cooldown = [a \in Accounts |-> 0]

\* Mutant: prune deletes the lease that is exactly 90 seconds old only.
PrunedByEquality ==
    [s \in Sessions |-> IF leases[s].age = LeaseTTL THEN NoLease ELSE leases[s]]

\* prune: the leases that are left once the abandoned ones are deleted.
Pruned ==
    [s \in Sessions |-> IF leases[s].age > LeaseTTL THEN NoLease ELSE leases[s]]

\* usage in Lease
Used(a) == Cardinality({s \in Sessions : Pruned[s].account = a})

\* Mutant: the account at its limit counts as free.
FreeOffByOne(offer) ==
    {a \in DOMAIN offer : /\ cooldown[a] = 0
                          /\ offer[a] > 0 => Used(a) <= offer[a]}

\* The accounts a session may move to: not rejected a moment ago, and below
\* the limit, where 0 means that there is none.
Free(offer) ==
    {a \in DOMAIN offer : /\ cooldown[a] = 0
                          /\ offer[a] > 0 => Used(a) < offer[a]}

LeastUsed(free) == {a \in free : \A b \in free : Used(a) <= Used(b)}

Give(s, a) ==
    /\ leases' = [Pruned EXCEPT ![s] = [account |-> a, age |-> 0]]
    /\ UNCHANGED cooldown

\* Lease: a session keeps the account it has as long as that is offered;
\* otherwise it gets a least used one of the free ones.  Which of several
\* least used ones depends on their order in the settings.
Granted(s, offer) ==
    LET kept == Pruned[s].account
    IN  IF kept \in DOMAIN offer THEN Give(s, kept)
        ELSE \E a \in LeastUsed(Free(offer)) : Give(s, a)

\* A refusal, also of a source without any playback account, leaves a lease
\* of another source alone.
CanRefuse(s, offer) ==
    Pruned[s].account \notin DOMAIN offer /\ Free(offer) = {}

Refused(s, offer) ==
    /\ CanRefuse(s, offer)
    /\ leases' = Pruned
    /\ UNCHANGED cooldown

\* Touch renews the lease and tells whether there is one.
HasLease(s) == Pruned[s].account # None

Touch(s) ==
    /\ leases' = IF HasLease(s) THEN [Pruned EXCEPT ![s].age = 0] ELSE Pruned
    /\ UNCHANGED cooldown

Release(s) ==
    /\ leases' = [leases EXCEPT ![s] = NoLease]
    /\ UNCHANGED cooldown

\* Usage reports the number of leases; it prunes like Lease and Touch.
Usage ==
    /\ leases' = Pruned
    /\ UNCHANGED cooldown

\* Reject: the provider turned the account down; it rests for a while.
Reject(s) ==
    IF leases[s].account # None
    THEN /\ cooldown' = [cooldown EXCEPT ![leases[s].account] = CooldownTime]
         /\ leases' = [leases EXCEPT ![s] = NoLease]
    ELSE UNCHANGED pool

Older(lease) ==
    IF lease.account # None /\ lease.age <= LeaseTTL
    THEN [lease EXCEPT !.age = @ + 1] ELSE lease

Tick ==
    /\ leases' = [s \in Sessions |-> Older(leases[s])]
    /\ cooldown' = [a \in Accounts |->
                       IF cooldown[a] > 0 THEN cooldown[a] - 1 ELSE 0]

PoolNext ==
    \/ \E s \in Sessions :
          \/ \E offer \in Offers : Granted(s, offer) \/ Refused(s, offer)
          \/ Touch(s) \/ Release(s) \/ Reject(s)
    \/ Usage
    \/ Tick

PoolSpec == PoolInit /\ [][PoolNext]_pool

-----------------------------------------------------------------------------
(***************************************************************************)
(* Properties                                                              *)
(***************************************************************************)
\* The types of the pool's maps.
PoolTypeOK ==
    /\ leases \in [Sessions -> [account : Accounts \cup {None},
                                age : 0 .. LeaseTTL + 1]]
    /\ cooldown \in [Accounts -> 0 .. CooldownTime]

\* The largest of the limits the admin gave to an account, when every
\* offer limits it: a number that all of its offers stay within.
LimitedBy(a, n) == \A offer \in Offers :
                      a \in DOMAIN offer => offer[a] > 0 /\ offer[a] <= n

Holders(a) == {s \in Sessions : leases[s].account = a}
Live(s) == leases[s].account # None /\ leases[s].age <= LeaseTTL

\* No account is ever leased to more sessions than its limit (the largest one
\* while the admin changes it), whatever sequence of leases, refusals,
\* rejections, expirations and late heartbeats led there.
WithinLimit ==
    \A a \in Accounts : \A n \in 0 .. Cardinality(Sessions) :
        LimitedBy(a, n) => Cardinality(Holders(a)) <= n

\* A session is refused only when each offered account is resting or fully
\* used by sessions that still report: abandoned sessions block nobody.
RefusalIsJustified ==
    \A s \in Sessions, offer \in Offers : CanRefuse(s, offer) =>
        \A a \in DOMAIN offer :
            \/ cooldown[a] > 0
            \/ /\ offer[a] > 0
               /\ Cardinality({t \in Holders(a) : Live(t)}) >= offer[a]

\* No operation disturbs the lease of more than one session that still
\* reports: nobody loses a connection to what another session does.
OthersKeepTheirLease ==
    [][\E s \in Sessions : \A t \in Sessions \ {s} :
          Live(t) => leases'[t].account = leases[t].account]_pool
=============================================================================
