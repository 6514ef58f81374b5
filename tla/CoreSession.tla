----------------------------- MODULE CoreSession -----------------------------
(***************************************************************************)
(* Requests to the host's own API (ui/app.js coreFetch), of which one that *)
(* is refused has the access token renewed and is sent once more.  Calls   *)
(* share the renewal under way, and answers come in any order.             *)
(***************************************************************************)
EXTENDS Naturals

CONSTANTS
    Calls,         \* the requests
    MaxTokens      \* bound on the tokens the host hands out

ASSUME SessionAssumption == MaxTokens \in Nat

VARIABLES
    coreAccessToken,     \* the token's number, 0 for none
    refreshToken,        \* localStorage has a refresh token
    coreRefreshPromise,  \* a renewal is under way
    coreCalls,           \* each request: where it is, the token it carries, and
                         \* the one that was refused, none yet being 0
    issued, accepted, cookie  \* the host's tokens, and whether it takes requests without

sessionVars == <<coreAccessToken, refreshToken, coreRefreshPromise, coreCalls,
                 issued, accepted, cookie>>

SessionInit ==
    /\ coreAccessToken = 0
    /\ refreshToken \in BOOLEAN
    /\ coreRefreshPromise = FALSE
    /\ coreCalls = [c \in Calls |-> [at |-> "idle", carries |-> 0, refused |-> 0]]
    /\ issued = 0
    /\ accepted = {}
    /\ cookie \in BOOLEAN

\* The fetch with the headers of coreRequestOptions.
Fetched(call, at, token) == [call EXCEPT !.at = at, !.carries = token]

\* coreFetch up to its first await.
CoreFetch(c) ==
    /\ coreCalls[c].at = "idle"
    /\ IF coreAccessToken = 0 /\ refreshToken
       THEN /\ coreRefreshPromise' = TRUE
            /\ coreCalls' = [coreCalls EXCEPT ![c].at = "awaits token"]
       ELSE /\ UNCHANGED coreRefreshPromise
            /\ coreCalls' = [coreCalls EXCEPT ![c] = Fetched(@, "sent", coreAccessToken)]
    /\ UNCHANGED <<coreAccessToken, refreshToken, issued, accepted, cookie>>

\* The host takes or refuses a request; the answer is on its way.
HostAnswers(c) ==
    /\ \/ /\ coreCalls[c].at = "sent"
          /\ coreCalls' = [coreCalls EXCEPT ![c].at =
                IF cookie \/ coreCalls[c].carries \in accepted THEN "answered" ELSE "refused"]
       \/ /\ coreCalls[c].at = "sent again"
          /\ coreCalls' = [coreCalls EXCEPT ![c].at = "answered"]
    /\ UNCHANGED <<coreAccessToken, refreshToken, coreRefreshPromise, issued, accepted, cookie>>

\* A refused request that is sent again without awaiting the renewal.
RefusedAtOnce(c) ==
    /\ coreCalls[c].at = "refused"
    /\ coreRefreshPromise' = refreshToken
    /\ coreCalls' = [coreCalls EXCEPT ![c] =
          [at |-> "sent again", carries |-> coreAccessToken, refused |-> @.carries]]
    /\ UNCHANGED <<coreAccessToken, refreshToken, issued, accepted, cookie>>

\* Status 401 has the call await a renewal; refreshCoreSession without a
\* refresh token is false at once.
Refused(c) ==
    /\ coreCalls[c].at = "refused"
    /\ coreRefreshPromise' = (coreRefreshPromise \/ refreshToken)
    /\ coreCalls' = [coreCalls EXCEPT ![c] =
          [at |-> IF coreRefreshPromise' THEN "awaits renewal" ELSE "answered",
           carries |-> @.carries, refused |-> @.carries]]
    /\ UNCHANGED <<coreAccessToken, refreshToken, issued, accepted, cookie>>

\* The renewal brings a token: whoever awaits it goes on with that.
Renewed ==
    /\ coreRefreshPromise
    /\ issued < MaxTokens
    /\ issued' = issued + 1
    /\ accepted' = accepted \cup {issued'}
    /\ coreAccessToken' = issued'
    /\ coreRefreshPromise' = FALSE
    /\ coreCalls' = [c \in Calls |->
          CASE coreCalls[c].at = "awaits token" -> Fetched(coreCalls[c], "sent", issued')
            [] coreCalls[c].at = "awaits renewal" -> Fetched(coreCalls[c], "sent again", issued')
            [] OTHER -> coreCalls[c]]
    /\ UNCHANGED <<refreshToken, cookie>>

\* The renewal is denied, and calls go on without; or it cannot be asked for,
\* and calls end with that.
NotRenewed ==
    /\ coreRefreshPromise
    /\ coreRefreshPromise' = FALSE
    /\ \E unreachable \in BOOLEAN :
          coreCalls' = [c \in Calls |->
             CASE coreCalls[c].at = "awaits token" /\ ~unreachable ->
                     Fetched(coreCalls[c], "sent", coreAccessToken)
               [] \/ coreCalls[c].at = "awaits token" /\ unreachable
                  \/ coreCalls[c].at = "awaits renewal" ->
                     [coreCalls[c] EXCEPT !.at = "answered"]
               [] OTHER -> coreCalls[c]]
    /\ UNCHANGED <<coreAccessToken, refreshToken, issued, accepted, cookie>>

\* The tokens expire; the caller has its answer and asks for something else.
Expire ==
    /\ accepted # {}
    /\ accepted' = {}
    /\ UNCHANGED <<coreAccessToken, refreshToken, coreRefreshPromise, coreCalls, issued, cookie>>

AskAgain(c) ==
    /\ coreCalls[c].at = "answered"
    /\ coreCalls' = [coreCalls EXCEPT ![c] = [at |-> "idle", carries |-> 0, refused |-> 0]]
    /\ UNCHANGED <<coreAccessToken, refreshToken, coreRefreshPromise, issued, accepted, cookie>>

SessionNext ==
    \/ \E c \in Calls : CoreFetch(c) \/ HostAnswers(c) \/ Refused(c) \/ AskAgain(c)
    \/ Renewed \/ NotRenewed \/ Expire

-----------------------------------------------------------------------------
\* What is sent again carries a newer token than the one refused, also when the
\* refusal comes while another call has the token renewed, or afterwards.
RetryCarriesNewToken ==
    \A c \in Calls :
       coreCalls[c].at = "sent again" => coreCalls[c].carries > coreCalls[c].refused

=============================================================================
