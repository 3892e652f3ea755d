-------------------------------- MODULE SignIn --------------------------------
(***************************************************************************)
(* Who is signed in to the web application: the tokens in the store        *)
(* (apps/web/src/store/auth.ts), apiFetch with the one refresh its calls   *)
(* share (lib/api.ts), the login page and the menu that signs out, over    *)
(* the server's Login, Refresh and JWTMiddleware.                          *)
(*                                                                         *)
(* An access token and the refresh token issued with it are one token      *)
(* here, named by a number.  What a call asks for is left out; a gated     *)
(* call may be answered 401 whatever its token says, as the end of a       *)
(* console session is when the session is over.                            *)
(***************************************************************************)
EXTENDS Naturals, FiniteSets

CONSTANTS
    Users,      \* accounts
    Calls,      \* calls of apiFetch, each made once
    Gated,      \* those of them that something else than the token may refuse
    MaxTokens,  \* bound: tokens that are issued
    MaxFaults,  \* bound: refreshes that fail for reasons of the network
    Bounds,     \* instances: the accounts, the calls and the faults of each
    None        \* no token, no user, nothing under way

Tokens == 1 .. MaxTokens

SignInAssumption ==
    /\ Gated \subseteq Calls
    /\ MaxTokens \in Nat \ {0} /\ MaxFaults \in Nat
    /\ \A b \in Bounds : b.users \subseteq Users /\ b.calls \subseteq Calls /\ b.faults \in 0 .. MaxFaults
    /\ None \notin Users \cup Tokens

VARIABLES
    token,    \* the token in the store
    user,     \* the user in the store
    owner,    \* whom each token was issued to; None: not issued yet
    old,      \* tokens whose access part has expired
    dead,     \* tokens whose refresh part has expired
    active,   \* accounts that are active
    call,     \* where each call stands, its token and its first one, who made it
    refresh,  \* the token that the refresh under way presents, or None
    login,    \* the account that the login page is signing in, or None
    leaving,  \* the browser is on its way to a fresh /login
    crossed,  \* history: the store was emptied while a call or a refresh was under way
    faults    \* refreshes lost so far

storeVars == <<token, user>>
serverVars == <<owner, old, dead, active>>
vars == <<storeVars, serverVars, call, refresh, login, leaving, crossed, faults>>

CallState ==
    [at: {"new", "sent", "waits", "resent", "done"}, token: Tokens \cup {None},
     first: Tokens \cup {None}, by: Users \cup {None}]

-----------------------------------------------------------------------------

Under(c) == call[c].at \in {"sent", "waits", "resent"}
NothingUnderWay == refresh = None /\ \A c \in Calls : ~Under(c)

\* Login and Refresh issue the token t to u.
Issue(t, u) ==
    /\ owner[t] = None /\ \A x \in Tokens : x < t => owner[x] # None
    /\ owner' = [owner EXCEPT ![t] = u]
    /\ UNCHANGED <<old, dead, active>>

\* The middleware takes the token of call c for good.
Valid(c) == call[c].token \notin old

Ended(c) == call' = [call EXCEPT ![c].at = "done"]

\* The store is emptied, with whatever is under way.
Emptied ==
    /\ token' = None /\ user' = None
    /\ crossed' = (crossed \/ refresh' # None \/ \E c \in Calls : Under(c)')

\* onUnauthorized: the store is emptied and the page left.
Unauthorized == Emptied /\ leaving' = TRUE

Stays == UNCHANGED <<storeVars, leaving, crossed>>

-----------------------------------------------------------------------------
(* apiFetch *)

\* A page behind RequireAuth makes a call with the token in the store.
Start(c) ==
    /\ call[c].at = "new" /\ token # None
    /\ call' = [call EXCEPT ![c] = [at |-> "sent", token |-> token, first |-> token, by |-> user]]
    /\ Stays /\ UNCHANGED <<serverVars, refresh, login, faults>>

\* A first or second try is answered, or fails otherwise than with a 401.
Answered(c) ==
    /\ call[c].at \in {"sent", "resent"}
    /\ Ended(c)
    /\ Stays /\ UNCHANGED <<serverVars, refresh, login, faults>>

Refused(c, at) == call[c].at = at /\ (~Valid(c) \/ c \in Gated)

\* ensureRefreshed: there is one refresh for all.
Shares == refresh # None

\* The first try is refused: the call waits for a refresh.
WaitsForRefresh(c) ==
    /\ Refused(c, "sent") /\ (token # None \/ Shares)
    /\ call' = [call EXCEPT ![c].at = "waits"]
    /\ refresh' = IF Shares THEN refresh ELSE token
    /\ Stays /\ UNCHANGED <<serverVars, login, faults>>

\* The first try is refused and there is nothing to refresh with.
NothingToRefresh(c) ==
    /\ Refused(c, "sent") /\ token = None /\ ~Shares
    /\ Ended(c) /\ refresh' = refresh
    /\ Unauthorized
    /\ UNCHANGED <<serverVars, login, faults>>

\* Mutant: the calls that waited are sent again as they were.
ResendAsTheyWere(t) ==
    call' = [c \in Calls |-> IF call[c].at = "waits" THEN [call[c] EXCEPT !.at = "resent"] ELSE call[c]]

\* The calls that waited are sent once more, with the token in the store.
Resend(t) ==
    call' = [c \in Calls |-> IF call[c].at = "waits" THEN [call[c] EXCEPT !.at = "resent", !.token = t]
                             ELSE call[c]]

\* The server issues new tokens to the owner of the refresh token; setTokens
\* leaves the user in the store alone.
Refreshed(t) ==
    /\ refresh # None /\ refresh \notin dead /\ owner[refresh] \in active
    /\ Issue(t, owner[refresh])
    /\ token' = t /\ refresh' = None
    /\ Resend(t)
    /\ UNCHANGED <<user, login, leaving, crossed, faults>>

\* Mutant: the calls that waited are never told.
LeavesWaiting == UNCHANGED call

\* The calls that waited fail with the refresh.
DropsWaiting ==
    call' = [c \in Calls |-> IF call[c].at = "waits" THEN [call[c] EXCEPT !.at = "done"] ELSE call[c]]

RefreshFails ==
    /\ refresh # None /\ refresh' = None
    /\ DropsWaiting
    /\ Unauthorized
    /\ UNCHANGED <<serverVars, login>>

\* The refresh token has expired, or its account is no longer active.
RefreshRefused ==
    /\ refresh # None => refresh \in dead \/ owner[refresh] \notin active
    /\ RefreshFails /\ UNCHANGED faults

\* The refresh gets no answer, or no answer that counts.
RefreshLost ==
    /\ faults < MaxFaults /\ faults' = faults + 1
    /\ RefreshFails

\* The second try is refused too.
GivesUp(c) ==
    /\ Refused(c, "resent")
    /\ Ended(c) /\ refresh' = refresh
    /\ Unauthorized
    /\ UNCHANGED <<serverVars, login, faults>>

-----------------------------------------------------------------------------
(* Signing in and out *)

\* The menu: the store is emptied and the application shows /login, with all
\* that is under way still under way.
SignOut ==
    /\ token # None /\ refresh' = refresh /\ call' = call
    /\ Emptied
    /\ UNCHANGED <<serverVars, login, leaving, faults>>

\* Bound: the calls that are still to be made keep a token each.
Room ==
    Cardinality({t \in Tokens : owner[t] = None})
        > Cardinality({c \in Calls : call[c].at \in {"new", "sent", "waits"}})

Submit(u) ==
    /\ token = None /\ login = None /\ Room
    /\ login' = u
    /\ Stays /\ UNCHANGED <<serverVars, call, refresh, faults>>

\* Mutant: the login page leaves the user in the store alone, as a refresh does.
SetsTokens(t, u) == token' = t /\ user' = user

SetsSession(t, u) == token' = t /\ user' = u

SignedIn(t) ==
    /\ login \in active
    /\ Issue(t, login)
    /\ SetsSession(t, login) /\ login' = None
    /\ crossed' = (crossed /\ ~NothingUnderWay)
    /\ UNCHANGED <<call, refresh, leaving, faults>>

NotSignedIn ==
    /\ login # None /\ login' = None
    /\ Stays /\ UNCHANGED <<serverVars, call, refresh, faults>>

\* The fresh page is loaded: the store comes back from the browser's storage,
\* and nothing is under way in it.
Reload ==
    /\ leaving /\ leaving' = FALSE
    /\ call' = [c \in Calls |-> IF Under(c) THEN [call[c] EXCEPT !.at = "done"] ELSE call[c]]
    /\ refresh' = None /\ login' = None
    /\ crossed' = (crossed /\ token # None)
    /\ UNCHANGED <<storeVars, serverVars, faults>>

-----------------------------------------------------------------------------
(* Time and the administrator *)

Expire(t) ==
    /\ owner[t] # None /\ t \notin old
    /\ old' = old \cup {t}
    /\ Stays /\ UNCHANGED <<owner, dead, active, call, refresh, login, faults>>

ExpireRefresh(t) ==
    /\ t \in old \ dead
    /\ dead' = dead \cup {t}
    /\ Stays /\ UNCHANGED <<owner, old, active, call, refresh, login, faults>>

Deactivate(u) ==
    /\ u \in active
    /\ active' = active \ {u}
    /\ Stays /\ UNCHANGED <<owner, old, dead, call, refresh, login, faults>>

-----------------------------------------------------------------------------

NewCall == [at |-> "new", token |-> None, first |-> None, by |-> None]

\* Someone is signed in; calls and faults that the instance leaves out are used up.
Starts(b) ==
    /\ user \in b.users /\ token = 1
    /\ owner = [t \in Tokens |-> IF t = 1 THEN user ELSE None]
    /\ active = b.users
    /\ call = [c \in Calls |-> IF c \in b.calls THEN NewCall ELSE [NewCall EXCEPT !.at = "done"]]
    /\ faults = MaxFaults - b.faults

Init ==
    /\ \E b \in Bounds : Starts(b)
    /\ old = {} /\ dead = {} /\ refresh = None /\ login = None
    /\ leaving = FALSE /\ crossed = FALSE

Replied(c) == Answered(c) \/ WaitsForRefresh(c) \/ NothingToRefresh(c) \/ GivesUp(c)
RefreshEnds == (\E t \in Tokens : Refreshed(t)) \/ RefreshRefused \/ RefreshLost

Next ==
    \/ \E c \in Calls : Start(c) \/ Replied(c)
    \/ RefreshEnds
    \/ SignOut \/ NotSignedIn \/ Reload
    \/ \E u \in Users : Submit(u) \/ Deactivate(u)
    \/ \E t \in Tokens : SignedIn(t) \/ Expire(t) \/ ExpireRefresh(t)

Spec == Init /\ [][Next]_vars

-----------------------------------------------------------------------------
(* Properties *)

TypeOK ==
    /\ token \in Tokens \cup {None} /\ user \in Users \cup {None}
    /\ owner \in [Tokens -> Users \cup {None}]
    /\ old \subseteq Tokens /\ dead \subseteq Tokens /\ active \subseteq Users
    /\ call \in [Calls -> CallState]
    /\ refresh \in Tokens \cup {None} /\ login \in Users \cup {None}
    /\ leaving \in BOOLEAN /\ crossed \in BOOLEAN /\ faults \in 0 .. MaxFaults

\* Unless the store was emptied under a call or a refresh, the token in it is that
\* of the user in it, and a call is made, and made again, in the name of the user
\* who was signed in when it was first made.
OneIdentity ==
    ~crossed =>
        /\ token = None => user = None
        /\ token # None => owner[token] = user
        /\ \A c \in Calls : Under(c) => owner[call[c].token] = call[c].by

\* The user is sent back to /login for one of four reasons: the refresh failed for
\* one, a call was gated, the token of a second try had expired again, or there
\* was nothing left to refresh with.
SignsOutForACause ==
    ~leaving /\ leaving' =>
        \/ refresh # None /\ (refresh \in dead \/ owner[refresh] \notin active \/ faults' > faults)
        \/ \E c \in Gated : call[c].at = "resent" /\ call'[c].at = "done"
        \/ \E c \in Calls : call[c].at = "resent" /\ call[c].token # call[c].first /\ ~Valid(c)
        \/ token = None
=============================================================================
