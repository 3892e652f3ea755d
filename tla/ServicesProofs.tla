---------------------------- MODULE ServicesProofs ----------------------------
(***************************************************************************)
(* Proofs about Services, for every value of its constants.  Each part     *)
(* shows an inductive invariant of the steps of one module, named for the  *)
(* instance (SignInv, ConsoleInv ...; Tender!IInv and Prospect!IInv are    *)
(* stated in the modules); the last part joins the scenes.                 *)
(***************************************************************************)
EXTENDS Services, SequenceTheorems, FiniteSetTheorems, TLAPS

-----------------------------------------------------------------------------
(* Who is signed in: token, user and calls *)

\* What is needed of the types.
SignTyped ==
    /\ token \in Sign!Tokens \cup {None} /\ user \in Users \cup {None}
    /\ owner \in [Sign!Tokens -> Users \cup {None}] /\ active \subseteq Users
    /\ call \in [Fetches -> Sign!CallState] /\ refresh \in Sign!Tokens \cup {None}
    /\ login \in Users \cup {None} /\ crossed \in BOOLEAN

\* Without a token nothing is under way, and there is no user.
EmptyIsQuiet == token = None => user = None /\ (crossed \/ Sign!NothingUnderWay)

\* All that is under way, and the token in the store, is the user's.
AllIsTheUsers ==
    ~crossed =>
        /\ token # None => user # None /\ owner[token] = user /\ login = None
        /\ refresh # None => owner[refresh] = user
        /\ \A c \in Fetches : Sign!Under(c) =>
               call[c].by = user /\ owner[call[c].token] = user /\ call[c].token \in Sign!Tokens

SignInv == SignTyped /\ EmptyIsQuiet /\ AllIsTheUsers

-----------------------------------------------------------------------------

LEMMA SignInit == ASSUME Sign!SignInAssumption PROVE Sign!Init => SignInv
<1> SUFFICES ASSUME Sign!Init PROVE SignInv
    OBVIOUS
<1>1. PICK b \in SignInBounds : Sign!Starts(b)
    BY DEF Sign!Init
<1>2. 1 \in Sign!Tokens /\ None \notin Sign!Tokens /\ None \notin Users /\ user \in Users /\ b.users \subseteq Users
    BY <1>1 DEF Sign!SignInAssumption, Sign!Tokens, Sign!Starts
<1>3. SignTyped
    BY <1>1, <1>2 DEF Sign!Init, Sign!Starts, SignTyped, Sign!CallState, Sign!NewCall
<1>4. \A c \in Fetches : ~Sign!Under(c)
    BY <1>1 DEF Sign!Starts, Sign!NewCall, Sign!Under
<1>5. EmptyIsQuiet /\ AllIsTheUsers
    BY <1>1, <1>2, <1>4 DEF Sign!Init, Sign!Starts, EmptyIsQuiet, AllIsTheUsers
<1>q. QED
    BY <1>3, <1>5 DEF SignInv

\* The store is emptied: what is under way may be another's from now on.
LEMMA EmptiedKeepsInv ==
    ASSUME Sign!SignInAssumption, SignTyped', Sign!Emptied
    PROVE  SignInv'
<1>1. token' = None /\ user' = None
    BY DEF Sign!Emptied
<1>2. crossed' \/ (refresh' = None /\ \A c \in Fetches : ~Sign!Under(c)')
    BY DEF Sign!Emptied
<1>q. QED
    BY <1>1, <1>2 DEF SignInv, EmptyIsQuiet, AllIsTheUsers, Sign!NothingUnderWay

\* A step that gives nobody anything: calls may end, or wait for the refresh.
LEMMA QuietStep ==
    ASSUME Sign!SignInAssumption, SignInv, SignTyped',
           UNCHANGED <<Sign!storeVars, owner>>, crossed' \in {crossed},
           login' = login \/ login' = None \/ token = None,
           refresh' \in {refresh, None} \/ (refresh' = token /\ token # None),
           \A c \in Fetches : Sign!Under(c)' =>
               Sign!Under(c) /\ call'[c].by = call[c].by /\ call'[c].token = call[c].token
    PROVE  SignInv'
<1>1. EmptyIsQuiet'
    BY DEF SignInv, EmptyIsQuiet, Sign!NothingUnderWay, Sign!storeVars
<1>2. AllIsTheUsers'
    BY DEF SignInv, AllIsTheUsers, Sign!storeVars, SignTyped
<1>q. QED
    BY <1>1, <1>2 DEF SignInv

-----------------------------------------------------------------------------
(* One lemma for the steps of the calls, one for those of the refresh, one for *)
(* signing in and out, and one for what happens elsewhere.                     *)

LEMMA CallKeepsInv ==
    ASSUME Sign!SignInAssumption, SignInv, NEW c \in Fetches, Sign!Start(c) \/ Sign!Replied(c)
    PROVE  SignInv'
<1>1. CASE Sign!Start(c)
  <2>1. SignTyped'
      BY <1>1 DEF Sign!Start, Sign!Stays, Sign!serverVars, Sign!storeVars, SignInv, SignTyped, Sign!CallState
  <2>2. \A d \in Fetches : Sign!Under(d)' =>
            \/ d = c /\ call'[d].by = user /\ call'[d].token = token /\ token # None
            \/ Sign!Under(d) /\ call'[d] = call[d]
      BY <1>1 DEF Sign!Start, Sign!Under, SignInv, SignTyped, Sign!CallState
  <2>3. UNCHANGED <<token, user, owner, refresh, login, crossed>> /\ token # None
      BY <1>1 DEF Sign!Start, Sign!Stays, Sign!serverVars, Sign!storeVars
  <2>q. QED
      BY <2>1, <2>2, <2>3 DEF SignInv, SignTyped, EmptyIsQuiet, AllIsTheUsers
<1>2. CASE Sign!Answered(c) \/ Sign!WaitsForRefresh(c)
  <2>1. SignTyped'
      BY <1>2 DEF Sign!Answered, Sign!WaitsForRefresh, Sign!Shares, Sign!Ended, Sign!Stays, Sign!serverVars,
                  Sign!storeVars, SignInv, SignTyped, Sign!CallState
  <2>2. \A d \in Fetches : Sign!Under(d)' =>
            Sign!Under(d) /\ call'[d].by = call[d].by /\ call'[d].token = call[d].token
      BY <1>2 DEF Sign!Answered, Sign!WaitsForRefresh, Sign!Refused, Sign!Ended, Sign!Under, SignInv,
                  SignTyped, Sign!CallState
  <2>3. /\ UNCHANGED <<Sign!storeVars, owner, login, crossed>>
        /\ refresh' = refresh \/ (refresh' = token /\ token # None)
      BY <1>2 DEF Sign!Answered, Sign!WaitsForRefresh, Sign!Shares, Sign!Stays, Sign!serverVars
  <2>q. QED
      BY <2>1, <2>2, <2>3, QuietStep
<1>3. CASE Sign!NothingToRefresh(c) \/ Sign!GivesUp(c)
  <2>1. SignTyped' /\ Sign!Emptied
      BY <1>3 DEF Sign!NothingToRefresh, Sign!GivesUp, Sign!Unauthorized, Sign!Emptied, Sign!Ended,
                  Sign!serverVars, SignInv, SignTyped, Sign!CallState
  <2>q. QED
      BY <2>1, EmptiedKeepsInv
<1>q. QED
    BY <1>1, <1>2, <1>3 DEF Sign!Replied

LEMMA RefreshKeepsInv ==
    ASSUME Sign!SignInAssumption, SignInv, Sign!RefreshEnds
    PROVE  SignInv'
<1>1. ASSUME NEW t \in Sign!Tokens, Sign!Refreshed(t) PROVE SignInv'
  <2>1. /\ refresh # None /\ owner[refresh] \in active /\ owner[t] = None
        /\ owner' = [owner EXCEPT ![t] = owner[refresh]]
        /\ token' = t /\ refresh' = None /\ Sign!Resend(t)
        /\ UNCHANGED <<user, login, crossed, active>>
      BY <1>1 DEF Sign!Refreshed, Sign!Issue
  <2>2. SignTyped'
    <3>1. call' \in [Fetches -> Sign!CallState]
      <4> SUFFICES ASSUME NEW c \in Fetches
                   PROVE  [call[c] EXCEPT !.at = "resent", !.token = t] \in Sign!CallState
          BY <2>1 DEF Sign!Resend, SignInv, SignTyped
      <4>1. call[c] \in Sign!CallState
          BY DEF SignInv, SignTyped
      <4>q. QED
          BY <4>1 DEF Sign!CallState
    <3>2. owner' \in [Sign!Tokens -> Users \cup {None}]
        BY <2>1 DEF SignInv, SignTyped
    <3>q. QED
        BY <2>1, <3>1, <3>2 DEF SignInv, SignTyped
  <2>3. t # None
      BY DEF Sign!SignInAssumption
  <2>4. \A c \in Fetches : Sign!Under(c)' =>
            Sign!Under(c) /\ call'[c].by = call[c].by /\ call'[c].token \in {t, call[c].token}
      BY <2>1 DEF Sign!Resend, Sign!Under, SignInv, SignTyped, Sign!CallState
  <2>5. AllIsTheUsers'
    <3> SUFFICES ASSUME ~crossed PROVE AllIsTheUsers'
        BY <2>1 DEF AllIsTheUsers
    <3>1. token # None /\ user # None /\ login = None /\ owner[refresh] = user
        BY <2>1 DEF SignInv, EmptyIsQuiet, AllIsTheUsers, Sign!NothingUnderWay
    <3>2. owner'[t] = user /\ \A x \in Sign!Tokens : owner[x] = user => owner'[x] = user
        BY <2>1, <3>1 DEF SignInv, SignTyped
    <3>3. \A c \in Fetches : Sign!Under(c)' =>
              call'[c].by = user /\ call'[c].token \in Sign!Tokens /\ owner'[call'[c].token] = user
        BY <2>4, <3>2 DEF SignInv, AllIsTheUsers
    <3>q. QED
        BY <2>1, <3>1, <3>2, <3>3 DEF AllIsTheUsers
  <2>q. QED
      BY <2>1, <2>2, <2>3, <2>5 DEF SignInv, EmptyIsQuiet
<1>2. CASE Sign!RefreshRefused \/ Sign!RefreshLost
  <2>1. Sign!Emptied /\ Sign!DropsWaiting /\ refresh' = None /\ UNCHANGED <<owner, active, login>>
      BY <1>2 DEF Sign!RefreshRefused, Sign!RefreshLost, Sign!RefreshFails, Sign!Unauthorized, Sign!serverVars
  <2>2. call' \in [Fetches -> Sign!CallState]
      BY <2>1 DEF Sign!DropsWaiting, SignInv, SignTyped, Sign!CallState
  <2>3. crossed' \in BOOLEAN
      BY <2>1 DEF Sign!Emptied, SignInv, SignTyped
  <2>4. SignTyped'
      BY <2>1, <2>2, <2>3 DEF Sign!Emptied, SignInv, SignTyped
  <2>q. QED
      BY <2>1, <2>4, EmptiedKeepsInv
<1>q. QED
    BY <1>1, <1>2 DEF Sign!RefreshEnds

LEMMA SigningKeepsInv ==
    ASSUME Sign!SignInAssumption, SignInv,
           Sign!SignOut \/ Sign!NotSignedIn \/ Sign!Reload
           \/ (\E u \in Users : Sign!Submit(u)) \/ \E t \in Sign!Tokens : Sign!SignedIn(t)
    PROVE  SignInv'
<1>1. CASE Sign!SignOut
  <2>1. SignTyped' /\ Sign!Emptied
      BY <1>1 DEF Sign!SignOut, Sign!Emptied, Sign!serverVars, SignInv, SignTyped
  <2>q. QED
      BY <2>1, EmptiedKeepsInv
<1>2. CASE Sign!NotSignedIn \/ \E u \in Users : Sign!Submit(u)
  <2>1. /\ SignTyped' /\ UNCHANGED <<Sign!storeVars, owner, refresh, call, crossed>>
        /\ login' = None \/ token = None
      BY <1>2 DEF Sign!NotSignedIn, Sign!Submit, Sign!Stays, Sign!serverVars, Sign!storeVars, SignInv, SignTyped
  <2>2. \A d \in Fetches : Sign!Under(d)' =>
            Sign!Under(d) /\ call'[d].by = call[d].by /\ call'[d].token = call[d].token
      BY <2>1 DEF Sign!Under
  <2>q. QED
      BY <2>1, <2>2, QuietStep
<1>3. ASSUME NEW t \in Sign!Tokens, Sign!SignedIn(t) PROVE SignInv'
  <2>1. /\ login \in active /\ owner' = [owner EXCEPT ![t] = login] /\ token' = t /\ user' = login
        /\ login' = None /\ crossed' = (crossed /\ ~Sign!NothingUnderWay)
        /\ UNCHANGED <<call, refresh, active>>
      BY <1>3 DEF Sign!SignedIn, Sign!Issue, Sign!SetsSession
  <2>2. SignTyped' /\ t # None /\ login # None
      BY <2>1 DEF Sign!SignInAssumption, SignInv, SignTyped
\* Who signs in without having left anything under way has nothing under way.
  <2>3. ~crossed' => Sign!NothingUnderWay
      BY <2>1, <2>2 DEF SignInv, EmptyIsQuiet, AllIsTheUsers
  <2>4. AllIsTheUsers'
      BY <2>1, <2>2, <2>3 DEF SignInv, SignTyped, AllIsTheUsers, Sign!NothingUnderWay, Sign!Under
  <2>q. QED
      BY <2>1, <2>2, <2>4 DEF SignInv, EmptyIsQuiet
<1>4. CASE Sign!Reload
  <2>1. /\ refresh' = None /\ \A c \in Fetches : ~Sign!Under(c)'
        /\ login' = None /\ UNCHANGED <<token, user, owner>>
        /\ crossed' = (crossed /\ token # None)
      BY <1>4 DEF Sign!Reload, Sign!storeVars, Sign!serverVars, Sign!Under, SignInv, SignTyped, Sign!CallState
  <2>2. SignTyped'
      BY <1>4, <2>1 DEF Sign!Reload, Sign!serverVars, SignInv, SignTyped, Sign!CallState
  <2>3. EmptyIsQuiet' /\ AllIsTheUsers'
      BY <2>1 DEF SignInv, EmptyIsQuiet, AllIsTheUsers, Sign!NothingUnderWay
  <2>q. QED
      BY <2>2, <2>3 DEF SignInv
<1>q. QED
    BY <1>1, <1>2, <1>3, <1>4

LEMMA ElsewhereKeepsInv ==
    ASSUME Sign!SignInAssumption, SignInv,
           \/ UNCHANGED Sign!vars
           \/ \E t \in Sign!Tokens : Sign!Expire(t) \/ Sign!ExpireRefresh(t)
           \/ \E u \in Users : Sign!Deactivate(u)
    PROVE  SignInv'
<1>1. UNCHANGED <<Sign!storeVars, owner, call, refresh, login, crossed>> /\ active' \subseteq active
    BY DEF Sign!vars, Sign!Expire, Sign!ExpireRefresh, Sign!Deactivate, Sign!Stays, Sign!serverVars
<1>2. SignTyped'
    BY <1>1 DEF Sign!storeVars, SignInv, SignTyped
<1>3. \A d \in Fetches : Sign!Under(d)' =>
          Sign!Under(d) /\ call'[d].by = call[d].by /\ call'[d].token = call[d].token
    BY <1>1 DEF Sign!Under
<1>q. QED
    BY <1>1, <1>2, <1>3, QuietStep

LEMMA SignNext == ASSUME Sign!SignInAssumption, SignInv, [Sign!Next]_(Sign!vars) PROVE SignInv'
    BY CallKeepsInv, RefreshKeepsInv, SigningKeepsInv, ElsewhereKeepsInv DEF Sign!Next

-----------------------------------------------------------------------------
(* Signing out *)

\* A first try bears a token that was issued, and a second try another one.
TriesAnew ==
    /\ token # None => owner[token] # None
    /\ \A c \in Fetches :
        /\ Sign!Under(c) => call[c].first \in Sign!Tokens /\ owner[call[c].first] # None
        /\ call[c].at = "resent" => call[c].token # call[c].first

LEMMA SignTypeStays ==
    ASSUME Sign!SignInAssumption, Sign!TypeOK, [Sign!Next]_(Sign!vars)
    PROVE  Sign!TypeOK'
<1> USE DEF Sign!TypeOK
<1> None \notin Sign!Tokens /\ None \notin Users
    BY DEF Sign!SignInAssumption
<1>1. CASE UNCHANGED Sign!vars
    BY <1>1 DEF Sign!vars, Sign!storeVars, Sign!serverVars
<1>2. ASSUME NEW c \in Fetches, Sign!Start(c) \/ Sign!Replied(c) PROVE Sign!TypeOK'
  <2> USE DEF Sign!CallState
  <2>1. call[c] \in Sign!CallState
      OBVIOUS
  <2>2. CASE Sign!Start(c)
      BY <2>1, <2>2 DEF Sign!Start, Sign!Stays, Sign!storeVars, Sign!serverVars
  <2>3. CASE Sign!WaitsForRefresh(c)
      BY <2>1, <2>3 DEF Sign!WaitsForRefresh, Sign!Shares, Sign!Stays, Sign!storeVars, Sign!serverVars
  <2>4. CASE Sign!Answered(c)
      BY <2>1, <2>4 DEF Sign!Answered, Sign!Ended, Sign!Stays, Sign!storeVars, Sign!serverVars
  <2>5. CASE Sign!NothingToRefresh(c) \/ Sign!GivesUp(c)
    <3>1. crossed' \in BOOLEAN
        BY <2>5, Zenon DEF Sign!NothingToRefresh, Sign!GivesUp, Sign!Unauthorized, Sign!Emptied
    <3>2. call' \in [Fetches -> Sign!CallState]
        BY <2>1, <2>5 DEF Sign!NothingToRefresh, Sign!GivesUp, Sign!Ended
    <3>3. token' = None /\ user' = None /\ leaving' = TRUE /\ UNCHANGED <<refresh, Sign!serverVars, login,
    faults>>
        BY <2>5 DEF Sign!NothingToRefresh, Sign!GivesUp, Sign!Unauthorized, Sign!Emptied
    <3>q. QED
        BY <3>1, <3>2, <3>3 DEF Sign!serverVars
  <2>q. QED
      BY <1>2, <2>2, <2>3, <2>4, <2>5 DEF Sign!Replied
<1>3. ASSUME NEW t \in Sign!Tokens, Sign!Refreshed(t) PROVE Sign!TypeOK'
  <2>1. owner[refresh] \in Users \cup {None}
      BY <1>3 DEF Sign!Refreshed
  <2>2. call' \in [Fetches -> Sign!CallState]
    <3> SUFFICES ASSUME NEW c \in Fetches
                 PROVE  [call[c] EXCEPT !.at = "resent", !.token = t] \in Sign!CallState
        BY <1>3 DEF Sign!Refreshed, Sign!Resend
    <3> call[c] \in Sign!CallState
        OBVIOUS
    <3>q. QED
        BY DEF Sign!CallState
  <2>q. QED
      BY <1>3, <2>1, <2>2 DEF Sign!Refreshed, Sign!Issue
<1>4. CASE Sign!RefreshRefused \/ Sign!RefreshLost
  <2>1. call' \in [Fetches -> Sign!CallState]
      BY <1>4 DEF Sign!RefreshRefused, Sign!RefreshLost, Sign!RefreshFails, Sign!DropsWaiting, Sign!CallState
  <2>2. faults' \in 0 .. MaxFaults
      BY <1>4 DEF Sign!RefreshRefused, Sign!RefreshLost, Sign!SignInAssumption
  <2>q. QED
      BY <1>4, <2>1, <2>2 DEF Sign!RefreshRefused, Sign!RefreshLost, Sign!RefreshFails, Sign!Unauthorized,
                              Sign!Emptied, Sign!serverVars
<1>5. ASSUME NEW t \in Sign!Tokens, Sign!SignedIn(t) PROVE Sign!TypeOK'
    BY <1>5 DEF Sign!SignedIn, Sign!Issue, Sign!SetsSession
<1>6. CASE Sign!SignOut
    BY <1>6 DEF Sign!SignOut, Sign!Emptied, Sign!serverVars
<1>7. CASE Sign!Reload
  <2>1. call' \in [Fetches -> Sign!CallState]
      BY <1>7 DEF Sign!Reload, Sign!CallState
  <2>q. QED
      BY <1>7, <2>1 DEF Sign!Reload, Sign!storeVars, Sign!serverVars
<1>8. CASE Sign!NotSignedIn
    BY <1>8 DEF Sign!NotSignedIn, Sign!Stays, Sign!storeVars, Sign!serverVars
<1>9. ASSUME NEW u \in Users, Sign!Submit(u) \/ Sign!Deactivate(u) PROVE Sign!TypeOK'
    BY <1>9 DEF Sign!Submit, Sign!Deactivate, Sign!Stays, Sign!storeVars, Sign!serverVars
<1>10. ASSUME NEW t \in Sign!Tokens, Sign!Expire(t) \/ Sign!ExpireRefresh(t) PROVE Sign!TypeOK'
    BY <1>10 DEF Sign!Expire, Sign!ExpireRefresh, Sign!Stays, Sign!storeVars
<1>q. QED
    BY <1>1, <1>2, <1>3, <1>4, <1>5, <1>6, <1>7, <1>8, <1>9, <1>10 DEF Sign!Next, Sign!RefreshEnds

\* Steps that end calls, or none, and issue nothing.
LEMMA EndedTriesAnew ==
    ASSUME TriesAnew, token' \in {token, None}, owner' = owner,
           \A c \in Fetches : call'[c] = call[c] \/ call'[c].at = "done"
    PROVE  TriesAnew'
    BY DEF TriesAnew, Sign!Under

LEMMA TriesAnewStays ==
    ASSUME Sign!SignInAssumption, Sign!TypeOK, TriesAnew, [Sign!Next]_(Sign!vars)
    PROVE  TriesAnew'
<1> USE DEF Sign!TypeOK
<1> None \notin Sign!Tokens /\ None \notin Users
    BY DEF Sign!SignInAssumption
<1>1. CASE UNCHANGED Sign!vars
    BY <1>1, EndedTriesAnew DEF Sign!vars, Sign!storeVars, Sign!serverVars
<1>2. ASSUME NEW c \in Fetches, Sign!Start(c) PROVE TriesAnew'
    BY <1>2 DEF Sign!Start, Sign!Stays, Sign!storeVars, Sign!serverVars, TriesAnew, Sign!Under
<1>3. ASSUME NEW c \in Fetches, Sign!WaitsForRefresh(c) PROVE TriesAnew'
    BY <1>3 DEF Sign!WaitsForRefresh, Sign!Refused, Sign!Stays, Sign!storeVars, Sign!serverVars, Sign!CallState,
                TriesAnew, Sign!Under
<1>4. ASSUME NEW c \in Fetches, Sign!Answered(c) \/ Sign!NothingToRefresh(c) \/ Sign!GivesUp(c) PROVE TriesAnew'
    BY <1>4, EndedTriesAnew
       DEF Sign!Answered, Sign!NothingToRefresh, Sign!GivesUp, Sign!Ended, Sign!Unauthorized, Sign!Emptied,
           Sign!Stays, Sign!storeVars, Sign!serverVars, Sign!CallState
<1>5. ASSUME NEW t \in Sign!Tokens, Sign!Refreshed(t) PROVE TriesAnew'
  <2>1. /\ owner[t] = None /\ owner' = [owner EXCEPT ![t] = owner[refresh]] /\ owner'[t] # None /\ token' = t
        /\ \A x \in Sign!Tokens : owner[x] # None => owner'[x] # None
      BY <1>5 DEF Sign!Refreshed, Sign!Issue
  <2>2. \A c \in Fetches : \/ call'[c] = call[c] /\ call[c].at # "waits"
                         \/ /\ Sign!Under(c) /\ call'[c].at = "resent" /\ call'[c].token = t
                            /\ call'[c].first = call[c].first
      BY <1>5 DEF Sign!Refreshed, Sign!Resend, Sign!Under, Sign!CallState
  <2>q. QED
      BY <2>1, <2>2 DEF TriesAnew, Sign!Under
<1>6. CASE Sign!RefreshRefused \/ Sign!RefreshLost
    BY <1>6, EndedTriesAnew
       DEF Sign!RefreshRefused, Sign!RefreshLost, Sign!RefreshFails, Sign!DropsWaiting, Sign!Unauthorized,
           Sign!Emptied, Sign!serverVars, Sign!CallState
<1>7. ASSUME NEW t \in Sign!Tokens, Sign!SignedIn(t) PROVE TriesAnew'
    BY <1>7 DEF Sign!SignedIn, Sign!Issue, Sign!SetsSession, TriesAnew, Sign!Under
<1>8. CASE Sign!SignOut \/ Sign!Reload \/ Sign!NotSignedIn
    BY <1>8, EndedTriesAnew
       DEF Sign!SignOut, Sign!Reload, Sign!NotSignedIn, Sign!Emptied, Sign!Stays, Sign!storeVars,
           Sign!serverVars,
           Sign!CallState
<1>9. ASSUME NEW u \in Users, Sign!Submit(u) \/ Sign!Deactivate(u) PROVE TriesAnew'
    BY <1>9, EndedTriesAnew DEF Sign!Submit, Sign!Deactivate, Sign!Stays, Sign!storeVars, Sign!serverVars
<1>10. ASSUME NEW t \in Sign!Tokens, Sign!Expire(t) \/ Sign!ExpireRefresh(t) PROVE TriesAnew'
    BY <1>10, EndedTriesAnew DEF Sign!Expire, Sign!ExpireRefresh, Sign!Stays, Sign!storeVars
<1>q. QED
    BY <1>1, <1>2, <1>3, <1>4, <1>5, <1>6, <1>7, <1>8, <1>9, <1>10 DEF Sign!Next, Sign!RefreshEnds, Sign!Replied

\* Of the steps that leave for /login each has its cause; a second try that is
\* refused, and not gated, has seen its new token expire.
LEMMA LeavesForACause ==
    ASSUME Sign!SignInAssumption, Sign!TypeOK, TriesAnew, [Sign!Next]_(Sign!vars)
    PROVE  Sign!SignsOutForACause
<1> SUFFICES ASSUME leaving = FALSE, leaving' = TRUE
             PROVE  Sign!SignsOutForACause
    BY DEF Sign!TypeOK, Sign!SignsOutForACause
<1>1. ASSUME NEW c \in Fetches, Sign!NothingToRefresh(c) PROVE Sign!SignsOutForACause
    BY <1>1 DEF Sign!NothingToRefresh, Sign!SignsOutForACause
<1>2. ASSUME NEW c \in Fetches, Sign!GivesUp(c) PROVE Sign!SignsOutForACause
  <2>1. call[c].at = "resent" /\ call'[c].at = "done" /\ (~Sign!Valid(c) \/ c \in Gated)
      BY <1>2 DEF Sign!GivesUp, Sign!Refused, Sign!Ended, Sign!TypeOK, Sign!CallState
  <2>2. call[c].token # call[c].first
      BY <2>1 DEF TriesAnew
  <2>q. QED
      BY <2>1, <2>2 DEF Sign!SignsOutForACause
<1>3. CASE Sign!RefreshRefused
    BY <1>3 DEF Sign!RefreshRefused, Sign!RefreshFails, Sign!SignsOutForACause
<1>4. CASE Sign!RefreshLost
  <2>1. faults' > faults
      BY <1>4 DEF Sign!RefreshLost, Sign!TypeOK, Sign!SignInAssumption
  <2>q. QED
      BY <1>4, <2>1 DEF Sign!RefreshLost, Sign!RefreshFails, Sign!SignsOutForACause
<1>5. ~UNCHANGED Sign!vars
    BY DEF Sign!vars
<1>6. \/ Sign!RefreshRefused \/ Sign!RefreshLost
      \/ \E c \in Fetches : Sign!NothingToRefresh(c) \/ Sign!GivesUp(c)
    BY <1>5 DEF Sign!Next, Sign!RefreshEnds, Sign!Replied, Sign!Start, Sign!Answered, Sign!WaitsForRefresh,
                Sign!Refreshed, Sign!SignOut, Sign!NotSignedIn, Sign!Reload, Sign!Submit, Sign!Deactivate,
                Sign!SignedIn, Sign!Expire, Sign!ExpireRefresh, Sign!Stays
<1>q. QED
    BY <1>1, <1>2, <1>3, <1>4, <1>6


-----------------------------------------------------------------------------
(* The console: requests, tickets and the cookie *)

\* A ticket that is on its way to the browser, or back from it.
Carries(m) == m.kind = "enter" \/ (m.kind = "ticket" /\ m.status = "ok")

\* A ticket travels once: no other request and no cookie names it until it has
\* been taken.
IdsAreFresh ==
    /\ cookie # None => life[cookie] # "unissued"
    /\ \A m \in calls :
        /\ m.id # None => life[m.id] # "unissued"
        /\ Carries(m) => m.id \in Tickets /\ cookie # m.id /\ \A n \in calls : n.id = m.id => n = m

Asks(m, kind, status) == m.kind = kind /\ m.status = status /\ m.id = frame

\* The frame's session is open from the time its request is answered; while nothing
\* has spoilt it the request is under way, or the cookie names the session and
\* nobody has ended it but a request whose answer is to come.
FrameHolds ==
    view = "connected" =>
        /\ frame \in Tickets
        /\ "server" \notin spoilt /\ (\E m \in calls : Asks(m, "enter", "ok")) => Console!Open(frame)
        /\ spoilt = {} =>
            \/ \E m \in calls : m.kind = "enter" /\ m.id = frame
            \/ cookie = frame /\ (Console!Open(frame) \/ \E m \in calls : Asks(m, "end", "ok"))

\* Only what was opened has a row, and only what is closed has an end.
RowsFollow ==
    /\ \A s \in ending : life[s] = "closed"
    /\ \A s \in Tickets : audit[s] # "none" => Console!Open(s) \/ life[s] = "closed"
    /\ Console!AuditTells

ConsoleInv == Console!TypeOK /\ IdsAreFresh /\ FrameHolds /\ RowsFollow

LEMMA ConsoleInit == ASSUME Console!ConsoleAssumption PROVE Console!Init => ConsoleInv
    BY DEF Console!ConsoleAssumption, Console!Init, ConsoleInv, Console!TypeOK, Console!Life, IdsAreFresh,
           FrameHolds,
           RowsFollow, Console!AuditTells

LEMMA UsesOne ==
    ASSUME Console!TypeOK, NEW what \in {"visits", "presses", "conns", "faults"}, Console!Uses(what)
    PROVE  left' \in [{"visits", "presses", "conns", "faults"} -> Nat]
    BY DEF Console!TypeOK, Console!Uses

\* No ticket becomes unissued.
Issued == \A s \in Tickets : life[s] # "unissued" => life'[s] # "unissued"

\* A request that takes the place of another, and names the same ticket.
LEMMA FreshAfterAnswer ==
    ASSUME Console!ConsoleAssumption, Console!TypeOK, IdsAreFresh, Issued, NEW m \in calls, NEW n,
           calls' = (calls \ {m}) \cup {n}, n.id = m.id, Carries(n) => Carries(m), cookie' = cookie
    PROVE  IdsAreFresh'
<1>1. \A a \in calls : a.id \in Tickets \cup {None}
    BY DEF Console!TypeOK, Console!Call
<1>2. \A a \in calls' : a.id # None => life'[a.id] # "unissued"
    BY <1>1 DEF IdsAreFresh, Issued
<1>3. cookie' # None => life'[cookie'] # "unissued"
    BY DEF IdsAreFresh, Issued, Console!TypeOK
<1>4. ASSUME NEW a \in calls', Carries(a) PROVE a.id \in Tickets /\ cookie' # a.id
    BY <1>4 DEF IdsAreFresh, Carries
<1>5. ASSUME NEW a \in calls', Carries(a), NEW b \in calls', b.id = a.id PROVE b = a
    BY <1>5 DEF IdsAreFresh
<1>q. QED
    BY <1>2, <1>3, <1>4, <1>5 DEF IdsAreFresh, Carries

\* A request that carries no ticket.
LEMMA FreshAfterRequest ==
    ASSUME Console!ConsoleAssumption, Console!TypeOK, IdsAreFresh, Issued, NEW n,
           calls' \subseteq calls \cup {n}, n.id \in {cookie, None}, ~Carries(n), cookie' = cookie
    PROVE  IdsAreFresh'
<1>1. cookie \in Tickets \cup {None} /\ None \notin Tickets /\ \A a \in calls : a.id \in Tickets \cup {None}
    BY DEF Console!ConsoleAssumption, Console!TypeOK, Console!Call
<1>2. \A a \in calls' : a.id # None => life'[a.id] # "unissued"
    BY <1>1 DEF IdsAreFresh, Issued
<1>3. cookie' # None => life'[cookie'] # "unissued"
    BY <1>1 DEF IdsAreFresh, Issued
<1>4. ASSUME NEW a \in calls', Carries(a) PROVE a \in calls /\ a.id \in Tickets /\ cookie' # a.id
    BY <1>4 DEF IdsAreFresh, Carries
<1>5. ASSUME NEW a \in calls', Carries(a), NEW b \in calls', b.id = a.id PROVE b = a
    BY <1>1, <1>4, <1>5 DEF IdsAreFresh
<1>q. QED
    BY <1>2, <1>3, <1>4, <1>5 DEF IdsAreFresh, Carries

\* A request that is over may have left its ticket in the cookie.
LEMMA FreshAfterEnd ==
    ASSUME Console!ConsoleAssumption, Console!TypeOK, IdsAreFresh, Issued, NEW m \in calls,
           calls' = calls \ {m}, cookie' \in {cookie, None} \/ (Carries(m) /\ cookie' = m.id)
    PROVE  IdsAreFresh'
<1>1. None \notin Tickets /\ cookie \in Tickets \cup {None} /\ \A a \in calls : a.id \in Tickets \cup {None}
    BY DEF Console!ConsoleAssumption, Console!TypeOK, Console!Call
<1>2. \A a \in calls' : a.id # None => life'[a.id] # "unissued"
    BY <1>1 DEF IdsAreFresh, Issued
<1>3. cookie' # None => life'[cookie'] # "unissued"
    BY <1>1 DEF IdsAreFresh, Issued
<1>4. ASSUME NEW a \in calls', Carries(a) PROVE a.id \in Tickets /\ cookie' # a.id
    BY <1>1, <1>4 DEF IdsAreFresh
<1>5. ASSUME NEW a \in calls', Carries(a), NEW b \in calls', b.id = a.id PROVE b = a
    BY <1>5 DEF IdsAreFresh
<1>q. QED
    BY <1>2, <1>3, <1>4, <1>5 DEF IdsAreFresh, Carries

\* A step that opens and answers nothing for the frame.
LEMMA FrameStays ==
    ASSUME FrameHolds, view' = "connected" => view = "connected" /\ frame' = frame, spoilt \subseteq spoilt',
           cookie' = cookie \/ "cookie" \in spoilt',
           \A s \in Tickets : Console!Open(s) => Console!Open(s)',
           \A m \in calls' : m.kind = "enter" /\ m.status = "ok" => m \in calls,
           \A m \in calls : \/ m.kind = "enter" => \E n \in calls' : n.kind = "enter" /\ n.id = m.id
                            \/ spoilt' # {} \/ m.id # frame,
           \A m \in calls : m.kind = "end" /\ m.status = "ok" => m \in calls' \/ spoilt' # {}
    PROVE  FrameHolds'
<1> SUFFICES ASSUME view' = "connected"
             PROVE  FrameHolds'
    BY DEF FrameHolds
<1>1. frame' = frame /\ frame \in Tickets
    BY DEF FrameHolds
<1>2. "server" \notin spoilt' /\ (\E m \in calls' : Asks(m, "enter", "ok")') => Console!Open(frame)'
    BY <1>1 DEF FrameHolds, Asks
<1>3. ASSUME spoilt' = {}
      PROVE  \/ \E m \in calls' : m.kind = "enter" /\ m.id = frame
             \/ cookie' = frame /\ (Console!Open(frame)' \/ \E m \in calls' : Asks(m, "end", "ok"))
  <2>1. spoilt = {} /\ cookie' = cookie
      BY <1>3
  <2>q. QED
      BY <1>3, <2>1 DEF FrameHolds, Asks
<1>q. QED
    BY <1>1, <1>2, <1>3 DEF FrameHolds, Asks

-----------------------------------------------------------------------------
(* One lemma for what the user does, one for what the server answers, one for what *)
(* the browser makes of it, and one for the rest.                                  *)

LEMMA UserKeepsConsole ==
    ASSUME Console!ConsoleAssumption, ConsoleInv,
           Console!Visit \/ Console!Reopen \/ Console!Leave \/ Console!PressTab \/ Console!PressEnd
    PROVE  ConsoleInv'
<1> USE DEF ConsoleInv
<1> DEFINE n(kind, id, tab, press) == Console!Request(kind, id, tab, press)
<1>1. /\ life' = life /\ audit' = audit /\ ending' = ending /\ unended' = unended /\ conn' = conn
      /\ cookie' = cookie /\ spoilt' = spoilt
    BY DEF Console!Visit, Console!Reopen, Console!Leave, Console!PressTab, Console!PressEnd,
           Console!OpenSession,
           Console!TypeOK, Console!pageVars, Console!rowVars
<1>2. visit' \in Nat
  <2>1. visit' = visit \/ visit' = visit + 1
      BY DEF Console!Visit, Console!Reopen, Console!Leave, Console!PressTab, Console!PressEnd, Console!pageVars
  <2>2. visit \in Nat
      BY DEF Console!TypeOK
  <2>q. QED
      BY <2>1, <2>2
<1>3. left' \in [{"visits", "presses", "conns", "faults"} -> Nat]
    BY UsesOne DEF Console!Visit, Console!Reopen, Console!Leave, Console!PressTab, Console!PressEnd,
                   Console!TypeOK
<1>4. PICK kind \in {"ticket", "end"}, id \in {None, cookie}, tab \in BOOLEAN, press \in BOOLEAN :
        calls' = calls \cup {n(kind, id, tab, press)}
    BY DEF Console!Visit, Console!Reopen, Console!Leave, Console!PressTab, Console!PressEnd,
           Console!OpenSession,
           Console!Adds
<1>5. n(kind, id, tab, press) \in Console!Call
    BY <1>4, <1>2 DEF Console!Request, Console!Call, Console!TypeOK
<1>6. /\ view' \in {"away", "connecting", "connected", "closed"} /\ frame' \in Tickets \cup {None}
      /\ view' = "connected" => view = "connected" /\ frame' = frame
    BY DEF Console!Visit, Console!Reopen, Console!Leave, Console!PressTab, Console!PressEnd,
           Console!OpenSession,
           Console!TypeOK, Console!pageVars
<1>7. Console!TypeOK'
    BY <1>1, <1>4, <1>5, <1>6, <1>2, <1>3 DEF Console!TypeOK
<1>8. PICK r \in {n(kind, id, tab, press)} :
          calls' = calls \cup {r} /\ r.kind = kind /\ r.id = id /\ r.status = "sent"
    BY <1>4 DEF Console!Request
<1>9. IdsAreFresh'
    BY <1>1, <1>8, FreshAfterRequest DEF Carries, Issued
<1>10. FrameHolds'
    BY <1>1, <1>8, <1>6, FrameStays DEF Console!Open
<1>11. RowsFollow'
    BY <1>1 DEF RowsFollow, Console!AuditTells, Console!Open
<1>q. QED
    BY <1>7, <1>9, <1>10, <1>11

LEMMA ServerKeepsConsole ==
    ASSUME Console!ConsoleAssumption, ConsoleInv, NEW m \in calls, Console!Served(m)
    PROVE  ConsoleInv'
<1> USE DEF ConsoleInv
<1> None \notin Tickets
    BY DEF Console!ConsoleAssumption
<1>0. /\ m \in Console!Call /\ m.status = "sent"
      /\ UNCHANGED <<view, frame, visit, cookie, conn, spoilt>>
    BY DEF Console!Served, Console!IssueTicket, Console!IssueFails, Console!Enter, Console!EnterRefused,
           Console!EndSession, Console!EndRefused, Console!Serve, Console!TypeOK, Console!pageVars
<1>6. left' \in [{"visits", "presses", "conns", "faults"} -> Nat]
    BY UsesOne DEF Console!Served, Console!IssueTicket, Console!IssueFails, Console!Enter, Console!EnterRefused,
                   Console!EndSession, Console!EndRefused, Console!Fault, Console!TypeOK
<1>1. ASSUME NEW t \in Tickets, Console!IssueTicket(m, t) PROVE ConsoleInv'
  <2> DEFINE n == [m EXCEPT !.status = "ok", !.id = t]
  <2>1. /\ n \in Console!Call /\ n.kind = "ticket" /\ n.id = t /\ n.status = "ok"
        /\ calls' = (calls \ {m}) \cup {n}
        /\ life[t] = "unissued" /\ life' = [life EXCEPT ![t] = "ticket"] /\ UNCHANGED Console!rowVars
      BY <1>0, <1>1 DEF Console!IssueTicket, Console!Serve, Console!Becomes, Console!Call
  <2> HIDE DEF n
  <2>2. Console!TypeOK'
      BY <1>0, <1>6, <2>1 DEF Console!TypeOK, Console!Life, Console!rowVars
  <2>3. IdsAreFresh'
      BY <1>0, <2>1 DEF IdsAreFresh, Carries, Console!TypeOK, Console!Call
  <2>4. FrameHolds'
      BY <1>0, <1>1, <2>1, FrameStays DEF Console!IssueTicket, Console!Serve, Console!Open, Console!TypeOK
  <2>5. RowsFollow'
      BY <2>1 DEF RowsFollow, Console!AuditTells, Console!Open, Console!rowVars, Console!TypeOK
  <2>q. QED
      BY <2>2, <2>3, <2>4, <2>5
<1>2. ASSUME NEW status \in {"refused", "lost"}, Console!Answers(m, status),
             m.kind # "enter" \/ status = "refused",
             UNCHANGED <<life, Console!rowVars>>
      PROVE  ConsoleInv'
  <2> DEFINE n == [m EXCEPT !.status = status]
  <2>1. /\ n \in Console!Call /\ n.kind = m.kind /\ n.id = m.id /\ n.status = status
        /\ calls' = (calls \ {m}) \cup {n}
      BY <1>0, <1>2 DEF Console!Answers, Console!Becomes, Console!Call
  <2> HIDE DEF n
  <2>2. Console!TypeOK'
      BY <1>0, <1>6, <1>2, <2>1 DEF Console!TypeOK, Console!rowVars
  <2>3. IdsAreFresh'
      BY <1>0, <1>2, <2>1, FreshAfterAnswer DEF Issued, Carries
  <2>4. FrameHolds'
      BY <1>0, <1>2, <2>1, FrameStays DEF Console!Open
  <2>5. RowsFollow'
      BY <1>2 DEF RowsFollow, Console!AuditTells, Console!Open, Console!rowVars
  <2>q. QED
      BY <2>2, <2>3, <2>4, <2>5
<1>3. CASE Console!Enter(m)
  <2> DEFINE n == [m EXCEPT !.status = "ok"]
  <2>1. /\ n \in Console!Call /\ n.kind = "enter" /\ n.id = m.id /\ n.status = "ok" /\ m.kind = "enter"
        /\ calls' = (calls \ {m}) \cup {n} /\ m.id \in Tickets
        /\ life[m.id] = "ticket" /\ life' = [life EXCEPT ![m.id] = "open"]
        /\ audit' = [audit EXCEPT ![m.id] = "open"] \/ audit' = audit
        /\ ending' = ending /\ unended' = unended
      BY <1>0, <1>3 DEF Console!Enter, Console!Serve, Console!Answers, Console!Becomes, Console!Call,
                        IdsAreFresh,
                        Carries
  <2> HIDE DEF n
  <2>2. Console!TypeOK'
      BY <1>0, <1>6, <2>1 DEF Console!TypeOK, Console!Life
  <2>3. IdsAreFresh'
      BY <1>0, <2>1, FreshAfterAnswer DEF Issued, Carries, Console!TypeOK
  <2>4. FrameHolds'
    <3> SUFFICES ASSUME view' = "connected"
                 PROVE  FrameHolds'
        BY DEF FrameHolds
    <3>1. \A s \in Tickets : Console!Open(s) => Console!Open(s)'
        BY <2>1 DEF Console!Open, Console!TypeOK
    <3>2. frame = m.id => Console!Open(frame)'
        BY <1>0, <2>1 DEF Console!Open, Console!TypeOK
    <3>q. QED
        BY <1>0, <2>1, <3>1, <3>2 DEF FrameHolds, Asks
  <2>5. RowsFollow'
      BY <2>1 DEF RowsFollow, Console!AuditTells, Console!Open, Console!TypeOK
  <2>q. QED
      BY <2>2, <2>3, <2>4, <2>5
<1>4. CASE Console!EndSession(m)
  <2> DEFINE n == [m EXCEPT !.status = "ok"]
  <2>1. /\ n \in Console!Call /\ n.kind = "end" /\ n.id = m.id /\ n.status = "ok" /\ m.kind = "end"
        /\ calls' = (calls \ {m}) \cup {n} /\ m.id \in Tickets /\ Console!Open(m.id)
        /\ life' = [s \in Tickets |-> IF s = m.id THEN "closed" ELSE life[s]]
        /\ ending' = ending \cup {m.id} /\ audit' = audit /\ unended' = unended
      BY <1>0, <1>4 DEF Console!EndSession, Console!Serve, Console!Answers, Console!Becomes, Console!Closes,
                        Console!Call
  <2> HIDE DEF n
  <2>2. Console!TypeOK'
      BY <1>0, <1>6, <2>1 DEF Console!TypeOK, Console!Life
  <2>3. IdsAreFresh'
      BY <1>0, <2>1, FreshAfterAnswer DEF Issued, Carries
  <2>4. FrameHolds'
    <3> SUFFICES ASSUME view' = "connected"
                 PROVE  FrameHolds'
        BY DEF FrameHolds
    <3>1. \A s \in Tickets : s # m.id => (Console!Open(s) <=> Console!Open(s)')
        BY <2>1 DEF Console!Open
    <3>2. frame = m.id => ~\E a \in calls : a.kind = "enter" /\ a.id = frame
        BY <2>1 DEF IdsAreFresh, Carries
    <3>q. QED
        BY <1>0, <2>1, <3>1, <3>2 DEF FrameHolds, Asks
  <2>5. RowsFollow'
      BY <2>1 DEF RowsFollow, Console!AuditTells, Console!Open, Console!TypeOK
  <2>q. QED
      BY <2>2, <2>3, <2>4, <2>5
<1>5. CASE Console!IssueFails(m) \/ Console!EnterRefused(m) \/ Console!EndRefused(m)
    BY <1>2, <1>5 DEF Console!IssueFails, Console!EnterRefused, Console!EndRefused, Console!Serve
<1>q. QED
    BY <1>1, <1>3, <1>4, <1>5 DEF Console!Served

LEMMA BrowserKeepsConsole ==
    ASSUME Console!ConsoleAssumption, ConsoleInv, NEW m \in calls, Console!Received(m)
    PROVE  ConsoleInv'
<1> USE DEF ConsoleInv
<1> None \notin Tickets
    BY DEF Console!ConsoleAssumption
<1>0. /\ m \in Console!Call /\ UNCHANGED <<visit, life, audit, ending, unended, conn, left>>
      /\ Carries(m) => m.id \in Tickets
    BY DEF Console!Received, Console!Connected, Console!TabOpened, Console!TicketLost, Console!Entered,
           Console!EnteredLate, Console!NotEntered, Console!SessionEnded, Console!EndLost, Console!EndAgain,
           Console!SignedOut, Console!Receive, Console!TypeOK, Console!rowVars, IdsAreFresh
<1>1. RowsFollow' /\ Issued /\ \A s : Console!Open(s)' <=> Console!Open(s)
    BY <1>0 DEF RowsFollow, Console!AuditTells, Console!Open, Issued
<1>2. /\ view' \in {"away", "connecting", "connected", "closed"} /\ frame' \in Tickets \cup {None}
      /\ cookie' \in Tickets \cup {None} /\ spoilt' \subseteq {"cookie", "server"}
    BY <1>0 DEF Console!Received, Console!Connected, Console!TabOpened, Console!TicketLost, Console!Entered,
           Console!EnteredLate, Console!NotEntered, Console!SessionEnded, Console!EndLost, Console!EndAgain,
           Console!SignedOut, Console!Receive, Console!TypeOK, Console!SetsCookie, Console!ClosesCard,
           Console!Call,
           Carries
<1>3. ASSUME Console!Done(m) PROVE Console!TypeOK'
    BY <1>0, <1>2, <1>3 DEF Console!TypeOK, Console!Done
<1>4. CASE (Console!Connected(m) /\ Console!Shown(m)) \/ Console!TabOpened(m)
  <2>1. PICK n \in {Console!Request("enter", m.id, m.tab, m.tab)} :
          /\ calls' = (calls \ {m}) \cup {n} /\ n.kind = "enter" /\ n.id = m.id /\ n.status = "sent"
          /\ n \in Console!Call /\ m.kind = "ticket" /\ Carries(m)
      BY <1>0, <1>4 DEF Console!Connected, Console!TabOpened, Console!Receive, Console!Becomes, Console!Request,
                        Console!Call, Carries, Console!TypeOK
  <2>2. Console!TypeOK'
      BY <1>0, <1>2, <2>1 DEF Console!TypeOK
  <2>3. IdsAreFresh'
      BY <1>1, <1>4, <2>1, FreshAfterAnswer DEF Console!Connected, Console!TabOpened
  <2>4. FrameHolds'
    <3>1. CASE Console!Connected(m)
        BY <1>0, <1>4, <2>1, <3>1
           DEF Console!Connected, Console!TabOpened, Console!Receive, FrameHolds, Asks, IdsAreFresh, Carries
    <3>2. CASE Console!TabOpened(m)
        BY <1>1, <2>1, <3>2, FrameStays DEF Console!TabOpened
    <3>q. QED
        BY <1>4, <3>1, <3>2
  <2>q. QED
      BY <1>1, <2>2, <2>3, <2>4
<1>5. CASE Console!Connected(m) /\ ~Console!Shown(m)
  <2>1. IdsAreFresh'
      BY <1>1, <1>5, FreshAfterEnd DEF Console!Connected, Console!Done
  <2>2. FrameHolds'
      BY <1>1, <1>5, FrameStays DEF Console!Connected, Console!Receive, Console!Done
  <2>q. QED
      BY <1>1, <1>3, <1>5, <2>1, <2>2 DEF Console!Connected
<1>6. CASE Console!TicketLost(m) \/ Console!NotEntered(m) \/ Console!EndLost(m)
  <2>1. IdsAreFresh'
      BY <1>1, <1>6, FreshAfterEnd DEF Console!TicketLost, Console!NotEntered, Console!EndLost, Console!Done
  <2>2. /\ calls' = calls \ {m} /\ cookie' = cookie /\ spoilt \subseteq spoilt'
        /\ view' = "connected" => view = "connected" /\ frame' = frame
        /\ m.kind = "enter" => spoilt' # {}
        /\ ~(m.kind = "end" /\ m.status = "ok")
      BY <1>6 DEF Console!TicketLost, Console!NotEntered, Console!EndLost, Console!Receive, Console!Done,
                  Console!ClosesCard
  <2>3. FrameHolds'
      BY <1>1, <2>2, FrameStays
  <2>q. QED
      BY <1>1, <1>3, <1>6, <2>1, <2>3 DEF Console!TicketLost, Console!NotEntered, Console!EndLost
<1>7. CASE Console!Entered(m)
  <2>1. /\ cookie' = m.id /\ calls' = calls \ {m} /\ Carries(m) /\ m.kind = "enter" /\ m.status = "ok"
        /\ view' = view /\ frame' = frame
        /\ IF m.tab THEN spoilt' = spoilt \cup {"cookie"} ELSE spoilt' = spoilt \ {"cookie"} /\ frame = m.id
      BY <1>7 DEF Console!Entered, Console!SetsCookie, Console!Receive, Console!Done, Carries
  <2>2. IdsAreFresh'
      BY <1>1, <2>1, FreshAfterEnd
  <2>3. FrameHolds'
    <3>1. CASE m.tab
        BY <1>1, <2>1, <3>1, FrameStays
    <3>2. CASE ~m.tab
        BY <1>1, <2>1, <3>2 DEF FrameHolds, Asks
    <3>q. QED
        BY <3>1, <3>2
  <2>q. QED
      BY <1>1, <1>3, <1>7, <2>2, <2>3 DEF Console!Entered
<1>8. CASE Console!EnteredLate(m)
  <2>1. /\ calls' = calls \ {m} /\ Carries(m) /\ view' = view /\ frame' = frame /\ m.id # frame
        /\ \/ cookie' = m.id /\ spoilt' = spoilt \cup {"cookie"}
           \/ cookie' = cookie /\ spoilt' = spoilt
        /\ m.kind = "enter"
      BY <1>8 DEF Console!EnteredLate, Console!Receive, Console!Done, Carries
  <2>2. IdsAreFresh'
      BY <1>1, <2>1, FreshAfterEnd
  <2>3. FrameHolds'
      BY <1>1, <2>1, FrameStays
  <2>q. QED
      BY <1>1, <1>3, <1>8, <2>2, <2>3 DEF Console!EnteredLate
<1>9. CASE Console!SessionEnded(m)
  <2>1. IdsAreFresh'
      BY <1>1, <1>9, FreshAfterEnd DEF Console!SessionEnded, Console!Done
  <2>2. /\ calls' = calls \ {m} /\ m.kind = "end" /\ spoilt' = spoilt \cup {"cookie"}
        /\ view' = "connected" => view = "connected" /\ frame' = frame
      BY <1>9 DEF Console!SessionEnded, Console!Receive, Console!Done, Console!ClosesCard
  <2>3. FrameHolds'
      BY <1>1, <2>2, FrameStays
  <2>q. QED
      BY <1>1, <1>3, <1>9, <2>1, <2>3 DEF Console!SessionEnded
<1>10. CASE Console!EndAgain(m)
  <2>1. PICK n \in {[m EXCEPT !.status = "sent", !.tries = 2, !.id = cookie]} :
          /\ calls' = (calls \ {m}) \cup {n} /\ n.kind = "end" /\ n.id = cookie /\ n.status = "sent"
          /\ n \in Console!Call /\ m.kind = "end" /\ m.status = "refused"
      BY <1>0, <1>10 DEF Console!EndAgain, Console!Receive, Console!Becomes, Console!Call, Console!TypeOK
  <2>2. Console!TypeOK'
      BY <1>0, <1>2, <2>1 DEF Console!TypeOK
  <2>3. IdsAreFresh'
      BY <1>1, <1>10, <2>1, FreshAfterRequest DEF Console!EndAgain, Carries
  <2>4. FrameHolds'
      BY <1>1, <1>10, <2>1, FrameStays DEF Console!EndAgain
  <2>q. QED
      BY <1>1, <2>2, <2>3, <2>4
<1>11. CASE Console!SignedOut(m)
  <2>1. calls' \subseteq calls /\ cookie' = cookie /\ view' = "away"
      BY <1>11 DEF Console!SignedOut
  <2>2. Console!TypeOK'
      BY <1>0, <1>2, <2>1 DEF Console!TypeOK
  <2>3. IdsAreFresh'
      BY <1>1, <2>1 DEF IdsAreFresh, Carries, Console!TypeOK, Console!Call, Issued
  <2>q. QED
      BY <1>1, <2>1, <2>2, <2>3 DEF FrameHolds
<1>q. QED
    BY <1>4, <1>5, <1>6, <1>7, <1>8, <1>9, <1>10, <1>11 DEF Console!Received

LEMMA TimeKeepsConsole ==
    ASSUME Console!ConsoleAssumption, ConsoleInv, NEW s \in Tickets,
           \/ Console!ExpireTicket(s) \/ Console!GrowIdle(s) \/ Console!GrowOld(s) \/ Console!Relay(s)
           \/ Console!Gate(s) \/ Console!Dialled(s) \/ Console!Drop(s) \/ Console!Cut(s)
           \/ Console!Written(s)
    PROVE  ConsoleInv'
<1> USE DEF ConsoleInv
<1>0. UNCHANGED <<view, frame, visit, cookie, calls, spoilt>>
    BY DEF Console!ExpireTicket, Console!GrowIdle, Console!GrowOld, Console!Relay, Console!Gate,
           Console!Dialled,
           Console!Drop, Console!Cut, Console!Connects, Console!Written, Console!WriteEnd,
           Console!WriteEndFails,
           Console!pageVars
<1>1. left' \in [{"visits", "presses", "conns", "faults"} -> Nat]
    BY DEF Console!ExpireTicket, Console!GrowIdle, Console!GrowOld, Console!Relay, Console!Gate,
           Console!Dialled,
           Console!Drop, Console!Cut, Console!Written, Console!WriteEnd, Console!WriteEndFails, Console!Fault,
           Console!Uses, Console!TypeOK
<1>2. conn' \in [Tickets -> {"none", "dials", "relays"}]
    BY DEF Console!ExpireTicket, Console!GrowIdle, Console!GrowOld, Console!Relay, Console!Gate,
           Console!Dialled,
           Console!Drop, Console!Cut, Console!Connects, Console!Written, Console!WriteEnd,
           Console!WriteEndFails,
           Console!TypeOK
<1>3. CASE Console!ExpireTicket(s) \/ Console!GrowIdle(s) \/ Console!GrowOld(s) \/ Console!Relay(s)
  <2>1. PICK l \in {"void", "open", "idle", "old"} :
          /\ life' = [life EXCEPT ![s] = l] /\ UNCHANGED <<audit, ending, unended>>
          /\ life[s] \notin {"unissued", "closed"} /\ (l = "void" <=> ~Console!Open(s))
      BY <1>3 DEF Console!ExpireTicket, Console!GrowIdle, Console!GrowOld, Console!Relay, Console!rowVars,
                  Console!Open
  <2>2. \A t \in Tickets : /\ Console!Open(t) <=> Console!Open(t)'
                           /\ life[t] = "closed" <=> life'[t] = "closed"
                           /\ life[t] = "unissued" <=> life'[t] = "unissued"
      BY <2>1 DEF Console!Open, Console!TypeOK
  <2>3. Console!TypeOK'
      BY <1>0, <1>1, <1>2, <2>1 DEF Console!TypeOK, Console!Life
  <2>4. IdsAreFresh'
      BY <1>0, <2>2 DEF IdsAreFresh, Carries, Console!TypeOK, Console!Call
  <2>5. FrameHolds'
      BY <1>0, <2>2 DEF FrameHolds, Asks
  <2>6. RowsFollow'
      BY <2>1, <2>2 DEF RowsFollow, Console!AuditTells, Console!TypeOK
  <2>q. QED
      BY <2>3, <2>4, <2>5, <2>6
<1>4. ASSUME life' = life, RowsFollow',
             audit' \in [Tickets -> {"none", "open", "ended"}], ending' \subseteq Tickets,
             unended' \subseteq Tickets
      PROVE  ConsoleInv'
    BY <1>0, <1>1, <1>2, <1>4 DEF Console!TypeOK, IdsAreFresh, Carries, FrameHolds, Asks, Console!Open
<1>5. CASE Console!Gate(s) \/ Console!Dialled(s) \/ Console!Drop(s) \/ Console!Cut(s)
  <2>1. UNCHANGED <<life, audit, ending, unended>>
      BY <1>5 DEF Console!Gate, Console!Dialled, Console!Drop, Console!Cut, Console!Connects, Console!rowVars
  <2>2. RowsFollow'
      BY <2>1 DEF RowsFollow, Console!AuditTells, Console!Open
  <2>q. QED
      BY <1>4, <2>1, <2>2 DEF Console!TypeOK
<1>6. CASE Console!WriteEnd(s)
  <2>1. RowsFollow'
      BY <1>6 DEF Console!WriteEnd, RowsFollow, Console!AuditTells, Console!Open, Console!TypeOK
  <2>q. QED
      BY <1>4, <1>6, <2>1 DEF Console!WriteEnd, Console!TypeOK
<1>7. CASE Console!WriteEndFails(s)
  <2>1. RowsFollow'
      BY <1>7 DEF Console!WriteEndFails, RowsFollow, Console!AuditTells, Console!Open, Console!TypeOK
  <2>q. QED
      BY <1>4, <1>7, <2>1 DEF Console!WriteEndFails, Console!TypeOK
<1>q. QED
    BY <1>3, <1>5, <1>6, <1>7 DEF Console!Written

LEMMA EndsKeepConsole ==
    ASSUME Console!ConsoleAssumption, ConsoleInv, Console!Sweep \/ Console!Restart
    PROVE  ConsoleInv'
<1> USE DEF ConsoleInv
<1>1. CASE Console!Sweep
  <2>1. /\ UNCHANGED <<view, frame, visit, cookie, calls, conn, left, audit, unended>>
        /\ life' = [s \in Tickets |-> IF Console!Expired(s) THEN "closed" ELSE life[s]]
        /\ ending' = ending \cup {s \in Tickets : Console!Expired(s)}
        /\ spoilt' = IF frame # None /\ Console!Expired(frame) THEN spoilt \cup {"server"} ELSE spoilt
      BY <1>1 DEF Console!Sweep, Console!Closes, Console!pageVars
  <2>2. Console!TypeOK'
      BY <2>1 DEF Console!TypeOK, Console!Life
  <2>3. IdsAreFresh'
      BY <2>1 DEF IdsAreFresh, Carries, Console!TypeOK, Console!Call
  <2>4. FrameHolds'
    <3>1. \A s \in Tickets : ~Console!Expired(s) => (Console!Open(s) => Console!Open(s)')
        BY <2>1 DEF Console!Open
    <3>q. QED
        BY <2>1, <3>1 DEF FrameHolds, Asks, Console!ConsoleAssumption
  <2>5. RowsFollow'
      BY <2>1 DEF RowsFollow, Console!AuditTells, Console!Open, Console!Expired, Console!TypeOK
  <2>q. QED
      BY <2>2, <2>3, <2>4, <2>5
<1>2. CASE Console!Restart
  <2>1. /\ UNCHANGED <<view, frame, visit, cookie, audit>>
        /\ life' = [s \in Tickets |-> IF Console!Open(s) THEN "closed"
                                      ELSE IF life[s] = "ticket" THEN "void" ELSE life[s]]
        /\ unended' = unended \cup ending \cup {s \in Tickets : Console!Open(s)} /\ ending' = {}
        /\ conn' = [s \in Tickets |-> "none"] /\ spoilt' = spoilt \cup {"server"}
        /\ left' \in [{"visits", "presses", "conns", "faults"} -> Nat]
      BY <1>2 DEF Console!Restart, Console!Fault, Console!Uses, Console!pageVars, Console!TypeOK
  <2>2. \A n \in calls' : n \in calls \/ \E m \in calls : m.kind = "end" /\ n = [m EXCEPT !.status = "lost"]
      BY <1>2 DEF Console!Restart
  <2>3. \A n \in calls' : \/ n \in calls
                          \/ n \in Console!Call /\ n.kind = "end" /\ \E m \in calls : m.kind = "end" /\ m.id = n.id
      BY <2>2 DEF Console!TypeOK, Console!Call
  <2>4. Console!TypeOK'
      BY <2>1, <2>3 DEF Console!TypeOK, Console!Life
  <2>5. IdsAreFresh'
    <3>1. \A s \in Tickets : life[s] # "unissued" => life'[s] # "unissued"
        BY <2>1
    <3>2. \A n \in calls' : \E m \in calls : m.kind = n.kind /\ m.id = n.id /\ (n = m \/ n.kind = "end")
        BY <2>3
    <3>3. \A n \in calls' : Carries(n) => n \in calls
        BY <2>3 DEF Carries
    <3>4. \A n, m \in calls' : Carries(m) /\ n.id = m.id => n = m
        BY <3>2, <3>3 DEF IdsAreFresh, Carries
    <3>q. QED
        BY <2>1, <3>1, <3>2, <3>3, <3>4 DEF IdsAreFresh, Carries, Console!TypeOK, Console!Call
  <2>6. FrameHolds'
      BY <2>1 DEF FrameHolds, Asks
  <2>7. RowsFollow'
      BY <2>1 DEF RowsFollow, Console!AuditTells, Console!Open, Console!TypeOK
  <2>q. QED
      BY <2>4, <2>5, <2>6, <2>7
<1>q. QED
    BY <1>1, <1>2

LEMMA ConsoleNext == ASSUME Console!ConsoleAssumption, ConsoleInv,
[Console!Next]_(Console!vars) PROVE ConsoleInv'
<1>1. CASE UNCHANGED Console!vars
    BY <1>1 DEF Console!vars, Console!pageVars, Console!rowVars, ConsoleInv, Console!TypeOK, IdsAreFresh,
                Carries,
                FrameHolds, Asks, RowsFollow, Console!AuditTells, Console!Open
<1>2. CASE Console!Next
    BY <1>2, UserKeepsConsole, ServerKeepsConsole, BrowserKeepsConsole, TimeKeepsConsole, EndsKeepConsole
       DEF Console!Next
<1>q. QED
    BY <1>1, <1>2


-----------------------------------------------------------------------------
(* The configuration of the AI provider *)

\* A request that no other has overlapped is the only one under way, and has found
\* what is still active.
AloneFoundActive ==
    \A c \in Updates : Settings!UnderWay(c) /\ c \notin mixed =>
        /\ \A d \in Updates \ {c} : ~Settings!UnderWay(d)
        /\ update[c].prev = active
        /\ update[c].at = "commit" => update[c].target = active

\* The bridge has not lost step while requests overlap, or before one begins.
MixedIsApart == \A c \in Updates : c \in mixed => update[c].at # "new" /\ (Settings!UnderWay(c) => apart)

\* In step, the bridge uses what the request under way has handed to it, or still
\* the active configuration.
InStep ==
    ~apart =>
        /\ (\A c \in Updates : ~Settings!UnderWay(c)) => bridge = active
        /\ \A c \in Updates : Settings!UnderWay(c) =>
               bridge = IF update[c].at = "push" THEN active ELSE update[c].next

SettingsInv == Settings!TypeOK /\ AloneFoundActive /\ MixedIsApart /\ InStep

-----------------------------------------------------------------------------

LEMMA SettingsInit == Settings!Init => SettingsInv
<1> SUFFICES ASSUME Settings!Init PROVE SettingsInv
    OBVIOUS
<1>1. \A c \in Updates : update[c].at = "new" /\ ~Settings!UnderWay(c)
    BY DEF Settings!Init, Settings!UnderWay
<1>2. Settings!TypeOK
    BY DEF Settings!Init, Settings!TypeOK, Settings!UpdateState
<1>3. AloneFoundActive /\ MixedIsApart /\ InStep
    BY <1>1 DEF Settings!Init, AloneFoundActive, MixedIsApart, InStep
<1>q. QED
    BY <1>2, <1>3 DEF SettingsInv

\* The key of a request is a key.
LEMMA NextInSetting ==
    ASSUME Settings!TypeOK, NEW c \in Updates, NEW renewed \in BOOLEAN, renewed \/ active # None
    PROVE  [by |-> c, key |-> Settings!Key(c, renewed)] \in Settings!Setting
    BY DEF Settings!TypeOK, Settings!Key, Settings!Setting

LEMMA BeginKeepsInv ==
    ASSUME SettingsInv, NEW c \in Updates, NEW renewed \in BOOLEAN, Settings!Begin(c, renewed)
    PROVE  SettingsInv'
<1> DEFINE u == [at |-> "push", prev |-> active, next |-> [by |-> c, key |-> Settings!Key(c, renewed)],
                target |-> None]
<1>0. /\ update[c].at = "new" /\ update' = [update EXCEPT ![c] = u] /\ u \in Settings!UpdateState
      /\ active' = active /\ bridge' = bridge
      /\ update'[c] = u /\ \A d \in Updates \ {c} : update'[d] = update[d]
    BY NextInSetting DEF Settings!Begin, SettingsInv, Settings!TypeOK, Settings!UpdateState
<1>1. CASE Settings!Others(c) = {}
  <2>1. /\ mixed' = mixed /\ apart' = apart /\ c \notin mixed
        /\ \A d \in Updates \ {c} : ~Settings!UnderWay(d) /\ ~Settings!UnderWay(d)'
        /\ ~Settings!UnderWay(c) /\ Settings!UnderWay(c)'
      BY <1>0, <1>1 DEF Settings!Begin, Settings!Others, Settings!UnderWay, SettingsInv, MixedIsApart
  <2>2. Settings!TypeOK'
      BY <1>0, <2>1 DEF SettingsInv, Settings!TypeOK
  <2>3. AloneFoundActive' /\ MixedIsApart' /\ InStep'
      BY <1>0, <2>1 DEF SettingsInv, AloneFoundActive, MixedIsApart, InStep
  <2>q. QED
      BY <2>2, <2>3 DEF SettingsInv
<1>2. CASE Settings!Others(c) # {}
  <2>1. mixed' = mixed \cup {c} \cup Settings!Others(c) /\ apart' = TRUE
      BY <1>2 DEF Settings!Begin
  <2>2. Settings!TypeOK'
      BY <1>0, <2>1 DEF SettingsInv, Settings!TypeOK, Settings!Others
  <2>3. AloneFoundActive'
      BY <1>0, <2>1 DEF SettingsInv, AloneFoundActive, Settings!Others, Settings!UnderWay
  <2>4. MixedIsApart' /\ InStep'
      BY <1>0, <2>1 DEF SettingsInv, MixedIsApart, InStep, Settings!Others, Settings!UnderWay
  <2>q. QED
      BY <2>2, <2>3, <2>4 DEF SettingsInv
<1>q. QED
    BY <1>1, <1>2

\* A step of a request under way that leaves the row alone and gets on, or is done.
LEMMA StepKeepsRest ==
    ASSUME SettingsInv, NEW c \in Updates, Settings!UnderWay(c), NEW a \in {"store", "rollback", "done"},
    Settings!Goes(c, a),
           active' = active, mixed' = mixed, bridge' \in Settings!Setting \cup {None}, apart' \in BOOLEAN,
           c \in mixed /\ apart => apart'
    PROVE  /\ Settings!TypeOK' /\ AloneFoundActive' /\ MixedIsApart'
           /\ update'[c].at = a /\ update'[c].next = update[c].next
           /\ \A d \in Updates \ {c} : update'[d] = update[d]
<1>1. /\ update' \in [Updates -> Settings!UpdateState]
      /\ update'[c].at = a /\ update'[c].next = update[c].next /\ update'[c].prev = update[c].prev
      /\ \A d \in Updates \ {c} : update'[d] = update[d]
    BY DEF Settings!Goes, SettingsInv, Settings!TypeOK, Settings!UpdateState
<1>2. AloneFoundActive'
    BY <1>1 DEF SettingsInv, AloneFoundActive, Settings!UnderWay
<1>3. MixedIsApart'
    BY <1>1 DEF SettingsInv, MixedIsApart, AloneFoundActive, Settings!UnderWay
<1>4. Settings!TypeOK'
    BY <1>1 DEF SettingsInv, Settings!TypeOK
<1>q. QED
    BY <1>1, <1>2, <1>3, <1>4

\* A request that is done alone leaves the bridge with the active configuration.
LEMMA DoneInStep ==
    ASSUME SettingsInv, NEW c \in Updates, Settings!UnderWay(c), Settings!Goes(c, "done"),
           c \notin mixed, apart' = FALSE => bridge' = active'
    PROVE  InStep'
<1>1. \A d \in Updates : ~Settings!UnderWay(d)'
    BY DEF Settings!Goes, SettingsInv, Settings!TypeOK, Settings!UpdateState, AloneFoundActive,
           Settings!UnderWay
<1>2. apart' = TRUE => InStep'
    BY DEF InStep
<1>q. QED
    BY <1>1 DEF InStep

LEMMA RequestKeepsInv ==
    ASSUME SettingsInv, NEW c \in Updates,
           \/ Settings!Push(c) \/ Settings!PushRefused(c) \/ Settings!PushUnanswered(c)
           \/ Settings!Store(c) \/ Settings!Commit(c)
           \/ Settings!StoreFails(c) \/ Settings!RolledBack(c) \/ Settings!RollbackFails(c)
    PROVE  SettingsInv'
<1>0. /\ Settings!UnderWay(c) /\ update[c] \in Settings!UpdateState
      /\ apart \in BOOLEAN /\ bridge \in Settings!Setting \cup {None}
      /\ Settings!TypeOK
    BY DEF Settings!Push, Settings!PushRefused, Settings!PushUnanswered, Settings!Store, Settings!Commit,
           Settings!StoreFails, Settings!RolledBack, Settings!RollbackFails,
           Settings!UnderWay, SettingsInv, Settings!TypeOK
<1>1. CASE Settings!Push(c)
  <2>1. /\ Settings!Goes(c, "store") /\ active' = active /\ mixed' = mixed /\ bridge' = update[c].next
        /\ apart' = (apart /\ c \in mixed) /\ update[c].next \in Settings!Setting \cup {None}
      BY <1>0, <1>1 DEF Settings!Push, Settings!UpdateState
  <2>2. apart' \in BOOLEAN /\ (c \in mixed /\ apart => apart')
      BY <2>1
  <2>3. /\ Settings!TypeOK' /\ AloneFoundActive' /\ MixedIsApart'
        /\ update'[c].at = "store" /\ update'[c].next = update[c].next
        /\ \A d \in Updates \ {c} : update'[d] = update[d]
      BY <1>0, <2>1, <2>2, StepKeepsRest
  <2>4. c \in mixed => apart'
      BY <1>0, <2>1 DEF SettingsInv, MixedIsApart
  <2>5. c \notin mixed => \A d \in Updates \ {c} : ~Settings!UnderWay(d)'
      BY <1>0, <2>3 DEF SettingsInv, AloneFoundActive, Settings!UnderWay
  <2>6. InStep'
      BY <2>1, <2>3, <2>4, <2>5 DEF InStep, Settings!UnderWay
  <2>q. QED
      BY <2>3, <2>6 DEF SettingsInv
\* The requests that are done without a change of the active row.
<1>2. ASSUME Settings!Goes(c, "done"), active' = active, mixed' = mixed,
             bridge' \in Settings!Setting \cup {None},
             apart' \in BOOLEAN, apart => apart', c \notin mixed /\ ~apart' => bridge' = active
      PROVE  SettingsInv'
  <2>1. /\ Settings!TypeOK' /\ AloneFoundActive' /\ MixedIsApart'
      BY <1>0, <1>2, StepKeepsRest
  <2>2. CASE c \notin mixed
      BY <1>0, <1>2, <2>1, <2>2, DoneInStep DEF SettingsInv
  <2>3. CASE c \in mixed
    <3>1. apart'
        BY <1>0, <1>2, <2>3 DEF SettingsInv, MixedIsApart
    <3>q. QED
        BY <2>1, <3>1 DEF SettingsInv, InStep
  <2>q. QED
      BY <2>2, <2>3
<1>3. CASE Settings!PushRefused(c)
  <2>1. ~apart => bridge = active
      BY <1>0, <1>3 DEF Settings!PushRefused, SettingsInv, InStep
  <2>q. QED
      BY <1>0, <1>2, <1>3, <2>1 DEF Settings!PushRefused
<1>4. CASE Settings!PushUnanswered(c)
    BY <1>0, <1>2, <1>4 DEF Settings!PushUnanswered, Settings!UpdateState
<1>5. CASE Settings!Store(c)
  <2>1. /\ update' \in [Updates -> Settings!UpdateState]
        /\ update'[c].at = "commit" /\ update'[c].target = active
        /\ update'[c].prev = update[c].prev /\ update'[c].next = update[c].next
        /\ \A d \in Updates \ {c} : update'[d] = update[d]
        /\ active' = active /\ bridge' = bridge /\ mixed' = mixed /\ apart' = apart
      BY <1>0, <1>5 DEF Settings!Store, Settings!TypeOK, Settings!UpdateState
  <2>2. Settings!TypeOK'
      BY <1>0, <2>1 DEF Settings!TypeOK
  <2>3. AloneFoundActive' /\ MixedIsApart'
      BY <1>0, <2>1 DEF SettingsInv, AloneFoundActive, MixedIsApart, Settings!UnderWay
  <2>4. InStep'
      BY <1>0, <1>5, <2>1 DEF SettingsInv, InStep, Settings!UnderWay, Settings!Store
  <2>q. QED
      BY <2>2, <2>3, <2>4 DEF SettingsInv
<1>6. CASE Settings!Commit(c)
  <2>1. /\ update' \in [Updates -> Settings!UpdateState] /\ update'[c].at = "done"
        /\ \A d \in Updates \ {c} : update'[d] = update[d]
        /\ active' = update[c].next /\ bridge' = bridge /\ mixed' = mixed /\ apart' = apart
        /\ update[c].at = "commit" /\ update[c].next \in Settings!Setting \cup {None}
      BY <1>0, <1>6 DEF Settings!Commit, Settings!Goes, Settings!TypeOK, Settings!UpdateState
  <2>2. Settings!TypeOK'
      BY <1>0, <2>1 DEF Settings!TypeOK
  <2>3. MixedIsApart'
      BY <1>0, <2>1 DEF SettingsInv, MixedIsApart, Settings!UnderWay
\* A request that nobody has overlapped is not under way beside this one.
  <2>4. AloneFoundActive'
      BY <1>0, <2>1 DEF SettingsInv, AloneFoundActive, Settings!UnderWay
  <2>5. CASE c \in mixed
    <3>1. apart'
        BY <1>0, <2>1, <2>5 DEF SettingsInv, MixedIsApart
    <3>q. QED
        BY <2>2, <2>3, <2>4, <3>1 DEF SettingsInv, InStep
  <2>6. CASE c \notin mixed
    <3>1. apart' = FALSE => bridge' = active'
        BY <1>0, <2>1 DEF SettingsInv, InStep
    <3>2. InStep'
        BY <1>0, <1>6, <2>6, <3>1, DoneInStep DEF Settings!Commit
    <3>q. QED
        BY <2>2, <2>3, <2>4, <3>2 DEF SettingsInv
  <2>q. QED
      BY <2>5, <2>6
<1>7. CASE Settings!StoreFails(c)
  <2>1. /\ Settings!TypeOK' /\ AloneFoundActive' /\ MixedIsApart'
        /\ update'[c].at = "rollback" /\ update'[c].next = update[c].next
        /\ \A d \in Updates \ {c} : update'[d] = update[d]
      BY <1>0, <1>7, StepKeepsRest DEF Settings!StoreFails
  <2>2. InStep'
      BY <1>0, <1>7, <2>1 DEF Settings!StoreFails, SettingsInv, InStep, Settings!UnderWay
  <2>q. QED
      BY <2>1, <2>2 DEF SettingsInv
<1>8. CASE Settings!RolledBack(c)
  <2>1. /\ bridge' \in Settings!Setting \cup {None} /\ apart' \in BOOLEAN /\ (apart => apart')
        /\ ~apart' => bridge' = update[c].prev
      BY <1>0, <1>8 DEF Settings!RolledBack, Settings!RollBack, Settings!UpdateState
  <2>2. c \notin mixed => update[c].prev = active
      BY <1>0 DEF SettingsInv, AloneFoundActive
  <2>q. QED
      BY <1>2, <1>8, <2>1, <2>2 DEF Settings!RolledBack
<1>9. CASE Settings!RollbackFails(c)
    BY <1>0, <1>2, <1>9 DEF Settings!RollbackFails
<1>q. QED
    BY <1>1, <1>3, <1>4, <1>5, <1>6, <1>7, <1>8, <1>9

LEMMA RestartKeepsInv ==
    ASSUME SettingsInv, Settings!BridgeRestarts \/ Settings!Boot
    PROVE  SettingsInv'
<1>1. CASE Settings!BridgeRestarts
    BY <1>1 DEF Settings!BridgeRestarts, SettingsInv, Settings!TypeOK, AloneFoundActive, MixedIsApart, InStep,
                Settings!UnderWay
<1>2. CASE Settings!Boot
  <2>1. /\ update' \in [Updates -> Settings!UpdateState]
        /\ \A c \in Updates : ~Settings!UnderWay(c)' /\ (update[c].at # "new" => update'[c].at # "new")
        /\ active' = active /\ mixed' = mixed
      BY <1>2 DEF Settings!Boot, Settings!UnderWay, SettingsInv, Settings!TypeOK, Settings!UpdateState
  <2>2. /\ bridge' \in Settings!Setting \cup {None} /\ apart' \in BOOLEAN /\ (~apart' => bridge' = active)
      BY <1>2 DEF Settings!Boot, Settings!Rehydrate, SettingsInv, Settings!TypeOK
  <2>3. Settings!TypeOK'
      BY <2>1, <2>2 DEF SettingsInv, Settings!TypeOK
  <2>4. AloneFoundActive' /\ MixedIsApart' /\ InStep'
      BY <2>1, <2>2 DEF SettingsInv, AloneFoundActive, MixedIsApart, InStep
  <2>q. QED
      BY <2>3, <2>4 DEF SettingsInv
<1>q. QED
    BY <1>1, <1>2

LEMMA SettingsNext == ASSUME SettingsInv, [Settings!Next]_(Settings!vars) PROVE SettingsInv'
<1>1. CASE UNCHANGED Settings!vars
    BY <1>1 DEF Settings!vars, SettingsInv, Settings!TypeOK, AloneFoundActive, MixedIsApart, InStep,
                Settings!UnderWay
<1>2. ASSUME NEW c \in Updates, NEW renewed \in BOOLEAN, Settings!Begin(c, renewed) PROVE SettingsInv'
    BY <1>2, BeginKeepsInv
<1>3. ASSUME NEW c \in Updates,
             \/ Settings!Push(c) \/ Settings!PushRefused(c) \/ Settings!PushUnanswered(c)
             \/ Settings!Store(c) \/ Settings!Commit(c)
             \/ Settings!StoreFails(c) \/ Settings!RolledBack(c) \/ Settings!RollbackFails(c)
      PROVE  SettingsInv'
    BY <1>3, RequestKeepsInv
<1>4. CASE Settings!BridgeRestarts \/ Settings!Boot
    BY <1>4, RestartKeepsInv
<1>q. QED
    BY <1>1, <1>2, <1>3, <1>4 DEF Settings!Next

-----------------------------------------------------------------------------
(* The key *)

\* A request under way brings its own configuration, with its own key or the one it
\* has found.
BringsOwn ==
    \A c \in Updates : Settings!UnderWay(c) =>
        update[c].next.by = c /\ (update[c].next.key # c => update[c].next.key = update[c].prev.key)

\* What is under way after any other step than Begin was so before, with what it
\* has found and brings.
LEMMA KeepsOwn ==
    ASSUME Settings!TypeOK, BringsOwn, NEW c \in Updates,
           \A d \in Updates \ {c} : update'[d] = update[d],
           update'[c].prev = update[c].prev, update'[c].next = update[c].next, Settings!UnderWay(c)
    PROVE  BringsOwn'
    BY DEF BringsOwn, Settings!UnderWay

LEMMA BringsOwnStays ==
    ASSUME Settings!TypeOK, BringsOwn, [Settings!Next]_(Settings!vars)
    PROVE  BringsOwn'
<1>1. CASE UNCHANGED Settings!vars
    BY <1>1 DEF Settings!vars, BringsOwn, Settings!UnderWay
<1>2. ASSUME NEW c \in Updates, NEW renewed \in BOOLEAN, Settings!Begin(c, renewed) PROVE BringsOwn'
  <2>1. /\ update'[c].next = [by |-> c, key |-> Settings!Key(c, renewed)] /\ update'[c].prev = active
        /\ \A d \in Updates \ {c} : update'[d] = update[d]
      BY <1>2 DEF Settings!Begin, Settings!TypeOK
  <2>2. Settings!Key(c, renewed) # c => Settings!Key(c, renewed) = active.key
      BY DEF Settings!Key
  <2>q. QED
      BY <2>1, <2>2 DEF BringsOwn, Settings!UnderWay
<1>3. ASSUME NEW c \in Updates,
             \/ Settings!Push(c) \/ Settings!PushRefused(c) \/ Settings!PushUnanswered(c)
             \/ Settings!Store(c) \/ Settings!Commit(c)
             \/ Settings!StoreFails(c) \/ Settings!RolledBack(c) \/ Settings!RollbackFails(c)
      PROVE  BringsOwn'
  <2>1. /\ Settings!UnderWay(c)
        /\ \A d \in Updates \ {c} : update'[d] = update[d]
        /\ update'[c].prev = update[c].prev /\ update'[c].next = update[c].next
      BY <1>3 DEF Settings!Push, Settings!PushRefused, Settings!PushUnanswered, Settings!Store,
                  Settings!Commit, Settings!StoreFails, Settings!RolledBack, Settings!RollbackFails,
                  Settings!Goes, Settings!UnderWay, Settings!TypeOK, Settings!UpdateState
  <2>q. QED
      BY <2>1, KeepsOwn
<1>4. CASE Settings!BridgeRestarts
    BY <1>4 DEF Settings!BridgeRestarts, BringsOwn, Settings!UnderWay
<1>5. CASE Settings!Boot
  <2>1. \A c \in Updates : ~Settings!UnderWay(c)'
      BY <1>5 DEF Settings!Boot, Settings!UnderWay, Settings!TypeOK, Settings!UpdateState
  <2>q. QED
      BY <2>1 DEF BringsOwn
<1>q. QED
    BY <1>1, <1>2, <1>3, <1>4, <1>5 DEF Settings!Next

\* A request that no other overlaps, and that brings no key, leaves the key as it
\* is, whatever fails.
LEMMA KeyStays ==
    ASSUME SettingsInv, BringsOwn, [Settings!Next]_(Settings!vars)
    PROVE  Settings!KeyIsKept
<1>1. CASE active' = active
    BY <1>1 DEF Settings!KeyIsKept
<1>2. ASSUME NEW d \in Updates, Settings!Commit(d) PROVE Settings!KeyIsKept
  <2> SUFFICES ASSUME NEW c \in Updates, active' # active, active'.by = c, active'.key # c, c \notin mixed
               PROVE  active'.key = active.key
      BY DEF Settings!KeyIsKept
  <2>1. Settings!UnderWay(d) /\ active' = update[d].next
      BY <1>2 DEF Settings!Commit, Settings!UnderWay
  <2>2. d = c
      BY <2>1 DEF BringsOwn
  <2>3. update[c].prev = active
      BY <2>1, <2>2 DEF SettingsInv, AloneFoundActive
  <2>q. QED
      BY <2>1, <2>2, <2>3 DEF BringsOwn
<1>3. active' = active \/ \E d \in Updates : Settings!Commit(d)
    BY DEF Settings!Next, Settings!vars, Settings!Begin, Settings!Push, Settings!PushRefused,
           Settings!PushUnanswered, Settings!Store, Settings!StoreFails, Settings!RolledBack,
           Settings!RollbackFails,
           Settings!BridgeRestarts, Settings!Boot
<1>q. QED
    BY <1>1, <1>2, <1>3

-----------------------------------------------------------------------------
(* The mailing of invitations *)

\* The invitation whose row is to be saved.
Held(i) == outcome # Mailing!NoOutcome /\ outcome.invite = i

\* An invitation that may be mailed: a sweep holds it, or finds it pending.
Mailable(i) == i \in batch \/ (row[i] # None /\ row[i].status = "pending")

\* What is to be saved is the outcome of an invitation that has left the sweep.
OutcomeIsOwn ==
    outcome # Mailing!NoOutcome =>
        outcome.invite \in Invitations \ batch /\ outcome.status \in {"sent", "failed"}

\* An invitation that may still be mailed has no mail but those of which no row tells.
NoneTold == \A i \in Invitations : Mailable(i) /\ ~Held(i) => mails[i] <= slips[i]

Counters == mails \in [Invitations -> Nat] /\ slips \in [Invitations -> Nat]

\* Nothing is stored of the invitations of an event that is gone.
GoneWithEvent == ~event => row = [i \in Invitations |-> None]

Rows == row = [i \in Invitations |-> row[i]]

MailingInv ==
    /\ Counters /\ Rows /\ batch \subseteq Invitations
    /\ OutcomeIsOwn /\ NoneTold /\ GoneWithEvent /\ Mailing!MailedAgainForACause

-----------------------------------------------------------------------------

LEMMA MailingInit == Mailing!Init => MailingInv
    BY DEF Mailing!Init, MailingInv, Counters, Rows, OutcomeIsOwn, NoneTold, Mailable, GoneWithEvent,
           Mailing!MailedAgainForACause

LEMMA TableKeepsInv ==
    ASSUME MailingInv, NEW i \in Invitations,
           (\E t \in 0 .. MaxTime : Mailing!Schedule(i, t))
              \/ Mailing!CancelReads(i) \/ Mailing!CancelDeletes(i)
    PROVE  MailingInv'
<1>1. ASSUME NEW t \in 0 .. MaxTime, Mailing!Schedule(i, t) PROVE MailingInv'
    BY <1>1 DEF Mailing!Schedule, MailingInv, Counters, Rows, OutcomeIsOwn, NoneTold, Mailable, Held,
                GoneWithEvent,
                Mailing!MailedAgainForACause
<1>2. CASE Mailing!CancelReads(i)
    BY <1>2 DEF Mailing!CancelReads, MailingInv, Counters, Rows, OutcomeIsOwn, NoneTold, Mailable, Held,
                GoneWithEvent,
                Mailing!MailedAgainForACause
<1>3. CASE Mailing!CancelDeletes(i)
    BY <1>3 DEF Mailing!CancelDeletes, Mailing!WithoutRow, MailingInv, Counters, Rows, OutcomeIsOwn, NoneTold,
                Mailable, Held,
                GoneWithEvent, Mailing!MailedAgainForACause
<1>q. QED
    BY <1>1, <1>2, <1>3

LEMMA SweepKeepsInv ==
    ASSUME MailingInv, NEW B \in SUBSET Invitations, Mailing!Sweep(B)
    PROVE  MailingInv'
<1>1. /\ batch = {} /\ outcome = Mailing!NoOutcome /\ batch' = B /\ outcome' = outcome
      /\ row' = row /\ mails' = mails /\ slips' = slips /\ event' = event
    BY DEF Mailing!Sweep, Mailing!Idle
<1>2. \A i \in B : Mailable(i) /\ ~Held(i)
    BY <1>1 DEF Mailing!Sweep, Mailing!Swept, Mailing!Due, Mailable, Held
<1>3. NoneTold'
    BY <1>1, <1>2 DEF MailingInv, NoneTold, Mailable, Held
<1>q. QED
    BY <1>1, <1>3 DEF MailingInv, Counters, Rows, OutcomeIsOwn, GoneWithEvent, Mailing!MailedAgainForACause

LEMMA MailKeepsInv ==
    ASSUME MailingInv, NEW i \in Invitations, Mailing!Mail(i) \/ Mailing!MailRefused(i)
    PROVE  MailingInv'
<1>1. PICK s \in {"sent", "failed"} : outcome' = [invite |-> i, status |-> s]
    BY DEF Mailing!Mail, Mailing!Mailed, Mailing!MailRefused
<1>2. /\ i \in batch /\ outcome = Mailing!NoOutcome /\ batch' = batch \ {i}
      /\ row' = row /\ slips' = slips /\ event' = event
      /\ mails' = mails \/ mails' = [mails EXCEPT ![i] = @ + 1]
    BY DEF Mailing!Mail, Mailing!Mailed, Mailing!MailRefused, Mailing!Takes
<1>3. mails[i] <= slips[i]
    BY <1>2 DEF MailingInv, NoneTold, Mailable, Held
<1>4. outcome' # Mailing!NoOutcome
    BY <1>1 DEF Mailing!NoOutcome
<1>5. Counters' /\ Rows' /\ OutcomeIsOwn' /\ GoneWithEvent'
    BY <1>1, <1>2 DEF MailingInv, Counters, Rows, OutcomeIsOwn, GoneWithEvent
<1>6. \A j \in Invitations \ {i} : mails'[j] = mails[j]
    BY <1>2 DEF MailingInv, Counters
<1>7. Mailing!MailedAgainForACause'
    BY <1>2, <1>3, <1>6 DEF MailingInv, Counters, Mailing!MailedAgainForACause
<1>8. NoneTold'
    BY <1>1, <1>2, <1>4, <1>6 DEF MailingInv, NoneTold, Mailable, Held
<1>q. QED
    BY <1>2, <1>5, <1>7, <1>8 DEF MailingInv

LEMMA SaveKeepsInv ==
    ASSUME MailingInv, Mailing!Save
    PROVE  MailingInv'
<1>1. /\ outcome # Mailing!NoOutcome /\ outcome' = Mailing!NoOutcome
      /\ batch' = batch /\ mails' = mails /\ slips' = slips /\ event' = event
      /\ row' = IF event THEN [row EXCEPT ![outcome.invite] = Mailing!Saved] ELSE row
    BY DEF Mailing!Save
<1>2. outcome.invite \in Invitations \ batch /\ Mailing!Saved.status \in {"sent", "failed"}
    BY <1>1 DEF MailingInv, OutcomeIsOwn, Mailing!Saved
<1>3. \A j \in Invitations : j = outcome.invite => ~Mailable(j)'
    BY <1>1, <1>2 DEF MailingInv, Rows, Mailable, GoneWithEvent
<1>4. \A j \in Invitations : j # outcome.invite => Mailable(j)' = Mailable(j) /\ ~Held(j)
    BY <1>1, <1>2 DEF MailingInv, Rows, Mailable, Held
<1>5. NoneTold'
    BY <1>1, <1>3, <1>4 DEF MailingInv, NoneTold
<1>6. Rows' /\ GoneWithEvent'
    BY <1>1, <1>2 DEF MailingInv, Rows, GoneWithEvent
<1>q. QED
    BY <1>1, <1>5, <1>6 DEF MailingInv, Counters, OutcomeIsOwn, Mailing!MailedAgainForACause

LEMMA SlipKeepsInv ==
    ASSUME MailingInv, Mailing!SaveFails \/ Mailing!Crash
    PROVE  MailingInv'
<1>1. /\ outcome' = Mailing!NoOutcome /\ row' = row /\ mails' = mails /\ event' = event
      /\ batch' \subseteq batch
      /\ slips' = IF outcome # Mailing!NoOutcome THEN [slips EXCEPT ![outcome.invite] = @ + 1] ELSE slips
    BY DEF Mailing!SaveFails, Mailing!Crash, Mailing!Slip
<1>2. Counters' /\ \A i \in Invitations : slips[i] <= slips'[i] /\ (Held(i) => slips'[i] = slips[i] + 1)
    BY <1>1 DEF MailingInv, Counters, OutcomeIsOwn, Held
<1>3. Mailing!MailedAgainForACause'
    BY <1>1, <1>2 DEF MailingInv, Counters, Mailing!MailedAgainForACause
<1>4. NoneTold'
  <2> SUFFICES ASSUME NEW i \in Invitations, Mailable(i)' PROVE mails'[i] <= slips'[i]
      BY DEF NoneTold
  <2>1. Mailable(i)
      BY <1>1 DEF Mailable
  <2>2. CASE Held(i)
      BY <1>1, <1>2, <2>2 DEF MailingInv, Counters, Mailing!MailedAgainForACause
  <2>3. CASE ~Held(i)
      BY <1>1, <1>2, <2>1, <2>3 DEF MailingInv, Counters, NoneTold
  <2>q. QED
      BY <2>2, <2>3
<1>q. QED
    BY <1>1, <1>2, <1>3, <1>4 DEF MailingInv, Rows, OutcomeIsOwn, GoneWithEvent

LEMMA MailingNext == ASSUME MailingInv, [Mailing!Next]_(Mailing!vars) PROVE MailingInv'
<1>1. CASE UNCHANGED Mailing!vars \/ Mailing!Tick
    BY <1>1 DEF Mailing!vars, Mailing!Tick, MailingInv, Counters, Rows, OutcomeIsOwn, NoneTold, Mailable, Held,
                GoneWithEvent,
                Mailing!MailedAgainForACause
<1>2. CASE \E i \in Invitations : Mailing!CancelReads(i) \/ Mailing!CancelDeletes(i)
               \/ \E t \in 0 .. MaxTime : Mailing!Schedule(i, t)
    BY <1>2, TableKeepsInv
<1>3. CASE Mailing!DeleteEvent
    BY <1>3 DEF Mailing!DeleteEvent, MailingInv, Counters, Rows, OutcomeIsOwn, NoneTold, Mailable, Held,
                GoneWithEvent,
                Mailing!MailedAgainForACause
<1>4. CASE Mailing!Dispatches
    BY <1>4, SweepKeepsInv, SaveKeepsInv, SlipKeepsInv DEF Mailing!Dispatches
<1>5. CASE Mailing!Crash
    BY <1>5, SlipKeepsInv
<1>6. CASE \E i \in Invitations : Mailing!Mail(i) \/ Mailing!MailRefused(i)
    BY <1>6, MailKeepsInv
<1>q. QED
    BY <1>1, <1>2, <1>3, <1>4, <1>5, <1>6 DEF Mailing!Next

-----------------------------------------------------------------------------
(* Cancellations *)

\* What was cancelled while no sweep held it is in no sweep, and has no row.
ClearIsGone == \A i \in clear : i \in Invitations /\ i \notin batch /\ ~Held(i) /\ row[i] = None

LEMMA ClearStaysGone ==
    ASSUME Counters, Rows, ClearIsGone, [Mailing!Next]_(Mailing!vars)
    PROVE  ClearIsGone' /\ \A i \in clear : mails'[i] = mails[i]
<1>1. CASE UNCHANGED Mailing!vars \/ Mailing!Tick
    BY <1>1 DEF Mailing!vars, Mailing!Tick, ClearIsGone, Held
<1>2. ASSUME NEW i \in Invitations, NEW t \in 0 .. MaxTime, Mailing!Schedule(i, t)
      PROVE  ClearIsGone' /\ mails' = mails
    BY <1>2 DEF Mailing!Schedule, Rows, ClearIsGone, Held
<1>3. ASSUME NEW i \in Invitations, Mailing!CancelReads(i) \/ Mailing!CancelDeletes(i)
      PROVE  ClearIsGone' /\ mails' = mails
    BY <1>3 DEF Mailing!CancelReads, Mailing!CancelDeletes, Mailing!WithoutRow, Rows, ClearIsGone, Held
<1>4. CASE Mailing!DeleteEvent
    BY <1>4 DEF Mailing!DeleteEvent, ClearIsGone, Held
<1>5. ASSUME NEW B \in SUBSET Invitations, Mailing!Sweep(B)
      PROVE  ClearIsGone' /\ mails' = mails
    BY <1>5 DEF Mailing!Sweep, Mailing!Swept, Mailing!Due, ClearIsGone, Held
<1>6. ASSUME NEW i \in Invitations, Mailing!Mail(i) \/ Mailing!MailRefused(i)
      PROVE  ClearIsGone' /\ \A j \in clear : mails'[j] = mails[j]
  <2>1. /\ i \in batch /\ batch' \subseteq batch /\ row' = row /\ clear' = clear
        /\ outcome'.invite = i /\ (mails' = mails \/ mails' = [mails EXCEPT ![i] = @ + 1])
      BY <1>6 DEF Mailing!Mail, Mailing!Mailed, Mailing!MailRefused, Mailing!Takes
  <2>2. \A j \in clear : j \in Invitations /\ j # i /\ mails'[j] = mails[j]
      BY <2>1 DEF ClearIsGone, Counters
  <2>3. ClearIsGone'
      BY <2>1, <2>2 DEF ClearIsGone, Held
  <2>q. QED
      BY <2>2, <2>3
<1>7. CASE Mailing!Save
    BY <1>7 DEF Mailing!Save, Rows, ClearIsGone, Held
<1>8. CASE Mailing!SaveFails \/ Mailing!Crash
    BY <1>8 DEF Mailing!SaveFails, Mailing!Crash, Mailing!Slip, ClearIsGone, Held
<1>q. QED
    BY <1>1, <1>2, <1>3, <1>4, <1>5, <1>6, <1>7, <1>8 DEF Mailing!Next, Mailing!Dispatches

-----------------------------------------------------------------------------
(* The types of the mailing *)

LEMMA MailingTypesInit == ASSUME Mailing!InvitesAssumption PROVE Mailing!Init => Mailing!TypeOK
    BY DEF Mailing!InvitesAssumption, Mailing!Init, Mailing!TypeOK, Mailing!NoOutcome, Mailing!Row

LEMMA MailingTypesStay ==
    ASSUME Mailing!InvitesAssumption, Mailing!TypeOK, OutcomeIsOwn, [Mailing!Next]_(Mailing!vars)
    PROVE  Mailing!TypeOK'
<1> USE DEF Mailing!TypeOK
<1>1. CASE UNCHANGED Mailing!vars
    BY <1>1 DEF Mailing!vars
<1>2. ASSUME NEW i \in Invitations, Mailing!CancelReads(i) \/ Mailing!CancelDeletes(i) PROVE Mailing!TypeOK'
    BY <1>2 DEF Mailing!CancelReads, Mailing!CancelDeletes, Mailing!WithoutRow
<1>3. ASSUME NEW i \in Invitations, NEW t \in 0 .. MaxTime, Mailing!Schedule(i, t) PROVE Mailing!TypeOK'
  <2>1. [status |-> "pending", at |-> IF t < now THEN now ELSE t] \in Mailing!Row
      BY DEF Mailing!Row
  <2>q. QED
      BY <1>3, <2>1 DEF Mailing!Schedule
<1>4. ASSUME NEW B \in SUBSET Invitations, Mailing!Sweep(B) PROVE Mailing!TypeOK'
  <2>1. \A i \in B : row[i] \in Mailing!Row
      BY <1>4 DEF Mailing!Sweep, Mailing!Swept, Mailing!Due
  <2>2. when' \in [Invitations -> 0 .. MaxTime]
      BY <1>4, <2>1 DEF Mailing!Sweep, Mailing!Row, Mailing!InvitesAssumption
  <2>q. QED
      BY <1>4, <2>2 DEF Mailing!Sweep
<1>5. ASSUME NEW i \in Invitations, Mailing!Mail(i) \/ Mailing!MailRefused(i) PROVE Mailing!TypeOK'
    BY <1>5 DEF Mailing!Mail, Mailing!Mailed, Mailing!MailRefused, Mailing!Takes
<1>6. CASE Mailing!Save
  <2>1. Mailing!Saved \in Mailing!Row
      BY <1>6 DEF Mailing!Save, Mailing!Saved, Mailing!Row, OutcomeIsOwn
  <2>2. row' \in [Invitations -> Mailing!Row \cup {None}]
      BY <1>6, <2>1 DEF Mailing!Save
  <2>q. QED
      BY <1>6, <2>2 DEF Mailing!Save, Mailing!NoOutcome
<1>7. CASE Mailing!SaveFails \/ Mailing!Crash
  <2>1. faults' \in 0 .. MaxFaults /\ slips' \in [Invitations -> Nat] /\ outcome' = Mailing!NoOutcome
      BY <1>7 DEF Mailing!SaveFails, Mailing!Crash, Mailing!Slip, Mailing!InvitesAssumption
  <2>q. QED
      BY <1>7, <2>1 DEF Mailing!SaveFails, Mailing!Crash, Mailing!NoOutcome
<1>8. CASE Mailing!DeleteEvent
  <2>1. row' \in [Invitations -> Mailing!Row \cup {None}] /\ event' \in BOOLEAN
      BY <1>8 DEF Mailing!DeleteEvent
  <2>q. QED
      BY <1>8, <2>1 DEF Mailing!DeleteEvent
<1>9. CASE Mailing!Tick
  <2>1. now' \in 0 .. MaxTime
      BY <1>9 DEF Mailing!Tick, Mailing!InvitesAssumption
  <2>q. QED
      BY <1>9, <2>1 DEF Mailing!Tick
<1>q. QED
    BY <1>1, <1>2, <1>3, <1>4, <1>5, <1>6, <1>7, <1>8, <1>9 DEF Mailing!Next, Mailing!Dispatches

-----------------------------------------------------------------------------
(* Tenders and their projects *)

LEMMA TendersAssumed == None \notin Tenders \cup TenderRequests \cup Tender!Result \cup Tender!Outcome
    BY ServicesAssumption DEF Tender!TendersAssumption

-----------------------------------------------------------------------------
(* What the requests that take a copy of a tender have in common. *)

\* Request q comes to hold the copy r of tender t, and writes no table yet.
Begins(q, t, r, at, result) ==
    /\ UNCHANGED Tender!tables
    /\ Tender!Exists(t)
    /\ r \in Tender!Row /\ at \in {"outcome", "save"} /\ result \in Tender!Result \cup {None}
    /\ \/ req[q] = None /\ projects[q] = None
       \/ req[q] # None /\ req[q].at = "denorm"
    /\ r.score # None => scores[r.score] = t
    /\ IF at = "outcome"
       THEN result # None /\ r.status = result /\ row[t].status # "WON"
       ELSE result = None
    /\ Tender!WorksOn(q, t, r, at, result)
    /\ disturbed \subseteq disturbed' /\ disturbed' \subseteq Tenders
    /\ t \notin disturbed' => /\ ~Tender!Held(q, t)
                              /\ row[t].status = "WON" => r.status = "WON"

\* A fresh request has inserted no project: a project needs an outcome.
LEMMA TenderFreshHasNoProject ==
    ASSUME Tender!IInv, NEW q \in TenderRequests, Tender!Fresh(q)
    PROVE  req[q] = None /\ projects[q] = None
    BY TendersAssumed
    DEF Tender!IInv, Tender!TypeOK, Tender!ProjectsEarned, Tender!Won, Tender!Fresh, Tender!Outcome, Tender!Result

\* The terminal statuses have no successors.
LEMMA TenderNothingFollowsWon ==
    ASSUME NEW s \in Tender!Status, Tender!CanTransition("WON", s)
    PROVE  FALSE
    BY DEF Tender!CanTransition, Tender!Transitions

LEMMA TenderRowSound ==
    ASSUME Tender!IInv, NEW t \in Tenders, Tender!Exists(t)
    PROVE  row[t] \in Tender!Row /\ (row[t].score # None => scores[row[t].score] = t)
    BY DEF Tender!IInv, Tender!TypeOK, Tender!ScoresInHistory, Tender!Exists

LEMMA TenderWithStatus ==
    ASSUME NEW r \in Tender!Row, NEW s \in Tender!Status
    PROVE  LET c == [r EXCEPT !.status = s] IN
           c \in Tender!Row /\ c.status = s /\ c.score = r.score
    BY DEF Tender!Row

LEMMA TenderWithScore ==
    ASSUME NEW r \in Tender!Row, NEW q \in TenderRequests
    PROVE  LET c == [r EXCEPT !.score = q] IN
           c \in Tender!Row /\ c.status = r.status /\ c.score = q
    BY DEF Tender!Row

LEMMA TenderDisturbance ==
    ASSUME NEW t \in Tenders, NEW cond, disturbed \subseteq Tenders, Tender!DisturbedIf(t, cond)
    PROVE  /\ disturbed \subseteq disturbed' /\ disturbed' \subseteq Tenders
           /\ t \notin disturbed' => ~cond
    BY DEF Tender!DisturbedIf

\* A request that saves a changed status, or an unchanged copy.
LEMMA TenderSaveBegins ==
    ASSUME Tender!IInv, NEW q \in TenderRequests, NEW t \in Tenders, Tender!Exists(t), Tender!Fresh(q),
           NEW r \in Tender!Row, r.score = row[t].score,
           row[t].status = "WON" => r.status = "WON",
           Tender!TakesCopy(q, t, r, "save", None), UNCHANGED Tender!tables
    PROVE  Begins(q, t, r, "save", None)
<1>1. /\ disturbed \subseteq disturbed' /\ disturbed' \subseteq Tenders
      /\ t \notin disturbed' => ~Tender!Held(q, t)
    BY TenderDisturbance DEF Tender!TakesCopy, Tender!IInv, Tender!TypeOK
<1>q. QED
    BY <1>1, TenderFreshHasNoProject, TenderRowSound DEF Tender!TakesCopy, Begins

LEMMA TenderUpdateBegins ==
    ASSUME Tender!IInv, NEW q \in TenderRequests, NEW t \in Tenders, NEW s \in Tender!Status, Tender!Update(q, t, s)
    PROVE  Begins(q, t, [row[t] EXCEPT !.status = s], "save", None)
<1> DEFINE c == [row[t] EXCEPT !.status = s]
<1>1. Tender!Exists(t) /\ Tender!Fresh(q) /\ UNCHANGED Tender!tables /\ Tender!WorksOn(q, t, c, "save", None)
    BY DEF Tender!Update
<1>2. /\ disturbed \subseteq disturbed' /\ disturbed' \subseteq Tenders
      /\ t \notin disturbed' => ~(Tender!Held(q, t) \/ (row[t].status = "WON" /\ s # "WON"))
    BY TenderDisturbance DEF Tender!Update, Tender!IInv, Tender!TypeOK
<1>3. c \in Tender!Row /\ c.status = s /\ c.score = row[t].score
    BY <1>1, TenderRowSound, TenderWithStatus
<1> HIDE DEF c
<1>4. Begins(q, t, c, "save", None)
    BY <1>1, <1>2, <1>3, TenderFreshHasNoProject, TenderRowSound DEF Begins
<1>q. QED
    BY <1>4 DEF c

LEMMA TenderUpdateStatusBegins ==
    ASSUME Tender!IInv, NEW q \in TenderRequests, NEW t \in Tenders, NEW s \in Tender!Status,
           Tender!UpdateStatus(q, t, s)
    PROVE  Begins(q, t, [row[t] EXCEPT !.status = s], "save", None)
<1>1. Tender!Exists(t) /\ Tender!Fresh(q) /\ Tender!CanTransition(row[t].status, s)
    BY DEF Tender!UpdateStatus
<1>2. row[t].status # "WON"
    BY <1>1, TenderNothingFollowsWon
<1>q. QED
    BY <1>1, <1>2, TenderRowSound, TenderWithStatus, TenderSaveBegins DEF Tender!UpdateStatus

LEMMA TenderPromoteBegins ==
    ASSUME Tender!IInv, NEW q \in TenderRequests, NEW t \in Tenders, Tender!Promote(q, t)
    PROVE  Begins(q, t, [row[t] EXCEPT !.status = "QUALIFYING"], "save", None)
<1>1. "QUALIFYING" \in Tender!Status
    BY DEF Tender!Status
<1>q. QED
    BY <1>1, TenderRowSound, TenderWithStatus, TenderSaveBegins DEF Tender!Promote

LEMMA TenderReviewBegins ==
    ASSUME Tender!IInv, NEW q \in TenderRequests, NEW t \in Tenders, Tender!Review(q, t)
    PROVE  Begins(q, t, row[t], "save", None)
    BY TenderRowSound, TenderSaveBegins DEF Tender!Review

LEMMA TenderRecordOutcomeBegins ==
    ASSUME Tender!IInv, NEW q \in TenderRequests, NEW t \in Tenders, NEW result \in Tender!Result,
           Tender!RecordOutcome(q, t, result)
    PROVE  Begins(q, t, [row[t] EXCEPT !.status = result], "outcome", result)
<1> DEFINE c == [row[t] EXCEPT !.status = result]
<1>1. result \in Tender!Status /\ result # None
    BY TendersAssumed DEF Tender!Status
<1>2. /\ Tender!Exists(t) /\ Tender!Fresh(q) /\ Tender!CanTransition(row[t].status, result)
      /\ UNCHANGED Tender!tables
      /\ Tender!WorksOn(q, t, c, "outcome", result)
    BY DEF Tender!RecordOutcome, Tender!TakesCopy
<1>3. row[t].status # "WON"
    BY <1>1, <1>2, TenderNothingFollowsWon
<1>4. /\ disturbed \subseteq disturbed' /\ disturbed' \subseteq Tenders
      /\ t \notin disturbed' => ~Tender!Held(q, t)
    BY TenderDisturbance DEF Tender!RecordOutcome, Tender!TakesCopy, Tender!IInv, Tender!TypeOK
<1>5. c \in Tender!Row /\ c.status = result /\ c.score = row[t].score
    BY <1>1, <1>2, TenderRowSound, TenderWithStatus
<1> HIDE DEF c
<1>6. Begins(q, t, c, "outcome", result)
    BY <1>1, <1>2, <1>3, <1>4, <1>5, TenderFreshHasNoProject, TenderRowSound DEF Begins
<1>q. QED
    BY <1>6 DEF c

LEMMA TenderSetScoreBegins ==
    ASSUME Tender!IInv, NEW q \in TenderRequests, Tender!SetScore(q)
    PROVE  Begins(q, req[q].tender, [row[req[q].tender] EXCEPT !.score = q], "save", None)
<1> DEFINE t == req[q].tender
           c == [row[t] EXCEPT !.score = q]
<1>1. /\ t \in Tenders /\ scores[q] = t /\ Tender!Exists(t) /\ UNCHANGED Tender!tables
      /\ req[q] # None /\ req[q].at = "denorm" /\ Tender!WorksOn(q, t, c, "save", None)
    BY DEF Tender!SetScore, Tender!TakesCopy, Tender!IInv, Tender!TypeOK, Tender!Request, Tender!CopiesSound,
       Tender!CopySound
<1>2. /\ disturbed \subseteq disturbed' /\ disturbed' \subseteq Tenders
      /\ t \notin disturbed' => ~Tender!Held(q, t)
    BY <1>1, TenderDisturbance DEF Tender!SetScore, Tender!TakesCopy, Tender!IInv, Tender!TypeOK
<1>3. c \in Tender!Row /\ c.status = row[t].status /\ c.score = q
    BY <1>1, TenderRowSound, TenderWithScore
<1> HIDE DEF c, t
<1>4. Begins(q, t, c, "save", None)
    BY <1>1, <1>2, <1>3 DEF Begins
<1>q. QED
    BY <1>4 DEF c, t

-----------------------------------------------------------------------------
(* The inductive step for them. *)

LEMMA TenderBeginsKeepsInv ==
    ASSUME Tender!IInv, NEW q \in TenderRequests, NEW t \in Tenders, NEW r, NEW at, NEW result,
           Begins(q, t, r, at, result)
    PROVE  Tender!IInv'
<1>0. req' = [req EXCEPT ![q] = [at |-> at, tender |-> t, row |-> r, result |-> result]]
    BY DEF Begins, Tender!WorksOn
<1>a. /\ \A p \in TenderRequests \ {q} : req'[p] = req[p]
      /\ req'[q] = [at |-> at, tender |-> t, row |-> r, result |-> result]
    BY <1>0 DEF Tender!IInv, Tender!TypeOK
<1>b. UNCHANGED Tender!tables /\ r \in Tender!Row /\ at \in {"outcome", "save"}
      /\ result \in Tender!Result \cup {None}
    BY DEF Begins
<1>1. Tender!TypeOK'
    BY <1>0, <1>b DEF Tender!IInv, Tender!TypeOK, Tender!Request, Begins, Tender!tables
<1>2. Tender!ProjectsEarned' /\ Tender!ScoresInHistory'
    BY <1>b DEF Tender!IInv, Tender!ProjectsEarned, Tender!ScoresInHistory, Tender!Won, Tender!Exists, Tender!tables
<1>3. Tender!CopiesSound'
  <2> SUFFICES ASSUME NEW p \in TenderRequests PROVE Tender!CopySound(p)'
      BY DEF Tender!CopiesSound
  <2>1. CASE p # q
      BY <1>a, <1>b, <2>1
      DEF Tender!IInv, Tender!CopiesSound, Tender!CopySound, Tender!Winning, Tender!Won, Tender!tables
  <2>2. CASE p = q
      BY <1>a, <1>b, <2>2, TendersAssumed DEF Tender!CopySound, Begins, Tender!Winning, Tender!tables, Tender!Result
  <2>q. QED
      BY <2>1, <2>2
<1>4. Tender!BookedOnce'
  <2> SUFFICES ASSUME NEW u \in Tenders \ disturbed' PROVE Tender!BookedOnceFor(u)'
      BY DEF Tender!BookedOnce
  <2>1. Tender!BookedOnceFor(u)
      BY DEF Tender!IInv, Tender!BookedOnce, Begins
  <2>2. \A p \in TenderRequests : Tender!Books(p, u)' <=> Tender!Books(p, u)
      BY <1>a, <1>b DEF Begins, Tender!Books, Tender!tables, Tender!IInv, Tender!TracesKept
  <2>3. CASE u # t
    <3>1. \A p \in TenderRequests : Tender!Holds(p, u)' => Tender!Holds(p, u) /\ req'[p] = req[p]
        BY <1>a, <2>3 DEF Tender!Holds
    <3>q. QED
        BY <2>1, <2>2, <3>1, <1>b DEF Tender!BookedOnceFor, Tender!Exists, Tender!tables
  <2>4. CASE u = t
    <3>1. \A p \in TenderRequests : Tender!Holds(p, u)' => p = q
        BY <1>a, <2>4 DEF Begins, Tender!Held, Tender!Holds
    <3>2. (\E p \in TenderRequests : Tender!Books(p, u)) => r.status = "WON" /\ result = None
        BY <2>1, <2>4 DEF Begins, Tender!BookedOnceFor
    <3>q. QED
        BY <2>1, <2>2, <3>1, <3>2, <1>a, <1>b DEF Tender!BookedOnceFor, Tender!Exists, Tender!tables
  <2>q. QED
      BY <2>3, <2>4
<1>5. Tender!TracesKept'
    BY <1>a, <1>b DEF Begins, Tender!IInv, Tender!TracesKept, Tender!tables, Tender!Exists
<1>q. QED
    BY <1>1, <1>2, <1>3, <1>4, <1>5 DEF Tender!IInv

-----------------------------------------------------------------------------
(* The inductive step for the others. *)

\* A step that leaves no more copies, books no more, and keeps the rows, or
\* changes those that no project depends on, keeps BookedOnce.
LEMMA TenderBookedOnceShrinks ==
    ASSUME Tender!IInv, disturbed' = disturbed,
           \A u \in Tenders \ disturbed : \A p \in TenderRequests :
              /\ Tender!Books(p, u)' => Tender!Books(p, u)
              /\ Tender!Holds(p, u)' => Tender!Holds(p, u) /\ req'[p].row = req[p].row
                                            /\ req'[p].result = req[p].result
              /\ Tender!Books(p, u) /\ Tender!Exists(u)' => Tender!Exists(u) /\ row'[u] = row[u]
    PROVE  Tender!BookedOnce'
<1> SUFFICES ASSUME NEW u \in Tenders \ disturbed PROVE Tender!BookedOnceFor(u)'
    BY DEF Tender!BookedOnce
<1>1. Tender!BookedOnceFor(u)
    BY DEF Tender!IInv, Tender!BookedOnce
<1>q. QED
    BY <1>1 DEF Tender!BookedOnceFor

\* What is booked or worked on has been inserted.
LEMMA TenderBookedUsed ==
    ASSUME Tender!IInv, NEW p \in TenderRequests, NEW u \in Tenders, Tender!Books(p, u)
    PROVE  u \in used
    BY TendersAssumed DEF Tender!IInv, Tender!TracesKept, Tender!Books

LEMMA TenderInsertKeepsInv ==
    ASSUME Tender!IInv, NEW t \in Tenders, NEW r \in Tender!Row, r.score = None, Tender!Insert(t, r)
    PROVE  Tender!IInv'
<1>1. Tender!TypeOK'
    BY DEF Tender!IInv, Tender!TypeOK, Tender!Insert
<1>2. Tender!ProjectsEarned' /\ Tender!ScoresInHistory' /\ Tender!CopiesSound' /\ Tender!TracesKept'
    BY DEF Tender!IInv, Tender!TypeOK, Tender!Insert, Tender!ProjectsEarned, Tender!ScoresInHistory,
       Tender!CopiesSound, Tender!CopySound,
           Tender!TracesKept, Tender!Winning, Tender!Won, Tender!Exists
<1>3. Tender!BookedOnce'
  <2>1. \A u \in Tenders : Tender!Exists(u)' /\ u \in used => Tender!Exists(u) /\ row'[u] = row[u]
      BY DEF Tender!Insert, Tender!Exists, Tender!IInv, Tender!TypeOK
  <2>q. QED
      BY <2>1, TenderBookedUsed, TenderBookedOnceShrinks DEF Tender!Insert, Tender!Books, Tender!Holds
<1>q. QED
    BY <1>1, <1>2, <1>3 DEF Tender!IInv

LEMMA TenderDeleteKeepsInv ==
    ASSUME Tender!IInv, NEW t \in Tenders, Tender!Delete(t)
    PROVE  Tender!IInv'
<1>1. Tender!TypeOK'
    BY DEF Tender!IInv, Tender!TypeOK, Tender!Delete
<1>2. Tender!ProjectsEarned' /\ Tender!ScoresInHistory' /\ Tender!CopiesSound' /\ Tender!TracesKept'
    BY DEF Tender!IInv, Tender!TypeOK, Tender!Delete, Tender!ProjectsEarned, Tender!ScoresInHistory,
       Tender!CopiesSound, Tender!CopySound,
           Tender!TracesKept, Tender!Winning, Tender!Won, Tender!Exists
<1>3. Tender!BookedOnce'
  <2>1. \A u \in Tenders : Tender!Exists(u)' => Tender!Exists(u) /\ row'[u] = row[u]
      BY DEF Tender!Delete, Tender!Exists, Tender!IInv, Tender!TypeOK
  <2>q. QED
      BY <2>1, TenderBookedOnceShrinks DEF Tender!Delete, Tender!Books, Tender!Holds
<1>q. QED
    BY <1>1, <1>2, <1>3 DEF Tender!IInv

LEMMA TenderDeleteProjectKeepsInv ==
    ASSUME Tender!IInv, NEW q \in TenderRequests, Tender!DeleteProject(q)
    PROVE  Tender!IInv'
<1>0. \A p \in TenderRequests : projects'[p] \in {projects[p], None}
    BY DEF Tender!DeleteProject, Tender!IInv, Tender!TypeOK
<1>1. Tender!TypeOK'
    BY DEF Tender!IInv, Tender!TypeOK, Tender!DeleteProject
<1>2. Tender!ProjectsEarned' /\ Tender!ScoresInHistory' /\ Tender!CopiesSound' /\ Tender!TracesKept'
    BY <1>0 DEF Tender!IInv, Tender!DeleteProject, Tender!ProjectsEarned, Tender!ScoresInHistory,
       Tender!CopiesSound,
           Tender!CopySound, Tender!TracesKept, Tender!Winning, Tender!Won, Tender!Exists
<1>3. Tender!BookedOnce'
    BY <1>0, TenderBookedOnceShrinks, TendersAssumed
    DEF Tender!DeleteProject, Tender!Books, Tender!Holds, Tender!Exists
<1>q. QED
    BY <1>1, <1>2, <1>3 DEF Tender!IInv

LEMMA TenderScoreTargetKeepsInv ==
    ASSUME Tender!IInv, NEW q \in TenderRequests, NEW t \in Tenders, Tender!ScoreTarget(q, t)
    PROVE  Tender!IInv'
<1>0. /\ \A p \in TenderRequests \ {q} : req'[p] = req[p]
      /\ req'[q] = [at |-> "score", tender |-> t, row |-> None, result |-> None]
      /\ req[q] = None /\ projects[q] = None /\ scores[q] = None /\ Tender!Exists(t)
      /\ UNCHANGED <<Tender!tables, disturbed>>
    BY TenderFreshHasNoProject DEF Tender!ScoreTarget, Tender!WorksOn, Tender!Fresh, Tender!IInv, Tender!TypeOK
<1>1. Tender!TypeOK'
    BY <1>0 DEF Tender!IInv, Tender!TypeOK, Tender!ScoreTarget, Tender!WorksOn, Tender!Request, Tender!tables
<1>2. Tender!ProjectsEarned' /\ Tender!ScoresInHistory'
    BY <1>0 DEF Tender!IInv, Tender!ProjectsEarned, Tender!ScoresInHistory, Tender!Won, Tender!Exists, Tender!tables
<1>3. Tender!CopiesSound'
    BY <1>0, TendersAssumed
    DEF Tender!IInv, Tender!CopiesSound, Tender!CopySound, Tender!Winning, Tender!Won, Tender!tables, Tender!Result
<1>4. Tender!BookedOnce'
    BY <1>0, TenderBookedOnceShrinks DEF Tender!Books, Tender!Holds, Tender!Exists, Tender!tables
<1>5. Tender!TracesKept'
    BY <1>0 DEF Tender!IInv, Tender!TracesKept, Tender!Exists, Tender!tables
<1>q. QED
    BY <1>1, <1>2, <1>3, <1>4, <1>5 DEF Tender!IInv

LEMMA TenderFailsKeepsInv ==
    ASSUME Tender!IInv, NEW q \in TenderRequests, Tender!Fails(q)
    PROVE  Tender!IInv'
<1>0. /\ \A p \in TenderRequests \ {q} : req'[p] = req[p]
      /\ req'[q] = None /\ UNCHANGED <<Tender!tables, disturbed>>
    BY DEF Tender!Fails, Tender!Ends, Tender!IInv, Tender!TypeOK
<1>1. Tender!TypeOK'
    BY <1>0 DEF Tender!IInv, Tender!TypeOK, Tender!Fails, Tender!Ends, Tender!tables
<1>2. Tender!ProjectsEarned' /\ Tender!ScoresInHistory' /\ Tender!CopiesSound' /\ Tender!TracesKept'
    BY <1>0 DEF Tender!IInv, Tender!ProjectsEarned, Tender!ScoresInHistory, Tender!CopiesSound,
       Tender!CopySound, Tender!TracesKept,
           Tender!Winning, Tender!Won, Tender!Exists, Tender!tables
<1>3. Tender!BookedOnce'
    BY <1>0, TenderBookedOnceShrinks DEF Tender!Books, Tender!Holds, Tender!Exists, Tender!tables
<1>q. QED
    BY <1>1, <1>2, <1>3 DEF Tender!IInv

-----------------------------------------------------------------------------
(* The writes. *)

\* A request that goes on to its next write keeps its tender and its copy.
LEMMA TenderMoveFacts ==
    ASSUME Tender!TypeOK, NEW q \in TenderRequests, req[q] # None, NEW at, Tender!Moves(q, at)
    PROVE  /\ \A p \in TenderRequests \ {q} : req'[p] = req[p]
           /\ req[q] \in Tender!Request /\ req'[q] = [req[q] EXCEPT !.at = at]
    BY DEF Tender!Moves, Tender!TypeOK

LEMMA TenderInsertOutcomeKeepsInv ==
    ASSUME Tender!IInv, NEW q \in TenderRequests, Tender!InsertOutcome(q)
    PROVE  Tender!IInv'
<1> DEFINE o == [tender |-> req[q].tender, result |-> req[q].result]
<1>0. /\ \A p \in TenderRequests \ {q} : req'[p] = req[p] /\ outcomes'[p] = outcomes[p]
      /\ req[q] # None /\ req[q] \in Tender!Request /\ req[q].at = "outcome"
      /\ req'[q] = [req[q] EXCEPT !.at = "save"]
      /\ outcomes' = [outcomes EXCEPT ![q] = o] /\ outcomes'[q] = o
      /\ req[q].result # None /\ projects[q] = None
      /\ UNCHANGED <<row, used, scores, projects, disturbed>>
    BY TenderMoveFacts
    DEF Tender!InsertOutcome, Tender!IInv, Tender!TypeOK, Tender!CopiesSound, Tender!CopySound, Tender!TracesKept
<1>1. Tender!TypeOK'
  <2>1. req' \in [TenderRequests -> Tender!Request \cup {None}]
      BY <1>0 DEF Tender!IInv, Tender!TypeOK, Tender!Request, Tender!InsertOutcome, Tender!Moves
  <2>2. o \in Tender!Outcome
      BY <1>0 DEF Tender!Request, Tender!Outcome
  <2>q. QED
      BY <1>0, <2>1, <2>2 DEF Tender!IInv, Tender!TypeOK
<1>2. Tender!ProjectsEarned' /\ Tender!ScoresInHistory' /\ Tender!TracesKept'
    BY <1>0 DEF Tender!IInv, Tender!ProjectsEarned, Tender!ScoresInHistory, Tender!TracesKept, Tender!Won,
       Tender!Exists, Tender!Request
<1>3. Tender!CopiesSound'
  <2> SUFFICES ASSUME NEW p \in TenderRequests PROVE Tender!CopySound(p)'
      BY DEF Tender!CopiesSound
  <2>1. Tender!CopySound(p)
      BY DEF Tender!IInv, Tender!CopiesSound
  <2>2. CASE p # q
      BY <1>0, <2>1, <2>2 DEF Tender!CopySound, Tender!Winning, Tender!Won
  <2>3. CASE p = q
      BY <1>0, <2>1, <2>3 DEF Tender!CopySound, Tender!Winning, Tender!Won, Tender!Request
  <2>q. QED
      BY <2>2, <2>3
<1>4. Tender!BookedOnce'
    BY <1>0, TenderBookedOnceShrinks DEF Tender!Books, Tender!Holds, Tender!Exists, Tender!Request
<1>q. QED
    BY <1>1, <1>2, <1>3, <1>4 DEF Tender!IInv

LEMMA TenderInsertScoreKeepsInv ==
    ASSUME Tender!IInv, NEW q \in TenderRequests, Tender!InsertScore(q)
    PROVE  Tender!IInv'
<1>0. /\ \A p \in TenderRequests \ {q} : req'[p] = req[p] /\ scores'[p] = scores[p]
      /\ req[q] # None /\ req[q] \in Tender!Request /\ req[q].at = "score"
      /\ req'[q] = [req[q] EXCEPT !.at = "denorm"]
      /\ scores[q] = None /\ scores'[q] = req[q].tender
      /\ UNCHANGED <<row, used, outcomes, projects, disturbed>>
    BY TenderMoveFacts DEF Tender!InsertScore, Tender!IInv, Tender!TypeOK, Tender!TracesKept
<1>1. Tender!TypeOK'
    BY <1>0 DEF Tender!IInv, Tender!TypeOK, Tender!Request, Tender!InsertScore, Tender!Moves
<1>2. Tender!ProjectsEarned' /\ Tender!TracesKept'
    BY <1>0 DEF Tender!IInv, Tender!ProjectsEarned, Tender!TracesKept, Tender!Won, Tender!Exists, Tender!Request
\* No row names q yet, for q has no score so far.
<1>3. Tender!ScoresInHistory'
    BY <1>0, TendersAssumed DEF Tender!IInv, Tender!TypeOK, Tender!ScoresInHistory, Tender!Exists, Tender!Row
<1>4. Tender!CopiesSound'
  <2> SUFFICES ASSUME NEW p \in TenderRequests PROVE Tender!CopySound(p)'
      BY DEF Tender!CopiesSound
  <2>1. Tender!CopySound(p)
      BY DEF Tender!IInv, Tender!CopiesSound
  <2>2. CASE p # q
    <3>1. req[p] # None /\ req[p].at \in {"outcome", "save"} /\ req[p].row.score # None
              => req[p].row.score # q
        BY <1>0, <2>1, TendersAssumed DEF Tender!CopySound, Tender!IInv, Tender!TypeOK, Tender!Request
    <3>2. req[p] # None /\ req[p].at \in {"outcome", "save"} /\ req[p].row.score # None
              => scores'[req[p].row.score] = req[p].tender
        BY <1>0, <2>1, <3>1 DEF Tender!CopySound, Tender!IInv, Tender!TypeOK, Tender!InsertScore
    <3>q. QED
        BY <1>0, <2>1, <2>2, <3>2 DEF Tender!CopySound, Tender!Winning, Tender!Won
  <2>3. CASE p = q
      BY <1>0, <2>1, <2>3 DEF Tender!CopySound, Tender!Winning, Tender!Won, Tender!Request
  <2>q. QED
      BY <2>2, <2>3
<1>5. Tender!BookedOnce'
    BY <1>0, TenderBookedOnceShrinks DEF Tender!Books, Tender!Holds, Tender!Exists, Tender!Request
<1>q. QED
    BY <1>1, <1>2, <1>3, <1>4, <1>5 DEF Tender!IInv

\* The copy that is saved fits the projects that its tender already has.
LEMMA TenderSaveKeepsInv ==
    ASSUME Tender!IInv, NEW q \in TenderRequests, Tender!Save(q)
    PROVE  Tender!IInv'
<1> DEFINE t == req[q].tender
           c == req[q].row
<1>0. /\ \A p \in TenderRequests \ {q} : req'[p] = req[p]
      /\ req[q] # None /\ req[q] \in Tender!Request /\ req[q].at = "save" /\ t \in Tenders
      /\ row' = [row EXCEPT ![t] = c]
      /\ UNCHANGED <<used, outcomes, scores, projects, disturbed>>
    BY DEF Tender!Save, Tender!Moves, Tender!Ends, Tender!IInv, Tender!TypeOK, Tender!Request
<1>a. /\ c \in Tender!Row /\ (c.score # None => scores[c.score] = t)
      /\ req[q].result # None => c.status = req[q].result
      /\ req[q].result = "WON" => Tender!Won(t, q)
      /\ t \in used
      /\ projects[q] = None
    BY <1>0 DEF Tender!IInv, Tender!CopiesSound, Tender!CopySound, Tender!TracesKept, Tender!Winning
<1>b. \/ req[q].result = "WON" /\ req'[q] = [req[q] EXCEPT !.at = "project"]
      \/ req[q].result # "WON" /\ req'[q] = None
    BY <1>0 DEF Tender!Save, Tender!Moves, Tender!Ends, Tender!IInv, Tender!TypeOK
<1>1. Tender!TypeOK'
  <2>1. req' \in [TenderRequests -> Tender!Request \cup {None}]
      BY <1>0 DEF Tender!Save, Tender!Moves, Tender!Ends, Tender!IInv, Tender!TypeOK, Tender!Request
  <2>q. QED
      BY <1>0, <1>a, <2>1 DEF Tender!IInv, Tender!TypeOK
<1>2. Tender!ProjectsEarned'
    BY <1>0 DEF Tender!IInv, Tender!ProjectsEarned, Tender!Won
<1>3. Tender!ScoresInHistory' /\ Tender!TracesKept'
    BY <1>0, <1>a, <1>b
    DEF Tender!IInv, Tender!TypeOK, Tender!ScoresInHistory, Tender!TracesKept, Tender!Exists, Tender!Request
<1>4. Tender!CopiesSound'
  <2> SUFFICES ASSUME NEW p \in TenderRequests PROVE Tender!CopySound(p)'
      BY DEF Tender!CopiesSound
  <2>1. CASE p # q
      BY <1>0, <2>1 DEF Tender!IInv, Tender!CopiesSound, Tender!CopySound, Tender!Winning, Tender!Won
  <2>2. CASE p = q
      BY <1>0, <1>a, <1>b, <2>2 DEF Tender!CopySound, Tender!Winning, Tender!Won, Tender!Request
  <2>q. QED
      BY <2>1, <2>2
<1>5. Tender!BookedOnce'
  <2> SUFFICES ASSUME NEW u \in Tenders \ disturbed PROVE Tender!BookedOnceFor(u)'
      BY <1>0 DEF Tender!BookedOnce
  <2>1. Tender!BookedOnceFor(u) /\ Tender!Holds(q, t)
      BY <1>0 DEF Tender!IInv, Tender!BookedOnce, Tender!Holds
  <2>2. \A p \in TenderRequests : Tender!Holds(p, u)' => p # q /\ Tender!Holds(p, u) /\ req'[p] = req[p]
      BY <1>0, <1>b DEF Tender!Holds, Tender!Request
  <2>3. \A p \in TenderRequests \ {q} : Tender!Books(p, u)' <=> Tender!Books(p, u)
      BY <1>0 DEF Tender!Books
  <2>4. CASE u # t
    <3>1. row'[u] = row[u]
        BY <1>0, <2>4 DEF Tender!IInv, Tender!TypeOK
    <3>2. ~Tender!Books(q, u)'
        BY <1>0, <1>a, <1>b, <2>4, TendersAssumed DEF Tender!Books, Tender!Request
    <3>q. QED
        BY <2>1, <2>2, <2>3, <3>1, <3>2 DEF Tender!BookedOnceFor, Tender!Exists
  <2>5. CASE u = t
    <3>1. row'[u] = c
        BY <1>0, <2>5 DEF Tender!IInv, Tender!TypeOK
    <3>2. \A p \in TenderRequests : ~Tender!Holds(p, u)'
        BY <2>1, <2>2, <2>5 DEF Tender!BookedOnceFor
    \* A win is saved only while no project is booked.
    <3>3. \A p \in TenderRequests : Tender!Books(p, u) => c.status = "WON" /\ req[q].result = None
        BY <2>1, <2>5 DEF Tender!BookedOnceFor
    <3>4. CASE req[q].result = "WON"
      <4>1. c.status = "WON" /\ \A p \in TenderRequests : ~Tender!Books(p, u)
          BY <1>a, <3>3, <3>4, TendersAssumed DEF Tender!Result
      <4>q. QED
          BY <2>3, <3>1, <3>2, <4>1 DEF Tender!BookedOnceFor
    <3>5. CASE req[q].result # "WON"
      <4>1. ~Tender!Books(q, u)'
          BY <1>0, <1>a, <1>b, <3>5, TendersAssumed DEF Tender!Books
      <4>q. QED
          BY <2>1, <2>3, <3>1, <3>2, <3>3, <4>1 DEF Tender!BookedOnceFor
    <3>q. QED
        BY <3>4, <3>5
  <2>q. QED
      BY <2>4, <2>5
<1>q. QED
    BY <1>1, <1>2, <1>3, <1>4, <1>5 DEF Tender!IInv

LEMMA TenderCreateProjectKeepsInv ==
    ASSUME Tender!IInv, NEW q \in TenderRequests, Tender!CreateProject(q)
    PROVE  Tender!IInv'
<1>0. /\ \A p \in TenderRequests \ {q} : req'[p] = req[p] /\ projects'[p] = projects[p]
      /\ req[q] # None /\ req[q] \in Tender!Request /\ req[q].at = "project"
      /\ req'[q] = None /\ projects'[q] = req[q].tender
      /\ Tender!Won(req[q].tender, q) /\ req[q].tender \in used
      /\ UNCHANGED <<row, used, outcomes, scores, disturbed>>
    BY DEF Tender!CreateProject, Tender!Ends, Tender!IInv, Tender!TypeOK, Tender!Request, Tender!CopiesSound,
       Tender!CopySound, Tender!Winning,
           Tender!TracesKept
<1>1. Tender!TypeOK'
    BY <1>0 DEF Tender!CreateProject, Tender!Ends, Tender!IInv, Tender!TypeOK, Tender!Request
<1>2. Tender!ProjectsEarned' /\ Tender!ScoresInHistory' /\ Tender!TracesKept'
    BY <1>0 DEF Tender!IInv, Tender!ProjectsEarned, Tender!ScoresInHistory, Tender!TracesKept, Tender!Won,
       Tender!Exists
<1>3. Tender!CopiesSound'
    BY <1>0 DEF Tender!IInv, Tender!CopiesSound, Tender!CopySound, Tender!Winning, Tender!Won
<1>4. Tender!BookedOnce'
    BY <1>0, TenderBookedOnceShrinks DEF Tender!Books, Tender!Holds, Tender!Exists
<1>q. QED
    BY <1>1, <1>2, <1>3, <1>4 DEF Tender!IInv

-----------------------------------------------------------------------------

LEMMA TenderInitInv == Tender!Init => Tender!IInv
    BY TendersAssumed
    DEF Tender!Init, Tender!IInv, Tender!TypeOK, Tender!ProjectsEarned, Tender!ScoresInHistory,
        Tender!CopiesSound, Tender!CopySound,
        Tender!BookedOnce, Tender!BookedOnceFor, Tender!Books, Tender!Holds, Tender!TracesKept, Tender!Exists

LEMMA TenderNextInv == Tender!IInv /\ [Tender!Next]_(Tender!vars) => Tender!IInv'
<1> SUFFICES ASSUME Tender!IInv, [Tender!Next]_(Tender!vars) PROVE Tender!IInv'
    OBVIOUS
<1>1. CASE UNCHANGED Tender!vars
    BY <1>1 DEF Tender!vars, Tender!tables, Tender!IInv, Tender!TypeOK, Tender!ProjectsEarned,
       Tender!ScoresInHistory, Tender!CopiesSound,
                Tender!CopySound, Tender!Winning, Tender!Won, Tender!BookedOnce, Tender!BookedOnceFor,
                Tender!Books, Tender!Holds,
                Tender!TracesKept, Tender!Exists
<1>2. ASSUME NEW t \in Tenders, Tender!Create(t) PROVE Tender!IInv'
  <2>1. PICK s \in Tender!Status :
            Tender!Insert(t, [status |-> s, discovery |-> FALSE, score |-> None])
      BY <1>2 DEF Tender!Create
  <2>q. QED
      BY <2>1, TenderInsertKeepsInv DEF Tender!Row
<1>3. ASSUME NEW t \in Tenders, Tender!CreateDiscovery(t) PROVE Tender!IInv'
    BY <1>3, TenderInsertKeepsInv DEF Tender!CreateDiscovery, Tender!Row, Tender!Status
<1>4. ASSUME NEW q \in TenderRequests, NEW t \in Tenders, Tender!Starts(q, t) PROVE Tender!IInv'
  <2>1. ASSUME NEW s \in Tender!Status, Tender!Update(q, t, s) \/ Tender!UpdateStatus(q, t, s) PROVE Tender!IInv'
      BY <2>1, TenderUpdateBegins, TenderUpdateStatusBegins, TenderBeginsKeepsInv
  <2>2. CASE Tender!Promote(q, t)
      BY <2>2, TenderPromoteBegins, TenderBeginsKeepsInv
  <2>3. CASE Tender!Review(q, t)
      BY <2>3, TenderReviewBegins, TenderBeginsKeepsInv
  <2>4. ASSUME NEW result \in Tender!Result, Tender!RecordOutcome(q, t, result) PROVE Tender!IInv'
      BY <2>4, TenderRecordOutcomeBegins, TenderBeginsKeepsInv
  <2>q. QED
      BY <1>4, <2>1, <2>2, <2>3, <2>4, TenderScoreTargetKeepsInv DEF Tender!Starts
<1>5. ASSUME NEW q \in TenderRequests, Tender!Goes(q) PROVE Tender!IInv'
  <2>1. CASE Tender!SetScore(q)
    <3>1. req[q].tender \in Tenders
        BY <2>1 DEF Tender!SetScore, Tender!IInv, Tender!TypeOK, Tender!Request
    <3>q. QED
        BY <2>1, <3>1, TenderSetScoreBegins, TenderBeginsKeepsInv
  <2>q. QED
      BY <1>5, <2>1, TenderInsertOutcomeKeepsInv, TenderSaveKeepsInv, TenderCreateProjectKeepsInv,
         TenderInsertScoreKeepsInv, TenderFailsKeepsInv DEF Tender!Goes
<1>q. QED
    BY <1>1, <1>2, <1>3, <1>4, <1>5, TenderDeleteKeepsInv, TenderDeleteProjectKeepsInv DEF Tender!Next

\* An undisturbed tender has at most one project, because its projects are booked.
LEMMA TenderOneProject == ASSUME Tender!IInv PROVE Tender!OneProjectUndisturbed
<1> SUFFICES ASSUME NEW p \in TenderRequests, NEW q \in TenderRequests,
                    projects[p] # None, projects[p] = projects[q],
                    projects[p] \notin disturbed
             PROVE  p = q
    BY DEF Tender!OneProjectUndisturbed
<1>1. projects[p] \in Tenders \ disturbed
    BY DEF Tender!IInv, Tender!TypeOK
<1>q. QED
    BY <1>1 DEF Tender!IInv, Tender!BookedOnce, Tender!BookedOnceFor, Tender!Books

-----------------------------------------------------------------------------
(* Prospects and their outcomes *)

LEMMA ProspectsAssumed ==
    /\ Events \subseteq Sources
    /\ None \notin Prospects \cup Sources \cup ProspectRequests \cup Prospect!Stage \cup Prospect!Row
                     \cup Prospect!Outcome
    BY ServicesAssumption DEF Prospect!ProspectsAssumption

(* What never gets lost. *)

\* Nothing takes an outcome or the stage of birth away.
Grows ==
    /\ \A p \in Prospects : born'[p] = born[p] \/ born[p] = None
    /\ \A q \in ProspectRequests : outcomes'[q] = outcomes[q] \/ outcomes[q] = None

LEMMA ProspectRecordedForGood ==
    ASSUME Grows, NEW p \in Prospects, NEW s, Prospect!Recorded(p, s)
    PROVE  Prospect!Recorded(p, s)'
    BY ProspectsAssumed DEF Grows, Prospect!Recorded, Prospect!Outcome, Prospect!Stage

\* A request that has its copy unchanged keeps its soundness.
LEMMA ProspectCopyStaysSound ==
    ASSUME Grows, NEW q \in ProspectRequests, Prospect!CopySound(q), req'[q] = req[q],
           outcomes'[q] = outcomes[q],
           \A p \in Prospects : born[p] # None => born'[p] # None
    PROVE  Prospect!CopySound(q)'
    BY ProspectRecordedForGood DEF Prospect!CopySound

\* Writing an accepted row keeps the sources apart.
LEMMA ProspectAcceptedSource ==
    ASSUME Prospect!TypeOK, Prospect!OneProspectPerSource, NEW p \in Prospects, NEW r \in Prospect!Row,
           Prospect!Accepts(p, r),
           row' = [row EXCEPT ![p] = r]
    PROVE  Prospect!OneProspectPerSource'
    BY DEF Prospect!TypeOK, Prospect!OneProspectPerSource, Prospect!Accepts, Prospect!Exists

-----------------------------------------------------------------------------
(* The steps that insert or delete. *)

LEMMA ProspectInsertKeepsRows ==
    ASSUME Prospect!IInv, NEW p \in Prospects, NEW r \in Prospect!Row, Prospect!Insert(p, r),
           outcomes' = outcomes,
           \A q \in ProspectRequests : req'[q] = req[q] \/ req'[q] = None
    PROVE  /\ row' \in [Prospects -> Prospect!Row \cup {None}]
           /\ born' \in [Prospects -> Prospect!Stage \cup {None}]
           /\ Prospect!ClosedIsRecorded' /\ Prospect!OneProspectPerSource'
           /\ Prospect!CopiesSound' /\ Prospect!RowsBorn'
<1>0. /\ row' = [row EXCEPT ![p] = r] /\ born' = [born EXCEPT ![p] = r.stage]
      /\ born[p] = None /\ Prospect!Accepts(p, r) /\ r.stage \in Prospect!Stage /\ r.stage # None
      /\ \A x \in Prospects \ {p} : row'[x] = row[x] /\ born'[x] = born[x]
      /\ row'[p] = r /\ born'[p] = r.stage
    BY ProspectsAssumed DEF Prospect!Insert, Prospect!IInv, Prospect!TypeOK, Prospect!Row, Prospect!Stage
<1>1. row' \in [Prospects -> Prospect!Row \cup {None}] /\ born' \in [Prospects -> Prospect!Stage \cup {None}]
    BY <1>0 DEF Prospect!IInv, Prospect!TypeOK
<1>2. Grows
    BY <1>0 DEF Grows
<1>3. Prospect!ClosedIsRecorded'
  <2> SUFFICES ASSUME NEW x \in Prospects, Prospect!Exists(x)' PROVE Prospect!Recorded(x, row[x].stage)'
      BY DEF Prospect!ClosedIsRecorded
  <2>1. CASE x = p
      BY <1>0, <2>1 DEF Prospect!Recorded
  <2>2. CASE x # p
      BY <1>0, <1>2, <2>2, ProspectRecordedForGood DEF Prospect!IInv, Prospect!ClosedIsRecorded, Prospect!Exists
  <2>q. QED
      BY <2>1, <2>2
<1>4. Prospect!OneProspectPerSource'
    BY <1>0, ProspectAcceptedSource DEF Prospect!IInv
<1>5. Prospect!CopiesSound' /\ Prospect!RowsBorn'
  <2>1. Prospect!CopiesSound'
    <3> SUFFICES ASSUME NEW q \in ProspectRequests PROVE Prospect!CopySound(q)'
        BY DEF Prospect!CopiesSound
    <3>1. CASE req'[q] = req[q]
        BY <1>0, <1>2, <3>1, ProspectCopyStaysSound DEF Prospect!IInv, Prospect!CopiesSound
    <3>2. CASE req'[q] = None
        BY <3>2 DEF Prospect!CopySound
    <3>q. QED
        BY <3>1, <3>2
  <2>2. Prospect!RowsBorn'
      BY <1>0 DEF Prospect!IInv, Prospect!RowsBorn, Prospect!Exists
  <2>q. QED
      BY <2>1, <2>2
<1>q. QED
    BY <1>1, <1>3, <1>4, <1>5

LEMMA ProspectCreateKeepsInv ==
    ASSUME Prospect!IInv, NEW p \in Prospects, NEW r \in Prospect!Row, Prospect!Create(p, r)
    PROVE  Prospect!IInv'
<1>1. Prospect!TypeOK' /\ Prospect!ClosedIsRecorded' /\ Prospect!OneProspectPerSource'
      /\ Prospect!CopiesSound' /\ Prospect!RowsBorn'
    BY ProspectInsertKeepsRows DEF Prospect!Create, Prospect!IInv, Prospect!TypeOK
<1>q. QED
    BY <1>1 DEF Prospect!IInv

LEMMA ProspectInsertConvertedKeepsInv ==
    ASSUME Prospect!IInv, NEW q \in ProspectRequests, NEW p \in Prospects, Prospect!InsertConverted(q, p)
    PROVE  Prospect!IInv'
<1>1. req[q].row \in Prospect!Row /\ Prospect!Insert(p, req[q].row)
    BY DEF Prospect!InsertConverted, Prospect!IInv, Prospect!TypeOK, Prospect!Request
<1>2. /\ req' \in [ProspectRequests -> Prospect!Request \cup {None}]
      /\ \A o \in ProspectRequests : req'[o] = req[o] \/ req'[o] = None
    BY DEF Prospect!InsertConverted, Prospect!Ends, Prospect!IInv, Prospect!TypeOK
<1>3. Prospect!TypeOK' /\ Prospect!ClosedIsRecorded' /\ Prospect!OneProspectPerSource'
      /\ Prospect!CopiesSound' /\ Prospect!RowsBorn'
    BY <1>1, <1>2, ProspectInsertKeepsRows DEF Prospect!InsertConverted, Prospect!IInv, Prospect!TypeOK
<1>q. QED
    BY <1>3 DEF Prospect!IInv

\* A step that adds no row, no outcome and no work.
LEMMA ProspectLosingKeepsInv ==
    ASSUME Prospect!IInv, Prospect!TypeOK', UNCHANGED <<born, outcomes>>,
           \A p \in Prospects : row'[p] = row[p] \/ row'[p] = None,
           \A q \in ProspectRequests : req'[q] = req[q] \/ req'[q] = None
    PROVE  Prospect!IInv'
<1>1. Grows
    BY DEF Grows
<1>2. Prospect!ClosedIsRecorded'
    BY DEF Prospect!IInv, Prospect!ClosedIsRecorded, Prospect!Recorded, Prospect!Exists
<1>5. Prospect!OneProspectPerSource'
    BY DEF Prospect!IInv, Prospect!OneProspectPerSource, Prospect!Exists
<1>3. Prospect!CopiesSound'
    BY <1>1 DEF Prospect!IInv, Prospect!CopiesSound, Prospect!CopySound, Prospect!Recorded
<1>4. Prospect!RowsBorn'
    BY DEF Prospect!IInv, Prospect!RowsBorn, Prospect!Exists
<1>q. QED
    BY <1>2, <1>3, <1>4, <1>5 DEF Prospect!IInv

LEMMA ProspectDeleteKeepsInv ==
    ASSUME Prospect!IInv, NEW p \in Prospects, Prospect!Delete(p)
    PROVE  Prospect!IInv'
<1>1. Prospect!TypeOK' /\ \A x \in Prospects : row'[x] = row[x] \/ row'[x] = None
    BY DEF Prospect!Delete, Prospect!IInv, Prospect!TypeOK
<1>q. QED
    BY <1>1, ProspectLosingKeepsInv DEF Prospect!Delete

LEMMA ProspectDeleteEventKeepsInv ==
    ASSUME Prospect!IInv, NEW e \in Events, Prospect!DeleteEvent(e)
    PROVE  Prospect!IInv'
<1>1. Prospect!TypeOK'
    BY DEF Prospect!DeleteEvent, Prospect!IInv, Prospect!TypeOK
<1>q. QED
    BY <1>1, ProspectLosingKeepsInv DEF Prospect!DeleteEvent

LEMMA ProspectFailsKeepsInv ==
    ASSUME Prospect!IInv, NEW q \in ProspectRequests, Prospect!Fails(q)
    PROVE  Prospect!IInv'
<1>1. Prospect!TypeOK' /\ \A o \in ProspectRequests : req'[o] = req[o] \/ req'[o] = None
    BY DEF Prospect!Fails, Prospect!Ends, Prospect!IInv, Prospect!TypeOK
<1>q. QED
    BY <1>1, ProspectLosingKeepsInv DEF Prospect!Fails

-----------------------------------------------------------------------------
(* The steps of a request that changes or converts. *)

LEMMA ProspectConvertKeepsInv ==
    ASSUME Prospect!IInv, NEW q \in ProspectRequests, NEW e \in Events, Prospect!Convert(q, e)
    PROVE  Prospect!IInv'
<1> DEFINE n == [at |-> "convert", prospect |-> None,
                 row |-> [stage |-> "OPEN", source |-> e], result |-> None]
<1>0. /\ req' = [req EXCEPT ![q] = n] /\ req'[q] = n
      /\ \A o \in ProspectRequests \ {q} : req'[o] = req[o]
      /\ UNCHANGED <<row, born, outcomes, events>>
    BY DEF Prospect!Convert, Prospect!IInv, Prospect!TypeOK
<1>1. n \in Prospect!Request
    BY ProspectsAssumed DEF Prospect!Request, Prospect!Row, Prospect!Stage
<1>2. Prospect!TypeOK'
    BY <1>0, <1>1 DEF Prospect!IInv, Prospect!TypeOK
<1>3. Prospect!ClosedIsRecorded' /\ Prospect!OneProspectPerSource' /\ Prospect!RowsBorn'
    BY <1>0 DEF Prospect!IInv, Prospect!ClosedIsRecorded, Prospect!Recorded, Prospect!OneProspectPerSource,
       Prospect!RowsBorn, Prospect!Exists
<1>5. Prospect!CopiesSound'
    BY <1>0 DEF Prospect!IInv, Prospect!CopiesSound, Prospect!CopySound, Prospect!Recorded
<1>q. QED
    BY <1>2, <1>3, <1>5 DEF Prospect!IInv

LEMMA ProspectUpdateKeepsInv ==
    ASSUME Prospect!IInv, NEW q \in ProspectRequests, NEW p \in Prospects, NEW r \in Prospect!Row,
           Prospect!Update(q, p, r)
    PROVE  Prospect!IInv'
<1> DEFINE result == Prospect!OutcomeOf(row[p].stage, r.stage)
           n == [at |-> IF result = None THEN "save" ELSE "outcome",
                 prospect |-> p, row |-> r, result |-> result]
<1>0. /\ req' = [req EXCEPT ![q] = n] /\ req'[q] = n /\ Prospect!Exists(p)
      /\ req[q] = None /\ outcomes[q] = None
      /\ \A o \in ProspectRequests \ {q} : req'[o] = req[o]
      /\ UNCHANGED <<row, born, outcomes, events>>
    BY DEF Prospect!Update, Prospect!Fresh, Prospect!IInv, Prospect!TypeOK
<1>a. /\ r.stage \in Prospect!Stage /\ row[p].stage \in Prospect!Stage /\ result \in Prospect!Result \cup {None}
      /\ result # None => result = r.stage /\ row[p].stage # result
      /\ result = None => r.stage \notin Prospect!Result \/ row[p].stage = r.stage
    BY <1>0, ProspectsAssumed
    DEF Prospect!OutcomeOf, Prospect!Row, Prospect!Stage, Prospect!Exists, Prospect!IInv, Prospect!TypeOK
<1> HIDE DEF result
<1>1. Prospect!TypeOK'
    BY <1>0, <1>a DEF Prospect!IInv, Prospect!TypeOK, Prospect!Request
<1>2. Prospect!ClosedIsRecorded' /\ Prospect!OneProspectPerSource' /\ Prospect!RowsBorn'
    BY <1>0 DEF Prospect!IInv, Prospect!ClosedIsRecorded, Prospect!Recorded, Prospect!OneProspectPerSource,
       Prospect!RowsBorn, Prospect!Exists
<1>5. Prospect!CopiesSound'
  <2> SUFFICES ASSUME NEW o \in ProspectRequests PROVE Prospect!CopySound(o)'
      BY DEF Prospect!CopiesSound
  <2>1. CASE o # q
      BY <1>0, <2>1 DEF Prospect!IInv, Prospect!CopiesSound, Prospect!CopySound, Prospect!Recorded
  <2>2. CASE o = q
    <3>1. born[p] # None
        BY <1>0 DEF Prospect!IInv, Prospect!RowsBorn
    \* A copy whose stage is not new is recorded because the row is.
    <3>2. result = None => Prospect!Recorded(p, r.stage)
        BY <1>0, <1>a DEF Prospect!IInv, Prospect!ClosedIsRecorded, Prospect!Recorded
    <3>q. QED
        BY <1>0, <1>a, <2>2, <3>1, <3>2 DEF Prospect!CopySound, Prospect!Recorded
  <2>q. QED
      BY <2>1, <2>2
<1>q. QED
    BY <1>1, <1>2, <1>5 DEF Prospect!IInv

LEMMA ProspectInsertOutcomeKeepsInv ==
    ASSUME Prospect!IInv, NEW q \in ProspectRequests, Prospect!InsertOutcome(q)
    PROVE  Prospect!IInv'
<1> DEFINE o == [prospect |-> req[q].prospect, result |-> req[q].result]
<1>0. /\ req[q] # None /\ req[q] \in Prospect!Request /\ req[q].at = "outcome"
      /\ req' = [req EXCEPT ![q].at = "save"] /\ req'[q] = [req[q] EXCEPT !.at = "save"]
      /\ outcomes' = [outcomes EXCEPT ![q] = o] /\ outcomes'[q] = o
      /\ \A x \in ProspectRequests \ {q} : req'[x] = req[x] /\ outcomes'[x] = outcomes[x]
      /\ UNCHANGED <<row, born, events>>
    BY DEF Prospect!InsertOutcome, Prospect!IInv, Prospect!TypeOK
<1>a. /\ req[q].prospect \in Prospects /\ born[req[q].prospect] # None
      /\ req[q].result = req[q].row.stage /\ outcomes[q] = None
      /\ req[q].result \in Prospect!Result
    BY <1>0, ProspectsAssumed
    DEF Prospect!IInv, Prospect!CopiesSound, Prospect!CopySound, Prospect!Request, Prospect!Row
<1>b. Grows
    BY <1>0, <1>a DEF Grows
<1>1. Prospect!TypeOK'
  <2>1. req' \in [ProspectRequests -> Prospect!Request \cup {None}]
      BY <1>0 DEF Prospect!IInv, Prospect!TypeOK, Prospect!Request
  <2>2. o \in Prospect!Outcome
      BY <1>a DEF Prospect!Outcome
  <2>q. QED
      BY <1>0, <2>1, <2>2 DEF Prospect!IInv, Prospect!TypeOK
<1>2. Prospect!ClosedIsRecorded' /\ Prospect!OneProspectPerSource' /\ Prospect!RowsBorn'
    BY <1>0, <1>b, ProspectRecordedForGood
    DEF Prospect!IInv, Prospect!ClosedIsRecorded, Prospect!OneProspectPerSource, Prospect!RowsBorn, Prospect!Exists
<1>4. Prospect!CopiesSound'
  <2> SUFFICES ASSUME NEW x \in ProspectRequests PROVE Prospect!CopySound(x)'
      BY DEF Prospect!CopiesSound
  <2>1. CASE x # q
      BY <1>0, <1>b, <2>1, ProspectCopyStaysSound DEF Prospect!IInv, Prospect!CopiesSound
  <2>2. CASE x = q
      BY <1>0, <1>a, <2>2 DEF Prospect!CopySound, Prospect!Recorded, Prospect!Request
  <2>q. QED
      BY <2>1, <2>2
<1>q. QED
    BY <1>1, <1>2, <1>4 DEF Prospect!IInv

LEMMA ProspectSaveKeepsInv ==
    ASSUME Prospect!IInv, NEW q \in ProspectRequests, Prospect!Save(q)
    PROVE  Prospect!IInv'
<1> DEFINE p == req[q].prospect
           r == req[q].row
<1>0. /\ req[q] # None /\ req[q].at = "save" /\ r \in Prospect!Row /\ p \in Prospects
      /\ Prospect!Accepts(p, r) /\ row' = [row EXCEPT ![p] = r] /\ row'[p] = r
      /\ \A x \in Prospects \ {p} : row'[x] = row[x]
      /\ req' = [req EXCEPT ![q] = None] /\ req'[q] = None
      /\ \A o \in ProspectRequests \ {q} : req'[o] = req[o]
      /\ Prospect!Recorded(p, r.stage) /\ born[p] # None
      /\ UNCHANGED <<born, outcomes, events>>
    BY DEF Prospect!Save, Prospect!Ends, Prospect!IInv, Prospect!TypeOK, Prospect!Request,
       Prospect!CopiesSound, Prospect!CopySound
<1> HIDE DEF p, r
<1>1. Prospect!TypeOK'
    BY <1>0 DEF Prospect!IInv, Prospect!TypeOK
<1>2. Prospect!ClosedIsRecorded'
    BY <1>0 DEF Prospect!IInv, Prospect!ClosedIsRecorded, Prospect!Recorded, Prospect!Exists
<1>3. Prospect!OneProspectPerSource'
    BY <1>0, ProspectAcceptedSource DEF Prospect!IInv
<1>4. Prospect!CopiesSound' /\ Prospect!RowsBorn'
    BY <1>0 DEF Prospect!IInv, Prospect!CopiesSound, Prospect!CopySound, Prospect!Recorded, Prospect!RowsBorn, Prospect!Exists
<1>q. QED
    BY <1>1, <1>2, <1>3, <1>4 DEF Prospect!IInv

-----------------------------------------------------------------------------

LEMMA ProspectInitInv == Prospect!Init => Prospect!IInv
    BY ProspectsAssumed
    DEF Prospect!Init, Prospect!IInv, Prospect!TypeOK, Prospect!ClosedIsRecorded,
        Prospect!OneProspectPerSource,
        Prospect!CopiesSound, Prospect!CopySound, Prospect!RowsBorn,
        Prospect!Exists

LEMMA ProspectNextInv == Prospect!IInv /\ [Prospect!Next]_(Prospect!vars) => Prospect!IInv'
<1> SUFFICES ASSUME Prospect!IInv, [Prospect!Next]_(Prospect!vars) PROVE Prospect!IInv'
    OBVIOUS
<1>1. CASE UNCHANGED Prospect!vars
  <2>1. Prospect!TypeOK'
      BY <1>1 DEF Prospect!vars, Prospect!IInv, Prospect!TypeOK
  <2>q. QED
      BY <1>1, <2>1, ProspectLosingKeepsInv DEF Prospect!vars
<1>2. ASSUME NEW q \in ProspectRequests, NEW p \in Prospects, NEW s \in Prospect!Stage,
             Prospect!UpdateStage(q, p, s)
      PROVE  Prospect!IInv'
  <2>1. [row[p] EXCEPT !.stage = s] \in Prospect!Row
      BY <1>2 DEF Prospect!UpdateStage, Prospect!Exists, Prospect!IInv, Prospect!TypeOK, Prospect!Row
  <2>q. QED
      BY <1>2, <2>1, ProspectUpdateKeepsInv DEF Prospect!UpdateStage
<1>3. CASE \E p \in Prospects : Prospect!Delete(p) \/ \E r \in Prospect!Row : Prospect!Create(p, r)
    BY <1>3, ProspectDeleteKeepsInv, ProspectCreateKeepsInv
<1>4. CASE \E e \in Events : Prospect!DeleteEvent(e)
    BY <1>4, ProspectDeleteEventKeepsInv
<1>5. ASSUME NEW q \in ProspectRequests, Prospect!InsertOutcome(q) \/ Prospect!Save(q) \/ Prospect!Fails(q)
      PROVE Prospect!IInv'
    BY <1>5, ProspectInsertOutcomeKeepsInv, ProspectSaveKeepsInv, ProspectFailsKeepsInv
<1>6. ASSUME NEW q \in ProspectRequests, NEW e \in Events, Prospect!Convert(q, e) PROVE Prospect!IInv'
    BY <1>6, ProspectConvertKeepsInv
<1>7. ASSUME NEW q \in ProspectRequests, NEW p \in Prospects,
             Prospect!InsertConverted(q, p) \/ \E r \in Prospect!Row : Prospect!Update(q, p, r)
      PROVE  Prospect!IInv'
    BY <1>7, ProspectInsertConvertedKeepsInv, ProspectUpdateKeepsInv
<1>q. QED
    BY <1>1, <1>2, <1>3, <1>4, <1>5, <1>6, <1>7 DEF Prospect!Next

-----------------------------------------------------------------------------
(* A playbook as slides: how the deck is put together, and how the viewer is *)
(* moved through it.                                                         *)

\* Slides that begin with a cover; and those that end with a closing slide, too.
Opens(q) == q \in Seq(Deck!Slide) /\ q # <<>> /\ q[1].layout = "cover"
Framed(q) == Opens(q) /\ q[Len(q)].layout = "closing"

DeckInv == content \in Contents /\ idx \in Nat

\* A slide that is added, or not, leaves the first one where it is.
LEMMA OpensStill ==
    ASSUME NEW q, Opens(q), NEW p, NEW s \in Deck!Slide
    PROVE  Opens(q \o Deck!When(p, s))
<1>1. CASE p
    BY <1>1 DEF Deck!When, Opens
<1>2. CASE ~p
    BY <1>2 DEF Deck!When, Opens
<1>q. QED
    BY <1>1, <1>2

LEMMA ClosedIsFramed ==
    ASSUME NEW q, Opens(q), NEW s \in Deck!Slide, s.layout = "closing"
    PROVE  Framed(q \o <<s>>)
    BY DEF Opens, Framed

LEMMA LayoutNames ==
    /\ {"cover", "closing", "statement", "metrics", "pillars", "people", "bullets", "timeline", "steps", "risks"}
           \subseteq Deck!Names
    /\ {"metrics", "cards", "people", "bullets", "plan", "risks"} \subseteq Deck!Kinds
    BY DEF Deck!Names, Deck!Layouts, Deck!Kinds

LEMMA MadeSlides ==
    /\ Deck!NoSpec \in Deck!Slide
    /\ [Deck!NoSpec EXCEPT !.layout = "closing"] \in Deck!Slide
    /\ [Deck!NoSpec EXCEPT !.layout = "closing"].layout = "closing"
    /\ \A l \in Deck!Names : Deck!Told(l) \in Deck!Slide /\ Deck!Told(l).layout = l
    /\ \A l \in Deck!Names, k \in Deck!Kinds, n \in Nat : Deck!Spec1(l, k, n) \in Deck!Slide
<1>1. [k \in Deck!Kinds |-> 0] \in [Deck!Kinds -> Nat]
    OBVIOUS
<1>2. Deck!NoSpec \in Deck!Slide
    BY <1>1, LayoutNames DEF Deck!NoSpec, Deck!Slide
<1>3. ASSUME NEW r \in Deck!Slide, NEW l \in Deck!Names
      PROVE  /\ [r EXCEPT !.layout = l] \in Deck!Slide /\ [r EXCEPT !.layout = l].layout = l
             /\ [r EXCEPT !.layout = l, !.body = 2] \in Deck!Slide
             /\ [r EXCEPT !.layout = l, !.body = 2].layout = l
    BY DEF Deck!Slide
<1>4. ASSUME NEW l \in Deck!Names PROVE Deck!Told(l) \in Deck!Slide /\ Deck!Told(l).layout = l
    BY <1>2, <1>3, Zenon DEF Deck!Told
<1>5. ASSUME NEW r \in Deck!Slide, NEW l \in Deck!Names, NEW k \in Deck!Kinds, NEW n \in Nat
      PROVE  [r EXCEPT !.layout = l, !.n[k] = n, !.text = 2] \in Deck!Slide
    BY DEF Deck!Slide
<1>6. ASSUME NEW l \in Deck!Names, NEW k \in Deck!Kinds, NEW n \in Nat PROVE Deck!Spec1(l, k, n) \in Deck!Slide
    BY <1>2, <1>5, Zenon DEF Deck!Spec1
<1>7. /\ [Deck!NoSpec EXCEPT !.layout = "closing"] \in Deck!Slide
      /\ [Deck!NoSpec EXCEPT !.layout = "closing"].layout = "closing"
  <2>1. "closing" \in Deck!Names
      BY LayoutNames
  <2>q. QED
      BY <2>1, <1>2, <1>3, Zenon
<1>q. QED
    BY <1>2, <1>4, <1>6, <1>7, Zenon

LEMMA LegacyIsFramed == ASSUME NEW c \in Deck!Flat PROVE Framed(Deck!LegacySpecs(c))
<1> DEFINE q0 == <<Deck!Told("cover")>>
           q1 == q0 \o Deck!When(c.summary, Deck!Told("statement"))
           q2 == q1 \o Deck!When(c.metrics >= 2, Deck!Spec1("metrics", "metrics", c.metrics))
           q3 == q2 \o Deck!When(c.diffs >= 2, Deck!Spec1("pillars", "cards", c.diffs))
           q4 == q3 \o Deck!When(c.diffs < 2 /\ c.value, Deck!Told("statement"))
           q5 == q4 \o Deck!When(c.people > 0, Deck!Spec1("people", "people", c.people))
           q6 == q5 \o Deck!When(c.strategy > 0, Deck!Spec1("bullets", "bullets", c.strategy))
           q7 == q6 \o Deck!When(c.plan > 0, Deck!Spec1("timeline", "plan", c.plan))
           q8 == q7 \o Deck!When(c.plan = 0 /\ c.timeline > 0, Deck!Spec1("steps", "bullets", c.timeline))
           q9 == q8 \o Deck!When(c.risks > 0, Deck!Spec1("risks", "risks", c.risks))
           q10 == q9 \o Deck!When(c.actions > 0, Deck!Spec1("steps", "bullets", c.actions))
           end == [Deck!NoSpec EXCEPT !.layout = "closing"]
<1>1. Deck!LegacySpecs(c) = q10 \o <<end>>
    BY DEF Deck!LegacySpecs
<1>2. Opens(q0)
  <2>1. Deck!Told("cover") \in Deck!Slide /\ Deck!Told("cover").layout = "cover"
      BY MadeSlides, LayoutNames
  <2>q. QED
      BY <2>1 DEF Opens
<1>3. end \in Deck!Slide /\ end.layout = "closing"
    BY MadeSlides, LayoutNames, Zenon
<1>4. Deck!Told("statement") \in Deck!Slide
    BY MadeSlides, LayoutNames
<1>5. /\ Deck!Spec1("metrics", "metrics", c.metrics) \in Deck!Slide
      /\ Deck!Spec1("pillars", "cards", c.diffs) \in Deck!Slide
      /\ Deck!Spec1("people", "people", c.people) \in Deck!Slide
      /\ Deck!Spec1("bullets", "bullets", c.strategy) \in Deck!Slide
      /\ Deck!Spec1("timeline", "plan", c.plan) \in Deck!Slide
      /\ Deck!Spec1("steps", "bullets", c.timeline) \in Deck!Slide
      /\ Deck!Spec1("risks", "risks", c.risks) \in Deck!Slide
      /\ Deck!Spec1("steps", "bullets", c.actions) \in Deck!Slide
  <2>2. /\ c.metrics \in Nat /\ c.diffs \in Nat /\ c.people \in Nat /\ c.strategy \in Nat /\ c.plan \in Nat
        /\ c.timeline \in Nat /\ c.risks \in Nat /\ c.actions \in Nat
      BY DEF Deck!Flat
  <2>q. QED
      BY <2>2, MadeSlides, LayoutNames
<1> HIDE DEF q0, q1, q2, q3, q4, q5, q6, q7, q8, q9, q10, end
<1>11. Opens(q1)
    BY <1>2, <1>4, OpensStill, Zenon DEF q1
<1>12. Opens(q2)
    BY <1>11, <1>5, OpensStill, Zenon DEF q2
<1>13. Opens(q3)
    BY <1>12, <1>5, OpensStill, Zenon DEF q3
<1>14. Opens(q4)
    BY <1>13, <1>4, OpensStill, Zenon DEF q4
<1>15. Opens(q5)
    BY <1>14, <1>5, OpensStill, Zenon DEF q5
<1>16. Opens(q6)
    BY <1>15, <1>5, OpensStill, Zenon DEF q6
<1>17. Opens(q7)
    BY <1>16, <1>5, OpensStill, Zenon DEF q7
<1>18. Opens(q8)
    BY <1>17, <1>5, OpensStill, Zenon DEF q8
<1>19. Opens(q9)
    BY <1>18, <1>5, OpensStill, Zenon DEF q9
<1>20. Opens(q10)
    BY <1>19, <1>5, OpensStill, Zenon DEF q10
<1>q. QED
    BY <1>1, <1>3, <1>20, ClosedIsFramed

\* The cover that the agent forgot is put before its slides.
LEMMA CoveredOpens ==
    ASSUME NEW d \in Seq(Deck!Slide), Len(d) >= 3, NEW s \in Deck!Slide, s.layout = "cover"
    PROVE  LET q == Deck!When(d[1].layout # "cover", s) \o d IN Opens(q) /\ q[Len(q)] = d[Len(d)]
<1>1. Len(d) \in Nat /\ d # <<>> /\ d[1] \in Deck!Slide
    OBVIOUS
<1>2. CASE d[1].layout # "cover"
  <2> DEFINE q == <<s>> \o d
  <2>1. Deck!When(d[1].layout # "cover", s) = <<s>>
      BY <1>2 DEF Deck!When
  <2>2. <<s>> \in Seq(Deck!Slide) /\ Len(<<s>>) = 1 /\ <<s>>[1] = s
      OBVIOUS
  <2>3. /\ q \in Seq(Deck!Slide) /\ Len(q) = 1 + Len(d)
        /\ \A i \in 1 .. 1 + Len(d) : q[i] = IF i <= 1 THEN <<s>>[i] ELSE d[i - 1]
      BY <2>2, ConcatProperties
  <2> HIDE DEF q
  <2>4. q # <<>> /\ q[1] = s /\ q[Len(q)] = d[Len(d)]
      BY <1>1, <2>2, <2>3
  <2>q. QED
      BY <2>1, <2>3, <2>4 DEF Opens, q
<1>3. CASE d[1].layout = "cover"
  <2>1. Deck!When(d[1].layout # "cover", s) \o d = d
      BY <1>3, ConcatEmptySeq DEF Deck!When
  <2>q. QED
      BY <1>1, <1>3, <2>1 DEF Opens
<1>q. QED
    BY <1>2, <1>3

\* Whichever slides the agent forgot, those of a playbook begin with a cover and end
\* with a closing slide.
LEMMA SpecsAreFramed ==
    ASSUME NEW c, c.deck \in Seq(Deck!Slide), c.flat \in Deck!Flat
    PROVE  Framed(Deck!ToSpecs(c))
<1>0. Len(c.deck) \in Nat
    OBVIOUS
<1>1. CASE Len(c.deck) < 3
    BY <1>0, <1>1, LegacyIsFramed DEF Deck!ToSpecs
<1>2. CASE Len(c.deck) >= 3
  <2> DEFINE d == c.deck
             cover == Deck!Told("cover")
             end == [Deck!NoSpec EXCEPT !.layout = "closing"]
             q == Deck!When(d[1].layout # "cover", cover) \o d
  <2>1. Deck!ToSpecs(c) = q \o Deck!When(d[Len(d)].layout # "closing", end)
      BY <1>2 DEF Deck!ToSpecs
  <2>2. cover \in Deck!Slide /\ cover.layout = "cover" /\ end \in Deck!Slide /\ end.layout = "closing"
      BY MadeSlides, LayoutNames, Zenon
  <2> HIDE DEF cover, end
  <2>3. Opens(q) /\ q[Len(q)] = d[Len(d)]
      BY <1>2, <2>2, CoveredOpens, Zenon
  <2> HIDE DEF q, d
  <2>4. CASE d[Len(d)].layout # "closing"
      BY <2>1, <2>2, <2>3, <2>4, ClosedIsFramed DEF Deck!When
  <2>5. CASE d[Len(d)].layout = "closing"
    <3>1. Deck!ToSpecs(c) = q \o <<>>
        BY <2>1, <2>5 DEF Deck!When
    <3>2. q \o <<>> = q
        BY <2>3, ConcatEmptySeq DEF Opens
    <3>q. QED
        BY <3>1, <3>2, <2>3, <2>5 DEF Framed
  <2>q. QED
      BY <2>4, <2>5
<1>q. QED
    BY <1>0, <1>1, <1>2

LEMMA FrameStaysInPlace ==
    ASSUME NEW s \in Deck!Slide, s.layout \in {"cover", "closing"}
    PROVE  Deck!ResolveLayout(s) = s.layout
    BY DEF Deck!ResolveLayout, Deck!Layouts

\* What a slide has to say besides its heading is not lost with its layout.
LEMMA SaysSomething ==
    ASSUME NEW s \in Deck!Slide,
           \/ s.n["bullets"] > 0
           \/ s.layout \in Deck!Layouts /\ Deck!Own(s.layout) \in Deck!Kinds /\ s.n[Deck!Own(s.layout)] > 1
           \/ s.layout \in {"statement", "quote"} /\ s.body > 0
    PROVE  LET l == Deck!ResolveLayout(s) IN
           IF Deck!Own(l) \in Deck!Kinds THEN s.n[Deck!Own(l)] > 0 ELSE l \in {"cover", "closing"} \/ s.body > 0
<1>1. /\ s.n \in [Deck!Kinds -> Nat] /\ s.body \in Nat
      /\ \A k \in Deck!Kinds : s.n[k] \in Nat
    BY DEF Deck!Slide
<1>2. /\ "metrics" \in Deck!Kinds /\ "cards" \in Deck!Kinds /\ "people" \in Deck!Kinds /\ "risks" \in Deck!Kinds
      /\ "columns" \in Deck!Kinds /\ "quadrants" \in Deck!Kinds /\ "plan" \in Deck!Kinds /\ "bullets" \in Deck!Kinds
      /\ "statement" \notin Deck!Kinds /\ "quote" \notin Deck!Kinds /\ "cover" \notin Deck!Kinds /\ "closing" \notin Deck!Kinds
    BY DEF Deck!Kinds
<1>3. /\ Deck!Own("pillars") = "cards" /\ Deck!Own("process") = "cards" /\ Deck!Own("bullets") = "bullets"
      /\ Deck!Own("steps") = "bullets" /\ Deck!Own("comparison") = "columns" /\ Deck!Own("matrix") = "quadrants"
      /\ Deck!Own("timeline") = "plan" /\ Deck!Own("metrics") = "metrics" /\ Deck!Own("people") = "people"
      /\ Deck!Own("risks") = "risks" /\ Deck!Own("statement") = "statement" /\ Deck!Own("quote") = "quote"
      /\ Deck!Own("cover") = "cover" /\ Deck!Own("closing") = "closing"
    BY DEF Deck!Own
<1>4. CASE s.layout \in Deck!Layouts
  <2>1. CASE s.layout = "metrics"
      BY <1>1, <1>2, <1>3, <2>1 DEF Deck!ResolveLayout, Deck!BodyElseBullets, Deck!Layouts
  <2>2. CASE s.layout \in {"pillars", "process", "comparison"}
      BY <1>1, <1>2, <1>3, <2>2 DEF Deck!ResolveLayout, Deck!BulletsElseStatement, Deck!Layouts
  <2>3. CASE s.layout \in {"people", "risks", "matrix"}
      BY <1>1, <1>2, <1>3, <2>3 DEF Deck!ResolveLayout, Deck!Layouts
  <2>4. CASE s.layout \in {"timeline", "bullets", "steps"}
      BY <1>1, <1>2, <1>3, <2>4 DEF Deck!ResolveLayout, Deck!Layouts
  <2>5. CASE s.layout \in {"statement", "quote", "cover", "closing"}
      BY <1>1, <1>2, <1>3, <2>5 DEF Deck!ResolveLayout, Deck!Layouts
  <2>q. QED
      BY <1>4, <2>1, <2>2, <2>3, <2>4, <2>5 DEF Deck!Layouts
<1>5. CASE s.layout \notin Deck!Layouts
  <2>1. Deck!ResolveLayout(s) = Deck!ByEntries(s)
      BY <1>5 DEF Deck!ResolveLayout, Deck!Layouts
  <2>2. s.n["bullets"] > 0
      BY <1>5 DEF Deck!Layouts
  <2>q. QED
      BY <1>1, <1>2, <1>3, <2>1, <2>2 DEF Deck!ByEntries, Deck!BulletsElseStatement
<1>q. QED
    BY <1>4, <1>5
LEMMA DeckSizes == ASSUME NEW S PROVE Deck!Cardinality(S) = Cardinality(S)
    BY DEF Deck!Cardinality, Cardinality

\* The slides that are numbered.
Counted(d) == {k \in DOMAIN d : Deck!Numbered(d[k].layout)}

\* What BuildDeck makes of the slides: their layouts, and how far they are counted.
LEMMA BuiltDeck ==
    ASSUME NEW c, c.deck \in Seq(Deck!Slide), c.flat \in Deck!Flat
    PROVE  LET q == Deck!ToSpecs(c)
               d == Deck!BuildDeck(c) IN
           /\ Framed(q) /\ Len(q) \in Nat \ {0} /\ DOMAIN d = 1 .. Len(q) /\ Len(d) = Len(q)
           /\ \A i \in 1 .. Len(q) :
                  /\ q[i] \in Deck!Slide /\ d[i].spec = q[i] /\ d[i].layout = Deck!ResolveLayout(q[i])
                  /\ d[i].num = Cardinality(Counted(d) \cap (1 .. i))
<1> DEFINE q == Deck!ToSpecs(c)
           l == [i \in DOMAIN q |-> Deck!ResolveLayout(q[i])]
           slide(i) == [layout |-> l[i], spec |-> q[i],
                        num |-> Cardinality({k \in 1 .. i : Deck!Numbered(l[k])})]
           d == Deck!BuildDeck(c)
<1>1. Framed(q)
    BY SpecsAreFramed
<1>2. q \in Seq(Deck!Slide) /\ Len(q) \in Nat \ {0} /\ DOMAIN q = 1 .. Len(q)
    BY <1>1 DEF Framed, Opens
<1>3. d = [i \in DOMAIN q |-> slide(i)]
    BY DeckSizes DEF Deck!BuildDeck
<1> HIDE DEF q, d
<1>4. \A i \in 1 .. Len(q) : l[i] = Deck!ResolveLayout(q[i])
    BY <1>2
<1> HIDE DEF l
<1>5. /\ DOMAIN d = 1 .. Len(q)
      /\ \A i \in 1 .. Len(q) :
            /\ d[i].spec = q[i] /\ d[i].layout = l[i]
            /\ d[i].num = Cardinality({k \in 1 .. i : Deck!Numbered(l[k])})
    BY <1>2, <1>3
<1>6. ASSUME NEW i \in 1 .. Len(q)
      PROVE  {k \in 1 .. i : Deck!Numbered(l[k])} = Counted(d) \cap (1 .. i)
  <2>1. \A k \in 1 .. i : k \in DOMAIN d /\ d[k].layout = l[k]
    <3>1. \A k \in 1 .. i : k \in 1 .. Len(q)
        BY <1>2
    <3>2. DOMAIN d = 1 .. Len(q) /\ \A k \in 1 .. Len(q) : d[k].layout = l[k]
        BY <1>5
    <3>q. QED
        BY <3>1, <3>2, Zenon
  <2>q. QED
      BY <2>1 DEF Counted
<1>7. Len(d) = Len(q)
  <2> HIDE DEF slide
  <2>q. QED
      BY <1>2, <1>3
<1>8. \A i \in 1 .. Len(q) : q[i] \in Deck!Slide
    BY <1>2
<1>q. QED
    BY <1>1, <1>2, <1>4, <1>5, <1>6, <1>7, <1>8 DEF q, d

\* Slides that count follow each other in their numbers.
LEMMA CountedInTurn ==
    ASSUME NEW S, NEW n \in Nat, NEW i \in 1 .. n, i \in S
    PROVE  Cardinality(S \cap (1 .. i)) = 1 + IF i = 1 THEN 0 ELSE Cardinality(S \cap (1 .. i - 1))
<1> DEFINE before == S \cap (1 .. i - 1)
<1>1. S \cap (1 .. i) = before \cup {i} /\ i \notin before
    OBVIOUS
<1>2. IsFiniteSet(before)
  <2>1. IsFiniteSet(1 .. i - 1) /\ before \subseteq 1 .. i - 1
      BY FS_Interval
  <2>q. QED
      BY <2>1, FS_Subset
<1>3. Cardinality(before \cup {i}) = Cardinality(before) + 1 /\ Cardinality(before) \in Nat
    BY <1>1, <1>2, FS_AddElement, FS_CardinalityType
<1>4. i = 1 => Cardinality(before) = 0
  <2>1. i = 1 => before = {}
      OBVIOUS
  <2>q. QED
      BY <2>1, FS_EmptySet
<1>q. QED
    BY <1>1, <1>3, <1>4

LEMMA DeckHolds ==
    ASSUME Deck!SlidesAssumption, DeckInv
    PROVE  Deck!DeckIsFramed /\ Deck!NoSlideIsBlank /\ Deck!ViewerShowsASlide
<1> DEFINE q == Deck!ToSpecs(content)
           d == Deck!Deck
<1>1. content.deck \in Seq(Deck!Slide) /\ content.flat \in Deck!Flat
    BY DEF Deck!SlidesAssumption, DeckInv
<1>2. /\ Framed(q) /\ Len(q) \in Nat \ {0} /\ DOMAIN d = 1 .. Len(q) /\ Len(d) = Len(q)
      /\ \A i \in 1 .. Len(q) :
            /\ q[i] \in Deck!Slide /\ d[i].spec = q[i] /\ d[i].layout = Deck!ResolveLayout(q[i])
            /\ d[i].num = Cardinality(Counted(d) \cap (1 .. i))
    BY <1>1, BuiltDeck, Zenon DEF Deck!Deck
<1> HIDE DEF q, d
<1>3. Deck!DeckIsFramed
  <2>1. q[1].layout = "cover" /\ q[Len(q)].layout = "closing"
      BY <1>2 DEF Framed, Opens
  <2>2. d[1].layout = "cover" /\ d[Len(d)].layout = "closing"
    <3>1. 1 \in 1 .. Len(q) /\ Len(q) \in 1 .. Len(q)
        BY <1>2
    <3>q. QED
        BY <1>2, <2>1, <3>1, FrameStaysInPlace
  <2>3. ASSUME NEW i \in DOMAIN d, Deck!Numbered(d[i].layout)
        PROVE  d[i].num = 1 + IF i = 1 THEN 0 ELSE d[i - 1].num
    <3>1. Len(q) \in Nat /\ i \in 1 .. Len(q) /\ i \in Counted(d)
        BY <1>2, <2>3 DEF Counted
    <3>2. Cardinality(Counted(d) \cap (1 .. i)) = 1 + IF i = 1 THEN 0 ELSE Cardinality(Counted(d) \cap (1 .. i - 1))
        BY <3>1, CountedInTurn
    <3>3. i # 1 => i - 1 \in 1 .. Len(q)
        BY <3>1
    <3>q. QED
        BY <1>2, <3>1, <3>2, <3>3
  <2>q. QED
      BY <2>2, <2>3 DEF Deck!DeckIsFramed, d
<1>4. Deck!NoSlideIsBlank
  <2> SUFFICES ASSUME NEW i \in DOMAIN d,
                      LET s == d[i].spec IN
                      \/ s.n["bullets"] > 0
                      \/ s.layout \in Deck!Layouts /\ Deck!Own(s.layout) \in Deck!Kinds /\ s.n[Deck!Own(s.layout)] > 1
                      \/ s.layout \in {"statement", "quote"} /\ s.body > 0
               PROVE  LET s == d[i].spec
                          l == d[i].layout IN
                      IF Deck!Own(l) \in Deck!Kinds THEN s.n[Deck!Own(l)] > 0
                      ELSE l \in {"cover", "closing"} \/ s.body > 0
      BY Zenon DEF Deck!NoSlideIsBlank, d
  <2>1. i \in 1 .. Len(q) /\ q[i] \in Deck!Slide /\ d[i].spec = q[i] /\ d[i].layout = Deck!ResolveLayout(q[i])
      BY <1>2
  <2>q. QED
      BY <2>1, SaysSomething, Zenon
<1>5. Deck!ViewerShowsASlide
    BY <1>2 DEF DeckInv, Deck!ViewerShowsASlide, Deck!SafeIdx, Deck!Least, Deck!Most, d
<1>q. QED
    BY <1>3, <1>4, <1>5

LEMMA DeckInit == Deck!Init => DeckInv
    BY DEF Deck!Init, DeckInv

LEMMA DeckNext == ASSUME Deck!SlidesAssumption, DeckInv, [Deck!Next]_(Deck!vars) PROVE DeckInv'
<1>1. Len(Deck!Deck) \in Nat \ {0}
  <2>1. content.deck \in Seq(Deck!Slide) /\ content.flat \in Deck!Flat
      BY DEF Deck!SlidesAssumption, DeckInv
  <2>q. QED
      BY <2>1, BuiltDeck, Zenon DEF Deck!Deck
<1>2. CASE Deck!NextSlide \/ Deck!PrevSlide \/ Deck!PickSlide
    BY <1>1, <1>2 DEF DeckInv, Deck!NextSlide, Deck!PrevSlide, Deck!PickSlide, Deck!SafeIdx, Deck!Least, Deck!Most
<1>3. CASE Deck!Revised
    BY <1>3 DEF DeckInv, Deck!Revised, Deck!SlidesAssumption
<1>4. CASE UNCHANGED Deck!vars
    BY <1>4 DEF DeckInv, Deck!vars
<1>q. QED
    BY <1>2, <1>3, <1>4 DEF Deck!Next

-----------------------------------------------------------------------------
(* The scenes.  A behaviour keeps to one, whose module it follows.              *)

ServicesInv ==
    /\ scene = "tenders" => Tender!IInv
    /\ scene = "prospects" => Prospect!IInv
    /\ scene = "signin" => Sign!TypeOK /\ SignInv /\ TriesAnew
    /\ scene = "console" => ConsoleInv
    /\ scene = "settings" => SettingsInv /\ BringsOwn
    /\ scene = "invites" => Mailing!TypeOK /\ MailingInv /\ ClearIsGone
    /\ scene = "deck" => DeckInv

LEMMA SceneSteps ==
    ASSUME [Next]_vars
    PROVE  /\ scene' = scene
           /\ scene = "tenders" => [Tender!Next]_(Tender!vars)
           /\ scene = "prospects" => [Prospect!Next]_(Prospect!vars)
           /\ scene = "signin" => [Sign!Next]_(Sign!vars)
           /\ scene = "console" => [Console!Next]_(Console!vars)
           /\ scene = "settings" => [Settings!Next]_(Settings!vars)
           /\ scene = "invites" => [Mailing!Next]_(Mailing!vars)
           /\ scene = "deck" => [Deck!Next]_(Deck!vars)
<1>1. CASE UNCHANGED vars
    BY <1>1 DEF vars, salesVars, tenderVars, prospectVars, signinVars, consoleVars, settingsVars, invitesVars, deckVars,
                Tender!vars, Tender!tables, Prospect!vars, Sign!vars, Sign!storeVars, Sign!serverVars,
                Console!vars, Console!pageVars, Console!rowVars, Settings!vars, Mailing!vars, Deck!vars
<1>2. CASE Next
    BY <1>2 DEF Next
<1>q. QED
    BY <1>1, <1>2

LEMMA ServicesInit == Init => ServicesInv
<1> SUFFICES ASSUME Init PROVE ServicesInv
    OBVIOUS
<1>1. ASSUME scene = "tenders" PROVE Tender!IInv
    BY <1>1, TenderInitInv DEF Init
<1>2. ASSUME scene = "prospects" PROVE Prospect!IInv
    BY <1>2, ProspectInitInv DEF Init
<1>3. ASSUME scene = "signin" PROVE Sign!TypeOK /\ SignInv /\ TriesAnew
  <2>1. Sign!Init /\ Sign!SignInAssumption
      BY <1>3, ServicesAssumption DEF Init
  <2>2. PICK b \in SignInBounds : Sign!Starts(b)
      BY <2>1 DEF Sign!Init
  <2>3. b.users \subseteq Users /\ faults \in 0 .. MaxFaults /\ 1 \in Sign!Tokens /\ None \notin Users
      BY <2>1, <2>2 DEF Sign!SignInAssumption, Sign!Starts, Sign!Tokens
  <2>4. Sign!TypeOK
      BY <2>1, <2>2, <2>3 DEF Sign!Init, Sign!Starts, Sign!TypeOK, Sign!CallState, Sign!NewCall
  <2>5. TriesAnew
      BY <2>1, <2>2, <2>3 DEF Sign!Init, Sign!Starts, TriesAnew, Sign!Under, Sign!NewCall
  <2>q. QED
      BY <2>1, <2>4, <2>5, SignInit
<1>4. ASSUME scene = "console" PROVE ConsoleInv
    BY <1>4, ConsoleInit, ServicesAssumption DEF Init
<1>5. ASSUME scene = "settings" PROVE SettingsInv /\ BringsOwn
  <2>1. Settings!Init
      BY <1>5 DEF Init
  <2>q. QED
      BY <2>1, SettingsInit DEF Settings!Init, BringsOwn, Settings!UnderWay
<1>6. ASSUME scene = "invites" PROVE Mailing!TypeOK /\ MailingInv /\ ClearIsGone
  <2>1. Mailing!Init
      BY <1>6 DEF Init
  <2>2. Mailing!TypeOK /\ MailingInv
      BY <2>1, MailingInit, MailingTypesInit, ServicesAssumption
  <2>q. QED
      BY <2>1, <2>2 DEF Mailing!Init, ClearIsGone
<1>7. ASSUME scene = "deck" PROVE DeckInv
    BY <1>7, DeckInit DEF Init
<1>q. QED
    BY <1>1, <1>2, <1>3, <1>4, <1>5, <1>6, <1>7 DEF ServicesInv

LEMMA ServicesNext == ASSUME ServicesInv, [Next]_vars PROVE ServicesInv'
<1>1. ASSUME scene = "tenders" PROVE Tender!IInv'
    BY <1>1, SceneSteps, TenderNextInv DEF ServicesInv
<1>2. ASSUME scene = "prospects" PROVE Prospect!IInv'
    BY <1>2, SceneSteps, ProspectNextInv DEF ServicesInv
<1>3. ASSUME scene = "signin" PROVE Sign!TypeOK' /\ SignInv' /\ TriesAnew'
    BY <1>3, SceneSteps, SignTypeStays, SignNext, TriesAnewStays, ServicesAssumption DEF ServicesInv
<1>4. ASSUME scene = "console" PROVE ConsoleInv'
    BY <1>4, SceneSteps, ConsoleNext, ServicesAssumption DEF ServicesInv
<1>5. ASSUME scene = "settings" PROVE SettingsInv' /\ BringsOwn'
    BY <1>5, SceneSteps, SettingsNext, BringsOwnStays DEF ServicesInv, SettingsInv
<1>6. ASSUME scene = "invites" PROVE Mailing!TypeOK' /\ MailingInv' /\ ClearIsGone'
    BY <1>6, SceneSteps, MailingTypesStay, MailingNext, ClearStaysGone, ServicesAssumption
    DEF ServicesInv, MailingInv
<1>7. ASSUME scene = "deck" PROVE DeckInv'
    BY <1>7, SceneSteps, DeckNext, ServicesAssumption DEF ServicesInv
<1>q. QED
    BY <1>1, <1>2, <1>3, <1>4, <1>5, <1>6, <1>7, SceneSteps DEF ServicesInv

LEMMA ServicesInvariance == Spec => []ServicesInv
    BY ServicesInit, ServicesNext, PTL DEF Spec

\* Whatever requests, failures, crashes and restarts do, the state of each service,
\* and of what the browser keeps of it, has its types.
THEOREM ServicesTyped == Spec => []TypeOK
<1>1. ASSUME ServicesInv PROVE TypeOK
    BY <1>1 DEF ServicesInv, TypeOK, Tender!IInv, Prospect!IInv, ConsoleInv, SettingsInv
<1>q. QED
    BY <1>1, ServicesInvariance, PTL

\* Every project has a recorded win of its own tender behind it, a score shown on a
\* tender is in that tender's history, and no prospect is won or lost behind the back
\* of the outcomes: for every number of requests, however they overlap and fail.
THEOREM NothingIsLost == Spec => []RecordsComplete
<1>1. ASSUME ServicesInv PROVE RecordsComplete
    BY <1>1 DEF ServicesInv, RecordsComplete, Tender!IInv, Prospect!IInv
<1>q. QED
    BY <1>1, ServicesInvariance, PTL

\* No tender gets a second project unless two requests held it at once or a PUT took
\* it out of WON; no event, and no other source, has two prospects.
THEOREM SourcesKeepOne == Spec => []OnePerSource
<1>1. ASSUME ServicesInv PROVE OnePerSource
    BY <1>1, TenderOneProject DEF ServicesInv, OnePerSource, Prospect!IInv
<1>q. QED
    BY <1>1, ServicesInvariance, PTL

\* However logins, refreshes, requests, sweeps, crashes and restarts interleave,
\* token, user and calls are one person's; a console that is shown has its session
\* and its cookie, and the audit its ends; the bridge uses the active configuration;
\* and an invitation has one mail for its row: but for the listed causes.
THEOREM ServicesStayInStep == Spec => []ServicesAgree
<1>1. ASSUME ServicesInv PROVE ServicesAgree
  <2>1. SignInv => Sign!OneIdentity
      BY DEF SignInv, EmptyIsQuiet, AllIsTheUsers, Sign!OneIdentity
  <2>2. ConsoleInv => Console!ConsoleIsLive /\ Console!AuditTells
      BY DEF ConsoleInv, FrameHolds, RowsFollow, Console!ConsoleIsLive
  <2>3. SettingsInv => Settings!BridgeFollows
      BY DEF SettingsInv, InStep, Settings!BridgeFollows
  <2>4. MailingInv => Mailing!MailedAgainForACause
      BY DEF MailingInv
  <2>q. QED
      BY <1>1, <2>1, <2>2, <2>3, <2>4 DEF ServicesInv, ServicesAgree
<1>q. QED
    BY <1>1, ServicesInvariance, PTL

\* Whatever the agent has designed or left out, however many entries of each kind, and
\* however the viewer is moved while the deck changes: a deck has its cover, its
\* closing slide and its numbers in turn, no slide loses what it was given to say,
\* and the viewer shows a slide of it.
THEOREM DecksAreWhole == Spec => []DecksHold
<1>1. ASSUME ServicesInv PROVE DecksHold
    BY <1>1, DeckHolds, ServicesAssumption DEF ServicesInv, DecksHold
<1>q. QED
    BY <1>1, ServicesInvariance, PTL

\* No step signs the user out but for one of four causes, changes the key by an
\* update that brought none, or mails what was cancelled while no sweep held it.
THEOREM CausesHold == Spec => NothingUnasked
<1> DEFINE A == /\ scene = "signin" => Sign!SignsOutForACause
                /\ scene = "settings" => Settings!KeyIsKept
                /\ scene = "invites" => Mailing!CancelStopsTheMail
<1>1. ASSUME ServicesInv, [Next]_vars PROVE A
  <2>1. scene = "signin" => Sign!SignsOutForACause
      BY <1>1, SceneSteps, LeavesForACause, ServicesAssumption DEF ServicesInv
  <2>2. scene = "settings" => Settings!KeyIsKept
      BY <1>1, SceneSteps, KeyStays DEF ServicesInv
  <2>3. scene = "invites" => Mailing!CancelStopsTheMail
      BY <1>1, SceneSteps, ClearStaysGone DEF ServicesInv, MailingInv, Mailing!CancelStopsTheMail
  <2>q. QED
      BY <2>1, <2>2, <2>3
<1>2. ServicesInv /\ [Next]_vars => [A]_vars
    BY <1>1
<1>3. Spec => [][A]_vars
  <2> HIDE DEF A
  <2>q. QED
      BY <1>2, ServicesInvariance, PTL DEF Spec
<1>q. QED
    BY <1>3 DEF NothingUnasked
================================================================================
